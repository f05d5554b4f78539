----------------------------- MODULE MCFoxGroups -----------------------------
(* A day of six half hours, of which four are dispatched.                     *)
EXTENDS FoxGroups

MCFill == [mode |-> "ForceCharge", fd |-> 2]
MCHold == [mode |-> "ForceCharge", fd |-> 1]
MCKeys == {SelfUse, MCFill, MCHold}

Changes(p) == Cardinality({i \in 2..Slots : p[i] # p[i - 1]})
\* Plans that change once, and idle gaps and single charges between.
MCPlans ==
  {p \in [1..Slots -> MCKeys] : Changes(p) <= 1}
    \cup {p \in [1..Slots -> {SelfUse, MCFill}] : Changes(p) = 2}
=============================================================================
