------------------------------- MODULE RatePlan -------------------------------
(***************************************************************************)
(* What planning promises of the day-ahead rates, whatever the threads do: *)
(* rates that have landed stay, the committed plan is made from landed     *)
(* rates, and while solves are in order it never goes back to older ones.  *)
(* A version counts the days' batches of one kind of rate.                 *)
(***************************************************************************)
EXTENDS Naturals

CONSTANT Rates

VARIABLES
  landed,   \* the newest version of each rate in the database
  planned,  \* the version of each rate the committed plan was made from
  orderly   \* no solve has gone ahead without waiting for its turn

Versions == [Rates -> Nat]

\* u is nowhere newer than v.
Below(u, v) == \A r \in Rates : u[r] <= v[r]

Init ==
  /\ landed \in Versions /\ planned \in Versions /\ Below(planned, landed)
  /\ orderly = TRUE

Land ==
  /\ landed' \in Versions /\ Below(landed, landed')
  /\ UNCHANGED <<planned, orderly>>

Plan ==
  /\ planned' \in Versions /\ Below(planned', landed)
  /\ orderly => Below(planned, planned')
  /\ UNCHANGED <<landed, orderly>>

\* Order is lost when a solve does not wait, and comes back with a restart.
Order == orderly' \in BOOLEAN /\ UNCHANGED <<landed, planned>>

Next == Land \/ Plan \/ Order

Spec == Init /\ [][Next]_<<landed, planned, orderly>>
=============================================================================
