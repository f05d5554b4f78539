---------------------------- MODULE DispatchProofs ----------------------------
(***************************************************************************)
(* What TLAPS proves of Dispatch, for any event and manual threads and any *)
(* number of batches and troubles. The inductive invariant IInv says where *)
(* the committed plan comes from (Sound), that who solves holds the lock   *)
(* (Held), and that what a solve has read is no older than the plan it is  *)
(* going to replace (InOrder). The proofs of the properties about the      *)
(* plan rest on lemmas about four kinds of step: quiet ones, the read, the *)
(* solution and the end of a solve.                                        *)
(***************************************************************************)
EXTENDS Dispatch, TLAPS

----------------------------------------------------------------------------
(* Types *)

\* The places a thread can be in.
LEMMA PlacesKnown ==
  {"idle", "fetch", "import", "export", "enter", "wait", "prices", "commit",
   "gap", "outgoing", "solved", "skipped"} \subseteq Places
BY DEF Places

\* A thread goes to a place.
LEMMA GoesType ==
  ASSUME TypeOK, NEW t \in Jobs, NEW p \in Places, Goes(t, p)
  PROVE  pc' \in [Jobs -> Places]
BY DEF TypeOK, Goes

\* Versions stay versions when one changes.
LEMMA VersionsType ==
  ASSUME NEW v \in Versions, NEW r \in Rates, NEW n \in 0..MaxDay
  PROVE  [v EXCEPT ![r] = n] \in Versions
BY DEF Versions

\* A version is a number up to MaxDay.
LEMMA AVersion ==
  ASSUME NEW v \in Versions, NEW r \in Rates
  PROVE  v[r] \in 0..MaxDay
BY DEF Versions

\* Having read nothing is a version of each rate.
LEMMA NoRatesType == NoRates \in Versions
BY BoundsAssumption DEF Versions, NoRates

\* A solve that reads the rates (optimizer.py:1938) has read versions.
LEMMA ReadsType ==
  ASSUME TypeOK, NEW t \in Jobs, ReadsRates(t)
  PROVE  got' \in [Jobs -> Versions] /\ pc' \in [Jobs -> Places]
<1>1. [r \in Rates |-> IF r = "import" THEN stored[r] ELSE 0] \in Versions
  BY BoundsAssumption DEF TypeOK, Versions
<1>2. pc' \in [Jobs -> Places]
  BY GoesType, PlacesKnown DEF ReadsRates
<1> QED BY <1>1, <1>2 DEF TypeOK, ReadsRates

\* Releasing the dispatch lock leaves a holder, or nobody.
LEMMA UnlocksType ==
  ASSUME TypeOK, NEW t \in Jobs, Unlocks(t)
  PROVE  lock' \in Jobs \cup {Nobody} /\ got' \in [Jobs -> Versions]
BY NoRatesType DEF TypeOK, Unlocks

\* A solve that comes back takes its thread to a place, and frees the fetch lock.
LEMMA ReturnsType ==
  ASSUME TypeOK, NEW t \in Jobs, NEW p \in {"solved", "skipped"}, Returns(t, p)
  PROVE  pc' \in [Jobs -> Places] /\ fetching' \in Jobs \cup {Nobody}
<1>1. (IF t = "retry" THEN p ELSE "idle") \in Places
  BY DEF Places
<1> QED BY <1>1, GoesType DEF TypeOK, Returns, StopsFetching

\* Troubles stay within their bound.
LEMMA TroubleType ==
  ASSUME TypeOK, Trouble
  PROVE  troubles' \in 0..MaxTroubles
BY BoundsAssumption DEF TypeOK, Trouble

\* Every step keeps every variable in its type.
LEMMA TypeStep ==
  ASSUME TypeOK, [Next]_vars
  PROVE  TypeOK'
<1> USE PlacesKnown DEF world, octopus, At
<1>a. "retry" \in Jobs /\ "daily" \in Jobs /\ "push" \in Jobs /\ "import" \in Rates /\ "export" \in Rates
  BY DEF Jobs, Rates
<1>1. ASSUME NEW r \in Rates, Publish(r) PROVE TypeOK'
  <2>1. pub[r] + 1 \in 0..MaxDay
    BY <1>1, <1>a, AVersion, BoundsAssumption DEF Publish, TypeOK
  <2> QED BY <1>1, <2>1, VersionsType DEF Publish, TypeOK
<1>2. CASE FetchHour
  <2>1. day' \in 1..MaxDay
    BY <1>2, BoundsAssumption DEF FetchHour, TypeOK
  <2>2. pc' \in [Jobs -> Places]
    BY <1>2, <1>a, GoesType DEF FetchHour, TypeOK
  <2> QED BY <1>2, <2>1, <2>2 DEF FetchHour, TypeOK
<1>3. CASE CooldownElapses BY <1>3 DEF CooldownElapses, TypeOK
<1>4. CASE GiveUp
  BY <1>4, <1>a, ReadsType DEF GiveUp, TypeOK
<1>5. CASE RetryStreak BY <1>5, <1>a, GoesType DEF RetryStreak, Errands, TypeOK
<1>6. CASE RetryTick BY <1>6, <1>a, GoesType DEF RetryTick, Errands, TypeOK
<1>7. CASE Probe BY <1>7, <1>a, GoesType DEF Probe, Errands, TypeOK
<1>8. CASE NoProbe BY <1>8, <1>a, GoesType DEF NoProbe, TypeOK
<1>9. CASE RetryExport
  <2>1. stored' \in Versions /\ troubles' \in 0..MaxTroubles
    BY <1>9, <1>a, VersionsType, AVersion, TroubleType DEF RetryExport, TypeOK
  <2>2. pending' \in Versions
    BY <1>9, <1>a, <2>1, VersionsType, AVersion DEF RetryExport, TypeOK, Raised
  <2>3. pc' \in [Jobs -> Places] /\ errand' \in Errands
    BY <1>9, <1>a, GoesType DEF RetryExport, TypeOK, Errands
  <2>4. UNCHANGED <<day, pub, streak, plan, lock, fetching, cooling, got, stuck, serial>>
    BY <1>9 DEF RetryExport
  <2> QED BY <2>1, <2>2, <2>3, <2>4 DEF TypeOK
<1>10. CASE RetryReturns
  <2>1. pending' \in Versions
    <3>1. \/ pending' = pending
          \/ errand \in Rates /\ pending' = [pending EXCEPT ![errand] = 0]
          \/ pending' = [pending EXCEPT !["import"] = stored["import"]]
      BY <1>10, Zenon DEF RetryReturns, Lowered, Raised
    <3> QED BY <3>1, <1>a, VersionsType, AVersion, BoundsAssumption DEF TypeOK
  <2>2. pc' \in [Jobs -> Places] /\ errand' \in Errands
    BY <1>10, <1>a, GoesType DEF RetryReturns, Errands
  <2> QED BY <1>10, <2>1, <2>2 DEF RetryReturns, TypeOK
<1>11. CASE Restart
  <2>1. pc' \in [Jobs -> Places] /\ got' \in [Jobs -> Versions]
    BY <1>11, NoRatesType DEF Restart, Boot
  <2> QED BY <1>11, <2>1, NoRatesType, TroubleType DEF Restart, TypeOK, Errands
<1>12. ASSUME NEW t \in Jobs, TryFetch(t) PROVE TypeOK'
  <2>1. pc' \in [Jobs -> Places]
    BY <1>12, GoesType DEF TryFetch
  <2> QED BY <1>12, <2>1 DEF TryFetch, Drops, Errands, TypeOK
<1>13. ASSUME NEW t \in Jobs, FetchImport(t) PROVE TypeOK'
  <2>1. pc' \in [Jobs -> Places]
    BY <1>13, GoesType DEF FetchImport
  <2>2. stored' \in Versions
    BY <1>13, <1>a, VersionsType, AVersion DEF FetchImport, TypeOK
  <2>3. errand' \in Errands /\ fetching' \in Jobs \cup {Nobody} /\ streak' \in BOOLEAN
    BY <1>13 DEF FetchImport, TypeOK, Drops, StopsFetching, Errands
  <2> QED BY <1>13, <2>1, <2>2, <2>3, TroubleType DEF FetchImport, TypeOK
<1>14. ASSUME NEW t \in Jobs, FetchExport(t) PROVE TypeOK'
  <2>1. pc' \in [Jobs -> Places]
    BY <1>14, GoesType DEF FetchExport
  <2>2. stored' \in Versions
    BY <1>14, <1>a, VersionsType, AVersion DEF FetchExport, TypeOK
  <2> QED BY <1>14, <2>1, <2>2, TroubleType DEF FetchExport, TypeOK
<1>15. ASSUME NEW t \in Jobs, Enter(t) PROVE TypeOK'
  <2>1. CASE ~cooling /\ MayTake(t)
    BY <1>15, <2>1, ReadsType DEF Enter, TypeOK
  <2>2. CASE ~(~cooling /\ MayTake(t))
    BY <1>15, <2>2, ReturnsType DEF Enter, TypeOK
  <2> QED BY <2>1, <2>2
<1>16. ASSUME NEW t \in Jobs, TakeLock(t) PROVE TypeOK'
  BY <1>16, ReadsType DEF TakeLock, TypeOK
<1>17. ASSUME NEW t \in Jobs, Solve(t) PROVE TypeOK'
  <2>1. CASE Fails(t)
    BY <1>17, <2>1, UnlocksType, ReturnsType, TroubleType DEF Solve, Fails, TypeOK
  <2>2. CASE ~Fails(t)
    <3>1. [got[t] EXCEPT !["export"] = stored["export"]] \in Versions
      BY <1>a, VersionsType, AVersion DEF TypeOK
    <3>2. pc' \in [Jobs -> Places]
      BY <1>17, <2>2, GoesType DEF Solve
    <3>3. got' = [got EXCEPT ![t] = [got[t] EXCEPT !["export"] = stored["export"]]]
      BY <1>17, <2>2 DEF Solve, TypeOK
    <3> QED BY <1>17, <2>2, <3>1, <3>2, <3>3 DEF Solve, TypeOK
  <2> QED BY <2>1, <2>2
<1>18. ASSUME NEW t \in Jobs, Commit(t) PROVE TypeOK'
  <2>1. CASE Fails(t)
    BY <1>18, <2>1, UnlocksType, ReturnsType, TroubleType DEF Commit, Fails, TypeOK
  <2>2. CASE ~Fails(t)
    <3>1. cooling' \in BOOLEAN BY <1>18, <2>2, Zenon DEF Commit
    <3> QED BY <1>18, <2>2, <3>1, UnlocksType, ReturnsType DEF Commit, TypeOK
  <2> QED BY <2>1, <2>2
<1>19. ASSUME NEW t \in Jobs, Trigger(t) PROVE TypeOK'
  BY <1>19, GoesType DEF Trigger, TypeOK
<1>20. ASSUME NEW t \in Jobs, FetchAndPlan(t) PROVE TypeOK'
  BY <1>20, <1>a, GoesType, VersionsType, AVersion, TroubleType DEF FetchAndPlan, TypeOK
<1>21. ASSUME NEW t \in Jobs, GetStuck(t) PROVE TypeOK'
  BY <1>21, TroubleType DEF GetStuck, TypeOK
<1>22. ASSUME NEW t \in Jobs, GetUnstuck(t) PROVE TypeOK'
  BY <1>22 DEF GetUnstuck, TypeOK
<1>23. CASE UNCHANGED vars BY <1>23 DEF vars, TypeOK
<1> QED BY <1>1, <1>2, <1>3, <1>4, <1>5, <1>6, <1>7, <1>8, <1>9, <1>10, <1>11, <1>12, <1>13, <1>14, <1>15, <1>16, <1>17, <1>18, <1>19, <1>20, <1>21, <1>22, <1>23 DEF Next, Retries, Step

----------------------------------------------------------------------------
Below(u, v) == \A r \in Rates : u[r] <= v[r]

\* Who solves holds the lock, but for the push that stopped waiting.
Held == \A t \in Jobs : Solving(t) => lock = t \/ (t = "push" /\ ~serial)

\* Plans come from reads, reads from stored rates, stored rates from Octopus.
Sound ==
  /\ Below(plan, stored) /\ Below(stored, pub)
  /\ \A t \in Jobs : pc[t] = "prices" => got[t]["import"] <= stored["import"]
  /\ \A t \in Jobs : pc[t] = "commit" => Below(got[t], stored)

\* While solves are in order, what a solve has read is no older than the plan.
InOrder ==
  serial => \A t \in Jobs : /\ pc[t] = "prices" => plan["import"] <= got[t]["import"]
                            /\ pc[t] = "commit" => Below(plan, got[t])

IInv == Held /\ Sound /\ InOrder

\* Every variable keeps its type: the threads stay in their places, the locks are
\* held by threads, the plan, the flags and the reads are versions Octopus has
\* published.
THEOREM TypeCorrect == Spec => []TypeOK
<1>1. Init => TypeOK
  <2> SUFFICES ASSUME Init PROVE TypeOK
    OBVIOUS
  <2>1. [r \in Rates |-> 1] \in Versions
    BY BoundsAssumption DEF Versions
  <2>2. \A t \in Jobs : Boot(t) \in Places
    BY PlacesKnown DEF Boot
  <2>3. pc \in [Jobs -> Places] /\ got \in [Jobs -> Versions]
    BY <2>2, NoRatesType DEF Init
  <2>4. day \in 1..MaxDay /\ troubles \in 0..MaxTroubles
    BY BoundsAssumption DEF Init
  <2> QED BY <2>1, <2>3, <2>4, NoRatesType DEF Init, TypeOK, Errands
<1> QED BY <1>1, TypeStep, PTL DEF Spec

\* The boot satisfies the invariant.
LEMMA InvInit == Init => IInv
<1>1. \A t \in Jobs : Boot(t) \in {"fetch", "idle"}
  BY DEF Boot
<1> QED BY <1>1 DEF Init, IInv, Held, Sound, InOrder, Below, Solving, NoRates

\* Storing what Octopus has published.
LEMMA StoreStep ==
  ASSUME TypeOK, IInv, UNCHANGED pub, NEW r \in Rates,
         stored' = [stored EXCEPT ![r] = pub[r]] \/ stored' = stored
  PROVE  Below(stored, stored') /\ Below(stored', pub')
<1>1. \A s \in Rates : stored[s] \in Nat /\ pub[s] \in Nat /\ stored[s] <= pub[s]
  BY AVersion DEF IInv, Sound, Below, TypeOK
<1>2. \A s \in Rates : stored'[s] \in {stored[s], pub[s]}
  BY DEF TypeOK, Versions
<1> QED BY <1>1, <1>2 DEF Below

\* A step that neither takes the lock, reads nor commits.
LEMMA QuietStep ==
  ASSUME TypeOK, TypeOK', IInv, UNCHANGED <<plan, got, serial, lock>>,
         \A t \in Jobs : pc'[t] \in {"prices", "commit"} => pc'[t] = pc[t],
         Below(stored, stored'), Below(stored', pub')
  PROVE  IInv'
<1>1. Held'
  BY DEF IInv, Held, Solving
<1>2. Sound'
  <2>1. Below(plan', stored')
    BY AVersion DEF IInv, Sound, Below, TypeOK
  <2>2. "import" \in Rates
    BY DEF Rates
  <2>3. \A t \in Jobs : pc'[t] = "prices" => got'[t]["import"] <= stored'["import"]
    BY <2>2, AVersion DEF IInv, Sound, Below, TypeOK
  <2>4. \A t \in Jobs : pc'[t] = "commit" => Below(got'[t], stored')
    BY AVersion DEF IInv, Sound, Below, TypeOK
  <2> QED BY <2>1, <2>3, <2>4 DEF Sound
<1>3. InOrder'
  BY DEF IInv, InOrder, Below
<1> QED BY <1>1, <1>2, <1>3 DEF IInv

\* A solve begins: it reads the stored import rates.
LEMMA ReadStep ==
  ASSUME TypeOK, TypeOK', IInv, NEW t \in Jobs, ReadsRates(t),
         UNCHANGED <<plan, stored, pub>>,
         \/ lock = Nobody /\ lock' = t /\ serial' = serial
         \/ t = "push" /\ lock' = lock /\ serial' = FALSE
  PROVE  IInv'
<1>1. Held'
  BY JobsAssumption DEF IInv, Held, Solving, ReadsRates, Goes, TypeOK, Jobs
<1>2. got'[t]["import"] = stored["import"] /\ "import" \in Rates
  BY DEF ReadsRates, TypeOK, Rates
<1>3. \A u \in Jobs \ {t} : got'[u] = got[u] /\ pc'[u] = pc[u]
  BY DEF ReadsRates, Goes, TypeOK
<1>4. pc'[t] = "prices"
  BY DEF ReadsRates, Goes, TypeOK
<1>5. Sound'
  BY <1>2, <1>3, <1>4, AVersion DEF IInv, Sound, Below, TypeOK
<1>6. InOrder'
  BY <1>2, <1>3, <1>4, AVersion DEF IInv, Sound, InOrder, Below, TypeOK
<1> QED BY <1>1, <1>5, <1>6 DEF IInv

\* The export prices are read, and the problem is solved.
LEMMA SolvedStep ==
  ASSUME TypeOK, TypeOK', IInv, NEW t \in Jobs, pc[t] = "prices", Goes(t, "commit"),
         got' = [got EXCEPT ![t]["export"] = stored["export"]],
         UNCHANGED <<plan, stored, pub, lock, serial>>
  PROVE  IInv'
<1>1. \A u \in Jobs \ {t} : got'[u] = got[u] /\ pc'[u] = pc[u]
  BY DEF Goes, TypeOK
<1>2. pc'[t] = "commit"
  BY DEF Goes, TypeOK
<1>3. /\ got'[t]["import"] = got[t]["import"] /\ got'[t]["export"] = stored["export"]
      /\ Rates = {"import", "export"}
  BY DEF TypeOK, Versions, Rates
<1>4. Held'
  BY <1>1, <1>2 DEF IInv, Held, Solving
<1>5. Below(plan, stored) /\ Below(stored, pub) /\ got[t]["import"] <= stored["import"]
  BY DEF IInv, Sound
<1>6. Below(got'[t], stored)
  BY <1>3, <1>5, AVersion DEF Below, TypeOK
<1>7. serial => Below(plan, got'[t])
  <2> SUFFICES ASSUME serial PROVE Below(plan, got'[t])
    OBVIOUS
  <2>1. plan["export"] <= got'[t]["export"]
    BY <1>3, <1>5 DEF Below
  <2>2. plan["import"] <= got[t]["import"]
    BY DEF IInv, InOrder
  <2>3. plan["import"] <= got'[t]["import"]
    BY <1>3, <2>2
  <2> QED BY <1>3, <2>1, <2>3 DEF Below
<1>8. Sound'
  BY <1>1, <1>2, <1>6 DEF IInv, Sound, Below
<1>9. InOrder'
  BY <1>1, <1>2, <1>7 DEF IInv, InOrder, Below
<1> QED BY <1>4, <1>8, <1>9 DEF IInv

\* A solve ends, having committed what it has read, or nothing.
LEMMA EndStep ==
  ASSUME TypeOK, TypeOK', IInv, NEW t \in Jobs, NEW p \in {"solved", "skipped"},
         Solving(t), Unlocks(t), Returns(t, p), UNCHANGED <<stored, pub, serial>>,
         plan' = plan \/ (pc[t] = "commit" /\ plan' = got[t])
  PROVE  IInv' /\ (serial => Below(plan, plan'))
<1>1. \A u \in Jobs \ {t} : got'[u] = got[u] /\ pc'[u] = pc[u]
  BY DEF Returns, Goes, Unlocks, TypeOK
<1>2. ~Solving(t)'
  BY DEF Returns, Goes, Solving, TypeOK
<1>3. Held'
  BY <1>1, <1>2 DEF IInv, Held, Solving, Unlocks, TypeOK
<1>4. Sound'
  BY <1>1, <1>2, AVersion DEF IInv, Sound, Solving, TypeOK
<1>5. serial => Below(plan, plan')
  BY AVersion DEF IInv, InOrder, Below, TypeOK
<1>6. serial => \A u \in Jobs \ {t} : ~Solving(u)
  BY DEF IInv, Held
<1>7. InOrder'
  BY <1>1, <1>2, <1>6 DEF InOrder, Solving
<1> QED BY <1>3, <1>4, <1>5, <1>7 DEF IInv

\* A restart ends every solve: the invariant holds with nobody at work.
LEMMA RestartStep ==
  ASSUME TypeOK, IInv, Restart
  PROVE  IInv'
<1>1. \A t \in Jobs : pc'[t] \in {"fetch", "idle"}
  BY DEF Restart, Boot
<1> QED BY <1>1 DEF Restart, octopus, IInv, Held, Sound, InOrder, Below, Solving

----------------------------------------------------------------------------
(* Every step *)

\* The steps of Next, by what they do to the plan.
LEMMA Steps ==
  ASSUME TypeOK, TypeOK', IInv, [Next]_vars
  PROVE  IInv' /\ (serial => Below(plan, plan'))
<1> USE DEF world, octopus, At
<1>a. "retry" \in Jobs /\ "daily" \in Jobs /\ "push" \in Jobs /\ Rates = {"import", "export"}
  BY DEF Jobs, Rates
<1>b. Below(plan, plan) /\ Below(stored, stored) /\ Below(stored, pub)
  BY AVersion DEF Below, TypeOK, IInv, Sound
<1>1. ASSUME NEW r \in Rates, Publish(r) PROVE IInv' /\ Below(plan, plan')
  <2>1. Below(pub, pub')
    BY <1>1, AVersion DEF Publish, Below, TypeOK
  <2>2. Below(stored, pub')
    BY <1>b, <2>1, AVersion DEF Below, TypeOK
  <2> QED BY <1>1, <1>b, <2>2, QuietStep DEF Publish
<1>2. CASE FetchHour
  BY <1>2, <1>a, <1>b, QuietStep DEF FetchHour, Goes, TypeOK
<1>3. CASE CooldownElapses
  BY <1>3, <1>b, QuietStep DEF CooldownElapses
<1>4. CASE GiveUp
  BY <1>4, <1>a, <1>b, ReadStep DEF GiveUp
<1>5. CASE RetryStreak \/ RetryTick \/ Probe \/ NoProbe
  BY <1>5, <1>a, <1>b, QuietStep DEF RetryStreak, RetryTick, Probe, NoProbe, Goes, TypeOK
<1>6. CASE RetryExport
  <2>1. Below(stored, stored') /\ Below(stored', pub')
    BY <1>6, <1>a, StoreStep DEF RetryExport
  <2> QED BY <1>6, <1>a, <1>b, <2>1, QuietStep DEF RetryExport, Goes, TypeOK
<1>7. CASE RetryReturns
  BY <1>7, <1>a, <1>b, QuietStep DEF RetryReturns, Goes, TypeOK
<1>8. CASE Restart
  BY <1>8, <1>b, RestartStep DEF Restart
<1>9. ASSUME NEW t \in Jobs, Step(t) PROVE IInv' /\ (serial => Below(plan, plan'))
  <2>1. CASE TryFetch(t)
    BY <2>1, <1>b, QuietStep DEF TryFetch, Goes, TypeOK
  <2>2. CASE FetchImport(t)
    <3>1. Below(stored, stored') /\ Below(stored', pub')
      BY <2>2, <1>a, StoreStep DEF FetchImport
    <3> QED BY <2>2, <1>b, <3>1, QuietStep DEF FetchImport, Goes, TypeOK
  <2>3. CASE FetchExport(t)
    <3>1. Below(stored, stored') /\ Below(stored', pub')
      BY <2>3, <1>a, StoreStep DEF FetchExport
    <3> QED BY <2>3, <1>b, <3>1, QuietStep DEF FetchExport, Goes, TypeOK
  <2>4. CASE Enter(t)
    <3>1. CASE ~cooling /\ MayTake(t)
      BY <2>4, <1>b, <3>1, ReadStep DEF Enter, MayTake
    <3>2. CASE ~(~cooling /\ MayTake(t))
      BY <2>4, <1>b, <3>2, QuietStep DEF Enter, Returns, Goes, TypeOK
    <3> QED BY <3>1, <3>2
  <2>5. CASE TakeLock(t)
    BY <2>5, <1>b, ReadStep DEF TakeLock, MayTake
  <2>6. CASE Solve(t)
    <3>1. CASE Fails(t)
      BY <2>6, <1>b, <3>1, EndStep DEF Solve, Fails, Solving
    <3>2. CASE ~Fails(t)
      BY <2>6, <1>b, <3>2, SolvedStep DEF Solve
    <3> QED BY <3>1, <3>2
  <2>7. CASE Commit(t)
    <3>1. CASE Fails(t)
      BY <2>7, <1>b, <3>1, EndStep DEF Commit, Fails, Solving
    <3>2. CASE ~Fails(t)
      BY <2>7, <1>b, <3>2, EndStep DEF Commit, Solving
    <3> QED BY <3>1, <3>2
  <2> QED BY <1>9, <2>1, <2>2, <2>3, <2>4, <2>5, <2>6, <2>7 DEF Step
<1>10. ASSUME NEW t \in Jobs, Trigger(t) PROVE IInv' /\ Below(plan, plan')
  BY <1>10, <1>b, QuietStep DEF Trigger, Goes, TypeOK
<1>11. ASSUME NEW t \in Jobs, FetchAndPlan(t) PROVE IInv' /\ Below(plan, plan')
  <2>1. Below(stored, stored') /\ Below(stored', pub')
    BY <1>11, <1>a, StoreStep DEF FetchAndPlan
  <2> QED BY <1>11, <1>b, <2>1, QuietStep DEF FetchAndPlan, Goes, TypeOK
<1>12. ASSUME NEW t \in Jobs, GetStuck(t) \/ GetUnstuck(t) PROVE IInv' /\ Below(plan, plan')
  BY <1>12, <1>b, QuietStep DEF GetStuck, GetUnstuck
<1>13. CASE UNCHANGED vars
  BY <1>13, <1>b, QuietStep DEF vars
<1> QED BY <1>1, <1>2, <1>3, <1>4, <1>5, <1>6, <1>7, <1>8, <1>9, <1>10, <1>11, <1>12, <1>13
        DEF Next, Retries

\* The inductive invariant.
LEMMA Invariant == Spec => [](TypeOK /\ IInv)
<1>1. TypeOK /\ IInv /\ [Next]_vars => (TypeOK /\ IInv)'
  BY TypeStep, Steps
<1>2. Spec => []TypeOK
  BY TypeCorrect
<1>3. TypeOK /\ TypeOK' /\ IInv /\ [Next]_vars => IInv'
  BY Steps
<1> QED BY InvInit, <1>2, <1>3, PTL DEF Spec

\* #676 (runner.py:50): two solves never overlap, but for a push that has stopped
\* waiting for the lock.
THEOREM Exclusion == Spec => []Exclusive
<1>1. TypeOK /\ IInv => Exclusive
  BY DEF IInv, Held, Exclusive
<1> QED BY <1>1, Invariant, PTL

\* While every solve waits for the lock, no commit puts a plan of older rates in
\* place of a newer one.
THEOREM Forward == Spec => PlanForward
<1>1. TypeOK /\ TypeOK' /\ IInv /\ [Next]_vars
        => [serial => \A r \in Rates : plan[r] <= plan'[r]]_vars
  BY Steps DEF Below
<1> QED BY <1>1, Invariant, PTL DEF Spec, PlanForward

----------------------------------------------------------------------------
(* Pending re-solves *)

\* What is pending has been stored, the retry job's solve reads it, and the plan it
\* commits, or a later one, has it until the flag comes down.
Armed ==
  /\ Below(pending, stored)
  /\ errand = "import" /\ pc["retry"] \in {"prices", "commit"}
       => pending["import"] <= got["retry"]["import"]
  /\ errand = "export" /\ pc["retry"] = "commit"
       => pending["export"] <= got["retry"]["export"]
  /\ errand \in Rates /\ pc["retry"] = "solved" /\ serial => pending[errand] <= plan[errand]

\* Nothing is pending at the boot.
LEMMA ArmedInit == Init => Armed
BY DEF Init, Armed, Below, NoRates, Boot, Jobs, Rates

\* A step of another thread, or one that takes the retry job to no solve.
LEMMA ArmedKept ==
  ASSUME TypeOK, TypeOK', Armed, UNCHANGED pending, Below(stored, stored'),
         serial' => serial /\ Below(plan, plan'), errand' \in {errand, "none"},
         \/ pc'["retry"] = pc["retry"] /\ got'["retry"] = got["retry"]
         \/ pc'["retry"] \notin {"prices", "commit", "solved"}
  PROVE  Armed'
<1>1. Below(pending', stored')
  BY AVersion DEF Armed, Below, TypeOK
<1>2. errand' = "import" /\ pc'["retry"] \in {"prices", "commit"}
        => pending'["import"] <= got'["retry"]["import"]
  BY DEF Armed
<1>3. errand' = "export" /\ pc'["retry"] = "commit"
        => pending'["export"] <= got'["retry"]["export"]
  BY DEF Armed
<1>4. errand' \in Rates /\ pc'["retry"] = "solved" /\ serial'
        => pending'[errand'] <= plan'[errand']
  BY AVersion DEF Armed, Below, TypeOK, Rates
<1> QED BY <1>1, <1>2, <1>3, <1>4 DEF Armed

\* The retry job's solve reads, or is solved, or ends.
LEMMA ArmedSolve ==
  ASSUME TypeOK, TypeOK', Armed, UNCHANGED <<pending, stored, errand, serial>>,
         \/ ReadsRates("retry")
         \/ /\ pc["retry"] = "prices" /\ Goes("retry", "commit")
            /\ got' = [got EXCEPT !["retry"]["export"] = stored["export"]]
         \/ pc["retry"] = "commit" /\ Goes("retry", "solved") /\ plan' = got["retry"]
  PROVE  Armed'
<1>a. "retry" \in Jobs /\ Rates = {"import", "export"}
  BY DEF Jobs, Rates
<1>1. CASE ReadsRates("retry")
  BY <1>1, <1>a, AVersion DEF ReadsRates, Goes, Armed, Below, TypeOK
<1>2. CASE /\ pc["retry"] = "prices" /\ Goes("retry", "commit")
           /\ got' = [got EXCEPT !["retry"]["export"] = stored["export"]]
  <2>1. /\ got'["retry"]["import"] = got["retry"]["import"]
        /\ got'["retry"]["export"] = stored["export"]
        /\ pc'["retry"] = "commit"
    BY <1>2, <1>a DEF Goes, TypeOK, Versions
  <2> QED BY <1>2, <1>a, <2>1 DEF Armed, Below
<1>3. CASE pc["retry"] = "commit" /\ Goes("retry", "solved") /\ plan' = got["retry"]
  BY <1>3, <1>a DEF Goes, Armed, Below, TypeOK
<1> QED BY <1>1, <1>2, <1>3

\* The retry job raises and lowers the flags.
LEMMA ArmedFlags ==
  ASSUME TypeOK, TypeOK', IInv, Armed, RetryExport \/ RetryReturns
  PROVE  /\ Armed'
         /\ serial => \A r \in Rates :
                        pending[r] # 0 /\ pending'[r] = 0 => plan[r] >= pending[r]
<1>a. "retry" \in Jobs /\ Rates = {"import", "export"}
  BY DEF Jobs, Rates
<1>b. \A r \in Rates : /\ pending[r] \in Nat /\ stored[r] \in Nat /\ stored'[r] \in Nat
                       /\ plan[r] \in Nat
  BY AVersion DEF TypeOK
<1>1. CASE RetryExport
  <2>1. Below(stored, stored')
    BY <1>1, <1>a, StoreStep DEF RetryExport, octopus
  <2>2. pc'["retry"] \in {"enter", "idle"}
    BY <1>1, <1>a DEF RetryExport, Goes, TypeOK
  <2>3. \/ pending' = pending
        \/ /\ pending' = [pending EXCEPT !["export"] = stored'["export"]]
           /\ stored'["export"] > stored["export"]
    BY <1>1 DEF RetryExport, Raised
  <2>4. \A r \in Rates : pending'[r] = pending[r] \/ pending'[r] = stored'[r]
    BY <1>a, <2>3 DEF TypeOK, Versions
  <2>5. \A r \in Rates : pending'[r] <= stored'[r]
    BY <1>b, <2>1, <2>4 DEF Armed, Below
  <2>6. \A r \in Rates : pending[r] # 0 => pending'[r] # 0
    BY <1>a, <1>b, <2>3 DEF TypeOK, Versions
  <2> QED BY <2>2, <2>5, <2>6 DEF Armed, Below
<1>2. CASE RetryReturns
  <2>1. pc'["retry"] \in {"gap", "idle"} /\ UNCHANGED stored
    BY <1>2, <1>a DEF RetryReturns, Goes, TypeOK
  <2>2. \/ pending' = pending
        \/ /\ errand \in Rates /\ pc["retry"] = "solved"
           /\ pending' = [pending EXCEPT ![errand] = 0]
        \/ pending' = [pending EXCEPT !["import"] = stored["import"]]
    BY <1>2, Zenon DEF RetryReturns, Lowered, Raised
  <2>3. CASE pending' = pending
    BY <1>b, <2>1, <2>3 DEF Armed
  <2>4. CASE /\ errand \in Rates /\ pc["retry"] = "solved"
             /\ pending' = [pending EXCEPT ![errand] = 0]
    <3>1. \A r \in Rates : pending'[r] = IF r = errand THEN 0 ELSE pending[r]
      BY <2>4 DEF TypeOK, Versions
    <3>2. \A r \in Rates : pending'[r] <= stored'[r]
      BY <1>b, <2>1, <3>1 DEF Armed, Below
    <3>3. serial => pending[errand] <= plan[errand]
      BY <2>4 DEF Armed
    <3> QED BY <1>b, <2>1, <3>1, <3>2, <3>3 DEF Armed, Below
  <2>5. CASE pending' = [pending EXCEPT !["import"] = stored["import"]]
    <3>1. \A r \in Rates : pending'[r] = IF r = "import" THEN stored[r] ELSE pending[r]
      BY <2>5 DEF TypeOK, Versions
    <3>2. \A r \in Rates : pending'[r] <= stored'[r]
      BY <1>b, <2>1, <3>1 DEF Armed, Below
    <3>3. \A r \in Rates : pending'[r] = 0 => pending[r] = 0
      BY <1>b, <3>1 DEF Armed, Below
    <3> QED BY <2>1, <3>2, <3>3 DEF Armed, Below
  <2> QED BY <2>2, <2>3, <2>4, <2>5
<1> QED BY <1>1, <1>2

\* Any step keeps what is pending, and lowers no flag unpriced.
LEMMA ArmedStep ==
  ASSUME TypeOK, TypeOK', IInv, Armed, [Next]_vars
  PROVE  /\ Armed'
         /\ serial /\ ~Restart => \A r \in Rates :
              pending[r] # 0 /\ pending'[r] = 0 => plan[r] >= pending[r]
<1> USE DEF world, octopus, At
<1>a. /\ "retry" \in Jobs /\ "daily" \in Jobs /\ "push" \in Jobs
      /\ "retry" # "push" /\ "retry" # "daily"
  BY DEF Jobs
<1>b. Below(stored, stored)
  BY AVersion DEF Below, TypeOK
<1>c. serial => Below(plan, plan')
  BY Steps
<1>d. CASE UNCHANGED pending /\ Armed'
  BY <1>d DEF TypeOK
<1>1. CASE RetryExport \/ RetryReturns
  BY <1>1, ArmedFlags
<1>2. CASE Restart
  <2>1. pc'["retry"] = "idle" /\ pending' = NoRates /\ stored' = stored
    BY <1>2, <1>a DEF Restart, Boot
  <2>2. Below(pending', stored')
    BY <2>1, AVersion DEF Below, NoRates, TypeOK
  <2> QED BY <1>2, <2>1, <2>2 DEF Armed
<1>3. CASE \/ RetryStreak \/ RetryTick \/ Probe \/ NoProbe
  <2>1. pc'["retry"] \in {"fetch", "enter", "gap", "outgoing"}
    BY <1>3, <1>a DEF RetryStreak, RetryTick, Probe, NoProbe, Goes, TypeOK
  <2>2. UNCHANGED <<pending, stored>>
    BY <1>3 DEF RetryStreak, RetryTick, Probe, NoProbe
  <2>3. Armed'
    BY <2>1, <2>2 DEF Armed
  <2> QED BY <1>d, <2>2, <2>3
<1>4. CASE \/ \E r \in Rates : Publish(r)
           \/ FetchHour \/ CooldownElapses \/ UNCHANGED vars
  <2>1. /\ UNCHANGED <<pending, stored, errand, got, plan, serial>>
        /\ pc'["retry"] = pc["retry"]
    BY <1>4, <1>a DEF Publish, FetchHour, CooldownElapses, vars, Goes, TypeOK
  <2> QED BY <1>b, <1>c, <1>d, <2>1, ArmedKept
<1>5. CASE GiveUp
  <2>1. pc'["retry"] = pc["retry"] /\ got'["retry"] = got["retry"]
    BY <1>5, <1>a DEF GiveUp, ReadsRates, Goes, TypeOK
  <2> QED BY <1>5, <1>b, <1>d, <2>1, ArmedKept DEF GiveUp
<1>6. ASSUME NEW t \in Jobs, TryFetch(t) \/ FetchImport(t) \/ FetchExport(t) \/ FetchAndPlan(t)
      PROVE  UNCHANGED pending /\ Armed'
  <2>1. Below(stored, stored')
    BY <1>6, <1>b, StoreStep DEF TryFetch, FetchImport, FetchExport, FetchAndPlan, Rates
  <2>2. \/ pc'["retry"] = pc["retry"] /\ got'["retry"] = got["retry"]
        \/ pc'["retry"] \notin {"prices", "commit", "solved"}
    BY <1>6, <1>a DEF TryFetch, FetchImport, FetchExport, FetchAndPlan, Goes, TypeOK
  <2>3. /\ UNCHANGED <<pending, plan, serial>> /\ errand' \in {errand, "none"}
    BY <1>6 DEF TryFetch, FetchImport, FetchExport, FetchAndPlan, Drops
  <2> QED BY <1>c, <2>1, <2>2, <2>3, ArmedKept
<1>7. ASSUME NEW t \in Jobs, \/ Enter(t) \/ TakeLock(t) \/ Solve(t) \/ Commit(t)
                             \/ Trigger(t) \/ GetStuck(t) \/ GetUnstuck(t)
      PROVE  UNCHANGED pending /\ Armed'
  <2>1. UNCHANGED <<pending, stored, errand, serial>>
    BY <1>7 DEF Enter, TakeLock, Solve, Commit, Trigger, GetStuck, GetUnstuck
  <2>2. CASE \/ pc'["retry"] = pc["retry"] /\ got'["retry"] = got["retry"]
             \/ pc'["retry"] \notin {"prices", "commit", "solved"}
    BY <1>b, <1>c, <2>1, <2>2, ArmedKept
  <2>3. CASE \/ ReadsRates("retry")
             \/ /\ pc["retry"] = "prices" /\ Goes("retry", "commit")
                /\ got' = [got EXCEPT !["retry"]["export"] = stored["export"]]
             \/ pc["retry"] = "commit" /\ Goes("retry", "solved") /\ plan' = got["retry"]
    BY <2>1, <2>3, ArmedSolve
  <2>4. CASE t # "retry"
    <3>1. pc'["retry"] = pc["retry"] /\ got'["retry"] = got["retry"]
      BY <1>7, <1>a, <2>4 DEF Enter, TakeLock, Solve, Commit, Trigger, GetStuck, GetUnstuck,
         ReadsRates, Fails, Unlocks, Returns, Goes, TypeOK
    <3> QED BY <2>2, <3>1
  <2>5. CASE t = "retry" /\ (Trigger(t) \/ GetStuck(t) \/ GetUnstuck(t))
    <3>1. \/ pc'["retry"] = pc["retry"] /\ got'["retry"] = got["retry"]
          \/ pc'["retry"] \in {"enter", "wait"}
      BY <1>a, <2>5 DEF Trigger, GetStuck, GetUnstuck, Goes, TypeOK
    <3> QED BY <2>2, <3>1
  <2>6. CASE t = "retry" /\ (Enter(t) \/ TakeLock(t))
    <3>1. ReadsRates("retry") \/ pc'["retry"] = "skipped"
      BY <1>a, <2>6 DEF Enter, TakeLock, Returns, Goes, TypeOK
    <3> QED BY <2>2, <2>3, <3>1
  <2>7. CASE t = "retry" /\ (Solve(t) \/ Commit(t))
    <3>1. CASE Fails(t)
      <4>1. pc'["retry"] = "skipped"
        BY <1>a, <2>7, <3>1 DEF Fails, Returns, Goes, TypeOK
      <4> QED BY <2>2, <4>1
    <3>2. CASE ~Fails(t)
      BY <2>3, <2>7, <3>2 DEF Solve, Commit, Returns
    <3> QED BY <3>1, <3>2
  <2> QED BY <1>7, <2>1, <2>4, <2>5, <2>6, <2>7
<1> QED BY <1>d, <1>1, <1>2, <1>3, <1>4, <1>5, <1>6, <1>7 DEF Next, Retries, Step

\* #691: the retry job forgets a pending re-solve only when the committed plan has the
\* rates it was raised for.
THEOREM Kept == Spec => PendingKept
<1>1. TypeOK /\ TypeOK' /\ IInv /\ Armed /\ [Next]_vars => Armed'
  BY ArmedStep
<1>2. TypeOK /\ TypeOK' /\ IInv /\ Armed /\ [Next]_vars
        => [\A r \in Rates : pending[r] # 0 /\ pending'[r] = 0 /\ serial /\ ~Restart
              => plan[r] >= pending[r]]_vars
  BY ArmedStep
<1> QED BY <1>1, <1>2, ArmedInit, Invariant, PTL DEF Spec, PendingKept

----------------------------------------------------------------------------
(* The abstract specification *)

\* The boot maps to an initial state of RatePlan.
LEMMA PromiseInit == Init => Promise!Init
BY DEF Init, Promise!Init, Promise!Versions, Promise!Below, NoRates

\* Every step maps to Land, Plan, Order or a stutter of RatePlan.
LEMMA PromiseStep ==
  ASSUME TypeOK, TypeOK', IInv, [Next]_vars
  PROVE  [Promise!Next]_<<stored, plan, serial>>
<1>a. /\ stored \in [Rates -> Nat] /\ stored' \in [Rates -> Nat]
      /\ plan \in [Rates -> Nat] /\ plan' \in [Rates -> Nat]
      /\ serial \in BOOLEAN /\ serial' \in BOOLEAN
  BY BoundsAssumption DEF TypeOK, Versions
<1>b. IInv' /\ (serial => Below(plan, plan'))
  BY Steps
<1>1. CASE UNCHANGED <<plan, serial>> /\ Below(stored, stored')
  BY <1>1, <1>a DEF Below, Promise!Next, Promise!Land, Promise!Versions, Promise!Below
<1>2. CASE UNCHANGED <<stored, serial>>
  BY <1>2, <1>a, <1>b DEF IInv, Sound, Below, Promise!Next, Promise!Plan,
     Promise!Versions, Promise!Below
<1>3. CASE UNCHANGED <<stored, plan>>
  BY <1>3, <1>a DEF Promise!Next, Promise!Order
<1>4. \/ UNCHANGED <<plan, serial>> /\ Below(stored, stored')
      \/ UNCHANGED <<stored, serial>>
      \/ UNCHANGED <<stored, plan>>
  <2> USE DEF world, octopus
  <2>1. CASE UNCHANGED vars
    BY <2>1 DEF vars
  <2>2. ASSUME NEW t \in Jobs, FetchImport(t) \/ FetchExport(t) \/ FetchAndPlan(t)
        PROVE  UNCHANGED <<plan, serial>> /\ Below(stored, stored')
    BY <2>2, StoreStep DEF FetchImport, FetchExport, FetchAndPlan, Rates
  <2>3. CASE RetryExport
    BY <2>3, StoreStep DEF RetryExport, Rates
  <2>4. ASSUME NEW t \in Jobs, Solve(t) \/ Commit(t)
        PROVE  UNCHANGED <<stored, serial>>
    BY <2>4 DEF Solve, Commit
  <2>5. ASSUME NEW t \in Jobs, \/ TryFetch(t) \/ Enter(t) \/ TakeLock(t) \/ Trigger(t)
                              \/ GetStuck(t) \/ GetUnstuck(t)
        PROVE  UNCHANGED <<stored, plan>>
    BY <2>5 DEF TryFetch, Enter, TakeLock, Trigger, GetStuck, GetUnstuck
  <2>6. CASE \/ \E r \in Rates : Publish(r)
             \/ FetchHour \/ CooldownElapses \/ GiveUp \/ Restart
    BY <2>6 DEF Publish, FetchHour, CooldownElapses, GiveUp, Restart
  <2>7. CASE RetryStreak \/ RetryTick \/ Probe \/ NoProbe \/ RetryReturns
    BY <2>7 DEF RetryStreak, RetryTick, Probe, NoProbe, RetryReturns
  <2> QED BY <2>1, <2>2, <2>3, <2>4, <2>5, <2>6, <2>7 DEF Next, Step, Retries
<1> QED BY <1>1, <1>2, <1>3, <1>4

\* The threads implement RatePlan: fresh rates stay, the plan of run_optimizer is made
\* from stored rates and, while solves are in order, never goes back.
THEOREM Refinement == Spec => KeepsPromise
<1>1. TypeOK /\ TypeOK' /\ IInv /\ [Next]_vars => [Promise!Next]_<<stored, plan, serial>>
  BY PromiseStep
<1> QED BY <1>1, PromiseInit, Invariant, PTL DEF Spec, KeepsPromise, Promise!Spec
=============================================================================
