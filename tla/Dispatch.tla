------------------------------- MODULE Dispatch -------------------------------
(***************************************************************************)
(* How fresh Octopus rates become a committed plan: the daily fetch and    *)
(* the 10-minute retry (scheduler/octopus_fetch.py), the event triggers    *)
(* and the nightly plan push (scheduler/runner.py) and the manual solves   *)
(* of the API and the MCP server, each a thread of its own. A fetch holds  *)
(* the fetch lock, a solve the dispatch lock. Event solves give way to the *)
(* cooldown and to a held lock; the push and the manual solves wait.       *)
(*                                                                         *)
(* A solve is followed through run_optimizer: it reads the import rates,   *)
(* then the export prices, solves, uploads to the inverter and writes the  *)
(* action rows. Rates are versions, one batch a day; `day' is the newest   *)
(* batch that is due, which Octopus may publish early or late. The engine  *)
(* is on and not paused, the backend is lp, Outgoing Agile is configured.  *)
(***************************************************************************)
EXTENDS Naturals, FiniteSets

CONSTANTS
  Events,     \* the threads that trigger a solve on an event
  Manuals,    \* the callers of fetch-and-plan and of the proposals
  Nobody,     \* no holder of a lock
  MaxDay,     \* bound: batches published
  MaxTroubles \* bound: failed fetches, solves and uploads, solves that get stuck and
              \* restarts of the process, together

ASSUME JobsAssumption ==
  /\ {"daily", "retry", "push"} \cap (Events \cup Manuals) = {}
  /\ Events \cap Manuals = {}
  /\ Nobody \notin {"daily", "retry", "push"} \cup Events \cup Manuals
ASSUME BoundsAssumption ==
  MaxDay \in Nat \ {0} /\ MaxTroubles \in Nat

Jobs     == {"daily", "retry", "push"} \cup Events \cup Manuals
Rates    == {"import", "export"}
Versions == [Rates -> 0..MaxDay]
NoRates  == [r \in Rates |-> 0]

VARIABLES
  day,       \* the newest batch that is due
  pub,       \* the versions Octopus has published
  stored,    \* the versions in agile_rates and agile_export_rates
  streak,    \* the failure streak of octopus_fetch_state
  plan,      \* the versions behind the action rows written last
  lock,      \* holder of optimizer_dispatch_lock
  fetching,  \* holder of _fetch_in_flight
  cooling,   \* MPC_COOLDOWN_SECONDS has not elapsed since _last_mpc_run_at
  pending,   \* _import_resolve_pending, _export_resolve_pending: the version
             \* the flag was raised for, 0 when it is down
  pc,        \* where each thread stands
  got,       \* the versions each solve has read
  errand,    \* what the retry job fetches or solves for
  stuck,     \* the solves that are stuck, for longer than the push waits
  serial,    \* history: no solve since the start has gone ahead without the lock
  troubles   \* how many troubles there have been

vars == <<day, pub, stored, streak, plan, lock, fetching, cooling, pending, pc,
          got, errand, stuck, serial, troubles>>
octopus == <<day, pub>>
world   == <<octopus, stuck, serial, troubles>>

Places  == {"idle", "fetch", "import", "export", "enter", "wait", "prices", "commit",
            "gap", "outgoing", "solved", "skipped"}
Errands == {"none", "streak", "import", "gap", "export"}

TypeOK ==
  /\ day \in 1..MaxDay
  /\ pub \in Versions /\ stored \in Versions /\ plan \in Versions /\ pending \in Versions
  /\ streak \in BOOLEAN /\ cooling \in BOOLEAN /\ serial \in BOOLEAN
  /\ lock \in Jobs \cup {Nobody} /\ fetching \in Jobs \cup {Nobody}
  /\ pc \in [Jobs -> Places] /\ got \in [Jobs -> Versions]
  /\ errand \in Errands /\ stuck \subseteq Jobs
  /\ troubles \in 0..MaxTroubles

\* A first start: nothing is stored yet, the boot's fetch is about to run in the daily
\* job.
Boot(t) == IF t = "daily" THEN "fetch" ELSE "idle"

Init ==
  /\ day = 1 /\ pub = [r \in Rates |-> 1] /\ stored = NoRates /\ plan = NoRates
  /\ streak = FALSE
  /\ lock = Nobody /\ fetching = Nobody /\ cooling = FALSE /\ pending = NoRates
  /\ pc = [t \in Jobs |-> Boot(t)] /\ got = [t \in Jobs |-> NoRates]
  /\ errand = "none" /\ stuck = {} /\ serial = TRUE /\ troubles = 0

At(t, p)      == pc[t] = p /\ t \notin stuck
Goes(t, p)    == pc' = [pc EXCEPT ![t] = p]
Trouble       == troubles < MaxTroubles /\ troubles' = troubles + 1
Solving(t)    == pc[t] \in {"prices", "commit"}
ImportGap     == stored["import"] # 0 /\ stored["import"] < day
ExportGap     == stored["export"] < stored["import"]

----------------------------------------------------------------------------
(* Octopus, and the time *)

\* Outgoing rates follow the import rates.
Publish(r) ==
  /\ pub[r] < IF r = "import" THEN MaxDay ELSE pub["import"]
  /\ pub' = [pub EXCEPT ![r] = @ + 1]
  /\ UNCHANGED <<day, stored, streak, plan, lock, fetching, cooling, pending, pc, got,
                 errand, stuck, serial, troubles>>

\* The fetch hour: another batch is due and the daily job starts, unless its last
\* run is still going.
FetchHour ==
  /\ day < MaxDay /\ day' = day + 1
  /\ IF pc["daily"] = "idle" THEN Goes("daily", "fetch") ELSE UNCHANGED pc
  /\ UNCHANGED <<pub, stored, streak, plan, lock, fetching, cooling, pending, got,
                 errand, stuck, serial, troubles>>

CooldownElapses ==
  /\ cooling /\ cooling' = FALSE
  /\ UNCHANGED <<octopus, stored, streak, plan, lock, fetching, pending, pc, got,
                 errand, stuck, serial, troubles>>

----------------------------------------------------------------------------
(* Fetching *)

\* MUTANT of StopsFetching: the lock is kept.
KeepsFetching(t) == UNCHANGED fetching
\* The finally of fetch_and_store_rates.
StopsFetching(t) == fetching' = IF fetching = t THEN Nobody ELSE fetching

\* The retry job's tick ends with its fetch.
Drops(t) == errand' = IF t = "retry" THEN "none" ELSE errand

\* fetch_and_store_rates: the loser skips.
TryFetch(t) ==
  /\ At(t, "fetch")
  /\ IF fetching = Nobody
     THEN fetching' = t /\ Goes(t, "import") /\ UNCHANGED errand
     ELSE Goes(t, "idle") /\ Drops(t) /\ UNCHANGED fetching
  /\ UNCHANGED <<stored, streak, plan, lock, cooling, pending, got, world>>

\* _fetch_and_store_rates_locked up to save_agile_rates. A failure is an empty answer.
FetchImport(t) ==
  /\ At(t, "import")
  /\ \/ /\ stored' = [stored EXCEPT !["import"] = pub["import"]]
        /\ streak' = FALSE /\ Goes(t, "export")
        /\ UNCHANGED <<fetching, errand, troubles>>
     \/ /\ Trouble /\ streak' = TRUE /\ Goes(t, "idle") /\ StopsFetching(t)
        /\ Drops(t) /\ UNCHANGED stored
  /\ UNCHANGED <<octopus, plan, lock, cooling, pending, got, stuck, serial>>

\* The export half, whose failure is not fatal, then the solve.
FetchExport(t) ==
  /\ At(t, "export")
  /\ \/ stored' = [stored EXCEPT !["export"] = pub["export"]] /\ UNCHANGED troubles
     \/ Trouble /\ UNCHANGED stored
  /\ Goes(t, "enter")
  /\ UNCHANGED <<octopus, streak, plan, lock, fetching, cooling, pending, got, errand,
                 stuck, serial>>

----------------------------------------------------------------------------
(* Solving *)

\* A solve or a skipped trigger comes back: only the retry job looks at the answer.
Returns(t, answer) ==
  /\ Goes(t, IF t = "retry" THEN answer ELSE "idle") /\ StopsFetching(t)

\* MUTANT of MayTake: the manual solves do not look at the lock, as before #676.
MayTakeManually(t) == lock = Nobody \/ t \in Manuals
MayTake(t) == lock = Nobody

\* MUTANT of ReadsRates: the rates come from Octopus, not from the database.
ReadsPublished(t) ==
  /\ got' = [got EXCEPT ![t] = [r \in Rates |-> IF r = "import" THEN pub[r] ELSE 0]]
  /\ Goes(t, "prices")
\* run_optimizer begins with the import rates; its other reads follow.
ReadsRates(t) ==
  /\ got' = [got EXCEPT ![t] = [r \in Rates |-> IF r = "import" THEN stored[r] ELSE 0]]
  /\ Goes(t, "prices")

\* bulletproof_mpc_job: the cooldown gate, then the lock, which it does not wait for.
\* Triggers that bypass the cooldown find it elapsed here.
Enter(t) ==
  /\ At(t, "enter")
  /\ IF ~cooling /\ MayTake(t)
     THEN lock' = t /\ ReadsRates(t) /\ UNCHANGED fetching
     ELSE Returns(t, "skipped") /\ UNCHANGED <<lock, got>>
  /\ UNCHANGED <<stored, streak, plan, cooling, pending, errand, world>>

\* The blocking acquire of the push and of the manual solves.
TakeLock(t) ==
  /\ At(t, "wait") /\ MayTake(t)
  /\ lock' = t /\ ReadsRates(t)
  /\ UNCHANGED <<stored, streak, plan, fetching, cooling, pending, errand, world>>

\* MUTANT of GiveUp: the push is skipped.
GiveUpQuietly ==
  /\ At("push", "wait") /\ lock \in stuck
  /\ Goes("push", "idle")
  /\ UNCHANGED <<octopus, stored, streak, plan, lock, fetching, cooling, pending, got,
                 errand, stuck, serial, troubles>>
\* bulletproof_plan_push_job, after PLAN_PUSH_LOCK_TIMEOUT_SECONDS: on without the lock.
GiveUp ==
  /\ At("push", "wait") /\ lock \in stuck
  /\ ReadsRates("push") /\ serial' = FALSE
  /\ UNCHANGED <<octopus, stored, streak, plan, lock, fetching, cooling, pending,
                 errand, stuck, troubles>>

\* MUTANT of Unlocks: released whoever holds it.
UnlocksAnyway(t) == lock' = Nobody /\ got' = [got EXCEPT ![t] = NoRates]
\* The finally of the job wrappers: the lock is released by who acquired it. What
\* the solve has read goes with it.
Unlocks(t) ==
  /\ lock' = IF lock = t THEN Nobody ELSE lock
  /\ got' = [got EXCEPT ![t] = NoRates]

Fails(t) == Unlocks(t) /\ Returns(t, "skipped") /\ UNCHANGED <<plan, cooling>>

\* Rates for today or tomorrow are wanted; without them the inverter is put in
\* Self Use (see FoxSchedule) and the solve reports a failure.
Window(t) == got[t]["import"] # 0 /\ got[t]["import"] + 1 >= day

\* The export prices are read when the import rates have been; then the problem is
\* solved.
Solve(t) ==
  /\ At(t, "prices")
  /\ \/ /\ Window(t) /\ Goes(t, "commit")
        /\ got' = [got EXCEPT ![t]["export"] = stored["export"]]
        /\ UNCHANGED <<plan, lock, fetching, cooling, troubles>>
     \/ /\ IF Window(t) THEN Trouble ELSE UNCHANGED troubles
        /\ Fails(t)
  /\ UNCHANGED <<octopus, stored, streak, pending, errand, stuck, serial>>

\* upload_fox_if_operational (a FoxESSError is swallowed, any other exception ends the
\* run; see FoxSchedule), write_daikin_from_lp_plan, and the end of the run. Only
\* bulletproof_mpc_job stamps the cooldown.
Commit(t) ==
  /\ At(t, "commit")
  /\ \/ /\ plan' = got[t] /\ Unlocks(t) /\ Returns(t, "solved")
        /\ cooling' = (cooling \/ t \in {"daily", "retry"} \cup Events)
        /\ UNCHANGED troubles
     \/ Trouble /\ Fails(t)
  /\ UNCHANGED <<octopus, stored, streak, pending, errand, stuck, serial>>

----------------------------------------------------------------------------
(* The threads *)

Trigger(t) ==
  /\ pc[t] = "idle"
  /\ \/ t \in Events /\ Goes(t, "enter")
     \/ t = "push" /\ Goes(t, "wait")
     \/ t \in Manuals /\ Goes(t, "wait")
  /\ UNCHANGED <<stored, streak, plan, lock, fetching, cooling, pending, got, errand, world>>

\* optimization_fetch_and_plan: stores the rates, outside the fetch lock, and solves
\* whether or not the fetch brought any.
FetchAndPlan(t) ==
  /\ t \in Manuals /\ pc[t] = "idle"
  /\ \/ stored' = [stored EXCEPT !["import"] = pub["import"]] /\ UNCHANGED troubles
     \/ Trouble /\ UNCHANGED stored
  /\ Goes(t, "wait")
  /\ UNCHANGED <<octopus, streak, plan, lock, fetching, cooling, pending, got, errand,
                 stuck, serial>>

\* bulletproof_octopus_retry_job: the full fetch, in a failure streak whose backoff
\* has elapsed ...
RetryStreak ==
  /\ pc["retry"] = "idle" /\ streak
  /\ Goes("retry", "fetch") /\ errand' = "streak"
  /\ UNCHANGED <<stored, streak, plan, lock, fetching, cooling, pending, got, world>>

\* ... else the import gap: a pending re-solve first ...
RetryTick ==
  /\ pc["retry"] = "idle"
  /\ IF pending["import"] # 0 THEN Goes("retry", "enter") /\ errand' = "import"
                              ELSE Goes("retry", "gap") /\ errand' = "none"
  /\ UNCHANGED <<stored, streak, plan, lock, fetching, cooling, pending, got, world>>

\* ... then the probe, at most every 30 minutes: the full fetch follows when it
\* shows new coverage.
Probe ==
  /\ At("retry", "gap") /\ ImportGap /\ pub["import"] > stored["import"]
  /\ Goes("retry", "fetch") /\ errand' = "gap"
  /\ UNCHANGED <<stored, streak, plan, lock, fetching, cooling, pending, got, world>>

\* No gap, throttled, or nothing new.
NoProbe ==
  /\ At("retry", "gap") /\ Goes("retry", "outgoing")
  /\ UNCHANGED <<stored, streak, plan, lock, fetching, cooling, pending, got, errand, world>>

Raised(r, v) == [pending EXCEPT ![r] = v]

\* retry_export_rates_if_gap: fetches while the export side lags, raises the flag
\* when coverage has advanced, and solves while the flag is up.
RetryExport ==
  /\ At("retry", "outgoing")
  /\ \/ ExportGap /\ stored' = [stored EXCEPT !["export"] = pub["export"]] /\ UNCHANGED troubles
     \/ ExportGap /\ Trouble /\ UNCHANGED stored
     \/ ~ExportGap /\ UNCHANGED <<stored, troubles>>
  /\ pending' = IF stored'["export"] > stored["export"]
                THEN Raised("export", stored'["export"]) ELSE pending
  /\ IF pending'["export"] # 0 THEN Goes("retry", "enter") /\ errand' = "export"
                               ELSE Goes("retry", "idle") /\ errand' = "none"
  /\ UNCHANGED <<octopus, streak, plan, lock, fetching, cooling, got, stuck, serial>>

\* MUTANT of Lowered: the flag comes down though the solve was skipped.
AlwaysLowered(r, solved) == [pending EXCEPT ![r] = 0]
\* A flag comes down only when a solve has completed.
Lowered(r, solved) == IF solved THEN [pending EXCEPT ![r] = 0] ELSE pending

\* The answer of bulletproof_mpc_job reaches the retry job.
RetryReturns ==
  LET solved == pc["retry"] = "solved"
  IN /\ pc["retry"] \in {"solved", "skipped"}
     /\ pending' = IF errand \in Rates THEN Lowered(errand, solved)
                   ELSE IF errand = "gap" /\ ~solved THEN Raised("import", stored["import"])
                   ELSE pending
     /\ Goes("retry", IF errand = "import" THEN "gap" ELSE "idle")
     /\ errand' = "none"
     /\ UNCHANGED <<stored, streak, plan, lock, fetching, cooling, got, world>>

----------------------------------------------------------------------------
(* Stuck solves, and restarts *)

\* The push waits longer than any solve is bounded to: the holder is stuck.
GetStuck(t) ==
  /\ t # "push" /\ At(t, "commit") /\ lock = t /\ Trouble
  /\ stuck' = stuck \cup {t}
  /\ UNCHANGED <<octopus, stored, streak, plan, lock, fetching, cooling, pending, pc, got,
                 errand, serial>>

GetUnstuck(t) ==
  /\ t \in stuck /\ stuck' = stuck \ {t}
  /\ UNCHANGED <<octopus, stored, streak, plan, lock, fetching, cooling, pending, pc, got,
                 errand, serial, troubles>>

\* Locks, flags and the cooldown are memory. start_background_scheduler runs the
\* fetch job once more.
Restart ==
  /\ Trouble
  /\ lock' = Nobody /\ fetching' = Nobody /\ cooling' = FALSE /\ pending' = NoRates
  /\ pc' = [t \in Jobs |-> Boot(t)] /\ errand' = "none" /\ stuck' = {} /\ serial' = TRUE
  /\ got' = [t \in Jobs |-> NoRates]
  /\ UNCHANGED <<octopus, stored, streak, plan>>

Step(t) ==
  \/ TryFetch(t) \/ FetchImport(t) \/ FetchExport(t)
  \/ Enter(t) \/ TakeLock(t) \/ Solve(t) \/ Commit(t)

Retries == RetryStreak \/ RetryTick \/ Probe \/ NoProbe \/ RetryExport \/ RetryReturns

Next ==
  \/ \E r \in Rates : Publish(r)
  \/ FetchHour \/ CooldownElapses \/ GiveUp \/ Retries \/ Restart
  \/ \E t \in Jobs : Step(t) \/ Trigger(t) \/ FetchAndPlan(t) \/ GetStuck(t) \/ GetUnstuck(t)

\* Threads that run go on. The retry job ticks every 10 minutes and meets elapsed
\* throttles time and again; the push comes every night and, since the cooldown
\* leaves the lock free most of the time, gets it in the end.
Fairness ==
  /\ \A t \in Jobs : WF_vars(Step(t))
  /\ WF_vars(CooldownElapses) /\ WF_vars(GiveUp)
  /\ WF_vars(Trigger("push")) /\ SF_vars(TakeLock("push"))
  /\ WF_vars(RetryTick \/ NoProbe \/ RetryExport \/ RetryReturns)
  /\ SF_vars(RetryStreak) /\ SF_vars(Probe)

Spec == Init /\ [][Next]_vars /\ Fairness

----------------------------------------------------------------------------
(* Properties *)

\* #676 (runner.py:50): two solves never overlap, so neither do their uploads. The one
\* exception is a push that has stopped waiting for a stuck solve.
Exclusive ==
  \A t, u \in Jobs : Solving(t) /\ Solving(u) /\ t # u => ~serial /\ "push" \in {t, u}

\* While solves are in order, no step puts a plan of older rates in place of a
\* newer one.
PlanForward ==
  [][serial => \A r \in Rates : plan[r] <= plan'[r]]_vars

\* #691: a pending re-solve is forgotten only when the committed plan has the rates
\* it was raised for, or with the process.
PendingKept ==
  [][\A r \in Rates : pending[r] # 0 /\ pending'[r] = 0 /\ serial /\ ~Restart
       => plan[r] >= pending[r]]_vars

\* The nightly commitment is not lost (runner.py:2078): whatever rates are stored end
\* up in the action rows, unless they have gone out of the planning window, and even
\* when another solve is stuck for good.
StoredPriced ==
  []<>(\/ stored["import"] + 1 < day
       \/ \A r \in Rates : plan[r] = stored[r])

\* #726, #691: a batch that is due and published is stored in the end, however late
\* Octopus is and whichever fetches fail, unless a stuck solve keeps the fetch lock
\* or the retry job.
PublishedStored ==
  []<>(\/ stuck # {}
       \/ \A r \in Rates : stored[r] >= day \/ stored[r] = pub[r])

Promise == INSTANCE RatePlan WITH landed <- stored, planned <- plan, orderly <- serial
\* The threads keep the promise of RatePlan.
KeepsPromise == Promise!Spec
=============================================================================
