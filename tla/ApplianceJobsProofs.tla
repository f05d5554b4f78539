------------------------- MODULE ApplianceJobsProofs -------------------------
(***************************************************************************)
(* What TLAPS proves of ApplianceJobs, for any number of jobs, any length   *)
(* of time and any number of faults: its types, that a job starts the       *)
(* machine once and as it was armed, that a scheduled job keeps its timer,  *)
(* and that no load is washed twice.                                        *)
(***************************************************************************)
EXTENDS ApplianceJobs, TLAPS

----------------------------------------------------------------------------
(* The inductive invariant *)

\* The actors at work know their job, and a job that fires has been armed.
Control ==
  /\ rc.pc \in {"cancel", "poll", "complete"} => rc.job \in Jobs
  /\ rc.pc \in {"idle", "check"} => rc.job = 0
  /\ fc.pc # "idle" => fc.job \in Jobs /\ jobs[fc.job].status # "unused"
  /\ ap.pc # "idle" => ap.job \in Jobs

\* Nothing is dated in the future.
Dated ==
  /\ 1 <= now
  /\ m.smartAt <= now /\ m.powerAt <= now /\ m.drumAt <= now
  /\ rc.at <= now /\ fc.at <= now /\ fc.armed <= now
  /\ \A j \in Jobs : jobs[j].armed <= now

\* The unique index: one active job; and none runs while a callback is at work.
OneActive ==
  /\ \A i, j \in Jobs : Active(i) /\ Active(j) => i = j
  /\ fc.pc # "idle" => \A j \in Jobs : jobs[j].status # "running"

\* What a pass or a cancel has set out to change is the job that is scheduled, if any.
Aimed ==
  /\ rc.pc = "cancel" \/ (rc.pc = "arm" /\ rc.job # 0) => \A j \in Scheduled : j = rc.job
  /\ ap.pc = "remove" => jobs[ap.job].status \notin {"unused", "scheduled"}
  /\ cron.lost => cron.job = 0

\* A job scheduled for later has its timer, also while handlers are at work.
Timed ==
  sys = "up" => \A j \in Scheduled \ Overdue : cron = Timer(j, jobs[j].start) \/ cron.lost

\* A job that has set the drum going was armed before that, so that the guard stops it.
OneGo ==
  /\ \A j \in started : jobs[j].status # "unused" /\ jobs[j].armed < m.drumAt
  /\ fc.pc \in {"remote", "guard"} /\ fc.job \in started => fc.armed < m.drumAt
  /\ fc.pc = "start" => fc.job \notin started

\* Between the guard and the start command only the owner touches the drum.
Guarded ==
  fc.pc = "start" => \/ m.drum = "stop" /\ m.drumAt <= fc.armed
                     \/ m.drumAt > fc.at

\* No row's end has been lost: the pass completes a job that runs, then sets the latch
\* with no job at work; a start command follows a gesture.
Sound ==
  /\ rc.pc \in {"poll", "complete"} => jobs[rc.job].status = "running"
  /\ rc.pc = "complete" => m.drum = "stop" /\ rc.at = m.drumAt
  /\ rc.pc = "latch" => fc.pc = "idle" /\ \A j \in Jobs : ~Active(j)
  /\ fc.pc = "start" => fresh /\ m.drum = "stop"
  /\ fc.pc = "running" /\ ~fresh => m.drum = "run"

\* A job ended after the last gesture.
SomeRuns == \E j \in Jobs : jobs[j].status = "running"
Noted ==
  \E j \in Jobs : /\ jobs[j].status \in {"completed", "failed", "cancelled"}
                  /\ m.power => m.powerAt <= jobs[j].end
                  /\ m.power /\ m.smart => m.smartAt <= jobs[j].end

\* Since the drum last started there was no gesture.
Stale ==
  /\ m.power => m.powerAt <= m.drumAt /\ (m.smart => m.smartAt <= m.drumAt)
  \* the washed load has its row, or will have
  /\ SomeRuns \/ Noted \/ (m.drum = "run" /\ fc.pc \in {"running", "drop"})
  \* the latch is set, or will be before the next pass may arm
  /\ \/ SomeRuns \/ latch # None \/ ~m.smart \/ rc.pc = "latch"
     \/ m.drum = "run" /\ \/ fc.pc \in {"running", "latch"}
                          \/ fc.pc = "drop" /\ fc.outcome # "cancelled"
  \* what was armed while the drum turned will find that it has stopped since
  /\ m.drum = "stop" =>
       /\ \A j \in Scheduled : jobs[j].armed < m.drumAt
       /\ ~(rc.pc = "arm" /\ rc.job = 0)
       /\ rc.pc = "check" => ~SomeRuns
       /\ fc.pc \in {"remote", "guard"} => fc.armed < m.drumAt

NoRewash == ~exposed => Sound /\ (~fresh => Stale)

IInv == /\ Control /\ Dated /\ OneActive /\ Aimed /\ Timed /\ OneGo /\ Guarded
        /\ NoRewash

----------------------------------------------------------------------------
(* Types *)

\* The clock and the bounds are numbers.
LEMMA TimesAreNat == /\ Times \subseteq Nat /\ Jobs \subseteq Nat \ {0} /\ None \in Times
                     /\ MaxTime \in Nat \ {0} /\ Horizon \in Nat \ {0} /\ {Gap, Debounce} \subseteq Nat
BY JobsAssumption DEF Times, Jobs, None

\* The idle actors, no observation and no timer.
LEMMA IdleTypes ==
  /\ RcIdle \in Passes /\ FcIdle \in Firings /\ NoObs \in Signals
  /\ NoCron \in [job: Jobs \cup {0}, at: 0..(MaxTime + Horizon), lost: BOOLEAN]
BY TimesAreNat DEF RcIdle, FcIdle, NoObs, NoCron, Timer, Passes, Firings, Signals, None

\* What is observed, and what is left of it when the latch is cleared (observe_arm_signals,
\* set_appliance_rearm_block).
LEMMA SignalTypes ==
  ASSUME TypeOK, NEW o \in Signals
  PROVE  /\ SeePower(o) \in Signals /\ SeeSmart(o) \in Signals /\ ClearedObs(o) \in Signals
         /\ [NoObs EXCEPT !.remoteTs = o.remoteTs] \in Signals
<1>1. m \in Machine /\ now \in Times /\ None \in Times
  BY TimesAreNat DEF TypeOK
<1>2. SeePower(o) \in Signals
  BY <1>1 DEF SeePower, Signals, Machine
<1>3. SeeSmart(o) \in Signals
  BY <1>1 DEF SeeSmart, Signals, Machine
<1>4. ClearedObs(o) \in Signals
  BY <1>1 DEF ClearedObs, Signals
<1>5. [NoObs EXCEPT !.remoteTs = o.remoteTs] \in Signals
  BY <1>1, IdleTypes DEF Signals
<1> QED BY <1>2, <1>3, <1>4, <1>5

\* The latch and the observations after each of the operations on them.
LEMMA LatchTypes ==
  ASSUME TypeOK, SetLatch \/ Release \/ CheckFreshArm \/ UNCHANGED <<latch, obs>>
  PROVE  latch' \in Times /\ obs' \in Signals
<1>1. latch \in Times /\ now \in Times /\ obs \in Signals /\ None \in Times
  BY TimesAreNat DEF TypeOK
<1>2. Observed \in Signals /\ ClearedObs(Observed) \in Signals /\ ClearedObs(obs) \in Signals
  BY <1>1, SignalTypes DEF Observed
<1> QED BY <1>1, <1>2, SignalTypes DEF SetLatch, Release, CheckFreshArm

\* The rows after an update of one of them.
LEMMA RowTypes ==
  ASSUME TypeOK, NEW j \in Jobs, NEW st \in Statuses, NEW at \in Times
  PROVE  /\ Ended(st, at) \in Job /\ Stamped(j, st) \in [Jobs -> Job]
         /\ [jobs EXCEPT ![j] = Ended(st, at)] \in [Jobs -> Job]
<1>1. jobs \in [Jobs -> Job] /\ now \in Times /\ None \in Times /\ None \in 0..(MaxTime + Horizon)
  BY TimesAreNat DEF TypeOK, None
<1>2. Ended(st, at) \in Job /\ Ended(st, now) \in Job
  BY <1>1 DEF Ended, Job
<1>3. [jobs[j] EXCEPT !.status = st] \in Job
  BY <1>1 DEF Job
<1>4. Stamped(j, st) \in [Jobs -> Job]
  BY <1>1, <1>2, <1>3 DEF Stamped
<1> QED BY <1>1, <1>2, <1>4

\* The rows after update_appliance_job.
LEMMA StampedTypes ==
  ASSUME TypeOK, NEW j \in Jobs, NEW st \in Statuses
  PROVE  Stamped(j, st) \in [Jobs -> Job]
<1>1. now \in Times
  BY DEF TypeOK
<1> QED BY <1>1, RowTypes

\* The rows after a re-plan.
LEMMA ReplanTypes ==
  ASSUME TypeOK, NEW j \in Jobs, NEW s \in 0..(MaxTime + Horizon)
  PROVE  [jobs EXCEPT ![j] = IF IsEnded(j) THEN Ended(@.status, now) ELSE [@ EXCEPT !.start = s]]
           \in [Jobs -> Job]
<1>1. jobs \in [Jobs -> Job] /\ now \in Times
  BY DEF TypeOK
<1>2. jobs[j].status \in Statuses /\ [jobs[j] EXCEPT !.start = s] \in Job
  BY <1>1 DEF Job
<1>3. Ended(jobs[j].status, now) \in Job
  BY <1>1, <1>2, RowTypes
<1> QED BY <1>1, <1>2, <1>3

\* The pass moves on.
LEMMA PassTypes ==
  ASSUME TypeOK, NEW js
  PROVE  /\ Polling(js) \in Passes
         /\ \A pc \in {"cancel", "check", "arm", "poll", "complete", "latch"}, j \in Jobs \cup {0}, at \in Times :
              /\ [rc EXCEPT !.pc = pc] \in Passes
              /\ [rc EXCEPT !.pc = pc, !.at = at] \in Passes
              /\ [rc EXCEPT !.pc = pc, !.job = j] \in Passes
              /\ [rc EXCEPT !.pc = pc, !.job = j, !.at = at] \in Passes
<1>1. rc \in Passes /\ RcIdle \in Passes
  BY IdleTypes DEF TypeOK
<1>2. Running(js) \subseteq Jobs
  BY DEF Running
<1>3. Running(js) # {} => (CHOOSE j \in Running(js) : TRUE) \in Jobs
  BY <1>2
<1>4. Polling(js) \in Passes
  BY <1>1, <1>3 DEF Polling, Passes
<1> QED BY <1>1, <1>4 DEF Passes

\* The one active job, if there is one.
LEMMA ActiveJobType ==
  /\ ActiveJob \in Jobs \cup {0}
  /\ ActiveJob # 0 => Active(ActiveJob)
  /\ ActiveJob = 0 <=> \A j \in Jobs : ~Active(j)
BY TimesAreNat DEF ActiveJob

\* Init gives every variable its type.
LEMMA TypeInit == Init => TypeOK
<1> SUFFICES ASSUME Init PROVE TypeOK
  OBVIOUS
<1>1. now \in Times /\ latch \in Times
  BY TimesAreNat DEF Init, Times
<1>2. m \in Machine
  BY <1>1 DEF Init, Machine
<1>3. jobs \in [Jobs -> Job]
  BY TimesAreNat DEF Init, Job, Statuses, Times
<1>4. ap \in [pc: {"idle", "write", "remove"}, job: Jobs \cup {0}]
  BY DEF Init, ApIdle
<1>5. budget \in [troubles: 0..MaxTroubles, manual: 0..MaxManual, touches: 0..MaxTouches,
                  cancels: 0..MaxCancels]
  BY JobsAssumption DEF Init
<1> QED BY <1>1, <1>2, <1>3, <1>4, <1>5, IdleTypes DEF Init, TypeOK

\* A fault, a change by the owner and a cancel are counted within their bounds.
LEMMA BudgetTypes ==
  ASSUME TypeOK,
         \/ Trouble \/ Touch \/ UNCHANGED budget
         \/ budget.manual < MaxManual /\ budget' = [budget EXCEPT !.manual = @ + 1]
         \/ budget.cancels < MaxCancels /\ budget' = [budget EXCEPT !.cancels = @ + 1]
  PROVE  budget' \in [troubles: 0..MaxTroubles, manual: 0..MaxManual, touches: 0..MaxTouches,
                      cancels: 0..MaxCancels]
BY JobsAssumption DEF TypeOK, Trouble, Touch

\* A reconcile pass keeps the types.
LEMMA TypeReconcile ==
  ASSUME TypeOK, Control, Reconcile
  PROVE  TypeOK'
<1> USE TimesAreNat
<1>1. UNCHANGED <<now, m, sys, fc, ap, fresh, started>>
  BY DEF Reconcile, RcReadFails, RcOff, RcCancel, RcLeaves, RcBlocked, RcArms, RcCheck, RcCheckFails,
         RcDeclines, RcCreates, RcReplans, RcPollRuns, RcPollFails, RcPollStopped, RcCompletes,
         RcLatches, history, Exposes
<1>2. /\ latch' \in Times /\ obs' \in Signals
  BY LatchTypes DEF Reconcile, RcReadFails, RcOff, RcCancel, RcLeaves, RcBlocked, RcArms, RcCheck,
         RcCheckFails, RcDeclines, RcCreates, RcReplans, RcPollRuns, RcPollFails, RcPollStopped,
         RcCompletes, RcLatches
<1>3. budget' \in [troubles: 0..MaxTroubles, manual: 0..MaxManual, touches: 0..MaxTouches,
                   cancels: 0..MaxCancels]
  BY BudgetTypes DEF Reconcile, RcReadFails, RcOff, RcCancel, RcLeaves, RcBlocked, RcArms, RcCheck,
         RcCheckFails, RcDeclines, RcCreates, RcReplans, RcPollRuns, RcPollFails, RcPollStopped,
         RcCompletes, RcLatches
<1>4. exposed' \in BOOLEAN
  BY DEF TypeOK, Reconcile, RcReadFails, RcOff, RcCancel, RcLeaves, RcBlocked, RcArms, RcCheck,
         RcCheckFails, RcDeclines, RcCreates, RcReplans, RcPollRuns, RcPollFails, RcPollStopped,
         RcCompletes, RcLatches, Exposes, history
<1>5. now \in Times /\ m.drumAt \in Times /\ rc.at \in Times /\ rc \in Passes /\ RcIdle \in Passes
  BY IdleTypes DEF TypeOK, Machine, Passes
<1>6. rc' \in Passes
  <2> DEFINE Go(pc) == [rc EXCEPT !.pc = pc]
  <2>1. Go("latch") \in Passes /\ Go("check") \in Passes /\ [rc EXCEPT !.pc = "arm", !.at = now] \in Passes
        /\ [rc EXCEPT !.pc = "cancel", !.job = ActiveJob] \in Passes
        /\ [rc EXCEPT !.pc = "arm", !.job = ActiveJob, !.at = now] \in Passes
        /\ [rc EXCEPT !.pc = "complete", !.at = m.drumAt] \in Passes
    BY <1>5, ActiveJobType DEF Passes
  <2>2. \A js : Polling(js) \in Passes
    BY PassTypes
  <2> HIDE DEF Go
  <2>3. \/ rc' \in {RcIdle, Go("latch"), Go("check"), [rc EXCEPT !.pc = "arm", !.at = now],
                    [rc EXCEPT !.pc = "cancel", !.job = ActiveJob],
                    [rc EXCEPT !.pc = "arm", !.job = ActiveJob, !.at = now],
                    [rc EXCEPT !.pc = "complete", !.at = m.drumAt]}
        \/ \E js : rc' = Polling(js)
    BY DEF Reconcile, RcReadFails, RcOff, RcCancel, RcLeaves, RcBlocked, RcArms, RcCheck, RcCheckFails,
           RcDeclines, RcCreates, RcReplans, RcPollRuns, RcPollFails, RcPollStopped, RcCompletes,
           RcLatches, RcGo, Go
  <2> QED BY <1>5, <2>1, <2>2, <2>3
<1>7. /\ jobs' \in [Jobs -> Job]
      /\ cron' \in [job: Jobs \cup {0}, at: 0..(MaxTime + Horizon), lost: BOOLEAN]
  <2> DEFINE CronOK == cron' \in [job: Jobs \cup {0}, at: 0..(MaxTime + Horizon), lost: BOOLEAN]
  <2>1. CASE RcReadFails \/ RcOff \/ RcLeaves \/ RcBlocked \/ RcArms \/ RcCheck \/ RcCheckFails
             \/ RcDeclines \/ RcPollRuns \/ RcPollFails \/ RcPollStopped \/ RcLatches
    BY <2>1 DEF TypeOK, RcReadFails, RcOff, RcLeaves, RcBlocked, RcArms, RcCheck, RcCheckFails,
         RcDeclines, RcPollRuns, RcPollFails, RcPollStopped, RcLatches
  <2>2. CASE RcCancel
    <3>1. jobs' = Stamped(rc.job, "cancelled") /\ cron' = NoCron /\ rc.job \in Jobs
      BY <2>2 DEF RcCancel, SetStatus, Control
    <3> QED BY <3>1, RowTypes, IdleTypes DEF Statuses
  <2>3. CASE RcCompletes
    <3>1. jobs' = [jobs EXCEPT ![rc.job] = Ended("completed", rc.at)] /\ rc.job \in Jobs /\ cron' = cron
      BY <2>3 DEF RcCompletes, Control
    <3>2. jobs' \in [Jobs -> Job]
      BY <3>1, <1>5, RowTypes DEF Statuses
    <3> QED BY <3>1, <3>2 DEF TypeOK
  <2>4. ASSUME NEW s \in (now + 1)..(now + Horizon), RcCreates(s) PROVE CronOK /\ jobs' \in [Jobs -> Job]
    <3>1. s \in 0..(MaxTime + Horizon)
      BY <1>5 DEF Times
    <3>2. PICK j \in Jobs : /\ jobs' = [jobs EXCEPT ![j] = [status |-> "scheduled", armed |-> rc.at,
                                                            start |-> s, end |-> None]]
                            /\ cron' = Timer(j, s)
      BY <2>4 DEF RcCreates
    <3>3. [status |-> "scheduled", armed |-> rc.at, start |-> s, end |-> None] \in Job
      BY <1>5, <3>1 DEF Job, Statuses
    <3> QED BY <3>1, <3>2, <3>3 DEF TypeOK, Timer
  <2>5. ASSUME NEW s \in (now + 1)..(now + Horizon), RcReplans(s) PROVE CronOK /\ jobs' \in [Jobs -> Job]
    <3>1. s \in 0..(MaxTime + Horizon)
      BY <1>5 DEF Times
    <3>2. rc.job \in Jobs
      BY <2>5, <1>5 DEF RcReplans, Passes
    <3>3. jobs' = [jobs EXCEPT ![rc.job] = IF IsEnded(rc.job) THEN Ended(@.status, now)
                                                            ELSE [@ EXCEPT !.start = s]]
      BY <2>5 DEF RcReplans
    <3>4. jobs' \in [Jobs -> Job]
      BY <3>1, <3>2, <3>3, ReplanTypes
    <3>5. CronOK
      BY <2>5, <3>1, <3>2 DEF RcReplans, Timer, TypeOK
    <3> QED BY <3>4, <3>5
  <2> QED BY <2>1, <2>2, <2>3, <2>4, <2>5 DEF Reconcile
<1> QED BY <1>1, <1>2, <1>3, <1>4, <1>6, <1>7 DEF TypeOK

\* So does a heartbeat.
LEMMA TypeHeartbeat ==
  ASSUME TypeOK, Heartbeat
  PROVE  TypeOK'
<1>1. latch' \in Times /\ obs' \in Signals
  BY LatchTypes DEF Heartbeat, HbOff, HbChecks
<1>2. UNCHANGED <<now, m, jobs, cron, sys, rc, fc, ap, budget, fresh, started, exposed>>
  BY DEF Heartbeat, HbOff, HbChecks, history
<1> QED BY <1>1, <1>2 DEF TypeOK

\* The callback moves on.
LEMMA FiringTypes ==
  ASSUME TypeOK
  PROVE  /\ \A pc \in {"remote", "guard", "start", "running", "drop", "latch"} : [fc EXCEPT !.pc = pc] \in Firings
         /\ \A why \in {"failed", "cancelled", "aborted"} :
              [fc EXCEPT !.pc = "drop", !.outcome = why] \in Firings
         /\ cron.job # 0 => [FcIdle EXCEPT !.pc = "remote", !.job = cron.job, !.at = now,
                                           !.armed = jobs[cron.job].armed] \in Firings
<1>1. fc \in Firings /\ FcIdle \in Firings /\ now \in Times
  BY IdleTypes DEF TypeOK
<1>2. cron.job # 0 => cron.job \in Jobs /\ jobs[cron.job].armed \in Times
  BY DEF TypeOK, Job
<1> QED BY <1>1, <1>2 DEF Firings

\* The timer's callback keeps the types: without its start command,
LEMMA TypeFire ==
  ASSUME TypeOK, Control, Fire
  PROVE  TypeOK'
<1> USE TimesAreNat
<1>1. UNCHANGED <<now, m, sys, rc, ap, fresh, started>>
  BY DEF Fire, FcBegins, FcMissed, FcReadsRemote, FcRemoteFails, FcGuards, FcGuardFails, FcStartFails,
         FcRuns, FcDrops, FcLatches, history, Exposes
<1>2. latch' \in Times /\ obs' \in Signals
  BY LatchTypes DEF Fire, FcBegins, FcMissed, FcReadsRemote, FcRemoteFails, FcGuards, FcGuardFails,
         FcStartFails, FcRuns, FcDrops, FcLatches
<1>3. budget' \in [troubles: 0..MaxTroubles, manual: 0..MaxManual, touches: 0..MaxTouches,
                   cancels: 0..MaxCancels]
  BY BudgetTypes DEF Fire, FcBegins, FcMissed, FcReadsRemote, FcRemoteFails, FcGuards, FcGuardFails,
         FcStartFails, FcRuns, FcDrops, FcLatches
<1>4. exposed' \in BOOLEAN
  BY DEF TypeOK, Fire, FcBegins, FcMissed, FcReadsRemote, FcRemoteFails, FcGuards, FcGuardFails,
         FcStartFails, FcRuns, FcDrops, FcLatches, Exposes, history
<1>5. fc' \in Firings
  <2>1. CASE FcBegins
    BY <2>1, FiringTypes, IdleTypes DEF FcBegins
  <2>2. CASE FcMissed \/ FcRuns \/ FcLatches
    BY <2>2, IdleTypes DEF FcMissed, FcRuns, FcLatches, TypeOK
  <2>3. CASE FcReadsRemote \/ FcRemoteFails \/ FcGuards \/ FcGuardFails \/ FcStartFails \/ FcDrops
    BY <2>3, FiringTypes, IdleTypes DEF FcReadsRemote, FcRemoteFails, FcGuards, FcGuardFails,
         FcStartFails, FcDrops, FcGo, FcDrop
  <2> QED BY <2>1, <2>2, <2>3 DEF Fire
<1>6. jobs' \in [Jobs -> Job]
  <2>1. CASE FcRuns
    <3>1. fc.job \in Jobs /\ jobs' \in {jobs, Stamped(fc.job, "running")}
      BY <2>1 DEF FcRuns, Control
    <3>2. Stamped(fc.job, "running") \in [Jobs -> Job]
      BY <3>1, StampedTypes DEF Statuses
    <3>3. jobs \in [Jobs -> Job]
      BY DEF TypeOK
    <3> QED BY <3>1, <3>2, <3>3
  <2>2. CASE FcDrops
    <3>1. fc.job \in Jobs /\ jobs' \in {Stamped(fc.job, "failed"), Stamped(fc.job, "cancelled")}
      BY <2>2 DEF FcDrops, Control, SetStatus
    <3> QED BY <3>1, StampedTypes DEF Statuses
  <2>3. CASE UNCHANGED jobs
    BY <2>3 DEF TypeOK
  <2> QED BY <2>1, <2>2, <2>3 DEF Fire, FcBegins, FcMissed, FcReadsRemote, FcRemoteFails, FcGuards,
               FcGuardFails, FcStartFails, FcLatches
<1>7. cron' \in [job: Jobs \cup {0}, at: 0..(MaxTime + Horizon), lost: BOOLEAN]
  BY IdleTypes DEF TypeOK, Fire, FcBegins, FcMissed, FcReadsRemote, FcRemoteFails, FcGuards, FcGuardFails,
         FcStartFails, FcRuns, FcDrops, FcLatches
<1> QED BY <1>1, <1>2, <1>3, <1>4, <1>5, <1>6, <1>7 DEF TypeOK

\* and with it.
LEMMA TypeFireStart ==
  ASSUME TypeOK, Control, FireStart
  PROVE  TypeOK'
<1> USE TimesAreNat
<1>1. now' \in Times
  BY DEF TypeOK, FireStart, FcStarts, FcStartLost, Times
<1>2. m' \in Machine
  BY <1>1, ZenonT(40) DEF TypeOK, FireStart, FcStarts, FcStartLost, DrumStarts, Machine
<1>3. UNCHANGED <<cron, jobs, latch, obs, sys, rc, ap, exposed>>
  BY DEF FireStart, FcStarts, FcStartLost, Sent
<1>4. fc' \in Firings
  BY FiringTypes DEF FireStart, FcStarts, FcStartLost, FcGo, FcDrop
<1>5. budget' \in [troubles: 0..MaxTroubles, manual: 0..MaxManual, touches: 0..MaxTouches,
                   cancels: 0..MaxCancels]
  BY BudgetTypes DEF FireStart, FcStarts, FcStartLost
<1>6. started' \subseteq Jobs
  BY DEF TypeOK, Control, FireStart, FcStarts, FcStartLost, Sent
<1>7. fresh' \in BOOLEAN
  BY DEF TypeOK, FireStart, FcStarts, FcStartLost, DrumStarts
<1> QED BY <1>1, <1>2, <1>3, <1>4, <1>5, <1>6, <1>7 DEF TypeOK

\* The API's cancel keeps the types.
LEMMA TypeCancel ==
  ASSUME TypeOK, Control, Cancel
  PROVE  TypeOK'
<1>1. UNCHANGED <<now, m, latch, obs, sys, rc, fc, fresh, started>>
  BY DEF Cancel, ApCancels, ApWrites, ApRemovesCron, history
<1>2. budget' \in [troubles: 0..MaxTroubles, manual: 0..MaxManual, touches: 0..MaxTouches,
                   cancels: 0..MaxCancels]
  BY BudgetTypes DEF Cancel, ApCancels, ApWrites, ApRemovesCron
<1>3. ap' \in [pc: {"idle", "write", "remove"}, job: Jobs \cup {0}]
  BY DEF TypeOK, Cancel, ApCancels, ApWrites, ApRemovesCron, ApIdle
<1>6. exposed' \in BOOLEAN
  BY Zenon DEF TypeOK, Cancel, ApCancels, ApWrites, ApRemovesCron, history
<1>4. cron' \in [job: Jobs \cup {0}, at: 0..(MaxTime + Horizon), lost: BOOLEAN]
  BY IdleTypes DEF TypeOK, Cancel, ApCancels, ApWrites, ApRemovesCron
<1>5. jobs' \in [Jobs -> Job]
  <2>1. jobs' = jobs \/ (jobs' = Stamped(ap.job, "cancelled") /\ ap.job \in Jobs)
    BY DEF Control, Cancel, ApCancels, ApWrites, ApRemovesCron, SetStatus
  <2> QED BY <2>1, StampedTypes DEF TypeOK, Statuses
<1> QED BY <1>1, <1>2, <1>3, <1>4, <1>5, <1>6 DEF TypeOK

\* Stops and starts of the process keep them.
LEMMA TypeProcess ==
  ASSUME TypeOK, Process
  PROVE  TypeOK'
<1>1. UNCHANGED <<now, m, latch, obs, fresh, started>> /\ sys' \in {"up", "boot", "down"}
  BY DEF Process, Crash, Restart, Rehydrate, Exposes, history
<1>2. budget' \in [troubles: 0..MaxTroubles, manual: 0..MaxManual, touches: 0..MaxTouches,
                   cancels: 0..MaxCancels]
  BY BudgetTypes DEF Process, Crash, Restart, Rehydrate
<1>3. /\ rc' \in Passes /\ fc' \in Firings /\ ap' \in [pc: {"idle", "write", "remove"}, job: Jobs \cup {0}]
  BY IdleTypes DEF TypeOK, Process, Crash, Restart, Rehydrate, ApIdle
<1>6. exposed' \in BOOLEAN
  BY Zenon DEF TypeOK, Process, Crash, Restart, Rehydrate, Exposes, history
<1>4. cron' \in [job: Jobs \cup {0}, at: 0..(MaxTime + Horizon), lost: BOOLEAN]
  <2>1. \A j \in Jobs : Timer(j, jobs[j].start) \in [job: Jobs \cup {0}, at: 0..(MaxTime + Horizon), lost: BOOLEAN]
    BY DEF TypeOK, Job, Timer
  <2>2. cron' \in {cron, NoCron} \/ \E j \in Jobs : cron' = Timer(j, jobs[j].start)
    BY DEF Process, Crash, Restart, Rehydrate, Scheduled
  <2> QED BY <2>1, <2>2, IdleTypes DEF TypeOK
<1>5. jobs' \in [Jobs -> Job]
  <2>1. now \in Times /\ jobs \in [Jobs -> Job] /\ Ended("expired", now) \in Job
    BY TimesAreNat DEF TypeOK, Ended, Job, Statuses, None
  <2> QED BY <2>1 DEF Process, Crash, Restart, Rehydrate
<1> QED BY <1>1, <1>2, <1>3, <1>4, <1>5, <1>6 DEF TypeOK

\* The owner, the machine and the clock keep them.
LEMMA TypeOutside ==
  ASSUME TypeOK, Outside
  PROVE  TypeOK'
<1> USE TimesAreNat
<1>1. UNCHANGED <<jobs, latch, obs, cron, sys, rc, fc, ap, started>> /\ now' \in Times
  BY DEF TypeOK, Outside, SmartOn, SmartOff, PowerOff, PowerOn, Restamp, StartByHand, Finish, Tick, Stamp,
         Gesture, NoGesture, Nothing, history, Times
<1>2. m' \in Machine
  <2>1. m \in Machine /\ (now < MaxTime => now + 1 \in Times)
    BY DEF TypeOK, Times
  <2>2. CASE SmartOn \/ SmartOff \/ PowerOff \/ PowerOn
    BY <2>1, <2>2 DEF SmartOn, SmartOff, PowerOff, PowerOn, Stamp, Machine
  <2>3. CASE Restamp \/ StartByHand \/ Finish \/ Tick
    BY <2>1, <2>3 DEF Restamp, StartByHand, Finish, Tick, Stamp, Machine
  <2> QED BY <2>2, <2>3 DEF Outside
<1>3. budget' \in [troubles: 0..MaxTroubles, manual: 0..MaxManual, touches: 0..MaxTouches,
                   cancels: 0..MaxCancels]
  BY BudgetTypes DEF Outside, SmartOn, SmartOff, PowerOff, PowerOn, Restamp, StartByHand, Finish, Tick,
         Gesture, NoGesture, Nothing
<1>4. fresh' \in BOOLEAN /\ exposed' \in BOOLEAN
  BY DEF TypeOK, Outside, SmartOn, SmartOff, PowerOff, PowerOn, Restamp, StartByHand, Finish, Tick,
         Gesture, NoGesture, Nothing, history
<1> QED BY <1>1, <1>2, <1>3, <1>4 DEF TypeOK

\* Every step keeps the types.
LEMMA TypeStep ==
  ASSUME TypeOK, Control, [Next]_vars
  PROVE  TypeOK'
<1>1. CASE UNCHANGED vars
  BY <1>1 DEF vars, TypeOK
<1>2. CASE Next
  BY <1>2, TypeReconcile, TypeHeartbeat, TypeFire, TypeFireStart, TypeCancel, TypeProcess, TypeOutside DEF Next
<1> QED BY <1>1, <1>2

----------------------------------------------------------------------------
(* What a step does to a row *)

\* The row that update_appliance_job writes, and the others.
LEMMA StampedRow ==
  ASSUME TypeOK, NEW j \in Jobs, NEW st \in Statuses
  PROVE  /\ \A i \in Jobs \ {j} : Stamped(j, st)[i] = jobs[i]
         /\ Stamped(j, st)[j].status = st
         /\ st = "running" => /\ Stamped(j, st)[j].armed = jobs[j].armed
                              /\ Stamped(j, st)[j].start = jobs[j].start
         /\ st # "running" => Stamped(j, st)[j].armed = 0 /\ Stamped(j, st)[j].end = now
BY DEF TypeOK, Job, Stamped, Ended, None

\* A row is kept, ends, begins to run, has its start moved, or is new.
RowBegins(i) ==
  /\ FcRuns /\ i = fc.job /\ ActiveJob \in {0, i}
  /\ jobs'[i].status = "running" /\ jobs'[i].armed = jobs[i].armed /\ jobs[i].status # "unused"
  /\ \A k \in Jobs \ {i} : jobs'[k] = jobs[k]
RowMade(i) ==
  /\ rc.pc = "arm" /\ rc.job = 0 /\ ActiveJob = 0 /\ Polling(jobs') = rc' /\ UNCHANGED <<fc, now, m, sys, exposed, fresh, latch>>
  /\ jobs[i].status = "unused" /\ jobs'[i].status = "scheduled" /\ jobs'[i].armed = rc.at
  /\ \A k \in Jobs \ {i} : jobs'[k] = jobs[k]
RowStep(i) ==
  \/ jobs'[i] = jobs[i]
  \/ IsEnded(i)' /\ jobs'[i].armed = 0
  \/ jobs'[i].status = jobs[i].status /\ jobs'[i].armed = jobs[i].armed
  \/ RowBegins(i)
  \/ RowMade(i)

\* The rows a step leaves alone, and what it does to the others.
LEMMA RowSteps ==
  ASSUME TypeOK, Control, [Next]_vars
  PROVE  \A i \in Jobs : RowStep(i)
<1> SUFFICES ASSUME NEW i \in Jobs PROVE RowStep(i)
  OBVIOUS
<1>1. jobs \in [Jobs -> Job] /\ now \in Times
  BY DEF TypeOK
<1>2. ASSUME NEW j \in Jobs, NEW st \in {"completed", "failed", "cancelled"}, jobs' = Stamped(j, st)
      PROVE  RowStep(i)
  BY <1>2, StampedRow DEF RowStep, IsEnded, Statuses
<1>3. CASE UNCHANGED jobs
  BY <1>3 DEF RowStep
<1>4. CASE RcCancel
  BY <1>4, <1>2 DEF RcCancel, SetStatus, Control
<1>5. ASSUME NEW s \in (now + 1)..(now + Horizon), RcCreates(s), Reconcile PROVE RowStep(i)
  <2>1. PICK j \in Jobs : /\ jobs[j].status = "unused"
                          /\ jobs' = [jobs EXCEPT ![j] = [status |-> "scheduled", armed |-> rc.at,
                                                          start |-> s, end |-> None]]
    BY <1>5 DEF RcCreates
  <2>2. CASE i = j
    <3>1. rc.pc = "arm" /\ rc.job = 0 /\ ActiveJob = 0 /\ Polling(jobs') = rc' /\ UNCHANGED <<fc, now, m, sys, exposed, fresh, latch>>
      BY <1>5 DEF RcCreates, Reconcile, history
    <3>2. /\ jobs'[i].status = "scheduled" /\ jobs'[i].armed = rc.at
          /\ \A k \in Jobs \ {i} : jobs'[k] = jobs[k]
      BY <1>1, <2>1, <2>2
    <3> QED BY <2>1, <2>2, <3>1, <3>2 DEF RowStep, RowMade
  <2>3. CASE i # j
    BY <1>1, <2>1, <2>3 DEF RowStep
  <2> QED BY <2>2, <2>3
<1>6. ASSUME NEW s \in (now + 1)..(now + Horizon), RcReplans(s) PROVE RowStep(i)
  <2>1. CASE i # rc.job
    BY <1>1, <1>6, <2>1 DEF RcReplans, RowStep
  <2>2. CASE i = rc.job /\ IsEnded(i)
    BY <1>1, <1>6, <2>2 DEF RcReplans, RowStep, IsEnded, Ended, None
  <2>3. CASE i = rc.job /\ ~IsEnded(i)
    BY <1>1, <1>6, <2>3 DEF RcReplans, RowStep, Job
  <2> QED BY <2>1, <2>2, <2>3
<1>7. CASE RcCompletes
  BY <1>1, <1>7 DEF RcCompletes, RowStep, IsEnded, Ended, Control, None
<1>8. CASE FcRuns
  <2>1. fc.job \in Jobs /\ jobs[fc.job].status # "unused" /\ "running" \in Statuses
    BY <1>8 DEF FcRuns, Control, Statuses
  <2>2. CASE ActiveJob \notin {0, fc.job}
    BY <1>8, <2>2 DEF FcRuns, RowStep
  <2>3. CASE ActiveJob \in {0, fc.job} /\ i # fc.job
    BY <1>8, <2>1, <2>3, StampedRow DEF FcRuns, RowStep
  <2>4. CASE ActiveJob \in {0, fc.job} /\ i = fc.job
    <3>1. jobs' = Stamped(i, "running")
      BY <1>8, <2>4 DEF FcRuns
    <3>2. RowBegins(i)
      BY <1>8, <2>1, <2>4, <3>1, StampedRow DEF RowBegins
    <3> QED BY <3>2 DEF RowStep
  <2> QED BY <2>2, <2>3, <2>4
<1>9. CASE FcDrops
  BY <1>9, <1>2 DEF FcDrops, SetStatus, Control
<1>10. CASE ApWrites
  BY <1>10, <1>2 DEF ApWrites, SetStatus, Control
<1>11. CASE Rehydrate
  BY <1>1, <1>11 DEF Rehydrate, RowStep, IsEnded, Ended, None
<1>12. CASE Reconcile
  BY <1>3, <1>4, <1>5, <1>6, <1>7, <1>12 DEF Reconcile, RcReadFails, RcOff, RcLeaves, RcBlocked, RcArms, RcCheck,
         RcCheckFails, RcDeclines, RcPollRuns, RcPollFails, RcPollStopped, RcLatches
<1>13. CASE Fire
  BY <1>3, <1>8, <1>9, <1>13 DEF Fire, FcBegins, FcMissed, FcReadsRemote, FcRemoteFails, FcGuards, FcGuardFails,
         FcStartFails, FcLatches
<1>14. CASE Heartbeat \/ FireStart \/ Outside \/ Crash \/ Restart \/ UNCHANGED vars
  BY <1>3, <1>14 DEF Heartbeat, FireStart, FcStarts, FcStartLost, Outside, SmartOn, SmartOff, PowerOff, PowerOn,
         Restamp, StartByHand, Finish, Tick, Stamp, Crash, Restart, vars
<1>15. CASE Cancel
  BY <1>3, <1>10, <1>15 DEF Cancel, ApCancels, ApRemovesCron
<1> QED BY <1>11, <1>12, <1>13, <1>14, <1>15 DEF Next, Process

\* The job a pass goes on to poll is running.
LEMMA PollingJob ==
  ASSUME NEW js
  PROVE  /\ Polling(js).pc \in {"idle", "poll"}
         /\ Polling(js).pc = "poll" => Polling(js).job \in Running(js)
         /\ Polling(js).pc = "idle" => Polling(js).job = 0
         /\ Polling(js).at = 0
<1>1. CASE Running(js) = {}
  BY <1>1 DEF Polling, RcIdle, None
<1>2. CASE Running(js) # {}
  <2>1. (CHOOSE j \in Running(js) : TRUE) \in Running(js)
    BY <1>2
  <2> QED BY <1>2, <2>1 DEF Polling, RcIdle, None
<1> QED BY <1>1, <1>2

----------------------------------------------------------------------------
(* The inductive invariant: Init and the steps *)

\* Every actor begins idle and every row unused.
LEMMA InvInit == Init => IInv
<1> SUFFICES ASSUME Init PROVE IInv
  OBVIOUS
<1>1. \A j \in Jobs : jobs[j].status = "unused" /\ jobs[j].armed = 0
  BY DEF Init
<1> QED BY <1>1, TimesAreNat DEF Init, IInv, Control, Dated, OneActive, Aimed, Timed, OneGo, Guarded, NoRewash,
       Sound, Active, Scheduled, RcIdle, FcIdle, ApIdle, NoCron, Timer, None

\* An actor at work knows its job.
LEMMA ControlStep ==
  ASSUME TypeOK, Control, [Next]_vars
  PROVE  Control'
<1>1. /\ rc'.pc \in {"cancel", "poll", "complete"} => rc'.job \in Jobs
      /\ rc'.pc \in {"idle", "check"} => rc'.job = 0
  <2>1. CASE Reconcile
    <3>1. \A js : Running(js) \subseteq Jobs
      BY DEF Running
    <3>2. ASSUME NEW js, rc' = Polling(js)
          PROVE  /\ rc'.pc \in {"cancel", "poll", "complete"} => rc'.job \in Jobs
                 /\ rc'.pc \in {"idle", "check"} => rc'.job = 0
      BY <3>1, <3>2, PollingJob
    <3>3. CASE RcPollRuns \/ RcPollFails \/ RcLatches
      BY <3>3 DEF RcIdle, RcPollRuns, RcPollFails, RcLatches
    <3>6. CASE RcArms \/ RcCompletes
      BY <3>6 DEF TypeOK, Passes, RcArms, RcCompletes, RcGo
    <3>7. CASE RcPollStopped \/ RcBlocked
      BY <3>7 DEF TypeOK, Passes, Control, RcPollStopped, RcBlocked, RcBegins, RcGo
    <3>4. CASE RcOff /\ rc' = [rc EXCEPT !.pc = "cancel", !.job = ActiveJob] /\ ActiveJob # 0
      BY <3>4, ActiveJobType DEF TypeOK, Passes
    <3>5. CASE RcCheck /\ rc' = [rc EXCEPT !.pc = "arm", !.at = now]
      BY <3>5 DEF TypeOK, Passes
    <3> QED BY <2>1, <3>2, <3>3, <3>4, <3>5, <3>6, <3>7 DEF Reconcile, RcReadFails, RcOff, RcCancel, RcLeaves,
           RcCheck, RcCheckFails, RcDeclines, RcCreates, RcReplans
  <2>2. CASE Crash
    BY <2>2 DEF Crash, RcIdle
  <2>3. CASE rc' = rc
    BY <2>3 DEF Control
  <2> QED BY <2>1, <2>2, <2>3 DEF Next, Heartbeat, Fire, FireStart, Cancel, Process, Restart, Rehydrate,
             Outside, SmartOn, SmartOff, PowerOff, PowerOn, Restamp, StartByHand, Finish, Tick, Stamp, vars
<1>2. fc'.pc # "idle" => fc'.job \in Jobs /\ jobs'[fc'.job].status # "unused"
  <2>1. \A j \in Jobs : jobs[j].status # "unused" => jobs'[j].status # "unused"
    BY RowSteps DEF RowStep, RowBegins, RowMade, IsEnded
  <2>2. \/ fc'.pc = "idle"
        \/ fc.pc # "idle" /\ fc'.job = fc.job
        \/ fc'.job = cron.job /\ cron.job # 0 /\ jobs[cron.job].status = "scheduled"
    <3>1. CASE FcBegins
      BY <3>1 DEF TypeOK, FcBegins, FcIdle
    <3>2. CASE FcReadsRemote \/ FcRemoteFails \/ FcGuards \/ FcGuardFails \/ FcStartFails
      BY <3>2 DEF TypeOK, Firings, FcReadsRemote, FcRemoteFails, FcGuards, FcGuardFails, FcStartFails,
             FcGo, FcDrop
    <3>3. CASE fc' = FcIdle \/ FcDrops \/ FcStarts \/ FcStartLost
      <4>1. \/ fc.pc # "idle" /\ fc' = [fc EXCEPT !.pc = fc'.pc, !.outcome = fc'.outcome]
            \/ fc' = FcIdle
        BY <3>3 DEF TypeOK, Firings, FcDrops, FcStarts, FcStartLost, FcGo, FcDrop
      <4>2. fc \in Firings
        BY DEF TypeOK
      <4>3. CASE fc.pc # "idle" /\ fc' = [fc EXCEPT !.pc = fc'.pc, !.outcome = fc'.outcome]
        BY <4>2, <4>3 DEF Firings
      <4> QED BY <4>1, <4>3 DEF FcIdle
    <3>4. CASE fc' = fc
      BY <3>4 DEF TypeOK, Firings
    <3> QED BY <3>1, <3>2, <3>3, <3>4 DEF Next, Reconcile, Heartbeat, Fire, FireStart, Cancel, Process, Restart, Rehydrate,
             Outside, SmartOn, SmartOff, PowerOff, PowerOn, Restamp, StartByHand, Finish, Tick, Stamp, vars, FcMissed,
             FcRuns, FcLatches, Crash
  <2> QED BY <2>1, <2>2 DEF TypeOK, Control
<1>3. ap'.pc # "idle" => ap'.job \in Jobs
  BY DEF TypeOK, Control, Next, Reconcile, Heartbeat, Fire, FireStart, Cancel, Process, Crash, Restart, Rehydrate,
             Outside, SmartOn, SmartOff, PowerOff, PowerOn, Restamp, StartByHand, Finish, Tick, Stamp, vars,
             ApCancels, ApWrites, ApRemovesCron, ApIdle
<1> QED BY <1>1, <1>2, <1>3 DEF Control

\* Nothing is dated in the future after a step.
LEMMA DatedStep ==
  ASSUME TypeOK, Control, Dated, [Next]_vars
  PROVE  Dated'
<1>1. m \in Machine /\ rc \in Passes /\ fc \in Firings /\ jobs \in [Jobs -> Job]
  BY DEF TypeOK
<1>8. now \in Nat /\ m.smartAt \in Nat /\ m.powerAt \in Nat /\ m.drumAt \in Nat
  BY TimesAreNat DEF TypeOK, Machine
<1>9. rc.at \in Nat /\ fc.at \in Nat /\ fc.armed \in Nat /\ \A j \in Jobs : jobs[j].armed \in Nat
  BY TimesAreNat DEF TypeOK, Passes, Firings, Job
<1>2. now' \in {now, now + 1}
  BY DEF Next, Reconcile, Heartbeat, Fire, FireStart, Cancel, Process, Crash, Restart, Rehydrate, Outside, SmartOn,
         SmartOff, PowerOff, PowerOn, Restamp, StartByHand, Finish, Tick, Stamp, vars
<1>3. m'.smartAt <= now' /\ m'.powerAt <= now' /\ m'.drumAt <= now'
  <2>1. m'.smartAt \in {m.smartAt, now'} /\ m'.powerAt \in {m.powerAt, now'} /\ m'.drumAt \in {m.drumAt, now'}
    <3>1. CASE SmartOn \/ SmartOff \/ PowerOff \/ PowerOn \/ Restamp
      BY <1>1, <3>1 DEF SmartOn, SmartOff, PowerOff, PowerOn, Restamp, Stamp, Machine
    <3>2. CASE StartByHand \/ Finish
      BY <1>1, <3>2 DEF StartByHand, Finish, Stamp, Machine
    <3>3. CASE FireStart
      BY <1>1, <3>3 DEF FireStart, FcStarts, FcStartLost, DrumStarts, Machine
    <3>4. CASE m' = m
      BY <3>4
    <3> QED BY <3>1, <3>2, <3>3, <3>4 DEF Next, Reconcile, Heartbeat, Fire, Cancel, Process, Crash, Restart,
           Rehydrate, Outside, Tick, Stamp, vars, FcBegins, FcMissed, FcReadsRemote, FcRemoteFails, FcGuards,
           FcGuardFails, FcStartFails, FcRuns, FcDrops, FcLatches
  <2> QED BY <1>2, <1>8, <2>1 DEF Dated
<1>4. rc'.at <= now'
  <2>1. rc'.at \in {rc.at, now, m.drumAt, 0}
    <3>1. CASE Reconcile
      <4>1. \A js : Polling(js).at = 0
        BY PollingJob
      <4>2. ASSUME NEW js, rc' = Polling(js) PROVE rc'.at = 0
        BY <4>1, <4>2
      <4>3. CASE RcPollRuns \/ RcPollFails \/ RcLatches
        BY <4>3 DEF RcIdle, RcPollRuns, RcPollFails, RcLatches, None
      <4>4. CASE RcArms \/ RcCompletes
        BY <1>1, <4>4 DEF Passes, RcArms, RcCompletes, RcGo
      <4>5. CASE RcPollStopped \/ RcBlocked
        BY <1>1, <4>5 DEF Passes, RcPollStopped, RcBlocked, RcGo
      <4>6. CASE RcOff /\ rc' = [rc EXCEPT !.pc = "cancel", !.job = ActiveJob]
        BY <1>1, <4>6 DEF Passes
      <4>7. CASE RcCheck /\ rc' = [rc EXCEPT !.pc = "arm", !.at = now]
        BY <1>1, <4>7 DEF Passes
      <4> QED BY <3>1, <4>2, <4>3, <4>4, <4>5, <4>6, <4>7 DEF Reconcile, RcReadFails, RcOff, RcCancel,
             RcLeaves, RcCheck, RcCheckFails, RcDeclines, RcCreates, RcReplans
    <3>2. CASE Crash
      BY <3>2 DEF Crash, RcIdle, None
    <3>3. CASE rc' = rc
      BY <3>3
    <3> QED BY <3>1, <3>2, <3>3 DEF Next, Heartbeat, Fire, FireStart, Cancel, Process, Restart, Rehydrate,
             Outside, SmartOn, SmartOff, PowerOff, PowerOn, Restamp, StartByHand, Finish, Tick, Stamp, vars
  <2> QED BY <1>2, <1>8, <1>9, <2>1 DEF Dated
<1>5. fc'.at <= now' /\ fc'.armed <= now'
  <2>1. \/ fc'.at = fc.at /\ fc'.armed = fc.armed
        \/ fc'.at = 0 /\ fc'.armed = 0
        \/ fc'.at = now /\ fc'.armed = jobs[cron.job].armed /\ cron.job # 0
    <3>1. CASE FcBegins
      BY <3>1 DEF TypeOK, FcBegins, FcIdle, None
    <3>2. CASE FcReadsRemote \/ FcRemoteFails \/ FcGuards \/ FcGuardFails \/ FcStartFails
      BY <1>1, <3>2 DEF Firings, FcReadsRemote, FcRemoteFails, FcGuards, FcGuardFails, FcStartFails,
             FcGo, FcDrop
    <3>3. CASE fc' = FcIdle
      BY <3>3 DEF FcIdle, None
    <3>4. CASE FcDrops \/ FcStarts \/ FcStartLost
      <4>1. fc' = [fc EXCEPT !.pc = fc'.pc, !.outcome = fc'.outcome] \/ fc' = FcIdle
        BY <1>1, <3>4 DEF Firings, FcDrops, FcStarts, FcStartLost, FcGo, FcDrop
      <4> QED BY <4>1, <1>1, <3>3 DEF Firings
    <3>5. CASE fc' = fc
      BY <3>5
    <3> QED BY <3>1, <3>2, <3>3, <3>4, <3>5 DEF Next, Reconcile, Heartbeat, Fire, FireStart, Cancel, Process, Restart,
             Rehydrate, Outside, SmartOn, SmartOff, PowerOff, PowerOn, Restamp, StartByHand, Finish, Tick, Stamp,
             vars, FcMissed, FcRuns, FcLatches, Crash
  <2>2. cron.job \in Jobs \cup {0}
    BY DEF TypeOK
  <2> QED BY <1>2, <1>8, <1>9, <2>1, <2>2 DEF Dated
<1>6. \A j \in Jobs : jobs'[j].armed <= now'
  <2> SUFFICES ASSUME NEW j \in Jobs PROVE jobs'[j].armed <= now'
    OBVIOUS
  <2>1. jobs'[j].armed \in {jobs[j].armed, 0, rc.at}
    BY RowSteps DEF RowStep, RowBegins, RowMade
  <2> QED BY <2>1, <1>2, <1>8, <1>9 DEF Dated
<1>7. 1 <= now'
  BY <1>2, <1>8 DEF Dated
<1> QED BY <1>3, <1>4, <1>5, <1>6, <1>7 DEF Dated

\* What becomes of the callback.
LEMMA FiringStep ==
  ASSUME TypeOK, Control, [Next]_vars
  PROVE  \/ fc' = fc
         \/ fc' = FcIdle
         \/ fc.pc # "idle" /\ fc' = [fc EXCEPT !.pc = fc'.pc, !.outcome = fc'.outcome]
         \/ FcBegins /\ Fire /\ cron.job \in Scheduled /\ fc' = [FcIdle EXCEPT !.pc = "remote", !.job = cron.job, !.at = now,
                                                   !.armed = jobs[cron.job].armed]
<1>1. fc \in Firings /\ cron.job \in Jobs \cup {0}
  BY DEF TypeOK
<1>2. CASE FcBegins /\ Fire
  BY <1>1, <1>2 DEF FcBegins, Scheduled
<1>3. CASE FcReadsRemote \/ FcRemoteFails \/ FcGuards \/ FcGuardFails \/ FcStartFails
  BY <1>1, <1>3 DEF Firings, FcReadsRemote, FcRemoteFails, FcGuards, FcGuardFails, FcStartFails, FcGo, FcDrop
<1>4. CASE FcDrops \/ FcStarts \/ FcStartLost
  BY <1>1, <1>4 DEF Firings, FcDrops, FcStarts, FcStartLost, FcGo, FcDrop
<1> QED BY <1>2, <1>3, <1>4 DEF Next, Reconcile, Heartbeat, Fire, FireStart, Cancel, Process, Restart, Rehydrate,
     Outside, SmartOn, SmartOff, PowerOff, PowerOn, Restamp, StartByHand, Finish, Tick, Stamp, vars, FcMissed,
     FcRuns, FcLatches, Crash

\* There is one active job after a step, and none runs while a callback is at work.
LEMMA OneActiveStep ==
  ASSUME TypeOK, Control, OneActive, [Next]_vars
  PROVE  OneActive'
<1>1. ASSUME NEW i \in Jobs, NEW j \in Jobs, Active(i)', Active(j)' PROVE i = j
  <2>1. RowStep(i) /\ RowStep(j)
    BY RowSteps
  <2>2. CASE RowMade(i) \/ RowMade(j)
    BY <1>1, <2>2, ActiveJobType DEF RowMade, Active
  <2>3. CASE RowBegins(i) \/ RowBegins(j)
    <3>1. ASSUME NEW k \in Jobs, Active(k), RowBegins(i) \/ RowBegins(j) PROVE k = fc.job
      BY <3>1, ActiveJobType DEF RowBegins, OneActive
    <3> QED BY <1>1, <2>3, <3>1 DEF RowBegins, Active
  <2>4. CASE ~(RowMade(i) \/ RowMade(j)) /\ ~(RowBegins(i) \/ RowBegins(j))
    BY <1>1, <2>1, <2>4 DEF RowStep, Active, IsEnded, OneActive
  <2> QED BY <2>2, <2>3, <2>4
<1>2. ASSUME fc'.pc # "idle", NEW j \in Jobs PROVE jobs'[j].status # "running"
  <2>1. CASE FcBegins /\ Fire /\ cron.job \in Scheduled
    BY <2>1 DEF FcBegins, Scheduled, OneActive, Active
  <2>2. CASE fc.pc # "idle"
    <3>1. ~RowBegins(j)
      BY <1>2 DEF RowBegins, FcRuns, FcIdle
    <3> QED BY <2>2, <3>1, RowSteps DEF RowStep, RowMade, IsEnded, OneActive
  <2> QED BY <1>2, <2>1, <2>2, FiringStep DEF FcIdle
<1> QED BY <1>1, <1>2 DEF OneActive

\* Who becomes scheduled in a step is the row just made.
LEMMA ScheduledStep ==
  ASSUME TypeOK, Control, [Next]_vars, NEW j \in Scheduled'
  PROVE  j \in Jobs /\ (j \in Scheduled \/ RowMade(j))
<1>1. j \in Jobs /\ jobs'[j].status = "scheduled"
  BY DEF Scheduled
<1> QED BY <1>1, RowSteps DEF RowStep, RowBegins, IsEnded, Scheduled

\* What a pass or a cancel has set out to change is still the job that is scheduled.
LEMMA AimedStep ==
  ASSUME TypeOK, Control, OneActive, Aimed, [Next]_vars
  PROVE  Aimed'
<1>1. ASSUME rc'.pc = "cancel" \/ (rc'.pc = "arm" /\ rc'.job # 0), NEW j \in Scheduled' PROVE j = rc'.job
  <2>1. ~RowMade(j)
    BY <1>1, PollingJob DEF RowMade
  <2>2. j \in Scheduled /\ j \in Jobs
    BY <2>1, ScheduledStep
  <2>3. rc' = rc \/ rc'.job = ActiveJob
    <3>1. CASE Reconcile
      <4>1. ASSUME NEW js, rc' = Polling(js) PROVE FALSE
        BY <1>1, <4>1, PollingJob
      <4>2. CASE RcArms \/ RcOff
        BY <1>1, <4>1, <4>2 DEF RcArms, RcOff, TypeOK, Passes
      <4>3. CASE RcCheck
        BY <1>1, <4>1, <4>3 DEF RcCheck, TypeOK, Passes, Control
      <4>4. CASE RcPollRuns \/ RcPollFails \/ RcLatches
        BY <1>1, <4>4 DEF RcIdle, RcPollRuns, RcPollFails, RcLatches
      <4>5. CASE RcPollStopped \/ RcBlocked \/ RcCompletes
        BY <1>1, <4>5 DEF TypeOK, Passes, RcPollStopped, RcBlocked, RcCompletes, RcGo
      <4> QED BY <3>1, <4>1, <4>2, <4>3, <4>4, <4>5 DEF Reconcile, RcReadFails, RcCancel,
             RcLeaves, RcCheckFails, RcDeclines, RcCreates, RcReplans
    <3>2. CASE Crash
      BY <1>1, <3>2 DEF Crash, RcIdle
    <3> QED BY <3>1, <3>2 DEF Next, Heartbeat, Fire, FireStart, Cancel, Process, Restart, Rehydrate,
         Outside, SmartOn, SmartOff, PowerOff, PowerOn, Restamp, StartByHand, Finish, Tick, Stamp, vars
  <2>4. CASE rc' = rc
    BY <1>1, <2>2, <2>4 DEF Aimed
  <2>5. CASE rc'.job = ActiveJob
    BY <2>2, <2>5, ActiveJobType DEF OneActive, Active, Scheduled
  <2> QED BY <2>3, <2>4, <2>5
<1>2. ASSUME ap'.pc = "remove" PROVE jobs'[ap'.job].status \notin {"unused", "scheduled"}
  <2>1. CASE ApWrites
    BY <2>1, StampedRow DEF TypeOK, ApWrites, SetStatus, Control, Statuses
  <2>2. CASE ap' = ap
    <3>1. ap.job \in Jobs /\ jobs[ap.job].status \notin {"unused", "scheduled"}
      BY <1>2, <2>2 DEF Control, Aimed
    <3> QED BY <2>2, <3>1, RowSteps DEF RowStep, RowBegins, RowMade, IsEnded
  <2> QED BY <1>2, <2>1, <2>2 DEF Next, Reconcile, Heartbeat, Fire, FireStart, Cancel, ApCancels, ApRemovesCron,
       Process, Crash, Restart, Rehydrate, Outside, SmartOn, SmartOff, PowerOff, PowerOn, Restamp, StartByHand,
       Finish, Tick, Stamp, vars, ApIdle
<1>3. cron'.lost => cron'.job = 0
  <2>1. \/ cron' \in {cron, NoCron} \/ (\E j, s : cron' = Timer(j, s))
        \/ cron' = [NoCron EXCEPT !.lost = cron.lost \/ cron.job \notin {0, ap.job}]
    BY DEF Next, Reconcile, RcReadFails, RcOff, RcCancel, RcLeaves, RcBlocked, RcArms, RcCheck, RcCheckFails,
         RcDeclines, RcCreates, RcReplans, RcPollRuns, RcPollFails, RcPollStopped, RcCompletes, RcLatches,
         Heartbeat, Fire, FcBegins, FcMissed, FcReadsRemote, FcRemoteFails, FcGuards, FcGuardFails,
         FcStartFails, FcRuns, FcDrops, FcLatches, FireStart, FcStarts, FcStartLost,
         Cancel, ApCancels, ApWrites, ApRemovesCron,
         Process, Crash, Restart, Rehydrate, Outside, SmartOn, SmartOff, PowerOff, PowerOn, Restamp, StartByHand,
         Finish, Tick, Stamp, vars
  <2> QED BY <2>1 DEF Aimed, NoCron, Timer
<1> QED BY <1>1, <1>2, <1>3 DEF Aimed

\* Rows that were scheduled, with their start, keep the timer they had.
LEMMA TimedKept ==
  ASSUME TypeOK, Timed, cron' = cron, sys' = "up" => sys = "up", now' \in {now, now + 1},
         \A j \in Scheduled' : j \in Scheduled /\ jobs'[j].start = jobs[j].start
  PROVE  Timed'
<1> SUFFICES ASSUME sys' = "up", NEW j \in Scheduled', ~(jobs'[j].start <= now')
             PROVE  cron' = Timer(j, jobs'[j].start) \/ cron'.lost
  BY DEF Timed, Overdue
<1>1. j \in Jobs /\ jobs[j].start \in Nat /\ now \in Nat
  BY TimesAreNat DEF TypeOK, Job, Scheduled
<1>2. j \in Scheduled \ Overdue
  BY <1>1 DEF Overdue
<1> QED BY <1>2 DEF Timed

\* A job scheduled for later has its timer after a step.
LEMMA TimedStep ==
  ASSUME TypeOK, Control, OneActive, Aimed, Timed, [Next]_vars
  PROVE  Timed'
<1>0. /\ jobs \in [Jobs -> Job] /\ now \in Nat /\ cron.job \in Jobs \cup {0} /\ cron.at \in Nat
      /\ \A j \in Jobs : jobs[j].start \in Nat
  BY TimesAreNat DEF TypeOK, Job
<1>1. CASE UNCHANGED <<cron, jobs, sys>> /\ now' \in {now, now + 1}
  BY <1>1, TimedKept DEF Scheduled
<1>2. ASSUME NEW j \in Jobs, UNCHANGED <<cron, sys, now>>, jobs'[j].status # "scheduled",
             \A i \in Jobs \ {j} : jobs'[i] = jobs[i]
      PROVE  Timed'
  <2>1. \A i \in Scheduled' : i \in Scheduled /\ jobs'[i].start = jobs[i].start
    BY <1>2 DEF Scheduled
  <2> QED BY <1>2, <2>1, TimedKept
<1>3. CASE RcCancel /\ Reconcile
  <2>1. /\ rc.job \in Jobs /\ jobs' = Stamped(rc.job, "cancelled") /\ UNCHANGED <<sys, now>>
        /\ \A i \in Scheduled : i = rc.job
    BY <1>3 DEF RcCancel, Reconcile, Control, SetStatus, Aimed
  <2>2. Scheduled' = {}
    BY <2>1, StampedRow DEF Scheduled, Statuses
  <2> QED BY <2>2 DEF Timed
<1>4. ASSUME NEW s \in (now + 1)..(now + Horizon), RcCreates(s), Reconcile PROVE Timed'
  <2>1. PICK j \in Jobs : /\ jobs' = [jobs EXCEPT ![j] = [status |-> "scheduled", armed |-> rc.at,
                                                          start |-> s, end |-> None]]
                          /\ cron' = Timer(j, s)
    BY <1>4 DEF RcCreates
  <2>2. \A i \in Jobs : ~Active(i)
    BY <1>4, ActiveJobType DEF RcCreates
  <2>3. \A i \in Scheduled' : i = j
    BY <1>0, <2>1, <2>2 DEF Scheduled, Active
  <2>4. jobs'[j].start = s
    BY <1>0, <2>1
  <2> QED BY <2>1, <2>3, <2>4 DEF Timed
<1>5. ASSUME NEW s \in (now + 1)..(now + Horizon), RcReplans(s), Reconcile PROVE Timed'
  <2>1. /\ rc.job \in Jobs /\ UNCHANGED <<now, sys>> /\ \A i \in Scheduled : i = rc.job
        /\ jobs' = [jobs EXCEPT ![rc.job] = IF IsEnded(rc.job) THEN Ended(@.status, now)
                                                             ELSE [@ EXCEPT !.start = s]]
        /\ cron' = IF jobs[rc.job].start = s THEN cron ELSE Timer(rc.job, s)
    BY <1>5 DEF RcReplans, Reconcile, Aimed, TypeOK, Passes
  <2>2. CASE IsEnded(rc.job)
    <3>1. jobs'[rc.job].status # "scheduled" /\ \A i \in Jobs \ {rc.job} : jobs'[i] = jobs[i]
      BY <1>0, <2>1, <2>2 DEF IsEnded, Ended
    <3>2. Scheduled' = {}
      BY <2>1, <3>1 DEF Scheduled
    <3> QED BY <3>2 DEF Timed
  <2>3. CASE ~IsEnded(rc.job)
    <3>1. jobs'[rc.job].status = jobs[rc.job].status /\ jobs'[rc.job].start = s
      BY <1>0, <2>1, <2>3 DEF Job
    <3>2. \A i \in Jobs \ {rc.job} : jobs'[i] = jobs[i]
      BY <1>0, <2>1
    <3>3. \A i \in Scheduled' : i = rc.job /\ i \in Scheduled
      BY <2>1, <3>1, <3>2 DEF Scheduled
    <3>4. CASE jobs[rc.job].start # s
      BY <2>1, <3>1, <3>3, <3>4 DEF Timed
    <3>5. CASE jobs[rc.job].start = s
      BY <2>1, <3>1, <3>3, <3>5, TimedKept
    <3> QED BY <3>4, <3>5
  <2> QED BY <2>2, <2>3
<1>6. CASE RcCompletes /\ Reconcile
  <2>1. /\ rc.job \in Jobs /\ UNCHANGED <<cron, sys, now>>
        /\ jobs' = [jobs EXCEPT ![rc.job] = Ended("completed", rc.at)]
    BY <1>6 DEF RcCompletes, Reconcile, Control
  <2>2. jobs'[rc.job].status # "scheduled" /\ \A i \in Jobs \ {rc.job} : jobs'[i] = jobs[i]
    BY <1>0, <2>1 DEF Ended
  <2> QED BY <1>2, <2>1, <2>2
<1>7. CASE (FcBegins \/ FcMissed) /\ Fire
  <2>1. UNCHANGED <<jobs, now, sys>> /\ cron.job # 0 /\ cron.at <= now
    BY <1>7 DEF FcBegins, FcMissed, Fire
  <2>2. ASSUME sys = "up", NEW j \in Scheduled \ Overdue PROVE FALSE
    <3>1. cron = Timer(j, jobs[j].start)
      BY <2>1, <2>2 DEF Timed, Aimed
    <3>2. ~(cron.at <= now)
      BY <2>2, <3>1 DEF Timer, Overdue
    <3> QED BY <2>1, <3>2
  <2>3. Scheduled' = Scheduled /\ Overdue' = Overdue
    BY <2>1 DEF Scheduled, Overdue
  <2> QED BY <2>1, <2>2, <2>3 DEF Timed
<1>8. CASE (FcRuns \/ FcDrops) /\ Fire
  <2>1. /\ fc.job \in Jobs /\ UNCHANGED <<cron, sys, now>>
        /\ jobs' = jobs \/ \E st \in {"running", "failed", "cancelled"} : jobs' = Stamped(fc.job, st)
    BY <1>8 DEF FcRuns, FcDrops, Fire, Control, SetStatus
  <2> QED BY <1>1, <1>2, <2>1, StampedRow DEF Statuses
<1>9. CASE ApWrites /\ Cancel
  <2>1. /\ ap.job \in Jobs /\ UNCHANGED <<cron, sys, now>> /\ jobs' = Stamped(ap.job, "cancelled")
    BY <1>9 DEF ApWrites, Cancel, Control, SetStatus
  <2> QED BY <1>2, <2>1, StampedRow DEF Statuses
<1>10. CASE ApRemovesCron /\ Cancel
  <2>1. /\ UNCHANGED <<jobs, sys, now>> /\ jobs[ap.job].status # "scheduled"
        /\ cron'.lost = (cron.lost \/ cron.job \notin {0, ap.job})
    BY <1>10 DEF ApRemovesCron, Cancel, Aimed, NoCron, Timer
  <2>2. ASSUME sys = "up", NEW j \in Scheduled \ Overdue PROVE cron'.lost
    <3>1. cron = Timer(j, jobs[j].start) \/ cron.lost
      BY <2>2 DEF Timed
    <3>2. j \in Jobs /\ j # 0 /\ j # ap.job
      BY <2>1, <2>2, TimesAreNat DEF Scheduled
    <3>3. cron.lost \/ cron.job \notin {0, ap.job}
      BY <3>1, <3>2 DEF Timer
    <3> QED BY <2>1, <3>3, Zenon
  <2>3. Scheduled' = Scheduled /\ Overdue' = Overdue
    BY <2>1 DEF Scheduled, Overdue
  <2> QED BY <2>1, <2>2, <2>3 DEF Timed
<1>11. CASE Rehydrate
  <2>1. \A j \in Scheduled' : j \in Scheduled \ Overdue /\ jobs'[j] = jobs[j]
    BY <1>11 DEF Rehydrate, Scheduled, Ended
  <2>2. \A i, j \in Scheduled : i = j
    BY DEF OneActive, Scheduled, Active
  <2>3. \A j \in Scheduled' : cron' = Timer(j, jobs'[j].start)
    BY <1>11, <2>1, <2>2 DEF Rehydrate
  <2> QED BY <2>3 DEF Timed
<1>12. CASE sys' \in {"down", "boot"}
  BY <1>12 DEF Timed
<1>13. CASE Reconcile
  BY <1>1, <1>3, <1>4, <1>5, <1>6, <1>13 DEF Reconcile, RcReadFails, RcOff, RcLeaves, RcBlocked, RcArms, RcCheck,
         RcCheckFails, RcDeclines, RcPollRuns, RcPollFails, RcPollStopped, RcLatches
<1>14. CASE Fire
  BY <1>1, <1>7, <1>8, <1>14 DEF Fire, FcReadsRemote, FcRemoteFails, FcGuards, FcGuardFails, FcStartFails, FcLatches
<1>15. CASE Heartbeat \/ FireStart \/ Outside \/ UNCHANGED vars
  BY <1>1, <1>15 DEF Heartbeat, FireStart, FcStarts, FcStartLost, Outside, SmartOn, SmartOff, PowerOff, PowerOn,
         Restamp, StartByHand, Finish, Tick, Stamp, vars
<1>16. CASE Cancel
  BY <1>1, <1>9, <1>10, <1>16 DEF Cancel, ApCancels
<1> QED BY <1>11, <1>12, <1>13, <1>14, <1>15, <1>16 DEF Next, Process, Crash, Restart

\* What a step does to the drum: nothing, or it starts or stops now.
LEMMA DrumStep ==
  ASSUME TypeOK, [Next]_vars
  PROVE  /\ \/ m'.drum = m.drum /\ m'.drumAt = m.drumAt
            \/ StartByHand /\ m'.drum = "run" /\ m'.drumAt = now + 1
            \/ Finish /\ m'.drum = "stop" /\ m'.drumAt = now + 1
            \/ FireStart /\ m.power /\ m.drum = "stop" /\ m'.drum = "run" /\ m'.drumAt = now + 1
         /\ started' = started \/ (FireStart /\ started' = started \cup {fc.job} /\ m'.drumAt = now + 1)
<1>1. m \in Machine
  BY DEF TypeOK
<1>2. CASE SmartOn \/ SmartOff \/ PowerOff \/ PowerOn \/ Restamp
  BY <1>1, <1>2 DEF SmartOn, SmartOff, PowerOff, PowerOn, Restamp, Stamp, Machine, Gesture, NoGesture, history
<1>3. CASE StartByHand \/ Finish
  BY <1>1, <1>3 DEF StartByHand, Finish, Stamp, Machine, Nothing, history
<1>4. CASE FireStart
  BY <1>1, <1>4 DEF FireStart, FcStarts, FcStartLost, DrumStarts, Sent, Machine
<1>5. CASE m' = m /\ started' = started
  BY <1>5
<1> QED BY <1>2, <1>3, <1>4, <1>5 DEF Next, Reconcile, RcReadFails, RcOff, RcCancel, RcLeaves, RcBlocked, RcArms,
     RcCheck, RcCheckFails, RcDeclines, RcCreates, RcReplans, RcPollRuns, RcPollFails, RcPollStopped, RcCompletes,
     RcLatches, Exposes, Heartbeat, Fire, FcBegins, FcMissed, FcReadsRemote, FcRemoteFails, FcGuards,
     FcGuardFails, FcStartFails, FcRuns, FcDrops, FcLatches, Cancel, ApCancels, ApWrites, ApRemovesCron,
     Process, Crash, Restart, Rehydrate, Outside, Tick, Stamp, Nothing, history, vars

\* The callback comes to the start command from the guard only.
LEMMA StartStep ==
  ASSUME TypeOK, Control, [Next]_vars, fc'.pc = "start"
  PROVE  fc' = fc \/ (FcGuards /\ Fire /\ GuardPasses /\ fc.pc = "guard" /\ fc' = [fc EXCEPT !.pc = "start"])
<1>1. fc \in Firings
  BY DEF TypeOK
<1>2. CASE FcGuards /\ Fire
  BY <1>1, <1>2 DEF FcGuards, FcGo, FcDrop, Firings
<1>3. CASE FcBegins
  BY <1>3 DEF FcBegins, FcIdle
<1>4. CASE FcReadsRemote \/ FcRemoteFails \/ FcGuardFails \/ FcStartFails
  BY <1>1, <1>4 DEF Firings, FcReadsRemote, FcRemoteFails, FcGuardFails, FcStartFails, FcGo, FcDrop
<1>5. CASE FcStarts \/ FcStartLost
  BY <1>1, <1>5 DEF Firings, FcStarts, FcStartLost, FcGo, FcDrop
<1>6. CASE fc' = FcIdle
  BY <1>6 DEF FcIdle
<1>7. CASE FcDrops /\ fc' # FcIdle
  BY <1>1, <1>7 DEF Firings, FcDrops, FcGo
<1> QED BY <1>7, <1>2, <1>3, <1>4, <1>5, <1>6 DEF Next, Reconcile, Heartbeat, Fire, FireStart, Cancel, Process, Restart, Rehydrate,
     Outside, SmartOn, SmartOff, PowerOff, PowerOn, Restamp, StartByHand, Finish, Tick, Stamp, vars, FcMissed,
     FcRuns, FcLatches, Crash

\* It comes to the guard from the beginning only.
LEMMA RemoteStep ==
  ASSUME TypeOK, Control, [Next]_vars, fc'.pc \in {"remote", "guard"}
  PROVE  \/ fc' = fc
         \/ FcBegins /\ Fire
         \/ fc.pc = "remote" /\ fc' = [fc EXCEPT !.pc = "guard"]
<1>1. fc \in Firings
  BY DEF TypeOK
<1>2. CASE FcReadsRemote
  BY <1>1, <1>2 DEF FcReadsRemote, FcGo, FcDrop, Firings
<1>4. CASE FcGuards \/ FcRemoteFails \/ FcGuardFails \/ FcStartFails
  BY <1>1, <1>4 DEF Firings, FcGuards, FcRemoteFails, FcGuardFails, FcStartFails, FcGo, FcDrop
<1>5. CASE FcStarts \/ FcStartLost
  BY <1>1, <1>5 DEF Firings, FcStarts, FcStartLost, FcGo, FcDrop
<1>6. CASE fc' = FcIdle
  BY <1>6 DEF FcIdle
<1>7. CASE FcDrops /\ fc' # FcIdle
  BY <1>1, <1>7 DEF Firings, FcDrops, FcGo
<1> QED BY <1>7, <1>2, <1>4, <1>5, <1>6 DEF Next, Reconcile, Heartbeat, Fire, FireStart, Cancel, Process, Restart, Rehydrate,
     Outside, SmartOn, SmartOff, PowerOff, PowerOn, Restamp, StartByHand, Finish, Tick, Stamp, vars, FcMissed,
     FcRuns, FcLatches, Crash

\* A job that has set the drum going stays armed before it.
LEMMA OneGoStep ==
  ASSUME TypeOK, Control, Dated, OneGo, [Next]_vars
  PROVE  OneGo'
<1>0. /\ now \in Nat /\ m.drumAt \in Nat /\ fc.armed \in Nat /\ started \subseteq Jobs /\ rc.at \in Nat
      /\ \A j \in Jobs : jobs[j].armed \in Nat
      /\ fc \in Firings /\ cron.job \in Jobs \cup {0}
  BY TimesAreNat DEF TypeOK, Machine, Firings, Job, Passes
<1>1. m.drumAt <= m'.drumAt /\ m'.drumAt \in Nat
  BY <1>0, DrumStep DEF Dated
<1>2. FireStart => fc.pc = "start" /\ fc.job \in Jobs /\ jobs' = jobs
  BY DEF FireStart, FcStarts, FcStartLost, Control
<1>3. ASSUME NEW j \in started' PROVE jobs'[j].status # "unused" /\ jobs'[j].armed < m'.drumAt
  <2>1. CASE j \in started
    <3>1. jobs[j].status # "unused" /\ jobs[j].armed < m.drumAt
      BY <2>1 DEF OneGo
    <3>2. jobs'[j].armed \in {jobs[j].armed, 0} /\ jobs'[j].status # "unused"
      BY <3>1, <2>1, <1>0, RowSteps DEF RowStep, RowBegins, RowMade, IsEnded
    <3> QED BY <3>1, <3>2, <1>0, <1>1, <2>1
  <2>2. CASE j \notin started
    <3>1. j = fc.job /\ m'.drumAt = now + 1 /\ fc.pc = "start" /\ j \in Jobs /\ jobs' = jobs
      BY <1>2, <1>3, <2>2, DrumStep
    <3> QED BY <3>1, <1>0 DEF Control, Dated
  <2> QED BY <2>1, <2>2
<1>4. ASSUME fc'.pc \in {"remote", "guard"}, fc'.job \in started' PROVE fc'.armed < m'.drumAt
  <2>1. started' = started
    BY <1>0, <1>4 DEF Next, Reconcile, RcReadFails, RcOff, RcCancel, RcLeaves, RcBlocked, RcArms, Firings,
     RcCheck, RcCheckFails, RcDeclines, RcCreates, RcReplans, RcPollRuns, RcPollFails, RcPollStopped, RcCompletes,
     RcLatches, Exposes, Heartbeat, Fire, FcBegins, FcMissed, FcReadsRemote, FcRemoteFails, FcGuards,
     FcGuardFails, FcStartFails, FcRuns, FcDrops, FcLatches, Cancel, ApCancels, ApWrites, ApRemovesCron,
     Process, Crash, Restart, Rehydrate, Outside, SmartOn, SmartOff, PowerOff, PowerOn, Restamp, StartByHand, Finish,
     Gesture, NoGesture, Tick, Stamp, Nothing, history, vars, FireStart, FcStarts, FcStartLost, FcGo, FcDrop
  <2>2. CASE FcBegins /\ Fire
    <3>1. fc'.armed = jobs[cron.job].armed /\ fc'.job = cron.job /\ cron.job \in Jobs
      BY <1>0, <1>4, <2>2 DEF FcBegins, FcIdle
    <3> QED BY <1>0, <1>1, <1>4, <2>1, <3>1 DEF OneGo
  <2>3. CASE fc' = fc \/ (fc.pc = "remote" /\ fc' = [fc EXCEPT !.pc = "guard"])
    BY <1>0, <1>1, <1>4, <2>1, <2>3 DEF OneGo, Firings
  <2> QED BY <1>4, <2>2, <2>3, RemoteStep
<1>5. ASSUME fc'.pc = "start" PROVE fc'.job \notin started'
  <2>1. started' = started
    BY <1>0, <1>5, StartStep, DrumStep DEF FireStart, FcStarts, FcStartLost, FcGo, FcDrop, Fire, Firings
  <2>2. CASE fc' = fc
    BY <1>5, <2>1, <2>2 DEF OneGo
  <2>3. CASE GuardPasses /\ fc.pc = "guard" /\ fc' = [fc EXCEPT !.pc = "start"]
    <3>1. ~(fc.armed < m.drumAt) /\ fc'.job = fc.job
      BY <1>0, <2>3 DEF GuardPasses, StateChanged, Firings
    <3> QED BY <2>1, <2>3, <3>1 DEF OneGo
  <2> QED BY <1>5, <2>2, <2>3, StartStep
<1> QED BY <1>3, <1>4, <1>5 DEF OneGo

\* Between the guard and the start command only the owner has touched the drum.
LEMMA GuardedStep ==
  ASSUME TypeOK, Control, Dated, Guarded, [Next]_vars
  PROVE  Guarded'
<1> SUFFICES ASSUME fc'.pc = "start"
             PROVE  (m'.drum = "stop" /\ m'.drumAt <= fc'.armed) \/ m'.drumAt > fc'.at
  BY DEF Guarded
<1>0. /\ now \in Nat /\ m.drumAt \in Nat /\ fc.armed \in Nat /\ fc.at \in Nat /\ fc \in Firings
  BY TimesAreNat DEF TypeOK, Machine, Firings
<1>1. CASE fc' = fc
  BY <1>0, <1>1, DrumStep DEF Guarded, Dated
<1>2. CASE FcGuards /\ Fire /\ GuardPasses /\ fc' = [fc EXCEPT !.pc = "start"]
  BY <1>0, <1>2 DEF FcGuards, Fire, GuardPasses, StateChanged, Firings
<1> QED BY <1>1, <1>2, StartStep

----------------------------------------------------------------------------
(* No load is washed twice *)

\* What becomes of the pass.
LEMMA PassStep ==
  ASSUME TypeOK, Control, [Next]_vars
  PROVE  \/ rc' = rc
         \/ rc'.pc \in {"idle", "cancel"}
         \/ rc'.pc = "poll" /\ rc'.job \in Running(jobs')
         \/ Reconcile /\ RcBlocked /\ rc'.pc = "check"
         \/ Reconcile /\ RcArms /\ rc'.pc = "arm" /\ rc'.job = ActiveJob
         \/ Reconcile /\ RcCheck /\ FreshArm /\ rc.pc = "check" /\ rc'.pc = "arm"
         \/ Reconcile /\ RcPollStopped /\ rc'.pc = "complete" /\ rc'.job = rc.job /\ rc'.at = m.drumAt
         \/ Reconcile /\ RcCompletes /\ rc'.pc = "latch"
<1>1. rc \in Passes
  BY DEF TypeOK
<1>2. CASE Reconcile
  <2>1. ASSUME rc' = Polling(jobs') PROVE rc'.pc = "idle" \/ (rc'.pc = "poll" /\ rc'.job \in Running(jobs'))
    BY <2>1, PollingJob
  <2>2. CASE RcReadFails \/ RcLeaves \/ RcCheckFails \/ RcDeclines
    <3>1. rc' = Polling(jobs')
      BY <2>2 DEF RcReadFails, RcLeaves, RcCheckFails, RcDeclines
    <3> QED BY <2>1, <3>1
  <2>3. CASE RcCancel \/ \E s \in (now + 1)..(now + Horizon) : RcCreates(s) \/ RcReplans(s)
    <3>1. rc' = Polling(jobs')
      BY <2>3 DEF RcCancel, RcCreates, RcReplans
    <3> QED BY <2>1, <3>1
  <2>4. CASE RcOff
    <3>1. rc' = Polling(jobs') \/ rc' = [rc EXCEPT !.pc = "cancel", !.job = ActiveJob]
      BY <2>4 DEF RcOff
    <3>2. CASE rc' = [rc EXCEPT !.pc = "cancel", !.job = ActiveJob]
      BY <1>1, <3>2 DEF Passes
    <3> QED BY <2>1, <3>1, <3>2
  <2>5. CASE RcBlocked
    BY <1>1, <1>2, <2>5 DEF RcBlocked, RcGo, Passes
  <2>6. CASE RcArms
    BY <1>1, <1>2, <2>6 DEF RcArms, Passes
  <2>7. CASE RcCheck
    <3>1. CASE FreshArm
      BY <1>1, <1>2, <2>7, <3>1 DEF RcCheck, Passes
    <3>2. CASE ~FreshArm
      BY <2>1, <2>7, <3>2 DEF RcCheck
    <3> QED BY <3>1, <3>2
  <2>8. CASE RcPollStopped
    BY <1>1, <1>2, <2>8 DEF RcPollStopped, Passes
  <2>9. CASE RcCompletes
    BY <1>1, <1>2, <2>9 DEF RcCompletes, RcGo, Passes
  <2>10. CASE RcPollRuns \/ RcPollFails \/ RcLatches
    BY <2>10 DEF RcIdle, RcPollRuns, RcPollFails, RcLatches
  <2> QED BY <1>2, <2>2, <2>3, <2>4, <2>5, <2>6, <2>7, <2>8, <2>9, <2>10 DEF Reconcile
<1>3. CASE Crash
  BY <1>3 DEF Crash, RcIdle
<1> QED BY <1>2, <1>3 DEF Next, Heartbeat, Fire, FireStart, Cancel, Process, Restart, Rehydrate,
         Outside, SmartOn, SmartOff, PowerOff, PowerOn, Restamp, StartByHand, Finish, Tick, Stamp, vars

\* What cannot have happened in a step after which no row's end is lost.
LEMMA ExposedStep ==
  ASSUME TypeOK, [Next]_vars, ~exposed'
  PROVE  /\ ~exposed /\ ~StartByHand
         /\ RcCancel /\ Reconcile => jobs[rc.job].status = "scheduled"
         /\ FcRuns /\ Fire => ActiveJob \in {0, fc.job}
         /\ ApWrites /\ Cancel => jobs[ap.job].status = "scheduled"
         /\ Crash => fc.pc \notin {"running", "drop", "latch"} /\ rc.pc # "latch"
<1>1. ~exposed
  BY DEF Next, Reconcile, RcReadFails, RcOff, RcCancel, RcLeaves, RcBlocked, RcArms,
     RcCheck, RcCheckFails, RcDeclines, RcCreates, RcReplans, RcPollRuns, RcPollFails, RcPollStopped, RcCompletes,
     RcLatches, Exposes, Heartbeat, Fire, FcBegins, FcMissed, FcReadsRemote, FcRemoteFails, FcGuards,
     FcGuardFails, FcStartFails, FcRuns, FcDrops, FcLatches, FireStart, FcStarts, FcStartLost, Sent,
     Cancel, ApCancels, ApWrites, ApRemovesCron,
     Process, Crash, Restart, Rehydrate, Outside, SmartOn, SmartOff, PowerOff, PowerOn, Restamp, StartByHand,
     Finish, Tick, Gesture, NoGesture, Nothing, history, vars
<1>2. ~StartByHand
  BY DEF StartByHand
<1>3. RcCancel => jobs[rc.job].status = "scheduled"
  BY DEF RcCancel, Exposes
<1>4. FcRuns => ActiveJob \in {0, fc.job}
  BY DEF FcRuns, Exposes
<1>5. ApWrites => jobs[ap.job].status = "scheduled"
  BY DEF ApWrites
<1>6. Crash => fc.pc \notin {"running", "drop", "latch"} /\ rc.pc # "latch"
  BY DEF Crash, Exposes
<1> QED BY <1>1, <1>2, <1>3, <1>4, <1>5, <1>6

\* What is written over a job that runs or has ended, as long as no row's end is lost.
LEMMA WrittenRow ==
  ASSUME TypeOK, Control, [Next]_vars, ~exposed', NEW j \in Jobs, jobs[j].status \notin {"unused", "scheduled"}
  PROVE  \/ jobs'[j].status = jobs[j].status /\ jobs'[j].end = jobs[j].end
         \/ RcCompletes /\ Reconcile /\ rc.job = j /\ jobs'[j].status = "completed" /\ jobs'[j].end = rc.at
         \/ RowBegins(j)
         \/ FcDrops /\ Fire /\ jobs'[j].status \in {"failed", "cancelled"} /\ jobs'[j].end = now
         \/ m' = m /\ IsEnded(j) /\ jobs'[j].status = jobs[j].status /\ jobs'[j].end = now
<1>1. jobs \in [Jobs -> Job] /\ now \in Times
  BY DEF TypeOK
<1>2. CASE jobs'[j] = jobs[j]
  BY <1>2
<1>3. CASE Reconcile /\ RcCancel
  BY <1>3, ExposedStep, StampedRow DEF RcCancel, SetStatus, Control, Statuses
<1>4. ASSUME NEW s \in (now + 1)..(now + Horizon), RcCreates(s) PROVE jobs'[j] = jobs[j]
  BY <1>1, <1>4 DEF RcCreates
<1>5. ASSUME NEW s \in (now + 1)..(now + Horizon), RcReplans(s), Reconcile, j = rc.job
      PROVE  \/ jobs'[j].status = jobs[j].status /\ jobs'[j].end = jobs[j].end
             \/ m' = m /\ IsEnded(j) /\ jobs'[j].status = jobs[j].status /\ jobs'[j].end = now
  <2>1. jobs'[j] = IF IsEnded(j) THEN Ended(jobs[j].status, now) ELSE [jobs[j] EXCEPT !.start = s]
    BY <1>1, <1>5 DEF RcReplans
  <2>2. CASE IsEnded(j)
    BY <1>5, <2>1, <2>2 DEF Ended, Reconcile
  <2>3. CASE ~IsEnded(j)
    BY <1>1, <2>1, <2>3 DEF Job
  <2> QED BY <2>2, <2>3
<1>6. ASSUME NEW s \in (now + 1)..(now + Horizon), RcReplans(s), j # rc.job PROVE jobs'[j] = jobs[j]
  BY <1>1, <1>6 DEF RcReplans
<1>7. CASE Reconcile /\ RcCompletes
  BY <1>1, <1>2, <1>7 DEF RcCompletes, Control, Ended
<1>8. CASE Fire /\ FcRuns
  <2>1. jobs' = Stamped(fc.job, "running") /\ fc.job \in Jobs /\ ActiveJob \in {0, fc.job}
    BY <1>8, ExposedStep DEF FcRuns, Control
  <2>2. CASE j = fc.job
    BY <1>8, <2>1, <2>2, StampedRow DEF RowBegins, Statuses
  <2>3. CASE j # fc.job
    BY <1>2, <2>1, <2>3, StampedRow DEF Statuses
  <2> QED BY <2>2, <2>3
<1>9. CASE Fire /\ FcDrops
  <2>1. /\ \E st \in {"failed", "cancelled"} : jobs' = Stamped(fc.job, st)
        /\ fc.job \in Jobs
    BY <1>9 DEF FcDrops, Control, SetStatus
  <2>2. CASE j = fc.job
    BY <1>9, <2>1, <2>2, StampedRow DEF Statuses
  <2>3. CASE j # fc.job
    BY <1>2, <2>1, <2>3, StampedRow DEF Statuses
  <2> QED BY <2>2, <2>3
<1>10. CASE Cancel /\ ApWrites
  BY <1>10, ExposedStep, StampedRow DEF ApWrites, SetStatus, Control, Statuses
<1>11. CASE Rehydrate
  BY <1>1, <1>2, <1>11 DEF Rehydrate, Overdue, Scheduled
<1>12. CASE Reconcile
  BY <1>2, <1>3, <1>4, <1>5, <1>6, <1>7, <1>12 DEF Reconcile, RcReadFails, RcOff, RcLeaves, RcBlocked, RcArms, RcCheck,
         RcCheckFails, RcDeclines, RcPollRuns, RcPollFails, RcPollStopped, RcLatches
<1>13. CASE Fire
  BY <1>2, <1>8, <1>9, <1>13 DEF Fire, FcBegins, FcMissed, FcReadsRemote, FcRemoteFails, FcGuards, FcGuardFails,
         FcStartFails, FcLatches
<1>14. CASE Heartbeat \/ FireStart \/ Outside \/ Crash \/ Restart \/ UNCHANGED vars
  BY <1>2, <1>14 DEF Heartbeat, FireStart, FcStarts, FcStartLost, Outside, SmartOn, SmartOff, PowerOff, PowerOn,
         Restamp, StartByHand, Finish, Tick, Stamp, Crash, Restart, vars
<1>15. CASE Cancel
  BY <1>2, <1>10, <1>15 DEF Cancel, ApCancels, ApRemovesCron
<1> QED BY <1>11, <1>12, <1>13, <1>14, <1>15 DEF Next, Process

\* A job that runs goes on until the pass completes it.
LEMMA RunningKept ==
  ASSUME TypeOK, Control, OneActive, [Next]_vars, ~exposed', NEW j \in Jobs, jobs[j].status = "running"
  PROVE  \/ jobs'[j].status = "running"
         \/ RcCompletes /\ Reconcile /\ rc.job = j /\ jobs'[j].status = "completed" /\ jobs'[j].end = rc.at
<1>1. fc.pc = "idle"
  BY DEF OneActive
<1> QED BY <1>1, WrittenRow DEF RowBegins, FcDrops, IsEnded

\* The owner's gestures are seen at once, and only a start of the drum uses them up.
LEMMA FreshStep ==
  ASSUME TypeOK, [Next]_vars, ~exposed', ~fresh'
  PROVE  /\ ~SmartOn /\ ~PowerOn
         /\ ~fresh \/ (FireStart /\ fresh /\ m.power)
<1>1. ~SmartOn /\ ~PowerOn
  BY DEF SmartOn, PowerOn, Gesture
<1>2. CASE FireStart
  BY <1>1, <1>2 DEF FireStart, FcStarts, FcStartLost, DrumStarts
<1>3. fresh \in BOOLEAN /\ ~StartByHand
  BY ExposedStep DEF TypeOK
<1>4. CASE fresh' = fresh
  BY <1>1, <1>4
<1>5. FireStart \/ SmartOn \/ PowerOn \/ StartByHand \/ fresh' = fresh
  BY DEF Next, Reconcile, RcReadFails, RcOff, RcCancel, RcLeaves, RcBlocked, RcArms,
     RcCheck, RcCheckFails, RcDeclines, RcCreates, RcReplans, RcPollRuns, RcPollFails, RcPollStopped, RcCompletes,
     RcLatches, Exposes, Heartbeat, Fire, FcBegins, FcMissed, FcReadsRemote, FcRemoteFails, FcGuards,
     FcGuardFails, FcStartFails, FcRuns, FcDrops, FcLatches,
     Cancel, ApCancels, ApWrites, ApRemovesCron,
     Process, Crash, Restart, Rehydrate, Outside, SmartOff, PowerOff, Restamp,
     Finish, Tick, Gesture, NoGesture, Nothing, history, vars
<1> QED BY <1>1, <1>2, <1>3, <1>4, <1>5

\* Without a gesture and without a start command, Smart Control and the power are only
\* turned off, and the drum only stops, with no handler at work.
LEMMA QuietStep ==
  ASSUME TypeOK, [Next]_vars, ~exposed', ~fresh', ~FireStart
  PROVE  /\ m'.power => m.power /\ m'.powerAt = m.powerAt
         /\ m'.power /\ m'.smart => m'.smartAt = m.smartAt
         /\ m'.smart => m.smart
         /\ \/ m'.drum = m.drum /\ m'.drumAt = m.drumAt
            \/ /\ AtRest /\ m.drum = "run" /\ m'.drum = "stop" /\ m'.drumAt = now + 1
               /\ UNCHANGED <<jobs, latch, rc, fc>>
         /\ m' = m \/ UNCHANGED <<jobs, latch, rc, fc>>
<1>1. m \in Machine
  BY DEF TypeOK
<1>2. CASE SmartOff \/ PowerOff \/ Restamp
  BY <1>1, <1>2 DEF SmartOff, PowerOff, Restamp, Stamp, Machine
<1>3. CASE Finish
  BY <1>1, <1>3 DEF Finish, Stamp, Machine
<1>4. CASE m' = m
  BY <1>4
<1>5. ~SmartOn /\ ~PowerOn /\ ~StartByHand
  BY ExposedStep, FreshStep
<1> QED BY <1>2, <1>3, <1>4, <1>5 DEF Next, Reconcile, Heartbeat, Fire, FcBegins, FcMissed, FcReadsRemote,
     FcRemoteFails, FcGuards, FcGuardFails, FcStartFails, FcRuns, FcDrops, FcLatches, Cancel, Process, Crash,
     Restart, Rehydrate, Outside, Tick, Stamp, vars

\* Once the washed load has its row, what is left on does not look like a fresh load.
LEMMA NoFreshArm ==
  ASSUME TypeOK, Stale, ~SomeRuns
  PROVE  ~FreshArm
<1> SUFFICES ASSUME FreshArm PROVE FALSE
  OBVIOUS
<1>1. Noted
  BY DEF Stale, FreshArm
<1>2. PICK j \in Finished : /\ m.power => m.powerAt <= jobs[j].end
                            /\ m.power /\ m.smart => m.smartAt <= jobs[j].end
  BY <1>1 DEF Noted, Finished
<1>3. jobs[j].end \in Nat /\ m.powerAt \in Nat /\ m.smartAt \in Nat /\ Gap \in Nat /\ Finished \subseteq Jobs
  BY TimesAreNat DEF TypeOK, Job, Machine, Finished
<1>4. ~PastReference(m.powerAt) \/ ~m.power
  BY <1>2, <1>3 DEF PastReference
<1>5. ~PastReference(m.smartAt) \/ ~m.power \/ ~m.smart
  BY <1>2, <1>3 DEF PastReference
<1> QED BY <1>4, <1>5 DEF FreshArm, PowerEvidence, SmartEvidence

\* The start command is given from "start" and leads on to "running" or, unanswered, to a
\* failed start; nothing else does.
LEMMA StartLeads ==
  ASSUME TypeOK, Control, [Next]_vars
  PROVE  /\ FireStart => /\ fc.pc = "start" /\ now' = now + 1
                         /\ fc'.pc = "running" \/ (fc'.pc = "drop" /\ fc'.outcome = "failed")
                         /\ UNCHANGED <<jobs, latch, rc>>
                         /\ m.power /\ m.drum = "stop" =>
                              m' = [m EXCEPT !.drum = "run", !.drumAt = now + 1]
         /\ fc'.pc = "running" => fc' = fc \/ FireStart
<1>1. fc \in Firings
  BY DEF TypeOK
<1>2. ASSUME FireStart
      PROVE  /\ fc.pc = "start" /\ now' = now + 1
             /\ fc'.pc = "running" \/ (fc'.pc = "drop" /\ fc'.outcome = "failed")
             /\ UNCHANGED <<jobs, latch, rc>>
             /\ m.power /\ m.drum = "stop" => m' = [m EXCEPT !.drum = "run", !.drumAt = now + 1]
  BY <1>1, <1>2 DEF FireStart, FcStarts, FcStartLost, FcGo, FcDrop, DrumStarts, Firings
<1>3. ASSUME fc'.pc = "running", ~FireStart PROVE fc' = fc
  <2>1. FcReadsRemote \/ FcRemoteFails \/ FcGuards \/ FcGuardFails \/ FcStartFails
          => fc'.pc \in {"guard", "drop", "start"}
    BY <1>1 DEF Firings, FcReadsRemote, FcRemoteFails, FcGuards, FcGuardFails, FcStartFails, FcGo, FcDrop
  <2>2. FcDrops => fc'.pc \in {"latch", "idle"}
    BY <1>1 DEF Firings, FcIdle, FcDrops, FcGo
  <2>3. fc' = FcIdle => fc'.pc = "idle"
    BY DEF FcIdle
  <2>4. FcBegins => fc'.pc = "remote" \/ fc' = FcIdle
    BY DEF FcBegins, FcIdle
  <2> QED BY <1>3, <2>1, <2>2, <2>3, <2>4 DEF Next, Reconcile, Heartbeat, Fire, Cancel, Process, Restart, Rehydrate,
       Outside, SmartOn, SmartOff, PowerOff, PowerOn, Restamp, StartByHand, Finish, Tick, Stamp, vars, FcMissed,
       FcRuns, FcLatches, Crash
<1> QED BY <1>2, <1>3

\* After a step the pass still works on a job that runs, and the callback's start command
\* still follows a gesture.
LEMMA SoundStep ==
  ASSUME TypeOK, Control, Dated, OneActive, Sound, ~fresh => Stale, [Next]_vars, ~exposed'
  PROVE  Sound'
<1>0. rc \in Passes /\ fc \in Firings /\ m \in Machine /\ jobs \in [Jobs -> Job]
  BY DEF TypeOK
<1>1. ASSUME rc'.pc \in {"poll", "complete"} PROVE jobs'[rc'.job].status = "running"
  <2>1. CASE rc'.pc = "poll" /\ rc'.job \in Running(jobs')
    BY <2>1 DEF Running
  <2>2. CASE Reconcile /\ RcPollStopped /\ rc'.job = rc.job
    BY <2>2 DEF RcPollStopped, Sound
  <2>3. CASE rc' = rc
    <3>1. ~RcCompletes
      BY <1>0, <1>1 DEF RcCompletes, RcGo, Passes
    <3>2. rc.job \in Jobs /\ jobs[rc.job].status = "running"
      BY <1>1, <2>3 DEF Control, Sound
    <3> QED BY <2>3, <3>1, <3>2, RunningKept
  <2> QED BY <1>1, <2>1, <2>2, <2>3, PassStep
<1>2. ASSUME rc'.pc = "complete" PROVE m'.drum = "stop" /\ rc'.at = m'.drumAt
  <2>1. CASE Reconcile /\ RcPollStopped /\ rc'.at = m.drumAt
    BY <2>1 DEF RcPollStopped, Reconcile
  <2>2. CASE rc' = rc
    <3>1. m.drum = "stop" /\ rc.at = m.drumAt /\ rc.job \in Jobs /\ jobs[rc.job].status = "running"
      BY <1>2, <2>2 DEF Sound, Control
    <3>2. fc.pc = "idle" /\ ~AtRest
      BY <1>2, <2>2, <3>1 DEF OneActive, AtRest
    <3>3. ~FireStart /\ ~StartByHand /\ ~Finish
      BY <3>2, StartLeads, ExposedStep DEF Finish
    <3> QED BY <2>2, <3>1, <3>3, DrumStep
  <2> QED BY <1>2, <2>1, <2>2, PassStep
<1>3. ASSUME rc'.pc = "latch" PROVE fc'.pc = "idle" /\ \A j \in Jobs : ~Active(j)'
  <2>1. CASE Reconcile /\ RcCompletes
    <3>1. rc.job \in Jobs /\ jobs[rc.job].status = "running" /\ UNCHANGED fc
      BY <2>1 DEF RcCompletes, Reconcile, Control, Sound
    <3>2. fc.pc = "idle" /\ \A j \in Jobs \ {rc.job} : ~Active(j)
      BY <3>1 DEF OneActive, Active
    <3>3. jobs'[rc.job].status = "completed" /\ \A j \in Jobs \ {rc.job} : jobs'[j] = jobs[j]
      BY <1>0, <2>1, <3>1 DEF RcCompletes, Ended
    <3> QED BY <3>1, <3>2, <3>3 DEF Active
  <2>2. CASE rc' = rc
    <3>1. fc.pc = "idle" /\ \A j \in Jobs : ~Active(j)
      BY <1>3, <2>2 DEF Sound
    <3>2. fc'.pc = "idle"
      BY <3>1, FiringStep DEF FcIdle, Scheduled, Active
    <3>3. \A j \in Jobs : RowStep(j) /\ ~RowBegins(j) /\ ~RowMade(j)
      BY <1>3, <2>2, <3>1, RowSteps DEF RowBegins, RowMade, FcRuns
    <3> QED BY <3>1, <3>2, <3>3 DEF RowStep, Active, IsEnded
  <2> QED BY <1>3, <2>1, <2>2, PassStep
<1>4. ASSUME fc'.pc = "start" PROVE fresh' /\ m'.drum = "stop"
  <2>1. ~FireStart
    BY <1>4, StartLeads
  <2>2. CASE fc' = fc
    <3>1. fresh /\ m.drum = "stop" /\ ~AtRest
      BY <1>4, <2>2 DEF Sound, AtRest
    <3>2. fresh'
      BY <2>1, <3>1, FreshStep
    <3> QED BY <2>1, <3>1, <3>2, DrumStep, ExposedStep DEF Finish
  <2>3. CASE FcGuards /\ Fire /\ GuardPasses /\ fc.pc = "guard"
    <3>1. m' = m /\ m.drum = "stop" /\ ~(fc.armed < m.drumAt)
      BY <1>0, <2>3, TimesAreNat DEF FcGuards, Fire, GuardPasses, StateChanged, Firings, Machine
    <3>2. fresh
      BY <2>3, <3>1 DEF Stale
    <3>3. fresh'
      BY <2>1, <3>2, FreshStep
    <3> QED BY <3>1, <3>3
  <2> QED BY <1>4, <2>2, <2>3, StartStep
<1>5. ASSUME fc'.pc = "running", ~fresh' PROVE m'.drum = "run"
  <2>1. CASE FireStart
    <3>1. m.power /\ m.drum = "stop"
      BY <1>5, <2>1, FreshStep, StartLeads DEF Sound
    <3> QED BY <1>0, <2>1, <3>1, StartLeads DEF Machine
  <2>2. CASE fc' = fc /\ ~FireStart
    <3>1. ~fresh /\ ~AtRest
      BY <1>5, <2>2, FreshStep DEF AtRest
    <3>2. m.drum = "run"
      BY <1>5, <2>2, <3>1 DEF Sound
    <3> QED BY <1>5, <2>2, <3>1, <3>2, QuietStep
  <2> QED BY <1>5, <2>1, <2>2, StartLeads
<1> QED BY <1>1, <1>2, <1>3, <1>4, <1>5 DEF Sound, Active

\* The latch is released when Smart Control is off or a fresh load is evident, only.
LEMMA LatchStep ==
  ASSUME TypeOK, Dated, [Next]_vars, latch # None, latch' = None
  PROVE  UNCHANGED <<m, jobs>> /\ (~m.smart \/ FreshArm)
<1>1. now # None
  BY TimesAreNat DEF TypeOK, Dated, None
<1> QED BY <1>1 DEF Next, Reconcile, RcReadFails, RcOff, RcCancel, RcLeaves, RcBlocked, RcArms,
     RcCheck, RcCheckFails, RcDeclines, RcCreates, RcReplans, RcPollRuns, RcPollFails, RcPollStopped, RcCompletes,
     RcLatches, Heartbeat, HbOff, HbChecks, Release, CheckFreshArm, SetLatch, Fire, FcBegins, FcMissed, FcReadsRemote,
     FcRemoteFails, FcGuards, FcGuardFails, FcStartFails, FcRuns, FcDrops, FcLatches, FireStart, FcStarts, FcStartLost,
     Cancel, Process, Crash, Restart, Rehydrate, Outside, SmartOn, SmartOff, PowerOff, PowerOn, Restamp, StartByHand,
     Finish, Tick, Stamp, vars

\* From the start command to the row or the latch that tells of it.
LEMMA FiringLeads ==
  ASSUME TypeOK, Control, Dated, [Next]_vars, ~exposed', ~FireStart
  PROVE  /\ fc.pc = "running" => fc' = fc \/ \E j \in Jobs : jobs'[j].status = "running"
         /\ fc.pc = "drop" =>
              \/ fc' = fc
              \/ /\ \E j \in Jobs : jobs'[j].status \in {"failed", "cancelled"} /\ jobs'[j].end = now
                 /\ m' = m /\ (fc.outcome # "cancelled" => fc'.pc = "latch")
         /\ fc.pc = "latch" => fc' = fc \/ latch' # None
<1>1. ~Crash \/ fc.pc \notin {"running", "drop", "latch"}
  BY ExposedStep
<1>2. fc.pc \in {"running", "drop", "latch"} =>
         fc' = fc \/ (Fire /\ (FcRuns \/ FcDrops \/ FcLatches))
  BY <1>1 DEF Next, Reconcile, Heartbeat, Fire, FcBegins, FcMissed, FcReadsRemote,
     FcRemoteFails, FcGuards, FcGuardFails, FcStartFails, Cancel, Process, Restart, Rehydrate,
     Outside, SmartOn, SmartOff, PowerOff, PowerOn, Restamp, StartByHand, Finish, Tick, Stamp, vars
<1>3. ASSUME Fire, FcRuns PROVE fc.job \in Jobs /\ jobs'[fc.job].status = "running"
  BY <1>3, ExposedStep, StampedRow DEF FcRuns, Control, Statuses
<1>4. ASSUME FcDrops
      PROVE  /\ \E j \in Jobs : jobs'[j].status \in {"failed", "cancelled"} /\ jobs'[j].end = now
             /\ m' = m /\ (fc.outcome # "cancelled" => fc'.pc = "latch")
  <2>1. fc.job \in Jobs /\ \E st \in {"failed", "cancelled"} : jobs' = Stamped(fc.job, st)
    BY <1>4 DEF FcDrops, Control, SetStatus
  <2>2. jobs'[fc.job].status \in {"failed", "cancelled"} /\ jobs'[fc.job].end = now
    BY <2>1, StampedRow DEF Statuses
  <2>3. m' = m /\ (fc.outcome # "cancelled" => fc'.pc = "latch")
    BY <1>4 DEF FcDrops, FcGo, TypeOK, Firings
  <2> QED BY <2>1, <2>2, <2>3
<1>5. FcLatches => latch' # None
  BY TimesAreNat DEF FcLatches, SetLatch, Dated, TypeOK, None
<1>6. (FcRuns => fc.pc = "running") /\ (FcDrops => fc.pc = "drop") /\ (FcLatches => fc.pc = "latch")
  BY DEF FcRuns, FcDrops, FcLatches
<1> QED BY <1>2, <1>3, <1>4, <1>5, <1>6

\* A load is used up by the start command that a gesture allowed.
LEMMA StaleBegins ==
  ASSUME TypeOK, Control, Dated, Sound, [Next]_vars, ~exposed', ~fresh', fresh
  PROVE  Stale'
<1>1. FireStart /\ m.power
  BY FreshStep
<1>2. fc.pc = "start" /\ m.drum = "stop" /\ m' = [m EXCEPT !.drum = "run", !.drumAt = now + 1]
  BY <1>1, StartLeads DEF Sound
<1>3. fc'.pc = "running" \/ (fc'.pc = "drop" /\ fc'.outcome = "failed")
  BY <1>1, StartLeads
<1>4. m \in Machine /\ now \in Nat /\ m.powerAt \in Nat /\ m.smartAt \in Nat
  BY TimesAreNat DEF TypeOK, Machine
<1>5. m'.drum = "run" /\ m'.drumAt = now + 1 /\ m'.powerAt = m.powerAt /\ m'.smartAt = m.smartAt
  BY <1>2, <1>4 DEF Machine
<1> QED BY <1>3, <1>4, <1>5 DEF Stale, Dated

\* And it stays used up until the owner's next gesture.
LEMMA StaleStep ==
  ASSUME TypeOK, Control, Dated, OneActive, Sound, Stale, [Next]_vars, ~exposed', ~fresh', ~fresh
  PROVE  Stale'
<1>0. /\ rc \in Passes /\ fc \in Firings /\ m \in Machine /\ now \in Nat
      /\ m.powerAt \in Nat /\ m.smartAt \in Nat /\ m.drumAt \in Nat /\ \A j \in Jobs : jobs[j].end \in Nat
      /\ \A j \in Jobs : jobs[j].armed \in Nat
  BY TimesAreNat DEF TypeOK, Machine, Job
<1>1. ~FireStart
  BY StartLeads DEF Sound
<1>2. m'.power => m'.powerAt <= m'.drumAt /\ (m'.smart => m'.smartAt <= m'.drumAt)
  BY <1>0, <1>1, QuietStep DEF Stale, Dated
<1>3. SomeRuns => SomeRuns' \/ (RcCompletes /\ Reconcile)
  BY RunningKept DEF SomeRuns
<1>4. SomeRuns' \/ Noted' \/ (m'.drum = "run" /\ fc'.pc \in {"running", "drop"})
  <2>1. CASE SomeRuns
    <3>1. PICK j \in Jobs : jobs[j].status = "running"
      BY <2>1 DEF SomeRuns
    <3>2. CASE RcCompletes /\ Reconcile /\ rc.job = j /\ jobs'[j].status = "completed" /\ jobs'[j].end = rc.at
      <4>1. m' = m /\ rc.at = m.drumAt
        BY <3>2 DEF RcCompletes, Reconcile, Sound
      <4> QED BY <3>2, <4>1 DEF Noted, Stale
    <3> QED BY <3>1, <3>2, RunningKept DEF SomeRuns
  <2>2. CASE Noted
    <3>1. PICK j \in Jobs : /\ jobs[j].status \in {"completed", "failed", "cancelled"}
                            /\ m.power => m.powerAt <= jobs[j].end
                            /\ m.power /\ m.smart => m.smartAt <= jobs[j].end
      BY <2>2 DEF Noted
    <3>2. CASE jobs'[j].status = jobs[j].status /\ jobs'[j].end = jobs[j].end
      BY <1>1, <3>1, <3>2, QuietStep DEF Noted
    <3>3. CASE RcCompletes /\ Reconcile /\ rc.job = j
      BY <3>1, <3>3 DEF RcCompletes, Sound
    <3>4. CASE RowBegins(j)
      BY <3>4 DEF RowBegins, SomeRuns
    <3>5. CASE m' = m /\ jobs'[j].status \in {"completed", "failed", "cancelled"} /\ jobs'[j].end = now
      BY <3>5 DEF Noted, Dated
    <3>6. FcDrops => m' = m
      BY DEF FcDrops
    <3> QED BY <3>1, <3>2, <3>3, <3>4, <3>5, <3>6, WrittenRow
  <2>3. CASE m.drum = "run" /\ fc.pc \in {"running", "drop"}
    <3>1. m'.drum = "run"
      BY <1>1, <2>3, QuietStep DEF AtRest
    <3>2. CASE m' = m /\ \E j \in Jobs : jobs'[j].status \in {"failed", "cancelled"} /\ jobs'[j].end = now
      BY <3>2 DEF Noted, Dated
    <3> QED BY <1>1, <2>3, <3>1, <3>2, FiringLeads DEF SomeRuns
  <2> QED BY <2>1, <2>2, <2>3 DEF Stale
<1>5. \/ SomeRuns' \/ latch' # None \/ ~m'.smart \/ rc'.pc = "latch"
      \/ m'.drum = "run" /\ \/ fc'.pc \in {"running", "latch"}
                            \/ fc'.pc = "drop" /\ fc'.outcome # "cancelled"
  <2>1. CASE SomeRuns
    BY <1>0, <1>3, <2>1 DEF RcCompletes, RcGo, Passes
  <2>2. CASE latch # None /\ ~SomeRuns
    BY <1>0, <2>2, LatchStep, NoFreshArm
  <2>3. CASE ~m.smart
    BY <1>1, <2>3, QuietStep
  <2>4. CASE rc.pc = "latch"
    <3>1. CASE Reconcile
      <4>1. RcLatches
        BY <2>4, <3>1 DEF Reconcile, RcBegins, RcReadFails, RcOff, RcCancel, RcLeaves, RcBlocked, RcArms,
           RcCheck, RcCheckFails, RcDeclines, RcCreates, RcReplans, RcPollRuns, RcPollFails, RcPollStopped, RcCompletes
      <4> QED BY <1>0, <4>1 DEF RcLatches, SetLatch, Dated, None
    <3>2. CASE ~Reconcile
      BY <2>4, <3>2, ExposedStep DEF Next, Heartbeat, Fire, FireStart, Cancel, Process, Restart, Rehydrate,
         Outside, SmartOn, SmartOff, PowerOff, PowerOn, Restamp, StartByHand, Finish, Tick, Stamp, vars
    <3> QED BY <3>1, <3>2
  <2>5. CASE m.drum = "run" /\ (fc.pc \in {"running", "latch"} \/ (fc.pc = "drop" /\ fc.outcome # "cancelled"))
    <3>1. m'.drum = "run"
      BY <1>1, <2>5, QuietStep DEF AtRest
    <3> QED BY <1>1, <2>5, <3>1, FiringLeads DEF SomeRuns
  <2> QED BY <2>1, <2>2, <2>3, <2>4, <2>5 DEF Stale
<1>6. ASSUME m'.drum = "stop"
      PROVE  /\ \A j \in Scheduled' : jobs'[j].armed < m'.drumAt
             /\ ~(rc'.pc = "arm" /\ rc'.job = 0)
             /\ rc'.pc = "check" => ~SomeRuns'
             /\ fc'.pc \in {"remote", "guard"} => fc'.armed < m'.drumAt
  <2>1. CASE AtRest /\ m'.drumAt = now + 1 /\ UNCHANGED <<jobs, rc, fc>>
    BY <1>0, <2>1 DEF AtRest, Dated, Scheduled
  <2>2. CASE m.drum = "stop" /\ m'.drumAt = m.drumAt
    <3>1. \A j \in Scheduled : jobs[j].armed < m.drumAt
      BY <2>2 DEF Stale
    <3>2. \A j \in Scheduled' : jobs'[j].armed < m'.drumAt
      <4> SUFFICES ASSUME NEW j \in Scheduled' PROVE jobs'[j].armed < m'.drumAt
        OBVIOUS
      <4>1. j \in Scheduled /\ ~RowMade(j)
        BY <2>2, ScheduledStep DEF Stale, RowMade
      <4>2. jobs'[j].armed = jobs[j].armed
        BY <4>1, RowSteps DEF Scheduled, RowStep, IsEnded, RowBegins
      <4> QED BY <2>2, <3>1, <4>1, <4>2
    <3>3. ASSUME rc'.pc = "arm", rc'.job = 0 PROVE FALSE
      <4>1. CASE rc' = rc
        BY <2>2, <3>3, <4>1 DEF Stale
      <4>2. CASE RcArms /\ ActiveJob = 0
        <5>1. rc.pc = "idle" /\ m.smart /\ latch = None
          BY <4>2 DEF RcArms, RcBegins, MayArm
        <5>2. ~SomeRuns
          BY <4>2, ActiveJobType DEF SomeRuns, Active
        <5> QED BY <2>2, <5>1, <5>2 DEF Stale
      <4>3. CASE RcCheck /\ FreshArm /\ rc.pc = "check"
        BY <2>2, <4>3, NoFreshArm DEF Stale
      <4> QED BY <3>3, <4>1, <4>2, <4>3, PassStep
    <3>4. ASSUME rc'.pc = "check" PROVE ~SomeRuns'
      <4>1. CASE RcBlocked /\ Reconcile
        BY <4>1, ActiveJobType DEF RcBlocked, SomeRuns, Active
      <4>2. CASE rc' = rc
        <5>1. ~SomeRuns
          BY <2>2, <3>4, <4>2 DEF Stale
        <5>2. \A j \in Jobs : ~RowBegins(j)
          BY <2>2 DEF RowBegins, FcRuns, Sound
        <5> QED BY <5>1, <5>2, RowSteps DEF SomeRuns, RowStep, IsEnded, RowMade
      <4> QED BY <3>4, <4>1, <4>2, PassStep
    <3>5. ASSUME fc'.pc \in {"remote", "guard"} PROVE fc'.armed < m'.drumAt
      <4>1. CASE FcBegins /\ Fire
        <5>1. fc'.armed = jobs[cron.job].armed /\ cron.job \in Scheduled
          BY <3>5, <4>1, FiringStep DEF FcBegins, FcIdle
        <5> QED BY <2>2, <3>1, <5>1
      <4>2. CASE fc' = fc \/ (fc.pc = "remote" /\ fc' = [fc EXCEPT !.pc = "guard"])
        BY <1>0, <2>2, <3>5, <4>2 DEF Firings, Stale
      <4> QED BY <3>5, <4>1, <4>2, RemoteStep
    <3> QED BY <3>2, <3>3, <3>4, <3>5
  <2> QED BY <1>1, <1>6, <2>1, <2>2, QuietStep
<1> QED BY <1>2, <1>4, <1>5, <1>6 DEF Stale

\* What keeps a load from being washed again survives a step.
LEMMA NoRewashStep ==
  ASSUME TypeOK, Control, Dated, OneActive, NoRewash, [Next]_vars
  PROVE  NoRewash'
<1> SUFFICES ASSUME ~exposed' PROVE Sound' /\ (~fresh' => Stale')
  BY DEF NoRewash
<1>1. Sound /\ (~fresh => Stale)
  BY ExposedStep DEF NoRewash
<1>2. Sound'
  BY <1>1, SoundStep
<1>3. ~fresh' => Stale'
  BY <1>1, StaleBegins, StaleStep
<1> QED BY <1>2, <1>3

----------------------------------------------------------------------------
(* The theorems *)

\* The types and the inductive invariant hold in every state.
LEMMA InvCorrect == Spec => [](TypeOK /\ IInv)
<1>1. Init => TypeOK /\ IInv
  BY TypeInit, InvInit
<1>2. TypeOK /\ IInv /\ [Next]_vars => (TypeOK /\ IInv)'
  <2> SUFFICES ASSUME TypeOK, IInv, [Next]_vars PROVE (TypeOK /\ IInv)'
    OBVIOUS
  <2>1. TypeOK'
    BY TypeStep DEF IInv
  <2>2. Control' /\ Dated' /\ OneActive' /\ Aimed'
    BY ControlStep, DatedStep, OneActiveStep, AimedStep DEF IInv
  <2>3. Timed' /\ OneGo' /\ Guarded' /\ NoRewash'
    BY TimedStep, OneGoStep, GuardedStep, NoRewashStep DEF IInv
  <2> QED BY <2>1, <2>2, <2>3 DEF IInv
<1> QED BY <1>1, <1>2, PTL DEF Spec

\* Every variable keeps its type.
THEOREM TypeCorrect == Spec => []TypeOK
<1>1. TypeOK /\ IInv => TypeOK
  OBVIOUS
<1> QED BY <1>1, InvCorrect, PTL

\* Whenever no handler is at work, a job scheduled for later has its timer at its start
\* (_arm_or_replan, rehydrate_crons), unless a late cancel removed it (_remove_cron).
THEOREM TimersKept == Spec => []TimerCovers
<1>1. TypeOK /\ IInv => TimerCovers
  BY DEF IInv, Timed, TimerCovers
<1> QED BY <1>1, InvCorrect, PTL

\* A job that has set the drum going is never sent another start command (_fire_cron).
THEOREM StartsOnce == Spec => OneStart
<1>1. TypeOK /\ IInv /\ [Next]_vars => [FireStart => fc.job \notin started]_vars
  BY StartLeads DEF IInv, OneGo
<1> QED BY <1>1, InvCorrect, PTL DEF Spec, OneStart

\* A start command finds the drum as the job was armed with, or started by hand while the
\* callback was at work (the fire-time guard of _fire_cron).
THEOREM StartsAsArmed == Spec => AsArmed
<1>1. TypeOK /\ IInv /\ [Next]_vars
        => [FireStart => \/ m.drum = "stop" /\ m.drumAt <= fc.armed
                         \/ m.drumAt > fc.at]_vars
  BY StartLeads DEF IInv, Guarded
<1> QED BY <1>1, InvCorrect, PTL DEF Spec, AsArmed

\* No load is washed twice, but after a stop of the process or a cancel that lost a row's
\* end: a start command follows a gesture of the owner (the re-arm latch, fresh_arm_evidence
\* and the fire-time guard together).
THEOREM NoLoadTwice == Spec => WashedOnce
<1>1. TypeOK /\ IInv /\ [Next]_vars => [FireStart => fresh \/ exposed]_vars
  BY StartLeads DEF IInv, NoRewash, Sound
<1> QED BY <1>1, InvCorrect, PTL DEF Spec, WashedOnce
=============================================================================
