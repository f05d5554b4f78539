---------------------------- MODULE ApplianceJobs ----------------------------
(***************************************************************************)
(* One SmartThings washer (scheduler/appliance_dispatch.py). The owner's   *)
(* consent is the Smart Control button. reconcile, before every solve,     *)
(* arms a job when it finds Smart Control on; a one-shot timer fires it;   *)
(* reconcile also notices the end of the cycle. Since some machines leave  *)
(* Smart Control on after a cycle, a re-arm latch, cleared when Smart      *)
(* Control is seen off or when a fresh manual load is evident, keeps the   *)
(* same load from being washed twice.                                      *)
(*                                                                         *)
(* Four activities interleave: the reconcile pass (one at a time, under    *)
(* the dispatch lock), the heartbeat (pending_arm_change), the timer's     *)
(* callback (_fire_cron) and the API's cancel. A step is a call of the     *)
(* cloud with the statements that follow it, up to the next call or the    *)
(* next write of a job's status. It begins with Smart Control just on.     *)
(*                                                                         *)
(* The clock advances with every event that stamps the machine, so that no *)
(* two stamps are equal, and with Tick. OPENCLAW_READ_ONLY is off.         *)
(***************************************************************************)
EXTENDS Integers

CONSTANTS
  Horizon,     \* how far ahead a window may be picked
  Gap,         \* APPLIANCE_FRESH_ARM_MIN_GAP_MINUTES
  Debounce,    \* APPLIANCE_FRESH_ARM_DEBOUNCE_MINUTES
  MaxTime,     \* bound: the clock
  MaxJobs,     \* bound: jobs created
  MaxTroubles, \* bound: failed or lost cloud calls, missed timers and stops of
               \* the process, together
  MaxManual,   \* bound: cycles started at the panel
  MaxTouches,  \* bound: changes of Smart Control and the power, re-stamps included
  MaxCancels   \* bound: jobs cancelled through the API

ASSUME JobsAssumption ==
  /\ {Horizon, MaxTime, MaxJobs} \subseteq Nat \ {0}
  /\ {Gap, Debounce, MaxTroubles, MaxManual, MaxTouches, MaxCancels} \subseteq Nat

VARIABLES
  now,      \* the clock
  m,        \* the machine: Smart Control, power and drum, each with its stamp
  jobs,     \* appliance_jobs
  latch,    \* rearm_blocked_since, None when the latch is not set
  obs,      \* what HEM has observed of the arm signals (set_appliance_arm_obs)
  cron,     \* the one-shot timer: its job (0: none), when it fires, and whether a
            \* cancel of another job has removed it (history, see ApRemovesCron)
  sys,      \* "up", "boot" (timers not yet rehydrated) or "down"
  rc,       \* the reconcile pass
  fc,       \* the timer's callback
  ap,       \* the API's cancel
  budget,   \* how often each bounded event has happened
  fresh,    \* history: the owner has turned Smart Control or the power on since
            \* the drum last started
  started,  \* history: the jobs whose start command has set the drum going
  exposed   \* history: a load was washed that no row tells of, see Exposes

vars == <<now, m, jobs, latch, obs, cron, sys, rc, fc, ap, budget, fresh, started,
          exposed>>
history == <<fresh, started, exposed>>

None  == 0
Times == 0..MaxTime
Jobs  == 1..MaxJobs
Statuses == {"unused", "scheduled", "running", "completed", "failed", "cancelled", "expired"}

NoObs   == [switch |-> "none", onTs |-> None, onSeen |-> None,
            remoteTs |-> None, candTs |-> None, candSeen |-> None]
Timer(j, at) == [job |-> j, at |-> at, lost |-> FALSE]
NoCron  == Timer(0, None)
RcIdle  == [pc |-> "idle", job |-> 0, at |-> None]
FcIdle  == [pc |-> "idle", job |-> 0, at |-> None, armed |-> None, outcome |-> "failed"]
ApIdle  == [pc |-> "idle", job |-> 0]

Machine == [smart: BOOLEAN, smartAt: Times, power: BOOLEAN, powerAt: Times,
            drum: {"stop", "run"}, drumAt: Times]
Job     == [status: Statuses, armed: Times, start: 0..(MaxTime + Horizon), end: Times]
Signals == [switch: {"none", "off", "on"}, onTs: Times, onSeen: Times,
            remoteTs: Times, candTs: Times, candSeen: Times]
Passes  == [pc: {"idle", "cancel", "check", "arm", "poll", "complete", "latch"},
            job: Jobs \cup {0}, at: Times]
Firings == [pc: {"idle", "remote", "guard", "start", "running", "drop", "latch"},
            job: Jobs \cup {0}, at: Times, armed: Times,
            outcome: {"failed", "cancelled", "aborted"}]

TypeOK ==
  /\ now \in Times /\ m \in Machine
  /\ jobs \in [Jobs -> Job]
  /\ latch \in Times /\ obs \in Signals
  /\ cron \in [job: Jobs \cup {0}, at: 0..(MaxTime + Horizon), lost: BOOLEAN]
  /\ sys \in {"up", "boot", "down"}
  /\ rc \in Passes /\ fc \in Firings
  /\ ap \in [pc: {"idle", "write", "remove"}, job: Jobs \cup {0}]
  /\ budget \in [troubles: 0..MaxTroubles, manual: 0..MaxManual, touches: 0..MaxTouches,
                 cancels: 0..MaxCancels]
  /\ fresh \in BOOLEAN /\ exposed \in BOOLEAN /\ started \subseteq Jobs

Init ==
  /\ now = 1
  /\ m = [smart |-> TRUE, smartAt |-> 1, power |-> TRUE, powerAt |-> 1,
          drum |-> "stop", drumAt |-> 1]
  /\ jobs = [j \in Jobs |-> [status |-> "unused", armed |-> 0, start |-> 0, end |-> 0]]
  /\ latch = None /\ obs = NoObs /\ cron = NoCron /\ sys = "up"
  /\ rc = RcIdle /\ fc = FcIdle /\ ap = ApIdle
  /\ budget = [troubles |-> 0, manual |-> 0, touches |-> 0, cancels |-> 0]
  /\ fresh = TRUE /\ started = {} /\ exposed = FALSE

Active(j)    == jobs[j].status \in {"scheduled", "running"}
ActiveJob    == IF \E j \in Jobs : Active(j) THEN CHOOSE j \in Jobs : Active(j) ELSE 0
Alive        == sys # "down"
AtRest       == rc.pc = "idle" /\ fc.pc = "idle" /\ ap = ApIdle
Trouble      == /\ budget.troubles < MaxTroubles
                /\ budget' = [budget EXCEPT !.troubles = @ + 1]

\* MUTANT of Ended: the stamp is rounded up.
EndedRoundedUp(st, at) == [status |-> st, armed |-> None, start |-> None, end |-> at + 1]
\* update_appliance_job: every update stamps updated_at, which dates the end of
\* a job that has no completed_at_utc. Of an ended job only its end is read.
Ended(st, at) == [status |-> st, armed |-> None, start |-> None, end |-> at]
IsEnded(j)    == jobs[j].status \in {"completed", "failed", "cancelled", "expired"}
Stamped(j, st) == [jobs EXCEPT ![j] = IF st = "running" THEN [@ EXCEPT !.status = st]
                                                       ELSE Ended(st, now)]
SetStatus(j, st) == jobs' = Stamped(j, st)

----------------------------------------------------------------------------
(* The re-arm latch *)

\* History: from here neither the latch nor the rows tell that a load was washed.
Exposes(p) == exposed' = (exposed \/ p) /\ UNCHANGED <<fresh, started>>

\* set_appliance_rearm_block(TRUE): a new episode forgets the observations of
\* the last, an episode under way keeps its stamp. remoteTs is always kept.
SetLatch ==
  /\ latch' = IF latch = None THEN now ELSE latch
  /\ obs' = IF latch = None THEN [NoObs EXCEPT !.remoteTs = obs.remoteTs] ELSE obs

\* set_appliance_rearm_block(FALSE)
ClearedObs(o) == [o EXCEPT !.onTs = None, !.onSeen = None, !.candTs = None, !.candSeen = None]

\* _rearm_reference_utc, with the gap: the end of the last job (of the last five,
\* in the code), else when the latch was set.
Finished == {j \in Jobs : jobs[j].status \in {"completed", "failed", "cancelled"}}
PastReference(t) == IF Finished = {} THEN t > latch + Gap
                                     ELSE \A j \in Finished : t > jobs[j].end + Gap

\* observe_arm_signals: an off-to-on of the power that HEM itself saw, and a
\* newer stamp of Smart Control while the power is on.
SeePower(o) ==
  IF ~m.power
  THEN [o EXCEPT !.switch = "off", !.onTs = None, !.onSeen = None,
                 !.candTs = None, !.candSeen = None]
  ELSE IF o.switch = "off" \/ (o.switch = "on" /\ o.onTs \notin {None, m.powerAt})
       THEN [o EXCEPT !.switch = "on", !.onTs = m.powerAt, !.onSeen = now]
       ELSE [o EXCEPT !.switch = "on"]
SeeSmart(o) ==
  IF o.remoteTs = None THEN [o EXCEPT !.remoteTs = m.smartAt]
  ELSE IF m.smartAt <= o.remoteTs THEN o
  ELSE IF m.smart /\ m.power
       THEN [o EXCEPT !.remoteTs = m.smartAt, !.candTs = m.smartAt, !.candSeen = now]
       ELSE [o EXCEPT !.remoteTs = m.smartAt, !.candTs = None, !.candSeen = None]
Observed == SeeSmart(SeePower(obs))

\* fresh_arm_evidence, on the observations just recorded.
PowerEvidence(o) ==
  /\ m.power /\ o.onTs = m.powerAt
  /\ PastReference(o.onTs) /\ now - o.onSeen >= Debounce
SmartEvidence(o) ==
  /\ o.candTs # None /\ o.candTs = m.smartAt
  /\ m.smart /\ m.power /\ o.candTs >= m.powerAt
  /\ PastReference(o.candTs) /\ o.candTs > latch + Gap /\ now - o.candSeen >= Debounce
FreshArm == m.drum = "stop" /\ (PowerEvidence(Observed) \/ SmartEvidence(Observed))

\* _check_fresh_arm, on a status that was read.
CheckFreshArm ==
  /\ latch' = IF FreshArm THEN None ELSE latch
  /\ obs' = IF FreshArm THEN ClearedObs(Observed) ELSE Observed

\* MUTANT of Release: only fresh evidence clears the latch.
ReleaseNever == UNCHANGED <<latch, obs>>
\* Smart Control seen off.
Release ==
  /\ latch' = None
  /\ obs' = IF latch = None THEN obs ELSE ClearedObs(obs)

----------------------------------------------------------------------------
(* The reconcile pass: _reconcile_one, then _poll_running_jobs *)

RcGo(pc) == rc' = [rc EXCEPT !.pc = pc]
\* The pass ends by polling the job it then finds running: the row is not read again.
Running(js) == {j \in Jobs : js[j].status = "running"}
\* MUTANT of Polling: the pass ends once the appliance is reconciled.
PollingNever(js) == RcIdle
Polling(js) == IF Running(js) = {} THEN RcIdle
               ELSE [RcIdle EXCEPT !.pc = "poll", !.job = CHOOSE j \in Running(js) : TRUE]

RcBegins == rc.pc = "idle" /\ Alive
RcReadFails ==
  /\ RcBegins /\ Trouble
  /\ rc' = Polling(jobs)
  /\ UNCHANGED <<latch, obs, cron, jobs, history>>

\* Smart Control off: the episode is over.
RcOff ==
  /\ RcBegins /\ ~m.smart
  /\ Release
  /\ IF ActiveJob # 0 /\ jobs[ActiveJob].status = "scheduled"
     THEN rc' = [rc EXCEPT !.pc = "cancel", !.job = ActiveJob]
     ELSE rc' = Polling(jobs)
  /\ UNCHANGED <<cron, jobs, budget, history>>
RcCancel ==
  /\ rc.pc = "cancel"
  /\ SetStatus(rc.job, "cancelled") /\ cron' = NoCron
  /\ rc' = Polling(jobs')
  /\ Exposes(jobs[rc.job].status # "scheduled")
  /\ UNCHANGED <<latch, obs, budget>>

RcLeaves ==
  /\ RcBegins /\ m.smart
  /\ ActiveJob # 0 /\ jobs[ActiveJob].status = "running"
  /\ rc' = Polling(jobs)
  /\ UNCHANGED <<latch, obs, cron, jobs, budget, history>>
RcBlocked ==
  /\ RcBegins /\ m.smart
  /\ ActiveJob = 0 /\ latch # None
  /\ RcGo("check")
  /\ UNCHANGED <<latch, obs, cron, jobs, budget, history>>
MayArm == \/ ActiveJob = 0 /\ latch = None
          \/ ActiveJob # 0 /\ jobs[ActiveJob].status = "scheduled"
RcArms ==
  /\ RcBegins /\ m.smart
  /\ MayArm
  /\ rc' = [rc EXCEPT !.pc = "arm", !.job = ActiveJob, !.at = now]
  /\ UNCHANGED <<latch, obs, cron, jobs, budget, history>>

RcCheck ==
  /\ rc.pc = "check"
  /\ CheckFreshArm
  /\ rc' = IF FreshArm THEN [rc EXCEPT !.pc = "arm", !.at = now] ELSE Polling(jobs)
  /\ UNCHANGED <<cron, jobs, budget, history>>
RcCheckFails ==
  /\ rc.pc = "check" /\ Trouble
  /\ rc' = Polling(jobs)
  /\ UNCHANGED <<latch, obs, cron, jobs, history>>

\* _arm_or_replan, once the window has been looked for. There may be none
\* before the deadline, and the unique index allows one active job: nothing
\* is written then.
RcDeclines ==
  /\ rc.pc = "arm"
  /\ rc' = Polling(jobs)
  /\ UNCHANGED <<latch, obs, cron, jobs, budget, history>>
RcCreates(s) ==
  /\ rc.pc = "arm" /\ rc.job = 0 /\ ActiveJob = 0
  /\ \E j \in Jobs :
       /\ jobs[j].status = "unused" /\ \A i \in Jobs : i < j => jobs[i].status # "unused"
       /\ jobs' = [jobs EXCEPT ![j] = [status |-> "scheduled", armed |-> rc.at,
                                       start |-> s, end |-> None]]
       /\ cron' = Timer(j, s)
  /\ rc' = Polling(jobs')
  /\ UNCHANGED <<latch, obs, budget, history>>
\* MUTANT of RcReplans: the row moves, its timer does not.
RcReplansRow(s) ==
  /\ rc.pc = "arm" /\ rc.job # 0
  /\ jobs' = [jobs EXCEPT ![rc.job] = IF IsEnded(rc.job) THEN Ended(@.status, now)
                                                         ELSE [@ EXCEPT !.start = s]]
  /\ rc' = Polling(jobs')
  /\ UNCHANGED <<latch, obs, cron, budget, history>>
\* A job that ended meanwhile gets a timer that will fire in vain.
RcReplans(s) ==
  /\ rc.pc = "arm" /\ rc.job # 0
  /\ jobs' = [jobs EXCEPT ![rc.job] = IF IsEnded(rc.job) THEN Ended(@.status, now)
                                                         ELSE [@ EXCEPT !.start = s]]
  /\ cron' = IF jobs[rc.job].start = s THEN cron ELSE Timer(rc.job, s)
  /\ rc' = Polling(jobs')
  /\ UNCHANGED <<latch, obs, budget, history>>

\* A machine state that cannot be read counts as still running.
RcPollRuns ==
  /\ rc.pc = "poll" /\ m.drum = "run"
  /\ rc' = RcIdle
  /\ UNCHANGED <<latch, obs, cron, jobs, budget, history>>
RcPollFails ==
  /\ rc.pc = "poll" /\ Trouble
  /\ rc' = RcIdle
  /\ UNCHANGED <<latch, obs, cron, jobs, history>>
RcPollStopped ==
  /\ rc.pc = "poll" /\ m.drum = "stop"
  /\ rc' = [rc EXCEPT !.pc = "complete", !.at = m.drumAt]
  /\ UNCHANGED <<latch, obs, cron, jobs, budget, history>>
\* MUTANT of RcCompletes: the latch is not set after it.
RcCompletesOnly ==
  /\ rc.pc = "complete"
  /\ jobs' = [jobs EXCEPT ![rc.job] = Ended("completed", rc.at)]
  /\ rc' = RcIdle
  /\ UNCHANGED <<latch, obs, cron, budget, history>>
RcCompletes ==
  /\ rc.pc = "complete"
  /\ jobs' = [jobs EXCEPT ![rc.job] = Ended("completed", rc.at)]
  /\ RcGo("latch")
  /\ UNCHANGED <<latch, obs, cron, budget, history>>
RcLatches ==
  /\ rc.pc = "latch"
  /\ SetLatch
  /\ rc' = RcIdle
  /\ UNCHANGED <<cron, jobs, budget, history>>

Reconcile ==
  /\ \/ RcReadFails \/ RcOff \/ RcCancel \/ RcLeaves \/ RcBlocked \/ RcArms
     \/ RcCheck \/ RcCheckFails \/ RcDeclines
     \/ \E s \in (now + 1)..(now + Horizon) : RcCreates(s) \/ RcReplans(s)
     \/ RcPollRuns \/ RcPollFails \/ RcPollStopped
     \/ RcCompletes \/ RcLatches
  /\ UNCHANGED <<now, m, sys, fc, ap>>

----------------------------------------------------------------------------
(* The heartbeat: pending_arm_change. Its answer only hastens the next      *)
(* reconcile pass, which may begin at any time here.                        *)

HbOff ==
  /\ ~m.smart
  /\ Release /\ UNCHANGED budget
HbChecks ==
  /\ m.smart /\ latch # None
  /\ CheckFreshArm /\ UNCHANGED budget

Heartbeat ==
  /\ Alive /\ (HbOff \/ HbChecks)
  /\ UNCHANGED <<now, m, jobs, cron, sys, rc, fc, ap, history>>

----------------------------------------------------------------------------
(* The timer's callback: _fire_cron *)

FcGo(pc)      == fc' = [fc EXCEPT !.pc = pc]
FcDrop(why)   == fc' = [fc EXCEPT !.pc = "drop", !.outcome = why]

FcBegins ==
  /\ fc.pc = "idle" /\ Alive /\ cron.job # 0 /\ cron.at <= now
  /\ cron' = NoCron
  /\ fc' = IF jobs[cron.job].status = "scheduled"
           THEN [FcIdle EXCEPT !.pc = "remote", !.job = cron.job, !.at = now,
                              !.armed = jobs[cron.job].armed]
           ELSE FcIdle
  /\ UNCHANGED <<m, jobs, latch, obs, budget, history>>
\* The scheduler drops a timer that it could not run in time, and one that is
\* due while the callback of the same appliance still runs.
FcMissed ==
  /\ Alive /\ cron.job # 0 /\ cron.at <= now
  /\ IF fc.pc = "idle" THEN Trouble ELSE UNCHANGED budget
  /\ cron' = NoCron
  /\ UNCHANGED <<m, fc, jobs, latch, obs, history>>

FcReadsRemote ==
  /\ fc.pc = "remote"
  /\ IF m.smart THEN FcGo("guard") ELSE FcDrop("cancelled")
  /\ UNCHANGED <<m, cron, jobs, latch, obs, budget, history>>
FcRemoteFails ==
  /\ fc.pc = "remote" /\ Trouble
  /\ FcDrop("failed")
  /\ UNCHANGED <<m, cron, jobs, latch, obs, history>>

\* The fire-time guard: nothing runs, nothing ran since arming, powered on.
\* MUTANT of StateChanged: only the present state of the drum is looked at.
StateIgnored == FALSE
StateChanged == m.drumAt > fc.armed
\* MUTANT of GuardPasses: a running drum is not looked for.
GuardStamps  == ~StateChanged /\ m.power
GuardPasses  == m.drum = "stop" /\ ~StateChanged /\ m.power
FcGuards ==
  /\ fc.pc = "guard"
  /\ IF GuardPasses THEN FcGo("start") ELSE FcDrop("aborted")
  /\ UNCHANGED <<m, cron, jobs, latch, obs, budget, history>>
FcGuardFails ==
  /\ fc.pc = "guard" /\ Trouble
  /\ FcDrop("aborted")
  /\ UNCHANGED <<m, cron, jobs, latch, obs, history>>

\* start_cycle, carried out (if the machine is on) or not.
DrumStarts == /\ m' = IF m.power /\ m.drum = "stop"
                      THEN [m EXCEPT !.drum = "run", !.drumAt = now + 1] ELSE m
              /\ fresh' = (fresh /\ ~m.power)
Sent == /\ started' = IF m.power /\ m.drum = "stop" THEN started \cup {fc.job} ELSE started
        /\ UNCHANGED exposed
FcStarts ==
  /\ fc.pc = "start" /\ now < MaxTime
  /\ DrumStarts /\ Sent
  /\ FcGo("running")
  /\ UNCHANGED <<cron, jobs, latch, obs, budget>>
FcStartFails ==
  /\ fc.pc = "start" /\ Trouble
  /\ UNCHANGED m /\ UNCHANGED history
  /\ FcDrop("failed")
  /\ UNCHANGED <<cron, jobs, latch, obs>>
FcStartLost ==
  /\ fc.pc = "start" /\ Trouble /\ now < MaxTime
  /\ DrumStarts /\ Sent
  /\ FcDrop("failed")
  /\ UNCHANGED <<cron, jobs, latch, obs>>

\* The unique index refuses a second active job: the update then raises.
FcRuns ==
  /\ fc.pc = "running"
  /\ jobs' = IF ActiveJob \in {0, fc.job} THEN Stamped(fc.job, "running") ELSE jobs
  /\ fc' = FcIdle
  /\ Exposes(ActiveJob \notin {0, fc.job})
  /\ UNCHANGED <<m, cron, latch, obs, budget>>

\* MUTANT of FcDrops: a failed start sets no latch.
FcDropsUnlatched ==
  /\ fc.pc = "drop"
  /\ SetStatus(fc.job, IF fc.outcome = "failed" THEN "failed" ELSE "cancelled")
  /\ IF fc.outcome = "aborted" THEN FcGo("latch") ELSE fc' = FcIdle
  /\ UNCHANGED <<m, cron, latch, obs, budget, history>>
\* A start not made is written as failed or cancelled and, unless Smart
\* Control was off, the latch set after it.
FcDrops ==
  /\ fc.pc = "drop"
  /\ SetStatus(fc.job, IF fc.outcome = "failed" THEN "failed" ELSE "cancelled")
  /\ IF fc.outcome = "cancelled" THEN fc' = FcIdle ELSE FcGo("latch")
  /\ UNCHANGED <<m, cron, latch, obs, budget, history>>
FcLatches ==
  /\ fc.pc = "latch"
  /\ SetLatch
  /\ fc' = FcIdle
  /\ UNCHANGED <<m, cron, jobs, budget, history>>

Fire ==
  /\ \/ FcBegins \/ FcMissed \/ FcReadsRemote \/ FcRemoteFails \/ FcGuards \/ FcGuardFails
     \/ FcStartFails \/ FcRuns \/ FcDrops \/ FcLatches
  /\ UNCHANGED <<now, sys, rc, ap>>
FireStart ==
  /\ FcStarts \/ FcStartLost
  /\ now' = now + 1
  /\ UNCHANGED <<sys, rc, ap>>

----------------------------------------------------------------------------
(* The API's cancel, and the process *)

\* The status is read, then written without a look at what it has become.
ApCancels(j) ==
  /\ ap = ApIdle /\ Alive /\ budget.cancels < MaxCancels
  /\ jobs[j].status = "scheduled"
  /\ ap' = [pc |-> "write", job |-> j]
  /\ budget' = [budget EXCEPT !.cancels = @ + 1]
  /\ UNCHANGED <<jobs, cron, history>>
ApWrites ==
  /\ ap.pc = "write"
  /\ SetStatus(ap.job, "cancelled")
  /\ ap' = [ap EXCEPT !.pc = "remove"]
  /\ exposed' = (exposed \/ jobs[ap.job].status # "scheduled")
  /\ UNCHANGED <<cron, budget, fresh, started>>
\* _remove_cron: the timer's name is the appliance's, not the job's. A late
\* removal takes the timer of the next job, which a re-plan or a boot sets again.
ApRemovesCron ==
  /\ ap.pc = "remove"
  /\ cron' = [NoCron EXCEPT !.lost = cron.lost \/ cron.job \notin {0, ap.job}]
  /\ ap' = ApIdle
  /\ UNCHANGED <<jobs, budget, history>>
Cancel ==
  /\ (\E j \in Jobs : ApCancels(j)) \/ ApWrites \/ ApRemovesCron
  /\ UNCHANGED <<now, m, latch, obs, sys, rc, fc>>

Crash ==
  /\ Alive /\ Trouble
  /\ sys' = "down" /\ cron' = NoCron
  /\ rc' = RcIdle /\ fc' = FcIdle /\ ap' = ApIdle
  /\ Exposes(fc.pc \in {"running", "drop", "latch"} \/ rc.pc = "latch")
  /\ UNCHANGED <<now, m, jobs, latch, obs>>
Restart ==
  /\ sys = "down"
  /\ sys' = "boot"
  /\ UNCHANGED <<now, m, jobs, latch, obs, cron, rc, fc, ap, budget, history>>

\* rehydrate_crons, after the scheduler has started.
Scheduled == {j \in Jobs : jobs[j].status = "scheduled"}
Overdue   == {j \in Scheduled : jobs[j].start <= now}
Rehydrate ==
  /\ sys = "boot"
  /\ jobs' = [j \in Jobs |-> IF j \in Overdue
                             THEN Ended("expired", now)
                             ELSE jobs[j]]
  /\ IF Scheduled = Overdue THEN UNCHANGED cron
     ELSE \E j \in Scheduled \ Overdue : cron' = Timer(j, jobs[j].start)
  /\ sys' = "up"
  /\ UNCHANGED <<now, m, latch, obs, rc, fc, ap, budget, history>>

----------------------------------------------------------------------------
(* The owner and the machine *)

Stamp(mm) == /\ now < MaxTime /\ now' = now + 1
             /\ m' = mm
             /\ UNCHANGED <<jobs, latch, obs, cron, sys, rc, fc, ap>>
Touch     == /\ budget.touches < MaxTouches
             /\ budget' = [budget EXCEPT !.touches = @ + 1]
Gesture   == Touch /\ fresh' = TRUE /\ UNCHANGED <<started, exposed>>
NoGesture == Touch /\ UNCHANGED history
Nothing   == UNCHANGED budget /\ UNCHANGED history

SmartOn ==
  /\ ~m.smart /\ m.power
  /\ Stamp([m EXCEPT !.smart = TRUE, !.smartAt = now + 1]) /\ Gesture
SmartOff ==
  /\ m.smart /\ m.power
  /\ Stamp([m EXCEPT !.smart = FALSE, !.smartAt = now + 1]) /\ NoGesture
PowerOff ==
  /\ m.power /\ m.drum = "stop"
  /\ Stamp([m EXCEPT !.power = FALSE, !.powerAt = now + 1]) /\ NoGesture
PowerOn ==
  /\ ~m.power
  /\ Stamp([m EXCEPT !.power = TRUE, !.powerAt = now + 1]) /\ Gesture
\* Seen in production: a new stamp of Smart Control while powered off.
Restamp ==
  /\ m.smart /\ ~m.power
  /\ Stamp([m EXCEPT !.smartAt = now + 1]) /\ NoGesture
StartByHand ==
  /\ m.power /\ m.drum = "stop" /\ budget.manual < MaxManual
  /\ budget' = [budget EXCEPT !.manual = @ + 1]
  /\ fresh' = FALSE /\ exposed' = TRUE /\ UNCHANGED started
  /\ Stamp([m EXCEPT !.drum = "run", !.drumAt = now + 1])
\* A cycle outlasts any handler.
Finish ==
  /\ m.drum = "run" /\ AtRest
  /\ Stamp([m EXCEPT !.drum = "stop", !.drumAt = now + 1]) /\ Nothing
Tick == AtRest /\ Stamp(m) /\ Nothing

Outside == SmartOn \/ SmartOff \/ PowerOff \/ PowerOn \/ Restamp \/ StartByHand \/ Finish \/ Tick
Process == Crash \/ Restart \/ Rehydrate

Next == Reconcile \/ Heartbeat \/ Fire \/ FireStart \/ Cancel \/ Process \/ Outside
Spec == Init /\ [][Next]_vars

\* Solves and heartbeats recur, a timer's callback goes on once begun, and the
\* supervisor restarts the process. Nothing is asked of the owner, of the
\* machine, of the clock or of the faults.
FairSpec == /\ Spec
            /\ WF_vars(Reconcile) /\ WF_vars(Heartbeat) /\ WF_vars(Fire)
            /\ WF_vars(FireStart) /\ WF_vars(ap # ApIdle /\ Cancel)
            /\ WF_vars(Restart) /\ WF_vars(Rehydrate)

----------------------------------------------------------------------------
(* Properties *)

\* No load is washed twice: a start command that reaches the machine finds a
\* gesture of the owner (Smart Control or the power turned on) made since the
\* drum last started: whatever calls failed or were lost, whatever the machine
\* re-stamped, and for every stop of the process and every cancel but those that
\* lose a row's end: a stop between a start command and the latch, or between
\* "completed" and the latch; a cancel written over a job that has begun to run.
\* This for owners who leave the starting to HEM: of a cycle started by hand no
\* row tells, and Smart Control left on after it counts as a new load.
WashedOnce == [][FireStart => fresh \/ exposed]_vars

\* A job that has set the drum going is never sent another start command, also
\* when the process stops between the command and the row that records it, when
\* a pass moves the job's start meanwhile, or when it is cancelled while it fires.
\* (A command the machine did not carry out, for it was off, may be repeated.)
OneStart == [][FireStart => fc.job \notin started]_vars

\* A start command finds the drum stopped, and untouched since the job was armed
\* (no cycle has begun or ended, however often the job was re-planned), unless
\* it was started by hand while the callback was already at work.
AsArmed == [][FireStart => \/ m.drum = "stop" /\ m.drumAt <= fc.armed
                           \/ m.drumAt > fc.at]_vars

\* Whenever no handler is at work, a job that is scheduled for later has its
\* timer, set for the time its row says: after a re-plan, a restart, a cancel. (A
\* cancel through the API removes the timer by the appliance's name: if it is
\* late, the one it removes is the next job's, and it stays lost until a re-plan
\* moves that job or the process is started again.)
TimerCovers ==
  AtRest /\ sys = "up" =>
    \A j \in Scheduled \ Overdue : cron = Timer(j, jobs[j].start) \/ cron.lost

\* Smart Control turned off releases the latch, unless it is turned on again
\* first, so that the owner's next off-to-on counts as a fresh arm.
OffReleases == (latch # None /\ ~m.smart) ~> (latch = None \/ m.smart)

\* The end of a cycle is noticed: a running job whose drum has stopped is
\* closed, unless the drum starts again first.
EndNoticed ==
  \A j \in Jobs : (j \in Running(jobs) /\ m.drum = "stop") ~> (j \notin Running(jobs) \/ m.drum = "run")
=============================================================================
