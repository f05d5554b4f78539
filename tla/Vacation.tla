------------------------------ MODULE Vacation ------------------------------
(***************************************************************************)
(* A trip: vacation.py with the heartbeat's holiday transition. The owner  *)
(* sets the preset to vacation with a return time (or moves that time, or  *)
(* leaves the preset early). Entering persists when the house has to be    *)
(* recovered, arms a one-shot job and puts the heat pump into its holiday  *)
(* mode from a thread of its own. The recovery, started by the job or by   *)
(* the cancel, undoes it step by step. The heartbeat watches the holiday   *)
(* flag and powers the unit on when it drops. The firmware ends the        *)
(* holiday by itself on the date it was given.                             *)
(*                                                                         *)
(* The clock counts parts of a day and stands still while a thread is at   *)
(* work. Climate zone and tank are one unit. The SQLite writes succeed.    *)
(***************************************************************************)
EXTENDS Integers

CONSTANTS
  DayLen,      \* instants in a day
  Recover,     \* VACATION_RECOVERY_HOURS, the snap to the cheap band included
  MaxTime,     \* bound of the clock, a midnight
  MaxCalls,    \* bound: calls of the owner
  MaxTroubles  \* bound: failed calls of the cloud and stops of the process together

ASSUME DaysAssumption ==
  DayLen \in Nat \ {0} /\ MaxTime \in Nat /\ MaxTime % DayLen = 0 /\ Recover \in Nat
ASSUME BoundsAssumption == MaxCalls \in Nat /\ MaxTroubles \in Nat

None == -1
Times == 0..MaxTime
Instants == Times \cup {None}
Presets == {"home", "vacation"}

VARIABLES
  now,     \* the clock
  up,      \* whether the process runs and has booted
  preset,  \* OPTIMIZATION_PRESET; home stands for normal and guests
  ret,     \* VACATION_RETURN_AT
  kv,      \* kv_state vacation_end_at
  job,     \* the one-shot vacation_end of the scheduler
  unit,    \* the heat pump: holiday mode, its end by the firmware, power
  seen,    \* holiday and power as the cache of the Daikin service has them
  was,     \* kv_state daikin_holiday_active
  ow,      \* the owner's call at work (the API serves one at a time)
  act,     \* the thread of finish_activation, up to its POST
  rc,      \* the recovery at work
  hb,      \* the transition tick of the heartbeat at work
  excused, \* what went wrong: a recovery met an entry, its holiday-off call failed, a
           \* power-on failed or was lost in a stop
  calls, troubles

vars    == <<now, up, preset, ret, kv, job, unit, seen, was, ow, act, rc, hb, excused,
             calls, troubles>>
store   == <<preset, ret, kv>>
house   == <<unit, seen, was>>
threads == <<ow, act, rc, hb>>
bounds  == <<now, up, calls>>

OwIdle  == [at |-> "idle", ret |-> None, to |-> "home", from |-> "home", fire |-> None]
ActIdle == [at |-> "idle", end |-> 0]
HbIdle  == [at |-> "idle", off |-> FALSE]

TypeOK ==
  /\ now \in Times /\ up \in BOOLEAN
  /\ preset \in Presets /\ ret \in Instants /\ kv \in Instants /\ job \in Instants
  /\ unit \in [hol : BOOLEAN, end : Times, on : BOOLEAN]
  /\ seen \in [hol : BOOLEAN, on : BOOLEAN] /\ was \in BOOLEAN
  /\ ow \in [at : {"idle", "return", "preset", "after", "store", "arm"}, ret : Instants,
             to : Presets \cup {"keep"}, from : Presets, fire : Instants]
  /\ act \in [at : {"idle", "post"}, end : Times]
  /\ rc \in {"idle", "wait", "preset", "off", "read", "power", "mpc"}
  /\ hb \in [at : {"idle", "power", "solve"}, off : BOOLEAN]
  /\ excused \in SUBSET {"met", "off", "power"} /\ calls \in 0..MaxCalls /\ troubles \in 0..MaxTroubles

Init ==
  /\ now = 0 /\ up = TRUE /\ preset = "home" /\ ret = None /\ kv = None /\ job = None
  /\ unit = [hol |-> FALSE, end |-> 0, on |-> TRUE] /\ seen = [hol |-> FALSE, on |-> TRUE]
  /\ was = FALSE
  /\ ow = OwIdle /\ act = ActIdle /\ rc = "idle" /\ hb = HbIdle
  /\ excused = {} /\ calls = 0 /\ troubles = 0

Trouble == troubles < MaxTroubles /\ troubles' = troubles + 1
Excuse(cond, what) == IF cond THEN excused \cup {what} ELSE excused
Current == [hol |-> unit.hol, on |-> unit.on]

----------------------------------------------------------------------------
(* The owner's call: set_preset, the settings endpoints *)

Later(s, t) == IF s > t THEN s ELSE t

\* compute_recovery_at, and at once when that is no longer ahead.
Fire == Later(ret - Recover, now)
\* holiday_dates: up to the day before the recovery, today at least; the firmware
\* resumes at the midnight after.
FirmwareEnd(fire) == DayLen * Later(fire \div DayLen, now \div DayLen + 1)

Entering == ow.at # "idle" /\ ow.to # "home"

\* Enter (a return time and the preset), Move (a return time, in vacation), Leave:
\* check_preset_changes wants the return time in the future.
OwStart(r, to) ==
  /\ up /\ ow.at = "idle" /\ calls < MaxCalls
  /\ \/ to = "home" /\ r = None
     \/ to = "vacation" /\ (IF r = None THEN ret ELSE r) > now
     \/ to = "keep" /\ r > now /\ preset = "vacation"
  /\ ow' = [at |-> IF r = None THEN "preset" ELSE "return", ret |-> r, to |-> to,
            from |-> preset, fire |-> None]
  /\ excused' = Excuse(to # "home" /\ rc # "idle", "met")
  /\ calls' = calls + 1
  /\ UNCHANGED <<now, up, store, job, house, act, rc, hb, troubles>>

OwReturn ==
  /\ ow.at = "return" /\ ret' = ow.ret
  /\ ow' = [ow EXCEPT !.at = IF ow.to = "keep" THEN "after" ELSE "preset"]
  /\ UNCHANGED <<bounds, preset, kv, job, house, act, rc, hb, excused, troubles>>
OwPreset ==
  /\ ow.at = "preset" /\ preset' = ow.to
  /\ ow' = [ow EXCEPT !.at = "after"]
  /\ UNCHANGED <<bounds, ret, kv, job, house, act, rc, hb, excused, troubles>>

\* after_settings_applied, on the settings as they are by now: a trip begins, unless the
\* return time is gone; the end of one with a stored recovery is a cancel, unless a
\* recovery is at work; or there is nothing to do.
Begins  == preset = "vacation" /\ (ow.from # "vacation" \/ ow.ret # None)
Cancels == ow.from = "vacation" /\ preset # "vacation" /\ kv # None
OwAfter ==
  /\ ow.at = "after"
  /\ ow' = IF Begins /\ ret > now THEN [ow EXCEPT !.at = "store", !.fire = Fire] ELSE OwIdle
  /\ rc' = IF Cancels /\ rc = "idle" THEN "wait" ELSE rc
  /\ UNCHANGED <<bounds, store, job, house, act, hb, excused, troubles>>

\* begin_activation takes _activation_lock and persists first. (The lock is given up
\* after 180 s, which outlasts a POST.)
OwStore ==
  /\ ow.at = "store" /\ act.at = "idle"
  /\ kv' = ow.fire /\ ow' = [ow EXCEPT !.at = "arm"]
  /\ UNCHANGED <<bounds, preset, ret, job, house, act, rc, hb, excused, troubles>>
\* The job is armed; the thread posts the holiday, unless the recovery is due at once.
OwArm ==
  /\ ow.at = "arm" /\ job' = ow.fire /\ ow' = OwIdle
  /\ act' = IF ow.fire <= now THEN ActIdle
            ELSE [at |-> "post", end |-> FirmwareEnd(ow.fire)]
  /\ UNCHANGED <<bounds, store, house, rc, hb, excused, troubles>>

Posted == [hol |-> TRUE, end |-> act.end, on |-> FALSE]
\* set_holiday_mode(True): the unit is in holiday, its power off.
ActPost ==
  /\ act.at = "post" /\ unit' = Posted /\ act' = ActIdle
  /\ UNCHANGED <<bounds, store, job, seen, was, ow, rc, hb, excused, troubles>>
\* It fails, or only its answer is lost; the trip goes on without it.
ActPostFails ==
  /\ act.at = "post" /\ Trouble /\ unit' \in {unit, Posted} /\ act' = ActIdle
  /\ UNCHANGED <<bounds, store, job, seen, was, ow, rc, hb, excused>>

Activation == OwReturn \/ OwPreset \/ OwAfter \/ OwStore \/ OwArm \/ ActPost

----------------------------------------------------------------------------
(* run_recovery *)

\* The scheduler's date trigger; _recovery_lock turns away the second of two.
JobFires ==
  /\ up /\ job # None /\ now >= job /\ job' = None
  /\ rc' = IF rc = "idle" THEN "wait" ELSE rc
  /\ excused' = Excuse(Entering, "met")
  /\ UNCHANGED <<bounds, store, house, ow, act, hb, troubles>>

\* MUTANT of Released: a recovery does not wait for the activation at work.
ReleasedAlways == TRUE
\* _activation_lock is free.
Released == act.at = "idle" /\ ow.at # "arm"

\* MUTANT of RcOrder: the holiday ends first, as before the review.
RcOrderOffFirst ==
  [wait |-> "off", off |-> "preset", preset |-> "read", read |-> "power", power |-> "mpc"]
\* The steps of _run_recovery_locked.
RcOrder ==
  [wait |-> "preset", preset |-> "off", off |-> "read", read |-> "power", power |-> "mpc"]
RcNext == rc' = RcOrder[rc]

\* MUTANT of RcStored: the stored recovery is taken out when it starts.
RcStoredTaken == None
\* What is stored while the recovery runs.
RcStored == kv

RcStart ==
  /\ rc = "wait" /\ Released
  /\ \/ kv # None /\ RcNext /\ kv' = RcStored
     \/ kv = None /\ rc' = "idle" /\ UNCHANGED kv
  /\ UNCHANGED <<bounds, preset, ret, job, house, ow, act, hb, excused, troubles>>
RcPreset ==
  /\ rc = "preset" /\ RcNext /\ preset' = "home" /\ ret' = None
  /\ UNCHANGED <<bounds, kv, job, house, ow, act, hb, excused, troubles>>
RcOff ==
  /\ rc = "off" /\ RcNext /\ unit' = [unit EXCEPT !.hol = FALSE]
  /\ UNCHANGED <<bounds, store, job, seen, was, ow, act, hb, excused, troubles>>
RcOffFails ==
  /\ rc = "off" /\ RcNext /\ Trouble
  /\ unit' \in {unit, [unit EXCEPT !.hol = FALSE]} /\ excused' = Excuse(TRUE, "off")
  /\ UNCHANGED <<bounds, store, job, seen, was, ow, act, hb>>
\* Bounded polls of a cloud that lags.
RcRead ==
  /\ rc = "read" /\ RcNext /\ seen' = Current
  /\ UNCHANGED <<bounds, store, job, unit, was, ow, act, hb, excused, troubles>>
\* It lags beyond the last poll, or does not answer.
RcReadStale ==
  /\ rc = "read" /\ RcNext /\ Trouble
  /\ UNCHANGED <<bounds, store, job, house, ow, act, hb, excused>>

\* set_power, set_tank_power: turned away by the guard while the cache shows the
\* holiday, by the unit while it is in it.
Accepted == ~seen.hol /\ ~unit.hol
PoweredOn(off) == [unit EXCEPT !.on = @ \/ (off /\ Accepted)]
RcPower ==
  /\ rc = "power" /\ RcNext /\ unit' = PoweredOn(~seen.on)
  /\ UNCHANGED <<bounds, store, job, seen, was, ow, act, hb, excused, troubles>>
RcPowerFails ==
  /\ rc = "power" /\ RcNext /\ ~seen.on /\ Trouble /\ excused' = Excuse(TRUE, "power")
  /\ UNCHANGED <<bounds, store, job, house, ow, act, hb>>
\* After the solve, which takes minutes, nothing is stored and no job armed.
RcClear ==
  /\ rc = "mpc" /\ rc' = "idle" /\ kv' = None /\ job' = None
  /\ UNCHANGED <<bounds, preset, ret, house, ow, act, hb, excused, troubles>>

Recovery == RcStart \/ RcPreset \/ RcOff \/ RcRead \/ RcPower \/ RcClear

----------------------------------------------------------------------------
(* _holiday_transition_tick, the cache, the firmware *)

\* The cache is refreshed, at the latest when its time has run out.
Refresh ==
  /\ up /\ seen # Current /\ seen' = Current
  /\ UNCHANGED <<bounds, store, job, unit, was, threads, excused, troubles>>

\* MUTANT of HbSees: the end of the holiday only brings the solve.
HbSeesSolves ==
  /\ up /\ hb.at = "idle" /\ was # seen.hol
  /\ was' = seen.hol
  /\ hb' = IF was THEN [at |-> "solve", off |-> FALSE] ELSE HbIdle
  /\ UNCHANGED <<bounds, store, job, unit, seen, ow, act, rc, excused, troubles>>
\* The flag as stored and as cached: the new one is stored before anything is done.
HbSees ==
  /\ up /\ hb.at = "idle" /\ was # seen.hol
  /\ was' = seen.hol
  /\ hb' = IF was THEN [at |-> "power", off |-> ~seen.on] ELSE HbIdle
  /\ UNCHANGED <<bounds, store, job, unit, seen, ow, act, rc, excused, troubles>>
HbPower ==
  /\ hb.at = "power" /\ unit' = PoweredOn(hb.off)
  /\ hb' = [hb EXCEPT !.at = "solve"]
  /\ UNCHANGED <<bounds, store, job, seen, was, ow, act, rc, excused, troubles>>
HbPowerFails ==
  /\ hb.at = "power" /\ hb.off /\ Trouble
  /\ hb' = [hb EXCEPT !.at = "solve"] /\ excused' = Excuse(TRUE, "power")
  /\ UNCHANGED <<bounds, store, job, house, ow, act, rc>>
\* The solve "holiday_end".
HbSolve ==
  /\ hb.at = "solve" /\ hb' = HbIdle
  /\ UNCHANGED <<bounds, store, job, house, ow, act, rc, excused, troubles>>

Heartbeat == Refresh \/ HbSees \/ HbPower \/ HbSolve

\* The firmware resumes; whether it powers the unit on is its own affair.
FirmwareEnds ==
  /\ unit.hol /\ now >= unit.end
  /\ \E on \in BOOLEAN : unit' = [unit EXCEPT !.hol = FALSE, !.on = on]
  /\ UNCHANGED <<bounds, store, job, seen, was, threads, excused, troubles>>

----------------------------------------------------------------------------
(* The process, the clock *)

\* A POST on its way may still arrive.
Crash ==
  /\ up /\ Trouble /\ up' = FALSE /\ job' = None
  /\ ow' = OwIdle /\ act' = ActIdle /\ rc' = "idle" /\ hb' = HbIdle
  /\ unit' \in {unit, IF act.at = "post" THEN Posted ELSE unit}
  /\ excused' = Excuse(hb.at = "power", "power")
  /\ UNCHANGED <<now, store, seen, was, calls>>

\* MUTANT of Rearmed: a job whose time has passed is not armed again.
RearmedAhead == IF kv > now THEN kv ELSE None
\* rearm_from_kv.
Rearmed == kv
Boot ==
  /\ ~up /\ up' = TRUE /\ job' = Rearmed /\ seen' = Current
  /\ UNCHANGED <<now, store, unit, was, threads, excused, calls, troubles>>

\* An instant outlasts the life of the cache, the period of the heartbeat and the delay
\* of the scheduler; the firmware is on time.
Watched ==
  /\ ~(unit.hol /\ now >= unit.end)
  /\ up => seen = Current /\ was = seen.hol /\ ~(job # None /\ now >= job)
Tick ==
  /\ Watched /\ now < MaxTime
  /\ ow.at = "idle" /\ act.at = "idle" /\ rc = "idle" /\ hb.at = "idle"
  /\ now' = now + 1
  /\ UNCHANGED <<up, store, job, house, threads, excused, calls, troubles>>

Next ==
  \/ \E r \in Instants, to \in Presets \cup {"keep"} : OwStart(r, to)
  \/ Activation \/ ActPostFails
  \/ JobFires \/ Recovery \/ RcOffFails \/ RcReadStale \/ RcPowerFails
  \/ Heartbeat \/ HbPowerFails \/ FirmwareEnds
  \/ Crash \/ Boot \/ Tick

\* Threads go on, the scheduler and the heartbeat recur, the process is started again,
\* the clock runs on whenever the threads let it.
Fairness ==
  /\ WF_vars(Activation) /\ WF_vars(JobFires) /\ WF_vars(Recovery) /\ WF_vars(Heartbeat)
  /\ WF_vars(FirmwareEnds) /\ WF_vars(Boot) /\ SF_vars(Tick)

Spec == Init /\ [][Next]_vars
FairSpec == Spec /\ Fairness

----------------------------------------------------------------------------
(* Properties *)

\* A stored recovery has its job, whatever was interrupted ("a past time fires ~30 s
\* after boot").
JobCovers == up /\ kv # None /\ ow.at # "arm" /\ rc = "idle" => job # None

\* Nobody is left behind in holiday mode: at home with nothing stored and nothing at
\* work, the unit is out of it.
HolidayReleased ==
  up /\ preset = "home" /\ kv = None /\ ow.at = "idle" /\ act.at = "idle" /\ rc = "idle"
    /\ {"met", "off"} \cap excused = {} => ~unit.hol

\* Before its date the holiday is ended only with people at home already: the heartbeat
\* solves as soon as the flag drops, and "must already see `normal`".
EndsAtHome ==
  [][ unit.hol /\ ~unit'.hol /\ now < unit.end /\ "met" \notin excused => preset = "home" ]_vars

\* A trip whose recovery is stored ends, through failed calls and stops of the process.
TripEnds == kv # None ~> preset = "home" \/ "met" \in excused

\* A unit switched off by a holiday the heartbeat has seen is powered on again, by the
\* recovery or by the heartbeat, unless a power-on fails, a stop comes just before it, or a recovery met an entry.
PoweredAgain == was /\ ~unit.on ~> unit.on \/ {"power", "met"} \cap excused # {}
=============================================================================
