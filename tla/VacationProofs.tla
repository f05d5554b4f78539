---------------------------- MODULE VacationProofs ----------------------------
(***************************************************************************)
(* What TLAPS proves of Vacation, for any length of the day, any lead of   *)
(* the recovery and any bounds. IInv has four parts: what the owner's call *)
(* carries from one of its steps to the next (Call), JobCovers, what keeps *)
(* a recovery and an entry apart until they meet (Alone), and what ties    *)
(* the holiday and the thread that posts it to the stored recovery as long *)
(* as nothing went wrong (Linked).                                         *)
(***************************************************************************)
EXTENDS Vacation, TLAPS

----------------------------------------------------------------------------
(* Times *)

\* The clock's end is a midnight.
LEMMA Midnight ==
  \E k \in Nat : MaxTime = DayLen * k
BY DaysAssumption

\* The recovery is due at a time of the clock, not before now.
LEMMA FireType ==
  ASSUME TypeOK, ret > now
  PROVE  Fire \in Times
BY DaysAssumption DEF TypeOK, Fire, Later, Times, Instants, None

\* The firmware ends a holiday on a midnight of the clock: the recovery is still ahead
\* when the holiday is posted, and so is the midnight after now.
LEMMA FirmwareEndType ==
  ASSUME NEW f \in Times, now \in Times, now < f
  PROVE  FirmwareEnd(f) \in Times
<1> DEFINE q == f \div DayLen
           d == now \div DayLen
<1>1. PICK k \in Nat : MaxTime = DayLen * k
  BY Midnight
<1>2. q \in Nat /\ DayLen * q <= f /\ d \in Nat /\ DayLen * d <= now
  BY DaysAssumption DEF Times
<1>3. DayLen * q <= MaxTime
  BY <1>2, DaysAssumption DEF Times
<1>4. DayLen * (d + 1) <= MaxTime
  <2>1. DayLen * d < DayLen * k
    BY <1>1, <1>2, DaysAssumption DEF Times
  <2>2. d < k
    BY <2>1, <1>2, <1>1, DaysAssumption
  <2>3. DayLen * (d + 1) <= DayLen * k
    BY <2>2, <1>2, <1>1, DaysAssumption
  <2> QED BY <2>3, <1>1
<1>5. DayLen * q \in Nat /\ DayLen * (d + 1) \in Nat
  BY <1>2, DaysAssumption
<1> QED BY <1>2, <1>3, <1>4, <1>5 DEF FirmwareEnd, Later, Times

----------------------------------------------------------------------------
(* The inductive invariant *)

\* A call that sets a return time is not the one that leaves; a preset written is a
\* preset; the house is home when the call that leaves looks; a call that stores a
\* recovery enters, and the recovery has its time.
Call ==
  /\ ow.at = "return" => ow.to # "home"
  /\ ow.at = "preset" => ow.to # "keep"
  /\ ow.at = "after" /\ ow.to = "home" => preset = "home"
  /\ ow.at \in {"store", "arm"} => ow.to # "home" /\ ow.fire \in Times

\* As long as no recovery met an entry, none is at work while a call enters, and from
\* its third step on the house is home.
Alone ==
  "met" \notin excused =>
    /\ rc # "idle" => ~Entering
    /\ rc \in {"off", "read", "power", "mpc"} => preset = "home"

Clean == {"met", "off"} \cap excused = {}
\* Whoever puts the unit into its holiday has stored the recovery; the recovery is past
\* its start only when no POST is on its way, and past its third step the holiday is over.
Linked ==
  /\ unit.hol \/ act.at = "post" \/ ow.at = "arm" => kv # None
  /\ rc \notin {"idle", "wait"} => act.at = "idle"
  /\ rc \in {"read", "power", "mpc"} => ~unit.hol

IInv == Call /\ JobCovers /\ Alone /\ (Clean => Linked)

\* The boot satisfies the types and the invariant.
LEMMA InvInit == Init => TypeOK /\ IInv
<1> USE DEF Init, OwIdle, ActIdle, HbIdle
<1>1. Init => TypeOK
  <2> SUFFICES ASSUME Init PROVE TypeOK
    OBVIOUS
  <2>1. 0 \in Times /\ None \in Instants /\ "home" \in Presets
    BY DaysAssumption DEF Times, Instants, Presets
  <2>2. 0 \in 0..MaxCalls /\ 0 \in 0..MaxTroubles
    BY BoundsAssumption
  <2>3. /\ unit \in [hol : BOOLEAN, end : Times, on : BOOLEAN]
        /\ seen \in [hol : BOOLEAN, on : BOOLEAN]
    BY <2>1
  <2>4. /\ ow \in [at : {"idle", "return", "preset", "after", "store", "arm"}, ret : Instants,
                   to : Presets \cup {"keep"}, from : Presets, fire : Instants]
        /\ act \in [at : {"idle", "post"}, end : Times]
        /\ hb \in [at : {"idle", "power", "solve"}, off : BOOLEAN]
    BY <2>1
  <2> QED BY <2>1, <2>2, <2>3, <2>4 DEF TypeOK
<1>2. Init => IInv
  BY DEF IInv, Call, JobCovers, Alone, Linked, Entering
<1> QED BY <1>1, <1>2

----------------------------------------------------------------------------
(* Every step keeps the types *)

\* A trouble stays within its bound.
LEMMA TroubleType ==
  ASSUME TypeOK, Trouble
  PROVE  troubles' \in 0..MaxTroubles
BY BoundsAssumption DEF TypeOK, Trouble

\* The unit comes out of its holiday.
LEMMA OffType ==
  ASSUME NEW u \in [hol : BOOLEAN, end : Times, on : BOOLEAN]
  PROVE  [u EXCEPT !.hol = FALSE] \in [hol : BOOLEAN, end : Times, on : BOOLEAN]
OBVIOUS

\* The unit is powered on under a condition.
LEMMA OnType ==
  ASSUME NEW u \in [hol : BOOLEAN, end : Times, on : BOOLEAN], NEW b \in BOOLEAN
  PROVE  [u EXCEPT !.on = @ \/ b] \in [hol : BOOLEAN, end : Times, on : BOOLEAN]
<1>1. (u.on \/ b) \in BOOLEAN
  OBVIOUS
<1> QED BY <1>1

\* The firmware resumes, the unit on or off.
LEMMA ResumedType ==
  ASSUME NEW u \in [hol : BOOLEAN, end : Times, on : BOOLEAN], NEW b \in BOOLEAN
  PROVE  [u EXCEPT !.hol = FALSE, !.on = b] \in [hol : BOOLEAN, end : Times, on : BOOLEAN]
OBVIOUS

\* set_power leaves a unit.
LEMMA PoweredType ==
  ASSUME TypeOK, NEW off \in BOOLEAN
  PROVE  PoweredOn(off) \in [hol : BOOLEAN, end : Times, on : BOOLEAN]
<1>1. unit \in [hol : BOOLEAN, end : Times, on : BOOLEAN]
  BY DEF TypeOK
<1>2. (off /\ Accepted) \in BOOLEAN
  BY Zenon DEF Accepted
<1> QED BY <1>1, <1>2, OnType, Zenon DEF PoweredOn

\* A holiday as posted.
LEMMA PostedType ==
  ASSUME TypeOK
  PROVE  Posted \in [hol : BOOLEAN, end : Times, on : BOOLEAN]
BY DEF TypeOK, Posted

\* What went wrong is one of the three.
LEMMA ExcuseType ==
  ASSUME TypeOK, NEW c \in BOOLEAN, NEW w \in {"met", "off", "power"}
  PROVE  Excuse(c, w) \in SUBSET {"met", "off", "power"}
BY DEF TypeOK, Excuse

\* Steps of the owner's call and of its thread.
LEMMA ActivationType ==
  ASSUME TypeOK, Call, Activation \/ ActPostFails
  PROVE  TypeOK'
<1> USE DEF bounds, store, house, threads, OwIdle, ActIdle, None
<1>1. CASE OwReturn BY <1>1 DEF OwReturn, TypeOK
<1>2. CASE OwPreset BY <1>2 DEF OwPreset, TypeOK, Call, Presets
<1>3. CASE OwAfter
  <2>1. ow' \in [at : {"idle", "return", "preset", "after", "store", "arm"}, ret : Instants,
                 to : Presets \cup {"keep"}, from : Presets, fire : Instants]
    BY <1>3, FireType DEF OwAfter, TypeOK, Instants, Presets
  <2> QED BY <1>3, <2>1 DEF OwAfter, TypeOK
<1>4. CASE OwStore BY <1>4 DEF OwStore, TypeOK
<1>5. CASE OwArm
  <2>1. act' \in [at : {"idle", "post"}, end : Times]
    <3>1. ow.fire > now => FirmwareEnd(ow.fire) \in Times
      BY <1>5, FirmwareEndType DEF OwArm, TypeOK, Call
    <3> QED BY <1>5, <3>1, DaysAssumption DEF OwArm, TypeOK, Times, Call
  <2> QED BY <1>5, <2>1 DEF OwArm, TypeOK, Instants, Presets
<1>6. CASE ActPost BY <1>6, PostedType, DaysAssumption DEF ActPost, TypeOK, Times
<1>7. CASE ActPostFails BY <1>7, TroubleType, PostedType, DaysAssumption DEF ActPostFails, TypeOK, Times
<1> QED BY <1>1, <1>2, <1>3, <1>4, <1>5, <1>6, <1>7 DEF Activation

\* The recovery goes from step to step.
LEMMA RcNextType ==
  ASSUME RcNext, rc \in {"wait", "preset", "off", "read", "power"}
  PROVE  /\ rc = "wait" => rc' = "preset"
         /\ rc = "preset" => rc' = "off"
         /\ rc = "off" => rc' = "read"
         /\ rc = "read" => rc' = "power"
         /\ rc = "power" => rc' = "mpc"
BY DEF RcNext, RcOrder

\* Steps of the recovery.
LEMMA RecoveryType ==
  ASSUME TypeOK, Recovery \/ RcOffFails \/ RcReadStale \/ RcPowerFails
  PROVE  TypeOK'
<1> USE DEF bounds, store, house
<1>1. CASE RcStart BY <1>1, RcNextType DEF RcStart, RcStored, TypeOK
<1>2. CASE RcPreset BY <1>2, RcNextType DEF RcPreset, TypeOK, Presets, Instants
<1>3. CASE RcOff 
  <2>1. unit' \in [hol : BOOLEAN, end : Times, on : BOOLEAN]
    BY <1>3, OffType DEF RcOff, TypeOK
  <2> QED BY <1>3, <2>1, RcNextType DEF RcOff, TypeOK
<1>4. CASE RcRead BY <1>4, RcNextType DEF RcRead, Current, TypeOK
<1>5. CASE RcPower
  <2>1. (~seen.on) \in BOOLEAN
    BY Zenon
  <2>2. unit' \in [hol : BOOLEAN, end : Times, on : BOOLEAN]
    BY <1>5, <2>1, PoweredType, Zenon DEF RcPower
  <2> QED BY <1>5, <2>2, RcNextType DEF RcPower, TypeOK
<1>6. CASE RcClear BY <1>6 DEF RcClear, TypeOK, Instants
<1>7. CASE RcOffFails
  <2>1. unit' \in [hol : BOOLEAN, end : Times, on : BOOLEAN]
    BY <1>7, OffType DEF RcOffFails, TypeOK
  <2>2. excused' \in SUBSET {"met", "off", "power"}
    BY <1>7, ExcuseType, Zenon DEF RcOffFails
  <2>3. troubles' \in 0..MaxTroubles
    BY <1>7, TroubleType DEF RcOffFails
  <2>4. rc' = "read" /\ UNCHANGED <<bounds, store, job, seen, was, ow, act, hb>>
    BY <1>7, RcNextType, Zenon DEF RcOffFails
  <2> QED BY <2>1, <2>2, <2>3, <2>4 DEF TypeOK
<1>8. CASE RcReadStale BY <1>8, RcNextType, TroubleType DEF RcReadStale, TypeOK
<1>9. CASE RcPowerFails
  <2>1. excused' \in SUBSET {"met", "off", "power"}
    BY <1>9, ExcuseType, Zenon DEF RcPowerFails
  <2>2. troubles' \in 0..MaxTroubles
    BY <1>9, TroubleType DEF RcPowerFails
  <2>3. rc' = "mpc" /\ UNCHANGED <<bounds, store, job, house, ow, act, hb>>
    BY <1>9, RcNextType, Zenon DEF RcPowerFails
  <2> QED BY <2>1, <2>2, <2>3 DEF TypeOK
<1> QED BY <1>1, <1>2, <1>3, <1>4, <1>5, <1>6, <1>7, <1>8, <1>9 DEF Recovery

\* Steps of the heartbeat and of the heat pump itself.
LEMMA HeartbeatType ==
  ASSUME TypeOK, Heartbeat \/ HbPowerFails \/ FirmwareEnds
  PROVE  TypeOK'
<1> USE DEF bounds, store, house, threads
<1>1. CASE Refresh BY <1>1 DEF Refresh, Current, TypeOK
<1>2. CASE HbSees
  <2>1. (~seen.on) \in BOOLEAN
    BY Zenon
  <2>2. hb' \in [at : {"idle", "power", "solve"}, off : BOOLEAN]
    BY <1>2, <2>1 DEF HbSees, HbIdle
  <2>3. was' \in BOOLEAN
    BY <1>2 DEF HbSees, TypeOK
  <2>4. UNCHANGED <<bounds, store, job, unit, seen, ow, act, rc, excused, troubles>>
    BY <1>2 DEF HbSees
  <2> QED BY <2>2, <2>3, <2>4 DEF TypeOK
<1>3. CASE HbPower
  <2>1. unit' \in [hol : BOOLEAN, end : Times, on : BOOLEAN]
    BY <1>3, PoweredType DEF HbPower, TypeOK
  <2>2. hb' \in [at : {"idle", "power", "solve"}, off : BOOLEAN]
    BY <1>3 DEF HbPower, TypeOK
  <2>3. UNCHANGED <<bounds, store, job, seen, was, ow, act, rc, excused, troubles>>
    BY <1>3 DEF HbPower
  <2> QED BY <2>1, <2>2, <2>3 DEF TypeOK
<1>4. CASE HbSolve BY <1>4 DEF HbSolve, HbIdle, TypeOK
<1>5. CASE HbPowerFails
  <2>1. excused' \in SUBSET {"met", "off", "power"}
    BY <1>5, ExcuseType, Zenon DEF HbPowerFails
  <2>2. hb' \in [at : {"idle", "power", "solve"}, off : BOOLEAN]
    BY <1>5 DEF HbPowerFails, TypeOK
  <2>3. troubles' \in 0..MaxTroubles
    BY <1>5, TroubleType DEF HbPowerFails
  <2>4. UNCHANGED <<bounds, store, job, house, ow, act, rc>>
    BY <1>5 DEF HbPowerFails
  <2> QED BY <2>1, <2>2, <2>3, <2>4 DEF TypeOK
<1>6. CASE FirmwareEnds
  <2>1. unit' \in [hol : BOOLEAN, end : Times, on : BOOLEAN]
    <3>1. PICK on \in BOOLEAN : unit' = [unit EXCEPT !.hol = FALSE, !.on = on]
      BY <1>6 DEF FirmwareEnds
    <3>2. unit \in [hol : BOOLEAN, end : Times, on : BOOLEAN]
      BY DEF TypeOK
    <3> QED BY <3>1, <3>2, ResumedType
  <2>2. UNCHANGED <<bounds, store, job, seen, was, threads, excused, troubles>>
    BY <1>6 DEF FirmwareEnds
  <2> QED BY <2>1, <2>2 DEF TypeOK
<1> QED BY <1>1, <1>2, <1>3, <1>4, <1>5, <1>6 DEF Heartbeat

\* Every step keeps every variable in its type.
LEMMA TypeStep ==
  ASSUME TypeOK, Call, [Next]_vars
  PROVE  TypeOK'
<1> USE DEF bounds, store, house, threads
<1>1. ASSUME NEW r \in Instants, NEW to \in Presets \cup {"keep"}, OwStart(r, to)
      PROVE  TypeOK'
  <2>1. excused' \in SUBSET {"met", "off", "power"}
    <3>1. (to # "home" /\ rc # "idle") \in BOOLEAN
      BY Zenon
    <3> QED BY <1>1, <3>1, ExcuseType, Zenon DEF OwStart
  <2>2. ow' \in [at : {"idle", "return", "preset", "after", "store", "arm"}, ret : Instants,
                 to : Presets \cup {"keep"}, from : Presets, fire : Instants]
    BY <1>1 DEF OwStart, TypeOK, Instants
  <2>3. calls' \in 0..MaxCalls
    BY <1>1, BoundsAssumption DEF OwStart, TypeOK
  <2>4. UNCHANGED <<now, up, store, job, house, act, rc, hb, troubles>>
    BY <1>1 DEF OwStart
  <2> QED BY <2>1, <2>2, <2>3, <2>4 DEF TypeOK
<1>2. CASE Activation \/ ActPostFails BY <1>2, ActivationType
<1>3. CASE JobFires
  <2>1. excused' \in SUBSET {"met", "off", "power"}
    <3>1. Entering \in BOOLEAN
      BY Zenon DEF Entering
    <3> QED BY <1>3, <3>1, ExcuseType, Zenon DEF JobFires
  <2>2. job' \in Instants /\ rc' \in {"idle", "wait", "preset", "off", "read", "power", "mpc"}
    BY <1>3 DEF JobFires, TypeOK, Instants
  <2>3. UNCHANGED <<bounds, store, house, ow, act, hb, troubles>>
    BY <1>3 DEF JobFires
  <2> QED BY <2>1, <2>2, <2>3 DEF TypeOK
<1>4. CASE Recovery \/ RcOffFails \/ RcReadStale \/ RcPowerFails BY <1>4, RecoveryType
<1>5. CASE Heartbeat \/ HbPowerFails \/ FirmwareEnds BY <1>5, HeartbeatType
<1>6. CASE Crash
  <2>1. excused' \in SUBSET {"met", "off", "power"}
    <3>1. (hb.at = "power") \in BOOLEAN
      BY Zenon
    <3> QED BY <1>6, <3>1, ExcuseType, Zenon DEF Crash
  <2>2. unit' \in [hol : BOOLEAN, end : Times, on : BOOLEAN]
    BY <1>6, PostedType DEF Crash, TypeOK
  <2>3. /\ ow' \in [at : {"idle", "return", "preset", "after", "store", "arm"}, ret : Instants,
                    to : Presets \cup {"keep"}, from : Presets, fire : Instants]
        /\ act' \in [at : {"idle", "post"}, end : Times]
        /\ hb' \in [at : {"idle", "power", "solve"}, off : BOOLEAN]
        /\ rc' = "idle" /\ job' \in Instants /\ up' \in BOOLEAN
    <3>1. 0 \in Times /\ None \in Instants /\ "home" \in Presets
      BY DaysAssumption DEF Times, Instants, Presets
    <3>2. ow' = OwIdle /\ act' = ActIdle /\ hb' = HbIdle
          /\ rc' = "idle" /\ job' = None /\ up' = FALSE
      BY <1>6 DEF Crash
    <3> QED BY <3>1, <3>2 DEF OwIdle, ActIdle, HbIdle
  <2>4. troubles' \in 0..MaxTroubles
    BY <1>6, TroubleType DEF Crash
  <2>5. UNCHANGED <<now, store, seen, was, calls>>
    BY <1>6 DEF Crash
  <2> QED BY <2>1, <2>2, <2>3, <2>4, <2>5 DEF TypeOK
<1>7. CASE Boot BY <1>7 DEF Boot, Rearmed, Current, TypeOK
<1>8. CASE Tick BY <1>8, DaysAssumption DEF Tick, TypeOK, Times
<1>9. CASE UNCHANGED vars BY <1>9 DEF vars, TypeOK
<1> QED BY <1>1, <1>2, <1>3, <1>4, <1>5, <1>6, <1>7, <1>8, <1>9 DEF Next

----------------------------------------------------------------------------
(* Every step keeps the invariant *)

\* Every step keeps what the owner's call carries.
LEMMA CallStep ==
  ASSUME TypeOK, Call, [Next]_vars
  PROVE  Call'
<1> USE DEF Call, bounds, store, house, threads, OwIdle
<1>1. ASSUME NEW r \in Instants, NEW to \in Presets \cup {"keep"}, OwStart(r, to)
      PROVE  Call'
  BY <1>1, DaysAssumption DEF OwStart, TypeOK, Times, None
<1>2. CASE OwReturn BY <1>2 DEF OwReturn, TypeOK
<1>3. CASE OwPreset BY <1>3 DEF OwPreset, TypeOK
<1>4. CASE OwAfter
  <2>1. CASE Begins /\ ret > now
    BY <1>4, <2>1, FireType DEF OwAfter, TypeOK, Begins, Presets
  <2>2. CASE ~(Begins /\ ret > now)
    BY <1>4, <2>2 DEF OwAfter
  <2> QED BY <2>1, <2>2
<1>5. CASE OwStore BY <1>5 DEF OwStore, TypeOK
<1>6. CASE OwArm BY <1>6 DEF OwArm
<1>7. CASE Crash BY <1>7 DEF Crash
<1>8. CASE RcPreset BY <1>8 DEF RcPreset
<1>9. CASE UNCHANGED <<ow, preset>>
  BY <1>9
<1>10. CASE ActPost \/ ActPostFails \/ JobFires
  BY <1>9, <1>10 DEF ActPost, ActPostFails, JobFires
<1>11. CASE \/ RcStart \/ RcOff \/ RcRead \/ RcPower \/ RcClear
            \/ RcOffFails \/ RcReadStale \/ RcPowerFails
  BY <1>9, <1>11 DEF RcStart, RcOff, RcRead, RcPower, RcClear, RcOffFails,
     RcReadStale, RcPowerFails
<1>12. CASE Heartbeat \/ HbPowerFails \/ FirmwareEnds \/ Boot \/ Tick \/ UNCHANGED vars
  BY <1>9, <1>12 DEF Heartbeat, Refresh, HbSees, HbPower, HbSolve, HbPowerFails,
     FirmwareEnds, Boot, Tick, vars
<1> QED
  BY <1>1, <1>2, <1>3, <1>4, <1>5, <1>6, <1>7, <1>8, <1>10, <1>11, <1>12
  DEF Next, Activation, Recovery

\* Every step keeps the job of the stored recovery.
LEMMA JobStep ==
  ASSUME TypeOK, Call, JobCovers, [Next]_vars
  PROVE  JobCovers'
<1> USE DEF JobCovers, bounds, store, house, threads, OwIdle
<1>1. ASSUME NEW r \in Instants, NEW to \in Presets \cup {"keep"}, OwStart(r, to)
      PROVE  JobCovers'
  BY <1>1 DEF OwStart
<1>2. CASE OwReturn \/ OwPreset \/ OwAfter
  BY <1>2 DEF OwReturn, OwPreset, OwAfter, TypeOK
<1>3. CASE OwStore BY <1>3 DEF OwStore, TypeOK
<1>4. CASE OwArm BY <1>4 DEF OwArm, Call, Times, None
<1>5. CASE ActPost \/ ActPostFails \/ JobFires
  BY <1>5 DEF ActPost, ActPostFails, JobFires
<1>6. CASE RcStart BY <1>6, RcNextType DEF RcStart, RcStored
<1>7. CASE RcClear BY <1>7 DEF RcClear
<1>8. CASE RcPreset \/ RcOff \/ RcRead \/ RcPower \/ RcOffFails \/ RcReadStale \/ RcPowerFails
  BY <1>8, RcNextType DEF RcPreset, RcOff, RcRead, RcPower, RcOffFails, RcReadStale,
     RcPowerFails
<1>9. CASE Crash \/ Boot BY <1>9 DEF Crash, Boot, Rearmed
<1>10. CASE Heartbeat \/ HbPowerFails \/ FirmwareEnds \/ Tick \/ UNCHANGED vars
  BY <1>10 DEF Heartbeat, Refresh, HbSees, HbPower, HbSolve, HbPowerFails,
     FirmwareEnds, Tick, vars
<1> QED
  BY <1>1, <1>2, <1>3, <1>4, <1>5, <1>6, <1>7, <1>8, <1>9, <1>10
  DEF Next, Activation, Recovery

\* What went wrong stays.
LEMMA ExcusesStay ==
  ASSUME [Next]_vars
  PROVE  excused \subseteq excused'
<1> USE DEF Excuse
<1>1. CASE Activation \/ ActPostFails
  BY <1>1 DEF Activation, OwReturn, OwPreset, OwAfter, OwStore, OwArm, ActPost, ActPostFails
<1>2. CASE Recovery \/ RcOffFails \/ RcReadStale \/ RcPowerFails
  BY <1>2 DEF Recovery, RcStart, RcPreset, RcOff, RcRead, RcPower, RcClear,
     RcOffFails, RcReadStale, RcPowerFails
<1>3. CASE Heartbeat \/ HbPowerFails \/ FirmwareEnds
  BY <1>3 DEF Heartbeat, Refresh, HbSees, HbPower, HbSolve, HbPowerFails, FirmwareEnds
<1>4. CASE (\E r \in Instants, to \in Presets \cup {"keep"} : OwStart(r, to)) \/ JobFires
  BY <1>4 DEF OwStart, JobFires
<1>5. CASE Crash \/ Boot \/ Tick \/ UNCHANGED vars
  BY <1>5 DEF Crash, Boot, Tick, vars
<1> QED BY <1>1, <1>2, <1>3, <1>4, <1>5 DEF Next

\* Every step keeps recovery and entry apart, until they meet.
LEMMA AloneStep ==
  ASSUME TypeOK, Call, Alone, [Next]_vars
  PROVE  Alone'
<1> SUFFICES ASSUME "met" \notin excused'
             PROVE  /\ rc' # "idle" => ~Entering'
                    /\ rc' \in {"off", "read", "power", "mpc"} => preset' = "home"
  BY DEF Alone
<1>a. /\ rc # "idle" => ~Entering
      /\ rc \in {"off", "read", "power", "mpc"} => preset = "home"
  BY ExcusesStay DEF Alone
<1> USE DEF Entering, bounds, store, house, threads, OwIdle
<1>1. ASSUME NEW r \in Instants, NEW to \in Presets \cup {"keep"}, OwStart(r, to)
      PROVE  Alone'
  BY <1>1, <1>a DEF OwStart, Excuse, Alone
<1>2. CASE OwReturn \/ OwPreset
  BY <1>2, <1>a DEF OwReturn, OwPreset, TypeOK
<1>3. CASE OwAfter
  BY <1>3, <1>a DEF OwAfter, Begins, Cancels, Call, TypeOK
<1>4. CASE OwStore \/ OwArm \/ ActPost \/ ActPostFails
  BY <1>4, <1>a DEF OwStore, OwArm, ActPost, ActPostFails, TypeOK
<1>5. CASE JobFires
  BY <1>5, <1>a DEF JobFires, Excuse
<1>6. CASE RcStart \/ RcPreset \/ RcClear
  BY <1>6, <1>a, RcNextType DEF RcStart, RcPreset, RcClear
<1>7. CASE RcOff \/ RcRead \/ RcPower \/ RcOffFails \/ RcReadStale \/ RcPowerFails
  BY <1>7, <1>a, RcNextType DEF RcOff, RcRead, RcPower, RcOffFails, RcReadStale, RcPowerFails
<1>8. CASE Crash
  BY <1>8 DEF Crash
<1>9. CASE Heartbeat \/ HbPowerFails \/ FirmwareEnds \/ Boot \/ Tick \/ UNCHANGED vars
  BY <1>9, <1>a DEF Heartbeat, Refresh, HbSees, HbPower, HbSolve, HbPowerFails,
     FirmwareEnds, Boot, Tick, vars
<1> QED
  BY <1>1, <1>2, <1>3, <1>4, <1>5, <1>6, <1>7, <1>8, <1>9
  DEF Next, Activation, Recovery, Alone

\* As long as nothing has gone wrong, every step keeps the holiday tied to the stored
\* recovery.
LEMMA LinkedStep ==
  ASSUME TypeOK, Call, Alone, Alone', Linked, Clean, Clean', [Next]_vars
  PROVE  Linked'
<1>a. /\ rc # "idle" => ~Entering
      /\ rc' # "idle" => ~Entering'
  BY DEF Alone, Clean
<1> USE <1>a DEF Linked, Entering, bounds, store, house, threads, OwIdle, ActIdle
<1>1. ASSUME NEW r \in Instants, NEW to \in Presets \cup {"keep"}, OwStart(r, to)
      PROVE  Linked'
  BY <1>1 DEF OwStart, Clean, Excuse
<1>2. CASE OwReturn \/ OwPreset
  BY <1>2 DEF OwReturn, OwPreset, TypeOK
<1>3. CASE OwAfter
  <2>1. CASE Begins /\ ret > now
    BY <1>3, <2>1 DEF OwAfter, TypeOK, Begins, Cancels, Call
  <2>2. CASE ~(Begins /\ ret > now)
    BY <1>3, <2>2 DEF OwAfter, TypeOK
  <2> QED BY <2>1, <2>2
<1>4. CASE OwStore BY <1>4 DEF OwStore, TypeOK, Call, Times, None
<1>5. CASE OwArm BY <1>5 DEF OwArm, TypeOK, Call
<1>6. CASE ActPost \/ ActPostFails
  BY <1>6 DEF ActPost, ActPostFails, Posted, TypeOK
<1>7. CASE JobFires
  BY <1>7 DEF JobFires, Clean, Excuse
<1>8. CASE RcStart BY <1>8, RcNextType DEF RcStart, RcStored, Released
<1>9. CASE RcPreset \/ RcRead \/ RcReadStale
  BY <1>9, RcNextType DEF RcPreset, RcRead, RcReadStale
<1>10. CASE RcOff BY <1>10, RcNextType DEF RcOff, TypeOK
<1>11. CASE RcOffFails
  BY <1>11 DEF RcOffFails, Clean, Excuse
<1>12. CASE RcPower \/ RcPowerFails
  BY <1>12, RcNextType DEF RcPower, RcPowerFails, PoweredOn, TypeOK
<1>13. CASE RcClear BY <1>13 DEF RcClear, Call
<1>14. CASE Refresh \/ HbSees \/ HbSolve \/ HbPowerFails
  BY <1>14 DEF Refresh, HbSees, HbSolve, HbPowerFails
<1>15. CASE HbPower
  BY <1>15 DEF HbPower, PoweredOn, TypeOK
<1>16. CASE FirmwareEnds
  BY <1>16 DEF FirmwareEnds, TypeOK
<1>17. CASE Crash
  BY <1>17 DEF Crash, Posted
<1>18. CASE Boot \/ Tick \/ UNCHANGED vars
  BY <1>18 DEF Boot, Tick, vars
<1> QED
  BY <1>1, <1>2, <1>3, <1>4, <1>5, <1>6, <1>7, <1>8, <1>9, <1>10, <1>11, <1>12, <1>13,
     <1>14, <1>15, <1>16, <1>17, <1>18
  DEF Next, Activation, Recovery, Heartbeat

\* The invariant is inductive, with the types.
LEMMA InvStep ==
  ASSUME TypeOK, IInv, [Next]_vars
  PROVE  TypeOK' /\ IInv'
<1>1. TypeOK' /\ Call' /\ JobCovers' /\ Alone'
  BY TypeStep, CallStep, JobStep, AloneStep DEF IInv
<1>2. Clean' => Linked'
  <2>1. Clean' => Clean
    BY ExcusesStay DEF Clean
  <2> QED BY <1>1, <2>1, LinkedStep DEF IInv
<1> QED BY <1>1, <1>2 DEF IInv

----------------------------------------------------------------------------
(* The theorems *)

\* The types and the invariant hold in every state.
LEMMA Invariant == Spec => [](TypeOK /\ IInv)
<1>1. TypeOK /\ IInv /\ [Next]_vars => (TypeOK /\ IInv)'
  BY InvStep
<1> QED BY <1>1, InvInit, PTL DEF Spec

\* Type correctness: in particular the date sent to the firmware is a midnight the
\* clock reaches (vacation.py, holiday_dates).
THEOREM TypeCorrect == Spec => []TypeOK
BY Invariant, PTL

\* A stored recovery has its job, whatever was interrupted (begin_activation,
\* rearm_from_kv).
THEOREM Covered == Spec => []JobCovers
<1>1. IInv => JobCovers
  BY DEF IInv
<1> QED BY <1>1, Invariant, PTL

\* Nobody is left behind in holiday mode (run_recovery, _activation_lock).
THEOREM Release == Spec => []HolidayReleased
<1>1. IInv => HolidayReleased
  BY DEF IInv, Clean, Linked, HolidayReleased
<1> QED BY <1>1, Invariant, PTL

\* Only the recovery and the firmware take the unit out of its holiday.
LEMMA EndsStep ==
  ASSUME TypeOK, Call, Alone, [Next]_vars, unit.hol, ~unit'.hol, now < unit.end,
         "met" \notin excused
  PROVE  preset = "home"
<1> USE DEF bounds, store, house, threads
<1>1. CASE RcOff \/ RcOffFails
  BY <1>1 DEF RcOff, RcOffFails, Alone
<1>2. CASE FirmwareEnds
  BY <1>2, DaysAssumption DEF FirmwareEnds, TypeOK, Times
<1>3. CASE Activation \/ ActPostFails
  BY <1>3 DEF Activation, OwReturn, OwPreset, OwAfter, OwStore, OwArm, ActPost,
     ActPostFails, Posted
<1>4. CASE RcStart \/ RcPreset \/ RcRead \/ RcClear \/ RcReadStale \/ RcPowerFails
  BY <1>4 DEF RcStart, RcPreset, RcRead, RcClear, RcReadStale, RcPowerFails
<1>5. CASE RcPower \/ HbPower
  BY <1>5 DEF RcPower, HbPower, PoweredOn, TypeOK
<1>6. CASE Refresh \/ HbSees \/ HbSolve \/ HbPowerFails \/ JobFires
  BY <1>6 DEF Refresh, HbSees, HbSolve, HbPowerFails, JobFires
<1>7. ASSUME NEW r \in Instants, NEW to \in Presets \cup {"keep"}, OwStart(r, to)
      PROVE  preset = "home"
  BY <1>7 DEF OwStart
<1>8. CASE Crash \/ Boot \/ Tick \/ UNCHANGED vars
  BY <1>8 DEF Crash, Posted, Boot, Tick, vars
<1> QED BY <1>1, <1>2, <1>3, <1>4, <1>5, <1>6, <1>7, <1>8 DEF Next, Recovery, Heartbeat

\* Before its date a holiday is ended only with people at home already (step 1 of
\* _run_recovery_locked), so that the heartbeat's solve plans for them.
THEOREM EndsHome == Spec => EndsAtHome
<1>1. TypeOK /\ IInv /\ [Next]_vars
        => (unit.hol /\ ~unit'.hol /\ now < unit.end /\ "met" \notin excused
               => preset = "home")
  BY EndsStep DEF IInv
<1> QED BY <1>1, Invariant, PTL DEF Spec, EndsAtHome
=============================================================================
