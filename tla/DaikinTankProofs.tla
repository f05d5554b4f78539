--------------------------- MODULE DaikinTankProofs ---------------------------
(***************************************************************************)
(* What TLAPS proves of DaikinTank, for any rows, windows, lengths, lag no *)
(* longer than the grace, back-off table and bounds: its types, that the   *)
(* hand-back of a boost is attempted no more often than the table has      *)
(* entries, that nothing but the exceptions BoostRespected names lowers    *)
(* the tank under a boost, and that a row is flagged as overridden only    *)
(* for a cause.                                                            *)
(*                                                                         *)
(* The invariant grows section by section. IInv: the types, with Budgeted  *)
(* (an attempt is counted before it is made). SInv: who has the lock, what *)
(* the cache and the cloud show of a boost that stands (Standing). OInv:   *)
(* what they show of a row nobody has written over (Owned). JInv: what the *)
(* device object of the tick, older than either, shows of both (Judged).   *)
(***************************************************************************)
EXTENDS DaikinTank, WellFoundedInduction, TLAPS

----------------------------------------------------------------------------
(* States of the tank, and what is written to it *)

\* A setting whose target or Powerful is replaced is a setting.
LEMMA StateEdit ==
  ASSUME NEW s \in State, NEW t \in Temps, NEW p \in BOOLEAN
  PROVE  /\ [s EXCEPT !.target = t] \in State
         /\ [s EXCEPT !.powerful = p] \in State
BY DEF State

\* The normal setting is a setting.
LEMMA NoDeviceType == NoDevice \in State
BY DEF NoDevice, State, Temps, Normal, Setback, Boost

\* What a row commands can be written.
LEMMA RowWantType ==
  ASSUME NEW r \in Rows
  PROVE  RowWant(r) \in Wants
BY RowsAssumption DEF RowWant, Wants

\* A write of w through device object dev leaves a setting (apply_scheduled_daikin_params).
LEMMA WithType ==
  ASSUME NEW s \in State, NEW dev \in State, NEW w \in Wants
  PROVE  WithTemp(s, dev, w) \in State /\ WithBoth(s, dev, w) \in State
<1>1. w.temp \in Temps /\ w.powerful \in BOOLEAN
  BY DEF Wants
<1>2. WithTemp(s, dev, w) \in State
  BY <1>1, StateEdit DEF WithTemp
<1>3. [WithTemp(s, dev, w) EXCEPT !.powerful = w.powerful] \in State
  BY <1>1, <1>2, StateEdit
<1> QED BY <1>2, <1>3 DEF WithBoth

\* A write that succeeds, and one that fails, leave a setting on the tank and on the
\* device object.
LEMMA WritesType ==
  ASSUME TypeOK, NEW dev \in State, NEW w \in Wants,
         NEW x \in {WriteOk(dev, w)} \cup WriteFailures(dev, w)
  PROVE  x.tank \in State /\ x.dev \in State
<1>1. /\ tank \in State /\ WithTemp(tank, dev, w) \in State /\ WithBoth(tank, dev, w) \in State
      /\ WithTemp(dev, dev, w) \in State /\ WithBoth(dev, dev, w) \in State
  BY WithType DEF TypeOK
<1> QED BY <1>1 DEF WriteOk, WriteFailures

\* What the tank shows and what the cloud may still show are settings.
LEMMA ShownType ==
  ASSUME TypeOK, NEW s \in State, Shown(s)
  PROVE  tank' \in State /\ echo' \in State /\ lagged' \in 0..Lag /\ held' \in BOOLEAN
<1>1. held' \in BOOLEAN
  BY Zenon DEF Shown
<1>2. tank' \in State /\ echo' \in State /\ lagged' \in 0..Lag
  BY ClockAssumption DEF TypeOK, Shown
<1> QED BY <1>1, <1>2

\* The same, with the rows written over.
LEMMA SetTankType ==
  ASSUME TypeOK, NEW s \in State, NEW r, SetTank(s, r)
  PROVE  /\ tank' \in State /\ echo' \in State /\ lagged' \in 0..Lag /\ held' \in BOOLEAN
         /\ foreign' \subseteq Rows
BY ShownType DEF TypeOK, SetTank, Overwritten

\* A cache takes a device object over.
LEMMA CacheEdit ==
  ASSUME NEW c \in Caches, NEW dev \in State
  PROVE  [c EXCEPT !.dev = dev] \in Caches
BY DEF Caches

\* So does a tick.
LEMMA TickEdit ==
  ASSUME NEW h \in Ticks, NEW dev \in State
  PROVE  [h EXCEPT !.dev = dev] \in Ticks
BY DEF Ticks

\* The idle heartbeat, request and hand-back.
LEMMA IdleTypes ==
  /\ HbIdle \in Ticks
  /\ ApiIdle \in [pc: {"idle", "temp", "powerful"}, baseline: Temps]
  /\ EbIdle \in HandBacks
<1>1. Normal \in Temps /\ 1 \in 1..(NumRows + 1)
  BY RowsAssumption DEF Normal, Temps, Setback, Boost
<1>2. Nothing \in Wants
  BY <1>1 DEF Nothing, Wants
<1> QED BY <1>1, <1>2, NoDeviceType DEF HbIdle, ApiIdle, EbIdle, Ticks, HandBacks

\* The heartbeat goes on.
LEMMA HbGoesType ==
  ASSUME TypeOK, NEW h \in Ticks, NEW dev \in State, HbGoes(h, dev)
  PROVE  hb' \in Ticks /\ cache' \in Caches
BY TickEdit, CacheEdit DEF TypeOK, HbGoes

\* A tick ends.
LEMMA TickEndsType ==
  ASSUME TypeOK, NEW dev \in State, TickEnds(dev)
  PROVE  hb' \in Ticks /\ cache' \in Caches
BY IdleTypes, CacheEdit DEF TypeOK, TickEnds

\* The cache is told what was written.
LEMMA CacheShowsType ==
  ASSUME TypeOK, NEW dev \in State, CacheShows(dev)
  PROVE  hb' \in Ticks /\ cache' \in Caches
BY TickEdit, CacheEdit DEF TypeOK, CacheShows

\* A hand-back ends.
LEMMA EbLeavesType ==
  ASSUME TypeOK, NEW dev \in State, EbLeavesWith(dev)
  PROVE  hb' \in Ticks /\ cache' \in Caches /\ eb' = EbIdle /\ eb' \in HandBacks
BY TickEdit, CacheEdit, IdleTypes DEF TypeOK, EbLeavesWith

\* A trouble stays within its bound.
LEMMA TroubleType ==
  ASSUME TypeOK, Trouble
  PROVE  budget' \in [boosts: 0..MaxBoosts, troubles: 0..MaxTroubles]
BY BoundsAssumption DEF TypeOK, Trouble

\* The process forgets.
LEMMA MemoryLostType ==
  ASSUME MemoryLost
  PROVE  /\ hb' \in Ticks /\ eb' \in HandBacks /\ cache' \in Caches
         /\ api' \in [pc: {"idle", "temp", "powerful"}, baseline: Temps]
         /\ firstApplied' \in [Rows -> Times \cup {Never}]
         /\ eb'.pc = "idle"
BY IdleTypes, NoDeviceType DEF MemoryLost, Caches, EbIdle

----------------------------------------------------------------------------
(* The boost *)

\* What the plan commands, and what the hand-back sends of it, can be written.
LEMMA HandBackType == ScheduledWant \in Wants /\ HandBackWant \in Wants
<1>1. Normal \in Temps
  BY DEF Normal, Temps, Setback, Boost
<1>2. Nothing \in Wants
  BY <1>1 DEF Nothing, Wants
<1>3. ScheduledWant \in Wants
  BY <1>1, RowWantType DEF ScheduledWant, Wants
<1>4. [Nothing EXCEPT !.keys = {"powerful"}] \in Wants
  BY <1>2 DEF Wants
<1>5. [ScheduledWant EXCEPT !.keys = {"temp"}] \in Wants
  BY <1>3 DEF Wants
<1> QED BY <1>2, <1>3, <1>4, <1>5 DEF HandBackWant

\* A boost that is released, or closed, keeps its attempts; one more is counted while
\* the table has entries left.
LEMMA BoostEdit ==
  ASSUME NEW b \in Boosts, NEW t \in Times
  PROVE  /\ Released(b, t) \in Boosts /\ Released(b, t).tries = b.tries
         /\ ~Released(b, t).flagged /\ Released(b, t).status = b.status
         /\ b.flagged \/ b.released # Never => Released(b, t).released # Never
         /\ Finish(b, t) \in Boosts /\ Finish(b, t).tries = b.tries
         /\ ~Finish(b, t).flagged /\ Finish(b, t).status = "completed"
<1>1. t \in Nat /\ t # Never
  BY ClockAssumption DEF Times, Never
<1>2. Finish(b, t) \in Boosts /\ Finish(b, t).tries = b.tries /\ ~Finish(b, t).flagged
      /\ Finish(b, t).status = "completed"
  BY <1>1 DEF Boosts, Finish
<1>3. CASE b.flagged
  <2>1. Released(b, t) = [b EXCEPT !.flagged = FALSE, !.end = t, !.released = t]
    BY <1>3 DEF Released, Boosts
  <2>2. [b EXCEPT !.flagged = FALSE, !.end = t, !.released = t] \in Boosts
    BY <1>1 DEF Boosts
  <2>3. /\ Released(b, t).tries = b.tries /\ ~Released(b, t).flagged
        /\ Released(b, t).status = b.status /\ Released(b, t).released = t
    BY <2>1 DEF Boosts
  <2> QED BY <1>1, <1>2, <2>1, <2>2, <2>3
<1>4. CASE ~b.flagged
  <2>1. Released(b, t) = [b EXCEPT !.flagged = FALSE, !.end = b.end, !.released = b.released]
    BY <1>4 DEF Released, Boosts
  <2>2. [b EXCEPT !.flagged = FALSE, !.end = b.end, !.released = b.released] \in Boosts
    BY DEF Boosts
  <2>3. /\ Released(b, t).tries = b.tries /\ ~Released(b, t).flagged
        /\ Released(b, t).status = b.status /\ Released(b, t).released = b.released
    BY <2>1 DEF Boosts
  <2> QED BY <1>2, <1>4, <2>1, <2>2, <2>3
<1> QED BY <1>3, <1>4

\* One more attempt is counted.
LEMMA CountedType ==
  ASSUME TypeOK, boost.tries < Len(Backoff), boost' = Counted(boost)
  PROVE  /\ boost' \in Boosts /\ boost'.tries = boost.tries + 1
         /\ boost'.flagged = boost.flagged /\ boost'.status = boost.status
         /\ boost'.released = boost.released
<1>1. Len(Backoff) \in Nat
  BY ClockAssumption
<1>2. boost.tries + 1 \in 0..Len(Backoff)
  BY <1>1 DEF TypeOK, Boosts
<1>3. boost \in Boosts /\ now \in Times
  BY DEF TypeOK
<1>4. Counted(boost) = [boost EXCEPT !.tries = boost.tries + 1, !.last = now]
  BY <1>3 DEF Counted, Boosts
<1> QED BY <1>2, <1>3, <1>4 DEF Boosts

\* Attempts are counted before they are made, and none begins once the table is used up;
\* a boost that still holds has not tried any, one that does not was released.
Budgeted ==
  /\ boost.flagged => boost.tries = 0
  /\ eb.pc # "idle" => ~boost.flagged
  /\ eb.pc = "decide" => boost.tries < Len(Backoff)
  /\ attempts <= boost.tries
  /\ eb.pc = "write" => attempts < boost.tries
  /\ boost.status = "active" /\ ~boost.flagged => boost.released # Never

IInv == TypeOK /\ Budgeted

\* The boot satisfies it.
LEMMA InvInit == Init => IInv
<1> SUFFICES ASSUME Init PROVE IInv
  OBVIOUS
<1> USE DEF Init
<1>1. 0 \in Times /\ 0 \in 0..Lag /\ Len(Backoff) \in Nat /\ Len(Backoff) > 0
  BY ClockAssumption DEF Times
<1>2. boost \in Boosts
  BY <1>1 DEF Boosts
<1>3. budget \in [boosts: 0..MaxBoosts, troubles: 0..MaxTroubles]
  BY BoundsAssumption
<1>4. cache \in Caches
  BY NoDeviceType DEF Caches
<1>5. rows \in [Rows -> [status: Statuses, over: Times \cup {Never}]]
  BY DEF Statuses
<1>6. TypeOK
  BY <1>1, <1>2, <1>3, <1>4, <1>5, NoDeviceType, IdleTypes DEF TypeOK
<1>7. Budgeted
  BY <1>1 DEF Budgeted, EbIdle
<1> QED BY <1>6, <1>7 DEF IInv

----------------------------------------------------------------------------
(* Every step keeps the invariant *)

\* A row's status changes, and it may be flagged.
LEMMA RowEdit ==
  ASSUME TypeOK, NEW r \in Rows, NEW st \in Statuses
  PROVE  /\ [rows EXCEPT ![r].status = st] \in [Rows -> [status: Statuses, over: Times \cup {Never}]]
         /\ [rows EXCEPT ![r] = [status |-> st, over |-> now]]
              \in [Rows -> [status: Statuses, over: Times \cup {Never}]]
BY DEF TypeOK

\* The tick goes to the next row.
LEMMA NextRowType ==
  ASSUME TypeOK, NEW r \in Rows, Visiting(r)
  PROVE  NextRow \in Ticks
<1>1. hb \in Ticks /\ hb.row + 1 \in 1..(NumRows + 1)
  BY RowsAssumption DEF TypeOK, Visiting, Rows
<1>2. NextRow = [hb EXCEPT !.row = hb.row + 1]
  BY <1>1 DEF NextRow, Ticks
<1> QED BY <1>1, <1>2 DEF Ticks

\* A tick plays a row.
LEMMA RowStepInv ==
  ASSUME IInv, RowStep
  PROVE  IInv'
<1>1. PICK r \in Rows : \/ RowUntouched(r) \/ RowEnds(r) \/ RowMatched(r) \/ RowHeld(r)
                        \/ RowFlagged(r) \/ RowApplied(r) \/ RowFails(r)
  BY DEF RowStep
<1>2. Visiting(r)
  BY <1>1 DEF RowUntouched, RowEnds, RowMatched, RowHeld, RowFlagged, RowApplied, RowFails,
     Unmatched, Fires, Plays
<1>3. NextRow \in Ticks /\ TypeOK /\ {"active", "completed", "failed"} \subseteq Statuses
  BY <1>2, NextRowType DEF IInv, Statuses
<1>4. hb.dev \in State /\ RowWant(r) \in Wants
  BY <1>3, RowWantType DEF TypeOK, Ticks
<1>5. UNCHANGED <<now, boost, api, eb, attempts>>
  BY <1>1 DEF RowUntouched, RowEnds, RowMatched, RowHeld, RowFlagged, RowApplied, RowFails
<1>6. Budgeted'
  BY <1>5 DEF IInv, Budgeted
<1>7. CASE RowUntouched(r) \/ RowEnds(r) \/ RowMatched(r) \/ RowHeld(r) \/ RowFlagged(r)
  <2>1. rows' \in [Rows -> [status: Statuses, over: Times \cup {Never}]] /\ hb' \in Ticks
    BY <1>7, <1>3, RowEdit
       DEF TypeOK, RowUntouched, RowEnds, RowMatched, RowHeld, RowFlagged
  <2>2. UNCHANGED <<tank, echo, lagged, cache, firstApplied, budget, foreign, held>>
    BY <1>7 DEF RowUntouched, RowEnds, RowMatched, RowHeld, RowFlagged
  <2> QED BY <1>3, <1>5, <1>6, <2>1, <2>2 DEF IInv, TypeOK
<1>8. CASE RowApplied(r)
  <2> DEFINE w == WriteOk(hb.dev, RowWant(r))
  <2>1. w.tank \in State /\ w.dev \in State
    BY <1>3, <1>4, WritesType
  <2>2. HbGoes(NextRow, w.dev) /\ Shown(w.tank)
    BY <1>8 DEF RowApplied
  <2>3. hb' \in Ticks /\ cache' \in Caches
    BY <1>3, <2>1, <2>2, HbGoesType
  <2>4. tank' \in State /\ echo' \in State /\ lagged' \in 0..Lag /\ held' \in BOOLEAN
    BY <1>3, <2>1, <2>2, ShownType
  <2>5. foreign' \subseteq Rows
    BY <1>8, <1>3 DEF RowApplied, Overwritten, TypeOK
  <2>6. rows' \in [Rows -> [status: Statuses, over: Times \cup {Never}]]
        /\ firstApplied' \in [Rows -> Times \cup {Never}] /\ UNCHANGED budget
    BY <1>8, <1>3, RowEdit DEF RowApplied, TypeOK
  <2> QED BY <1>3, <1>5, <1>6, <2>3, <2>4, <2>5, <2>6 DEF IInv, TypeOK
<1>9. CASE RowFails(r)
  <2>1. PICK w \in WriteFailures(hb.dev, RowWant(r)) :
          /\ SetTank(w.tank, r)
          /\ \/ rows' = [rows EXCEPT ![r].status = "failed"] /\ HbGoes(NextRow, w.dev)
             \/ rows' = [rows EXCEPT ![r].status = "active"] /\ TickEnds(w.dev)
    BY <1>9 DEF RowFails
  <2>2. w.tank \in State /\ w.dev \in State
    BY <1>3, <1>4, <2>1, WritesType
  <2>3. hb' \in Ticks /\ cache' \in Caches
    BY <1>3, <2>1, <2>2, HbGoesType, TickEndsType
  <2>4. tank' \in State /\ echo' \in State /\ lagged' \in 0..Lag /\ held' \in BOOLEAN
      /\ foreign' \subseteq Rows
    BY <1>3, <2>1, <2>2, SetTankType
  <2>5. rows' \in [Rows -> [status: Statuses, over: Times \cup {Never}]]
    <3>1. "failed" \in Statuses /\ "active" \in Statuses
      BY DEF Statuses
    <3>2. /\ [rows EXCEPT ![r].status = "failed"] \in [Rows -> [status: Statuses, over: Times \cup {Never}]]
          /\ [rows EXCEPT ![r].status = "active"] \in [Rows -> [status: Statuses, over: Times \cup {Never}]]
      BY <1>3, <3>1, RowEdit
    <3> QED BY <2>1, <3>2
  <2>6. budget' \in [boosts: 0..MaxBoosts, troubles: 0..MaxTroubles] /\ UNCHANGED firstApplied
    BY <1>3, <1>9, TroubleType DEF RowFails
  <2> QED BY <1>3, <1>5, <1>6, <2>3, <2>4, <2>5, <2>6 DEF IInv, TypeOK
<1> QED BY <1>1, <1>7, <1>8, <1>9

\* The cloud, the owner and the clock.
LEMMA WorldInv ==
  ASSUME IInv, Refresh \/ ClockTick \/ OwnerHand
  PROVE  IInv'
<1>1. CASE Refresh
  <2>1. cache' \in Caches
    BY <1>1 DEF Refresh, IInv, TypeOK, Caches
  <2>2. hb' \in Ticks /\ eb' \in HandBacks /\ eb'.pc = eb.pc
    BY <1>1 DEF Refresh, IInv, TypeOK, Ticks, HandBacks
  <2>3. UNCHANGED <<now, tank, echo, lagged, rows, firstApplied, boost, api,
                    budget, foreign, held, attempts>>
    BY <1>1 DEF Refresh
  <2> QED BY <2>1, <2>2, <2>3 DEF IInv, TypeOK, Budgeted
<1>2. CASE ClockTick
  <2>1. now' \in Times /\ lagged' \in 0..Lag /\ echo' \in State
    BY <1>2, ClockAssumption DEF ClockTick, IInv, TypeOK, Times
  <2>2. UNCHANGED <<tank, cache, rows, firstApplied, boost, hb, api, eb,
                    budget, foreign, held, attempts>>
    BY <1>2 DEF ClockTick
  <2> QED BY <2>1, <2>2 DEF IInv, TypeOK, Budgeted
<1>3. CASE OwnerHand
  <2>1. PICK t \in Hands : OwnerSets(t)
    BY <1>3 DEF OwnerHand
  <2>2. [tank EXCEPT !.target = t] \in State
    BY StateEdit, BoundsAssumption DEF IInv, TypeOK
  <2>3. tank' \in State /\ echo' \in State /\ lagged' \in 0..Lag /\ held' \in BOOLEAN
      /\ foreign' \subseteq Rows
    BY <2>1, <2>2, SetTankType DEF OwnerSets, IInv
  <2>4. budget' \in [boosts: 0..MaxBoosts, troubles: 0..MaxTroubles]
    BY <2>1, TroubleType DEF OwnerSets, IInv
  <2>5. UNCHANGED <<now, cache, rows, firstApplied, boost, hb, api, eb, attempts>>
    BY <2>1 DEF OwnerSets
  <2> QED BY <2>3, <2>4, <2>5 DEF IInv, TypeOK, Budgeted
<1> QED BY <1>1, <1>2, <1>3

\* The start of a tick, and its tail.
LEMMA TickInv ==
  ASSUME IInv, TickStart \/ TickLock \/ TailStep
  PROVE  IInv'
<1>a. now \in Times /\ boost \in Boosts /\ HbIdle \in Ticks /\ Len(Backoff) \in Nat
  BY IdleTypes, ClockAssumption DEF IInv, TypeOK
<1>1. CASE TickStart \/ TickLock
  <2>1. hb' \in Ticks
    <3>1. hb \in Ticks /\ cache.dev \in State /\ cache.at \in Times \cup {Never}
          /\ 1 \in 1..(NumRows + 1)
      BY RowsAssumption DEF IInv, TypeOK, Caches
    <3>2. CASE TickStart
      <4>1. hb' = [pc |-> "ready", row |-> 1, dev |-> cache.dev, at |-> cache.at, alias |-> TRUE]
        BY <3>2 DEF TickStart
      <4> QED BY <3>1, <4>1 DEF Ticks
    <3>3. CASE TickLock
      BY <3>1, <3>3 DEF TickLock, Ticks
    <3> QED BY <1>1, <3>2, <3>3
  <2>2. UNCHANGED <<now, tank, echo, lagged, cache, rows, firstApplied, boost, api, eb,
                    budget, foreign, held, attempts>>
    BY <1>1 DEF TickStart, TickLock
  <2> QED BY <2>1, <2>2 DEF IInv, TypeOK, Budgeted
<1>2. CASE TailIdle
  BY <1>2, <1>a DEF TailIdle, TailDone, IInv, TypeOK, Budgeted
<1>3. CASE TailCloses
  <2>1. boost.released \in Times
    BY <1>3, <1>a DEF TailCloses, ActiveBoost, IInv, Budgeted, Boosts
  <2>2. boost' \in Boosts /\ boost'.tries = boost.tries /\ ~boost'.flagged
        /\ boost'.status = "completed"
    BY <1>3, <1>a, <2>1, BoostEdit DEF TailCloses
  <2> QED BY <1>3, <1>a, <2>2 DEF TailCloses, TailDone, IInv, TypeOK, Budgeted
<1>4. CASE TailExpires
  <2>1. boost' \in Boosts /\ boost'.tries = boost.tries /\ ~boost'.flagged
        /\ (boost'.status = "active" => boost'.released # Never)
    BY <1>4, <1>a, BoostEdit DEF TailExpires, Expire, ActiveBoost, IInv, Budgeted
  <2>2. boost.tries < Len(Backoff)
    BY <1>4, <1>a, ClockAssumption DEF TailExpires, Abandoned, Spent, IInv, Budgeted, Boosts
  <2>3. eb' \in HandBacks /\ eb'.pc = "decide"
    BY <1>4, IdleTypes DEF TailExpires, EbBegins, EbIdle, HandBacks, IInv, TypeOK, Ticks
  <2>4. UNCHANGED <<now, tank, echo, lagged, cache, rows, firstApplied, hb, api,
                    budget, foreign, held, attempts>>
    BY <1>4 DEF TailExpires
  <2> QED BY <2>1, <2>2, <2>3, <2>4 DEF IInv, TypeOK, Budgeted
<1> QED BY <1>1, <1>2, <1>3, <1>4 DEF TailStep

\* The hand-back, however it begins.
LEMMA HandBackInv ==
  ASSUME IInv, EbStep \/ Undo
  PROVE  IInv'
<1>a. now \in Times /\ boost \in Boosts /\ Len(Backoff) \in Nat /\ Len(Backoff) > 0
      /\ eb.dev \in State /\ eb.want \in Wants /\ TypeOK
  BY ClockAssumption DEF IInv, TypeOK, HandBacks
<1>1. CASE EbGated \/ EbRestored
  <2>1. hb' \in Ticks /\ cache' \in Caches /\ eb' = EbIdle /\ eb' \in HandBacks
    BY <1>1, <1>a, EbLeavesType DEF EbGated, EbRestored, EbLeaves
  <2>2. boost' \in Boosts /\ boost'.tries = boost.tries
        /\ (boost'.flagged => boost.flagged)
        /\ (boost' = boost \/ boost'.status = "completed")
    BY <1>1, <1>a, BoostEdit DEF EbGated, EbRestored
  <2>3. UNCHANGED <<now, tank, echo, lagged, rows, firstApplied, api,
                    budget, foreign, held, attempts>>
    BY <1>1 DEF EbGated, EbRestored
  <2>4. eb'.pc = "idle"
    BY <2>1 DEF EbIdle
  <2> QED BY <2>1, <2>2, <2>3, <2>4 DEF IInv, TypeOK, Budgeted
<1>2. CASE EbCounts
  <2>1. boost.tries < Len(Backoff) /\ boost' = Counted(boost)
    BY <1>2 DEF EbCounts, IInv, Budgeted
  <2>2. boost' \in Boosts /\ boost'.tries = boost.tries + 1 /\ boost'.flagged = boost.flagged
        /\ boost'.status = boost.status /\ boost'.released = boost.released
    BY <1>a, <2>1, CountedType
  <2>3. eb' \in HandBacks /\ eb'.pc = "write"
    BY <1>2, <1>a, HandBackType DEF EbCounts, TypeOK, HandBacks
  <2>4. UNCHANGED <<now, tank, echo, lagged, cache, rows, firstApplied, hb, api,
                    budget, foreign, held, attempts>>
    BY <1>2 DEF EbCounts
  <2>5. attempts < boost'.tries /\ attempts <= boost'.tries
    BY <1>a, <2>2 DEF IInv, Budgeted, TypeOK, Boosts
  <2>6. ~boost'.flagged
    BY <1>2, <2>2, <1>a DEF EbCounts, IInv, Budgeted
  <2>7. TypeOK'
    BY <1>a, <2>2, <2>3, <2>4 DEF TypeOK
  <2>8. Budgeted'
    BY <2>2, <2>3, <2>4, <2>5, <2>6 DEF IInv, Budgeted
  <2> QED BY <2>7, <2>8 DEF IInv
<1>3. CASE EbWrites
  <2>1. PICK w \in {WriteOk(eb.dev, eb.want)} \cup WriteFailures(eb.dev, eb.want) :
          SetTank(w.tank, 0) /\ EbLeavesWith(w.dev)
    BY <1>3 DEF EbWrites
  <2>2. w.tank \in State /\ w.dev \in State
    BY <1>a, <2>1, WritesType
  <2>3. tank' \in State /\ echo' \in State /\ lagged' \in 0..Lag /\ held' \in BOOLEAN
      /\ foreign' \subseteq Rows
    BY <1>a, <2>1, <2>2, SetTankType
  <2>4. hb' \in Ticks /\ cache' \in Caches /\ eb' = EbIdle /\ eb' \in HandBacks
    BY <1>a, <2>1, <2>2, EbLeavesType
  <2>5. boost' \in Boosts /\ boost'.tries = boost.tries
        /\ (boost'.flagged => boost.flagged)
        /\ (boost' = boost \/ boost'.status = "completed")
    BY <1>3, <1>a, BoostEdit DEF EbWrites
  <2>6. budget' \in [boosts: 0..MaxBoosts, troubles: 0..MaxTroubles]
    BY <1>3, <1>a, TroubleType DEF EbWrites, TypeOK
  <2>7. attempts' = attempts + 1 /\ UNCHANGED <<now, rows, firstApplied, api>>
        /\ eb.pc = "write"
    BY <1>3 DEF EbWrites
  <2>8. eb'.pc = "idle"
    BY <2>4 DEF EbIdle
  <2>9. attempts' <= boost.tries /\ attempts' \in Nat
    BY <1>a, <2>7 DEF IInv, Budgeted, TypeOK, Boosts
  <2> QED BY <2>3, <2>4, <2>5, <2>6, <2>7, <2>8, <2>9 DEF IInv, TypeOK, Budgeted
<1>4. CASE Undo
  <2>1. boost' \in Boosts /\ boost'.tries = boost.tries /\ ~boost'.flagged
        /\ (boost'.status = "active" => boost'.released # Never)
    BY <1>4, <1>a, BoostEdit DEF Undo, Expire, HoldingBoost
  <2>2. boost.tries < Len(Backoff)
    BY <1>4, <1>a DEF Undo, HoldingBoost, IInv, Budgeted
  <2>3. eb' \in HandBacks /\ eb'.pc = "decide"
    BY <1>4, IdleTypes DEF Undo, EbBegins, EbIdle, HandBacks, IInv, TypeOK, Caches
  <2>4. UNCHANGED <<now, tank, echo, lagged, cache, rows, firstApplied, hb, api,
                    budget, foreign, held, attempts>>
    BY <1>4 DEF Undo
  <2> QED BY <2>1, <2>2, <2>3, <2>4 DEF IInv, TypeOK, Budgeted
<1> QED BY <1>1, <1>2, <1>3, <1>4 DEF EbStep

\* The boost request, from its gates to its last write.
LEMMA RequestInv ==
  ASSUME IInv, Request \/ \E p \in BOOLEAN : BoostRequest(p)
  PROVE  IInv'
<1>a. now \in Times /\ boost \in Boosts /\ tank \in State /\ cache \in Caches /\ TypeOK
      /\ ApiIdle \in [pc: {"idle", "temp", "powerful"}, baseline: Temps]
      /\ api \in [pc: {"idle", "temp", "powerful"}, baseline: Temps]
  BY IdleTypes DEF IInv, TypeOK
<1>b. cache.dev \in State /\ Boost \in Temps /\ api.baseline \in Temps
  BY <1>a DEF Caches, Boost, Temps, Setback
<1>1. ASSUME NEW p \in BOOLEAN, BoostRequest(p)
      PROVE  IInv'
  <2>1. now + Hold \in Nat /\ 0 \in 0..Len(Backoff)
    BY <1>a, ClockAssumption DEF Times
  <2>2. boost' \in Boosts /\ boost'.tries = 0 /\ boost'.flagged
    BY <1>1, <1>a, <2>1 DEF BoostRequest, Boosts
  <2>3. cache.dev.target \in Temps
    BY <1>b DEF State
  <2>4. api' \in [pc: {"idle", "temp", "powerful"}, baseline: Temps]
    BY <1>1, <2>3 DEF BoostRequest
  <2>5. budget' \in [boosts: 0..MaxBoosts, troubles: 0..MaxTroubles]
    BY <1>1, BoundsAssumption DEF BoostRequest, IInv, TypeOK
  <2>6. held' = FALSE /\ attempts' = 0 /\ eb.pc = "idle"
        /\ UNCHANGED <<now, tank, echo, lagged, cache, rows, firstApplied, hb, eb, foreign>>
    BY <1>1 DEF BoostRequest, LockFree
  <2>7. TypeOK'
    BY <1>a, <2>2, <2>4, <2>5, <2>6 DEF TypeOK
  <2>8. Budgeted'
    BY <2>2, <2>6 DEF Budgeted
  <2> QED BY <2>7, <2>8 DEF IInv
\* What a step of the request leaves of the boost, the budget and the cache.
<1>2. ASSUME RequestFails
      PROVE  /\ hb' \in Ticks /\ cache' \in Caches
             /\ api' \in [pc: {"idle", "temp", "powerful"}, baseline: Temps]
             /\ budget' \in [boosts: 0..MaxBoosts, troubles: 0..MaxTroubles]
             /\ boost' \in Boosts /\ (boost' = boost \/ boost'.status = "completed")
             /\ boost'.tries = boost.tries /\ (boost'.flagged => boost.flagged)
  BY <1>2, <1>a, TroubleType, BoostEdit DEF RequestFails, TypeOK
<1>3. ASSUME NEW dev \in State, RequestSucceeds(dev)
      PROVE  /\ hb' \in Ticks /\ cache' \in Caches
             /\ api' \in [pc: {"idle", "temp", "powerful"}, baseline: Temps]
             /\ budget' \in [boosts: 0..MaxBoosts, troubles: 0..MaxTroubles]
             /\ boost' = boost
  BY <1>3, <1>a, CacheShowsType DEF RequestSucceeds, TypeOK
<1>4. ASSUME RequestTemp
      PROVE  IInv'
  <2>1. [tank EXCEPT !.target = Boost] \in State
    BY <1>a, <1>b, StateEdit
  <2>2. PICK s \in State : SetTank(s, 0)
    BY <1>4, <1>a, <2>1 DEF RequestTemp
  <2>3. tank' \in State /\ echo' \in State /\ lagged' \in 0..Lag /\ held' \in BOOLEAN
      /\ foreign' \subseteq Rows
    BY <1>a, <2>2, SetTankType
  <2>4. /\ hb' \in Ticks /\ cache' \in Caches
        /\ api' \in [pc: {"idle", "temp", "powerful"}, baseline: Temps]
        /\ budget' \in [boosts: 0..MaxBoosts, troubles: 0..MaxTroubles]
        /\ boost' \in Boosts /\ (boost' = boost \/ boost'.status = "completed")
        /\ boost'.tries = boost.tries /\ (boost'.flagged => boost.flagged)
    <3>1. [cache.dev EXCEPT !.target = Boost] \in State
      BY <1>b, StateEdit
    <3>2. CASE RequestFails
      BY <3>2, <1>2
    <3>3. CASE RequestSucceeds([cache.dev EXCEPT !.target = Boost])
      BY <3>1, <3>3, <1>3, <1>a
    <3>4. CASE api' = [api EXCEPT !.pc = "powerful"] /\ UNCHANGED <<cache, hb, boost, budget>>
      BY <3>4, <1>a DEF TypeOK
    <3> QED BY <1>4, <3>2, <3>3, <3>4 DEF RequestTemp
  <2>5. UNCHANGED <<now, rows, firstApplied, eb, attempts>>
    BY <1>4 DEF RequestTemp
  <2>6. TypeOK'
    BY <1>a, <2>3, <2>4, <2>5 DEF TypeOK
  <2>7. Budgeted'
    BY <2>4, <2>5 DEF IInv, Budgeted
  <2> QED BY <2>6, <2>7 DEF IInv
<1>5. ASSUME RequestPowerful
      PROVE  IInv'
  <2>1. [tank EXCEPT !.powerful = TRUE] \in State
    BY <1>a, StateEdit
  <2>2. PICK s \in State : SetTank(s, 0)
    <3>1. CASE SetTank([tank EXCEPT !.powerful = TRUE], 0)
      BY <2>1, <3>1
    <3>2. ASSUME NEW s \in {tank, [tank EXCEPT !.powerful = TRUE]},
                 SetTank(s, 0) \/ SetTank([s EXCEPT !.target = api.baseline], 0)
          PROVE  \E q \in State : SetTank(q, 0)
      <4>1. s \in State
        BY <1>a, <2>1
      <4>2. [s EXCEPT !.target = api.baseline] \in State
        BY <1>b, <4>1, StateEdit
      <4> QED BY <3>2, <4>1, <4>2
    <3> QED BY <1>5, <3>1, <3>2 DEF RequestPowerful
  <2>3. tank' \in State /\ echo' \in State /\ lagged' \in 0..Lag /\ held' \in BOOLEAN
      /\ foreign' \subseteq Rows
    BY <1>a, <2>2, SetTankType
  <2>4. /\ hb' \in Ticks /\ cache' \in Caches
        /\ api' \in [pc: {"idle", "temp", "powerful"}, baseline: Temps]
        /\ budget' \in [boosts: 0..MaxBoosts, troubles: 0..MaxTroubles]
        /\ boost' \in Boosts /\ (boost' = boost \/ boost'.status = "completed")
        /\ boost'.tries = boost.tries /\ (boost'.flagged => boost.flagged)
    <3>1. [target |-> Boost, powerful |-> TRUE] \in State
      BY <1>b DEF State
    <3>2. CASE RequestFails
      BY <3>2, <1>2
    <3>3. CASE RequestSucceeds([target |-> Boost, powerful |-> TRUE])
      BY <3>1, <3>3, <1>3, <1>a
    <3> QED BY <1>5, <3>2, <3>3 DEF RequestPowerful
  <2>5. UNCHANGED <<now, rows, firstApplied, eb, attempts>>
    BY <1>5 DEF RequestPowerful
  <2>6. TypeOK'
    BY <1>a, <2>3, <2>4, <2>5 DEF TypeOK
  <2>7. Budgeted'
    BY <2>4, <2>5 DEF IInv, Budgeted
  <2> QED BY <2>6, <2>7 DEF IInv
<1> QED BY <1>1, <1>4, <1>5 DEF Request

\* The end of the process, and its shutdown.
LEMMA RestartInv ==
  ASSUME IInv, Crash \/ Shutdown
  PROVE  IInv'
<1>1. /\ hb' \in Ticks /\ eb' \in HandBacks /\ cache' \in Caches /\ eb'.pc = "idle"
      /\ api' \in [pc: {"idle", "temp", "powerful"}, baseline: Temps]
      /\ firstApplied' \in [Rows -> Times \cup {Never}]
  BY MemoryLostType DEF Crash, Shutdown
<1>2. budget' \in [boosts: 0..MaxBoosts, troubles: 0..MaxTroubles]
  BY TroubleType DEF Crash, Shutdown, IInv
<1>3. UNCHANGED <<now, rows, boost, attempts>>
  BY DEF Crash, Shutdown
<1>4. tank' \in State /\ echo' \in State /\ lagged' \in 0..Lag /\ held' \in BOOLEAN
      /\ foreign' \subseteq Rows
  <2>1. CASE UNCHANGED <<tank, echo, lagged, foreign, held>>
    BY <2>1 DEF IInv, TypeOK
  <2>2. ASSUME NEW dev \in {tank, echo},
               NEW w \in {WriteOk(dev, ScheduledWant)} \cup WriteFailures(dev, ScheduledWant),
               SetTank(w.tank, 0)
        PROVE  tank' \in State /\ echo' \in State /\ lagged' \in 0..Lag /\ held' \in BOOLEAN
      /\ foreign' \subseteq Rows
    <3>1. dev \in State /\ TypeOK
      BY DEF IInv, TypeOK
    <3>2. w.tank \in State
      BY <3>1, HandBackType, WritesType
    <3> QED BY <2>2, <3>1, <3>2, SetTankType
  <2> QED BY <2>1, <2>2 DEF Crash, Shutdown
<1> QED BY <1>1, <1>2, <1>3, <1>4 DEF IInv, TypeOK, Budgeted

\* Every step keeps the invariant.
LEMMA InvStep ==
  ASSUME IInv, [Next]_vars
  PROVE  IInv'
<1>1. CASE UNCHANGED vars
  BY <1>1 DEF vars, IInv, TypeOK, Budgeted
<1> QED
  BY <1>1, RowStepInv, WorldInv, TickInv, HandBackInv, RequestInv, RestartInv
  DEF Next, Heartbeat

----------------------------------------------------------------------------
(* The theorems *)

\* The invariant holds in every state.
LEMMA Invariant == Spec => []IInv
BY InvInit, InvStep, PTL DEF Spec

\* Type correctness: in particular the number of attempts stays a row of the back-off
\* table, and the tick goes through its rows (_reconcile_daikin_actions).
THEOREM TypeCorrect == Spec => []TypeOK
<1>1. IInv => TypeOK
  BY DEF IInv
<1> QED BY <1>1, Invariant, PTL

\* No boost sends more hand-back writes than the back-off table has entries, crashes and
\* failures included (_count_restore_attempt, end_user_boost).
THEOREM Attempts == Spec => []AttemptsBounded
<1>1. IInv => AttemptsBounded
  BY ClockAssumption DEF IInv, Budgeted, AttemptsBounded, TypeOK, Boosts
<1> QED BY <1>1, Invariant, PTL
----------------------------------------------------------------------------
(* The boost is respected *)

\* Who has the lock: the request, the hand-back of an undo or of the tick that has come
\* to its tail, or the tick.
Locked ==
  /\ eb.pc # "idle" => /\ api.pc = "idle"
                       /\ IF eb.who = "hb" THEN hb.pc = "rows" /\ hb.row = NumRows + 1
                                           ELSE hb.pc # "rows"
  /\ api.pc # "idle" => hb.pc # "rows" /\ boost.at = now
  /\ eb.pc = "idle" => ~eb.alias

\* A device object that no refresh has replaced is the cached one; nothing is dated ahead.
Mirrored ==
  /\ cache.at <= now /\ boost.at <= now
  /\ hb.alias => hb.dev = cache.dev /\ cache.at # Never
  /\ eb.alias => eb.dev = cache.dev

\* While the boost's target stays on the tank, the cloud shows it from Lag after the
\* request on, and the cache from the grace on.
Standing ==
  held => /\ tank.target = Boost
          /\ echo.target < Boost => now - boost.at <= lagged
          /\ cache.at > boost.at + Grace => cache.dev.target = Boost

SInv == IInv /\ Locked /\ Mirrored /\ Standing

\* The numbers the invariant compares.
LEMMA Numbers ==
  ASSUME TypeOK
  PROVE  /\ now \in Nat /\ boost.at \in Nat /\ lagged \in Nat /\ lagged <= Lag
         /\ cache.at \in Int /\ Grace \in Nat /\ Lag \in Nat /\ Lag <= Grace
         /\ cache.dev \in State /\ hb.dev \in State /\ eb.dev \in State
         /\ cache \in Caches /\ hb \in Ticks /\ eb \in HandBacks /\ eb.want \in Wants
<1>1. /\ now \in Times /\ boost \in Boosts /\ lagged \in 0..Lag /\ cache \in Caches
      /\ hb \in Ticks /\ eb \in HandBacks
  BY DEF TypeOK
<1>2. Times \subseteq Nat /\ Grace \in Nat /\ Lag \in Nat /\ Lag <= Grace
  BY ClockAssumption, LagAssumption DEF Times
<1>3. boost.at \in Times
  BY <1>1 DEF Boosts
<1>4. cache.at \in Times \cup {Never} /\ cache.dev \in State
  BY <1>1 DEF Caches
<1>5. hb.dev \in State /\ eb.dev \in State /\ eb.want \in Wants
  BY <1>1 DEF Ticks, HandBacks
<1>6. cache.at \in Int /\ now \in Nat /\ boost.at \in Nat
  <2>1. Never \in Int /\ \A n \in Nat : n \in Int
    BY DEF Never
  <2>2. \A t \in Times : t \in Nat /\ t \in Int
    BY <1>2, <2>1
  <2>3. cache.at \in Int
    BY <1>4, <2>1, <2>2
  <2> QED BY <1>1, <1>3, <2>2, <2>3
<1>7. lagged \in Nat /\ lagged <= Lag
  BY <1>1, <1>2
<1> QED BY <1>1, <1>2, <1>4, <1>5, <1>6, <1>7

\* A write changes the device object only as it changes the tank, and the tank only to
\* what it commands (apply_scheduled_daikin_params).
LEMMA WriteTarget ==
  ASSUME TypeOK, NEW dev \in State, NEW w \in Wants,
         NEW x \in {WriteOk(dev, w)} \cup WriteFailures(dev, w)
  PROVE  /\ x.dev.target = dev.target \/ x.dev.target = x.tank.target
         /\ x.tank.target = tank.target \/ x.tank.target = w.temp
<1>1. ASSUME NEW s \in State
      PROVE  /\ WithTemp(s, dev, w).target = (IF SendsTemp(dev, w) THEN w.temp ELSE s.target)
             /\ WithBoth(s, dev, w).target = WithTemp(s, dev, w).target
  <2>1. WithTemp(s, dev, w) \in State
    BY WithType
  <2>2. WithBoth(s, dev, w).target = WithTemp(s, dev, w).target
    BY <2>1 DEF WithBoth, State
  <2>3. WithTemp(s, dev, w).target = (IF SendsTemp(dev, w) THEN w.temp ELSE s.target)
    BY DEF WithTemp, State
  <2> QED BY <2>2, <2>3
<1>2. tank \in State
  BY DEF TypeOK
<1>3. /\ x.tank \in {tank, WithTemp(tank, dev, w), WithBoth(tank, dev, w)}
      /\ \/ x.dev = dev
         \/ /\ x.tank \in {WithTemp(tank, dev, w), WithBoth(tank, dev, w)}
            /\ x.dev \in {WithTemp(dev, dev, w), WithBoth(dev, dev, w)}
  BY DEF WriteOk, WriteFailures
<1>4. /\ WithTemp(tank, dev, w).target = (IF SendsTemp(dev, w) THEN w.temp ELSE tank.target)
      /\ WithBoth(tank, dev, w).target = WithTemp(tank, dev, w).target
      /\ WithTemp(dev, dev, w).target = (IF SendsTemp(dev, w) THEN w.temp ELSE dev.target)
      /\ WithBoth(dev, dev, w).target = WithTemp(dev, dev, w).target
  BY <1>1, <1>2
<1>5. x.tank.target = tank.target \/ x.tank.target = w.temp
  BY <1>3, <1>4
<1>6. CASE x.dev = dev
  BY <1>5, <1>6
<1>7. CASE /\ x.tank \in {WithTemp(tank, dev, w), WithBoth(tank, dev, w)}
           /\ x.dev \in {WithTemp(dev, dev, w), WithBoth(dev, dev, w)}
  <2>1. x.tank.target = WithTemp(tank, dev, w).target /\ x.dev.target = WithTemp(dev, dev, w).target
    BY <1>4, <1>7
  <2> QED BY <2>1, <1>4, <1>5
<1> QED BY <1>3, <1>6, <1>7

\* A write that leaves the boost's target on the tank leaves what the cloud may show.
LEMMA ShownStanding ==
  ASSUME SInv, NEW s \in State, Shown(s), api.pc # "temp", now' = now, boost'.at = boost.at, held'
  PROVE  /\ held /\ tank'.target = Boost /\ tank' = s
         /\ echo'.target < Boost => now' - boost'.at <= lagged'
<1>1. held /\ s.target = Boost /\ tank' = s
  BY DEF Shown
<1>2. tank.target = Boost /\ (echo.target < Boost => now - boost.at <= lagged)
  BY <1>1 DEF SInv, Standing
<1>3. CASE echo' = tank
  BY <1>1, <1>2, <1>3 DEF Boost
<1>4. CASE UNCHANGED <<echo, lagged>>
  BY <1>1, <1>2, <1>4
<1> QED BY <1>3, <1>4 DEF Shown

\* So does one through a device object, which is the cached one (a) or is not.
LEMMA WriteStanding ==
  ASSUME SInv, NEW dev \in State, NEW w \in Wants,
         NEW x \in {WriteOk(dev, w)} \cup WriteFailures(dev, w),
         NEW a \in BOOLEAN, a => dev = cache.dev,
         cache' = IF a THEN [cache EXCEPT !.dev = x.dev] ELSE cache,
         Shown(x.tank), api.pc # "temp", now' = now, boost'.at = boost.at
  PROVE  Standing'
<1> SUFFICES ASSUME held'
             PROVE  /\ tank'.target = Boost
                    /\ echo'.target < Boost => now' - boost'.at <= lagged'
                    /\ cache'.at > boost'.at + Grace => cache'.dev.target = Boost
  BY DEF Standing
<1>1. TypeOK /\ cache \in Caches
  BY Numbers DEF SInv, IInv
<1>2. x.tank \in State
  BY <1>1, WritesType
<1>3. /\ held /\ tank'.target = Boost /\ tank' = x.tank
      /\ echo'.target < Boost => now' - boost'.at <= lagged'
  BY <1>2, ShownStanding
<1>4. cache'.at = cache.at /\ cache'.dev = IF a THEN x.dev ELSE cache.dev
  BY <1>1 DEF Caches
<1>5. ASSUME cache'.at > boost'.at + Grace
      PROVE  cache'.dev.target = Boost
  <2>1. cache.dev.target = Boost
    BY <1>3, <1>4, <1>5 DEF SInv, Standing
  <2>2. x.dev.target = dev.target \/ x.dev.target = x.tank.target
    BY <1>1, WriteTarget
  <2> QED BY <1>3, <1>4, <2>1, <2>2
<1> QED BY <1>3, <1>5

\* A step that writes nothing and keeps the cache's reading keeps what is known of it.
LEMMA QuietStanding ==
  ASSUME SInv, UNCHANGED <<now, tank, echo, lagged, cache, held>>, boost'.at = boost.at
  PROVE  Standing' /\ cache'.at <= now' /\ boost'.at <= now'
BY DEF SInv, Standing, Mirrored

\* The boot satisfies the invariant.
LEMMA StandingInit == Init => SInv
<1> SUFFICES ASSUME Init PROVE SInv
  OBVIOUS
<1>1. IInv
  BY InvInit
<1>2. Locked /\ Mirrored /\ Standing
  BY DEF Init, Locked, Mirrored, Standing, HbIdle, ApiIdle, EbIdle, Never
<1> QED BY <1>1, <1>2 DEF SInv

\* A tick plays a row.
LEMMA RowStepStanding ==
  ASSUME SInv, RowStep
  PROVE  Locked' /\ Mirrored' /\ Standing'
<1>1. PICK r \in Rows : \/ RowUntouched(r) \/ RowEnds(r) \/ RowMatched(r) \/ RowHeld(r)
                        \/ RowFlagged(r) \/ RowApplied(r) \/ RowFails(r)
  BY DEF RowStep
<1>2. hb.pc = "rows" /\ hb.row = r
  BY <1>1 DEF RowUntouched, RowEnds, RowMatched, RowHeld, RowFlagged, RowApplied, RowFails,
     Unmatched, Fires, Plays, Visiting
<1>3. TypeOK /\ IInv /\ hb \in Ticks /\ cache \in Caches /\ hb.dev \in State
  BY Numbers DEF SInv, IInv
<1>4. eb.pc = "idle" /\ api.pc = "idle" /\ ~eb.alias
  <2>1. r # NumRows + 1
    BY RowsAssumption DEF Rows
  <2> QED BY <1>2, <2>1 DEF SInv, Locked
<1>5. UNCHANGED <<now, boost, api, eb>>
  BY <1>1 DEF RowUntouched, RowEnds, RowMatched, RowHeld, RowFlagged, RowApplied, RowFails
<1>6. NextRow = [hb EXCEPT !.row = hb.row + 1]
  BY DEF NextRow
<1>7. Locked'
  BY <1>4, <1>5 DEF SInv, Locked
<1>8. CASE RowUntouched(r) \/ RowEnds(r) \/ RowMatched(r) \/ RowHeld(r) \/ RowFlagged(r)
  <2>1. UNCHANGED <<now, tank, echo, lagged, cache, held, eb>> /\ boost'.at = boost.at
    BY <1>8, <1>5 DEF RowUntouched, RowEnds, RowMatched, RowHeld, RowFlagged
  <2>2. hb' = NextRow
    BY <1>8 DEF RowUntouched, RowEnds, RowMatched, RowHeld, RowFlagged
  <2>3. hb'.alias = hb.alias /\ hb'.dev = hb.dev
    BY <1>3, <1>6, <2>2 DEF Ticks
  <2>4. Standing' /\ cache'.at <= now' /\ boost'.at <= now'
    BY <2>1, QuietStanding
  <2>5. Mirrored'
    BY <2>1, <2>3, <2>4 DEF SInv, Mirrored
  <2> QED BY <1>7, <2>4, <2>5
<1>9. ASSUME NEW x \in {WriteOk(hb.dev, RowWant(r))} \cup WriteFailures(hb.dev, RowWant(r)),
             HbGoes(NextRow, x.dev) \/ TickEnds(x.dev), Shown(x.tank)
      PROVE  Mirrored' /\ Standing'
  <2>1. cache' = IF hb.alias THEN [cache EXCEPT !.dev = x.dev] ELSE cache
    BY <1>9 DEF HbGoes, TickEnds
  <2>2. RowWant(r) \in Wants /\ hb.alias \in BOOLEAN /\ (hb.alias => hb.dev = cache.dev)
    BY <1>3, RowWantType DEF SInv, Mirrored, Ticks
  <2>3. Standing'
    BY <1>3, <1>4, <1>5, <1>9, <2>1, <2>2, WriteStanding
  <2>4. cache'.at = cache.at /\ (hb.alias => cache'.dev = x.dev)
    BY <1>3, <2>1 DEF Caches
  <2>5. \/ hb' = HbIdle
        \/ hb' = [NextRow EXCEPT !.dev = x.dev]
    BY <1>9 DEF HbGoes, TickEnds
  <2>6. hb'.alias => hb.alias /\ hb'.dev = x.dev
    <3>1. CASE hb' = HbIdle
      BY <3>1 DEF HbIdle
    <3>2. CASE hb' = [NextRow EXCEPT !.dev = x.dev]
      BY <1>3, <1>6, <3>2 DEF Ticks
    <3> QED BY <2>5, <3>1, <3>2
  <2>7. Mirrored'
    BY <1>4, <1>5, <2>4, <2>6 DEF SInv, Mirrored
  <2> QED BY <2>3, <2>7
<1>10. CASE RowApplied(r)
  <2>1. HbGoes(NextRow, WriteOk(hb.dev, RowWant(r)).dev) /\ Shown(WriteOk(hb.dev, RowWant(r)).tank)
    BY <1>10 DEF RowApplied
  <2> QED BY <1>7, <1>9, <2>1
<1>11. CASE RowFails(r)
  <2>1. PICK w \in WriteFailures(hb.dev, RowWant(r)) :
          SetTank(w.tank, r) /\ (HbGoes(NextRow, w.dev) \/ TickEnds(w.dev))
    BY <1>11 DEF RowFails
  <2> QED BY <1>7, <1>9, <2>1 DEF SetTank
<1> QED BY <1>1, <1>8, <1>10, <1>11

\* The cloud, the owner and the clock.
LEMMA WorldStanding ==
  ASSUME SInv, Refresh \/ ClockTick \/ OwnerHand
  PROVE  Locked' /\ Mirrored' /\ Standing'
<1>1. /\ now \in Nat /\ boost.at \in Nat /\ lagged \in Nat /\ lagged <= Lag
      /\ cache.at \in Int /\ Grace \in Nat /\ Lag \in Nat /\ Lag <= Grace
      /\ hb \in Ticks /\ eb \in HandBacks /\ cache \in Caches /\ TypeOK
  BY Numbers DEF SInv, IInv
<1>2. CASE Refresh
  <2>1. PICK s \in {tank, echo} : cache' = [dev |-> s, at |-> now]
    BY <1>2 DEF Refresh
  <2>2. hb' = [hb EXCEPT !.alias = FALSE] /\ eb' = [eb EXCEPT !.alias = FALSE]
        /\ UNCHANGED <<now, tank, echo, lagged, boost, api, held>>
    BY <1>2 DEF Refresh
  <2>3. /\ hb'.pc = hb.pc /\ hb'.row = hb.row /\ ~hb'.alias
        /\ eb'.pc = eb.pc /\ eb'.who = eb.who /\ ~eb'.alias
    BY <1>1, <2>2 DEF Ticks, HandBacks
  <2>4. Locked'
    BY <2>2, <2>3 DEF SInv, Locked
  <2>5. cache'.at = now /\ cache'.dev = s
    BY <2>1
  <2>6. Mirrored'
    BY <1>1, <2>2, <2>3, <2>5 DEF SInv, Mirrored
  <2>7. ASSUME held, now > boost.at + Grace
        PROVE  s.target = Boost
    <3>1. tank.target = Boost /\ (echo.target < Boost => now - boost.at <= lagged)
      BY <2>7 DEF SInv, Standing
    <3>2. ~(echo.target < Boost)
      BY <1>1, <2>7, <3>1
    <3>3. echo.target = Boost
      BY <1>1, <3>2 DEF TypeOK, State, Temps, Boost, Setback
    <3> QED BY <3>1, <3>3
  <2>8. Standing'
    BY <2>2, <2>5, <2>7 DEF SInv, Standing
  <2> QED BY <2>4, <2>6, <2>8
<1>3. CASE ClockTick
  <2>1. now' = now + 1 /\ UNCHANGED <<tank, cache, boost, hb, api, eb, held>>
        /\ hb.pc = "idle" /\ api.pc = "idle" /\ eb.pc = "idle"
        /\ IF echo # tank /\ lagged < Lag
             THEN lagged' = lagged + 1 /\ UNCHANGED echo
             ELSE lagged' = 0 /\ echo' = tank
    BY <1>3 DEF ClockTick, LockFree
  <2>2. Locked' /\ Mirrored'
    BY <1>1, <2>1 DEF SInv, Locked, Mirrored
  <2>3. ASSUME held
        PROVE  echo'.target < Boost => now' - boost.at <= lagged'
    <3>1. tank.target = Boost /\ (echo.target < Boost => now - boost.at <= lagged)
      BY <2>3 DEF SInv, Standing
    <3>2. CASE echo' = tank
      BY <3>1, <3>2 DEF Boost
    <3>3. CASE lagged' = lagged + 1 /\ echo' = echo
      BY <1>1, <2>1, <3>1, <3>3
    <3> QED BY <2>1, <3>2, <3>3
  <2>4. Standing'
    BY <2>1, <2>3 DEF SInv, Standing
  <2> QED BY <2>2, <2>4
<1>4. CASE OwnerHand
  <2>1. PICK t \in Hands : OwnerSets(t)
    BY <1>4 DEF OwnerHand
  <2>2. UNCHANGED <<now, cache, boost, hb, api, eb>> /\ Shown([tank EXCEPT !.target = t])
        /\ t # tank.target
    BY <2>1 DEF OwnerSets, SetTank
  <2>3. Locked' /\ Mirrored'
    BY <2>2 DEF SInv, Locked, Mirrored
  <2>4. [tank EXCEPT !.target = t].target = t
    BY <1>1 DEF TypeOK, State
  <2>5. CASE api.pc = "temp"
    <3>1. now = boost.at
      BY <2>5 DEF SInv, Locked
    <3>2. ASSUME held' PROVE tank'.target = Boost
      BY <2>2, <3>2 DEF Shown
    <3>3. lagged' \in Nat
      BY <1>1, <2>2 DEF Shown
    <3>4. now' - boost'.at <= lagged' /\ ~(cache'.at > boost'.at + Grace)
      BY <1>1, <2>2, <3>1, <3>3 DEF SInv, Mirrored
    <3> QED BY <2>3, <3>2, <3>4 DEF Standing
  <2>6. CASE api.pc # "temp"
    <3>1. ~held'
      BY <2>2, <2>4, <2>6 DEF Shown, SInv, Standing
    <3> QED BY <2>3, <3>1 DEF Standing
  <2> QED BY <2>5, <2>6
<1> QED BY <1>2, <1>3, <1>4

\* A boost that is released, or closed, keeps its date.
LEMMA BoostDate ==
  ASSUME NEW b \in Boosts, NEW t
  PROVE  Released(b, t).at = b.at /\ Finish(b, t).at = b.at /\ Counted(b).at = b.at
BY DEF Boosts, Released, Finish, Counted

\* The start of a tick, and its tail.
LEMMA TickStanding ==
  ASSUME SInv, TickStart \/ TickLock \/ TailStep
  PROVE  Locked' /\ Mirrored' /\ Standing'
<1>1. hb \in Ticks /\ boost \in Boosts
  BY DEF SInv, IInv, TypeOK
<1>2. UNCHANGED <<now, tank, echo, lagged, cache, held, api>> /\ boost'.at = boost.at
  <2>1. UNCHANGED <<now, tank, echo, lagged, cache, held, api>>
        /\ (boost' = boost \/ boost' = Finish(boost, boost.released) \/ boost' = Released(boost, now))
    BY DEF TickStart, TickLock, TailStep, TailIdle, TailCloses, TailExpires, Expire
  <2> QED BY <1>1, <2>1, BoostDate
<1>3. Standing' /\ cache'.at <= now' /\ boost'.at <= now'
  BY <1>2, QuietStanding
<1>4. CASE TickStart
  <2>1. hb'.pc = "ready" /\ hb'.dev = cache.dev /\ hb.pc = "idle" /\ eb' = eb
        /\ cache.at # Never
    BY <1>4 DEF TickStart
  <2> QED BY <1>2, <1>3, <2>1 DEF SInv, Locked, Mirrored
<1>5. CASE TickLock
  <2>1. hb' = [hb EXCEPT !.pc = "rows"] /\ eb.pc = "idle" /\ api.pc = "idle" /\ eb' = eb
    BY <1>5 DEF TickLock, LockFree
  <2>2. hb'.alias = hb.alias /\ hb'.dev = hb.dev
    BY <1>1, <2>1 DEF Ticks
  <2> QED BY <1>2, <1>3, <2>1, <2>2 DEF SInv, Locked, Mirrored
<1>6. CASE TailIdle \/ TailCloses
  <2>1. hb' = HbIdle /\ eb' = eb /\ eb.pc = "idle" /\ hb.pc = "rows"
    BY <1>6 DEF TailIdle, TailCloses, TailDone, AtTail
  <2>2. ~hb'.alias /\ hb'.pc = "idle"
    BY <2>1 DEF HbIdle
  <2> QED BY <1>2, <1>3, <2>1, <2>2 DEF SInv, Locked, Mirrored
<1>7. CASE TailExpires
  <2>1. hb' = hb /\ hb.pc = "rows" /\ hb.row = NumRows + 1 /\ eb' = EbBegins("hb", hb.dev, hb.alias)
    BY <1>7 DEF TailExpires, AtTail
  <2>2. eb'.who = "hb" /\ eb'.dev = hb.dev /\ eb'.alias = hb.alias /\ eb'.pc = "decide"
    BY <2>1 DEF EbBegins
  <2>3. api.pc = "idle"
    BY <2>1 DEF SInv, Locked
  <2> QED BY <1>2, <1>3, <2>1, <2>2, <2>3 DEF SInv, Locked, Mirrored
<1> QED BY <1>4, <1>5, <1>6, <1>7 DEF TailStep

\* The hand-back leaves: who had the lock gives it up, and the cache shows what it wrote.
LEMMA EbLeavesStanding ==
  ASSUME SInv, eb.pc # "idle", NEW dev \in State, EbLeavesWith(dev), UNCHANGED <<now, api>>,
         boost'.at = boost.at
  PROVE  /\ Locked' /\ Mirrored'
         /\ cache' = IF eb.alias THEN [cache EXCEPT !.dev = dev] ELSE cache
<1>1. hb \in Ticks /\ cache \in Caches
  BY DEF SInv, IInv, TypeOK
<1>2. cache' = IF eb.alias THEN [cache EXCEPT !.dev = dev] ELSE cache
  BY DEF EbLeavesWith
<1>3. eb' = EbIdle /\ eb'.pc = "idle" /\ ~eb'.alias
  BY DEF EbLeavesWith, EbIdle
<1>4. api.pc = "idle"
  BY DEF SInv, Locked
<1>5. Locked'
  BY <1>3, <1>4 DEF Locked
<1>6. cache'.at = cache.at /\ (eb.alias => cache'.dev = dev) /\ (~eb.alias => cache'.dev = cache.dev)
  BY <1>1, <1>2 DEF Caches
<1>7. hb'.alias => hb.alias /\ hb'.dev = cache'.dev
  <2>1. CASE eb.who = "hb"
    BY <2>1 DEF EbLeavesWith, HbIdle
  <2>2. CASE eb.who # "hb" /\ eb.alias /\ hb.alias
    <3>1. hb' = [hb EXCEPT !.dev = dev]
      BY <2>2 DEF EbLeavesWith
    <3> QED BY <1>1, <1>6, <2>2, <3>1 DEF Ticks
  <2>3. CASE eb.who # "hb" /\ ~(eb.alias /\ hb.alias)
    <3>1. hb' = hb
      BY <2>3 DEF EbLeavesWith
    <3> QED BY <1>6, <2>3, <3>1 DEF SInv, Mirrored
  <2> QED BY <2>1, <2>2, <2>3
<1>8. Mirrored'
  BY <1>3, <1>6, <1>7 DEF SInv, Mirrored
<1> QED BY <1>2, <1>5, <1>8

\* The hand-back, and the undo that begins one.
LEMMA HandBackStanding ==
  ASSUME SInv, EbStep \/ Undo
  PROVE  Locked' /\ Mirrored' /\ Standing'
<1>1. /\ TypeOK /\ boost \in Boosts /\ eb \in HandBacks /\ eb.dev \in State /\ eb.want \in Wants
      /\ cache \in Caches
  BY Numbers DEF SInv, IInv, TypeOK
<1>2. eb.alias \in BOOLEAN /\ (eb.alias => eb.dev = cache.dev)
  BY <1>1 DEF HandBacks, SInv, Mirrored
<1>3. CASE EbGated \/ EbRestored
  <2>1. EbLeavesWith(eb.dev) /\ eb.pc # "idle"
        /\ UNCHANGED <<now, api, tank, echo, lagged, held>>
        /\ (boost' = boost \/ boost' = Finish(boost, now))
    BY <1>3 DEF EbGated, EbRestored, EbLeaves
  <2>2. boost'.at = boost.at
    BY <1>1, <2>1, BoostDate
  <2>3. /\ Locked' /\ Mirrored'
        /\ cache' = IF eb.alias THEN [cache EXCEPT !.dev = eb.dev] ELSE cache
    BY <1>1, <2>1, <2>2, EbLeavesStanding
  <2>4. cache' = cache
    BY <1>1, <1>2, <2>3 DEF Caches
  <2>5. Standing'
    BY <2>1, <2>2, <2>4, QuietStanding
  <2> QED BY <2>3, <2>5
<1>4. CASE EbCounts
  <2>1. /\ UNCHANGED <<now, tank, echo, lagged, cache, held, hb, api>>
        /\ boost' = Counted(boost) /\ eb' = [eb EXCEPT !.pc = "write", !.want = HandBackWant]
        /\ eb.pc = "decide"
    BY <1>4 DEF EbCounts
  <2>2. boost'.at = boost.at
    BY <1>1, <2>1, BoostDate
  <2>3. eb'.who = eb.who /\ eb'.dev = eb.dev /\ eb'.alias = eb.alias /\ eb'.pc = "write"
    BY <1>1, <2>1 DEF HandBacks
  <2>4. Standing' /\ cache'.at <= now' /\ boost'.at <= now'
    BY <2>1, <2>2, QuietStanding
  <2> QED BY <2>1, <2>2, <2>3, <2>4 DEF SInv, Locked, Mirrored
<1>5. CASE EbWrites
  <2>1. PICK x \in {WriteOk(eb.dev, eb.want)} \cup WriteFailures(eb.dev, eb.want) :
          /\ SetTank(x.tank, 0) /\ EbLeavesWith(x.dev)
          /\ (boost' = boost \/ boost' = Finish(boost, now))
    BY <1>5 DEF EbWrites
  <2>2. eb.pc # "idle" /\ UNCHANGED <<now, api>>
    BY <1>5 DEF EbWrites
  <2>3. x.dev \in State
    BY <1>1, WritesType
  <2>4. boost'.at = boost.at
    BY <1>1, <2>1, BoostDate
  <2>5. /\ Locked' /\ Mirrored'
        /\ cache' = IF eb.alias THEN [cache EXCEPT !.dev = x.dev] ELSE cache
    BY <2>1, <2>2, <2>3, <2>4, EbLeavesStanding
  <2>6. Shown(x.tank) /\ api.pc # "temp" /\ now' = now
    BY <2>1, <2>2 DEF SetTank, SInv, Locked
  <2>7. Standing'
    BY <1>1, <1>2, <2>4, <2>5, <2>6, WriteStanding
  <2> QED BY <2>5, <2>7
<1>6. CASE Undo
  <2>1. /\ UNCHANGED <<now, tank, echo, lagged, cache, held, hb, api>>
        /\ boost' = Released(boost, now) /\ eb' = EbBegins("api", cache.dev, TRUE)
        /\ hb.pc # "rows" /\ api.pc = "idle"
    BY <1>6 DEF Undo, Expire, LockFree
  <2>2. boost'.at = boost.at
    BY <1>1, <2>1, BoostDate
  <2>3. eb'.who = "api" /\ eb'.dev = cache.dev /\ eb'.pc = "decide"
    BY <2>1 DEF EbBegins
  <2>4. Standing' /\ cache'.at <= now' /\ boost'.at <= now'
    BY <2>1, <2>2, QuietStanding
  <2> QED BY <2>1, <2>2, <2>3, <2>4 DEF SInv, Locked, Mirrored
<1> QED BY <1>3, <1>4, <1>5, <1>6 DEF EbStep

\* The boost request, from its gates to its last write.
LEMMA RequestStanding ==
  ASSUME SInv, Request \/ \E p \in BOOLEAN : BoostRequest(p)
  PROVE  Locked' /\ Mirrored' /\ Standing'
<1>1. /\ now \in Nat /\ boost.at \in Nat /\ cache.at \in Int /\ Grace \in Nat
      /\ TypeOK /\ boost \in Boosts /\ hb \in Ticks /\ cache \in Caches
  BY Numbers DEF SInv, IInv, TypeOK
<1>2. ASSUME NEW p \in BOOLEAN, BoostRequest(p)
      PROVE  Locked' /\ Mirrored' /\ Standing'
  <2>1. /\ UNCHANGED <<now, cache, hb, eb>> /\ ~held' /\ boost'.at = now
        /\ hb.pc # "rows" /\ eb.pc = "idle"
    BY <1>2 DEF BoostRequest, LockFree
  <2> QED BY <1>1, <2>1 DEF SInv, Locked, Mirrored, Standing
<1>3. CASE Request
  <2>1. /\ UNCHANGED <<now, eb>> /\ boost.at = now /\ hb.pc # "rows" /\ eb.pc = "idle" /\ ~eb.alias
        /\ api.pc \in {"temp", "powerful"}
    BY <1>3 DEF Request, RequestTemp, RequestPowerful, SInv, Locked
  <2>2. PICK s : Shown(s)
    BY <1>3 DEF Request, RequestTemp, RequestPowerful, SetTank
  <2>3. PICK dev : \/ RequestFails
                   \/ CacheShows(dev) /\ UNCHANGED boost
                   \/ UNCHANGED <<cache, hb, boost>>
    BY <1>3 DEF Request, RequestTemp, RequestPowerful, RequestSucceeds
  <2>4. boost'.at = boost.at
    BY <1>1, <2>3, BoostDate DEF RequestFails
  <2>5. hb'.pc = hb.pc /\ cache'.at = cache.at
        /\ (hb'.alias => hb.alias /\ hb'.dev = cache'.dev)
    <3>1. CASE UNCHANGED <<cache, hb>>
      BY <3>1 DEF SInv, Mirrored
    <3>2. CASE CacheShows(dev)
      <4>1. hb.alias => cache.at # Never
        BY DEF SInv, Mirrored
      <4>2. /\ cache' = IF cache.at = Never THEN cache ELSE [cache EXCEPT !.dev = dev]
            /\ hb' = IF hb.alias THEN [hb EXCEPT !.dev = dev] ELSE hb
        BY <3>2 DEF CacheShows
      <4>3. hb'.pc = hb.pc /\ cache'.at = cache.at
        BY <1>1, <4>2 DEF Ticks, Caches
      <4>4. hb'.alias => hb.alias /\ hb'.dev = dev
        BY <1>1, <4>2 DEF Ticks
      <4>5. cache.at # Never => cache'.dev = dev
        BY <1>1, <4>2 DEF Caches
      <4> QED BY <4>1, <4>3, <4>4, <4>5
    <3> QED BY <2>3, <3>1, <3>2 DEF RequestFails
  <2>6. Mirrored'
    BY <1>1, <2>1, <2>4, <2>5 DEF SInv, Mirrored
  <2>7. Locked'
    BY <2>1, <2>4, <2>5 DEF Locked
  <2>8. ASSUME held'
        PROVE  tank'.target = Boost
    BY <2>2, <2>8 DEF Shown
  <2>9. lagged' \in Nat
    <3>1. lagged \in Nat
      BY Numbers, <1>1
    <3> QED BY <2>2, <3>1 DEF Shown
  <2>10. now' - boost'.at <= lagged' /\ ~(cache'.at > boost'.at + Grace)
    BY <1>1, <2>1, <2>4, <2>5, <2>9 DEF SInv, Mirrored
  <2>11. Standing'
    BY <2>8, <2>10 DEF Standing
  <2> QED BY <2>6, <2>7, <2>11
<1> QED BY <1>2, <1>3

\* The end of the process, and its shutdown.
LEMMA RestartStanding ==
  ASSUME SInv, Crash \/ Shutdown
  PROVE  Locked' /\ Mirrored' /\ Standing'
<1>1. /\ now \in Nat /\ boost.at \in Nat /\ Grace \in Nat /\ TypeOK
  BY Numbers DEF SInv, IInv
<1>2. /\ hb' = HbIdle /\ api' = ApiIdle /\ eb' = EbIdle /\ cache' = [dev |-> NoDevice, at |-> Never]
      /\ UNCHANGED <<now, boost>>
  BY DEF Crash, Shutdown, MemoryLost
<1>3. /\ hb'.pc = "idle" /\ ~hb'.alias /\ api'.pc = "idle" /\ eb'.pc = "idle" /\ ~eb'.alias
      /\ cache'.at = -1
  BY <1>2 DEF HbIdle, ApiIdle, EbIdle, Never
<1>4. Locked' /\ Mirrored'
  BY <1>1, <1>2, <1>3 DEF SInv, Locked, Mirrored
<1>5. ~(cache'.at > boost'.at + Grace)
  BY <1>1, <1>2, <1>3
<1>6. CASE UNCHANGED <<tank, echo, lagged, held>>
  <2>1. ASSUME held'
        PROVE  tank'.target = Boost /\ (echo'.target < Boost => now' - boost'.at <= lagged')
    BY <1>2, <1>6, <2>1 DEF SInv, Standing
  <2> QED BY <1>4, <1>5, <2>1 DEF Standing
<1>7. CASE Shutdown /\ ~UNCHANGED <<tank, echo, lagged, held>>
  <2>1. PICK dev \in {tank, echo} :
          \E w \in {WriteOk(dev, ScheduledWant)} \cup WriteFailures(dev, ScheduledWant) :
            SetTank(w.tank, 0)
    BY <1>7 DEF Shutdown
  <2>2. PICK w \in {WriteOk(dev, ScheduledWant)} \cup WriteFailures(dev, ScheduledWant) :
          SetTank(w.tank, 0)
    BY <2>1
  <2>3. w.tank \in State
    <3>1. dev \in State
      BY <1>1 DEF TypeOK
    <3> QED BY <1>1, <3>1, HandBackType, WritesType
  <2>4. api.pc # "temp" /\ Shown(w.tank)
    BY <1>7, <2>2 DEF Shutdown, LockFree, SetTank
  <2>5. held' => /\ held /\ tank'.target = Boost
                 /\ echo'.target < Boost => now' - boost'.at <= lagged'
    BY <1>2, <2>3, <2>4, ShownStanding
  <2> QED BY <1>4, <1>5, <2>5 DEF Standing
<1> QED BY <1>4, <1>6, <1>7 DEF Crash

\* Every step keeps the invariant.
LEMMA StandingStep ==
  ASSUME SInv, [Next]_vars
  PROVE  SInv'
<1>1. IInv'
  BY InvStep DEF SInv
<1>2. CASE UNCHANGED vars
  BY <1>1, <1>2 DEF vars, SInv, Locked, Mirrored, Standing
<1> QED
  BY <1>1, <1>2, RowStepStanding, WorldStanding, TickStanding, HandBackStanding,
     RequestStanding, RestartStanding
  DEF Next, Heartbeat, SInv

\* A set of naturals that is not empty has a least one.
LEMMA LeastOf ==
  ASSUME NEW T, T \subseteq Nat, T # {}
  PROVE  \E x \in T : \A y \in T : x <= y
<1> DEFINE L == {ss \in Nat \X Nat : ss[1] < ss[2]}
<1>1. L = OpToRel(<, Nat)
  BY DEF OpToRel
<1>2. IsWellFoundedOn(L, Nat)
  BY <1>1, NatLessThanWellFounded
<1> HIDE DEF L
<1>3. PICK x \in T : \A y \in T : ~(<<y, x>> \in L)
  BY <1>2, WFMin
<1>4. ASSUME NEW y \in T PROVE x <= y
  <2>1. <<y, x>> \in Nat \X Nat /\ <<y, x>> \notin L
    BY <1>3
  <2>2. ~(y < x)
    BY <2>1 DEF L
  <2> QED BY <2>1, <2>2
<1> QED BY <1>4

\* While the boost holds, the tank is scheduled to it or to a Powerful row under way that
\* began later (_scheduled_tank_state).
LEMMA BoostOwns ==
  ASSUME SInv, HoldingBoost, ~OwnerOverridden
  PROVE  Owner \in Rows /\ Powerful[Owner] /\ Start[Owner] <= now /\ now < End[Owner]
<1>1. boost \in Boosts /\ now \in Nat /\ boost.at \in Nat /\ boost.at <= now
  BY Numbers DEF SInv, IInv, TypeOK, Mirrored
<1>2. BoostCovers /\ boost.flagged
  BY <1>1 DEF HoldingBoost, ActiveBoost, BoostCovers, Boosts
<1>3. 0 \in Covering /\ 0 \notin Rows
  BY <1>2, RowsAssumption DEF Covering, Rows
<1>4. ASSUME NEW r \in Covering
      PROVE  From(r) \in Nat /\ From(r) <= now /\ now - From(r) \in Nat
  <2>1. CASE r = 0
    BY <1>1, <2>1 DEF From
  <2>2. CASE r \in Rows
    BY <1>1, <1>3, <2>2, <1>4, RowsAssumption DEF Covering, From
  <2> QED BY <2>1, <2>2 DEF Covering
<1>5. PICK m \in Covering : IsBoost(m) /\ \A s \in Covering : Outranks(m, s)
  <2> DEFINE B == {r \in Covering : IsBoost(r)}
             T == {now - From(r) : r \in B}
  <2>1. T \subseteq Nat
    BY <1>4
  <2>2. 0 \in B
    BY <1>3 DEF IsBoost
  <2>3. PICK x \in T : \A y \in T : x <= y
    BY <2>1, <2>2, LeastOf
  <2>4. PICK m \in B : x = now - From(m)
    BY <2>3
  <2>5. ASSUME NEW s \in B PROVE From(m) >= From(s)
    <3>1. now - From(m) <= now - From(s)
      BY <2>3, <2>4
    <3>2. From(m) \in Nat /\ From(s) \in Nat
      BY <1>4
    <3> QED BY <1>1, <3>1, <3>2
  <2>6. IsBoost(m) /\ \A s \in Covering : Outranks(m, s)
    BY <2>5 DEF Outranks
  <2> QED BY <2>6
<1>6. Owner \in Covering /\ \A s \in Covering : Outranks(Owner, s)
  BY <1>5 DEF Owner
<1>7. IsBoost(Owner)
  BY <1>3, <1>6 DEF Outranks, IsBoost
<1>8. Owner # NoRow
  <2>1. NoRow # 0 /\ NoRow \notin Rows
    BY RowsAssumption DEF NoRow, Rows
  <2> QED BY <1>6, <2>1 DEF Covering
<1>9. Owner # 0
  BY <1>2, <1>8 DEF OwnerOverridden, RowOverridden
<1> QED BY <1>6, <1>7, <1>9 DEF Covering, IsBoost

\* A write under the boost that lowers the tank commands what it lowers it to.
LEMMA LowersTo ==
  ASSUME TypeOK, NEW dev \in State, NEW w \in Wants,
         NEW x \in {WriteOk(dev, w)} \cup WriteFailures(dev, w),
         Shown(x.tank), tank'.target < tank.target
  PROVE  tank'.target = w.temp /\ w.temp < Boost
<1>1. tank' = x.tank /\ (x.tank.target = tank.target \/ x.tank.target = w.temp)
  BY WriteTarget DEF Shown
<1>2. tank.target \in Temps /\ w.temp \in Temps
  BY DEF TypeOK, State, Wants
<1> QED BY <1>1, <1>2 DEF Temps, Setback, Boost

----------------------------------------------------------------------------
(* An override has a cause *)

\* What is known of a row that has been played and not written over: the cloud shows its
\* target from Lag after the first play on, and so does the cache unless it was read
\* before.
Shows(r) ==
  /\ firstApplied[r] <= now
  /\ echo.target # Target[r] => now - firstApplied[r] <= lagged
  /\ \/ cache.at = Never
     \/ cache.at \in firstApplied[r]..(firstApplied[r] + Lag)
     \/ cache.dev.target = Target[r]

\* The tank is as the rows that no other hand has written over left it; a device object
\* that a refresh has replaced in this tick was replaced now.
Owned ==
  /\ hb.pc # "idle" /\ ~hb.alias => cache.at = now
  /\ \A r \in Rows \ foreign :
       /\ tank.target = Target[r]
       /\ api.pc = "powerful" => Target[r] = Boost
       /\ firstApplied[r] # Never => Shows(r)

OInv == SInv /\ Owned

\* A write that keeps the tank's target keeps what is known of a row.
LEMMA ShowsWrite ==
  ASSUME OInv, NEW dev \in State, NEW w \in Wants,
         NEW x \in {WriteOk(dev, w)} \cup WriteFailures(dev, w),
         NEW a \in BOOLEAN, a => dev = cache.dev,
         cache' = IF a THEN [cache EXCEPT !.dev = x.dev] ELSE cache,
         Shown(x.tank), now' = now,
         NEW r \in Rows \ foreign, x.tank.target = tank.target
  PROVE  /\ tank'.target = Target[r]
         /\ firstApplied[r] # Never /\ firstApplied'[r] = firstApplied[r] => Shows(r)'
<1>1. TypeOK /\ cache \in Caches
  BY Numbers DEF OInv, SInv, IInv
<1>2. tank.target = Target[r] /\ tank'.target = Target[r] /\ x.tank.target = Target[r]
  BY DEF OInv, Owned, Shown
<1>3. ASSUME firstApplied[r] # Never, firstApplied'[r] = firstApplied[r]
      PROVE  Shows(r)'
  <2>1. Shows(r)
    BY <1>3 DEF OInv, Owned
  <2>2. echo'.target # Target[r] => now' - firstApplied'[r] <= lagged'
    <3>1. CASE echo' = tank
      BY <1>2, <3>1
    <3>2. CASE UNCHANGED <<echo, lagged>>
      BY <1>3, <2>1, <3>2 DEF Shows
    <3> QED BY <3>1, <3>2 DEF Shown
  <2>3. cache'.at = cache.at /\ cache'.dev = IF a THEN x.dev ELSE cache.dev
    BY <1>1 DEF Caches
  <2>4. x.dev.target = dev.target \/ x.dev.target = x.tank.target
    BY <1>1, WriteTarget
  <2>5. cache.dev.target = Target[r] => cache'.dev.target = Target[r]
    BY <1>2, <2>3, <2>4
  <2> QED BY <1>3, <2>1, <2>2, <2>3, <2>5 DEF Shows
<1> QED BY <1>2, <1>3

\* A step that writes nothing keeps all that is known.
LEMMA QuietOwned ==
  ASSUME OInv, UNCHANGED <<now, tank, echo, lagged, cache, foreign, firstApplied>>,
         hb'.pc # "idle" => hb.pc # "idle" /\ hb'.alias = hb.alias,
         api'.pc # "powerful"
  PROVE  Owned'
<1>1. ASSUME NEW r \in Rows \ foreign, firstApplied[r] # Never
      PROVE  Shows(r)'
  <2>1. Shows(r)
    BY <1>1 DEF OInv, Owned
  <2> QED BY <2>1 DEF Shows
<1> QED BY <1>1 DEF OInv, Owned

\* The boot satisfies the invariant.
LEMMA OwnedInit == Init => OInv
<1> SUFFICES ASSUME Init PROVE OInv
  OBVIOUS
<1>1. SInv
  BY StandingInit
<1>2. Owned
  BY DEF Init, Owned, HbIdle
<1> QED BY <1>1, <1>2 DEF OInv

\* The device object shows the target of a row that has been written through it.
LEMMA WroteTarget ==
  ASSUME TypeOK, NEW r \in Rows, hb.dev \in State
  PROVE  WriteOk(hb.dev, RowWant(r)).dev.target = Target[r]
<1>1. RowWant(r) \in Wants /\ RowWant(r).temp = Target[r] /\ "temp" \in RowWant(r).keys
  BY RowWantType DEF RowWant
<1>2. WriteOk(hb.dev, RowWant(r)).dev = WithBoth(hb.dev, hb.dev, RowWant(r))
  BY DEF WriteOk
<1>3. WithTemp(hb.dev, hb.dev, RowWant(r)).target = Target[r]
  BY <1>1 DEF WithTemp, SendsTemp, State
<1>4. WithTemp(hb.dev, hb.dev, RowWant(r)) \in State
  BY <1>1, WithType
<1> QED BY <1>2, <1>3, <1>4 DEF WithBoth, State

\* The first play of a row that leaves its target on the tank (_FIRST_APPLIED_SESSION).
LEMMA FirstPlay ==
  ASSUME OInv, NEW r \in Rows, hb.pc # "idle", now' = now, firstApplied'[r] = now,
         Shown(WriteOk(hb.dev, RowWant(r)).tank),
         cache' = IF hb.alias THEN [cache EXCEPT !.dev = WriteOk(hb.dev, RowWant(r)).dev]
                  ELSE cache
  PROVE  Shows(r)'
<1> DEFINE w == WriteOk(hb.dev, RowWant(r))
<1>1. TypeOK /\ cache \in Caches /\ hb.dev \in State /\ now \in Nat /\ lagged \in Nat /\ Lag \in Nat
      /\ hb \in Ticks
  BY Numbers DEF OInv, SInv, IInv
<1>2. RowWant(r) \in Wants /\ RowWant(r).temp = Target[r] /\ "temp" \in RowWant(r).keys
  BY RowWantType DEF RowWant
<1>3. w.dev.target = Target[r]
  BY <1>1, WroteTarget
<1>4. lagged' \in Nat
  BY <1>1 DEF Shown
<1>5. now' - firstApplied'[r] <= lagged' /\ firstApplied'[r] <= now'
  BY <1>1, <1>4
<1>6. CASE hb.alias
  <2>1. cache'.dev.target = Target[r]
    BY <1>1, <1>3, <1>6 DEF Caches
  <2> QED BY <1>5, <2>1 DEF Shows
<1>7. CASE ~hb.alias
  <2>1. cache' = cache /\ cache.at = now
    BY <1>7 DEF OInv, Owned
  <2>2. cache'.at \in firstApplied'[r]..(firstApplied'[r] + Lag)
    BY <1>1, <2>1
  <2> QED BY <1>5, <2>2 DEF Shows
<1> QED BY <1>6, <1>7

\* A tick plays a row.
LEMMA RowStepOwned ==
  ASSUME OInv, RowStep
  PROVE  Owned'
<1>1. PICK q \in Rows : \/ RowUntouched(q) \/ RowEnds(q) \/ RowMatched(q) \/ RowHeld(q)
                        \/ RowFlagged(q) \/ RowApplied(q) \/ RowFails(q)
  BY DEF RowStep
<1>2. hb.pc = "rows" /\ hb.row = q
  BY <1>1 DEF RowUntouched, RowEnds, RowMatched, RowHeld, RowFlagged, RowApplied, RowFails,
     Unmatched, Fires, Plays, Visiting
<1>3. TypeOK /\ hb \in Ticks /\ cache \in Caches /\ hb.dev \in State /\ hb.alias \in BOOLEAN
      /\ (hb.alias => hb.dev = cache.dev)
  BY Numbers DEF OInv, SInv, IInv, Mirrored, Ticks
<1>4. api.pc = "idle" /\ UNCHANGED <<now, api>>
  <2>1. api.pc = "idle"
    BY <1>2 DEF OInv, SInv, Locked
  <2> QED BY <1>1, <2>1
      DEF RowUntouched, RowEnds, RowMatched, RowHeld, RowFlagged, RowApplied, RowFails
<1>5. NextRow = [hb EXCEPT !.row = hb.row + 1]
  BY DEF NextRow
<1>6. RowWant(q) \in Wants /\ RowWant(q).temp = Target[q]
  BY RowWantType DEF RowWant
<1>7. CASE RowUntouched(q) \/ RowEnds(q) \/ RowMatched(q) \/ RowHeld(q) \/ RowFlagged(q)
  <2>1. UNCHANGED <<now, tank, echo, lagged, cache, foreign, firstApplied>> /\ hb' = NextRow
    BY <1>7 DEF RowUntouched, RowEnds, RowMatched, RowHeld, RowFlagged
  <2>2. hb'.alias = hb.alias
    BY <1>3, <1>5, <2>1 DEF Ticks
  <2> QED BY <1>2, <1>4, <2>1, <2>2, QuietOwned
\* What a write of row q leaves of a row that it does not write over.
<1>8. ASSUME NEW x \in {WriteOk(hb.dev, RowWant(q))} \cup WriteFailures(hb.dev, RowWant(q)),
             HbGoes(NextRow, x.dev) \/ TickEnds(x.dev), Shown(x.tank),
             Overwritten(x.tank, q) \ {q} \subseteq foreign'
      PROVE  /\ cache' = IF hb.alias THEN [cache EXCEPT !.dev = x.dev] ELSE cache
             /\ hb'.pc # "idle" /\ ~hb'.alias => cache'.at = now'
             /\ \A r \in Rows \ (foreign \cup foreign') :
                  /\ tank'.target = Target[r]
                  /\ firstApplied[r] # Never /\ firstApplied'[r] = firstApplied[r] => Shows(r)'
  <2>1. cache' = IF hb.alias THEN [cache EXCEPT !.dev = x.dev] ELSE cache
    BY <1>8 DEF HbGoes, TickEnds
  <2>2. cache'.at = cache.at
    BY <1>3, <2>1 DEF Caches
  <2>3. hb'.pc # "idle" => hb'.alias = hb.alias
    <3>1. CASE HbGoes(NextRow, x.dev)
      BY <1>3, <1>5, <3>1 DEF HbGoes, Ticks
    <3>2. CASE TickEnds(x.dev)
      BY <3>2 DEF TickEnds, HbIdle
    <3> QED BY <1>8, <3>1, <3>2
  <2>4. hb'.pc # "idle" /\ ~hb'.alias => cache'.at = now'
    BY <1>2, <1>4, <2>2, <2>3 DEF OInv, Owned
  <2>5. ASSUME NEW r \in Rows \ (foreign \cup foreign')
        PROVE  /\ tank'.target = Target[r]
               /\ firstApplied[r] # Never /\ firstApplied'[r] = firstApplied[r] => Shows(r)'
    <3>1. x.tank.target = tank.target
      <4>1. CASE r = q
        <5>1. tank.target = Target[q]
          BY <2>5, <4>1 DEF OInv, Owned
        <5>2. x.tank.target = tank.target \/ x.tank.target = RowWant(q).temp
          BY <1>3, <1>6, WriteTarget
        <5> QED BY <1>6, <5>1, <5>2
      <4>2. CASE r # q
        BY <1>8, <2>5, <4>2 DEF Overwritten
      <4> QED BY <4>1, <4>2
    <3> QED BY <1>3, <1>4, <1>6, <1>8, <2>1, <2>5, <3>1, ShowsWrite
  <2> QED BY <2>1, <2>4, <2>5
<1>9. CASE RowApplied(q)
  <2> DEFINE w == WriteOk(hb.dev, RowWant(q))
  <2>1. /\ HbGoes(NextRow, w.dev) /\ Shown(w.tank)
        /\ foreign' = IF firstApplied[q] = Never /\ w.tank.target = Target[q]
                        THEN Overwritten(w.tank, q) \ {q} ELSE Overwritten(w.tank, q)
        /\ firstApplied' = [firstApplied EXCEPT ![q] = IF @ = Never THEN now ELSE @]
    BY <1>9 DEF RowApplied
  <2>2. Overwritten(w.tank, q) \ {q} \subseteq foreign'
    BY <2>1
  <2>3. w \in {WriteOk(hb.dev, RowWant(q))} \cup WriteFailures(hb.dev, RowWant(q))
    OBVIOUS
  <2>4. /\ cache' = IF hb.alias THEN [cache EXCEPT !.dev = w.dev] ELSE cache
        /\ hb'.pc # "idle" /\ ~hb'.alias => cache'.at = now'
        /\ \A r \in Rows \ (foreign \cup foreign') :
             /\ tank'.target = Target[r]
             /\ firstApplied[r] # Never /\ firstApplied'[r] = firstApplied[r] => Shows(r)'
    BY <1>8, <2>1, <2>2, <2>3
  <2>5. ASSUME NEW r \in Rows \ foreign', firstApplied'[r] # Never
        PROVE  Shows(r)'
    <3>1. firstApplied \in [Rows -> Times \cup {Never}]
      BY <1>3 DEF TypeOK
    <3>2. CASE r = q /\ firstApplied[q] = Never
      <4>1. firstApplied'[r] = now
        BY <2>1, <3>1, <3>2
      <4> QED BY <1>2, <1>4, <2>1, <2>4, <3>2, <4>1, FirstPlay
    <3>3. CASE ~(r = q /\ firstApplied[q] = Never)
      <4>1. firstApplied'[r] = firstApplied[r]
        BY <2>1, <3>1, <3>3
      <4>2. r \notin foreign
        BY <2>1, <2>5, <3>3 DEF Overwritten
      <4> QED BY <2>4, <2>5, <4>1, <4>2
    <3> QED BY <3>2, <3>3
  <2>6. ASSUME NEW r \in Rows \ foreign'
        PROVE  tank'.target = Target[r]
    <3>1. CASE r \notin foreign
      BY <2>4, <2>6, <3>1
    <3>2. CASE r \in foreign
      <4>1. r = q /\ w.tank.target = Target[q]
        BY <2>1, <2>6, <3>2 DEF Overwritten
      <4> QED BY <2>1, <4>1 DEF Shown
    <3> QED BY <3>1, <3>2
  <2>7. api'.pc # "powerful"
    BY <1>4
  <2> QED BY <2>4, <2>5, <2>6, <2>7 DEF Owned
<1>10. CASE RowFails(q)
  <2>1. PICK x \in WriteFailures(hb.dev, RowWant(q)) :
          SetTank(x.tank, q) /\ (HbGoes(NextRow, x.dev) \/ TickEnds(x.dev))
    BY <1>10 DEF RowFails
  <2>2. foreign' = Overwritten(x.tank, q) /\ Shown(x.tank) /\ foreign \subseteq foreign'
    BY <2>1 DEF SetTank, Overwritten
  <2>3. firstApplied' = firstApplied
    BY <1>10 DEF RowFails
  <2>4. /\ hb'.pc # "idle" /\ ~hb'.alias => cache'.at = now'
        /\ \A r \in Rows \ (foreign \cup foreign') :
             /\ tank'.target = Target[r]
             /\ firstApplied[r] # Never /\ firstApplied'[r] = firstApplied[r] => Shows(r)'
    BY <1>8, <2>1, <2>2
  <2>5. api'.pc # "powerful"
    BY <1>4
  <2> QED BY <2>2, <2>3, <2>4, <2>5 DEF Owned
<1> QED BY <1>1, <1>7, <1>9, <1>10

\* The cloud, the owner and the clock.
LEMMA WorldOwned ==
  ASSUME OInv, Refresh \/ ClockTick \/ OwnerHand
  PROVE  Owned'
<1>1. /\ now \in Nat /\ lagged \in Nat /\ lagged <= Lag /\ Lag \in Nat /\ TypeOK
      /\ hb \in Ticks
  BY Numbers DEF OInv, SInv, IInv
<1>2. CASE Refresh
  <2>1. PICK s \in {tank, echo} : cache' = [dev |-> s, at |-> now]
    BY <1>2 DEF Refresh
  <2>2. UNCHANGED <<now, tank, echo, lagged, api, foreign, firstApplied>>
    BY <1>2 DEF Refresh
  <2>3. cache'.at = now /\ cache'.dev = s
    BY <2>1
  <2>4. ASSUME NEW r \in Rows \ foreign, firstApplied[r] # Never
        PROVE  Shows(r)'
    <3>1. Shows(r) /\ tank.target = Target[r]
      BY <2>4 DEF OInv, Owned
    <3>2. s.target # Target[r] => now - firstApplied[r] <= Lag
      <4>1. CASE s = tank
        BY <3>1, <4>1
      <4>2. CASE s = echo
        <5>1. firstApplied[r] \in Int
          BY <1>1, <2>4 DEF TypeOK, Times, Never
        <5> QED BY <1>1, <3>1, <4>2, <5>1 DEF Shows
      <4> QED BY <4>1, <4>2
    <3>3. firstApplied[r] \in Nat /\ firstApplied[r] <= now
      BY <1>1, <2>4, <3>1, ClockAssumption DEF TypeOK, Times, Shows
    <3>4. s.target # Target[r] => now \in firstApplied[r]..(firstApplied[r] + Lag)
      BY <1>1, <3>2, <3>3
    <3> QED BY <2>2, <2>3, <3>1, <3>4 DEF Shows
  <2> QED BY <2>2, <2>3, <2>4 DEF OInv, Owned
<1>3. CASE ClockTick
  <2>1. now' = now + 1 /\ UNCHANGED <<tank, cache, hb, api, foreign, firstApplied>> /\ hb.pc = "idle"
        /\ IF echo # tank /\ lagged < Lag
             THEN lagged' = lagged + 1 /\ UNCHANGED echo
             ELSE lagged' = 0 /\ echo' = tank
    BY <1>3 DEF ClockTick
  <2>2. ASSUME NEW r \in Rows \ foreign, firstApplied[r] # Never
        PROVE  Shows(r)'
    <3>1. Shows(r) /\ tank.target = Target[r]
      BY <2>2 DEF OInv, Owned
    <3>2. firstApplied[r] \in Nat
      BY <1>1, <2>2, ClockAssumption DEF TypeOK, Times
    <3>3. echo'.target # Target[r] => now' - firstApplied[r] <= lagged'
      <4>1. CASE echo' = tank
        BY <3>1, <4>1
      <4>2. CASE lagged' = lagged + 1 /\ echo' = echo
        BY <1>1, <2>1, <3>1, <3>2, <4>2 DEF Shows
      <4> QED BY <2>1, <4>1, <4>2
    <3>4. firstApplied[r] <= now'
      BY <1>1, <2>1, <3>1, <3>2 DEF Shows
    <3> QED BY <2>1, <3>1, <3>3, <3>4 DEF Shows
  <2> QED BY <2>1, <2>2 DEF OInv, Owned
<1>4. CASE OwnerHand
  <2>1. PICK t \in Hands : OwnerSets(t)
    BY <1>4 DEF OwnerHand
  <2>2. UNCHANGED <<now, cache, hb>> /\ foreign' = Overwritten([tank EXCEPT !.target = t], 0)
        /\ t # tank.target
    BY <2>1 DEF OwnerSets, SetTank
  <2>3. [tank EXCEPT !.target = t].target # tank.target
    BY <1>1, <2>2 DEF TypeOK, State
  <2>4. Rows \subseteq foreign'
    <3>1. 0 \notin Rows
      BY RowsAssumption DEF Rows
    <3> QED BY <2>2, <2>3, <3>1 DEF Overwritten
  <2> QED BY <2>2, <2>4 DEF OInv, Owned
<1> QED BY <1>2, <1>3, <1>4

\* The start of a tick, and its tail.
LEMMA TickOwned ==
  ASSUME OInv, TickStart \/ TickLock \/ TailStep
  PROVE  Owned'
<1>1. UNCHANGED <<now, tank, echo, lagged, cache, foreign, firstApplied, api>>
  BY DEF TickStart, TickLock, TailStep, TailIdle, TailCloses, TailExpires
<1>2. ASSUME NEW r \in Rows \ foreign, firstApplied[r] # Never
      PROVE  Shows(r)'
  <2>1. Shows(r)
    BY <1>2 DEF OInv, Owned
  <2> QED BY <1>1, <2>1 DEF Shows
<1>3. hb'.pc # "idle" /\ ~hb'.alias => cache'.at = now'
  <2>1. hb \in Ticks
    BY DEF OInv, SInv, IInv, TypeOK
  <2>2. CASE TickStart
    BY <2>2 DEF TickStart
  <2>3. CASE TickLock
    <3>1. hb'.alias = hb.alias /\ hb.pc # "idle"
      BY <2>1, <2>3 DEF TickLock, Ticks
    <3> QED BY <1>1, <3>1 DEF OInv, Owned
  <2>4. CASE TailIdle \/ TailCloses
    BY <2>4 DEF TailIdle, TailCloses, TailDone, HbIdle
  <2>5. CASE TailExpires
    BY <1>1, <2>5 DEF TailExpires, OInv, Owned
  <2> QED BY <2>2, <2>3, <2>4, <2>5 DEF TailStep
<1> QED BY <1>1, <1>2, <1>3 DEF OInv, Owned

\* The hand-back, and the undo that begins one.
LEMMA HandBackOwned ==
  ASSUME OInv, EbStep \/ Undo
  PROVE  Owned'
<1>1. /\ TypeOK /\ eb \in HandBacks /\ eb.dev \in State /\ eb.want \in Wants
      /\ cache \in Caches /\ hb \in Ticks /\ eb.alias \in BOOLEAN /\ (eb.alias => eb.dev = cache.dev)
  BY Numbers DEF OInv, SInv, IInv, Mirrored, HandBacks
\* The heartbeat goes on as it was, or its tick is over.
<1>2. ASSUME NEW dev \in State, EbLeavesWith(dev)
      PROVE  /\ hb'.pc # "idle" => hb.pc # "idle" /\ hb'.alias = hb.alias
             /\ cache'.at = cache.at
             /\ cache' = IF eb.alias THEN [cache EXCEPT !.dev = dev] ELSE cache
  <2>1. \/ hb' = HbIdle \/ hb' = hb \/ hb' = [hb EXCEPT !.dev = dev]
    BY <1>2 DEF EbLeavesWith
  <2>2. hb'.pc # "idle" => hb.pc # "idle" /\ hb'.alias = hb.alias
    <3>1. CASE hb' = HbIdle
      BY <3>1 DEF HbIdle
    <3>2. CASE hb' = [hb EXCEPT !.dev = dev]
      BY <1>1, <3>2 DEF Ticks
    <3> QED BY <2>1, <3>1, <3>2
  <2>3. cache' = IF eb.alias THEN [cache EXCEPT !.dev = dev] ELSE cache
    BY <1>2 DEF EbLeavesWith
  <2> QED BY <1>1, <2>2, <2>3 DEF Caches
<1>3. CASE EbGated \/ EbRestored
  <2>1. EbLeavesWith(eb.dev) /\ eb.pc # "idle"
        /\ UNCHANGED <<now, api, tank, echo, lagged, foreign, firstApplied>>
    BY <1>3 DEF EbGated, EbRestored, EbLeaves
  <2>2. cache' = cache
    BY <1>1, <1>2, <2>1 DEF Caches
  <2>3. api'.pc # "powerful"
    BY <2>1 DEF OInv, SInv, Locked
  <2> QED BY <1>1, <1>2, <2>1, <2>2, <2>3, QuietOwned
<1>4. CASE EbCounts \/ Undo
  <2>1. UNCHANGED <<now, tank, echo, lagged, cache, foreign, firstApplied, hb, api>>
        /\ (eb.pc # "idle" \/ api.pc = "idle")
    BY <1>4 DEF EbCounts, Undo, LockFree
  <2>2. api'.pc # "powerful"
    BY <2>1 DEF OInv, SInv, Locked
  <2> QED BY <2>1, <2>2, QuietOwned
<1>5. CASE EbWrites
  <2>1. PICK x \in {WriteOk(eb.dev, eb.want)} \cup WriteFailures(eb.dev, eb.want) :
          SetTank(x.tank, 0) /\ EbLeavesWith(x.dev)
    BY <1>5 DEF EbWrites
  <2>2. eb.pc # "idle" /\ UNCHANGED <<now, api, firstApplied>>
    BY <1>5 DEF EbWrites
  <2>3. x.dev \in State
    BY <1>1, WritesType
  <2>4. /\ cache' = IF eb.alias THEN [cache EXCEPT !.dev = x.dev] ELSE cache
        /\ cache'.at = cache.at
        /\ hb'.pc # "idle" => hb.pc # "idle" /\ hb'.alias = hb.alias
    BY <1>2, <2>1, <2>3
  <2>5. ASSUME NEW r \in Rows \ foreign'
        PROVE  /\ tank'.target = Target[r]
               /\ firstApplied[r] # Never => Shows(r)'
    <3>1. r \notin foreign /\ x.tank.target = tank.target /\ Shown(x.tank)
      <4>1. 0 \notin Rows
        BY RowsAssumption DEF Rows
      <4> QED BY <2>1, <2>5, <4>1 DEF SetTank, Overwritten
    <3>2. firstApplied'[r] = firstApplied[r] /\ now' = now
      BY <2>2
    <3> QED BY <1>1, <2>4, <2>5, <3>1, <3>2, ShowsWrite
  <2>6. api'.pc # "powerful"
    BY <2>2 DEF OInv, SInv, Locked
  <2>7. hb'.pc # "idle" /\ ~hb'.alias => cache'.at = now'
    BY <2>2, <2>4 DEF OInv, Owned
  <2> QED BY <2>2, <2>5, <2>6, <2>7 DEF Owned
<1> QED BY <1>3, <1>4, <1>5 DEF EbStep

\* The end of the process, and its shutdown: the session forgets what it has played.
LEMMA RestartOwned ==
  ASSUME OInv, Crash \/ Shutdown
  PROVE  Owned'
<1>1. /\ hb'.pc = "idle" /\ api'.pc = "idle" /\ \A r \in Rows : firstApplied'[r] = Never
  BY DEF Crash, Shutdown, MemoryLost, HbIdle, ApiIdle
<1>2. ASSUME NEW r \in Rows \ foreign'
      PROVE  tank'.target = Target[r]
  <2>1. CASE UNCHANGED <<tank, foreign>>
    BY <1>2, <2>1 DEF OInv, Owned
  <2>2. CASE \E s : SetTank(s, 0)
    <3>1. PICK s : SetTank(s, 0)
      BY <2>2
    <3>2. 0 \notin Rows
      BY RowsAssumption DEF Rows
    <3>3. r \notin foreign /\ tank' = s /\ s.target = tank.target
      BY <1>2, <3>1, <3>2 DEF SetTank, Shown, Overwritten
    <3> QED BY <1>2, <3>3 DEF OInv, Owned
  <2> QED BY <2>1, <2>2 DEF Crash, Shutdown
<1> QED BY <1>1, <1>2 DEF Owned

\* The boost request, from its gates to its last write.
LEMMA RequestOwned ==
  ASSUME OInv, Request \/ \E p \in BOOLEAN : BoostRequest(p)
  PROVE  Owned'
<1>1. TypeOK /\ tank \in State /\ cache \in Caches /\ hb \in Ticks /\ cache.dev \in State
  BY Numbers DEF OInv, SInv, IInv, TypeOK
<1>2. ASSUME NEW p \in BOOLEAN, BoostRequest(p)
      PROVE  Owned'
  <2>1. UNCHANGED <<now, tank, echo, lagged, cache, foreign, firstApplied, hb>>
        /\ api'.pc = "temp"
    BY <1>2 DEF BoostRequest
  <2> QED BY <2>1, QuietOwned
<1>3. CASE Request
  <2>1. UNCHANGED <<now, firstApplied>> /\ api.pc \in {"temp", "powerful"}
    BY <1>3 DEF Request, RequestTemp, RequestPowerful
  <2>2. PICK s : SetTank(s, 0)
    BY <1>3 DEF Request, RequestTemp, RequestPowerful
  <2>3. ASSUME NEW r \in Rows \ foreign'
        PROVE  /\ r \notin foreign /\ tank' = s /\ tank'.target = tank.target
               /\ tank.target = Target[r] /\ (api.pc = "powerful" => Target[r] = Boost)
    <3>1. 0 \notin Rows
      BY RowsAssumption DEF Rows
    <3>2. r \notin foreign /\ s.target = tank.target /\ tank' = s
      BY <2>2, <2>3, <3>1 DEF SetTank, Shown, Overwritten
    <3> QED BY <2>3, <3>2 DEF OInv, Owned
\* What the cache is told is what is on the tank.
  <2>4. \/ UNCHANGED <<cache, hb>>
        \/ /\ CacheShows([target |-> Boost, powerful |-> TRUE]) /\ api.pc = "powerful"
        \/ /\ CacheShows([cache.dev EXCEPT !.target = Boost]) /\ tank'.target = Boost
    <3>1. [tank EXCEPT !.target = Boost].target = Boost
      BY <1>1 DEF State
    <3> QED BY <1>3, <3>1 DEF Request, RequestTemp, RequestPowerful, RequestSucceeds, RequestFails,
               SetTank, Shown
  <2>5. PICK dev : \/ UNCHANGED <<cache, hb>>
                   \/ /\ CacheShows(dev) /\ dev.target = Boost
                      /\ \A r \in Rows \ foreign' : Target[r] = Boost
    <3>1. CASE UNCHANGED <<cache, hb>>
      BY <3>1
    <3>2. CASE CacheShows([target |-> Boost, powerful |-> TRUE]) /\ api.pc = "powerful"
      BY <2>3, <3>2
    <3>3. CASE CacheShows([cache.dev EXCEPT !.target = Boost]) /\ tank'.target = Boost
      <4>1. [cache.dev EXCEPT !.target = Boost].target = Boost
        BY <1>1 DEF State
      <4>2. \A r \in Rows \ foreign' : Target[r] = Boost
        BY <2>3, <3>3
      <4> QED BY <3>3, <4>1, <4>2
    <3> QED BY <2>4, <3>1, <3>2, <3>3
  <2>6. /\ hb'.pc = hb.pc /\ hb'.alias = hb.alias /\ cache'.at = cache.at
        /\ \/ cache' = cache
           \/ cache'.dev.target = Boost /\ \A r \in Rows \ foreign' : Target[r] = Boost
    <3>1. CASE UNCHANGED <<cache, hb>>
      BY <3>1
    <3>2. CASE /\ CacheShows(dev) /\ dev.target = Boost
               /\ \A r \in Rows \ foreign' : Target[r] = Boost
      <4>1. /\ cache' = IF cache.at = Never THEN cache ELSE [cache EXCEPT !.dev = dev]
            /\ hb' = IF hb.alias THEN [hb EXCEPT !.dev = dev] ELSE hb
        BY <3>2 DEF CacheShows
      <4>2. hb'.pc = hb.pc /\ hb'.alias = hb.alias
        BY <1>1, <4>1 DEF Ticks
      <4>3. cache'.at = cache.at /\ (cache' = cache \/ cache'.dev = dev)
        BY <1>1, <4>1 DEF Caches
      <4> QED BY <3>2, <4>2, <4>3
    <3> QED BY <2>5, <3>1, <3>2
  <2>7. ASSUME NEW r \in Rows \ foreign', firstApplied[r] # Never
        PROVE  Shows(r)'
    <3>1. Shows(r)
      BY <2>3, <2>7 DEF OInv, Owned
    <3>2. echo'.target # Target[r] => now' - firstApplied'[r] <= lagged'
      <4>1. CASE echo' = tank
        BY <2>3, <2>7, <4>1
      <4>2. CASE UNCHANGED <<echo, lagged>>
        BY <2>1, <3>1, <4>2 DEF Shows
      <4> QED BY <2>2, <4>1, <4>2 DEF SetTank, Shown
    <3>3. cache'.dev.target = Target[r] \/ cache' = cache
      BY <2>6, <2>7
    <3> QED BY <2>1, <2>6, <3>1, <3>2, <3>3 DEF Shows
  <2>8. ASSUME NEW r \in Rows \ foreign', api'.pc = "powerful"
        PROVE  Target[r] = Boost
    <3>1. CASE api.pc = "powerful"
      BY <2>3, <2>8, <3>1
    <3>2. CASE api.pc # "powerful"
      <4>1. SetTank([tank EXCEPT !.target = Boost], 0)
        BY <1>3, <2>8, <3>2
           DEF Request, RequestTemp, RequestPowerful, RequestSucceeds, RequestFails, ApiIdle
      <4>2. tank'.target = Boost
        BY <1>1, <4>1 DEF SetTank, Shown, State
      <4> QED BY <2>3, <2>8, <4>2
    <3> QED BY <3>1, <3>2
  <2>9. hb'.pc # "idle" /\ ~hb'.alias => cache'.at = now'
    BY <2>1, <2>6 DEF OInv, Owned
  <2>10. \A r \in Rows \ foreign' : tank'.target = Target[r]
    BY <2>3
  <2> QED BY <2>1, <2>7, <2>8, <2>9, <2>10 DEF Owned
<1> QED BY <1>2, <1>3

\* Every step keeps the invariant.
LEMMA OwnedStep ==
  ASSUME OInv, [Next]_vars
  PROVE  OInv'
<1>1. SInv'
  BY StandingStep DEF OInv
<1>2. CASE UNCHANGED vars
  <2>1. ASSUME NEW r \in Rows \ foreign, firstApplied[r] # Never
        PROVE  Shows(r)'
    <3>1. Shows(r)
      BY <2>1 DEF OInv, Owned
    <3> QED BY <1>2, <3>1 DEF vars, Shows
  <2> QED BY <1>1, <1>2, <2>1 DEF vars, OInv, Owned
<1> QED
  BY <1>1, <1>2, RowStepOwned, WorldOwned, TickOwned, HandBackOwned, RequestOwned, RestartOwned
  DEF Next, Heartbeat, OInv


----------------------------------------------------------------------------
(* What the tick judges *)

\* A device object read well after a boost that stands shows its target; one read after
\* the cloud had stopped trailing a row's first play shows the row's.
Judged ==
  /\ hb.at <= now
  /\ held /\ hb.pc # "idle" /\ hb.at > boost.at + Grace => hb.dev.target = Boost
  /\ \A r \in Rows \ foreign :
       firstApplied[r] # Never /\ hb.pc # "idle"
         => Trailing(r) \/ hb.dev.target = Target[r]

JInv == OInv /\ Judged

\* The boot satisfies the invariant.
LEMMA JudgedInit == Init => JInv
<1> SUFFICES ASSUME Init PROVE JInv
  OBVIOUS
<1>1. OInv
  BY OwnedInit
<1>2. hb.pc = "idle" /\ hb.at = -1 /\ now = 0
  BY DEF Init, HbIdle, Never
<1> QED BY <1>1, <1>2 DEF JInv, Judged

\* A step that leaves the tick alone, or ends it, or writes its device object as it writes
\* the tank, keeps what is known of the tick.
LEMMA JudgedKept ==
  ASSUME JInv, UNCHANGED <<now, firstApplied>>, foreign \subseteq foreign', hb'.at <= now,
         held' => boost'.at = boost.at /\ (held \/ boost.at = now),
         hb'.pc # "idle" =>
           /\ hb.pc # "idle" /\ hb'.at = hb.at
           /\ \/ hb'.dev.target = hb.dev.target
              \/ /\ held' => hb'.dev.target = Boost
                 /\ \A r \in Rows \ foreign' : hb'.dev.target = Target[r]
  PROVE  Judged'
<1>1. now \in Nat /\ boost.at \in Nat /\ Grace \in Nat
  BY Numbers DEF JInv, OInv, SInv, IInv
<1>2. ASSUME held', hb'.pc # "idle", hb'.at > boost'.at + Grace
      PROVE  hb'.dev.target = Boost
  <2>1. boost.at # now
    <3>1. SUFFICES ASSUME boost.at = now PROVE FALSE
      OBVIOUS
    <3>2. hb.at \in Int
      <4>1. hb.at \in Times \cup {Never} /\ Times \subseteq Int /\ Never \in Int
        BY ClockAssumption DEF JInv, OInv, SInv, IInv, TypeOK, Ticks, Times, Never
      <4> QED BY <4>1
    <3> QED BY <1>1, <1>2, <3>1, <3>2
  <2>2. held /\ hb.at > boost.at + Grace /\ hb.pc # "idle"
    BY <1>2, <2>1
  <2>3. hb.dev.target = Boost
    BY <2>2 DEF JInv, Judged
  <2> QED BY <1>2, <2>3
<1>3. ASSUME NEW r \in Rows \ foreign', firstApplied'[r] # Never, hb'.pc # "idle"
      PROVE  Trailing(r)' \/ hb'.dev.target = Target[r]
  <2>1. Trailing(r) \/ hb.dev.target = Target[r]
    BY <1>3 DEF JInv, Judged
  <2>2. Trailing(r) => Trailing(r)'
    BY <1>3 DEF Trailing
  <2> QED BY <1>3, <2>1, <2>2
<1> QED BY <1>2, <1>3 DEF Judged

\* A step that leaves the tick alone, and writes over rows at most, too.
LEMMA JudgedQuiet ==
  ASSUME JInv, UNCHANGED <<now, firstApplied>>, boost'.at = boost.at, held' => held,
         hb'.pc # "idle" => /\ hb.pc # "idle" /\ hb'.at = hb.at /\ hb'.dev = hb.dev,
         foreign \subseteq foreign', hb'.at <= now
  PROVE  Judged'
<1>1. held' => boost'.at = boost.at /\ (held \/ boost.at = now)
  OBVIOUS
<1>2. hb'.pc # "idle" => /\ hb.pc # "idle" /\ hb'.at = hb.at
                         /\ hb'.dev.target = hb.dev.target
  OBVIOUS
<1> QED BY <1>1, <1>2, JudgedKept

\* A tick plays a row.
LEMMA RowStepJudged ==
  ASSUME JInv, RowStep
  PROVE  Judged'
<1>1. PICK q \in Rows : \/ RowUntouched(q) \/ RowEnds(q) \/ RowMatched(q) \/ RowHeld(q)
                        \/ RowFlagged(q) \/ RowApplied(q) \/ RowFails(q)
  BY DEF RowStep
<1>2. hb.pc = "rows"
  BY <1>1 DEF RowUntouched, RowEnds, RowMatched, RowHeld, RowFlagged, RowApplied, RowFails,
     Unmatched, Fires, Plays, Visiting
<1>3. /\ TypeOK /\ hb \in Ticks /\ hb.dev \in State /\ now \in Nat /\ hb.at <= now
      /\ firstApplied \in [Rows -> Times \cup {Never}]
  BY Numbers DEF JInv, Judged, OInv, SInv, IInv, TypeOK
<1>4. api.pc = "idle" /\ UNCHANGED <<now, boost>>
  <2>1. api.pc = "idle"
    BY <1>2 DEF JInv, OInv, SInv, Locked
  <2> QED BY <1>1, <2>1
      DEF RowUntouched, RowEnds, RowMatched, RowHeld, RowFlagged, RowApplied, RowFails
<1>5. NextRow = [hb EXCEPT !.row = hb.row + 1]
  BY DEF NextRow
<1>6. RowWant(q) \in Wants /\ RowWant(q).temp = Target[q] /\ "temp" \in RowWant(q).keys
  BY RowWantType DEF RowWant
<1>7. CASE RowUntouched(q) \/ RowEnds(q) \/ RowMatched(q) \/ RowHeld(q) \/ RowFlagged(q)
  <2>1. UNCHANGED <<held, foreign, firstApplied>> /\ hb' = NextRow
    BY <1>7 DEF RowUntouched, RowEnds, RowMatched, RowHeld, RowFlagged
  <2>2. hb'.at = hb.at /\ hb'.dev = hb.dev
    BY <1>3, <1>5, <2>1 DEF Ticks
  <2> QED BY <1>2, <1>3, <1>4, <2>1, <2>2, JudgedQuiet
\* What a write of row q leaves of the tick.
<1>8. ASSUME NEW x \in {WriteOk(hb.dev, RowWant(q))} \cup WriteFailures(hb.dev, RowWant(q)),
             HbGoes(NextRow, x.dev) \/ TickEnds(x.dev), Shown(x.tank),
             Overwritten(x.tank, q) \ {q} \subseteq foreign'
      PROVE  /\ hb'.at <= now' /\ (held' => held)
             /\ held' /\ hb'.pc # "idle" /\ hb'.at > boost'.at + Grace => hb'.dev.target = Boost
             /\ hb'.pc # "idle" => hb'.at = hb.at /\ hb'.dev = x.dev
             /\ \A r \in Rows \ (foreign \cup foreign') :
                  firstApplied[r] # Never /\ hb'.pc # "idle"
                    => Trailing(r) \/ hb'.dev.target = Target[r]
  <2>1. \/ hb'.pc = "idle" /\ hb'.at = -1
        \/ hb'.at = hb.at /\ hb'.dev = x.dev
    <3>1. CASE HbGoes(NextRow, x.dev)
      BY <1>3, <1>5, <3>1 DEF HbGoes, Ticks
    <3>2. CASE TickEnds(x.dev)
      BY <3>2 DEF TickEnds, HbIdle, Never
    <3> QED BY <1>8, <3>1, <3>2
  <2>2. x.dev.target = hb.dev.target \/ x.dev.target = x.tank.target
    BY <1>3, <1>6, WriteTarget
  <2>3. held' => held /\ x.tank.target = Boost
    BY <1>4, <1>8 DEF Shown
  <2>4. held' /\ hb'.pc # "idle" /\ hb'.at > boost'.at + Grace => hb'.dev.target = Boost
    BY <1>2, <1>4, <2>1, <2>2, <2>3 DEF JInv, Judged
  <2>5. ASSUME NEW r \in Rows \ (foreign \cup foreign'), firstApplied[r] # Never, hb'.pc # "idle"
        PROVE  Trailing(r) \/ hb'.dev.target = Target[r]
    <3>1. tank.target = Target[r]
      BY <2>5 DEF JInv, OInv, Owned
    <3>2. x.tank.target = Target[r]
      <4>1. CASE r = q
        <5>1. x.tank.target = tank.target \/ x.tank.target = RowWant(q).temp
          BY <1>3, <1>6, WriteTarget
        <5> QED BY <1>6, <3>1, <4>1, <5>1
      <4>2. CASE r # q
        BY <1>8, <2>5, <3>1, <4>2 DEF Overwritten
      <4> QED BY <4>1, <4>2
    <3>3. Trailing(r) \/ hb.dev.target = Target[r]
      BY <1>2, <2>5 DEF JInv, Judged
    <3> QED BY <2>1, <2>2, <2>5, <3>2, <3>3
  <2> QED BY <1>3, <1>4, <2>1, <2>3, <2>4, <2>5
<1>9. CASE RowApplied(q)
  <2> DEFINE w == WriteOk(hb.dev, RowWant(q))
  <2>1. /\ HbGoes(NextRow, w.dev) /\ Shown(w.tank)
        /\ foreign' = IF firstApplied[q] = Never /\ w.tank.target = Target[q]
                        THEN Overwritten(w.tank, q) \ {q} ELSE Overwritten(w.tank, q)
        /\ firstApplied' = [firstApplied EXCEPT ![q] = IF @ = Never THEN now ELSE @]
    BY <1>9 DEF RowApplied
  <2>2. Overwritten(w.tank, q) \ {q} \subseteq foreign'
    BY <2>1
  <2>3. w \in {WriteOk(hb.dev, RowWant(q))} \cup WriteFailures(hb.dev, RowWant(q))
    OBVIOUS
  <2>4. /\ hb'.at <= now' /\ (held' => held)
        /\ held' /\ hb'.pc # "idle" /\ hb'.at > boost'.at + Grace => hb'.dev.target = Boost
        /\ hb'.pc # "idle" => hb'.at = hb.at /\ hb'.dev = w.dev
        /\ \A r \in Rows \ (foreign \cup foreign') :
             firstApplied[r] # Never /\ hb'.pc # "idle"
               => Trailing(r) \/ hb'.dev.target = Target[r]
    BY <1>8, <2>1, <2>2, <2>3
  <2>5. w.dev.target = Target[q]
    BY <1>3, WroteTarget
  <2>6. ASSUME NEW r \in Rows \ foreign', firstApplied'[r] # Never, hb'.pc # "idle"
        PROVE  Trailing(r)' \/ hb'.dev.target = Target[r]
    <3>1. CASE r = q
      BY <2>4, <2>5, <2>6, <3>1
    <3>2. CASE r # q
      <4>1. firstApplied'[r] = firstApplied[r] /\ r \notin foreign
        BY <1>3, <2>1, <2>6, <3>2 DEF Overwritten
      <4>2. Trailing(r) => Trailing(r)'
        BY <2>4, <2>6, <4>1 DEF Trailing
      <4> QED BY <2>4, <2>6, <4>1, <4>2
    <3> QED BY <3>1, <3>2
  <2> HIDE DEF w
  <2> QED BY <2>4, <2>6 DEF Judged
<1>10. CASE RowFails(q)
  <2>1. PICK x \in WriteFailures(hb.dev, RowWant(q)) :
          SetTank(x.tank, q) /\ (HbGoes(NextRow, x.dev) \/ TickEnds(x.dev))
    BY <1>10 DEF RowFails
  <2>2. foreign' = Overwritten(x.tank, q) /\ Shown(x.tank) /\ foreign \subseteq foreign'
    BY <2>1 DEF SetTank, Overwritten
  <2>3. firstApplied' = firstApplied
    BY <1>10 DEF RowFails
  <2>4. /\ hb'.at <= now' /\ (held' => held)
        /\ held' /\ hb'.pc # "idle" /\ hb'.at > boost'.at + Grace => hb'.dev.target = Boost
        /\ hb'.pc # "idle" => hb'.at = hb.at /\ hb'.dev = x.dev
        /\ \A r \in Rows \ (foreign \cup foreign') :
             firstApplied[r] # Never /\ hb'.pc # "idle"
               => Trailing(r) \/ hb'.dev.target = Target[r]
    BY <1>8, <2>1, <2>2
  <2>5. ASSUME NEW r \in Rows \ foreign', firstApplied'[r] # Never, hb'.pc # "idle"
        PROVE  Trailing(r)' \/ hb'.dev.target = Target[r]
    <3>1. r \notin foreign /\ (Trailing(r) => Trailing(r)')
      BY <2>2, <2>3, <2>4, <2>5 DEF Trailing
    <3> QED BY <2>2, <2>3, <2>4, <2>5, <3>1
  <2> QED BY <2>4, <2>5 DEF Judged
<1> QED BY <1>1, <1>7, <1>9, <1>10

\* The cloud, the owner and the clock.
LEMMA WorldJudged ==
  ASSUME JInv, Refresh \/ ClockTick \/ OwnerHand
  PROVE  Judged'
<1>1. /\ TypeOK /\ hb \in Ticks /\ now \in Nat /\ hb.at <= now /\ boost.at \in Nat
  BY Numbers DEF JInv, Judged, OInv, SInv, IInv
<1>2. CASE Refresh
  <2>1. hb' = [hb EXCEPT !.alias = FALSE]
        /\ UNCHANGED <<now, firstApplied, boost, held, foreign>>
    BY <1>2 DEF Refresh
  <2>2. hb'.pc = hb.pc /\ hb'.at = hb.at /\ hb'.dev = hb.dev
    BY <1>1, <2>1 DEF Ticks
  <2> QED BY <1>1, <2>1, <2>2, JudgedQuiet
<1>3. CASE ClockTick
  <2>1. hb' = hb /\ hb.pc = "idle" /\ now' = now + 1
    BY <1>3 DEF ClockTick
  <2>2. hb.at \in Int
    <3>1. hb.at \in Times \cup {Never} /\ Times \subseteq Int /\ Never \in Int
      BY <1>1, ClockAssumption DEF Ticks, Times, Never
    <3> QED BY <3>1
  <2>3. hb'.at <= now'
    BY <1>1, <2>1, <2>2
  <2> QED BY <2>1, <2>3 DEF Judged
<1>4. CASE OwnerHand
  <2>1. PICK t \in Hands : OwnerSets(t)
    BY <1>4 DEF OwnerHand
  <2>2. /\ UNCHANGED <<now, hb, firstApplied, boost>>
        /\ held' = ((held \/ api.pc = "temp") /\ [tank EXCEPT !.target = t].target = Boost)
        /\ foreign \subseteq foreign'
    BY <2>1 DEF OwnerSets, SetTank, Shown, Overwritten
  <2>3. held' => boost'.at = boost.at /\ (held \/ boost.at = now)
    BY <2>2 DEF JInv, OInv, SInv, Locked
  <2>4. hb'.pc # "idle" => /\ hb.pc # "idle" /\ hb'.at = hb.at
                           /\ hb'.dev.target = hb.dev.target
    BY <2>2
  <2> QED BY <1>1, <2>2, <2>3, <2>4, JudgedKept
<1> QED BY <1>2, <1>3, <1>4

\* The start of a tick, which takes what the cache has, and its tail.
LEMMA TickJudged ==
  ASSUME JInv, TickStart \/ TickLock \/ TailStep
  PROVE  Judged'
<1>1. /\ TypeOK /\ hb \in Ticks /\ boost \in Boosts /\ now \in Nat /\ hb.at <= now
  BY Numbers DEF JInv, Judged, OInv, SInv, IInv, TypeOK
<1>2. UNCHANGED <<now, firstApplied, held, foreign>> /\ boost'.at = boost.at
  <2>1. UNCHANGED <<now, firstApplied, held, foreign>>
        /\ (boost' = boost \/ boost' = Finish(boost, boost.released) \/ boost' = Released(boost, now))
    BY DEF TickStart, TickLock, TailStep, TailIdle, TailCloses, TailExpires, Expire
  <2> QED BY <1>1, <2>1, BoostDate
<1>3. CASE TickStart
  <2>1. /\ hb' = [pc |-> "ready", row |-> 1, dev |-> cache.dev, at |-> cache.at, alias |-> TRUE]
        /\ cache.at # Never
    BY <1>3 DEF TickStart
  <2>2. hb'.at = cache.at /\ hb'.dev = cache.dev
    BY <2>1
  <2>3. cache.at <= now
    BY DEF JInv, OInv, SInv, Mirrored
  <2>4. held /\ cache.at > boost.at + Grace => cache.dev.target = Boost
    BY DEF JInv, OInv, SInv, Standing
  <2>5. ASSUME NEW r \in Rows \ foreign, firstApplied[r] # Never
        PROVE  Trailing(r)' \/ cache.dev.target = Target[r]
    <3>1. Shows(r)
      BY <2>5 DEF JInv, OInv, Owned
    <3> QED BY <1>2, <2>1, <2>2, <3>1 DEF Shows, Trailing
  <2> QED BY <1>2, <2>2, <2>3, <2>4, <2>5 DEF Judged
<1>4. CASE TickLock
  <2>1. hb' = [hb EXCEPT !.pc = "rows"] /\ hb.pc = "ready"
    BY <1>4 DEF TickLock
  <2>2. hb'.at = hb.at /\ hb'.dev = hb.dev
    BY <1>1, <2>1 DEF Ticks
  <2> QED BY <1>1, <1>2, <2>1, <2>2, JudgedQuiet
<1>5. CASE TailStep
  <2>1. hb' = HbIdle \/ hb' = hb
    BY <1>5 DEF TailStep, TailIdle, TailCloses, TailExpires, TailDone
  <2>2. CASE hb' = HbIdle
    <3>1. hb'.pc = "idle" /\ hb'.at = -1
      BY <2>2 DEF HbIdle, Never
    <3>2. hb'.at <= now
      BY <1>1, <3>1
    <3> QED BY <1>1, <1>2, <3>1, <3>2, JudgedQuiet
  <2>3. CASE hb' = hb
    BY <1>1, <1>2, <2>3, JudgedQuiet
  <2> QED BY <2>1, <2>2, <2>3
<1> QED BY <1>3, <1>4, <1>5

\* The hand-back, and the undo that begins one.
LEMMA HandBackJudged ==
  ASSUME JInv, EbStep \/ Undo
  PROVE  Judged'
<1>1. /\ TypeOK /\ eb \in HandBacks /\ eb.dev \in State /\ eb.want \in Wants
      /\ hb \in Ticks /\ boost \in Boosts /\ now \in Nat /\ hb.at <= now
      /\ (eb.alias => eb.dev = cache.dev) /\ (hb.alias => hb.dev = cache.dev)
  BY Numbers DEF JInv, Judged, OInv, SInv, IInv, Mirrored, TypeOK
<1>2. boost'.at = boost.at
  <2>1. boost' \in {boost, Finish(boost, now), Counted(boost), Released(boost, now)}
    BY DEF EbStep, EbGated, EbRestored, EbCounts, EbWrites, Undo, Expire
  <2> QED BY <1>1, <2>1, BoostDate
\* The tick is over, or goes on with the device object that the hand-back leaves.
<1>3. ASSUME NEW dev \in State, EbLeavesWith(dev)
      PROVE  /\ hb'.at <= now
             /\ hb'.pc # "idle" => /\ hb.pc # "idle" /\ hb'.at = hb.at
                                   /\ hb'.dev = hb.dev \/ (hb'.dev = dev /\ eb.dev = hb.dev)
  <2>1. CASE hb' = HbIdle
    <3>1. hb'.pc = "idle" /\ hb'.at = -1
      BY <2>1 DEF HbIdle, Never
    <3>2. hb'.at <= now
      BY <1>1, <3>1
    <3> QED BY <3>1, <3>2
  <2>2. CASE hb' = hb
    BY <1>1, <2>2
  <2>3. CASE eb.alias /\ hb.alias /\ hb' = [hb EXCEPT !.dev = dev]
    <3>1. hb'.at = hb.at /\ hb'.dev = dev /\ hb'.pc = hb.pc
      BY <1>1, <2>3 DEF Ticks
    <3> QED BY <1>1, <2>3, <3>1
  <2> QED BY <1>3, <2>1, <2>2, <2>3 DEF EbLeavesWith
<1>4. CASE EbGated \/ EbRestored
  <2>1. EbLeavesWith(eb.dev) /\ UNCHANGED <<now, held, foreign, firstApplied>>
    BY <1>4 DEF EbGated, EbRestored, EbLeaves
  <2>2. hb'.at <= now
        /\ (hb'.pc # "idle" => hb.pc # "idle" /\ hb'.at = hb.at /\ hb'.dev = hb.dev)
    BY <1>1, <1>3, <2>1
  <2> QED BY <1>2, <2>1, <2>2, JudgedQuiet
<1>5. CASE EbCounts \/ Undo
  <2>1. UNCHANGED <<now, held, foreign, firstApplied, hb>>
    BY <1>5 DEF EbCounts, Undo
  <2> QED BY <1>1, <1>2, <2>1, JudgedQuiet
<1>6. CASE EbWrites
  <2>1. PICK x \in {WriteOk(eb.dev, eb.want)} \cup WriteFailures(eb.dev, eb.want) :
          SetTank(x.tank, 0) /\ EbLeavesWith(x.dev)
    BY <1>6 DEF EbWrites
  <2>2. eb.pc # "idle" /\ UNCHANGED <<now, firstApplied>>
    BY <1>6 DEF EbWrites
  <2>3. x.dev \in State
    BY <1>1, WritesType
  <2>4. /\ hb'.at <= now
        /\ hb'.pc # "idle" => /\ hb.pc # "idle" /\ hb'.at = hb.at
                              /\ hb'.dev = hb.dev \/ (hb'.dev = x.dev /\ eb.dev = hb.dev)
    BY <1>3, <2>1, <2>3
  <2>5. x.dev.target = eb.dev.target \/ x.dev.target = x.tank.target
    BY <1>1, WriteTarget
  <2>6. held' => held /\ x.tank.target = Boost
    BY <2>1, <2>2 DEF SetTank, Shown, JInv, OInv, SInv, Locked
  <2>7. foreign \subseteq foreign' /\ \A r \in Rows \ foreign' : x.tank.target = Target[r]
    <3>1. 0 \notin Rows
      BY RowsAssumption DEF Rows
    <3>2. foreign' = Overwritten(x.tank, 0)
      BY <2>1 DEF SetTank
    <3>3. ASSUME NEW r \in Rows \ foreign'
          PROVE  x.tank.target = Target[r]
      <4>1. r \notin foreign /\ x.tank.target = tank.target
        BY <3>1, <3>2, <3>3 DEF Overwritten
      <4> QED BY <3>3, <4>1 DEF JInv, OInv, Owned
    <3> QED BY <3>2, <3>3 DEF Overwritten
  <2>8. held' => boost'.at = boost.at /\ (held \/ boost.at = now)
    BY <1>2, <2>6
  <2>9. hb'.pc # "idle" =>
          /\ hb.pc # "idle" /\ hb'.at = hb.at
          /\ \/ hb'.dev.target = hb.dev.target
             \/ /\ held' => hb'.dev.target = Boost
                /\ \A r \in Rows \ foreign' : hb'.dev.target = Target[r]
    <3>1. CASE x.dev.target = eb.dev.target
      BY <2>4, <3>1
    <3>2. CASE x.dev.target = x.tank.target
      BY <2>4, <2>6, <2>7, <3>2
    <3> QED BY <2>5, <3>1, <3>2
  <2>10. foreign \subseteq foreign' /\ hb'.at <= now
    BY <2>4, <2>7
  <2> QED BY <2>2, <2>8, <2>9, <2>10, JudgedKept
<1> QED BY <1>4, <1>5, <1>6 DEF EbStep

\* The boost request, from its gates to its last write.
LEMMA RequestJudged ==
  ASSUME JInv, Request \/ \E p \in BOOLEAN : BoostRequest(p)
  PROVE  Judged'
<1>1. /\ TypeOK /\ tank \in State /\ cache \in Caches /\ hb \in Ticks /\ boost \in Boosts
      /\ now \in Nat /\ hb.at <= now
  BY Numbers DEF JInv, Judged, OInv, SInv, IInv, TypeOK
<1>2. ASSUME NEW p \in BOOLEAN, BoostRequest(p)
      PROVE  Judged'
  <2>1. UNCHANGED <<now, foreign, firstApplied, hb>> /\ ~held'
    BY <1>2 DEF BoostRequest
  <2>2. hb'.pc # "idle" => /\ hb.pc # "idle" /\ hb'.at = hb.at
                           /\ hb'.dev.target = hb.dev.target
    BY <2>1
  <2> QED BY <1>1, <2>1, <2>2, JudgedKept
<1>3. CASE Request
  <2>1. UNCHANGED <<now, firstApplied>> /\ api.pc # "idle" /\ boost.at = now
    BY <1>3 DEF Request, RequestTemp, RequestPowerful, JInv, OInv, SInv, Locked
  <2>2. boost'.at = boost.at
    <3>1. boost' = boost \/ boost' = Finish(boost, now)
      BY <1>3 DEF Request, RequestTemp, RequestPowerful, RequestSucceeds, RequestFails
    <3> QED BY <1>1, <3>1, BoostDate
  <2>3. foreign \subseteq foreign'
    BY <1>3 DEF Request, RequestTemp, RequestPowerful, SetTank, Overwritten
  <2>4. \/ hb' = hb
        \/ hb' = [hb EXCEPT !.dev = [target |-> Boost, powerful |-> TRUE]] /\ api.pc = "powerful"
        \/ /\ hb' = [hb EXCEPT !.dev = [cache.dev EXCEPT !.target = Boost]]
           /\ SetTank([tank EXCEPT !.target = Boost], 0)
    BY <1>3 DEF Request, RequestTemp, RequestPowerful, RequestSucceeds, RequestFails, CacheShows
\* Who has not been written over commands what the boost does.
  <2>5. ASSUME NEW r \in Rows \ foreign', hb' # hb
        PROVE  Target[r] = Boost
    <3>1. r \notin foreign /\ 0 \notin Rows
      BY <2>3, <2>5, RowsAssumption DEF Rows
    <3>2. tank.target = Target[r] /\ (api.pc = "powerful" => Target[r] = Boost)
      BY <2>5, <3>1 DEF JInv, OInv, Owned
    <3>3. CASE SetTank([tank EXCEPT !.target = Boost], 0)
      <4>1. [tank EXCEPT !.target = Boost].target = Boost
        BY <1>1 DEF State
      <4>2. tank.target = Boost
        BY <2>5, <3>1, <3>3, <4>1 DEF SetTank, Overwritten
      <4> QED BY <3>2, <4>2
    <3> QED BY <2>4, <2>5, <3>2, <3>3
  <2>6. /\ hb'.pc = hb.pc /\ hb'.at = hb.at
        /\ hb'.dev.target = hb.dev.target \/ (hb' # hb /\ hb'.dev.target = Boost)
    <3>1. ASSUME NEW d, d.target = Boost, hb' = [hb EXCEPT !.dev = d], hb' # hb
          PROVE  hb'.pc = hb.pc /\ hb'.at = hb.at /\ hb'.dev.target = Boost
      BY <1>1, <3>1 DEF Ticks
    <3>2. [cache.dev EXCEPT !.target = Boost].target = Boost
      BY <1>1 DEF Caches, State
    <3>3. [target |-> Boost, powerful |-> TRUE].target = Boost
      OBVIOUS
    <3>4. CASE hb' = hb
      BY <3>4
    <3>5. CASE hb' # hb
      BY <2>4, <3>1, <3>2, <3>3, <3>5
    <3> QED BY <3>4, <3>5
  <2>7. held' => boost'.at = boost.at /\ (held \/ boost.at = now)
    BY <2>1, <2>2
  <2>8. hb'.pc # "idle" =>
          /\ hb.pc # "idle" /\ hb'.at = hb.at
          /\ \/ hb'.dev.target = hb.dev.target
             \/ /\ held' => hb'.dev.target = Boost
                /\ \A r \in Rows \ foreign' : hb'.dev.target = Target[r]
    BY <2>5, <2>6
  <2>9. hb'.at <= now
    BY <1>1, <2>6
  <2> QED BY <2>1, <2>3, <2>7, <2>8, <2>9, JudgedKept
<1> QED BY <1>2, <1>3

\* The end of the process, and its shutdown: no tick is left.
LEMMA RestartJudged ==
  ASSUME JInv, Crash \/ Shutdown
  PROVE  Judged'
<1>1. hb' = HbIdle /\ now' = now
  BY DEF Crash, Shutdown, MemoryLost
<1>2. hb'.pc = "idle" /\ hb'.at = -1
  BY <1>1 DEF HbIdle, Never
<1>3. now \in Nat
  BY Numbers DEF JInv, OInv, SInv, IInv
<1>4. hb'.at <= now'
  BY <1>1, <1>2, <1>3
<1> QED BY <1>2, <1>4 DEF Judged

\* Every step keeps the invariant.
LEMMA JudgedStep ==
  ASSUME JInv, [Next]_vars
  PROVE  JInv'
<1>1. OInv'
  BY OwnedStep DEF JInv
<1>2. CASE UNCHANGED vars
  <2>1. UNCHANGED <<now, firstApplied, boost, held, hb, foreign>> /\ hb.at <= now
    BY <1>2 DEF vars, JInv, Judged
  <2>2. Judged'
    BY <2>1, JudgedQuiet
  <2> QED BY <1>1, <2>2 DEF JInv
<1> QED
  BY <1>1, <1>2, RowStepJudged, WorldJudged, TickJudged, HandBackJudged, RequestJudged,
     RestartJudged
  DEF Next, Heartbeat, JInv

----------------------------------------------------------------------------
(* The boost is respected, and an override has a cause *)

\* No step lowers the tank under a boost that holds, but those the property names.
LEMMA RespectStep ==
  ASSUME JInv, [Next]_vars, Lowers, boost'.flagged
  PROVE  OwnerHand \/ PaidBoost \/ Misdated
<1>1. /\ TypeOK /\ hb.dev \in State /\ cache.dev \in State /\ tank \in State
      /\ boost.at \in Nat /\ cache.at \in Int /\ Grace \in Nat
  BY Numbers DEF JInv, OInv, SInv, IInv, TypeOK
<1>2. tank'.target < tank.target /\ api.pc = "idle" /\ held /\ HoldingBoost
  BY DEF Lowers
<1>3. tank'.target # tank.target
  <2>1. tank.target \in Int
    BY <1>1 DEF State, Temps, Setback, Boost
  <2> QED BY <1>2, <2>1
<1>4. tank' # tank
  BY <1>3
<1>5. CASE RowStep
  <2>1. PICK r \in Rows : RowApplied(r) \/ RowFails(r)
    BY <1>4, <1>5 DEF RowStep, RowUntouched, RowEnds, RowMatched, RowHeld, RowFlagged
  <2>2. Fires(r)
    BY <2>1 DEF RowApplied, RowFails
  <2>3. hb.pc = "rows" /\ Start[r] <= now /\ now < End[r] /\ ~BoostHolds(r, hb.dev)
    BY <2>2 DEF Fires, Unmatched, Plays, Visiting
  <2>4. RowWant(r) \in Wants /\ RowWant(r).temp = Target[r]
    BY RowWantType DEF RowWant
  <2>5. PICK x \in {WriteOk(hb.dev, RowWant(r))} \cup WriteFailures(hb.dev, RowWant(r)) :
          Shown(x.tank)
    BY <2>1 DEF RowApplied, RowFails, SetTank
  <2>6. tank'.target = Target[r] /\ Target[r] < Boost
    BY <1>1, <1>2, <2>4, <2>5, LowersTo
  <2>7. CASE Powerful[r]
    BY <2>3, <2>6, <2>7 DEF PaidBoost
  <2>8. CASE ~Powerful[r]
    <3>1. ReadAfterBoost /\ hb.dev.target < Boost
      BY <1>2, <2>3, <2>6, <2>8 DEF BoostHolds, BoostInEffect
    <3>2. ~(hb.at > boost.at + Grace)
      <4>1. hb.dev.target # Boost
        BY <3>1 DEF Boost
      <4> QED BY <1>2, <2>3, <4>1 DEF JInv, Judged
    <3>3. hb.at <= boost.at + Grace
      <4>1. hb.at \in Times \cup {Never} /\ Times \subseteq Int /\ Never \in Int
        BY <1>1, ClockAssumption DEF TypeOK, Ticks, Times, Never
      <4>2. hb.at \in Int
        BY <4>1
      <4>3. boost.at + Grace \in Int
        BY <1>1
      <4> QED BY <3>2, <4>2, <4>3
    <3> QED BY <2>3, <3>1, <3>3 DEF Misdated, ReadAfterBoost
  <2> QED BY <2>7, <2>8
<1>6. CASE Shutdown
  <2>1. ~ShutdownSkips
    BY <1>4, <1>6 DEF Shutdown
  <2>2. Owner \in Rows /\ Powerful[Owner] /\ Start[Owner] <= now /\ now < End[Owner]
    BY <1>2, <2>1, BoostOwns DEF ShutdownSkips, JInv, OInv
  <2>3. ScheduledWant = RowWant(Owner)
    BY <2>2 DEF ScheduledWant
  <2>4. RowWant(Owner) \in Wants /\ RowWant(Owner).temp = Target[Owner]
    BY <2>2, RowWantType DEF RowWant
  <2>5. PICK dev \in {tank, echo} :
          \E w \in {WriteOk(dev, ScheduledWant)} \cup WriteFailures(dev, ScheduledWant) :
            SetTank(w.tank, 0)
    BY <1>4, <1>6 DEF Shutdown
  <2>6. PICK x \in {WriteOk(dev, ScheduledWant)} \cup WriteFailures(dev, ScheduledWant) :
          SetTank(x.tank, 0)
    BY <2>5
  <2>7. dev \in State
    BY <1>1 DEF TypeOK
  <2>8. tank'.target = Target[Owner]
    BY <1>1, <1>2, <2>3, <2>4, <2>6, <2>7, LowersTo DEF SetTank
  <2> QED BY <2>2, <2>8 DEF PaidBoost
<1>7. CASE EbStep
  <2>1. eb.pc = "write" /\ ~boost.flagged
    BY <1>4, <1>7 DEF EbStep, EbGated, EbRestored, EbCounts, EbWrites, JInv, OInv, SInv, IInv, Budgeted
  <2> QED BY <1>2, <2>1 DEF HoldingBoost
<1>8. CASE Request
  BY <1>2, <1>8 DEF Request, RequestTemp, RequestPowerful
<1>9. UNCHANGED tank \/ RowStep \/ Shutdown \/ EbStep \/ Request \/ OwnerHand
  BY DEF Next, vars, Heartbeat, TickStart, TickLock, TailStep, TailIdle, TailCloses, TailExpires,
     Undo, Refresh, ClockTick, Crash, BoostRequest
<1> QED BY <1>4, <1>5, <1>6, <1>7, <1>8, <1>9

\* The boost is "a one-tap tank boost the plan RESPECTS" (dhw_boost.py): for any rows,
\* lengths, lags and faults, nothing but its end, the owner, a paid Powerful row or the
\* misdated reading lowers the tank while it holds.
THEOREM Respected == Spec => BoostRespected
<1>1. JInv /\ [Next]_vars => [Lowers /\ boost'.flagged => OwnerHand \/ PaidBoost \/ Misdated]_vars
  BY RespectStep
<1>2. JInv /\ [Next]_vars => JInv'
  BY JudgedStep
<1> QED BY <1>1, <1>2, JudgedInit, PTL DEF Spec, BoostRespected

\* A row is flagged only after its target was written over, but for a device
\* object read while the cloud trailed the first play.
LEMMA CauseStep ==
  ASSUME JInv, [Next]_vars, NEW r \in Rows, FlagsUncaused(r)
  PROVE  Trailing(r)
<1>1. rows'[r].over # rows[r].over /\ ~Inherits(r) /\ r \notin foreign
  BY DEF FlagsUncaused
<1>2. TypeOK /\ rows \in [Rows -> [status: Statuses, over: Times \cup {Never}]]
  BY DEF JInv, OInv, SInv, IInv, TypeOK
<1>3. RowStep
  <2>1. rows' # rows
    BY <1>1
  <2>2. UNCHANGED rows \/ RowStep
    BY DEF Next, vars, Heartbeat, TickStart, TickLock, TailStep, TailIdle, TailCloses, TailExpires,
       Undo, Refresh, ClockTick, Crash, BoostRequest, EbStep, EbGated, EbRestored, EbCounts,
       EbWrites, Request, RequestTemp, RequestPowerful, OwnerHand, OwnerSets, Shutdown
  <2> QED BY <2>1, <2>2
<1>4. PICK q \in Rows : \/ RowUntouched(q) \/ RowEnds(q) \/ RowMatched(q) \/ RowHeld(q)
                        \/ RowFlagged(q) \/ RowApplied(q) \/ RowFails(q)
  BY <1>3 DEF RowStep
<1>5. RowFlagged(q)
  <2>1. ASSUME NEW st, rows' = [rows EXCEPT ![q].status = st]
        PROVE  FALSE
    BY <1>1, <1>2, <2>1
  <2>2. CASE RowUntouched(q)
    BY <1>1, <2>2 DEF RowUntouched
  <2>3. CASE RowEnds(q) \/ RowMatched(q) \/ RowHeld(q) \/ RowApplied(q) \/ RowFails(q)
    BY <2>1, <2>3 DEF RowEnds, RowMatched, RowHeld, RowApplied, RowFails
  <2> QED BY <1>4, <2>2, <2>3
<1>6. q = r
  BY <1>1, <1>2, <1>5 DEF RowFlagged
<1>7. firstApplied[r] # Never /\ hb.dev.target # Target[r]
  BY <1>1, <1>5, <1>6 DEF RowFlagged, Detects
<1>8. hb.pc # "idle"
  BY <1>5, <1>6 DEF RowFlagged, Unmatched, Plays, Visiting
<1> QED BY <1>1, <1>7, <1>8 DEF JInv, Judged

\* HEM never takes its own writes for the owner's (detect_user_override): for any rows,
\* lags and faults, a row is flagged as overridden only after another hand changed the
\* target it had set, but for the readings the property excepts.
THEOREM Causes == Spec => OverrideHasCause
<1>1. JInv /\ [Next]_vars => [\A r \in Rows : FlagsUncaused(r) => Trailing(r)]_vars
  BY CauseStep
<1>2. JInv /\ [Next]_vars => JInv'
  BY JudgedStep
<1> QED BY <1>1, <1>2, JudgedInit, PTL DEF Spec, OverrideHasCause
=============================================================================
