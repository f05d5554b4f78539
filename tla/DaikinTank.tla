----------------------------- MODULE DaikinTank ------------------------------
(***************************************************************************)
(* The hot-water tank: the heartbeat that plays the day's action_schedule  *)
(* rows onto it (_reconcile_daikin_actions, state_machine.py), the         *)
(* household's "Banho extra" boost (dhw_boost.py) and its hand-back        *)
(* (end_user_boost), the owner's own hand in the Onecta app, and the tank  *)
(* leg of apply_safe_defaults.                                             *)
(*                                                                         *)
(* HEM never sees the tank: it sees `cache', the last answer of a cloud    *)
(* whose value may lag a write by Lag units, and every decision of a tick  *)
(* is taken on `hb.dev', the device object the tick picked up before it    *)
(* took TANK_WRITE_LOCK. That object is the cached one until a refresh     *)
(* swaps the list under it (hb.alias).                                     *)
(*                                                                         *)
(* The clock counts fractions of the override grace. A tick, or a call of  *)
(* the API, is shorter than its unit, so the clock stands still in one.    *)
(* At MaxTime it stands for every later instant.                           *)
(***************************************************************************)
EXTENDS Integers, Sequences, FiniteSets

CONSTANTS
  NumRows,      \* plan rows 1..NumRows, in the order (start_time, id)
  Start, End,   \* their windows: start <= t < end
  Target,       \* the tank target each commands
  Powerful,     \* does it command Powerful (tank_negative_boost)
  Day,          \* the local plan date it is filed under
  DayLength,    \* clock units in a day
  Standoff,     \* instants of the legionella stand-off
  Hold,         \* length of a boost (USER_OVERRIDE_RESPECT_HOURS)
  Grace,        \* DAIKIN_OVERRIDE_GRACE_SECONDS, and the boost's read margin
  Lag,          \* how long the cloud's answer may trail a write
  Backoff,      \* _BOOST_RESTORE_BACKOFF_MIN
  GiveUp,       \* _BOOST_RESTORE_GIVE_UP_HOURS
  Hands,        \* targets the owner may set
  MaxTime,      \* bound: the clock
  MaxBoosts,    \* bound: boosts requested
  MaxTroubles   \* bound: failed calls, crashes, shutdowns and targets set by the
                \* owner, together

Rows  == 1..NumRows
Times == 0..MaxTime
Setback == 1
Normal  == 2
Boost   == 3
Temps == Setback..Boost
Never == -1

ASSUME RowsAssumption ==
  /\ NumRows \in Nat
  /\ Start \in [Rows -> Nat] /\ End \in [Rows -> Nat] /\ Day \in [Rows -> Nat]
  /\ Target \in [Rows -> Temps] /\ Powerful \in [Rows -> BOOLEAN]
ASSUME ClockAssumption ==
  /\ DayLength \in Nat \ {0} /\ Standoff \subseteq Nat
  /\ {Hold, Grace, Lag, GiveUp, MaxTime} \subseteq Nat
  /\ Backoff \in Seq(Nat) /\ Len(Backoff) > 0
\* The grace is there to avoid "false positives from cloud-echo lag right after our own
\* write" (detect_user_override); the boost's read margin is no shorter.
ASSUME LagAssumption == Lag <= Grace
ASSUME BoundsAssumption == {MaxBoosts, MaxTroubles} \subseteq Nat /\ Hands \subseteq Temps

VARIABLES
  now,          \* the clock
  tank,         \* what the tank is really set to
  echo,         \* the oldest setting a read of the cloud may still return
  lagged,       \* how long the echo has trailed the tank
  cache,        \* the cached device, and when it was read (at = Never: cold)
  rows,         \* the plan rows: status, and when flagged user-overridden
  firstApplied, \* _FIRST_APPLIED_SESSION
  boost,        \* the newest tank_user_boost row
  hb,           \* the heartbeat: where it is, its row, its device object (history: when
                \* that was read)
  api,          \* the boost request being written
  eb,           \* end_user_boost in progress, for whom, on which device object
  budget,       \* how often each bounded event has happened
  foreign,      \* history: rows whose target another hand wrote over
  held,         \* history: the newest boost's target has been on the tank ever since
  attempts      \* history: hand-back writes sent for the newest boost

vars == <<now, tank, echo, lagged, cache, rows, firstApplied, boost, hb, api, eb,
          budget, foreign, held, attempts>>

State    == [target: Temps, powerful: BOOLEAN]
NoDevice == [target |-> Normal, powerful |-> FALSE]
Statuses == {"pending", "active", "completed", "failed"}
HbIdle   == [pc |-> "idle", row |-> 1, dev |-> NoDevice, at |-> Never, alias |-> FALSE]
ApiIdle  == [pc |-> "idle", baseline |-> Normal]

\* The fields a write carries; the others are left as they are.
Wants == [keys: SUBSET {"temp", "powerful"}, temp: Temps, powerful: BOOLEAN]
Nothing == [keys |-> {}, temp |-> Normal, powerful |-> FALSE]
EbIdle  == [pc |-> "idle", who |-> "hb", want |-> Nothing, dev |-> NoDevice,
            alias |-> FALSE]

Caches == [dev: State, at: Times \cup {Never}]
Boosts == [status: {"none", "active", "completed"}, flagged: BOOLEAN,
           at: Times, end: Nat, powerful: BOOLEAN,
           released: Times \cup {Never}, last: Times \cup {Never},
           tries: 0..Len(Backoff)]
Ticks  == [pc: {"idle", "ready", "rows"}, row: 1..(NumRows + 1),
           dev: State, at: Times \cup {Never}, alias: BOOLEAN]
HandBacks == [pc: {"idle", "decide", "write"}, who: {"hb", "api"}, want: Wants,
              dev: State, alias: BOOLEAN]

TypeOK ==
  /\ now \in Times
  /\ tank \in State /\ echo \in State
  /\ lagged \in 0..Lag
  /\ cache \in Caches
  /\ rows \in [Rows -> [status: Statuses, over: Times \cup {Never}]]
  /\ firstApplied \in [Rows -> Times \cup {Never}]
  /\ boost \in Boosts
  /\ hb \in Ticks
  /\ api \in [pc: {"idle", "temp", "powerful"}, baseline: Temps]
  /\ eb \in HandBacks
  /\ budget \in [boosts: 0..MaxBoosts, troubles: 0..MaxTroubles]
  /\ foreign \subseteq Rows
  /\ held \in BOOLEAN
  /\ attempts \in Nat

Init ==
  /\ now = 0
  /\ tank = NoDevice /\ echo = NoDevice /\ lagged = 0
  /\ cache = [dev |-> NoDevice, at |-> Never]
  /\ rows = [r \in Rows |-> [status |-> "pending", over |-> Never]]
  /\ firstApplied = [r \in Rows |-> Never]
  /\ boost = [status |-> "none", flagged |-> FALSE, at |-> 0, end |-> 0,
              powerful |-> FALSE, released |-> Never, last |-> Never, tries |-> 0]
  /\ hb = HbIdle /\ api = ApiIdle /\ eb = EbIdle
  /\ budget = [boosts |-> 0, troubles |-> 0]
  /\ foreign = Rows /\ held = FALSE /\ attempts = 0

LockFree == hb.pc \in {"idle", "ready"} /\ api.pc = "idle" /\ eb.pc = "idle"
Today    == now \div DayLength

Trouble == /\ budget.troubles < MaxTroubles
           /\ budget' = [budget EXCEPT !.troubles = @ + 1]

----------------------------------------------------------------------------
(* Writing the tank *)

RowWant(r) == [keys |-> {"temp", "powerful"}, temp |-> Target[r], powerful |-> Powerful[r]]

\* daikin_device_matches_params
Matches(dev, w) == /\ "temp" \in w.keys => dev.target = w.temp
                   /\ "powerful" \in w.keys => dev.powerful = w.powerful

\* apply_scheduled_daikin_params sends only the fields in which the device
\* object differs, the target before Powerful.
SendsTemp(dev, w)     == "temp" \in w.keys /\ dev.target # w.temp
SendsPowerful(dev, w) == "powerful" \in w.keys /\ dev.powerful # w.powerful
WithTemp(s, dev, w) ==
  IF SendsTemp(dev, w) THEN [s EXCEPT !.target = w.temp] ELSE s
WithBoth(s, dev, w) ==
  IF SendsPowerful(dev, w) THEN [WithTemp(s, dev, w) EXCEPT !.powerful = w.powerful]
                           ELSE WithTemp(s, dev, w)

\* Writing w through device object dev: what it does to the tank and to dev.
WriteUnpredicted(dev, w) == [tank |-> WithBoth(tank, dev, w), dev |-> dev]
WriteOk(dev, w)     == [tank |-> WithBoth(tank, dev, w), dev |-> WithBoth(dev, dev, w)]
\* A failure stops at the field that failed; its answer may be the lost part.
WriteFailures(dev, w) ==
  (IF SendsTemp(dev, w) THEN {[tank |-> tank, dev |-> dev],
                              [tank |-> WithTemp(tank, dev, w), dev |-> dev]} ELSE {})
  \cup
  (IF SendsPowerful(dev, w) THEN {[tank |-> WithTemp(tank, dev, w), dev |-> WithTemp(dev, dev, w)],
                                  [tank |-> WithBoth(tank, dev, w), dev |-> WithTemp(dev, dev, w)]}
                            ELSE {})

\* A write the cloud is about to show is shown before the next one is made. The
\* boost's own request puts its target on the tank; any other write may take it off.
Shown(s) ==
  /\ tank' = s
  /\ held' = ((held \/ api.pc = "temp") /\ s.target = Boost)
  /\ IF s # tank /\ echo # tank /\ lagged = Lag
       THEN echo' = tank /\ lagged' = 0
       ELSE UNCHANGED <<echo, lagged>>
\* The rows whose target is overwritten when row r's hand (0: anyone else's)
\* leaves the tank as s.
Overwritten(s, r) == IF s.target = tank.target THEN foreign ELSE foreign \cup (Rows \ {r})
\* The tank becomes s by the hand of row r.
SetTank(s, r) == Shown(s) /\ foreign' = Overwritten(s, r)

\* The heartbeat goes to h, its device object changed in place to dev; the
\* cache changes with it as long as it holds that object.
HbGoes(h, dev) ==
  /\ hb' = [h EXCEPT !.dev = dev]
  /\ cache' = IF hb.alias THEN [cache EXCEPT !.dev = dev] ELSE cache
\* The tick ends; its device object stays in the cache as changed.
TickEnds(dev) ==
  /\ hb' = HbIdle
  /\ cache' = IF hb.alias THEN [cache EXCEPT !.dev = dev] ELSE cache
\* A write through the cached object, and note_predicted_tank_state.
CacheShows(dev) ==
  /\ cache' = IF cache.at = Never THEN cache ELSE [cache EXCEPT !.dev = dev]
  /\ hb' = IF hb.alias THEN [hb EXCEPT !.dev = dev] ELSE hb

----------------------------------------------------------------------------
(* The cloud, the owner and the clock *)

\* _do_refresh puts a new list of devices in the cache, once in a clock unit
\* (the anti-burst floor between two reads). The answer may trail.
Refresh ==
  /\ cache.at # now \/ now = MaxTime
  /\ \E s \in {tank, echo} : cache' = [dev |-> s, at |-> now]
  /\ hb' = [hb EXCEPT !.alias = FALSE] /\ eb' = [eb EXCEPT !.alias = FALSE]
  /\ UNCHANGED <<now, tank, echo, lagged, rows, firstApplied, boost, api,
                 budget, foreign, held, attempts>>

\* The owner sets a target in the Onecta app.
OwnerSets(t) ==
  /\ Trouble /\ t # tank.target
  /\ SetTank([tank EXCEPT !.target = t], 0)
  /\ UNCHANGED <<now, cache, rows, firstApplied, boost, hb, api, eb, attempts>>

\* Time passes between ticks; a write is shown once it is older than Lag.
ClockTick ==
  /\ now < MaxTime
  /\ hb.pc = "idle" /\ LockFree
  /\ now' = now + 1
  /\ IF echo # tank /\ lagged < Lag
       THEN lagged' = lagged + 1 /\ UNCHANGED echo
       ELSE lagged' = 0 /\ echo' = tank
  /\ UNCHANGED <<tank, cache, rows, firstApplied, boost, hb, api, eb,
                 budget, foreign, held, attempts>>

----------------------------------------------------------------------------
(* Who owns the tank *)

\* get_active_user_boost_rows: flagged, or released and not handed back.
FlaggedBoost == boost.status = "active" /\ boost.flagged
ActiveBoost == boost.status = "active"
\* _active_boost_row: the row that holds the plan.
HoldingBoost == ActiveBoost /\ boost.flagged /\ boost.end > now

\* A read well after the boost that shows a lower target ends the hold.
ReadSinceBoost   == cache.at >= boost.at
ReadAfterBoost   == cache.at > boost.at + Grace
BoostInEffect(dev) == ~(ReadAfterBoost /\ dev.target < Boost)
\* _boost_holds_row
BoostHolds(r, dev) == /\ HoldingBoost /\ ~Powerful[r]
                      /\ BoostInEffect(dev)
                      /\ Target[r] < Boost

\* _scheduled_tank_state: of the rows of today and yesterday that cover now,
\* whatever their status, boosts go first and then the latest start. Row 0
\* stands for the boost row.
BoostCovers == boost.status # "none" /\ boost.at <= now /\ now < boost.end
Covering == {r \in Rows : Start[r] <= now /\ now < End[r] /\ Day[r] \in {Today - 1, Today}}
              \cup (IF BoostCovers THEN {0} ELSE {})
IsBoost(r) == r = 0 \/ Powerful[r]
From(r)    == IF r = 0 THEN boost.at ELSE Start[r]
Outranks(r, s) == IF IsBoost(r) = IsBoost(s) THEN From(r) >= From(s) ELSE IsBoost(r)
NoRow == NumRows + 1
Owner == IF Covering = {} THEN NoRow
         ELSE CHOOSE r \in Covering : \A s \in Covering : Outranks(r, s)
RowOverridden(r) == IF r = 0 THEN boost.flagged ELSE rows[r].over # Never
OwnerOverridden  == Owner # NoRow /\ RowOverridden(Owner)
ScheduledWant == IF Owner \in Rows THEN RowWant(Owner)
                 ELSE [keys |-> {"temp", "powerful"}, temp |-> Normal, powerful |-> FALSE]

----------------------------------------------------------------------------
(* The heartbeat: _reconcile_daikin_actions *)

TickStart ==
  /\ hb.pc = "idle" /\ cache.at # Never
  /\ hb' = [pc |-> "ready", row |-> 1, dev |-> cache.dev, at |-> cache.at, alias |-> TRUE]
  /\ UNCHANGED <<now, tank, echo, lagged, cache, rows, firstApplied, boost, api, eb,
                 budget, foreign, held, attempts>>

TickLock ==
  /\ hb.pc = "ready" /\ LockFree
  /\ hb' = [hb EXCEPT !.pc = "rows"]
  /\ UNCHANGED <<now, tank, echo, lagged, cache, rows, firstApplied, boost, api, eb,
                 budget, foreign, held, attempts>>

\* Rows are visited in order; only those filed under today are read.
Visiting(r) == hb.pc = "rows" /\ hb.row = r
Open(r)     == rows[r].status \in {"pending", "active"}
Flagged(r)  == rows[r].over # Never
\* MUTANT of Ends: a row whose window the heartbeat has missed stays pending.
EndsPlayed(r) == now >= End[r] /\ rows[r].status = "active"
\* The window is over, flagged or not.
Ends(r)     == now >= End[r]
ReadToday(r) == Day[r] = Today
NextRow     == [hb EXCEPT !.row = @ + 1]

\* The row is to be played now.
Plays(r) == /\ Visiting(r) /\ ReadToday(r) /\ Open(r) /\ ~Flagged(r)
            /\ Start[r] <= now /\ now < End[r] /\ now \notin Standoff

RowUntouched(r) ==
  /\ Visiting(r)
  /\ \/ ~ReadToday(r) \/ ~Open(r) \/ now < Start[r]
     \/ ~Ends(r) /\ ~Plays(r)
  /\ hb' = NextRow
  /\ UNCHANGED <<now, tank, echo, lagged, cache, rows, firstApplied, boost, api, eb,
                 budget, foreign, held, attempts>>

RowEnds(r) ==
  /\ Visiting(r) /\ ReadToday(r) /\ Open(r) /\ Ends(r)
  /\ rows' = [rows EXCEPT ![r].status = "completed"]
  /\ hb' = NextRow
  /\ UNCHANGED <<now, tank, echo, lagged, cache, firstApplied, boost, api, eb,
                 budget, foreign, held, attempts>>

\* Pre-fire idempotency.
RowMatched(r) ==
  /\ Plays(r) /\ Matches(hb.dev, RowWant(r))
  /\ rows' = [rows EXCEPT ![r].status = "completed"]
  /\ hb' = NextRow
  /\ UNCHANGED <<now, tank, echo, lagged, cache, firstApplied, boost, api, eb,
                 budget, foreign, held, attempts>>

Unmatched(r) == Plays(r) /\ ~Matches(hb.dev, RowWant(r))

\* prefire_boost_hold: the row stays active, unflagged.
RowHeld(r) ==
  /\ Unmatched(r) /\ BoostHolds(r, hb.dev)
  /\ rows' = [rows EXCEPT ![r].status = "active"]
  /\ hb' = NextRow
  /\ UNCHANGED <<now, tank, echo, lagged, cache, firstApplied, boost, api, eb,
                 budget, foreign, held, attempts>>

\* find_recent_user_override (a boost row is never a source): the newest flag
\* within the respect hours, or on a row whose window is still open.
Sources == {s \in Rows : Flagged(s) /\ (rows[s].over >= now - Hold \/ End[s] > now)}
Newest(s) == s \in Sources /\ \A q \in Sources : rows[q].over <= rows[s].over
Inherits(r) == \E s \in Rows \ {r} : Newest(s) /\ ~Matches(hb.dev, RowWant(s))

\* detect_user_override: after the grace, a target that is not the row's.
PastGrace(r) == now - firstApplied[r] >= Grace
Detects(r) == firstApplied[r] # Never /\ PastGrace(r) /\ hb.dev.target # Target[r]

RowFlagged(r) ==
  /\ Unmatched(r) /\ ~BoostHolds(r, hb.dev) /\ (Inherits(r) \/ Detects(r))
  /\ rows' = [rows EXCEPT ![r] = [status |-> "active", over |-> now]]
  /\ hb' = NextRow
  /\ UNCHANGED <<now, tank, echo, lagged, cache, firstApplied, boost, api, eb,
                 budget, foreign, held, attempts>>

Fires(r) == Unmatched(r) /\ ~BoostHolds(r, hb.dev) /\ ~Inherits(r) /\ ~Detects(r)

\* The row stays active; its first success anchors the grace.
RowApplied(r) ==
  /\ Fires(r)
  /\ LET w == WriteOk(hb.dev, RowWant(r))
     IN  /\ HbGoes(NextRow, w.dev)
         /\ Shown(w.tank)
         /\ foreign' = IF firstApplied[r] = Never /\ w.tank.target = Target[r]
                         THEN Overwritten(w.tank, r) \ {r} ELSE Overwritten(w.tank, r)
  /\ rows' = [rows EXCEPT ![r].status = "active"]
  /\ firstApplied' = [firstApplied EXCEPT ![r] = IF @ = Never THEN now ELSE @]
  /\ UNCHANGED <<now, boost, api, eb, budget, attempts>>

\* A DaikinError fails the row; another exception ends the tick with the row
\* active and the rest of the tick undone.
RowFails(r) ==
  /\ Fires(r) /\ Trouble
  /\ \E w \in WriteFailures(hb.dev, RowWant(r)) :
       /\ SetTank(w.tank, r)
       /\ \/ /\ rows' = [rows EXCEPT ![r].status = "failed"]
             /\ HbGoes(NextRow, w.dev)
          \/ /\ rows' = [rows EXCEPT ![r].status = "active"]
             /\ TickEnds(w.dev)
  /\ UNCHANGED <<now, firstApplied, boost, api, eb, attempts>>

RowStep == \E r \in Rows : \/ RowUntouched(r) \/ RowEnds(r) \/ RowMatched(r) \/ RowHeld(r)
                           \/ RowFlagged(r) \/ RowApplied(r) \/ RowFails(r)

----------------------------------------------------------------------------
(* The end of a boost: _check_one_boost_row, end_user_boost *)

\* _scheduled_tank_state returns a row that started after the release and that
\* HEM has played.
Superseded == /\ Owner \in Rows /\ ~OwnerOverridden
              /\ rows[Owner].status \in {"active", "completed"}
              /\ Start[Owner] >= boost.released
Spent     == boost.tries >= Len(Backoff)
Abandoned == now - boost.released > GiveUp \/ Spent
\* MaxTime stands for instants as late as one likes.
BackedOff == IF boost.tries = 0 \/ Spent \/ now = MaxTime THEN TRUE
             ELSE now >= boost.last + Backoff[boost.tries + 1] - Backoff[boost.tries]

Released(b, t)  == [b EXCEPT !.flagged = FALSE,
                             !.end      = IF b.flagged THEN t ELSE @,
                             !.released = IF b.flagged THEN t ELSE @]
\* expire_user_boost: the release is stamped once.
Expire(b) == Released(b, now)
\* finish_user_boost
Finish(b, t) == [b EXCEPT !.status = "completed", !.flagged = FALSE, !.end = t]

\* After the last row. The checks in between see to tank power, escalated
\* rows, Powerful and LWT, none of which this module keeps.
AtTail   == hb.pc = "rows" /\ hb.row = NumRows + 1
TailDone == AtTail /\ hb' = HbIdle

\* No boost to see to, or nothing to do for it yet.
TailIdle ==
  /\ TailDone /\ eb.pc = "idle"
  /\ \/ ~ActiveBoost
     \/ now < boost.end
     \/ ~boost.flagged /\ ~Superseded /\ ~Abandoned /\ ~BackedOff
  /\ UNCHANGED <<now, tank, echo, lagged, cache, rows, firstApplied, boost, api, eb,
                 budget, foreign, held, attempts>>

TailCloses ==
  /\ TailDone /\ eb.pc = "idle" /\ ActiveBoost /\ now >= boost.end
  /\ ~boost.flagged /\ (Superseded \/ Abandoned)
  /\ boost' = Finish(boost, boost.released)
  /\ UNCHANGED <<now, tank, echo, lagged, cache, rows, firstApplied, api, eb,
                 budget, foreign, held, attempts>>

EbBegins(who, dev, alias) ==
  [pc |-> "decide", who |-> who, want |-> Nothing, dev |-> dev, alias |-> alias]

TailExpires ==
  /\ AtTail /\ eb.pc = "idle" /\ ActiveBoost /\ now >= boost.end
  /\ boost.flagged \/ (~Superseded /\ ~Abandoned /\ BackedOff)
  /\ boost' = Expire(boost)
  /\ eb' = EbBegins("hb", hb.dev, hb.alias)
  /\ UNCHANGED <<now, tank, echo, lagged, cache, rows, firstApplied, hb, api,
                 budget, foreign, held, attempts>>

\* dhw_boost.undo
Undo ==
  /\ LockFree /\ HoldingBoost /\ cache.at # Never /\ now \notin Standoff
  /\ boost' = Expire(boost)
  /\ eb' = EbBegins("api", cache.dev, TRUE)
  /\ UNCHANGED <<now, tank, echo, lagged, cache, rows, firstApplied, hb, api,
                 budget, foreign, held, attempts>>

\* end_user_boost leaves: the tick is over, or the request is answered.
EbLeavesWith(dev) ==
  /\ eb' = EbIdle
  /\ cache' = IF eb.alias THEN [cache EXCEPT !.dev = dev] ELSE cache
  /\ hb' = IF eb.who = "hb" THEN HbIdle
           ELSE IF eb.alias /\ hb.alias THEN [hb EXCEPT !.dev = dev] ELSE hb
EbLeaves == EbLeavesWith(eb.dev)

\* What the hand-back commands. A target the owner set is his to keep, but a
\* Powerful that HEM switched on is cleared; a Powerful it never switched on
\* is not sent.
HandBackWant ==
  IF OwnerOverridden
    THEN IF boost.powerful THEN [Nothing EXCEPT !.keys = {"powerful"}] ELSE Nothing
    ELSE IF ~boost.powerful /\ ~ScheduledWant.powerful
           THEN [ScheduledWant EXCEPT !.keys = {"temp"}] ELSE ScheduledWant

\* Legionella stand-off (and, alike, read-only, passive mode, quota, holiday):
\* the row stays active and pending.
EbGated ==
  /\ eb.pc = "decide" /\ now \in Standoff
  /\ EbLeaves
  /\ UNCHANGED <<now, tank, echo, lagged, rows, firstApplied, boost, api,
                 budget, foreign, held, attempts>>

\* Nothing of ours to write, or the device object matches: closed.
EbRestored ==
  /\ eb.pc = "decide" /\ now \notin Standoff
  /\ Matches(eb.dev, HandBackWant)
  /\ boost' = Finish(boost, now)
  /\ EbLeaves
  /\ UNCHANGED <<now, tank, echo, lagged, rows, firstApplied, api,
                 budget, foreign, held, attempts>>

\* _count_restore_attempt comes before the write.
Uncounted(b) == [b EXCEPT !.last = now]
Counted(b)   == [b EXCEPT !.tries = @ + 1, !.last = now]
EbCounts ==
  /\ eb.pc = "decide" /\ now \notin Standoff
  /\ ~Matches(eb.dev, HandBackWant)
  /\ boost' = Counted(boost)
  /\ eb' = [eb EXCEPT !.pc = "write", !.want = HandBackWant]
  /\ UNCHANGED <<now, tank, echo, lagged, cache, rows, firstApplied, hb, api,
                 budget, foreign, held, attempts>>

\* Written and closed; or failed, whatever the exception, and pending.
EbWrites ==
  /\ eb.pc = "write"
  /\ \/ LET w == WriteOk(eb.dev, eb.want)
        IN  /\ SetTank(w.tank, 0)
            /\ boost' = Finish(boost, now)
            /\ EbLeavesWith(w.dev)
            /\ UNCHANGED budget
     \/ \E w \in WriteFailures(eb.dev, eb.want) :
            /\ Trouble
            /\ SetTank(w.tank, 0)
            /\ EbLeavesWith(w.dev)
            /\ UNCHANGED boost
  /\ attempts' = attempts + 1
  /\ UNCHANGED <<now, rows, firstApplied, api>>

TailStep == TailIdle \/ TailCloses \/ TailExpires
EbStep   == EbGated \/ EbRestored \/ EbCounts \/ EbWrites

----------------------------------------------------------------------------
(* The boost request: dhw_boost.apply, under TANK_WRITE_LOCK throughout *)

\* Gates and the atomic INSERT of an active, flagged row. p: the gap is inside
\* the firmware's reheat differential, so Powerful is needed. (The bound keeps
\* room on the clock for the hold and the give-up horizon.)
BoostRequest(p) ==
  /\ budget.boosts < MaxBoosts /\ now + Hold + GiveUp + 1 < MaxTime
  /\ LockFree /\ cache.at # Never /\ now \notin Standoff
  /\ ~ActiveBoost
  /\ cache.dev.target < Boost \/ p
  /\ budget' = [budget EXCEPT !.boosts = @ + 1]
  /\ boost' = [status |-> "active", flagged |-> TRUE, at |-> now, end |-> now + Hold,
               powerful |-> p, released |-> Never, last |-> Never, tries |-> 0]
  /\ api' = [pc |-> "temp", baseline |-> cache.dev.target]
  /\ held' = FALSE /\ attempts' = 0
  /\ UNCHANGED <<now, tank, echo, lagged, cache, rows, firstApplied, hb, eb, foreign>>

\* A DaikinError closes the row; another exception leaves it active.
RequestFails ==
  /\ Trouble
  /\ api' = ApiIdle
  /\ boost' = Finish(boost, now) \/ UNCHANGED boost
  /\ UNCHANGED <<cache, hb>>

RequestSucceeds(dev) ==
  /\ api' = ApiIdle
  /\ CacheShows(dev)
  /\ UNCHANGED <<boost, budget>>

RequestTemp ==
  /\ api.pc = "temp"
  /\ \/ /\ SetTank([tank EXCEPT !.target = Boost], 0)
        /\ IF boost.powerful
             THEN api' = [api EXCEPT !.pc = "powerful"] /\ UNCHANGED <<cache, hb, boost, budget>>
             ELSE RequestSucceeds([cache.dev EXCEPT !.target = Boost])
     \/ /\ \E s \in {tank, [tank EXCEPT !.target = Boost]} : SetTank(s, 0)
        /\ RequestFails
  /\ UNCHANGED <<now, rows, firstApplied, eb, attempts>>

\* A DaikinError here also puts the baseline back, best effort.
RequestPowerful ==
  /\ api.pc = "powerful"
  /\ \/ /\ SetTank([tank EXCEPT !.powerful = TRUE], 0)
        /\ RequestSucceeds([target |-> Boost, powerful |-> TRUE])
     \/ /\ RequestFails
        /\ \E s \in {tank, [tank EXCEPT !.powerful = TRUE]} :
             \/ SetTank(s, 0)
             \/ boost'.status = "completed" /\ SetTank([s EXCEPT !.target = api.baseline], 0)
  /\ UNCHANGED <<now, rows, firstApplied, eb, attempts>>

Request == RequestTemp \/ RequestPowerful

----------------------------------------------------------------------------
(* The end of the process, and its shutdown *)

MemoryLost ==
  /\ hb' = HbIdle /\ api' = ApiIdle /\ eb' = EbIdle
  /\ cache' = [dev |-> NoDevice, at |-> Never]
  /\ firstApplied' = [r \in Rows |-> Never]

Crash ==
  /\ Trouble /\ MemoryLost
  /\ UNCHANGED <<now, tank, echo, lagged, rows, boost, foreign, held, attempts>>

\* apply_safe_defaults(trigger="shutdown"), tank leg: the scheduled state is
\* written through a device read for the purpose, unless the stand-off or the
\* owner has the tank. Then the process ends.
ShutdownSkips == now \in Standoff \/ OwnerOverridden
Shutdown ==
  /\ LockFree /\ Trouble /\ MemoryLost
  /\ \/ ShutdownSkips /\ UNCHANGED <<tank, echo, lagged, foreign, held>>
     \/ /\ ~ShutdownSkips
        /\ \E dev \in {tank, echo} :
             \E w \in {WriteOk(dev, ScheduledWant)} \cup WriteFailures(dev, ScheduledWant) :
               SetTank(w.tank, 0)
  /\ UNCHANGED <<now, rows, boost, attempts>>

----------------------------------------------------------------------------

Heartbeat == TickStart \/ TickLock \/ RowStep \/ TailStep
OwnerHand == \E t \in Hands : OwnerSets(t)
ColdRead  == cache.at = Never /\ Refresh

Next == \/ Heartbeat \/ EbStep \/ Request \/ Undo
        \/ Refresh \/ ClockTick \/ OwnerHand \/ Crash \/ Shutdown
        \/ \E p \in BOOLEAN : BoostRequest(p)

Spec == Init /\ [][Next]_vars

\* The scheduler runs the heartbeat every two minutes, threads go on, a cold
\* cache is read and time passes.
Fairness == /\ WF_vars(Heartbeat) /\ WF_vars(EbStep) /\ WF_vars(Request)
            /\ WF_vars(ColdRead) /\ SF_vars(ClockTick)
FairSpec == Spec /\ Fairness

----------------------------------------------------------------------------
(* Properties *)

\* A step lowers the tank while the newest boost holds, whose target has been on the
\* tank since its request.
Lowers == HoldingBoost /\ held /\ api.pc = "idle" /\ tank'.target < tank.target
\* The tick judges a device object read too early, by the date of a later read that has
\* put another in the cache meanwhile (_device_read_wall).
Misdated == hb.pc = "rows" /\ hb.at <= boost.at + Grace /\ cache.at > boost.at + Grace
\* A Powerful row under way fires whatever it commands ("Powerful rows still fire").
PaidBoost == \E r \in Rows : Powerful[r] /\ Start[r] <= now /\ now < End[r]
                             /\ tank'.target = Target[r]

\* The boost is "a one-tap tank boost the plan RESPECTS" (dhw_boost.py): while
\* it holds, nothing but its own end, the owner's hand or a paid Powerful lowers the
\* tank - no other plan row, no shutdown, whatever the cloud's lag, failures, refreshes
\* and restarts. Excepted is the misdated reading that HoldUntilRead is about.
BoostRespected ==
  [][Lowers /\ boost'.flagged => OwnerHand \/ PaidBoost \/ Misdated]_vars

\* "the boost counts as in effect for as long as its row is active, UNLESS a device read
\* taken well AFTER the write shows a target that is no longer the boost's"
\* (_BOOST_READ_MARGIN_S, state_machine.py:157): a plan row that lowers the tank under
\* the boost does so on such a read.
HoldUntilRead ==
  [][Lowers /\ hb.pc = "rows" /\ hb.row \in Rows
       => OwnerHand \/ PaidBoost \/ (ReadAfterBoost /\ cache.dev.target < Boost)]_vars

\* "Only a REAL write attempt consumes one of the capped retries"
\* (end_user_boost): no boost ever sends more hand-back writes than the
\* backoff table has entries, crashes and failures included.
AttemptsBounded == attempts <= Len(Backoff)

\* A row is flagged as overridden only if some other hand changed the target
\* since the row was first played, unless it inherits the flag of another row:
\* HEM never takes its own writes (matched, repeated after a failure, replaced
\* by another row's or by the boost's) for the owner's. Excepted are readings
\* taken while the cloud trailed the first play, which the cache may keep for
\* longer than the grace.
Trailing(r) == hb.at \in firstApplied[r]..(firstApplied[r] + Lag)
FlagsUncaused(r) == rows'[r].over # rows[r].over /\ ~Inherits(r) /\ r \notin foreign
OverrideHasCause == [][\A r \in Rows : FlagsUncaused(r) => Trailing(r)]_vars

\* A boost never stays open: it is handed back, superseded or abandoned, and
\* then the next one can be requested (the unique index admits one).
BoostCloses == boost.status = "active" ~> boost.status = "completed"

\* Rows "still transition to terminal status when their window ends; otherwise
\* they'd stay 'active' forever" (_reconcile_daikin_actions): as long as the day
\* of the row lasts, its end is noticed, whatever a tick skips or fails at.
RowsTerminate == \A r \in Rows : now >= End[r] ~> ~Open(r) \/ Today # Day[r]
=============================================================================
