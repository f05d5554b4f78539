------------------------------ MODULE FoxGroups ------------------------------
(* What the inverter plays. A plan decides the half hours ahead one by one;   *)
(* the inverter takes at most eight groups of clock minutes, which have no     *)
(* date and repeat every day. This module is the way between the two:          *)
(* build_fox_groups_from_lp (horizon, merging, elision, the cap, the split at  *)
(* midnight) and upload_fox_if_operational (the bridge over the half hour      *)
(* under way, the refusal of overlaps), with the rows of fox_schedule_state    *)
(* the bridge reads and the stops and boots that add to them.                  *)
(*                                                                            *)
(* Time is in minutes; a half hour is Minutes of them, a day Slots half hours. *)
(* The calls of an upload and their failures are FoxSchedule's: here an upload *)
(* is one step.                                                               *)
EXTENDS Integers, FiniteSets, Sequences

CONSTANTS
  Minutes,     \* minutes of a half hour
  Slots,       \* half hours of a day
  Horizon,     \* half hours of a plan that are dispatched
  Cap,         \* groups the inverter takes
  Recent,      \* rows of fox_schedule_state the bridge looks back over
  HoldMax,     \* LP_FC_MERGE_HOLD_FDSOC_MAX
  Keys,        \* what a half hour may be given: records [mode, fd]
  Plans,       \* the plans of the LP: a key for each of Slots half hours
  Starts,      \* minutes at which the process may be started
  MaxTime, MaxSolves, MaxStops

Modes == {"SelfUse", "ForceCharge", "ForceDischarge", "Backup"}
SelfUse == [mode |-> "SelfUse", fd |-> 0]
Day == Slots * Minutes

ASSUME ShapeAssumption ==
  /\ Minutes \in Nat /\ Minutes > 1
  /\ Slots \in Nat /\ Slots % 2 = 0
  /\ Horizon \in 1..(Slots - 1)
  /\ Cap \in Nat /\ Cap > 1
  /\ Recent \in Nat /\ Recent > 0
  /\ HoldMax \in Nat
  \* _slot_fox_tuple knows one tuple of self use.
  /\ Keys \subseteq [mode: Modes, fd: Nat] /\ SelfUse \in Keys
  /\ \A k \in Keys : k.mode = "SelfUse" => k = SelfUse
  /\ Plans \subseteq [1..Slots -> Keys]
  /\ MaxTime \in Nat /\ MaxSolves \in Nat /\ MaxStops \in Nat
  /\ Starts \subseteq 0..MaxTime

VARIABLES
  now,
  hw,        \* the inverter: [on, groups]
  rows,      \* fox_schedule_state, newest first, down to the last upload, beyond
             \* which nobody looks: [on, groups, at], at the half hour it was saved in
  sys,       \* "up" or "down"
  next,      \* the plan solved and not yet uploaded: [from, plan, groups]
  solves, stops,
  \* history
  decided,   \* the last plan sent to the inverter: [from, plan, tail, landed]
  opening,   \* what the half hour was played as when it began, or last set to
  wipes      \* safe defaults since the last upload: [count, before] this half hour

work    == <<solves, stops>>
history == <<decided, opening, wipes>>
vars    == <<now, hw, rows, sys, next, work, history>>

SlotOf(t) == t \div Minutes
Opens(t)  == SlotOf(t) * Minutes
Clock(t)  == t % Day

----------------------------------------------------------------------------
(* From the plan's half hours to windows *)

\* MUTANT of Dispatched: the full day, as before the fix of 2026-07-04.
DispatchedDay(p) == SubSeq(p, 1, Slots)
\* The daily-cyclic horizon: the half hour a day after the one under way must
\* not be dispatched, for its group would be played at once.
Dispatched(p) == SubSeq(p, 1, Horizon)

IsHold(k) == k.fd <= HoldMax

\* MUTANT of Joins: holds and fills are one charge, as before PR D.
JoinsAll(a, b) == a.mode = b.mode
\* Neighbours that become one window: equal keys, and charges of one class,
\* whatever their target and power.
Joins(a, b) ==
  a = b \/ (a.mode = "ForceCharge" /\ b.mode = "ForceCharge" /\ IsHold(a) = IsHold(b))

\* The windows [from, to) of a plan that begins at the half hour f: its maximal
\* runs of joined half hours.
Runs(p) ==
  {r \in (DOMAIN p) \X (DOMAIN p) :
     /\ r[1] <= r[2]
     /\ \A i \in (r[1] + 1)..r[2] : Joins(p[i - 1], p[i])
     /\ r[1] > 1 => ~Joins(p[r[1] - 1], p[r[1]])
     /\ r[2] < Len(p) => ~Joins(p[r[2]], p[r[2] + 1])}
\* A merged charge goes to the highest of its targets.
Highest(p, r) == CHOOSE k \in {p[i] : i \in r[1]..r[2]} : \A i \in r[1]..r[2] : p[i].fd <= k.fd
Windows(f, p) ==
  {[from |-> f + r[1] - 1, to |-> f + r[2], key |-> Highest(p, r)] : r \in Runs(p)}

First(W) == CHOOSE w \in W : \A v \in W : w.from <= v.from
\* Self use is what the inverter does where there is no group; a plan of
\* nothing else keeps its first window, for an empty list may be refused.
Elided(W) == LET active == {w \in W : w.key.mode # "SelfUse"}
             IN  IF active = {} THEN {First(W)} ELSE active

\* A window across midnight costs two groups. The first that fit are kept, and
\* the rest is left to the re-plan before they run out.
Crosses(w) == w.from \div Slots # (w.to - 1) \div Slots
Cost(W) == Cardinality(W) + Cardinality({w \in W : Crosses(w)})
Kept(W) == {w \in W : Cost({v \in W : v.from <= w.from}) <= Cap}
ReplanAt(f, p) ==
  LET W == Elided(Windows(f, p))
  IN  IF Kept(W) = W THEN f + Len(p)
      ELSE CHOOSE t \in {w.to : w \in Kept(W)} : \A w \in Kept(W) : w.to <= t

----------------------------------------------------------------------------
(* From windows to groups *)

\* MUTANT of EndOf: midnight is written as 24:00.
EndOfRaw(e) == e
\* An end on the hour is written as the minute before, one on the half hour as
\* it is: the one is inclusive, the other exclusive.
EndOf(e) == IF e % (2 * Minutes) = 0 THEN e - 1 ELSE e
PastEnd(e) == IF e % Minutes = 0 THEN e ELSE e + 1

GroupOf(from, to, k) ==
  [start |-> (from % Slots) * Minutes,
   end   |-> EndOf((((to - 1) % Slots) + 1) * Minutes), key |-> k]
Split(w) ==
  LET midnight == (w.from \div Slots + 1) * Slots
  IN  IF Crosses(w) THEN {GroupOf(w.from, midnight, w.key), GroupOf(midnight, w.to, w.key)}
      ELSE {GroupOf(w.from, w.to, w.key)}

BuildGroups(f, p) == UNION {Split(w) : w \in Kept(Elided(Windows(f, p)))}

\* _detect_overlapping_groups
Overlap(g, h) == g.start < h.end /\ h.start < g.end
Overlapping(G) == \E g, h \in G : g # h /\ Overlap(g, h)

\* What the inverter does at a minute of the day.
Covers(g, m) == g.start <= m /\ m < PastEnd(g.end)
Playing(G, m) ==
  IF \E g \in G : Covers(g, m) THEN (CHOOSE g \in G : Covers(g, m)).key ELSE SelfUse
Plays(h, t) == IF h.on THEN Playing(h.groups, Clock(t)) ELSE SelfUse

----------------------------------------------------------------------------
(* _prepend_inflight_group *)

\* A group of the plan decides (part of) the half hour under way.
Decides(G) ==
  LET s == Clock(Opens(now))
  IN  \E g \in G : g.start < s + Minutes /\ s < PastEnd(g.end)

\* The schedule in force when the half hour began: the newest row, or the one a
\* wipe within this half hour replaced.
Verdicts == {i \in DOMAIN rows : rows[i].on \/ rows[i].at < SlotOf(now)}
InForce ==
  IF Verdicts = {} THEN {}
  ELSE LET i == CHOOSE i \in Verdicts : \A j \in Verdicts : i <= j
       IN  IF rows[i].on THEN {rows[i]} ELSE {}

Carried == {k \in {Playing(r.groups, Clock(now)) : r \in InForce} : k.mode # "SelfUse"}
\* With nothing in force and a negative price, the plan's group at the next
\* boundary begins early.
Advanced(G, negative) ==
  {g.key : g \in {g \in G : /\ InForce = {} /\ negative
                            /\ g.start = Clock(Opens(now) + Minutes)
                            /\ g.key.mode \in {"ForceCharge", "Backup"}}}

BridgeOf(k) == [start |-> Clock(Opens(now)), end |-> Clock(Opens(now)) + Minutes - 1, key |-> k]
Bridge(G, negative) ==
  IF Decides(G) \/ Cardinality(G) >= Cap THEN {}
  ELSE {BridgeOf(k) : k \in Carried \cup Advanced(G, negative)}

\* A bridge that collides with the plan is dropped.
Candidate(G, negative) ==
  LET B == Bridge(G, negative) IN IF Overlapping(G \cup B) THEN G ELSE G \cup B

----------------------------------------------------------------------------
(* The steps *)

Nothing == [from |-> 0, plan |-> <<>>, groups |-> {}]
Row(on, G) == [on |-> on, groups |-> G, at |-> SlotOf(now)]
Newest(s) == SubSeq(s, 1, IF Len(s) < Recent THEN Len(s) ELSE Recent)

\* A plan begins at the boundary after the solve, also when the solve is on one.
Solve(p) ==
  /\ sys = "up" /\ next = Nothing /\ solves < MaxSolves
  /\ LET f == SlotOf(now) + 1
     IN  next' = [from |-> f, plan |-> Dispatched(p), groups |-> BuildGroups(f, Dispatched(p))]
  /\ solves' = solves + 1
  /\ UNCHANGED <<now, hw, rows, sys, stops, history>>

\* upload_fox_if_operational, which an overlap within the plan makes refuse.
Upload(negative) ==
  /\ sys = "up" /\ next # Nothing
  /\ IF Overlapping(next.groups) THEN UNCHANGED <<hw, rows>>
     ELSE LET G == Candidate(next.groups, negative)
          IN  hw' = [on |-> TRUE, groups |-> G] /\ rows' = <<Row(TRUE, G)>>
  /\ opening' = Plays(hw', now)
  /\ decided' = [from |-> next.from, plan |-> next.plan, landed |-> SlotOf(now),
                 tail |-> ReplanAt(next.from, next.plan)]
  /\ wipes' = [count |-> 0, before |-> FALSE]
  /\ next' = Nothing
  /\ UNCHANGED <<now, sys, work>>

\* The solve, its commit or the upload fails, and leaves the inverter alone.
Fails ==
  /\ next # Nothing
  /\ next' = Nothing
  /\ UNCHANGED <<now, hw, rows, sys, work, history>>

\* apply_safe_defaults turns the scheduler off and saves the empty row.
Wiped == /\ hw' = [hw EXCEPT !.on = FALSE]
         /\ rows' = Newest(<<Row(FALSE, {})>> \o rows)
         /\ wipes' = [wipes EXCEPT !.count = @ + 1]

\* A stop with its safe defaults, or a crash without.
Stop ==
  /\ sys = "up" /\ stops < MaxStops
  /\ stops' = stops + 1
  /\ sys' = "down" /\ next' = Nothing
  /\ Wiped \/ UNCHANGED <<hw, rows, wipes>>
  /\ UNCHANGED <<now, solves, decided, opening>>

\* recover_on_boot turns the scheduler on with whatever groups it holds; with
\* no row at all (and no action row of the day) it ends in the safe defaults.
Boot ==
  /\ sys = "down" /\ sys' = "up"
  /\ \/ /\ hw' = [hw EXCEPT !.on = TRUE]
        /\ UNCHANGED <<rows, wipes>>
     \/ rows = <<>> /\ Wiped
  /\ UNCHANGED <<now, next, work, decided, opening>>

\* The half-hourly repair, which turns a scheduler it finds off on again. Its
\* groups are those of the newest row, or that row has none.
Repair ==
  /\ sys = "up"
  /\ hw' = [hw EXCEPT !.on = TRUE]
  /\ UNCHANGED <<now, rows, sys, next, work, history>>

\* An upload follows its solve within the half hour or in the next one.
Tick ==
  /\ now < MaxTime
  /\ next # Nothing => SlotOf(now + 1) <= next.from
  /\ now' = now + 1
  /\ IF SlotOf(now') = SlotOf(now) THEN UNCHANGED <<opening, wipes>>
     ELSE /\ opening' = Plays(hw, now')
          /\ wipes' = [wipes EXCEPT !.before = wipes.count > 0]
  /\ UNCHANGED <<hw, rows, sys, next, work, decided>>

\* A fresh installation.
Init ==
  /\ now \in Starts
  /\ hw = [on |-> TRUE, groups |-> {}] /\ rows = <<>>
  /\ sys = "up" /\ next = Nothing
  /\ solves = 0 /\ stops = 0
  /\ decided = [from |-> 0, plan |-> <<>>, tail |-> 0, landed |-> 0]
  /\ opening = SelfUse /\ wipes = [count |-> 0, before |-> FALSE]

Next == \/ \E p \in Plans : Solve(p)
        \/ \E negative \in BOOLEAN : Upload(negative)
        \/ Fails \/ Stop \/ Boot \/ Repair \/ Tick

Spec == Init /\ [][Next]_vars

----------------------------------------------------------------------------
(* Properties *)

Groups == [start: 0..(Day - 1), end: 0..(Day - 1), key: Keys]

TypeOK ==
  /\ now \in 0..MaxTime
  /\ hw \in [on: BOOLEAN, groups: SUBSET Groups] /\ Cardinality(hw.groups) <= Cap
  /\ rows \in Seq([on: BOOLEAN, groups: SUBSET Groups, at: 0..SlotOf(now)])
  /\ Len(rows) <= Recent
  /\ sys \in {"up", "down"}
  /\ next \in [from: 0..(SlotOf(MaxTime) + 1), plan: Seq(Keys), groups: SUBSET Groups]
  /\ solves \in 0..MaxSolves /\ stops \in 0..MaxStops
  /\ decided \in [from: Nat, plan: Seq(Keys), tail: Nat, landed: Nat]
  /\ decided.from <= decided.tail /\ opening \in Keys
  /\ wipes \in [count: 0..(MaxStops + 1), before: BOOLEAN]

\* Every half hour of the last plan sent is played as the plan has it - mode,
\* and for a charge whether it fills or holds - as far as the groups reached,
\* whatever midnight, the cap, the merging, the two conventions of ends and the
\* bridge make of it. Excepted is the half hour in which the plan was sent, when
\* the plan had it idle: there the bridge takes it for a gap.
Agrees(a, b) == a.mode = b.mode /\ (a.mode = "ForceCharge" => (a.fd <= HoldMax) = (b.fd <= HoldMax))
Bridged(s) == s = decided.landed /\ decided.plan[s - decided.from + 1].mode = "SelfUse"
AsDecided ==
  LET s == SlotOf(now) IN
    hw.on /\ s \in decided.from..(decided.tail - 1) /\ ~Bridged(s)
      => Agrees(Plays(hw, now), decided.plan[s - decided.from + 1])

\* An upload in the middle of a half hour leaves that half hour to what it was
\* when it began, or at the last upload - safe defaults at a stop meanwhile,
\* midnight, and the same hour of tomorrow in the plan notwithstanding - unless
\* the plan decides it, the groups are full, more stops than the bridge looks
\* back over or one before the half hour hide the schedule in force, or the
\* price is negative.
LiveSlot ==
  [][\A negative \in BOOLEAN :
       /\ Upload(negative)
       /\ SlotOf(now) < next.from
       /\ Cardinality(next.groups) < Cap
       /\ ~wipes.before /\ wipes.count < Recent
       => Plays(hw', now) = opening \/ (opening = SelfUse /\ negative)]_vars
=============================================================================
