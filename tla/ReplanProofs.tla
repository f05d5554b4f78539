---------------------------- MODULE ReplanProofs ----------------------------
(***************************************************************************)
(* What TLAPS proves of Replan, for any offsets, lengths of slots and       *)
(* windows, horizon and number of faults: its types, that no slot gets two  *)
(* rows of one kind, and that a dispatch leaves a row under way alone.      *)
(***************************************************************************)
EXTENDS Replan, WellFoundedInduction, TLAPS

----------------------------------------------------------------------------
(* The inductive invariant *)

\* A dispatch that has written a restore row has its window to write; a heartbeat at a
\* call has its row.
InHand ==
  /\ rp.at = "main" => rp.todo # {}
  /\ hb.at = "call" => hb.todo # {}

\* What the clear will delete leaves the rows in flight: between its two holds of the
\* database lock no row has come in flight that was not then.
Spared ==
  rp.at = "delete" =>
    \A r \in InRange(ClearFrom, ClearTo) : InFlight(r) => r.id \in rp.keep

IInv == InHand /\ Spared /\ OneRowPerSlot

----------------------------------------------------------------------------
(* Numbers, and the least of them *)

\* The constants are numbers, 0 is an offset.
LEMMA ConstantTypes ==
  /\ SlotLen \in Nat \ {0} /\ RestoreLen \in Nat /\ Lead \in Nat /\ Grace \in Nat /\ Respect \in Nat
  /\ Expiry \in Nat /\ Midnight \in Nat /\ Warmup \in Nat /\ Horizon \in Nat /\ MaxTime \in Nat
  /\ MaxPlans \in Nat /\ MaxTroubles \in Nat
  /\ 0 \in Offsets /\ Offsets \subseteq Int /\ Times \subseteq Nat /\ 0 \in Times
BY TimesAssumption, OffsetsAssumption, BoundsAssumption DEF Times

\* A date is one of the two.
LEMMA DateTypes == \A t : Date(t) \in Dates
BY DEF Date, Dates

\* A set of naturals that is not empty has a least one.
LEMMA LeastOf ==
  ASSUME NEW T, T \subseteq Nat, T # {}
  PROVE  \E x \in T : \A y \in T : x <= y
<1> DEFINE L == {ss \in Nat \X Nat : ss[1] < ss[2]}
<1>1. L = OpToRel(<, Nat)
  BY DEF OpToRel
<1>2. IsWellFoundedOn(L, Nat)
  BY <1>1, NatLessThanWellFounded
<1> HIDE DEF L
<1>3. PICK x \in T : \A y \in T : ~(<<y, x>> \in L)
  BY <1>2, WFMin
<1>4. ASSUME NEW y \in T PROVE x <= y
  <2>1. <<y, x>> \in Nat \X Nat /\ <<y, x>> \notin L
    BY <1>3
  <2>2. ~(y < x)
    BY <2>1 DEF L
  <2> QED BY <2>1, <2>2
<1> QED BY <1>4

\* The row a heartbeat takes next is one of those it has read: rows can be put in the
\* order of their start and id.
LEMMA EarliestIn ==
  ASSUME NEW S, S \subseteq Row, S # {}
  PROVE  Earliest(S) \in S
<1>1. \A r \in S : r.at \in Nat /\ r.id \in Nat
  BY DEF Row
<1>2. PICK a \in {r.at : r \in S} : \A b \in {r.at : r \in S} : a <= b
  BY <1>1, LeastOf
<1> DEFINE First == {r \in S : r.at = a}
<1>3. PICK i \in {r.id : r \in First} : \A j \in {r.id : r \in First} : i <= j
  <2>1. {r.id : r \in First} \subseteq Nat /\ {r.id : r \in First} # {}
    BY <1>1, <1>2
  <2> QED BY <2>1, LeastOf
<1>4. PICK r \in First : r.id = i
  BY <1>3
<1>5. ASSUME NEW s \in S PROVE r.at < s.at \/ (r.at = s.at /\ r.id <= s.id)
  <2>1. r.at <= s.at /\ r.at \in Nat /\ s.at \in Nat
    BY <1>1, <1>2, <1>4
  <2>2. r.at = s.at => r.id <= s.id
    BY <1>3, <1>4
  <2> QED BY <2>1, <2>2
<1> QED BY <1>4, <1>5 DEF Earliest

\* The window a dispatch writes next is one of those it has to write.
LEMMA NextPairIn ==
  ASSUME TypeOK, rp.todo # {}
  PROVE  NextPair \in rp.todo /\ NextPair \in Window
<1>1. rp.todo \subseteq Window /\ \A p \in rp.todo : p.at \in Nat
  BY DEF TypeOK, RpStates, Window
<1>2. PICK a \in {p.at : p \in rp.todo} : \A b \in {p.at : p \in rp.todo} : a <= b
  BY <1>1, LeastOf
<1>3. \E p \in rp.todo : \A q \in rp.todo : p.at <= q.at
  BY <1>2
<1> QED BY <1>1, <1>3 DEF NextPair

----------------------------------------------------------------------------
(* The rows that upsert_action and mark_action leave *)

\* An id upsert_action returns is that of a row, old or new.
LEMMA IdTypes ==
  ASSUME TypeOK, NEW kind, NEW at
  PROVE  /\ NextSeq(kind, at) \in {seq, seq + 1} /\ NextSeq(kind, at) \in Nat \ {0}
         /\ IdOf(kind, at) \in 1..(NextSeq(kind, at) - 1)
         /\ (\A r \in rows : ~(r.kind = kind /\ r.at = at)) <=> IdOf(kind, at) = seq
<1> DEFINE same == {r \in rows : r.kind = kind /\ r.at = at}
<1>1. seq \in Nat \ {0} /\ \A r \in rows : r.id \in Nat /\ 1 <= r.id /\ r.id < seq
  BY DEF TypeOK, Row
<1>2. CASE same = {}
  <2>1. IdOf(kind, at) = seq
    BY <1>2 DEF IdOf
  <2> QED BY <1>1, <1>2, <2>1 DEF NextSeq
<1>3. CASE same # {}
  <2>1. (CHOOSE r \in same : TRUE) \in same
    BY <1>3
  <2>2. \E r \in same : IdOf(kind, at) = r.id
    BY <1>3, <2>1 DEF IdOf
  <2> QED BY <1>1, <1>3, <2>2 DEF NextSeq
<1> QED BY <1>2, <1>3

\* A new row, and one that is refreshed.
NewRow(kind, at, to, off, link, d) ==
  [id |-> seq, kind |-> kind, at |-> at, to |-> to, off |-> off,
   st |-> "pending", link |-> link, date |-> d, flag |-> Never]

\* What upsert_action leaves: the rows that were there, but for the one of the slot, if
\* it is pending and not in flight; and the slot's row, refreshed or new.
LEMMA UpsertedRows ==
  ASSUME TypeOK, NEW kind \in Kinds, NEW at \in Nat, NEW to \in Nat, NEW off \in Offsets, NEW link \in Nat,
         NEW d \in Dates, NEW q \in Upserted(kind, at, to, off, link, d)
  PROVE  \/ q \in rows
         \/ /\ IdOf(kind, at) = seq /\ q.id = seq /\ q.kind = kind /\ q.at = at /\ q \in Row /\ q.st = "pending"
            /\ \A r \in rows : ~(r.kind = kind /\ r.at = at)
         \/ \E r \in rows : /\ q.id = r.id /\ q.kind = r.kind /\ q.at = r.at /\ q \in Row
                            /\ r.kind = kind /\ r.at = at /\ r.st = "pending" /\ ~InFlight(r)
<1>1. \A r \in rows : r \in Row
  BY DEF TypeOK
<1>2. CASE \A r \in rows : ~(r.kind = kind /\ r.at = at)
  <2>1. {r \in rows : r.kind = kind /\ r.at = at} = {}
    BY <1>2
  <2>2. Upserted(kind, at, to, off, link, d) = rows \cup {NewRow(kind, at, to, off, link, d)}
    BY <2>1, Zenon DEF Upserted, NewRow
  <2>3. NewRow(kind, at, to, off, link, d) \in Row
    BY DEF NewRow, Row, TypeOK
  <2>4. IdOf(kind, at) = seq
    BY <2>1, Zenon DEF IdOf
  <2>5. CASE q = NewRow(kind, at, to, off, link, d)
    <3>1. q.id = seq /\ q.kind = kind /\ q.at = at /\ q.st = "pending"
      BY <2>5 DEF NewRow
    <3> QED BY <1>2, <2>3, <2>4, <2>5, <3>1
  <2> QED BY <2>2, <2>5
<1>3. CASE \E r \in rows : r.kind = kind /\ r.at = at
  <2> DEFINE same == {r \in rows : r.kind = kind /\ r.at = at}
             open == {r \in same : r.st = "pending" /\ ~InFlight(r)}
  <2>1. same # {}
    BY <1>3
  <2>2. Upserted(kind, at, to, off, link, d) =
          (rows \ open) \cup {[r EXCEPT !.date = d, !.to = to, !.off = off, !.link = link] : r \in open}
    BY <2>1, Zenon DEF Upserted
  <2>3. CASE q \in rows \ open
    BY <2>3
  <2>4. CASE q \in {[r EXCEPT !.date = d, !.to = to, !.off = off, !.link = link] : r \in open}
    <3>1. PICK r \in open : q = [r EXCEPT !.date = d, !.to = to, !.off = off, !.link = link]
      BY <2>4
    <3>2. r \in rows /\ r \in Row
      BY <1>1
    <3>3. q.id = r.id /\ q.kind = r.kind /\ q.at = r.at /\ q \in Row
      BY <3>1, <3>2 DEF Row
    <3> QED BY <3>1, <3>2, <3>3
  <2> QED BY <2>2, <2>3, <2>4
<1> QED BY <1>2, <1>3

\* No row in the slot is lost by it that is not pending, or is in flight.
LEMMA UpsertedKeeps ==
  ASSUME NEW kind, NEW at, NEW to, NEW off, NEW link, NEW d, NEW r \in rows, r.st # "pending" \/ InFlight(r)
  PROVE  r \in Upserted(kind, at, to, off, link, d)
<1> DEFINE same == {q \in rows : q.kind = kind /\ q.at = at}
           open == {q \in same : q.st = "pending" /\ ~InFlight(q)}
<1>1. r \notin open
  OBVIOUS
<1>2. CASE same = {}
  BY <1>2, Zenon DEF Upserted
<1>3. CASE same # {}
  <2>1. Upserted(kind, at, to, off, link, d) =
          (rows \ open) \cup {[q EXCEPT !.date = d, !.to = to, !.off = off, !.link = link] : q \in open}
    BY <1>3, Zenon DEF Upserted
  <2> QED BY <1>1, <2>1
<1> QED BY <1>2, <1>3

\* The rows keep their types, and their ids below the next.
LEMMA UpsertedTypes ==
  ASSUME TypeOK, NEW kind \in Kinds, NEW at \in Nat, NEW to \in Nat, NEW off \in Offsets, NEW link \in Nat,
         NEW d \in Dates
  PROVE  \A q \in Upserted(kind, at, to, off, link, d) : q \in Row /\ q.id \in 1..(NextSeq(kind, at) - 1)
<1> SUFFICES ASSUME NEW q \in Upserted(kind, at, to, off, link, d)
             PROVE  q \in Row /\ q.id \in 1..(NextSeq(kind, at) - 1)
  OBVIOUS
<1>1. /\ seq \in Nat \ {0}
      /\ \A r \in rows : r \in Row /\ r.id \in Nat /\ 1 <= r.id /\ r.id < seq
  BY DEF TypeOK, Row
<1>2. NextSeq(kind, at) \in {seq, seq + 1} /\ (IdOf(kind, at) = seq => NextSeq(kind, at) = seq + 1)
  BY IdTypes DEF NextSeq
<1> QED BY <1>1, <1>2, UpsertedRows

\* The slots keep one row each.
LEMMA UpsertedSlots ==
  ASSUME TypeOK, OneRowPerSlot, NEW kind \in Kinds, NEW at \in Nat, NEW to \in Nat, NEW off \in Offsets, NEW link \in Nat,
         NEW d \in Dates
  PROVE  \A p, q \in Upserted(kind, at, to, off, link, d) : p.kind = q.kind /\ p.at = q.at => p = q
<1> DEFINE same == {r \in rows : r.kind = kind /\ r.at = at}
           open == {r \in same : r.st = "pending" /\ ~InFlight(r)}
<1>1. CASE same = {}
  <2>1. Upserted(kind, at, to, off, link, d) = rows \cup {NewRow(kind, at, to, off, link, d)}
    BY <1>1, Zenon DEF Upserted, NewRow
  <2>2. NewRow(kind, at, to, off, link, d).kind = kind /\ NewRow(kind, at, to, off, link, d).at = at
    BY DEF NewRow
  <2> QED BY <1>1, <2>1, <2>2 DEF OneRowPerSlot
<1>2. CASE same # {}
  <2> DEFINE New(r) == [r EXCEPT !.date = d, !.to = to, !.off = off, !.link = link]
  <2>1. Upserted(kind, at, to, off, link, d) = (rows \ open) \cup {New(r) : r \in open}
    BY <1>2, Zenon DEF Upserted
  <2>2. \A r \in open : New(r).kind = r.kind /\ New(r).at = r.at /\ r \in rows
    BY DEF TypeOK, Row
  <2> HIDE DEF New
  <2> QED BY <2>1, <2>2 DEF OneRowPerSlot
<1> QED BY <1>1, <1>2

\* mark_action changes the status of rows, and nothing else of them.
LEMMA MarkedRows ==
  ASSUME TypeOK, NEW id, NEW st \in {"active", "completed", "failed"}
  PROVE  \A q \in Marked(id, st) :
           /\ q \in Row /\ (q.st = "pending" => q \in rows)
           /\ \E r \in rows : q.id = r.id /\ q.kind = r.kind /\ q.at = r.at
BY DEF Marked, TypeOK, Row

\* The slots keep one row each.
LEMMA MarkedSlots ==
  ASSUME TypeOK, OneRowPerSlot, NEW id, NEW st
  PROVE  \A p, q \in Marked(id, st) : p.kind = q.kind /\ p.at = q.at => p = q
<1> SUFFICES ASSUME NEW p \in Marked(id, st), NEW q \in Marked(id, st), p.kind = q.kind, p.at = q.at
             PROVE  p = q
  OBVIOUS
<1>1. PICK r \in rows : p = IF r.id = id THEN [r EXCEPT !.st = st] ELSE r
  BY DEF Marked
<1>2. PICK s \in rows : q = IF s.id = id THEN [s EXCEPT !.st = st] ELSE s
  BY DEF Marked
<1>3. r.kind = s.kind /\ r.at = s.at
  BY <1>1, <1>2 DEF TypeOK, Row
<1> QED BY <1>1, <1>2, <1>3 DEF OneRowPerSlot

----------------------------------------------------------------------------
(* Types *)

\* The row of the heartbeat's loop.
LEMMA NextRowIn ==
  ASSUME TypeOK, hb.todo # {}
  PROVE  NextRow \in hb.todo /\ NextRow \in Row /\ NextRow.id < seq
<1>1. hb.todo \subseteq Row
  BY DEF TypeOK, HbStates
<1>2. NextRow \in hb.todo
  BY <1>1, EarliestIn DEF NextRow
<1> QED BY <1>1, <1>2 DEF TypeOK

\* The actors idle.
LEMMA IdleTypes == RpIdle \in RpStates /\ HbIdle \in HbStates /\ RpIdle.back = 0
BY DEF RpIdle, HbIdle, RpStates, HbStates, RpPlaces, NoRow

\* What a step does to the rows and their ids.
RowsTyped == /\ seq' \in {seq, seq + 1} /\ seq \in Nat \ {0}
             /\ \A r \in rows' : r \in Row /\ r.id < seq'

\* A dispatch's write gives the rows their types and ids.
LEMMA RowsWritten ==
  ASSUME TypeOK, InHand, WriteBack \/ WriteMain
  PROVE  /\ RowsTyped
         /\ rp'.back \in Nat /\ rp'.back < seq'
<1>1. /\ rp \in RpStates /\ rp.back \in Nat /\ rp.back < seq /\ seq \in Nat \ {0}
      /\ \A r \in rows : r \in Row /\ r.id < seq
  BY DEF TypeOK, RpStates
<1>2. rp.todo # {}
  BY DEF WriteBack, WriteMain, InHand
<1> DEFINE p == NextPair
<1>3. p \in Window /\ p.at \in Nat /\ p.to \in Nat /\ p.to + RestoreLen \in Nat /\ p.off \in Offsets
  BY <1>2, NextPairIn, ConstantTypes DEF Window
<1>4. PlanDate \in Dates /\ NoRow \in Nat /\ "restore" \in Kinds /\ "lwt_preheat" \in Kinds /\ 0 \in Offsets
  BY DateTypes, ConstantTypes DEF PlanDate, NoRow, Kinds
<1> HIDE DEF p
<1>5. CASE WriteBack /\ p.back
  <2>1. /\ rows' = Upserted("restore", p.to, p.to + RestoreLen, 0, NoRow, PlanDate)
        /\ seq' = NextSeq("restore", p.to)
        /\ rp' = [rp EXCEPT !.at = "main", !.back = IdOf("restore", p.to)]
    BY <1>5 DEF WriteBack, p
  <2>2. \A q \in rows' : q \in Row /\ q.id \in 1..(seq' - 1)
    BY <1>3, <1>4, <2>1, UpsertedTypes
  <2>3. seq' \in {seq, seq + 1} /\ seq' \in Nat \ {0} /\ IdOf("restore", p.to) \in 1..(seq' - 1)
    BY <2>1, IdTypes
  <2>4. rp'.back = IdOf("restore", p.to)
    BY <1>1, <2>1 DEF RpStates
  <2> QED BY <1>1, <2>2, <2>3, <2>4 DEF RowsTyped
<1>6. CASE WriteBack /\ ~p.back
  <2>1. rows' = rows /\ seq' = seq /\ rp' = [rp EXCEPT !.at = "main"]
    BY <1>6 DEF WriteBack, p, Goes
  <2> QED BY <1>1, <2>1 DEF RowsTyped, RpStates
<1>7. CASE WriteMain
  <2> DEFINE U == Upserted("lwt_preheat", p.at, p.to, p.off, rp.back, PlanDate)
  <2>1. /\ \E id : rows' = {IF r.id = id /\ rp.back # NoRow THEN [r EXCEPT !.link = rp.back] ELSE r : r \in U}
        /\ seq' = NextSeq("lwt_preheat", p.at)
        /\ rp' = [rp EXCEPT !.at = "write", !.back = NoRow, !.todo = @ \ {p}]
    BY <1>7 DEF WriteMain, p
  <2>2. \A q \in U : q \in Row /\ q.id \in 1..(seq' - 1)
    BY <1>1, <1>3, <1>4, <2>1, UpsertedTypes
  <2>3. seq' \in {seq, seq + 1} /\ seq' \in Nat \ {0}
    BY <2>1, IdTypes
  <2> HIDE DEF U
  <2>4. \A q \in rows' : q \in Row /\ q.id \in 1..(seq' - 1)
    BY <1>1, <2>1, <2>2 DEF Row
  <2>5. rp'.back = 0
    BY <1>1, <2>1 DEF RpStates, NoRow
  <2> QED BY <1>1, <2>3, <2>4, <2>5 DEF RowsTyped
<1> QED BY <1>5, <1>6, <1>7

\* So does every other step.
LEMMA RowsTypes ==
  ASSUME TypeOK, InHand, [Next]_vars
  PROVE  RowsTyped
<1>1. seq \in Nat \ {0} /\ \A r \in rows : r \in Row /\ r.id \in Nat /\ r.id < seq
  BY DEF TypeOK, Row
<1>2. CASE WriteBack \/ WriteMain
  BY <1>2, RowsWritten
<1>3. CASE rows' \subseteq rows /\ seq' = seq
  BY <1>1, <1>3 DEF RowsTyped
<1>4. ASSUME NEW id, NEW st \in {"active", "completed", "failed"}, rows' = Marked(id, st), seq' = seq
      PROVE  RowsTyped
  <2>1. \A q \in rows' : q \in Row /\ \E r \in rows : q.id = r.id
    BY <1>4, MarkedRows
  <2> QED BY <1>1, <1>4, <2>1 DEF RowsTyped
<1>5. CASE RowEnds \/ RowMatches \/ RowCalls \/ CallFails
  BY <1>3, <1>4, <1>5 DEF RowEnds, RowMatches, RowCalls, CallFails
<1>6. CASE RowFlags
  <2>1. /\ \E id : rows' = {IF r.id = id THEN [r EXCEPT !.st = "active", !.flag = now] ELSE r : r \in rows}
        /\ seq' = seq /\ now \in Times
    BY <1>6 DEF RowFlags, TypeOK
  <2>2. \A q \in rows' : q \in Row /\ \E r \in rows : q.id = r.id
    BY <1>1, <2>1, ZenonT(40) DEF Row
  <2> QED BY <1>1, <2>1, <2>2 DEF RowsTyped
<1>7. CASE Delete \/ Owner
  BY <1>3, <1>7 DEF Delete, Owner, Approve, Reject
<1> QED BY <1>2, <1>3, <1>5, <1>6, <1>7 DEF Next, SolveStart, Dispatch, Snapshot, Preserve, Plan, Return,
     WriteEnds, Consider, Propose, AutoApprove, PlanFails, PutBackFails, Heartbeat, HbStart, BootBlind, CallSucceeds,
     HbTail, DriftReset, Gesture, Tick, Restart, vars

\* A window of a plan, for any course of the offsets (_pairs_from_offsets).
LEMMA PairsTypes ==
  ASSUME NEW f, DOMAIN f \subseteq Nat, {t + SlotLen : t \in DOMAIN f} \subseteq Nat
  PROVE  Pairs(f) \subseteq Window
<1> DEFINE Runs == {w \in [at : DOMAIN f, to : {t + SlotLen : t \in DOMAIN f}, off : Offsets \ {0}] :
                      /\ \A t \in DOMAIN f : w.at <= t /\ t < w.to => f[t] = w.off
                      /\ w.at < w.to
                      /\ w.at - SlotLen \in DOMAIN f => f[w.at - SlotLen] # w.off
                      /\ w.to \in DOMAIN f => f[w.to] # w.off}
           Pair(w) == [at |-> w.at, to |-> w.to, off |-> w.off,
                       back |-> \A v \in Runs : v.at < w.to \/ v.at > w.to + RestoreLen]
<1>1. Pairs(f) = {Pair(w) : w \in Runs}
  BY Zenon DEF Pairs
<1>2. ASSUME NEW w \in Runs PROVE w.at \in Nat /\ w.to \in Nat /\ w.off \in Offsets
  OBVIOUS
<1>3. ASSUME NEW w \in Runs PROVE Pair(w) \in Window
  <2>1. (\A v \in Runs : v.at < w.to \/ v.at > w.to + RestoreLen) \in BOOLEAN
    BY Zenon
  <2> HIDE DEF Runs
  <2> QED BY <1>2, <2>1 DEF Window
<1> HIDE DEF Pair, Runs
<1> QED BY <1>1, <1>3

\* What a dispatch that fails has in hand.
LEMMA Fails ==
  ASSUME TypeOK, PlanFails \/ PutBackFails
  PROVE  rp' \in RpStates /\ rp'.back = 0 /\ rp'.at \in {"return", "write"}
<1>1. rp \in RpStates
  BY DEF TypeOK
<1>2. CASE PlanFails
  <2>1. rp' = [rp EXCEPT !.at = "return", !.keep = {}, !.todo = {}, !.back = 0, !.ok = FALSE]
    BY <1>2 DEF PlanFails, NoRow
  <2> QED BY <1>1, <2>1 DEF RpStates, RpPlaces
<1>3. CASE PutBackFails
  <2>1. rp' = [rp EXCEPT !.at = "write", !.todo = {}, !.back = 0]
    BY <1>3 DEF PutBackFails, NoRow
  <2> QED BY <1>1, <2>1 DEF RpStates, RpPlaces
<1> QED BY <1>2, <1>3

\* What a dispatch has in hand keeps its type.
LEMMA DispatchTypes ==
  ASSUME TypeOK, InHand, [Next]_vars
  PROVE  rp' \in RpStates
<1>1. rp \in RpStates
  BY DEF TypeOK
<1>2. \A r \in rows : r \in Row
  BY DEF TypeOK
<1>3. CASE rp' \in {rp, RpIdle}
  BY <1>1, <1>3, IdleTypes
<1>4. CASE SolveStart
  <2>1. PICK from : from = SlotLen * (now \div SlotLen + 1) /\ rp' = [RpIdle EXCEPT !.at = "solving", !.from = from]
    BY <1>4 DEF SolveStart
  <2>2. from \in Nat
    BY <2>1, ConstantTypes DEF TypeOK
  <2> QED BY <2>1, <2>2, IdleTypes DEF RpStates, RpPlaces
<1>5. CASE Snapshot
  <2>1. PICK range \in SUBSET rows : rp' = [rp EXCEPT !.at = "preserve", !.snap =
          {[at |-> r.at, to |-> r.to, off |-> r.off, back |-> \E s \in range : s.id = r.link] :
             r \in {r \in range : r.kind = "lwt_preheat"}}]
    BY <1>5 DEF Snapshot, InRange
  <2>2. ASSUME NEW r \in range
        PROVE  [at |-> r.at, to |-> r.to, off |-> r.off, back |-> \E s \in range : s.id = r.link] \in Window
    <3>1. r \in Row /\ (\E s \in range : s.id = r.link) \in BOOLEAN
      BY <1>2, Zenon
    <3> QED BY <3>1 DEF Row, Window
  <2>3. {[at |-> r.at, to |-> r.to, off |-> r.off, back |-> \E s \in range : s.id = r.link] :
             r \in {r \in range : r.kind = "lwt_preheat"}} \subseteq Window
    BY <2>2
  <2> QED BY <1>1, <2>1, <2>3 DEF RpStates, RpPlaces
<1>6. CASE Preserve
  <2>1. Preserved(ClearFrom, ClearTo) \subseteq Nat
    BY <1>2 DEF Preserved, InRange, Row
  <2> QED BY <1>1, <1>6, <2>1 DEF Preserve, RpStates, RpPlaces
<1>7. CASE Delete \/ PlanFails \/ PutBackFails
  BY <1>1, <1>7, Fails DEF Delete, RpStates, RpPlaces
<1>8. CASE Plan
  <2> DEFINE slots == {t \in rp.from..(Horizon - 1) : t % SlotLen = 0}
  <2>1. slots \subseteq Nat
    BY <1>1, ConstantTypes DEF RpStates
  <2>2. ASSUME NEW f \in [slots -> Offsets] PROVE Pairs(f) \subseteq Window
    <3>1. DOMAIN f \subseteq Nat /\ {t + SlotLen : t \in DOMAIN f} \subseteq Nat
      BY <2>1, ConstantTypes
    <3> QED BY <3>1, PairsTypes
  <2>3. \/ \E todo \in SUBSET Window : rp' = [rp EXCEPT !.at = "write", !.todo = todo]
        \/ rp' = [rp EXCEPT !.at = "return"]
    <3> HIDE DEF slots
    <3>1. \/ \E f \in [slots -> Offsets] : \E cap :
                  rp' = [rp EXCEPT !.at = "write", !.todo = {p \in Pairs(f) : p.at < cap}]
          \/ rp' = [rp EXCEPT !.at = "return"]
      BY <1>8 DEF Plan, Goes, slots
    <3>2. \A f \in [slots -> Offsets] : \A cap : {p \in Pairs(f) : p.at < cap} \in SUBSET Window
      BY <2>2
    <3> QED BY <3>1, <3>2
  <2> QED BY <1>1, <2>3 DEF RpStates, RpPlaces
<1>9. CASE Return
  <2> DEFINE kept == {r.at : r \in {r \in InRange(rp.from, Horizon) : r.kind = "restore"}}
             part(closed) == {p \in rp.snap :
               /\ p.to > now
               /\ p.at \notin {r.at : r \in {r \in InRange(rp.from, Horizon) : r.kind = "lwt_preheat"}}
               /\ ~(closed /\ p.off > 0)}
             todo(closed) == {[p EXCEPT !.back = @ /\ p.to \notin kept] : p \in part(closed)}
  <2>1. \E closed \in BOOLEAN : rp' = [rp EXCEPT !.at = "write", !.snap = {}, !.putting = TRUE, !.todo = todo(closed)]
    BY <1>9, Zenon DEF Return
  <2>2. ASSUME NEW closed, NEW q \in todo(closed) PROVE q \in Window
    <3>1. PICK p \in rp.snap : q = [p EXCEPT !.back = @ /\ p.to \notin kept]
      BY <2>2
    <3> HIDE DEF kept
    <3>2. p \in Window /\ (p.back /\ p.to \notin kept) \in BOOLEAN
      BY <1>1, Zenon DEF RpStates
    <3> QED BY <3>1, <3>2 DEF Window
  <2>3. PICK T \in SUBSET Window : rp' = [rp EXCEPT !.at = "write", !.snap = {}, !.putting = TRUE, !.todo = T]
    <3>1. \A closed : todo(closed) \in SUBSET Window
      BY <2>2
    <3> HIDE DEF todo
    <3> QED BY <2>1, <3>1
  <2> QED BY <1>1, <2>3 DEF RpStates, RpPlaces
<1>10. CASE WriteBack \/ WriteMain
  <2>1. IdOf("restore", NextPair.to) \in Nat
    BY IdTypes
  <2>2. \/ rp' = [rp EXCEPT !.at = "main", !.back = IdOf("restore", NextPair.to)]
        \/ rp' = [rp EXCEPT !.at = "main"]
        \/ \E todo \in SUBSET rp.todo : rp' = [rp EXCEPT !.at = "write", !.back = 0, !.todo = todo]
    <3>1. CASE WriteBack
      BY <3>1 DEF WriteBack, Goes
    <3>2. CASE WriteMain
      <4>1. rp' = [rp EXCEPT !.at = "write", !.back = 0, !.todo = @ \ {NextPair}]
        BY <3>2 DEF WriteMain, NoRow
      <4>2. rp' = [rp EXCEPT !.at = "write", !.back = 0, !.todo = rp.todo \ {NextPair}]
        BY <4>1
      <4> QED BY <4>2
    <3> QED BY <1>10, <3>1, <3>2
  <2>3. CASE \E i \in Nat : rp' \in {[rp EXCEPT !.at = "main", !.back = i], [rp EXCEPT !.at = "main"]}
    BY <1>1, <2>3 DEF RpStates, RpPlaces
  <2>4. ASSUME NEW todo \in SUBSET rp.todo, rp' = [rp EXCEPT !.at = "write", !.back = 0, !.todo = todo]
        PROVE  rp' \in RpStates
    <3>1. todo \subseteq Window
      BY <1>1 DEF RpStates
    <3> QED BY <1>1, <2>4, <3>1 DEF RpStates, RpPlaces
  <2> QED BY <2>1, <2>2, <2>3, <2>4
<1>11. CASE rp' # RpIdle /\ (Consider \/ Propose)
  BY <1>1, <1>11 DEF Consider, Propose, Goes, RpStates, RpPlaces
<1>12. CASE rp' # RpIdle /\ WriteEnds
  <2>1. rp' = [RpIdle EXCEPT !.at = "consent", !.from = rp.from] /\ rp.from \in Nat
    BY <1>1, <1>12 DEF WriteEnds, RpStates
  <2> QED BY <2>1, IdleTypes DEF RpStates, RpPlaces
<1>13. SolveStart \/ Dispatch \/ PlanFails \/ PutBackFails \/ rp' \in {rp, RpIdle}
  BY DEF Next, Heartbeat, HbStart, BootBlind, RowEnds, RowMatches, RowFlags, RowCalls, CallSucceeds, CallFails,
     HbTail, DriftReset, Owner, Approve, Reject, Gesture, Tick, Restart, vars
<1>14. CASE Dispatch
  <2>1. AutoApprove => rp' = RpIdle
    BY DEF AutoApprove
  <2> QED BY <1>3, <1>5, <1>6, <1>7, <1>8, <1>9, <1>10, <1>11, <1>12, <1>14, <2>1 DEF Dispatch
<1> QED BY <1>3, <1>4, <1>7, <1>13, <1>14

\* The restore row in hand is one of the rows.
LEMMA BackTypes ==
  ASSUME TypeOK, InHand, [Next]_vars
  PROVE  rp'.back < seq'
<1>1. rp \in RpStates /\ rp.back \in Nat /\ rp.back < seq /\ seq \in Nat \ {0}
  BY DEF TypeOK, RpStates
<1>2. CASE WriteBack \/ WriteMain
  BY <1>2, RowsWritten
<1>3. CASE rp'.back \in {rp.back, 0}
  BY <1>1, <1>3, RowsTypes DEF RowsTyped
<1>4. CASE rp' \in {rp, RpIdle}
  BY <1>3, <1>4, IdleTypes
<1>5. CASE SolveStart
  <2>1. rp'.back = 0
    BY <1>5 DEF SolveStart, RpIdle, NoRow
  <2> QED BY <1>3, <2>1
<1>6. CASE Snapshot \/ Preserve \/ Delete \/ Plan \/ Return
  <2>1. rp'.back = rp.back
    BY <1>1, <1>6 DEF Snapshot, Preserve, Delete, Plan, Return, Goes, RpStates
  <2> QED BY <1>3, <2>1
<1>7. CASE rp' # RpIdle /\ (Consider \/ Propose)
  <2>1. rp'.back = rp.back
    BY <1>1, <1>7 DEF Consider, Propose, Goes, RpStates
  <2> QED BY <1>3, <2>1
<1>8. CASE PlanFails \/ PutBackFails \/ (rp' # RpIdle /\ WriteEnds)
  <2>1. rp'.back = 0
    <3>1. CASE PlanFails \/ PutBackFails
      BY <3>1, Fails
    <3>2. CASE rp' # RpIdle /\ WriteEnds
      BY <3>2 DEF WriteEnds, RpIdle, NoRow
    <3> QED BY <1>8, <3>1, <3>2
  <2> QED BY <1>3, <2>1
<1> QED BY <1>2, <1>4, <1>5, <1>6, <1>7, <1>8
     DEF Next, Dispatch, AutoApprove, WriteEnds, Consider, Propose, Heartbeat, HbStart, BootBlind, RowEnds, RowMatches,
     RowFlags, RowCalls, CallSucceeds, CallFails, HbTail, DriftReset, Owner, Approve, Reject, Gesture, Tick, Restart, vars

\* What a heartbeat has in hand keeps its type, and its rows their ids.
LEMMA HeartbeatTypes ==
  ASSUME TypeOK, InHand, [Next]_vars
  PROVE  hb' \in HbStates /\ \A r \in hb'.todo : r \in Row /\ r.id < seq'
<1>1. hb \in HbStates /\ (\A r \in rows \cup hb.todo : r \in Row /\ r.id < seq)
  BY DEF TypeOK
<1>2. seq \in Nat \ {0} /\ seq' \in {seq, seq + 1} /\ \A r \in Row : r.id \in Nat
  BY RowsTypes DEF RowsTyped, Row
<1>3. ASSUME hb' \in HbStates, hb'.todo \subseteq rows \cup hb.todo
      PROVE  hb' \in HbStates /\ \A r \in hb'.todo : r \in Row /\ r.id < seq'
  BY <1>1, <1>2, <1>3
<1>4. CASE HbStart
  <2>1. PICK seen \in SUBSET rows, planned \in BOOLEAN :
          hb' = [hb EXCEPT !.at = "rows", !.planned = planned, !.todo = {r \in seen : Open(r) /\ r.at <= now}]
    <3> DEFINE seen == {r \in rows : r.date = Date(now)}
    <3>1. Justified(seen) \in BOOLEAN
      BY Zenon DEF Justified
    <3>2. hb' = [hb EXCEPT !.at = "rows", !.planned = Justified(seen), !.todo = {r \in seen : Open(r) /\ r.at <= now}]
      BY <1>4 DEF HbStart
    <3> QED BY <3>1, <3>2
  <2>2. {r \in seen : Open(r) /\ r.at <= now} \in SUBSET Row
    BY <1>1
  <2>3. hb' \in HbStates
    BY <1>1, <2>1, <2>2 DEF HbStates
  <2>4. hb'.todo \subseteq rows
    BY <1>1, <2>1 DEF HbStates
  <2> QED BY <1>3, <2>3, <2>4
<1>5. CASE hb' = hb
  BY <1>1, <1>3, <1>5
<1>6. CASE hb' \in {HbIdle, [HbIdle EXCEPT !.boot = TRUE]}
  <2>1. hb'.todo = {}
    BY <1>6 DEF HbIdle
  <2>2. hb' \in HbStates
    BY <1>6, IdleTypes DEF HbStates
  <2> QED BY <1>3, <2>1, <2>2
<1>7. CASE RowEnds \/ RowMatches \/ RowFlags \/ CallSucceeds \/ CallFails
  <2>1. hb' \in {[hb EXCEPT !.todo = @ \ {NextRow}], [hb EXCEPT !.at = "rows", !.todo = @ \ {NextRow}]}
    BY <1>7 DEF RowEnds, RowMatches, RowFlags, CallSucceeds, CallFails, RowDone
  <2>2. hb' \in HbStates /\ hb'.todo \subseteq hb.todo
    BY <1>1, <2>1 DEF HbStates
  <2> QED BY <1>3, <2>2
<1>8. CASE RowCalls \/ HbTail
  <2>1. hb' \in {[hb EXCEPT !.at = "call"], [hb EXCEPT !.at = "reset"], HbIdle}
    BY <1>8 DEF RowCalls, HbTail
  <2>2. CASE hb' # HbIdle
    <3>1. hb' \in HbStates /\ hb'.todo = hb.todo
      BY <1>1, <2>1, <2>2 DEF HbStates
    <3> QED BY <1>3, <3>1
  <2> QED BY <1>6, <2>2
<1> QED BY <1>4, <1>5, <1>6, <1>7, <1>8
     DEF Next, SolveStart, Dispatch, Snapshot, Preserve, Delete, Plan, PlanFails, PutBackFails, Return, WriteBack, WriteMain,
     WriteEnds, Consider, Propose, AutoApprove, Heartbeat, BootBlind, DriftReset, Owner, Approve, Reject, Gesture,
     Tick, Restart, vars

\* The sessions of an applied row, by its id (_FIRST_APPLIED_SESSION).
FirstTyped == DOMAIN first \subseteq 1..(seq - 1) /\ \A i \in DOMAIN first : first[i] \in Times

\* The clock, the device and the sessions keep their types.
LEMMA DeviceTypes ==
  ASSUME TypeOK, InHand, [Next]_vars
  PROVE  now' \in Times /\ offset' \in Offsets /\ FirstTyped'
<1>1. now \in Times /\ offset \in Offsets /\ FirstTyped /\ 0 \in Offsets /\ MaxTime \in Nat
  BY ConstantTypes DEF TypeOK, FirstTyped
<1>2. seq \in Nat \ {0} /\ seq' \in {seq, seq + 1}
  BY RowsTypes DEF RowsTyped
<1>3. now' \in Times
  <2>1. CASE now' = now
    BY <1>1, <2>1
  <2>2. CASE Tick
    BY <1>1, <2>2 DEF Tick, Times
  <2> QED BY <2>1, <2>2
     DEF Next, SolveStart, Dispatch, Snapshot, Preserve, Delete, Plan, PlanFails, PutBackFails, Return, WriteBack, WriteMain,
     WriteEnds, Consider, Propose, AutoApprove, Heartbeat, HbStart, BootBlind, RowEnds, RowMatches, RowFlags, RowCalls,
     CallSucceeds, CallFails, HbTail, DriftReset, Owner, Approve, Reject, Gesture, Restart, vars, world
<1>4. CASE CallSucceeds \/ CallFails
  <2>1. NextRow \in Row /\ NextRow.id < seq
    BY <1>4, NextRowIn DEF CallSucceeds, CallFails, InHand
  <2>2. NextRow.off \in Offsets /\ NextRow.id \in 1..(seq - 1)
    BY <1>2, <2>1 DEF Row
  <2>3. offset' \in Offsets
    BY <1>1, <1>4, <2>2 DEF CallSucceeds, CallFails
  <2>4. FirstTyped'
    <3>1. CASE first' = first
      BY <1>1, <1>2, <3>1 DEF FirstTyped
    <3>2. CASE first' = [i \in DOMAIN first \cup {NextRow.id} |-> IF i \in DOMAIN first THEN first[i] ELSE now]
      <4>1. DOMAIN first' \subseteq 1..(seq' - 1)
        BY <1>1, <1>2, <2>2, <3>2 DEF FirstTyped
      <4>2. \A i \in DOMAIN first' : first'[i] \in Times
        BY <1>1, <3>2 DEF FirstTyped
      <4> QED BY <4>1, <4>2 DEF FirstTyped
    <3> QED BY <1>4, <3>1, <3>2 DEF CallSucceeds, CallFails
  <2> QED BY <1>3, <2>3, <2>4
<1>5. CASE offset' \in Offsets /\ first' = first
  BY <1>1, <1>2, <1>3, <1>5 DEF FirstTyped
<1>6. CASE Restart
  <2>1. offset' = offset /\ first' = [i \in {} |-> 0]
    BY <1>6 DEF Restart
  <2>2. FirstTyped'
    BY <2>1 DEF FirstTyped
  <2> QED BY <1>1, <1>3, <2>1, <2>2
<1>7. CASE DriftReset \/ Gesture
  BY <1>1, <1>5, <1>7 DEF DriftReset, Gesture
<1> QED BY <1>1, <1>4, <1>5, <1>6, <1>7
     DEF Next, SolveStart, Dispatch, Snapshot, Preserve, Delete, Plan, PlanFails, PutBackFails, Return, WriteBack, WriteMain,
     WriteEnds, Consider, Propose, AutoApprove, Heartbeat, HbStart, BootBlind, RowEnds, RowMatches, RowFlags, RowCalls,
     HbTail, Owner, Approve, Reject, Tick, vars

\* A consent of each plan date (plan_consent).
Consents == [Dates -> [st : {"none", "pending_approval", "approved", "rejected"}, exp : Nat \cup {Never}]]

\* The consents keep their type; the counts stay below their bounds.
LEMMA ConsentTypes ==
  ASSUME TypeOK, [Next]_vars
  PROVE  consent' \in Consents /\ setting' \in Settings /\ plans' \in 0..MaxPlans /\ troubles' \in 0..MaxTroubles
<1>1. /\ consent \in Consents /\ setting \in Settings /\ plans \in 0..MaxPlans /\ troubles \in 0..MaxTroubles
      /\ MaxPlans \in Nat /\ MaxTroubles \in Nat /\ now \in Nat /\ Expiry \in Nat
  BY ConstantTypes DEF TypeOK, Consents, Times
<1>2. ASSUME NEW d \in Dates, NEW c \in [st : {"none", "pending_approval", "approved", "rejected"}, exp : Nat \cup {Never}],
             consent' = [consent EXCEPT ![d] = c]
      PROVE  consent' \in Consents
  BY <1>1, <1>2 DEF Consents
<1>3. ASSUME NEW d \in Dates, NEW st \in {"approved", "rejected"},
             consent' = [consent EXCEPT ![d].st = IF @ = "pending_approval" THEN st ELSE @]
      PROVE  consent' \in Consents
  <2> DEFINE c == [consent[d] EXCEPT !.st = IF @ = "pending_approval" THEN st ELSE @]
  <2>1. c \in [st : {"none", "pending_approval", "approved", "rejected"}, exp : Nat \cup {Never}]
    BY <1>1, <1>3 DEF Consents
  <2>2. consent' = [consent EXCEPT ![d] = c]
    BY <1>1, <1>3 DEF Consents
  <2> HIDE DEF c
  <2> QED BY <1>2, <2>1, <2>2
<1>4. \A t : Date(t) \in Dates
  BY DateTypes
<1>5. PlanDate \in Dates
  BY <1>4 DEF PlanDate
<1>6. consent' \in Consents
  <2>1. CASE consent' = consent
    BY <1>1, <2>1
  <2>2. CASE Propose
    <3>1. now + Expiry \in Nat
      BY <1>1
    <3> QED BY <1>2, <1>5, <2>2, <3>1 DEF Propose
  <2>3. CASE AutoApprove
    BY <1>3, <1>5, <2>3 DEF AutoApprove, Approves
  <2>4. CASE HbStart
    BY <1>3, <1>4, <2>1, <2>4 DEF HbStart, Approves
  <2>5. CASE Owner
    BY <1>3, <2>5 DEF Owner, Approve, Reject, Approves
  <2> QED BY <2>1, <2>2, <2>3, <2>4, <2>5
     DEF Next, SolveStart, Dispatch, Snapshot, Preserve, Delete, Plan, PlanFails, PutBackFails, Return, WriteBack, WriteMain,
     WriteEnds, Consider, Heartbeat, BootBlind, RowEnds, RowMatches, RowFlags, RowCalls, CallSucceeds, CallFails,
     HbTail, DriftReset, Gesture, Tick, Restart, vars
<1>7. setting' = setting /\ plans' \in 0..MaxPlans
  <2>1. CASE SolveStart
    BY <1>1, <2>1 DEF SolveStart
  <2>2. CASE setting' = setting /\ plans' = plans
    BY <1>1, <2>2
  <2> QED BY <2>1, <2>2
     DEF Next, Dispatch, Snapshot, Preserve, Delete, Plan, PlanFails, PutBackFails, Return, WriteBack, WriteMain,
     WriteEnds, Consider, Propose, AutoApprove, Heartbeat, HbStart, BootBlind, RowEnds, RowMatches, RowFlags, RowCalls,
     CallSucceeds, CallFails, HbTail, DriftReset, Owner, Approve, Reject, Gesture, Tick, Restart, vars, world
<1>8. troubles' = troubles \/ Trouble
  BY DEF Next, SolveStart, Dispatch, Snapshot, Preserve, Delete, Plan, PlanFails, PutBackFails, Return, WriteBack, WriteMain,
     WriteEnds, Consider, Propose, AutoApprove, Heartbeat, HbStart, BootBlind, RowEnds, RowMatches, RowFlags, RowCalls,
     CallSucceeds, CallFails, HbTail, DriftReset, Owner, Approve, Reject, Gesture, Tick, Restart, vars, world
<1> QED BY <1>1, <1>6, <1>7, <1>8 DEF Trouble

\* Every step keeps the types.
LEMMA TypeStep ==
  ASSUME TypeOK, InHand, [Next]_vars
  PROVE  TypeOK'
<1>1. seq' \in Nat \ {0} /\ \A r \in rows' : r \in Row /\ r.id < seq'
  BY RowsTypes DEF RowsTyped
<1>2. FirstTyped' /\ now' \in Times /\ offset' \in Offsets
  BY DeviceTypes
<1>3. DOMAIN first' \subseteq 1..(seq' - 1) /\ \A i \in DOMAIN first' : first'[i] \in Times
  BY <1>2 DEF FirstTyped
<1>4. consent' \in [Dates -> [st : {"none", "pending_approval", "approved", "rejected"}, exp : Nat \cup {Never}]]
  BY ConsentTypes DEF Consents
<1>5. setting' \in Settings /\ plans' \in 0..MaxPlans /\ troubles' \in 0..MaxTroubles
  BY ConsentTypes
<1>6. hb' \in HbStates /\ \A r \in hb'.todo : r \in Row /\ r.id < seq'
  BY HeartbeatTypes
<1>7. rp' \in RpStates /\ rp'.back < seq'
  BY DispatchTypes, BackTypes
<1> QED BY <1>1, <1>2, <1>3, <1>4, <1>5, <1>6, <1>7 DEF TypeOK

----------------------------------------------------------------------------
(* The steps keep the invariant *)

\* Only WriteBack goes to the window's own row, only RowCalls to a call.
LEMMA InHandStep ==
  ASSUME TypeOK, InHand, [Next]_vars
  PROVE  InHand'
<1>1. rp \in RpStates /\ hb \in HbStates
  BY DEF TypeOK
<1>2. rp'.at = "main" => rp'.todo # {}
  <2>1. CASE rp' = rp
    BY <2>1 DEF InHand
  <2>2. CASE WriteBack
    BY <1>1, <2>2 DEF WriteBack, Goes, RpStates
  <2>3. CASE rp' = RpIdle
    BY <2>3 DEF RpIdle
  <2>4. CASE SolveStart
    BY <2>4 DEF SolveStart, RpIdle
  <2>5. CASE rp' # RpIdle /\ (Snapshot \/ Preserve \/ Delete \/ Plan \/ Return \/ WriteMain \/ Consider \/ Propose)
    <3>1. rp'.at # "main"
      BY <1>1, <2>5 DEF Snapshot, Preserve, Delete, Plan, Return, WriteMain, Consider, Propose, Goes, RpStates
    <3> QED BY <3>1
  <2>6. CASE PlanFails \/ PutBackFails
    <3>1. rp'.at \in {"return", "write"}
      BY <2>6, Fails
    <3> QED BY <3>1
  <2>7. CASE rp' # RpIdle /\ WriteEnds
    <3>1. rp'.at # "main"
      BY <2>7 DEF WriteEnds, RpIdle
    <3> QED BY <3>1
  <2> QED BY <2>1, <2>2, <2>3, <2>4, <2>5, <2>6, <2>7
       DEF Next, Dispatch, Snapshot, WriteEnds, Consider, Propose, AutoApprove, Heartbeat, HbStart, BootBlind, RowEnds,
       RowMatches, RowFlags, RowCalls, CallSucceeds, CallFails, HbTail, DriftReset, Owner, Approve, Reject, Gesture,
       Tick, Restart, vars
<1>3. hb'.at = "call" => hb'.todo # {}
  <2>1. CASE hb' = hb
    BY <2>1 DEF InHand
  <2>2. CASE RowCalls
    BY <1>1, <2>2 DEF RowCalls, Playing, HbStates
  <2>3. CASE hb' \in {HbIdle, [HbIdle EXCEPT !.boot = TRUE]}
    BY <2>3 DEF HbIdle
  <2>4. CASE HbStart \/ RowEnds \/ RowMatches \/ RowFlags \/ CallSucceeds \/ CallFails
    <3>1. hb'.at = "rows"
      BY <1>1, <2>4 DEF HbStart, RowEnds, RowMatches, RowFlags, CallSucceeds, CallFails, RowDone, Playing, HbStates
    <3> QED BY <3>1
  <2>5. CASE HbTail
    BY <1>1, <2>5 DEF HbTail, HbIdle, HbStates
  <2> QED BY <2>1, <2>2, <2>3, <2>4, <2>5
       DEF Next, SolveStart, Dispatch, Snapshot, Preserve, Delete, Plan, PlanFails, PutBackFails, Return, WriteBack, WriteMain,
       WriteEnds, Consider, Propose, AutoApprove, Heartbeat, BootBlind, DriftReset, Owner, Approve, Reject, Gesture,
       Tick, Restart, vars
<1> QED BY <1>2, <1>3 DEF InHand

\* While a dispatch stands still nothing makes a row pending.
LEMMA NonePending ==
  ASSUME TypeOK, InHand, [Next]_vars, rp' = rp
  PROVE  \A r \in rows' : r.st = "pending" => r \in rows
<1>1. rp \in RpStates
  BY DEF TypeOK
<1>2. ~(Delete \/ WriteBack \/ WriteMain)
  BY <1>1 DEF Delete, WriteBack, WriteMain, Goes, RpStates
<1>3. ASSUME NEW id, NEW st \in {"active", "completed", "failed"}, rows' = Marked(id, st)
      PROVE  \A r \in rows' : r.st = "pending" => r \in rows
  BY <1>3, MarkedRows
<1>4. CASE rows' \subseteq rows
  BY <1>4
<1>5. CASE RowEnds \/ RowMatches \/ RowCalls \/ CallFails
  BY <1>3, <1>4, <1>5 DEF RowEnds, RowMatches, RowCalls, CallFails
<1>6. CASE RowFlags
  <2>1. PICK id : rows' = {IF r.id = id THEN [r EXCEPT !.st = "active", !.flag = now] ELSE r : r \in rows}
    BY <1>6 DEF RowFlags
  <2>2. ASSUME NEW r \in rows PROVE [r EXCEPT !.st = "active", !.flag = now].st = "active"
    BY DEF TypeOK, Row
  <2> QED BY <2>1, <2>2
<1> QED BY <1>2, <1>4, <1>5, <1>6
     DEF Next, SolveStart, Dispatch, Snapshot, Preserve, Plan, PlanFails, PutBackFails, Return, WriteEnds, Consider, Propose,
     AutoApprove, Heartbeat, HbStart, BootBlind, CallSucceeds, HbTail, DriftReset, Owner, Approve, Reject, Gesture,
     Tick, Restart, vars

\* Between the holds of the lock no row comes in flight: the clock stands still, and a
\* heartbeat or the owner makes no row pending.
LEMMA SparedStep ==
  ASSUME TypeOK, IInv, [Next]_vars
  PROVE  Spared'
<1>1. rp \in RpStates
  BY DEF TypeOK
<1>2. CASE rp'.at # "delete"
  BY <1>2 DEF Spared
<1>3. CASE Preserve
  <2>1. /\ rp' = [rp EXCEPT !.at = "delete", !.keep = Preserved(ClearFrom, ClearTo)]
        /\ rows' = rows /\ now' = now /\ setting' = setting
    BY <1>3 DEF Preserve, world
  <2>2. rp'.from = rp.from /\ rp'.keep = Preserved(ClearFrom, ClearTo)
    BY <1>1, <2>1 DEF RpStates
  <2>3. ClearFrom' = ClearFrom /\ ClearTo' = ClearTo
    BY <2>1, <2>2 DEF ClearFrom, ClearTo, PlanDate
  <2>4. \A r \in InRange(ClearFrom, ClearTo) : InFlight(r) => r.id \in Preserved(ClearFrom, ClearTo)
    BY DEF Preserved
  <2> QED BY <2>1, <2>2, <2>3, <2>4 DEF Spared, InRange, InFlight, Covers
<1>4. CASE rp' = rp /\ rp.at = "delete"
  <2>1. now' = now /\ setting' = setting
    BY <1>4 DEF Next, SolveStart, Dispatch, Snapshot, Preserve, Delete, Plan, PlanFails, PutBackFails, Return, WriteBack, WriteMain,
       WriteEnds, Consider, Propose, AutoApprove, Heartbeat, HbStart, BootBlind, RowEnds, RowMatches, RowFlags, RowCalls,
       CallSucceeds, CallFails, HbTail, DriftReset, Owner, Approve, Reject, Gesture, Tick, Restart, vars, world
  <2>2. ClearFrom' = ClearFrom /\ ClearTo' = ClearTo
    BY <1>4, <2>1 DEF ClearFrom, ClearTo, PlanDate
  <2>3. \A r \in rows' : r.st = "pending" => r \in rows
    BY <1>4, NonePending DEF IInv
  <2>4. Spared
    BY DEF IInv
  <2> QED BY <1>4, <2>1, <2>2, <2>3, <2>4 DEF Spared, InRange, InFlight, Covers
<1>5. rp' = rp \/ Preserve \/ rp'.at # "delete"
  <2>1. CASE SolveStart
    <3>1. rp'.at = "solving"
      BY <2>1 DEF SolveStart, RpIdle
    <3> QED BY <3>1
  <2>2. CASE Snapshot \/ Delete \/ Plan \/ Return \/ WriteBack \/ WriteMain
    BY <1>1, <2>2 DEF Snapshot, Delete, Plan, Return, WriteBack, WriteMain, Goes, RpStates
  <2>3. CASE Consider \/ Propose
    BY <1>1, <2>3 DEF Consider, Propose, Goes, RpIdle, RpStates
  <2>5. CASE PlanFails \/ PutBackFails
    BY <2>5, Fails
  <2>6. CASE WriteEnds
    BY <2>6 DEF WriteEnds, RpIdle
  <2>4. CASE rp' = RpIdle
    <3>1. rp'.at = "idle"
      BY <2>4 DEF RpIdle
    <3> QED BY <3>1
  <2> QED BY <2>1, <2>2, <2>3, <2>4, <2>5, <2>6
       DEF Next, Dispatch, AutoApprove, Heartbeat, HbStart, BootBlind, RowEnds, RowMatches, RowFlags, RowCalls,
       CallSucceeds, CallFails, HbTail, DriftReset, Owner, Approve, Reject, Gesture, Tick, Restart, vars
<1> QED BY <1>2, <1>3, <1>4, <1>5

\* A slot keeps its one row: an insert looks for the row of the slot whatever its status.
LEMMA OneRowStep ==
  ASSUME TypeOK, IInv, [Next]_vars
  PROVE  OneRowPerSlot'
<1> USE DEF IInv
<1>1. ASSUME NEW S, \A r, s \in S : r.kind = s.kind /\ r.at = s.at => r = s, rows' \subseteq S
      PROVE  OneRowPerSlot'
  BY <1>1 DEF OneRowPerSlot
<1>2. CASE rows' \subseteq rows
  BY <1>2 DEF OneRowPerSlot
<1>3. CASE WriteBack \/ WriteMain
  <2>1. rp.todo # {} /\ rp.back \in Nat
    BY <1>3 DEF WriteBack, WriteMain, InHand, TypeOK, RpStates
  <2> DEFINE p == NextPair
  <2>2. p \in Window /\ p.at \in Nat /\ p.to \in Nat /\ p.to + RestoreLen \in Nat /\ p.off \in Offsets
    BY <2>1, NextPairIn, ConstantTypes DEF Window
  <2>3. PlanDate \in Dates /\ NoRow \in Nat /\ "restore" \in Kinds /\ "lwt_preheat" \in Kinds /\ 0 \in Offsets
    BY DateTypes, ConstantTypes DEF PlanDate, NoRow, Kinds
  <2> HIDE DEF p
  <2>4. CASE WriteBack
    <3>1. rows' \in {rows, Upserted("restore", p.to, p.to + RestoreLen, 0, NoRow, PlanDate)}
      BY <2>4 DEF WriteBack, p
    <3>2. \A r, s \in Upserted("restore", p.to, p.to + RestoreLen, 0, NoRow, PlanDate) :
            r.kind = s.kind /\ r.at = s.at => r = s
      BY <2>2, <2>3, UpsertedSlots
    <3> QED BY <1>1, <1>2, <3>1, <3>2
  <2>5. CASE WriteMain
    <3> DEFINE U == Upserted("lwt_preheat", p.at, p.to, p.off, rp.back, PlanDate)
    <3>1. PICK id : rows' = {IF r.id = id /\ rp.back # NoRow THEN [r EXCEPT !.link = rp.back] ELSE r : r \in U}
      BY <2>5 DEF WriteMain, p
    <3>2. \A r, s \in U : r.kind = s.kind /\ r.at = s.at => r = s
      BY <2>1, <2>2, <2>3, UpsertedSlots
    <3>3. \A r \in U : r \in Row
      BY <2>1, <2>2, <2>3, UpsertedTypes
    <3> HIDE DEF U
    <3>4. \A q \in rows' : \E r \in U : /\ q = IF r.id = id /\ rp.back # NoRow THEN [r EXCEPT !.link = rp.back] ELSE r
                                        /\ q.kind = r.kind /\ q.at = r.at
      BY <3>1, <3>3 DEF Row
    <3>5. \A q, t \in rows' : q.kind = t.kind /\ q.at = t.at => q = t
      BY <3>2, <3>4
    <3> QED BY <3>5 DEF OneRowPerSlot
  <2> QED BY <1>3, <2>4, <2>5
<1>4. ASSUME NEW id, NEW st, rows' = Marked(id, st)
      PROVE  OneRowPerSlot'
  <2>1. \A p, q \in Marked(id, st) : p.kind = q.kind /\ p.at = q.at => p = q
    BY MarkedSlots
  <2> QED BY <1>1, <1>4, <2>1
<1>5. CASE RowEnds \/ RowMatches \/ RowCalls \/ CallFails
  BY <1>2, <1>4, <1>5 DEF RowEnds, RowMatches, RowCalls, CallFails
<1>6. CASE RowFlags
  <2>1. PICK id : rows' = {IF r.id = id THEN [r EXCEPT !.st = "active", !.flag = now] ELSE r : r \in rows}
    BY <1>6 DEF RowFlags
  <2> DEFINE Flagged(r) == IF r.id = id THEN [r EXCEPT !.st = "active", !.flag = now] ELSE r
  <2>2. ASSUME NEW r \in rows PROVE Flagged(r).kind = r.kind /\ Flagged(r).at = r.at
    BY DEF TypeOK, Row
  <2>3. \A r, s \in rows : r.kind = s.kind /\ r.at = s.at => r = s
    BY DEF OneRowPerSlot
  <2>4. rows' = {Flagged(r) : r \in rows}
    BY <2>1
  <2> HIDE DEF Flagged
  <2>5. \A q, t \in rows' : q.kind = t.kind /\ q.at = t.at => q = t
    BY <2>2, <2>3, <2>4
  <2> QED BY <2>5 DEF OneRowPerSlot
<1>7. CASE Delete \/ Owner
  BY <1>2, <1>7 DEF Delete, Owner, Approve, Reject
<1> QED BY <1>2, <1>3, <1>5, <1>6, <1>7
     DEF Next, SolveStart, Dispatch, Snapshot, Preserve, Plan, PlanFails, PutBackFails, Return, WriteEnds, Consider, Propose,
     AutoApprove, Heartbeat, HbStart, BootBlind, CallSucceeds, HbTail, DriftReset, Gesture, Tick, Restart, vars

\* A dispatch's step leaves the rows under way as they are, but for their link: the
\* clear has spared them, and upsert_action refreshes no row in flight.
LEMMA UnderWayStep ==
  ASSUME TypeOK, IInv, Dispatch, NEW r \in rows, Open(r), Covers(r, now)
  PROVE  \E s \in rows' : s = [r EXCEPT !.link = s.link]
<1>1. r \in Row /\ rp \in RpStates
  BY DEF TypeOK
<1>2. r.st = "pending" => InFlight(r)
  BY DEF InFlight
<1>3. CASE r \in rows'
  <2>1. r = [r EXCEPT !.link = r.link]
    BY <1>1 DEF Row
  <2> QED BY <1>3, <2>1
<1>4. CASE Delete
  <2>1. r \in InRange(ClearFrom, ClearTo) => r.id \in rp.keep
    BY <1>2, <1>4 DEF Delete, IInv, Spared, InRange
  <2> QED BY <1>3, <1>4, <2>1 DEF Delete
<1>5. CASE WriteBack
  <2>1. r.st # "pending" \/ InFlight(r)
    BY <1>2
  <2>2. r \in Upserted("restore", NextPair.to, NextPair.to + RestoreLen, 0, NoRow, PlanDate)
    BY <2>1, UpsertedKeeps
  <2>3. r \in rows'
    BY <1>5, <2>2 DEF WriteBack
  <2> QED BY <1>3, <2>3
<1>6. CASE WriteMain
  <2> DEFINE U == Upserted("lwt_preheat", NextPair.at, NextPair.to, NextPair.off, rp.back, PlanDate)
  <2>1. r.st # "pending" \/ InFlight(r)
    BY <1>2
  <2>2. r \in U
    BY <2>1, UpsertedKeeps
  <2>3. PICK id : rows' = {IF q.id = id /\ rp.back # NoRow THEN [q EXCEPT !.link = rp.back] ELSE q : q \in U}
    BY <1>6 DEF WriteMain
  <2> HIDE DEF U
  <2>4. CASE r \in rows'
    BY <1>3, <2>4
  <2>5. CASE [r EXCEPT !.link = rp.back] \in rows'
    <3>1. [r EXCEPT !.link = rp.back].link = rp.back
      BY <1>1 DEF Row
    <3> QED BY <2>5, <3>1
  <2> QED BY <2>2, <2>3, <2>4, <2>5
<1> QED BY <1>3, <1>4, <1>5, <1>6
     DEF Dispatch, Snapshot, Preserve, Plan, Return, WriteEnds, Consider, Propose, AutoApprove

----------------------------------------------------------------------------
(* The theorems *)

\* It holds at the start.
LEMMA InitIInv == Init => TypeOK /\ IInv
<1> SUFFICES ASSUME Init PROVE TypeOK /\ IInv
  OBVIOUS
<1>1. rows = {} /\ rp = RpIdle /\ hb = HbIdle
  BY DEF Init
<1>2. hb.todo = {} /\ hb.at = "idle" /\ rp.at = "idle"
  BY <1>1 DEF HbIdle, RpIdle
<1>3. IInv
  BY <1>1, <1>2 DEF IInv, InHand, Spared, OneRowPerSlot
<1>4. now \in Times /\ offset \in Offsets /\ plans \in 0..MaxPlans /\ troubles \in 0..MaxTroubles
  BY ConstantTypes DEF Init
<1>5. rp \in RpStates /\ hb \in HbStates /\ rp.back = 0 /\ seq = 1
  BY <1>1, IdleTypes DEF Init
<1>6. DOMAIN first = {}
  BY DEF Init
<1>7. consent \in [Dates -> [st : {"none", "pending_approval", "approved", "rejected"}, exp : Nat \cup {Never}]]
  BY DEF Init
<1>8. setting \in Settings
  BY DEF Init
<1> QED BY <1>1, <1>2, <1>3, <1>4, <1>5, <1>6, <1>7, <1>8 DEF TypeOK

\* It holds of every reachable state.
LEMMA Invariant == Spec => [](TypeOK /\ IInv)
<1>1. TypeOK /\ IInv /\ [Next]_vars => TypeOK' /\ IInv'
  BY TypeStep, InHandStep, SparedStep, OneRowStep DEF IInv
<1> QED BY <1>1, InitIInv, PTL DEF Spec

\* Every row, window in hand, consent and clock has its type, for any offsets and lengths.
THEOREM TypeCorrect == Spec => []TypeOK
BY Invariant, PTL

\* No slot ever has two rows of one kind (upsert_action), however dispatches,
\* heartbeats, the owner and restarts interleave.
THEOREM OneRow == Spec => []OneRowPerSlot
<1>1. IInv => OneRowPerSlot
  BY DEF IInv
<1> QED BY <1>1, Invariant, PTL

\* No step of a dispatch removes or changes a row that is under way, but for its link:
\* not the clear, which decides what to spare and deletes in two holds of the database
\* lock, nor the writes after it.
THEOREM UnderWay == Spec => UnderWayKept
<1>1. TypeOK /\ IInv /\ [Next]_vars =>
        [Dispatch => \A r \in rows : Open(r) /\ Covers(r, now) =>
                       \E s \in rows' : s = [r EXCEPT !.link = s.link]]_vars
  BY UnderWayStep
<1> QED BY <1>1, Invariant, PTL DEF Spec, UnderWayKept
=============================================================================
