--------------------------- MODULE AutoTuneProofs ---------------------------
(* Proofs about AutoTune: types, one change under evaluation at a time, and    *)
(* what the ledger tells of the settings: that it is true, that the drift is   *)
(* bounded by it and that the owner's freezes are in it.                       *)
EXTENDS AutoTune, SequenceTheorems, WellFoundedInduction, TLAPS

----------------------------------------------------------------------------
(* The inductive invariant *)

\* Whoever is between taking the lock and releasing it holds it.
LockHeld ==
  /\ pr.at # "idle" => lock = "pr"
  /\ ow.at \in {"insert", "supersede"} => lock = "ow"
  /\ ju.at = "restore" => lock = "ju"
  /\ ap.at = "restore" => lock = "ap"

\* A proposal at work has seen that nothing is under evaluation, and nothing can be meanwhile.
Alone == pr.at # "idle" => Evaluating = {}

\* A setting has one change under evaluation at most, unless the ledger has lost track of it.
OneOfKey ==
  \A i, j \in Evaluating : rows[i].key = rows[j].key => i = j \/ rows[i].key \in exposed

\* So a decision of the owner has ended one change at most.
EndedOne ==
  \A i, j \in DOMAIN rows :
    /\ rows[i].status = "superseded_manual" /\ rows[j].status = "superseded_manual"
    /\ rows[i].by = rows[j].by /\ rows[i].by # 0 /\ rows[i].key = rows[j].key
    => i = j \/ rows[i].key \in exposed

\* The row the owner's write has just left has ended nothing yet.
FreshRow == ow.at = "supersede" => ow.row # 0 /\ \A i \in DOMAIN rows : rows[i].by # ow.row

\* Once the owner's write has left its row, no proposal of before is still to be recorded;
\* and if it has ended a change, none of its setting is under evaluation when it is
\* undone, unless an activity has written the setting since.
UndoFinds ==
  /\ ow.at \in {"write", "hook", "insert"} => ow.row = 0
  /\ ow.row # 0 /\ pr.at = "record" /\ pr.key = ow.key => ow.met
  /\ ow.at \in {"done", "undo"} /\ ow.row # 0 /\ ~ow.met /\ (\E i \in DOMAIN rows : rows[i].by = ow.row)
       => Superseded = {}

Serial == LockHeld /\ Alone /\ EndedOne /\ FreshRow /\ OneOfKey
IInv   == Serial /\ UndoFinds

----------------------------------------------------------------------------
(* The ledger under updates *)

\* A row with a new status, count or reference is a row.
LEMMA RowFields ==
  ASSUME NEW r \in LedgerRow, NEW s \in Statuses, NEW n \in Nat
  PROVE  /\ [r EXCEPT !.status = s] \in LedgerRow
         /\ [r EXCEPT !.by = n] \in LedgerRow /\ [r EXCEPT !.by = n].by = n
         /\ [r EXCEPT !.deferred = n] \in LedgerRow
BY DEF LedgerRow

\* What is given for every row of a ledger is a ledger.
LEMMA UpdateIsLedger ==
  ASSUME NEW s \in Seq(LedgerRow), NEW f \in [DOMAIN s -> LedgerRow]
  PROVE  f \in Seq(LedgerRow) /\ DOMAIN f = DOMAIN s /\ Len(f) = Len(s)
<1>1. DOMAIN s = 1..Len(s) /\ Len(s) \in Nat
  BY ElementOfSeq
<1> QED BY <1>1, SeqDef, LenProperties

\* A row that is marked stays a row of the ledger.
LEMMA MarkedType ==
  ASSUME RowsOK, NEW i \in DOMAIN rows, NEW s \in Statuses
  PROVE  /\ Marked(i, s) \in Seq(LedgerRow)
         /\ Len(Marked(i, s)) = Len(rows)
         /\ DOMAIN Marked(i, s) = DOMAIN rows
         /\ \A j \in DOMAIN rows : Marked(i, s)[j].by <= Len(rows)
         /\ Marked(i, s) \in [DOMAIN rows -> LedgerRow]
<1>1. rows \in [DOMAIN rows -> LedgerRow] /\ Len(rows) \in Nat
  BY ElementOfSeq DEF RowsOK
<1>2. Marked(i, s) \in [DOMAIN rows -> LedgerRow]
  BY <1>1 DEF Marked, LedgerRow
<1>3. \A j \in DOMAIN rows : rows[j].by \in Nat /\ rows[j].by <= Len(rows)
  BY <1>1 DEF RowsOK, LedgerRow
<1>4. \A j \in DOMAIN rows : Marked(i, s)[j].by <= Len(rows)
  BY <1>1, <1>3 DEF Marked, LedgerRow
<1>5. DOMAIN Marked(i, s) = DOMAIN rows /\ Marked(i, s) \in Seq(LedgerRow) /\ Len(Marked(i, s)) = Len(rows)
  BY <1>2, UpdateIsLedger DEF RowsOK
<1> QED BY <1>2, <1>4, <1>5

\* The program starts with its types right.
LEMMA TypeInit == Init => TypeOK
<1> SUFFICES ASSUME Init PROVE TypeOK
  OBVIOUS
<1>1. SettingsOK
  BY TuneAssumption DEF Init, SettingsOK
<1>2. RowsOK
  BY EmptySeq DEF Init, RowsOK
<1>3. OwOK /\ PrOK
  BY DEF Init, OwOK, PrOK, OwIdle, PrIdle
<1>4. RbOK(ju) /\ RbOK(ap)
  BY DEF Init, RbOK, RbIdle
<1> QED BY <1>1, <1>2, <1>3, <1>4 DEF TypeOK

\* What a step leaves alone keeps its type, and the rows only grow.
LEMMA TypeUnchanged ==
  ASSUME TypeOK
  PROVE  /\ UNCHANGED rows => RowsOK'
         /\ UNCHANGED <<rows, ow>> => OwOK'
         /\ UNCHANGED pr => PrOK'
         /\ UNCHANGED <<rows, ju>> => RbOK(ju)'
         /\ UNCHANGED <<rows, ap>> => RbOK(ap)'
         /\ UNCHANGED <<day, away, ran, value, lock, bounds, history>> => SettingsOK'
<1>1. UNCHANGED rows => RowsOK'
  BY DEF TypeOK, RowsOK
<1>2. UNCHANGED <<rows, ow>> => OwOK'
  BY DEF TypeOK, OwOK
<1>3. UNCHANGED pr => PrOK'
  BY DEF TypeOK, PrOK
<1>4. UNCHANGED <<rows, ju>> => RbOK(ju)'
  BY DEF TypeOK, RbOK
<1>5. UNCHANGED <<rows, ap>> => RbOK(ap)'
  BY DEF TypeOK, RbOK
<1>6. UNCHANGED <<day, away, ran, value, lock, bounds, history>> => SettingsOK'
  BY DEF TypeOK, SettingsOK, bounds, history
<1> QED BY <1>1, <1>2, <1>3, <1>4, <1>5, <1>6

\* An update of the rows keeps them a ledger of the same length, and with it what the
\* activities know of it.
LEMMA UpdateType ==
  ASSUME RowsOK, NEW f \in [DOMAIN rows -> LedgerRow], rows' = f,
         \A j \in DOMAIN rows : f[j].by <= Len(rows)
  PROVE  /\ RowsOK' /\ Len(rows') = Len(rows) /\ DOMAIN rows' = DOMAIN rows
         /\ OwOK /\ UNCHANGED ow => OwOK'
         /\ RbOK(ju) /\ UNCHANGED ju => RbOK(ju)'
         /\ RbOK(ap) /\ UNCHANGED ap => RbOK(ap)'
<1>1. f \in Seq(LedgerRow) /\ DOMAIN f = DOMAIN rows /\ Len(f) = Len(rows)
  BY UpdateIsLedger DEF RowsOK
<1>2. RowsOK' /\ Len(rows') = Len(rows) /\ DOMAIN rows' = DOMAIN rows
  BY <1>1 DEF RowsOK
<1>3. OwOK /\ UNCHANGED ow => OwOK'
  BY <1>2 DEF OwOK
<1>4. RbOK(ju) /\ UNCHANGED ju => RbOK(ju)'
  BY <1>2 DEF RbOK
<1>5. RbOK(ap) /\ UNCHANGED ap => RbOK(ap)'
  BY <1>2 DEF RbOK
<1> QED BY <1>2, <1>3, <1>4, <1>5

\* So does a new row.
LEMMA AppendType ==
  ASSUME RowsOK, NEW r \in LedgerRow, r.by = 0, rows' = Append(rows, r)
  PROVE  /\ RowsOK' /\ Len(rows') = Len(rows) + 1 /\ DOMAIN rows \subseteq DOMAIN rows'
         /\ OwOK /\ UNCHANGED ow => OwOK'
         /\ RbOK(ju) /\ UNCHANGED ju => RbOK(ju)'
         /\ RbOK(ap) /\ UNCHANGED ap => RbOK(ap)'
<1>1. /\ rows' \in Seq(LedgerRow) /\ Len(rows') = Len(rows) + 1 /\ Len(rows) \in Nat
      /\ DOMAIN rows = 1..Len(rows) /\ DOMAIN rows' = 1..Len(rows) + 1
      /\ rows'[Len(rows) + 1] = r /\ \A j \in DOMAIN rows : rows'[j] = rows[j]
  BY AppendProperties, ElementOfSeq DEF RowsOK
<1>2. ASSUME NEW j \in DOMAIN rows' PROVE rows'[j].by <= Len(rows')
  <2>1. CASE j \in DOMAIN rows
    <3>1. rows[j] \in LedgerRow /\ rows[j].by <= Len(rows)
      BY <2>1, ElementOfSeq, <1>1 DEF RowsOK
    <3>2. rows[j].by \in Nat
      BY <3>1 DEF LedgerRow
    <3> QED BY <1>1, <2>1, <3>1, <3>2
  <2>2. CASE j = Len(rows) + 1
    BY <1>1, <2>2
  <2> QED BY <1>1, <1>2, <2>1, <2>2
<1>3. RowsOK' /\ DOMAIN rows \subseteq DOMAIN rows'
  BY <1>1, <1>2 DEF RowsOK
<1>4. OwOK /\ UNCHANGED ow => OwOK'
  BY <1>1 DEF OwOK
<1>5. RbOK(ju) /\ UNCHANGED ju => RbOK(ju)'
  BY <1>3 DEF RbOK
<1>6. RbOK(ap) /\ UNCHANGED ap => RbOK(ap)'
  BY <1>3 DEF RbOK
<1> QED BY <1>1, <1>3, <1>4, <1>5, <1>6

\* A step of the proposer, the owner, the judge or the household keeps the types.
LEMMA TypeStep ==
  ASSUME TypeOK, [Next]_vars
  PROVE  TypeOK'
<1> USE TuneAssumption
<1>a. SettingsOK
  BY DEF TypeOK
<1>b. RowsOK /\ rows \in [DOMAIN rows -> LedgerRow] /\ DOMAIN rows = 1..Len(rows) /\ Len(rows) \in Nat
  BY ElementOfSeq DEF TypeOK, RowsOK
<1>c. OwOK
  BY DEF TypeOK
<1>d. PrOK
  BY DEF TypeOK
<1>e. RbOK(ju) /\ RbOK(ap)
  BY DEF TypeOK
<1>f. \A j \in DOMAIN rows : /\ rows[j] \in LedgerRow /\ rows[j].by \in Nat
                             /\ rows[j].by <= Len(rows) /\ rows[j].key \in Keys
  BY <1>b DEF RowsOK, LedgerRow
<1>1. ASSUME NEW k \in Keys, NEW v \in Values, PrTakes(k, v) PROVE TypeOK'
  <2>1. SettingsOK'
    BY <1>a, <1>1 DEF PrTakes, SettingsOK, bounds, history
  <2>2. PrOK'
    BY <1>a, <1>d, <1>1 DEF PrTakes, PrOK, SettingsOK
  <2> QED BY TypeUnchanged, <1>1, <2>1, <2>2 DEF PrTakes, TypeOK, bounds, history, threads
<1>2. ASSUME NEW k \in Keys, NEW v \in Values, NEW b \in BOOLEAN, OwBegins(k, v, b) PROVE TypeOK'
  <2>1. SettingsOK'
    BY <1>a, <1>2 DEF OwBegins, SettingsOK, bounds, history
  <2>2. OwOK'
    BY <1>a, <1>b, <1>c, <1>2, SMTT(30) DEF OwBegins, OwOK, SettingsOK
  <2> QED BY TypeUnchanged, <1>2, <2>1, <2>2 DEF OwBegins, TypeOK, bounds, history, threads
<1>3. ASSUME NEW i \in DOMAIN rows, ApBegins(i) PROVE TypeOK'
  <2>1. SettingsOK'
    BY <1>a, <1>3 DEF ApBegins, SettingsOK, bounds, history
  <2>2. RbOK(ap)'
    BY <1>b, <1>e, <1>3 DEF ApBegins, RbOK
  <2> QED BY TypeUnchanged, <1>3, <2>1, <2>2 DEF ApBegins, TypeOK, bounds, history, threads
<1>4. CASE PrRechecks
  <2>1. SettingsOK'
    BY <1>a, <1>4 DEF PrRechecks, SettingsOK, bounds, history
  <2>2. PrOK'
    BY <1>d, <1>4 DEF PrRechecks, PrOK, PrIdle
  <2> QED BY TypeUnchanged, <1>4, <2>1, <2>2 DEF PrRechecks, TypeOK, bounds, history, threads
<1>5. CASE PrWrites
  <2>1. SettingsOK'
    BY <1>a, <1>d, <1>5 DEF PrWrites, SettingsOK, PrOK, bounds, history
  <2>2. OwOK'
    BY <1>c, <1>5 DEF PrWrites, OwOK, Meets
  <2>3. PrOK'
    BY <1>d, <1>5 DEF PrWrites, PrOK
  <2> QED BY TypeUnchanged, <1>5, <2>1, <2>2, <2>3 DEF PrWrites, TypeOK, bounds, history, threads
<1>6. CASE PrRecords
  <2> DEFINE r == Row(pr.key, pr.cur, pr.new, "evaluating", 0, FALSE)
  <2>1. r \in LedgerRow /\ r.by = 0 /\ rows' = Append(rows, r)
    BY <1>a, <1>d, <1>6 DEF PrRecords, PrOK, SettingsOK, Row, LedgerRow, Statuses
  <2> HIDE DEF r
  <2>2. RowsOK' /\ Len(rows') = Len(rows) + 1 /\ OwOK' /\ RbOK(ju)' /\ RbOK(ap)'
    BY <2>1, <1>b, <1>c, <1>e, <1>6, AppendType DEF PrRecords
  <2>3. SettingsOK'
    BY <1>a, <1>6 DEF PrRecords, SettingsOK, bounds, history
  <2>4. PrOK'
    BY <1>d, <1>6 DEF PrRecords, PrOK, PrIdle
  <2> QED BY TypeUnchanged, <1>6, <2>2, <2>3, <2>4 DEF PrRecords, TypeOK, bounds, history, threads
<1>7. CASE PrRecordFails
  <2>1. SettingsOK'
    BY <1>a, <1>d, <1>7 DEF PrRecordFails, SettingsOK, PrOK, bounds, history
  <2>2. OwOK'
    BY <1>c, <1>7 DEF PrRecordFails, OwOK, Meets
  <2>3. PrOK'
    BY <1>d, <1>7 DEF PrRecordFails, PrOK, PrIdle
  <2> QED BY TypeUnchanged, <1>7, <2>1, <2>2, <2>3 DEF PrRecordFails, TypeOK, bounds, history, threads
<1>8. CASE OwWrites
  <2>1. SettingsOK'
    <3>1. value' \in [Keys -> Values]
      BY <1>a, <1>c, <1>8 DEF OwWrites, SettingsOK, OwOK
    <3>2. owned' \in [Keys -> [value : Values, until : Nat]]
      <4>1. ow.key \in Keys /\ ow.new \in Values /\ owned \in [Keys -> [value : Values, until : Nat]]
        BY <1>a, <1>c, <1>8 DEF OwWrites, SettingsOK, OwOK
      <4>2. CASE owned' = owned
        BY <4>1, <4>2
      <4>3. CASE owned' = [owned EXCEPT ![ow.key].value = ow.new]
        BY <4>1, <4>3
      <4> QED BY <4>2, <4>3, <1>8 DEF OwWrites
    <3>3. exposed' \subseteq Keys
      BY <1>a, <1>c, <1>8, SMTT(30) DEF OwWrites, SettingsOK, OwOK
    <3> QED BY <1>a, <1>8, <3>1, <3>2, <3>3 DEF OwWrites, SettingsOK, bounds
  <2>2. OwOK'
    <3>1. /\ ow.at # "idle" /\ rows' = rows
          /\ ow' = [ow EXCEPT !.at = "done"] \/ ow' = [ow EXCEPT !.at = "hook"]
      BY <1>8 DEF OwWrites
    <3> QED BY <1>c, <3>1, SMTT(30) DEF OwOK
  <2> QED BY TypeUnchanged, <1>8, <2>1, <2>2 DEF OwWrites, TypeOK, bounds, history, threads
<1>9. CASE OwHook
  <2>1. SettingsOK'
    BY <1>a, <1>c, <1>9 DEF OwHook, SettingsOK, OwOK, Regained, bounds, history
  <2>2. OwOK'
    BY <1>c, <1>9 DEF OwHook, OwOK
  <2> QED BY TypeUnchanged, <1>9, <2>1, <2>2 DEF OwHook, TypeOK, bounds, history, threads
<1>10. CASE OwInserts
  <2> DEFINE r == Row(ow.key, ow.prev, ow.new, "manual", ManualUntil, ow.batch)
  <2>1. r \in LedgerRow /\ r.by = 0 /\ rows' = Append(rows, r)
    <3>1. ManualUntil \in Nat /\ ow.key \in Keys /\ ow.prev \in Values /\ ow.new \in Values
          /\ ow.batch \in BOOLEAN /\ day \in Nat
      <4>1. ManualUntil \in Nat /\ day \in Nat
        BY <1>a DEF SettingsOK, ManualUntil, Until
      <4>2. ow.key \in Keys /\ ow.prev \in Values /\ ow.new \in Values /\ ow.batch \in BOOLEAN
        BY <1>c, <1>10 DEF OwInserts, OwOK
      <4> QED BY <4>1, <4>2
    <3> HIDE TuneAssumption
    <3> QED BY <3>1, <1>10 DEF OwInserts, Row, LedgerRow, Statuses
  <2> HIDE DEF r
  <2>2. RowsOK' /\ Len(rows') = Len(rows) + 1 /\ RbOK(ju)' /\ RbOK(ap)'
    BY <2>1, <1>b, <1>c, <1>e, <1>10, AppendType DEF OwInserts
  <2>3. SettingsOK'
    <3>1. Until(ManualFreeze) \in Nat
      BY <1>a DEF SettingsOK, Until
    <3>2. owned' \in [Keys -> [value : Values, until : Nat]]
      BY <1>a, <1>c, <1>10, <3>1 DEF OwInserts, SettingsOK, OwOK
    <3> QED BY <1>a, <1>10, <3>2 DEF OwInserts, SettingsOK, bounds
  <2>4. OwOK'
    <3>1. ow' = [ow EXCEPT !.at = "supersede", !.row = Len(rows) + 1] /\ ow.at = "insert"
      BY <1>10 DEF OwInserts
    <3>2. Len(rows) + 1 \in Nat /\ Len(rows') = Len(rows) + 1
      BY <1>b, <2>2
    <3> DEFINE n == Len(rows) + 1
    <3>3. n \in Nat /\ ow' = [ow EXCEPT !.at = "supersede", !.row = n]
      BY <3>1, <3>2
    <3>4. /\ ow'.at = "supersede" /\ ow'.row = n /\ ow'.key = ow.key /\ ow'.new = ow.new
          /\ ow'.prev = ow.prev /\ ow'.was = ow.was
      BY <3>3, <1>c DEF OwOK
    <3> HIDE DEF n
    <3>5. ow' \in [at : {"idle", "write", "hook", "insert", "supersede", "done", "undo"},
                   key : Keys \cup {NoKey}, new : Nat, prev : Nat, batch : BOOLEAN, row : Nat,
                   met : BOOLEAN, was : [value : Nat, until : Nat]]
      BY <1>c, <3>3 DEF OwOK
    <3>6. ow'.row <= Len(rows')
      BY <3>2, <3>4 DEF n
    <3> QED BY <1>c, <3>1, <3>4, <3>5, <3>6 DEF OwOK
  <2> QED BY TypeUnchanged, <1>10, <2>2, <2>3, <2>4 DEF OwInserts, TypeOK, bounds, history, threads
<1>11. CASE OwSupersedes
  <2> DEFINE f == [i \in DOMAIN rows |->
                     IF i \in Superseded
                     THEN [rows[i] EXCEPT !.status = "superseded_manual", !.by = ow.row] ELSE rows[i]]
  <2>1. f \in [DOMAIN rows -> LedgerRow] /\ rows' = f /\ \A j \in DOMAIN rows : f[j].by <= Len(rows)
    BY <1>b, <1>f, <1>c, <1>11, ZenonT(40) DEF OwSupersedes, OwOK, LedgerRow, Statuses
  <2> HIDE DEF f
  <2>2. RowsOK' /\ Len(rows') = Len(rows) /\ DOMAIN rows' = DOMAIN rows /\ RbOK(ju)' /\ RbOK(ap)'
    BY <2>1, <1>b, <1>c, <1>e, <1>11, UpdateType DEF OwSupersedes
  <2>3. SettingsOK'
    BY <1>a, <1>11 DEF OwSupersedes, SettingsOK, bounds, history
  <2>4. OwOK'
    BY <1>c, <1>11, <2>2 DEF OwSupersedes, OwOK
  <2> QED BY TypeUnchanged, <1>11, <2>2, <2>3, <2>4 DEF OwSupersedes, TypeOK, bounds, history, threads
<1>12. CASE OwEnds
  <2>1. OwOK'
    BY <1>c, <1>12 DEF OwEnds, OwOK, OwIdle
  <2> QED BY TypeUnchanged, <1>12, <2>1 DEF OwEnds, TypeOK, bounds, history, threads
<1>13. CASE OwUndo
  <2>1. SettingsOK'
    BY <1>a, <1>c, <1>13 DEF OwUndo, SettingsOK, OwOK, bounds, history
  <2>2. OwOK'
    BY <1>c, <1>13 DEF OwUndo, OwOK
  <2> QED BY TypeUnchanged, <1>13, <2>1, <2>2 DEF OwUndo, TypeOK, bounds, history, threads
<1>14. CASE OwUndoes
  <2> DEFINE f == [i \in DOMAIN rows |->
                     IF i \in Undone THEN [rows[i] EXCEPT !.status = "deleted"]
                     ELSE IF i \in Reopened
                          THEN [rows[i] EXCEPT !.status = "evaluating", !.by = 0, !.deferred = 0]
                          ELSE rows[i]]
  <2>1. f \in [DOMAIN rows -> LedgerRow] /\ rows' = f /\ \A j \in DOMAIN rows : f[j].by <= Len(rows)
    <3>1. ASSUME NEW i \in DOMAIN rows
          PROVE  f[i] \in LedgerRow /\ f[i].by <= Len(rows)
      <4>1. CASE i \in Undone
        BY <1>b, <1>f, <4>1 DEF LedgerRow, Statuses
      <4>2. CASE i \notin Undone /\ i \in Reopened
        <5>1. "evaluating" \in Statuses
          BY DEF Statuses
        <5>2. [rows[i] EXCEPT !.status = "evaluating"] \in LedgerRow
          BY <5>1, <1>f, RowFields
        <5>3. [[rows[i] EXCEPT !.status = "evaluating"] EXCEPT !.by = 0] \in LedgerRow
          BY <5>2, <5>1, RowFields
        <5>4. [[[rows[i] EXCEPT !.status = "evaluating"] EXCEPT !.by = 0] EXCEPT !.deferred = 0] \in LedgerRow
          BY <5>3, <5>1, RowFields
        <5>5. f[i] = [[[rows[i] EXCEPT !.status = "evaluating"] EXCEPT !.by = 0] EXCEPT !.deferred = 0]
          BY <4>2, <5>4
        <5>6. f[i].by = 0
          BY <4>2, <1>f DEF LedgerRow
        <5> QED BY <5>4, <5>5, <5>6, <1>b
      <4>3. CASE i \notin Undone /\ i \notin Reopened
        BY <1>f, <4>3
      <4> QED BY <4>1, <4>2, <4>3
    <3>2. rows' = f
      BY <1>14 DEF OwUndoes
    <3> QED BY <3>1, <3>2
  <2> HIDE DEF f
  <2>2. RowsOK' /\ Len(rows') = Len(rows) /\ DOMAIN rows' = DOMAIN rows /\ RbOK(ju)' /\ RbOK(ap)'
    BY <2>1, <1>b, <1>c, <1>e, <1>14, UpdateType DEF OwUndoes
  <2>3. SettingsOK'
    BY <1>a, <1>c, <1>14 DEF OwUndoes, SettingsOK, OwOK, bounds, history
  <2>4. OwOK'
    BY <1>c, <1>14 DEF OwUndoes, OwOK, OwIdle
  <2> QED BY TypeUnchanged, <1>14, <2>2, <2>3, <2>4 DEF OwUndoes, TypeOK, bounds, history, threads
<1>15. CASE JuStarts
  <2>1. SettingsOK'
    BY <1>a, <1>15 DEF JuStarts, SettingsOK, bounds, history
  <2>2. RbOK(ju)'
    <3>1. PICK i \in Evaluating : ju' = [at |-> "judge", id |-> i, deferred |-> rows[i].deferred]
      BY <1>15 DEF JuStarts
    <3>2. i \in DOMAIN rows /\ i \in Nat /\ rows[i].deferred \in Nat /\ rows' = rows
      <4>1. i \in DOMAIN rows /\ i \in Nat
        BY <1>b DEF Evaluating
      <4>2. rows[i].deferred \in Nat
        BY <4>1, <1>f DEF LedgerRow
      <4> QED BY <4>1, <4>2, <1>15 DEF JuStarts
    <3> QED BY <3>1, <3>2 DEF RbOK
  <2> QED BY TypeUnchanged, <1>15, <2>1, <2>2 DEF JuStarts, TypeOK, bounds, history, threads
<1>16. CASE JuReverts
  <2>1. RbOK(ju)'
    BY <1>e, <1>16 DEF JuReverts, RbOK, Refused, RbIdle
  <2> QED BY TypeUnchanged, <1>16, <2>1 DEF JuReverts, TypeOK, bounds, history, threads
<1>17. CASE JuWaits
  <2>1. RbOK(ju)'
    BY <1>e, <1>17 DEF JuWaits, RbOK, RbIdle
  <2> QED BY TypeUnchanged, <1>17, <2>1 DEF JuWaits, TypeOK, bounds, history, threads
<1>18. CASE JuBusy
  <2> DEFINE f == [rows EXCEPT ![ju.id].deferred = ju.deferred, ![ju.id].by = 0]
  <2>1. f \in [DOMAIN rows -> LedgerRow] /\ rows' = f /\ \A j \in DOMAIN rows : f[j].by <= Len(rows)
    <3>1. ju.id \in DOMAIN rows /\ ju.deferred \in Nat
      BY <1>e, <1>18 DEF JuBusy, RbOK
    <3>2. f \in [DOMAIN rows -> LedgerRow]
      <4>1. ASSUME NEW j \in DOMAIN rows PROVE f[j] \in LedgerRow
        <5>1. CASE j = ju.id
          <6>1. ju.deferred \in Nat /\ rows[j] \in LedgerRow /\ 0 \in Nat /\ "kept" \in Statuses
            BY <1>f, <3>1 DEF Statuses
          <6>2. [rows[j] EXCEPT !.deferred = ju.deferred] \in LedgerRow
            BY <6>1, RowFields
          <6>3. [[rows[j] EXCEPT !.deferred = ju.deferred] EXCEPT !.by = 0] \in LedgerRow
            BY <6>1, <6>2, RowFields
          <6> QED BY <1>b, <3>1, <5>1, <6>3
        <5>2. CASE j # ju.id
          BY <1>b, <1>f, <3>1, <5>2
        <5> QED BY <5>1, <5>2
      <4> QED BY <1>b, <4>1
    <3>3. \A j \in DOMAIN rows : f[j].by = rows[j].by \/ f[j].by = 0
      BY <1>b, <3>1 DEF LedgerRow
    <3>4. rows' = f
      BY <1>18 DEF JuBusy
    <3> HIDE DEF f
    <3> QED BY <1>b, <1>f, <3>2, <3>3, <3>4
  <2> HIDE DEF f
  <2>2. RowsOK' /\ Len(rows') = Len(rows) /\ DOMAIN rows' = DOMAIN rows /\ OwOK' /\ RbOK(ap)'
    BY <2>1, <1>b, <1>c, <1>e, <1>18, UpdateType DEF JuBusy
  <2>3. SettingsOK'
    BY <1>a, <1>18 DEF JuBusy, SettingsOK, bounds, history
  <2>4. RbOK(ju)'
    BY <1>e, <1>18 DEF JuBusy, RbOK, RbIdle
  <2> QED BY TypeUnchanged, <1>18, <2>2, <2>3, <2>4 DEF JuBusy, TypeOK, bounds, history, threads
<1>19. CASE JuDefers
  <2> DEFINE f == [rows EXCEPT ![ju.id].deferred = ju.deferred + 1, ![ju.id].by = 0]
  <2>1. f \in [DOMAIN rows -> LedgerRow] /\ rows' = f /\ \A j \in DOMAIN rows : f[j].by <= Len(rows)
    <3>1. ju.id \in DOMAIN rows /\ ju.deferred \in Nat
      BY <1>e, <1>19 DEF JuDefers, RbOK
    <3>2. f \in [DOMAIN rows -> LedgerRow]
      <4>1. ASSUME NEW j \in DOMAIN rows PROVE f[j] \in LedgerRow
        <5>1. CASE j = ju.id
          <6>1. ju.deferred + 1 \in Nat /\ rows[j] \in LedgerRow /\ 0 \in Nat /\ "kept" \in Statuses
            BY <1>f, <3>1 DEF Statuses
          <6>2. [rows[j] EXCEPT !.deferred = ju.deferred + 1] \in LedgerRow
            BY <6>1, RowFields
          <6>3. [[rows[j] EXCEPT !.deferred = ju.deferred + 1] EXCEPT !.by = 0] \in LedgerRow
            BY <6>1, <6>2, RowFields
          <6> QED BY <1>b, <3>1, <5>1, <6>3
        <5>2. CASE j # ju.id
          BY <1>b, <1>f, <3>1, <5>2
        <5> QED BY <5>1, <5>2
      <4> QED BY <1>b, <4>1
    <3>3. \A j \in DOMAIN rows : f[j].by = rows[j].by \/ f[j].by = 0
      BY <1>b, <3>1 DEF LedgerRow
    <3>4. rows' = f
      BY <1>19 DEF JuDefers
    <3> HIDE DEF f
    <3> QED BY <1>b, <1>f, <3>2, <3>3, <3>4
  <2> HIDE DEF f
  <2>2. RowsOK' /\ Len(rows') = Len(rows) /\ DOMAIN rows' = DOMAIN rows /\ OwOK' /\ RbOK(ap)'
    BY <2>1, <1>b, <1>c, <1>e, <1>19, UpdateType DEF JuDefers
  <2>3. RbOK(ju)'
    BY <1>e, <1>19 DEF JuDefers, RbOK, RbIdle
  <2> QED BY TypeUnchanged, <1>19, <2>2, <2>3 DEF JuDefers, TypeOK, bounds, history, threads
<1>20. CASE JuKeeps
  <2>1. RbOK(ju)'
    BY <1>e, <1>20 DEF JuKeeps, RbOK, RbIdle
  <2> QED BY TypeUnchanged, <1>20, <2>1 DEF JuKeeps, TypeOK, bounds, history, threads
<1>21. CASE JuKept
  <2> DEFINE f == Marked(ju.id, "kept")
  <2>1. f \in [DOMAIN rows -> LedgerRow] /\ rows' = f /\ \A j \in DOMAIN rows : f[j].by <= Len(rows)
    <3>1. ju.id \in DOMAIN rows /\ ju.deferred \in Nat
      BY <1>e, <1>21 DEF JuKept, RbOK
    <3>2. f \in [DOMAIN rows -> LedgerRow]
      <4>1. "kept" \in Statuses
        BY DEF Statuses
      <4> QED BY <1>b, <3>1, <4>1, MarkedType
    <3>3. \A j \in DOMAIN rows : f[j].by = rows[j].by \/ f[j].by = 0
      BY <1>b, <3>1 DEF LedgerRow, Marked
    <3>4. rows' = f
      BY <1>21 DEF JuKept
    <3> HIDE DEF f
    <3> QED BY <1>b, <1>f, <3>2, <3>3, <3>4
  <2> HIDE DEF f
  <2>2. RowsOK' /\ Len(rows') = Len(rows) /\ DOMAIN rows' = DOMAIN rows /\ OwOK' /\ RbOK(ap)'
    BY <2>1, <1>b, <1>c, <1>e, <1>21, UpdateType DEF JuKept
  <2>3. SettingsOK'
    BY <1>a, <1>e, <1>21, <1>f DEF JuKept, SettingsOK, RbOK, bounds, history
  <2>4. RbOK(ju)'
    BY <1>e, <1>21 DEF JuKept, RbOK, RbIdle
  <2> QED BY TypeUnchanged, <1>21, <2>2, <2>3, <2>4 DEF JuKept, TypeOK, bounds, history, threads
<1>22. CASE JuCloses
  <2> DEFINE f == Marked(ju.id, "superseded_manual")
  <2>1. f \in [DOMAIN rows -> LedgerRow] /\ rows' = f /\ \A j \in DOMAIN rows : f[j].by <= Len(rows)
    <3>1. ju.id \in DOMAIN rows /\ ju.deferred \in Nat
      BY <1>e, <1>22 DEF JuCloses, RbOK
    <3>2. f \in [DOMAIN rows -> LedgerRow]
      <4>1. "superseded_manual" \in Statuses
        BY DEF Statuses
      <4> QED BY <1>b, <3>1, <4>1, MarkedType
    <3>3. \A j \in DOMAIN rows : f[j].by = rows[j].by \/ f[j].by = 0
      BY <1>b, <3>1 DEF LedgerRow, Marked
    <3>4. rows' = f
      BY <1>22 DEF JuCloses
    <3> HIDE DEF f
    <3> QED BY <1>b, <1>f, <3>2, <3>3, <3>4
  <2> HIDE DEF f
  <2>2. RowsOK' /\ Len(rows') = Len(rows) /\ DOMAIN rows' = DOMAIN rows /\ OwOK' /\ RbOK(ap)'
    BY <2>1, <1>b, <1>c, <1>e, <1>22, UpdateType DEF JuCloses
  <2>3. RbOK(ju)'
    BY <1>e, <1>22 DEF JuCloses, RbOK, RbIdle
  <2> QED BY TypeUnchanged, <1>22, <2>2, <2>3 DEF JuCloses, TypeOK, bounds, history, threads
<1>23. CASE JuRollback
  <2>1. CASE RbTakes("ju", ju, ju')
    <3>1. RbOK(ju)'
      BY <1>e, <2>1 DEF RbTakes, RbOK, Refused, RbIdle
    <3>2. SettingsOK'
      BY <1>a, <2>1 DEF RbTakes, SettingsOK, bounds, history
    <3> QED BY TypeUnchanged, <1>23, <2>1, <3>1, <3>2 DEF JuRollback, RbTakes, TypeOK
  <2>2. CASE RbRestores(ju, ju')
    <3>1. ju.id \in DOMAIN rows /\ rows[ju.id].key \in Keys /\ rows[ju.id].old \in Values
      BY <1>e, <1>f, <2>2 DEF RbRestores, RbOK, LedgerRow
    <3>2. SettingsOK'
      BY <1>a, <2>2, <3>1 DEF RbRestores, SettingsOK, bounds, history
    <3>3. OwOK'
      BY <1>c, <2>2 DEF RbRestores, OwOK, Meets
    <3>4. RbOK(ju)'
      BY <1>e, <2>2 DEF RbRestores, RbOK
    <3> QED BY TypeUnchanged, <1>23, <2>2, <3>2, <3>3, <3>4 DEF JuRollback, RbRestores, TypeOK
  <2>3. CASE RbMarks(ju, ju')
    <3> DEFINE f == [Marked(ju.id, "rolled_back") EXCEPT ![ju.id].frozen = Until(RollbackFreeze)]
               g == Marked(ju.id, "rolled_back")
    <3>1. ju.id \in DOMAIN rows /\ "rolled_back" \in Statuses /\ Until(RollbackFreeze) \in Nat
      BY <1>a, <1>e, <2>3 DEF RbMarks, RbOK, Statuses, SettingsOK, Until
    <3>2. g \in [DOMAIN rows -> LedgerRow] /\ \A j \in DOMAIN rows : g[j].by <= Len(rows)
      BY <1>b, <3>1, MarkedType
    <3> HIDE DEF g
    <3>3. f = [g EXCEPT ![ju.id].frozen = Until(RollbackFreeze)] /\ rows' = f
      BY <2>3 DEF RbMarks, g
    <3> HIDE DEF f
    <3>4. f \in [DOMAIN rows -> LedgerRow] /\ \A j \in DOMAIN rows : f[j].by = g[j].by
      BY <3>1, <3>2, <3>3, ZenonT(40) DEF LedgerRow
    <3>5. RowsOK' /\ DOMAIN rows' = DOMAIN rows /\ OwOK' /\ RbOK(ap)'
      BY <1>b, <1>c, <1>e, <1>23, <2>3, <3>2, <3>3, <3>4, UpdateType DEF RbMarks, JuRollback
    <3>6. RbOK(ju)'
      BY <1>e, <2>3 DEF RbMarks, RbOK, RbIdle
    <3> QED BY TypeUnchanged, <1>23, <2>3, <3>5, <3>6 DEF JuRollback, RbMarks, TypeOK, bounds, history
  <2> QED BY <1>23, <2>1, <2>2, <2>3 DEF JuRollback, Rollback
<1>24. CASE ApRollback
  <2>1. CASE RbTakes("ap", ap, ap')
    <3>1. RbOK(ap)'
      BY <1>e, <2>1 DEF RbTakes, RbOK, Refused, RbIdle
    <3>2. SettingsOK'
      BY <1>a, <2>1 DEF RbTakes, SettingsOK, bounds, history
    <3> QED BY TypeUnchanged, <1>24, <2>1, <3>1, <3>2 DEF ApRollback, RbTakes, TypeOK
  <2>2. CASE RbRestores(ap, ap')
    <3>1. ap.id \in DOMAIN rows /\ rows[ap.id].key \in Keys /\ rows[ap.id].old \in Values
      BY <1>e, <1>f, <2>2 DEF RbRestores, RbOK, LedgerRow
    <3>2. SettingsOK'
      BY <1>a, <2>2, <3>1 DEF RbRestores, SettingsOK, bounds, history
    <3>3. OwOK'
      BY <1>c, <2>2 DEF RbRestores, OwOK, Meets
    <3>4. RbOK(ap)'
      BY <1>e, <2>2 DEF RbRestores, RbOK
    <3> QED BY TypeUnchanged, <1>24, <2>2, <3>2, <3>3, <3>4 DEF ApRollback, RbRestores, TypeOK
  <2>3. CASE RbMarks(ap, ap')
    <3> DEFINE f == [Marked(ap.id, "rolled_back") EXCEPT ![ap.id].frozen = Until(RollbackFreeze)]
               g == Marked(ap.id, "rolled_back")
    <3>1. ap.id \in DOMAIN rows /\ "rolled_back" \in Statuses /\ Until(RollbackFreeze) \in Nat
      BY <1>a, <1>e, <2>3 DEF RbMarks, RbOK, Statuses, SettingsOK, Until
    <3>2. g \in [DOMAIN rows -> LedgerRow] /\ \A j \in DOMAIN rows : g[j].by <= Len(rows)
      BY <1>b, <3>1, MarkedType
    <3> HIDE DEF g
    <3>3. f = [g EXCEPT ![ap.id].frozen = Until(RollbackFreeze)] /\ rows' = f
      BY <2>3 DEF RbMarks, g
    <3> HIDE DEF f
    <3>4. f \in [DOMAIN rows -> LedgerRow] /\ \A j \in DOMAIN rows : f[j].by = g[j].by
      BY <3>1, <3>2, <3>3, ZenonT(40) DEF LedgerRow
    <3>5. RowsOK' /\ DOMAIN rows' = DOMAIN rows /\ OwOK' /\ RbOK(ju)'
      BY <1>b, <1>c, <1>e, <1>24, <2>3, <3>2, <3>3, <3>4, UpdateType DEF RbMarks, ApRollback
    <3>6. RbOK(ap)'
      BY <1>e, <2>3 DEF RbMarks, RbOK, RbIdle
    <3> QED BY TypeUnchanged, <1>24, <2>3, <3>5, <3>6 DEF ApRollback, RbMarks, TypeOK, bounds, history
  <2> QED BY <1>24, <2>1, <2>2, <2>3 DEF ApRollback, Rollback
<1>25. CASE Tick \/ Leave \/ Return
  <2>1. SettingsOK'
    <3>1. CASE Tick
      <4>1. day' \in Nat
        BY <1>a, <3>1 DEF Tick, SettingsOK
      <4> QED BY <1>a, <3>1, <4>1 DEF Tick, SettingsOK, bounds, history
    <3>2. CASE Leave
      BY <1>a, <3>2 DEF Leave, SettingsOK, history
    <3>3. CASE Return
      BY <1>a, <3>3 DEF Return, SettingsOK, bounds, history
    <3> QED BY <1>25, <3>1, <3>2, <3>3
  <2> QED BY TypeUnchanged, <1>25, <2>1 DEF Tick, Leave, Return, TypeOK, threads
<1>26. CASE Crash
  <2>1. SettingsOK'
    BY <1>a, <1>26 DEF Crash, SettingsOK, Unrecorded
  <2>2. OwOK' /\ PrOK'
    BY <1>26 DEF Crash, OwOK, PrOK, OwIdle, PrIdle
  <2>3. RbOK(ju)' /\ RbOK(ap)'
    BY <1>26 DEF Crash, RbOK, RbIdle
  <2> QED BY TypeUnchanged, <1>26, <2>1, <2>2, <2>3 DEF Crash, TypeOK
<1>27. CASE UNCHANGED vars
  BY TypeUnchanged, <1>27 DEF vars, threads, TypeOK
<1>28. CASE OwHookFails
  <2>1. SettingsOK'
    <3>1. exposed' \subseteq Keys
      <4>1. ow.key \in Keys /\ exposed \subseteq Keys
        BY <1>a, <1>c, <1>28 DEF OwHookFails, SettingsOK, OwOK
      <4>2. exposed' \subseteq exposed \cup {ow.key}
        BY <1>28 DEF OwHookFails
      <4> QED BY <4>1, <4>2
    <3>2. troubles' \in Nat /\ lock' = "free"
      BY <1>a, <1>28 DEF OwHookFails, SettingsOK
    <3>3. UNCHANGED <<day, value, away, ran, proposals, writes, owned>>
      BY <1>28 DEF OwHookFails
    <3> QED BY <1>a, <3>1, <3>2, <3>3 DEF SettingsOK
  <2>2. OwOK'
    BY <1>c, <1>28 DEF OwHookFails, OwOK
  <2> QED BY TypeUnchanged, <1>28, <2>1, <2>2 DEF OwHookFails, TypeOK
<1> QED
  BY <1>1, <1>2, <1>3, <1>4, <1>5, <1>6, <1>7, <1>8, <1>9, <1>10, <1>11, <1>12, <1>13, <1>14,
     <1>15, <1>16, <1>17, <1>18, <1>19, <1>20, <1>21, <1>22, <1>23, <1>24, <1>25, <1>26, <1>27, <1>28
  DEF Next, Propose, OwnerWrite, Judge

\* TypeCorrect: every variable of AutoTune keeps its type; what an activity has in hand
\* (a setting, a row) exists, whatever the others do meanwhile.
THEOREM TypeCorrect == Spec => []TypeOK
BY TypeInit, TypeStep, PTL DEF Spec

----------------------------------------------------------------------------
(* One change at a time *)

\* Taking no change under evaluation, and opening no reference to a manual row, breaks
\* nothing of what is said of the rows.
LEMMA RowsSettled ==
  ASSUME TypeOK, IInv, exposed \subseteq exposed', DOMAIN rows' = DOMAIN rows,
         \A j \in DOMAIN rows :
           /\ rows'[j].key = rows[j].key
           /\ \/ rows'[j].status = rows[j].status
              \/ rows'[j].status # "evaluating" /\ rows'[j].by = 0
           /\ rows'[j].by = rows[j].by \/ rows'[j].by = 0
  PROVE  EndedOne' /\ OneOfKey' /\ Evaluating' \subseteq Evaluating /\ (UNCHANGED ow => FreshRow')
<1>1. Evaluating' \subseteq Evaluating
  BY DEF Evaluating
<1>2. EndedOne'
  BY DEF IInv, Serial, EndedOne
<1>3. OneOfKey'
  BY <1>1 DEF IInv, Serial, OneOfKey, Evaluating
<1>4. UNCHANGED ow => FreshRow'
  BY DEF IInv, Serial, FreshRow
<1> QED BY <1>1, <1>2, <1>3, <1>4

\* Nor does a step that leaves the rows as they are.
LEMMA RowsKept ==
  ASSUME TypeOK, IInv, exposed \subseteq exposed', UNCHANGED rows
  PROVE  EndedOne' /\ OneOfKey' /\ Evaluating' = Evaluating
<1>1. Evaluating' = Evaluating
  BY DEF Evaluating
<1> QED BY <1>1, RowsSettled

\* The judge and a rollback take no change under evaluation and open no reference.
LEMMA JudgeSettles ==
  ASSUME TypeOK, JuBusy \/ JuDefers \/ JuKept \/ JuCloses \/ RbMarks(ju, ju') \/ RbMarks(ap, ap')
  PROVE  /\ DOMAIN rows' = DOMAIN rows
         /\ \A j \in DOMAIN rows :
              /\ rows'[j].key = rows[j].key
              /\ \/ rows'[j].status = rows[j].status
                 \/ rows'[j].status # "evaluating" /\ rows'[j].by = 0
              /\ rows'[j].by = rows[j].by \/ rows'[j].by = 0
<1>b. RowsOK /\ rows \in [DOMAIN rows -> LedgerRow]
  BY ElementOfSeq DEF TypeOK, RowsOK
<1>1. CASE JuBusy
  <2>1. ju.id \in DOMAIN rows
    BY <1>1 DEF JuBusy, TypeOK, RbOK
  <2> QED BY <1>b, <1>1, <2>1 DEF JuBusy, LedgerRow
<1>2. CASE JuDefers
  <2>1. ju.id \in DOMAIN rows
    BY <1>2 DEF JuDefers, TypeOK, RbOK
  <2> QED BY <1>b, <1>2, <2>1 DEF JuDefers, LedgerRow
<1>3. CASE JuKept
  <2>1. ju.id \in DOMAIN rows
    BY <1>3 DEF JuKept, TypeOK, RbOK
  <2> QED BY <1>b, <1>3, <2>1 DEF JuKept, Marked, LedgerRow
<1>4. CASE JuCloses
  <2>1. ju.id \in DOMAIN rows
    BY <1>4 DEF JuCloses, TypeOK, RbOK
  <2> QED BY <1>b, <1>4, <2>1 DEF JuCloses, Marked, LedgerRow
<1>5. CASE RbMarks(ju, ju')
  <2>1. ju.id \in DOMAIN rows
    BY <1>5 DEF RbMarks, TypeOK, RbOK
  <2> QED BY <1>b, <1>5, <2>1 DEF RbMarks, Marked, LedgerRow
<1>6. CASE RbMarks(ap, ap')
  <2>1. ap.id \in DOMAIN rows
    BY <1>6 DEF RbMarks, TypeOK, RbOK
  <2> QED BY <1>b, <1>6, <2>1 DEF RbMarks, Marked, LedgerRow
<1> QED BY <1>1, <1>2, <1>3, <1>4, <1>5, <1>6

\* Nothing is at work or under evaluation at first.
LEMMA InvInit == Init => IInv
BY DEF Init, IInv, Serial, UndoFinds, LockHeld, Alone, EndedOne, FreshRow, OneOfKey, Evaluating,
       OwIdle, PrIdle, RbIdle

\* A step leaves the activities apart, and the changes with them.
LEMMA SerialStep ==
  ASSUME TypeOK, IInv, [Next]_vars
  PROVE  Serial'
<1>a. LockHeld /\ Alone /\ EndedOne /\ FreshRow /\ OneOfKey /\ UndoFinds
  BY DEF IInv, Serial
<1>b. RowsOK /\ rows \in [DOMAIN rows -> LedgerRow] /\ DOMAIN rows = 1..Len(rows) /\ Len(rows) \in Nat
  BY ElementOfSeq DEF TypeOK, RowsOK
<1>1. ASSUME NEW k \in Keys, NEW v \in Values, PrTakes(k, v) PROVE Serial'
  <2>1. EndedOne' /\ OneOfKey' /\ Evaluating' = Evaluating
    BY RowsKept, <1>1 DEF PrTakes, history
  <2>2. LockHeld' /\ Alone' /\ FreshRow'
    BY <1>a, <2>1, <1>1 DEF PrTakes, LockHeld, Alone, FreshRow, Admits
  <2> QED BY <2>1, <2>2 DEF Serial
<1>2. ASSUME NEW k \in Keys, NEW v \in Values, NEW b \in BOOLEAN, OwBegins(k, v, b) PROVE Serial'
  <2>1. EndedOne' /\ OneOfKey' /\ Evaluating' = Evaluating
    BY RowsKept, <1>2 DEF OwBegins, history
  <2>2. LockHeld' /\ Alone' /\ FreshRow'
    BY <1>a, <2>1, <1>2 DEF OwBegins, LockHeld, Alone, FreshRow
  <2> QED BY <2>1, <2>2 DEF Serial
<1>3. ASSUME NEW i \in DOMAIN rows, ApBegins(i) PROVE Serial'
  <2>1. EndedOne' /\ OneOfKey' /\ Evaluating' = Evaluating
    BY RowsKept, <1>3 DEF ApBegins, history
  <2>2. LockHeld' /\ Alone' /\ FreshRow'
    BY <1>a, <2>1, <1>3 DEF ApBegins, LockHeld, Alone, FreshRow
  <2> QED BY <2>1, <2>2 DEF Serial
<1>4. CASE PrRechecks
  <2>1. EndedOne' /\ OneOfKey' /\ Evaluating' = Evaluating
    BY RowsKept, <1>4 DEF PrRechecks, history
  <2>2. LockHeld' /\ Alone' /\ FreshRow'
    BY <1>a, <2>1, <1>4 DEF PrRechecks, LockHeld, Alone, FreshRow, PrIdle
  <2> QED BY <2>1, <2>2 DEF Serial
<1>5. CASE PrWrites
  <2>1. EndedOne' /\ OneOfKey' /\ Evaluating' = Evaluating
    BY RowsKept, <1>5 DEF PrWrites, history
  <2>2. LockHeld' /\ Alone' /\ FreshRow'
    BY <1>a, <2>1, <1>5 DEF PrWrites, LockHeld, Alone, FreshRow, Meets
  <2> QED BY <2>1, <2>2 DEF Serial
<1>6. CASE PrRecordFails
  <2>1. EndedOne' /\ OneOfKey' /\ Evaluating' = Evaluating
    BY RowsKept, <1>6 DEF PrRecordFails, history
  <2>2. LockHeld' /\ Alone' /\ FreshRow'
    BY <1>a, <2>1, <1>6 DEF PrRecordFails, LockHeld, Alone, FreshRow, PrIdle, Meets
  <2> QED BY <2>1, <2>2 DEF Serial
<1>7. CASE OwWrites
  <2>1. EndedOne' /\ OneOfKey' /\ Evaluating' = Evaluating
    BY RowsKept, <1>7 DEF OwWrites, history
  <2>2. LockHeld' /\ Alone' /\ FreshRow'
    <3>1. ow'.at \in {"done", "hook"}
      BY <1>7 DEF OwWrites, TypeOK, OwOK
    <3> QED BY <1>a, <2>1, <1>7, <3>1 DEF OwWrites, LockHeld, Alone, FreshRow
  <2> QED BY <2>1, <2>2 DEF Serial
<1>8. CASE OwHook
  <2>1. EndedOne' /\ OneOfKey' /\ Evaluating' = Evaluating
    BY RowsKept, <1>8 DEF OwHook, history
  <2>2. LockHeld' /\ Alone' /\ FreshRow'
    BY <1>a, <2>1, <1>8 DEF OwHook, LockHeld, Alone, FreshRow
  <2> QED BY <2>1, <2>2 DEF Serial
<1>9. CASE OwEnds
  <2>1. EndedOne' /\ OneOfKey' /\ Evaluating' = Evaluating
    BY RowsKept, <1>9 DEF OwEnds, history
  <2>2. LockHeld' /\ Alone' /\ FreshRow'
    BY <1>a, <2>1, <1>9 DEF OwEnds, LockHeld, Alone, FreshRow, OwIdle
  <2> QED BY <2>1, <2>2 DEF Serial
<1>10. CASE OwUndo
  <2>1. EndedOne' /\ OneOfKey' /\ Evaluating' = Evaluating
    BY RowsKept, <1>10 DEF OwUndo, history
  <2>2. LockHeld' /\ Alone' /\ FreshRow'
    BY <1>a, <2>1, <1>10 DEF OwUndo, LockHeld, Alone, FreshRow
  <2> QED BY <2>1, <2>2 DEF Serial
<1>11. CASE JuStarts
  <2>1. EndedOne' /\ OneOfKey' /\ Evaluating' = Evaluating
    BY RowsKept, <1>11 DEF JuStarts, history
  <2>2. LockHeld' /\ Alone' /\ FreshRow'
    BY <1>a, <2>1, <1>11 DEF JuStarts, LockHeld, Alone, FreshRow
  <2> QED BY <2>1, <2>2 DEF Serial
<1>12. CASE JuReverts
  <2>1. EndedOne' /\ OneOfKey' /\ Evaluating' = Evaluating
    BY RowsKept, <1>12 DEF JuReverts, history
  <2>2. LockHeld' /\ Alone' /\ FreshRow'
    BY <1>a, <2>1, <1>12 DEF JuReverts, LockHeld, Alone, FreshRow, Refused, RbIdle
  <2> QED BY <2>1, <2>2 DEF Serial
<1>13. CASE JuWaits
  <2>1. EndedOne' /\ OneOfKey' /\ Evaluating' = Evaluating
    BY RowsKept, <1>13 DEF JuWaits, history
  <2>2. LockHeld' /\ Alone' /\ FreshRow'
    BY <1>a, <2>1, <1>13 DEF JuWaits, LockHeld, Alone, FreshRow, RbIdle
  <2> QED BY <2>1, <2>2 DEF Serial
<1>14. CASE JuKeeps
  <2>1. EndedOne' /\ OneOfKey' /\ Evaluating' = Evaluating
    BY RowsKept, <1>14 DEF JuKeeps, history
  <2>2. LockHeld' /\ Alone' /\ FreshRow'
    BY <1>a, <2>1, <1>14 DEF JuKeeps, LockHeld, Alone, FreshRow, RbIdle
  <2> QED BY <2>1, <2>2 DEF Serial
<1>15. CASE Tick \/ Leave \/ Return
  <2>1. EndedOne' /\ OneOfKey' /\ Evaluating' = Evaluating
    BY RowsKept, <1>15 DEF Tick, Leave, Return, history
  <2>2. LockHeld' /\ Alone' /\ FreshRow'
    BY <1>a, <2>1, <1>15 DEF Tick, Leave, Return, LockHeld, Alone, FreshRow, threads, Idle
  <2> QED BY <2>1, <2>2 DEF Serial
<1>16. CASE Crash
  <2>1. EndedOne' /\ OneOfKey' /\ Evaluating' = Evaluating
    BY RowsKept, <1>16 DEF Crash, history
  <2>2. LockHeld' /\ Alone' /\ FreshRow'
    BY <1>a, <2>1, <1>16 DEF Crash, LockHeld, Alone, FreshRow, OwIdle, PrIdle, RbIdle
  <2> QED BY <2>1, <2>2 DEF Serial
<1>17. CASE UNCHANGED vars
  <2>1. EndedOne' /\ OneOfKey' /\ Evaluating' = Evaluating
    BY RowsKept, <1>17 DEF vars, threads, history
  <2>2. LockHeld' /\ Alone' /\ FreshRow'
    BY <1>a, <2>1, <1>17 DEF vars, threads, LockHeld, Alone, FreshRow
  <2> QED BY <2>1, <2>2 DEF Serial
<1>18. CASE RbTakes("ju", ju, ju') /\ UNCHANGED ap
  <2>1. EndedOne' /\ OneOfKey' /\ Evaluating' = Evaluating
    BY RowsKept, <1>18 DEF RbTakes, history
  <2>2. LockHeld' /\ Alone' /\ FreshRow'
    <3>1. /\ lock = "free" /\ UNCHANGED <<ow, pr, ap, rows>>
          /\ lock' = "ju" \/ (lock' = "free" /\ ju'.at = "close")
      <4>1. CASE Current(ju.id)
        <5>1. lock = "free" /\ UNCHANGED <<ow, pr, ap, rows>>
          BY <1>18 DEF RbTakes
        <5>2. lock' = "ju"
          BY <1>18, <4>1 DEF RbTakes
        <5> QED BY <5>1, <5>2
      <4>2. CASE ~Current(ju.id)
        <5>1. ju' = [ju EXCEPT !.at = "close"] /\ lock' = "free" /\ lock = "free"
          BY <1>18, <4>2 DEF RbTakes, Refused
        <5>2. ju'.at = "close"
          BY <5>1 DEF TypeOK, RbOK
        <5> QED BY <5>1, <5>2, <1>18 DEF RbTakes
      <4> QED BY <4>1, <4>2
    <3> QED BY <1>a, <2>1, <3>1 DEF LockHeld, Alone, FreshRow
  <2> QED BY <2>1, <2>2 DEF Serial
<1>19. CASE RbTakes("ap", ap, ap') /\ UNCHANGED ju
  <2>1. EndedOne' /\ OneOfKey' /\ Evaluating' = Evaluating
    BY RowsKept, <1>19 DEF RbTakes, history
  <2>2. LockHeld' /\ Alone' /\ FreshRow'
    BY <1>a, <2>1, <1>19 DEF RbTakes, LockHeld, Alone, FreshRow, Refused, RbIdle
  <2> QED BY <2>1, <2>2 DEF Serial
<1>20. CASE RbRestores(ju, ju') /\ UNCHANGED ap
  <2>1. EndedOne' /\ OneOfKey' /\ Evaluating' = Evaluating
    BY RowsKept, <1>20 DEF RbRestores, history
  <2>2. LockHeld' /\ Alone' /\ FreshRow'
    BY <1>a, <2>1, <1>20 DEF RbRestores, LockHeld, Alone, FreshRow, Meets
  <2> QED BY <2>1, <2>2 DEF Serial
<1>21. CASE RbRestores(ap, ap') /\ UNCHANGED ju
  <2>1. EndedOne' /\ OneOfKey' /\ Evaluating' = Evaluating
    BY RowsKept, <1>21 DEF RbRestores, history
  <2>2. LockHeld' /\ Alone' /\ FreshRow'
    BY <1>a, <2>1, <1>21 DEF RbRestores, LockHeld, Alone, FreshRow, Meets
  <2> QED BY <2>1, <2>2 DEF Serial
<1>22. CASE JuBusy
  <2>2. EndedOne' /\ OneOfKey' /\ Evaluating' \subseteq Evaluating /\ FreshRow'
    BY JudgeSettles, RowsSettled, <1>22 DEF JuBusy, history
  <2>3. LockHeld' /\ Alone'
    BY <1>a, <2>2, <1>22 DEF JuBusy, LockHeld, Alone, RbIdle
  <2> QED BY <2>2, <2>3 DEF Serial
<1>23. CASE JuDefers
  <2>2. EndedOne' /\ OneOfKey' /\ Evaluating' \subseteq Evaluating /\ FreshRow'
    BY JudgeSettles, RowsSettled, <1>23 DEF JuDefers, history
  <2>3. LockHeld' /\ Alone'
    BY <1>a, <2>2, <1>23 DEF JuDefers, LockHeld, Alone, RbIdle
  <2> QED BY <2>2, <2>3 DEF Serial
<1>24. CASE JuKept
  <2>2. EndedOne' /\ OneOfKey' /\ Evaluating' \subseteq Evaluating /\ FreshRow'
    BY JudgeSettles, RowsSettled, <1>24 DEF JuKept, history
  <2>3. LockHeld' /\ Alone'
    BY <1>a, <2>2, <1>24 DEF JuKept, LockHeld, Alone, RbIdle
  <2> QED BY <2>2, <2>3 DEF Serial
<1>25. CASE JuCloses
  <2>2. EndedOne' /\ OneOfKey' /\ Evaluating' \subseteq Evaluating /\ FreshRow'
    BY JudgeSettles, RowsSettled, <1>25 DEF JuCloses, history
  <2>3. LockHeld' /\ Alone'
    BY <1>a, <2>2, <1>25 DEF JuCloses, LockHeld, Alone, RbIdle
  <2> QED BY <2>2, <2>3 DEF Serial
<1>26. CASE RbMarks(ju, ju') /\ UNCHANGED ap
  <2>2. EndedOne' /\ OneOfKey' /\ Evaluating' \subseteq Evaluating /\ FreshRow'
    BY JudgeSettles, RowsSettled, <1>26 DEF RbMarks, history
  <2>3. LockHeld' /\ Alone'
    BY <1>a, <2>2, <1>26 DEF RbMarks, LockHeld, Alone, RbIdle
  <2> QED BY <2>2, <2>3 DEF Serial
<1>27. CASE RbMarks(ap, ap') /\ UNCHANGED ju
  <2>2. EndedOne' /\ OneOfKey' /\ Evaluating' \subseteq Evaluating /\ FreshRow'
    BY JudgeSettles, RowsSettled, <1>27 DEF RbMarks, history
  <2>3. LockHeld' /\ Alone'
    BY <1>a, <2>2, <1>27 DEF RbMarks, LockHeld, Alone, RbIdle
  <2> QED BY <2>2, <2>3 DEF Serial
<1>28. CASE PrRecords
  <2> DEFINE r == Row(pr.key, pr.cur, pr.new, "evaluating", 0, FALSE)
  <2>1. /\ DOMAIN rows' = 1..(Len(rows) + 1) /\ rows'[Len(rows) + 1] = r
        /\ \A j \in DOMAIN rows : rows'[j] = rows[j]
    <3>1. rows' = Append(rows, r) /\ rows \in Seq(LedgerRow)
      BY <1>b, <1>28 DEF PrRecords, RowsOK
    <3> HIDE DEF r
    <3> QED BY <3>1, <1>b, AppendProperties
  <2>2. Evaluating = {} /\ ow.at # "supersede" /\ ow.at # "insert" /\ ju.at # "restore" /\ ap.at # "restore"
    BY <1>a, <1>28 DEF PrRecords, LockHeld, Alone
  <2>3. Evaluating' \subseteq {Len(rows) + 1}
    BY <1>b, <2>1, <2>2 DEF Evaluating
  <2>4. OneOfKey'
    BY <2>3 DEF OneOfKey
  <2>5. r.by = 0 /\ r.status = "evaluating"
    BY DEF Row
  <2>6. EndedOne'
    <3> HIDE DEF r
    <3>1. \A j \in DOMAIN rows' : rows'[j].status = "superseded_manual" => j \in DOMAIN rows
      BY <1>b, <2>1, <2>5
    <3>2. exposed' = exposed
      BY <1>28 DEF PrRecords, history
    <3> QED BY <1>a, <2>1, <3>1, <3>2 DEF EndedOne
  <2>7. LockHeld' /\ Alone' /\ FreshRow'
    BY <2>2, <1>28 DEF PrRecords, LockHeld, Alone, FreshRow, PrIdle
  <2> QED BY <2>4, <2>6, <2>7 DEF Serial
<1>29. CASE OwInserts
  <2> DEFINE r == Row(ow.key, ow.prev, ow.new, "manual", ManualUntil, ow.batch)
  <2>1. /\ DOMAIN rows' = 1..(Len(rows) + 1) /\ rows'[Len(rows) + 1] = r
        /\ \A j \in DOMAIN rows : rows'[j] = rows[j]
    <3>1. rows' = Append(rows, r) /\ rows \in Seq(LedgerRow)
      BY <1>b, <1>29 DEF OwInserts, RowsOK
    <3> HIDE DEF r
    <3> QED BY <3>1, <1>b, AppendProperties
  <2>2. r.by = 0 /\ r.status = "manual"
    BY DEF Row
  <2>3. Evaluating' \subseteq Evaluating /\ pr.at = "idle"
    BY <1>a, <1>b, <2>1, <2>2, <1>29 DEF Evaluating, OwInserts, LockHeld
  <2>4. OneOfKey'
    BY <1>a, <1>b, <2>1, <2>3, <1>29 DEF OneOfKey, OwInserts, Evaluating
  <2>5. EndedOne'
    BY <1>a, <1>b, <2>1, <2>2, <1>29 DEF OwInserts, EndedOne
  <2>6. LockHeld' /\ Alone'
    BY <1>a, <2>3, <1>29 DEF OwInserts, LockHeld, Alone
  <2>7. ow'.row = Len(rows) + 1 /\ \A j \in DOMAIN rows : rows[j].by \in Nat /\ rows[j].by <= Len(rows)
    BY <1>b, <1>29 DEF OwInserts, RowsOK, LedgerRow, TypeOK, OwOK
  <2>8. FreshRow'
    BY <1>b, <2>1, <2>2, <2>7 DEF FreshRow
  <2> QED BY <2>4, <2>5, <2>6, <2>8 DEF Serial
<1>30. CASE OwSupersedes
  <2>1. /\ DOMAIN rows' = DOMAIN rows /\ pr.at = "idle"
        /\ \A j \in DOMAIN rows : j \in Superseded =>
             /\ rows[j].status = "evaluating" /\ rows[j].key = ow.key
             /\ rows'[j].status = "superseded_manual" /\ rows'[j].by = ow.row /\ rows'[j].key = rows[j].key
        /\ \A j \in DOMAIN rows : j \notin Superseded => rows'[j] = rows[j]
    BY <1>a, <1>b, <1>30 DEF OwSupersedes, Superseded, Evaluating, LedgerRow, LockHeld
  <2>2. Evaluating' \subseteq Evaluating
    BY <2>1 DEF Evaluating
  <2>3. OneOfKey'
    <3>1. \A j \in Evaluating' : rows'[j] = rows[j]
      BY <2>1 DEF Evaluating
    <3>2. exposed' = exposed
      BY <1>30 DEF OwSupersedes, history
    <3> QED BY <1>a, <2>2, <3>1, <3>2 DEF OneOfKey
  <2>4. ow.row # 0 /\ \A j \in DOMAIN rows : rows[j].by # ow.row
    BY <1>a, <1>30 DEF OwSupersedes, FreshRow
  <2>5. ASSUME NEW i \in DOMAIN rows, NEW j \in DOMAIN rows, i # j,
               rows'[i].status = "superseded_manual", rows'[j].status = "superseded_manual",
               rows'[i].by = rows'[j].by, rows'[i].by # 0, rows'[i].key = rows'[j].key
        PROVE  rows'[i].key \in exposed
    <3>1. CASE i \in Superseded /\ j \in Superseded
      BY <1>a, <2>1, <2>5, <3>1 DEF OneOfKey, Superseded
    <3>2. CASE i \notin Superseded /\ j \notin Superseded
      BY <1>a, <2>1, <2>5, <3>2 DEF EndedOne
    <3> QED BY <2>1, <2>4, <2>5, <3>1, <3>2
  <2>6. EndedOne'
    <3>1. exposed' = exposed
      BY <1>30 DEF OwSupersedes, history
    <3> QED BY <2>1, <2>5, <3>1 DEF EndedOne
  <2>7. LockHeld' /\ Alone' /\ FreshRow'
    <3>1. /\ ow'.at = "done" /\ lock = "ow" /\ UNCHANGED <<pr, ju, ap>>
      BY <1>a, <1>30 DEF OwSupersedes, LockHeld, TypeOK, OwOK
    <3> QED BY <1>a, <2>1, <3>1 DEF LockHeld, Alone, FreshRow
  <2> QED BY <2>3, <2>6, <2>7 DEF Serial
<1>31. CASE OwUndoes
  <2>1. /\ DOMAIN rows' = DOMAIN rows /\ pr.at = "idle" /\ exposed \subseteq exposed'
        /\ \A j \in DOMAIN rows : j \in Undone => rows'[j].status = "deleted"
        /\ \A j \in DOMAIN rows : j \notin Undone /\ j \in Reopened =>
             rows'[j].status = "evaluating" /\ rows'[j].key = rows[j].key
        /\ \A j \in DOMAIN rows : j \notin Undone /\ j \notin Reopened => rows'[j] = rows[j]
    BY <1>a, <1>b, <1>31 DEF OwUndoes, LedgerRow, LockHeld
  <2>2. \A j \in Reopened : /\ j \in DOMAIN rows /\ rows[j].key = ow.key /\ rows[j].by \in Undone
                            /\ rows[j].status = "superseded_manual"
    BY DEF Reopened, Ids
  <2>3. \A i, j \in Undone : i = j
    BY <1>b DEF Undone, Manuals, Ids
  <2>4. 0 \notin Undone
    BY <1>b DEF Undone, Manuals, Ids
  <2>5. Reopened # {} /\ ow.key \notin exposed' => Superseded = {}
    <3>1. ow.at = "undo" /\ (Undone \ {ow.row} # {} \/ ow.met => ow.key \in exposed')
      BY <1>31 DEF OwUndoes
    <3>2. ow.key \notin exposed' => Undone \subseteq {ow.row} /\ ~ow.met
      BY <3>1, <1>b DEF TypeOK, OwOK
    <3> QED BY <1>a, <2>2, <2>4, <3>1, <3>2 DEF UndoFinds
  <2>6. ASSUME NEW i \in Evaluating', NEW j \in Evaluating', i # j, rows'[i].key = rows'[j].key
        PROVE  rows'[i].key \in exposed'
    <3>1. i \in DOMAIN rows /\ j \in DOMAIN rows /\ i \notin Undone /\ j \notin Undone
      BY <2>1, <2>6 DEF Evaluating
    <3>2. CASE i \in Reopened /\ j \in Reopened
      <4>1. rows[i].key \in exposed
        BY <1>a, <2>2, <2>3, <2>4, <2>6, <3>2 DEF EndedOne
      <4> QED BY <4>1, <2>1, <3>1, <3>2
    <3>3. CASE i \in Reopened /\ j \notin Reopened
      <4>1. j \in Superseded
        BY <2>1, <2>2, <3>1, <3>3, <2>6 DEF Evaluating, Superseded
      <4> QED BY <4>1, <2>1, <2>2, <2>5, <3>1, <3>3
    <3>4. CASE i \notin Reopened /\ j \in Reopened
      <4>1. i \in Superseded
        BY <2>1, <2>2, <3>1, <3>4, <2>6 DEF Evaluating, Superseded
      <4> QED BY <4>1, <2>1, <2>2, <2>5, <2>6, <3>1, <3>4
    <3>5. CASE i \notin Reopened /\ j \notin Reopened
      <4>1. i \in Evaluating /\ j \in Evaluating /\ rows'[i] = rows[i] /\ rows'[j] = rows[j]
        BY <2>1, <3>1, <3>5, <2>6 DEF Evaluating
      <4> QED BY <1>a, <4>1, <2>1, <2>6 DEF OneOfKey
    <3> QED BY <3>2, <3>3, <3>4, <3>5
  <2>7. OneOfKey'
    BY <2>6 DEF OneOfKey
  <2>8. EndedOne'
    BY <1>a, <2>1 DEF EndedOne
  <2>9. LockHeld' /\ Alone' /\ FreshRow'
    BY <1>a, <2>1, <1>31 DEF OwUndoes, LockHeld, Alone, FreshRow, OwIdle
  <2> QED BY <2>7, <2>8, <2>9 DEF Serial
<1>32. CASE OwHookFails
  <2>1. EndedOne' /\ OneOfKey' /\ Evaluating' = Evaluating
    BY RowsKept, <1>32 DEF OwHookFails
  <2>2. LockHeld' /\ Alone' /\ FreshRow'
    <3>1. ow'.at = "done" /\ lock = "ow" /\ UNCHANGED <<pr, ju, ap>>
      BY <1>a, <1>32 DEF OwHookFails, LockHeld, TypeOK, OwOK
    <3> QED BY <1>a, <2>1, <3>1 DEF LockHeld, Alone, FreshRow
  <2> QED BY <2>1, <2>2 DEF Serial
<1> QED
  BY <1>1, <1>2, <1>3, <1>4, <1>5, <1>6, <1>7, <1>8, <1>9, <1>10, <1>11, <1>12, <1>13, <1>14, <1>15, <1>16, <1>17, <1>18,
     <1>19, <1>20, <1>21, <1>22, <1>23, <1>24, <1>25, <1>26, <1>27, <1>28, <1>29, <1>30, <1>31, <1>32
  DEF Next, Propose, OwnerWrite, Judge, ApRollback, JuRollback, Rollback

\* Only a recorded proposal and the undoing of a batch take a change under evaluation.
LEMMA NothingTaken ==
  ASSUME TypeOK, [Next]_vars, ~(PrRecords \/ OwUndoes)
  PROVE  Evaluating' \subseteq Evaluating
<1>a. RowsOK /\ rows \in [DOMAIN rows -> LedgerRow] /\ DOMAIN rows = 1..Len(rows) /\ Len(rows) \in Nat
  BY ElementOfSeq DEF TypeOK, RowsOK
<1>1. CASE rows' = rows
  BY <1>1 DEF Evaluating
<1>2. CASE JuBusy \/ JuDefers \/ JuKept \/ JuCloses \/ RbMarks(ju, ju') \/ RbMarks(ap, ap')
  BY <1>2, JudgeSettles DEF Evaluating
<1>3. CASE OwInserts
  <2> DEFINE r == Row(ow.key, ow.prev, ow.new, "manual", ManualUntil, ow.batch)
  <2>1. rows' = Append(rows, r) /\ rows \in Seq(LedgerRow) /\ r.status = "manual"
    BY <1>a, <1>3 DEF OwInserts, RowsOK, Row
  <2> HIDE DEF r
  <2>2. /\ DOMAIN rows' = 1..(Len(rows) + 1) /\ rows'[Len(rows) + 1] = r
        /\ \A j \in DOMAIN rows : rows'[j] = rows[j]
    BY <2>1, <1>a, AppendProperties
  <2> QED BY <1>a, <2>1, <2>2 DEF Evaluating
<1>4. CASE OwSupersedes
  <2>1. DOMAIN rows' = DOMAIN rows
    BY <1>4 DEF OwSupersedes
  <2>2. ASSUME NEW j \in DOMAIN rows, rows'[j].status = "evaluating"
        PROVE  rows[j].status = "evaluating"
    BY <1>a, <1>4, <2>2 DEF OwSupersedes, LedgerRow
  <2> QED BY <2>1, <2>2 DEF Evaluating
<1> QED BY <1>1, <1>2, <1>3, <1>4
     DEF Next, PrTakes, OwBegins, ApBegins, Propose, PrRechecks, PrWrites, PrRecordFails, OwnerWrite, OwWrites,
     OwHook, OwHookFails, OwEnds, OwUndo, ApRollback, JuRollback, Rollback, RbTakes, RbRestores, Judge, JuStarts,
     JuReverts, JuWaits, JuKeeps, Tick, Leave, Return, Crash, vars

\* What an undo finds stays as said.
LEMMA UndoFindsStep ==
  ASSUME TypeOK, IInv, [Next]_vars
  PROVE  UndoFinds'
<1>a. LockHeld /\ FreshRow /\ UndoFinds
  BY DEF IInv, Serial
<1>b. RowsOK /\ rows \in [DOMAIN rows -> LedgerRow] /\ DOMAIN rows = 1..Len(rows) /\ Len(rows) \in Nat
  BY ElementOfSeq DEF TypeOK, RowsOK
<1>1. ASSUME UNCHANGED <<rows, ow>>, pr' = pr \/ pr'.at # "record" PROVE UndoFinds'
  BY <1>a, <1>1 DEF UndoFinds, Superseded, Evaluating
<1>2. ASSUME UNCHANGED rows, ow' = ow \/ ow' = [ow EXCEPT !.met = TRUE], pr' = pr \/ pr'.at # "record" PROVE UndoFinds'
  <2>1. CASE ow' = ow
    BY <1>1, <1>2, <2>1
  <2>2. CASE ow' = [ow EXCEPT !.met = TRUE]
    <3>1. ow'.met = TRUE /\ ow'.at = ow.at /\ ow'.row = ow.row
      BY <2>2 DEF TypeOK, OwOK
    <3> QED BY <1>a, <3>1 DEF UndoFinds
  <2> QED BY <1>2, <2>1, <2>2
<1>3. CASE PrWrites
  <2>1. UNCHANGED rows /\ pr'.key = pr.key /\ ow' = Meets(pr.key)
    BY <1>3 DEF PrWrites, TypeOK, PrOK
  <2>2. CASE ow.key = pr.key
    <3>1. ow'.met = TRUE /\ ow'.at = ow.at /\ ow'.row = ow.row
      BY <2>1, <2>2 DEF Meets, TypeOK, OwOK
    <3> QED BY <1>a, <3>1 DEF UndoFinds
  <2>3. CASE ow.key # pr.key
    <3>1. ow' = ow
      BY <2>1, <2>3 DEF Meets
    <3> QED BY <1>a, <2>1, <2>3, <3>1 DEF UndoFinds, Superseded, Evaluating
  <2> QED BY <2>2, <2>3
<1>4. CASE PrRecordFails \/ RbRestores(ju, ju') \/ RbRestores(ap, ap')
  BY <1>2, <1>4 DEF PrRecordFails, RbRestores, Meets, PrIdle
<1>5. CASE JuBusy \/ JuDefers \/ JuKept \/ JuCloses \/ RbMarks(ju, ju') \/ RbMarks(ap, ap')
  <2>1. UNCHANGED <<ow, pr>>
    BY <1>5 DEF JuBusy, JuDefers, JuKept, JuCloses, RbMarks
  <2>2. DOMAIN rows' = DOMAIN rows /\ \A j \in DOMAIN rows : /\ rows'[j].by = rows[j].by \/ rows'[j].by = 0
                                                             /\ rows'[j].key = rows[j].key
    BY <1>5, JudgeSettles
  <2>3. Superseded' \subseteq Superseded
    BY <1>5, <2>1, JudgeSettles DEF Superseded, Evaluating
  <2> QED BY <1>a, <2>1, <2>2, <2>3 DEF UndoFinds
<1>6. CASE PrRecords
  <2> DEFINE r == Row(pr.key, pr.cur, pr.new, "evaluating", 0, FALSE)
  <2>1. rows' = Append(rows, r) /\ rows \in Seq(LedgerRow) /\ r.key = pr.key /\ r.by = 0
    BY <1>b, <1>6 DEF PrRecords, RowsOK, Row
  <2> HIDE DEF r
  <2>2. /\ DOMAIN rows' = 1..(Len(rows) + 1) /\ rows'[Len(rows) + 1] = r
        /\ \A j \in DOMAIN rows : rows'[j] = rows[j]
    BY <2>1, <1>b, AppendProperties
  <2>3. ow' = ow /\ pr.at = "record" /\ pr'.at # "record"
    BY <1>6 DEF PrRecords, PrIdle
  <2>4. ow.key # pr.key => Superseded' \subseteq Superseded
    BY <1>b, <2>1, <2>2, <2>3 DEF Superseded, Evaluating
  <2>5. ow.row # 0 /\ (\E i \in DOMAIN rows' : rows'[i].by = ow.row) => \E i \in DOMAIN rows : rows[i].by = ow.row
    BY <1>b, <2>1, <2>2
  <2> QED BY <1>a, <2>3, <2>4, <2>5 DEF UndoFinds
<1>7. ASSUME NEW k \in Keys, NEW v \in Values, NEW b \in BOOLEAN, OwBegins(k, v, b) PROVE UndoFinds'
  BY <1>7 DEF OwBegins, UndoFinds
<1>8. CASE OwWrites \/ OwHook
  <2>1. ow.row = 0 /\ ow'.row = ow.row
    BY <1>a, <1>8 DEF OwWrites, OwHook, UndoFinds, TypeOK, OwOK
  <2> QED BY <2>1 DEF UndoFinds
<1>9. CASE OwInserts
  <2>1. ow'.at = "supersede" /\ pr.at = "idle" /\ pr' = pr
    BY <1>a, <1>9 DEF OwInserts, LockHeld, TypeOK, OwOK
  <2> QED BY <2>1 DEF UndoFinds
<1>10. CASE OwSupersedes
  <2>1. ow'.at = "done" /\ ow'.key = ow.key /\ pr.at = "idle" /\ pr' = pr
    BY <1>a, <1>10 DEF OwSupersedes, LockHeld, TypeOK, OwOK
  <2>2. ASSUME NEW j \in DOMAIN rows, rows'[j].status = "evaluating" PROVE rows'[j].key # ow.key
    <3>1. j \in Superseded => rows'[j].status = "superseded_manual"
      BY <1>b, <1>10 DEF OwSupersedes, LedgerRow
    <3>2. j \notin Superseded => rows'[j] = rows[j]
      BY <1>10 DEF OwSupersedes
    <3> QED BY <2>2, <3>1, <3>2 DEF Superseded, Evaluating
  <2>3. Superseded' = {}
    BY <1>10, <2>1, <2>2 DEF OwSupersedes, Superseded, Evaluating
  <2> QED BY <2>1, <2>3 DEF UndoFinds
<1>11. CASE OwHookFails
  <2>1. ow'.at = "done" /\ ow'.row = ow.row /\ pr.at = "idle" /\ pr' = pr /\ rows' = rows
    BY <1>a, <1>11 DEF OwHookFails, LockHeld, TypeOK, OwOK
  <2>2. ow.row = 0 \/ \A i \in DOMAIN rows : rows[i].by # ow.row
    BY <1>a, <1>11 DEF OwHookFails, FreshRow, UndoFinds
  <2> QED BY <2>1, <2>2 DEF UndoFinds
<1>12. CASE OwEnds \/ OwUndoes \/ Crash
  <2>1. ow' = OwIdle
    BY <1>12 DEF OwEnds, OwUndoes, Crash
  <2>2. ow'.at = "idle" /\ ow'.row = 0
    BY <2>1 DEF OwIdle
  <2> QED BY <2>2 DEF UndoFinds
<1>13. CASE OwUndo
  <2>1. /\ ow'.at = "undo" /\ ow'.row = ow.row /\ ow'.key = ow.key /\ ow'.met = ow.met /\ ow.at = "done"
        /\ UNCHANGED <<rows, pr>>
    BY <1>13 DEF OwUndo, TypeOK, OwOK
  <2> QED BY <1>a, <2>1 DEF UndoFinds, Superseded, Evaluating
<1>14. CASE UNCHANGED <<rows, ow>> /\ (pr' = pr \/ pr'.at # "record")
  BY <1>1, <1>14
<1>15. ASSUME NEW k \in Keys, NEW v \in Values, PrTakes(k, v) PROVE UndoFinds'
  BY <1>1, <1>15 DEF PrTakes
<1>16. CASE PrRechecks
  <2>1. UNCHANGED <<rows, ow>> /\ pr'.at # "record"
    BY <1>16 DEF PrRechecks, PrIdle, TypeOK, PrOK
  <2> QED BY <1>1, <2>1
<1> QED BY <1>3, <1>4, <1>5, <1>6, <1>7, <1>8, <1>9, <1>10, <1>11, <1>12, <1>13, <1>14, <1>15, <1>16
     DEF Next, ApBegins, Propose, OwnerWrite, ApRollback, JuRollback, Rollback, RbTakes, Judge, JuStarts,
     JuReverts, JuWaits, JuKeeps, Tick, Leave, Return, vars, threads

\* A step keeps the invariant.
LEMMA InvStep ==
  ASSUME TypeOK, IInv, [Next]_vars
  PROVE  IInv'
BY SerialStep, UndoFindsStep DEF IInv

\* OneAtATime: however proposals, the owner's writes, rollbacks and stops interleave, a
\* change comes under evaluation beside another one only when a failed batch is undone;
\* and then only if that finds one under evaluation, or has lost track of its setting.
THEOREM OneAtATime == Spec => OneChange
<1>1. Init => TypeOK /\ IInv
  BY TypeInit, InvInit
<1>2. TypeOK /\ IInv /\ [Next]_vars => TypeOK' /\ IInv'
  BY TypeStep, InvStep
<1>3. TypeOK /\ IInv /\ [Next]_vars =>
        [ \/ Evaluating' \subseteq Evaluating
          \/ \A i, j \in Evaluating' : i = j
          \/ OwUndoes /\ (Evaluating # {} \/ ow.key \in exposed) ]_vars
  <2> SUFFICES ASSUME TypeOK, IInv, [Next]_vars
      PROVE  \/ Evaluating' \subseteq Evaluating
             \/ \A i, j \in Evaluating' : i = j
             \/ OwUndoes /\ (Evaluating # {} \/ ow.key \in exposed)
    OBVIOUS
  <2>a. /\ DOMAIN rows = 1..Len(rows) /\ Len(rows) \in Nat /\ rows \in Seq(LedgerRow)
        /\ rows \in [DOMAIN rows -> LedgerRow] /\ Alone /\ EndedOne
    BY ElementOfSeq DEF TypeOK, RowsOK, IInv, Serial
  <2>1. CASE ~(PrRecords \/ OwUndoes)
    BY <2>1, NothingTaken
  <2>2. CASE PrRecords
    <3> DEFINE r == Row(pr.key, pr.cur, pr.new, "evaluating", 0, FALSE)
    <3>1. rows' = Append(rows, r) /\ Evaluating = {}
      BY <2>a, <2>2 DEF PrRecords, Alone
    <3> HIDE DEF r
    <3>2. /\ DOMAIN rows' = 1..(Len(rows) + 1)
          /\ \A j \in DOMAIN rows : rows'[j] = rows[j]
      BY <3>1, <2>a, AppendProperties
    <3>3. Evaluating' \subseteq {Len(rows) + 1}
      BY <2>a, <3>1, <3>2 DEF Evaluating
    <3> QED BY <3>3
  <2>3. CASE OwUndoes /\ Evaluating = {} /\ ow.key \notin exposed
    <3>1. Evaluating' \subseteq Reopened
      <4>1. ASSUME NEW j \in DOMAIN rows, j \notin Reopened PROVE rows'[j].status # "evaluating"
        <5>1. j \in Undone => rows'[j].status = "deleted"
          BY <2>a, <2>3 DEF OwUndoes, LedgerRow
        <5>2. j \notin Undone => rows'[j] = rows[j]
          BY <2>3, <4>1 DEF OwUndoes
        <5> QED BY <2>3, <5>1, <5>2 DEF Evaluating
      <4>2. DOMAIN rows' = DOMAIN rows
        BY <2>3 DEF OwUndoes
      <4> QED BY <4>1, <4>2 DEF Evaluating
    <3>2. \A i, j \in Undone : i = j /\ i # 0
      BY <2>a DEF Undone, Manuals, Ids
    <3>3. \A i, j \in Reopened : i = j
      BY <2>a, <2>3, <3>2 DEF Reopened, Ids, EndedOne
    <3> QED BY <3>1, <3>3
  <2> QED BY <2>1, <2>2, <2>3
<1> QED BY <1>1, <1>2, <1>3, PTL DEF Spec, OneChange

----------------------------------------------------------------------------
(* What the ledger tells of a setting: the second part of the invariant *)

Near(a, b) == Distance(a, b) <= Cap

\* What row r says of its setting, to be v; a rollback of it that is still to be marked
\* has been done.
Says(r, marked, v) ==
  IF marked THEN v = r.old
  ELSE /\ r.status \in {"evaluating", "kept", "manual"} => v = r.new
       /\ r.status = "rolled_back" => v = r.old

\* The newest of rows S of ledger led says v; marks are the rows that are to be marked.
Told(led, marks, S, v) ==
  \A i \in S : (\A j \in S : j <= i) => Says(led[i], i \in marks, v)

\* Rows S, with the setting at v, start from the owner's decision w: it is what the newest
\* manual row says, or what the oldest row found; what came after it stays near.
Anchored(led, S, v, w) ==
  LET manual == {i \in S : led[i].status = "manual"} IN
  /\ \A i \in manual : (\A j \in manual : j <= i) => led[i].new = w
  /\ manual = {} => \A i \in S : (\A j \in S : i <= j) => led[i].old = w
  /\ \A i \in S : (\A j \in manual : j < i) => Near(led[i].old, w) /\ Near(led[i].new, w)
  /\ S = {} => v = w
  /\ Near(v, w)

\* The ledger accounts for a setting that is at v, since the owner decided w.
Accounts(led, marks, S, v, w) == Told(led, marks, S, v) /\ Anchored(led, S, v, w)

\* A decision of the owner that freezes until a day is in rows S.
FrozenBy(led, S, until) ==
  until = 0 \/ \E i \in S : led[i].status = "manual" /\ led[i].frozen >= until

\* The ledger without what the owner's row has ended.
Before(led, row) ==
  [i \in DOMAIN led |->
     IF led[i].status = "superseded_manual" /\ led[i].by = row /\ row # 0
     THEN [led[i] EXCEPT !.status = "evaluating"] ELSE led[i]]

Marks      == {t.id : t \in {u \in {ju, ap} : u.at = "mark"}}
OwPend(k)  == ow.key = k /\ ow.at \in {"hook", "insert", "undo"}
PrPend(k)  == pr.key = k /\ pr.at = "record"
\* The value that is to be told: that of a proposal has no row yet.
Settled(k) == IF PrPend(k) THEN pr.cur ELSE value[k]
Older      == Ids(ow.key) \ {ow.row}
Prior      == IF PrPend(ow.key) THEN pr.cur ELSE ow.prev

\* A setting is what its ledger tells, unless a write of the owner is still to be told.
OnRecord ==
  \A k \in Keys \ exposed : ~OwPend(k) =>
    Accounts(rows, Marks, Ids(k), Settled(k), owned[k].value)

\* So it was before the owner's write, as long as nobody has come in between: that is
\* what undoing it goes back to.
Reversible ==
  /\ PrPend(ow.key) => pr.new = ow.prev /\ Near(pr.new, ow.was.value)
  /\ Accounts(Before(rows, ow.row), Marks, Older, Prior, ow.was.value)
  /\ Near(ow.prev, ow.was.value)
OnRecordBefore == ow.at # "idle" /\ ~ow.met /\ ow.key \notin exposed => Reversible

\* What a proposal has in hand.
PrValue ==
  pr.at # "idle" /\ pr.key \notin exposed /\ ~OwPend(pr.key) =>
    /\ pr.at = "write" => value[pr.key] = pr.cur
    /\ pr.at = "record" => value[pr.key] = pr.new
    /\ Near(pr.new, owned[pr.key].value)

\* What the owner's write has in hand.
OwValue ==
  /\ ow.at \in {"write", "undo"} /\ ~ow.met => value[ow.key] = ow.prev
  /\ ow.at = "insert" => value[ow.key] = ow.new
  /\ ow.at \in {"hook", "insert"} => owned[ow.key].value = ow.new
  /\ ow.at = "write" => owned[ow.key] = ow.was
  /\ ow.at = "undo" => ow.batch
OwRow == ow.row # 0 => ow.row \in Manuals(ow.key) /\ rows[ow.row].batch = ow.batch

\* What a rollback has in hand: never a row of the owner, and under the lock the newest.
NotManual == \A t \in {ju, ap} : t.at # "idle" => rows[t.id].status \notin {"manual", "deleted"}
Leads(led, i) == \A j \in DOMAIN led : led[j].key = led[i].key /\ led[j].status # "deleted" => j <= i
Restoring == \A t \in {ju, ap} : t.at = "restore" => Leads(rows, t.id)

\* The freezes of the owner are in the ledger; a proposal at work has found none.
FreezeTold ==
  /\ \A k \in Keys \ exposed : FrozenBy(rows, Ids(k), owned[k].until)
  /\ ow.at # "idle" /\ ow.key \notin exposed => FrozenBy(rows, Older, ow.was.until)
  /\ pr.at # "idle" => day >= owned[pr.key].until \/ pr.key \in exposed

Hands == OwValue /\ OwRow /\ NotManual /\ Restoring
TInv  == IInv /\ Hands /\ PrValue /\ OnRecord /\ OnRecordBefore /\ FreezeTold

----------------------------------------------------------------------------
(* The ledger: constant facts *)

\* The ledger is a function to rows.
LEMMA LedgerFacts ==
  ASSUME TypeOK
  PROVE  /\ DOMAIN rows = 1..Len(rows) /\ Len(rows) \in Nat
         /\ \A i \in DOMAIN rows :
              /\ i \in Nat \ {0} /\ rows[i] \in LedgerRow /\ rows[i].key \in Keys /\ rows[i].old \in Nat
              /\ rows[i].new \in Nat /\ rows[i].by \in Nat /\ rows[i].frozen \in Nat
<1>1. rows \in [DOMAIN rows -> LedgerRow] /\ DOMAIN rows = 1..Len(rows) /\ Len(rows) \in Nat
  BY ElementOfSeq DEF TypeOK, RowsOK
<1> QED BY <1>1, TuneAssumption, SMTT(30) DEF LedgerRow

\* Rows that keep what they say of old and new, and whose decisions they are.
Steady(led, led2) ==
  /\ DOMAIN led2 = DOMAIN led
  /\ \A i \in DOMAIN led :
       /\ led2[i].key = led[i].key /\ led2[i].old = led[i].old /\ led2[i].new = led[i].new
       /\ led2[i].status = "deleted" <=> led[i].status = "deleted"
       /\ led2[i].status = "manual" <=> led[i].status = "manual"
       /\ led[i].status = "manual" => led2[i] = led[i]

\* A row given another status, of an automatic change, is steady with the others.
LEMMA SteadyUpdate ==
  ASSUME TypeOK, NEW i \in DOMAIN rows, rows[i].status \notin {"manual", "deleted"},
         NEW led, DOMAIN led = DOMAIN rows, \A j \in DOMAIN rows : j # i => led[j] = rows[j],
         led[i].key = rows[i].key, led[i].old = rows[i].old, led[i].new = rows[i].new,
         led[i].status \notin {"manual", "deleted"}
  PROVE  Steady(rows, led)
BY DEF Steady

\* What the judge and a rollback do to the ledger: one row, that is not the owner's.
LEMMA JudgedRow ==
  ASSUME TypeOK, NotManual, NEW t \in {ju, ap}, t.at # "idle", NEW s \in Statuses \ {"manual", "deleted"}, NEW n \in Nat
  PROVE  /\ Steady(rows, Marked(t.id, s))
         /\ Steady(rows, [Marked(t.id, s) EXCEPT ![t.id].frozen = n])
         /\ Steady(rows, [rows EXCEPT ![t.id].deferred = n, ![t.id].by = 0])
<1>1. t.id \in DOMAIN rows /\ rows[t.id].status \notin {"manual", "deleted"}
  BY DEF NotManual, TypeOK, RbOK
<1>2. \A i \in DOMAIN rows : rows[i] \in LedgerRow
  BY LedgerFacts
<1> DEFINE id == t.id
           f == Marked(id, s)
           g == [f EXCEPT ![id].frozen = n]
           h == [rows EXCEPT ![id].deferred = n, ![id].by = 0]
<1> HIDE DEF id
<1>3. id \in DOMAIN rows /\ rows[id].status \notin {"manual", "deleted"} /\ rows[id] \in LedgerRow
  BY <1>1, <1>2 DEF id
<1>4. /\ DOMAIN f = DOMAIN rows /\ \A j \in DOMAIN rows : j # id => f[j] = rows[j]
      /\ f[id].key = rows[id].key /\ f[id].old = rows[id].old /\ f[id].new = rows[id].new /\ f[id].status = s
  BY <1>3 DEF Marked, LedgerRow
<1>5. Steady(rows, f)
  BY <1>3, <1>4, SteadyUpdate
<1>6. Steady(rows, g)
  <2>1. f[id] \in LedgerRow
    BY <1>3 DEF Marked, LedgerRow
  <2> HIDE DEF f
  <2>2. /\ DOMAIN g = DOMAIN rows /\ \A j \in DOMAIN rows : j # id => g[j] = rows[j]
        /\ g[id].key = rows[id].key /\ g[id].old = rows[id].old /\ g[id].new = rows[id].new /\ g[id].status = s
    BY <1>3, <1>4, <2>1 DEF LedgerRow
  <2> QED BY <1>3, <2>2, SteadyUpdate
<1>7. Steady(rows, h)
  <2>1. /\ DOMAIN h = DOMAIN rows /\ \A j \in DOMAIN rows : j # id => h[j] = rows[j]
        /\ h[id].key = rows[id].key /\ h[id].old = rows[id].old /\ h[id].new = rows[id].new
        /\ h[id].status = rows[id].status
    BY <1>3 DEF LedgerRow
  <2> QED BY <1>3, <2>1, SteadyUpdate
<1> QED BY <1>5, <1>6, <1>7 DEF id

\* Every step but an insert and the undoing of a batch leaves the ledger steady.
LEMMA SteadyRows ==
  ASSUME TypeOK, NotManual, [Next]_vars, ~(PrRecords \/ OwInserts \/ OwUndoes)
  PROVE  Steady(rows, rows')
<1>1. CASE rows' = rows
  BY <1>1 DEF Steady
<1>2. CASE JuBusy \/ JuDefers
  <2>1. PICK n \in Nat : rows' = [rows EXCEPT ![ju.id].deferred = n, ![ju.id].by = 0]
    <3>1. ju.deferred \in Nat /\ ju.deferred + 1 \in Nat
      BY DEF TypeOK, RbOK
    <3> QED BY <1>2, <3>1 DEF JuBusy, JuDefers
  <2>2. ju.at # "idle" /\ "kept" \in Statuses \ {"manual", "deleted"}
    BY <1>2 DEF JuBusy, JuDefers, Statuses
  <2> QED BY <2>1, <2>2, JudgedRow
<1>3. CASE JuKept \/ JuCloses
  <2>1. PICK s \in {"kept", "superseded_manual"} : rows' = Marked(ju.id, s)
    BY <1>3 DEF JuKept, JuCloses
  <2>2. ju.at # "idle" /\ s \in Statuses \ {"manual", "deleted"} /\ 0 \in Nat
    BY <1>3 DEF JuKept, JuCloses, Statuses
  <2> QED BY <2>1, <2>2, JudgedRow
<1>4. CASE RbMarks(ju, ju') \/ RbMarks(ap, ap')
  <2>1. PICK t \in {ju, ap} : rows' = [Marked(t.id, "rolled_back") EXCEPT ![t.id].frozen = Until(RollbackFreeze)] /\ t.at = "mark"
    BY <1>4 DEF RbMarks
  <2>2. "rolled_back" \in Statuses \ {"manual", "deleted"} /\ Until(RollbackFreeze) \in Nat
    BY TuneAssumption DEF Statuses, Until, TypeOK, SettingsOK
  <2> QED BY <2>1, <2>2, JudgedRow
<1>5. CASE OwSupersedes
  <2>1. \A i \in Superseded : i \in DOMAIN rows /\ rows[i].status = "evaluating"
    BY DEF Superseded, Evaluating
  <2>2. /\ DOMAIN rows' = DOMAIN rows
        /\ \A i \in DOMAIN rows : i \notin Superseded => rows'[i] = rows[i]
        /\ \A i \in DOMAIN rows : i \in Superseded =>
             /\ rows'[i].key = rows[i].key /\ rows'[i].old = rows[i].old /\ rows'[i].new = rows[i].new
             /\ rows'[i].status = "superseded_manual"
    BY <1>5, LedgerFacts DEF OwSupersedes, LedgerRow
  <2> QED BY <2>1, <2>2 DEF Steady
<1> QED BY <1>1, <1>2, <1>3, <1>4, <1>5
     DEF Next, PrTakes, OwBegins, ApBegins, Propose, PrRechecks, PrWrites, PrRecordFails, OwnerWrite, OwWrites,
     OwHook, OwHookFails, OwEnds, OwUndo, ApRollback, JuRollback, Rollback, RbTakes, RbRestores, Judge, JuStarts,
     JuReverts, JuWaits, JuKeeps, Tick, Leave, Return, Crash, vars

\* The live rows of a setting stay the same, and the owner's among them.
LEMMA SteadyIds ==
  ASSUME Steady(rows, rows')
  PROVE  /\ \A k : Ids(k)' = Ids(k) /\ Manuals(k)' = Manuals(k)
         /\ \A k : \A i \in Ids(k) : rows'[i].status = "manual" <=> rows[i].status = "manual"
BY DEF Steady, Ids, Manuals

\* What is told of a setting is told after a step if each of its rows still says it.
LEMMA ToldKept ==
  ASSUME NEW led, NEW led2, NEW marks, NEW marks2, NEW S, NEW v, Told(led, marks, S, v),
         \A i \in S : Says(led[i], i \in marks, v) => Says(led2[i], i \in marks2, v)
  PROVE  Told(led2, marks2, S, v)
BY DEF Told

\* What a steady ledger is anchored to stays.
LEMMA AnchorKept ==
  ASSUME NEW led, NEW led2, NEW S, NEW v, NEW w, Anchored(led, S, v, w),
         \A i \in S : /\ led2[i].old = led[i].old /\ led2[i].new = led[i].new
                      /\ led2[i].status = "manual" <=> led[i].status = "manual"
  PROVE  Anchored(led2, S, v, w)
<1>1. {i \in S : led2[i].status = "manual"} = {i \in S : led[i].status = "manual"}
  OBVIOUS
<1> DEFINE manual == {i \in S : led[i].status = "manual"}
<1>2. /\ \A i \in manual : (\A j \in manual : j <= i) => led[i].new = w
      /\ manual = {} => \A i \in S : (\A j \in S : i <= j) => led[i].old = w
      /\ \A i \in S : (\A j \in manual : j < i) => Near(led[i].old, w) /\ Near(led[i].new, w)
      /\ S = {} => v = w
      /\ Near(v, w)
  BY Zenon DEF Anchored
<1>3. /\ \A i \in manual : (\A j \in manual : j <= i) => led2[i].new = w
      /\ manual = {} => \A i \in S : (\A j \in S : i <= j) => led2[i].old = w
      /\ \A i \in S : (\A j \in manual : j < i) => Near(led2[i].old, w) /\ Near(led2[i].new, w)
  BY <1>2
<1> QED BY <1>1, <1>2, <1>3, Zenon DEF Anchored

\* A new row of the owner is told and anchors.
LEMMA OwnerRow ==
  ASSUME NEW led, NEW marks, NEW S, S \subseteq Nat, NEW n \in Nat, \A i \in S : i < n, n \notin marks,
         led[n].status = "manual", led[n].new \in Nat
  PROVE  Told(led, marks, S \cup {n}, led[n].new) /\ Anchored(led, S \cup {n}, led[n].new, led[n].new)
<1> DEFINE T == S \cup {n}
           manual == {i \in T : led[i].status = "manual"}
           v == led[n].new
<1>1. n \in manual /\ \A i \in T : i \in Nat /\ i <= n
  <2>1. n \in manual
    OBVIOUS
  <2>2. ASSUME NEW i \in T PROVE i \in Nat /\ i <= n
    <3>1. i \in Nat /\ n \in Nat
      OBVIOUS
    <3>2. i < n \/ i = n
      OBVIOUS
    <3> HIDE DEF T, manual, v
    <3> QED BY <3>1, <3>2
  <2> QED BY <2>1, <2>2
<1>2. ASSUME NEW i \in T, \A j \in manual : j <= i PROVE i = n
  BY <1>1, <1>2
<1>3. ASSUME NEW i \in T, \A j \in manual : j < i PROVE FALSE
  <2>1. n < i /\ i <= n /\ i \in Nat
    BY <1>1, <1>3
  <2> QED BY <2>1
<1>4. Near(v, v)
  BY TuneAssumption DEF Near, Distance
<1>5. Told(led, marks, T, v)
  BY <1>1, <1>2 DEF Told, Says
<1>6. Anchored(led, T, v, v)
  <2> HIDE DEF T, v
  <2>1. \A i \in manual : (\A j \in manual : j <= i) => led[i].new = v
    BY <1>2 DEF v
  <2>2. manual # {} /\ T # {}
    BY <1>1 DEF T
  <2>3. \A i \in T : (\A j \in manual : j < i) => Near(led[i].old, v) /\ Near(led[i].new, v)
    BY <1>3
  <2> QED BY <1>4, <2>1, <2>2, <2>3, Zenon DEF Anchored
<1> QED BY <1>5, <1>6

\* A change from a value that was anchored is told, and anchored to the same decision.
LEMMA ProposedRow ==
  ASSUME NEW led, NEW led2, NEW marks, NEW S, S \subseteq Nat, NEW n \in Nat, \A i \in S : i < n, n \notin marks,
         \A i \in S : led2[i] = led[i], led2[n].status = "evaluating", NEW w, Anchored(led, S, led2[n].old, w),
         Near(led2[n].new, w)
  PROVE  Told(led2, marks, S \cup {n}, led2[n].new) /\ Anchored(led2, S \cup {n}, led2[n].new, w)
<1> DEFINE T == S \cup {n}
           manual == {i \in S : led[i].status = "manual"}
           v == led2[n].new
<1>1. {i \in T : led2[i].status = "manual"} = manual
  OBVIOUS
<1>2. /\ \A i \in manual : (\A j \in manual : j <= i) => led[i].new = w
      /\ manual = {} => \A i \in S : (\A j \in S : i <= j) => led[i].old = w
      /\ \A i \in S : (\A j \in manual : j < i) => Near(led[i].old, w) /\ Near(led[i].new, w)
      /\ S = {} => led2[n].old = w
      /\ Near(led2[n].old, w)
  BY Zenon DEF Anchored
<1>3. Told(led2, marks, T, v)
  <2>1. ASSUME NEW i \in T, \A j \in T : j <= i PROVE i = n
    BY <2>1
  <2> QED BY <2>1 DEF Told, Says
<1>4. \A i \in manual : (\A j \in manual : j <= i) => led2[i].new = w
  BY <1>2
<1>5. ASSUME manual = {}, NEW i \in T, \A j \in T : i <= j PROVE led2[i].old = w
  <2>1. CASE i \in S
    BY <1>2, <1>5, <2>1
  <2>2. CASE i = n
    <3>1. S = {}
      BY <1>5, <2>2
    <3> QED BY <1>2, <2>2, <3>1
  <2> QED BY <2>1, <2>2
<1>6. \A i \in T : (\A j \in manual : j < i) => Near(led2[i].old, w) /\ Near(led2[i].new, w)
  BY <1>2
<1>7. Anchored(led2, T, v, w)
  <2>1. T # {} /\ Near(v, w)
    OBVIOUS
  <2> HIDE DEF T, v, manual
  <2>2. manual = {} => \A i \in T : (\A j \in T : i <= j) => led2[i].old = w
    BY <1>5
  <2> QED BY <1>1, <1>4, <1>6, <2>1, <2>2, Zenon DEF Anchored
<1> QED BY <1>3, <1>7

----------------------------------------------------------------------------
(* What the activities have in hand *)

\* The steps of the invariant, by what they write.
NoWrite == UNCHANGED <<value, ow, owned>>

\* A step that writes nothing, or who writes what.
LEMMA Writers ==
  ASSUME [Next]_vars
  PROVE  \/ NoWrite
         \/ PrWrites \/ PrRecordFails \/ OwnerWrite \/ OwHookFails \/ Crash
         \/ \E k \in Keys, v \in Values, b \in BOOLEAN : OwBegins(k, v, b)
         \/ RbRestores(ju, ju') \/ RbRestores(ap, ap')
BY DEF Next, NoWrite, PrTakes, ApBegins, Propose, PrRechecks, PrRecords, ApRollback, JuRollback, Rollback, RbTakes, RbMarks,
   Judge, JuBusy, JuStarts, JuReverts, JuWaits, JuDefers, JuKeeps, JuKept, JuCloses, Tick, Leave, Return,
   vars, threads, history

\* A write that the owner's call meets leaves the rest of it as it is.
LEMMA MeetsFields ==
  ASSUME TypeOK, NEW k
  PROVE  /\ Meets(k).at = ow.at /\ Meets(k).key = ow.key /\ Meets(k).new = ow.new /\ Meets(k).prev = ow.prev
         /\ Meets(k).batch = ow.batch /\ Meets(k).row = ow.row /\ Meets(k).was = ow.was
         /\ ow.key = k => Meets(k).met
         /\ ow.key # k => Meets(k).met = ow.met
BY DEF Meets, TypeOK, OwOK

\* A write of another activity meets the owner's call or is of another setting.
LEMMA Foreign ==
  ASSUME TypeOK, IInv, PrWrites \/ PrRecordFails \/ RbRestores(ju, ju') \/ RbRestores(ap, ap')
  PROVE  \E k \in Keys, v \in Values :
           /\ value' = [value EXCEPT ![k] = v] /\ ow' = Meets(k) /\ owned' = owned /\ exposed' = exposed
           /\ ow.at \notin {"insert", "supersede"}
<1>1. CASE PrWrites
  BY <1>1 DEF PrWrites, history, TypeOK, PrOK, IInv, Serial, LockHeld
<1>2. CASE PrRecordFails
  BY <1>2 DEF PrRecordFails, history, TypeOK, PrOK, IInv, Serial, LockHeld
<1>3. ASSUME NEW t \in {ju, ap}, NEW t2, RbRestores(t, t2)
      PROVE  \E k \in Keys, v \in Values :
           /\ value' = [value EXCEPT ![k] = v] /\ ow' = Meets(k) /\ owned' = owned /\ exposed' = exposed
           /\ ow.at \notin {"insert", "supersede"}
  <2>1. t.id \in DOMAIN rows /\ lock \in {"ju", "ap"}
    BY <1>3 DEF RbRestores, TypeOK, RbOK, IInv, Serial, LockHeld
  <2>2. rows[t.id].key \in Keys /\ rows[t.id].old \in Values
    BY <2>1, LedgerFacts DEF LedgerRow
  <2>3. /\ value' = [value EXCEPT ![rows[t.id].key] = rows[t.id].old] /\ ow' = Meets(rows[t.id].key)
        /\ owned' = owned /\ exposed' = exposed
    BY <1>3 DEF RbRestores, history
  <2>4. ow.at \notin {"insert", "supersede"}
    BY <2>1 DEF IInv, Serial, LockHeld
  <2> QED BY <2>2, <2>3, <2>4
<1> QED BY <1>1, <1>2, <1>3

\* The owner's call at work.
LEMMA OwFacts ==
  ASSUME TypeOK
  PROVE  /\ ow.at # "idle" => ow.key \in Keys /\ ow.new \in Values /\ ow.prev \in Values /\ ow.was.value \in Values
         /\ ow.at \in {"idle", "write", "hook", "insert", "supersede", "done", "undo"} /\ ow.row \in Nat
         /\ value \in [Keys -> Values] /\ owned \in [Keys -> [value : Values, until : Nat]]
         /\ ow.batch \in BOOLEAN /\ ow.met \in BOOLEAN /\ Values \subseteq Nat
BY TuneAssumption, Zenon DEF TypeOK, OwOK, SettingsOK

\* The owner's write knows the value it will put, has put, or puts back.
LEMMA OwValueStep ==
  ASSUME TypeOK, TInv, [Next]_vars
  PROVE  OwValue'
<1>1. OwValue /\ IInv
  BY DEF TInv, Hands
<1>2. CASE NoWrite
  BY <1>1, <1>2 DEF NoWrite, OwValue
<1>3. CASE PrWrites \/ PrRecordFails \/ RbRestores(ju, ju') \/ RbRestores(ap, ap')
  <2>1. PICK k \in Keys, v \in Values :
           /\ value' = [value EXCEPT ![k] = v] /\ ow' = Meets(k) /\ owned' = owned
           /\ ow.at \notin {"insert", "supersede"}
    BY <1>1, <1>3, Foreign
  <2>2. /\ ow'.at = ow.at /\ ow'.key = ow.key /\ ow'.new = ow.new /\ ow'.prev = ow.prev
        /\ ow'.batch = ow.batch /\ ow'.row = ow.row /\ ow'.was = ow.was
        /\ ow.key = k => ow'.met
        /\ ow.key # k => ow'.met = ow.met /\ value'[ow.key] = value[ow.key]
    <3>1. ow.key # k => value'[ow.key] = value[ow.key]
      BY <2>1, OwFacts
    <3> QED BY <2>1, <3>1, MeetsFields
  <2> QED BY <1>1, <2>1, <2>2 DEF OwValue
<1>4. ASSUME NEW k \in Keys, NEW v \in Values, NEW b \in BOOLEAN, OwBegins(k, v, b) PROVE OwValue'
  BY <1>4 DEF OwBegins, OwValue, history
<1>5. CASE Crash
  BY <1>5 DEF Crash, OwValue, OwIdle
<1>6. CASE OwWrites
  <2>1. /\ ow' = [ow EXCEPT !.at = "done"] \/ (/\ ow' = [ow EXCEPT !.at = "hook"]
                                              /\ owned' = [owned EXCEPT ![ow.key].value = ow.new])
        /\ ow.at = "write"
    BY <1>6 DEF OwWrites
  <2>2. CASE ow' = [ow EXCEPT !.at = "done"]
    BY <2>2 DEF OwValue, TypeOK, OwOK
  <2>3. CASE ow' = [ow EXCEPT !.at = "hook"] /\ owned' = [owned EXCEPT ![ow.key].value = ow.new]
    <3>1. ow'.at = "hook" /\ ow'.key = ow.key /\ ow'.new = ow.new
      BY <2>1, <2>3 DEF TypeOK, OwOK
    <3>2. owned'[ow.key].value = ow.new
      BY <2>1, <2>3, OwFacts
    <3> QED BY <3>1, <3>2 DEF OwValue
  <2> QED BY <2>1, <2>2, <2>3
<1>7. CASE OwHook
  <2>1. /\ ow'.at = "insert" /\ ow'.key = ow.key /\ ow'.new = ow.new /\ ow'.row = ow.row /\ ow.at = "hook"
        /\ owned' = owned
    BY <1>7 DEF OwHook, TypeOK, OwOK, history
  <2>2. value'[ow.key] = ow.new
    BY <1>7, <2>1, OwFacts DEF OwHook, Regained
  <2> QED BY <1>1, <2>1, <2>2 DEF OwValue
<1>8. CASE OwInserts \/ OwSupersedes \/ OwHookFails
  <2>1. ow'.at \in {"supersede", "done"}
    BY <1>8 DEF OwInserts, OwSupersedes, OwHookFails, TypeOK, OwOK
  <2> QED BY <2>1 DEF OwValue
<1>9. CASE OwEnds \/ OwUndoes
  <2>1. ow' = OwIdle
    BY <1>9 DEF OwEnds, OwUndoes
  <2>2. ow'.at = "idle"
    BY <2>1 DEF OwIdle
  <2> QED BY <2>2 DEF OwValue
<1>10. CASE OwUndo
  <2>1. ow'.at = "undo" /\ ow'.key = ow.key /\ ow'.prev = ow.prev /\ ow'.batch = ow.batch /\ ow.at = "done" /\ ow.batch
    BY <1>10 DEF OwUndo, TypeOK, OwOK
  <2>2. value'[ow.key] = ow.prev
    BY <1>10, <2>1, OwFacts DEF OwUndo
  <2> QED BY <2>1, <2>2 DEF OwValue
<1> QED BY <1>2, <1>3, <1>4, <1>5, <1>6, <1>7, <1>8, <1>9, <1>10, Writers DEF OwnerWrite

\* The row of the owner's write stays the owner's.
LEMMA OwRowStep ==
  ASSUME TypeOK, TInv, [Next]_vars
  PROVE  OwRow'
<1>1. OwRow /\ OwValue /\ NotManual /\ IInv
  BY DEF TInv, Hands
<1>2. CASE OwInserts
  <2> DEFINE r == Row(ow.key, ow.prev, ow.new, "manual", ManualUntil, ow.batch)
  <2>1. rows \in Seq(LedgerRow) /\ rows' = Append(rows, r)
    BY <1>2 DEF OwInserts, TypeOK, RowsOK
  <2>2. r.key = ow.key /\ r.status = "manual" /\ r.batch = ow.batch
    BY DEF Row
  <2> HIDE DEF r
  <2>3. Len(rows) + 1 \in DOMAIN rows' /\ rows'[Len(rows) + 1] = r
    BY <2>1, AppendProperties, LedgerFacts
  <2>4. ow'.row = Len(rows) + 1 /\ ow'.key = ow.key /\ ow'.batch = ow.batch
    BY <1>2, LedgerFacts DEF OwInserts, TypeOK, OwOK
  <2> QED BY <2>2, <2>3, <2>4 DEF OwRow, Manuals, Ids
<1>3. CASE PrRecords
  <2> DEFINE r == Row(pr.key, pr.cur, pr.new, "evaluating", 0, FALSE)
  <2>1. rows \in Seq(LedgerRow) /\ rows' = Append(rows, r) /\ ow' = ow
    BY <1>3 DEF PrRecords, TypeOK, RowsOK
  <2> HIDE DEF r
  <2>2. DOMAIN rows \subseteq DOMAIN rows' /\ \A i \in DOMAIN rows : rows'[i] = rows[i]
    BY <2>1, AppendProperties, LedgerFacts
  <2> QED BY <1>1, <2>1, <2>2 DEF OwRow, Manuals, Ids
<1>4. CASE OwUndoes
  BY <1>4 DEF OwUndoes, OwIdle, OwRow
<1>5. CASE ~(PrRecords \/ OwInserts \/ OwUndoes)
  <2>1. Steady(rows, rows')
    BY <1>1, <1>5, SteadyRows
  <2>2. \A k : Manuals(k)' = Manuals(k) /\ \A i \in Manuals(k) : rows'[i] = rows[i]
    BY <2>1 DEF Steady, Manuals, Ids
  <2>3. ow'.row = 0 \/ (ow'.row = ow.row /\ ow'.key = ow.key /\ ow'.batch = ow.batch)
    <3>1. CASE NoWrite
      BY <3>1 DEF NoWrite
    <3>2. CASE PrWrites \/ PrRecordFails \/ RbRestores(ju, ju') \/ RbRestores(ap, ap')
      <4>1. PICK k \in Keys : ow' = Meets(k)
        BY <1>1, <3>2, Foreign
      <4> QED BY <4>1, MeetsFields
    <3>3. CASE Crash \/ OwEnds
      BY <3>3 DEF Crash, OwEnds, OwIdle
    <3>4. CASE OwWrites \/ OwHook \/ OwHookFails \/ OwSupersedes \/ OwUndo
      BY <3>4 DEF OwWrites, OwHook, OwHookFails, OwSupersedes, OwUndo, TypeOK, OwOK
    <3>5. CASE \E k \in Keys, v \in Values, b \in BOOLEAN : OwBegins(k, v, b)
      BY <3>5 DEF OwBegins
    <3> QED BY <1>5, <3>1, <3>2, <3>3, <3>4, <3>5, Writers DEF OwnerWrite
  <2> QED BY <1>1, <2>2, <2>3 DEF OwRow
<1> QED BY <1>2, <1>3, <1>4, <1>5

\* A set of naturals that is not empty has a least one.
LEMMA LeastOf ==
  ASSUME NEW T, T \subseteq Nat, T # {}
  PROVE  \E x \in T : \A y \in T : x <= y
<1> DEFINE L == {ss \in Nat \X Nat : ss[1] < ss[2]}
<1>1. L = OpToRel(<, Nat)
  BY DEF OpToRel
<1>2. IsWellFoundedOn(L, Nat)
  BY <1>1, NatLessThanWellFounded
<1> HIDE DEF L
<1>3. PICK x \in T : \A y \in T : ~(<<y, x>> \in L)
  BY <1>2, WFMin
<1>4. ASSUME NEW y \in T PROVE x <= y
  <2>1. <<y, x>> \in Nat \X Nat /\ <<y, x>> \notin L
    BY <1>3
  <2>2. ~(y < x)
    BY <2>1 DEF L
  <2> QED BY <2>1, <2>2
<1> QED BY <1>4

\* Some rows of the ledger have an oldest and a newest one.
LEMMA OldestNewest ==
  ASSUME TypeOK, NEW S, S \subseteq DOMAIN rows, S # {}
  PROVE  /\ Oldest(S) \in S /\ \A j \in S : Oldest(S) <= j
         /\ Newest(S) \in S /\ \A j \in S : j <= Newest(S)
<1>1. S \subseteq Nat /\ Len(rows) \in Nat /\ \A i \in S : i <= Len(rows)
  BY LedgerFacts
<1>2. \E i \in S : \A j \in S : i <= j
  BY <1>1, LeastOf
<1>3. \E i \in S : \A j \in S : j <= i
  <2> DEFINE T == {Len(rows) - i : i \in S}
  <2>1. T \subseteq Nat /\ T # {}
    BY <1>1
  <2>2. PICK x \in T : \A y \in T : x <= y
    BY <2>1, LeastOf
  <2>3. PICK i \in S : x = Len(rows) - i
    BY <2>2
  <2>4. ASSUME NEW j \in S PROVE j <= i
    <3>1. Len(rows) - i <= Len(rows) - j
      BY <2>2, <2>3
    <3>2. i \in Nat /\ j \in Nat
      BY <1>1
    <3> QED BY <1>1, <3>1, <3>2
  <2> QED BY <2>4
<1>4. Oldest(S) \in S /\ \A j \in S : Oldest(S) <= j
  BY <1>2 DEF Oldest
<1>5. Newest(S) \in S /\ \A j \in S : j <= Newest(S)
  BY <1>3 DEF Newest
<1> QED BY <1>4, <1>5

\* A new row leaves those that were there.
LEMMA NewRow ==
  ASSUME TypeOK, NEW r, r \in LedgerRow, rows' = Append(rows, r)
  PROVE  /\ DOMAIN rows' = DOMAIN rows \cup {Len(rows) + 1} /\ rows'[Len(rows) + 1] = r
         /\ \A i \in DOMAIN rows : rows'[i] = rows[i] /\ i < Len(rows) + 1 /\ i # Len(rows) + 1
         /\ Len(rows) + 1 \in Nat
<1>1. rows \in Seq(LedgerRow) /\ DOMAIN rows = 1..Len(rows) /\ Len(rows) \in Nat
  BY LedgerFacts DEF TypeOK, RowsOK
<1>2. DOMAIN rows' = 1..(Len(rows) + 1) /\ rows'[Len(rows) + 1] = r /\ \A i \in DOMAIN rows : rows'[i] = rows[i]
  BY <1>1, AppendProperties
<1> QED BY <1>1, <1>2

\* The two rows that are written.
LEMMA WrittenRows ==
  ASSUME TypeOK
  PROVE  /\ PrRecords => Row(pr.key, pr.cur, pr.new, "evaluating", 0, FALSE) \in LedgerRow
         /\ OwInserts => Row(ow.key, ow.prev, ow.new, "manual", ManualUntil, ow.batch) \in LedgerRow
<1>1. ASSUME PrRecords PROVE Row(pr.key, pr.cur, pr.new, "evaluating", 0, FALSE) \in LedgerRow
  BY <1>1 DEF PrRecords, TypeOK, PrOK, SettingsOK, Row, LedgerRow, Statuses
<1>2. ASSUME OwInserts PROVE Row(ow.key, ow.prev, ow.new, "manual", ManualUntil, ow.batch) \in LedgerRow
  <2>1. ManualUntil \in Nat /\ day \in Nat
    BY TuneAssumption DEF TypeOK, SettingsOK, ManualUntil, Until
  <2>2. ow.key \in Keys /\ ow.prev \in Values /\ ow.new \in Values /\ ow.batch \in BOOLEAN
    BY <1>2, OwFacts DEF OwInserts
  <2> QED BY <2>1, <2>2 DEF Row, LedgerRow, Statuses
<1> QED BY <1>1, <1>2

\* An automatic change stays one: only the undoing of a batch removes rows, the owner's.
LEMMA StaysAutomatic ==
  ASSUME TypeOK, NotManual, [Next]_vars, NEW i \in DOMAIN rows, rows[i].status \notin {"manual", "deleted"}
  PROVE  /\ i \in DOMAIN rows' /\ rows'[i].status \notin {"manual", "deleted"}
         /\ rows'[i].key = rows[i].key /\ rows'[i].old = rows[i].old /\ rows'[i].new = rows[i].new
<1>1. CASE PrRecords \/ OwInserts
  <2>1. PICK r \in LedgerRow : rows' = Append(rows, r)
    BY <1>1, WrittenRows DEF PrRecords, OwInserts
  <2> QED BY <2>1, NewRow
<1>2. CASE OwUndoes
  <2>1. i \notin Undone
    BY DEF Undone, Manuals
  <2>2. rows'[i] \in {rows[i], [rows[i] EXCEPT !.status = "evaluating", !.by = 0, !.deferred = 0]} /\ i \in DOMAIN rows'
    BY <1>2, <2>1 DEF OwUndoes
  <2>3. rows[i] \in LedgerRow
    BY LedgerFacts
  <2> QED BY <2>2, <2>3 DEF LedgerRow
<1>3. CASE ~(PrRecords \/ OwInserts \/ OwUndoes)
  BY <1>3, SteadyRows DEF Steady
<1> QED BY <1>1, <1>2, <1>3

\* The judge works on a change under evaluation, a rollback on an automatic one.
LEMMA Aims ==
  ASSUME TypeOK, [Next]_vars
  PROVE  /\ ju'.at # "idle" => (ju.at # "idle" /\ ju'.id = ju.id) \/ (JuStarts /\ ju'.id \in Evaluating)
         /\ ap'.at # "idle" => (ap.at # "idle" /\ ap'.id = ap.id) \/ (ap'.id \in DOMAIN rows /\ Reverts(ap'.id) /\ rows' = rows)
<1>1. ju'.at # "idle" => (ju.at # "idle" /\ ju'.id = ju.id) \/ (JuStarts /\ ju'.id \in Evaluating)
  <2>1. CASE ju' = ju
    BY <2>1
  <2>2. CASE ju' = RbIdle
    BY <2>2 DEF RbIdle
  <2>3. CASE JuStarts
    BY <2>3 DEF JuStarts
  <2>4. CASE ju' # RbIdle /\ (JuReverts \/ JuKeeps \/ RbTakes("ju", ju, ju') \/ RbRestores(ju, ju'))
    BY <2>4 DEF JuReverts, JuKeeps, RbTakes, RbRestores, Refused, TypeOK, RbOK
  <2> QED BY <2>1, <2>2, <2>3, <2>4
       DEF Next, PrTakes, OwBegins, ApBegins, Propose, PrRechecks, PrWrites, PrRecords, PrRecordFails, OwnerWrite, OwWrites,
       OwHook, OwHookFails, OwInserts, OwSupersedes, OwEnds, OwUndo, OwUndoes, ApRollback, JuRollback, Rollback, RbMarks, Judge, JuBusy,
       JuReverts, JuWaits, JuDefers, JuKeeps, JuKept, JuCloses, Tick, Leave, Return, Crash, vars, threads
<1>2. ap'.at # "idle" => (ap.at # "idle" /\ ap'.id = ap.id) \/ (ap'.id \in DOMAIN rows /\ Reverts(ap'.id) /\ rows' = rows)
  <2>1. CASE ap' = ap
    BY <2>1
  <2>2. CASE ap' = RbIdle
    BY <2>2 DEF RbIdle
  <2>3. CASE \E i \in DOMAIN rows : ApBegins(i)
    BY <2>3 DEF ApBegins
  <2>4. CASE ap' # RbIdle /\ (RbTakes("ap", ap, ap') \/ RbRestores(ap, ap'))
    BY <2>4 DEF RbTakes, RbRestores, Refused, TypeOK, RbOK
  <2> QED BY <2>1, <2>2, <2>3, <2>4
       DEF Next, PrTakes, OwBegins, Propose, PrRechecks, PrWrites, PrRecords, PrRecordFails, OwnerWrite, OwWrites,
       OwHook, OwHookFails, OwInserts, OwSupersedes, OwEnds, OwUndo, OwUndoes, ApRollback, JuRollback, Rollback, RbMarks, Judge, JuBusy,
       JuStarts, JuReverts, JuWaits, JuDefers, JuKeeps, JuKept, JuCloses, Tick, Leave, Return, Crash, vars, threads
<1> QED BY <1>1, <1>2

\* A rollback never has a row of the owner in hand.
LEMMA NotManualStep ==
  ASSUME TypeOK, TInv, [Next]_vars
  PROVE  NotManual'
<1>1. NotManual
  BY DEF TInv, Hands
<1>2. ASSUME NEW t \in {ju, ap}, t.at # "idle"
      PROVE  rows'[t.id].status \notin {"manual", "deleted"}
  <2>1. t.id \in DOMAIN rows /\ rows[t.id].status \notin {"manual", "deleted"}
    BY <1>1, <1>2 DEF NotManual, TypeOK, RbOK
  <2> QED BY <1>1, <2>1, StaysAutomatic
<1>3. ASSUME ju'.at # "idle" PROVE rows'[ju'.id].status \notin {"manual", "deleted"}
  <2>1. CASE ju.at # "idle" /\ ju'.id = ju.id
    BY <1>2, <2>1
  <2>2. CASE JuStarts /\ ju'.id \in Evaluating
    BY <2>2 DEF JuStarts, Evaluating
  <2> QED BY <1>3, <2>1, <2>2, Aims
<1>4. ASSUME ap'.at # "idle" PROVE rows'[ap'.id].status \notin {"manual", "deleted"}
  <2>1. CASE ap.at # "idle" /\ ap'.id = ap.id
    BY <1>2, <2>1
  <2>2. CASE ap'.id \in DOMAIN rows /\ Reverts(ap'.id) /\ rows' = rows
    BY <2>2 DEF Reverts
  <2> QED BY <1>4, <2>1, <2>2, Aims
<1> QED BY <1>3, <1>4 DEF NotManual

\* A rollback takes the newest row of its setting, and nobody adds one while it has the
\* lock.
LEMMA RestoringStep ==
  ASSUME TypeOK, TInv, [Next]_vars
  PROVE  Restoring'
<1>1. NotManual /\ Restoring /\ LockHeld
  BY DEF TInv, Hands, IInv, Serial
<1>2. ASSUME NEW t \in {ju, ap}, t.at # "idle", Leads(rows, t.id), Steady(rows, rows')
      PROVE  Leads(rows', t.id)
  <2>1. t.id \in DOMAIN rows
    BY <1>2 DEF TypeOK, RbOK
  <2> QED BY <1>2, <2>1 DEF Steady, Leads
<1>3. ASSUME NEW t \in {ju, ap}, t.at # "idle", Current(t.id)
      PROVE  Leads(rows, t.id)
  <2>1. t.id \in Ids(rows[t.id].key) /\ Ids(rows[t.id].key) \subseteq DOMAIN rows
    BY <1>1, <1>3 DEF NotManual, TypeOK, RbOK, Ids
  <2>2. t.id = Newest(Ids(rows[t.id].key))
    BY <1>3 DEF Current
  <2>3. \A j \in Ids(rows[t.id].key) : j <= t.id
    BY <2>1, <2>2, OldestNewest
  <2> QED BY <2>3 DEF Leads, Ids
<1>4. ASSUME NEW t \in {ju, ap}, t.at = "restore"
      PROVE  Steady(rows, rows')
  <2>1. ~(PrRecords \/ OwInserts \/ OwUndoes)
    BY <1>1, <1>4 DEF LockHeld, PrRecords, OwInserts, OwUndoes
  <2> QED BY <1>1, <2>1, SteadyRows
<1>5. ju'.at = "restore" => (ju' = ju \/ (RbTakes("ju", ju, ju') /\ Current(ju.id) /\ ju'.id = ju.id))
  <2>1. CASE ju' = RbIdle
    BY <2>1 DEF RbIdle
  <2>2. CASE RbTakes("ju", ju, ju')
    BY <2>2 DEF RbTakes, Refused, TypeOK, RbOK
  <2>3. CASE ju' # RbIdle /\ (JuStarts \/ JuReverts \/ JuKeeps \/ RbRestores(ju, ju'))
    BY <2>3 DEF JuStarts, JuReverts, JuKeeps, RbRestores, Refused, TypeOK, RbOK
  <2> QED BY <2>1, <2>2, <2>3
       DEF Next, PrTakes, OwBegins, ApBegins, Propose, PrRechecks, PrWrites, PrRecords, PrRecordFails, OwnerWrite, OwWrites,
       OwHook, OwHookFails, OwInserts, OwSupersedes, OwEnds, OwUndo, OwUndoes, ApRollback, JuRollback, Rollback, RbMarks, Judge, JuBusy,
       JuReverts, JuWaits, JuDefers, JuKeeps, JuKept, JuCloses, Tick, Leave, Return, Crash, vars, threads
<1>6. ap'.at = "restore" => (ap' = ap \/ (RbTakes("ap", ap, ap') /\ Current(ap.id) /\ ap'.id = ap.id))
  <2>1. CASE ap' = RbIdle
    BY <2>1 DEF RbIdle
  <2>2. CASE RbTakes("ap", ap, ap')
    BY <2>2 DEF RbTakes, Refused, RbIdle, TypeOK, RbOK
  <2>3. CASE ap' # RbIdle /\ RbRestores(ap, ap')
    BY <2>3 DEF RbRestores, TypeOK, RbOK
  <2>4. CASE \E i \in DOMAIN rows : ApBegins(i)
    BY <2>4 DEF ApBegins
  <2> QED BY <2>1, <2>2, <2>3, <2>4
       DEF Next, PrTakes, OwBegins, Propose, PrRechecks, PrWrites, PrRecords, PrRecordFails, OwnerWrite, OwWrites,
       OwHook, OwHookFails, OwInserts, OwSupersedes, OwEnds, OwUndo, OwUndoes, ApRollback, JuRollback, Rollback, RbMarks, Judge, JuBusy,
       JuStarts, JuReverts, JuWaits, JuDefers, JuKeeps, JuKept, JuCloses, Tick, Leave, Return, Crash, vars, threads
<1>7. ASSUME NEW t \in {ju, ap}, t.at = "restore" \/ (t.at = "take" /\ Current(t.id) /\ rows' = rows)
      PROVE  Leads(rows', t.id)
  <2>1. CASE t.at = "restore"
    <3>1. Steady(rows, rows') /\ Leads(rows, t.id)
      BY <1>1, <1>4, <2>1 DEF Restoring
    <3> QED BY <1>2, <2>1, <3>1
  <2>2. CASE t.at = "take" /\ Current(t.id) /\ rows' = rows
    BY <1>3, <2>2
  <2> QED BY <1>7, <2>1, <2>2
<1>8. ASSUME ju'.at = "restore" PROVE Leads(rows', ju'.id)
  <2>1. CASE ju' = ju
    BY <1>7, <1>8, <2>1
  <2>2. CASE RbTakes("ju", ju, ju') /\ Current(ju.id) /\ ju'.id = ju.id
    BY <1>7, <2>2 DEF RbTakes
  <2> QED BY <1>5, <1>8, <2>1, <2>2
<1>9. ASSUME ap'.at = "restore" PROVE Leads(rows', ap'.id)
  <2>1. CASE ap' = ap
    BY <1>7, <1>9, <2>1
  <2>2. CASE RbTakes("ap", ap, ap') /\ Current(ap.id) /\ ap'.id = ap.id
    BY <1>7, <2>2 DEF RbTakes
  <2> QED BY <1>6, <1>9, <2>1, <2>2
<1> QED BY <1>8, <1>9 DEF Restoring

\* What the ledger has lost track of stays lost.
LEMMA ExposedGrows ==
  ASSUME [Next]_vars
  PROVE  exposed \subseteq exposed'
BY DEF Next, PrTakes, OwBegins, ApBegins, Propose, PrRechecks, PrWrites, PrRecords, PrRecordFails, OwnerWrite, OwWrites,
   OwHook, OwHookFails, OwInserts, OwSupersedes, OwEnds, OwUndo, OwUndoes, ApRollback, JuRollback, Rollback, RbTakes, RbRestores, RbMarks,
   Judge, JuBusy, JuStarts, JuReverts, JuWaits, JuDefers, JuKeeps, JuKept, JuCloses, Tick, Leave, Return, Crash, vars,
   threads, history

\* Where the drift is measured from is what the owner decided.
LEMMA ReferenceIs ==
  ASSUME TypeOK, NEW k \in Keys, NEW w, Anchored(rows, Ids(k), value[k], w)
  PROVE  Reference(k) = w
<1> DEFINE S == Ids(k)
           manual == {i \in S : rows[i].status = "manual"}
<1>1. /\ \A i \in manual : (\A j \in manual : j <= i) => rows[i].new = w
      /\ manual = {} => \A i \in S : (\A j \in S : i <= j) => rows[i].old = w
      /\ S = {} => value[k] = w
  BY Zenon DEF Anchored
<1>2. Manuals(k) = manual /\ manual \subseteq S /\ S \subseteq DOMAIN rows
  BY DEF Manuals, Ids
<1> HIDE DEF S, manual
<1>3. CASE manual # {}
  <2>1. Newest(manual) \in manual /\ \A j \in manual : j <= Newest(manual)
    BY <1>2, <1>3, OldestNewest
  <2> QED BY <1>1, <1>2, <1>3, <2>1 DEF Reference
<1>4. CASE manual = {} /\ S # {}
  <2>1. Oldest(S) \in S /\ \A j \in S : Oldest(S) <= j
    BY <1>2, <1>4, OldestNewest
  <2> QED BY <1>1, <1>2, <1>4, <2>1 DEF Reference, S
<1>5. CASE manual = {} /\ S = {}
  BY <1>1, <1>2, <1>5 DEF Reference, S
<1> QED BY <1>3, <1>4, <1>5

\* A proposal has the lock: nobody else's step under the lock comes in between.
LEMMA PrAlone ==
  ASSUME LockHeld, pr.at # "idle"
  PROVE  ~(OwHook \/ OwHookFails \/ OwInserts \/ OwSupersedes \/ OwUndoes \/ RbRestores(ju, ju') \/ RbRestores(ap, ap')
           \/ RbTakes("ju", ju, ju') \/ RbTakes("ap", ap, ap'))
BY DEF LockHeld, OwHook, OwHookFails, OwInserts, OwSupersedes, OwUndoes, RbRestores, RbTakes

\* A proposal knows the value it found, or has written.
LEMMA PrValueStep ==
  ASSUME TypeOK, TInv, [Next]_vars
  PROVE  PrValue'
<1>1. PrValue /\ OwValue /\ LockHeld /\ OnRecord /\ exposed \subseteq exposed'
  BY ExposedGrows DEF TInv, Hands, IInv, Serial
<1> SUFFICES ASSUME pr'.at # "idle", pr'.key \notin exposed', ~OwPend(pr.key)'
             PROVE  /\ pr'.at = "write" => value'[pr'.key] = pr'.cur
                    /\ pr'.at = "record" => value'[pr'.key] = pr'.new
                    /\ Near(pr'.new, owned'[pr'.key].value)
  BY DEF PrValue
<1>2. CASE \E k \in Keys, v \in Values : PrTakes(k, v)
  <2>1. PICK k \in Keys, v \in Values : PrTakes(k, v)
    BY <1>2
  <2>2. pr' = [at |-> "recheck", key |-> k, new |-> v, cur |-> value[k]] /\ Distance(v, Reference(k)) <= Cap /\ pr.at = "idle"
        /\ ow' = ow /\ owned' = owned
    BY <2>1 DEF PrTakes, Admits, threads, history
  <2>3. k \in Keys \ exposed /\ ~OwPend(k)
    BY <1>1, <2>2 DEF OwPend
  <2>4. Anchored(rows, Ids(k), value[k], owned[k].value)
    BY <1>1, <2>2, <2>3 DEF OnRecord, Accounts, Settled, PrPend
  <2>5. Reference(k) = owned[k].value
    BY <2>4, ReferenceIs
  <2> QED BY <2>2, <2>5 DEF Near
<1>3. CASE PrRechecks
  <2>1. pr' # PrIdle
    BY DEF PrIdle
  <2>2. value[pr.key] = pr.cur /\ pr' = [pr EXCEPT !.at = "write"] /\ UNCHANGED <<value, ow, owned, exposed>>
    BY <1>3, <2>1 DEF PrRechecks, history
  <2>3. pr'.key = pr.key /\ pr'.new = pr.new /\ pr'.cur = pr.cur /\ pr'.at = "write" /\ pr.at # "idle"
    BY <1>3, <2>2 DEF PrRechecks, TypeOK, PrOK
  <2>4. Near(pr.new, owned[pr.key].value)
    BY <1>1, <2>2, <2>3 DEF PrValue, OwPend
  <2> QED BY <2>2, <2>3, <2>4
<1>4. CASE PrWrites
  <2>1. /\ pr'.key = pr.key /\ pr'.new = pr.new /\ pr'.at = "record" /\ pr.at # "idle" /\ pr.key \in Keys
        /\ value' = [value EXCEPT ![pr.key] = pr.new] /\ owned' = owned /\ exposed' = exposed /\ ow' = Meets(pr.key)
    BY <1>4 DEF PrWrites, TypeOK, PrOK, history
  <2>2. value'[pr.key] = pr.new
    BY <2>1 DEF TypeOK, SettingsOK
  <2>3. ~OwPend(pr.key)
    BY <2>1, MeetsFields DEF OwPend
  <2>4. Near(pr.new, owned[pr.key].value)
    BY <1>1, <2>1, <2>3 DEF PrValue
  <2> QED BY <2>1, <2>2, <2>4
<1>5. CASE pr' = PrIdle
  BY <1>5 DEF PrIdle
<1>6. ASSUME pr' = pr, value'[pr.key] = value[pr.key], owned'[pr.key].value = owned[pr.key].value, ~OwPend(pr.key)
      PROVE  /\ pr'.at = "write" => value'[pr'.key] = pr'.cur
             /\ pr'.at = "record" => value'[pr'.key] = pr'.new
             /\ Near(pr'.new, owned'[pr'.key].value)
  BY <1>1, <1>6 DEF PrValue
<1>7. CASE pr' = pr /\ NoWrite
  BY <1>6, <1>7 DEF NoWrite, OwPend
<1>8. CASE pr' = pr /\ OwWrites
  <2>1. /\ ow.at = "write" /\ value' = [value EXCEPT ![ow.key] = ow.new]
        /\ ow'.key = ow.key /\ ow'.at \in {"hook", "done"} /\ (ow'.at = "done" => ow.new = ow.prev)
        /\ ow'.at = "done" => owned' = owned /\ (ow.met => ow.key \in exposed')
        /\ ow'.at = "hook" => owned' = [owned EXCEPT ![ow.key].value = ow.new]
    BY <1>8 DEF OwWrites, TypeOK, OwOK
  <2>2. ow.key # pr.key => value'[pr.key] = value[pr.key] /\ owned'[pr.key] = owned[pr.key]
    <3>1. pr.key \in Keys
      BY <1>8 DEF TypeOK, PrOK
    <3> QED BY <2>1, <3>1, OwFacts
  <2>3. ow.key = pr.key => value'[pr.key] = value[pr.key] /\ owned' = owned
    <3>1. ASSUME ow.key = pr.key PROVE ow'.at = "done" /\ ~ow.met
      BY <1>8, <2>1, <3>1 DEF OwPend
    <3>2. ASSUME ow.key = pr.key PROVE value[ow.key] = ow.prev
      BY <1>1, <2>1, <3>1, <3>2 DEF OwValue
    <3> QED BY <2>1, <3>1, <3>2, OwFacts
  <2>4. ~OwPend(pr.key)
    BY <2>1 DEF OwPend
  <2> QED BY <1>6, <1>8, <2>2, <2>3, <2>4
<1>9. CASE pr' = pr /\ (OwEnds \/ \E k \in Keys, v \in Values, b \in BOOLEAN : OwBegins(k, v, b))
  <2>1. ow.at \in {"idle", "done"} /\ UNCHANGED <<value, owned>>
    BY <1>9 DEF OwEnds, OwBegins, history
  <2> QED BY <1>6, <1>9, <2>1 DEF OwPend
<1>10. CASE pr' = pr /\ OwUndo
  <2>1. ow'.at = "undo" /\ ow'.key = ow.key /\ ow.at = "done" /\ value' = [value EXCEPT ![ow.key] = ow.prev] /\ owned' = owned
    BY <1>10 DEF OwUndo, TypeOK, OwOK, history
  <2>2. ow.key # pr.key
    BY <1>10, <2>1 DEF OwPend
  <2> QED BY <1>6, <1>10, <2>1, <2>2, OwFacts DEF OwPend
<1>11. CASE pr' = pr /\ (OwHook \/ OwHookFails \/ OwInserts \/ OwSupersedes \/ OwUndoes \/ RbRestores(ju, ju') \/ RbRestores(ap, ap'))
  BY <1>1, <1>11, PrAlone
<1>12. \/ pr' = pr
       \/ pr' = PrIdle
       \/ PrRechecks \/ PrWrites \/ \E k \in Keys, v \in Values : PrTakes(k, v)
  BY DEF Next, OwBegins, ApBegins, Propose, PrRecords, PrRecordFails, OwnerWrite, OwWrites,
   OwHook, OwHookFails, OwInserts, OwSupersedes, OwEnds, OwUndo, OwUndoes, ApRollback, JuRollback, Rollback, RbTakes, RbRestores, RbMarks,
   Judge, JuBusy, JuStarts, JuReverts, JuWaits, JuDefers, JuKeeps, JuKept, JuCloses, Tick, Leave, Return, Crash, vars,
   threads
<1>13. CASE pr' = pr /\ (PrWrites \/ PrRecordFails \/ Crash)
  <2>1. CASE PrRecordFails \/ Crash
    BY <1>5, <2>1 DEF PrRecordFails, Crash
  <2> QED BY <1>4, <1>13, <2>1
<1> QED BY <1>2, <1>3, <1>4, <1>5, <1>7, <1>8, <1>9, <1>10, <1>11, <1>12, <1>13, Writers DEF OwnerWrite

\* The rows that the owner's freezes are in.
LEMMA FrozenKept ==
  ASSUME NEW led, NEW led2, NEW S, NEW S2, NEW until, FrozenBy(led, S, until),
         \A i \in S : led[i].status = "manual" => i \in S2 /\ led2[i] = led[i]
  PROVE  FrozenBy(led2, S2, until)
BY DEF FrozenBy

\* Only the owner decides how long a setting is frozen.
LEMMA Deciders ==
  ASSUME TypeOK, [Next]_vars, ~(OwInserts \/ OwUndoes)
  PROVE  \A k \in Keys : owned'[k].until = owned[k].until
<1>1. CASE owned' = owned
  BY <1>1
<1>2. CASE OwWrites /\ owned' = [owned EXCEPT ![ow.key].value = ow.new]
  BY <1>2, OwFacts
<1> QED BY <1>1, <1>2
     DEF Next, PrTakes, OwBegins, ApBegins, Propose, PrRechecks, PrWrites, PrRecords, PrRecordFails, OwnerWrite, OwWrites,
     OwHook, OwHookFails, OwSupersedes, OwEnds, OwUndo, ApRollback, JuRollback, Rollback, RbTakes, RbRestores, RbMarks,
     Judge, JuBusy, JuStarts, JuReverts, JuWaits, JuDefers, JuKeeps, JuKept, JuCloses, Tick, Leave, Return, Crash, vars,
     threads, history

\* What the owner's call keeps of itself while it goes on.
LEMMA OwGoesOn ==
  ASSUME TypeOK, IInv, [Next]_vars, ow'.at # "idle", ~(\E k \in Keys, v \in Values, b \in BOOLEAN : OwBegins(k, v, b))
  PROVE  /\ ow.at # "idle" /\ ow'.key = ow.key /\ ow'.prev = ow.prev /\ ow'.was = ow.was /\ (ow.met => ow'.met)
         /\ ~OwInserts => ow'.row = ow.row
<1>1. CASE NoWrite
  BY <1>1 DEF NoWrite
<1>2. CASE PrWrites \/ PrRecordFails \/ RbRestores(ju, ju') \/ RbRestores(ap, ap')
  <2>1. PICK k \in Keys : ow' = Meets(k)
    BY <1>2, Foreign
  <2> QED BY <2>1, MeetsFields DEF TypeOK, OwOK
<1>3. CASE ow' = OwIdle
  BY <1>3 DEF OwIdle
<1>4. CASE OwWrites \/ OwHook \/ OwHookFails \/ OwInserts \/ OwSupersedes \/ OwUndo
  BY <1>4, ZenonT(40) DEF OwWrites, OwHook, OwHookFails, OwInserts, OwSupersedes, OwUndo, TypeOK, OwOK
<1> QED BY <1>1, <1>2, <1>3, <1>4, Writers DEF OwnerWrite, OwEnds, OwUndoes, Crash

\* The undoing of a batch that is accounted for removes the row of this write, and no
\* other.
LEMMA UndoneRow ==
  ASSUME TypeOK, OwUndoes, ow.key \notin exposed'
  PROVE  /\ Undone \subseteq {ow.row} /\ ~ow.met
         /\ DOMAIN rows' = DOMAIN rows
         /\ \A i \in DOMAIN rows : i \notin Undone /\ rows[i].status # "superseded_manual" => rows'[i] = rows[i]
<1>1. Undone \ {ow.row} = {} /\ ~ow.met
  <2>1. exposed' = IF Undone \ {ow.row} # {} \/ ow.met THEN exposed \cup {ow.key} ELSE exposed
    BY DEF OwUndoes
  <2> QED BY <2>1, Zenon
<1>2. Undone \subseteq {ow.row} /\ ~ow.met
  BY <1>1, Zenon
<1>3. \A i \in Reopened : rows[i].status = "superseded_manual"
  BY DEF Reopened
<1> QED BY <1>2, <1>3 DEF OwUndoes

\* The undoing of a batch leaves the rows of other settings.
LEMMA OtherRows ==
  ASSUME TypeOK, OwUndoes
  PROVE  \A i \in DOMAIN rows : rows[i].key # ow.key => rows'[i] = rows[i]
<1>1. \A i \in Undone \cup Reopened : rows[i].key = ow.key
  BY DEF Undone, Reopened, Manuals, Ids
<1> QED BY <1>1 DEF OwUndoes

\* A proposal at work has just begun or goes on, and no day passes meanwhile.
LEMMA PrGoesOn ==
  ASSUME TypeOK, [Next]_vars, pr'.at # "idle"
  PROVE  \/ \E k \in Keys, v \in Values : PrTakes(k, v)
         \/ pr.at # "idle" /\ pr'.key = pr.key /\ day' = day
<1>1. CASE pr' = PrIdle
  BY <1>1 DEF PrIdle
<1>2. CASE pr' # PrIdle /\ (PrRechecks \/ PrWrites)
  BY <1>2 DEF PrRechecks, PrWrites, TypeOK, PrOK
<1>3. CASE pr' = pr /\ day' = day
  BY <1>3
<1>4. CASE Tick
  BY <1>4 DEF Tick, Idle, threads
<1> QED BY <1>1, <1>2, <1>3, <1>4
     DEF Next, OwBegins, ApBegins, Propose, PrRecords, PrRecordFails, OwnerWrite, OwWrites,
     OwHook, OwHookFails, OwInserts, OwSupersedes, OwEnds, OwUndo, OwUndoes, ApRollback, JuRollback, Rollback, RbTakes, RbRestores,
     RbMarks, Judge, JuBusy, JuStarts, JuReverts, JuWaits, JuDefers, JuKeeps, JuKept, JuCloses, Leave, Return,
     Crash, vars, threads, PrRechecks

\* The owner's freezes stay in the ledger, and keep proposals out.
LEMMA FreezeStep ==
  ASSUME TypeOK, TInv, [Next]_vars
  PROVE  FreezeTold'
<1>1. FreezeTold /\ NotManual /\ OwRow /\ LockHeld /\ IInv /\ exposed \subseteq exposed'
  BY ExposedGrows DEF TInv, Hands, IInv, Serial
\* Rows that are the owner's stay, but for the one undone.
<1>2. ASSUME ~OwUndoes
      PROVE  \A k : \A i \in Ids(k) : rows[i].status = "manual" => i \in Ids(k)' /\ rows'[i] = rows[i]
  <2>1. CASE PrRecords \/ OwInserts
    <3>1. PICK r \in LedgerRow : rows' = Append(rows, r)
      BY <2>1, WrittenRows DEF PrRecords, OwInserts
    <3>2. DOMAIN rows \subseteq DOMAIN rows' /\ \A i \in DOMAIN rows : rows'[i] = rows[i]
      BY <3>1, NewRow
    <3> QED BY <3>2 DEF Ids
  <2>2. CASE ~(PrRecords \/ OwInserts)
    <3>1. Steady(rows, rows')
      BY <1>1, <1>2, <2>2, SteadyRows
    <3> QED BY <3>1 DEF Steady, Ids
  <2> QED BY <2>1, <2>2
<1>3. ASSUME NEW k \in Keys \ exposed'
      PROVE  FrozenBy(rows', Ids(k)', owned'[k].until)
  <2>1. k \in Keys \ exposed /\ FrozenBy(rows, Ids(k), owned[k].until)
    BY <1>1, <1>3 DEF FreezeTold
  <2>2. CASE OwInserts
    <3> DEFINE r == Row(ow.key, ow.prev, ow.new, "manual", ManualUntil, ow.batch)
    <3>1. rows' = Append(rows, r) /\ r \in LedgerRow
      BY <2>2, WrittenRows DEF OwInserts
    <3>2. r.status = "manual" /\ r.key = ow.key /\ r.frozen = Until(ManualFreeze)
      BY DEF Row, ManualUntil
    <3>3. owned' = [owned EXCEPT ![ow.key].until = Until(ManualFreeze)] /\ ow.key \in Keys
      BY <2>2, OwFacts DEF OwInserts
    <3> HIDE DEF r
    <3>4. Len(rows) + 1 \in DOMAIN rows' /\ rows'[Len(rows) + 1] = r
      BY <3>1, NewRow
    <3>5. CASE k = ow.key
      <4>1. owned'[k].until = Until(ManualFreeze) /\ Until(ManualFreeze) \in Nat
        BY <3>3, <3>5, OwFacts, TuneAssumption DEF Until, TypeOK, SettingsOK
      <4>2. Len(rows) + 1 \in Ids(k)'
        BY <3>2, <3>4, <3>5 DEF Ids
      <4> QED BY <3>2, <3>4, <4>1, <4>2 DEF FrozenBy
    <3>6. CASE k # ow.key
      <4>1. owned'[k] = owned[k]
        BY <3>3, <3>6, OwFacts
      <4>2. \A i \in Ids(k) : rows[i].status = "manual" => i \in Ids(k)' /\ rows'[i] = rows[i]
        BY <1>2, <2>2 DEF OwInserts, OwUndoes
      <4> QED BY <2>1, <4>1, <4>2, FrozenKept
    <3> QED BY <3>5, <3>6
  <2>3. CASE OwUndoes /\ k = ow.key
    <3>1. owned'[k] = ow.was
      BY <2>3, OwFacts DEF OwUndoes
    <3>2. FrozenBy(rows, Older, ow.was.until)
      BY <1>1, <2>1, <2>3 DEF FreezeTold, OwUndoes
    <3>3. \A i \in Older : rows[i].status = "manual" => i \in Ids(k)' /\ rows'[i] = rows[i]
      BY <1>3, <2>3, UndoneRow DEF Older, Ids
    <3> QED BY <3>1, <3>2, <3>3, FrozenKept
  <2>4. CASE OwUndoes /\ k # ow.key
    <3>1. owned'[k] = owned[k]
      BY <2>4, OwFacts DEF OwUndoes
    <3>2. \A i \in Ids(k) : rows[i].status = "manual" => i \in Ids(k)' /\ rows'[i] = rows[i]
      BY <2>4, OtherRows DEF Ids, OwUndoes
    <3> QED BY <2>1, <3>1, <3>2, FrozenKept
  <2>5. CASE ~(OwInserts \/ OwUndoes)
    <3>1. owned'[k].until = owned[k].until
      BY <2>5, Deciders
    <3>2. \A i \in Ids(k) : rows[i].status = "manual" => i \in Ids(k)' /\ rows'[i] = rows[i]
      BY <1>2, <2>5
    <3> QED BY <2>1, <3>1, <3>2, FrozenKept
  <2> QED BY <2>2, <2>3, <2>4, <2>5
<1>4. ASSUME ow'.at # "idle", ow'.key \notin exposed'
      PROVE  FrozenBy(rows', Older', ow'.was.until)
  <2>1. ~OwUndoes
    <3>1. OwUndoes => ow' = OwIdle
      BY DEF OwUndoes
    <3>2. OwIdle.at = "idle"
      BY DEF OwIdle
    <3> QED BY <1>4, <3>1, <3>2
  <2>2. CASE \E k \in Keys, v \in Values, b \in BOOLEAN : OwBegins(k, v, b)
    <3>1. PICK k \in Keys : ow'.key = k /\ ow'.was = owned[k] /\ ow'.row = 0 /\ rows' = rows /\ exposed' = exposed
      BY <2>2 DEF OwBegins, history
    <3>2. FrozenBy(rows, Ids(k), owned[k].until)
      BY <1>1, <1>4, <3>1 DEF FreezeTold
    <3>3. Older' = Ids(k)
      BY <3>1, LedgerFacts DEF Older, Ids
    <3> QED BY <3>1, <3>2, <3>3
  <2>3. CASE ~(\E k \in Keys, v \in Values, b \in BOOLEAN : OwBegins(k, v, b))
    <3>1. /\ ow.at # "idle" /\ ow'.key = ow.key /\ ow'.was = ow.was
          /\ ~OwInserts => ow'.row = ow.row
      BY <1>1, <1>4, <2>3, OwGoesOn
    <3>2. FrozenBy(rows, Older, ow.was.until)
      BY <1>1, <1>4, <3>1 DEF FreezeTold
    <3>3. \A i \in Older : rows[i].status = "manual" => i \in Ids(ow.key)' /\ rows'[i] = rows[i]
      <4>1. Older \subseteq Ids(ow.key)
        BY DEF Older
      <4>2. \A i \in Ids(ow.key) : rows[i].status = "manual" => i \in Ids(ow.key)' /\ rows'[i] = rows[i]
        <5>1. PICK k : k = ow.key
          OBVIOUS
        <5>2. \A i \in Ids(k) : rows[i].status = "manual" => i \in Ids(k)' /\ rows'[i] = rows[i]
          BY <1>2, <2>1
        <5> QED BY <3>1, <5>1, <5>2 DEF Ids
      <4> QED BY <4>1, <4>2
    <3>4. \A i \in Older : i # ow'.row
      <4>1. CASE OwInserts
        <5>1. ow'.row = Len(rows) + 1
          BY <4>1 DEF OwInserts, TypeOK, OwOK
        <5> QED BY <5>1, LedgerFacts DEF Older, Ids
      <4> QED BY <3>1, <4>1 DEF Older
    <3>5. Older' = Ids(ow.key)' \ {ow'.row}
      BY <3>1 DEF Older, Ids
    <3>6. \A i \in Older : rows[i].status = "manual" => i \in Older' /\ rows'[i] = rows[i]
      BY <3>3, <3>4, <3>5
    <3> QED BY <3>1, <3>2, <3>6, FrozenKept
  <2> QED BY <2>2, <2>3
<1>5. ASSUME pr'.at # "idle", pr'.key \notin exposed'
      PROVE  day' >= owned'[pr'.key].until
  <2>1. CASE \E k \in Keys, v \in Values : PrTakes(k, v)
    <3>1. PICK k \in Keys : /\ pr'.key = k /\ ~Frozen(k) /\ UNCHANGED <<day, owned, exposed>>
      BY <2>1 DEF PrTakes, Admits, history
    <3>2. FrozenBy(rows, Ids(k), owned[k].until)
      BY <1>1, <1>5, <3>1 DEF FreezeTold
    <3>3. day \in Nat /\ owned[k].until \in Nat /\ \A i \in Ids(k) : rows[i].frozen \in Nat
      BY LedgerFacts, OwFacts DEF TypeOK, SettingsOK, Ids
    <3> QED BY <3>1, <3>2, <3>3 DEF Frozen, FrozenBy
  <2>2. CASE pr.at # "idle" /\ pr'.key = pr.key /\ day' = day
    <3>1. ~(OwInserts \/ OwUndoes) /\ pr.key \in Keys
      BY <1>1, <2>2, PrAlone DEF TypeOK, PrOK
    <3>2. owned'[pr.key].until = owned[pr.key].until
      BY <3>1, Deciders
    <3> QED BY <1>1, <1>5, <2>2, <3>2 DEF FreezeTold
  <2> QED BY <1>5, <2>1, <2>2, PrGoesOn
<1> QED BY <1>3, <1>4, <1>5 DEF FreezeTold

----------------------------------------------------------------------------
(* The ledger accounts for the settings *)

\* An account outlives a step that leaves what the rows say, and whose decisions they are.
LEMMA AccountsKept ==
  ASSUME NEW led, NEW led2, NEW marks, NEW marks2, NEW S, NEW v, NEW w, Accounts(led, marks, S, v, w),
         \A i \in S : /\ led2[i].old = led[i].old /\ led2[i].new = led[i].new
                      /\ led2[i].status = "manual" <=> led[i].status = "manual"
                      /\ Says(led[i], i \in marks, v) => Says(led2[i], i \in marks2, v)
  PROVE  Accounts(led2, marks2, S, v, w)
BY ToldKept, AnchorKept DEF Accounts

\* What the owner's row has ended is under evaluation again; the rest of the row stays.
LEMMA BeforeRow ==
  ASSUME NEW led, NEW i \in DOMAIN led, led[i] \in LedgerRow, NEW row
  PROVE  /\ DOMAIN Before(led, row) = DOMAIN led
         /\ Before(led, row)[i].old = led[i].old /\ Before(led, row)[i].new = led[i].new
         /\ Before(led, row)[i].status = "manual" <=> led[i].status = "manual"
         /\ Before(led, row)[i].status = IF led[i].status = "superseded_manual" /\ led[i].by = row /\ row # 0
                                         THEN "evaluating" ELSE led[i].status
BY DEF Before, LedgerRow

\* The rows to be marked.
LEMMA MarksAre ==
  /\ \A i : i \in Marks <=> (ju.at = "mark" /\ ju.id = i) \/ (ap.at = "mark" /\ ap.id = i)
  /\ \A i : i \in Marks' <=> (ju'.at = "mark" /\ ju'.id = i) \/ (ap'.at = "mark" /\ ap'.id = i)
  /\ TypeOK => Marks \subseteq DOMAIN rows
BY DEF Marks, TypeOK, RbOK

\* What a rollback does to the setting, and then to its row, whoever asked for it.
Restores(t) ==
  /\ t.at = "restore"
  /\ value' = [value EXCEPT ![rows[t.id].key] = rows[t.id].old] /\ ow' = Meets(rows[t.id].key)
  /\ Marks' = Marks \cup {t.id}
  /\ UNCHANGED <<rows, pr, history>>
Settles(t) ==
  /\ t.at = "mark"
  /\ rows' = [Marked(t.id, "rolled_back") EXCEPT ![t.id].frozen = Until(RollbackFreeze)]
  /\ UNCHANGED <<value, ow, pr, history>>

\* A row is to be marked from the rollback's write to its mark.
LEMMA MarksStep ==
  ASSUME TypeOK, [Next]_vars
  PROVE  \/ Marks' = Marks
         \/ Crash /\ Marks' = {}
         \/ \E t \in {ju, ap} : Restores(t)
         \/ \E t \in {ju, ap} : Settles(t) /\ Marks \ {t.id} \subseteq Marks' /\ Marks' \subseteq Marks
<1>1. CASE Crash
  <2>1. ju'.at = "idle" /\ ap'.at = "idle"
    BY <1>1 DEF Crash, RbIdle
  <2>2. Marks' = {}
    BY <2>1 DEF Marks
  <2> QED BY <1>1, <2>2
<1>2. CASE (ju'.at = "mark" \/ ju.at = "mark" => ju' = ju) /\ (ap'.at = "mark" \/ ap.at = "mark" => ap' = ap)
  <2>1. \A i : i \in Marks' <=> i \in Marks
    BY <1>2, MarksAre
  <2> QED BY <2>1
<1>3. CASE RbRestores(ju, ju') /\ ap' = ap
  <2>1. ju.at = "restore" /\ ju'.at = "mark" /\ ju'.id = ju.id
    BY <1>3 DEF RbRestores, TypeOK, RbOK
  <2>2. \A i : i \in Marks' <=> i \in Marks \/ i = ju.id
    BY <1>3, <2>1, MarksAre
  <2>3. Marks' = Marks \cup {ju.id}
    BY <2>2
  <2>4. Restores(ju)
    BY <1>3, <2>1, <2>3 DEF RbRestores, Restores
  <2> QED BY <2>4
<1>4. CASE RbRestores(ap, ap') /\ ju' = ju
  <2>1. ap.at = "restore" /\ ap'.at = "mark" /\ ap'.id = ap.id
    BY <1>4 DEF RbRestores, TypeOK, RbOK
  <2>2. \A i : i \in Marks' <=> i \in Marks \/ i = ap.id
    BY <1>4, <2>1, MarksAre
  <2>3. Marks' = Marks \cup {ap.id}
    BY <2>2
  <2>4. Restores(ap)
    BY <1>4, <2>1, <2>3 DEF RbRestores, Restores
  <2> QED BY <2>4
<1>5. CASE RbMarks(ju, ju') /\ ap' = ap
  <2>1. ju.at = "mark" /\ ju'.at = "idle" /\ Settles(ju)
    BY <1>5 DEF RbMarks, Settles, RbIdle
  <2>2. \A i : (i \in Marks' => i \in Marks) /\ (i \in Marks => i \in Marks' \/ i = ju.id)
    BY <1>5, <2>1, MarksAre
  <2> QED BY <2>1, <2>2
<1>6. CASE RbMarks(ap, ap') /\ ju' = ju
  <2>1. ap.at = "mark" /\ ap'.at = "idle" /\ Settles(ap)
    BY <1>6 DEF RbMarks, Settles, RbIdle
  <2>2. \A i : (i \in Marks' => i \in Marks) /\ (i \in Marks => i \in Marks' \/ i = ap.id)
    BY <1>6, <2>1, MarksAre
  <2> QED BY <2>1, <2>2
<1>7. CASE /\ ap' = ap
           /\ \/ JuStarts \/ JuReverts \/ JuWaits \/ JuBusy \/ JuDefers \/ JuKeeps \/ JuKept \/ JuCloses
              \/ RbTakes("ju", ju, ju')
  <2>1. ju.at # "mark"
    BY <1>7 DEF JuStarts, JuReverts, JuWaits, JuBusy, JuDefers, JuKeeps, JuKept, JuCloses, RbTakes
  <2>2. \/ ju' \in {RbIdle, [ju EXCEPT !.at = "close"],
                      [ju EXCEPT !.at = "take"], [ju EXCEPT !.at = "keep"], [ju EXCEPT !.at = "restore"]}
        \/ ju'.at = "judge"
    BY <1>7 DEF JuStarts, JuReverts, JuWaits, JuBusy, JuDefers, JuKeeps, JuKept, JuCloses, RbTakes, Refused
  <2>3. ju'.at # "mark"
    BY <2>2 DEF TypeOK, RbOK, RbIdle
  <2> QED BY <1>2, <1>7, <2>1, <2>3
<1>8. CASE ju' = ju /\ (RbTakes("ap", ap, ap') \/ \E i \in DOMAIN rows : ApBegins(i))
  <2>1. ap.at # "mark"
    BY <1>8 DEF ApBegins, RbTakes
  <2>2. ap' \in {RbIdle, [ap EXCEPT !.at = "restore"]} \/ ap'.at = "take"
    BY <1>8 DEF ApBegins, RbTakes, Refused
  <2>3. ap'.at # "mark"
    BY <2>2 DEF TypeOK, RbOK, RbIdle
  <2> QED BY <1>2, <1>8, <2>1, <2>3
<1>9. \/ ju' = ju /\ ap' = ap
      \/ Crash
      \/ /\ ap' = ap
         /\ \/ JuStarts \/ JuReverts \/ JuWaits \/ JuBusy \/ JuDefers \/ JuKeeps \/ JuKept \/ JuCloses
            \/ RbTakes("ju", ju, ju') \/ RbRestores(ju, ju') \/ RbMarks(ju, ju')
      \/ /\ ju' = ju
         /\ \/ RbTakes("ap", ap, ap') \/ RbRestores(ap, ap') \/ RbMarks(ap, ap')
            \/ \E i \in DOMAIN rows : ApBegins(i)
  <2>1. JuStarts \/ JuReverts \/ JuWaits \/ JuBusy \/ JuDefers \/ JuKeeps \/ JuKept \/ JuCloses => ap' = ap
    BY DEF JuStarts, JuReverts, JuWaits, JuBusy, JuDefers, JuKeeps, JuKept, JuCloses
  <2>2. (\E i \in DOMAIN rows : ApBegins(i)) => ju' = ju
    BY DEF ApBegins
  <2> QED BY <2>1, <2>2
       DEF Next, PrTakes, OwBegins, Propose, PrRechecks, PrWrites, PrRecords, PrRecordFails, OwnerWrite, OwWrites,
       OwHook, OwHookFails, OwInserts, OwSupersedes, OwEnds, OwUndo, OwUndoes, ApRollback, JuRollback, Rollback, Judge, Tick, Leave, Return,
       vars, threads
<1> QED BY <1>1, <1>2, <1>3, <1>4, <1>5, <1>6, <1>7, <1>8, <1>9


\* A step that adds and removes no row leaves what each row says of its setting, if nothing
\* is lost; what the owner's row has ended, and could open again, included.
LEMMA SaysKept ==
  ASSUME TypeOK, NotManual, [Next]_vars, ~(PrRecords \/ OwInserts \/ OwUndoes),
         NEW row, NEW i \in DOMAIN rows, rows[i].key \notin exposed',
         \A t \in {ju, ap} : Restores(t) => t.id # i,
         NEW v, Says(Before(rows, row)[i], i \in Marks, v)
  PROVE  Says(Before(rows', row)[i], i \in Marks', v)
<1> DEFINE b  == Before(rows, row)[i]
           b2 == Before(rows', row)[i]
<1>1. rows[i] \in LedgerRow /\ Steady(rows, rows') /\ rows' \in Seq(LedgerRow)
  BY LedgerFacts, SteadyRows, TypeStep DEF TypeOK, RowsOK
<1>2. i \in DOMAIN rows' /\ rows'[i] \in LedgerRow
  <2>1. i \in DOMAIN rows'
    BY <1>1 DEF Steady
  <2> QED BY <1>1, <2>1, ElementOfSeq
<1>3. /\ b.old = rows[i].old /\ b.new = rows[i].new
      /\ b.status = IF rows[i].status = "superseded_manual" /\ rows[i].by = row /\ row # 0
                    THEN "evaluating" ELSE rows[i].status
  BY <1>1, BeforeRow
<1>4. /\ b2.old = rows[i].old /\ b2.new = rows[i].new
      /\ b2.status = IF rows'[i].status = "superseded_manual" /\ rows'[i].by = row /\ row # 0
                     THEN "evaluating" ELSE rows'[i].status
  <2>1. b2.old = rows'[i].old /\ b2.new = rows'[i].new
        /\ b2.status = IF rows'[i].status = "superseded_manual" /\ rows'[i].by = row /\ row # 0
                       THEN "evaluating" ELSE rows'[i].status
    BY <1>2, BeforeRow
  <2> QED BY <1>1, <2>1 DEF Steady
<1> SUFFICES Says(b2, i \in Marks', v)
  OBVIOUS
<1>5. Says(b, i \in Marks, v)
  OBVIOUS
<1> HIDE DEF b, b2
\* Where the row is to be marked all along, its status does not matter.
<1>6. CASE i \in Marks /\ i \in Marks'
  BY <1>3, <1>4, <1>5, <1>6 DEF Says
<1>7. ASSUME i \in Marks <=> i \in Marks',
             \/ rows'[i].status = rows[i].status /\ (rows'[i].by = rows[i].by \/ rows'[i].by = 0)
             \/ rows'[i].status = "superseded_manual" /\ rows[i].status = "evaluating"
             \/ rows'[i].status = "superseded_manual" /\ rows'[i].by = 0
             \/ rows'[i].status = "kept" /\ rows[i].status = "evaluating"
      PROVE  Says(b2, i \in Marks', v)
  BY <1>3, <1>4, <1>5, <1>7 DEF Says
<1>8. CASE \E t \in {ju, ap} : Restores(t)
  <2>1. (i \in Marks <=> i \in Marks') /\ rows' = rows
    BY <1>8 DEF Restores
  <2> QED BY <1>7, <2>1
<1>9. CASE \E t \in {ju, ap} : Settles(t) /\ Marks \ {t.id} \subseteq Marks' /\ Marks' \subseteq Marks
  <2>1. PICK t \in {ju, ap} : Settles(t) /\ Marks \ {t.id} \subseteq Marks' /\ Marks' \subseteq Marks
    BY <1>9
  <2>2. t.id \in DOMAIN rows
    BY <2>1 DEF Settles, TypeOK, RbOK
  <2>3. CASE i # t.id
    <3>1. rows'[i] = rows[i]
      BY <2>1, <2>2, <2>3 DEF Settles, Marked
    <3>2. i \in Marks <=> i \in Marks'
      BY <2>1, <2>3
    <3> QED BY <1>7, <3>1, <3>2
  <2>4. CASE i = t.id /\ i \notin Marks'
    <3>1. i \in Marks
      BY <2>1, <2>4, MarksAre DEF Settles
    <3>2. rows'[i].status = "rolled_back"
      <4>1. rows' = [[rows EXCEPT ![i].status = "rolled_back", ![i].by = 0] EXCEPT ![i].frozen = Until(RollbackFreeze)]
        BY <2>1, <2>4 DEF Settles, Marked
      <4> QED BY <1>1, <4>1 DEF LedgerRow
    <3> QED BY <1>3, <1>4, <1>5, <2>4, <3>1, <3>2 DEF Says
  <2> QED BY <1>6, <2>1, <2>3, <2>4
<1>10. CASE Crash /\ Marks' = {}
  <2>1. i \notin Marks
    <3>1. ASSUME i \in Marks PROVE rows[i].key \in Unrecorded
      BY <1>1, <3>1 DEF Marks, Unrecorded, LedgerRow
    <3>2. exposed' = exposed \cup Unrecorded
      BY <1>10 DEF Crash
    <3> QED BY <3>1, <3>2
  <2>2. rows' = rows
    BY <1>10 DEF Crash
  <2> QED BY <1>7, <1>10, <2>1, <2>2
<1>11. CASE Marks' = Marks
  <2>1. CASE rows' = rows
    BY <1>7, <1>11, <2>1
  <2>2. CASE JuBusy \/ JuDefers \/ JuKept \/ JuCloses
    <3>1. ju.id \in DOMAIN rows
      BY <2>2 DEF JuBusy, JuDefers, JuKept, JuCloses, TypeOK, RbOK
    <3>2. CASE i # ju.id
      <4>1. rows'[i] = rows[i]
        BY <2>2, <3>2 DEF JuBusy, JuDefers, JuKept, JuCloses, Marked
      <4> QED BY <1>7, <1>11, <4>1
    <3>3. CASE i = ju.id /\ (JuBusy \/ JuDefers)
      <4>1. PICK n : rows' = [rows EXCEPT ![i].deferred = n, ![i].by = 0]
        BY <3>3 DEF JuBusy, JuDefers
      <4>2. rows'[i].status = rows[i].status /\ rows'[i].by = 0
        BY <1>1, <4>1 DEF LedgerRow
      <4> QED BY <1>7, <1>11, <4>2
    <3>4. CASE i = ju.id /\ JuKept
      <4>1. rows' = [rows EXCEPT ![i].status = "kept", ![i].by = 0] /\ rows[i].status = "evaluating"
        BY <3>4 DEF JuKept, Marked
      <4>2. rows'[i].status = "kept"
        BY <1>1, <4>1 DEF LedgerRow
      <4> QED BY <1>7, <1>11, <4>1, <4>2
    <3>5. CASE i = ju.id /\ JuCloses
      <4>1. rows' = [rows EXCEPT ![i].status = "superseded_manual", ![i].by = 0]
        BY <3>5 DEF JuCloses, Marked
      <4>2. rows'[i].status = "superseded_manual" /\ rows'[i].by = 0
        BY <1>1, <4>1 DEF LedgerRow
      <4> QED BY <1>7, <1>11, <4>2
    <3> QED BY <2>2, <3>2, <3>3, <3>4, <3>5
  <2>3. CASE OwSupersedes
    <3>1. rows'[i] = IF i \in Superseded
                THEN [rows[i] EXCEPT !.status = "superseded_manual", !.by = ow.row] ELSE rows[i]
      BY <2>3 DEF OwSupersedes
    <3>2. i \in Superseded => rows[i].status = "evaluating"
      BY DEF Superseded, Evaluating
    <3>3. rows'[i] = rows[i] \/ (rows'[i].status = "superseded_manual" /\ rows[i].status = "evaluating")
      BY <1>1, <3>1, <3>2 DEF LedgerRow
    <3> QED BY <1>7, <1>11, <3>3
  <2>4. CASE RbMarks(ju, ju') \/ RbMarks(ap, ap')
    <3>1. PICK t \in {ju, ap} : Settles(t)
      BY <2>4 DEF RbMarks, Settles
    <3>2. t.id \in DOMAIN rows /\ t.id \in Marks
      BY <3>1, MarksAre DEF Settles, TypeOK, RbOK
    <3>3. i # t.id => rows'[i] = rows[i]
      BY <3>1, <3>2 DEF Settles, Marked
    <3> QED BY <1>6, <1>7, <1>11, <3>2, <3>3
  <2> QED BY <2>1, <2>2, <2>3, <2>4
     DEF Next, PrTakes, OwBegins, ApBegins, Propose, PrRechecks, PrWrites, PrRecordFails, OwnerWrite, OwWrites,
     OwHook, OwHookFails, OwEnds, OwUndo, ApRollback, JuRollback, Rollback, RbTakes, RbRestores, Judge, JuStarts, JuReverts,
     JuWaits, JuKeeps, Tick, Leave, Return, Crash, vars
<1> QED BY <1>8, <1>9, <1>10, <1>11, MarksStep

\* A proposal comes to its record by its write only, and leaves it by recording.
LEMMA Recording ==
  ASSUME TypeOK, [Next]_vars
  PROVE  \/ pr' = pr \/ (pr.at # "record" /\ pr'.at # "record") \/ PrRecords
         \/ PrWrites \/ PrRecordFails \/ Crash
<1>1. CASE PrRechecks \/ \E kk \in Keys, v \in Values : PrTakes(kk, v)
  <2>1. pr.at # "record"
    BY <1>1 DEF PrRechecks, PrTakes
  <2>2. pr' \in {PrIdle, [pr EXCEPT !.at = "write"]} \/ pr'.at = "recheck"
    BY <1>1 DEF PrRechecks, PrTakes
  <2>3. pr'.at # "record"
    BY <2>2 DEF PrIdle, TypeOK, PrOK
  <2> QED BY <2>1, <2>3
<1> QED BY <1>1 DEF Next, OwBegins, ApBegins, Propose, OwnerWrite, OwWrites,
     OwHook, OwHookFails, OwInserts, OwSupersedes, OwEnds, OwUndo, OwUndoes, ApRollback, JuRollback, Rollback, RbTakes, RbRestores, RbMarks,
     Judge, JuBusy, JuStarts, JuReverts, JuWaits, JuDefers, JuKeeps, JuKept, JuCloses, Tick, Leave, Return, vars,
     threads

\* A setting of which nothing new is to be told is where it was.
LEMMA SettledKept ==
  ASSUME TypeOK, TInv, [Next]_vars, NEW k \in Keys, k \notin exposed', ~OwPend(k)',
         ~(PrRecords /\ pr.key = k), ~((OwInserts \/ OwUndoes) /\ ow.key = k),
         \A t \in {ju, ap} : Restores(t) => rows[t.id].key # k
  PROVE  ~OwPend(k) /\ Settled(k)' = Settled(k) /\ owned'[k].value = owned[k].value
<1>1. OwValue /\ PrValue /\ LockHeld /\ IInv /\ exposed \subseteq exposed'
  BY ExposedGrows DEF TInv, Hands, IInv, Serial
<1>2. ASSUME pr' = pr \/ (pr.at # "record" /\ pr'.at # "record") \/ PrRecords, value'[k] = value[k]
      PROVE  Settled(k)' = Settled(k)
  <2>1. CASE pr' = pr
    BY <1>2, <2>1 DEF Settled, PrPend
  <2>2. CASE PrRecords
    <3>1. pr'.at = "idle"
      BY <2>2 DEF PrRecords, PrIdle
    <3> QED BY <1>2, <2>2, <3>1 DEF Settled, PrPend
  <2>3. CASE pr.at # "record" /\ pr'.at # "record"
    BY <1>2, <2>3 DEF Settled, PrPend
  <2> QED BY <1>2, <2>1, <2>2, <2>3
<1>3. \/ pr' = pr \/ (pr.at # "record" /\ pr'.at # "record") \/ PrRecords
      \/ PrWrites \/ PrRecordFails \/ Crash
  BY Recording
<1>4. CASE PrWrites
  <2>1. /\ pr.at = "write" /\ pr' = [pr EXCEPT !.at = "record"] /\ pr.key \in Keys /\ pr'.cur = pr.cur /\ pr'.key = pr.key
        /\ pr'.at = "record"
        /\ value' = [value EXCEPT ![pr.key] = pr.new] /\ owned' = owned /\ exposed' = exposed /\ ow' = Meets(pr.key)
    BY <1>4 DEF PrWrites, TypeOK, PrOK, history
  <2>2. ~OwPend(k)
    BY <2>1, MeetsFields DEF OwPend
  <2>3. CASE pr.key = k
    <3>1. value[k] = pr.cur
      BY <1>1, <2>1, <2>2, <2>3 DEF PrValue
    <3> QED BY <2>1, <2>2, <2>3, <3>1 DEF Settled, PrPend
  <2>4. CASE pr.key # k
    <3>1. value'[k] = value[k]
      BY <2>1, <2>4, OwFacts
    <3> QED BY <2>1, <2>2, <2>4, <3>1 DEF Settled, PrPend
  <2> QED BY <2>3, <2>4
<1>5. CASE PrRecordFails
  <2>1. /\ pr.at = "record" /\ pr' = PrIdle /\ pr.key \in Keys
        /\ value' = [value EXCEPT ![pr.key] = pr.cur] /\ owned' = owned /\ ow' = Meets(pr.key)
    BY <1>5 DEF PrRecordFails, TypeOK, PrOK, history
  <2>2. ~OwPend(k)
    BY <2>1, MeetsFields DEF OwPend
  <2>3. value'[k] = Settled(k) /\ pr'.at # "record"
    BY <2>1, OwFacts DEF Settled, PrPend, PrIdle
  <2> QED BY <2>1, <2>2, <2>3 DEF Settled, PrPend
<1>6. CASE Crash
  <2>1. k \notin Unrecorded /\ pr'.at # "record" /\ UNCHANGED <<value, owned>>
    BY <1>6 DEF Crash, PrIdle
  <2>2. ~OwPend(k) /\ ~PrPend(k)
    BY <2>1 DEF Unrecorded, OwPend, PrPend
  <2> QED BY <2>1, <2>2 DEF Settled, PrPend
<1>7. CASE NoWrite
  <2>1. ~PrWrites /\ ~PrRecordFails /\ ~Crash => Settled(k)' = Settled(k)
    BY <1>2, <1>3, <1>7 DEF NoWrite
  <2> QED BY <1>4, <1>5, <1>6, <1>7, <2>1 DEF NoWrite, OwPend
<1>8. CASE RbRestores(ju, ju') \/ RbRestores(ap, ap')
  <2>1. value'[k] = value[k] /\ owned' = owned /\ pr' = pr
    <3>1. owned' = owned /\ pr' = pr
      BY <1>8 DEF RbRestores, history
    <3>2. PICK t \in {ju, ap} : /\ t.at = "restore" /\ t.id \in Marks'
                                /\ value' = [value EXCEPT ![rows[t.id].key] = rows[t.id].old]
                                /\ ow' = Meets(rows[t.id].key) /\ UNCHANGED <<rows, pr, history>>
      <4>1. CASE RbRestores(ju, ju')
        <5>1. ju.at = "restore" /\ ju'.at = "mark" /\ ju'.id = ju.id
          BY <4>1 DEF RbRestores, TypeOK, RbOK
        <5> QED BY <4>1, <5>1, MarksAre DEF RbRestores
      <4>2. CASE RbRestores(ap, ap')
        <5>1. ap.at = "restore" /\ ap'.at = "mark" /\ ap'.id = ap.id
          BY <4>2 DEF RbRestores, TypeOK, RbOK
        <5> QED BY <4>2, <5>1, MarksAre DEF RbRestores
      <4> QED BY <1>8, <4>1, <4>2
    <3>3. ASSUME NEW u \in {ju, ap}, Restores(u) PROVE value'[k] = value[k]
      <4>1. u.id \in DOMAIN rows /\ rows[u.id].key # k /\ value' = [value EXCEPT ![rows[u.id].key] = rows[u.id].old]
        BY <3>3 DEF Restores, TypeOK, RbOK
      <4> QED BY <4>1, OwFacts
    <3>4. CASE Marks' = Marks
      <4>1. Restores(t)
        BY <3>2, <3>4 DEF Restores
      <4> QED BY <3>1, <3>3, <4>1
    <3>5. CASE Crash /\ Marks' = {}
      BY <3>2, <3>5
    <3>6. CASE \E u \in {ju, ap} : Settles(u)
      BY <3>1, <3>6 DEF Settles
    <3> QED BY <3>1, <3>3, <3>4, <3>5, <3>6, MarksStep
  <2>2. ow'.at = ow.at /\ ow'.key = ow.key
    BY <1>8, MeetsFields DEF RbRestores
  <2> QED BY <1>2, <2>1, <2>2 DEF OwPend
<1>9. CASE OwWrites
  <2>1. /\ ow.at = "write" /\ value' = [value EXCEPT ![ow.key] = ow.new] /\ pr' = pr
        /\ ow'.key = ow.key /\ ow'.at \in {"hook", "done"} /\ (ow'.at = "done" => ow.new = ow.prev)
        /\ ow'.at = "done" => owned' = owned /\ (ow.met => ow.key \in exposed')
        /\ ow'.at = "hook" => owned' = [owned EXCEPT ![ow.key].value = ow.new]
    BY <1>9 DEF OwWrites, TypeOK, OwOK
  <2>2. ow.key # k => value'[k] = value[k] /\ owned'[k] = owned[k]
    BY <2>1, OwFacts
  <2>3. ow.key = k => value'[k] = value[k] /\ owned' = owned
    <3>1. ASSUME ow.key = k PROVE ow'.at = "done" /\ ~ow.met
      BY <1>9, <2>1, <3>1 DEF OwPend
    <3>2. ASSUME ow.key = k PROVE value[ow.key] = ow.prev
      BY <1>1, <2>1, <3>1, <3>2 DEF OwValue
    <3> QED BY <2>1, <3>1, <3>2, OwFacts
  <2> QED BY <1>2, <2>1, <2>2, <2>3 DEF OwPend
<1>10. CASE OwHook
  <2>1. ow.at = "hook" /\ ow'.at = "insert" /\ ow'.key = ow.key /\ pr' = pr /\ owned' = owned
        /\ value' = [value EXCEPT ![ow.key] = ow.new]
    BY <1>10 DEF OwHook, Regained, TypeOK, OwOK, history
  <2>2. ow.key # k
    BY <2>1 DEF OwPend
  <2> QED BY <1>2, <2>1, <2>2, OwFacts DEF OwPend
<1>11. CASE OwUndo
  <2>1. ow.at = "done" /\ ow'.at = "undo" /\ ow'.key = ow.key /\ pr' = pr /\ owned' = owned
        /\ value' = [value EXCEPT ![ow.key] = ow.prev]
    BY <1>11 DEF OwUndo, TypeOK, OwOK, history
  <2>2. ow.key # k
    BY <2>1 DEF OwPend
  <2> QED BY <1>2, <2>1, <2>2, OwFacts DEF OwPend
<1>12. CASE OwSupersedes \/ OwEnds \/ \E kk \in Keys, v \in Values, b \in BOOLEAN : OwBegins(kk, v, b)
  <2>1. ow.at \in {"supersede", "done", "idle"} /\ pr' = pr /\ UNCHANGED <<value, owned>>
    BY <1>12 DEF OwSupersedes, OwEnds, OwBegins, history
  <2> QED BY <1>2, <2>1 DEF OwPend
<1>13. CASE OwInserts \/ OwUndoes
  <2>1. ow.key # k /\ pr' = pr /\ value' = value
    BY <1>13 DEF OwInserts, OwUndoes
  <2>2. owned'[k] = owned[k]
    BY <1>13, <2>1, OwFacts DEF OwInserts, OwUndoes
  <2> QED BY <1>2, <2>1, <2>2 DEF OwPend
<1>14. CASE OwHookFails
  <2>1. /\ ow.at \in {"insert", "supersede"} /\ pr' = pr /\ value' = value /\ owned' = owned
        /\ ow.at = "insert" => ow.key \in exposed'
    BY <1>14 DEF OwHookFails
  <2>2. ~OwPend(k)
    BY <2>1 DEF OwPend
  <2> QED BY <1>2, <2>1, <2>2
<1> QED BY <1>4, <1>5, <1>6, <1>7, <1>8, <1>9, <1>10, <1>11, <1>12, <1>13, <1>14, Writers DEF OwnerWrite

\* The undoing of a batch that is accounted for goes back to what was before the write.
LEMMA UndoneAll ==
  ASSUME TypeOK, OwValue, OwRow, OwUndoes, NEW k, k = ow.key, k \notin exposed'
  PROVE  /\ Ids(k)' = Older
         /\ \A i \in Older : /\ rows'[i].old = Before(rows, ow.row)[i].old /\ rows'[i].new = Before(rows, ow.row)[i].new
                             /\ rows'[i].status = Before(rows, ow.row)[i].status
<1>1. Undone \subseteq {ow.row} /\ ow.batch /\ Undone \subseteq Manuals(k)
  BY UndoneRow DEF OwUndoes, OwValue, Undone
<1>2. \A i \in DOMAIN rows : i # 0 /\ rows[i] \in LedgerRow
  BY LedgerFacts
<1>3. /\ DOMAIN rows' = DOMAIN rows
      /\ \A i \in DOMAIN rows : rows'[i] = IF i \in Undone THEN [rows[i] EXCEPT !.status = "deleted"]
                ELSE IF i \in Reopened
                     THEN [rows[i] EXCEPT !.status = "evaluating", !.by = 0, !.deferred = 0]
                     ELSE rows[i]
  BY DEF OwUndoes
<1>4. Older \subseteq Ids(k) /\ Ids(k) \subseteq DOMAIN rows /\ Manuals(k) \subseteq Ids(k)
  BY DEF Older, Ids, Manuals
\* It finds its own row, if there is one.
<1>5. CASE ow.row = 0
  <2>1. Undone = {}
    BY <1>1, <1>2, <1>4, <1>5
  <2>2. Reopened = {}
    BY <2>1 DEF Reopened
  <2>3. \A i \in DOMAIN rows : rows'[i] = rows[i]
    BY <1>3, <2>1, <2>2
  <2>4. Ids(k)' = Ids(k) /\ Older = Ids(k)
    BY <1>2, <1>3, <1>5, <2>3 DEF Ids, Older
  <2>5. \A i \in DOMAIN rows : Before(rows, ow.row)[i] = rows[i]
    BY <1>5 DEF Before
  <2> QED BY <1>4, <2>3, <2>4, <2>5
<1>6. CASE ow.row # 0
  <2> DEFINE T == {i \in Manuals(k) : rows[i].batch}
  <2>1. ow.row \in T /\ T \subseteq DOMAIN rows
    BY <1>1, <1>4, <1>6 DEF OwRow
  <2>2. Newest(T) \in T /\ \A j \in T : j <= Newest(T)
    BY <2>1, OldestNewest
  <2>3. Newest(T) \in Undone
    BY <2>2 DEF Undone
  <2>4. Undone = {ow.row}
    BY <1>1, <2>3
  <2>5. rows'[ow.row].status = "deleted"
    <3>1. ow.row \in DOMAIN rows /\ rows[ow.row] \in LedgerRow
      BY <1>2, <2>1
    <3> QED BY <1>3, <2>4, <3>1 DEF LedgerRow
  <2>6. ASSUME NEW i \in DOMAIN rows, i # ow.row, rows[i].key = k
        PROVE  /\ rows'[i].old = rows[i].old /\ rows'[i].new = rows[i].new /\ rows'[i].key = rows[i].key
               /\ rows'[i].status = IF rows[i].status = "superseded_manual" /\ rows[i].by = ow.row
                                    THEN "evaluating" ELSE rows[i].status
    <3>1. i \in Reopened <=> rows[i].status = "superseded_manual" /\ rows[i].by = ow.row
      BY <2>4, <2>6 DEF Reopened, Ids
    <3>2. rows'[i] = IF i \in Reopened
                     THEN [rows[i] EXCEPT !.status = "evaluating", !.by = 0, !.deferred = 0] ELSE rows[i]
      BY <1>3, <2>4, <2>6
    <3>3. rows[i] \in LedgerRow
      BY <1>2
    <3> QED BY <3>1, <3>2, <3>3 DEF LedgerRow
  <2>7. ASSUME NEW i PROVE i \in Ids(k)' <=> i \in Older
    <3>1. CASE i \in DOMAIN rows /\ rows[i].key = k /\ i # ow.row
      <4>1. rows'[i].key = k /\ (rows'[i].status = "deleted" <=> rows[i].status = "deleted")
        BY <2>6, <3>1
      <4> QED BY <1>3, <3>1, <4>1 DEF Ids, Older
    <3>2. CASE i = ow.row
      BY <2>5, <3>2 DEF Ids, Older
    <3>3. CASE i \in DOMAIN rows /\ rows[i].key # k
      <4>1. rows'[i] = rows[i]
        BY <3>3, OtherRows
      <4> QED BY <3>3, <4>1 DEF Ids, Older
    <3>4. CASE i \notin DOMAIN rows
      BY <1>3, <3>4 DEF Ids, Older
    <3> QED BY <3>1, <3>2, <3>3, <3>4
  <2>8. ASSUME NEW i \in Older
        PROVE  /\ rows'[i].old = Before(rows, ow.row)[i].old /\ rows'[i].new = Before(rows, ow.row)[i].new
               /\ rows'[i].status = Before(rows, ow.row)[i].status
    <3>1. i \in DOMAIN rows /\ i # ow.row /\ rows[i].key = k /\ rows[i] \in LedgerRow
      BY <1>2 DEF Older, Ids
    <3>2. /\ Before(rows, ow.row)[i].old = rows[i].old /\ Before(rows, ow.row)[i].new = rows[i].new
          /\ Before(rows, ow.row)[i].status = IF rows[i].status = "superseded_manual" /\ rows[i].by = ow.row /\ ow.row # 0
                                              THEN "evaluating" ELSE rows[i].status
      BY <3>1, BeforeRow
    <3> QED BY <1>6, <2>6, <3>1, <3>2
  <2>9. Ids(k)' = Older
    BY <2>7
  <2> QED BY <2>8, <2>9
<1> QED BY <1>5, <1>6

\* Restoring the newest row's old value is what the row, to be marked, then says.
LEMMA RestoredAccount ==
  ASSUME NEW led, NEW marks, NEW S, S \subseteq Nat, NEW i \in S, NEW v, NEW w, Accounts(led, marks, S, v, w),
         \A j \in S : j <= i, led[i].status # "manual"
  PROVE  Accounts(led, marks \cup {i}, S, led[i].old, w)
<1> DEFINE manual == {j \in S : led[j].status = "manual"}
<1>1. /\ \A j \in manual : (\A jj \in manual : jj <= j) => led[j].new = w
      /\ manual = {} => \A j \in S : (\A jj \in S : j <= jj) => led[j].old = w
      /\ \A j \in S : (\A jj \in manual : jj < j) => Near(led[j].old, w) /\ Near(led[j].new, w)
  BY Zenon DEF Accounts, Anchored
<1>2. \A j \in manual : j < i
  BY DEF manual
<1>3. Near(led[i].old, w)
  BY <1>1, <1>2
<1>4. \A j \in S : (\A jj \in S : jj <= j) => j = i
  OBVIOUS
<1>5. Told(led, marks \cup {i}, S, led[i].old)
  BY <1>4 DEF Told, Says
<1>6. Anchored(led, S, led[i].old, w)
  BY <1>1, <1>3, Zenon DEF Anchored
<1> QED BY <1>5, <1>6 DEF Accounts

\* A write of the owner, the undoing of one and a proposal touch the rows to be marked not.
LEMMA MarksStay ==
  ASSUME PrRecords \/ OwInserts \/ OwUndoes
  PROVE  Marks' = Marks
BY DEF PrRecords, OwInserts, OwUndoes, Marks

\* A setting that is accounted for, and of which nothing is added or undone, stays so.
LEMMA AccountStays ==
  ASSUME TypeOK, TInv, [Next]_vars, NEW k \in Keys, k \notin exposed', ~OwPend(k)',
         ~(PrRecords /\ pr.key = k), ~((OwInserts \/ OwUndoes) /\ ow.key = k),
         \A t \in {ju, ap} : Restores(t) => rows[t.id].key # k
  PROVE  Accounts(rows', Marks', Ids(k)', Settled(k)', owned'[k].value)
<1>1. NotManual /\ OnRecord /\ exposed \subseteq exposed'
  BY ExposedGrows DEF TInv, Hands
<1>2. ~OwPend(k) /\ Settled(k)' = Settled(k) /\ owned'[k].value = owned[k].value
  BY SettledKept
<1>3. Accounts(rows, Marks, Ids(k), Settled(k), owned[k].value)
  BY <1>1, <1>2 DEF OnRecord
<1>4. CASE PrRecords \/ OwInserts
  <2>1. PICK r \in LedgerRow : rows' = Append(rows, r) /\ r.key # k
    BY <1>4, WrittenRows DEF PrRecords, OwInserts, Row
  <2>2. /\ DOMAIN rows' = DOMAIN rows \cup {Len(rows) + 1} /\ rows'[Len(rows) + 1] = r
        /\ \A i \in DOMAIN rows : rows'[i] = rows[i]
    BY <2>1, NewRow
  <2>3. Ids(k)' = Ids(k) /\ \A i \in Ids(k) : rows'[i] = rows[i]
    BY <2>1, <2>2 DEF Ids
  <2>4. Marks' = Marks
    BY <1>4, MarksStay
  <2> QED BY <1>2, <1>3, <2>3, <2>4, AccountsKept
<1>5. CASE OwUndoes
  <2>1. DOMAIN rows' = DOMAIN rows
    BY <1>5 DEF OwUndoes
  <2>2. \A i \in DOMAIN rows : rows[i].key # ow.key => rows'[i] = rows[i]
    BY <1>5, OtherRows
  <2>3. \A i \in DOMAIN rows : rows'[i].key = rows[i].key
    <3>1. \A i \in DOMAIN rows : rows[i] \in LedgerRow
      BY LedgerFacts
    <3> QED BY <1>5, <3>1 DEF OwUndoes, LedgerRow
  <2>4. Ids(k)' = Ids(k) /\ \A i \in Ids(k) : rows'[i] = rows[i]
    BY <1>5, <2>1, <2>2, <2>3 DEF Ids
  <2>5. Marks' = Marks
    BY <1>5, MarksStay
  <2> QED BY <1>2, <1>3, <2>4, <2>5, AccountsKept
<1>6. CASE ~(PrRecords \/ OwInserts \/ OwUndoes)
  <2>1. Steady(rows, rows')
    BY <1>1, <1>6, SteadyRows
  <2>2. Ids(k)' = Ids(k) /\ \A i \in Ids(k) : i \in DOMAIN rows /\ i \in DOMAIN rows' /\ rows[i].key = k
    BY <2>1, SteadyIds DEF Ids, Steady
  <2>3. ASSUME NEW i \in Ids(k)
        PROVE  /\ rows'[i].old = rows[i].old /\ rows'[i].new = rows[i].new
               /\ rows'[i].status = "manual" <=> rows[i].status = "manual"
               /\ Says(rows[i], i \in Marks, Settled(k)) => Says(rows'[i], i \in Marks', Settled(k))
    <3>1. Before(rows, 0)[i] = rows[i] /\ Before(rows', 0)[i] = rows'[i]
      BY <2>2 DEF Before
    <3>2. \A t \in {ju, ap} : Restores(t) => t.id # i
      BY <2>2
    <3>3. Says(rows[i], i \in Marks, Settled(k)) => Says(rows'[i], i \in Marks', Settled(k))
      <4>1. ASSUME Says(Before(rows, 0)[i], i \in Marks, Settled(k)) PROVE Says(Before(rows', 0)[i], i \in Marks', Settled(k))
        BY <1>1, <1>6, <2>2, <3>2, <4>1, SaysKept
      <4> QED BY <3>1, <4>1
    <3> QED BY <2>1, <2>2, <3>3 DEF Steady
  <2> QED BY <1>2, <1>3, <2>2, <2>3, AccountsKept
<1> QED BY <1>4, <1>5, <1>6

\* Every setting that the ledger has not lost is accounted for.
LEMMA OnRecordStep ==
  ASSUME TypeOK, TInv, [Next]_vars
  PROVE  OnRecord'
<1>1. Hands /\ PrValue /\ OnRecord /\ OnRecordBefore /\ LockHeld /\ exposed \subseteq exposed'
  BY ExposedGrows DEF TInv, IInv, Serial
<1> SUFFICES ASSUME NEW k \in Keys \ exposed', ~OwPend(k)'
             PROVE  Accounts(rows', Marks', Ids(k)', Settled(k)', owned'[k].value)
  BY DEF OnRecord
<1>2. k \in Keys /\ k \notin exposed /\ Ids(k) \subseteq DOMAIN rows /\ Ids(k) \subseteq Nat
  BY <1>1, LedgerFacts DEF Ids
<1>3. CASE PrRecords /\ pr.key = k
  <2> DEFINE r == Row(k, pr.cur, pr.new, "evaluating", 0, FALSE)
             n == Len(rows) + 1
  <2>1. r \in LedgerRow /\ rows' = Append(rows, r) /\ pr.at = "record" /\ pr'.at = "idle" /\ UNCHANGED <<value, ow, owned>>
    BY <1>3, WrittenRows DEF PrRecords, PrIdle, history
  <2>2. r.key = k /\ r.old = pr.cur /\ r.new = pr.new /\ r.status = "evaluating"
    BY DEF Row
  <2> HIDE DEF r
  <2>3. /\ DOMAIN rows' = DOMAIN rows \cup {n} /\ rows'[n] = r /\ n \in Nat
        /\ \A i \in DOMAIN rows : rows'[i] = rows[i] /\ i < n /\ i # n
    BY <2>1, NewRow
  <2> HIDE DEF n
  <2>4. Ids(k)' = Ids(k) \cup {n}
    BY <2>2, <2>3 DEF Ids
  <2>5. ~OwPend(k) /\ value[k] = pr.new /\ Near(pr.new, owned[k].value)
    BY <1>1, <1>2, <1>3, <2>1 DEF OwPend, PrValue
  <2>6. Anchored(rows, Ids(k), pr.cur, owned[k].value)
    BY <1>1, <1>2, <1>3, <2>1, <2>5 DEF OnRecord, Accounts, Settled, PrPend
  <2>7. n \notin Marks /\ Marks' = Marks
    BY <1>3, <2>3, MarksAre, MarksStay
  <2>8. Told(rows', Marks, Ids(k) \cup {n}, rows'[n].new) /\ Anchored(rows', Ids(k) \cup {n}, rows'[n].new, owned[k].value)
    BY <1>2, <2>2, <2>3, <2>5, <2>6, <2>7, ProposedRow
  <2>9. Settled(k)' = rows'[n].new /\ owned' = owned
    BY <2>1, <2>2, <2>3, <2>5 DEF Settled, PrPend
  <2> QED BY <2>4, <2>7, <2>8, <2>9 DEF Accounts
<1>4. CASE OwInserts /\ ow.key = k
  <2> DEFINE r == Row(ow.key, ow.prev, ow.new, "manual", ManualUntil, ow.batch)
             n == Len(rows) + 1
  <2>1. r \in LedgerRow /\ rows' = Append(rows, r) /\ ow.at = "insert" /\ UNCHANGED <<value, pr>>
    BY <1>4, WrittenRows DEF OwInserts
  <2>2. r.key = k /\ r.new = ow.new /\ r.status = "manual" /\ ow.new \in Nat
    BY <1>4, <2>1, OwFacts DEF Row
  <2> HIDE DEF r
  <2>3. /\ DOMAIN rows' = DOMAIN rows \cup {n} /\ rows'[n] = r /\ n \in Nat
        /\ \A i \in DOMAIN rows : rows'[i] = rows[i] /\ i < n /\ i # n
    BY <2>1, NewRow
  <2> HIDE DEF n
  <2>4. Ids(k)' = Ids(k) \cup {n}
    BY <2>2, <2>3 DEF Ids
  <2>5. value[k] = ow.new /\ owned'[k].value = ow.new /\ pr.at = "idle"
    <3>1. owned' = [owned EXCEPT ![ow.key].until = Until(ManualFreeze)]
      BY <1>4 DEF OwInserts
    <3>2. lock = "ow" /\ value[k] = ow.new /\ owned[k].value = ow.new
      BY <1>1, <1>4, <2>1 DEF LockHeld, Hands, OwValue
    <3> QED BY <1>1, <1>4, <3>1, <3>2, OwFacts DEF LockHeld
  <2>6. n \notin Marks /\ Marks' = Marks
    BY <1>4, <2>3, MarksAre, MarksStay
  <2>7. Told(rows', Marks, Ids(k) \cup {n}, rows'[n].new) /\ Anchored(rows', Ids(k) \cup {n}, rows'[n].new, rows'[n].new)
    BY <1>2, <2>2, <2>3, <2>6, OwnerRow
  <2>8. Settled(k)' = rows'[n].new
    BY <2>1, <2>2, <2>3, <2>5 DEF Settled, PrPend
  <2> QED BY <2>2, <2>3, <2>4, <2>5, <2>6, <2>7, <2>8 DEF Accounts
<1>5. CASE OwUndoes /\ ow.key = k
  <2>1. ow.at = "undo" /\ lock = "free" /\ UNCHANGED <<value, pr>> /\ owned' = [owned EXCEPT ![ow.key] = ow.was]
    BY <1>5 DEF OwUndoes
  <2>2. ~ow.met
    BY <1>5, UndoneRow
  <2>3. Accounts(Before(rows, ow.row), Marks, Older, Prior, ow.was.value)
    BY <1>1, <1>2, <1>5, <2>1, <2>2 DEF OnRecordBefore, Reversible
  <2>4. pr.at = "idle" /\ value[k] = ow.prev
    BY <1>1, <1>5, <2>1, <2>2 DEF LockHeld, Hands, OwValue
  <2>5. Settled(k)' = Prior /\ owned'[k].value = ow.was.value
    BY <1>5, <2>1, <2>4, OwFacts DEF Settled, Prior, PrPend
  <2>6. Ids(k)' = Older
    BY <1>1, <1>5, UndoneAll DEF Hands
  <2>7. \A i \in Older : /\ rows'[i].old = Before(rows, ow.row)[i].old /\ rows'[i].new = Before(rows, ow.row)[i].new
                         /\ rows'[i].status = Before(rows, ow.row)[i].status
    BY <1>1, <1>5, UndoneAll DEF Hands
  <2>8. Marks' = Marks
    BY <1>5, MarksStay
  <2>9. Accounts(rows', Marks, Older, Prior, ow.was.value)
    BY <2>3, <2>7, AccountsKept DEF Says
  <2> QED BY <2>5, <2>6, <2>8, <2>9
<1>6. ASSUME NEW t \in {ju, ap}, Restores(t), rows[t.id].key = k
      PROVE  Accounts(rows', Marks', Ids(k)', Settled(k)', owned'[k].value)
  <2>1. /\ t.at = "restore" /\ Marks' = Marks \cup {t.id} /\ value' = [value EXCEPT ![k] = rows[t.id].old] /\ ow' = Meets(k)
        /\ rows' = rows /\ pr' = pr /\ owned' = owned
    BY <1>6 DEF Restores, history
  <2>2. t.id \in DOMAIN rows /\ rows[t.id].status \notin {"manual", "deleted"} /\ Leads(rows, t.id)
    BY <1>1, <2>1 DEF Hands, NotManual, Restoring, TypeOK, RbOK
  <2>3. t.id \in Ids(k) /\ \A j \in Ids(k) : j <= t.id
    BY <1>6, <2>2 DEF Ids, Leads
  <2>4. pr.at = "idle"
    BY <1>1, <2>1 DEF LockHeld
  <2>5. ~OwPend(k)
    BY <2>1, MeetsFields DEF OwPend
  <2>6. Accounts(rows, Marks, Ids(k), value[k], owned[k].value)
    BY <1>1, <1>2, <2>4, <2>5 DEF OnRecord, Settled, PrPend
  <2>7. Accounts(rows, Marks \cup {t.id}, Ids(k), rows[t.id].old, owned[k].value)
    BY <1>2, <2>2, <2>3, <2>6, RestoredAccount
  <2>8. Settled(k)' = rows[t.id].old /\ Ids(k)' = Ids(k)
    BY <2>1, <2>4, OwFacts DEF Settled, PrPend, Ids
  <2> QED BY <1>6, <2>1, <2>7, <2>8
<1>7. CASE ~(\E t \in {ju, ap} : Restores(t) /\ rows[t.id].key = k)
  BY <1>2, <1>3, <1>4, <1>5, <1>7, AccountStays
<1> QED BY <1>6, <1>7

\* A write of the owner starts from a setting that is accounted for.
LEMMA ReversibleFirst ==
  ASSUME TypeOK, TInv, NEW k \in Keys, NEW v, NEW b, OwBegins(k, v, b), k \notin exposed
  PROVE  Reversible'
<1>1. OnRecord /\ PrValue
  BY DEF TInv
<1>2. /\ ow.at = "idle" /\ ow'.key = k /\ ow'.prev = value[k] /\ ow'.row = 0 /\ ow'.was = owned[k]
      /\ UNCHANGED <<value, rows, pr, ju, ap, owned>>
  BY DEF OwBegins, history
<1>3. ~OwPend(k)
  BY <1>2 DEF OwPend
<1>4. Accounts(rows, Marks, Ids(k), Settled(k), owned[k].value)
  BY <1>1, <1>3 DEF OnRecord
<1>5. PrPend(k) => value[k] = pr.new /\ Near(pr.new, owned[k].value)
  BY <1>1, <1>3 DEF PrPend, PrValue
<1>6. PrPend(ow.key)' <=> PrPend(k)
  BY <1>2 DEF PrPend
<1>7. Near(value[k], owned[k].value)
  <2>1. ~PrPend(k) => Near(value[k], owned[k].value)
    BY <1>4 DEF Accounts, Anchored, Settled
  <2> QED BY <1>5, <2>1
<1>8. Older' = Ids(k) /\ Marks' = Marks /\ Prior' = Settled(k)
  <2>1. Older' = Ids(k)
    BY <1>2, LedgerFacts DEF Older, Ids
  <2>2. Marks' = Marks
    BY <1>2 DEF Marks
  <2>3. Prior' = Settled(k)
    BY <1>2, <1>6 DEF Prior, Settled
  <2> QED BY <2>1, <2>2, <2>3
<1>9. \A i \in Ids(k) : Before(rows', ow'.row)[i] = rows[i]
  BY <1>2 DEF Before, Ids
<1>10. Accounts(Before(rows', ow'.row), Marks, Ids(k), Settled(k), owned[k].value)
  BY <1>4, <1>9, AccountsKept
<1> QED BY <1>2, <1>5, <1>6, <1>7, <1>8, <1>10 DEF Reversible

\* A proposal that the owner's write has come after gets its row in time.
LEMMA ReversibleRecords ==
  ASSUME TypeOK, Reversible, PrRecords, ow.at # "idle"
  PROVE  Reversible'
<1> DEFINE r == Row(pr.key, pr.cur, pr.new, "evaluating", 0, FALSE)
           n == Len(rows) + 1
           B == Before(rows, ow.row)
           B2 == Before(rows', ow.row)
<1>1. r \in LedgerRow /\ rows' = Append(rows, r) /\ pr.at = "record" /\ pr'.at = "idle" /\ ow' = ow
  BY WrittenRows DEF PrRecords, PrIdle
<1>2. r.key = pr.key /\ r.old = pr.cur /\ r.new = pr.new /\ r.status = "evaluating"
  BY DEF Row
<1> HIDE DEF r
<1>3. /\ DOMAIN rows' = DOMAIN rows \cup {n} /\ rows'[n] = r /\ n \in Nat
      /\ \A i \in DOMAIN rows : rows'[i] = rows[i] /\ i < n /\ i # n
  BY <1>1, NewRow
<1>4. n # ow.row
  <2>1. ow.row <= Len(rows) /\ ow.row \in Nat /\ Len(rows) \in Nat
    BY LedgerFacts DEF TypeOK, OwOK
  <2> QED BY <2>1
<1> HIDE DEF n
<1>5. Marks' = Marks /\ n \notin Marks
  BY <1>3, MarksStay, MarksAre
<1>6. Accounts(B, Marks, Older, Prior, ow.was.value) /\ Near(ow.prev, ow.was.value)
  BY DEF Reversible
<1>7. \A i \in DOMAIN rows : B2[i] = B[i]
  BY <1>3 DEF Before
<1>8. Older \subseteq DOMAIN rows /\ Older \subseteq Nat
  BY LedgerFacts DEF Older, Ids
<1>9. Prior' = ow.prev /\ ~PrPend(ow.key)'
  BY <1>1 DEF Prior, PrPend
<1>10. CASE pr.key = ow.key
  <2>1. Prior = pr.cur /\ pr.new = ow.prev /\ Near(pr.new, ow.was.value)
    BY <1>1, <1>10 DEF Prior, PrPend, Reversible
  <2>2. Older' = Older \cup {n}
    BY <1>1, <1>2, <1>3, <1>4, <1>10 DEF Older, Ids
  <2>3. B2[n].old = pr.cur /\ B2[n].new = pr.new /\ B2[n].status = "evaluating"
    BY <1>2, <1>3 DEF Before
  <2> HIDE DEF B, B2
  <2>4. Told(B2, Marks, Older \cup {n}, B2[n].new) /\ Anchored(B2, Older \cup {n}, B2[n].new, ow.was.value)
    <3>1. Anchored(B, Older, B2[n].old, ow.was.value) /\ Near(B2[n].new, ow.was.value)
      BY <1>6, <2>1, <2>3 DEF Accounts
    <3>2. \A i \in Older : B2[i] = B[i] /\ i < n
      BY <1>3, <1>7, <1>8
    <3> QED BY <1>3, <1>5, <1>8, <2>3, <3>1, <3>2, ProposedRow
  <2>5. Accounts(B2, Marks', Older', Prior', ow.was.value)
    BY <1>5, <1>9, <2>1, <2>2, <2>3, <2>4 DEF Accounts
  <2> QED BY <1>1, <1>6, <1>9, <2>5 DEF Reversible, B2
<1>11. CASE pr.key # ow.key
  <2>1. Older' = Older
    BY <1>1, <1>2, <1>3, <1>11 DEF Older, Ids
  <2>2. Prior = ow.prev
    BY <1>11 DEF Prior, PrPend
  <2>3. Accounts(B2, Marks', Older', Prior', ow.was.value)
    BY <1>5, <1>6, <1>7, <1>8, <1>9, <2>1, <2>2, AccountsKept
  <2> QED BY <1>1, <1>6, <1>9, <2>3 DEF Reversible
<1> QED BY <1>10, <1>11

\* The owner's row comes after what was there before it.
LEMMA ReversibleInserts ==
  ASSUME TypeOK, Reversible, OwInserts, ow.row = 0, pr.at = "idle"
  PROVE  Reversible'
<1> DEFINE r == Row(ow.key, ow.prev, ow.new, "manual", ManualUntil, ow.batch)
           n == Len(rows) + 1
<1>1. /\ r \in LedgerRow /\ rows' = Append(rows, r) /\ pr' = pr
      /\ ow'.row = n /\ ow'.key = ow.key /\ ow'.prev = ow.prev /\ ow'.was = ow.was
  BY WrittenRows, LedgerFacts DEF OwInserts, TypeOK, OwOK
<1> HIDE DEF r
<1>2. /\ DOMAIN rows' = DOMAIN rows \cup {n} /\ n \in Nat
      /\ \A i \in DOMAIN rows : rows'[i] = rows[i] /\ i < n /\ i # n /\ rows[i].by # n /\ i # 0
  <2>1. \A i \in DOMAIN rows : rows[i].by <= Len(rows) /\ rows[i].by \in Nat /\ i # 0
    BY LedgerFacts DEF TypeOK, RowsOK
  <2>2. \A i \in DOMAIN rows : rows[i].by # n
    BY <2>1, LedgerFacts
  <2> QED BY <1>1, <2>1, <2>2, NewRow
<1> HIDE DEF n
<1>3. Older' = Older
  BY <1>1, <1>2 DEF Older, Ids
<1>4. \A i \in Older : Before(rows', n)[i] = rows[i] /\ Before(rows, ow.row)[i] = rows[i]
  BY <1>2 DEF Before, Older, Ids
<1>5. Prior' = Prior /\ ~PrPend(ow.key)' /\ Marks' = Marks
  BY <1>1, MarksStay DEF Prior, PrPend
<1>6. Accounts(Before(rows', n), Marks, Older, Prior, ow.was.value)
  BY <1>4, AccountsKept DEF Reversible
<1> QED BY <1>1, <1>3, <1>5, <1>6 DEF Reversible

\* Nothing else comes in between without being met.
LEMMA ReversibleStays ==
  ASSUME TypeOK, TInv, [Next]_vars, ow'.at # "idle", ~ow'.met, ow'.key \notin exposed',
         ~(\E k \in Keys, v \in Values, b \in BOOLEAN : OwBegins(k, v, b)), ~PrRecords, ~OwInserts
  PROVE  Reversible'
<1>1. NotManual /\ IInv /\ OnRecordBefore /\ exposed \subseteq exposed'
  BY ExposedGrows DEF TInv, Hands
<1>2. ow.at # "idle" /\ ow'.key = ow.key /\ ow'.prev = ow.prev /\ ow'.was = ow.was /\ ow'.row = ow.row /\ ~ow.met
  BY <1>1, OwGoesOn
<1>3. Reversible
  BY <1>1, <1>2 DEF OnRecordBefore
<1>4. ~OwUndoes /\ ~Crash
  <2>1. OwUndoes \/ Crash => ow' = OwIdle
    BY DEF OwUndoes, Crash
  <2>2. OwIdle.at = "idle"
    BY DEF OwIdle
  <2> QED BY <2>1, <2>2
<1>5. Steady(rows, rows')
  BY <1>1, <1>4, SteadyRows
<1>6. Older' = Older
  <2>1. \A k : Ids(k)' = Ids(k)
    BY <1>5, SteadyIds
  <2>2. PICK k : k = ow.key
    OBVIOUS
  <2>3. Ids(k)' = Ids(k)
    BY <2>1
  <2>4. Older = Ids(k) \ {ow.row} /\ Older' = Ids(k)' \ {ow.row}
    BY <1>2, <2>2 DEF Older, Ids
  <2> QED BY <2>3, <2>4
<1>7. (PrPend(ow.key)' <=> PrPend(ow.key)) /\ (PrPend(ow.key) => pr' = pr)
  <2>1. CASE pr' = pr
    BY <1>2, <2>1 DEF PrPend
  <2>2. CASE pr.at # "record" /\ pr'.at # "record"
    BY <2>2 DEF PrPend
  <2>3. CASE PrWrites \/ PrRecordFails
    <3>1. ow' = Meets(pr.key) /\ (pr' = [pr EXCEPT !.at = "record"] \/ pr' = PrIdle)
      BY <2>3 DEF PrWrites, PrRecordFails
    <3>2. pr.key # ow.key
      BY <3>1, MeetsFields
    <3>3. pr'.key = pr.key \/ pr'.at = "idle"
      BY <3>1 DEF TypeOK, PrOK, PrIdle
    <3> QED BY <1>2, <3>2, <3>3 DEF PrPend
  <2> QED BY <1>4, <2>1, <2>2, <2>3, Recording
<1>8. Prior' = Prior
  BY <1>2, <1>7 DEF Prior, PrPend
<1>9. ASSUME NEW i \in Older
      PROVE  /\ Before(rows', ow.row)[i].old = Before(rows, ow.row)[i].old
             /\ Before(rows', ow.row)[i].new = Before(rows, ow.row)[i].new
             /\ Before(rows', ow.row)[i].status = "manual" <=> Before(rows, ow.row)[i].status = "manual"
             /\ Says(Before(rows, ow.row)[i], i \in Marks, Prior) => Says(Before(rows', ow.row)[i], i \in Marks', Prior)
  <2>1. i \in DOMAIN rows /\ rows[i].key = ow.key /\ rows[i] \in LedgerRow
    BY LedgerFacts DEF Older, Ids
  <2>2. i \in DOMAIN rows' /\ rows'[i] \in LedgerRow
    <3>1. i \in DOMAIN rows' /\ rows' \in Seq(LedgerRow)
      BY <1>5, <2>1, TypeStep DEF Steady, TypeOK, RowsOK
    <3> QED BY <3>1, ElementOfSeq
  <2>3. /\ Before(rows, ow.row)[i].old = rows[i].old /\ Before(rows, ow.row)[i].new = rows[i].new
        /\ Before(rows, ow.row)[i].status = "manual" <=> rows[i].status = "manual"
    BY <2>1, BeforeRow
  <2>4. /\ Before(rows', ow.row)[i].old = rows'[i].old /\ Before(rows', ow.row)[i].new = rows'[i].new
        /\ Before(rows', ow.row)[i].status = "manual" <=> rows'[i].status = "manual"
    BY <2>2, BeforeRow
  <2>5. \A t \in {ju, ap} : Restores(t) => t.id # i
    <3>1. ASSUME NEW t \in {ju, ap}, Restores(t), t.id = i PROVE FALSE
      <4>1. ow' = Meets(ow.key)
        BY <2>1, <3>1 DEF Restores
      <4> QED BY <4>1, MeetsFields
    <3> QED BY <3>1
  <2>6. ASSUME Says(Before(rows, ow.row)[i], i \in Marks, Prior)
        PROVE  Says(Before(rows', ow.row)[i], i \in Marks', Prior)
    <3>1. rows[i].key \notin exposed'
      BY <1>2, <2>1
    <3> QED BY <1>1, <1>4, <2>1, <2>5, <2>6, <3>1, SaysKept
  <2> QED BY <1>5, <2>1, <2>3, <2>4, <2>6 DEF Steady
<1>10. Accounts(Before(rows', ow.row), Marks', Older, Prior, ow.was.value)
  <2>1. Accounts(Before(rows, ow.row), Marks, Older, Prior, ow.was.value)
    BY <1>3 DEF Reversible
  <2> QED BY <1>9, <2>1, AccountsKept
<1> QED BY <1>2, <1>3, <1>6, <1>7, <1>8, <1>10 DEF Reversible

\* Undoing a write of the owner finds what was there before it, unless somebody was met.
LEMMA OnRecordBeforeStep ==
  ASSUME TypeOK, TInv, [Next]_vars
  PROVE  OnRecordBefore'
<1> SUFFICES ASSUME ow'.at # "idle", ~ow'.met, ow'.key \notin exposed'
             PROVE  Reversible'
  BY DEF OnRecordBefore
<1>1. Hands /\ IInv /\ OnRecordBefore /\ LockHeld /\ exposed \subseteq exposed'
  BY ExposedGrows DEF TInv, IInv, Serial
<1>2. CASE \E k \in Keys, v \in Values, b \in BOOLEAN : OwBegins(k, v, b)
  <2>1. PICK k \in Keys, v \in Values, b \in BOOLEAN : OwBegins(k, v, b)
    BY <1>2
  <2>2. k \notin exposed
    BY <2>1 DEF OwBegins, history
  <2> QED BY <2>1, <2>2, ReversibleFirst
<1>3. CASE ~(\E k \in Keys, v \in Values, b \in BOOLEAN : OwBegins(k, v, b))
  <2>1. ow.at # "idle" /\ ow'.key = ow.key /\ (ow.met => ow'.met)
    BY <1>1, <1>3, OwGoesOn
  <2>2. Reversible
    BY <1>1, <2>1 DEF OnRecordBefore
  <2>3. CASE PrRecords
    BY <2>1, <2>2, <2>3, ReversibleRecords
  <2>4. CASE OwInserts
    <3>1. ow.at = "insert" /\ ow.row = 0 /\ pr.at = "idle"
      BY <1>1, <2>4 DEF OwInserts, IInv, UndoFinds, LockHeld
    <3> QED BY <2>2, <2>4, <3>1, ReversibleInserts
  <2>5. CASE ~PrRecords /\ ~OwInserts
    BY <1>3, <2>5, ReversibleStays
  <2> QED BY <2>3, <2>4, <2>5
<1> QED BY <1>2, <1>3

----------------------------------------------------------------------------
(* The theorems *)

\* At first there is nothing to tell.
LEMMA LedgerInit == Init => TInv
<1> SUFFICES ASSUME Init PROVE TInv
  OBVIOUS
<1>1. IInv /\ TypeOK
  BY InvInit, TypeInit
<1>2. ow.at = "idle" /\ ow.row = 0 /\ pr.at = "idle" /\ ju.at = "idle" /\ ap.at = "idle" /\ rows = <<>>
  BY DEF Init, OwIdle, PrIdle, RbIdle
<1>3. Hands /\ PrValue /\ OnRecordBefore
  BY <1>2 DEF Hands, OwValue, OwRow, NotManual, Restoring, PrValue, OnRecordBefore
<1>4. \A k \in Keys : Ids(k) = {} /\ value[k] \in Nat /\ owned[k].value = value[k] /\ owned[k].until = 0
  <2>1. \A k \in Keys : Ids(k) = {}
    BY <1>2 DEF Ids
  <2>2. value \in [Keys -> Nat] /\ owned = [k \in Keys |-> [value |-> value[k], until |-> 0]]
    BY <1>1, TuneAssumption DEF Init, TypeOK, SettingsOK
  <2> QED BY <2>1, <2>2
<1>5. OnRecord
  <2>1. ASSUME NEW k \in Keys PROVE Accounts(rows, Marks, Ids(k), Settled(k), owned[k].value)
    <3>1. Settled(k) = value[k]
      BY <1>2 DEF Settled, PrPend
    <3>2. Near(value[k], value[k])
      BY <1>4, TuneAssumption DEF Near, Distance
    <3>3. Told(rows, Marks, {}, value[k])
      BY DEF Told
    <3>4. Anchored(rows, {}, value[k], value[k])
      <4>1. {i \in {} : rows[i].status = "manual"} = {}
        OBVIOUS
      <4> QED BY <3>2, <4>1, Zenon DEF Anchored
    <3> QED BY <1>4, <3>1, <3>3, <3>4 DEF Accounts
  <2> QED BY <2>1 DEF OnRecord
<1>6. FreezeTold
  BY <1>2, <1>4 DEF FreezeTold, FrozenBy
<1> QED BY <1>1, <1>3, <1>5, <1>6 DEF TInv

\* A step keeps the ledger's account.
LEMMA LedgerStep ==
  ASSUME TypeOK, TInv, [Next]_vars
  PROVE  TInv'
<1>1. IInv'
  BY InvStep DEF TInv
<1>2. Hands'
  BY OwValueStep, OwRowStep, NotManualStep, RestoringStep DEF Hands
<1>3. PrValue' /\ OnRecord' /\ OnRecordBefore' /\ FreezeTold'
  BY PrValueStep, OnRecordStep, OnRecordBeforeStep, FreezeStep
<1> QED BY <1>1, <1>2, <1>3 DEF TInv

\* The ledger's account of the settings holds all along.
LEMMA LedgerInv == Spec => [](TypeOK /\ TInv)
<1>1. Init => TypeOK /\ TInv
  BY TypeInit, LedgerInit
<1>2. (TypeOK /\ TInv) /\ [Next]_vars => (TypeOK /\ TInv)'
  BY TypeStep, LedgerStep
<1> QED BY <1>1, <1>2, PTL DEF Spec

\* Between two calls a setting is what its newest row says of it, whoever wrote over whom.
THEOREM LedgerTells == Spec => []LedgerTrue
<1>1. ASSUME TypeOK, TInv PROVE LedgerTrue
  <2> SUFFICES ASSUME Idle, NEW k \in Keys \ exposed, Ids(k) # {} PROVE Explained(k)
    BY DEF LedgerTrue
  <2>1. Settled(k) = value[k] /\ ~OwPend(k) /\ Marks = {}
    BY DEF Idle, Settled, PrPend, OwPend, Marks
  <2>2. Told(rows, {}, Ids(k), value[k])
    BY <1>1, <2>1 DEF TInv, OnRecord, Accounts
  <2>3. Ids(k) \subseteq DOMAIN rows
    BY DEF Ids
  <2>4. Newest(Ids(k)) \in Ids(k) /\ \A j \in Ids(k) : j <= Newest(Ids(k))
    BY <1>1, <2>3, OldestNewest
  <2> DEFINE r == rows[Newest(Ids(k))]
  <2>5. Says(r, FALSE, value[k])
    <3>1. ASSUME NEW n \in Ids(k), \A j \in Ids(k) : j <= n PROVE Says(rows[n], FALSE, value[k])
      <4>1. Says(rows[n], n \in {}, value[k])
        BY <2>2, <3>1 DEF Told
      <4>2. (n \in {}) = FALSE
        OBVIOUS
      <4> QED BY <4>1, <4>2
    <3> QED BY <2>4, <3>1
  <2>6. /\ r.status \in {"evaluating", "kept", "manual"} => value[k] = r.new
        /\ r.status = "rolled_back" => value[k] = r.old
    BY <2>5 DEF Says
  <2> HIDE DEF r
  <2>7. CASE r.status \in {"evaluating", "kept", "manual"}
    BY <2>6, <2>7 DEF Explained, r
  <2>8. CASE r.status = "rolled_back"
    BY <2>6, <2>8 DEF Explained, r
  <2>9. CASE r.status \notin {"evaluating", "kept", "manual", "rolled_back"}
    BY <2>9 DEF Explained, r
  <2> QED BY <2>7, <2>8, <2>9
<1> QED BY <1>1, LedgerInv, PTL

\* The tuner never ends up further than max_drift from what the owner last chose.
THEOREM DriftCapped == Spec => []DriftBounded
<1>1. ASSUME TypeOK, TInv PROVE DriftBounded
  <2> SUFFICES ASSUME NEW k \in Keys \ exposed, ow.key # k PROVE Near(value[k], owned[k].value)
    BY DEF DriftBounded, Near
  <2>1. ~OwPend(k)
    BY DEF OwPend
  <2>2. CASE PrPend(k)
    BY <1>1, <2>1, <2>2 DEF TInv, PrValue, PrPend
  <2>3. CASE ~PrPend(k)
    <3>1. Anchored(rows, Ids(k), value[k], owned[k].value)
      BY <1>1, <2>1, <2>3 DEF TInv, OnRecord, Accounts, Settled
    <3> QED BY <3>1 DEF Anchored
  <2> QED BY <2>2, <2>3
<1> QED BY <1>1, LedgerInv, PTL

\* No change of a setting comes after a decision of the owner before its freeze has ended.
Thawed ==
  /\ \A i, j \in DOMAIN rows :
       /\ i < j /\ rows[i].key = rows[j].key
       /\ rows[i].status = "manual" /\ rows[j].status \notin {"manual", "deleted"}
       => rows[i].frozen <= day
  /\ pr.at # "idle" => \A i \in Manuals(pr.key) : rows[i].frozen <= day

\* Days pass, and rows are not given another time.
LEMMA DaysPass ==
  ASSUME TypeOK, [Next]_vars
  PROVE  day' >= day /\ day \in Nat /\ day' \in Nat
<1>1. day \in Nat
  BY DEF TypeOK, SettingsOK
<1>2. CASE Tick
  BY <1>1, <1>2 DEF Tick
<1>3. CASE day' = day
  BY <1>1, <1>3
<1> QED BY <1>2, <1>3
     DEF Next, PrTakes, OwBegins, ApBegins, Propose, PrRechecks, PrWrites, PrRecords, PrRecordFails, OwnerWrite, OwWrites,
     OwHook, OwHookFails, OwInserts, OwSupersedes, OwEnds, OwUndo, OwUndoes, ApRollback, JuRollback, Rollback, RbTakes,
     RbRestores, RbMarks, Judge, JuBusy, JuStarts, JuReverts, JuWaits, JuDefers, JuKeeps, JuKept, JuCloses, Leave, Return,
     Crash, vars

\* So it stays: a proposal looks for the freezes under the lock, and keeps the lock.
LEMMA ThawedStep ==
  ASSUME TypeOK, TInv, Thawed, [Next]_vars
  PROVE  Thawed'
<1>1. NotManual /\ LockHeld
  BY DEF TInv, Hands, IInv, Serial
<1>2. DOMAIN rows = 1..Len(rows) /\ Len(rows) \in Nat /\ \A i \in DOMAIN rows : rows[i].frozen \in Nat /\ rows[i] \in LedgerRow
  BY LedgerFacts
<1>3. day' >= day /\ day \in Nat /\ day' \in Nat
  BY DaysPass
<1>4. ASSUME NEW i \in DOMAIN rows', NEW j \in DOMAIN rows', i < j, rows'[i].key = rows'[j].key,
             rows'[i].status = "manual", rows'[j].status \notin {"manual", "deleted"}
      PROVE  rows'[i].frozen <= day'
  <2>1. ASSUME i \in DOMAIN rows, j \in DOMAIN rows, rows'[i] = rows[i], rows[i].key = rows[j].key,
               rows[j].status \notin {"manual", "deleted"}
        PROVE  rows'[i].frozen <= day'
    <3>1. rows[i].frozen <= day /\ rows[i].frozen \in Nat
      BY <1>2, <1>4, <2>1 DEF Thawed
    <3> QED BY <1>3, <2>1, <3>1
  <2>2. CASE PrRecords
    <3> DEFINE r == Row(pr.key, pr.cur, pr.new, "evaluating", 0, FALSE)
    <3>1. rows' = Append(rows, r) /\ r \in LedgerRow
      BY <2>2, WrittenRows DEF PrRecords
    <3>2. r.key = pr.key /\ pr.at = "record"
      BY <2>2 DEF Row, PrRecords
    <3> HIDE DEF r
    <3>3. /\ DOMAIN rows' = 1..(Len(rows) + 1) /\ rows'[Len(rows) + 1] = r
          /\ \A n \in DOMAIN rows : rows'[n] = rows[n]
      BY <3>1, <1>2, NewRow
    <3>4. i \in DOMAIN rows /\ rows'[i] = rows[i]
      BY <1>2, <1>4, <3>3
    <3>5. CASE j \in DOMAIN rows
      BY <1>4, <2>1, <3>3, <3>4, <3>5
    <3>6. CASE j = Len(rows) + 1
      <4>1. i \in Manuals(pr.key)
        BY <1>4, <3>2, <3>3, <3>4, <3>6 DEF Manuals, Ids
      <4>2. rows[i].frozen <= day /\ rows[i].frozen \in Nat
        BY <1>2, <3>2, <3>4, <4>1 DEF Thawed
      <4> QED BY <1>3, <3>4, <4>2
    <3> QED BY <1>2, <3>3, <3>5, <3>6
  <2>3. CASE OwInserts
    <3> DEFINE r == Row(ow.key, ow.prev, ow.new, "manual", ManualUntil, ow.batch)
    <3>1. rows' = Append(rows, r) /\ r \in LedgerRow
      BY <2>3, WrittenRows DEF OwInserts
    <3>2. r.status = "manual"
      BY DEF Row
    <3> HIDE DEF r
    <3>3. /\ DOMAIN rows' = 1..(Len(rows) + 1) /\ rows'[Len(rows) + 1] = r
          /\ \A n \in DOMAIN rows : rows'[n] = rows[n]
      BY <3>1, <1>2, NewRow
    <3>4. i \in DOMAIN rows /\ j \in DOMAIN rows
      BY <1>2, <1>4, <3>2, <3>3
    <3> QED BY <1>4, <2>1, <3>3, <3>4
  <2>4. CASE OwUndoes
    <3>1. /\ DOMAIN rows' = DOMAIN rows
          /\ \A n \in DOMAIN rows : rows'[n] = IF n \in Undone THEN [rows[n] EXCEPT !.status = "deleted"]
                ELSE IF n \in Reopened
                     THEN [rows[n] EXCEPT !.status = "evaluating", !.by = 0, !.deferred = 0]
                     ELSE rows[n]
      BY <2>4 DEF OwUndoes
    <3>2. \A n \in DOMAIN rows : rows'[n].key = rows[n].key
      BY <1>2, <3>1 DEF LedgerRow
    <3>3. i \notin Undone /\ i \notin Reopened
      BY <1>2, <1>4, <3>1 DEF LedgerRow
    <3>4. rows[j].status \notin {"manual", "deleted"}
      <4>1. CASE j \in Undone
        BY <1>2, <1>4, <3>1, <4>1 DEF LedgerRow
      <4>2. CASE j \in Reopened
        BY <4>2 DEF Reopened
      <4>3. CASE j \notin Undone /\ j \notin Reopened
        BY <1>4, <3>1, <4>3
      <4> QED BY <4>1, <4>2, <4>3
    <3> QED BY <1>4, <2>1, <3>1, <3>2, <3>3, <3>4
  <2>5. CASE ~(PrRecords \/ OwInserts \/ OwUndoes)
    <3>1. Steady(rows, rows')
      BY <1>1, <2>5, SteadyRows
    <3> QED BY <1>4, <2>1, <3>1 DEF Steady
  <2> QED BY <2>2, <2>3, <2>4, <2>5
<1>5. ASSUME pr'.at # "idle", NEW i \in Manuals(pr.key)'
      PROVE  rows'[i].frozen <= day'
  <2>1. CASE \E k \in Keys, v \in Values : PrTakes(k, v)
    <3>1. PICK k \in Keys : pr'.key = k /\ ~Frozen(k) /\ UNCHANGED <<day, rows>>
      BY <2>1 DEF PrTakes, Admits
    <3>2. i \in Ids(k) /\ i \in DOMAIN rows
      BY <1>5, <3>1 DEF Manuals, Ids
    <3> QED BY <1>2, <1>3, <3>1, <3>2 DEF Frozen
  <2>2. CASE pr.at # "idle" /\ pr'.key = pr.key /\ day' = day
    <3>1. ~(OwInserts \/ OwUndoes \/ PrRecords)
      <4>1. PrRecords => pr'.at = "idle"
        BY DEF PrRecords, PrIdle
      <4> QED BY <1>1, <1>5, <2>2, <4>1, PrAlone
    <3>2. Steady(rows, rows')
      BY <1>1, <3>1, SteadyRows
    <3>3. i \in Manuals(pr.key) /\ rows'[i] = rows[i]
      BY <1>5, <2>2, <3>2 DEF Steady, Manuals, Ids
    <3> QED BY <2>2, <3>3 DEF Thawed
  <2> QED BY <1>5, <2>1, <2>2, PrGoesOn
<1> QED BY <1>4, <1>5 DEF Thawed

\* FreezeRespected: as long as the owner's freeze lasts the setting is what the owner
\* chose, whoever was writing it when the owner did, and whatever was to be rolled back.
THEOREM FreezeRespected == Spec => []FreezeKept
<1>1. Init => Thawed
  BY DEF Init, Thawed, PrIdle
<1>2. (TypeOK /\ TInv) /\ Thawed /\ [Next]_vars => Thawed'
  BY ThawedStep
<1>3. ASSUME TypeOK, TInv, Thawed PROVE FreezeKept
  <2> SUFFICES ASSUME NEW k \in Keys \ exposed, ow.key # k, day < owned[k].until
               PROVE  value[k] = owned[k].value
    BY DEF FreezeKept
  <2>1. day \in Nat /\ owned[k].until \in Nat /\ \A j \in DOMAIN rows : rows[j].frozen \in Nat /\ j \in Nat
    BY <1>3, OwFacts, LedgerFacts DEF TypeOK, SettingsOK
  <2>2. PICK i \in Ids(k) : rows[i].status = "manual" /\ rows[i].frozen >= owned[k].until
    BY <1>3, <2>1 DEF TInv, FreezeTold, FrozenBy
  <2>3. ~OwPend(k) /\ ~PrPend(k)
    BY <1>3, <2>1 DEF TInv, FreezeTold, OwPend, PrPend
  <2>4. Told(rows, Marks, Ids(k), value[k]) /\ Anchored(rows, Ids(k), value[k], owned[k].value)
    BY <1>3, <2>3 DEF TInv, OnRecord, Accounts, Settled
  <2>5. Ids(k) \subseteq DOMAIN rows /\ \A j \in Ids(k) : rows[j].key = k /\ rows[j].status # "deleted"
    BY DEF Ids
  <2>6. PICK n \in Ids(k) : \A j \in Ids(k) : j <= n
    BY <1>3, <2>2, <2>5, OldestNewest
  <2>7. rows[n].status = "manual"
    <3>1. ASSUME rows[n].status # "manual" PROVE FALSE
      <4>1. i # n /\ i <= n
        BY <2>2, <2>6, <3>1
      <4>2. i < n
        BY <2>1, <2>5, <4>1
      <4>3. rows[i].frozen <= day
        BY <1>3, <2>2, <2>5, <3>1, <4>2 DEF Thawed
      <4> QED BY <2>1, <2>2, <2>5, <4>3
    <3> QED BY <3>1
  <2>8. n \notin Marks
    <3>1. ASSUME NEW t \in {ju, ap}, t.at = "mark" PROVE t.id # n
      BY <1>3, <2>7, <3>1 DEF TInv, Hands, NotManual
    <3> QED BY <3>1 DEF Marks
  <2>9. value[k] = rows[n].new
    BY <2>4, <2>6, <2>7, <2>8 DEF Told, Says
  <2>10. rows[n].new = owned[k].value
    <3> DEFINE manual == {j \in Ids(k) : rows[j].status = "manual"}
    <3>1. \A j \in manual : (\A m \in manual : m <= j) => rows[j].new = owned[k].value
      BY <2>4, Zenon DEF Anchored
    <3>2. n \in manual /\ \A m \in manual : m <= n
      BY <2>6, <2>7
    <3> QED BY <3>1, <3>2
  <2> QED BY <2>9, <2>10
<1> QED BY <1>1, <1>2, <1>3, LedgerInv, PTL DEF Spec
=============================================================================
