------------------------------- MODULE AutoTune -------------------------------
(* The closed loop that tunes settings: a proposer moves one setting by one    *)
(* step, a judge keeps or reverts it, and the owner, who writes the same        *)
(* settings without taking the ledger's lock, always wins. What they have done  *)
(* is in the ledger (auto_tune_changes); the judge, the drift cap and the       *)
(* freezes know the settings through it only.                                   *)
(*                                                                             *)
(* Four activities: `ow`, a write of the owner (settings calls run one at a     *)
(* time on the event loop) with its hook, alone or as part of a batch that may  *)
(* be undone; `pr`, propose_change; `ju`, the judge's daily jobs, one at a      *)
(* time; `ap`, a rollback asked for by the owner. A step is what happens        *)
(* between two places where another activity can come in.                      *)
EXTENDS Integers, FiniteSets, Sequences

CONSTANTS
  Keys,            \* allowlisted settings
  Values, Starts,  \* their values, in steps; where they may be at first
  Cap,             \* max_drift, in steps
  Verdict,         \* VERDICT_DAYS
  MaxDeferrals,
  ManualFreeze, RollbackFreeze,   \* days
  NoKey,
  MaxDay, MaxProposals, MaxWrites, MaxTroubles

ASSUME TuneAssumption ==
  /\ NoKey \notin Keys
  /\ Values \subseteq Nat /\ Starts \subseteq Values /\ Cap \in Nat
  /\ {Verdict, MaxDeferrals, ManualFreeze, RollbackFreeze} \subseteq Nat
  /\ {MaxDay, MaxProposals, MaxWrites, MaxTroubles} \subseteq Nat

VARIABLES
  day,
  value,       \* the persisted settings
  rows,        \* auto_tune_changes, by id
  lock,        \* who holds auto_tune._lock, or "free"
  away,        \* the preset is away or vacation
  ran,         \* the judge's job has run today
  ow, pr, ju, ap,
  proposals, writes, troubles,
  \* history
  owned,       \* by key, what the owner decided last: [value, until], frozen until that day
  exposed      \* keys of which the ledger has lost track, in a way the code has no answer to

threads == <<ow, pr, ju, ap>>
bounds  == <<proposals, writes, troubles>>
history == <<owned, exposed>>
vars    == <<day, value, rows, lock, away, ran, threads, bounds, history>>

Statuses == {"evaluating", "kept", "rolled_back", "superseded_manual", "manual", "deleted"}

OwIdle == [at |-> "idle", key |-> NoKey, new |-> 0, prev |-> 0, batch |-> FALSE, row |-> 0, met |-> FALSE,
           was |-> [value |-> 0, until |-> 0]]
PrIdle == [at |-> "idle", key |-> NoKey, new |-> 0, cur |-> 0]
RbIdle == [at |-> "idle", id |-> 0, deferred |-> 0]

Distance(a, b) == IF a < b THEN b - a ELSE a - b

----------------------------------------------------------------------------
(* The ledger *)

Ids(k)      == {i \in DOMAIN rows : rows[i].key = k /\ rows[i].status # "deleted"}
Evaluating  == {i \in DOMAIN rows : rows[i].status = "evaluating"}
Manuals(k)  == {i \in Ids(k) : rows[i].status = "manual"}
Newest(S)   == CHOOSE i \in S : \A j \in S : j <= i
Oldest(S)   == CHOOSE i \in S : \A j \in S : i <= j

Frozen(k) == \E i \in Ids(k) : rows[i].frozen > day

\* manual_value: what the drift is measured from.
Reference(k) ==
  IF Manuals(k) # {} THEN rows[Newest(Manuals(k))].new
  ELSE IF Ids(k) # {} THEN rows[Oldest(Ids(k))].old ELSE value[k]

Row(k, old, new, status, frozen, batch) ==
  [key |-> k, old |-> old, new |-> new, status |-> status, day |-> day,
   frozen |-> frozen, by |-> 0, batch |-> batch, deferred |-> 0]
\* A column update replaces the evidence, and with it the row that superseded this one.
Marked(i, status) == [rows EXCEPT ![i].status = status, ![i].by = 0]
\* An activity writes the setting that a call of the owner is at.
Meets(k) == IF ow.key = k THEN [ow EXCEPT !.met = TRUE] ELSE ow
Until(days) == IF days > 0 THEN day + days ELSE 0

----------------------------------------------------------------------------
(* propose_change *)

\* MUTANT of Admits: only a change of the same setting is in the way.
AdmitsOther(k, v) ==
  /\ v # value[k] /\ \A i \in Evaluating : rows[i].key # k /\ ~Frozen(k)
  /\ Distance(v, value[k]) <= 1 /\ Distance(v, Reference(k)) <= Cap
  /\ ~away
\* MUTANT of Admits: the drift is measured from where the setting is.
AdmitsDrifting(k, v) ==
  /\ v # value[k] /\ Evaluating = {} /\ ~Frozen(k)
  /\ Distance(v, value[k]) <= 1 /\ Distance(v, value[k]) <= Cap
  /\ ~away
\* The refusals, in order: unchanged, busy, frozen, step_too_large, drift_cap, away.
Admits(k, v) ==
  /\ v # value[k]
  /\ Evaluating = {}
  /\ ~Frozen(k)
  /\ Distance(v, value[k]) <= 1
  /\ Distance(v, Reference(k)) <= Cap
  /\ ~away

PrTakes(k, v) ==
  /\ pr.at = "idle" /\ lock = "free"
  /\ proposals < MaxProposals /\ day + Verdict <= MaxDay
  /\ Admits(k, v)
  /\ lock' = "pr"
  /\ pr' = [at |-> "recheck", key |-> k, new |-> v, cur |-> value[k]]
  /\ proposals' = proposals + 1
  /\ UNCHANGED <<day, value, rows, away, ran, ow, ju, ap, writes, troubles, history>>

\* Refused ("changed") if the owner has written meanwhile.
PrRechecks ==
  /\ pr.at = "recheck"
  /\ IF value[pr.key] = pr.cur
       THEN pr' = [pr EXCEPT !.at = "write"] /\ UNCHANGED lock
       ELSE pr' = PrIdle /\ lock' = "free"
  /\ UNCHANGED <<day, value, rows, away, ran, ow, ju, ap, bounds, history>>

PrWrites ==
  /\ pr.at = "write"
  /\ value' = [value EXCEPT ![pr.key] = pr.new]
  /\ pr' = [pr EXCEPT !.at = "record"] /\ ow' = Meets(pr.key)
  /\ UNCHANGED <<day, rows, lock, away, ran, ju, ap, bounds, history>>

PrRecords ==
  /\ pr.at = "record"
  /\ rows' = Append(rows, Row(pr.key, pr.cur, pr.new, "evaluating", 0, FALSE))
  /\ pr' = PrIdle /\ lock' = "free"
  /\ UNCHANGED <<day, value, away, ran, ow, ju, ap, bounds, history>>

\* The insert fails, and the setting is put back.
PrRecordFails ==
  /\ pr.at = "record" /\ troubles < MaxTroubles
  /\ value' = [value EXCEPT ![pr.key] = pr.cur]
  /\ troubles' = troubles + 1
  /\ pr' = PrIdle /\ lock' = "free" /\ ow' = Meets(pr.key)
  /\ UNCHANGED <<day, rows, away, ran, ju, ap, proposals, writes, history>>

Propose == PrRechecks \/ PrWrites \/ PrRecords

----------------------------------------------------------------------------
(* set_setting and on_manual_change: the owner *)

OwBegins(k, v, batch) ==
  /\ ow.at = "idle" /\ writes < MaxWrites
  /\ writes' = writes + 1
  /\ ow' = [at |-> "write", key |-> k, new |-> v, prev |-> value[k], batch |-> batch, row |-> 0, met |-> FALSE,
            was |-> owned[k]]
  /\ UNCHANGED <<day, value, rows, lock, away, ran, pr, ju, ap, proposals, troubles, history>>

\* The setting is written outside the lock; a write of what was there is no decision.
\* If an activity has written the setting since it was read, the ledger never learns.
OwWrites ==
  /\ ow.at = "write"
  /\ value' = [value EXCEPT ![ow.key] = ow.new]
  /\ IF ow.new = ow.prev
       THEN /\ ow' = [ow EXCEPT !.at = "done"]
            /\ exposed' = IF ow.met THEN exposed \cup {ow.key} ELSE exposed
            /\ UNCHANGED owned
       ELSE /\ ow' = [ow EXCEPT !.at = "hook"]
            /\ owned' = [owned EXCEPT ![ow.key].value = ow.new]
            /\ UNCHANGED exposed
  /\ UNCHANGED <<day, rows, lock, away, ran, pr, ju, ap, bounds>>

\* MUTANT of Regained: the owner's value is not put back.
RegainedNot == value
\* Whoever wrote over the owner's value meanwhile is undone.
Regained == [value EXCEPT ![ow.key] = ow.new]

OwHook ==
  /\ ow.at = "hook" /\ lock = "free"
  /\ lock' = "ow"
  /\ value' = Regained
  /\ ow' = [ow EXCEPT !.at = "insert"]
  /\ UNCHANGED <<day, rows, away, ran, pr, ju, ap, bounds, history>>

\* MUTANT of ManualUntil: the owner's write freezes nothing.
ManualUntilNone == 0
ManualUntil == Until(ManualFreeze)

OwInserts ==
  /\ ow.at = "insert"
  /\ rows' = Append(rows, Row(ow.key, ow.prev, ow.new, "manual", ManualUntil, ow.batch))
  /\ owned' = [owned EXCEPT ![ow.key].until = Until(ManualFreeze)]
  /\ ow' = [ow EXCEPT !.at = "supersede", !.row = Len(rows) + 1]
  /\ UNCHANGED <<day, value, lock, away, ran, pr, ju, ap, bounds, exposed>>

\* The hook swallows a statement that fails, and leaves the rest undone. Without the
\* insert the ledger never learns of the decision.
OwHookFails ==
  /\ ow.at \in {"insert", "supersede"} /\ troubles < MaxTroubles
  /\ troubles' = troubles + 1
  /\ exposed' = IF ow.at = "insert" THEN exposed \cup {ow.key} ELSE exposed
  /\ ow' = [ow EXCEPT !.at = "done"] /\ lock' = "free"
  /\ UNCHANGED <<day, value, rows, away, ran, pr, ju, ap, proposals, writes, owned>>

Superseded == {i \in Evaluating : rows[i].key = ow.key}
OwSupersedes ==
  /\ ow.at = "supersede"
  /\ rows' = [i \in DOMAIN rows |->
                IF i \in Superseded
                THEN [rows[i] EXCEPT !.status = "superseded_manual", !.by = ow.row] ELSE rows[i]]
  /\ ow' = [ow EXCEPT !.at = "done"] /\ lock' = "free"
  /\ UNCHANGED <<day, value, away, ran, pr, ju, ap, bounds, history>>

OwEnds == /\ ow.at = "done" /\ ow' = OwIdle
          /\ UNCHANGED <<day, value, rows, lock, away, ran, pr, ju, ap, bounds, history>>

\* A later setting of the batch is refused, and this one is put back, over whatever an
\* activity has written since.
OwUndo ==
  /\ ow.at = "done" /\ ow.batch
  /\ value' = [value EXCEPT ![ow.key] = ow.prev]
  /\ ow' = [ow EXCEPT !.at = "undo"]
  /\ UNCHANGED <<day, rows, lock, away, ran, pr, ju, ap, bounds, history>>

\* _undo_batch_manual takes the newest manual row written by a batch for its own.
\* If this write left none, that is an earlier decision of the owner. The row it opens
\* again may find another one under evaluation: it does not look.
Undone == {i \in Manuals(ow.key) : rows[i].batch /\ \A j \in Manuals(ow.key) : rows[j].batch => j <= i}
Reopened == {i \in Ids(ow.key) : rows[i].status = "superseded_manual" /\ rows[i].by \in Undone}
OwUndoes ==
  /\ ow.at = "undo" /\ lock = "free"
  /\ rows' = [i \in DOMAIN rows |->
                IF i \in Undone THEN [rows[i] EXCEPT !.status = "deleted"]
                ELSE IF i \in Reopened
                     THEN [rows[i] EXCEPT !.status = "evaluating", !.by = 0, !.deferred = 0]
                     ELSE rows[i]]
  /\ exposed' = IF Undone \ {ow.row} # {} \/ ow.met THEN exposed \cup {ow.key} ELSE exposed
  /\ owned' = [owned EXCEPT ![ow.key] = ow.was]
  /\ ow' = OwIdle
  /\ UNCHANGED <<day, value, lock, away, ran, pr, ju, ap, bounds>>

OwnerWrite == OwWrites \/ OwHook \/ OwInserts \/ OwSupersedes \/ OwEnds \/ OwUndo \/ OwUndoes


----------------------------------------------------------------------------
(* rollback: the same steps for the judge (`ju`) and for the owner (`ap`) *)

Reverts(i) == rows[i].status \in {"evaluating", "kept"}
\* Refused once the key has a newer row, or its setting another value.
Current(i) == i = Newest(Ids(rows[i].key)) /\ value[rows[i].key] = rows[i].new

\* MUTANT of Refused: the judge leaves the row as it is.
RefusedOpen(who) == RbIdle
\* What a refusal leaves to do.
Refused(who) == IF who = "ju" THEN [ju EXCEPT !.at = "close"] ELSE RbIdle

RbTakes(who, at, at2) ==
  /\ at.at = "take" /\ lock = "free"
  /\ IF Current(at.id) THEN lock' = who /\ at2 = [at EXCEPT !.at = "restore"]
     ELSE lock' = "free" /\ at2 = Refused(who)
  /\ UNCHANGED <<day, value, rows, away, ran, ow, pr, bounds, history>>

\* The lock is released here, before the row is marked.
RbRestores(at, at2) ==
  /\ at.at = "restore"
  /\ value' = [value EXCEPT ![rows[at.id].key] = rows[at.id].old]
  /\ lock' = "free"
  /\ at2 = [at EXCEPT !.at = "mark"] /\ ow' = Meets(rows[at.id].key)
  /\ UNCHANGED <<day, rows, away, ran, pr, bounds, history>>

RbMarks(at, at2) ==
  /\ at.at = "mark"
  /\ rows' = [Marked(at.id, "rolled_back") EXCEPT ![at.id].frozen = Until(RollbackFreeze)]
  /\ at2 = RbIdle
  /\ UNCHANGED <<day, value, lock, away, ran, ow, pr, bounds, history>>

Rollback(who, at, at2) == RbTakes(who, at, at2) \/ RbRestores(at, at2) \/ RbMarks(at, at2)

ApBegins(i) ==
  /\ ap.at = "idle" /\ troubles < MaxTroubles
  /\ Reverts(i)
  /\ troubles' = troubles + 1
  /\ ap' = [at |-> "take", id |-> i, deferred |-> 0]
  /\ UNCHANGED <<day, value, rows, lock, away, ran, ow, pr, ju, proposals, writes, history>>

ApRollback == Rollback("ap", ap, ap') /\ UNCHANGED ju

----------------------------------------------------------------------------
(* The judge's daily job: it works, for up to half an hour, on the row as it *)
(* read it at the start.                                                      *)

JuStarts ==
  /\ ju.at = "idle" /\ ~ran
  /\ \E i \in Evaluating :
       /\ \A j \in Evaluating : j <= i
       /\ ju' = [at |-> "judge", id |-> i, deferred |-> rows[i].deferred]
  /\ ran' = TRUE
  /\ UNCHANGED <<day, value, rows, lock, away, ow, pr, ap, bounds, history>>

Due == day >= rows[ju.id].day + Verdict /\ ~away

\* A tripped wire, at any age of the change, or the verdict.
JuReverts ==
  /\ ju.at = "judge"
  /\ ju' = IF Reverts(ju.id) THEN [ju EXCEPT !.at = "take"] ELSE Refused("ju")
  /\ UNCHANGED <<day, value, rows, lock, away, ran, ow, pr, ap, bounds, history>>

JuWaits ==
  /\ ju.at = "judge" /\ ~Due
  /\ ju' = RbIdle
  /\ UNCHANGED <<day, value, rows, lock, away, ran, ow, pr, ap, bounds, history>>

\* Another replay holds the replay lock.
JuBusy ==
  /\ ju.at = "judge" /\ Due /\ troubles < MaxTroubles
  /\ troubles' = troubles + 1
  /\ rows' = [rows EXCEPT ![ju.id].deferred = ju.deferred, ![ju.id].by = 0]
  /\ ju' = RbIdle
  /\ UNCHANGED <<day, value, lock, away, ran, ow, pr, ap, proposals, writes, history>>

\* Too few replayed days; the last deferral keeps the change.
JuDefers ==
  /\ ju.at = "judge" /\ Due /\ ju.deferred < MaxDeferrals
  /\ rows' = [rows EXCEPT ![ju.id].deferred = ju.deferred + 1, ![ju.id].by = 0]
  /\ ju' = RbIdle
  /\ UNCHANGED <<day, value, lock, away, ran, ow, pr, ap, bounds, history>>

JuKeeps ==
  /\ ju.at = "judge" /\ Due
  /\ ju' = IF rows[ju.id].status = "evaluating" THEN [ju EXCEPT !.at = "keep"] ELSE RbIdle
  /\ UNCHANGED <<day, value, rows, lock, away, ran, ow, pr, ap, bounds, history>>

\* Without the lock: whatever became of the row since keep looked is overwritten.
JuKept ==
  /\ ju.at = "keep"
  /\ rows' = Marked(ju.id, "kept")
  /\ exposed' = IF rows[ju.id].status = "evaluating" THEN exposed ELSE exposed \cup {rows[ju.id].key}
  /\ ju' = RbIdle
  /\ UNCHANGED <<day, value, lock, away, ran, ow, pr, ap, bounds, owned>>

JuCloses ==
  /\ ju.at = "close"
  /\ rows' = Marked(ju.id, "superseded_manual")
  /\ ju' = RbIdle
  /\ UNCHANGED <<day, value, lock, away, ran, ow, pr, ap, bounds, history>>

JuRollback == Rollback("ju", ju, ju') /\ UNCHANGED ap

Judge == JuStarts \/ JuReverts \/ JuWaits \/ JuDefers \/ JuKeeps \/ JuKept \/ JuCloses \/ JuRollback

----------------------------------------------------------------------------
(* The days, the household and the process *)

Idle == ow.at = "idle" /\ pr.at = "idle" /\ ju.at = "idle" /\ ap.at = "idle"

\* No activity lasts from one day to the next. The last day repeats itself.
Tick ==
  /\ Idle
  /\ day' = IF day < MaxDay THEN day + 1 ELSE day
  /\ ran' = FALSE
  /\ UNCHANGED <<value, rows, lock, away, threads, bounds, history>>

Leave ==
  /\ ~away /\ troubles < MaxTroubles
  /\ away' = TRUE /\ troubles' = troubles + 1
  /\ UNCHANGED <<day, value, rows, lock, ran, threads, proposals, writes, history>>

Return == away /\ away' = FALSE
          /\ UNCHANGED <<day, value, rows, lock, ran, threads, bounds, history>>

\* A setting is written before its row is, and nothing at start-up compares the two.
Unrecorded ==
  {k \in Keys :
    \/ ow.at \in {"hook", "insert", "undo"} /\ ow.key = k
    \/ pr.at = "record" /\ pr.key = k
    \/ \E t \in {ju, ap} : t.at = "mark" /\ rows[t.id].key = k}

Crash ==
  /\ ~Idle /\ troubles < MaxTroubles
  /\ troubles' = troubles + 1
  /\ exposed' = exposed \cup Unrecorded
  /\ ow' = OwIdle /\ pr' = PrIdle /\ ju' = RbIdle /\ ap' = RbIdle /\ lock' = "free"
  /\ UNCHANGED <<day, value, rows, away, ran, proposals, writes, owned>>

Init ==
  /\ day = 1 /\ rows = <<>> /\ lock = "free" /\ away = FALSE /\ ran = FALSE
  /\ value \in [Keys -> Starts]
  /\ ow = OwIdle /\ pr = PrIdle /\ ju = RbIdle /\ ap = RbIdle
  /\ proposals = 0 /\ writes = 0 /\ troubles = 0
  /\ owned = [k \in Keys |-> [value |-> value[k], until |-> 0]]
  /\ exposed = {}

Next ==
  \/ \E k \in Keys, v \in Values :
       PrTakes(k, v) \/ \E b \in BOOLEAN : OwBegins(k, v, b)
  \/ \E i \in DOMAIN rows : ApBegins(i)
  \/ Propose \/ PrRecordFails \/ OwnerWrite \/ OwHookFails \/ ApRollback
  \/ Judge \/ JuBusy
  \/ Tick \/ Leave \/ Return \/ Crash

\* Threads go on, days pass with their job, trips end.
Fairness ==
  /\ WF_vars(Propose) /\ WF_vars(OwnerWrite) /\ WF_vars(ApRollback) /\ WF_vars(Judge)
  /\ WF_vars(Tick) /\ WF_vars(Return)

Spec == Init /\ [][Next]_vars
FairSpec == Spec /\ Fairness

----------------------------------------------------------------------------
(* Properties *)

LedgerRow == [key : Keys, old : Values, new : Values, status : Statuses, day : Nat,
              frozen : Nat, by : Nat, batch : BOOLEAN, deferred : Nat]
SettingsOK ==
  /\ day \in Nat /\ away \in BOOLEAN /\ ran \in BOOLEAN
  /\ value \in [Keys -> Values]
  /\ lock \in {"free", "ow", "pr", "ju", "ap"}
  /\ proposals \in Nat /\ writes \in Nat /\ troubles \in Nat
  /\ owned \in [Keys -> [value : Values, until : Nat]]
  /\ exposed \subseteq Keys
RowsOK == rows \in Seq(LedgerRow) /\ \A i \in DOMAIN rows : rows[i].by <= Len(rows)
OwOK ==
  /\ ow \in [at : {"idle", "write", "hook", "insert", "supersede", "done", "undo"},
             key : Keys \cup {NoKey}, new : Nat, prev : Nat, batch : BOOLEAN, row : Nat,
             met : BOOLEAN, was : [value : Nat, until : Nat]]
  /\ ow.at # "idle" => /\ ow.key \in Keys /\ {ow.new, ow.prev, ow.was.value} \subseteq Values
                       /\ ow.row <= Len(rows)
PrOK ==
  /\ pr \in [at : {"idle", "recheck", "write", "record"}, key : Keys \cup {NoKey},
             new : Nat, cur : Nat]
  /\ pr.at # "idle" => pr.key \in Keys /\ {pr.new, pr.cur} \subseteq Values
RbOK(t) == /\ t \in [at : {"idle", "judge", "take", "restore", "mark", "keep", "close"},
                      id : Nat, deferred : Nat]
           /\ t.at # "idle" => t.id \in DOMAIN rows

\* What an activity has in hand exists: its setting, its value, the row it works on.
TypeOK == SettingsOK /\ RowsOK /\ OwOK /\ PrOK /\ RbOK(ju) /\ RbOK(ap)

Explained(k) ==
  LET r == rows[Newest(Ids(k))] IN
  CASE r.status \in {"evaluating", "kept", "manual"} -> value[k] = r.new
    [] r.status = "rolled_back" -> value[k] = r.old
    [] OTHER -> TRUE

\* Between two calls a setting is what its newest row says of it, whoever wrote over
\* whom: the judge, the drift cap and the freezes go by the ledger alone.
LedgerTrue == Idle => \A k \in Keys \ exposed : Ids(k) = {} \/ Explained(k)

\* The tuner never ends up further than max_drift from what the owner last chose,
\* however many steps it takes and whatever the owner overwrote.
DriftBounded ==
  \A k \in Keys \ exposed : ow.key # k => Distance(value[k], owned[k].value) <= Cap

\* As long as the owner's freeze lasts the setting is what the owner chose, whoever was
\* writing it when the owner did, and whatever was to be rolled back.
FreezeKept ==
  \A k \in Keys \ exposed :
    ow.key # k /\ day < owned[k].until => value[k] = owned[k].value

\* "One change at a time", so that a judged week has one cause. The code does not keep
\* it: undoing a failed batch opens the change again that the batch had ended, and does
\* not look whether another one has come under evaluation (_undo_batch_manual). What is
\* checked is that nothing else does this: not a proposal, the judge, a rollback or a
\* stop, nor an undo that finds nothing under evaluation (of a setting that the ledger
\* has lost track of, it may open two).
OneChange ==
  [][ \/ Evaluating' \subseteq Evaluating
      \/ \A i, j \in Evaluating' : i = j
      \/ OwUndoes /\ (Evaluating # {} \/ ow.key \in exposed) ]_vars

\* A change under evaluation gets its verdict: deferrals run out, and a rollback that is
\* refused closes the row instead of being "replayed daily".
Judged == Evaluating # {} ~> Evaluating = {}
=============================================================================
