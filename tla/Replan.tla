------------------------------- MODULE Replan -------------------------------
(***************************************************************************)
(* The LWT rows of action_schedule between the two threads that work on    *)
(* them. A dispatch (write_daikin_from_lp_plan, under the dispatch lock)   *)
(* clears the pending rows over its window and writes the windows of its   *)
(* plan, each with the row that restores the offset after it. A heartbeat  *)
(* plays a snapshot of today's rows and then resets an offset that no row  *)
(* accounts for. Around them: the consent of the plan with its expiry, the *)
(* owner who approves, rejects or turns the offset by hand, restarts.      *)
(*                                                                         *)
(* Instants are parts of a slot; instant t is the time just after t. The   *)
(* clock stands still inside a heartbeat and while a dispatch writes, both *)
(* a matter of seconds, but not while it solves. The mode is active, the   *)
(* pre-heat on; the device is read without lag (DaikinTank has the lag).   *)
(***************************************************************************)
EXTENDS Integers

CONSTANTS
  Offsets,     \* the offsets of a window, 0 among them
  SlotLen,     \* instants in half an hour
  RestoreLen,  \* LP_RESTORE_WINDOW_MINUTES
  Lead,        \* RESTORE_PRESERVE_LEAD_MINUTES
  Grace,       \* DAIKIN_OVERRIDE_GRACE_SECONDS
  Respect,     \* USER_OVERRIDE_RESPECT_HOURS
  Expiry,      \* PLAN_CONSENT_EXPIRY_SECONDS
  Midnight,    \* where the local date changes, a slot's start
  Warmup,      \* today's DHW_WARMUP_START_HOUR_LOCAL, a slot's start
  Settings,    \* the values of PLAN_AUTO_APPROVE and DHW_FIXED_SCHEDULE_ENABLED looked at
  Horizon,     \* where the plans end, a slot's start
  MaxTime,     \* bound of the clock: its last instant stands for all later ones
  MaxPlans,    \* bound: dispatches
  MaxTroubles  \* bound: failed calls and dispatches, restarts, gestures and rejections
               \* together

ASSUME TimesAssumption ==
  /\ {SlotLen, RestoreLen, Grace} \subseteq Nat \ {0}
  /\ {Lead, Respect, Expiry, Midnight, Warmup, Horizon, MaxTime} \subseteq Nat
  /\ \A t \in {Midnight, Warmup, Horizon} : t % SlotLen = 0
ASSUME OffsetsAssumption == 0 \in Offsets /\ Offsets \subseteq Int
ASSUME SettingsAssumption == Settings \subseteq [auto : BOOLEAN, fixed : BOOLEAN]
ASSUME BoundsAssumption  == MaxPlans \in Nat /\ MaxTroubles \in Nat

Never == -1   \* no flag, no expiry
NoRow == 0    \* no link
Times == 0..MaxTime
Dates == {1, 2}
Kinds == {"lwt_preheat", "restore"}

VARIABLES
  now,       \* the clock
  rows,      \* action_schedule, the LWT rows of it
  seq,       \* the next id (AUTOINCREMENT)
  offset,    \* the LWT offset of the device
  first,     \* _FIRST_APPLIED_SESSION
  consent,   \* plan_consent, by plan date
  setting,   \* of PLAN_AUTO_APPROVE, and of DHW_FIXED_SCHEDULE_ENABLED, whose K1 branch
             \* clears more
  rp,        \* the dispatch at work
  hb,        \* the heartbeat at work
  plans, troubles

vars   == <<now, rows, seq, offset, first, consent, setting, rp, hb, plans, troubles>>
world  == <<now, setting, plans>>

Date(t)      == IF t < Midnight THEN 1 ELSE 2
Open(r)      == r.st \in {"pending", "active"}
Covers(r, t) == r.at <= t /\ t < r.to
InFlight(r)  == r.st = "pending" /\ Covers(r, now)

Row == [id : Nat \ {0}, kind : Kinds, at : Nat, to : Nat, off : Offsets,
        st : {"pending", "active", "completed", "failed"}, link : Nat, date : Dates,
        flag : Times \cup {Never}]
\* A window of a plan, and whether a restore row follows it.
Window == [at : Nat, to : Nat, off : Offsets, back : BOOLEAN]

RpPlaces == {"idle", "solving", "preserve", "delete", "plan", "return", "write", "main",
             "consent", "propose", "approve"}
RpIdle == [at |-> "idle", from |-> 0, snap |-> {}, keep |-> {}, todo |-> {},
           back |-> NoRow, putting |-> FALSE, ok |-> TRUE]
HbIdle == [at |-> "idle", boot |-> FALSE, todo |-> {}, planned |-> FALSE]
RpStates == [at : RpPlaces, from : Nat, snap : SUBSET Window, keep : SUBSET Nat,
             todo : SUBSET Window, back : Nat, putting : BOOLEAN, ok : BOOLEAN]
HbStates == [at : {"idle", "rows", "call", "reset"}, boot : BOOLEAN, todo : SUBSET Row,
             planned : BOOLEAN]

TypeOK ==
  /\ now \in Times /\ seq \in Nat \ {0} /\ offset \in Offsets
  /\ \A r \in rows \cup hb.todo : r \in Row /\ r.id < seq
  /\ DOMAIN first \subseteq 1..(seq - 1) /\ \A i \in DOMAIN first : first[i] \in Times
  /\ consent \in [Dates -> [st : {"none", "pending_approval", "approved", "rejected"},
                            exp : Nat \cup {Never}]]
  /\ setting \in Settings
  /\ rp \in RpStates /\ rp.back < seq /\ hb \in HbStates
  /\ plans \in 0..MaxPlans /\ troubles \in 0..MaxTroubles

Init ==
  /\ now = 0 /\ rows = {} /\ seq = 1 /\ offset = 0 /\ first = [i \in {} |-> 0]
  /\ consent = [d \in Dates |-> [st |-> "none", exp |-> Never]]
  /\ setting \in Settings
  /\ rp = RpIdle /\ hb = HbIdle /\ plans = 0 /\ troubles = 0

Trouble == troubles < MaxTroubles /\ troubles' = troubles + 1
Earliest(S) == CHOOSE r \in S : \A s \in S : r.at < s.at \/ (r.at = s.at /\ r.id <= s.id)

----------------------------------------------------------------------------
(* db.py *)

\* MUTANT of Upserted: a plain INSERT when the slot has been handled.
UpsertedAnyway(kind, at, to, off, link, d) ==
  LET open == {r \in rows : r.kind = kind /\ r.at = at /\ r.st = "pending" /\ ~InFlight(r)}
  IN IF open = {}
     THEN rows \cup {[id |-> seq, kind |-> kind, at |-> at, to |-> to, off |-> off,
                      st |-> "pending", link |-> link, date |-> d, flag |-> Never]}
     ELSE (rows \ open) \cup {[r EXCEPT !.date = d, !.to = to, !.off = off, !.link = link] : r \in open}
\* upsert_action: the row of the natural key is refreshed while it is pending and not
\* in flight, left as it is when it has been handled, inserted when there is none.
Upserted(kind, at, to, off, link, d) ==
  LET same == {r \in rows : r.kind = kind /\ r.at = at}
      open == {r \in same : r.st = "pending" /\ ~InFlight(r)}
  IN IF same = {}
     THEN rows \cup {[id |-> seq, kind |-> kind, at |-> at, to |-> to, off |-> off,
                      st |-> "pending", link |-> link, date |-> d, flag |-> Never]}
     ELSE (rows \ open) \cup {[r EXCEPT !.date = d, !.to = to, !.off = off, !.link = link] : r \in open}

\* The id upsert_action returns.
IdOf(kind, at) ==
  LET same == {r \in rows : r.kind = kind /\ r.at = at}
  IN IF same = {} THEN seq ELSE (CHOOSE r \in same : TRUE).id

\* MUTANT of NextSeq: the id of an insert is not used up, that of a refresh is.
NextSeqSwapped(kind, at) == IF IdOf(kind, at) = seq THEN seq ELSE seq + 1
\* AUTOINCREMENT: an insert uses up an id, which no later row gets again.
NextSeq(kind, at) == IF IdOf(kind, at) = seq THEN seq + 1 ELSE seq

\* mark_action, of nothing when the row is gone.
Marked(id, st) == {IF r.id = id THEN [r EXCEPT !.st = st] ELSE r : r \in rows}

\* The pending rows that start within the range of the clear.
InRange(lo, hi) == {r \in rows : r.st = "pending" /\ lo <= r.at /\ r.at < hi}

\* MUTANT of Preserved: a row under way is not, only what active rows need (issue #27).
PreservedActive(lo, hi) == {r.link : r \in {r \in rows : r.st = "active"}}
\* _preserve_daikin_pending_ids_in_range.
Preserved(lo, hi) ==
  LET flying == {r \in InRange(lo, hi) : InFlight(r)}
  IN {r.link : r \in {r \in rows : r.st = "active"} \cup flying} \cup {r.id : r \in flying}
     \cup {r.id : r \in {r \in InRange(lo, hi) : r.kind = "restore" /\ r.at <= now + Lead}}

----------------------------------------------------------------------------
(* A dispatch: lp_dispatch.py, under optimizer_dispatch_lock *)

Goes(place) == rp' = [rp EXCEPT !.at = place]
\* The rows go under the date of the plan's first slot.
PlanDate == Date(rp.from)

\* _resolve_plan_window: from the next half hour.
SolveStart ==
  /\ rp.at = "idle" /\ plans < MaxPlans /\ ~hb.boot
  /\ LET from == SlotLen * (now \div SlotLen + 1)
     IN from < Horizon /\ rp' = [RpIdle EXCEPT !.at = "solving", !.from = from]
  /\ plans' = plans + 1
  /\ UNCHANGED <<now, rows, seq, offset, first, consent, setting, hb, troubles>>

\* _snapshot_pending_lwt_rows, over the plan's window.
Snapshot ==
  /\ rp.at = "solving"
  /\ LET range == InRange(rp.from, Horizon)
     IN rp' = [rp EXCEPT !.at = "preserve", !.snap =
          {[at |-> r.at, to |-> r.to, off |-> r.off, back |-> \E s \in range : s.id = r.link] :
             r \in {r \in range : r.kind = "lwt_preheat"}}]
  /\ UNCHANGED <<rows, seq, offset, first, consent, hb, troubles, world>>

\* Both ends of the clear: the K1 branch goes from today's warm-up to the one after next.
ClearFrom == IF setting.fixed /\ PlanDate = 1 /\ Warmup < rp.from THEN Warmup ELSE rp.from
ClearTo   == IF setting.fixed THEN MaxTime + SlotLen ELSE Horizon

\* clear_actions_in_range, the two times it holds the lock of the database.
Preserve ==
  /\ rp.at = "preserve"
  /\ rp' = [rp EXCEPT !.at = "delete", !.keep = Preserved(ClearFrom, ClearTo)]
  /\ UNCHANGED <<rows, seq, offset, first, consent, hb, troubles, world>>
Delete ==
  /\ rp.at = "delete"
  /\ rows' = {r \in rows : r \in InRange(ClearFrom, ClearTo) => r.id \in rp.keep}
  /\ rp' = [rp EXCEPT !.at = "plan", !.keep = {}]
  /\ UNCHANGED <<seq, offset, first, consent, hb, troubles, world>>

\* _pairs_from_offsets: a window for each run of equal offsets, and a restore row
\* unless the next window follows at once.
Pairs(f) ==
  LET Runs == {w \in [at : DOMAIN f, to : {t + SlotLen : t \in DOMAIN f}, off : Offsets \ {0}] :
                 /\ \A t \in DOMAIN f : w.at <= t /\ t < w.to => f[t] = w.off
                 /\ w.at < w.to
                 /\ w.at - SlotLen \in DOMAIN f => f[w.at - SlotLen] # w.off
                 /\ w.to \in DOMAIN f => f[w.to] # w.off}
  IN {[at |-> w.at, to |-> w.to, off |-> w.off,
       back |-> \A v \in Runs : v.at < w.to \/ v.at > w.to + RestoreLen] : w \in Runs}

\* _write_lwt_preheat_actions: the windows that fit under the quota, the earliest first;
\* without headroom for one the cleared rows are put back.
Plan ==
  /\ rp.at = "plan"
  /\ LET slots == {t \in rp.from..(Horizon - 1) : t % SlotLen = 0}
     IN \/ \E f \in [slots -> Offsets], cap \in slots \cup {Horizon} :
             rp' = [rp EXCEPT !.at = "write", !.todo = {p \in Pairs(f) : p.at < cap}]
        \/ Goes("return")
  /\ UNCHANGED <<rows, seq, offset, first, consent, hb, troubles, world>>

\* The rows of the plan, or those put back, are being written.
Writing == rp.at \in {"write", "main"} /\ rp.todo # {}

\* An exception in between, some of the plan's rows written or not (written_count is set
\* after the last): the dispatch puts the rows back and fails.
PlanFails ==
  /\ rp.at \in {"preserve", "delete", "plan"} \/ (Writing /\ ~rp.putting)
  /\ Trouble
  /\ rp' = [rp EXCEPT !.at = "return", !.keep = {}, !.todo = {}, !.back = NoRow, !.ok = FALSE]
  /\ UNCHANGED <<rows, seq, offset, first, consent, hb, world>>
\* One while it puts rows back is logged: the rest stays cleared.
PutBackFails ==
  /\ Writing /\ rp.putting /\ Trouble
  /\ rp' = [rp EXCEPT !.at = "write", !.todo = {}, !.back = NoRow]
  /\ UNCHANGED <<rows, seq, offset, first, consent, hb, world>>

\* _restore_lwt_rows: what is left of the snapshot, without the boosts when the demand
\* gate is closed.
Return ==
  /\ rp.at = "return"
  /\ LET Kept(kind) == {r.at : r \in {r \in InRange(rp.from, Horizon) : r.kind = kind}}
     IN \E closed \in BOOLEAN :
          rp' = [rp EXCEPT !.at = "write", !.snap = {}, !.putting = TRUE, !.todo =
            {[p EXCEPT !.back = @ /\ p.to \notin Kept("restore")] :
               p \in {p \in rp.snap : /\ p.to > now /\ p.at \notin Kept("lwt_preheat")
                                      /\ ~(closed /\ p.off > 0)}}]
  /\ UNCHANGED <<rows, seq, offset, first, consent, hb, troubles, world>>

NextPair == CHOOSE p \in rp.todo : \A q \in rp.todo : p.at <= q.at

\* The restore row first, for its id.
WriteBack ==
  /\ rp.at = "write" /\ rp.todo # {}
  /\ LET p == NextPair
     IN IF p.back
        THEN /\ rows' = Upserted("restore", p.to, p.to + RestoreLen, 0, NoRow, PlanDate)
             /\ seq' = NextSeq("restore", p.to)
             /\ rp' = [rp EXCEPT !.at = "main", !.back = IdOf("restore", p.to)]
        ELSE Goes("main") /\ UNCHANGED <<rows, seq>>
  /\ UNCHANGED <<offset, first, consent, hb, troubles, world>>

\* The window's row and update_action_restore_link, whose result only the next dispatch
\* reads.
WriteMain ==
  /\ rp.at = "main"
  /\ LET p  == NextPair
         id == IdOf("lwt_preheat", p.at)
     IN /\ rows' = {IF r.id = id /\ rp.back # NoRow THEN [r EXCEPT !.link = rp.back] ELSE r :
                      r \in Upserted("lwt_preheat", p.at, p.to, p.off, rp.back, PlanDate)}
        /\ seq' = NextSeq("lwt_preheat", p.at)
        /\ rp' = [rp EXCEPT !.at = "write", !.back = NoRow, !.todo = @ \ {p}]
  /\ UNCHANGED <<offset, first, consent, hb, troubles, world>>

WriteEnds ==
  /\ rp.at = "write" /\ rp.todo = {}
  /\ rp' = IF rp.ok THEN [RpIdle EXCEPT !.at = "consent", !.from = rp.from] ELSE RpIdle
  /\ UNCHANGED <<rows, seq, offset, first, consent, hb, troubles, world>>

\* _write_plan_consent: nothing new about a plan whose hash, a digest of the strategy
\* text, is that of the row; the text may well be the same for other rows.
Consider ==
  /\ rp.at = "consent"
  /\ \/ consent[PlanDate].st # "none" /\ rp' = RpIdle
     \/ Goes("propose")
  /\ UNCHANGED <<rows, seq, offset, first, consent, hb, troubles, world>>
Propose ==
  /\ rp.at = "propose"
  /\ consent' = [consent EXCEPT ![PlanDate] = [st |-> "pending_approval", exp |-> now + Expiry]]
  /\ rp' = IF setting.auto THEN [rp EXCEPT !.at = "approve"] ELSE RpIdle
  /\ UNCHANGED <<rows, seq, offset, first, hb, troubles, world>>

\* approve_plan.
Approves(d) ==
  consent' = [consent EXCEPT ![d].st = IF @ = "pending_approval" THEN "approved" ELSE @]
AutoApprove ==
  /\ rp.at = "approve" /\ Approves(PlanDate) /\ rp' = RpIdle
  /\ UNCHANGED <<rows, seq, offset, first, hb, troubles, world>>

Dispatch ==
  \/ Snapshot \/ Preserve \/ Delete \/ Plan \/ Return \/ WriteBack \/ WriteMain
  \/ WriteEnds \/ Consider \/ Propose \/ AutoApprove

----------------------------------------------------------------------------
(* A heartbeat: reconcile_daikin_schedule_for_date *)

\* MUTANT of Justified: the old row justifies the offset until the next takes over.
JustifiedStarted(seen) ==
  \E r \in seen : r.kind = "lwt_preheat" /\ r.at <= now /\ r.flag = Never /\ r.off # 0
\* _check_lwt_offset_drift: a row whose window covers now, whatever its status.
Justified(seen) ==
  \E r \in seen : r.kind = "lwt_preheat" /\ Covers(r, now) /\ r.flag = Never /\ r.off # 0

\* MUTANT of Expired: nobody looks at the expiry.
ExpiredNever(c) == FALSE
Expired(c) == now > c.exp

\* The gate: a plan that awaits its approval holds the tick, until it expires; at boot
\* (recover_on_boot) nobody asks. Then today's rows are read; those the loop has
\* something to do for are the open ones that have begun.
HbStart ==
  /\ hb.at = "idle"
  /\ LET c == consent[Date(now)]
     IN \/ (hb.boot \/ c.st # "pending_approval") /\ UNCHANGED consent
        \/ ~hb.boot /\ c.st = "pending_approval" /\ Expired(c) /\ Approves(Date(now))
  /\ LET seen == {r \in rows : r.date = Date(now)}
     IN hb' = [hb EXCEPT !.at = "rows", !.planned = Justified(seen),
                         !.todo = {r \in seen : Open(r) /\ r.at <= now}]
  /\ UNCHANGED <<rows, seq, offset, first, rp, troubles, world>>

\* Without the device there is nothing to reconcile at boot. (Nor is there, after the
\* rows, for _recover_missed_restores: the loop has completed what it looks for.)
BootBlind ==
  /\ hb.at = "idle" /\ hb.boot /\ hb' = HbIdle
  /\ UNCHANGED <<rows, seq, offset, first, consent, rp, troubles, world>>

NextRow == Earliest(hb.todo)
RowDone == hb' = [hb EXCEPT !.todo = @ \ {NextRow}]
\* find_recent_user_override: the newest of the flagged rows that are still respected.
Respected == {r \in rows : r.flag # Never /\ (r.flag >= now - Respect \/ r.to > now)}
\* user_gesture_still_in_effect, for the newest of them other than row id.
Gestured(id) ==
  \E r \in Respected : /\ \A s \in Respected : s.flag <= r.flag
                       /\ r.id # id /\ offset # r.off

\* A flagged row is left alone, and any row is completed, when its window is over.
RowEnds ==
  /\ hb.at = "rows" /\ hb.todo # {} /\ (NextRow.flag # Never \/ now >= NextRow.to)
  /\ rows' = IF now >= NextRow.to THEN Marked(NextRow.id, "completed") ELSE rows
  /\ RowDone
  /\ UNCHANGED <<seq, offset, first, consent, rp, troubles, world>>

Playing == hb.at = "rows" /\ hb.todo # {} /\ NextRow.flag = Never /\ now < NextRow.to

\* The device has the offset already: "noop (state matched pre-fire)".
RowMatches ==
  /\ Playing /\ offset = NextRow.off
  /\ rows' = Marked(NextRow.id, "completed") /\ RowDone
  /\ UNCHANGED <<seq, offset, first, consent, rp, troubles, world>>

\* A gesture of the owner on another row still shows; restore rows do not look.
Inherits == NextRow.kind # "restore" /\ Gestured(NextRow.id)
\* detect_user_override.
Detects ==
  NextRow.id \in DOMAIN first /\ now - first[NextRow.id] >= Grace

RowFlags ==
  /\ Playing /\ offset # NextRow.off /\ (Inherits \/ Detects)
  /\ rows' = {IF r.id = NextRow.id THEN [r EXCEPT !.st = "active", !.flag = now] ELSE r : r \in rows}
  /\ RowDone
  /\ UNCHANGED <<seq, offset, first, consent, rp, troubles, world>>

\* The row is marked active, then the call is made.
RowCalls ==
  /\ Playing /\ offset # NextRow.off /\ ~Inherits /\ ~Detects
  /\ rows' = Marked(NextRow.id, "active")
  /\ hb' = [hb EXCEPT !.at = "call"]
  /\ UNCHANGED <<seq, offset, first, consent, rp, troubles, world>>
CallSucceeds ==
  /\ hb.at = "call"
  /\ offset' = NextRow.off
  /\ first' = [i \in DOMAIN first \cup {NextRow.id} |-> IF i \in DOMAIN first THEN first[i] ELSE now]
  /\ hb' = [hb EXCEPT !.at = "rows", !.todo = @ \ {NextRow}]
  /\ UNCHANGED <<rows, seq, consent, rp, troubles, world>>
\* set_lwt_offset fails or its answer is lost: the row is not tried again.
CallFails ==
  /\ hb.at = "call" /\ Trouble
  /\ offset' \in {offset, NextRow.off}
  /\ rows' = Marked(NextRow.id, "failed")
  /\ hb' = [hb EXCEPT !.at = "rows", !.todo = @ \ {NextRow}]
  /\ UNCHANGED <<seq, first, consent, rp, world>>

HbTail ==
  /\ hb.at = "rows" /\ hb.todo = {}
  /\ hb' = IF offset # 0 /\ ~hb.planned /\ ~Gestured(NoRow)
           THEN [hb EXCEPT !.at = "reset"] ELSE HbIdle
  /\ UNCHANGED <<rows, seq, offset, first, consent, rp, troubles, world>>
DriftReset ==
  /\ hb.at = "reset" /\ hb' = HbIdle
  /\ \/ offset' = 0 /\ UNCHANGED troubles
     \/ Trouble /\ offset' \in {0, offset}
  /\ UNCHANGED <<rows, seq, first, consent, rp, world>>

Heartbeat ==
  \/ HbStart \/ BootBlind \/ RowEnds \/ RowMatches \/ RowFlags \/ RowCalls \/ CallSucceeds
  \/ HbTail \/ DriftReset

----------------------------------------------------------------------------
(* The owner, the clock, restarts *)

\* confirm_plan, approve_optimization_plan.
Approve(d) ==
  /\ consent[d].st = "pending_approval" /\ Approves(d)
  /\ UNCHANGED <<rows, seq, offset, first, rp, hb, troubles, world>>
\* reject_plan: the pending rows of the date go, whatever the status.
Reject(d) ==
  /\ consent[d].st # "none" /\ Trouble
  /\ rows' = {r \in rows : r.date # d \/ r.st # "pending"}
  /\ consent' = [consent EXCEPT ![d].st = IF @ = "pending_approval" THEN "rejected" ELSE @]
  /\ UNCHANGED <<seq, offset, first, rp, hb, world>>
\* The owner turns the offset by hand.
Gesture ==
  /\ Trouble /\ offset' \in Offsets \ {offset}
  /\ UNCHANGED <<rows, seq, first, consent, rp, hb, world>>

\* A solve takes less than half an hour: its window begins at most one instant before.
Tick ==
  /\ now < MaxTime /\ hb.at = "idle" /\ rp.at \in {"idle", "solving"}
  /\ rp.at = "solving" => now <= rp.from
  /\ now' = now + 1
  /\ UNCHANGED <<rows, seq, offset, first, consent, setting, rp, hb, plans, troubles>>

\* The process stops and is started again.
Restart ==
  /\ Trouble /\ rp' = RpIdle /\ hb' = [HbIdle EXCEPT !.boot = TRUE] /\ first' = [i \in {} |-> 0]
  /\ UNCHANGED <<rows, seq, offset, consent, world>>

Owner == \E d \in Dates : Approve(d) \/ Reject(d)

Next ==
  \/ SolveStart \/ Dispatch \/ PlanFails \/ PutBackFails \/ Heartbeat \/ CallFails
  \/ Owner \/ Gesture \/ Tick \/ Restart

\* A dispatch goes on, heartbeats recur. The clock runs between them.
Fairness == WF_vars(Dispatch) /\ WF_vars(Heartbeat) /\ SF_vars(Tick)

Spec == Init /\ [][Next]_vars
FairSpec == Spec /\ Fairness

----------------------------------------------------------------------------
(* Properties *)

\* No slot has two rows of one kind: a window that has been played is not written
\* again for a later tick to play (the eighteen warm-ups of one day).
OneRowPerSlot ==
  \A r, s \in rows : r.kind = s.kind /\ r.at = s.at => r = s

\* A dispatch neither removes nor changes a row under way (issue #27).
UnderWayKept ==
  [][ Dispatch =>
        \A r \in rows : Open(r) /\ Covers(r, now) =>
          \E s \in rows' : s = [r EXCEPT !.link = s.link] ]_vars

\* Planned: a window of today's rows covers now.
Planned == \E r \in rows : r.kind = "lwt_preheat" /\ Covers(r, now)

\* An offset that outlives its window, because its restore row was cleared, rejected,
\* dropped with the window after it, missed or failed, or because the owner left it, is
\* reset.
OffsetReturns == (offset # 0 /\ ~Planned) ~> (offset = 0 \/ Planned)

\* The heartbeats are not held for ever by a plan nobody answers.
HoldEnds ==
  consent[Date(now)].st = "pending_approval" ~> consent[Date(now)].st # "pending_approval"
=============================================================================
