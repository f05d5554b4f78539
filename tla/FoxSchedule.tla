----------------------------- MODULE FoxSchedule -----------------------------
(***************************************************************************)
(* The Fox ESS inverter schedule: who writes it, what SQLite remembers of  *)
(* it, and how the two are brought back together.                          *)
(*                                                                         *)
(* Four writers share the inverter and fox_schedule_state, with no lock    *)
(* between them:                                                           *)
(*   - the uploader, upload_fox_if_operational (scheduler/lp_dispatch.py), *)
(*     serialised with itself by the dispatch lock of its callers;         *)
(*   - the half-hourly repair of the heartbeat                             *)
(*     (heartbeat_repair_fox_scheduler, state_machine.py), and the same    *)
(*     comparison made once by recover_on_boot;                            *)
(*   - the 24 h survival fallback of the tariff fetch                      *)
(*     (_maybe_survival_mode, scheduler/octopus_fetch.py);                 *)
(*   - apply_safe_defaults, at boot and at shutdown.                       *)
(* Every cloud call is a step of its own: it succeeds, or it fails with    *)
(* its effect on the inverter applied or not (the answer may be lost).     *)
(* SQLite writes do not fail.                                              *)
(***************************************************************************)
EXTENDS Naturals, FiniteSets

CONSTANTS
  Plans,        \* the group lists an upload may carry (overlap-free)
  NoPlan,       \* the empty group list
  MaxUploads,   \* bound: uploads started
  MaxTroubles   \* bound: cloud calls that fail, changes the owner makes in the
                \* Fox app, crashes and shutdowns, together

ASSUME PlansAssumption  == NoPlan \notin Plans
ASSUME BoundsAssumption == MaxUploads \in Nat /\ MaxTroubles \in Nat

VARIABLES
  hw,       \* the inverter: its groups, the scheduler flag, Self Use mode
  stored,   \* newest row of fox_schedule_state (kind "none": no row yet)
  intent,   \* newest row of fox_schedule_intent
  sys,      \* phase of the process: down, booting, running, stopping
  up,       \* the uploader thread
  rp,       \* the compare-and-repair of the heartbeat or of the boot
  sv,       \* the survival fallback inside the tariff fetch
  sd,       \* apply_safe_defaults: the leg it is at and the legs that failed
  streak,   \* tariff outage: 0 none, 1 under 24 h, 2 at least 24 h
  survival, \* octopus_fetch_state.survival_mode_since is set
  budget,   \* how often each bounded event has happened
  solo,     \* history: the writer at work started alone and was not disturbed
  dirty     \* history: a disturbance no undisturbed writer has run after

vars == <<hw, stored, intent, sys, up, rp, sv, sd, streak, survival,
          budget, solo, dirty>>

GroupLists == Plans \cup {NoPlan}
Legs == {"flag", "selfUse"}

UploadPcs  == {"idle", "read", "write", "flag", "save", "intent", "fail"}
RepairPcs  == {"idle", "readFlag", "readHw", "flagOn", "readDb", "read", "write", "flag"}
SurvivePcs == {"idle", "flagOff", "saveOff", "selfUse"}
SafePcs    == {"idle", "flag", "selfUse", "flag2", "selfUse2", "save"}
Phases     == {"down", "bootSafe", "bootFox", "bootPlan", "bootEmpty",
                "run", "stopping", "stopped"}

TypeOK ==
  /\ hw \in [groups: GroupLists, flag: BOOLEAN, selfUse: BOOLEAN]
  /\ stored \in [kind: {"none", "on", "off"}, groups: GroupLists]
  /\ intent \in [groups: GroupLists, ok: BOOLEAN]
  /\ sys \in Phases
  /\ up \in [pc: UploadPcs, plan: GroupLists]
  /\ rp \in [pc: RepairPcs, flag: BOOLEAN, groups: GroupLists, plan: GroupLists]
  /\ sv \in SurvivePcs
  /\ sd \in [pc: SafePcs, failed: SUBSET Legs]
  /\ streak \in 0..2
  /\ survival \in BOOLEAN
  /\ budget \in [uploads: 0..MaxUploads, troubles: 0..MaxTroubles]
  /\ solo \in BOOLEAN
  /\ dirty \in BOOLEAN

----------------------------------------------------------------------------
(* The history of disturbances *)

Busy == up.pc # "idle" \/ rp.pc # "idle" \/ sv # "idle" \/ sd.pc # "idle"

\* A writer starts: alone, or beside another one.
Starts   == solo' = ~Busy /\ dirty' = (dirty \/ Busy)
\* A fault, an edit in the app, a crash.
Disturbs == solo' = FALSE /\ dirty' = TRUE
\* A writer reaches its end.
Finishes == solo' = solo /\ dirty' = (dirty /\ ~solo)
Calm     == UNCHANGED <<solo, dirty>>

----------------------------------------------------------------------------
(* Cloud calls *)

Trouble == /\ budget.troubles < MaxTroubles
           /\ budget' = [budget EXCEPT !.troubles = @ + 1]

\* The call succeeds and leaves the inverter as h.
Succeeds(h) == hw' = h /\ UNCHANGED budget
\* The call fails; the inverter may have taken h all the same.
Fails(h) == /\ Trouble
            /\ hw' \in {hw, h}
            /\ Disturbs

WithFlag(b)   == [hw EXCEPT !.flag = b]
WithGroups(g) == [hw EXCEPT !.groups = g]
InSelfUse     == [hw EXCEPT !.selfUse = TRUE]

Live == sys \in {"run", "stopping"}

\* fingerprints_match, and the negation of _fox_schedule_differs. (As the
\* read-back of #23 would have it, only the number of groups would count.)
SameCount(g, h)  == (g = NoPlan) = (h = NoPlan)
SameGroups(g, h) == g = h

----------------------------------------------------------------------------
(* upload_fox_if_operational *)

UploadStart(p) ==
  /\ Live /\ up.pc = "idle"
  /\ budget.uploads < MaxUploads
  /\ budget' = [budget EXCEPT !.uploads = @ + 1]
  /\ up' = [pc |-> "read", plan |-> p]
  /\ Starts
  /\ UNCHANGED <<hw, stored, intent, sys, rp, sv, sd, streak, survival>>

\* set_scheduler_v3 skips the write when its pre-read finds the same groups;
\* the pre-read is itself skipped when the quota is short or the read fails.
UploadRead ==
  /\ up.pc = "read"
  /\ \/ up' = [up EXCEPT !.pc = "write"]
     \/ SameGroups(hw.groups, up.plan) /\ up' = [up EXCEPT !.pc = "flag"]
  /\ Calm
  /\ UNCHANGED <<hw, stored, intent, sys, rp, sv, sd, streak, survival, budget>>

UploadWrite ==
  /\ up.pc = "write"
  /\ \/ /\ Succeeds(WithGroups(up.plan))
        /\ up' = [up EXCEPT !.pc = "flag"]
        /\ Calm
     \/ /\ Fails(WithGroups(up.plan))
        /\ up' = [up EXCEPT !.pc = "fail"]
  /\ UNCHANGED <<stored, intent, sys, rp, sv, sd, streak, survival>>

UploadFlag ==
  /\ up.pc = "flag"
  /\ \/ /\ Succeeds(WithFlag(TRUE))
        /\ up' = [up EXCEPT !.pc = "save"]
        /\ Calm
     \/ /\ Fails(WithFlag(TRUE))
        /\ up' = [up EXCEPT !.pc = "fail"]
  /\ UNCHANGED <<stored, intent, sys, rp, sv, sd, streak, survival>>

\* save_fox_schedule_state(intent, enabled=True)
UploadSave ==
  /\ up.pc = "save"
  /\ stored' = [kind |-> "on", groups |-> up.plan]
  /\ up' = [up EXCEPT !.pc = "intent"]
  /\ Calm
  /\ UNCHANGED <<hw, intent, sys, rp, sv, sd, streak, survival, budget>>

UploadIntent ==
  /\ up.pc = "intent"
  /\ intent' = [groups |-> up.plan, ok |-> TRUE]
  /\ up' = [pc |-> "idle", plan |-> NoPlan]
  /\ Finishes
  /\ UNCHANGED <<hw, stored, sys, rp, sv, sd, streak, survival, budget>>

\* Before #779 a failed upload left no intent.
UploadFailUnrecorded ==
  /\ up.pc = "fail"
  /\ up' = [pc |-> "idle", plan |-> NoPlan]
  /\ Finishes
  /\ UNCHANGED <<hw, stored, intent, sys, rp, sv, sd, streak, survival, budget>>

\* Both handlers record the plan that was not pushed.
UploadFail ==
  /\ up.pc = "fail"
  /\ intent' = [groups |-> up.plan, ok |-> FALSE]
  /\ up' = [pc |-> "idle", plan |-> NoPlan]
  /\ Finishes
  /\ UNCHANGED <<hw, stored, sys, rp, sv, sd, streak, survival, budget>>

Upload == UploadRead \/ UploadWrite \/ UploadFlag \/ UploadSave
            \/ UploadIntent \/ UploadFail

----------------------------------------------------------------------------
(* heartbeat_repair_fox_scheduler, and the same block of recover_on_boot *)

RepairIdle == [pc |-> "idle", flag |-> FALSE, groups |-> NoPlan, plan |-> NoPlan]
Booting == sys = "bootFox"

\* The repair ends; the boot goes on to its last check, and does not survive
\* an exception that is not a FoxESSError.
RepairEnds == /\ rp' = RepairIdle
              /\ sys' = IF Booting THEN "bootPlan" ELSE sys
              /\ Finishes

\* A call of the repair fails with a FoxESSError (handled in place) or with
\* another exception (the heartbeat logs it; it aborts the application start).
RepairCallFails(h) ==
  /\ Fails(h)
  /\ rp' = RepairIdle
  /\ sys' \in IF Booting THEN {"bootPlan", "down"} ELSE {sys}

RepairStart ==
  /\ Live /\ rp.pc = "idle"
  /\ rp' = [RepairIdle EXCEPT !.pc = "readFlag"]
  /\ Starts
  /\ UNCHANGED <<hw, stored, intent, sys, up, sv, sd, streak, survival, budget>>

RepairReadFlag ==
  /\ rp.pc = "readFlag"
  /\ \/ /\ rp' = [rp EXCEPT !.pc = "readHw", !.flag = hw.flag]
        /\ Calm
        /\ UNCHANGED <<hw, sys, budget>>
     \/ RepairCallFails(hw)
  /\ UNCHANGED <<stored, intent, up, sv, sd, streak, survival>>

\* "not flag_on or not hw.enabled": both readings must find the flag on. The
\* boot has no first reading.
RepairReadHw ==
  /\ rp.pc = "readHw"
  /\ \/ /\ rp' = [rp EXCEPT !.pc = "flagOn", !.groups = hw.groups,
                            !.flag = IF Booting THEN hw.flag ELSE rp.flag /\ hw.flag]
        /\ Calm
        /\ UNCHANGED <<hw, sys, budget>>
     \/ RepairCallFails(hw)
  /\ UNCHANGED <<stored, intent, up, sv, sd, streak, survival>>

RepairFlagOn ==
  /\ rp.pc = "flagOn"
  /\ \/ /\ IF rp.flag THEN UNCHANGED <<hw, budget>> ELSE Succeeds(WithFlag(TRUE))
        /\ rp' = [rp EXCEPT !.pc = "readDb"]
        /\ Calm
        /\ UNCHANGED sys
     \/ ~rp.flag /\ RepairCallFails(WithFlag(TRUE))
  /\ UNCHANGED <<stored, intent, up, sv, sd, streak, survival>>

\* get_latest_fox_schedule_state: rows of uploads that landed, not intents.
RepairFromIntent == intent.groups
RepairSource     == stored.groups

\* The comparison sets the newest row against the groups read two calls ago.
RepairReadDb ==
  /\ rp.pc = "readDb"
  /\ IF RepairSource # NoPlan /\ ~SameGroups(rp.groups, RepairSource)
       THEN /\ rp' = [rp EXCEPT !.pc = "read", !.plan = RepairSource]
            /\ Calm
            /\ UNCHANGED sys
       ELSE RepairEnds
  /\ UNCHANGED <<hw, stored, intent, up, sv, sd, streak, survival, budget>>

RepairRead ==
  /\ rp.pc = "read"
  /\ \/ rp' = [rp EXCEPT !.pc = "write"]
     \/ /\ SameGroups(hw.groups, rp.plan)
        /\ rp' = [rp EXCEPT !.pc = "flag"]
  /\ Calm
  /\ UNCHANGED <<hw, stored, intent, sys, up, sv, sd, streak, survival, budget>>

RepairWrite ==
  /\ rp.pc = "write"
  /\ \/ /\ Succeeds(WithGroups(rp.plan))
        /\ rp' = [rp EXCEPT !.pc = "flag"]
        /\ Calm
        /\ UNCHANGED sys
     \/ RepairCallFails(WithGroups(rp.plan))
  /\ UNCHANGED <<stored, intent, up, sv, sd, streak, survival>>

RepairFlagAgain ==
  /\ rp.pc = "flag"
  /\ \/ Succeeds(WithFlag(TRUE)) /\ RepairEnds
     \/ RepairCallFails(WithFlag(TRUE))
  /\ UNCHANGED <<stored, intent, up, sv, sd, streak, survival>>

Repair == RepairReadFlag \/ RepairReadHw \/ RepairFlagOn \/ RepairReadDb
            \/ RepairRead \/ RepairWrite \/ RepairFlagAgain

----------------------------------------------------------------------------
(* The tariff fetch and _maybe_survival_mode *)

\* An outage reaches 24 h.
OutageAges ==
  /\ streak = 1
  /\ streak' = 2
  /\ UNCHANGED <<hw, stored, intent, sys, up, rp, sv, sd, survival, budget>>
  /\ Calm

\* update_octopus_fetch_state(survival_mode_since=None): a None argument adds
\* no assignment to the UPDATE, so the column keeps its value.
SurvivalAfterSuccess == survival

FetchSucceeds ==
  /\ Live /\ sv = "idle"
  /\ streak' = 0
  /\ survival' = SurvivalAfterSuccess
  /\ Calm
  /\ UNCHANGED <<hw, stored, intent, sys, up, rp, sv, sd, budget>>

\* The column is set before the inverter is touched, and gates the fallback.
FetchFails ==
  /\ Live /\ sv = "idle"
  /\ streak' = IF streak = 0 THEN 1 ELSE streak
  /\ IF streak = 2 /\ ~survival
       THEN survival' = TRUE /\ sv' = "flagOff" /\ Starts
       ELSE UNCHANGED <<survival, sv>> /\ Calm
  /\ UNCHANGED <<hw, stored, intent, sys, up, rp, sd, budget>>

SurviveFlagOff ==
  /\ sv = "flagOff"
  /\ \/ Succeeds(WithFlag(FALSE)) /\ sv' = "saveOff" /\ Calm
     \/ Fails(WithFlag(FALSE)) /\ sv' = "idle"
  /\ UNCHANGED <<stored, intent, sys, up, rp, sd, streak, survival>>

SurviveSaveOff ==
  /\ sv = "saveOff"
  /\ stored' = [kind |-> "off", groups |-> NoPlan]
  /\ sv' = "selfUse"
  /\ Calm
  /\ UNCHANGED <<hw, intent, sys, up, rp, sd, streak, survival, budget>>

\* set_work_mode("Self Use") and set_min_soc
SurviveSelfUse ==
  /\ sv = "selfUse"
  /\ sv' = "idle"
  /\ \/ Succeeds(InSelfUse) /\ Finishes
     \/ Fails(InSelfUse)
  /\ UNCHANGED <<stored, intent, sys, up, rp, sd, streak, survival>>

Survive == SurviveFlagOff \/ SurviveSaveOff \/ SurviveSelfUse

----------------------------------------------------------------------------
(* apply_safe_defaults, inverter legs *)

SafeIdle  == [pc |-> "idle", failed |-> {}]
SafeBegin == [pc |-> "flag", failed |-> {}]
BootTrigger == sys \in {"bootSafe", "bootEmpty"}

\* Each leg is tried once; the boot triggers try the failed ones again.
Retries(failed) == IF BootTrigger THEN failed ELSE {}
NextLeg(pc, failed) ==
  CASE pc = "flag" -> "selfUse"
    [] pc = "selfUse" /\ "flag" \in Retries(failed) -> "flag2"
    [] pc \in {"selfUse", "flag2"} /\ "selfUse" \in Retries(failed) -> "selfUse2"
    [] OTHER -> "save"

LegOf(pc) == IF pc \in {"flag", "flag2"} THEN "flag" ELSE "selfUse"
AfterLeg(leg) == IF leg = "flag" THEN WithFlag(FALSE) ELSE InSelfUse

\* Where the caller of apply_safe_defaults goes on.
SafeEnds ==
  /\ sd' = SafeIdle
  /\ sys' = CASE sys = "bootSafe" -> "bootFox"
              [] sys = "bootEmpty" -> "run"
              [] OTHER -> "stopped"

\* set_scheduler_flag(False), then set_work_mode("Self Use") and set_min_soc;
\* on a FoxESSError or a ValueError the other legs go on, any other exception
\* leaves apply_safe_defaults and is logged by its caller.
SafeLeg ==
  /\ sd.pc \notin {"idle", "save"}
  /\ LET leg      == LegOf(sd.pc)
         Go(fs)   == sd' = [pc |-> NextLeg(sd.pc, fs), failed |-> fs] /\ UNCHANGED sys
     IN  \/ Succeeds(AfterLeg(leg)) /\ Go(sd.failed \ {leg}) /\ Calm
         \/ Fails(AfterLeg(leg)) /\ (Go(sd.failed \cup {leg}) \/ SafeEnds)
  /\ UNCHANGED <<stored, intent, up, rp, sv, streak, survival>>

\* The scheduler-off row is written only if the flag leg went through.
SafeSave ==
  /\ sd.pc = "save"
  /\ stored' = IF "flag" \in sd.failed THEN stored
                                       ELSE [kind |-> "off", groups |-> NoPlan]
  /\ SafeEnds
  /\ Finishes
  /\ UNCHANGED <<hw, intent, up, rp, sv, streak, survival, budget>>

SafeDefaults == SafeLeg \/ SafeSave

----------------------------------------------------------------------------
(* The life of the process: lifespan (api/main.py) and recover_on_boot *)

Boot ==
  /\ sys = "down"
  /\ IF survival
       THEN sys' = "bootSafe" /\ sd' = SafeBegin /\ Starts
       ELSE sys' = "bootFox" /\ UNCHANGED sd /\ Calm
  /\ UNCHANGED <<hw, stored, intent, up, rp, sv, streak, survival, budget>>

BootRepair ==
  /\ sys = "bootFox" /\ rp.pc = "idle"
  /\ rp' = [RepairIdle EXCEPT !.pc = "readHw"]
  /\ Starts
  /\ UNCHANGED <<hw, stored, intent, sys, up, sv, sd, streak, survival, budget>>

\* has_plan: a row of fox_schedule_state, or action rows of the day (which
\* this module does not keep, so either answer is possible).
BootPlanCheck ==
  /\ sys = "bootPlan"
  /\ \/ sys' = "run" /\ UNCHANGED sd /\ Calm
     \/ /\ stored.kind = "none" /\ ~survival
        /\ sys' = "bootEmpty" /\ sd' = SafeBegin /\ Starts
  /\ UNCHANGED <<hw, stored, intent, up, rp, sv, streak, survival, budget>>

\* The shutdown forces the safe state while the scheduler's jobs still run.
Shutdown ==
  /\ sys = "run"
  /\ Trouble
  /\ sys' = "stopping" /\ sd' = SafeBegin /\ Starts
  /\ UNCHANGED <<hw, stored, intent, up, rp, sv, streak, survival>>

\* The process ends and every thread with it.
Ends ==
  /\ sys' = "down"
  /\ up' = [pc |-> "idle", plan |-> NoPlan]
  /\ rp' = RepairIdle /\ sv' = "idle" /\ sd' = SafeIdle
  /\ IF Busy THEN Disturbs ELSE Calm
  /\ UNCHANGED <<hw, stored, intent, streak, survival>>

Halt  == sys = "stopped" /\ Ends /\ UNCHANGED budget
Crash == /\ sys # "down" /\ Trouble
         /\ Ends

\* The owner sets the schedule or its switch in the Fox app.
OwnerEdit(g, b) ==
  /\ Trouble
  /\ hw' = [hw EXCEPT !.groups = g, !.flag = b]
  /\ hw' # hw
  /\ Disturbs
  /\ UNCHANGED <<stored, intent, sys, up, rp, sv, sd, streak, survival>>

----------------------------------------------------------------------------

\* The first start of HEM beside an inverter in any state.
Init ==
  /\ hw \in [groups: GroupLists, flag: BOOLEAN, selfUse: {FALSE}]
  /\ stored = [kind |-> "none", groups |-> NoPlan]
  /\ intent = [groups |-> NoPlan, ok |-> FALSE]
  /\ sys = "down"
  /\ up = [pc |-> "idle", plan |-> NoPlan]
  /\ rp = RepairIdle /\ sv = "idle" /\ sd = SafeIdle
  /\ streak = 0 /\ survival = FALSE
  /\ budget = [uploads |-> 0, troubles |-> 0]
  /\ solo = FALSE /\ dirty = FALSE

Threads == Upload \/ Repair \/ Survive \/ SafeDefaults
Process == Boot \/ BootRepair \/ BootPlanCheck \/ Halt
Environment == \/ OutageAges \/ FetchSucceeds \/ FetchFails \/ Shutdown \/ Crash
               \/ \E p \in Plans : UploadStart(p)
               \/ \E g \in GroupLists, b \in BOOLEAN : OwnerEdit(g, b)

Next == Threads \/ Process \/ RepairStart \/ Environment

\* A thread that has begun goes on; the process is restarted; the heartbeat
\* starts a repair every half hour; a fetch that failed is retried.
Fairness ==
  /\ WF_vars(Upload) /\ WF_vars(Repair) /\ WF_vars(Survive) /\ WF_vars(SafeDefaults)
  /\ WF_vars(Process) /\ WF_vars(RepairStart) /\ WF_vars(FetchFails)

Spec == Init /\ [][Next]_vars
FairSpec == Spec /\ Fairness

----------------------------------------------------------------------------
(* Properties *)

\* The inverter runs the plan SQLite says it runs, and runs it.
Agree == stored.groups # NoPlan => hw.groups = stored.groups /\ hw.flag

\* With no writer at work, inverter and SQLite agree unless a failed call, an
\* owner's edit, a crash or two writers at once came after the last writer
\* that ran alone: sequentially every writer (upload, repair, boot, survival,
\* shutdown) restores or keeps the agreement.
AgreeUndisturbed == ~Busy /\ ~dirty => Agree

\* What makes it so, writer by writer: while the writer at work is undisturbed
\* it is the only one, and at each of its points inverter, SQLite and what it
\* has read stand in the relation its next steps count on.
Alone == solo =>
  /\ up.pc # "idle" => rp.pc = "idle" /\ sv = "idle" /\ sd.pc = "idle"
  /\ rp.pc # "idle" => sv = "idle" /\ sd.pc = "idle"
  /\ sv # "idle" => sd.pc = "idle"
UploadOnCourse == solo =>
  /\ up.pc # "fail"
  /\ up.pc \in {"flag", "save", "intent"} => hw.groups = up.plan
  /\ up.pc \in {"save", "intent"} => hw.flag
  /\ up.pc = "intent" => stored.groups = up.plan
RepairOnCourse == solo =>
  /\ rp.pc \in {"readHw", "flagOn"} /\ rp.flag => hw.flag
  /\ rp.pc \in {"flagOn", "readDb"} => rp.groups = hw.groups
  /\ rp.pc \in {"readDb", "read", "write"} => hw.flag
  /\ rp.pc \in {"read", "write", "flag"} => rp.plan = stored.groups
  /\ rp.pc = "flag" => hw.groups = rp.plan
OthersOnCourse == solo => /\ sv = "selfUse" => stored.groups = NoPlan
                          /\ sd.pc # "idle" => sd.failed = {}
OnCourse == /\ Busy /\ ~solo => dirty
            /\ Alone /\ UploadOnCourse /\ RepairOnCourse /\ OthersOnCourse
            /\ AgreeUndisturbed

\* Every upload attempt that is not cut by a crash leaves an intent row with
\* the plan it carried, and ok only if the row of fox_schedule_state was
\* written for it (#779: the drift check compares the inverter with it).
UploadLeavesIntent ==
  [][up.pc # "idle" /\ up'.pc = "idle" /\ sys' # "down"
       => intent'.groups = up.plan /\ (intent'.ok => up.pc = "intent")]_vars

\* Once uploads, faults, edits and stops have ceased, the half-hourly repair
\* brings inverter and SQLite to agree for good, whatever went wrong before.
Converges == <>[]Agree
=============================================================================
