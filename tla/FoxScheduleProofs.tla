-------------------------- MODULE FoxScheduleProofs --------------------------
(***************************************************************************)
(* Theorems about FoxSchedule, for any set of plans and any bounds: its    *)
(* type invariant, and that writers which run alone and undisturbed leave  *)
(* inverter and SQLite in agreement.                                       *)
(***************************************************************************)
EXTENDS FoxSchedule, TLAPS

HwType     == [groups: GroupLists, flag: BOOLEAN, selfUse: BOOLEAN]
BudgetType == [uploads: 0..MaxUploads, troubles: 0..MaxTroubles]

----------------------------------------------------------------------------
(* Cloud calls *)

\* A fault is counted within its bound.
LEMMA TroubleType ==
  ASSUME TypeOK, Trouble
  PROVE  budget' \in BudgetType
BY BoundsAssumption DEF TypeOK, Trouble, BudgetType

\* A call that succeeds leaves what it was asked for.
LEMMA SucceedsType ==
  ASSUME TypeOK, NEW h \in HwType, Succeeds(h)
  PROVE  hw' \in HwType /\ budget' \in BudgetType
BY DEF TypeOK, Succeeds, BudgetType

\* A call that fails leaves the inverter as it was or as asked for, and is
\* remembered as a disturbance.
LEMMA FailsType ==
  ASSUME TypeOK, NEW h \in HwType, Fails(h)
  PROVE  /\ hw' \in HwType /\ budget' \in BudgetType
         /\ solo' = FALSE /\ dirty' = TRUE
<1>1. hw' \in HwType
  BY DEF TypeOK, Fails, HwType
<1>2. budget' \in BudgetType
  BY TroubleType DEF Fails
<1> QED
  BY <1>1, <1>2 DEF Fails, Disturbs

\* The settings a call may ask for.
LEMMA Settings ==
  ASSUME TypeOK
  PROVE  /\ \A b \in BOOLEAN : WithFlag(b) \in HwType
         /\ \A g \in GroupLists : WithGroups(g) \in HwType
         /\ InSelfUse \in HwType
         /\ hw \in HwType
BY DEF TypeOK, WithFlag, WithGroups, InSelfUse, HwType

\* The history variables stay Boolean.
LEMMA HistoryType ==
  ASSUME TypeOK, Starts \/ Disturbs \/ Finishes \/ Calm
  PROVE  solo' \in BOOLEAN /\ dirty' \in BOOLEAN
<1>1. CASE Starts    BY <1>1, Zenon DEF Starts, Busy, TypeOK
<1>2. CASE Disturbs  BY <1>2 DEF Disturbs
<1>3. CASE Finishes  BY <1>3, Zenon DEF Finishes, TypeOK
<1>4. CASE Calm      BY <1>4 DEF Calm, TypeOK
<1> QED BY <1>1, <1>2, <1>3, <1>4

----------------------------------------------------------------------------
(* Type correctness, writer by writer *)

\* upload_fox_if_operational keeps every type.
LEMMA UploadType ==
  ASSUME TypeOK, Upload \/ (\E p \in Plans : UploadStart(p))
  PROVE  TypeOK'
<1> USE DEF GroupLists, UploadPcs
<1>1. ASSUME NEW p \in Plans, UploadStart(p) PROVE TypeOK'
  BY <1>1, HistoryType, BoundsAssumption DEF TypeOK, UploadStart
<1>2. CASE UploadRead
  BY <1>2, HistoryType DEF TypeOK, UploadRead
<1>3. CASE UploadWrite
  <2>1. WithGroups(up.plan) \in HwType
    BY Settings DEF TypeOK
  <2>2. hw' \in HwType /\ budget' \in BudgetType /\ solo' \in BOOLEAN /\ dirty' \in BOOLEAN
    BY <1>3, <2>1, SucceedsType, FailsType, HistoryType DEF UploadWrite
  <2> QED BY <1>3, <2>2 DEF TypeOK, UploadWrite, HwType, BudgetType
<1>4. CASE UploadFlag
  <2>1. WithFlag(TRUE) \in HwType
    BY Settings
  <2>2. hw' \in HwType /\ budget' \in BudgetType /\ solo' \in BOOLEAN /\ dirty' \in BOOLEAN
    BY <1>4, <2>1, SucceedsType, FailsType, HistoryType DEF UploadFlag
  <2>3. up' \in [pc: UploadPcs, plan: GroupLists]
    BY <1>4 DEF TypeOK, UploadFlag
  <2> QED BY <1>4, <2>2, <2>3 DEF TypeOK, UploadFlag, HwType, BudgetType
<1>5. CASE UploadSave
  BY <1>5, HistoryType DEF TypeOK, UploadSave
<1>6. CASE UploadIntent
  BY <1>6, HistoryType DEF TypeOK, UploadIntent
<1>7. CASE UploadFail
  BY <1>7, HistoryType DEF TypeOK, UploadFail
<1> QED BY <1>1, <1>2, <1>3, <1>4, <1>5, <1>6, <1>7 DEF Upload

\* The repair's end, and a call of it that fails.
LEMMA RepairEndsType ==
  ASSUME TypeOK, RepairEnds
  PROVE  /\ rp' = RepairIdle /\ sys' \in Phases
         /\ solo' \in BOOLEAN /\ dirty' \in BOOLEAN
BY HistoryType DEF RepairEnds, TypeOK, Phases

\* A failing call of the repair ends it, and at boot may end the start.
LEMMA RepairCallFailsType ==
  ASSUME TypeOK, NEW h \in HwType, RepairCallFails(h)
  PROVE  /\ rp' = RepairIdle /\ sys' \in Phases
         /\ hw' \in HwType /\ budget' \in BudgetType
         /\ solo' = FALSE /\ dirty' = TRUE
BY FailsType DEF RepairCallFails, TypeOK, Phases

\* The repair of the heartbeat and of the boot keeps every type.
LEMMA RepairType ==
  ASSUME TypeOK, Repair \/ RepairStart \/ BootRepair
  PROVE  TypeOK'
<1> USE DEF RepairPcs, HwType, BudgetType
<1>0. RepairIdle \in [pc: RepairPcs, flag: BOOLEAN, groups: GroupLists, plan: GroupLists]
  BY DEF RepairIdle, GroupLists
<1>1. CASE RepairStart \/ BootRepair
  BY <1>0, <1>1, HistoryType DEF TypeOK, RepairStart, BootRepair
<1>2. CASE RepairReadFlag
  <2>1. CASE RepairCallFails(hw)
    BY <1>0, <1>2, <2>1, RepairCallFailsType, Settings DEF TypeOK, RepairReadFlag
  <2>2. CASE ~RepairCallFails(hw)
    BY <1>2, <2>2, HistoryType, ZenonT(40) DEF TypeOK, RepairReadFlag
  <2> QED BY <2>1, <2>2
<1>3. CASE RepairReadHw
  <2>1. CASE RepairCallFails(hw)
    BY <1>0, <1>3, <2>1, RepairCallFailsType, Settings DEF TypeOK, RepairReadHw
  <2>2. CASE ~RepairCallFails(hw)
    BY <1>3, <2>2, HistoryType, ZenonT(40) DEF TypeOK, RepairReadHw
  <2> QED BY <2>1, <2>2
<1>4. CASE RepairFlagOn
  <2>0. WithFlag(TRUE) \in HwType
    BY Settings
  <2>1. CASE RepairCallFails(WithFlag(TRUE))
    BY <1>0, <1>4, <2>0, <2>1, RepairCallFailsType DEF TypeOK, RepairFlagOn
  <2>2. CASE ~RepairCallFails(WithFlag(TRUE))
    <3>1. hw' \in HwType /\ budget' \in BudgetType
      BY <1>4, <2>0, <2>2, SucceedsType DEF TypeOK, RepairFlagOn
    <3> QED BY <1>4, <2>2, <3>1, HistoryType, ZenonT(40) DEF TypeOK, RepairFlagOn
  <2> QED BY <2>1, <2>2
<1>5. CASE RepairReadDb
  <2>1. CASE RepairEnds
    BY <1>0, <1>5, <2>1, RepairEndsType DEF TypeOK, RepairReadDb
  <2>2. CASE ~RepairEnds
    <3>1. rp' = [rp EXCEPT !.pc = "read", !.plan = RepairSource] /\ Calm /\ UNCHANGED sys
      BY <1>5, <2>2 DEF RepairReadDb
    <3>2. RepairSource \in GroupLists
      BY DEF RepairSource, TypeOK
    <3>3. rp' \in [pc: RepairPcs, flag: BOOLEAN, groups: GroupLists, plan: GroupLists]
      BY <3>1, <3>2 DEF TypeOK
    <3> QED BY <1>5, <3>1, <3>3, HistoryType DEF TypeOK, RepairReadDb
  <2> QED BY <2>1, <2>2
<1>6. CASE RepairRead
  BY <1>6, HistoryType DEF TypeOK, RepairRead
<1>7. CASE RepairWrite
  <2>0. WithGroups(rp.plan) \in HwType
    BY Settings DEF TypeOK
  <2>1. CASE RepairCallFails(WithGroups(rp.plan))
    BY <1>0, <1>7, <2>0, <2>1, RepairCallFailsType DEF TypeOK, RepairWrite
  <2>2. CASE ~RepairCallFails(WithGroups(rp.plan))
    <3>1. hw' \in HwType /\ budget' \in BudgetType
      BY <1>7, <2>0, <2>2, SucceedsType DEF RepairWrite
    <3> QED BY <1>7, <2>2, <3>1, HistoryType DEF TypeOK, RepairWrite
  <2> QED BY <2>1, <2>2
<1>8. CASE RepairFlagAgain
  <2>0. WithFlag(TRUE) \in HwType
    BY Settings
  <2>1. CASE RepairCallFails(WithFlag(TRUE))
    BY <1>0, <1>8, <2>0, <2>1, RepairCallFailsType DEF TypeOK, RepairFlagAgain
  <2>2. CASE Succeeds(WithFlag(TRUE)) /\ RepairEnds
    BY <1>0, <1>8, <2>0, <2>2, SucceedsType, RepairEndsType DEF TypeOK, RepairFlagAgain
  <2> QED BY <1>8, <2>1, <2>2 DEF RepairFlagAgain
<1> QED BY <1>1, <1>2, <1>3, <1>4, <1>5, <1>6, <1>7, <1>8 DEF Repair

\* The tariff fetch and the survival fallback keep every type.
LEMMA SurviveType ==
  ASSUME TypeOK, Survive \/ FetchSucceeds \/ FetchFails \/ OutageAges
  PROVE  TypeOK'
<1> USE DEF SurvivePcs, HwType, BudgetType
<1>1. CASE OutageAges
  BY <1>1, HistoryType DEF TypeOK, OutageAges
<1>2. CASE FetchSucceeds
  <2>1. survival' = survival /\ streak' = 0
    BY <1>2 DEF FetchSucceeds, SurvivalAfterSuccess
  <2>2. solo' \in BOOLEAN /\ dirty' \in BOOLEAN
    BY <1>2, HistoryType DEF FetchSucceeds
  <2>3. survival' \in BOOLEAN
    BY <2>1, Zenon DEF TypeOK
  <2>4. streak' \in 0..2
    BY <2>1
  <2> QED BY <1>2, <2>2, <2>3, <2>4 DEF TypeOK, FetchSucceeds
<1>3. CASE FetchFails
  <2>1. streak' \in 0..2 /\ sv' \in SurvivePcs
    BY <1>3 DEF TypeOK, FetchFails
  <2>2. survival' \in BOOLEAN
    BY <1>3, Zenon DEF TypeOK, FetchFails
  <2>3. solo' \in BOOLEAN /\ dirty' \in BOOLEAN
    BY <1>3, HistoryType DEF FetchFails
  <2> QED BY <1>3, <2>1, <2>2, <2>3 DEF TypeOK, FetchFails
<1>4. CASE SurviveFlagOff
  <2>1. WithFlag(FALSE) \in HwType
    BY Settings
  <2>2. hw' \in HwType /\ budget' \in BudgetType /\ solo' \in BOOLEAN /\ dirty' \in BOOLEAN
    BY <1>4, <2>1, SucceedsType, FailsType, HistoryType DEF SurviveFlagOff
  <2> QED BY <1>4, <2>2 DEF TypeOK, SurviveFlagOff
<1>5. CASE SurviveSaveOff
  BY <1>5, HistoryType DEF TypeOK, SurviveSaveOff, GroupLists
<1>6. CASE SurviveSelfUse
  <2>1. hw' \in HwType /\ budget' \in BudgetType /\ solo' \in BOOLEAN /\ dirty' \in BOOLEAN
    BY <1>6, Settings, SucceedsType, FailsType, HistoryType DEF SurviveSelfUse
  <2> QED BY <1>6, <2>1 DEF TypeOK, SurviveSelfUse
<1> QED BY <1>1, <1>2, <1>3, <1>4, <1>5, <1>6 DEF Survive

\* apply_safe_defaults keeps every type.
LEMMA SafeDefaultsType ==
  ASSUME TypeOK, SafeDefaults
  PROVE  TypeOK'
<1> USE DEF SafePcs, Legs, SafeIdle, HwType, BudgetType
<1>0. SafeEnds => sd' = SafeIdle /\ sys' \in Phases
  BY DEF SafeEnds, Phases
<1>1. CASE SafeLeg
  <2> DEFINE leg == LegOf(sd.pc)
  <2>1. leg \in Legs /\ AfterLeg(leg) \in HwType
    BY Settings DEF LegOf, AfterLeg
  <2>2. \A fs \in SUBSET Legs : NextLeg(sd.pc, fs) \in SafePcs
    BY DEF NextLeg
  <2>3. /\ hw' \in HwType /\ budget' \in BudgetType
        /\ solo' \in BOOLEAN /\ dirty' \in BOOLEAN
    BY <1>1, <2>1, SucceedsType, FailsType, HistoryType DEF SafeLeg
  <2>4. sd.failed \ {leg} \in SUBSET Legs /\ sd.failed \cup {leg} \in SUBSET Legs
    BY <2>1 DEF TypeOK
  <2>5. sd' \in [pc: SafePcs, failed: SUBSET Legs] /\ sys' \in Phases
    BY <1>0, <1>1, <2>2, <2>4 DEF TypeOK, SafeLeg
  <2> QED BY <1>1, <2>3, <2>5 DEF TypeOK, SafeLeg
<1>2. CASE SafeSave
  BY <1>0, <1>2, HistoryType DEF TypeOK, SafeSave, GroupLists
<1> QED BY <1>1, <1>2 DEF SafeDefaults

\* Starts, stops and the owner keep every type.
LEMMA LifeType ==
  ASSUME TypeOK,
         \/ Boot \/ BootPlanCheck \/ Halt \/ Shutdown \/ Crash
         \/ \E g \in GroupLists, b \in BOOLEAN : OwnerEdit(g, b)
  PROVE  TypeOK'
<1> USE DEF Phases, SafePcs, SafeBegin, HwType, BudgetType
<1>1. CASE Boot
  BY <1>1, HistoryType DEF TypeOK, Boot
<1>2. CASE BootPlanCheck
  BY <1>2, HistoryType DEF TypeOK, BootPlanCheck
<1>3. CASE Shutdown
  BY <1>3, HistoryType, TroubleType DEF TypeOK, Shutdown
<1>4. CASE Halt \/ Crash
  <2>1. Ends /\ budget' \in BudgetType
    BY <1>4, TroubleType DEF Halt, Crash, TypeOK
  <2>2. solo' \in BOOLEAN /\ dirty' \in BOOLEAN
    BY <2>1, HistoryType DEF Ends
  <2> QED BY <2>1, <2>2 DEF TypeOK, Ends, RepairIdle, SafeIdle, GroupLists, UploadPcs,
                            RepairPcs, SurvivePcs
<1>5. ASSUME NEW g \in GroupLists, NEW b \in BOOLEAN, OwnerEdit(g, b) PROVE TypeOK'
  <2>1. hw' \in HwType /\ budget' \in BudgetType
    BY <1>5, TroubleType DEF TypeOK, OwnerEdit
  <2>2. solo' \in BOOLEAN /\ dirty' \in BOOLEAN
    BY <1>5, HistoryType DEF OwnerEdit
  <2> HIDE DEF HwType, BudgetType
  <2>3. UNCHANGED <<stored, intent, sys, up, rp, sv, sd, streak, survival>>
    BY <1>5 DEF OwnerEdit
  <2> QED BY <2>1, <2>2, <2>3 DEF TypeOK, HwType, BudgetType
<1> QED BY <1>1, <1>2, <1>3, <1>4, <1>5

\* Every variable keeps its type, whatever fails, races, restarts or is edited.
THEOREM TypeCorrect == Spec => []TypeOK
<1>1. Init => TypeOK
  <2> SUFFICES ASSUME Init PROVE TypeOK
    OBVIOUS
  <2>1. /\ hw \in HwType /\ stored \in [kind: {"none", "on", "off"}, groups: GroupLists]
        /\ intent \in [groups: GroupLists, ok: BOOLEAN]
    BY DEF Init, HwType, GroupLists
  <2>2. /\ up \in [pc: UploadPcs, plan: GroupLists]
        /\ rp \in [pc: RepairPcs, flag: BOOLEAN, groups: GroupLists, plan: GroupLists]
    BY DEF Init, RepairIdle, GroupLists, UploadPcs, RepairPcs
  <2>3. /\ sys \in Phases /\ sv \in SurvivePcs /\ sd \in [pc: SafePcs, failed: SUBSET Legs]
        /\ budget \in BudgetType
    BY BoundsAssumption DEF Init, SafeIdle, SafePcs, SurvivePcs, Phases, BudgetType
  <2>4. streak \in 0..2
    BY DEF Init
  <2>5. survival \in BOOLEAN /\ solo \in BOOLEAN /\ dirty \in BOOLEAN
    BY Zenon DEF Init
  <2> QED BY <2>1, <2>2, <2>3, <2>4, <2>5 DEF TypeOK, HwType, BudgetType
<1>2. TypeOK /\ [Next]_vars => TypeOK'
  <2>1. ASSUME TypeOK, UNCHANGED vars PROVE TypeOK'
    BY <2>1 DEF TypeOK, vars
  <2>2. ASSUME TypeOK, Next PROVE TypeOK'
    BY <2>2, UploadType, RepairType, SurviveType, SafeDefaultsType, LifeType
    DEF Next, Threads, Process, Environment
  <2> QED BY <2>1, <2>2
<1> QED BY <1>1, <1>2, PTL DEF Spec

----------------------------------------------------------------------------
(* Agreement. OnCourse is inductive: a disturbed step keeps it because all it *)
(* says is of an undisturbed writer, and an undisturbed writer is alone.      *)

\* After a disturbance nothing is claimed.
LEMMA Disturbed ==
  ASSUME solo' = FALSE, dirty' = TRUE
  PROVE  OnCourse'
BY DEF OnCourse, Alone, UploadOnCourse, RepairOnCourse, OthersOnCourse, AgreeUndisturbed

\* A writer that is no longer undisturbed changes nothing in that.
LEMMA Rushed ==
  ASSUME OnCourse, Busy, solo = FALSE, Calm \/ Finishes, TypeOK
  PROVE  OnCourse'
<1>1. dirty = TRUE
  BY Zenon DEF OnCourse, TypeOK
<1>2. solo' = FALSE /\ dirty' = TRUE
  BY <1>1, Zenon DEF Calm, Finishes
<1> QED BY <1>2, Disturbed

\* Steps that concern neither inverter nor SQLite nor a writer.
LEMMA Unmoved ==
  ASSUME OnCourse, Calm, UNCHANGED <<hw, stored, up, rp, sv, sd>>
  PROVE  OnCourse'
BY Zenon DEF OnCourse, Alone, UploadOnCourse, RepairOnCourse, OthersOnCourse,
             AgreeUndisturbed, Agree, Busy, Calm

\* A writer starts: unless it starts alone nothing is claimed.
LEMMA Started ==
  ASSUME OnCourse, Starts, TypeOK
  PROVE  OnCourse' \/ (~Busy /\ solo' = TRUE)
<1>1. CASE Busy
  <2>1. solo' = FALSE /\ dirty' = TRUE
    BY <1>1, Zenon DEF Starts, TypeOK
  <2> QED BY <2>1, Disturbed
<1>2. CASE ~Busy
  BY <1>2, Zenon DEF Starts
<1> QED BY <1>1, <1>2

\* What OnCourse says of an undisturbed upload.
LEMMA UploadAlone ==
  ASSUME TypeOK, OnCourse, solo = TRUE, up.pc # "idle"
  PROVE  rp.pc = "idle" /\ sv = "idle" /\ sd.pc = "idle" /\ UploadOnCourse
BY DEF OnCourse, Alone

\* An upload keeps the course: when it writes the row, inverter and flag are as
\* the row will say.
LEMMA UploadStep ==
  ASSUME TypeOK, OnCourse, Upload \/ (\E p \in Plans : UploadStart(p))
  PROVE  OnCourse'
<1> USE DEF OnCourse, Alone, UploadOnCourse, RepairOnCourse, OthersOnCourse,
            AgreeUndisturbed, Busy
<1>1. ASSUME NEW p \in Plans, UploadStart(p) PROVE OnCourse'
  <2>1. CASE ~Busy /\ solo' = TRUE
    BY <1>1, <2>1 DEF UploadStart, TypeOK
  <2> QED BY <1>1, <2>1, Started DEF UploadStart
<1>2. ASSUME Upload, solo = FALSE PROVE OnCourse'
  <2>1. CASE Calm \/ Finishes
    BY <1>2, <2>1, Rushed DEF Upload, UploadRead, UploadWrite, UploadFlag, UploadSave,
                              UploadIntent, UploadFail
  <2>2. CASE Disturbs
    BY <2>2, Disturbed DEF Disturbs
  <2> QED BY <1>2, <2>1, <2>2 DEF Upload, UploadRead, UploadWrite, UploadFlag, UploadSave,
                              UploadIntent, UploadFail, Fails
<1>3. ASSUME Upload, solo = TRUE PROVE OnCourse'
  <2>1. rp.pc = "idle" /\ sv = "idle" /\ sd.pc = "idle" /\ UploadOnCourse /\ solo /\ up.pc # "idle"
    BY <1>3, UploadAlone DEF Upload, UploadRead, UploadWrite, UploadFlag, UploadSave,
                              UploadIntent, UploadFail
  <2>2. CASE Disturbs
    BY <2>2, Disturbed DEF Disturbs
  <2>3. CASE UploadRead
    BY <2>1, <2>3 DEF UploadRead, SameGroups, Calm, TypeOK
  <2>4. CASE UploadWrite /\ ~Disturbs
    <3>1. /\ hw' = WithGroups(up.plan) /\ up' = [up EXCEPT !.pc = "flag"] /\ Calm
          /\ UNCHANGED <<stored, rp, sv, sd>>
      BY <2>4 DEF UploadWrite, Succeeds, Fails
    <3>2. hw'.groups = up.plan /\ up'.plan = up.plan /\ up'.pc = "flag"
      BY <3>1 DEF WithGroups, TypeOK
    <3> QED BY <2>1, <3>1, <3>2 DEF Calm
  <2>5. CASE UploadFlag /\ ~Disturbs
    BY <2>1, <2>5 DEF UploadFlag, Succeeds, Fails, WithFlag, Calm, TypeOK
  <2>6. CASE UploadSave
    BY <2>1, <2>6 DEF UploadSave, Calm, TypeOK
  <2>7. CASE UploadIntent
    BY <2>1, <2>7 DEF UploadIntent, Finishes, TypeOK, Agree
  <2>8. CASE UploadFail
    BY <2>1, <2>8 DEF UploadFail
  <2> QED BY <1>3, <2>2, <2>3, <2>4, <2>5, <2>6, <2>7, <2>8 DEF Upload
<1> QED BY <1>1, <1>2, <1>3 DEF TypeOK

\* What OnCourse says of an undisturbed repair.
LEMMA RepairAlone ==
  ASSUME TypeOK, OnCourse, solo = TRUE, rp.pc # "idle"
  PROVE  up.pc = "idle" /\ sv = "idle" /\ sd.pc = "idle" /\ RepairOnCourse
BY DEF OnCourse, Alone

\* A repair keeps the course: undisturbed, its readings are still true when it
\* compares them with the row, and it ends with both equal.
LEMMA RepairStep ==
  ASSUME TypeOK, OnCourse, Repair \/ RepairStart \/ BootRepair
  PROVE  OnCourse'
<1> USE DEF OnCourse, Alone, UploadOnCourse, RepairOnCourse, OthersOnCourse,
            AgreeUndisturbed, Busy
<1>1. ASSUME RepairStart \/ BootRepair PROVE OnCourse'
  <2>1. CASE ~Busy /\ solo' = TRUE
    BY <1>1, <2>1 DEF RepairStart, BootRepair, RepairIdle, TypeOK
  <2> QED BY <1>1, <2>1, Started DEF RepairStart, BootRepair
<1>2. ASSUME Repair PROVE rp.pc # "idle" /\ (Calm \/ Finishes \/ Disturbs)
  BY <1>2 DEF Repair, RepairReadFlag, RepairReadHw, RepairFlagOn, RepairReadDb, RepairRead,
              RepairWrite, RepairFlagAgain, RepairEnds, RepairCallFails, Fails
<1>3. ASSUME Repair, solo = FALSE PROVE OnCourse'
  BY <1>2, <1>3, Rushed, Disturbed DEF Disturbs
<1>4. ASSUME Repair, solo = TRUE PROVE OnCourse'
  <2> USE DEF RepairCallFails, Fails
  <2>1. up.pc = "idle" /\ sv = "idle" /\ sd.pc = "idle" /\ RepairOnCourse /\ solo
    BY <1>2, <1>4, RepairAlone
  <2>2. CASE Disturbs
    BY <2>2, Disturbed DEF Disturbs
  <2>3. CASE RepairReadFlag /\ ~Disturbs
    BY <2>1, <2>3, ZenonT(40) DEF RepairReadFlag, Calm, TypeOK
  <2>4. CASE RepairReadHw /\ ~Disturbs
    <3>1. /\ rp' = [rp EXCEPT !.pc = "flagOn", !.groups = hw.groups,
                              !.flag = IF Booting THEN hw.flag ELSE rp.flag /\ hw.flag]
          /\ Calm /\ UNCHANGED <<hw, stored, up, sv, sd>>
      BY <2>4 DEF RepairReadHw
    <3>2. rp'.pc = "flagOn" /\ rp'.groups = hw.groups
      BY <3>1 DEF TypeOK
    <3>3. rp'.flag => hw.flag
      <4>1. CASE Booting   BY <3>1, <4>1 DEF TypeOK
      <4>2. CASE ~Booting  BY <3>1, <4>2 DEF TypeOK
      <4> QED BY <4>1, <4>2
    <3> QED BY <2>1, <3>1, <3>2, <3>3 DEF Calm
  <2>5. CASE RepairFlagOn /\ ~Disturbs
    <3>1. /\ IF rp.flag THEN hw' = hw ELSE hw' = WithFlag(TRUE)
          /\ rp' = [rp EXCEPT !.pc = "readDb"] /\ Calm /\ UNCHANGED <<stored, up, sv, sd>>
      BY <2>5 DEF RepairFlagOn, Succeeds
    <3>2. hw'.flag /\ hw'.groups = hw.groups /\ rp'.groups = rp.groups /\ rp'.pc = "readDb"
      BY <2>1, <2>5, <3>1 DEF RepairFlagOn, WithFlag, TypeOK
    <3> QED BY <2>1, <2>5, <3>1, <3>2 DEF Calm, RepairFlagOn
  <2>6. CASE RepairReadDb
    <3>1. CASE RepairEnds
      <4>1. stored.groups = NoPlan \/ rp.groups = stored.groups
        BY <2>1, <2>6, <3>1 DEF RepairReadDb, RepairSource, SameGroups, RepairEnds, RepairIdle, TypeOK
      <4> QED BY <2>1, <2>6, <3>1, <4>1 DEF RepairReadDb, RepairEnds, RepairIdle, Finishes, Agree
    <3>2. CASE ~RepairEnds
      <4>1. /\ rp' = [rp EXCEPT !.pc = "read", !.plan = stored.groups]
            /\ Calm /\ UNCHANGED <<hw, stored, up, sv, sd>>
        BY <2>6, <3>2 DEF RepairReadDb, RepairSource
      <4>2. rp'.pc = "read" /\ rp'.plan = stored.groups
        BY <4>1 DEF TypeOK
      <4> QED BY <2>1, <2>6, <4>1, <4>2 DEF RepairReadDb, Calm
    <3> QED BY <3>1, <3>2
  <2>7. CASE RepairRead
    BY <2>1, <2>7 DEF RepairRead, SameGroups, Calm, TypeOK
  <2>8. CASE RepairWrite /\ ~Disturbs
    <3>1. /\ hw' = WithGroups(rp.plan) /\ rp' = [rp EXCEPT !.pc = "flag"] /\ Calm
          /\ UNCHANGED <<stored, up, sv, sd>>
      BY <2>8 DEF RepairWrite, Succeeds
    <3>2. hw'.groups = rp.plan /\ rp'.plan = rp.plan /\ rp'.pc = "flag"
      BY <3>1 DEF WithGroups, TypeOK
    <3> QED BY <2>1, <2>8, <3>1, <3>2 DEF Calm, RepairWrite
  <2>9. CASE RepairFlagAgain /\ ~Disturbs
    <3>1. hw' = WithFlag(TRUE) /\ RepairEnds /\ UNCHANGED <<stored, up, sv, sd>>
      BY <2>9 DEF RepairFlagAgain, Succeeds
    <3>2. hw'.groups = hw.groups /\ hw'.flag
      BY <3>1 DEF WithFlag, TypeOK
    <3> QED BY <2>1, <2>9, <3>1, <3>2 DEF RepairFlagAgain, RepairEnds, RepairIdle, Finishes, Agree
  <2> QED BY <1>4, <2>2, <2>3, <2>4, <2>5, <2>6, <2>7, <2>8, <2>9 DEF Repair
<1> QED BY <1>1, <1>3, <1>4 DEF TypeOK

\* The survival fallback keeps the course: its row of the scheduler switched
\* off claims no groups.
LEMMA SurviveStep ==
  ASSUME TypeOK, OnCourse, Survive \/ FetchSucceeds \/ FetchFails \/ OutageAges
  PROVE  OnCourse'
<1> USE DEF OnCourse, Alone, UploadOnCourse, RepairOnCourse, OthersOnCourse,
            AgreeUndisturbed, Busy
<1>1. CASE FetchSucceeds \/ OutageAges
  BY <1>1, Unmoved DEF FetchSucceeds, OutageAges
<1>2. CASE FetchFails
  <2>1. CASE streak = 2 /\ ~survival
    <3>1. sv' = "flagOff" /\ Starts /\ UNCHANGED <<hw, stored, up, rp, sd>>
      BY <1>2, <2>1 DEF FetchFails
    <3>2. CASE ~Busy /\ solo' = TRUE
      <4>1. up'.pc = "idle" /\ rp'.pc = "idle" /\ sd'.pc = "idle" /\ sv' = "flagOff"
        BY <3>1, <3>2
      <4> QED BY <3>2, <4>1
    <3> QED BY <3>1, <3>2, Started
  <2>2. CASE ~(streak = 2 /\ ~survival)
    <3>1. Calm /\ UNCHANGED <<hw, stored, up, rp, sv, sd>>
      BY <1>2, <2>2 DEF FetchFails
    <3> QED BY <3>1, Unmoved
  <2> QED BY <2>1, <2>2
<1>3. ASSUME Survive PROVE sv # "idle" /\ (Calm \/ Finishes \/ Disturbs)
  BY <1>3 DEF Survive, SurviveFlagOff, SurviveSaveOff, SurviveSelfUse, Fails
<1>4. ASSUME Survive, solo = FALSE PROVE OnCourse'
  BY <1>3, <1>4, Rushed, Disturbed DEF Disturbs
<1>5. ASSUME Survive, solo = TRUE PROVE OnCourse'
  <2>1. up.pc = "idle" /\ rp.pc = "idle" /\ sd.pc = "idle" /\ solo
    BY <1>3, <1>5
  <2>2. CASE Disturbs
    BY <2>2, Disturbed DEF Disturbs
  <2>3. CASE SurviveFlagOff /\ ~Disturbs
    <3>1. sv' = "saveOff" /\ Calm /\ UNCHANGED <<stored, up, rp, sd>>
      BY <2>3 DEF SurviveFlagOff, Fails
    <3> QED BY <2>1, <3>1 DEF Calm
  <2>4. CASE SurviveSaveOff
    <3>1. /\ sv' = "selfUse" /\ stored'.groups = NoPlan /\ Calm
          /\ UNCHANGED <<hw, up, rp, sd>>
      BY <2>4 DEF SurviveSaveOff
    <3> QED BY <2>1, <3>1 DEF Calm
  <2>5. CASE SurviveSelfUse /\ ~Disturbs
    <3>1. sv = "selfUse" /\ sv' = "idle" /\ Finishes /\ UNCHANGED <<stored, up, rp, sd>>
      BY <2>5 DEF SurviveSelfUse, Fails
    <3>2. stored'.groups = NoPlan
      BY <2>1, <3>1
    <3> QED BY <2>1, <3>1, <3>2 DEF Finishes, Agree
  <2> QED BY <1>5, <2>2, <2>3, <2>4, <2>5 DEF Survive
<1> QED BY <1>1, <1>2, <1>4, <1>5 DEF TypeOK

\* apply_safe_defaults keeps the course: undisturbed, no leg has failed, so the
\* row of the scheduler switched off is written.
LEMMA SafeDefaultsStep ==
  ASSUME TypeOK, OnCourse, SafeDefaults
  PROVE  OnCourse'
<1> USE DEF OnCourse, Alone, UploadOnCourse, RepairOnCourse, OthersOnCourse,
            AgreeUndisturbed, Busy
<1>1. sd.pc # "idle" /\ (Calm \/ Finishes \/ Disturbs)
  BY DEF SafeDefaults, SafeLeg, SafeSave, Fails
<1>2. CASE solo = FALSE
  BY <1>1, <1>2, Rushed, Disturbed DEF Disturbs
<1>3. CASE solo = TRUE
  <2>1. up.pc = "idle" /\ rp.pc = "idle" /\ sv = "idle" /\ sd.failed = {} /\ solo
    BY <1>1, <1>3
  <2>2. CASE Disturbs
    BY <2>2, Disturbed DEF Disturbs
  <2>3. CASE SafeLeg /\ ~Disturbs
    <3>1. /\ sd' = [pc |-> NextLeg(sd.pc, {}), failed |-> {}]
          /\ Calm /\ UNCHANGED <<stored, up, rp, sv>>
      BY <2>1, <2>3 DEF SafeLeg, Fails
    <3>2. sd'.pc # "idle" /\ sd'.failed = {}
      BY <3>1 DEF NextLeg, Retries
    <3> QED BY <2>1, <3>1, <3>2 DEF Calm
  <2>4. CASE SafeSave
    <3>1. /\ sd' = SafeIdle /\ stored'.groups = NoPlan /\ Finishes
          /\ UNCHANGED <<up, rp, sv>>
      BY <2>1, <2>4 DEF SafeSave, SafeEnds
    <3> QED BY <2>1, <3>1 DEF Finishes, Agree, SafeIdle
  <2> QED BY <2>2, <2>3, <2>4 DEF SafeDefaults
<1> QED BY <1>2, <1>3 DEF TypeOK

\* Starts, stops and the owner keep the course: a stop that cuts a writer is a
\* disturbance, one that cuts none moves nothing.
LEMMA LifeStep ==
  ASSUME TypeOK, OnCourse,
         \/ Boot \/ BootPlanCheck \/ Halt \/ Shutdown \/ Crash
         \/ \E g \in GroupLists, b \in BOOLEAN : OwnerEdit(g, b)
  PROVE  OnCourse'
<1>1. ASSUME Starts, sd' = SafeBegin, UNCHANGED <<hw, stored, up, rp, sv>> PROVE OnCourse'
  <2>1. CASE ~Busy /\ solo' = TRUE
    <3>1. up'.pc = "idle" /\ rp'.pc = "idle" /\ sv' = "idle" /\ sd'.pc = "flag" /\ sd'.failed = {}
      BY <1>1, <2>1 DEF Busy, SafeBegin
    <3> QED BY <2>1, <3>1 DEF OnCourse, Alone, UploadOnCourse, RepairOnCourse,
                              OthersOnCourse, AgreeUndisturbed, Busy
  <2> QED BY <1>1, <2>1, Started
<1>2. CASE Boot \/ BootPlanCheck \/ Shutdown
  BY <1>1, <1>2, Unmoved DEF Boot, BootPlanCheck, Shutdown
<1>3. CASE Halt \/ Crash
  <2>1. Ends
    BY <1>3 DEF Halt, Crash
  <2>2. CASE Busy
    BY <2>1, <2>2, Disturbed DEF Ends, Disturbs
  <2>3. CASE ~Busy
    <3>1. /\ up'.pc = "idle" /\ rp'.pc = "idle" /\ sv' = "idle" /\ sd'.pc = "idle"
          /\ Calm /\ UNCHANGED <<hw, stored>>
      BY <2>1, <2>3 DEF Ends, RepairIdle, SafeIdle
    <3>2. AgreeUndisturbed'
      BY <2>3, <3>1 DEF OnCourse, AgreeUndisturbed, Agree, Busy, Calm
    <3> QED BY <3>1, <3>2 DEF OnCourse, Alone, UploadOnCourse, RepairOnCourse,
                              OthersOnCourse, Busy
  <2> QED BY <2>2, <2>3
<1>4. ASSUME NEW g \in GroupLists, NEW b \in BOOLEAN, OwnerEdit(g, b) PROVE OnCourse'
  BY <1>4, Disturbed DEF OwnerEdit, Disturbs
<1> QED BY <1>2, <1>3, <1>4

\* Every undisturbed writer is alone, and at each of its points inverter, row
\* and what it has read stand as its next steps count on.
THEOREM Course == Spec => []OnCourse
<1>1. Init => OnCourse
  BY DEF Init, RepairIdle, SafeIdle, OnCourse, Alone, UploadOnCourse, RepairOnCourse,
         OthersOnCourse, AgreeUndisturbed, Agree, Busy
<1>2. TypeOK /\ OnCourse /\ [Next]_vars => OnCourse'
  <2>1. ASSUME OnCourse, UNCHANGED vars PROVE OnCourse'
    <3>1. Calm /\ UNCHANGED <<hw, stored, up, rp, sv, sd>>
      BY <2>1 DEF vars, Calm
    <3> QED BY <2>1, <3>1, Unmoved
  <2>2. ASSUME TypeOK, OnCourse, Next PROVE OnCourse'
    BY <2>2, UploadStep, RepairStep, SurviveStep, SafeDefaultsStep, LifeStep
    DEF Next, Threads, Process, Environment
  <2> QED BY <2>1, <2>2
<1> QED BY <1>1, <1>2, TypeCorrect, PTL DEF Spec

\* The agreement of fox_schedule_state with the inverter outlives every writer
\* that runs alone (upload, repair, boot, survival fallback, safe defaults).
THEOREM Agreement == Spec => []AgreeUndisturbed
<1>1. OnCourse => AgreeUndisturbed
  BY DEF OnCourse
<1> QED BY <1>1, Course, PTL


----------------------------------------------------------------------------
(* Every attempt leaves an intent *)

\* An upload ends by recording its plan, as pushed only after its last call, or with the
\* process.
LEMMA UploadEnds ==
  ASSUME TypeOK, Next, up.pc # "idle", up'.pc = "idle"
  PROVE  UploadIntent \/ UploadFail \/ sys' = "down"
<1>1. CASE Upload
  <2>1. UploadRead \/ UploadWrite \/ UploadFlag \/ UploadSave => up'.pc # "idle"
    BY DEF UploadRead, UploadWrite, UploadFlag, UploadSave, TypeOK
  <2> QED BY <1>1, <2>1 DEF Upload
<1>2. CASE \E p \in Plans : UploadStart(p)
  BY <1>2 DEF UploadStart
<1>3. CASE up' = up
  BY <1>3
<1>4. CASE Ends
  BY <1>4 DEF Ends
<1>5. Repair => up' = up
  BY DEF Repair, RepairReadFlag, RepairReadHw, RepairFlagOn, RepairReadDb, RepairRead, RepairWrite, RepairFlagAgain
<1>6. Survive \/ SafeDefaults => up' = up
  BY DEF Survive, SurviveFlagOff, SurviveSaveOff, SurviveSelfUse, SafeDefaults, SafeLeg, SafeSave
<1>7. Process \/ RepairStart \/ Crash => up' = up \/ Ends
  BY DEF Process, Boot, BootRepair, BootPlanCheck, Halt, RepairStart, Crash
<1>8. OutageAges \/ FetchSucceeds \/ FetchFails \/ Shutdown \/ (\E g \in GroupLists, b \in BOOLEAN : OwnerEdit(g, b))
      => up' = up
  BY DEF OutageAges, FetchSucceeds, FetchFails, Shutdown, OwnerEdit
<1> QED BY <1>1, <1>2, <1>3, <1>4, <1>5, <1>6, <1>7, <1>8 DEF Next, Threads, Environment

\* Every upload attempt that is not cut by a crash leaves an intent row with the plan it
\* carried, and ok only after the row of fox_schedule_state was written for it.
THEOREM LeavesIntent == Spec => UploadLeavesIntent
<1>1. ASSUME TypeOK, [Next]_vars, up.pc # "idle", up'.pc = "idle", sys' # "down"
      PROVE  intent'.groups = up.plan /\ (intent'.ok => up.pc = "intent")
  <2>1. Next
    BY <1>1 DEF vars
  <2>2. UploadIntent \/ UploadFail
    BY <1>1, <2>1, UploadEnds
  <2> QED BY <2>2 DEF UploadIntent, UploadFail
<1>2. TypeOK /\ [Next]_vars
      => [up.pc # "idle" /\ up'.pc = "idle" /\ sys' # "down"
            => intent'.groups = up.plan /\ (intent'.ok => up.pc = "intent")]_vars
  BY <1>1
<1> QED BY <1>2, TypeCorrect, PTL DEF Spec, UploadLeavesIntent
=============================================================================
