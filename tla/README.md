# Home Energy Manager in TLA+

Formal models of the parts of the Home Energy Manager (HEM) that decide and
command: the Fox ESS inverter schedule, the Daikin hot-water tank and heating
offset, the SmartThings appliances, the planning that feeds them, the holiday
regime and the tuner of settings. The modules are written from the source under
`src/src/`; TLC checks them on small instances, TLAPS proves theorems about
them for every value of the constants.

## 1. Inventory

HEM is one Python process: a FastAPI application whose lifespan boots the
system (`recover_on_boot`), starts APScheduler's jobs and a heartbeat thread
(every two minutes), and forces a safe state when it stops. Everything
persistent is in one SQLite file; the devices are reached through three clouds
(Fox ESS Open API, Daikin Onecta, Samsung SmartThings), each with quotas,
timeouts and answers that lag. Threads share module globals, SQLite rows and
device objects. The locks: the dispatch lock around a solve and its upload, the
fetch lock, `TANK_WRITE_LOCK` around whoever commands the tank, the ledger's
lock of `auto_tune`.

| Component | State it keeps | Operations | What makes it correct | Module |
|---|---|---|---|---|
| Fox schedule (`lp_dispatch.py`, `octopus_fetch.py`, `state_machine.py`, `foxess/`) | inverter groups, flag, mode; `fox_schedule_state`, `fox_schedule_intent`, the survival column | upload, half-hourly repair, boot repair, survival fallback, safe defaults | inverter and SQLite agree, or come back to agree; a failed upload leaves a trace | `FoxSchedule` |
| Fox groups (`lp_dispatch.py`, `optimizer.py`) | the groups of a plan, the rows the bridge reads | merge, elide, cap, split at midnight, bridge, refuse overlaps | every half hour is played as decided; an upload leaves the half hour under way alone | `FoxGroups` |
| Tank reconciler (`state_machine.py`, `daikin_bulletproof.py`) | `action_schedule` rows and their status, override flags, session memory | one pass over the day's rows per tick | rows are played in their window; the user's gestures win; HEM's own writes are not taken for the user's | `DaikinTank` |
| User boost (`dhw_boost.py`) | one boost row: hold, release, retries | request, undo, expiry, hand-back | the plan respects the boost; the tank is handed back; the row is always closed | `DaikinTank` |
| Daikin service (`daikin/service.py`, `api_quota.py`) | device cache, stale mark, quota counters | refresh, write, predict | nobody acts on a reading older than it believes; the quota holds | `DaikinTank` (cache only) |
| Plan writer (`lp_dispatch.py`, `db.py`) | LWT rows with their restore rows | clear, preserve, write, put back, link | no slot written twice; no row under way disturbed; the offset goes back | `Replan` |
| Plan consent (`state_machine.py`, `optimizer.py`, `mcp_server.py`) | consent rows | propose, approve, reject, expire | a plan nobody answers does not hold the heartbeats for ever | `Replan` |
| Dispatch (`runner.py`, `optimizer.py`, `octopus_fetch.py`) | dispatch and fetch locks, cooldown, pending re-solve flags | daily fetch, retry, event triggers, nightly push, manual solves | fresh rates reach a committed plan; solves do not overlap; plans do not go back | `Dispatch`, `RatePlan` |
| Appliances (`appliance_dispatch.py`) | jobs, re-arm latch | arm, fire, poll, rehydrate, cancel | no load washed twice or without consent | `ApplianceJobs` |
| Vacation, holiday (`vacation.py`, `runner.py`) | preset, return time, stored recovery and its job, last seen holiday flag | enter, leave, recover, transition tick | the house comes back to normal, and nobody comes home to a unit that is off | `Vacation` |
| Auto-tune (`auto_tune.py`, `auto_tune_judge.py`) | the ledger of changes, freezes | propose, owner's write and its undo, judge, roll back | the owner always wins; one change at a time; bounded drift | `AutoTune` |
| SmartThings tokens, confirmation tokens, runtime settings, notifier | token file and breaker; one-shot tokens; key-value rows | see `PROJECT.json` | see `PROJECT.json` | none |
| LP model, weather, analytics, interfaces | none that drives hardware by itself | pure computation, input and output | not modelled | none |

How they interact: the tariff fetch triggers the optimiser (`Dispatch`) and,
when it fails for a day, the survival fallback (`FoxSchedule`); the optimiser
hands groups to the uploader (`FoxGroups`, `FoxSchedule`) and rows to
`action_schedule` (`Replan`); the heartbeat plays the rows, repairs the inverter
and watches the holiday flag (`DaikinTank`, `Replan`, `FoxSchedule`,
`Vacation`); the REST interface requests boosts, cancels jobs, changes settings;
boot and shutdown write to every device. The hard behaviours are listed at their
lines under `hazards` in `PROJECT.json`: writers without a common lock, calls
whose effect outlives their failed answer, decisions on readings taken earlier,
crashes between a row and the write it announces, retries that must be bounded,
rows that must reach a terminal status, values read before and used after
another writer's turn.

## 2. Plan

Done, in this order: `FoxSchedule` with its proofs, `DaikinTank`,
`ApplianceJobs`, `Dispatch` with the abstract specification `RatePlan` and the
proof that it implements it, `Replan`, `Vacation` with its proofs, `FoxGroups`,
`AutoTune`; then the proofs of the safety properties of `ApplianceJobs`,
`Replan`, `AutoTune`, `DaikinTank`, `FoxSchedule` and `FoxGroups`.

Left:

1. The uploader of `FoxSchedule` as an implementation of "either the plan is
   stored, on the inverter and intended, or the intent says it is not".
2. Small modules: the SmartThings token with its circuit breaker, the one-shot
   confirmation tokens, the Daikin quota with concurrent callers.

## 3. The modules

Every module has the form: constants with their assumptions, the state, one
program counter per activity with its local variables, one action per stretch
of code between two points where another activity can come in, the
specification, the properties. An operator marked `MUTANT of X` beside `X` is a
plausible error in the code that `X` models, by which a run was seen to detect
it; it is used nowhere. `Trouble` and the bounds named `Max...` limit the
environment (faults, gestures, requests), never a handler.

### FoxSchedule: the inverter and SQLite

State: the inverter `hw` (groups, flag, Self Use), the newest rows `stored`
(`fox_schedule_state`) and `intent` (`fox_schedule_intent`), the phase `sys` of
the process, and one program counter per writer:

| Variable | Code | Steps |
|---|---|---|
| `up` | `upload_fox_if_operational` | pre-read, write groups, set flag, save row, save intent; or record the failure |
| `rp` | `heartbeat_repair_fox_scheduler`, the Fox block of `recover_on_boot` | read flag, read groups, flag on, compare with the newest row, pre-read, write, flag |
| `sv` | `_maybe_survival_mode` | flag off, save the empty row, Self Use |
| `sd` | `apply_safe_defaults`, inverter legs | flag leg, Self Use leg, one retry of each at boot, save |

Every cloud call is one step with three outcomes: done; failed without effect;
failed with its effect applied. A failure is a `FoxESSError` or another
exception, and where the code treats the two differently (the boot block) both
are possible. SQLite writes do not fail. A group list is a model value, and
`SameGroups` stands for `fingerprints_match`. The work mode and the minimum SoC
are one leg, since no property tells them apart. `OutageAges` is the passing of
24 h. The uploader runs one at a time (dispatch lock); its callers may start it
whenever the process runs, the shutdown included, since the scheduler is stopped
after the safe defaults. Two history variables serve the properties: `solo` (the
writer at work began alone and has not been disturbed) and `dirty` (a
disturbance that no undisturbed writer has run after).

Properties: `AgreeUndisturbed` (at rest and undisturbed, the inverter runs the
stored plan with its flag on), `UploadLeavesIntent` (an upload attempt leaves
its plan in the intent table, marked ok only when the row was stored),
`Converges` (when disturbances cease, the repair brings inverter and SQLite to
agree for good).

### FoxGroups: from a plan to what the inverter plays

The inverter takes a few groups of clock minutes, which have no date and repeat
every day. The groups of a plan are built as `build_fox_groups_from_lp` does:
horizon, merging of equal half hours (a charge that fills and one that holds
apart), elision of idle ones, the cap, the split at midnight. `Upload` adds the
bridge over the half hour under way, which it takes from the rows of
`fox_schedule_state`, and refuses overlaps. `Stop`, `Boot`, `Repair` add the
rows the bridge may be misled by; `Plays` is what the inverter does at a minute.

Properties: `AsDecided` (each half hour of the plan sent is played as the plan
has it), `LiveSlot` (an upload in the middle of a half hour leaves that half
hour as it was). The comments name their exceptions: an idle half hour under way
is taken for a gap and bridged; more stops than the bridge looks back over, or
full groups, hide the schedule in force. Self use is a single key, as
`_slot_fox_tuple` in its default mode knows one tuple of it (`ShapeAssumption`).

### DaikinTank: reconciler, boost and cache

State: the real `tank`, the oldest setting a read may still return (`echo`,
`lagged`), the `cache` of `daikin/service.py`, the plan `rows`, the session
memory `firstApplied`, the newest `boost` row, and three activities: the
heartbeat `hb` with the device object it picked up, the boost request `api`,
and `end_user_boost` in progress, `eb`. A device object is shared: as long as no
refresh has swapped the cached list (`alias`), a write through the object shows
in the cache.

A tick is `TickStart` (pick up the cached device), `TickLock`, one `RowStep` per
row in order, and the tail, where `_check_one_boost_row` decides. A row is left
alone, ended, matched, held for the boost, flagged (inherited or detected),
applied, or failed, each an action with the guard of the code. `EbGated`,
`EbRestored`, `EbCounts`, `EbWrites` are `end_user_boost`, for the heartbeat or
for `Undo`. `BoostRequest`, `RequestTemp`, `RequestPowerful` are
`dhw_boost.apply` with its roll-back. `Crash` forgets memory; `Shutdown` also
writes the tank leg of `apply_safe_defaults`; the boot's reconciliation is a
tick on a device read afresh.

History: `held` (the newest boost's target has been on the tank ever since its
request), `hb.at` (when the tick's device object was read; the code does not
know it), `foreign` (rows whose target another hand wrote over), `attempts`.

Abstractions: the clock counts fractions of the override grace and stands still
inside a tick or a call; the cloud's lag is no longer than the grace
(`LagAssumption`), which is what the grace is there for; tank targets are three ordered temperatures; the
legionella stand-off stands for all gates that make the hand-back wait. Left
out, and claimed nothing about: tank power, LWT offset and climate fields,
deadband escalation, re-assertion of Powerful, shower drawdown, drift and
divergence checks.

Properties: `BoostRespected` (while the boost holds, only its own end, the owner
or a paid Powerful row lowers the tank, whatever the lag, refreshes, restarts and
shutdowns), with one exception, `Misdated`, which is what violates
`HoldUntilRead` (section 7); `OverrideHasCause` (a row is flagged only if another
hand changed the target since it was first played; device objects read while the
cloud trailed the first play are excepted),
`AttemptsBounded` (hand-back writes never exceed the backoff table),
`BoostCloses` (a boost row does not stay open), `RowsTerminate` (a row's end is
noticed as long as its day lasts).

### ApplianceJobs: one load, one start

State: the machine `m` (Smart Control, power, drum, each with its time stamp),
the rows `jobs`, the re-arm latch `latch` and the observations `obs`, the
one-shot timer `cron`, and one program counter per activity:

| Variable | Code | Steps |
|---|---|---|
| `rc` | `reconcile`: `_reconcile_one`, `_arm_or_replan`, `_cancel`, `_poll_running_jobs` | read Smart Control and decide; cancel; look for fresh-arm evidence; arm or re-plan; poll; complete; latch |
| (none) | `pending_arm_change` | release the latch, or look for evidence |
| `fc` | `_fire_cron` | status check; Smart Control; guard; start command; row; or drop and latch |
| `ap` | `cancel_job`, `cancel_appliance_job` | read, write the row, remove the timer |
| `sys` | lifespan, `rehydrate_crons` | stop, restart, timers again |

A step is one cloud call with the statements up to the next call, or to the next
write of a row's status. A call may fail; a start command may also be carried
out and its answer lost. The window is any start within `Horizon`. Every event
that stamps the machine advances the clock, so no two stamps are equal; a cycle
outlasts any handler.

History: `fresh` (the owner has turned Smart Control or the power on since the
drum last started), `started` (jobs that have set the drum going), `cron.lost` (a
late cancel of an earlier job has removed the timer), `exposed` (a load was
washed that no row tells of: a cycle started by hand, a stop between a start
command or "completed" and the latch, a cancel written over a job that runs, a
"running" refused by the unique index). Where `exposed` becomes true the code has
no protection, and `WashedOnce` claims none.

Properties: `WashedOnce` (no load is washed twice, whatever fails, is lost or is
re-stamped), `OneStart` (a job starts the machine at most once, through stops,
cancels and re-plans), `AsArmed` (a start finds the drum stopped and untouched
since the arming), `TimerCovers` (a job scheduled for later has its timer, set
for its row's time, unless it is lost), `OffReleases` and `EndNoticed` (Smart
Control off releases the latch; the end of a cycle is noticed).

### Dispatch and RatePlan: rates become a plan

`Dispatch` has one thread per job (`daily`, `retry`, `push`) and any set of event
and manual threads. A fetch holds the fetch lock, a solve the dispatch lock; a
solve reads the import rates, then the export prices, and commits. Rates are
versions, one batch a day, which Octopus publishes early or late and in two
kinds. Event solves give way to the cooldown and to a held lock; the push waits
600 s and then goes on without the lock (`GiveUp`), which clears the history
variable `serial`. `pending` is the version a re-solve flag was raised for. What
makes an event trigger is free. Troubles: failed fetches, solves and uploads,
solves that get stuck for good, restarts.

`RatePlan` is the abstract specification: landed rates never go back, a plan is
made from landed rates, and while solves are in order it never goes back.
`KeepsPromise` is `Dispatch => RatePlan` under `landed <- stored`,
`planned <- plan`, `orderly <- serial`.

Properties: `Exclusive` (two solves overlap only after a push has stopped
waiting), `PlanForward` (no plan of older rates in place of a newer one),
`PendingKept` (a pending re-solve is forgotten only when the plan has its rates),
`StoredPriced` and `PublishedStored` (what is published gets stored, what is
stored gets into the rows).

### Replan: rows under the reconciler

`rp` is a dispatch (`write_daikin_from_lp_plan`): solve, snapshot and clear with
what `clear_actions_in_range` preserves, write each window and its restore row,
put back, link, consent. `hb` is a heartbeat that plays the snapshot of today's
rows it took and then resets an offset no row accounts for. Around them: consent
with its expiry, approval, rejection, gestures on the offset, restarts. The
clock stands still inside a heartbeat and while a dispatch writes, not while it
solves.

Properties: `OneRowPerSlot` (no slot has two rows of one kind), `UnderWayKept`
(a dispatch neither removes nor changes a row under way), `OffsetReturns` (an
offset that outlives its window is reset, whatever became of its restore row),
`HoldEnds` (a pending consent does not hold the heartbeats for ever).

### Vacation: a trip

`ow` is the owner's call (enter, move the return, leave), `act` the thread that
posts the holiday to the heat pump, `rc` the recovery started by the job or by a
cancel, `hb` the heartbeat's transition tick. The firmware ends the holiday by
itself at the midnight it was given. `excused` names what the code has no answer
to: a recovery that met a new entry ("met"), a failed holiday-off ("off"), a
power-on that failed or was lost in a stop ("power").

Properties: `JobCovers` (a stored recovery has its job), `HolidayReleased` (at
home with nothing at work, the unit is out of holiday mode), `EndsAtHome` (a
holiday is ended before its date only with the preset at home already),
`TripEnds`, `PoweredAgain`.

### AutoTune: the ledger and the owner

`pr` is `propose_change` (admission, second look, write, record; the record may
fail and the setting is put back), `ow` a write of the owner with its hook, alone
or in a batch that may be undone (the hook swallows what fails in it, and may
leave a decision without its row, `OwHookFails`), `ju` the judge's daily job, `ap` a rollback
asked for by the owner. The owner's write takes no lock before the hook, the
judge works for up to half an hour on the row as it read it, a rollback releases
the lock before it marks the row: all of these are separate steps. `owned` is
what the owner has decided last (a value, and the day until which it is frozen),
`exposed` the settings of which the ledger has lost track in a way the code has
no answer to; section 6 lists them.

Properties: `LedgerTrue` (at rest a setting is what its newest row says),
`DriftBounded` (never further than the cap from what the owner last chose),
`FreezeKept` (while his freeze lasts a setting is what the owner chose, although
he decides without the lock and a proposal at work may write after him),
`OneChange` (nothing brings a change under evaluation beside another one, but the
undo of a failed batch), `Judged` (a change under evaluation gets its verdict).

"One change at a time" (`auto_tune.py:9`, "the single `evaluating` row",
`db.py:11394`) is not a property of this code: `_undo_batch_manual` opens the
change again that the batch had ended, without looking whether another one has
come under evaluation (`auto_tune.py:543`), and the model does the same.
`OneChange` says what is left of it. Its exception is written out in the property
as the step `OwUndoes` that meets a change under evaluation, and TLC finds a
behaviour through it when the exception is taken out.

## 4. Runs

| Run | Instance | Distinct states |
|---|---|---|
| `fox_schedule` | 2 plans, 2 uploads, 1 disturbance | 0.31 million |
| `fox_groups` | 6 half hours of 2 minutes, 4 dispatched, 2 groups, 2 solves, 1 stop, start at minute 7 of a day of 12 | 0.45 million |
| `daikin_tank` | 2 rows, hold 4, lag 1, grace 2, clock to 8, 1 boost, 1 disturbance | 2.60 million |
| `daikin_boost` | 1 row, hold 1, 2 backoff entries, 1 boost, 2 disturbances | 0.67 million |
| `daikin_hold` | that of `daikin_tank` without disturbance; violation | 13 states to it |
| `appliance_stops` | 2 jobs, a cycle by hand, 1 change of Smart Control or power, a cancel, 1 trouble, clock to 6 | 3.39 million |
| `appliance_ends` | 2 jobs, 2 changes, 1 trouble, clock to 5, fairness | 0.27 million |
| `dispatch` | 2 batches, an event and a manual thread, 1 trouble | 2.98 million |
| `dispatch_live` | 2 batches, the three jobs, 1 trouble | 0.16 million |
| `replan` | 2 dispatches of any windows over 2 days of 4 instants, 1 trouble | 0.83 million |
| `vacation` | 2 calls over 3 days of 2 instants, 1 trouble | 0.23 million |
| `auto_tune` | 2 settings of 3 values, 2 proposals, 1 write, 1 trouble, 3 days | 1.09 million |

What each run checks is under `runs` in `PROJECT.json`, with a mutation of the
model for each property that makes it fail.

Why the bounds are enough. *Fox:* two plans are what it takes to hold the wrong
one; two uploads let the second meet whatever the first left behind, each may
overlap repairs, survival and shutdown. Repairs, fetches and outages are
unbounded. *Groups:* two minutes tell the two conventions of ends apart; a day of
six half hours, four of them dispatched, puts midnight anywhere in a plan and
lets tomorrow's groups meet today's clock; the plans are those that change once
and those with one gap or charge in the middle, in three kinds of half hour; a
cap of two is reached. *Daikin:* two rows suffice for one to take over from,
inherit from or overwrite the other; a hold of four makes a reading later than
request, grace and lag happen while the boost still holds; the clock's last
instant stands for all later ones; two backoff
entries make the first retry, the last and the give-up occur, and two
disturbances use them up. *Appliances:* a second wash takes two jobs; two changes make
an off and an on, or an off and a re-stamp; gap and debounce are one tick, so
that evidence may be too early, too young or ripe. *Dispatch:* two batches make a
version that is stale, one that is fresh and one still to come; one thread of
each kind, since threads of a kind have the same code. *Replan:* two dispatches
make every pair of old and new windows, over a change of date and a warm-up.
*Vacation:* an entry and a second call (move, leave, or a new entry) at any
point of the first; three days, so that the firmware's midnight may come before
or after the recovery. *AutoTune:* two settings tell "this key" from "any"; a
drift cap of one step among three values makes the third value one step too far;
one write of the owner at any point of a proposal, a verdict or a rollback. The
last day repeats, since freezes of one day and verdicts after one day are over by
then. With two writes the safety properties held over the ten million states
explored, without the exploration coming to its end.

`CHECK_DEADLOCK FALSE` only where the world may come to rest: in `vacation` at
the end of the clock, in `auto_tune` when every bound is used up.

## 5. Fairness

- *FoxSchedule:* a thread that has begun goes on (WF of `Upload`, `Repair`,
  `Survive`, `SafeDefaults`); the supervisor restarts the process (WF of
  `Process`); the heartbeat starts a repair every half hour (WF of
  `RepairStart`); a failed fetch is retried (WF of `FetchFails`). Uploads,
  faults, edits and stops are never required and are bounded: `Converges`
  speaks of what happens after the last of them.
- *DaikinTank:* WF of the heartbeat, of `end_user_boost`, of a request in
  progress, of reading a cold cache; SF of the clock, which advances only
  between ticks and is therefore enabled again and again.
- *ApplianceJobs:* solves and heartbeats recur (WF of `Reconcile`, `Heartbeat`),
  a callback or a cancel that has begun goes on, the process is restarted.
- *Dispatch:* WF of every thread's step, of the nightly push, of the retry's
  tick, of the cooldown's end and of the push's time-out; SF of the push's `TakeLock`, because
  every solve releases the lock and the cooldown then keeps event solves from
  taking it back at once; SF of the retry's `RetryStreak` and `Probe`, because
  their throttles elapse between ticks. A stuck solve never goes on.
- *Replan:* WF of the dispatch and of the heartbeat, SF of the clock.
- *Vacation:* WF of the threads, of the job when it is due, of the heartbeat,
  the firmware and the boot; SF of the clock, which lets the heartbeat see each
  state of the cache.
- *AutoTune:* WF of what has begun and of the judge, of the days (no activity
  lasts from one to the next), of the return from a trip.

Nothing is ever asked of the owner, of a machine or of a fault.

## 6. Proofs

Each proof module states the assumptions it uses by the name they have in the
module it extends; they are what the code's configuration guarantees (bounds are
naturals, sets are disjoint). TLC evaluates them in the runs, and every inductive
invariant below was checked by TLC before it was proved.

**FoxScheduleProofs** - `TypeCorrect`, `Course`, `Agreement`, `LeavesIntent`.
`AgreeUndisturbed` speaks of the moments at which no writer is at work, and a
step that ends a writer cannot be seen to establish it from the previous such
moment alone. `OnCourse` says what holds in between: a writer that is at work and
not `solo` has left `dirty` set; a `solo` writer is alone; and at each of its
points what it has read, written and stored agrees. Relative to `TypeOK` this is
inductive, each action deciding only its own writer's part.

**FoxGroupsProofs** - `TypeCorrect`, `Decided`, `Live`, for any length of a half
hour and of a day, any horizon shorter than the day, any cap and any plans. The
first half is about pure operators. Division with remainder is proved from its two
defining facts (`Division`, `DivisionUnique`, `Cyclic`: two half hours less than a
day apart with one place in the day are the same). The windows cover the plan and do
not overlap (`WindowOf`, `WindowUnique`, from maximal runs of joined half hours),
agree with it (`WindowShape`), and those kept are all before the re-plan
(`KeptOf`, `ReplanAtOf`, by the cost, which grows with the prefix). Split at midnight
into clock minutes they cover exactly their half hours (`SplitParts`, `BuildCovers`),
never overlap (`BuildSeparate`), and are no more than the cap (`BuildSize`); so what
is played agrees with the plan (`PlayingPlan`). The second half is the induction.
`NextOK`: a plan under way begins at this half hour or the next. `Sent`: the inverter
has the groups of the last plan and besides them at most a bridge over the half hour
it landed in, none when the plan decides that one. `RowsOK`: beneath the wipes since
the last upload the rows show that upload, with the groups the inverter still has.
`OpeningOK`: groups cover whole half hours, so that what the half hour began as is
what they play at any minute of it. `WipesOK` bounds the wipes by the stops. From
these `AsDecided` is one minute's argument and `LiveSlot` one step's (`LiveStep`).

**DispatchProofs** - `TypeCorrect`, `Exclusion`, `Forward`, `Kept`, `Refinement`,
for any number of threads and batches. The invariant is `Held` (who solves holds
the lock, but for the push that stopped waiting), `Sound` (plans come from reads,
reads from stored rates, stored rates from Octopus) and `InOrder` (while solves
are in order, what a solve has read is no older than the plan). `Armed` adds what
`PendingKept` needs: a pending re-solve asks for rates already stored, and the
retry job's solve has read them. `Refinement` follows action by action from
`Sound` and `InOrder`.

**VacationProofs** - `TypeCorrect`, `Covered`, `Release`, `EndsHome`, for any day
length and recovery lead. Type correctness rests on `FirmwareEndType`: the
midnight the firmware is given is one of the clock, however the recovery falls.
The invariant ties the owner's call to what it has stored (`Call`), keeps
recovery and entry apart (`Alone`), and, as long as nothing went wrong (`Clean`),
the holiday and the thread that posts it to the stored recovery (`Linked`).

**DaikinTankProofs** - `TypeCorrect`, `Attempts`, `Respected`, `Causes`, for any
rows, windows, retry table, lengths and faults, and any lag no longer than the
grace. `Budgeted` is the inductive form of `AttemptsBounded`: attempts are counted
before they are made, none begins once the table is used up, a boost that still
holds has tried none. The other two are about what an old reading may show, and
their invariant follows the setting from the tank outwards: `Locked` (who holds
`TANK_WRITE_LOCK`), `Mirrored` (an object no refresh has replaced is the cached
one), `Standing` (while the boost's target stays on the tank, the cloud shows it
from the lag after the request on, the cache from the grace on), `Owned` (the same
of a played row that nobody has written over), `Judged` (the same of the tick's
own object, by the date it was really read). A write through any object, failed
half-way or not, keeps all of them, because the object changes only as the tank
does (`WriteTarget`). `BoostOwns` is the lemma that a boost which covers now is
what `_scheduled_tank_state` returns, unless a paid Powerful row is: the choice
among the covering rows exists by well-foundedness of their start times.

**ReplanProofs** - `TypeCorrect`, `OneRow`, `UnderWay`. Ids only grow, and a window
is written only where no row of its kind is left; what the clear has decided to
spare, or has seen running, is still there when it deletes (`Spared`, `InHand`),
though heartbeats and the owner have changed statuses in between. With that
`OneRowPerSlot` is inductive.

**ApplianceJobsProofs** - `TypeCorrect`, `TimersKept`, `StartsOnce`,
`StartsAsArmed`, `NoLoadTwice`, for any number of jobs. One job at most is active
(`OneActive`); a pass or a cancel aims at it (`Aimed`); the timer follows the row
(`Timed`); a job that has set the drum going was armed before the drum last
moved (`OneGo`), so the guard stops it; between guard and command only the owner
touches the drum (`Guarded`). `NoRewash` is the core: as long as no row's end was
lost, the washed load is always held by something - a running row, then an ended
row whose end is later than every stamp of the episode, then the latch - and
neither the evidence of a fresh load nor the timer's own path gets past it.

**AutoTuneProofs** - `TypeCorrect`, `OneAtATime`, `LedgerTells`, `DriftCapped`,
`FreezeRespected`, for any settings and values. `OneChange` speaks of steps. An
admission keeps it because the lock is held from the look to the insert
(`LockHeld`) and nothing can come under evaluation meanwhile (`Alone`). The undo
of a batch that finds nothing under evaluation opens one change at most: a row of
the owner has ended one at most (`EndedOne`), because a setting has one under
evaluation at most (`OneOfKey`) and a row just inserted has ended none yet
(`FreshRow`). `UndoFinds` says what an undo may find. `FreezeKept` follows from the
ledger: a freeze that lasts is told by a row of the owner, no younger row of the
setting is anybody else's, for a proposal is admitted only when every freeze told
before it is over (`Thawed`), and the setting is what its newest row says. The
three about the ledger share one invariant: a setting is what
its rows account for, but for what the activities have in hand (`OnRecord`, with
`PrValue` and `Hands` saying what that is); as long as nobody has come across a
write of the owner, the rows without it account for what was there before
(`Reversible`), which is what makes its undo keep the ledger true; freezes are
told by the rows in the same two ways (`FreezeTold`).

`LeavesIntent` (FoxSchedule), `Live` (FoxGroups), `UnderWay`, `StartsOnce`, `StartsAsArmed`,
`NoLoadTwice`, `Respected`, `Causes` and `OneAtATime` are action properties:
each is one lemma about a step from the inductive invariant.

So every invariant and every action property that a passing run checks, and the
refinement of `RatePlan`, is a theorem. Only model-checked are the liveness
properties: fairness and ENABLED are out of the prover's reach, as is induction over
data, except where the least element of a set of numbers is all that is needed.
`HoldUntilRead` is refuted by its run and has nothing to prove.

## 7. What the code does not do

Behaviour met while modelling that the properties do not claim away; where a
property is about it, the exception is named in the module.

*Fox.* The half-hourly repair and the boot turn on the flag that survival turned
off, with no successful fetch in between (`state_machine.py:3015`, `:3132`; the
message at `octopus_fetch.py:229` and the docstring at `state_machine.py:2979` say
otherwise). `survival_mode_since` is never cleared: `update_octopus_fetch_state`
skips `None`, so the second outage of 24 h gets no fallback
(`octopus_fetch.py:180`). After a stop's safe defaults the repair turns the
scheduler on with the old groups while the newest row says off, and a later
upload in the middle of a half hour finds nothing in force to bridge. An upload
that lands in a half hour its plan has idle gets the old mode bridged over it. On
the day the clocks go back the repeated hour may give overlapping groups, and a
refused upload.

*Daikin.* `_boost_in_effect` judges the device object the tick was given but
dates it by the cache of the moment (`state_machine.py:207`): a reading from
before the cloud showed the boost, kept in the cache until the grace is over and
swapped by another thread during the tick, takes the boost off the tank, though
the newest reading shows it (run `daikin_hold`). At the tick after a boost's hold ends, the row loop runs before the
expiry and flags a row under way as overridden by the user. A lagging reading
that outlives the grace flags the row. A row across midnight is not visited
after it and keeps its status. An undo on a reading from before the boost closes
the row without a write (`state_machine.py:344`).

*Plan rows and consent.* A window pending from before the clear range loses its
restore row (`db.py:4548`); a plan that drops a running window writes no row, and
the completed old one accounts for the offset until its old end; the quota cap may
keep a window without a restore row whose successor was dropped; a preserved
restore row may overlap a window of the new plan; `_PRESERVE.written_count` is set
after the write loop (`scheduler/lp_dispatch.py:2107`), so a dispatch that fails
inside it puts the old rows back among the ones it has written, which the comment
at `:2353` says it does not; what fails while rows are put back is logged and the
rest stays cleared. In all of these the drift check is
what brings the offset back. Rows are written (`optimizer.py:2831`) before the
consent row (`:2952`); `recover_on_boot` reconciles without the consent gate
(`state_machine.py:2959`); a rejected plan with the same text is written again by
the next solve and plays; `reject_plan` deletes pending rows whatever the status;
`_recover_missed_restores` finds no pending row, for the row loop has just ended
them. Every re-solve with a new text proposes anew and renews the expiry
(`scheduler/optimizer.py:3057`), so a stream of them holds the heartbeats for as
long as it lasts. `HoldEnds` does not look at that: its run has two dispatches, it
shows that the last proposal is released by an answer, by its expiry or by the
change of date.

*Vacation.* A power-on that fails is never retried; a stop between storing the
exit (`runner.py:2251`) and the power-on loses it; the stored recovery is cleared
even if the holiday-off call failed; a stop between the preset and the stored
recovery leaves a trip without one; an owner who enters a new trip while the
recovery of the last is at work ends with neither stored recovery nor job
(`vacation.py:650`).

*Appliances.* A cancel through the API leaves Smart Control on and sets no latch,
so the next pass arms the load again (`api/routers/appliances.py:291`); its late
`_remove_cron`, which goes by the appliance's name, removes the timer of a job
armed meanwhile.

*Auto-tune.* `_undo_batch_manual` takes the newest row of any batch for the failed
one's (`auto_tune.py:540`), so a batch whose write changed nothing deletes an
earlier decision of the owner; and an undo opens a change again while another is
under evaluation (`auto_tune.py:543`), which breaks "one change at a time". The
hook swallows a failing insert (`auto_tune.py:531`), and the ledger never learns of
the decision. A stop between a setting and its row leaves a value nothing
explains. A write of the owner equal to what he read before a concurrent proposal
is taken for no decision; a batch may put back a value read while a proposal,
later withdrawn, was in place. `keep` looks and then writes without the lock, and
the judge's closing overwrites whatever status the row has. A rollback releases
the lock before it freezes, so a proposal may slip in.

## 8. Not modelled

The components marked so in `PROJECT.json`, each with its reason; within the
modelled ones, what their notes leave out. By size most of the repository is the
LP with its forecasts (real-valued optimisation and regression, out of TLC's
reach), analytics and reports (read-only computations over history), schema and
queries of `db.py`, configuration, and the translation of REST, MCP and CLI calls
and messages: code without a state of its own to go wrong in an order nobody
tested, which is why the share of lines the modules cover stays small while they
cover most of the code that writes to a device or decides when to. Concurrency
inside SQLite is left to its own lock: each write of `db.py` is one step.
