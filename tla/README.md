# A TLA+ model of Home Keeper — Bambu Lab

`ha-home-keeper-bambu-lab` is a Home Assistant integration that mirrors the
state of Bambu Lab printers into tasks of another integration, Home Keeper. It
owns no entities and stores no state of its own: everything it knows is Home
Keeper's task list, the entity registry, the states of the printers' entities
and the options of its config entry. Its correctness is therefore a question of
*when* it reads those and *when* it writes back, with other things happening in
between. That is what these modules model.

## The system

| Part | State it keeps | Operations | What is hard about it |
| --- | --- | --- | --- |
| Firmware planners, `logic.py` | none | `plan_update_available`, `plan_update_cleared`, `plan_reconcile` | the re-arm cooldown; what each planner assumes of the list it is given |
| Catalog planner, `logic.py` | none | `plan_catalog`, `catalog_task_drift` | create, retune and delete must converge from any task list |
| Catalog, `catalog.py` | none | `resolved_family`, `resolve` | four layers of options; zero, negative and blank intervals |
| Glue, `wiring.py` `BambuLabGlue` | `_tracked`, `_cleared`, `_lock` | `async_setup`, `_on_started`, `_on_registry_updated`, `_on_update_state`, `_reconcile`, `_execute` | every handler is a coroutine; list, decide and execute span many awaits |
| Entry, `__init__.py` | the running glue | set up, reload on an options change, unload, remove | an old instance's coroutines outlive it |
| Options flow, `config_flow.py` | the answers so far | `init`, `select_printer`, `model`, `items` | copies the options at its start and writes all of them at its end |
| Home Keeper (external) | the tasks; the companions | `list_tasks`, `add_task`, `trigger_task`, `complete_task`, `update_task`, `delete_task`, `register_companion` | comes up later than the glue, goes away, fails a call |
| Bambu Lab (external) | a firmware entity and a usage-hours sensor per printer | state and registry events | flaps, goes offline, replaces entities |
| Log gate, `scripts/check_ha_log.py` | allowlist, records, findings, used entries | reads the allowlist, groups lines into records, checks them | used by the docker tests only; continuation lines, entries that hide nothing |

How they interact. A firmware entity's state event starts `_on_update_state`
with the state *as of the event*. A registry event, Home Assistant's start and
the set-up of the entry start `_reconcile`, which reads the states *at the
moment it plans*. Both queue for one lock, ask Home Keeper for its tasks, decide
with the planners, and make one service call per action. An options change
reloads the entry: a new `BambuLabGlue`, with a new lock, takes over. Removal of
the entry unloads the glue, lists the tasks once and deletes them one by one.
The glue announces itself to Home Keeper's companion registry at its set-up and
whenever Home Keeper asks.

Firmware tasks are completion-blocked and deletion-protected (README.md:23-25),
so no user action on them exists. Maintenance tasks are made due by Home Keeper
and completed by people.

### What makes each part correct

- *Glue*: never two firmware tasks for a printer from one glue object, and never
  more than one for each object with coroutines; no call made on a plan gone
  stale; once quiet, Home Keeper shows what the printers report; one completion
  per install; every coroutine ends and the lock is always passed on.
- *Firmware planners*: raise and clear alternate; no re-arm within the cooldown
  for the firmware just installed, and none suppressed for another.
- *Catalog and its planner*: every schedule is one Home Keeper can keep;
  options of one printer never reach another; after any sequence of option
  changes, model corrections, entities coming and going and failed calls, the
  tasks are those catalog and options ask for; only people complete them.
- *Options flow*: what the user last said about a printer is what it gets; a
  flow changes the printers whose forms the user changed, and no other; a
  corrected model starts from its own defaults; saved options come into force.
- *Entry*: a removal deletes every task it can, and an entry added again takes
  over what was left.
- *Companion discovery*: glue and Home Keeper find each other in whatever order
  they come up.
- *Log gate*: it passes a log exactly if the log has records, every problem in
  it is allowed for a reason and every allowance is needed.

`PROJECT.json` lists the hazards behind these, each at its line.

## Modules

| Module | Models | How it corresponds to the code |
| --- | --- | --- |
| `FirmwareLogic` | firmware planners of `logic.py` | one operator per function. `X \| None` is a set of at most one element; a list of actions is its set of elements, ordered when executed |
| `HomeKeeper` | the services the glue calls (external) | what each call makes of the set of tasks |
| `FirmwareGlue` | `wiring.py`, `__init__.py` | one action per stretch of a coroutine between two awaits, or per effect of a service call; one per event of the environment |
| `FirmwareReload` | a reload of the entry | two instances of `FirmwareGlue`, each an object with its own lock, memory and coroutines, over one Home Keeper |
| `FirmwareGlueHistory` | — | history variables over `FirmwareGlue`, the properties that need them, and the refinement mapping to `FirmwareMirror` |
| `FirmwareMirror` | — | the abstract specification: a task per printer, raised and cleared alternately, with the cooldown rule; no lock, list, events or services |
| `Catalog` | `catalog.py` | all eight items, seven families with what each overrides, and four layers of options |
| `MaintenanceLogic` | catalog half of `logic.py` | one operator per function |
| `Maintenance` | the reconcile that runs `plan_catalog`, and the entry's reloads | coroutines carry the instance they belong to; each instance has its own lock |
| `EntryRemoval` | `async_remove_entry`, and the integration added again | extends `Maintenance`: one action per call of the removal, beside everything that goes on there |
| `OptionsFlow` | `config_flow.py` | one action per form shown or submitted; a flow's attributes are functions of the flow, and several may be open |
| `Companion` | `_register_companion` and what calls it | one action per handler, and per thing Home Keeper does |
| `LogGate` | `check_ha_log.py` | one action per line read and record checked; a log or an allowlist that cannot be read |
| `FirmwareGlueProofs`, `FirmwareReloadProofs`, `FirmwareMirrorProofs`, `QuiescenceProofs` | — | theorems about the glue: its safety, two objects at a time, its refinement of the mirror and its completions, its quiet states |
| `CatalogProofs`, `MaintenanceProofs` | — | theorems about the catalog; the types, the removal and the convergence of the tasks |
| `OptionsFlowProofs`, `LogGateProofs` | — | theorems about the answers of the forms and the verdict of the gate |
| `MCFirmwareGlue`, `MCFirmwareReload`, `MCMaintenance`, `MCEntryRemoval`, `MCOptionsFlow`, `MCLogGate` | — | instances for TLC |

`FirmwareGlue` composes `FirmwareLogic` and `HomeKeeper`; `Maintenance` composes
`MaintenanceLogic` (over `Catalog` and `FirmwareLogic`) and `HomeKeeper`.
`OptionsFlow` writes options through `Catalog`'s key constructors and reads them
back through its `resolve`, as the reconcile does: what it checks of the answers
is their whole way from form to schedule.
Operators whose comment begins with "Variant" are plausible mistakes in the code
next to them. No specification uses one; with a definition replaced by its
variant, TLC finds the property that guards against the mistake violated
(`mutants` in `PROJECT.json`).

### A coroutine of `FirmwareGlue`

`pc[h]` follows a coroutine: `idle`, `waiting` (queued on the lock), `list`
(`list_tasks` in flight), `plan` (the answer is there; the plan reads the
states *now*, `_scan_updates`), `exec` (one action of `todo[h]` after the
other), `stamp` and `notes` (the two halves of a clear after `complete_task`).
`Acquire` takes the oldest waiter, as `asyncio.Lock` does. `Fail` is a service
call that raises: the rest of the plan is lost, and out of `async_setup` the
entry's set-up fails. `DropRest` is `_hk_ready` refusing the remaining actions.

The environment acts between any two steps: `ChangeReport`, `Register`,
`Unregister`, `HKUp`, `HKDown`, `Tick`, `Started`, `Setup`, `Unload`, `Restart`.
A restart forgets the glue's attributes and its coroutines and keeps Home
Keeper's tasks. `Unload` leaves coroutines in flight as they are, as the code
does; only a set-up in progress ends first.

The variables of `FirmwareGlue` are those of one object. `Setup` makes a new
object of them, so it waits for the coroutines of the last one (`AllIdle`); the
code does not wait. That is what `FirmwareReload` adds: a second set of the same
variables, by `INSTANCE`, so that one object is set up while coroutines of the
other are in flight, each with its lock and its memory. `AllIdle` says there
that the variables are free for a third object. The model has therefore at
most two objects with coroutines at a time, through any number of reloads.
What the properties of `FirmwareGlue` alone say, they say of one object.

`missed` is a history variable that makes "quiet" precise: nothing runs, *and* a
reconcile has begun since work was last dropped. The properties on quiet states
promise nothing in between.

### Quiet, in `Maintenance`

There `stale` is the set of reasons for which the tasks may be behind although
nothing runs: a change while the entry was not up (`down`), options saved during
a set-up (`options`), a usage-hours sensor that came or went (`sensor`), an edit
in Home Keeper's panel (`edit`), a failed call (`fault`), coroutines of two
instances at a time (`overlap`). A reconcile that begins with no overlap empties
it. `CatalogConverges` speaks of states with no reason left. The properties
`OptionsInForce`, `MeteredWithSensor` and `OffLeavesNothing` forgive one reason
each that the documentation does not mention, and the code does not live up to
them (below).

### An options flow

`step[f]` is the form that flow `f` shows. Its copy of the options, `data[f]`,
is taken when the first form is submitted and becomes the options at the end.
The history variables say what the user meant: `given[f]` is what was submitted
about each printer, `said` what was last saved about it, `behind[f]` that the
options have changed since `f` copied them, and `overwritten` that a flow has
saved while behind. `AnswersInForce` compares `said` with what `resolve` makes
of the options.

### Abstractions

Names, icons, templates, payload constants and the release URL are left out. A
note is the record of what it says and a chip is the version on it. A foreign
task is invisible to the code (`_is_ours`) and is not in `tasks`. A printer of
`Maintenance` is its own serial. A report is `on` with two versions, `off` with
one, or `unavailable` (which stands for `unknown` too); a printer outside
`VersionReporting` has the `binary_sensor` variant, without versions. The model
name is taken as already stripped and upper-cased. In `OptionsFlow` the name
template is left out, and the number field has whole numbers from 1, as the
form enforces (`Catalog` covers zero and negative ones). A log line is the set of
the script's patterns that match it, and an expression of the allowlist is the
pattern it looks for. Lists become sets where the
order cannot matter: two creates of one plan concern different printers or
items. The order that does matter (a refresh after the arm, clears last in
`plan_reconcile`, deletes last in `plan_catalog`) is `Ready`.

When a maintenance task comes due is Home Keeper's business. `ComesDue` lets any
dormant one do so at any time, and a task is taken to be created dormant.

## Runs

All runs say `CHECK_DEADLOCK FALSE`: the environment's budgets are finite, so a
behaviour may end, and a system in which nothing happens is not stuck.
`EveryHandlerFinishes` is the property that says nothing is.

| Run | Shows | Bounds, and why they suffice |
| --- | --- | --- |
| `fleet` | `TypeOK`, `NoDuplicateTasks`, `PlanStaysValid`: the lock makes list, decide and execute one unit; `CompletionPerOff` for the `binary_sensor` entity | 2 printers; 3 coroutines: a late event, a reconcile that overtakes it and the next event; 4 changes, 1 fault, 1 restart |
| `reload` | `NoDuplicatesUnlessOverlap`, `AtMostOneEach`: without coroutines of two objects at a time no second firmware task, and never a third | two objects of 2 coroutines each; 2 changes, 1 fault; 2 reloads or restarts, so that an object is set up over an overlap and set up again |
| `mirror` | `RefinesMirror`, `QuiescentMirror` for the `update` entity; `EveryHandlerFinishes` | 2 versions, the fewest for "another version"; 3 changes: an update, its install, another update; cooldown of 1 tick and a clock of 1: inside and exactly at its end; 2 coroutines, a fault and a restart: a waiter behind a failing holder |
| `convergence` | `TypeOK`, `CatalogConverges`, `RemovalSparesOnlyFailures` through the whole life of an entry | an X1C, one item metered in hours and one by the calendar; three answers of the options flow; 2 set-ups, hence one overlap, or one removal and return; 3 changes, 1 failed call |
| `applied` | `SavedOptionsApply`, and `CatalogConverges` for an X1C and an A1 mini that want the same item | 3 set-ups: the first, a reload, one more; a failing set-up may use up the bound, which the property allows; 2 changes, 1 failed call |
| `answers` | `AnswersInForce`, `CorrectedModelRedefaults`, `OnlyTouchedPrintersChange` | 2 flows side by side; an X1C, an A1 mini and a printer without a serial, which come and go once; the flat options of the preview below; 2 items forms submitted, the fewest for a correction of an earlier answer or a collision |
| `discovery` | `Discovered` | 8 comings and goings of either side: each goes away and comes back twice; 1 failed call |
| `gate` | `GateVerdict`: the line-by-line program against a definition over the whole file and log | 3 lines of log: a record, a continuation, another record; 4 lines of allowlist: two entries with a reason each. Allowlists in which an entry comes right after another are left to `shared_reason` |
| `human_work`, `overlap`, `late_sensor`, `shared_reason` | disagreements between code and documentation, below | the smallest instance that shows each |

`QuickCalls = TRUE` (in `fleet` and `reload`) lets the clock
tick only while nothing runs, so that the cooldown of fifteen minutes is long
against a service call. With `FALSE` a call may take longer than the cooldown.
`mirror` holds even so; `CompletionPerOff` is only meant under `TRUE`, where the
cooldown can do its work.

`Permutations` symmetry is used on coroutine slots, flows, printers and
versions, which no property tells apart, and never in a run with a liveness property.

### Fairness

`FairSpec`, and `FairHSpec` with the history variables, assume weak fairness of
each coroutine's next step: asyncio runs every ready coroutine, and its lock
wakes waiters in order. For the steps that are service calls they assume that
Home Keeper answers or raises; the code has no timeout, so without this the lock
could be held for good. Nothing is assumed of printers, clock, restarts or Home
Keeper's availability. `Maintenance!FairSpec` assumes besides that Home
Assistant carries out a reload it was asked for, and `Companion!FairSpec` that a
coroutine that is due and a call under way end. Nothing fair is assumed of
users.

### Where code and documentation disagree

Each of these has a run in `PROJECT.json`:

- `human_work` — the clear loop of `plan_reconcile` does not look at `item`, so
  a reconcile on an up-to-date printer completes its due maintenance tasks and
  overwrites their notes (logic.py:472-473 and 573-574).
- `overlap` — during a reload the old and the new instance hold different
  locks, and both create the same task (README.md:61-63). Such a pair is never
  repaired, since `task_for_device` looks at the first match; this is why
  `CatalogConverges` speaks of the first task. It speaks of presence and
  schedule and not of notes because of the previous item.
- `late_sensor` — a usage-hours sensor registered after its printer's firmware
  entity starts no reconcile, since only the set of firmware entities is
  compared: the tasks stay on the calendar (README.md:143-145).
- `shared_reason` — an entry on the line after another is accepted without a
  reason of its own, since only a blank line ends a reason (check_ha_log.py:33-35
  and ha_log_allowlist.txt:3-4 ask for a comment on the line before each entry).

The following are kept as properties with a configuration to reproduce each
(`tlc -config <cfg> <module>`); they are further consequences of the above, or
smaller:

| Configuration, module | Property | What happens |
| --- | --- | --- |
| `StaleChip.cfg`, `MCFirmwareGlue` | `ChipShowsOffer` | an event never refreshes an armed task: a newer version leaves the old one on the chip until some later reconcile (README.md:17-19) |
| `DormantAdvert.cfg`, `MCFirmwareGlue` | `DormantDoesNotAdvertise` | a reconcile within the cooldown suppresses the arm and still rewrites chip and note of the dormant task (docstrings of `ClearTask`, `UpdateTask`) |
| `PhantomCompletion.cfg`, `MCFirmwareGlue` | `CompletionPerOff` | with an `update` entity, an event overtaken by a reconcile re-arms the task for the version just replaced, and the next event completes it again (CHANGELOG.md:33-35) |
| `FirmwareOverlap.cfg`, `MCFirmwareReload` | `NoDuplicateTasks` | the overlap of `overlap`, for firmware tasks: an event waits for its list in the old object while the new one's reconcile creates the task (README.md:62-63) |
| `HiddenUpdate.cfg`, `FirmwareGlue` | `UpdateNotHidden` | an update reported inside the cooldown by a printer without versions is dropped, and nothing looks again (const.py:84-86) |
| `OptionsDuringSetup.cfg`, `MCMaintenance` | `OptionsInForce` | the update listener is added after the first reconcile: options saved during it start no reload (`__init__.py`:32) |
| `FlipOverlap.cfg`, `MCMaintenance` | `OffLeavesNothing` | on and off again quickly: the old instance's creates land after the new one's list (logic.py:570-571) |
| `UserEdit.cfg`, `MCMaintenance` | `EditsStick` | the next reconcile undoes an interval changed on the task (CHANGELOG.md:60, README.md:149-150; docs/MAINTENANCE_CATALOG_PLAN.md:188-190 says so) |
| `RemovalRace.cfg`, `MCEntryRemoval` | `RemovalLeavesNothing` | a reconcile in flight creates its tasks after the removal has listed what to delete (`__init__.py`:45-46) |
| `LostUpdate.cfg`, `MCOptionsFlow` | `AnswersKept` | of two options flows open at once, the one saved last puts back the options as they were when it started. "Each printer's model and item choices are its own, so they're answered one printer at a time" (config_flow.py:153-154) is read literally; it was written about the forms of one flow |
| `Unheard.cfg`, `MCOptionsFlow` | `EveryPrinterListens` | a lone printer without a serial: its answers are stored under keys nobody reads (README.md:127-128, 152) |

## Theorems

TLC checks small instances. The theorems hold for every value of the constants
that meets the modules' assumptions: any number of printers, versions, items,
coroutines, flows, set-ups, faults and restarts. Every invariant, action
property and refinement of a passing run is one of them. Each rests on an
inductive invariant, proved action by action; what it adds to the property, and
why it must, is said below.

### The glue (`FirmwareGlueProofs`)

- `TypeCorrectness`: `Spec => []TypeOK`
- `NoDuplicates`: `Spec => []NoDuplicateTasks`
- `PlansStayValid`: `Spec => []PlanStaysValid`

`NoDuplicateTasks` alone is not inductive: a coroutine with a create in its plan
may add a second task unless nothing else adds one between list and call. The
inductive invariant `IndInv` says why nothing does:

- `TypeInv`, types, with the types of the auxiliary state;
- `LockInv`, a coroutine past the lock is its holder, and only one that is
  executing has a plan;
- `PlanInv`, the list a coroutine is about to plan from is still the task list,
  and no two creates, arms or clears of a plan concern the same task;
- `Ids`, task ids are below `nextId`;
- `OnePerItem`, `NoDuplicateTasks`;
- `PlanStaysValid`, which is inductive only together with these.

The environment leaves tasks and plans alone; `Plan` rests on lemmas about what
the planners return for a list without duplicates; each call of a coroutine
disturbs only its own plan, because the lock keeps every other plan empty.

All three are about the coroutines of one object, however many, with calls that
fail, unloads under their feet and restarts. They do not extend to two objects.

### Two objects at a time (`FirmwareReloadProofs`)

- `NoDuplicatesWithoutOverlap`: `ReloadSpec => []NoDuplicatesUnlessOverlap`
- `AtMostOnePerObject`: `ReloadSpec => []AtMostOneEach`

With two locks the list a coroutine plans from may be out of date, so `PlanInv`
and `PlanStaysValid` fail. What is left, and is proved at the end of
`FirmwareGlueProofs` for an object whose Home Keeper others use too, is an
account per printer (`ObjectInv`, `Creating`): an object may still create a task
for a printer only through the coroutine that holds its lock, and it comes to
that only by finding none. `ReloadInv` keeps the account of both (`Counts`):
with both about to create there is no task, with one of them at most one, and
there are never more than two; until they have overlapped, with either about to
create there is none, and there is never more than one (`Apart`).
The steps of either object are those of `FirmwareGlue`, so each lemma is
used twice, the second time through an instance of the proof module (`Peer`).

### Refinement of the mirror (`FirmwareMirrorProofs`)

- `GlueIsMirror`: `HSpec => RefinesMirror`. Every step of the glue is a `Raise`,
  `Clear`, `Forget` or `Pass` of `FirmwareMirror`, or a stutter.

The hard case is `Raise`: `ExecArm` makes its call long after the cooldown was
looked at, and `_cleared` is written in a step of its own after the completion.
`HIndInv` is `IndInv` with `MirrorInv`: a clear of this life of the glue is in
`_cleared`, except between the completion and the stamp of the coroutine that
made it (`ClearRemembered`, `StampIsLast`); a glue that is not set up hears no
event, so that none sees the memory a restart has emptied (`DownIsDeaf`); every
arm on a plan is one the mirror still allows (`ArmsAllowed`); and a plan runs its clears last
(`ClearsLast`), so that none of its own clears can forbid an arm behind it.

- `CompletionPerVersionlessOff`: a printer outside `VersionReporting` has at
  most as many completions as its entity went to `off`, whatever printers are
  beside it.
- `CompletionsPerOff`: `HSpec => []CompletionPerOff` when no printer names
  versions, as in `fleet`.

Both assume `QuickCalls` and `Cooldown > 0`, which is what fifteen minutes
against a service call mean, and neither says anything of a printer that names
versions: there the property is false (`PhantomCompletion.cfg`). The argument
is an account (`CreditInv`): there are fewer completions than `off`s, or as many
and then nothing in sight can clear the task (`NoOff`), or it is dormant and so
freshly cleared that the cooldown suppresses every arm (`JustCleared`), or it is
not armed and nothing in sight arms it (`Settled`). A late `on` between two
clears for one `off` would overdraw it; the cooldown forbids that.

### Quiet states (`QuiescenceProofs`)

- `QuietGlueMirrors`: `HSpec => []QuiescentMirror`

That nothing runs says nothing of the last coroutine to run. `QuietInv` is
`IndInv` with: the lock's queue is the order in which coroutines were started
(`QueueInv`); the glue tracks what is registered (`SubscribedInv`); of the
events waiting about a printer the last carries its present report
(`OrderInv`); and while nothing has been missed, a registered printer is either
shown as it is (or its arm is suppressed by the cooldown), or some coroutine is
still going to see to it (`WorkInv`). With every coroutine idle only the first
is left. `OrderInv` is where the fairness of `asyncio.Lock` matters: with a lock
that wakes waiters in another order, an early report could overwrite a late one.

### The catalog (`CatalogProofs`)

For every item, printer and options:

- `ScheduleIsPositive`: any number stored as an interval resolves to a positive
  schedule;
- `AxisIsTheItems`: whether an item counts hours or calendar units is the same for
  any two families, so correcting the model cannot change what a stored number
  means. A family may override hours, interval and unit (`ModelOverride`), and
  `resolve` goes by what comes out of it, so this rests on two facts:
  an override cannot take hours away (`HoursAreNeverRemoved`, for any item
  whatever), and no family of the catalog gives hours to an item without
  (`CatalogFigures`, read off the catalog), which the rule alone would allow;
- `OptionsDoNotLeak`: a printer's schedule depends on its own keys and the flat
  ones only.

### Maintenance tasks and the entry's removal (`MaintenanceProofs`)

- `SchedulesKeepable`, `SchedulesKeepableForLife`: `Spec => []TypeOK` and
  `LifeSpec => []TypeOK`. `TypeOK` says that every task and every planned call
  has a positive interval; it rests on `ScheduleIsPositive`, and is inductive
  together with the fact that no two tasks share an id.
- `RemovalDeletesAllItCan`: `LifeSpec => []RemovalSparesOnlyFailures`. Coroutines
  of the unloaded glue may be in flight all along. `RemovalInv` accounts for
  every task below `horizon`, the id the next task would get at the time of
  the listing: it is still to be deleted, or its delete has failed (`Accounted`).
  Such a coroutine can update, complete or delete one of them, and none of that
  gives back a task the removal has deleted, since ids only grow (`IdsGrow`). What it creates gets an
  id from `horizon` on; the removal never hears of it, and
  `RemovalRace.cfg` shows that it stays. Without coroutines in flight
  (`company`) there is no such task. A removal that could not list (`gaveUp`)
  promises nothing.

They assume that an interval stored in the options is a whole number
(`MaintenanceAssumption`), as the form stores it (config_flow.py:252) and
`resolve` reads it (catalog.py:445); zero and negative ones are allowed. A call
that fails, or two instances at once, change nothing in the argument.

### Convergence (`MaintenanceProofs`)

- `TasksConverge`, `TasksConvergeForLife`: `Spec => []CatalogConverges` and
  `LifeSpec => []CatalogConverges`

`ConvInv` is `TypeInv` with: a coroutine past its lock holds it (`HolderInv`);
and, unless some reason to be behind is left or a reconcile is still to list
(`WorkInv`), every coroutine at work belongs to the present instance, plans from a list that
says of the tasks what the planner looks at (`Alike`: a task that comes due or
is completed meanwhile makes no difference), and what is left of its plan turns
them into those the catalog wants (`Achieves`). Each call then shortens the plan
and keeps what it achieves, and with nothing left of it the tasks are right.
The core is the lemma that `plan_catalog` achieves what the catalog wants from
*any* task list, duplicates and tasks of printers that are gone included; "the
first task of the list" is the one with the least id, which exists because the
natural numbers are well-founded.

### The options flow (`OptionsFlowProofs`)

- `AnswersStayInForce`: `Spec => []AnswersInForce`
- `CorrectionsRedefault`: `Spec => []CorrectedModelRedefaults`
- `OthersStayAsTheyAre`: `Spec => OnlyTouchedPrintersChange`

What a user said is compared with what `resolve` makes of the options, so the
invariant has to follow every answer through a flow: the numbers a flow holds
and the form it shows are those of its printer (`FlowInv`); what was given and
said is the reading of the copy and of the options (`GivenInv`, `SaidInv`); and
a flow that is not behind has a copy that differs from the options only about
printers whose forms the user changed (`CopyInv`). The assumptions
(`OptionsFlowAssumption`): no two printers share a serial, or they have none
(the serial comes from the unique id of the firmware entity, and Home Assistant
keeps those unique within a platform), and intervals stored earlier are whole
numbers.

### The log gate (`LogGateProofs`)

- `GateIsRight`: `Spec => []GateVerdict`

The verdict is a definition over the whole log and the whole allowlist; the
program reads line by line and stops at the first faulty entry. `GateInv` says
for each phase what is established so far: all entries read are sound and each
has its reason (`ReadingInv`), the records are the log grouped up to here
(`ParsingInv`), and findings and used entries are those of the records checked
(`CheckingInv`). It holds for logs and allowlists of any length. It is proved
with the code's reading of a reason, a comment that an entry or a run of entries
follows (`Excused`); in an allowlist in which no entry comes right after another,
which is what `GateVerdict` is about, that is a comment on the line before
(`OwnReason`).

### Only model-checked

`EveryHandlerFinishes`, `SavedOptionsApply` and `Discovered`: liveness under
fairness is out of the prover's reach. So are the counterexamples of the runs
that disagree with the documentation, by their nature: each is an existence
claim about one instance.

## Not modelled

- *Name template, names, labels, placeholders*: wording.
- *The log gate's report* (grouping, shapes, samples): formatting.
- *Home Assistant itself*: that several options flows may be open at once, that
  a set-up in progress is waited for before an unload, that an entry is dropped
  before `async_remove_entry` is called, and that an unload does not end
  coroutines started by listeners, are taken from how it behaves, and are
  external here.
- *A call that never returns*: the fairness of the models excludes it. The code
  has no timeout, so such a call holds the lock for good.
- *Translations, manifest, constants, tests, CI*: data, or no part of the
  running system.
- *What Home Keeper makes of a sensor binding sent to a periodic task*: not in
  this repository. `catalog_task_drift` sends the binding and never the kind;
  the model keeps the kind and checks the binding.

## Plan

Done: firmware planners and glue, abstract mirror, catalog, maintenance
convergence, entry, options flow, companion discovery, log gate; theorems for
every safety property that a run checks; reloads of the glue with coroutines of two
objects in flight.

Next, in order:

1. The safety half of the liveness properties: the lock's holder is never idle
   and no waiter is lost, for `FirmwareGlue` and for `Maintenance`; a discovery
   that has failed is always one that will be asked for again.
2. `Maintenance`: no duplicate tasks as long as no two instances overlap.
3. `plan_catalog` as a function: what it plans for a list that is right is
   nothing; together with `Achieves`, that a second reconcile is idle.
4. The planners of firmware tasks: `plan_reconcile` agrees with the two event
   planners on a single printer outside the cooldown.
