------------------------------ MODULE Maintenance ------------------------------
(***************************************************************************)
(* The maintenance catalog as BambuLabGlue converges it: a reconcile lists *)
(* Home Keeper's tasks, plans with plan_catalog (and with the clear loop   *)
(* of plan_reconcile, which sees these tasks too), and runs the actions.   *)
(* An options change reloads the entry: a new BambuLabGlue with a lock of  *)
(* its own takes over while coroutines of the old one may still run.       *)
(*                                                                         *)
(* tasks holds the maintenance tasks only.  FirmwareGlue models the        *)
(* firmware task, startup, and Home Keeper coming and going; here Home     *)
(* Assistant runs and Home Keeper is there.  What a printer's firmware     *)
(* entity reads matters to the clear loop alone.                           *)
(***************************************************************************)
EXTENDS MaintenanceLogic, HomeKeeper, FiniteSets, Sequences

CONSTANTS
    Printers,           \* Bambu Lab devices; a printer is its own serial
    model,              \* model[p]: the model in the device registry
    Items,              \* the catalog items looked at
    OptionChoices,      \* what the options of the entry may be
    Handlers,           \* coroutine slots
    Free,               \* a lock is not held
    MaxInstances,       \* bound on setups of the entry
    MaxChanges,         \* bound on changes of the environment
    MaxFaults           \* bound on failed calls

ASSUME MaintenanceAssumption ==
    /\ Items \subseteq BY_KEY
    /\ NoSerial \notin Printers
    /\ Free \notin Handlers
    /\ \A o \in OptionChoices : \A p \in Printers : \A key \in Items :
          override_interval(key, p, o) \in Int
    /\ {MaxInstances, MaxChanges, MaxFaults} \subseteq Nat

VARIABLES
    tasks,          \* Home Keeper's maintenance tasks of ours
    nextId,
    completedByGlue,    \* history: the tasks the glue has completed
    registered,     \* printers whose firmware entity is in the entity registry
    usage,          \* printers with a usage-hours sensor in it
    firmware,       \* firmware[p]: "on", "off" or "unavailable"
    options,        \* the entry's options
    instance,       \* the BambuLabGlue in charge; 0 before the first setup
    up,             \* the entry is set up: it listens to the registry
    reloadDue,      \* the update listener has been called
    lock,           \* lock[i]: the lock of instance i: its holder, or Free
    waiters,        \* waiters[i]: coroutines queued on it
    pc, owner, inSetup, snap, todo, cur,    \* of each coroutine
    stale,          \* history: why the tasks may be behind: what has happened, without
                    \* starting a reconcile, since one last began with no overlap
    edited,         \* history: tasks the user has retuned in Home Keeper's panel
                    \* since the options last changed
    changes, faults

hkVars == <<tasks, nextId, completedByGlue>>
haVars == <<registered, usage, firmware>>
entryVars == <<options, instance, up, reloadDue>>
coroutineVars == <<lock, waiters, pc, owner, inSetup, snap, todo, cur>>
historyVars == <<stale, edited>>
vars == <<hkVars, haVars, entryVars, coroutineVars, historyVars, changes, faults>>

\* A change while the entry is not up; options saved during its setup; a usage
\* sensor; the user's edit of a task; a failed call; coroutines of two instances.
Reasons == {"down", "options", "sensor", "edit", "fault", "overlap"}

Instances == 1 .. MaxInstances

AllIdle == \A h \in Handlers : pc[h] = "idle"

\* Coroutines of the instances before this one.
Leftover == \E h \in Handlers : pc[h] # "idle" /\ owner[h] # instance

SettingUp == \E h \in Handlers : pc[h] # "idle" /\ inSetup[h] /\ owner[h] = instance

Init ==
    /\ tasks = {}
    /\ nextId = 0
    /\ completedByGlue = {}
    /\ registered = Printers
    /\ usage \in {{}, Printers}
    /\ firmware = [p \in Printers |-> "unavailable"]
    /\ options \in OptionChoices
    /\ instance = 0
    /\ up = FALSE
    /\ reloadDue = FALSE
    /\ lock = [i \in Instances |-> Free]
    /\ waiters = [i \in Instances |-> <<>>]
    /\ pc = [h \in Handlers |-> "idle"]
    /\ owner = [h \in Handlers |-> 0]
    /\ inSetup = [h \in Handlers |-> FALSE]
    /\ snap = [h \in Handlers |-> {}]
    /\ todo = [h \in Handlers |-> {}]
    /\ cur = [h \in Handlers |-> {}]
    /\ stale = {"down"}
    /\ edited = {}
    /\ changes = 0
    /\ faults = 0

-----------------------------------------------------------------------------
\* A coroutine of instance i runs up to the lock of i.
StartReconcile(i, setup) ==
    \E h \in Handlers :
        /\ pc[h] = "idle"
        /\ pc' = [pc EXCEPT ![h] = "waiting"]
        /\ owner' = [owner EXCEPT ![h] = i]
        /\ inSetup' = [inSetup EXCEPT ![h] = setup]
        /\ waiters' = [waiters EXCEPT ![i] = Append(@, h)]
        /\ UNCHANGED <<lock, snap, todo, cur>>

\* A firmware entity comes or goes: the set of tracked entities changes.
FirmwareEntity(p) ==
    /\ changes < MaxChanges
    /\ registered' = IF p \in registered THEN registered \ {p} ELSE registered \cup {p}
    /\ changes' = changes + 1
    /\ \/ up /\ StartReconcile(instance, FALSE) /\ UNCHANGED stale
       \/ ~ up /\ stale' = stale \cup {"down"} /\ UNCHANGED coroutineVars
    /\ UNCHANGED <<hkVars, usage, firmware, entryVars, edited, faults>>

\* A usage-hours sensor comes or goes: the set of tracked entities does not
\* change, and _on_registry_updated leaves it at that.
UsageSensor(p) ==
    /\ changes < MaxChanges
    /\ usage' = IF p \in usage THEN usage \ {p} ELSE usage \cup {p}
    /\ changes' = changes + 1
    /\ stale' = stale \cup {"sensor"}
    /\ UNCHANGED <<hkVars, registered, firmware, entryVars, coroutineVars, edited, faults>>

\* A firmware report concerns the printer's firmware task alone.
FirmwareReport(p) ==
    /\ changes < MaxChanges
    /\ \E s \in {"on", "off", "unavailable"} \ {firmware[p]} :
          firmware' = [firmware EXCEPT ![p] = s]
    /\ changes' = changes + 1
    /\ UNCHANGED <<hkVars, registered, usage, entryVars, coroutineVars, historyVars, faults>>

\* The options flow saves.  The update listener is there once the setup is done.
ChangeOptions ==
    /\ changes < MaxChanges
    /\ options' \in OptionChoices \ {options}
    /\ changes' = changes + 1
    /\ \/ /\ up /\ ~ SettingUp
          /\ reloadDue' = TRUE
          /\ UNCHANGED stale
       \/ /\ ~ up \/ SettingUp
          /\ stale' = stale \cup {IF up THEN "options" ELSE "down"}
          /\ UNCHANGED reloadDue
    /\ edited' = {}
    /\ UNCHANGED <<hkVars, haVars, instance, up, coroutineVars, faults>>

\* The entry is set up, or reloaded: async_setup of a new BambuLabGlue.  The old
\* one's subscriptions are gone; its coroutines are not.
SetUp ==
    /\ instance < MaxInstances
    /\ reloadDue \/ ~ up
    /\ ~ SettingUp
    /\ instance' = instance + 1
    /\ up' = TRUE
    /\ reloadDue' = FALSE
    /\ StartReconcile(instance', TRUE)
    /\ UNCHANGED <<hkVars, haVars, options, historyVars, changes, faults>>

\* Home Keeper: a task comes due, by its date or by its meter.
ComesDue ==
    /\ changes < MaxChanges
    /\ \E t \in tasks :
          /\ ~ t.armed
          /\ tasks' = trigger_task(tasks, t.id)
    /\ changes' = changes + 1
    /\ UNCHANGED <<nextId, completedByGlue, haVars, entryVars, coroutineVars, historyVars, faults>>

\* The user checks a task off.
UserCompletes ==
    /\ \E t \in tasks :
          /\ t.armed
          /\ tasks' = complete_task(tasks, t.id)
    /\ UNCHANGED <<nextId, completedByGlue, haVars, entryVars, coroutineVars, historyVars, changes, faults>>

\* The user retunes a task in Home Keeper's panel: its interval is not locked.
UserEdits ==
    /\ changes < MaxChanges
    /\ \E t \in tasks :
          LET retuned == [sensor |-> {[b EXCEPT !.target = @ + 1] : b \in t.sensor},
                          every |-> {[e EXCEPT !.interval = @ + 1] : e \in t.every}]
          IN  /\ tasks' = update_maintenance_task(tasks,
                             [id |-> t.id, sensor |-> retuned.sensor, every |-> retuned.every,
                              fields |-> {"sensor", "every"}])
              /\ edited' = edited \cup {[id |-> t.id, sensor |-> retuned.sensor, every |-> retuned.every]}
    /\ changes' = changes + 1
    /\ stale' = stale \cup {"edit"}
    /\ UNCHANGED <<nextId, completedByGlue, haVars, entryVars, coroutineVars, faults>>

-----------------------------------------------------------------------------
\* A reconcile.

Acquire(h) ==
    LET i == owner[h]
    IN  /\ pc[h] = "waiting"
        /\ lock[i] = Free
        /\ waiters[i] # <<>>
        /\ Head(waiters[i]) = h
        /\ lock' = [lock EXCEPT ![i] = h]
        /\ waiters' = [waiters EXCEPT ![i] = Tail(@)]
        /\ pc' = [pc EXCEPT ![h] = "list"]
        /\ UNCHANGED <<hkVars, haVars, entryVars, owner, inSetup, snap, todo, cur, historyVars, changes, faults>>

Release(h) ==
    /\ pc' = [pc EXCEPT ![h] = "idle"]
    /\ owner' = [owner EXCEPT ![h] = 0]
    /\ inSetup' = [inSetup EXCEPT ![h] = FALSE]
    /\ snap' = [snap EXCEPT ![h] = {}]
    /\ todo' = [todo EXCEPT ![h] = {}]
    /\ cur' = [cur EXCEPT ![h] = {}]
    /\ lock' = [lock EXCEPT ![owner[h]] = Free]
    /\ UNCHANGED waiters

List(h) ==
    /\ pc[h] = "list"
    /\ snap' = [snap EXCEPT ![h] = tasks]
    /\ pc' = [pc EXCEPT ![h] = "plan"]
    /\ stale' = IF ~ up THEN stale ELSE IF Leftover THEN {"overlap"} ELSE {}
    /\ UNCHANGED <<hkVars, haVars, entryVars, lock, waiters, owner, inSetup, todo, cur, edited, changes, faults>>

scan_up_to_date == [p \in {q \in registered : firmware[q] = "off"} |-> NoVersion]

scan_printers ==
    [p \in registered |-> [serial |-> p, model |-> model[p], usage |-> p \in usage]]

\* Both planners see the whole list.
plan_all(list) ==
    plan_clears(list, scan_up_to_date)
    \cup plan_catalog(Items, list, scan_printers, stored(options, OPT_MAINTENANCE, FALSE), options)

Plan(h) ==
    /\ pc[h] = "plan"
    /\ todo' = [todo EXCEPT ![h] = plan_all(snap[h])]
    /\ snap' = [snap EXCEPT ![h] = {}]
    /\ pc' = [pc EXCEPT ![h] = "exec"]
    /\ UNCHANGED <<hkVars, haVars, entryVars, lock, waiters, owner, inSetup, cur, historyVars, changes, faults>>

\* The clears of plan_reconcile come first, the deletes of plan_catalog last.
Ready(actions) ==
    {a \in actions :
        /\ a.op # "clear" => ~ \E b \in actions : b.op = "clear"
        /\ a.op = "delete" => \A b \in actions : b.op = "delete"}

Known(id) == \E t \in tasks : t.id = id

Executing(h, a, op) ==
    /\ pc[h] = "exec"
    /\ a \in Ready(todo[h])
    /\ a.op = op
    /\ op # "create" => Known(a.id)

Done(h, a) ==
    /\ todo' = [todo EXCEPT ![h] = @ \ {a}]
    /\ UNCHANGED <<lock, waiters, pc, owner, inSetup, snap, cur>>

ExecCreate(h) ==
    \E a \in todo[h] :
        /\ Executing(h, a, "create")
        /\ tasks' = add_maintenance_task(tasks, nextId, a)
        /\ nextId' = nextId + 1
        /\ Done(h, a)
        /\ UNCHANGED <<completedByGlue, haVars, entryVars, historyVars, changes, faults>>

ExecUpdate(h) ==
    \E a \in todo[h] :
        /\ Executing(h, a, "update")
        /\ tasks' = update_maintenance_task(tasks, a)
        /\ Done(h, a)
        /\ UNCHANGED <<nextId, completedByGlue, haVars, entryVars, historyVars, changes, faults>>

ExecDelete(h) ==
    \E a \in todo[h] :
        /\ Executing(h, a, "delete")
        /\ tasks' = delete_task(tasks, a.id)
        /\ Done(h, a)
        /\ UNCHANGED <<nextId, completedByGlue, haVars, entryVars, historyVars, changes, faults>>

\* A clear: complete_task, then the note.
ExecComplete(h) ==
    \E a \in todo[h] :
        /\ Executing(h, a, "clear")
        /\ tasks' = complete_task(tasks, a.id)
        /\ completedByGlue' = completedByGlue \cup {a.id}
        /\ cur' = [cur EXCEPT ![h] = {a}]
        /\ pc' = [pc EXCEPT ![h] = "notes"]
        /\ UNCHANGED <<nextId, haVars, entryVars, lock, waiters, owner, inSetup, snap, todo, historyVars, changes, faults>>

ExecNotes(h) ==
    \E a \in cur[h] :
        /\ pc[h] = "notes"
        /\ Known(a.id)
        /\ tasks' = update_maintenance_task(tasks, [id |-> a.id, notes |-> a.notes, fields |-> {"notes"}])
        /\ cur' = [cur EXCEPT ![h] = {}]
        /\ todo' = [todo EXCEPT ![h] = @ \ {a}]
        /\ pc' = [pc EXCEPT ![h] = "exec"]
        /\ UNCHANGED <<nextId, completedByGlue, haVars, entryVars, lock, waiters, owner, inSetup, snap, historyVars, changes, faults>>

\* A call raises: Home Keeper fails, or no longer has the task.  Out of
\* async_setup the exception fails the entry.
Fail(h) ==
    /\ \/ /\ faults < MaxFaults
          /\ pc[h] \in {"list", "notes"} \/ (pc[h] = "exec" /\ todo[h] # {})
          /\ faults' = faults + 1
       \/ /\ \E a \in (IF pc[h] = "exec" THEN Ready(todo[h]) ELSE cur[h]) :
                a.op # "create" /\ ~ Known(a.id)
          /\ UNCHANGED faults
    /\ Release(h)
    /\ stale' = stale \cup {"fault"}
    /\ up' = (up /\ ~ (inSetup[h] /\ owner[h] = instance))
    /\ UNCHANGED <<hkVars, haVars, options, instance, reloadDue, edited, changes>>

\* Variant: the lock stays taken when the plan is done.
FinishHoldingLock(h) ==
    /\ pc[h] = "exec"
    /\ todo[h] = {}
    /\ pc' = [pc EXCEPT ![h] = "idle"]
    /\ owner' = [owner EXCEPT ![h] = 0]
    /\ inSetup' = [inSetup EXCEPT ![h] = FALSE]
    /\ UNCHANGED <<hkVars, haVars, entryVars, lock, waiters, snap, todo, cur, historyVars, changes, faults>>

Finish(h) ==
    /\ pc[h] = "exec"
    /\ todo[h] = {}
    /\ Release(h)
    /\ UNCHANGED <<hkVars, haVars, entryVars, historyVars, changes, faults>>

Coroutine(h) ==
    \/ Acquire(h)
    \/ List(h)
    \/ Plan(h)
    \/ ExecCreate(h)
    \/ ExecUpdate(h)
    \/ ExecDelete(h)
    \/ ExecComplete(h)
    \/ ExecNotes(h)
    \/ Fail(h)
    \/ Finish(h)

Next ==
    \/ \E p \in Printers : FirmwareEntity(p) \/ UsageSensor(p) \/ FirmwareReport(p)
    \/ ChangeOptions
    \/ SetUp
    \/ ComesDue
    \/ UserCompletes
    \/ UserEdits
    \/ \E h \in Handlers : Coroutine(h)

Spec == Init /\ [][Next]_vars

-----------------------------------------------------------------------------
\* Types.

Every == [interval : Nat \ {0}, unit : {"weeks", "months"}]

Binding == [target : Nat \ {0}, also_every : Every]

Notes ==
    [item : Items, wording : SUBSET FAMILIES] \cup {format_up_to_date_notes(NoVersion)}

Kinds == {"sensor", "floating"}

Task == [id : Nat, device : Printers, item : Items, armed : BOOLEAN, notes : Notes,
         kind : Kinds, sensor : SUBSET Binding, every : SUBSET Every]

\* A metered task with a positive number of hours and a backstop, or a periodic one
\* with a positive interval: a schedule Home Keeper can keep.
Keepable(task) == (IF task.kind = "sensor" THEN task.sensor ELSE task.every) # {}

Create == [op : {"create"}, device : Printers, item : Items, notes : Notes,
           kind : Kinds, sensor : SUBSET Binding, every : SUBSET Every]

Update == [op : {"update"}, id : Nat, device : Printers, sensor : SUBSET Binding,
           every : SUBSET Every, notes : Notes, fields : SUBSET {"sensor", "every", "notes"}]

Delete == [op : {"delete"}, id : Nat, device : Printers]

Clear == [op : {"clear"}, id : Nat, device : Printers,
          notes : {format_up_to_date_notes(NoVersion)}, cleared_version : {NoVersion}]

\* A plan hands on keepable schedules only: no call sends a field to empty it.
Action ==
    {a \in Create : Keepable(a)}
    \cup {a \in Update : /\ "sensor" \in a.fields => a.sensor # {}
                         /\ "every" \in a.fields => a.every # {}}
    \cup Delete \cup Clear

CoroutineTypes ==
    /\ lock \in [Instances -> Handlers \cup {Free}]
    /\ waiters \in [Instances -> Seq(Handlers)]
    /\ pc \in [Handlers -> {"idle", "waiting", "list", "plan", "exec", "notes"}]
    /\ owner \in [Handlers -> 0 .. MaxInstances]
    /\ inSetup \in [Handlers -> BOOLEAN]
    /\ snap \in [Handlers -> SUBSET {t \in Task : Keepable(t)}]
    /\ todo \in [Handlers -> SUBSET Action]
    /\ cur \in [Handlers -> SUBSET Clear]

\* Every schedule the glue hands to Home Keeper is one Home Keeper can keep,
\* whatever the options say.
TypeOK ==
    /\ tasks \subseteq {t \in Task : Keepable(t) /\ t.id < nextId}
    /\ nextId \in Nat
    /\ completedByGlue \subseteq 0 .. (nextId - 1)
    /\ registered \subseteq Printers /\ usage \subseteq Printers
    /\ firmware \in [Printers -> {"on", "off", "unavailable"}]
    /\ \A p \in Printers : \A key \in Items : override_interval(key, p, options) \in Int
    /\ instance \in 0 .. MaxInstances
    /\ up \in BOOLEAN /\ reloadDue \in BOOLEAN
    /\ stale \subseteq Reasons
    /\ CoroutineTypes

-----------------------------------------------------------------------------
\* Properties.

\* The schedule item key should have on printer p: what the catalog says for
\* the printer's family, then what the user chose.
schedule(p, key) ==
    LET family == resolved_family(p, model[p], options)
        r == resolve(key, family, p, options)
    IN  IF r.hours # {} /\ p \in usage THEN {sensor_binding(r)}
        ELSE {[interval |-> r.interval, unit |-> r.unit]}

Applies(p, key) ==
    /\ stored(options, OPT_MAINTENANCE, FALSE)
    /\ p \in registered
    /\ item_enabled(key, resolved_family(p, model[p], options), p, options)

\* Each printer has a task for each item that applies to it, on the schedule its
\* model and options give, and none for any other item.
Converged ==
    \A p \in Printers : \A key \in Items :
        IF Applies(p, key)
        THEN \E t \in task_for_device(tasks, p, key) :
                schedule(p, key) = IF p \in usage /\ CATALOG[key].hours # {}
                                   THEN t.sensor ELSE t.every
        ELSE \A t \in tasks : t.device # p \/ t.item # key

\* Nothing runs, no reload is due, and only these things have happened unseen.
QuietBut(reasons) == AllIdle /\ ~ reloadDue /\ stale \subseteq reasons

\* "Converge every catalog task for every known printer" (plan_catalog): no
\* queued reconcile, switched-off master switch, corrected model, replaced
\* printer, edit of the user's or half-executed plan leaves a task behind, one out
\* or one on another schedule, once a reconcile has begun after it.
CatalogConverges == QuietBut({}) => Converged

\* "Re-run setup ... when options change" (async_setup_entry): options saved
\* during the setup come into force like any others.
OptionsInForce == QuietBut({"options"}) => Converged

\* The items metered in hours are bound to the printer's usage-hours sensor once
\* the printer has one (README.md), also if it appears after the task was made.
MeteredWithSensor ==
    QuietBut({"sensor"}) =>
        \A p \in registered \cap usage : \A key \in Items :
            Applies(p, key) /\ CATALOG[key].hours # {} =>
                \E t \in task_for_device(tasks, p, key) : t.sensor = schedule(p, key)

\* Switching the feature off deletes every catalog task, "which is what makes the
\* master toggle safe to flip back and forth" (plan_catalog), however quickly it is
\* flipped.
OffLeavesNothing ==
    QuietBut({"overlap"}) /\ ~ stored(options, OPT_MAINTENANCE, FALSE) => tasks = {}

\* "Every interval is a default you can change, in the options or on the task
\* itself" (CHANGELOG.md): what the user set on a task stays until the user
\* changes the options.
EditsStick ==
    \A e \in edited : \A t \in tasks :
        t.id = e.id => \E last \in edited :
            last.id = t.id /\ last.sensor = t.sensor /\ last.every = t.every

\* Whatever overlaps, a printer has at most one task for an item.
NoDuplicateItems ==
    \A t, u \in tasks : t.device = u.device /\ t.item = u.item => t = u

\* A human does the maintenance and checks it off: the glue completes none of
\* these tasks.
OnlyHumansComplete == completedByGlue = {}

-----------------------------------------------------------------------------
\* Liveness.  asyncio runs every ready coroutine, Home Keeper answers or raises,
\* and Home Assistant does the reload it was asked for.

FairSpec ==
    /\ Spec
    /\ \A h \in Handlers : WF_vars(Coroutine(h))
    /\ WF_vars(reloadDue /\ SetUp)

\* A save of the options that the entry has heard of is not lost: the tasks come
\* to agree with the options, unless something keeps a reconcile from doing it.  (A
\* failing setup may use up the bound on setups.)
SavedOptionsApply ==
    reloadDue ~> \/ AllIdle /\ ~ reloadDue /\ (Converged \/ stale # {})
                 \/ instance = MaxInstances
=============================================================================
