----------------------------- MODULE FirmwareGlue -----------------------------
(***************************************************************************)
(* BambuLabGlue of wiring.py: the Home Assistant side of the firmware      *)
(* mirror.  State events of the firmware entities, registry events and the *)
(* startup each start a coroutine; a coroutine queues for the one lock,    *)
(* asks Home Keeper for the task list, decides with the planners of        *)
(* FirmwareLogic, and runs the actions one service call at a time.         *)
(*                                                                         *)
(* A step of the model is what runs between two awaits of the event loop,  *)
(* or the effect of a service call inside Home Keeper.  Everything else    *)
(* (printers reporting, Home Keeper unloading, the clock, a restart) may   *)
(* happen between any two steps.                                           *)
(***************************************************************************)
EXTENDS FirmwareLogic, HomeKeeper, FiniteSets, Sequences

CONSTANTS
    Printers,           \* Bambu Lab devices that ever have a firmware entity
    Versions,           \* firmware versions an update entity can name
    VersionReporting,   \* printers with an update entity; the others have the
                        \* firmware binary_sensor, which names no version
    Handlers,           \* coroutine slots: bounds how many are in flight
    Free,               \* the lock is not held
    Cooldown,           \* REARM_COOLDOWN_SECONDS, in ticks of the clock
    QuickCalls,         \* TRUE: Home Keeper answers within one tick
    MaxChanges,         \* bound on reports and registry events
    MaxFaults,          \* bound on failed calls and on Home Keeper unloading
    MaxRestarts,        \* bound on restarts and unloads
    MaxClock            \* bound on the clock

ASSUME ConstantsAssumption ==
    /\ VersionReporting \subseteq Printers
    /\ NoVersion \notin Versions
    /\ Free \notin Handlers
    /\ QuickCalls \in BOOLEAN
    /\ {Cooldown, MaxChanges, MaxFaults, MaxRestarts, MaxClock} \subseteq Nat

VARIABLES
    tasks,          \* Home Keeper's tasks that carry our source namespace
    nextId,         \* the id the next task gets
    completions,    \* completions[p]: how often p's firmware task was completed
    hkReady,        \* Home Keeper's services are registered
    registered,     \* printers whose firmware entity is in the entity registry
    report,         \* report[p]: the state of p's firmware entity
    clock,          \* hass.loop.time()
    phase,          \* "down", "starting" (set up, Home Assistant still starting), "running"
    tracked,        \* BambuLabGlue._tracked
    cleared,        \* BambuLabGlue._cleared: cleared[p] holds at most one stamp
    lock,           \* BambuLabGlue._lock: its holder, or Free
    waiters,        \* coroutines queued on the lock, oldest first
    pc,             \* pc[h]: where the coroutine in slot h is
    job,            \* job[h]: what started it
    snap,           \* snap[h]: the task list it got
    todo,           \* todo[h]: the actions it has yet to run
    cur,            \* cur[h]: the clear it is in the middle of (at most one)
    missed,         \* history: work may have been dropped since a reconcile of
                    \* a glue that is set up last planned
    changes, faults, restarts   \* what is left of the bounds is spent

hkVars == <<tasks, nextId, completions>>
haVars == <<registered, report>>
glueVars == <<phase, tracked, cleared>>
handlerVars == <<lock, waiters, pc, job, snap, todo, cur>>
budgets == <<changes, faults, restarts>>
vars == <<hkVars, haVars, glueVars, handlerVars, budgets, hkReady, clock, missed>>

-----------------------------------------------------------------------------
\* What a firmware entity can report.

on(latest, installed) == [state |-> "on", latest |-> latest, installed |-> installed]
off(installed) == [state |-> "off", latest |-> NoVersion, installed |-> installed]
unavailable == [state |-> "unavailable", latest |-> NoVersion, installed |-> NoVersion]

Reports(p) ==
    {unavailable} \cup
    IF p \in VersionReporting
    THEN {r \in {on(l, i) : l \in Versions, i \in Versions} : r.latest # r.installed}
           \cup {off(i) : i \in Versions}
    ELSE {on(NoVersion, NoVersion), off(NoVersion)}

NoJob == [kind |-> "none"]
Reconcile == [kind |-> "reconcile"]
SetupReconcile == [kind |-> "setup"]
Event(p, r) == [kind |-> "event", device |-> p, report |-> r]

Holding == {"list", "plan", "exec", "stamp", "notes"}

AllIdle == \A h \in Handlers : pc[h] = "idle"

Init ==
    /\ tasks = {}
    /\ nextId = 0
    /\ completions = [p \in Printers |-> 0]
    /\ hkReady = FALSE
    /\ registered = Printers
    /\ report = [p \in Printers |-> unavailable]
    /\ clock = 0
    /\ phase = "down"
    /\ tracked = {}
    /\ cleared = [p \in Printers |-> {}]
    /\ lock = Free
    /\ waiters = <<>>
    /\ pc = [h \in Handlers |-> "idle"]
    /\ job = [h \in Handlers |-> NoJob]
    /\ snap = [h \in Handlers |-> {}]
    /\ todo = [h \in Handlers |-> {}]
    /\ cur = [h \in Handlers |-> {}]
    /\ missed = TRUE
    /\ changes = 0
    /\ faults = 0
    /\ restarts = 0

-----------------------------------------------------------------------------
\* Starting a coroutine: it runs at once up to the lock, where it queues.

Spawn(j) ==
    \E h \in Handlers :
        /\ pc[h] = "idle"
        /\ pc' = [pc EXCEPT ![h] = "waiting"]
        /\ job' = [job EXCEPT ![h] = j]
        /\ waiters' = Append(waiters, h)
        /\ UNCHANGED <<lock, snap, todo, cur>>

\* _reconcile returns without a trace when Home Keeper is not there.
StartReconcile(j) ==
    \/ /\ hkReady
       /\ Spawn(j)
       /\ UNCHANGED missed
    \/ /\ ~ hkReady
       /\ missed' = TRUE
       /\ UNCHANGED handlerVars

-----------------------------------------------------------------------------
\* Home Assistant: the printers' entities, the services, time.

\* A firmware entity changes state or attributes.  The subscription hands the
\* new state to _on_update_state with the event.
ChangeReport(p) ==
    /\ changes < MaxChanges
    /\ p \in registered
    /\ \E r \in Reports(p) \ {report[p]} :
          /\ report' = [report EXCEPT ![p] = r]
          /\ \/ p \in tracked /\ Spawn(Event(p, r))
             \/ p \notin tracked /\ UNCHANGED handlerVars
    /\ changes' = changes + 1
    /\ UNCHANGED <<hkVars, hkReady, registered, clock, glueVars, missed, faults, restarts>>

\* The registry changes; _on_registry_updated re-subscribes and reconciles when
\* the set of firmware entities is not the one it knew.
RegistryUpdated ==
    IF phase # "down" /\ registered' # tracked
    THEN tracked' = registered' /\ StartReconcile(Reconcile)
    ELSE UNCHANGED <<tracked, handlerVars, missed>>

Register(p) ==
    /\ changes < MaxChanges
    /\ p \notin registered
    /\ registered' = registered \cup {p}
    /\ changes' = changes + 1
    /\ RegistryUpdated
    /\ UNCHANGED <<hkVars, hkReady, report, clock, phase, cleared, faults, restarts>>

\* The entity goes with its state; the event of the removed state does nothing.
Unregister(p) ==
    /\ changes < MaxChanges
    /\ p \in registered
    /\ registered' = registered \ {p}
    /\ report' = [report EXCEPT ![p] = unavailable]
    /\ changes' = changes + 1
    /\ RegistryUpdated
    /\ UNCHANGED <<hkVars, hkReady, clock, phase, cleared, faults, restarts>>

HKUp ==
    /\ ~ hkReady
    /\ hkReady' = TRUE
    /\ UNCHANGED <<hkVars, haVars, clock, glueVars, handlerVars, missed, budgets>>

HKDown ==
    /\ hkReady
    /\ faults < MaxFaults
    /\ hkReady' = FALSE
    /\ faults' = faults + 1
    /\ UNCHANGED <<hkVars, haVars, clock, glueVars, handlerVars, missed, changes, restarts>>

Tick ==
    /\ clock < MaxClock
    /\ QuickCalls => AllIdle
    /\ clock' = clock + 1
    /\ UNCHANGED <<hkVars, hkReady, haVars, glueVars, handlerVars, missed, budgets>>

-----------------------------------------------------------------------------
\* The glue's lifecycle.

\* async_setup, on a new BambuLabGlue: subscribe; reconcile at once, inside the
\* setup, when Home Assistant already runs, else wait for it to have started.
\* The new object takes over the variables of the last one, whose coroutines must
\* be gone; FirmwareReload has variables for a second object that need not wait.
Setup ==
    /\ phase = "down"
    /\ AllIdle
    /\ tracked' = registered
    /\ cleared' = [p \in Printers |-> {}]
    /\ \/ phase' = "starting" /\ UNCHANGED <<handlerVars, missed>>
       \/ phase' = "running" /\ StartReconcile(SetupReconcile)
    /\ UNCHANGED <<hkVars, hkReady, haVars, clock, budgets>>

\* _on_started
Started ==
    /\ phase = "starting"
    /\ phase' = "running"
    /\ tracked' = registered
    /\ StartReconcile(Reconcile)
    /\ UNCHANGED <<hkVars, hkReady, haVars, clock, cleared, budgets>>

\* The entry is unloaded, to be set up again (a reload, an options change).  Home
\* Assistant lets a setup in progress end first.  The listeners are gone; coroutines
\* in flight go on, with the lock and the memory of the unloaded object.
Unload ==
    /\ restarts < MaxRestarts
    /\ phase # "down"
    /\ \A h \in Handlers : job[h].kind # "setup"
    /\ restarts' = restarts + 1
    /\ phase' = "down"
    /\ tracked' = {}
    /\ missed' = TRUE
    /\ UNCHANGED <<hkVars, hkReady, haVars, clock, cleared, handlerVars, changes, faults>>

\* Home Assistant restarts.  Home Keeper's tasks are stored; the coroutines and
\* the attributes of the BambuLabGlue object are not.  Entities come back
\* unavailable until their integration reports, Home Keeper's services later.
Restart ==
    /\ restarts < MaxRestarts
    /\ restarts' = restarts + 1
    /\ phase' = "down"
    /\ tracked' = {}
    /\ cleared' = [p \in Printers |-> {}]
    /\ lock' = Free
    /\ waiters' = <<>>
    /\ pc' = [h \in Handlers |-> "idle"]
    /\ job' = [h \in Handlers |-> NoJob]
    /\ snap' = [h \in Handlers |-> {}]
    /\ todo' = [h \in Handlers |-> {}]
    /\ cur' = [h \in Handlers |-> {}]
    /\ report' = [p \in Printers |-> unavailable]
    /\ hkReady' = FALSE
    /\ missed' = TRUE
    /\ UNCHANGED <<hkVars, registered, clock, changes, faults>>

-----------------------------------------------------------------------------
\* A coroutine, from the lock to the lock's release.

\* Variant: the coroutine goes on without the lock.
AcquireNothing(h) ==
    /\ pc[h] = "waiting"
    /\ waiters # <<>>
    /\ Head(waiters) = h
    /\ waiters' = Tail(waiters)
    /\ pc' = [pc EXCEPT ![h] = "list"]
    /\ UNCHANGED <<hkVars, hkReady, haVars, clock, glueVars, lock, job, snap, todo, cur, missed, budgets>>

\* asyncio.Lock is fair: the oldest waiter gets it.
Acquire(h) ==
    /\ pc[h] = "waiting"
    /\ lock = Free
    /\ waiters # <<>>
    /\ Head(waiters) = h
    /\ lock' = h
    /\ waiters' = Tail(waiters)
    /\ pc' = [pc EXCEPT ![h] = "list"]
    /\ UNCHANGED <<hkVars, hkReady, haVars, clock, glueVars, job, snap, todo, cur, missed, budgets>>

\* Leaving "async with self._lock", normally or by an exception.
Release(h) ==
    /\ pc' = [pc EXCEPT ![h] = "idle"]
    /\ job' = [job EXCEPT ![h] = NoJob]
    /\ snap' = [snap EXCEPT ![h] = {}]
    /\ todo' = [todo EXCEPT ![h] = {}]
    /\ cur' = [cur EXCEPT ![h] = {}]
    /\ lock' = Free
    /\ UNCHANGED waiters

\* Home Keeper answers list_tasks.
List(h) ==
    /\ pc[h] = "list"
    /\ hkReady
    /\ snap' = [snap EXCEPT ![h] = tasks]
    /\ pc' = [pc EXCEPT ![h] = "plan"]
    /\ UNCHANGED <<hkVars, hkReady, haVars, clock, glueVars, lock, waiters, job, todo, cur, missed, budgets>>

\* Without list_tasks the list reads as empty, and whatever is planned from it
\* (creates only) finds no add_task: the coroutine ends with nothing done.
ListUnavailable(h) ==
    /\ pc[h] = "list"
    /\ ~ hkReady
    /\ Release(h)
    /\ missed' = TRUE
    /\ UNCHANGED <<hkVars, hkReady, haVars, clock, glueVars, budgets>>

recently_cleared(p) ==
    {c.version : c \in {s \in cleared[p] : within_cooldown({s.at}, clock, Cooldown)}}

\* Variant: a printer that is not "on" is taken for up to date.
plan_event_two_valued(h) ==
    LET p == job[h].device
        r == job[h].report
    IN  IF r.state = "on" THEN plan_update_available(snap[h], p, r, recently_cleared(p))
        ELSE plan_update_cleared(snap[h], p, r.installed)

\* _on_update_state decides from the state the event carried.
plan_event(h) ==
    LET p == job[h].device
        r == job[h].report
    IN  CASE r.state = "on" -> plan_update_available(snap[h], p, r, recently_cleared(p))
          [] r.state = "off" -> plan_update_cleared(snap[h], p, r.installed)
          [] OTHER -> {}

\* _scan_updates, run at the moment of the plan.
scan_available == [p \in {q \in registered : report[q].state = "on"} |-> report[p]]

\* Variant: the scan looks for updates on offer only.
scan_up_to_date_never == [p \in {} |-> report[p].installed]

scan_up_to_date == [p \in {q \in registered : report[q].state = "off"} |-> report[p].installed]

plan_all(h) ==
    plan_reconcile(snap[h], scan_available, scan_up_to_date,
                   [p \in Printers |-> recently_cleared(p)])

\* Variant: the lock covers the list and the decision, not the calls.
PlanThenRelease(h) ==
    /\ pc[h] = "plan"
    /\ \/ /\ job[h].kind = "event"
          /\ todo' = [todo EXCEPT ![h] = plan_event(h)]
          /\ UNCHANGED missed
       \/ /\ job[h].kind \in {"reconcile", "setup"}
          /\ todo' = [todo EXCEPT ![h] = plan_all(h)]
          /\ missed' = (phase = "down")
    /\ snap' = [snap EXCEPT ![h] = {}]
    /\ pc' = [pc EXCEPT ![h] = "exec"]
    /\ lock' = Free
    /\ UNCHANGED <<hkVars, hkReady, haVars, clock, glueVars, waiters, job, cur, budgets>>

Plan(h) ==
    /\ pc[h] = "plan"
    /\ \/ /\ job[h].kind = "event"
          /\ todo' = [todo EXCEPT ![h] = plan_event(h)]
          /\ UNCHANGED missed
       \/ /\ job[h].kind \in {"reconcile", "setup"}
          /\ todo' = [todo EXCEPT ![h] = plan_all(h)]
          /\ missed' = (phase = "down")
    /\ snap' = [snap EXCEPT ![h] = {}]
    /\ pc' = [pc EXCEPT ![h] = "exec"]
    /\ UNCHANGED <<hkVars, hkReady, haVars, clock, glueVars, lock, waiters, job, cur, budgets>>

\* The actions of a plan that may be next: a device's refresh comes after its
\* arm, and every clear comes last.
Ready(actions) ==
    {a \in actions :
        /\ a.op = "clear" => \A b \in actions : b.op = "clear"
        /\ a.op = "update" => ~ \E b \in actions : b.op = "arm" /\ b.device = a.device}

\* The coroutine runs action a of _execute.
Executing(h, a) ==
    /\ pc[h] = "exec"
    /\ hkReady
    /\ a \in Ready(todo[h])

\* a is done; on to the next one.
Done(h, a) ==
    /\ todo' = [todo EXCEPT ![h] = @ \ {a}]
    /\ UNCHANGED <<lock, waiters, pc, job, snap, cur>>

ExecCreate(h) ==
    \E a \in todo[h] :
        /\ Executing(h, a)
        /\ a.op = "create"
        /\ tasks' = add_task(tasks, nextId, ITEM_FIRMWARE, a)
        /\ nextId' = nextId + 1
        /\ Done(h, a)
        /\ UNCHANGED <<completions, hkReady, haVars, clock, glueVars, missed, budgets>>

ExecArm(h) ==
    \E a \in todo[h] :
        /\ Executing(h, a)
        /\ a.op = "arm"
        /\ tasks' = trigger_task(tasks, a.id)
        /\ Done(h, a)
        /\ UNCHANGED <<nextId, completions, hkReady, haVars, clock, glueVars, missed, budgets>>

ExecUpdate(h) ==
    \E a \in todo[h] :
        /\ Executing(h, a)
        /\ a.op = "update"
        /\ tasks' = update_task(tasks, a.id, a.chips, a.notes, a.fields)
        /\ Done(h, a)
        /\ UNCHANGED <<nextId, completions, hkReady, haVars, clock, glueVars, missed, budgets>>

\* The first half of a clear: complete_task takes effect.
ExecComplete(h) ==
    \E a \in todo[h] :
        /\ Executing(h, a)
        /\ a.op = "clear"
        /\ tasks' = complete_task(tasks, a.id)
        /\ completions' = [completions EXCEPT ![a.device] = @ + 1]
        /\ cur' = [cur EXCEPT ![h] = {a}]
        /\ pc' = [pc EXCEPT ![h] = "stamp"]
        /\ UNCHANGED <<nextId, hkReady, haVars, clock, glueVars, lock, waiters, job, snap, todo, missed, budgets>>

\* complete_task returned: remember the clear.  Without update_task the note
\* stays as it is, and the actions left find no service either.
Stamp(h) ==
    \E a \in cur[h] :
        /\ pc[h] = "stamp"
        /\ cleared' = [cleared EXCEPT ![a.device] = {[at |-> clock, version |-> a.cleared_version]}]
        /\ \/ /\ hkReady
              /\ pc' = [pc EXCEPT ![h] = "notes"]
              /\ UNCHANGED <<lock, waiters, job, snap, todo, cur, missed>>
           \/ /\ ~ hkReady
              /\ Release(h)
              /\ missed' = TRUE
        /\ UNCHANGED <<hkVars, hkReady, haVars, clock, phase, tracked, budgets>>

\* The second half: the note says what is installed now.
ExecNotes(h) ==
    \E a \in cur[h] :
        /\ pc[h] = "notes"
        /\ tasks' = update_task(tasks, a.id, {}, a.notes, {"notes"})
        /\ cur' = [cur EXCEPT ![h] = {}]
        /\ todo' = [todo EXCEPT ![h] = @ \ {a}]
        /\ pc' = [pc EXCEPT ![h] = "exec"]
        /\ UNCHANGED <<nextId, completions, hkReady, haVars, clock, glueVars, lock, waiters, job, snap, missed, budgets>>

\* Home Keeper is gone: each action left is skipped without an await.
DropRest(h) ==
    /\ pc[h] = "exec"
    /\ todo[h] # {}
    /\ ~ hkReady
    /\ Release(h)
    /\ missed' = TRUE
    /\ UNCHANGED <<hkVars, hkReady, haVars, clock, glueVars, budgets>>

\* Variant: acquire() and release() with no finally between them.
FailHoldingLock(h) ==
    /\ faults < MaxFaults
    /\ pc[h] \in {"list", "notes"} \/ (pc[h] = "exec" /\ todo[h] # {})
    /\ pc' = [pc EXCEPT ![h] = "idle"]
    /\ missed' = TRUE
    /\ faults' = faults + 1
    /\ UNCHANGED <<hkVars, hkReady, haVars, clock, glueVars, lock, waiters, job, snap, todo, cur, changes, restarts>>

\* A service call raises; the exception leaves the lock and ends the coroutine
\* with the rest of its actions.  Out of async_setup it fails the entry, which
\* drops the subscriptions.
Fail(h) ==
    /\ faults < MaxFaults
    /\ pc[h] \in {"list", "notes"} \/ (pc[h] = "exec" /\ todo[h] # {})
    /\ Release(h)
    /\ missed' = TRUE
    /\ faults' = faults + 1
    /\ \/ /\ job[h].kind = "setup"
          /\ phase' = "down"
          /\ tracked' = {}
       \/ /\ job[h].kind # "setup"
          /\ UNCHANGED <<phase, tracked>>
    /\ UNCHANGED <<hkVars, hkReady, haVars, clock, cleared, changes, restarts>>

Finish(h) ==
    /\ pc[h] = "exec"
    /\ todo[h] = {}
    /\ Release(h)
    /\ UNCHANGED <<hkVars, hkReady, haVars, clock, glueVars, missed, budgets>>

HandlerStep(h) ==
    \/ Acquire(h)
    \/ List(h)
    \/ ListUnavailable(h)
    \/ Plan(h)
    \/ ExecCreate(h)
    \/ ExecArm(h)
    \/ ExecUpdate(h)
    \/ ExecComplete(h)
    \/ Stamp(h)
    \/ ExecNotes(h)
    \/ DropRest(h)
    \/ Finish(h)

Next ==
    \/ \E p \in Printers : ChangeReport(p) \/ Register(p) \/ Unregister(p)
    \/ HKUp
    \/ HKDown
    \/ Tick
    \/ Setup
    \/ Started
    \/ Unload
    \/ Restart
    \/ \E h \in Handlers : HandlerStep(h) \/ Fail(h)

Spec == Init /\ [][Next]_vars

\* The event loop runs every coroutine that can run, and Home Keeper answers.
Fairness == \A h \in Handlers : WF_vars(HandlerStep(h))

FairSpec == Spec /\ Fairness

-----------------------------------------------------------------------------
\* Types.

Notes == [kind : {"available", "up_to_date"},
          latest : Versions \cup {NoVersion},
          installed : Versions \cup {NoVersion}]

Chips == SUBSET Versions

Task == [id : Nat, device : Printers, item : {ITEM_FIRMWARE}, armed : BOOLEAN,
         notes : Notes, chips : Chips]

Report == [state : {"on", "off", "unavailable"},
           latest : Versions \cup {NoVersion},
           installed : Versions \cup {NoVersion}]

Action ==
    [op : {"create"}, device : Printers, notes : Notes, chips : Chips]
    \cup [op : {"arm"}, id : Nat, device : Printers, offer : Versions \cup {NoVersion}]
    \cup [op : {"clear"}, id : Nat, device : Printers, notes : Notes,
          cleared_version : Versions \cup {NoVersion}]
    \cup [op : {"update"}, id : Nat, device : Printers, chips : Chips, notes : Notes,
          fields : SUBSET {"chips", "notes"}]

Job == {NoJob, Reconcile, SetupReconcile} \cup [kind : {"event"}, device : Printers, report : Report]

CoroutineTypes ==
    /\ lock \in Handlers \cup {Free}
    /\ waiters \in Seq(Handlers)
    /\ pc \in [Handlers -> {"idle", "waiting"} \cup Holding]
    /\ job \in [Handlers -> Job]
    /\ snap \in [Handlers -> SUBSET Task]
    /\ todo \in [Handlers -> SUBSET Action]
    /\ cur \in [Handlers -> SUBSET Action]

TypeOK ==
    /\ tasks \in SUBSET Task
    /\ nextId \in Nat
    /\ completions \in [Printers -> Nat]
    /\ hkReady \in BOOLEAN
    /\ registered \in SUBSET Printers
    /\ report \in [Printers -> Report]
    /\ clock \in Nat
    /\ phase \in {"down", "starting", "running"}
    /\ tracked \in SUBSET Printers
    /\ cleared \in [Printers -> SUBSET [at : Nat, version : Versions \cup {NoVersion}]]
    /\ CoroutineTypes
    /\ missed \in BOOLEAN
    /\ {changes, faults, restarts} \subseteq Nat

-----------------------------------------------------------------------------
\* Properties.

firmware_tasks(p) == {t \in tasks : t.device = p /\ t.item = ITEM_FIRMWARE}

\* One BambuLabGlue object never gives a printer two firmware tasks, however its
\* events, the startup and the registry's reconciles interleave, whatever fails in
\* between, and whether or not it is unloaded meanwhile: the object's lock around
\* list, decide and execute (wiring.py) is the only thing that keeps two coroutines
\* from each finding no task and each creating one.  Coroutines of two objects are
\* FirmwareReload's.
NoDuplicateTasks ==
    \A t, u \in tasks : t.device = u.device /\ t.item = u.item => t = u

\* What a planned action takes for granted of the task list.
StillApplies(a, list) ==
    /\ a.op = "create" => ~ \E t \in list : t.device = a.device /\ t.item = ITEM_FIRMWARE
    /\ a.op = "arm" => \E t \in list : t.id = a.id /\ t.device = a.device /\ ~ t.armed
    /\ a.op = "clear" => \E t \in list : t.id = a.id /\ t.device = a.device /\ t.armed
    /\ a.op = "update" => \E t \in list : t.id = a.id /\ t.device = a.device

\* No plan goes stale: between the list it was made from and each of its calls
\* other coroutines, restarts and failures may come, and the call still finds
\* the task as the planner saw it (no trigger of an armed task, no second
\* completion of a dormant one, no create next to an existing task).
PlanStaysValid ==
    \A h \in Handlers : \A a \in todo[h] \ cur[h] : StillApplies(a, tasks)

\* Every coroutine ends: failed calls, skipped actions and Home Keeper coming
\* and going never leave the lock held or a waiter forgotten.
EveryHandlerFinishes == \A h \in Handlers : pc[h] # "idle" ~> pc[h] = "idle"

\* const.py: the cooldown "can't hide a genuine new update".  A printer that
\* keeps reporting an update past the cooldown, with nothing else going on, has
\* an armed task in the end.
UpdateNotHidden ==
    \A p \in Printers :
        <>[](/\ phase = "running" /\ hkReady /\ AllIdle /\ ~ missed
             /\ p \in registered /\ report[p].state = "on"
             /\ \A c \in cleared[p] : clock - c.at >= Cooldown)
        => []<>(\E t \in firmware_tasks(p) : is_armed(t))
=============================================================================
