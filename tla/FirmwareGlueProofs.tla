-------------------------- MODULE FirmwareGlueProofs --------------------------
(***************************************************************************)
(* Type correctness of FirmwareGlue and the absence of duplicate tasks, for*)
(* every set of printers, versions and coroutines and without the bounds.  *)
(***************************************************************************)
EXTENDS FirmwareGlue, TLAPS

\* What a coroutine is in the middle of is a clear.
CurInv == \A h \in Handlers : \A a \in cur[h] : a.op = "clear"

TypeInv == TypeOK /\ CurInv

-----------------------------------------------------------------------------
\* What the planners return, given well-typed lists and reports.

LEMMA AvailableTypes ==
    ASSUME NEW S \in SUBSET Task, NEW p \in Printers, NEW r \in Report,
           NEW recent
    PROVE  plan_update_available(S, p, r, recent) \in SUBSET Action
<1> DEFINE task == task_for_device(S, p, ITEM_FIRMWARE)
<1>1. task \subseteq Task
  BY DEF task_for_device
<1>2. /\ format_notes(r.latest, r.installed) \in Notes
      /\ build_firmware_chips(r.latest) \in Chips
  BY DEF Report, Notes, Chips, format_notes, build_firmware_chips
<1>3. CreateTask(p, format_notes(r.latest, r.installed), build_firmware_chips(r.latest)) \in Action
  BY <1>2 DEF CreateTask, Action
<1>4. \A t \in task : ArmTask(t.id, p, r.latest) \in Action
  BY <1>1 DEF ArmTask, Action, Task, Report
<1> QED
  BY <1>3, <1>4 DEF plan_update_available

LEMMA ClearedTypes ==
    ASSUME NEW S \in SUBSET Task, NEW p \in Printers, NEW v \in Versions \cup {NoVersion}
    PROVE  plan_update_cleared(S, p, v) \in SUBSET Action
<1>1. format_up_to_date_notes(v) \in Notes
  BY DEF Notes, format_up_to_date_notes
<1>2. \A t \in Task : ClearTask(t.id, p, format_up_to_date_notes(v), v) \in Action
  BY <1>1 DEF ClearTask, Action, Task
<1> QED
  BY <1>2 DEF plan_update_cleared, task_for_device

LEMMA RefreshTypes ==
    ASSUME NEW S \in SUBSET Task, NEW p \in Printers, NEW r \in Report
    PROVE  plan_refresh(S, p, r) \in SUBSET Action
<1> DEFINE chips == build_firmware_chips(r.latest)
           notes == format_notes(r.latest, r.installed)
<1>1. notes \in Notes /\ chips \in Chips
  BY DEF Report, Notes, Chips, format_notes, build_firmware_chips
<1>2. \A t \in Task : \A f \in SUBSET {"chips", "notes"} :
          UpdateTask(t.id, p, chips, notes, f) \in Action
  <2> HIDE DEF chips, notes
  <2> QED BY <1>1 DEF UpdateTask, Action, Task
<1> QED
  BY <1>2 DEF plan_refresh, task_for_device

LEMMA ClearsTypes ==
    ASSUME NEW S \in SUBSET Task, NEW current,
           \A d \in DOMAIN current : current[d] \in Versions \cup {NoVersion}
    PROVE  plan_clears(S, current) \in SUBSET Action
<1>1. \A v \in Versions \cup {NoVersion} : format_up_to_date_notes(v) \in Notes
  BY DEF Notes, format_up_to_date_notes
<1>2. \A t \in Task : \A v \in Versions \cup {NoVersion} :
          ClearTask(t.id, t.device, format_up_to_date_notes(v), v) \in Action
  BY <1>1 DEF ClearTask, Action, Task
<1> QED
  BY <1>2 DEF plan_clears

LEMMA ReconcileTypes ==
    ASSUME TypeOK, NEW S \in SUBSET Task, NEW recent
    PROVE  plan_reconcile(S, scan_available, scan_up_to_date, recent) \in SUBSET Action
<1>1. \A d \in DOMAIN scan_available : d \in Printers /\ scan_available[d] \in Report
  BY DEF TypeOK, scan_available
<1>2. \A d \in DOMAIN scan_up_to_date : scan_up_to_date[d] \in Versions \cup {NoVersion}
  BY DEF TypeOK, scan_up_to_date, Report
<1>3. plan_clears(S, scan_up_to_date) \in SUBSET Action
  BY <1>2, ClearsTypes
<1>4. \A d \in DOMAIN scan_available :
          plan_offer(S, d, scan_available[d], recent[d]) \in SUBSET Action
  BY <1>1, AvailableTypes, RefreshTypes DEF plan_offer
<1> QED
  BY <1>3, <1>4 DEF plan_reconcile

-----------------------------------------------------------------------------
\* What Home Keeper's calls make of a well-typed task list.

LEMMA TriggerTypes ==
    ASSUME NEW S \in SUBSET Task, NEW i
    PROVE  trigger_task(S, i) \in SUBSET Task
BY DEF trigger_task, Task

LEMMA CompleteTypes ==
    ASSUME NEW S \in SUBSET Task, NEW i
    PROVE  complete_task(S, i) \in SUBSET Task
BY DEF complete_task, Task

LEMMA UpdateTypes ==
    ASSUME NEW S \in SUBSET Task, NEW i, NEW chips, NEW notes \in Notes, NEW fields,
           "chips" \in fields => chips \in Chips
    PROVE  update_task(S, i, chips, notes, fields) \in SUBSET Task
<1> SUFFICES ASSUME NEW t \in S
             PROVE  [t EXCEPT !.chips = IF t.id = i /\ "chips" \in fields THEN chips ELSE @,
                              !.notes = IF t.id = i /\ "notes" \in fields THEN notes ELSE @]
                      \in Task
  BY DEF update_task
<1>1. t \in Task
  OBVIOUS
<1> QED
  BY <1>1 DEF Task

-----------------------------------------------------------------------------
\* The steps the actions share.

LEMMA ReportsTypes ==
    ASSUME NEW p \in Printers
    PROVE  Reports(p) \subseteq Report
BY DEF Reports, Report, on, off, unavailable

LEMMA SpawnTypes ==
    ASSUME TypeInv, NEW j \in Job, Spawn(j)
    PROVE  CoroutineTypes' /\ CurInv'
<1> PICK h \in Handlers :
        /\ pc' = [pc EXCEPT ![h] = "waiting"]
        /\ job' = [job EXCEPT ![h] = j]
        /\ waiters' = Append(waiters, h)
        /\ UNCHANGED <<lock, snap, todo, cur>>
  BY DEF Spawn
<1> QED
  BY DEF TypeInv, TypeOK, CoroutineTypes, CurInv

LEMMA IdleHandlers ==
    ASSUME TypeInv, UNCHANGED handlerVars
    PROVE  CoroutineTypes' /\ CurInv'
BY DEF TypeInv, TypeOK, CoroutineTypes, CurInv, handlerVars

LEMMA StartReconcileTypes ==
    ASSUME TypeInv, NEW j \in {Reconcile, SetupReconcile}, StartReconcile(j)
    PROVE  CoroutineTypes' /\ CurInv' /\ missed' \in BOOLEAN
<1>1. j \in Job
  BY DEF Job
<1>2. CASE Spawn(j) /\ UNCHANGED missed
  BY <1>1, <1>2, SpawnTypes DEF TypeInv, TypeOK
<1>3. CASE missed' = TRUE /\ UNCHANGED handlerVars
  BY <1>3, IdleHandlers
<1> QED
  BY <1>2, <1>3 DEF StartReconcile

LEMMA RegistryTypes ==
    ASSUME TypeInv, registered' \in SUBSET Printers, RegistryUpdated
    PROVE  CoroutineTypes' /\ CurInv' /\ missed' \in BOOLEAN /\ tracked' \in SUBSET Printers
<1>1. CASE tracked' = registered' /\ StartReconcile(Reconcile)
  BY <1>1, StartReconcileTypes
<1>2. CASE UNCHANGED <<tracked, handlerVars, missed>>
  BY <1>2, IdleHandlers DEF TypeInv, TypeOK
<1> QED
  BY <1>1, <1>2 DEF RegistryUpdated

LEMMA ReleaseTypes ==
    ASSUME TypeInv, NEW h \in Handlers, Release(h)
    PROVE  CoroutineTypes' /\ CurInv'
<1>1. NoJob \in Job
  BY DEF Job
<1> QED
  BY <1>1 DEF Release, TypeInv, TypeOK, CoroutineTypes, CurInv

-----------------------------------------------------------------------------
\* Type correctness.

LEMMA TypeInit == Init => TypeInv
<1>1. unavailable \in Report /\ NoJob \in Job
  BY DEF unavailable, Report, Job
<1>2. Init => CoroutineTypes
  BY <1>1 DEF Init, CoroutineTypes
<1>3. Init => /\ completions \in [Printers -> Nat]
              /\ report \in [Printers -> Report]
              /\ cleared \in [Printers -> SUBSET [at : Nat, version : Versions \cup {NoVersion}]]
  BY <1>1 DEF Init
<1>4. Init => {changes, faults, restarts} \subseteq Nat /\ CurInv
  BY DEF Init, CurInv
<1>5. Init => /\ tasks \in SUBSET Task /\ nextId \in Nat /\ clock \in Nat
              /\ registered \in SUBSET Printers /\ tracked \in SUBSET Printers
  BY DEF Init
<1> QED
  BY <1>2, <1>3, <1>4, <1>5 DEF Init, TypeInv, TypeOK

\* Home Assistant's and the lifecycle's steps.
LEMMA TypeEnvironment ==
    ASSUME TypeInv,
           \/ \E p \in Printers : ChangeReport(p) \/ Register(p) \/ Unregister(p)
           \/ HKUp \/ HKDown \/ Tick \/ Setup \/ Started \/ Unload \/ Restart
    PROVE  TypeInv'
<1> USE DEF hkVars, haVars, glueVars, budgets
<1>1. ASSUME NEW p \in Printers, ChangeReport(p) PROVE TypeInv'
  <2> PICK r \in Reports(p) :
          /\ report' = [report EXCEPT ![p] = r]
          /\ Spawn(Event(p, r)) \/ UNCHANGED handlerVars
    BY <1>1 DEF ChangeReport
  <2>1. r \in Report
    BY ReportsTypes
  <2>2. Event(p, r) \in Job
    BY <2>1 DEF Event, Job
  <2>3. CoroutineTypes' /\ CurInv'
    BY <2>2, SpawnTypes, IdleHandlers
  <2> QED
    BY <1>1, <2>1, <2>3 DEF ChangeReport, TypeInv, TypeOK
<1>2. ASSUME NEW p \in Printers, Register(p) PROVE TypeInv'
  <2>1. registered' \in SUBSET Printers
    BY <1>2 DEF Register, TypeInv, TypeOK
  <2> QED
    BY <1>2, <2>1, RegistryTypes DEF Register, TypeInv, TypeOK
<1>3. ASSUME NEW p \in Printers, Unregister(p) PROVE TypeInv'
  <2>1. registered' \in SUBSET Printers
    BY <1>3 DEF Unregister, TypeInv, TypeOK
  <2>2. unavailable \in Report
    BY DEF unavailable, Report
  <2> QED
    BY <1>3, <2>1, <2>2, RegistryTypes DEF Unregister, TypeInv, TypeOK
<1>4. ASSUME HKUp \/ HKDown \/ Tick PROVE TypeInv'
  <2>1. UNCHANGED handlerVars
    BY <1>4 DEF HKUp, HKDown, Tick
  <2>2. CoroutineTypes' /\ CurInv'
    BY <2>1, IdleHandlers
  <2>3. CASE HKUp
    BY <2>2, <2>3 DEF HKUp, TypeInv, TypeOK
  <2>4. CASE HKDown
    <3>1. faults' \in Nat /\ UNCHANGED <<changes, restarts>>
      BY <2>4 DEF HKDown, TypeInv, TypeOK
    <3> QED
      BY <2>2, <2>4, <3>1 DEF HKDown, TypeInv, TypeOK
  <2>5. CASE Tick
    BY <2>2, <2>5 DEF Tick, TypeInv, TypeOK
  <2> QED
    BY <1>4, <2>3, <2>4, <2>5
<1>5. ASSUME Setup \/ Started PROVE TypeInv'
  <2>1. CoroutineTypes' /\ CurInv' /\ missed' \in BOOLEAN
    <3>1. CASE \E j \in {Reconcile, SetupReconcile} : StartReconcile(j)
      BY <3>1, StartReconcileTypes
    <3>2. CASE UNCHANGED <<handlerVars, missed>>
      BY <3>2, IdleHandlers DEF TypeInv, TypeOK
    <3> QED
      BY <1>5, <3>1, <3>2 DEF Setup, Started
  <2> QED
    BY <1>5, <2>1 DEF Setup, Started, TypeInv, TypeOK
<1>6. ASSUME Restart PROVE TypeInv'
  <2>1. unavailable \in Report /\ NoJob \in Job
    BY DEF unavailable, Report, Job
  <2>2. CoroutineTypes' /\ CurInv'
    BY <1>6, <2>1 DEF Restart, CoroutineTypes, CurInv
  <2>3. /\ report' \in [Printers -> Report]
        /\ cleared' \in [Printers -> SUBSET [at : Nat, version : Versions \cup {NoVersion}]]
    BY <1>6, <2>1 DEF Restart
  <2>4. tracked' \in SUBSET Printers /\ {changes', faults', restarts'} \subseteq Nat
    BY <1>6 DEF Restart, TypeInv, TypeOK
  <2> QED
    BY <1>6, <2>2, <2>3, <2>4 DEF Restart, TypeInv, TypeOK
<1>7. ASSUME Unload PROVE TypeInv'
  <2>1. CoroutineTypes' /\ CurInv'
    BY <1>7, IdleHandlers DEF Unload
  <2> QED
    BY <1>7, <2>1 DEF Unload, TypeInv, TypeOK
<1> QED
  BY <1>1, <1>2, <1>3, <1>4, <1>5, <1>6, <1>7

\* A coroutine's steps.
LEMMA TypeCoroutine ==
    ASSUME TypeInv, NEW h \in Handlers, HandlerStep(h) \/ Fail(h)
    PROVE  TypeInv'
<1> USE DEF hkVars, haVars, glueVars, budgets
<1>1. CASE Acquire(h)
  <2>1. CoroutineTypes' /\ CurInv'
    BY <1>1 DEF Acquire, TypeInv, TypeOK, CoroutineTypes, CurInv, Holding
  <2> QED
    BY <1>1, <2>1 DEF Acquire, TypeInv, TypeOK
<1>2. CASE List(h)
  <2>1. CoroutineTypes' /\ CurInv'
    BY <1>2 DEF List, TypeInv, TypeOK, CoroutineTypes, CurInv, Holding
  <2> QED
    BY <1>2, <2>1 DEF List, TypeInv, TypeOK
<1>3. CASE Plan(h)
  <2>1. snap[h] \in SUBSET Task /\ job[h] \in Job
    BY DEF TypeInv, TypeOK, CoroutineTypes
  <2>2. ASSUME job[h].kind = "event" PROVE plan_event(h) \in SUBSET Action
    <3>1. job[h].device \in Printers /\ job[h].report \in Report
      BY <2>1, <2>2 DEF Job, NoJob, Reconcile, SetupReconcile
    <3>2. job[h].report.installed \in Versions \cup {NoVersion}
      BY <3>1 DEF Report
    <3>3. plan_update_available(snap[h], job[h].device, job[h].report,
                                recently_cleared(job[h].device)) \in SUBSET Action
      BY <2>1, <3>1, AvailableTypes
    <3>4. plan_update_cleared(snap[h], job[h].device, job[h].report.installed)
            \in SUBSET Action
      BY <2>1, <3>1, <3>2, ClearedTypes
    <3> QED
      BY <3>3, <3>4 DEF plan_event
  <2>3. plan_all(h) \in SUBSET Action
    BY <2>1, ReconcileTypes DEF plan_all, TypeInv
  <2>4. PICK plan \in SUBSET Action : todo' = [todo EXCEPT ![h] = plan]
    BY <1>3, <2>2, <2>3 DEF Plan
  <2>5. CoroutineTypes' /\ CurInv'
    BY <1>3, <2>4 DEF Plan, TypeInv, TypeOK, CoroutineTypes, CurInv, Holding
  <2> QED
    BY <1>3, <2>5 DEF Plan, TypeInv, TypeOK
<1>4. CASE ExecCreate(h)
  <2> PICK a \in todo[h] : a.op = "create" /\ tasks' = add_task(tasks, nextId, ITEM_FIRMWARE, a)
                           /\ nextId' = nextId + 1 /\ Done(h, a)
    BY <1>4 DEF ExecCreate
  <2>1. a \in Action
    BY DEF TypeInv, TypeOK, CoroutineTypes
  <2>2. a.device \in Printers /\ a.notes \in Notes /\ a.chips \in Chips
    BY <2>1 DEF Action
  <2>3. tasks' \in SUBSET Task
    <3>1. [id |-> nextId, device |-> a.device, item |-> ITEM_FIRMWARE, armed |-> TRUE,
           notes |-> a.notes, chips |-> a.chips] \in Task
      BY <2>2 DEF Task, TypeInv, TypeOK
    <3> QED
      BY <3>1 DEF add_task, TypeInv, TypeOK
  <2>4. CoroutineTypes' /\ CurInv'
    BY DEF Done, TypeInv, TypeOK, CoroutineTypes, CurInv
  <2> QED
    BY <1>4, <2>3, <2>4 DEF ExecCreate, TypeInv, TypeOK
<1>5. CASE ExecArm(h)
  <2> PICK a \in todo[h] : tasks' = trigger_task(tasks, a.id) /\ Done(h, a)
    BY <1>5 DEF ExecArm
  <2>1. tasks' \in SUBSET Task
    BY TriggerTypes DEF TypeInv, TypeOK
  <2>2. CoroutineTypes' /\ CurInv'
    BY DEF Done, TypeInv, TypeOK, CoroutineTypes, CurInv
  <2> QED
    BY <1>5, <2>1, <2>2 DEF ExecArm, TypeInv, TypeOK
<1>6. CASE ExecUpdate(h)
  <2> PICK a \in todo[h] : /\ a.op = "update" /\ Done(h, a)
                           /\ tasks' = update_task(tasks, a.id, a.chips, a.notes, a.fields)
    BY <1>6 DEF ExecUpdate
  <2>1. a.chips \in Chips /\ a.notes \in Notes
    BY DEF Action, TypeInv, TypeOK, CoroutineTypes
  <2>2. tasks' \in SUBSET Task
    BY <2>1, UpdateTypes DEF TypeInv, TypeOK
  <2>3. CoroutineTypes' /\ CurInv'
    BY DEF Done, TypeInv, TypeOK, CoroutineTypes, CurInv
  <2> QED
    BY <1>6, <2>2, <2>3 DEF ExecUpdate, TypeInv, TypeOK
<1>7. CASE ExecComplete(h)
  <2> PICK a \in todo[h] : /\ a.op = "clear"
                           /\ tasks' = complete_task(tasks, a.id)
                           /\ completions' = [completions EXCEPT ![a.device] = @ + 1]
                           /\ cur' = [cur EXCEPT ![h] = {a}]
    BY <1>7 DEF ExecComplete
  <2>1. a \in Action /\ a.device \in Printers
    BY DEF Action, TypeInv, TypeOK, CoroutineTypes
  <2>2. tasks' \in SUBSET Task
    BY CompleteTypes DEF TypeInv, TypeOK
  <2>3. completions' \in [Printers -> Nat]
    BY <2>1 DEF TypeInv, TypeOK
  <2>4. CoroutineTypes' /\ CurInv'
    BY <1>7, <2>1 DEF ExecComplete, TypeInv, TypeOK, CoroutineTypes, CurInv, Holding
  <2> QED
    BY <1>7, <2>2, <2>3, <2>4 DEF ExecComplete, TypeInv, TypeOK
<1>8. CASE Stamp(h)
  <2> PICK a \in cur[h] :
          cleared' = [cleared EXCEPT ![a.device] = {[at |-> clock, version |-> a.cleared_version]}]
    BY <1>8 DEF Stamp
  <2>1. a \in Action /\ a.op = "clear"
    BY DEF TypeInv, TypeOK, CoroutineTypes, CurInv
  <2>2. a.device \in Printers /\ a.cleared_version \in Versions \cup {NoVersion}
    BY <2>1 DEF Action
  <2>3. cleared' \in [Printers -> SUBSET [at : Nat, version : Versions \cup {NoVersion}]]
    BY <2>2 DEF TypeInv, TypeOK
  <2>4. CoroutineTypes' /\ CurInv' /\ missed' \in BOOLEAN
    <3>1. CASE Release(h) /\ missed' = TRUE
      BY <3>1, ReleaseTypes
    <3>2. CASE pc' = [pc EXCEPT ![h] = "notes"]
               /\ UNCHANGED <<lock, waiters, job, snap, todo, cur, missed>>
      BY <3>2 DEF TypeInv, TypeOK, CoroutineTypes, CurInv, Holding
    <3> QED
      BY <1>8, <3>1, <3>2 DEF Stamp
  <2> QED
    BY <1>8, <2>3, <2>4 DEF Stamp, TypeInv, TypeOK
<1>9. CASE ExecNotes(h)
  <2> PICK a \in cur[h] : /\ tasks' = update_task(tasks, a.id, {}, a.notes, {"notes"})
                          /\ todo' = [todo EXCEPT ![h] = @ \ {a}]
    BY <1>9 DEF ExecNotes
  <2>1. a \in Action /\ a.op = "clear"
    BY DEF TypeInv, TypeOK, CoroutineTypes, CurInv
  <2>2. a.notes \in Notes
    BY <2>1 DEF Action
  <2>3. tasks' \in SUBSET Task
    BY <2>2, UpdateTypes DEF TypeInv, TypeOK
  <2>4. CoroutineTypes' /\ CurInv'
    BY <1>9 DEF ExecNotes, TypeInv, TypeOK, CoroutineTypes, CurInv, Holding
  <2> QED
    BY <1>9, <2>3, <2>4 DEF ExecNotes, TypeInv, TypeOK
<1>10. CASE ListUnavailable(h) \/ DropRest(h) \/ Fail(h) \/ Finish(h)
  <2>1. CoroutineTypes' /\ CurInv'
    BY <1>10, ReleaseTypes DEF ListUnavailable, DropRest, Fail, Finish
  <2>2. CASE ListUnavailable(h)
    BY <2>1, <2>2 DEF ListUnavailable, TypeInv, TypeOK
  <2>3. CASE DropRest(h)
    BY <2>1, <2>3 DEF DropRest, TypeInv, TypeOK
  <2>4. CASE Fail(h)
    BY <2>1, <2>4 DEF Fail, TypeInv, TypeOK
  <2>5. CASE Finish(h)
    BY <2>1, <2>5 DEF Finish, TypeInv, TypeOK
  <2> QED
    BY <1>10, <2>2, <2>3, <2>4, <2>5
<1> QED
  BY <1>1, <1>2, <1>3, <1>4, <1>5, <1>6, <1>7, <1>8, <1>9, <1>10 DEF HandlerStep

LEMMA TypeStutter ==
    ASSUME TypeInv, UNCHANGED vars
    PROVE  TypeInv'
<1>1. CoroutineTypes' /\ CurInv'
  BY IdleHandlers DEF vars
<1> QED
  BY <1>1 DEF TypeInv, TypeOK, vars, hkVars, haVars, glueVars, budgets

LEMMA TypeStep == TypeInv /\ [Next]_vars => TypeInv'
BY TypeEnvironment, TypeCoroutine, TypeStutter DEF Next

\* Every state of the glue, of Home Keeper's task list and of the coroutines
\* has its type: no chip without a version, no plan with a malformed action.
THEOREM TypeCorrectness == Spec => []TypeOK
<1>1. Init => TypeInv
  BY TypeInit
<1>2. TypeInv /\ [Next]_vars => TypeInv'
  BY TypeStep
<1>3. TypeInv => TypeOK
  BY DEF TypeInv
<1> QED
  BY <1>1, <1>2, <1>3, PTL DEF Spec

-----------------------------------------------------------------------------
\* The lock keeps plans valid.

\* The task list: one id per task, and ids still to come are larger.
Ids(list, next) ==
    /\ \A t \in list : t.id < next
    /\ \A t, u \in list : t.id = u.id => t = u

OnePerItem(list) ==
    \A t, u \in list : t.device = u.device /\ t.item = u.item => t = u

\* No two actions of a plan get in each other's way.
Independent(plan) ==
    \A a, b \in plan :
        /\ a.op = "create" /\ b.op = "create" /\ a.device = b.device => a = b
        /\ a.op = "arm" /\ b.op = "arm" /\ a.id = b.id => a = b
        /\ a.op = "clear" /\ b.op = "clear" /\ a.id = b.id => a = b

Sound(plan, list) == Independent(plan) /\ \A a \in plan : StillApplies(a, list)

\* Only the lock's holder is past the lock, with a plan, or in a clear.
LockInv ==
    \A h \in Handlers :
        /\ pc[h] \in Holding => lock = h
        /\ pc[h] \notin {"exec", "stamp", "notes"} => todo[h] = {}
        /\ pc[h] \notin {"stamp", "notes"} => cur[h] = {}
        /\ \A a, b \in cur[h] : a = b

PlanInv ==
    \A h \in Handlers :
        /\ pc[h] = "plan" => snap[h] = tasks
        /\ Independent(todo[h])

IndInv ==
    /\ TypeInv
    /\ LockInv
    /\ PlanInv
    /\ Ids(tasks, nextId)
    /\ OnePerItem(tasks)
    /\ PlanStaysValid

-----------------------------------------------------------------------------
\* A plan made from a list is sound for that list.

LEMMA TaskForDevice ==
    ASSUME NEW S \in SUBSET Task, OnePerItem(S), NEW d, NEW i
    PROVE  task_for_device(S, d, i) = {t \in S : t.device = d /\ t.item = i}
BY DEF task_for_device, OnePerItem, Task

LEMMA AvailableSound ==
    ASSUME NEW S \in SUBSET Task, OnePerItem(S), NEW d \in Printers, NEW r \in Report,
           NEW recent, NEW a \in plan_update_available(S, d, r, recent)
    PROVE  /\ a.op \in {"create", "arm"}
           /\ a.device = d
           /\ a.op = "create" => a = CreateTask(d, format_notes(r.latest, r.installed),
                                               build_firmware_chips(r.latest))
           /\ a.op = "arm" => a = ArmTask(a.id, d, r.latest)
           /\ StillApplies(a, S)
<1> DEFINE task == task_for_device(S, d, ITEM_FIRMWARE)
           create == CreateTask(d, format_notes(r.latest, r.installed),
                                build_firmware_chips(r.latest))
<1>1. task = {t \in S : t.device = d /\ t.item = ITEM_FIRMWARE}
  BY TaskForDevice
<1>2. \/ task = {} /\ a = create
      \/ \E t \in task : ~ t.armed /\ a = ArmTask(t.id, d, r.latest)
  BY DEF plan_update_available, is_armed
<1>3. CASE task = {} /\ a = create
  <2>1. a.op = "create" /\ a.device = d
    BY <1>3 DEF CreateTask
  <2> QED
    BY <1>1, <1>3, <2>1 DEF StillApplies
<1>4. CASE \E t \in task : ~ t.armed /\ a = ArmTask(t.id, d, r.latest)
  <2> PICK t \in task : ~ t.armed /\ a = ArmTask(t.id, d, r.latest)
    BY <1>4
  <2>1. a.op = "arm" /\ a.device = d /\ a.id = t.id
    BY DEF ArmTask
  <2> QED
    BY <1>1, <2>1 DEF StillApplies
<1> QED
  BY <1>2, <1>3, <1>4

LEMMA RefreshSound ==
    ASSUME NEW S \in SUBSET Task, OnePerItem(S), NEW d \in Printers, NEW r,
           NEW a \in plan_refresh(S, d, r)
    PROVE  a.op = "update" /\ StillApplies(a, S)
<1>1. PICK t \in task_for_device(S, d, ITEM_FIRMWARE) :
          /\ a.op = "update" /\ a.id = t.id /\ a.device = d
  BY DEF plan_refresh, UpdateTask
<1>2. t \in S /\ t.device = d
  BY TaskForDevice
<1> QED
  BY <1>1, <1>2 DEF StillApplies

LEMMA ClearsSound ==
    ASSUME NEW S \in SUBSET Task, NEW next, Ids(S, next), NEW current
    PROVE  /\ \A a \in plan_clears(S, current) : a.op = "clear"
           /\ Sound(plan_clears(S, current), S)
<1>1. \A a \in plan_clears(S, current) : \E t \in S :
          /\ t.armed
          /\ a = ClearTask(t.id, t.device, format_up_to_date_notes(current[t.device]),
                          current[t.device])
  BY DEF plan_clears, is_armed
<1>2. \A t : \A n, v : /\ ClearTask(t.id, t.device, n, v).op = "clear"
                       /\ ClearTask(t.id, t.device, n, v).id = t.id
                       /\ ClearTask(t.id, t.device, n, v).device = t.device
  BY DEF ClearTask
<1>3. \A a \in plan_clears(S, current) : a.op = "clear" /\ StillApplies(a, S)
  BY <1>1, <1>2 DEF StillApplies
<1>4. ASSUME NEW a \in plan_clears(S, current), NEW b \in plan_clears(S, current),
             a.id = b.id
      PROVE  a = b
  <2>1. PICK t \in S : a = ClearTask(t.id, t.device,
                 format_up_to_date_notes(current[t.device]), current[t.device])
    BY <1>1
  <2>2. PICK u \in S : b = ClearTask(u.id, u.device,
                 format_up_to_date_notes(current[u.device]), current[u.device])
    BY <1>1
  <2>3. t.id = u.id
    BY <1>2, <1>4, <2>1, <2>2
  <2>4. t = u
    BY <2>3 DEF Ids
  <2> QED
    BY <2>1, <2>2, <2>4
<1> QED
  BY <1>3, <1>4 DEF Sound, Independent

\* task_for_device names one task: an event's plan has at most one action.
LEMMA EventSound ==
    ASSUME TypeInv, NEW h \in Handlers, job[h].kind = "event",
           NEW next, OnePerItem(snap[h]), Ids(snap[h], next)
    PROVE  Sound(plan_event(h), snap[h])
<1> DEFINE p == job[h].device
           r == job[h].report
           S == snap[h]
           recent == recently_cleared(p)
           plan == plan_event(h)
<1>1. S \in SUBSET Task /\ p \in Printers /\ r \in Report
  BY DEF TypeInv, TypeOK, CoroutineTypes, Job, NoJob, Reconcile, SetupReconcile
<1> HIDE DEF p, r, S, recent, plan
<1> OnePerItem(S) /\ Ids(S, next)
  BY DEF S
<1>2. ASSUME plan = plan_update_available(S, p, r, recent) PROVE Sound(plan, S)
  <2>1. \A a \in plan : StillApplies(a, S)
    BY <1>1, <1>2, AvailableSound
  <2>2. ASSUME NEW a \in plan, NEW b \in plan, a.op = b.op, a.op = "arm" => a.id = b.id
        PROVE  a = b
    BY <1>1, <1>2, <2>2, AvailableSound
  <2>3. Independent(plan)
    <3> SUFFICES ASSUME NEW a \in plan, NEW b \in plan
                 PROVE  /\ a.op = "create" /\ b.op = "create" => a = b
                        /\ a.op = "arm" /\ b.op = "arm" /\ a.id = b.id => a = b
                        /\ a.op # "clear"
      BY DEF Independent
    <3> QED BY <1>1, <1>2, <2>2, AvailableSound
  <2> QED
    BY <2>1, <2>3 DEF Sound
<1>3. ASSUME plan = plan_update_cleared(S, p, r.installed) PROVE Sound(plan, S)
  <2> DEFINE note == format_up_to_date_notes(r.installed)
  <2>1. \A a \in plan : \E t \in S :
            t.armed /\ t.device = p /\ a = ClearTask(t.id, p, note, r.installed)
    BY <1>1, <1>3, TaskForDevice DEF plan_update_cleared, is_armed
  <2> HIDE DEF note
  <2>2. \A a \in plan : a.op = "clear" /\ StillApplies(a, S)
    BY <2>1 DEF StillApplies, ClearTask
  <2>3. \A a, b \in plan : a.id = b.id => a = b
    BY <2>1 DEF ClearTask
  <2> QED
    BY <2>2, <2>3 DEF Sound, Independent
<1>4. ASSUME plan = {} PROVE Sound(plan, S)
  BY <1>4 DEF Sound, Independent
<1>5. plan = plan_update_available(S, p, r, recent)
        \/ plan = plan_update_cleared(S, p, r.installed) \/ plan = {}
  <2>1. r.state \in {"on", "off", "unavailable"}
    BY <1>1 DEF Report
  <2> QED
    BY <2>1 DEF plan_event, plan, S, p, r, recent
<1> QED
  BY <1>2, <1>3, <1>4, <1>5 DEF plan, S

LEMMA ReconcileSound ==
    ASSUME TypeInv, NEW S \in SUBSET Task, OnePerItem(S), NEW next, Ids(S, next),
           NEW recent
    PROVE  Sound(plan_reconcile(S, scan_available, scan_up_to_date, recent), S)
<1> DEFINE plan == plan_reconcile(S, scan_available, scan_up_to_date, recent)
           create(d) == CreateTask(d, format_notes(scan_available[d].latest,
                                                   scan_available[d].installed),
                                   build_firmware_chips(scan_available[d].latest))
           Offered(a) == \E d \in DOMAIN scan_available :
               /\ a.op \in {"create", "arm"}
               /\ a.device = d
               /\ a.op = "create" => a = create(d)
               /\ a.op = "arm" => a = ArmTask(a.id, d, scan_available[d].latest)
<1>1. \A d \in DOMAIN scan_available : d \in Printers /\ scan_available[d] \in Report
  BY DEF TypeInv, TypeOK, scan_available
<1>2. /\ \A a \in plan_clears(S, scan_up_to_date) : a.op = "clear"
      /\ Sound(plan_clears(S, scan_up_to_date), S)
  BY ClearsSound
<1>3. \A a \in plan :
          \/ a \in plan_clears(S, scan_up_to_date)
          \/ \E d \in DOMAIN scan_available :
                \/ a \in plan_update_available(S, d, scan_available[d], recent[d])
                \/ a \in plan_refresh(S, d, scan_available[d])
  BY DEF plan_reconcile, plan_offer
<1>4. \A d \in DOMAIN scan_available :
          \A a \in plan_update_available(S, d, scan_available[d], recent[d]) :
              Offered(a) /\ StillApplies(a, S)
  BY <1>1, AvailableSound
<1>5. \A d \in DOMAIN scan_available : \A a \in plan_refresh(S, d, scan_available[d]) :
          a.op = "update" /\ StillApplies(a, S)
  BY <1>1, RefreshSound
<1> HIDE DEF plan, Offered
<1>6. \A a \in plan : /\ StillApplies(a, S)
                      /\ \/ a \in plan_clears(S, scan_up_to_date)
                         \/ Offered(a)
                         \/ a.op = "update"
  BY <1>2, <1>3, <1>4, <1>5 DEF Sound
<1>7. ASSUME NEW a \in plan, NEW b \in plan, a.op = "create", b.op = "create",
             a.device = b.device
      PROVE  a = b
  BY <1>2, <1>6, <1>7 DEF Offered
<1>8. ASSUME NEW a \in plan, NEW b \in plan, a.op = "arm", b.op = "arm", a.id = b.id
      PROVE  a = b
  <2>1. \E t \in S : t.id = a.id /\ t.device = a.device
    BY <1>6, <1>8 DEF StillApplies
  <2>2. \E t \in S : t.id = b.id /\ t.device = b.device
    BY <1>6, <1>8 DEF StillApplies
  <2>3. a.device = b.device
    BY <1>8, <2>1, <2>2 DEF Ids
  <2> QED
    BY <1>2, <1>6, <1>8, <2>3 DEF Offered
<1>9. ASSUME NEW a \in plan, NEW b \in plan, a.op = "clear", b.op = "clear", a.id = b.id
      PROVE  a = b
  BY <1>2, <1>6, <1>9 DEF Offered, Sound, Independent
<1> QED
  BY <1>6, <1>7, <1>8, <1>9 DEF Sound, Independent, plan

-----------------------------------------------------------------------------
\* Home Keeper's calls keep the list sound and disturb no other action.

\* Rewriting tasks in place, without their id, device or item.
LEMMA Rewritten ==
    ASSUME NEW S, NEW next, Ids(S, next), OnePerItem(S), NEW f,
           \A t \in S : f[t].id = t.id /\ f[t].device = t.device /\ f[t].item = t.item
    PROVE  Ids({f[t] : t \in S}, next) /\ OnePerItem({f[t] : t \in S})
BY DEF Ids, OnePerItem

LEMMA TriggerKeeps ==
    ASSUME NEW S \in SUBSET Task, NEW next, Ids(S, next), OnePerItem(S), NEW i
    PROVE  /\ Ids(trigger_task(S, i), next) /\ OnePerItem(trigger_task(S, i))
           /\ \A a : StillApplies(a, S) /\ (a.op = "arm" => a.id # i)
                     => StillApplies(a, trigger_task(S, i))
<1> DEFINE f == [t \in S |-> [t EXCEPT !.armed = @ \/ t.id = i]]
<1>1. \A t \in S : /\ f[t].id = t.id /\ f[t].device = t.device /\ f[t].item = t.item
                   /\ f[t].armed <=> (t.armed \/ t.id = i)
  BY DEF Task
<1>2. trigger_task(S, i) = {f[t] : t \in S}
  BY DEF trigger_task
<1> HIDE DEF f
<1>3. Ids(trigger_task(S, i), next) /\ OnePerItem(trigger_task(S, i))
  BY <1>1, <1>2, Rewritten
<1>4. ASSUME NEW a, StillApplies(a, S), a.op = "arm" => a.id # i
      PROVE  StillApplies(a, {f[t] : t \in S})
  BY <1>1, <1>4 DEF StillApplies
<1> QED
  BY <1>2, <1>3, <1>4

LEMMA CompleteKeeps ==
    ASSUME NEW S \in SUBSET Task, NEW next, Ids(S, next), OnePerItem(S), NEW i
    PROVE  /\ Ids(complete_task(S, i), next) /\ OnePerItem(complete_task(S, i))
           /\ \A a : StillApplies(a, S) /\ (a.op = "clear" => a.id # i)
                     => StillApplies(a, complete_task(S, i))
<1> DEFINE f == [t \in S |-> [t EXCEPT !.armed = @ /\ t.id # i]]
<1>1. \A t \in S : /\ f[t].id = t.id /\ f[t].device = t.device /\ f[t].item = t.item
                   /\ f[t].armed <=> (t.armed /\ t.id # i)
  BY DEF Task
<1>2. complete_task(S, i) = {f[t] : t \in S}
  BY DEF complete_task
<1> HIDE DEF f
<1>3. Ids(complete_task(S, i), next) /\ OnePerItem(complete_task(S, i))
  BY <1>1, <1>2, Rewritten
<1>4. ASSUME NEW a, StillApplies(a, S), a.op = "clear" => a.id # i
      PROVE  StillApplies(a, {f[t] : t \in S})
  BY <1>1, <1>4 DEF StillApplies
<1> QED
  BY <1>2, <1>3, <1>4

LEMMA UpdateKeeps ==
    ASSUME NEW S \in SUBSET Task, NEW next, Ids(S, next), OnePerItem(S), NEW i,
           NEW chips, NEW notes, NEW fields
    PROVE  /\ Ids(update_task(S, i, chips, notes, fields), next)
           /\ OnePerItem(update_task(S, i, chips, notes, fields))
           /\ \A a : StillApplies(a, S)
                     => StillApplies(a, update_task(S, i, chips, notes, fields))
<1> DEFINE f == [t \in S |->
                   [t EXCEPT !.chips = IF t.id = i /\ "chips" \in fields THEN chips ELSE @,
                             !.notes = IF t.id = i /\ "notes" \in fields THEN notes ELSE @]]
<1>1. \A t \in S : /\ f[t].id = t.id /\ f[t].device = t.device /\ f[t].item = t.item
                   /\ f[t].armed <=> t.armed
  BY DEF Task
<1>2. update_task(S, i, chips, notes, fields) = {f[t] : t \in S}
  BY DEF update_task
<1> HIDE DEF f
<1>3. /\ Ids(update_task(S, i, chips, notes, fields), next)
      /\ OnePerItem(update_task(S, i, chips, notes, fields))
  BY <1>1, <1>2, Rewritten
<1>4. ASSUME NEW a, StillApplies(a, S)
      PROVE  StillApplies(a, {f[t] : t \in S})
  BY <1>1, <1>4 DEF StillApplies
<1> QED
  BY <1>2, <1>3, <1>4

-----------------------------------------------------------------------------
\* The invariant is inductive.

\* IndInv without the types.
LockedInv ==
    LockInv /\ PlanInv /\ Ids(tasks, nextId) /\ OnePerItem(tasks) /\ PlanStaysValid

LEMMA LockedInit == Init => LockedInv
BY DEF Init, LockedInv, LockInv, PlanInv, Independent, Ids, OnePerItem, PlanStaysValid, Holding

LEMMA SpawnKeeps ==
    ASSUME IndInv, UNCHANGED hkVars, NEW j, Spawn(j) \/ UNCHANGED handlerVars
    PROVE  LockedInv'
<1> USE DEF IndInv, LockedInv, hkVars
<1>1. CASE UNCHANGED handlerVars
  BY <1>1 DEF handlerVars, LockInv, PlanInv, Independent, Ids, OnePerItem, PlanStaysValid,
              StillApplies
<1>2. CASE Spawn(j)
  <2> PICK h \in Handlers : pc[h] = "idle" /\ pc' = [pc EXCEPT ![h] = "waiting"]
                            /\ UNCHANGED <<lock, snap, todo, cur>>
    BY <1>2 DEF Spawn
  <2>1. \A g \in Handlers : pc'[g] = pc[g] \/ (pc[g] = "idle" /\ pc'[g] = "waiting")
    BY DEF TypeInv, TypeOK, CoroutineTypes
  <2>2. LockInv'
    BY <2>1 DEF LockInv, Holding
  <2>3. PlanInv' /\ PlanStaysValid'
    BY <2>1 DEF PlanInv, Independent, PlanStaysValid, StillApplies
  <2> QED
    BY <2>2, <2>3 DEF Ids, OnePerItem
<1> QED
  BY <1>1, <1>2

\* What every other coroutine is while h is past the lock.
LEMMA OthersOutside ==
    ASSUME IndInv, NEW h \in Handlers, pc[h] \in Holding
    PROVE  /\ lock = h
           /\ \A g \in Handlers \ {h} : /\ pc[g] \notin Holding
                                      /\ todo[g] = {} /\ cur[g] = {}
BY DEF IndInv, LockInv, Holding

LEMMA ReleaseKeeps ==
    ASSUME IndInv, NEW h \in Handlers, pc[h] \in Holding, UNCHANGED hkVars, Release(h)
    PROVE  LockedInv'
<1> USE DEF IndInv, LockedInv, hkVars
<1>1. /\ \A g \in Handlers : pc'[g] \notin Holding /\ todo'[g] = {} /\ cur'[g] = {}
  BY OthersOutside DEF Release, TypeInv, TypeOK, CoroutineTypes, Holding
<1>2. LockInv'
  BY <1>1 DEF LockInv
<1>3. PlanInv' /\ PlanStaysValid'
  BY <1>1 DEF PlanInv, Independent, PlanStaysValid, Holding
<1> QED
  BY <1>2, <1>3 DEF Ids, OnePerItem

LEMMA EnvironmentKeeps ==
    ASSUME IndInv,
           \/ \E p \in Printers : ChangeReport(p) \/ Register(p) \/ Unregister(p)
           \/ HKUp \/ HKDown \/ Tick \/ Setup \/ Started \/ Unload \/ Restart
    PROVE  LockedInv'
<1>1. CASE Restart
  BY <1>1 DEF Restart, hkVars, IndInv, LockedInv, LockInv, PlanInv, Independent, Ids,
              OnePerItem, PlanStaysValid, Holding
<1>2. ASSUME NEW p \in Printers, ChangeReport(p) \/ Register(p) \/ Unregister(p)
      PROVE  UNCHANGED hkVars /\ ((\E j : Spawn(j)) \/ UNCHANGED handlerVars)
  BY <1>2 DEF ChangeReport, Register, Unregister, RegistryUpdated, StartReconcile
<1>3. ASSUME HKUp \/ HKDown \/ Tick \/ Setup \/ Started \/ Unload
      PROVE  UNCHANGED hkVars /\ ((\E j : Spawn(j)) \/ UNCHANGED handlerVars)
  BY <1>3 DEF HKUp, HKDown, Tick, Setup, Started, Unload, StartReconcile
<1> QED
  BY <1>1, <1>2, <1>3, SpawnKeeps

\* A step of the lock's holder that writes no task and keeps the lock.
LEMMA HolderReads ==
    ASSUME IndInv, NEW h \in Handlers, Acquire(h) \/ List(h) \/ Plan(h)
    PROVE  LockedInv'
<1> USE DEF IndInv, LockedInv, hkVars
<1>1. CASE Acquire(h)
  <2>1. /\ \A g \in Handlers : pc[g] \notin Holding
        /\ \A g \in Handlers \ {h} : pc'[g] = pc[g]
        /\ pc'[h] = "list" /\ todo[h] = {} /\ cur[h] = {}
    BY <1>1, ConstantsAssumption DEF Acquire, LockInv, Holding, TypeInv, TypeOK, CoroutineTypes
  <2>2. LockInv'
    BY <1>1, <2>1 DEF Acquire, LockInv, Holding
  <2>3. PlanInv' /\ PlanStaysValid'
    BY <1>1, <2>1 DEF Acquire, PlanInv, Independent, PlanStaysValid, StillApplies, Holding
  <2> QED
    BY <1>1, <2>2, <2>3 DEF Acquire, Ids, OnePerItem
<1>2. CASE List(h)
  <2>1. /\ lock = h /\ todo[h] = {} /\ cur[h] = {}
        /\ \A g \in Handlers \ {h} : pc'[g] = pc[g] /\ snap'[g] = snap[g]
        /\ pc'[h] = "plan" /\ snap'[h] = tasks
    BY <1>2 DEF List, LockInv, Holding, TypeInv, TypeOK, CoroutineTypes
  <2>2. LockInv'
    BY <1>2, <2>1 DEF List, LockInv, Holding
  <2>3. PlanInv' /\ PlanStaysValid'
    BY <1>2, <2>1 DEF List, PlanInv, Independent, PlanStaysValid, StillApplies
  <2> QED
    BY <1>2, <2>2, <2>3 DEF List, Ids, OnePerItem
<1>3. CASE Plan(h)
  <2>1. snap[h] = tasks /\ tasks \in SUBSET Task /\ lock = h /\ cur[h] = {}
    BY <1>3 DEF Plan, PlanInv, LockInv, Holding, TypeInv, TypeOK
  <2>2. PICK plan : todo' = [todo EXCEPT ![h] = plan] /\ Sound(plan, tasks)
    <3>1. CASE job[h].kind = "event" /\ todo' = [todo EXCEPT ![h] = plan_event(h)]
      BY <2>1, <3>1, EventSound
    <3>2. CASE todo' = [todo EXCEPT ![h] = plan_all(h)]
      BY <2>1, <3>2, ReconcileSound DEF plan_all
    <3> QED
      BY <1>3, <3>1, <3>2 DEF Plan
  <2>3. /\ \A g \in Handlers \ {h} : /\ pc'[g] = pc[g] /\ snap'[g] = snap[g]
                                    /\ todo'[g] = todo[g]
        /\ pc'[h] = "exec" /\ todo'[h] = plan
    BY <1>3, <2>2 DEF Plan, TypeInv, TypeOK, CoroutineTypes
  <2>4. LockInv'
    BY <1>3, <2>1, <2>3 DEF Plan, LockInv, Holding
  <2>5. PlanInv'
    BY <1>3, <2>2, <2>3 DEF Plan, PlanInv, Sound, Independent
  <2>6. PlanStaysValid'
    BY <1>3, <2>1, <2>2, <2>3 DEF Plan, PlanStaysValid, Sound, StillApplies
  <2> QED
    BY <1>3, <2>4, <2>5, <2>6 DEF Plan, Ids, OnePerItem
<1> QED
  BY <1>1, <1>2, <1>3

\* A call of the lock's holder that writes a task.
LEMMA HolderWrites ==
    ASSUME IndInv, NEW h \in Handlers,
           ExecCreate(h) \/ ExecArm(h) \/ ExecUpdate(h) \/ ExecComplete(h) \/ ExecNotes(h)
    PROVE  LockedInv'
<1> USE DEF IndInv, LockedInv
<1>1. pc[h] \in {"exec", "notes"} /\ pc[h] \in Holding
  BY DEF ExecCreate, ExecArm, ExecUpdate, ExecComplete, ExecNotes, Executing, Holding
<1>2. /\ lock = h /\ tasks \in SUBSET Task
      /\ \A g \in Handlers \ {h} : pc[g] \notin Holding /\ todo[g] = {} /\ cur[g] = {}
  BY <1>1, OthersOutside DEF TypeInv, TypeOK
<1>3. \A a \in todo[h] \ cur[h] : StillApplies(a, tasks)
  BY DEF PlanStaysValid
<1>4. Independent(todo[h])
  BY DEF PlanInv
\* Reduces the goal to h's own plan and the task list.
<1>5. ASSUME pc'[h] \in {"exec", "stamp"}, lock' = h, todo'[h] \subseteq todo[h],
             \A g \in Handlers \ {h} :
                 pc'[g] = pc[g] /\ todo'[g] = todo[g] /\ cur'[g] = cur[g],
             pc'[h] = "exec" => cur'[h] = {}, \A a, b \in cur'[h] : a = b,
             Ids(tasks', nextId'), OnePerItem(tasks'),
             \A a \in todo'[h] \ cur'[h] : StillApplies(a, tasks')
      PROVE  LockedInv'
  <2>1. LockInv'
    BY <1>2, <1>5 DEF LockInv, Holding
  <2>2. PlanInv'
    BY <1>2, <1>4, <1>5 DEF PlanInv, Independent, Holding
  <2>3. PlanStaysValid'
    BY <1>2, <1>5 DEF PlanStaysValid
  <2> QED
    BY <1>5, <2>1, <2>2, <2>3
<1>6. CASE ExecCreate(h)
  <2> PICK a \in todo[h] : /\ a.op = "create" /\ pc[h] = "exec" /\ Done(h, a)
                           /\ tasks' = add_task(tasks, nextId, ITEM_FIRMWARE, a)
                           /\ nextId' = nextId + 1
    BY <1>6 DEF ExecCreate, Executing
  <2>1. cur[h] = {}
    BY DEF LockInv
  <2> DEFINE new == [id |-> nextId, device |-> a.device, item |-> ITEM_FIRMWARE,
                     armed |-> TRUE, notes |-> a.notes, chips |-> a.chips]
  <2>2. /\ new.id = nextId /\ new.device = a.device /\ new.item = ITEM_FIRMWARE
        /\ tasks' = tasks \cup {new}
    BY DEF add_task
  <2> HIDE DEF new
  <2>3. \A t \in tasks : t.device # a.device /\ t.item = ITEM_FIRMWARE
    BY <1>2, <1>3, <2>1 DEF StillApplies, Task
  <2>4. OnePerItem(tasks')
    BY <2>2, <2>3 DEF OnePerItem
  <2>5. Ids(tasks', nextId')
    <3>1. nextId \in Nat /\ \A t \in tasks : t.id \in Nat /\ t.id < nextId
      BY <1>2 DEF TypeInv, TypeOK, Task, Ids
    <3> QED
      BY <2>2, <3>1 DEF Ids
  <2>6. \A b \in todo[h] \ {a} : StillApplies(b, tasks')
    BY <1>3, <1>4, <2>1, <2>2 DEF StillApplies, Independent
  <2> QED
    BY <1>2, <1>5, <2>1, <2>4, <2>5, <2>6 DEF Done, TypeInv, TypeOK, CoroutineTypes
<1>7. CASE ExecArm(h)
  <2> PICK a \in todo[h] : /\ a.op = "arm" /\ pc[h] = "exec" /\ Done(h, a)
                           /\ tasks' = trigger_task(tasks, a.id) /\ UNCHANGED nextId
    BY <1>7 DEF ExecArm, Executing
  <2>1. cur[h] = {}
    BY DEF LockInv
  <2>2. Ids(tasks', nextId') /\ OnePerItem(tasks')
    BY <1>2, TriggerKeeps
  <2>3. \A b \in todo[h] \ {a} : StillApplies(b, tasks')
    BY <1>2, <1>3, <1>4, <2>1, TriggerKeeps DEF Independent
  <2> QED
    BY <1>2, <1>5, <2>1, <2>2, <2>3 DEF Done, TypeInv, TypeOK, CoroutineTypes
<1>8. CASE ExecUpdate(h)
  <2> PICK a \in todo[h] : /\ pc[h] = "exec" /\ Done(h, a) /\ UNCHANGED nextId
                           /\ tasks' = update_task(tasks, a.id, a.chips, a.notes, a.fields)
    BY <1>8 DEF ExecUpdate, Executing
  <2>1. cur[h] = {}
    BY DEF LockInv
  <2>2. Ids(tasks', nextId') /\ OnePerItem(tasks')
    BY <1>2, UpdateKeeps
  <2>3. \A b \in todo[h] \ {a} : StillApplies(b, tasks')
    BY <1>2, <1>3, <2>1, UpdateKeeps
  <2> QED
    BY <1>2, <1>5, <2>1, <2>2, <2>3 DEF Done, TypeInv, TypeOK, CoroutineTypes
<1>9. CASE ExecComplete(h)
  <2> PICK a \in todo[h] : /\ a.op = "clear" /\ pc[h] = "exec"
                           /\ tasks' = complete_task(tasks, a.id) /\ UNCHANGED nextId
                           /\ cur' = [cur EXCEPT ![h] = {a}]
                           /\ pc' = [pc EXCEPT ![h] = "stamp"]
                           /\ UNCHANGED <<lock, todo>>
    BY <1>9 DEF ExecComplete, Executing
  <2>1. cur[h] = {}
    BY DEF LockInv
  <2>2. Ids(tasks', nextId') /\ OnePerItem(tasks')
    BY <1>2, CompleteKeeps
  <2>3. \A b \in todo[h] \ {a} : StillApplies(b, tasks')
    BY <1>2, <1>3, <1>4, <2>1, CompleteKeeps DEF Independent
  <2> QED
    BY <1>2, <1>5, <2>2, <2>3 DEF TypeInv, TypeOK, CoroutineTypes
<1>10. CASE ExecNotes(h)
  <2> PICK a \in cur[h] : /\ tasks' = update_task(tasks, a.id, {}, a.notes, {"notes"})
                          /\ cur' = [cur EXCEPT ![h] = {}]
                          /\ todo' = [todo EXCEPT ![h] = @ \ {a}]
                          /\ pc' = [pc EXCEPT ![h] = "exec"]
                          /\ UNCHANGED <<lock, nextId>>
    BY <1>10 DEF ExecNotes
  <2>1. cur[h] = {a}
    BY DEF LockInv
  <2>2. Ids(tasks', nextId') /\ OnePerItem(tasks')
    BY <1>2, UpdateKeeps
  <2>3. \A b \in todo[h] \ {a} : StillApplies(b, tasks')
    BY <1>2, <1>3, <2>1, UpdateKeeps
  <2> QED
    BY <1>2, <1>5, <2>2, <2>3 DEF TypeInv, TypeOK, CoroutineTypes
<1> QED
  BY <1>6, <1>7, <1>8, <1>9, <1>10

LEMMA StampKeeps ==
    ASSUME IndInv, NEW h \in Handlers, Stamp(h)
    PROVE  LockedInv'
<1>1. pc[h] = "stamp" /\ UNCHANGED hkVars
  BY DEF Stamp
<1>2. CASE Release(h)
  BY <1>1, <1>2, ReleaseKeeps DEF Holding
<1>3. CASE pc' = [pc EXCEPT ![h] = "notes"] /\ UNCHANGED <<lock, snap, todo, cur>>
  <2>1. /\ \A g \in Handlers \ {h} : pc'[g] = pc[g]
        /\ pc'[h] = "notes"
    BY <1>3 DEF IndInv, TypeInv, TypeOK, CoroutineTypes
  <2>2. LockInv'
    BY <1>1, <1>3, <2>1 DEF IndInv, LockInv, Holding
  <2>3. PlanInv' /\ PlanStaysValid'
    BY <1>1, <1>3, <2>1 DEF hkVars, IndInv, PlanInv, Independent, PlanStaysValid, StillApplies
  <2> QED
    BY <1>1, <2>2, <2>3 DEF hkVars, IndInv, LockedInv, Ids, OnePerItem
<1> QED
  BY <1>2, <1>3 DEF Stamp

LEMMA CoroutineKeeps ==
    ASSUME IndInv, NEW h \in Handlers, HandlerStep(h) \/ Fail(h)
    PROVE  LockedInv'
<1>1. CASE ListUnavailable(h) \/ DropRest(h) \/ Fail(h) \/ Finish(h)
  <2>1. pc[h] \in Holding /\ Release(h) /\ UNCHANGED hkVars
    BY <1>1 DEF ListUnavailable, DropRest, Fail, Finish, Holding
  <2> QED
    BY <2>1, ReleaseKeeps
<1> QED
  BY <1>1, HolderReads, HolderWrites, StampKeeps DEF HandlerStep

LEMMA IndInvStep == IndInv /\ [Next]_vars => IndInv'
<1> SUFFICES ASSUME IndInv, [Next]_vars PROVE IndInv'
  OBVIOUS
<1>1. TypeInv'
  BY TypeStep DEF IndInv
<1>2. LockedInv'
  <2>1. CASE UNCHANGED vars
    BY <2>1, SpawnKeeps DEF vars
  <2> QED
    BY <2>1, EnvironmentKeeps, CoroutineKeeps DEF Next
<1> QED
  BY <1>1, <1>2 DEF IndInv, LockedInv

LEMMA Inductive == Spec => []IndInv
<1>1. Init => IndInv
  BY TypeInit, LockedInit DEF IndInv, LockedInv
<1> QED
  BY <1>1, IndInvStep, PTL DEF Spec

\* The coroutines of one BambuLabGlue object, however many are in flight and
\* whichever of their calls fail, before and after its unload and over restarts,
\* never give any of any number of printers a second firmware task.  With coroutines
\* of a second object beside them they may (FirmwareReload).
THEOREM NoDuplicates == Spec => []NoDuplicateTasks
<1>1. IndInv => NoDuplicateTasks
  BY DEF IndInv, OnePerItem, NoDuplicateTasks
<1> QED
  BY <1>1, Inductive, PTL

\* Under the lock a plan holds from the list it was made from to its last call.
THEOREM PlansStayValid == Spec => []PlanStaysValid
<1>1. IndInv => PlanStaysValid
  BY DEF IndInv
<1> QED
  BY <1>1, Inductive, PTL

-----------------------------------------------------------------------------
\* One glue among several: what it can do to a list that others write too.

\* At most no, one or two firmware tasks of a printer.
None(p) == \A t \in tasks : t.device # p

One(p) == \A t, u \in tasks : t.device = p /\ u.device = p => t = u

Two(p) ==
    \A t, u, w \in tasks :
        t.device = p /\ u.device = p /\ w.device = p => t = u \/ u = w \/ t = w

Few(list) ==
    \A t, u, w \in list :
        t.device = u.device /\ u.device = w.device => t = u \/ u = w \/ t = w

CreatesOnce(plan) ==
    \A a, b \in plan : a.op = "create" /\ b.op = "create" /\ a.device = b.device => a = b

\* A coroutine has a create for p ahead of it, or the list that calls for one.
Creating(p) ==
    \E h \in Handlers :
        \/ pc[h] = "plan" /\ \A t \in snap[h] : t.device # p
        \/ \E a \in todo[h] : a.op = "create" /\ a.device = p

ObjectInv ==
    /\ TypeInv
    /\ LockInv
    /\ \A h \in Handlers : /\ pc[h] = "plan" => Few(snap[h])
                           /\ CreatesOnce(todo[h])

\* What a step makes of p's tasks: no more than there were, and only a glue that
\* finds none starts to make one; or the one more that was ahead.
Keeps(p) ==
    /\ None(p) => None(p)'
    /\ One(p) => One(p)'
    /\ Two(p) => Two(p)'
    /\ Creating(p)' => Creating(p) \/ None(p)

Adds(p) ==
    /\ Creating(p) /\ ~ Creating(p)'
    /\ None(p) => One(p)'
    /\ One(p) => Two(p)'

\* A first of at most two is found.
LEMMA FirstOfFew ==
    ASSUME NEW S \in SUBSET Task, Few(S), NEW t \in S
    PROVE  task_for_device(S, t.device, ITEM_FIRMWARE) # {}
<1> DEFINE match == {u \in S : u.device = t.device /\ u.item = ITEM_FIRMWARE}
<1>1. t \in match /\ \A u \in match : u \in S /\ u.device = t.device /\ u.id \in Nat
  BY DEF Task
<1> HIDE DEF match
<1>2. SUFFICES \E u \in match : \A w \in match : u.id <= w.id
  BY DEF task_for_device, match
<1>3. CASE \A w \in match : t.id <= w.id
  BY <1>1, <1>3
<1>4. ASSUME NEW u \in match, u.id < t.id PROVE \A w \in match : u.id <= w.id
  <2> SUFFICES ASSUME NEW w \in match, w.id < u.id PROVE FALSE
    BY <1>1
  <2>1. t = u \/ u = w \/ t = w
    BY <1>1 DEF Few
  <2>2. t.id \in Nat /\ u.id \in Nat /\ w.id \in Nat
    BY <1>1
  <2> QED
    BY <1>4, <2>1, <2>2
<1> QED
  BY <1>1, <1>3, <1>4

\* The creates of a plan: one for a printer, and only where the list has none.
Lacking(plan, S) ==
    /\ CreatesOnce(plan)
    /\ \A a \in plan : a.op = "create" => \A t \in S : t.device # a.device

LEMMA AvailableCreates ==
    ASSUME NEW S \in SUBSET Task, Few(S), NEW p, NEW r, NEW recent,
           NEW a \in plan_update_available(S, p, r, recent), a.op = "create"
    PROVE  /\ a = CreateTask(p, format_notes(r.latest, r.installed),
                             build_firmware_chips(r.latest))
           /\ a.device = p
           /\ \A t \in S : t.device # p
<1>1. task_for_device(S, p, ITEM_FIRMWARE) = {}
  BY DEF plan_update_available, ArmTask
<1>2. \A t \in S : t.device # p
  BY <1>1, FirstOfFew
<1>3. a = CreateTask(p, format_notes(r.latest, r.installed), build_firmware_chips(r.latest))
  BY <1>1 DEF plan_update_available
<1> QED
  BY <1>2, <1>3 DEF CreateTask

LEMMA ReconcileCreates ==
    ASSUME NEW S \in SUBSET Task, Few(S), NEW available, NEW current, NEW recent
    PROVE  Lacking(plan_reconcile(S, available, current, recent), S)
<1> DEFINE plan == plan_reconcile(S, available, current, recent)
<1>1. \A a \in plan : a.op = "create" =>
          \E d \in DOMAIN available :
              a \in plan_update_available(S, d, available[d], recent[d])
  BY DEF plan_reconcile, plan_offer, plan_clears, plan_refresh, ClearTask, UpdateTask
<1> HIDE DEF plan
<1>2. \A a \in plan : a.op = "create" =>
          /\ a = CreateTask(a.device,
                            format_notes(available[a.device].latest, available[a.device].installed),
                            build_firmware_chips(available[a.device].latest))
          /\ \A t \in S : t.device # a.device
  BY <1>1, AvailableCreates
<1>3. CreatesOnce(plan)
  BY <1>2 DEF CreatesOnce
<1> QED
  BY <1>2, <1>3 DEF Lacking, plan

LEMMA EventCreates ==
    ASSUME NEW h \in Handlers, snap[h] \in SUBSET Task, Few(snap[h])
    PROVE  Lacking(plan_event(h), snap[h])
<1> DEFINE p == job[h].device
           r == job[h].report
           plan == plan_event(h)
<1>1. \A a \in plan : a.op = "create" =>
          a \in plan_update_available(snap[h], p, r, recently_cleared(p))
  BY DEF plan_event, plan_update_cleared, ClearTask
<1> HIDE DEF p, r, plan
<1>2. \A a \in plan : a.op = "create" =>
          /\ a = CreateTask(p, format_notes(r.latest, r.installed), build_firmware_chips(r.latest))
          /\ a.device = p /\ \A t \in snap[h] : t.device # p
  BY <1>1, AvailableCreates
<1> QED
  BY <1>2 DEF Lacking, CreatesOnce, plan

\* Steps that leave the task list and the coroutines past the lock alone.
LEMMA OutsideObject ==
    ASSUME ObjectInv, UNCHANGED tasks, NEW j, Spawn(j) \/ UNCHANGED handlerVars
    PROVE  /\ LockInv'
           /\ \A h \in Handlers : /\ pc'[h] = "plan" => Few(snap'[h])
                                  /\ CreatesOnce(todo'[h])
           /\ \A p : Keeps(p)
<1>1. \A g \in Handlers : /\ pc'[g] = pc[g] \/ (pc[g] = "idle" /\ pc'[g] = "waiting")
                          /\ snap'[g] = snap[g] /\ todo'[g] = todo[g] /\ cur'[g] = cur[g]
  BY DEF Spawn, handlerVars, ObjectInv, TypeInv, TypeOK, CoroutineTypes
<1>2. UNCHANGED lock
  BY DEF Spawn, handlerVars
<1>3. LockInv'
  BY <1>1, <1>2 DEF ObjectInv, LockInv, Holding
<1>4. \A p : Keeps(p)
  BY <1>1 DEF Keeps, None, One, Two, Creating
<1> QED
  BY <1>1, <1>3, <1>4 DEF ObjectInv

\* What every other coroutine is while h is past the lock.
LEMMA OthersOutsideObject ==
    ASSUME ObjectInv, NEW h \in Handlers, pc[h] \in Holding
    PROVE  /\ lock = h
           /\ \A g \in Handlers \ {h} : /\ pc[g] \notin Holding
                                      /\ todo[g] = {} /\ cur[g] = {}
BY DEF ObjectInv, LockInv, Holding

\* An object without a coroutine creates nothing.
LEMMA IdleCreatesNothing ==
    ASSUME ObjectInv, AllIdle, NEW p
    PROVE  ~ Creating(p)
BY DEF ObjectInv, LockInv, AllIdle, Creating

LEMMA EnvironmentObject ==
    ASSUME ObjectInv,
           \/ \E p \in Printers : ChangeReport(p) \/ Register(p) \/ Unregister(p)
           \/ HKUp \/ HKDown \/ Tick \/ Setup \/ Started \/ Unload \/ Restart
    PROVE  /\ LockInv'
           /\ \A h \in Handlers : /\ pc'[h] = "plan" => Few(snap'[h])
                                  /\ CreatesOnce(todo'[h])
           /\ \A p : Keeps(p)
<1>1. CASE Restart
  BY <1>1 DEF Restart, hkVars, LockInv, CreatesOnce, Keeps, None, One, Two, Creating, Holding
<1>2. ASSUME NEW p \in Printers, ChangeReport(p) \/ Register(p) \/ Unregister(p)
      PROVE  UNCHANGED tasks /\ ((\E j : Spawn(j)) \/ UNCHANGED handlerVars)
  BY <1>2 DEF ChangeReport, Register, Unregister, RegistryUpdated, StartReconcile, hkVars
<1>3. ASSUME HKUp \/ HKDown \/ Tick \/ Setup \/ Started \/ Unload
      PROVE  UNCHANGED tasks /\ ((\E j : Spawn(j)) \/ UNCHANGED handlerVars)
  BY <1>3 DEF HKUp, HKDown, Tick, Setup, Started, Unload, StartReconcile, hkVars
<1> QED
  BY <1>1, <1>2, <1>3, OutsideObject

\* A coroutine that leaves the lock.
LEMMA ReleaseObject ==
    ASSUME ObjectInv, NEW h \in Handlers, pc[h] \in Holding, UNCHANGED tasks, Release(h)
    PROVE  /\ LockInv'
           /\ \A g \in Handlers : /\ pc'[g] = "plan" => Few(snap'[g])
                                  /\ CreatesOnce(todo'[g])
           /\ \A p : Keeps(p)
<1>1. \A g \in Handlers : pc'[g] \notin Holding /\ todo'[g] = {} /\ cur'[g] = {}
  BY OthersOutsideObject DEF Release, ObjectInv, TypeInv, TypeOK, CoroutineTypes, Holding
<1>2. LockInv'
  BY <1>1 DEF LockInv
<1>3. \A p : Keeps(p)
  BY <1>1 DEF Keeps, None, One, Two, Creating, Holding
<1> QED
  BY <1>1, <1>2, <1>3 DEF CreatesOnce, Holding

LEMMA ReadsObject ==
    ASSUME ObjectInv, Few(tasks), NEW h \in Handlers, Acquire(h) \/ List(h) \/ Plan(h)
    PROVE  /\ LockInv'
           /\ \A g \in Handlers : /\ pc'[g] = "plan" => Few(snap'[g])
                                  /\ CreatesOnce(todo'[g])
           /\ \A p : Keeps(p)
<1> USE DEF ObjectInv
<1>0. UNCHANGED tasks
  BY DEF Acquire, List, Plan, hkVars
<1>1. CASE Acquire(h)
  <2>1. /\ \A g \in Handlers : pc[g] \notin Holding
        /\ \A g \in Handlers \ {h} : pc'[g] = pc[g]
        /\ pc'[h] = "list" /\ todo[h] = {} /\ cur[h] = {} /\ UNCHANGED <<snap, todo, cur>>
    BY <1>1, ConstantsAssumption DEF Acquire, LockInv, Holding, TypeInv, TypeOK, CoroutineTypes
  <2>2. LockInv'
    BY <1>1, <2>1 DEF Acquire, LockInv, Holding
  <2>3. \A p : Keeps(p)
    BY <1>0, <2>1 DEF Keeps, None, One, Two, Creating, Holding
  <2> QED
    BY <2>1, <2>2, <2>3 DEF Holding
<1>2. CASE List(h)
  <2>1. /\ lock = h /\ todo[h] = {} /\ cur[h] = {} /\ UNCHANGED <<lock, todo, cur>>
        /\ \A g \in Handlers \ {h} : pc'[g] = pc[g] /\ snap'[g] = snap[g]
        /\ pc'[h] = "plan" /\ snap'[h] = tasks
    BY <1>2 DEF List, LockInv, Holding, TypeInv, TypeOK, CoroutineTypes
  <2>2. LockInv'
    BY <2>1 DEF LockInv, Holding
  <2>3. \A p : Keeps(p)
    BY <1>0, <2>1 DEF Keeps, None, One, Two, Creating
  <2> QED
    BY <2>1, <2>2, <2>3
<1>3. CASE Plan(h)
  <2>1. /\ pc[h] = "plan" /\ pc[h] \in Holding /\ lock = h
        /\ cur[h] = {} /\ snap[h] \in SUBSET Task /\ Few(snap[h])
    BY <1>3 DEF Plan, LockInv, Holding, TypeInv, TypeOK, CoroutineTypes
  <2>2. PICK plan : todo' = [todo EXCEPT ![h] = plan] /\ Lacking(plan, snap[h])
    <3>1. CASE todo' = [todo EXCEPT ![h] = plan_event(h)]
      BY <2>1, <3>1, EventCreates
    <3>2. CASE todo' = [todo EXCEPT ![h] = plan_all(h)]
      BY <2>1, <3>2, ReconcileCreates DEF plan_all
    <3> QED
      BY <1>3, <3>1, <3>2 DEF Plan
  <2>3. /\ \A g \in Handlers \ {h} : /\ pc'[g] = pc[g] /\ snap'[g] = snap[g]
                                    /\ todo'[g] = todo[g]
        /\ pc'[h] = "exec" /\ todo'[h] = plan /\ UNCHANGED <<lock, cur>>
    BY <1>3, <2>2 DEF Plan, TypeInv, TypeOK, CoroutineTypes
  <2>4. LockInv'
    BY <2>1, <2>3 DEF LockInv, Holding
  <2>5. \A p : Keeps(p)
    BY <1>0, <2>1, <2>2, <2>3 DEF Keeps, None, One, Two, Creating, Lacking
  <2> QED
    BY <2>2, <2>3, <2>4, <2>5 DEF Lacking
<1> QED
  BY <1>1, <1>2, <1>3

\* Rewriting the tasks of a list in place, whatever of them become equal.
LEMMA RewrittenCounts ==
    ASSUME NEW f, tasks' = {f[t] : t \in tasks}, \A t \in tasks : f[t].device = t.device,
           NEW p
    PROVE  (None(p) => None(p)') /\ (One(p) => One(p)') /\ (Two(p) => Two(p)')
BY DEF None, One, Two

LEMMA WritesCounts ==
    ASSUME TypeInv, NEW h \in Handlers, NEW p,
           ExecArm(h) \/ ExecUpdate(h) \/ ExecComplete(h) \/ ExecNotes(h)
    PROVE  (None(p) => None(p)') /\ (One(p) => One(p)') /\ (Two(p) => Two(p)')
<1>0. tasks \in SUBSET Task
  BY DEF TypeInv, TypeOK
<1>1. ASSUME NEW i, tasks' = trigger_task(tasks, i) PROVE \E f :
          tasks' = {f[t] : t \in tasks} /\ \A t \in tasks : f[t].device = t.device
  <2> DEFINE f == [t \in tasks |-> [t EXCEPT !.armed = @ \/ t.id = i]]
  <2>1. tasks' = {f[t] : t \in tasks}
    BY <1>1 DEF trigger_task
  <2>2. \A t \in tasks : f[t].device = t.device
    BY <1>0 DEF Task
  <2> HIDE DEF f
  <2> QED
    BY <2>1, <2>2
<1>2. ASSUME NEW i, tasks' = complete_task(tasks, i) PROVE \E f :
          tasks' = {f[t] : t \in tasks} /\ \A t \in tasks : f[t].device = t.device
  <2> DEFINE f == [t \in tasks |-> [t EXCEPT !.armed = @ /\ t.id # i]]
  <2>1. tasks' = {f[t] : t \in tasks}
    BY <1>2 DEF complete_task
  <2>2. \A t \in tasks : f[t].device = t.device
    BY <1>0 DEF Task
  <2> HIDE DEF f
  <2> QED
    BY <2>1, <2>2
<1>3. ASSUME NEW i, NEW c, NEW n, NEW s, tasks' = update_task(tasks, i, c, n, s) PROVE \E f :
          tasks' = {f[t] : t \in tasks} /\ \A t \in tasks : f[t].device = t.device
  <2> DEFINE f == [t \in tasks |->
                     [t EXCEPT !.chips = IF t.id = i /\ "chips" \in s THEN c ELSE @,
                               !.notes = IF t.id = i /\ "notes" \in s THEN n ELSE @]]
  <2>1. tasks' = {f[t] : t \in tasks}
    BY <1>3 DEF update_task
  <2>2. \A t \in tasks : f[t].device = t.device
    BY <1>0 DEF Task
  <2> HIDE DEF f
  <2> QED
    BY <2>1, <2>2
<1>4. \E f : tasks' = {f[t] : t \in tasks} /\ \A t \in tasks : f[t].device = t.device
  BY <1>1, <1>2, <1>3 DEF ExecArm, ExecUpdate, ExecComplete, ExecNotes
<1> QED
  BY <1>4, RewrittenCounts

LEMMA WritesObject ==
    ASSUME ObjectInv, NEW h \in Handlers,
           ExecCreate(h) \/ ExecArm(h) \/ ExecUpdate(h) \/ ExecComplete(h) \/ ExecNotes(h)
    PROVE  /\ LockInv'
           /\ \A g \in Handlers : /\ pc'[g] = "plan" => Few(snap'[g])
                                  /\ CreatesOnce(todo'[g])
           /\ \A p : Keeps(p) \/ Adds(p)
<1> USE DEF ObjectInv
<1>1. pc[h] \in {"exec", "notes"} /\ pc[h] \in Holding
  BY DEF ExecCreate, ExecArm, ExecUpdate, ExecComplete, ExecNotes, Executing, Holding
<1>2. /\ lock = h
      /\ \A g \in Handlers \ {h} : pc[g] \notin Holding /\ todo[g] = {} /\ cur[g] = {}
  BY <1>1, OthersOutsideObject
<1>3. /\ pc'[h] \in {"exec", "stamp", "notes"} /\ lock' = h /\ todo'[h] \subseteq todo[h]
      /\ \A g \in Handlers \ {h} : pc'[g] = pc[g] /\ todo'[g] = todo[g] /\ cur'[g] = cur[g]
      /\ pc'[h] = "exec" => cur'[h] = {}
      /\ \A a, b \in cur'[h] : a = b
  <2>1. CASE ExecCreate(h) \/ ExecArm(h) \/ ExecUpdate(h)
    <3>1. PICK a : Done(h, a) /\ pc[h] = "exec"
      BY <2>1 DEF ExecCreate, ExecArm, ExecUpdate, Executing
    <3> QED
      BY <1>2, <3>1 DEF Done, LockInv, TypeInv, TypeOK, CoroutineTypes
  <2>2. CASE ExecComplete(h)
    BY <1>2, <2>2 DEF ExecComplete, TypeInv, TypeOK, CoroutineTypes
  <2>3. CASE ExecNotes(h)
    <3>1. PICK a : /\ cur' = [cur EXCEPT ![h] = {}] /\ todo' = [todo EXCEPT ![h] = @ \ {a}]
                   /\ pc' = [pc EXCEPT ![h] = "exec"] /\ UNCHANGED lock
      BY <2>3 DEF ExecNotes
    <3> QED
      BY <1>2, <3>1 DEF TypeInv, TypeOK, CoroutineTypes
  <2> QED
    BY <2>1, <2>2, <2>3
<1>4. LockInv'
  BY <1>2, <1>3 DEF LockInv, Holding
<1>5. \A g \in Handlers : /\ pc'[g] = "plan" => Few(snap'[g])
                          /\ CreatesOnce(todo'[g])
  BY <1>2, <1>3 DEF CreatesOnce, Holding
<1>6. \A p : Creating(p)' => Creating(p)
  BY <1>2, <1>3 DEF Creating, Holding
<1>7. CASE ExecArm(h) \/ ExecUpdate(h) \/ ExecComplete(h) \/ ExecNotes(h)
  BY <1>4, <1>5, <1>6, <1>7, WritesCounts DEF Keeps
<1>8. CASE ExecCreate(h)
  <2> PICK a \in todo[h] : /\ a.op = "create" /\ Done(h, a)
                           /\ tasks' = add_task(tasks, nextId, ITEM_FIRMWARE, a)
    BY <1>8 DEF ExecCreate
  <2> DEFINE new == [id |-> nextId, device |-> a.device, item |-> ITEM_FIRMWARE,
                     armed |-> TRUE, notes |-> a.notes, chips |-> a.chips]
  <2>1. new.device = a.device /\ tasks' = tasks \cup {new}
    BY DEF add_task
  <2> HIDE DEF new
  <2>2. todo'[h] = todo[h] \ {a}
    BY DEF Done, TypeInv, TypeOK, CoroutineTypes
  <2>3. ASSUME NEW p, p # a.device PROVE Keeps(p)
    <3>1. (None(p) => None(p)') /\ (One(p) => One(p)') /\ (Two(p) => Two(p)')
      BY <2>1, <2>3 DEF None, One, Two
    <3> QED
      BY <1>6, <3>1 DEF Keeps
  <2>4. Adds(a.device)
    <3>1. Creating(a.device)
      BY DEF Creating
    <3>2. ~ Creating(a.device)'
      <4>1. \A b \in todo'[h] : ~ (b.op = "create" /\ b.device = a.device)
        BY <2>2 DEF CreatesOnce
      <4> QED
        BY <1>2, <1>3, <4>1 DEF Creating, Holding
    <3>3. (None(a.device) => One(a.device)') /\ (One(a.device) => Two(a.device)')
      BY <2>1 DEF None, One, Two
    <3> QED
      BY <3>1, <3>2, <3>3 DEF Adds
  <2> QED
    BY <1>4, <1>5, <2>3, <2>4
<1> QED
  BY <1>7, <1>8

LEMMA StampObject ==
    ASSUME ObjectInv, NEW h \in Handlers, Stamp(h)
    PROVE  /\ LockInv'
           /\ \A g \in Handlers : /\ pc'[g] = "plan" => Few(snap'[g])
                                  /\ CreatesOnce(todo'[g])
           /\ \A p : Keeps(p)
<1>1. pc[h] = "stamp" /\ UNCHANGED tasks
  BY DEF Stamp, hkVars
<1>2. CASE Release(h)
  BY <1>1, <1>2, ReleaseObject DEF Holding
<1>3. CASE pc' = [pc EXCEPT ![h] = "notes"] /\ UNCHANGED <<lock, snap, todo, cur>>
  <2>1. /\ \A g \in Handlers \ {h} : pc'[g] = pc[g]
        /\ pc'[h] = "notes"
    BY <1>3 DEF ObjectInv, TypeInv, TypeOK, CoroutineTypes
  <2>2. LockInv'
    BY <1>1, <1>3, <2>1 DEF ObjectInv, LockInv, Holding
  <2>3. \A p : Keeps(p)
    BY <1>1, <1>3, <2>1 DEF Keeps, None, One, Two, Creating
  <2> QED
    BY <1>3, <2>1, <2>2, <2>3 DEF ObjectInv
<1> QED
  BY <1>2, <1>3 DEF Stamp

\* One step of one object, with at most two tasks of a printer in the list.
LEMMA ObjectStep ==
    ASSUME ObjectInv, Few(tasks), [Next]_vars
    PROVE  ObjectInv' /\ \A p : Keeps(p) \/ Adds(p)
<1>1. TypeInv'
  BY TypeStep DEF ObjectInv
<1>2. /\ LockInv'
      /\ \A h \in Handlers : /\ pc'[h] = "plan" => Few(snap'[h])
                             /\ CreatesOnce(todo'[h])
      /\ \A p : Keeps(p) \/ Adds(p)
  <2>1. CASE UNCHANGED vars
    BY <2>1, OutsideObject DEF vars, hkVars
  <2>2. ASSUME NEW h \in Handlers,
               ListUnavailable(h) \/ DropRest(h) \/ Fail(h) \/ Finish(h)
        PROVE  pc[h] \in Holding /\ Release(h) /\ UNCHANGED tasks
    BY <2>2 DEF ListUnavailable, DropRest, Fail, Finish, Holding, hkVars
  <2> QED
    BY <2>1, <2>2, EnvironmentObject, ReleaseObject, ReadsObject, WritesObject, StampObject
       DEF Next, HandlerStep
<1> QED
  BY <1>1, <1>2 DEF ObjectInv

LEMMA ObjectInit == Init => ObjectInv /\ tasks = {} /\ AllIdle
BY TypeInit DEF Init, ObjectInv, LockInv, CreatesOnce, Holding, AllIdle
=============================================================================
