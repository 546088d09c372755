-------------------------- MODULE FirmwareReloadProofs --------------------------
(***************************************************************************)
(* Duplicate firmware tasks over reloads of the entry: what two            *)
(* BambuLabGlue objects at a time can and cannot do to one task list.      *)
(*                                                                         *)
(* What one object does is proved in FirmwareGlueProofs (ObjectStep).  It  *)
(* is used twice here: as it stands, and in the instance Peer for the      *)
(* other object.                                                           *)
(***************************************************************************)
EXTENDS FirmwareReload, FirmwareGlueProofs

Peer ==
    INSTANCE FirmwareGlueProofs WITH
        phase <- phase2, tracked <- tracked2, cleared <- cleared2,
        lock <- lock2, waiters <- waiters2, pc <- pc2, job <- job2,
        snap <- snap2, todo <- todo2, cur <- cur2, missed <- missed2

-----------------------------------------------------------------------------
\* FirmwareReload's Other and Peer are the same object: the definitions the two
\* instances made of FirmwareGlue agree, one by one.

LEMMA SameSpawn ==
    ASSUME NEW j
    PROVE  Other!Spawn(j) <=> Peer!Spawn(j)
BY DEF Other!Spawn, Peer!Spawn

LEMMA SameReports ==
    ASSUME NEW p
    PROVE  Other!Reports(p) = Peer!Reports(p)
BY DEF Other!Reports, Peer!Reports, Other!on, Peer!on, Other!off, Peer!off,
       Other!unavailable, Peer!unavailable

LEMMA SameStart ==
    ASSUME NEW j
    PROVE  Other!StartReconcile(j) <=> Peer!StartReconcile(j)
BY SameSpawn
   DEF Other!StartReconcile, Peer!StartReconcile, Other!handlerVars, Peer!handlerVars

LEMMA SameRegistry ==
    Other!RegistryUpdated <=> Peer!RegistryUpdated
BY SameStart
   DEF Other!RegistryUpdated, Peer!RegistryUpdated, Other!handlerVars,
       Peer!handlerVars, Other!Reconcile, Peer!Reconcile

LEMMA SameChange ==
    ASSUME NEW p
    PROVE  Other!ChangeReport(p) <=> Peer!ChangeReport(p)
BY SameSpawn, SameReports
   DEF Other!ChangeReport, Peer!ChangeReport, Other!Event, Peer!Event, Other!hkVars,
       Peer!hkVars, Other!haVars, Peer!haVars, Other!glueVars, Peer!glueVars,
       Other!handlerVars, Peer!handlerVars

LEMMA SameRegister ==
    ASSUME NEW p
    PROVE  Other!Register(p) <=> Peer!Register(p)
BY SameRegistry
   DEF Other!Register, Peer!Register, Other!hkVars, Peer!hkVars

LEMMA SameUnregister ==
    ASSUME NEW p
    PROVE  Other!Unregister(p) <=> Peer!Unregister(p)
BY SameRegistry
   DEF Other!Unregister, Peer!Unregister, Other!hkVars, Peer!hkVars, Other!unavailable,
       Peer!unavailable

LEMMA SameHome ==
    /\ Other!HKUp <=> Peer!HKUp
    /\ Other!HKDown <=> Peer!HKDown
    /\ Other!Tick <=> Peer!Tick
BY DEF Other!HKUp, Peer!HKUp, Other!HKDown, Peer!HKDown, Other!Tick, Peer!Tick,
       Other!AllIdle, Peer!AllIdle, Other!hkVars, Peer!hkVars, Other!haVars,
       Peer!haVars, Other!glueVars, Peer!glueVars, Other!handlerVars, Peer!handlerVars,
       Other!budgets, Peer!budgets

LEMMA SameLife ==
    /\ Other!Setup <=> Peer!Setup
    /\ Other!Started <=> Peer!Started
    /\ Other!Unload <=> Peer!Unload
    /\ Other!Restart <=> Peer!Restart
BY SameStart
   DEF Other!Setup, Peer!Setup, Other!Started, Peer!Started, Other!Unload, Peer!Unload,
       Other!Restart, Peer!Restart, Other!AllIdle, Peer!AllIdle, Other!SetupReconcile,
       Peer!SetupReconcile, Other!Reconcile, Peer!Reconcile, Other!NoJob, Peer!NoJob,
       Other!unavailable, Peer!unavailable, Other!hkVars, Peer!hkVars, Other!haVars,
       Peer!haVars, Other!glueVars, Peer!glueVars, Other!handlerVars, Peer!handlerVars,
       Other!budgets, Peer!budgets

LEMMA SameRelease ==
    ASSUME NEW h
    PROVE  Other!Release(h) <=> Peer!Release(h)
BY DEF Other!Release, Peer!Release, Other!NoJob, Peer!NoJob

LEMMA SameLock ==
    ASSUME NEW h
    PROVE  /\ Other!Acquire(h) <=> Peer!Acquire(h)
           /\ Other!List(h) <=> Peer!List(h)
BY DEF Other!Acquire, Peer!Acquire, Other!List, Peer!List, Other!hkVars, Peer!hkVars,
       Other!haVars, Peer!haVars, Other!glueVars, Peer!glueVars, Other!handlerVars,
       Peer!handlerVars, Other!budgets, Peer!budgets

LEMMA SameEnd ==
    ASSUME NEW h
    PROVE  /\ Other!ListUnavailable(h) <=> Peer!ListUnavailable(h)
           /\ Other!DropRest(h) <=> Peer!DropRest(h)
           /\ Other!Fail(h) <=> Peer!Fail(h)
           /\ Other!Finish(h) <=> Peer!Finish(h)
           /\ Other!Stamp(h) <=> Peer!Stamp(h)
BY SameRelease
   DEF Other!ListUnavailable, Peer!ListUnavailable, Other!DropRest, Peer!DropRest,
       Other!Fail, Peer!Fail, Other!Finish, Peer!Finish, Other!Stamp, Peer!Stamp,
       Other!hkVars, Peer!hkVars, Other!haVars, Peer!haVars, Other!glueVars,
       Peer!glueVars, Other!handlerVars, Peer!handlerVars, Other!budgets, Peer!budgets

LEMMA SameAvailable ==
    ASSUME NEW S, NEW p, NEW r, NEW c
    PROVE  Other!plan_update_available(S, p, r, c) = Peer!plan_update_available(S, p, r, c)
BY DEF Other!plan_update_available, Peer!plan_update_available, Other!task_for_device,
       Peer!task_for_device, Other!is_armed, Peer!is_armed, Other!is_stale_rearm,
       Peer!is_stale_rearm, Other!CreateTask, Peer!CreateTask, Other!ArmTask,
       Peer!ArmTask, Other!ClearTask, Peer!ClearTask, Other!UpdateTask,
       Peer!UpdateTask, Other!format_notes, Peer!format_notes,
       Other!format_up_to_date_notes, Peer!format_up_to_date_notes,
       Other!build_firmware_chips, Peer!build_firmware_chips, Other!ITEM_FIRMWARE,
       Peer!ITEM_FIRMWARE

LEMMA SameCleared ==
    ASSUME NEW S, NEW p, NEW v
    PROVE  Other!plan_update_cleared(S, p, v) = Peer!plan_update_cleared(S, p, v)
BY DEF Other!plan_update_cleared, Peer!plan_update_cleared, Other!task_for_device,
       Peer!task_for_device, Other!is_armed, Peer!is_armed, Other!is_stale_rearm,
       Peer!is_stale_rearm, Other!CreateTask, Peer!CreateTask, Other!ArmTask,
       Peer!ArmTask, Other!ClearTask, Peer!ClearTask, Other!UpdateTask,
       Peer!UpdateTask, Other!format_notes, Peer!format_notes,
       Other!format_up_to_date_notes, Peer!format_up_to_date_notes,
       Other!build_firmware_chips, Peer!build_firmware_chips, Other!ITEM_FIRMWARE,
       Peer!ITEM_FIRMWARE

LEMMA SameRefresh ==
    ASSUME NEW S, NEW p, NEW r
    PROVE  Other!plan_refresh(S, p, r) = Peer!plan_refresh(S, p, r)
BY DEF Other!plan_refresh, Peer!plan_refresh, Other!task_for_device,
       Peer!task_for_device, Other!is_armed, Peer!is_armed, Other!is_stale_rearm,
       Peer!is_stale_rearm, Other!CreateTask, Peer!CreateTask, Other!ArmTask,
       Peer!ArmTask, Other!ClearTask, Peer!ClearTask, Other!UpdateTask,
       Peer!UpdateTask, Other!format_notes, Peer!format_notes,
       Other!format_up_to_date_notes, Peer!format_up_to_date_notes,
       Other!build_firmware_chips, Peer!build_firmware_chips, Other!ITEM_FIRMWARE,
       Peer!ITEM_FIRMWARE

LEMMA SameClears ==
    ASSUME NEW S, NEW f
    PROVE  Other!plan_clears(S, f) = Peer!plan_clears(S, f)
BY DEF Other!plan_clears, Peer!plan_clears, Other!task_for_device,
       Peer!task_for_device, Other!is_armed, Peer!is_armed, Other!is_stale_rearm,
       Peer!is_stale_rearm, Other!CreateTask, Peer!CreateTask, Other!ArmTask,
       Peer!ArmTask, Other!ClearTask, Peer!ClearTask, Other!UpdateTask,
       Peer!UpdateTask, Other!format_notes, Peer!format_notes,
       Other!format_up_to_date_notes, Peer!format_up_to_date_notes,
       Other!build_firmware_chips, Peer!build_firmware_chips, Other!ITEM_FIRMWARE,
       Peer!ITEM_FIRMWARE

LEMMA SameReconcile ==
    ASSUME NEW S, NEW f, NEW g, NEW r
    PROVE  Other!plan_reconcile(S, f, g, r) = Peer!plan_reconcile(S, f, g, r)
BY SameAvailable, SameRefresh, SameClears
   DEF Other!plan_reconcile, Peer!plan_reconcile, Other!plan_offer, Peer!plan_offer

LEMMA SameRecent ==
    ASSUME NEW p
    PROVE  Other!recently_cleared(p) = Peer!recently_cleared(p)
BY DEF Other!recently_cleared, Peer!recently_cleared, Other!within_cooldown,
       Peer!within_cooldown

LEMMA SameScans ==
    /\ Other!scan_available = Peer!scan_available
    /\ Other!scan_up_to_date = Peer!scan_up_to_date
BY DEF Other!scan_available, Peer!scan_available, Other!scan_up_to_date,
       Peer!scan_up_to_date

LEMMA SameEvent ==
    ASSUME NEW h
    PROVE  Other!plan_event(h) = Peer!plan_event(h)
BY SameAvailable, SameCleared, SameRecent
   DEF Other!plan_event, Peer!plan_event

LEMMA SameAll ==
    ASSUME NEW h
    PROVE  Other!plan_all(h) = Peer!plan_all(h)
BY SameReconcile, SameRecent, SameScans
   DEF Other!plan_all, Peer!plan_all

LEMMA SamePlan ==
    ASSUME NEW h
    PROVE  Other!Plan(h) <=> Peer!Plan(h)
BY SameEvent, SameAll
   DEF Other!Plan, Peer!Plan, Other!hkVars, Peer!hkVars, Other!haVars, Peer!haVars,
       Other!glueVars, Peer!glueVars, Other!handlerVars, Peer!handlerVars,
       Other!budgets, Peer!budgets

LEMMA SameReady ==
    ASSUME NEW h, NEW a
    PROVE  /\ Other!Executing(h, a) <=> Peer!Executing(h, a)
           /\ Other!Done(h, a) <=> Peer!Done(h, a)
BY DEF Other!Executing, Peer!Executing, Other!Done, Peer!Done, Other!Ready, Peer!Ready

LEMMA SameExec ==
    ASSUME NEW h
    PROVE  /\ Other!ExecCreate(h) <=> Peer!ExecCreate(h)
           /\ Other!ExecArm(h) <=> Peer!ExecArm(h)
           /\ Other!ExecUpdate(h) <=> Peer!ExecUpdate(h)
           /\ Other!ExecComplete(h) <=> Peer!ExecComplete(h)
           /\ Other!ExecNotes(h) <=> Peer!ExecNotes(h)
BY SameReady
   DEF Other!ExecCreate, Peer!ExecCreate, Other!ExecArm, Peer!ExecArm,
       Other!ExecUpdate, Peer!ExecUpdate, Other!ExecComplete, Peer!ExecComplete,
       Other!ExecNotes, Peer!ExecNotes, Other!add_task, Peer!add_task,
       Other!trigger_task, Peer!trigger_task, Other!update_task, Peer!update_task,
       Other!complete_task, Peer!complete_task, Other!ITEM_FIRMWARE,
       Peer!ITEM_FIRMWARE, Other!hkVars, Peer!hkVars, Other!haVars, Peer!haVars,
       Other!glueVars, Peer!glueVars, Other!handlerVars, Peer!handlerVars,
       Other!budgets, Peer!budgets

LEMMA SameNext == Other!Next => Peer!Next
BY SameChange, SameRegister, SameUnregister, SameHome, SameLife, SameLock, SameEnd,
   SamePlan, SameExec
   DEF Other!Next, Peer!Next, Other!HandlerStep, Peer!HandlerStep

LEMMA SameInit == Other!Init => Peer!Init
BY DEF Other!Init, Peer!Init, Other!unavailable, Peer!unavailable, Other!NoJob, Peer!NoJob

-----------------------------------------------------------------------------
\* The invariant: how many tasks of a printer there may be depends on how many of
\* the two objects are about to create one.

\* As long as the objects have not overlapped, one of them has no coroutine.
Apart(p) ==
    ~ overlapped =>
        /\ AllIdle \/ Peer!AllIdle
        /\ One(p)
        /\ Creating(p) \/ Peer!Creating(p) => None(p)

Counts(p) ==
    /\ Two(p)
    /\ Creating(p) \/ Peer!Creating(p) => One(p)
    /\ Creating(p) /\ Peer!Creating(p) => None(p)
    /\ Apart(p)

ReloadInv ==
    /\ ObjectInv
    /\ Peer!ObjectInv
    /\ \A p : Counts(p)

LEMMA FewTasks ==
    ASSUME ReloadInv
    PROVE  Few(tasks)
BY DEF ReloadInv, Counts, Two, Few


\* The types of the two instances are the same.
LEMMA SameTypes ==
    /\ Peer!Task = Task
    /\ Peer!Report = Report
BY DEF Peer!Task, Task, Peer!Report, Report, Peer!Notes, Notes, Peer!Chips, Chips,
       Peer!ITEM_FIRMWARE, ITEM_FIRMWARE

\* An object keeps its invariant while the other writes what they share.
LEMMA PeerRests ==
    ASSUME Peer!ObjectInv, ObjectInv', UNCHANGED otherObject
    PROVE  Peer!ObjectInv'
<1>1. Peer!CoroutineTypes' /\ Peer!CurInv'
  BY DEF otherObject, Peer!ObjectInv, Peer!TypeInv, Peer!TypeOK, Peer!CoroutineTypes, Peer!CurInv
<1>2. Peer!TypeOK'
  BY <1>1, SameTypes
     DEF otherObject, Peer!ObjectInv, ObjectInv, Peer!TypeInv, TypeInv, Peer!TypeOK, TypeOK
<1>3. Peer!LockInv'
  BY DEF otherObject, Peer!ObjectInv, Peer!LockInv, Peer!Holding
<1> QED
  BY <1>1, <1>2, <1>3 DEF otherObject, Peer!ObjectInv, Peer!TypeInv, Peer!Few, Peer!CreatesOnce

LEMMA ThisRests ==
    ASSUME ObjectInv, Peer!ObjectInv', UNCHANGED thisObject
    PROVE  ObjectInv'
<1> USE DEF thisObject, glueVars, handlerVars
<1>1. CoroutineTypes' /\ CurInv'
  BY DEF ObjectInv, TypeInv, TypeOK, CoroutineTypes, CurInv
<1>2. TypeOK'
  BY <1>1, SameTypes DEF Peer!ObjectInv, ObjectInv, Peer!TypeInv, TypeInv, Peer!TypeOK, TypeOK
<1>3. LockInv'
  BY DEF ObjectInv, LockInv, Holding
<1> QED
  BY <1>1, <1>2, <1>3 DEF ObjectInv, TypeInv, Few, CreatesOnce

LEMMA PeerConstants == Peer!ConstantsAssumption
BY ConstantsAssumption DEF Peer!ConstantsAssumption

LEMMA PeerIdle ==
    ASSUME Peer!ObjectInv, Peer!AllIdle, NEW p
    PROVE  ~ Peer!Creating(p)
BY PeerConstants, Peer!IdleCreatesNothing

LEMMA PeerStep ==
    ASSUME Peer!ObjectInv, Few(tasks), Peer!Next
    PROVE  Peer!ObjectInv' /\ \A p : Peer!Keeps(p) \/ Peer!Adds(p)
<1>1. Peer!Few(tasks)
  BY DEF Few, Peer!Few
<1> QED
  BY <1>1, PeerConstants, Peer!ObjectStep

\* A step of this object while the other rests.
LEMMA ThisCounts ==
    ASSUME ReloadInv, ReloadNext, This
    PROVE  ReloadInv'
<1>1. Next /\ UNCHANGED otherObject
  BY DEF This, Next
<1>2. ObjectInv' /\ \A p : Keeps(p) \/ Adds(p)
  BY <1>1, FewTasks, ObjectStep DEF ReloadInv
<1>3. /\ Peer!AllIdle' <=> Peer!AllIdle
      /\ \A p : Peer!Creating(p)' <=> Peer!Creating(p)
  BY <1>1 DEF otherObject, Peer!AllIdle, Peer!Creating
<1>4. Peer!ObjectInv'
  BY <1>1, <1>2, PeerRests DEF ReloadInv
<1>5. ASSUME NEW p PROVE Counts(p)'
  <2>1. /\ AllIdle => ~ Creating(p)
        /\ Peer!AllIdle => ~ Peer!Creating(p)
    BY IdleCreatesNothing, PeerIdle DEF ReloadInv
  <2>2. Keeps(p) \/ Adds(p)
    BY <1>2
  <2>3. overlapped' = (overlapped \/ ~ (AllIdle' \/ Peer!AllIdle'))
    BY DEF ReloadNext, Other!AllIdle, Peer!AllIdle
  <2>4. None(p) => One(p)
    BY DEF None, One
  <2>5. Counts(p)
    BY DEF ReloadInv
  <2> QED
    BY <1>3, <2>1, <2>2, <2>3, <2>4, <2>5 DEF Counts, Apart, Keeps, Adds
<1> QED
  BY <1>2, <1>4, <1>5 DEF ReloadInv

\* The other way round.
LEMMA ThatCounts ==
    ASSUME ReloadInv, ReloadNext, That
    PROVE  ReloadInv'
<1>1. Peer!Next /\ UNCHANGED thisObject
  <2>1. Other!Next /\ UNCHANGED thisObject
    BY DEF That, Other!Next
  <2> QED
    BY <2>1, SameNext
<1>2. Peer!ObjectInv' /\ \A p : Peer!Keeps(p) \/ Peer!Adds(p)
  BY <1>1, FewTasks, PeerStep DEF ReloadInv
<1>3. /\ AllIdle' <=> AllIdle
      /\ \A p : Creating(p)' <=> Creating(p)
  BY <1>1 DEF thisObject, handlerVars, AllIdle, Creating
<1>4. ObjectInv'
  BY <1>1, <1>2, ThisRests DEF ReloadInv
<1>5. ASSUME NEW p PROVE Counts(p)'
  <2>1. /\ AllIdle => ~ Creating(p)
        /\ Peer!AllIdle => ~ Peer!Creating(p)
    BY IdleCreatesNothing, PeerIdle DEF ReloadInv
  <2>2. /\ None(p) => One(p)
        /\ \/ /\ (None(p) => None(p)') /\ (One(p) => One(p)') /\ (Two(p) => Two(p)')
              /\ Peer!Creating(p)' => Peer!Creating(p) \/ None(p)
           \/ /\ Peer!Creating(p) /\ ~ Peer!Creating(p)'
              /\ (None(p) => One(p)') /\ (One(p) => Two(p)')
    BY <1>2 DEF Peer!Keeps, Peer!Adds, Peer!None, None, Peer!One, One, Peer!Two, Two
  <2>3. overlapped' = (overlapped \/ ~ (AllIdle' \/ Peer!AllIdle'))
    BY DEF ReloadNext, Other!AllIdle, Peer!AllIdle
  <2>4. Counts(p)
    BY DEF ReloadInv
  <2> QED
    BY <1>3, <2>1, <2>2, <2>3, <2>4 DEF Counts, Apart
<1> QED
  BY <1>2, <1>4, <1>5 DEF ReloadInv

\* An event reaches both objects, and writes no task.
LEMMA BothCount ==
    ASSUME ReloadInv, ReloadNext, Both
    PROVE  ReloadInv'
<1>1. Next /\ Peer!Next /\ UNCHANGED tasks
  <2>1. Next /\ Other!Next
    BY DEF Both, Next, Other!Next
  <2>2. UNCHANGED tasks
    BY DEF Both, ChangeReport, Register, Unregister, HKUp, HKDown, Tick, Restart, hkVars
  <2> QED
    BY <2>1, <2>2, SameNext
<1>2. ObjectInv' /\ \A p : Creating(p)' => Creating(p) \/ None(p)
  BY <1>1, FewTasks, ObjectStep DEF ReloadInv, Keeps, Adds
<1>3. Peer!ObjectInv' /\ \A p : Peer!Creating(p)' => Peer!Creating(p) \/ None(p)
  BY <1>1, FewTasks, PeerStep DEF ReloadInv, Peer!Keeps, Peer!Adds, Peer!None, None
<1>4. ASSUME NEW p PROVE Counts(p)'
  <2>1. /\ None(p)' <=> None(p)
        /\ One(p)' <=> One(p)
        /\ Two(p)' <=> Two(p)
        /\ None(p) => One(p)
    BY <1>1 DEF None, One, Two
  <2>2. overlapped' = (overlapped \/ ~ (AllIdle' \/ Peer!AllIdle'))
    BY DEF ReloadNext, Other!AllIdle, Peer!AllIdle
  <2>3. Counts(p)
    BY DEF ReloadInv
  <2> QED
    BY <1>2, <1>3, <2>1, <2>2, <2>3 DEF Counts, Apart
<1> QED
  BY <1>2, <1>3, <1>4 DEF ReloadInv

LEMMA NobodyCounts ==
    ASSUME ReloadInv, UNCHANGED reloadVars
    PROVE  ReloadInv'
<1>1. UNCHANGED vars /\ UNCHANGED otherObject /\ UNCHANGED <<tasks, thisObject, overlapped>>
  BY DEF reloadVars, vars, hkVars, thisObject
<1>2. ObjectInv'
  BY <1>1, FewTasks, ObjectStep DEF ReloadInv
<1>3. Peer!ObjectInv'
  BY <1>1, <1>2, PeerRests DEF ReloadInv
<1>4. ASSUME NEW p PROVE Counts(p)'
  <2>1. Creating(p)' <=> Creating(p)
    BY <1>1 DEF thisObject, handlerVars, Creating
  <2>2. Peer!Creating(p)' <=> Peer!Creating(p)
    BY <1>1 DEF otherObject, Peer!Creating
  <2>3. AllIdle' <=> AllIdle
    BY <1>1 DEF thisObject, handlerVars, AllIdle
  <2>4. Peer!AllIdle' <=> Peer!AllIdle
    BY <1>1 DEF otherObject, Peer!AllIdle
  <2>5. None(p)' <=> None(p)
    BY <1>1 DEF None
  <2>6. One(p)' <=> One(p)
    BY <1>1 DEF One
  <2>7. Two(p)' <=> Two(p)
    BY <1>1 DEF Two
  <2>8. Counts(p) /\ overlapped' = overlapped
    BY <1>1 DEF ReloadInv
  <2> QED
    BY <2>1, <2>2, <2>3, <2>4, <2>5, <2>6, <2>7, <2>8 DEF Counts, Apart
<1> QED
  BY <1>2, <1>3, <1>4 DEF ReloadInv

LEMMA CountsInit == ReloadInit => ReloadInv
<1> SUFFICES ASSUME ReloadInit PROVE ReloadInv
  OBVIOUS
<1>1. ObjectInv /\ tasks = {} /\ AllIdle
  BY ObjectInit DEF ReloadInit
<1>2. Peer!ObjectInv /\ Peer!AllIdle
  BY PeerConstants, SameInit, Peer!ObjectInit DEF ReloadInit
<1>3. \A p : ~ Creating(p) /\ ~ Peer!Creating(p)
  BY <1>1, <1>2, IdleCreatesNothing, PeerIdle
<1>4. \A p : None(p) /\ One(p) /\ Two(p)
  BY <1>1 DEF None, One, Two
<1> QED
  BY <1>1, <1>2, <1>3, <1>4 DEF ReloadInv, Counts, Apart

LEMMA CountsStep == ReloadInv /\ [ReloadNext]_reloadVars => ReloadInv'
BY ThisCounts, ThatCounts, BothCount, NobodyCounts DEF ReloadNext

LEMMA CountsAlways == ReloadSpec => []ReloadInv
BY CountsInit, CountsStep, PTL DEF ReloadSpec

\* It takes coroutines of two BambuLabGlue objects at a time to give a printer a
\* second firmware task (wiring.py makes the lock per object, __init__.py sets up
\* the next object without waiting for the last): not any number of reloads,
\* restarts, failed set-ups and lost calls, nor any number of coroutines of one.
THEOREM NoDuplicatesWithoutOverlap == ReloadSpec => []NoDuplicatesUnlessOverlap
<1>1. ReloadInv => NoDuplicatesUnlessOverlap
  <2> SUFFICES ASSUME ReloadInv, ~ overlapped,
                      NEW t \in tasks, NEW u \in tasks, t.device = u.device
               PROVE  t = u
    BY DEF NoDuplicatesUnlessOverlap, NoDuplicateTasks
  <2>1. One(t.device)
    BY DEF ReloadInv, Counts, Apart
  <2> QED
    BY <2>1 DEF One
<1> QED
  BY <1>1, CountsAlways, PTL

\* When two do overlap, a printer ends up with two firmware tasks and never more,
\* however often the entry is reloaded, as long as no third object joins in.
THEOREM AtMostOnePerObject == ReloadSpec => []AtMostOneEach
<1>1. ReloadInv => AtMostOneEach
  <2> SUFFICES ASSUME ReloadInv, NEW t \in tasks, NEW u \in tasks, NEW w \in tasks,
                      t.device = u.device, u.device = w.device
               PROVE  t = u \/ u = w \/ t = w
    BY DEF AtMostOneEach
  <2>1. Two(t.device)
    BY DEF ReloadInv, Counts
  <2> QED
    BY <2>1 DEF Two
<1> QED
  BY <1>1, CountsAlways, PTL
================================================================================
