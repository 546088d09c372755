------------------------- MODULE FirmwareMirrorProofs -------------------------
(***************************************************************************)
(* The glue implements FirmwareMirror, for every set of printers, versions *)
(* and coroutines and without the bounds: every step of the glue raises or *)
(* clears one task as the mirror allows, or changes nothing of it.         *)
(***************************************************************************)
EXTENDS FirmwareGlueHistory, FirmwareGlueProofs

Window == [at : Nat, version : Versions \cup {NoVersion}]

HistoryTypes ==
    /\ lastClear \in [Printers -> SUBSET Window]
    /\ armedFor \in [Printers -> SUBSET (Versions \cup {NoVersion})]

\* Some coroutine has completed p's task and not stamped the clear yet.
Stamping(p) == \E h \in Handlers : pc[h] = "stamp" /\ \E a \in cur[h] : a.device = p

\* The glue's memory of a clear: the stamp says the version it was cleared at,
\* and never an earlier time than the clear's.  A restart loses it, with every
\* coroutine that would have read it.
ClearRemembered ==
    \/ phase = "down" /\ AllIdle
    \/ \A p \in Printers : \A c \in lastClear[p] :
          Stamping(p) \/ \E s \in cleared[p] : s.version = c.version /\ s.at >= c.at

\* A clear about to be stamped is the last one.
StampIsLast ==
    \A h \in Handlers : pc[h] = "stamp" =>
        \A a \in cur[h] : \A c \in lastClear[a.device] : c.version = a.cleared_version

\* A glue that is not set up hears no event.
DownIsDeaf == phase = "down" => tracked = {}

MayArm(p, v) ==
    \A c \in lastClear[p] :
        \/ clock - c.at >= Cooldown
        \/ v # NoVersion /\ c.version # NoVersion /\ v # c.version

\* An arm that was planned stays allowed until it runs.
ArmsAllowed ==
    \A h \in Handlers : \A a \in todo[h] : a.op = "arm" => MayArm(a.device, a.offer)

\* A clear is run only when nothing but clears is left.
ClearsLast ==
    \A h \in Handlers : cur[h] # {} => \A a \in todo[h] : a.op = "clear"

MirrorInv ==
    /\ HistoryTypes
    /\ \A p \in Printers : \A c \in lastClear[p] : c.at <= clock
    /\ ClearRemembered
    /\ StampIsLast
    /\ DownIsDeaf
    /\ ArmsAllowed
    /\ ClearsLast

HIndInv == IndInv /\ MirrorInv

-----------------------------------------------------------------------------
\* What the history variables do in a step.

\* A step that calls no Home Keeper service raises and clears nothing.
LEMMA QuietHistory ==
    ASSUME HIndInv, HNext, UNCHANGED hkVars
    PROVE  /\ armedFor' = armedFor
           /\ phase = "down" /\ phase' # "down" => lastClear' = [p \in Printers |-> {}]
           /\ ~ (phase = "down" /\ phase' # "down") => lastClear' = lastClear
<1>1. \A p \in Printers : \A ops : Ran(p, ops) = {}
  BY DEF Ran, hkVars
<1>2. armedFor' = armedFor
  BY <1>1 DEF HNext, HIndInv, MirrorInv, HistoryTypes
<1>3. completions' = completions
  BY DEF hkVars
<1>4. lastClear' = [p \in Printers |-> IF phase = "down" /\ phase' # "down"
                                       THEN {} ELSE lastClear[p]]
  BY <1>3 DEF HNext
<1> QED
  BY <1>2, <1>4 DEF HIndInv, MirrorInv, HistoryTypes

LEMMA MirrorInit == HInit => MirrorInv
BY DEF HInit, Init, MirrorInv, HistoryTypes, ClearRemembered, AllIdle, StampIsLast,
       DownIsDeaf, ArmsAllowed, ClearsLast

-----------------------------------------------------------------------------
\* Coroutines that start, and steps that only let time or the world go on.

\* Coroutines elsewhere than where the invariant looks change nothing of it.
LEMMA SpawnKeepsMirror ==
    ASSUME HIndInv, UNCHANGED <<lastClear, armedFor, cleared, clock>>,
           phase = "down" => phase' = "down", phase' = "down" => tracked' = {},
           \/ UNCHANGED handlerVars
           \/ phase # "down" /\ \E j : Spawn(j)
           \/ ~ AllIdle /\ \E j : Spawn(j)
    PROVE  MirrorInv'
<1> USE DEF HIndInv, MirrorInv
<1>1. UNCHANGED <<todo, cur>>
  BY DEF handlerVars, Spawn
<1>2. \A h \in Handlers : (pc'[h] = "stamp") = (pc[h] = "stamp")
  BY DEF handlerVars, Spawn, IndInv, TypeInv, TypeOK, CoroutineTypes
<1>3. ClearRemembered'
  <2>1. CASE phase = "down" /\ AllIdle
    BY <2>1 DEF ClearRemembered, AllIdle, handlerVars
  <2>2. CASE ~ (phase = "down" /\ AllIdle)
    BY <1>1, <1>2, <2>2 DEF ClearRemembered, Stamping
  <2> QED BY <2>1, <2>2
<1>4. HistoryTypes' /\ \A p \in Printers : \A c \in lastClear'[p] : c.at <= clock'
  BY DEF HistoryTypes
<1>5. StampIsLast' /\ ArmsAllowed' /\ ClearsLast'
  BY <1>1, <1>2 DEF StampIsLast, ArmsAllowed, MayArm, ClearsLast
<1> QED
  BY <1>3, <1>4, <1>5 DEF DownIsDeaf

\* Before a setup and after a restart no coroutine runs or has work.
LEMMA NothingPlanned ==
    ASSUME IndInv, AllIdle
    PROVE  \A h \in Handlers : todo[h] = {} /\ cur[h] = {}
BY DEF IndInv, LockInv, AllIdle

LEMMA EnvironmentKeepsMirror ==
    ASSUME HIndInv, HNext,
           \/ \E p \in Printers : ChangeReport(p) \/ Register(p) \/ Unregister(p)
           \/ HKUp \/ HKDown \/ Tick \/ Setup \/ Started \/ Unload \/ Restart
    PROVE  MirrorInv'
<1> USE DEF HIndInv, MirrorInv, glueVars, hkVars
<1>1. ASSUME NEW p \in Printers, ChangeReport(p) \/ Register(p) \/ Unregister(p)
      PROVE  MirrorInv'
  <2>1. UNCHANGED <<hkVars, cleared, clock, phase>>
    BY <1>1 DEF ChangeReport, Register, Unregister
  <2>2. UNCHANGED <<lastClear, armedFor>>
    BY <2>1, QuietHistory
  <2>3. phase' = "down" => tracked' = {} /\ UNCHANGED handlerVars
    BY <1>1 DEF ChangeReport, Register, Unregister, RegistryUpdated, DownIsDeaf
  <2>4. UNCHANGED handlerVars \/ \E j : Spawn(j)
    BY <1>1 DEF ChangeReport, Register, Unregister, RegistryUpdated, StartReconcile
  <2> QED
    BY <2>1, <2>2, <2>3, <2>4, SpawnKeepsMirror
<1>2. ASSUME HKUp \/ HKDown \/ Unload PROVE MirrorInv'
  <2>1. /\ UNCHANGED <<hkVars, cleared, clock, handlerVars>>
        /\ phase = "down" => phase' = "down" /\ UNCHANGED tracked
        /\ phase' = "down" => tracked' = {}
    BY <1>2 DEF HKUp, HKDown, Unload, DownIsDeaf
  <2>2. UNCHANGED <<lastClear, armedFor>>
    BY <2>1, QuietHistory
  <2> QED
    BY <2>1, <2>2, SpawnKeepsMirror
<1>3. CASE Started
  <2>1. /\ UNCHANGED <<hkVars, cleared, clock>> /\ phase # "down" /\ phase' # "down"
        /\ UNCHANGED handlerVars \/ \E j : Spawn(j)
    BY <1>3 DEF Started, StartReconcile
  <2>2. UNCHANGED <<lastClear, armedFor>>
    BY <2>1, QuietHistory
  <2> QED
    BY <2>1, <2>2, SpawnKeepsMirror
<1>4. CASE Tick
  <2>1. UNCHANGED <<hkVars, glueVars, handlerVars>> /\ clock \in Nat /\ clock' = clock + 1
    BY <1>4 DEF Tick, IndInv, TypeInv, TypeOK
  <2>2. UNCHANGED <<lastClear, armedFor>>
    BY <2>1, QuietHistory
  <2>3. \A p \in Printers : \A c \in lastClear[p] : c.at \in Nat
    BY DEF HistoryTypes, Window
  <2>4. \A p \in Printers : \A v : MayArm(p, v) => MayArm(p, v)'
    BY <2>1, <2>2, <2>3, ConstantsAssumption DEF MayArm
  <2>5. ASSUME NEW h \in Handlers, NEW a \in todo[h], a.op = "arm" PROVE a.device \in Printers
    BY <2>5 DEF IndInv, TypeInv, TypeOK, CoroutineTypes, Action
  <2>6. ArmsAllowed'
    BY <2>1, <2>4, <2>5 DEF ArmsAllowed, handlerVars
  <2>7. \A p \in Printers : \A c \in lastClear'[p] : c.at <= clock'
    BY <2>1, <2>2, <2>3
  <2> QED
    BY <2>1, <2>2, <2>6, <2>7 DEF handlerVars, HistoryTypes, ClearRemembered, Stamping, AllIdle,
       StampIsLast, DownIsDeaf, ClearsLast
<1>5. CASE Setup
  <2>1. /\ UNCHANGED <<hkVars, todo, cur>> /\ phase = "down" /\ phase' # "down" /\ AllIdle
        /\ \A h \in Handlers : todo[h] = {} /\ cur[h] = {}
    BY <1>5, NothingPlanned DEF Setup, StartReconcile, Spawn, handlerVars
  <2>2. lastClear' = [p \in Printers |-> {}] /\ UNCHANGED armedFor
    BY <2>1, QuietHistory
  <2> QED
    BY <2>1, <2>2 DEF HistoryTypes, ClearRemembered, StampIsLast, DownIsDeaf, ArmsAllowed, ClearsLast
<1>6. CASE Restart
  <2>1. UNCHANGED <<lastClear, armedFor>>
    BY <1>6, QuietHistory DEF Restart
  <2> QED
    BY <1>6, <2>1 DEF Restart, HistoryTypes, ClearRemembered, AllIdle, StampIsLast,
       DownIsDeaf, ArmsAllowed, ClearsLast
<1> QED
  BY <1>1, <1>2, <1>3, <1>4, <1>5, <1>6

-----------------------------------------------------------------------------
\* A planned arm is allowed: within_cooldown and _is_stale_rearm look at the
\* stamp, the mirror at the clear itself.

LEMMA FreshOffer ==
    ASSUME HIndInv, NEW h \in Handlers, pc[h] = "plan", NEW p \in Printers, NEW v,
           ~ \E w \in recently_cleared(p) : is_stale_rearm(v, w)
    PROVE  MayArm(p, v)
<1> SUFFICES ASSUME NEW c \in lastClear[p]
             PROVE  \/ clock - c.at >= Cooldown
                    \/ v # NoVersion /\ c.version # NoVersion /\ v # c.version
  BY DEF MayArm
<1> USE DEF HIndInv, MirrorInv
<1>1. ~ Stamping(p)
  BY OthersOutside DEF Stamping, Holding
<1>2. PICK s \in cleared[p] : s.version = c.version /\ s.at >= c.at
  BY <1>1 DEF ClearRemembered, AllIdle
<1>3. s.at \in Nat /\ c.at \in Nat /\ clock \in Nat /\ Cooldown \in Nat
  BY ConstantsAssumption DEF IndInv, TypeInv, TypeOK, HistoryTypes, Window
<1>4. CASE clock - s.at < Cooldown
  <2>1. c.version \in recently_cleared(p)
    BY <1>2, <1>4 DEF recently_cleared, within_cooldown
  <2> QED
    BY <2>1 DEF is_stale_rearm
<1> QED
  BY <1>2, <1>3, <1>4

LEMMA AvailableArms ==
    ASSUME NEW S, NEW p, NEW r, NEW recent,
           NEW a \in plan_update_available(S, p, r, recent), a.op = "arm"
    PROVE  /\ a.device = p /\ a.offer = r.latest
           /\ ~ \E w \in recent : is_stale_rearm(r.latest, w)
<1>1. CreateTask(p, format_notes(r.latest, r.installed), build_firmware_chips(r.latest)).op = "create"
  BY DEF CreateTask
<1>2. PICK t : a = ArmTask(t.id, p, r.latest) /\ ~ \E w \in recent : is_stale_rearm(r.latest, w)
  BY <1>1 DEF plan_update_available
<1> QED
  BY <1>2 DEF ArmTask

LEMMA PlannedArms ==
    ASSUME HIndInv, NEW h \in Handlers, Plan(h), NEW a \in todo'[h], a.op = "arm"
    PROVE  MayArm(a.device, a.offer)
<1>1. IndInv /\ pc[h] = "plan" /\ job[h] \in Job /\ registered \in SUBSET Printers
  BY DEF Plan, HIndInv, IndInv, TypeInv, TypeOK, CoroutineTypes
<1>2. SUFFICES ASSUME NEW p \in Printers, NEW r,
                      a \in plan_update_available(snap[h], p, r, recently_cleared(p))
               PROVE  MayArm(a.device, a.offer)
  <2>1. \/ job[h].kind = "event" /\ a \in plan_event(h)
        \/ a \in plan_all(h)
    BY <1>1 DEF Plan, IndInv, TypeInv, TypeOK, CoroutineTypes
  <2>2. CASE job[h].kind = "event" /\ a \in plan_event(h)
    <3>1. job[h].device \in Printers
      BY <1>1, <2>2 DEF Job, NoJob, Reconcile, SetupReconcile
    <3>2. \A v : a \notin plan_update_cleared(snap[h], job[h].device, v)
      BY DEF plan_update_cleared, ClearTask
    <3>3. a \in plan_update_available(snap[h], job[h].device, job[h].report,
                                     recently_cleared(job[h].device))
      <4>1. job[h].report.state \in {"on", "off", "unavailable"}
        BY <1>1, <2>2 DEF Job, NoJob, Reconcile, SetupReconcile, Report
      <4> QED BY <2>2, <3>2, <4>1 DEF plan_event
    <3> QED
      BY <1>2, <3>1, <3>3
  <2>3. CASE a \in plan_all(h)
    <3>1. \A S, m : a \notin plan_clears(S, m)
      BY DEF plan_clears, ClearTask
    <3>2. \A S, d, r : a \notin plan_refresh(S, d, r)
      BY DEF plan_refresh, UpdateTask
    <3>3. PICK d \in DOMAIN scan_available :
              a \in plan_update_available(snap[h], d, scan_available[d],
                                          [p \in Printers |-> recently_cleared(p)][d])
      BY <2>3, <3>1, <3>2 DEF plan_all, plan_reconcile, plan_offer
    <3>4. d \in Printers
      BY <1>1 DEF scan_available
    <3> QED
      BY <1>2, <3>3, <3>4
  <2> QED
    BY <2>1, <2>2, <2>3
<1>3. /\ a.device = p /\ a.offer = r.latest
      /\ ~ \E w \in recently_cleared(p) : is_stale_rearm(r.latest, w)
  BY <1>2, AvailableArms
<1> QED
  BY <1>1, <1>3, FreshOffer

-----------------------------------------------------------------------------
\* The steps of a coroutine keep the invariant.

\* A holder's step that leaves the clears and stamps alone, and whose arms are
\* allowed.
LEMMA HolderKeepsMirror ==
    ASSUME HIndInv, NEW h \in Handlers, pc[h] \in Holding \cup {"waiting"},
           UNCHANGED <<lastClear, cleared, clock>>, phase' = "down" => tracked' = {},
           \A g \in Handlers \ {h} : pc'[g] = pc[g] /\ cur'[g] = cur[g] /\ todo'[g] = todo[g],
           pc[h] # "stamp", pc'[h] # "stamp", cur'[h] = {},
           phase = "down" => phase' = "down",
           armedFor' \in [Printers -> SUBSET (Versions \cup {NoVersion})],
           \A a \in todo'[h] : a.op = "arm" => MayArm(a.device, a.offer)
    PROVE  MirrorInv'
<1> USE DEF HIndInv, MirrorInv
<1>1. \A p, v : MayArm(p, v)' = MayArm(p, v)
  BY DEF MayArm
<1>2. ArmsAllowed'
  BY <1>1 DEF ArmsAllowed
<1>3. \A p : Stamping(p) => Stamping(p)'
  BY DEF Stamping
<1>4. ClearRemembered'
  BY <1>3 DEF ClearRemembered, AllIdle, Holding
<1> QED
  BY <1>2, <1>4 DEF HistoryTypes, StampIsLast, DownIsDeaf, ClearsLast

LEMMA QuietStepKeepsMirror ==
    ASSUME HIndInv, HNext, NEW h \in Handlers,
           \/ Acquire(h) \/ List(h) \/ ListUnavailable(h) \/ Plan(h)
           \/ DropRest(h) \/ Fail(h) \/ Finish(h)
    PROVE  MirrorInv'
<1> USE DEF glueVars
<1>1. /\ UNCHANGED <<hkVars, cleared, clock>>
      /\ phase = "down" => phase' = "down"
      /\ phase' = "down" => tracked' = {}
    BY DEF Acquire, List, ListUnavailable, Plan, DropRest, Fail, Finish, HIndInv, MirrorInv, DownIsDeaf
<1>2. UNCHANGED <<lastClear, armedFor>>
  BY <1>1, QuietHistory
<1>3. armedFor' \in [Printers -> SUBSET (Versions \cup {NoVersion})]
  BY <1>2 DEF HIndInv, MirrorInv, HistoryTypes
<1>4. pc \in [Handlers -> {"idle", "waiting"} \cup Holding] /\ cur \in [Handlers -> SUBSET Action]
      /\ todo \in [Handlers -> SUBSET Action] /\ IndInv
  BY DEF HIndInv, IndInv, TypeInv, TypeOK, CoroutineTypes
<1>5. CASE Acquire(h) \/ List(h)
  <2>1. /\ pc[h] \in {"waiting", "list"} /\ cur[h] = {} /\ todo[h] = {}
        /\ UNCHANGED <<cur, todo>>
        /\ pc' = [pc EXCEPT ![h] = pc'[h]] /\ pc'[h] \in {"list", "plan"}
    BY <1>4, <1>5 DEF Acquire, List, IndInv, LockInv
  <2> QED
    BY <1>1, <1>2, <1>3, <1>4, <2>1, HolderKeepsMirror DEF Holding
<1>6. CASE Plan(h)
  <2>1. /\ pc[h] = "plan" /\ cur[h] = {} /\ UNCHANGED cur
        /\ pc' = [pc EXCEPT ![h] = "exec"] /\ todo' = [todo EXCEPT ![h] = todo'[h]]
    BY <1>4, <1>6 DEF Plan, IndInv, LockInv
  <2>2. \A a \in todo'[h] : a.op = "arm" => MayArm(a.device, a.offer)
    BY <1>6, PlannedArms
  <2> QED
    BY <1>1, <1>2, <1>3, <1>4, <2>1, <2>2, HolderKeepsMirror DEF Holding
<1>7. CASE ListUnavailable(h) \/ DropRest(h) \/ Fail(h) \/ Finish(h)
  <2>1. pc[h] \in Holding \ {"stamp"} /\ Release(h)
    BY <1>7 DEF ListUnavailable, DropRest, Fail, Finish, Holding
  <2>2. /\ pc' = [pc EXCEPT ![h] = "idle"] /\ todo' = [todo EXCEPT ![h] = {}]
        /\ cur' = [cur EXCEPT ![h] = {}]
    BY <2>1 DEF Release
  <2> QED
    BY <1>1, <1>2, <1>3, <1>4, <2>1, <2>2, HolderKeepsMirror
<1> QED
  BY <1>5, <1>6, <1>7

-----------------------------------------------------------------------------
\* What the calls to Home Keeper do to a printer's status.

LEMMA StatusOf ==
    ASSUME IndInv, NEW p \in Printers, NEW t \in tasks, t.device = p
    PROVE  /\ firmware_tasks(p) = {t}
           /\ MirrorStatus[p] = IF t.armed THEN "armed" ELSE "dormant"
<1>1. \A u \in tasks : u.item = ITEM_FIRMWARE
  BY DEF IndInv, TypeInv, TypeOK, Task
<1>2. firmware_tasks(p) = {t}
  BY <1>1 DEF IndInv, OnePerItem, firmware_tasks
<1> QED
  BY <1>2 DEF MirrorStatus, is_armed

\* Tasks rewritten in place, only t's armed flag set to b.
LEMMA Rearmed ==
    ASSUME IndInv, NEW p \in Printers, NEW t \in tasks, t.device = p, NEW b \in BOOLEAN,
           NEW f, tasks' = {f[u] : u \in tasks},
           \A u \in tasks : /\ f[u].device = u.device /\ f[u].item = u.item
                            /\ f[u].armed <=> IF u = t THEN b ELSE u.armed
    PROVE  MirrorStatus' = [MirrorStatus EXCEPT ![p] = IF b THEN "armed" ELSE "dormant"]
<1>1. \A q \in Printers : firmware_tasks(q)' = {f[u] : u \in firmware_tasks(q)}
  BY DEF firmware_tasks
<1>2. firmware_tasks(p) = {t}
  BY StatusOf
<1>3. ASSUME NEW q \in Printers, q # p
      PROVE  MirrorStatus'[q] = MirrorStatus[q]
  <2>1. \A u \in firmware_tasks(q) : u \in tasks /\ u # t
    BY <1>3 DEF firmware_tasks
  <2>2. /\ firmware_tasks(q)' = {} <=> firmware_tasks(q) = {}
        /\ (\E u \in firmware_tasks(q)' : u.armed) <=> (\E u \in firmware_tasks(q) : u.armed)
    BY <1>1, <2>1
  <2> QED
    BY <2>2 DEF MirrorStatus, is_armed
<1>4. MirrorStatus'[p] = IF b THEN "armed" ELSE "dormant"
  <2>1. firmware_tasks(p)' = {f[t]} /\ (f[t].armed <=> b)
    BY <1>1, <1>2
  <2> QED
    BY <2>1 DEF MirrorStatus, is_armed
<1>5. DOMAIN MirrorStatus = Printers /\ DOMAIN MirrorStatus' = Printers
      /\ MirrorStatus = [q \in Printers |-> MirrorStatus[q]]
      /\ MirrorStatus' = [q \in Printers |-> MirrorStatus'[q]]
  BY DEF MirrorStatus
<1> QED
  BY <1>3, <1>4, <1>5

LEMMA Unrearmed ==
    ASSUME NEW f, tasks' = {f[u] : u \in tasks},
           \A u \in tasks : /\ f[u].device = u.device /\ f[u].item = u.item
                            /\ f[u].armed <=> u.armed
    PROVE  MirrorStatus' = MirrorStatus
<1>1. \A q \in Printers : firmware_tasks(q)' = {f[u] : u \in firmware_tasks(q)}
  BY DEF firmware_tasks
<1>2. \A q \in Printers :
        /\ firmware_tasks(q)' = {} <=> firmware_tasks(q) = {}
        /\ (\E u \in firmware_tasks(q)' : u.armed) <=> (\E u \in firmware_tasks(q) : u.armed)
  BY <1>1 DEF firmware_tasks
<1> QED
  BY <1>2 DEF MirrorStatus, is_armed

LEMMA UpdateStatus ==
    ASSUME IndInv, NEW i, NEW chips, NEW notes, NEW fields,
           tasks' = update_task(tasks, i, chips, notes, fields)
    PROVE  MirrorStatus' = MirrorStatus
<1> DEFINE f == [t \in tasks |->
                   [t EXCEPT !.chips = IF t.id = i /\ "chips" \in fields THEN chips ELSE @,
                             !.notes = IF t.id = i /\ "notes" \in fields THEN notes ELSE @]]
<1>1. \A t \in tasks : /\ f[t].device = t.device /\ f[t].item = t.item
                       /\ f[t].armed <=> t.armed
  BY DEF IndInv, TypeInv, TypeOK, Task
<1>2. tasks' = {f[t] : t \in tasks}
  BY DEF update_task
<1> HIDE DEF f
<1> QED
  BY <1>1, <1>2, Unrearmed

LEMMA TriggerStatus ==
    ASSUME IndInv, NEW p \in Printers, NEW t \in tasks, t.device = p, ~ t.armed,
           tasks' = trigger_task(tasks, t.id)
    PROVE  /\ MirrorStatus[p] = "dormant"
           /\ MirrorStatus' = [MirrorStatus EXCEPT ![p] = "armed"]
<1> DEFINE f == [u \in tasks |-> [u EXCEPT !.armed = @ \/ u.id = t.id]]
<1>1. \A u \in tasks : u.id = t.id <=> u = t
  BY DEF IndInv, Ids
<1>2. \A u \in tasks : /\ f[u].device = u.device /\ f[u].item = u.item
                       /\ f[u].armed <=> IF u = t THEN TRUE ELSE u.armed
  BY <1>1 DEF IndInv, TypeInv, TypeOK, Task
<1>3. tasks' = {f[u] : u \in tasks}
  BY DEF trigger_task
<1> HIDE DEF f
<1> QED
  BY <1>2, <1>3, Rearmed, StatusOf

LEMMA CompleteStatus ==
    ASSUME IndInv, NEW p \in Printers, NEW t \in tasks, t.device = p, t.armed,
           tasks' = complete_task(tasks, t.id)
    PROVE  /\ MirrorStatus[p] = "armed"
           /\ MirrorStatus' = [MirrorStatus EXCEPT ![p] = "dormant"]
<1> DEFINE f == [u \in tasks |-> [u EXCEPT !.armed = @ /\ u.id # t.id]]
<1>1. \A u \in tasks : u.id = t.id <=> u = t
  BY DEF IndInv, Ids
<1>2. \A u \in tasks : /\ f[u].device = u.device /\ f[u].item = u.item
                       /\ f[u].armed <=> IF u = t THEN FALSE ELSE u.armed
  BY <1>1 DEF IndInv, TypeInv, TypeOK, Task
<1>3. tasks' = {f[u] : u \in tasks}
  BY DEF complete_task
<1> HIDE DEF f
<1> QED
  BY <1>2, <1>3, Rearmed, StatusOf

LEMMA CreateStatus ==
    ASSUME IndInv, NEW p \in Printers, NEW payload,
           payload.device = p, ~ \E t \in tasks : t.device = p /\ t.item = ITEM_FIRMWARE,
           tasks' = add_task(tasks, nextId, ITEM_FIRMWARE, payload)
    PROVE  /\ MirrorStatus[p] = "none" /\ tasks' # tasks
           /\ MirrorStatus' = [MirrorStatus EXCEPT ![p] = "armed"]
<1> DEFINE new == [id |-> nextId, device |-> p, item |-> ITEM_FIRMWARE,
                   armed |-> TRUE, notes |-> payload.notes, chips |-> payload.chips]
<1>1. /\ new.id = nextId /\ new.device = p /\ new.item = ITEM_FIRMWARE /\ new.armed
      /\ tasks' = tasks \cup {new}
  BY DEF add_task
<1> HIDE DEF new
<1>2. new \notin tasks
  BY <1>1 DEF IndInv, Ids, TypeInv, TypeOK
<1>3. firmware_tasks(p) = {} /\ firmware_tasks(p)' = {new}
  BY <1>1 DEF firmware_tasks
<1>4. \A q \in Printers \ {p} : firmware_tasks(q)' = firmware_tasks(q)
  BY <1>1 DEF firmware_tasks
<1>5. MirrorStatus[p] = "none" /\ MirrorStatus'[p] = "armed"
  BY <1>1, <1>3 DEF MirrorStatus, is_armed
<1>6. \A q \in Printers \ {p} : MirrorStatus'[q] = MirrorStatus[q]
  BY <1>4 DEF MirrorStatus
<1>7. /\ MirrorStatus = [q \in Printers |-> MirrorStatus[q]]
      /\ MirrorStatus' = [q \in Printers |-> MirrorStatus'[q]]
  BY DEF MirrorStatus
<1> QED
  BY <1>1, <1>2, <1>5, <1>6, <1>7

-----------------------------------------------------------------------------
\* Each call of the lock's holder, on the invariant and on the mirror.

\* What armedFor becomes when h takes a off its plan with a call that writes.
LEMMA RanOne ==
    ASSUME HIndInv, HNext, NEW h \in Handlers, NEW a \in todo[h],
           todo' = [todo EXCEPT ![h] = @ \ {a}]
    PROVE  /\ a.op \notin {"create", "arm"} => armedFor' = armedFor
           /\ a.op = "create" /\ tasks' # tasks =>
                armedFor' = [armedFor EXCEPT ![a.device] = {a.notes.latest}]
           /\ a.op = "arm" /\ tasks' # tasks =>
                armedFor' = [armedFor EXCEPT ![a.device] = {a.offer}]
<1>1. /\ todo \in [Handlers -> SUBSET Action] /\ a.device \in Printers
      /\ armedFor = [p \in Printers |-> armedFor[p]]
  <2>1. todo \in [Handlers -> SUBSET Action]
    BY DEF HIndInv, IndInv, TypeInv, TypeOK, CoroutineTypes
  <2>2. a.device \in Printers
    BY <2>1 DEF Action
  <2> QED
    BY <2>1, <2>2 DEF HIndInv, MirrorInv, HistoryTypes
<1>2. \A g \in Handlers : todo[g] \ todo'[g] = IF g = h THEN {a} ELSE {}
  BY <1>1
<1>3. \A p \in Printers : \A ops :
        Ran(p, ops) = IF a.device = p /\ a.op \in ops /\ tasks' # tasks THEN {a} ELSE {}
  <2> TAKE p \in Printers
  <2> TAKE ops
  <2> DEFINE Mine(g) == {b \in todo[g] \ todo'[g] : b.device = p /\ b.op \in ops /\ tasks' # tasks}
  <2>1. \A g \in Handlers : g # h => Mine(g) = {}
    BY <1>2
  <2>2. Mine(h) = IF a.device = p /\ a.op \in ops /\ tasks' # tasks THEN {a} ELSE {}
    BY <1>2
  <2>3. Ran(p, ops) = UNION {Mine(g) : g \in Handlers}
    BY DEF Ran
  <2> HIDE DEF Mine
  <2>4. UNION {Mine(g) : g \in Handlers} = Mine(h)
    BY <2>1
  <2> QED
    BY <2>2, <2>3, <2>4
<1>4. armedFor' = [p \in Printers |->
                      IF Ran(p, {"create", "arm"}) # {}
                      THEN {b.notes.latest : b \in Ran(p, {"create"})}
                             \cup {b.offer : b \in Ran(p, {"arm"})}
                      ELSE armedFor[p]]
  BY DEF HNext
<1>5. ASSUME a.op \notin {"create", "arm"} PROVE armedFor' = armedFor
  BY <1>1, <1>3, <1>4, <1>5
<1>6. ASSUME a.op = "create", tasks' # tasks
      PROVE  armedFor' = [armedFor EXCEPT ![a.device] = {a.notes.latest}]
  <2>1. \A p \in Printers \ {a.device} : armedFor'[p] = armedFor[p]
    <3>1. \A p \in Printers \ {a.device} : Ran(p, {"create", "arm"}) = {}
      BY <1>3
    <3> QED BY <1>4, <3>1
  <2>2. armedFor'[a.device] = {a.notes.latest}
    <3>1. /\ Ran(a.device, {"create", "arm"}) = {a} /\ Ran(a.device, {"create"}) = {a}
          /\ Ran(a.device, {"arm"}) = {}
      BY <1>1, <1>3, <1>6
    <3> QED BY <1>1, <1>4, <3>1
  <2> QED
    BY <1>1, <1>4, <2>1, <2>2
<1>7. ASSUME a.op = "arm", tasks' # tasks
      PROVE  armedFor' = [armedFor EXCEPT ![a.device] = {a.offer}]
  <2>1. \A p \in Printers \ {a.device} : armedFor'[p] = armedFor[p]
    <3>1. \A p \in Printers \ {a.device} : Ran(p, {"create", "arm"}) = {}
      BY <1>3
    <3> QED BY <1>4, <3>1
  <2>2. armedFor'[a.device] = {a.offer}
    <3>1. /\ Ran(a.device, {"create", "arm"}) = {a} /\ Ran(a.device, {"arm"}) = {a}
          /\ Ran(a.device, {"create"}) = {}
      BY <1>1, <1>3, <1>7
    <3> QED BY <1>1, <1>4, <3>1
  <2> QED
    BY <1>1, <1>4, <2>1, <2>2
<1> QED
  BY <1>5, <1>6, <1>7

\* A call that completes nothing leaves the last clears as they are.
LEMMA NoClear ==
    ASSUME HIndInv, HNext, UNCHANGED <<completions, phase>>
    PROVE  lastClear' = lastClear
BY DEF HNext, HIndInv, MirrorInv, HistoryTypes

LEMMA CreateMirrored ==
    ASSUME HIndInv, HNext, NEW h \in Handlers, ExecCreate(h)
    PROVE  MirrorInv' /\ \E p \in Printers : Mirror!Raise(p)
<1> PICK a \in todo[h] : /\ a.op = "create" /\ pc[h] = "exec" /\ Done(h, a)
                         /\ tasks' = add_task(tasks, nextId, ITEM_FIRMWARE, a)
                         /\ UNCHANGED <<completions, glueVars, clock>>
  BY DEF ExecCreate, Executing
<1>1. IndInv /\ todo \in [Handlers -> SUBSET Action] /\ cur[h] = {}
  BY DEF HIndInv, IndInv, TypeInv, TypeOK, CoroutineTypes, LockInv
<1>2. a.device \in Printers /\ a.notes.latest \in Versions \cup {NoVersion}
  BY <1>1 DEF Action, Notes
<1>3. ~ \E t \in tasks : t.device = a.device /\ t.item = ITEM_FIRMWARE
  BY <1>1 DEF IndInv, PlanStaysValid, StillApplies
<1>4. /\ MirrorStatus[a.device] = "none" /\ tasks' # tasks
      /\ MirrorStatus' = [MirrorStatus EXCEPT ![a.device] = "armed"]
  BY <1>1, <1>2, <1>3, CreateStatus
<1>5. armedFor' = [armedFor EXCEPT ![a.device] = {a.notes.latest}]
  BY <1>4, RanOne DEF Done
<1>6. lastClear' = lastClear
  BY NoClear DEF glueVars
<1>7. Mirror!Raise(a.device)
  BY <1>2, <1>4, <1>5, <1>6 DEF Mirror!Raise
<1>8. armedFor' \in [Printers -> SUBSET (Versions \cup {NoVersion})]
  BY <1>2, <1>5 DEF HIndInv, MirrorInv, HistoryTypes
<1>9. \A b \in todo'[h] : b.op = "arm" => MayArm(b.device, b.offer)
  BY <1>1 DEF Done, HIndInv, MirrorInv, ArmsAllowed
<1>10. MirrorInv'
  BY <1>1, <1>6, <1>8, <1>9, HolderKeepsMirror
     DEF Done, glueVars, Holding, HIndInv, MirrorInv, DownIsDeaf
<1> QED
  BY <1>2, <1>7, <1>10

LEMMA ArmMirrored ==
    ASSUME HIndInv, HNext, NEW h \in Handlers, ExecArm(h)
    PROVE  MirrorInv' /\ \E p \in Printers : Mirror!Raise(p)
<1> PICK a \in todo[h] : /\ a.op = "arm" /\ pc[h] = "exec" /\ Done(h, a)
                         /\ tasks' = trigger_task(tasks, a.id)
                         /\ UNCHANGED <<completions, glueVars, clock>>
  BY DEF ExecArm, Executing
<1>1. IndInv /\ todo \in [Handlers -> SUBSET Action] /\ cur[h] = {}
  BY DEF HIndInv, IndInv, TypeInv, TypeOK, CoroutineTypes, LockInv
<1>2. a.device \in Printers /\ a.offer \in Versions \cup {NoVersion}
  BY <1>1 DEF Action
<1>3. PICK t \in tasks : t.id = a.id /\ t.device = a.device /\ ~ t.armed
  BY <1>1 DEF IndInv, PlanStaysValid, StillApplies
<1>4. /\ MirrorStatus[a.device] = "dormant"
      /\ MirrorStatus' = [MirrorStatus EXCEPT ![a.device] = "armed"]
  BY <1>1, <1>2, <1>3, TriggerStatus
<1>5. tasks' # tasks
  <2>1. MirrorStatus'[a.device] # MirrorStatus[a.device]
    BY <1>2, <1>4 DEF MirrorStatus
  <2> QED
    BY <2>1 DEF MirrorStatus, firmware_tasks
<1>6. armedFor' = [armedFor EXCEPT ![a.device] = {a.offer}]
  BY <1>5, RanOne DEF Done
<1>7. lastClear' = lastClear
  BY NoClear DEF glueVars
<1>8. Mirror!MayRaise(a.device, a.offer)
  BY DEF HIndInv, MirrorInv, ArmsAllowed, MayArm, Mirror!MayRaise
<1>9. Mirror!Raise(a.device)
  BY <1>2, <1>4, <1>6, <1>7, <1>8 DEF Mirror!Raise
<1>10. armedFor' \in [Printers -> SUBSET (Versions \cup {NoVersion})]
  BY <1>2, <1>6 DEF HIndInv, MirrorInv, HistoryTypes
<1>11. \A b \in todo'[h] : b.op = "arm" => MayArm(b.device, b.offer)
  BY <1>1 DEF Done, HIndInv, MirrorInv, ArmsAllowed
<1>12. MirrorInv'
  BY <1>1, <1>7, <1>10, <1>11, HolderKeepsMirror
     DEF Done, glueVars, Holding, HIndInv, MirrorInv, DownIsDeaf
<1> QED
  BY <1>2, <1>9, <1>12

LEMMA UpdateMirrored ==
    ASSUME HIndInv, HNext, NEW h \in Handlers, ExecUpdate(h)
    PROVE  MirrorInv' /\ UNCHANGED Mirror!mirrorVars
<1> PICK a \in todo[h] : /\ a.op = "update" /\ pc[h] = "exec" /\ Done(h, a)
                         /\ tasks' = update_task(tasks, a.id, a.chips, a.notes, a.fields)
                         /\ UNCHANGED <<completions, glueVars, clock>>
  BY DEF ExecUpdate, Executing
<1>1. IndInv /\ todo \in [Handlers -> SUBSET Action] /\ cur[h] = {}
  BY DEF HIndInv, IndInv, TypeInv, TypeOK, CoroutineTypes, LockInv
<1>2. UNCHANGED <<MirrorStatus, armedFor, lastClear>>
  BY <1>1, UpdateStatus, RanOne, NoClear DEF Done, glueVars
<1>3. \A b \in todo'[h] : b.op = "arm" => MayArm(b.device, b.offer)
  BY <1>1 DEF Done, HIndInv, MirrorInv, ArmsAllowed
<1>4. MirrorInv'
  BY <1>1, <1>2, <1>3, HolderKeepsMirror
     DEF Done, glueVars, Holding, HIndInv, MirrorInv, HistoryTypes, DownIsDeaf
<1> QED
  BY <1>2, <1>4 DEF Mirror!mirrorVars

LEMMA CompleteMirrored ==
    ASSUME HIndInv, HNext, NEW h \in Handlers, ExecComplete(h)
    PROVE  MirrorInv' /\ \E p \in Printers : Mirror!Clear(p)
<1> PICK a \in todo[h] : /\ a.op = "clear" /\ Executing(h, a)
                         /\ tasks' = complete_task(tasks, a.id)
                         /\ completions' = [completions EXCEPT ![a.device] = @ + 1]
                         /\ cur' = [cur EXCEPT ![h] = {a}]
                         /\ pc' = [pc EXCEPT ![h] = "stamp"]
                         /\ UNCHANGED <<glueVars, clock, todo>>
  BY DEF ExecComplete
<1> DEFINE c == [at |-> clock, version |-> a.cleared_version]
<1>1. /\ IndInv /\ todo \in [Handlers -> SUBSET Action] /\ cur \in [Handlers -> SUBSET Action]
      /\ pc \in [Handlers -> {"idle", "waiting"} \cup Holding]
      /\ completions \in [Printers -> Nat] /\ clock \in Nat /\ pc[h] = "exec" /\ cur[h] = {}
  BY DEF HIndInv, IndInv, TypeInv, TypeOK, CoroutineTypes, LockInv, Executing
<1>2. /\ a.device \in Printers /\ a.cleared_version \in Versions \cup {NoVersion}
      /\ c \in Window /\ c.at = clock /\ c.version = a.cleared_version
  BY <1>1 DEF Action, Window
<1>3. PICK t \in tasks : t.id = a.id /\ t.device = a.device /\ t.armed
  BY <1>1 DEF IndInv, PlanStaysValid, StillApplies
<1>4. /\ MirrorStatus[a.device] = "armed"
      /\ MirrorStatus' = [MirrorStatus EXCEPT ![a.device] = "dormant"]
  BY <1>1, <1>2, <1>3, CompleteStatus
<1>5. armedFor' = armedFor
  <2>1. \A p \in Printers : \A ops : Ran(p, ops) = {}
    BY DEF Ran
  <2> QED
    BY <2>1 DEF HNext, HIndInv, MirrorInv, HistoryTypes
<1>6. \A g \in Handlers \ {h} : pc'[g] = pc[g] /\ cur'[g] = {} /\ todo[g] = {} /\ pc[g] # "stamp"
  BY <1>1, OthersOutside DEF Holding
<1>7. UNION {cur'[g] : g \in Handlers} = {a}
  <2>1. cur'[h] = {a}
    BY <1>1
  <2> QED
    BY <1>6, <2>1
<1>8. lastClear' = [lastClear EXCEPT ![a.device] = {c}]
  <2>1. lastClear' = [p \in Printers |->
                        IF completions'[p] # completions[p]
                        THEN {[at |-> clock, version |-> b.cleared_version] : b \in {a}}
                        ELSE lastClear[p]]
    BY <1>7 DEF HNext, glueVars
  <2>2. {[at |-> clock, version |-> b.cleared_version] : b \in {a}} = {c}
    OBVIOUS
  <2>3. \A p \in Printers : completions'[p] # completions[p] <=> p = a.device
    BY <1>1, <1>2
  <2> HIDE DEF c
  <2> QED
    BY <1>2, <2>1, <2>2, <2>3 DEF HIndInv, MirrorInv, HistoryTypes
<1>9. Mirror!Clear(a.device)
  BY <1>2, <1>4, <1>5, <1>8 DEF Mirror!Clear
<1> HIDE DEF c
<1>10. HistoryTypes' /\ \A p \in Printers : \A d \in lastClear'[p] : d.at <= clock'
  BY <1>1, <1>2, <1>5, <1>8 DEF HIndInv, MirrorInv, HistoryTypes
<1>11. cur'[h] = {a} /\ pc'[h] = "stamp"
  BY <1>1
<1>12. ClearRemembered' /\ StampIsLast'
  <2>1. Stamping(a.device)'
    BY <1>11 DEF Stamping
  <2>2. \A p \in Printers : Stamping(p) => FALSE
    BY <1>1, <1>6 DEF Stamping
  <2>3. \A p \in Printers \ {a.device} : lastClear'[p] = lastClear[p]
    BY <1>8 DEF HIndInv, MirrorInv, HistoryTypes
  <2>4. ClearRemembered'
    BY <1>1, <2>1, <2>2, <2>3 DEF HIndInv, MirrorInv, ClearRemembered, AllIdle, glueVars
  <2>5. lastClear'[a.device] = {c}
    BY <1>2, <1>8 DEF HIndInv, MirrorInv, HistoryTypes
  <2>6. StampIsLast'
    BY <1>2, <1>6, <1>11, <2>5 DEF StampIsLast
  <2> QED
    BY <2>4, <2>6
<1>13. \A b \in todo[h] : b.op = "clear"
  BY DEF Executing, Ready
<1>14. ArmsAllowed' /\ ClearsLast' /\ DownIsDeaf'
  BY <1>6, <1>13 DEF ArmsAllowed, ClearsLast, DownIsDeaf, HIndInv, MirrorInv, glueVars
<1> QED
  BY <1>2, <1>9, <1>10, <1>12, <1>14 DEF MirrorInv

LEMMA StampMirrored ==
    ASSUME HIndInv, HNext, NEW h \in Handlers, Stamp(h)
    PROVE  MirrorInv'
<1> PICK a \in cur[h] :
        /\ pc[h] = "stamp" /\ UNCHANGED <<hkVars, clock, phase, tracked>>
        /\ cleared' = [cleared EXCEPT ![a.device] = {[at |-> clock, version |-> a.cleared_version]}]
        /\ \/ pc' = [pc EXCEPT ![h] = "notes"] /\ UNCHANGED <<todo, cur>>
           \/ Release(h)
  BY DEF Stamp
<1> DEFINE s == [at |-> clock, version |-> a.cleared_version]
<1>1. /\ IndInv /\ a \in Action /\ a.op = "clear" /\ cur[h] = {a}
      /\ todo \in [Handlers -> SUBSET Action] /\ cur \in [Handlers -> SUBSET Action]
      /\ pc \in [Handlers -> {"idle", "waiting"} \cup Holding]
      /\ cleared \in [Printers -> SUBSET Window] /\ clock \in Nat
  BY DEF HIndInv, IndInv, TypeInv, TypeOK, CoroutineTypes, CurInv, LockInv, Window
<1>2. a.device \in Printers
  BY <1>1 DEF Action
<1>3. UNCHANGED <<lastClear, armedFor>>
  BY QuietHistory
<1>4. /\ \A g \in Handlers : pc'[g] # "stamp" /\ cur'[g] \subseteq cur[g] /\ todo'[g] \subseteq todo[g]
      /\ \A g \in Handlers \ {h} : pc[g] # "stamp"
  BY <1>1, OthersOutside DEF Release, Holding
<1>5. \A d \in lastClear[a.device] : d.version = a.cleared_version /\ d.at <= clock
  BY <1>2 DEF HIndInv, MirrorInv, StampIsLast
<1>6. \A p \in Printers : cleared'[p] = IF p = a.device THEN {s} ELSE cleared[p]
  BY <1>1
<1>7. ASSUME NEW p \in Printers, NEW d \in lastClear'[p]
      PROVE  \E r \in cleared'[p] : r.version = d.version /\ r.at >= d.at
  <2>1. CASE p = a.device
    <3>1. s \in cleared'[p] /\ s.version = d.version /\ s.at = clock
      BY <1>3, <1>5, <1>6, <1>7, <2>1
    <3>2. d.at <= clock /\ d.at \in Nat
      BY <1>3, <1>5, <1>7, <2>1 DEF HIndInv, MirrorInv, HistoryTypes, Window
    <3> HIDE DEF s
    <3> QED
      BY <1>1, <3>1, <3>2
  <2>2. CASE p # a.device
    <3>1. ~ Stamping(p)
      BY <1>1, <1>4, <2>2 DEF Stamping
    <3> QED
      BY <1>3, <1>6, <1>7, <2>2, <3>1 DEF HIndInv, MirrorInv, ClearRemembered, AllIdle
  <2> QED
    BY <2>1, <2>2
<1>8. ClearRemembered' /\ StampIsLast'
  BY <1>4, <1>7 DEF ClearRemembered, StampIsLast
<1>9. ArmsAllowed' /\ ClearsLast'
  BY <1>3, <1>4 DEF ArmsAllowed, MayArm, ClearsLast, HIndInv, MirrorInv
<1> QED
  BY <1>3, <1>8, <1>9 DEF HIndInv, MirrorInv, HistoryTypes, DownIsDeaf

LEMMA NotesMirrored ==
    ASSUME HIndInv, HNext, NEW h \in Handlers, ExecNotes(h)
    PROVE  MirrorInv' /\ UNCHANGED Mirror!mirrorVars
<1> PICK a \in cur[h] : /\ pc[h] = "notes"
                        /\ tasks' = update_task(tasks, a.id, {}, a.notes, {"notes"})
                        /\ cur' = [cur EXCEPT ![h] = {}]
                        /\ todo' = [todo EXCEPT ![h] = @ \ {a}]
                        /\ pc' = [pc EXCEPT ![h] = "exec"]
                        /\ UNCHANGED <<completions, glueVars, clock>>
  BY DEF ExecNotes
<1>1. /\ IndInv /\ todo \in [Handlers -> SUBSET Action] /\ cur \in [Handlers -> SUBSET Action]
      /\ pc \in [Handlers -> {"idle", "waiting"} \cup Holding]
      /\ a.op = "clear"
  BY DEF HIndInv, IndInv, TypeInv, TypeOK, CoroutineTypes, CurInv
<1>2. armedFor' = armedFor
  <2>1. CASE a \in todo[h]
    BY <1>1, <2>1, RanOne
  <2>2. CASE a \notin todo[h]
    <3>1. todo' = todo
      BY <1>1, <2>2
    <3>2. \A p \in Printers : \A ops : Ran(p, ops) = {}
      BY <3>1 DEF Ran
    <3> QED
      BY <3>2 DEF HNext, HIndInv, MirrorInv, HistoryTypes
  <2> QED
    BY <2>1, <2>2
<1>3. UNCHANGED <<MirrorStatus, lastClear>>
  BY <1>1, UpdateStatus, NoClear DEF glueVars
<1>4. \A b \in todo'[h] : b.op # "arm"
  BY <1>1 DEF HIndInv, MirrorInv, ClearsLast
<1>5. MirrorInv'
  BY <1>1, <1>2, <1>3, <1>4, HolderKeepsMirror
     DEF glueVars, Holding, HIndInv, MirrorInv, HistoryTypes, DownIsDeaf
<1> QED
  BY <1>2, <1>3, <1>5 DEF Mirror!mirrorVars, glueVars

-----------------------------------------------------------------------------
\* The refinement.

LEMMA MirrorInvStep == HIndInv /\ [HNext]_<<vars, historyVars>> => HIndInv'
<1> SUFFICES ASSUME HIndInv, [HNext]_<<vars, historyVars>> PROVE HIndInv'
  OBVIOUS
<1>1. CASE UNCHANGED <<vars, historyVars>>
  <2>1. IndInv'
    BY <1>1, IndInvStep DEF HIndInv
  <2>2. MirrorInv'
    BY <1>1, SpawnKeepsMirror
       DEF vars, historyVars, glueVars, HIndInv, MirrorInv, DownIsDeaf
  <2> QED
    BY <2>1, <2>2 DEF HIndInv
<1>2. CASE HNext
  <2>1. IndInv'
    BY <1>2, IndInvStep DEF HIndInv, HNext
  <2>2. MirrorInv'
    <3>1. ASSUME NEW h \in Handlers, HandlerStep(h) \/ Fail(h) PROVE MirrorInv'
      BY <1>2, <3>1, QuietStepKeepsMirror, CreateMirrored, ArmMirrored, UpdateMirrored,
         CompleteMirrored, StampMirrored, NotesMirrored DEF HandlerStep
    <3> QED
      BY <1>2, <3>1, EnvironmentKeepsMirror DEF HNext, Next
  <2> QED
    BY <2>1, <2>2 DEF HIndInv
<1> QED
  BY <1>1, <1>2

LEMMA HInductive == HSpec => []HIndInv
<1>1. HInit => HIndInv
  BY TypeInit, LockedInit, MirrorInit DEF HInit, HIndInv, IndInv, LockedInv
<1> QED
  BY <1>1, MirrorInvStep, PTL DEF HSpec

\* A step that leaves the task list alone changes at most the time and the
\* memory of the clears.
LEMMA QuietMirror ==
    ASSUME HIndInv, HNext, UNCHANGED hkVars,
           \/ clock' = clock
           \/ clock' = clock + 1 /\ phase' = phase
    PROVE  [Mirror!MirrorNext]_(Mirror!mirrorVars)
<1>1. UNCHANGED <<MirrorStatus, armedFor, completions>>
  BY QuietHistory DEF hkVars, MirrorStatus, firmware_tasks
<1>2. CASE phase = "down" /\ phase' # "down"
  BY <1>1, <1>2, QuietHistory DEF Mirror!MirrorNext, Mirror!Forget
<1>3. CASE ~ (phase = "down" /\ phase' # "down") /\ clock' = clock
  BY <1>1, <1>3, QuietHistory DEF Mirror!mirrorVars
<1>4. CASE clock' = clock + 1 /\ phase' = phase
  BY <1>1, <1>4, QuietHistory DEF Mirror!MirrorNext, Mirror!Pass
<1> QED
  BY <1>2, <1>3, <1>4

LEMMA MirrorStep ==
    ASSUME HIndInv, [HNext]_<<vars, historyVars>>
    PROVE  [Mirror!MirrorNext]_(Mirror!mirrorVars)
<1>1. CASE UNCHANGED <<vars, historyVars>>
  BY <1>1 DEF vars, hkVars, historyVars, Mirror!mirrorVars, MirrorStatus, firmware_tasks
<1>2. ASSUME HNext, NEW h \in Handlers, HandlerStep(h) \/ Fail(h)
      PROVE  [Mirror!MirrorNext]_(Mirror!mirrorVars)
  <2>1. CASE \/ Acquire(h) \/ List(h) \/ ListUnavailable(h) \/ Plan(h) \/ Stamp(h)
             \/ DropRest(h) \/ Fail(h) \/ Finish(h)
    <3>1. UNCHANGED <<hkVars, clock>>
      BY <2>1 DEF Acquire, List, ListUnavailable, Plan, Stamp, DropRest, Fail, Finish
    <3> QED
      BY <1>2, <3>1, QuietMirror
  <2> QED
    BY <1>2, <2>1, CreateMirrored, ArmMirrored, UpdateMirrored, CompleteMirrored, NotesMirrored
       DEF HandlerStep, Mirror!MirrorNext
<1>3. ASSUME HNext,
             \/ \E p \in Printers : ChangeReport(p) \/ Register(p) \/ Unregister(p)
             \/ HKUp \/ HKDown \/ Tick \/ Setup \/ Started \/ Unload \/ Restart
      PROVE  [Mirror!MirrorNext]_(Mirror!mirrorVars)
  <2>1. UNCHANGED hkVars /\ (UNCHANGED clock \/ (clock' = clock + 1 /\ UNCHANGED phase))
    BY <1>3 DEF ChangeReport, Register, Unregister, HKUp, HKDown, Tick, Setup, Started,
                Unload, Restart, glueVars
  <2> QED
    BY <1>3, <2>1, QuietMirror
<1> QED
  BY <1>1, <1>2, <1>3 DEF HNext, Next

\* Whatever interleaves, fails or restarts, the glue raises and clears each
\* task alternately, and never raises a cleared one again inside the cooldown
\* for the firmware it was cleared at: wiring.py implements FirmwareMirror, for
\* every fleet, every cooldown and any number of coroutines in flight.
THEOREM GlueIsMirror == HSpec => RefinesMirror
<1>1. HInit => Mirror!MirrorInit
  BY DEF HInit, Init, Mirror!MirrorInit, MirrorStatus, firmware_tasks
<1> QED
  BY <1>1, HInductive, MirrorStep, PTL DEF HSpec, RefinesMirror, Mirror!MirrorSpec

-----------------------------------------------------------------------------
(***************************************************************************)
(* One install, one completion: a printer whose firmware entity names no   *)
(* version never gets more completions than its entity went to off, for    *)
(* every fleet and any number of coroutines, as long as Home Keeper        *)
(* answers before the clock's next tick.                                   *)
(***************************************************************************)

HasEvent(p, state) ==
    \E h \in Handlers : /\ job[h].kind = "event" /\ job[h].device = p
                        /\ job[h].report.state = state

Planned(p, ops) ==
    \E h \in Handlers : \E a \in todo[h] \ cur[h] : a.device = p /\ a.op \in ops

\* Nothing in sight can clear p's task.
NoOff(p) == report[p].state # "off" /\ ~ HasEvent(p, "off") /\ ~ Planned(p, {"clear"})

\* p was cleared less than a cooldown ago.
Cooling(p) == \E c \in lastClear[p] : clock - c.at < Cooldown

\* p's task was cleared so recently that nothing will arm it.
JustCleared(p) == MirrorStatus[p] = "dormant" /\ ~ Planned(p, {"arm"}) /\ Cooling(p)

\* p's task is not armed, and nothing in sight arms it.
Settled(p) ==
    /\ MirrorStatus[p] # "armed"
    /\ ~ Planned(p, {"create", "arm"})
    /\ report[p].state # "on" /\ ~ HasEvent(p, "on") /\ ~ HasEvent(p, "off")

\* Once p has as many completions as changes to off, the next completion needs
\* another one.
Credit(p) ==
    \/ completions[p] < offs[p]
    \/ completions[p] = offs[p] /\ (NoOff(p) \/ JustCleared(p) \/ Settled(p))

JobInv ==
    \A h \in Handlers :
        /\ pc[h] = "idle" => job[h] = NoJob
        /\ job[h].kind = "event" /\ job[h].device \notin VersionReporting
             => job[h].report.latest = NoVersion

CreditInv == \A p \in Printers \ VersionReporting : report[p] \in Reports(p) /\ Credit(p)

CountInv == offs \in [Printers -> Nat] /\ JobInv /\ CreditInv

CIndInv == HIndInv /\ CountInv

-----------------------------------------------------------------------------
\* Reports and jobs of a printer whose entity names no version.

LEMMA VersionlessReports ==
    ASSUME NEW p \in Printers \ VersionReporting, NEW r \in Reports(p)
    PROVE  /\ r.latest = NoVersion /\ r.state \in {"on", "off", "unavailable"}
           /\ r.state = "off" => r = off(NoVersion)
BY DEF Reports, on, off, unavailable

LEMMA SpawnJobs ==
    ASSUME CIndInv, NEW j, Spawn(j),
           j.kind = "event" /\ j.device \notin VersionReporting => j.report.latest = NoVersion
    PROVE  JobInv'
<1> PICK h \in Handlers : /\ pc' = [pc EXCEPT ![h] = "waiting"]
                          /\ job' = [job EXCEPT ![h] = j]
  BY DEF Spawn
<1>1. /\ pc'[h] = "waiting" /\ job'[h] = j
      /\ \A g \in Handlers \ {h} : pc'[g] = pc[g] /\ job'[g] = job[g]
  BY DEF CIndInv, HIndInv, IndInv, TypeInv, TypeOK, CoroutineTypes
<1> QED
  BY <1>1 DEF CIndInv, CountInv, JobInv

LEMMA StartReconcileJobs ==
    ASSUME CIndInv, NEW j \in {Reconcile, SetupReconcile}, StartReconcile(j)
    PROVE  JobInv' /\ \A p, s : HasEvent(p, s)' => HasEvent(p, s)
<1>1. j.kind # "event"
  BY DEF Reconcile, SetupReconcile
<1>2. CASE Spawn(j)
  <2>1. JobInv'
    BY <1>1, <1>2, SpawnJobs
  <2>2. \A h \in Handlers : job'[h] = job[h] \/ job'[h] = j
    BY <1>2 DEF Spawn, CIndInv, HIndInv, IndInv, TypeInv, TypeOK, CoroutineTypes
  <2> QED
    BY <1>1, <2>1, <2>2 DEF HasEvent
<1>3. CASE UNCHANGED handlerVars
  BY <1>3 DEF handlerVars, CIndInv, CountInv, JobInv, HasEvent
<1> QED
  BY <1>2, <1>3 DEF StartReconcile

\* Jobs that stay or end keep their invariant.
LEMMA JobsEnd ==
    ASSUME CIndInv,
           \A h \in Handlers : \/ job'[h] = NoJob
                               \/ job'[h] = job[h] /\ pc'[h] # "idle"
                               \/ job'[h] = job[h] /\ pc'[h] = pc[h]
    PROVE  JobInv' /\ \A p, s : HasEvent(p, s)' => HasEvent(p, s)
<1>1. NoJob.kind # "event"
  BY DEF NoJob
<1> QED
  BY <1>1 DEF CIndInv, CountInv, JobInv, HasEvent

-----------------------------------------------------------------------------
\* What keeps a printer's credit.

LEMMA OffsFrame ==
    ASSUME CIndInv, HNext, NEW p \in Printers,
           report'[p] = report[p] \/ report'[p].state # "off" \/ report[p].state = "off"
    PROVE  offs'[p] = offs[p]
BY DEF HNext, CIndInv, CountInv

\* Nothing new in sight for p, its task and its credit as they were.
LEMMA CreditFrame ==
    ASSUME NEW p, Credit(p), completions'[p] = completions[p], offs'[p] = offs[p],
           report'[p] = report[p], MirrorStatus'[p] = MirrorStatus[p],
           \A s : HasEvent(p, s)' => HasEvent(p, s),
           \A ops : Planned(p, ops)' => Planned(p, ops),
           Cooling(p) => Cooling(p)'
    PROVE  Credit(p)'
BY DEF Credit, NoOff, JustCleared, Settled

\* A task that is not armed has no clear planned.
LEMMA NoClearPlanned ==
    ASSUME IndInv, NEW p \in Printers, MirrorStatus[p] # "armed"
    PROVE  ~ Planned(p, {"clear"})
<1> SUFFICES ASSUME NEW h \in Handlers, NEW a \in todo[h] \ cur[h],
                    a.device = p, a.op = "clear"
             PROVE  FALSE
  BY DEF Planned
<1>1. PICK t \in tasks : t.device = p /\ t.armed
  BY DEF IndInv, PlanStaysValid, StillApplies
<1> QED
  BY <1>1, StatusOf

\* With no coroutine at work, whatever cleared p's task is over.
LEMMA IdleCredit ==
    ASSUME NEW p, Credit(p), completions'[p] = completions[p], offs'[p] = offs[p],
           report'[p] = report[p], MirrorStatus'[p] = MirrorStatus[p],
           \A s : ~ HasEvent(p, s)', \A ops : ~ Planned(p, ops)'
    PROVE  Credit(p)'
BY DEF Credit, NoOff, JustCleared, Settled

\* Plans only shrink: what is planned for p was planned before.
LEMMA PlannedFrame ==
    ASSUME \A h \in Handlers : todo'[h] \ cur'[h] \subseteq todo[h] \ cur[h]
    PROVE  \A p, ops : Planned(p, ops)' => Planned(p, ops)
BY DEF Planned

LEMMA CountFrame ==
    ASSUME CIndInv, HNext
    PROVE  offs' \in [Printers -> Nat]
BY DEF HNext, CIndInv, CountInv

LEMMA StatusFrame ==
    ASSUME UNCHANGED tasks
    PROVE  MirrorStatus' = MirrorStatus
BY DEF MirrorStatus, firmware_tasks

-----------------------------------------------------------------------------
\* Home Assistant's and the lifecycle's steps.

LEMMA ReportKeepsCount ==
    ASSUME CIndInv, HNext, NEW p \in Printers, ChangeReport(p)
    PROVE  CountInv'
<1> PICK r \in Reports(p) \ {report[p]} :
        /\ report' = [report EXCEPT ![p] = r]
        /\ Spawn(Event(p, r)) \/ UNCHANGED handlerVars
        /\ UNCHANGED <<hkVars, glueVars, clock>>
  BY DEF ChangeReport
<1>1. /\ report \in [Printers -> Report] /\ UNCHANGED <<todo, cur, cleared>>
      /\ completions' = completions /\ MirrorStatus' = MirrorStatus
      /\ offs \in [Printers -> Nat] /\ completions \in [Printers -> Nat]
      /\ job \in [Handlers -> Job] /\ pc \in [Handlers -> {"idle", "waiting"} \cup Holding]
  BY StatusFrame
     DEF CIndInv, HIndInv, IndInv, TypeInv, TypeOK, CoroutineTypes, CountInv, Spawn, handlerVars,
         hkVars, glueVars
<1>2. /\ Event(p, r).kind = "event" /\ Event(p, r).device = p /\ Event(p, r).report = r
  BY DEF Event
<1>3. p \notin VersionReporting =>
        r.latest = NoVersion /\ r.state \in {"on", "off", "unavailable"}
  BY VersionlessReports
<1>4. JobInv'
  <2>1. CASE Spawn(Event(p, r))
    BY <1>2, <1>3, <2>1, SpawnJobs
  <2>2. CASE UNCHANGED handlerVars
    BY <2>2, JobsEnd DEF handlerVars
  <2> QED
    BY <2>1, <2>2
<1>5. \A q, s : HasEvent(q, s)' => HasEvent(q, s) \/ (q = p /\ s = r.state)
  <2>1. \A h \in Handlers : job'[h] = job[h] \/ job'[h] = Event(p, r)
    BY <1>1 DEF Spawn, handlerVars
  <2> QED
    BY <1>2, <2>1 DEF HasEvent
<1>6. \A q, ops : Planned(q, ops)' = Planned(q, ops)
  BY <1>1 DEF Planned
<1>7. \A q : Cooling(q) => Cooling(q)'
  BY QuietHistory DEF Cooling, CIndInv, glueVars
<1>8. ASSUME NEW q \in Printers \ VersionReporting, q # p
      PROVE  report'[q] \in Reports(q) /\ Credit(q)'
  <2>1. report'[q] = report[q] /\ offs'[q] = offs[q]
    BY <1>1, <1>8, OffsFrame
  <2>2. Credit(q) /\ report[q] \in Reports(q)
    BY DEF CIndInv, CountInv, CreditInv
  <2>3. Credit(q)'
    BY <1>1, <1>5, <1>6, <1>7, <1>8, <2>1, <2>2, CreditFrame
  <2> QED
    BY <2>1, <2>2, <2>3
<1>9. ASSUME p \notin VersionReporting
      PROVE  report'[p] \in Reports(p) /\ Credit(p)'
  <2>1. report'[p] = r /\ Credit(p)
    BY <1>1, <1>9 DEF CIndInv, CountInv, CreditInv
  <2>2. CASE r.state = "off"
    <3>1. report[p].state # "off"
      <4>1. report[p] \in Reports(p)
        BY <1>9 DEF CIndInv, CountInv, CreditInv
      <4>2. r = off(NoVersion)
        BY <1>9, <2>2, VersionlessReports
      <4> QED BY <1>9, <4>1, <4>2, VersionlessReports
    <3>2. offs'[p] = offs[p] + 1
      BY <1>1, <2>1, <2>2, <3>1 DEF HNext
    <3>3. completions[p] <= offs[p] /\ completions[p] \in Nat /\ offs[p] \in Nat
      BY <1>1, <2>1 DEF Credit
    <3> QED
      BY <1>1, <1>3, <1>9, <2>1, <3>2, <3>3 DEF Credit
  <2>3. CASE r.state # "off"
    <3>1. offs'[p] = offs[p]
      BY <2>1, <2>3, OffsFrame
    <3>2. NoOff(p) => NoOff(p)'
      BY <1>5, <1>6, <2>1, <2>3 DEF NoOff
    <3>3. JustCleared(p) => JustCleared(p)'
      BY <1>1, <1>6, <1>7 DEF JustCleared
    <3>4. Settled(p) => NoOff(p)'
      BY <1>5, <1>6, <2>1, <2>3, NoClearPlanned DEF NoOff, Settled, CIndInv, HIndInv
    <3> QED
      BY <1>1, <1>3, <1>9, <2>1, <3>1, <3>2, <3>3, <3>4 DEF Credit
  <2> QED
    BY <2>2, <2>3
<1> QED
  BY <1>4, <1>8, <1>9, CountFrame DEF CountInv, CreditInv

\* A step of the world without news of any printer, but for the one that left
\* the registry.
LEMMA WorldKeepsCount ==
    ASSUME CIndInv, HNext, UNCHANGED <<hkVars, todo, cur, clock>>, JobInv',
           phase = "down" => phase' = "down",
           \A p, s : HasEvent(p, s)' => HasEvent(p, s),
           \A p \in Printers : report'[p] = report[p] \/ report'[p] = unavailable
    PROVE  CountInv'
<1>1. completions' = completions /\ MirrorStatus' = MirrorStatus
  BY StatusFrame DEF hkVars
<1>2. /\ \A q, ops : Planned(q, ops)' = Planned(q, ops)
      /\ \A q : Cooling(q) => Cooling(q)'
  BY QuietHistory DEF Planned, Cooling, CIndInv
<1>3. unavailable.state = "unavailable" /\ \A p : unavailable \in Reports(p)
  BY DEF unavailable, Reports
<1>4. ASSUME NEW p \in Printers \ VersionReporting
      PROVE  report'[p] \in Reports(p) /\ Credit(p)'
  <2>1. report[p] \in Reports(p) /\ Credit(p)
    BY DEF CIndInv, CountInv, CreditInv
  <2>2. offs'[p] = offs[p]
    BY <1>3, OffsFrame
  <2>3. CASE report'[p] = report[p]
    BY <1>1, <1>2, <2>1, <2>2, <2>3, CreditFrame
  <2>4. CASE report'[p] = unavailable
    <3>1. NoOff(p) => NoOff(p)'
      BY <1>2, <1>3, <2>4 DEF NoOff
    <3>2. JustCleared(p) => JustCleared(p)'
      BY <1>1, <1>2 DEF JustCleared
    <3>3. Settled(p) => Settled(p)'
      BY <1>1, <1>2, <1>3, <2>4 DEF Settled
    <3> QED
      BY <1>1, <1>3, <2>1, <2>2, <2>4, <3>1, <3>2, <3>3 DEF Credit
  <2> QED
    BY <2>3, <2>4
<1> QED
  BY <1>4, CountFrame DEF CountInv, CreditInv

\* Nothing planned, no event in flight: the clock may go on, the glue may
\* forget its clears.
LEMMA IdleKeepsCount ==
    ASSUME CIndInv, HNext, AllIdle, UNCHANGED <<hkVars, todo, cur, report>>, JobInv',
           \A p, s : HasEvent(p, s)' => HasEvent(p, s)
    PROVE  CountInv'
<1>1. completions' = completions /\ MirrorStatus' = MirrorStatus
  BY StatusFrame DEF hkVars
<1>2. \A h \in Handlers : job[h].kind # "event" /\ todo[h] = {} /\ cur[h] = {}
  BY NothingPlanned DEF AllIdle, CIndInv, HIndInv, CountInv, JobInv, NoJob
<1>3. \A p, s : ~ HasEvent(p, s)'
  BY <1>2 DEF HasEvent
<1>4. \A p, ops : ~ Planned(p, ops)'
  BY <1>2 DEF Planned
<1>5. ASSUME NEW p \in Printers \ VersionReporting
      PROVE  report'[p] \in Reports(p) /\ Credit(p)'
  <2>1. report[p] \in Reports(p) /\ Credit(p)
    BY DEF CIndInv, CountInv, CreditInv
  <2>2. offs'[p] = offs[p]
    BY OffsFrame
  <2> QED
    BY <1>1, <1>3, <1>4, <2>1, <2>2, IdleCredit
<1> QED
  BY <1>5, CountFrame DEF CountInv, CreditInv

LEMMA EnvironmentKeepsCount ==
    ASSUME CIndInv, HNext, QuickCalls,
           \/ \E p \in Printers : ChangeReport(p) \/ Register(p) \/ Unregister(p)
           \/ HKUp \/ HKDown \/ Tick \/ Setup \/ Started \/ Unload \/ Restart
    PROVE  CountInv'
<1> USE DEF glueVars, haVars
<1>1. Reconcile \in {Reconcile, SetupReconcile} /\ SetupReconcile \in {Reconcile, SetupReconcile}
  OBVIOUS
<1>2. ASSUME \/ \E j \in {Reconcile, SetupReconcile} : StartReconcile(j)
             \/ UNCHANGED handlerVars
      PROVE  /\ JobInv' /\ UNCHANGED <<todo, cur>>
             /\ \A p, s : HasEvent(p, s)' => HasEvent(p, s)
  <2>1. UNCHANGED handlerVars => JobInv' /\ \A p, s : HasEvent(p, s)' => HasEvent(p, s)
    BY JobsEnd DEF handlerVars
  <2>2. UNCHANGED <<todo, cur>>
    BY <1>2 DEF StartReconcile, Spawn, handlerVars
  <2> QED
    BY <1>2, <2>1, <2>2, StartReconcileJobs
<1>3. ASSUME NEW p \in Printers, Register(p) \/ Unregister(p) PROVE CountInv'
  <2>1. /\ UNCHANGED <<hkVars, clock, phase>>
        /\ StartReconcile(Reconcile) \/ UNCHANGED handlerVars
        /\ \A q \in Printers : report'[q] = report[q] \/ report'[q] = unavailable
    BY <1>3 DEF Register, Unregister, RegistryUpdated, CIndInv, HIndInv, IndInv, TypeInv, TypeOK
  <2> QED
    BY <1>1, <1>2, <2>1, WorldKeepsCount
<1>4. CASE HKUp \/ HKDown \/ Started \/ Unload
  <2>1. /\ UNCHANGED <<hkVars, clock, report>> /\ (phase = "down" => phase' = "down")
        /\ StartReconcile(Reconcile) \/ UNCHANGED handlerVars
    BY <1>4 DEF HKUp, HKDown, Started, Unload
  <2> QED
    BY <1>1, <1>2, <2>1, WorldKeepsCount
<1>5. CASE Tick \/ Setup
  <2>1. /\ AllIdle /\ UNCHANGED <<hkVars, report>>
        /\ StartReconcile(SetupReconcile) \/ UNCHANGED handlerVars
    BY <1>5 DEF Tick, Setup
  <2> QED
    BY <1>1, <1>2, <2>1, IdleKeepsCount
<1>6. CASE Restart
  <2>1. /\ \A p, s : ~ HasEvent(p, s)'
        /\ \A p, ops : ~ Planned(p, ops)'
        /\ JobInv'
    BY <1>6 DEF Restart, HasEvent, Planned, JobInv, NoJob
  <2>2. ASSUME NEW p \in Printers \ VersionReporting
        PROVE  report'[p] \in Reports(p) /\ Credit(p)'
    <3>1. /\ report'[p] = unavailable /\ unavailable.state = "unavailable"
          /\ unavailable \in Reports(p) /\ UNCHANGED completions
      BY <1>6 DEF Restart, unavailable, Reports, hkVars
    <3>2. offs'[p] = offs[p]
      BY <3>1, OffsFrame
    <3>3. NoOff(p)' /\ Credit(p)
      BY <2>1, <3>1 DEF NoOff, CIndInv, CountInv, CreditInv
    <3> QED
      BY <3>1, <3>2, <3>3 DEF Credit
  <2> QED
    BY <2>1, <2>2, CountFrame DEF CountInv, CreditInv
<1> QED
  BY <1>3, <1>4, <1>5, <1>6, ReportKeepsCount

-----------------------------------------------------------------------------
\* The steps of a coroutine.

\* What a plan does to a printer whose entity names no version: it clears for
\* an off, it arms or creates for an on, and it arms only outside the cooldown.
LEMMA PlannedForVersionless ==
    ASSUME CIndInv, NEW h \in Handlers, Plan(h), NEW a \in todo'[h],
           NEW p \in Printers \ VersionReporting, a.device = p
    PROVE  /\ a.op = "clear" => report[p].state = "off" \/ HasEvent(p, "off")
           /\ a.op \in {"create", "arm"} => report[p].state = "on" \/ HasEvent(p, "on")
           /\ a.op = "arm" => ~ Cooling(p)
<1>1. /\ snap[h] \in SUBSET Task /\ job[h] \in Job /\ registered \in SUBSET Printers
      /\ report[p] \in Reports(p)
      /\ job[h].kind = "event" /\ job[h].device = p => job[h].report.latest = NoVersion
  BY DEF CIndInv, HIndInv, IndInv, TypeInv, TypeOK, CoroutineTypes, CountInv, JobInv, CreditInv
<1>2. report[p].latest = NoVersion
  BY <1>1, VersionlessReports
\* One of the planners for one printer gave a.
<1>3. \E r :
        /\ \/ r = report[p]
           \/ job[h].kind = "event" /\ job[h].device = p /\ r = job[h].report
        /\ \/ /\ r.state = "on"
              /\ \/ \E recent : a \in plan_update_available(snap[h], p, r, recent)
                 \/ a \in plan_refresh(snap[h], p, r)
           \/ /\ r.state = "off"
              /\ a.op = "clear"
  <2>1. \/ job[h].kind = "event" /\ a \in plan_event(h)
        \/ a \in plan_all(h)
    BY DEF Plan, CIndInv, HIndInv, IndInv, TypeInv, TypeOK, CoroutineTypes
  <2>2. CASE job[h].kind = "event" /\ a \in plan_event(h)
    <3> DEFINE r == job[h].report
    <3>1. r.state \in {"on", "off", "unavailable"}
      BY <1>1, <2>2 DEF Job, NoJob, Reconcile, SetupReconcile, Report
    <3>2. CASE r.state = "on"
      <4>1. a \in plan_update_available(snap[h], job[h].device, r, recently_cleared(job[h].device))
        BY <2>2, <3>2 DEF plan_event
      <4>2. a.device = job[h].device
        BY <4>1 DEF plan_update_available, CreateTask, ArmTask
      <4> QED
        BY <2>2, <3>2, <4>1, <4>2
    <3>3. CASE r.state = "off"
      <4>1. a \in plan_update_cleared(snap[h], job[h].device, r.installed)
        BY <2>2, <3>3 DEF plan_event
      <4>2. a.device = job[h].device /\ a.op = "clear"
        BY <4>1 DEF plan_update_cleared, ClearTask
      <4> QED
        BY <2>2, <3>3, <4>2
    <3>4. CASE r.state = "unavailable"
      BY <2>2, <3>4 DEF plan_event
    <3> QED
      BY <3>1, <3>2, <3>3, <3>4
  <2>3. CASE a \in plan_all(h)
    <3>1. CASE a \in plan_clears(snap[h], scan_up_to_date)
      <4>1. PICK t \in snap[h] : t.device \in DOMAIN scan_up_to_date /\ a.device = t.device
                                 /\ a.op = "clear"
        BY <3>1 DEF plan_clears, ClearTask
      <4> QED
        BY <4>1 DEF scan_up_to_date
    <3>2. ASSUME NEW d \in DOMAIN scan_available,
                 a \in plan_offer(snap[h], d, scan_available[d],
                                  [q \in Printers |-> recently_cleared(q)][d])
          PROVE  /\ report[p].state = "on"
                 /\ \/ \E recent : a \in plan_update_available(snap[h], p, report[p], recent)
                    \/ a \in plan_refresh(snap[h], p, report[p])
      <4>1. d \in registered /\ report[d].state = "on" /\ scan_available[d] = report[d]
        BY DEF scan_available
      <4>2. a.device = d
        BY <3>2 DEF plan_offer, plan_update_available, plan_refresh, CreateTask, ArmTask, UpdateTask
      <4> QED
        BY <3>2, <4>1, <4>2 DEF plan_offer
    <3> QED
      BY <2>3, <3>1, <3>2 DEF plan_all, plan_reconcile
  <2> QED
    BY <2>1, <2>2, <2>3
<1>4. /\ \A S, r, recent : \A b \in plan_update_available(S, p, r, recent) :
             b.op \in {"create", "arm"} /\ (b.op = "arm" => b.offer = r.latest)
      /\ \A S, r : \A b \in plan_refresh(S, p, r) : b.op = "update"
  BY DEF plan_update_available, plan_refresh, CreateTask, ArmTask, UpdateTask
<1>5. a.op = "arm" => a.offer = NoVersion
  BY <1>1, <1>2, <1>3, <1>4
<1>6. a.op = "arm" => ~ Cooling(p)
  <2>1. ASSUME a.op = "arm" PROVE ~ Cooling(p)
    <3>1. MayArm(p, NoVersion)
      BY <1>5, <2>1, PlannedArms DEF CIndInv
    <3>2. /\ clock \in Nat /\ Cooldown \in Nat
          /\ \A c \in lastClear[p] : c.at \in Nat
      BY ConstantsAssumption
         DEF CIndInv, HIndInv, IndInv, TypeInv, TypeOK, MirrorInv, HistoryTypes, Window
    <3> QED
      BY <3>1, <3>2 DEF MayArm, Cooling
  <2> QED
    BY <2>1
<1> QED
  BY <1>3, <1>4, <1>6 DEF HasEvent

LEMMA PlanKeepsCount ==
    ASSUME CIndInv, HNext, NEW h \in Handlers, Plan(h)
    PROVE  CountInv'
<1>1. /\ UNCHANGED <<hkVars, report, clock, phase, job, cur>> /\ pc[h] = "plan"
      /\ pc' = [pc EXCEPT ![h] = "exec"] /\ todo' = [todo EXCEPT ![h] = todo'[h]]
  BY DEF Plan, haVars, glueVars, CIndInv, HIndInv, IndInv, TypeInv, TypeOK, CoroutineTypes
<1>2. completions' = completions /\ MirrorStatus' = MirrorStatus /\ lastClear' = lastClear
  BY <1>1, StatusFrame, QuietHistory DEF hkVars, CIndInv
<1>3. JobInv' /\ \A p, s : HasEvent(p, s)' = HasEvent(p, s)
  BY <1>1, JobsEnd DEF HasEvent, CIndInv, HIndInv, IndInv, TypeInv, TypeOK, CoroutineTypes
<1>4. IndInv'
  BY IndInvStep DEF CIndInv, HIndInv, HNext
<1>5. \A p, ops : Planned(p, ops)' =>
          Planned(p, ops) \/ \E a \in todo'[h] : a.device = p /\ a.op \in ops
  <2>1. \A g \in Handlers \ {h} : todo'[g] = todo[g]
    BY <1>1 DEF CIndInv, HIndInv, IndInv, TypeInv, TypeOK, CoroutineTypes
  <2> QED
    BY <1>1, <2>1 DEF Planned
<1>6. ASSUME NEW p \in Printers \ VersionReporting
      PROVE  report'[p] \in Reports(p) /\ Credit(p)'
  <2>1. report[p] \in Reports(p) /\ Credit(p) /\ offs'[p] = offs[p] /\ (Cooling(p)' <=> Cooling(p))
    BY <1>1, <1>2, OffsFrame DEF CIndInv, CountInv, CreditInv, Cooling
  <2>2. \A a \in todo'[h] : a.device = p =>
          /\ a.op = "clear" => report[p].state = "off" \/ HasEvent(p, "off")
          /\ a.op \in {"create", "arm"} => report[p].state = "on" \/ HasEvent(p, "on")
          /\ a.op = "arm" => ~ Cooling(p)
    BY PlannedForVersionless
  <2>3. NoOff(p) => NoOff(p)'
    BY <1>1, <1>3, <1>5, <2>2 DEF NoOff
  <2>4. JustCleared(p) => JustCleared(p)'
    BY <1>2, <1>5, <2>1, <2>2 DEF JustCleared
  <2>5. Settled(p) => Settled(p)'
    BY <1>1, <1>2, <1>3, <1>5, <2>2 DEF Settled
  <2> QED
    BY <1>1, <1>2, <2>1, <2>3, <2>4, <2>5 DEF Credit
<1> QED
  BY <1>3, <1>6, CountFrame DEF CountInv, CreditInv

\* A step of a coroutine that neither plans nor raises nor clears.
LEMMA QuietStepKeepsCount ==
    ASSUME CIndInv, HNext, NEW h \in Handlers,
           \/ Acquire(h) \/ List(h) \/ ListUnavailable(h) \/ ExecUpdate(h) \/ Stamp(h)
           \/ ExecNotes(h) \/ DropRest(h) \/ Fail(h) \/ Finish(h)
    PROVE  CountInv'
<1>1. /\ UNCHANGED <<completions, report, clock>>
      /\ phase = "down" => phase' = "down"
  BY DEF Acquire, List, ListUnavailable, ExecUpdate, Stamp, ExecNotes, DropRest, Fail, Finish,
         hkVars, haVars, glueVars
<1>2. MirrorStatus' = MirrorStatus /\ lastClear' = lastClear
  <2>1. CASE ExecUpdate(h) \/ ExecNotes(h)
    BY <2>1, UpdateMirrored, NotesMirrored DEF Mirror!mirrorVars, CIndInv
  <2>2. CASE UNCHANGED hkVars
    BY <1>1, <2>2, StatusFrame, QuietHistory DEF hkVars, CIndInv
  <2> QED
    BY <2>1, <2>2 DEF Acquire, List, ListUnavailable, Stamp, DropRest, Fail, Finish
<1>3. /\ job \in [Handlers -> Job] /\ todo \in [Handlers -> SUBSET Action]
      /\ cur \in [Handlers -> SUBSET Action] /\ pc \in [Handlers -> {"idle", "waiting"} \cup Holding]
      /\ \A a, b \in cur[h] : a = b
  BY DEF CIndInv, HIndInv, IndInv, TypeInv, TypeOK, CoroutineTypes, LockInv
<1>4. /\ \A g \in Handlers : \/ job'[g] = NoJob
                             \/ job'[g] = job[g] /\ pc'[g] # "idle"
                             \/ job'[g] = job[g] /\ pc'[g] = pc[g]
      /\ \A g \in Handlers : todo'[g] \ cur'[g] \subseteq todo[g] \ cur[g]
  <2>1. CASE Release(h)
    BY <1>3, <2>1 DEF Release
  <2>2. CASE Acquire(h) \/ List(h)
    BY <1>3, <2>2 DEF Acquire, List
  <2>3. CASE ExecUpdate(h)
    BY <1>3, <2>3 DEF ExecUpdate, Done
  <2>4. CASE ExecNotes(h)
    BY <1>3, <2>4 DEF ExecNotes
  <2>5. CASE Stamp(h) /\ ~ Release(h)
    BY <1>3, <2>5 DEF Stamp
  <2> QED
    BY <2>1, <2>2, <2>3, <2>4, <2>5 DEF ListUnavailable, DropRest, Fail, Finish
<1>5. JobInv' /\ \A p, s : HasEvent(p, s)' => HasEvent(p, s)
  BY <1>4, JobsEnd
<1>6. \A p, ops : Planned(p, ops)' => Planned(p, ops)
  BY <1>4, PlannedFrame
<1>7. ASSUME NEW p \in Printers \ VersionReporting
      PROVE  report'[p] \in Reports(p) /\ Credit(p)'
  <2>1. /\ report[p] \in Reports(p) /\ Credit(p) /\ offs'[p] = offs[p]
        /\ Cooling(p) => Cooling(p)'
    BY <1>1, <1>2, OffsFrame DEF CIndInv, CountInv, CreditInv, Cooling
  <2> QED
    BY <1>1, <1>2, <1>5, <1>6, <2>1, CreditFrame
<1> QED
  BY <1>5, <1>7, CountFrame DEF CountInv, CreditInv

\* Raising a task: it was not just cleared, and not settled.
LEMMA RaiseKeepsCount ==
    ASSUME CIndInv, HNext, NEW h \in Handlers, ExecCreate(h) \/ ExecArm(h)
    PROVE  CountInv'
<1> PICK a \in todo[h] : /\ a.op \in {"create", "arm"} /\ pc[h] = "exec" /\ Done(h, a)
                         /\ \/ a.op = "create" /\ tasks' = add_task(tasks, nextId, ITEM_FIRMWARE, a)
                            \/ a.op = "arm" /\ tasks' = trigger_task(tasks, a.id)
                         /\ UNCHANGED <<completions, report, clock, phase>>
  BY DEF ExecCreate, ExecArm, Executing, haVars, glueVars
<1>1. /\ IndInv /\ todo \in [Handlers -> SUBSET Action] /\ cur[h] = {}
      /\ lastClear' = lastClear
  BY NoClear DEF CIndInv, HIndInv, IndInv, TypeInv, TypeOK, CoroutineTypes, LockInv
<1>2. a.device \in Printers
  BY <1>1 DEF Action
<1>3. /\ MirrorStatus[a.device] = IF a.op = "create" THEN "none" ELSE "dormant"
      /\ MirrorStatus' = [MirrorStatus EXCEPT ![a.device] = "armed"]
  <2>1. CASE a.op = "create"
    <3>1. ~ \E t \in tasks : t.device = a.device /\ t.item = ITEM_FIRMWARE
      BY <1>1, <2>1 DEF IndInv, PlanStaysValid, StillApplies
    <3> QED
      BY <1>1, <1>2, <2>1, <3>1, CreateStatus
  <2>2. CASE a.op = "arm"
    <3>1. PICK t \in tasks : t.id = a.id /\ t.device = a.device /\ ~ t.armed
      BY <1>1, <2>2 DEF IndInv, PlanStaysValid, StillApplies
    <3> QED
      BY <1>1, <1>2, <2>2, <3>1, TriggerStatus
  <2> QED
    BY <2>1, <2>2
<1>4. JobInv' /\ \A p, s : HasEvent(p, s)' => HasEvent(p, s)
  BY JobsEnd DEF Done
<1>5. \A p, ops : Planned(p, ops)' => Planned(p, ops)
  BY <1>1, PlannedFrame DEF Done
<1>6. Planned(a.device, {a.op}) /\ Planned(a.device, {"create", "arm"})
  BY <1>1 DEF Planned
<1>7. ASSUME NEW p \in Printers \ VersionReporting
      PROVE  report'[p] \in Reports(p) /\ Credit(p)'
  <2>1. /\ report[p] \in Reports(p) /\ Credit(p) /\ offs'[p] = offs[p]
        /\ Cooling(p) => Cooling(p)'
    BY <1>1, OffsFrame DEF CIndInv, CountInv, CreditInv, Cooling
  <2>2. CASE p = a.device
    <3>1. ~ JustCleared(p) /\ ~ Settled(p)
      BY <1>3, <1>6, <2>2 DEF JustCleared, Settled
    <3>2. NoOff(p) => NoOff(p)'
      BY <1>4, <1>5 DEF NoOff
    <3> QED
      BY <2>1, <3>1, <3>2 DEF Credit
  <2>3. CASE p # a.device
    <3>1. MirrorStatus'[p] = MirrorStatus[p]
      BY <1>3, <2>3
    <3> QED
      BY <1>4, <1>5, <2>1, <3>1, CreditFrame
  <2> QED
    BY <2>2, <2>3
<1> QED
  BY <1>4, <1>7, CountFrame DEF CountInv, CreditInv

\* Completing a task uses up the credit, and the cooldown begins.
LEMMA CompleteKeepsCount ==
    ASSUME CIndInv, HNext, Cooldown > 0, NEW h \in Handlers, ExecComplete(h)
    PROVE  CountInv'
<1> PICK a \in todo[h] : /\ a.op = "clear" /\ Executing(h, a)
                         /\ tasks' = complete_task(tasks, a.id)
                         /\ completions' = [completions EXCEPT ![a.device] = @ + 1]
                         /\ cur' = [cur EXCEPT ![h] = {a}]
                         /\ pc' = [pc EXCEPT ![h] = "stamp"]
                         /\ UNCHANGED <<report, clock, phase, todo, job>>
  BY DEF ExecComplete, haVars, glueVars
<1>1. /\ IndInv /\ todo \in [Handlers -> SUBSET Action] /\ cur \in [Handlers -> SUBSET Action]
      /\ pc \in [Handlers -> {"idle", "waiting"} \cup Holding]
      /\ completions \in [Printers -> Nat] /\ clock \in Nat /\ pc[h] = "exec" /\ cur[h] = {}
      /\ Cooldown \in Nat /\ offs \in [Printers -> Nat]
  BY ConstantsAssumption
     DEF CIndInv, HIndInv, IndInv, TypeInv, TypeOK, CoroutineTypes, LockInv, Executing, CountInv
<1>2. a.device \in Printers
  BY <1>1 DEF Action
<1>3. PICK t \in tasks : t.id = a.id /\ t.device = a.device /\ t.armed
  BY <1>1 DEF IndInv, PlanStaysValid, StillApplies
<1>4. /\ MirrorStatus[a.device] = "armed"
      /\ MirrorStatus' = [MirrorStatus EXCEPT ![a.device] = "dormant"]
  BY <1>1, <1>2, <1>3, CompleteStatus
<1>5. /\ \A p \in Printers \ {a.device} : lastClear'[p] = lastClear[p]
      /\ \A p \in Printers : completions'[p] = completions[p] + (IF p = a.device THEN 1 ELSE 0)
  BY <1>1, <1>2 DEF HNext
<1>6. Cooling(a.device)'
  <2>1. a \in UNION {cur'[g] : g \in Handlers}
    BY <1>1
  <2>2. completions'[a.device] # completions[a.device]
    BY <1>1, <1>2, <1>5
  <2>3. [at |-> clock, version |-> a.cleared_version] \in lastClear'[a.device]
    BY <1>2, <2>1, <2>2 DEF HNext
  <2>4. clock - clock < Cooldown
    BY <1>1
  <2> QED
    BY <2>3, <2>4 DEF Cooling
<1>7. JobInv' /\ \A p, s : HasEvent(p, s)' => HasEvent(p, s)
  BY <1>1, JobsEnd
<1>8. \A p, ops : Planned(p, ops)' => Planned(p, ops)
  BY <1>1, PlannedFrame
<1>9. \A p : ~ Planned(p, {"arm"})'
  <2>1. \A b \in todo[h] : b.op = "clear"
    BY DEF Executing, Ready
  <2>2. \A g \in Handlers \ {h} : todo[g] = {}
    BY <1>1, OthersOutside DEF Holding
  <2> QED
    BY <2>1, <2>2 DEF Planned
<1>10. ASSUME NEW p \in Printers \ VersionReporting
       PROVE  report'[p] \in Reports(p) /\ Credit(p)'
  <2>1. report[p] \in Reports(p) /\ Credit(p) /\ offs'[p] = offs[p]
    BY OffsFrame DEF CIndInv, CountInv, CreditInv
  <2>2. CASE p = a.device
    <3>1. Planned(p, {"clear"})
      BY <1>1, <2>2 DEF Planned
    <3>2. ~ NoOff(p) /\ ~ JustCleared(p) /\ ~ Settled(p)
      BY <1>4, <2>2, <3>1 DEF NoOff, JustCleared, Settled
    <3>3. completions[p] < offs[p] /\ completions[p] \in Nat /\ offs[p] \in Nat
      BY <1>1, <2>1, <3>2 DEF Credit
    <3>4. JustCleared(p)'
      BY <1>2, <1>4, <1>6, <1>9, <2>2 DEF JustCleared, MirrorStatus
    <3> QED
      BY <1>5, <2>1, <2>2, <3>3, <3>4 DEF Credit
  <2>3. CASE p # a.device
    <3>1. /\ MirrorStatus'[p] = MirrorStatus[p] /\ completions'[p] = completions[p]
          /\ Cooling(p) => Cooling(p)'
      BY <1>1, <1>4, <1>5, <2>3 DEF Cooling
    <3> QED
      BY <1>7, <1>8, <2>1, <3>1, CreditFrame
  <2> QED
    BY <2>2, <2>3
<1> QED
  BY <1>7, <1>10, CountFrame DEF CountInv, CreditInv

-----------------------------------------------------------------------------
\* The invariant, and what it says of the completions.

LEMMA CountInit == HInit => CountInv
<1>1. unavailable.state = "unavailable" /\ \A p : unavailable \in Reports(p)
  BY DEF unavailable, Reports
<1>2. NoJob.kind # "event"
  BY DEF NoJob
<1> QED
  BY <1>1, <1>2 DEF HInit, Init, CountInv, JobInv, CreditInv, Credit, NoOff, HasEvent, Planned

LEMMA CountStep ==
    ASSUME QuickCalls, Cooldown > 0, CIndInv, [HNext]_<<vars, historyVars>>
    PROVE  CIndInv'
<1>1. HIndInv'
  BY MirrorInvStep DEF CIndInv
<1>2. CASE UNCHANGED <<vars, historyVars>>
  <2>1. UNCHANGED <<tasks, completions, report, clock, pc, job, todo, cur, offs, lastClear>>
    BY <1>2 DEF vars, historyVars, hkVars, haVars, handlerVars
  <2>2. MirrorStatus' = MirrorStatus
    BY <2>1, StatusFrame
  <2>3. \A p : /\ \A s : HasEvent(p, s)' = HasEvent(p, s)
               /\ \A ops : Planned(p, ops)' = Planned(p, ops)
               /\ Cooling(p)' = Cooling(p)
    BY <2>1 DEF HasEvent, Planned, Cooling
  <2>4. \A p : Credit(p) => Credit(p)'
    BY <2>1, <2>2, <2>3, CreditFrame
  <2>5. CountInv'
    BY <2>1, <2>4 DEF CIndInv, CountInv, JobInv, CreditInv
  <2> QED
    BY <1>1, <2>5 DEF CIndInv
<1>3. CASE HNext
  <2>1. ASSUME NEW h \in Handlers, HandlerStep(h) \/ Fail(h) PROVE CountInv'
    BY <1>3, <2>1, PlanKeepsCount, QuietStepKeepsCount, RaiseKeepsCount, CompleteKeepsCount
       DEF HandlerStep
  <2>2. CountInv'
    BY <1>3, <2>1, EnvironmentKeepsCount DEF HNext, Next
  <2> QED
    BY <1>1, <2>2 DEF CIndInv
<1> QED
  BY <1>2, <1>3

\* "One install records one completion" (CHANGELOG), for the printers whose
\* firmware entity is the binary sensor: when Home Keeper answers within a tick
\* and there is a cooldown, no interleaving of events, reconciles, faults and
\* restarts completes such a printer's task more often than it went to off,
\* whatever the rest of the fleet does.
THEOREM CompletionPerVersionlessOff ==
    ASSUME QuickCalls, Cooldown > 0, NEW p \in Printers \ VersionReporting
    PROVE  HSpec => [](completions[p] <= offs[p])
<1>1. HInit => CIndInv
  BY TypeInit, LockedInit, MirrorInit, CountInit DEF HInit, HIndInv, CIndInv, IndInv, LockedInv
<1>2. CIndInv /\ [HNext]_<<vars, historyVars>> => CIndInv'
  BY CountStep
<1>3. CIndInv => completions[p] <= offs[p]
  <2> SUFFICES ASSUME CIndInv PROVE completions[p] <= offs[p]
    OBVIOUS
  <2>1. completions[p] \in Nat /\ offs[p] \in Nat /\ Credit(p)
    BY DEF CIndInv, HIndInv, IndInv, TypeInv, TypeOK, CountInv, CreditInv
  <2> QED
    BY <2>1 DEF Credit
<1> QED
  BY <1>1, <1>2, <1>3, PTL DEF HSpec

\* The same for a fleet without version-reporting printers, as the run checks it.
THEOREM CompletionsPerOff ==
    ASSUME QuickCalls, Cooldown > 0, VersionReporting = {}
    PROVE  HSpec => []CompletionPerOff
<1>1. HInit => CIndInv
  BY TypeInit, LockedInit, MirrorInit, CountInit DEF HInit, HIndInv, CIndInv, IndInv, LockedInv
<1>2. CIndInv /\ [HNext]_<<vars, historyVars>> => CIndInv'
  BY CountStep
<1>3. CIndInv => CompletionPerOff
  <2> SUFFICES ASSUME CIndInv, NEW p \in Printers PROVE completions[p] <= offs[p]
    BY DEF CompletionPerOff
  <2>1. completions[p] \in Nat /\ offs[p] \in Nat /\ Credit(p)
    BY DEF CIndInv, HIndInv, IndInv, TypeInv, TypeOK, CountInv, CreditInv
  <2> QED
    BY <2>1 DEF Credit
<1> QED
  BY <1>1, <1>2, <1>3, PTL DEF HSpec
=============================================================================
