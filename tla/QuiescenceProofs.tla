--------------------------- MODULE QuiescenceProofs ---------------------------
(***************************************************************************)
(* Whenever the glue is quiet its tasks show what the printers report, for *)
(* every fleet, every number of coroutines and without the bounds.  The    *)
(* lock is fair, so of the events about a printer the one handled last is  *)
(* the one fired last, and it carries the report in force.                 *)
(***************************************************************************)
EXTENDS FirmwareGlueHistory, FirmwareGlueProofs

\* The queue of the lock holds each waiting coroutine once.
QueueInv ==
    /\ \A h \in Handlers : pc[h] = "waiting" <=> \E i \in DOMAIN waiters : waiters[i] = h
    /\ \A i, j \in DOMAIN waiters : waiters[i] = waiters[j] => i = j

\* A glue that is set up is subscribed to every firmware entity there is, and one
\* that is not has work to catch up on.
SubscribedInv ==
    /\ tracked = IF phase = "down" THEN {} ELSE registered
    /\ phase = "down" => missed
    /\ \A p \in Printers : p \notin registered => report[p] = unavailable
    /\ reportedAt \in [Printers -> Nat]
    /\ \A p \in Printers : reportedAt[p] <= clock

\* Job j is to handle an event about p.
About(j, p) == j.kind = "event" /\ j.device = p

NoneWaits(p) == \A i \in DOMAIN waiters : ~ About(job[waiters[i]], p)

\* Of the events about p still to be decided on, the last carries p's report.
LastIsCurrent(p) ==
    /\ \A i \in DOMAIN waiters :
          /\ About(job[waiters[i]], p)
          /\ \A j \in DOMAIN waiters : About(job[waiters[j]], p) => j <= i
          => job[waiters[i]].report = report[p]
    /\ NoneWaits(p) =>
          \A h \in Handlers :
              pc[h] \in {"list", "plan"} /\ About(job[h], p) => job[h].report = report[p]

OrderInv ==
    phase # "down" =>
        \A p \in registered : report[p].state # "unavailable" => LastIsCurrent(p)

\* An event about p is still to be decided on.
Pending(p) == \E h \in Handlers : pc[h] \in {"waiting", "list", "plan"} /\ About(job[h], p)

\* The calls still to be made for p raise its task, or it is raised already, or it
\* was cleared so shortly before the report that the report may be a flap.
Raising(p) ==
    /\ \A h \in Handlers : \A a \in todo[h] : a.device = p => a.op # "clear"
    /\ \/ \E h \in Handlers : \E a \in todo[h] : a.device = p /\ a.op \in {"create", "arm"}
       \/ \E t \in firmware_tasks(p) :
             \/ is_armed(t)
             \/ \E c \in cleared[p] :
                   /\ is_stale_rearm(report[p].latest, c.version)
                   /\ reportedAt[p] - c.at < Cooldown

\* The calls still to be made for p clear its task, or it is not raised.
Clearing(p) ==
    /\ \A h \in Handlers : \A a \in todo[h] : a.device = p => a.op \notin {"create", "arm"}
    /\ \A t \in firmware_tasks(p) :
          is_armed(t) => \E h \in Handlers : \E a \in todo[h] \ cur[h] :
                             a.op = "clear" /\ a.id = t.id

Heading(p) ==
    /\ report[p].state = "on" => Raising(p)
    /\ report[p].state = "off" => Clearing(p)

WorkInv == ~ missed => \A p \in registered : Pending(p) \/ Heading(p)

\* A clear is on its plan until it is done with.
CurPlanned == \A h \in Handlers : cur[h] \subseteq todo[h]

QuietInv ==
    /\ IndInv
    /\ QueueInv
    /\ SubscribedInv
    /\ CurPlanned
    /\ OrderInv
    /\ WorkInv

-----------------------------------------------------------------------------
\* The queue.

\* A new coroutine joins the queue at its end.
LEMMA SpawnIs ==
    ASSUME IndInv, QueueInv, NEW j, Spawn(j)
    PROVE  \E h \in Handlers :
              /\ pc[h] = "idle" /\ pc'[h] = "waiting" /\ job'[h] = j
              /\ \A g \in Handlers \ {h} : pc'[g] = pc[g] /\ job'[g] = job[g]
              /\ \A i \in DOMAIN waiters : waiters[i] # h /\ waiters'[i] = waiters[i]
              /\ DOMAIN waiters = 1 .. Len(waiters) /\ Len(waiters) \in Nat
              /\ DOMAIN waiters' = 1 .. Len(waiters) + 1
              /\ waiters'[Len(waiters) + 1] = h
              /\ UNCHANGED <<lock, snap, todo, cur>>
<1> PICK h \in Handlers :
        /\ pc[h] = "idle"
        /\ pc' = [pc EXCEPT ![h] = "waiting"]
        /\ job' = [job EXCEPT ![h] = j]
        /\ waiters' = Append(waiters, h)
        /\ UNCHANGED <<lock, snap, todo, cur>>
  BY DEF Spawn
<1>1. waiters \in Seq(Handlers) /\ pc \in [Handlers -> {"idle", "waiting"} \cup Holding]
      /\ job \in [Handlers -> Job]
  BY DEF IndInv, TypeInv, TypeOK, CoroutineTypes
<1>2. \A i \in DOMAIN waiters : waiters[i] # h
  BY DEF QueueInv
<1>3. /\ Len(waiters) \in Nat /\ DOMAIN waiters = 1 .. Len(waiters)
      /\ DOMAIN waiters' = 1 .. Len(waiters) + 1
      /\ waiters'[Len(waiters) + 1] = h
      /\ \A i \in DOMAIN waiters : waiters'[i] = waiters[i]
  BY <1>1
<1> QED
  BY <1>1, <1>2, <1>3

\* The oldest waiter leaves the queue at its head.
LEMMA AcquireIs ==
    ASSUME IndInv, NEW h \in Handlers, Acquire(h)
    PROVE  /\ pc[h] = "waiting" /\ pc'[h] = "list" /\ waiters[1] = h /\ 1 \in DOMAIN waiters
           /\ \A g \in Handlers \ {h} : pc'[g] = pc[g]
           /\ \A g \in Handlers : pc[g] \notin Holding
           /\ DOMAIN waiters = 1 .. Len(waiters) /\ Len(waiters) \in Nat
           /\ DOMAIN waiters' = 1 .. Len(waiters) - 1
           /\ \A i \in DOMAIN waiters' : waiters'[i] = waiters[i + 1]
<1>1. waiters \in Seq(Handlers) /\ pc \in [Handlers -> {"idle", "waiting"} \cup Holding]
  BY DEF IndInv, TypeInv, TypeOK, CoroutineTypes
<1>2. waiters # <<>> /\ Head(waiters) = h /\ waiters' = Tail(waiters)
      /\ pc[h] = "waiting" /\ pc' = [pc EXCEPT ![h] = "list"] /\ lock = Free
  BY DEF Acquire
<1>3. \A g \in Handlers : pc[g] \notin Holding
  BY <1>2, ConstantsAssumption DEF IndInv, LockInv
<1> QED
  BY <1>1, <1>2, <1>3

\* Where a step of a coroutine past the lock leaves it, and the others where they are.
Onward(h) ==
    /\ pc[h] \in Holding /\ pc'[h] \in Holding \cup {"idle"}
    /\ pc[h] # "list" => pc'[h] # "list"
    /\ pc'[h] \in {"list", "plan"} => pc[h] \in {"list", "plan"}
    /\ pc'[h] # "idle" => job'[h] = job[h]
    /\ \A g \in Handlers \ {h} :
          /\ pc'[g] = pc[g] /\ job'[g] = job[g]
          /\ pc[g] \notin Holding /\ todo[g] = {} /\ cur[g] = {}
          /\ todo'[g] = {} /\ cur'[g] = {}
    /\ UNCHANGED waiters

LEMMA HolderGoesOn ==
    ASSUME IndInv, NEW h \in Handlers, HandlerStep(h) \/ Fail(h), ~ Acquire(h)
    PROVE  Onward(h)
<1>1. pc[h] \in Holding
  BY DEF HandlerStep, List, ListUnavailable, Plan, ExecCreate, ExecArm, ExecUpdate, ExecComplete,
         Stamp, ExecNotes, DropRest, Finish, Fail, Executing, Holding
<1>2. \A g \in Handlers \ {h} : pc[g] \notin Holding /\ todo[g] = {} /\ cur[g] = {}
  BY <1>1, OthersOutside
<1>3. /\ pc \in [Handlers -> {"idle", "waiting"} \cup Holding] /\ job \in [Handlers -> Job]
      /\ todo \in [Handlers -> SUBSET Action] /\ cur \in [Handlers -> SUBSET Action]
  BY DEF IndInv, TypeInv, TypeOK, CoroutineTypes
<1>4. CASE Release(h)
  BY <1>1, <1>2, <1>3, <1>4 DEF Release, Onward, Holding
<1>5. CASE List(h) \/ Plan(h)
  BY <1>1, <1>2, <1>3, <1>5 DEF List, Plan, Onward, Holding
<1>6. CASE ExecCreate(h) \/ ExecArm(h) \/ ExecUpdate(h)
  BY <1>1, <1>2, <1>3, <1>6 DEF ExecCreate, ExecArm, ExecUpdate, Executing, Done, Onward, Holding
<1>7. CASE ExecComplete(h)
  BY <1>1, <1>2, <1>3, <1>7 DEF ExecComplete, Executing, Onward, Holding
<1>8. CASE Stamp(h) /\ ~ Release(h)
  BY <1>1, <1>2, <1>3, <1>8 DEF Stamp, Onward, Holding
<1>9. CASE ExecNotes(h)
  BY <1>1, <1>2, <1>3, <1>9 DEF ExecNotes, Onward, Holding
<1> QED
  BY <1>4, <1>5, <1>6, <1>7, <1>8, <1>9 DEF HandlerStep, ListUnavailable, DropRest, Finish, Fail

LEMMA RestartIdles ==
    ASSUME Restart
    PROVE  /\ waiters' = <<>> /\ phase' = "down" /\ missed' = TRUE
           /\ \A h \in Handlers : pc'[h] = "idle" /\ todo'[h] = {} /\ cur'[h] = {}
BY DEF Restart

\* A step of nobody's: it starts a coroutine at most, or it is a restart.
LEMMA EnvironmentStarts ==
    ASSUME \/ \E p \in Printers : ChangeReport(p) \/ Register(p) \/ Unregister(p)
           \/ HKUp \/ HKDown \/ Tick \/ Setup \/ Started \/ Unload
    PROVE  UNCHANGED hkVars /\ (UNCHANGED handlerVars \/ \E j : Spawn(j))
BY DEF ChangeReport, Register, Unregister, RegistryUpdated, StartReconcile, HKUp, HKDown, Tick,
       Setup, Started, Unload

LEMMA QueueKeeps ==
    ASSUME IndInv, QueueInv, Next
    PROVE  QueueInv'
<1>1. CASE UNCHANGED handlerVars
  BY <1>1 DEF handlerVars, QueueInv
<1>2. ASSUME NEW j, Spawn(j) PROVE QueueInv'
  <2> PICK h \in Handlers :
        /\ pc[h] = "idle" /\ pc'[h] = "waiting"
        /\ \A g \in Handlers \ {h} : pc'[g] = pc[g]
        /\ \A i \in DOMAIN waiters : waiters[i] # h /\ waiters'[i] = waiters[i]
        /\ DOMAIN waiters = 1 .. Len(waiters) /\ Len(waiters) \in Nat
        /\ DOMAIN waiters' = 1 .. Len(waiters) + 1
        /\ waiters'[Len(waiters) + 1] = h
    BY <1>2, SpawnIs
  <2>1. \A i \in DOMAIN waiters' : i \in DOMAIN waiters \/ i = Len(waiters) + 1
    OBVIOUS
  <2>2. DOMAIN waiters \subseteq DOMAIN waiters' /\ Len(waiters) + 1 \in DOMAIN waiters'
    OBVIOUS
  <2>3. \A i, l \in DOMAIN waiters' : waiters'[i] = waiters'[l] => i = l
    BY <2>1 DEF QueueInv
  <2>4. ASSUME NEW g \in Handlers
        PROVE  pc'[g] = "waiting" <=> \E i \in DOMAIN waiters' : waiters'[i] = g
    BY <2>1, <2>2 DEF QueueInv
  <2> QED
    BY <2>3, <2>4 DEF QueueInv
<1>3. ASSUME NEW h \in Handlers, Acquire(h) PROVE QueueInv'
  <2>1. /\ pc[h] = "waiting" /\ pc'[h] = "list" /\ waiters[1] = h /\ 1 \in DOMAIN waiters
        /\ \A g \in Handlers \ {h} : pc'[g] = pc[g]
        /\ DOMAIN waiters = 1 .. Len(waiters) /\ Len(waiters) \in Nat
        /\ DOMAIN waiters' = 1 .. Len(waiters) - 1
        /\ \A i \in DOMAIN waiters' : waiters'[i] = waiters[i + 1]
    BY <1>3, AcquireIs
  <2>2. \A i \in DOMAIN waiters' : i + 1 \in DOMAIN waiters /\ i \in Int /\ i + 1 # 1
    BY <2>1
  <2>3. \A i \in DOMAIN waiters : i # 1 => i - 1 \in DOMAIN waiters' /\ (i - 1) + 1 = i
    BY <2>1
  <2>4. \A i, j \in DOMAIN waiters' : waiters'[i] = waiters'[j] => i = j
    BY <2>1, <2>2 DEF QueueInv
  <2>5. ASSUME NEW g \in Handlers
        PROVE  pc'[g] = "waiting" <=> \E i \in DOMAIN waiters' : waiters'[i] = g
    <3>1. CASE g = h
      BY <2>1, <2>2, <3>1 DEF QueueInv
    <3>2. CASE g # h
      <4>1. ASSUME NEW i \in DOMAIN waiters, waiters[i] = g
            PROVE  \E k \in DOMAIN waiters' : waiters'[k] = g
        <5>1. i # 1
          BY <2>1, <3>2, <4>1
        <5> QED
          BY <2>1, <2>3, <4>1, <5>1
      <4>2. ASSUME NEW k \in DOMAIN waiters', waiters'[k] = g
            PROVE  \E i \in DOMAIN waiters : waiters[i] = g
        BY <2>1, <2>2, <4>2
      <4> QED
        BY <2>1, <3>2, <4>1, <4>2 DEF QueueInv
    <3> QED
      BY <3>1, <3>2
  <2> QED
    BY <2>4, <2>5 DEF QueueInv
<1>4. ASSUME NEW h \in Handlers, HandlerStep(h) \/ Fail(h), ~ Acquire(h) PROVE QueueInv'
  <2>1. Onward(h)
    BY <1>4, HolderGoesOn
  <2> QED
    BY <2>1 DEF Onward, QueueInv, Holding
<1>5. CASE Restart
  BY <1>5, RestartIdles DEF QueueInv
<1>6. ASSUME \/ \E p \in Printers : ChangeReport(p) \/ Register(p) \/ Unregister(p)
             \/ HKUp \/ HKDown \/ Tick \/ Setup \/ Started \/ Unload
      PROVE  QueueInv'
  BY <1>1, <1>2, <1>6, EnvironmentStarts
<1> QED
  BY <1>3, <1>4, <1>5, <1>6 DEF Next, HandlerStep

-----------------------------------------------------------------------------
\* The subscription, and the clears under way.

LEMMA SubscribedKeeps ==
    ASSUME IndInv, SubscribedInv, HNext
    PROVE  SubscribedInv'
<1>1. Next /\ clock \in Nat /\ report \in [Printers -> Report] /\ registered \subseteq Printers
  BY DEF HNext, IndInv, TypeInv, TypeOK
<1>2. clock' \in Nat /\ clock' >= clock
  <2>1. clock' = clock \/ clock' = clock + 1
    BY <1>1 DEF Next, ChangeReport, Register, Unregister, HKUp, HKDown, Tick, Setup, Started, Unload,
       Restart, HandlerStep, Acquire, List, ListUnavailable, Plan, ExecCreate, ExecArm, ExecUpdate,
       ExecComplete, Stamp, ExecNotes, DropRest, Finish, Fail
  <2> QED
    BY <1>1, <2>1
<1>3. reportedAt' \in [Printers -> Nat] /\ \A p \in Printers : reportedAt'[p] <= clock'
  <2>1. reportedAt' = [p \in Printers |->
                         IF report'[p] # report[p] THEN clock ELSE reportedAt[p]]
    BY DEF HNext
  <2> QED
    BY <1>1, <1>2, <2>1 DEF SubscribedInv
<1>4. ASSUME UNCHANGED <<phase, tracked, registered, report>>, phase = "down" => missed'
      PROVE  SubscribedInv'
  BY <1>3, <1>4 DEF SubscribedInv
<1>5. ASSUME NEW h \in Handlers, HandlerStep(h) PROVE SubscribedInv'
  <2>1. UNCHANGED <<phase, tracked, registered, report>>
    BY <1>5 DEF HandlerStep, Acquire, List, ListUnavailable, Plan, ExecCreate, ExecArm, ExecUpdate,
       ExecComplete, Stamp, ExecNotes, DropRest, Finish, haVars, glueVars
  <2>2. missed' = missed \/ missed' = TRUE \/ missed' = (phase = "down")
    BY <1>5 DEF HandlerStep, Acquire, List, ListUnavailable, Plan, ExecCreate, ExecArm, ExecUpdate,
       ExecComplete, Stamp, ExecNotes, DropRest, Finish
  <2>3. phase = "down" => missed'
    BY <2>2 DEF SubscribedInv
  <2> QED
    BY <1>4, <2>1, <2>3
<1>6. ASSUME NEW h \in Handlers, Fail(h) PROVE SubscribedInv'
  BY <1>3, <1>6 DEF Fail, SubscribedInv, haVars
<1>7. ASSUME NEW p \in Printers, ChangeReport(p) PROVE SubscribedInv'
  BY <1>1, <1>3, <1>7 DEF ChangeReport, SubscribedInv, glueVars
<1>8. ASSUME NEW p \in Printers, Register(p) \/ Unregister(p) PROVE SubscribedInv'
  <2>1. /\ phase' = phase
        /\ phase # "down" => tracked' = registered'
        /\ phase = "down" => tracked' = tracked /\ missed' = missed
    BY <1>8 DEF Register, Unregister, RegistryUpdated
  <2>2. \A q \in Printers : q \notin registered' => report'[q] = unavailable
    BY <1>1, <1>8 DEF Register, Unregister, SubscribedInv
  <2> QED
    BY <1>3, <2>1, <2>2 DEF SubscribedInv
<1>9. CASE HKUp \/ HKDown \/ Tick
  BY <1>4, <1>9 DEF HKUp, HKDown, Tick, haVars, glueVars, SubscribedInv
<1>10. CASE Setup
  BY <1>3, <1>10 DEF Setup, SubscribedInv, haVars
<1>11. CASE Started
  BY <1>3, <1>11 DEF Started, SubscribedInv, haVars
<1>12. CASE Unload
  BY <1>3, <1>12 DEF Unload, SubscribedInv, haVars
<1>13. CASE Restart
  BY <1>3, <1>13 DEF Restart, SubscribedInv
<1> QED
  BY <1>1, <1>5, <1>6, <1>7, <1>8, <1>9, <1>10, <1>11, <1>12, <1>13 DEF Next

LEMMA CurKeeps ==
    ASSUME IndInv, CurPlanned, Next
    PROVE  CurPlanned'
<1>1. /\ todo \in [Handlers -> SUBSET Action] /\ cur \in [Handlers -> SUBSET Action]
      /\ \A g \in Handlers : pc[g] \notin {"stamp", "notes"} => cur[g] = {}
      /\ \A g \in Handlers : \A a, b \in cur[g] : a = b
  BY DEF IndInv, LockInv, TypeInv, TypeOK, CoroutineTypes
<1>2. CASE UNCHANGED <<todo, cur>>
  BY <1>2 DEF CurPlanned
<1>3. ASSUME NEW h \in Handlers, HandlerStep(h) \/ Fail(h), ~ Acquire(h) PROVE CurPlanned'
  <2>1. \A g \in Handlers \ {h} : todo'[g] = {} /\ cur'[g] = {}
    BY <1>3, HolderGoesOn DEF Onward
  <2>2. cur'[h] \subseteq todo'[h]
    <3>1. CASE Release(h)
      BY <1>1, <3>1 DEF Release
    <3>2. CASE List(h) \/ Plan(h)
      BY <1>1, <3>2 DEF List, Plan
    <3>3. CASE ExecCreate(h) \/ ExecArm(h) \/ ExecUpdate(h)
      <4>1. cur'[h] = {}
        BY <1>1, <3>3 DEF ExecCreate, ExecArm, ExecUpdate, Executing, Done
      <4> QED
        BY <4>1
    <3>4. CASE ExecComplete(h)
      BY <1>1, <3>4 DEF ExecComplete
    <3>5. CASE Stamp(h) /\ ~ Release(h)
      BY <3>5 DEF Stamp, CurPlanned
    <3>6. CASE ExecNotes(h)
      BY <1>1, <3>6 DEF ExecNotes
    <3> QED
      BY <1>3, <3>1, <3>2, <3>3, <3>4, <3>5, <3>6
         DEF HandlerStep, ListUnavailable, DropRest, Finish, Fail
  <2> QED
    BY <2>1, <2>2 DEF CurPlanned
<1>4. CASE Restart
  BY <1>4, RestartIdles DEF CurPlanned
<1>5. ASSUME NEW h \in Handlers, Acquire(h) PROVE CurPlanned'
  BY <1>2, <1>5 DEF Acquire
<1>6. ASSUME \/ \E p \in Printers : ChangeReport(p) \/ Register(p) \/ Unregister(p)
             \/ HKUp \/ HKDown \/ Tick \/ Setup \/ Started \/ Unload
      PROVE  CurPlanned'
  BY <1>2, <1>6, EnvironmentStarts DEF handlerVars, Spawn
<1> QED
  BY <1>3, <1>4, <1>5, <1>6 DEF Next, HandlerStep

-----------------------------------------------------------------------------
\* The order of the events.

\* A coroutine that has nothing to say of p changes nothing by queuing up.
LEMMA SpawnOfAnother ==
    ASSUME IndInv, QueueInv, NEW j, Spawn(j), NEW p, LastIsCurrent(p), report'[p] = report[p],
           ~ About(j, p)
    PROVE  LastIsCurrent(p)'
<1> PICK h \in Handlers :
        /\ pc[h] = "idle" /\ pc'[h] = "waiting" /\ job'[h] = j
        /\ \A g \in Handlers \ {h} : pc'[g] = pc[g] /\ job'[g] = job[g]
        /\ \A i \in DOMAIN waiters : waiters[i] # h /\ waiters'[i] = waiters[i]
        /\ DOMAIN waiters = 1 .. Len(waiters) /\ Len(waiters) \in Nat
        /\ DOMAIN waiters' = 1 .. Len(waiters) + 1
        /\ waiters'[Len(waiters) + 1] = h
  BY SpawnIs
<1>1. \A i \in DOMAIN waiters : waiters[i] \in Handlers
  BY DEF IndInv, TypeInv, TypeOK, CoroutineTypes
<1>2. /\ \A i \in DOMAIN waiters' : i \in DOMAIN waiters \/ i = Len(waiters) + 1
      /\ \A i \in DOMAIN waiters : i \in DOMAIN waiters'
  OBVIOUS
<1>3. ~ About(job'[h], p)
  BY DEF About
<1>4. \A i \in DOMAIN waiters : /\ About(job'[waiters'[i]], p) <=> About(job[waiters[i]], p)
                                /\ job'[waiters'[i]] = job[waiters[i]]
  BY <1>1 DEF About
<1>5. NoneWaits(p)' => NoneWaits(p)
  BY <1>2, <1>4 DEF NoneWaits
<1>6. \A g \in Handlers : pc'[g] \in {"list", "plan"} =>
          /\ g # h /\ pc[g] \in {"list", "plan"} /\ job'[g] = job[g]
          /\ About(job'[g], p) <=> About(job[g], p)
  BY DEF About
<1>7. ASSUME NEW i \in DOMAIN waiters', About(job'[waiters'[i]], p),
             \A k \in DOMAIN waiters' : About(job'[waiters'[k]], p) => k <= i
      PROVE  job'[waiters'[i]].report = report'[p]
  <2>1. i \in DOMAIN waiters /\ About(job[waiters[i]], p)
    BY <1>2, <1>3, <1>4, <1>7
  <2>2. \A k \in DOMAIN waiters : About(job[waiters[k]], p) => k <= i
    BY <1>2, <1>4, <1>7
  <2> QED
    BY <1>4, <2>1, <2>2 DEF LastIsCurrent
<1> QED
  BY <1>5, <1>6, <1>7 DEF LastIsCurrent

\* The event a change of p's report fires is the last in the queue about p.
LEMMA SpawnOfLast ==
    ASSUME IndInv, QueueInv, NEW j, Spawn(j), NEW p,
           About(j, p), j.report = report'[p]
    PROVE  LastIsCurrent(p)'
<1> PICK h \in Handlers :
        /\ job'[h] = j
        /\ DOMAIN waiters' = 1 .. Len(waiters) + 1 /\ Len(waiters) \in Nat
        /\ waiters'[Len(waiters) + 1] = h
  BY SpawnIs
<1>1. Len(waiters) + 1 \in DOMAIN waiters' /\ About(job'[waiters'[Len(waiters) + 1]], p)
  BY DEF About
<1>2. \A i \in DOMAIN waiters' : i >= Len(waiters) + 1 => waiters'[i] = h
  OBVIOUS
<1> QED
  BY <1>1, <1>2 DEF LastIsCurrent, NoneWaits

\* The head of the queue is the first to be decided on.
LEMMA AcquireOrder ==
    ASSUME IndInv, NEW h \in Handlers, Acquire(h), NEW p, LastIsCurrent(p)
    PROVE  LastIsCurrent(p)'
<1>1. /\ waiters[1] = h /\ 1 \in DOMAIN waiters /\ pc'[h] = "list"
      /\ \A g \in Handlers \ {h} : pc'[g] = pc[g]
      /\ \A g \in Handlers : pc[g] \notin Holding
      /\ DOMAIN waiters = 1 .. Len(waiters) /\ Len(waiters) \in Nat
      /\ DOMAIN waiters' = 1 .. Len(waiters) - 1
      /\ \A i \in DOMAIN waiters' : waiters'[i] = waiters[i + 1]
  BY AcquireIs
<1>2. UNCHANGED <<job, report>>
  BY DEF Acquire, haVars
<1>3. \A i \in DOMAIN waiters' : i + 1 \in DOMAIN waiters /\ i \in Int
  BY <1>1
<1>4. \A i \in DOMAIN waiters : i \in Int /\ (i # 1 => i - 1 \in DOMAIN waiters' /\ (i - 1) + 1 = i)
  BY <1>1
<1>5. \A g : About(job'[g], p) <=> About(job[g], p)
  BY <1>2 DEF About
<1>6. ASSUME NEW i \in DOMAIN waiters', About(job'[waiters'[i]], p),
             \A k \in DOMAIN waiters' : About(job'[waiters'[k]], p) => k <= i
      PROVE  job'[waiters'[i]].report = report'[p]
  <2>1. i + 1 \in DOMAIN waiters /\ i \in Int /\ i >= 1 /\ About(job[waiters[i + 1]], p)
    BY <1>1, <1>3, <1>5, <1>6
  <2>2. ASSUME NEW k \in DOMAIN waiters, About(job[waiters[k]], p) PROVE k <= i + 1
    <3>1. CASE k = 1
      BY <2>1, <3>1
    <3>2. CASE k # 1
      <4>1. k - 1 \in DOMAIN waiters' /\ (k - 1) + 1 = k /\ k \in Int
        BY <1>4, <3>2
      <4>2. waiters'[k - 1] = waiters[k]
        BY <1>1, <4>1
      <4>3. k - 1 <= i
        BY <1>5, <1>6, <2>2, <4>1, <4>2
      <4> QED
        BY <2>1, <4>1, <4>3
    <3> QED
      BY <3>1, <3>2
  <2>3. job[waiters[i + 1]].report = report[p]
    BY <2>1, <2>2 DEF LastIsCurrent
  <2> QED
    BY <1>1, <1>2, <2>3
<1>7. ASSUME NoneWaits(p)', NEW g \in Handlers, pc'[g] \in {"list", "plan"}, About(job'[g], p)
      PROVE  job'[g].report = report'[p]
  <2>1. g = h
    BY <1>1, <1>7 DEF Holding
  <2>2. \A i \in DOMAIN waiters : About(job[waiters[i]], p) => i <= 1
    <3> SUFFICES ASSUME NEW i \in DOMAIN waiters, About(job[waiters[i]], p), i # 1
                 PROVE  FALSE
      BY <1>4
    <3>1. i - 1 \in DOMAIN waiters' /\ waiters'[i - 1] = waiters[i]
      BY <1>1, <1>4
    <3> QED
      BY <1>5, <1>7, <3>1 DEF NoneWaits
  <2> QED
    BY <1>1, <1>2, <1>5, <1>7, <2>1, <2>2 DEF LastIsCurrent
<1> QED
  BY <1>6, <1>7 DEF LastIsCurrent

\* Steps past the lock, and those that start nothing.
LEMMA OnwardOrder ==
    ASSUME IndInv, QueueInv, NEW h \in Handlers, Onward(h), NEW p, LastIsCurrent(p),
           report'[p] = report[p]
    PROVE  LastIsCurrent(p)'
<1>1. \A i \in DOMAIN waiters : waiters[i] \in Handlers \ {h}
  BY DEF IndInv, TypeInv, TypeOK, CoroutineTypes, QueueInv, Onward, Holding
<1>2. \A i \in DOMAIN waiters : job'[waiters'[i]] = job[waiters[i]]
                                /\ (About(job'[waiters'[i]], p) <=> About(job[waiters[i]], p))
  BY <1>1 DEF Onward, About
<1>3. \A g \in Handlers : pc'[g] \in {"list", "plan"} =>
          /\ pc[g] \in {"list", "plan"} /\ job'[g] = job[g]
          /\ About(job'[g], p) <=> About(job[g], p)
  BY DEF Onward, About
<1> QED
  BY <1>2, <1>3 DEF LastIsCurrent, NoneWaits, Onward

LEMMA NobodyOrder ==
    ASSUME IndInv, QueueInv, AllIdle, NEW p
    PROVE  waiters = <<>> /\ LastIsCurrent(p)
<1>1. \A i \in DOMAIN waiters : FALSE
  BY DEF AllIdle, QueueInv, IndInv, TypeInv, TypeOK, CoroutineTypes
<1>2. waiters = <<>>
  <2>1. waiters \in Seq(Handlers)
    BY DEF IndInv, TypeInv, TypeOK, CoroutineTypes
  <2>2. Len(waiters) = 0
    <3>1. Len(waiters) \in Nat /\ DOMAIN waiters = 1 .. Len(waiters)
      BY <2>1
    <3> QED
      BY <1>1, <3>1
  <2> QED
    BY <2>1, <2>2
<1>3. LastIsCurrent(p)
  BY <1>1 DEF LastIsCurrent, AllIdle
<1> QED
  BY <1>2, <1>3

LEMMA NothingStarted ==
    ASSUME UNCHANGED handlerVars, NEW p, LastIsCurrent(p), report'[p] = report[p]
    PROVE  LastIsCurrent(p)'
BY DEF handlerVars, LastIsCurrent, NoneWaits

LEMMA ReconcileOrder ==
    ASSUME IndInv, QueueInv, NEW j \in {Reconcile, SetupReconcile},
           StartReconcile(j) \/ UNCHANGED handlerVars,
           NEW p, LastIsCurrent(p), report'[p] = report[p]
    PROVE  LastIsCurrent(p)'
<1>1. ~ About(j, p)
  BY DEF About, Reconcile, SetupReconcile
<1> QED
  BY <1>1, SpawnOfAnother, NothingStarted DEF StartReconcile

LEMMA OrderKeeps ==
    ASSUME IndInv, QueueInv, SubscribedInv, OrderInv, Next
    PROVE  OrderInv'
<1> SUFFICES ASSUME phase' # "down", NEW p \in registered', report'[p].state # "unavailable"
             PROVE  LastIsCurrent(p)'
  BY DEF OrderInv
<1>1. report \in [Printers -> Report] /\ registered \subseteq Printers
  BY DEF IndInv, TypeInv, TypeOK
<1>2. ASSUME phase # "down", p \in registered, report'[p] = report[p] PROVE LastIsCurrent(p)
  BY <1>2 DEF OrderInv
<1>3. ASSUME NEW h \in Handlers, HandlerStep(h) \/ Fail(h) PROVE LastIsCurrent(p)'
  <2>1. UNCHANGED <<report, registered>> /\ phase # "down"
    BY <1>3 DEF HandlerStep, Acquire, List, ListUnavailable, Plan, ExecCreate, ExecArm, ExecUpdate,
       ExecComplete, Stamp, ExecNotes, DropRest, Finish, Fail, haVars, glueVars
  <2>2. LastIsCurrent(p)
    BY <1>2, <2>1
  <2>3. CASE Acquire(h)
    BY <2>2, <2>3, AcquireOrder
  <2>4. CASE ~ Acquire(h)
    BY <1>3, <2>1, <2>2, <2>4, HolderGoesOn, OnwardOrder
  <2> QED
    BY <2>3, <2>4
<1>4. ASSUME NEW q \in Printers, ChangeReport(q) PROVE LastIsCurrent(p)'
  <2>1. PICK r \in Reports(q) \ {report[q]} :
            /\ report' = [report EXCEPT ![q] = r]
            /\ \/ q \in tracked /\ Spawn(Event(q, r))
               \/ q \notin tracked /\ UNCHANGED handlerVars
    BY <1>4 DEF ChangeReport
  <2>2. q \in registered /\ UNCHANGED <<phase, registered, tracked>>
    BY <1>4 DEF ChangeReport, glueVars
  <2>3. Spawn(Event(q, r))
    BY <2>1, <2>2 DEF SubscribedInv
  <2>4. CASE p = q
    <3>1. About(Event(q, r), p) /\ Event(q, r).report = report'[p]
      BY <1>1, <2>1, <2>4 DEF About, Event
    <3> QED
      BY <2>3, <3>1, SpawnOfLast
  <2>5. CASE p # q
    <3>1. ~ About(Event(q, r), p) /\ report'[p] = report[p]
      BY <1>1, <2>1, <2>5 DEF About, Event
    <3> QED
      BY <1>2, <2>2, <2>3, <3>1, SpawnOfAnother
  <2> QED
    BY <2>4, <2>5
<1>5. ASSUME NEW q \in Printers, Register(q) \/ Unregister(q) PROVE LastIsCurrent(p)'
  <2>1. /\ phase' = phase
        /\ UNCHANGED handlerVars \/ StartReconcile(Reconcile)
    BY <1>5 DEF Register, Unregister, RegistryUpdated
  <2>2. p \in registered /\ report'[p] = report[p]
    <3>1. CASE Register(q)
      <4>1. report[q].state = "unavailable" /\ report' = report
        BY <3>1 DEF Register, SubscribedInv, unavailable
      <4> QED
        BY <3>1, <4>1 DEF Register
    <3>2. CASE Unregister(q)
      BY <1>1, <3>2 DEF Unregister
    <3> QED
      BY <1>5, <3>1, <3>2
  <2> QED
    BY <1>2, <2>1, <2>2, ReconcileOrder
<1>6. CASE HKUp \/ HKDown \/ Tick
  BY <1>2, <1>6, NothingStarted DEF HKUp, HKDown, Tick, haVars, glueVars
<1>7. CASE Setup
  <2>1. AllIdle /\ UNCHANGED report /\ (UNCHANGED handlerVars \/ StartReconcile(SetupReconcile))
    BY <1>7 DEF Setup, haVars
  <2> QED
    BY <2>1, NobodyOrder, ReconcileOrder
<1>8. CASE Started
  BY <1>2, <1>8, ReconcileOrder DEF Started, haVars
<1> QED
  BY <1>3, <1>4, <1>5, <1>6, <1>7, <1>8 DEF Next, Unload, Restart

-----------------------------------------------------------------------------
\* What the planners lead to.

\* A plan made from the tasks S leaves no task of p armed.
Clears(S, plan, p) ==
    /\ \A a \in plan : a.device = p => a.op \notin {"create", "arm"}
    /\ \A t \in S : t.device = p /\ t.item = ITEM_FIRMWARE /\ t.armed =>
          \E a \in plan : a.op = "clear" /\ a.id = t.id

\* The update is held back as a flap of what p was cleared at.
HeldBack(S, p, r) ==
    /\ \E t \in S : t.device = p /\ t.item = ITEM_FIRMWARE
    /\ \E v \in recently_cleared(p) : is_stale_rearm(r.latest, v)

LEMMA AvailableRaises ==
    ASSUME NEW S \in SUBSET Task, OnePerItem(S), NEW p \in Printers, NEW r \in Report
    PROVE  LET plan == plan_update_available(S, p, r, recently_cleared(p))
           IN  /\ \A a \in plan : a.op # "clear"
               /\ \/ \E a \in plan : a.device = p /\ a.op \in {"create", "arm"}
                  \/ \E t \in S : t.device = p /\ t.item = ITEM_FIRMWARE /\ t.armed
                  \/ HeldBack(S, p, r)
<1> DEFINE plan == plan_update_available(S, p, r, recently_cleared(p))
           task == task_for_device(S, p, ITEM_FIRMWARE)
           create == CreateTask(p, format_notes(r.latest, r.installed),
                                build_firmware_chips(r.latest))
<1>1. \A a \in plan : a.op # "clear"
  BY AvailableSound
<1>2. task = {t \in S : t.device = p /\ t.item = ITEM_FIRMWARE}
  BY TaskForDevice
<1>3. CASE task = {}
  <2>1. create \in plan
    BY <1>3 DEF plan_update_available
  <2>2. create.device = p /\ create.op = "create"
    BY DEF CreateTask
  <2> QED
    BY <1>1, <2>1, <2>2
<1>4. ASSUME NEW t \in task, ~ t.armed, ~ \E v \in recently_cleared(p) : is_stale_rearm(r.latest, v)
      PROVE  \E a \in plan : a.device = p /\ a.op \in {"create", "arm"}
  <2>1. ArmTask(t.id, p, r.latest) \in plan
    BY <1>4 DEF plan_update_available, is_armed
  <2>2. ArmTask(t.id, p, r.latest).device = p /\ ArmTask(t.id, p, r.latest).op = "arm"
    BY DEF ArmTask
  <2> QED
    BY <2>1, <2>2
<1> QED
  BY <1>1, <1>2, <1>3, <1>4 DEF HeldBack

LEMMA ClearedClears ==
    ASSUME NEW S \in SUBSET Task, OnePerItem(S), NEW p \in Printers, NEW v
    PROVE  Clears(S, plan_update_cleared(S, p, v), p)
<1> DEFINE plan == plan_update_cleared(S, p, v)
           clear(t) == ClearTask(t.id, p, format_up_to_date_notes(v), v)
<1>1. \A t : clear(t).op = "clear" /\ clear(t).id = t.id
  BY DEF ClearTask
<1>2. plan = {clear(t) : t \in {u \in S : u.device = p /\ u.item = ITEM_FIRMWARE /\ u.armed}}
  BY TaskForDevice DEF plan_update_cleared, is_armed
<1> HIDE DEF plan, clear
<1>3. Clears(S, plan, p)
  BY <1>1, <1>2 DEF Clears
<1> QED
  BY <1>3 DEF plan

\* A plan made from the tasks S leads to what r reports of p.
Heads(S, plan, p, r) ==
    /\ r.state = "on" =>
          /\ \A a \in plan : a.device = p => a.op # "clear"
          /\ \/ \E a \in plan : a.device = p /\ a.op \in {"create", "arm"}
             \/ \E t \in S : t.device = p /\ t.item = ITEM_FIRMWARE /\ t.armed
             \/ HeldBack(S, p, r)
    /\ r.state = "off" => Clears(S, plan, p)

LEMMA EventHeads ==
    ASSUME IndInv, NEW h \in Handlers, NEW p \in Printers, snap[h] = tasks,
           About(job[h], p), job[h].report = report[p]
    PROVE  Heads(tasks, plan_event(h), p, report[p])
<1> DEFINE r == report[p]
<1>1. r \in Report /\ tasks \in SUBSET Task /\ OnePerItem(tasks)
  BY DEF IndInv, TypeInv, TypeOK
<1>2. CASE r.state = "on"
  <2>1. plan_event(h) = plan_update_available(tasks, p, r, recently_cleared(p))
    BY <1>2 DEF plan_event, About
  <2> QED
    BY <1>1, <1>2, <2>1, AvailableRaises DEF Heads
<1>3. CASE r.state = "off"
  <2>1. plan_event(h) = plan_update_cleared(tasks, p, r.installed)
    BY <1>3 DEF plan_event, About
  <2> QED
    BY <1>1, <1>3, <2>1, ClearedClears DEF Heads
<1> QED
  BY <1>2, <1>3 DEF Heads

LEMMA EventOfAnother ==
    ASSUME IndInv, NEW h \in Handlers, NEW p, snap[h] = tasks,
           job[h].kind = "event", ~ About(job[h], p)
    PROVE  \A a \in plan_event(h) : a.device # p
<1> DEFINE q == job[h].device
           r == job[h].report
<1>1. /\ tasks \in SUBSET Task /\ OnePerItem(tasks) /\ q # p
      /\ q \in Printers /\ r \in Report
  BY DEF IndInv, TypeInv, TypeOK, CoroutineTypes, About, Job, NoJob, Reconcile, SetupReconcile
<1>2. \A a \in plan_update_available(tasks, q, r, recently_cleared(q)) : a.device = q
  BY <1>1, AvailableSound
<1>3. \A a \in plan_update_cleared(tasks, q, r.installed) : a.device = q
  BY DEF plan_update_cleared, ClearTask
<1>4. r.state \in {"on", "off", "unavailable"}
  BY <1>1 DEF Report
<1>5. \A a \in plan_event(h) : a.device = q
  BY <1>2, <1>3, <1>4 DEF plan_event
<1> QED
  BY <1>1, <1>5

LEMMA ReconcileHeads ==
    ASSUME IndInv, NEW h \in Handlers, NEW p \in registered, snap[h] = tasks
    PROVE  Heads(tasks, plan_all(h), p, report[p])
<1> DEFINE r == report[p]
           recent == [q \in Printers |-> recently_cleared(q)]
           plan == plan_all(h)
           clears == plan_clears(tasks, scan_up_to_date)
<1>1. /\ report \in [Printers -> Report] /\ registered \subseteq Printers
      /\ tasks \in SUBSET Task /\ OnePerItem(tasks) /\ Ids(tasks, nextId)
  BY DEF IndInv, TypeInv, TypeOK
<1>2. plan = clears \cup UNION {plan_offer(tasks, d, scan_available[d], recent[d]) :
                                   d \in DOMAIN scan_available}
  BY DEF plan_all, plan_reconcile
<1>3. \A d \in DOMAIN scan_available :
        /\ d \in registered /\ d \in Printers /\ report[d].state = "on"
        /\ scan_available[d] = report[d] /\ recent[d] = recently_cleared(d)
  BY <1>1 DEF scan_available
<1>4. \A d \in DOMAIN scan_available :
        \A a \in plan_offer(tasks, d, scan_available[d], recent[d]) :
            a.device = d /\ a.op \in {"create", "arm", "update"}
  <2> SUFFICES ASSUME NEW d \in DOMAIN scan_available,
                      NEW a \in plan_offer(tasks, d, scan_available[d], recent[d])
               PROVE  a.device = d /\ a.op \in {"create", "arm", "update"}
    OBVIOUS
  <2>1. CASE a \in plan_update_available(tasks, d, scan_available[d], recent[d])
    <3>1. d \in Printers /\ scan_available[d] \in Report
      BY <1>1, <1>3
    <3> HIDE DEF recent
    <3> QED
      BY <1>1, <2>1, <3>1, AvailableSound
  <2>2. CASE a \in plan_refresh(tasks, d, scan_available[d])
    BY <2>2 DEF plan_refresh, UpdateTask
  <2> QED
    BY <2>1, <2>2 DEF plan_offer
<1>5. \A a \in clears : a.op = "clear" /\ a.device \in DOMAIN scan_up_to_date
  BY DEF plan_clears, ClearTask
<1>6. \A d \in DOMAIN scan_up_to_date : report[d].state = "off"
  BY DEF scan_up_to_date
<1>7. CASE r.state = "on"
  <2>1. p \in DOMAIN scan_available
    BY <1>7 DEF scan_available
  <2>2. plan_update_available(tasks, p, r, recently_cleared(p)) \subseteq plan
    BY <1>2, <1>3, <2>1 DEF plan_offer
  <2>3. \A a \in plan : a.device = p => a.op # "clear"
    <3> HIDE DEF plan, recent, clears
    <3> QED
      BY <1>2, <1>4, <1>5, <1>6, <1>7
  <2>4. r \in Report /\ p \in Printers
    BY <1>1
  <2>5. \/ \E a \in plan_update_available(tasks, p, r, recently_cleared(p)) :
              a.device = p /\ a.op \in {"create", "arm"}
        \/ \E t \in tasks : t.device = p /\ t.item = ITEM_FIRMWARE /\ t.armed
        \/ HeldBack(tasks, p, r)
    BY <1>1, <2>4, AvailableRaises
  <2> QED
    BY <1>7, <2>2, <2>3, <2>5 DEF Heads
<1>8. CASE r.state = "off"
  <2>1. p \in DOMAIN scan_up_to_date
    BY <1>8 DEF scan_up_to_date
  <2>2. \A a \in plan : a.device = p => a.op \notin {"create", "arm"}
    <3> HIDE DEF plan, recent, clears
    <3> QED
      BY <1>2, <1>3, <1>4, <1>5, <1>8
  <2>3. ASSUME NEW t \in tasks, t.device = p, t.armed
        PROVE  \E a \in clears : a.op = "clear" /\ a.id = t.id
    <3> DEFINE a == ClearTask(t.id, t.device, format_up_to_date_notes(scan_up_to_date[t.device]),
                              scan_up_to_date[t.device])
    <3>1. a \in clears
      BY <2>1, <2>3 DEF plan_clears, is_armed
    <3>2. a.op = "clear" /\ a.id = t.id
      BY DEF ClearTask
    <3> QED
      BY <3>1, <3>2
  <2>4. Clears(tasks, plan, p)
    <3> HIDE DEF plan, recent, clears
    <3> QED
      BY <1>2, <2>2, <2>3 DEF Clears
  <2> QED
    BY <1>8, <2>4 DEF Heads
<1> QED
  BY <1>7, <1>8 DEF Heads

-----------------------------------------------------------------------------
\* The steps lead on.

\* A plan made now, with nothing else planned, leads to the report in force.
LEMMA PlanHeading ==
    ASSUME IndInv, SubscribedInv, NEW h \in Handlers, Plan(h), NEW p \in registered,
           Heads(tasks, todo'[h], p, report[p]), reportedAt'[p] = reportedAt[p]
    PROVE  Heading(p)'
<1>1. /\ UNCHANGED <<tasks, report, cleared>> /\ Onward(h)
      /\ p \in Printers
      /\ cur'[h] = {}
  <2>1. Onward(h)
    BY HolderGoesOn DEF HandlerStep, Plan, Acquire
  <2> QED
    BY <2>1 DEF Plan, hkVars, haVars, glueVars, IndInv, LockInv, TypeInv, TypeOK
<1>2. \A g \in Handlers : \A a \in todo'[g] : g = h
  BY <1>1 DEF Onward
<1>3. ASSUME report[p].state = "on" PROVE Raising(p)'
  <2>1. \A g \in Handlers : \A a \in todo'[g] : a.device = p => a.op # "clear"
    BY <1>2, <1>3 DEF Heads
  <2>2. CASE \E a \in todo'[h] : a.device = p /\ a.op \in {"create", "arm"}
    BY <2>1, <2>2 DEF Raising
  <2>3. CASE \E t \in tasks : t.device = p /\ t.item = ITEM_FIRMWARE /\ t.armed
    BY <1>1, <2>1, <2>3 DEF Raising, firmware_tasks, is_armed
  <2>4. CASE HeldBack(tasks, p, report[p])
    <3>1. PICK t \in tasks : t.device = p /\ t.item = ITEM_FIRMWARE
      BY <2>4 DEF HeldBack
    <3>2. PICK c \in cleared[p] : clock - c.at < Cooldown /\ is_stale_rearm(report[p].latest, c.version)
      BY <2>4 DEF HeldBack, recently_cleared, within_cooldown
    <3>3. reportedAt[p] - c.at < Cooldown
      <4>1. reportedAt[p] \in Nat /\ clock \in Nat /\ c.at \in Nat /\ Cooldown \in Nat
            /\ reportedAt[p] <= clock
        BY <1>1, ConstantsAssumption DEF SubscribedInv, IndInv, TypeInv, TypeOK
      <4> QED
        BY <3>2, <4>1
    <3> QED
      BY <1>1, <2>1, <3>1, <3>2, <3>3 DEF Raising, firmware_tasks
  <2> QED
    BY <1>3, <2>2, <2>3, <2>4 DEF Heads
<1>4. ASSUME report[p].state = "off" PROVE Clearing(p)'
  <2>1. Clears(tasks, todo'[h], p)
    BY <1>4 DEF Heads
  <2> QED
    BY <1>1, <1>2, <2>1 DEF Clears, Clearing, firmware_tasks, is_armed
<1> QED
  BY <1>1, <1>3, <1>4 DEF Heading

\* Nothing that p's heading looks at changes.
LEMMA HeadingFrame ==
    ASSUME UNCHANGED <<tasks, todo, cur, cleared>>, NEW p, Heading(p),
           report'[p] = report[p], reportedAt'[p] = reportedAt[p]
    PROVE  Heading(p)'
BY DEF Heading, Raising, Clearing, firmware_tasks

\* u is t, armed if it is in set and not if it is in reset.
Becomes(t, u, set, reset) ==
    /\ u.id = t.id /\ u.device = t.device /\ u.item = t.item
    /\ u.armed <=> (t.armed \/ t.id \in set) /\ t.id \notin reset

\* T is S with the tasks in set armed and those in reset not, each in its place.
Rewrites(S, T, set, reset) ==
    /\ \A t \in S : \E u \in T : Becomes(t, u, set, reset)
    /\ \A u \in T : \E t \in S : Becomes(t, u, set, reset)

LEMMA TriggerRewrites ==
    ASSUME NEW S \in SUBSET Task, NEW i
    PROVE  Rewrites(S, trigger_task(S, i), {i}, {})
<1> DEFINE new(t) == [t EXCEPT !.armed = @ \/ t.id = i]
<1>1. trigger_task(S, i) = {new(t) : t \in S}
  BY DEF trigger_task
<1>2. \A t \in S : Becomes(t, new(t), {i}, {})
  BY DEF Becomes, Task
<1> HIDE DEF new
<1> QED
  BY <1>1, <1>2 DEF Rewrites

LEMMA CompleteRewrites ==
    ASSUME NEW S \in SUBSET Task, NEW i
    PROVE  Rewrites(S, complete_task(S, i), {}, {i})
<1> DEFINE new(t) == [t EXCEPT !.armed = @ /\ t.id # i]
<1>1. complete_task(S, i) = {new(t) : t \in S}
  BY DEF complete_task
<1>2. \A t \in S : Becomes(t, new(t), {}, {i})
  BY DEF Becomes, Task
<1> HIDE DEF new
<1> QED
  BY <1>1, <1>2 DEF Rewrites

LEMMA UpdateRewrites ==
    ASSUME NEW S \in SUBSET Task, NEW i, NEW chips, NEW notes, NEW fields
    PROVE  Rewrites(S, update_task(S, i, chips, notes, fields), {}, {})
<1> DEFINE new(t) == [t EXCEPT
                        !.chips = IF t.id = i /\ "chips" \in fields THEN chips ELSE @,
                        !.notes = IF t.id = i /\ "notes" \in fields THEN notes ELSE @]
<1>1. update_task(S, i, chips, notes, fields) = {new(t) : t \in S}
  BY DEF update_task
<1>2. \A t \in S : Becomes(t, new(t), {}, {})
  BY DEF Becomes, Task
<1> HIDE DEF new
<1> QED
  BY <1>1, <1>2 DEF Rewrites

\* What b was planned for is done, or still planned.
Carried(h, b, p, set, reset) ==
    /\ b \in todo'[h]
       \/ (b.device = p /\ b.op \in {"create", "arm"} =>
             \E t \in firmware_tasks(p) : t.id \in set /\ t.id \notin reset)
    /\ b \in cur[h] \/ b \in todo'[h] \ cur'[h] \/ b.op # "clear" \/ b.id \in reset

\* Calls that rewrite tasks: what the plan has left still leads to the report, as
\* long as what is armed or cleared out of turn is no task of p's.
LEMMA RewritingLeadsOn ==
    ASSUME IndInv, NEW h \in Handlers, Onward(h), NEW p \in Printers, Heading(p),
           report'[p] = report[p], reportedAt'[p] = reportedAt[p], cleared' = cleared,
           NEW set, NEW reset, Rewrites(tasks, tasks', set, reset),
           todo'[h] \subseteq todo[h],
           report[p].state = "on" => \A t \in firmware_tasks(p) : t.id \notin reset,
           report[p].state = "off" => \A t \in firmware_tasks(p) : t.id \notin set,
           \A b \in todo[h] : Carried(h, b, p, set, reset)
    PROVE  Heading(p)'
<1>1. /\ \A t \in firmware_tasks(p) : \E u \in firmware_tasks(p)' : Becomes(t, u, set, reset)
      /\ \A u \in firmware_tasks(p)' : \E t \in firmware_tasks(p) : Becomes(t, u, set, reset)
  BY DEF firmware_tasks, Rewrites, Becomes
<1>2. /\ \A g \in Handlers : \A b \in todo[g] : g = h
      /\ \A g \in Handlers : \A b \in todo'[g] : g = h
  BY DEF Onward
<1>3. ASSUME report[p].state = "on" PROVE Raising(p)'
  <2>1. Raising(p)
    BY <1>3 DEF Heading
  <2>2. \A g \in Handlers : \A b \in todo'[g] : b.device = p => b.op # "clear"
    BY <1>2, <2>1 DEF Raising
  <2>3. ASSUME NEW t \in firmware_tasks(p), t.armed \/ t.id \in set
        PROVE  \E u \in firmware_tasks(p)' : u.armed
    BY <1>1, <1>3, <2>3 DEF Becomes
  <2>4. CASE \E b \in todo[h] : b.device = p /\ b.op \in {"create", "arm"}
    <3>1. PICK b \in todo[h] : b.device = p /\ b.op \in {"create", "arm"}
      BY <2>4
    <3>2. CASE b \in todo'[h]
      BY <2>2, <3>1, <3>2 DEF Raising
    <3>3. CASE b \notin todo'[h]
      <4>1. \E t \in firmware_tasks(p) : t.id \in set
        BY <3>1, <3>3 DEF Carried
      <4> QED
        BY <2>2, <2>3, <4>1 DEF Raising, is_armed
    <3> QED
      BY <3>2, <3>3
  <2>5. CASE \E t \in firmware_tasks(p) : t.armed
    BY <2>2, <2>3, <2>5 DEF Raising, is_armed
  <2>6. CASE \E t \in firmware_tasks(p) : \E c \in cleared[p] :
                /\ is_stale_rearm(report[p].latest, c.version)
                /\ reportedAt[p] - c.at < Cooldown
    <3>1. PICK t \in firmware_tasks(p) : \E c \in cleared[p] :
                /\ is_stale_rearm(report[p].latest, c.version)
                /\ reportedAt[p] - c.at < Cooldown
      BY <2>6
    <3>2. \E u \in firmware_tasks(p)' : TRUE
      BY <1>1, <3>1
    <3> QED
      BY <2>2, <3>1, <3>2 DEF Raising
  <2>7. \/ \E b \in todo[h] : b.device = p /\ b.op \in {"create", "arm"}
        \/ \E t \in firmware_tasks(p) : t.armed
        \/ \E t \in firmware_tasks(p) : \E c \in cleared[p] :
                /\ is_stale_rearm(report[p].latest, c.version)
                /\ reportedAt[p] - c.at < Cooldown
    BY <1>2, <2>1 DEF Raising, is_armed
  <2> QED
    BY <2>4, <2>5, <2>6, <2>7
<1>4. ASSUME report[p].state = "off" PROVE Clearing(p)'
  <2>1. Clearing(p)
    BY <1>4 DEF Heading
  <2>2. \A g \in Handlers : \A b \in todo'[g] : b.device = p => b.op \notin {"create", "arm"}
    BY <1>2, <2>1 DEF Clearing
  <2>3. ASSUME NEW u \in firmware_tasks(p)', u.armed
        PROVE  \E b \in todo'[h] \ cur'[h] : b.op = "clear" /\ b.id = u.id
    <3>1. PICK t \in firmware_tasks(p) : t.armed /\ t.id \notin reset /\ u.id = t.id
      BY <1>1, <1>4, <2>3 DEF Becomes
    <3>2. PICK b \in todo[h] \ cur[h] : b.op = "clear" /\ b.id = t.id
      BY <1>2, <2>1, <3>1 DEF Clearing, is_armed
    <3> QED
      BY <3>1, <3>2 DEF Carried
  <2> QED
    BY <2>2, <2>3 DEF Clearing, is_armed
<1> QED
  BY <1>3, <1>4 DEF Heading

LEMMA CreateLeadsOn ==
    ASSUME IndInv, NEW h \in Handlers, ExecCreate(h), NEW p \in Printers, Heading(p),
           reportedAt'[p] = reportedAt[p]
    PROVE  Heading(p)'
<1> PICK a \in todo[h] : /\ a.op = "create" /\ pc[h] = "exec" /\ Done(h, a)
                         /\ tasks' = add_task(tasks, nextId, ITEM_FIRMWARE, a)
                         /\ UNCHANGED <<haVars, glueVars>>
  BY DEF ExecCreate, Executing
<1> DEFINE new == [id |-> nextId, device |-> a.device, item |-> ITEM_FIRMWARE,
                   armed |-> TRUE, notes |-> a.notes, chips |-> a.chips]
<1>1. Onward(h)
  BY HolderGoesOn DEF HandlerStep, ExecCreate, Executing, Acquire
<1>2. /\ todo'[h] = todo[h] \ {a} /\ UNCHANGED <<cur, report, cleared>>
      /\ \A g \in Handlers : \A b \in todo[g] : g = h
      /\ \A g \in Handlers : \A b \in todo'[g] : g = h
  BY <1>1 DEF Done, Onward, haVars, glueVars, IndInv, TypeInv, TypeOK, CoroutineTypes
<1>3. /\ new.device = a.device /\ new.item = ITEM_FIRMWARE /\ new.armed
      /\ tasks' = tasks \cup {new}
  BY DEF add_task
<1> HIDE DEF new
<1>4. ASSUME report[p].state = "on" PROVE Raising(p)'
  <2>1. Raising(p)
    BY <1>4 DEF Heading
  <2>2. \A g \in Handlers : \A b \in todo'[g] : b.device = p => b.op # "clear"
    BY <1>2, <2>1 DEF Raising
  <2>3. firmware_tasks(p) \subseteq firmware_tasks(p)'
    BY <1>3 DEF firmware_tasks
  <2>4. CASE a.device = p
    <3>1. new \in firmware_tasks(p)'
      BY <1>3, <2>4 DEF firmware_tasks
    <3> QED
      BY <1>3, <2>2, <3>1 DEF Raising, is_armed
  <2>5. CASE a.device # p
    BY <1>2, <2>1, <2>2, <2>3, <2>5 DEF Raising
  <2> QED
    BY <2>4, <2>5
<1>5. ASSUME report[p].state = "off" PROVE Clearing(p)'
  <2>1. Clearing(p) /\ a.device # p
    BY <1>5 DEF Heading, Clearing
  <2>2. firmware_tasks(p)' = firmware_tasks(p)
    BY <1>3, <2>1 DEF firmware_tasks
  <2> QED
    BY <1>2, <2>1, <2>2 DEF Clearing
<1> QED
  BY <1>2, <1>4, <1>5 DEF Heading

LEMMA ArmLeadsOn ==
    ASSUME IndInv, NEW h \in Handlers, ExecArm(h), NEW p \in Printers, Heading(p),
           reportedAt'[p] = reportedAt[p]
    PROVE  Heading(p)'
<1> PICK a \in todo[h] : /\ a.op = "arm" /\ pc[h] = "exec" /\ Done(h, a)
                         /\ tasks' = trigger_task(tasks, a.id)
                         /\ UNCHANGED <<haVars, glueVars>>
  BY DEF ExecArm, Executing
<1>1. Onward(h)
  BY HolderGoesOn DEF HandlerStep, ExecArm, Executing, Acquire
<1>2. /\ todo'[h] = todo[h] \ {a} /\ UNCHANGED <<cur, report, cleared>> /\ cur[h] = {}
      /\ tasks \in SUBSET Task
  BY DEF Done, haVars, glueVars, IndInv, LockInv, TypeInv, TypeOK, CoroutineTypes
<1>3. PICK t \in tasks : t.id = a.id /\ t.device = a.device
  BY <1>2 DEF IndInv, PlanStaysValid, StillApplies
<1>4. t \in firmware_tasks(a.device)
  BY <1>2, <1>3 DEF firmware_tasks, Task
<1>5. ASSUME report[p].state = "off" PROVE \A u \in firmware_tasks(p) : u.id \notin {a.id}
  <2>1. a.device # p
    BY <1>5 DEF Heading, Clearing
  <2> QED
    BY <1>3, <2>1 DEF firmware_tasks, IndInv, Ids
<1>6. Rewrites(tasks, tasks', {a.id}, {})
  BY <1>2, TriggerRewrites
<1>7. \A b \in todo[h] : Carried(h, b, p, {a.id}, {})
  BY <1>2, <1>3, <1>4 DEF Carried
<1> QED
  BY <1>1, <1>2, <1>5, <1>6, <1>7, RewritingLeadsOn

LEMMA UpdateLeadsOn ==
    ASSUME IndInv, NEW h \in Handlers, ExecUpdate(h), NEW p \in Printers, Heading(p),
           reportedAt'[p] = reportedAt[p]
    PROVE  Heading(p)'
<1> PICK a \in todo[h] : /\ a.op = "update" /\ pc[h] = "exec" /\ Done(h, a)
                         /\ tasks' = update_task(tasks, a.id, a.chips, a.notes, a.fields)
                         /\ UNCHANGED <<haVars, glueVars>>
  BY DEF ExecUpdate, Executing
<1>1. Onward(h)
  BY HolderGoesOn DEF HandlerStep, ExecUpdate, Executing, Acquire
<1>2. /\ todo'[h] = todo[h] \ {a} /\ UNCHANGED <<cur, report, cleared>> /\ cur[h] = {}
      /\ tasks \in SUBSET Task
  BY DEF Done, haVars, glueVars, IndInv, LockInv, TypeInv, TypeOK, CoroutineTypes
<1>3. Rewrites(tasks, tasks', {}, {})
  BY <1>2, UpdateRewrites
<1>4. \A b \in todo[h] : Carried(h, b, p, {}, {})
  BY <1>2 DEF Carried
<1> QED
  BY <1>1, <1>2, <1>3, <1>4, RewritingLeadsOn

LEMMA CompleteLeadsOn ==
    ASSUME IndInv, NEW h \in Handlers, ExecComplete(h), NEW p \in Printers, Heading(p),
           reportedAt'[p] = reportedAt[p]
    PROVE  Heading(p)'
<1> PICK a \in todo[h] : /\ a.op = "clear" /\ pc[h] = "exec"
                         /\ tasks' = complete_task(tasks, a.id)
                         /\ cur' = [cur EXCEPT ![h] = {a}]
                         /\ UNCHANGED <<haVars, glueVars, todo>>
  BY DEF ExecComplete, Executing
<1>1. Onward(h)
  BY HolderGoesOn DEF HandlerStep, ExecComplete, Executing, Acquire
<1>2. todo' = todo /\ UNCHANGED <<report, cleared>> /\ cur'[h] = {a} /\ cur[h] = {}
      /\ tasks \in SUBSET Task
  BY DEF haVars, glueVars, IndInv, LockInv, TypeInv, TypeOK, CoroutineTypes
<1>3. PICK t \in tasks : t.id = a.id /\ t.device = a.device
  BY <1>2 DEF IndInv, PlanStaysValid, StillApplies
<1>4. ASSUME report[p].state = "on" PROVE \A u \in firmware_tasks(p) : u.id \notin {a.id}
  <2>1. a.device # p
    BY <1>4 DEF Heading, Raising
  <2> QED
    BY <1>3, <2>1 DEF firmware_tasks, IndInv, Ids
<1>5. Rewrites(tasks, tasks', {}, {a.id})
  BY <1>2, CompleteRewrites
<1>6. \A b \in todo[h] : Carried(h, b, p, {}, {a.id})
  BY <1>2 DEF Carried
<1> QED
  BY <1>1, <1>2, <1>4, <1>5, <1>6, RewritingLeadsOn

LEMMA StampLeadsOn ==
    ASSUME IndInv, CurPlanned, NEW h \in Handlers, Stamp(h), ~ missed', NEW p \in Printers,
           Heading(p), reportedAt'[p] = reportedAt[p]
    PROVE  Heading(p)'
<1> PICK a \in cur[h] :
        /\ cleared' = [cleared EXCEPT ![a.device] = {[at |-> clock, version |-> a.cleared_version]}]
        /\ UNCHANGED <<todo, cur, hkVars, haVars>>
  BY DEF Stamp
<1>1. a \in todo[h] /\ a.op = "clear" /\ cleared \in [Printers -> SUBSET [at : Nat, version : Versions \cup {NoVersion}]]
  BY DEF CurPlanned, IndInv, TypeInv, TypeOK, CurInv
<1>2. UNCHANGED <<tasks, report>>
  BY DEF hkVars, haVars
<1>3. ASSUME report[p].state = "on" PROVE Raising(p)'
  <2>1. Raising(p) /\ a.device # p
    BY <1>1, <1>3 DEF Heading, Raising
  <2>2. cleared'[p] = cleared[p]
    BY <1>1, <2>1
  <2> QED
    BY <1>2, <2>1, <2>2 DEF Raising, firmware_tasks
<1>4. ASSUME report[p].state = "off" PROVE Clearing(p)'
  BY <1>2, <1>4 DEF Heading, Clearing, firmware_tasks
<1> QED
  BY <1>2, <1>3, <1>4 DEF Heading

LEMMA NotesLeadOn ==
    ASSUME IndInv, CurPlanned, NEW h \in Handlers, ExecNotes(h), NEW p \in Printers, Heading(p),
           reportedAt'[p] = reportedAt[p]
    PROVE  Heading(p)'
<1> PICK a \in cur[h] : /\ pc[h] = "notes"
                        /\ tasks' = update_task(tasks, a.id, {}, a.notes, {"notes"})
                        /\ cur' = [cur EXCEPT ![h] = {}]
                        /\ todo' = [todo EXCEPT ![h] = @ \ {a}]
                        /\ UNCHANGED <<haVars, glueVars>>
  BY DEF ExecNotes
<1>1. Onward(h)
  BY HolderGoesOn DEF HandlerStep, ExecNotes, Acquire
<1>2. /\ todo'[h] = todo[h] \ {a} /\ cur'[h] = {} /\ cur[h] = {a} /\ a.op = "clear"
      /\ UNCHANGED <<report, cleared>> /\ tasks \in SUBSET Task
  BY DEF haVars, glueVars, IndInv, LockInv, TypeInv, TypeOK, CoroutineTypes, CurInv
<1>3. Rewrites(tasks, tasks', {}, {})
  BY <1>2, UpdateRewrites
<1>4. \A b \in todo[h] : Carried(h, b, p, {}, {})
  BY <1>2 DEF Carried
<1> QED
  BY <1>1, <1>2, <1>3, <1>4, RewritingLeadsOn

-----------------------------------------------------------------------------
\* There is always work for what the tasks do not show yet.

\* What p reports is kept, or on its way.
Told(p) == Pending(p) \/ Heading(p)

LEMMA SpawnPends ==
    ASSUME IndInv, QueueInv, NEW j, Spawn(j), NEW p, Pending(p) \/ About(j, p)
    PROVE  Pending(p)'
<1> PICK h \in Handlers :
        /\ pc[h] = "idle" /\ pc'[h] = "waiting" /\ job'[h] = j
        /\ \A g \in Handlers \ {h} : pc'[g] = pc[g] /\ job'[g] = job[g]
  BY SpawnIs
<1> QED
  BY DEF Pending, About

\* A step of nobody's that leaves p's report alone.
LEMMA EnvironmentWork ==
    ASSUME IndInv, QueueInv, NEW p, Told(p), UNCHANGED <<tasks, cleared>>,
           report'[p] = report[p], reportedAt'[p] = reportedAt[p],
           UNCHANGED handlerVars \/ \E j : Spawn(j)
    PROVE  Told(p)'
<1>1. CASE UNCHANGED handlerVars
  <2>1. Pending(p) => Pending(p)'
    BY <1>1 DEF handlerVars, Pending
  <2> QED
    BY <1>1, <2>1, HeadingFrame DEF Told, handlerVars
<1>2. ASSUME NEW j, Spawn(j) PROVE Told(p)'
  <2>1. UNCHANGED <<todo, cur>>
    BY <1>2 DEF Spawn
  <2> QED
    BY <1>2, <2>1, SpawnPends, HeadingFrame DEF Told
<1> QED
  BY <1>1, <1>2

\* Who is past its plan is no pending event.
LEMMA OthersPend ==
    ASSUME NEW h \in Handlers, Onward(h), NEW p, Pending(p), pc[h] \notin {"list", "plan"}
    PROVE  Pending(p)'
<1> PICK g \in Handlers : pc[g] \in {"waiting", "list", "plan"} /\ About(job[g], p)
  BY DEF Pending
<1>1. g # h
  BY DEF Onward, Holding
<1> QED
  BY <1>1 DEF Onward, Pending, About

\* An event in the queue is decided on later.
LEMMA WaiterPends ==
    ASSUME IndInv, QueueInv, NEW h \in Handlers, Onward(h), NEW p, NEW g \in Handlers,
           pc[g] = "waiting", About(job[g], p)
    PROVE  Pending(p)'
BY DEF Onward, Pending, About, Holding

LEMMA PlanWork ==
    ASSUME QuietInv, NEW h \in Handlers, Plan(h), ~ missed, NEW p \in registered, Told(p),
           reportedAt'[p] = reportedAt[p]
    PROVE  Told(p)'
<1> USE DEF QuietInv
<1>1. Onward(h) /\ pc[h] = "plan"
  BY HolderGoesOn DEF HandlerStep, Plan, Acquire
<1>2. snap[h] = tasks /\ todo[h] = {} /\ cur[h] = {} /\ p \in Printers
      /\ todo \in [Handlers -> SUBSET Action] /\ UNCHANGED <<tasks, report, cleared, cur>>
  BY <1>1 DEF IndInv, PlanInv, LockInv, TypeInv, TypeOK, CoroutineTypes, Plan, hkVars, haVars,
              glueVars
<1>3. CASE job[h].kind \in {"reconcile", "setup"}
  <2>1. todo'[h] = plan_all(h)
    BY <1>2, <1>3 DEF Plan
  <2> QED
    BY <1>2, <2>1, ReconcileHeads, PlanHeading DEF Told
<1>4. CASE job[h].kind = "event"
  <2>1. todo'[h] = plan_event(h)
    BY <1>2, <1>4 DEF Plan
  <2>2. CASE About(job[h], p)
    <3>1. ASSUME NEW i \in DOMAIN waiters, About(job[waiters[i]], p) PROVE Pending(p)'
      <4>1. waiters[i] \in Handlers /\ pc[waiters[i]] = "waiting"
        BY DEF QueueInv, IndInv, TypeInv, TypeOK, CoroutineTypes
      <4> QED
        BY <1>1, <3>1, <4>1, WaiterPends
    <3>2. CASE NoneWaits(p)
      <4>1. CASE report[p].state = "unavailable"
        <5>1. Heads(tasks, todo'[h], p, report[p])
          BY <4>1 DEF Heads
        <5> QED
          BY <5>1, PlanHeading DEF Told
      <4>2. CASE report[p].state # "unavailable"
        <5>1. LastIsCurrent(p)
          BY <4>2 DEF OrderInv, SubscribedInv
        <5>2. job[h].report = report[p]
          BY <1>1, <2>2, <3>2, <5>1 DEF LastIsCurrent
        <5> QED
          BY <1>2, <2>1, <2>2, <5>2, EventHeads, PlanHeading DEF Told
      <4> QED
        BY <4>1, <4>2
    <3> QED
      BY <3>1, <3>2 DEF NoneWaits, Told
  <2>3. CASE ~ About(job[h], p)
    <3>1. \A a \in todo'[h] : a.device # p
      BY <1>2, <1>4, <2>1, <2>3, EventOfAnother
    <3>2. CASE Pending(p)
      <4>1. PICK g \in Handlers : pc[g] \in {"waiting", "list", "plan"} /\ About(job[g], p)
        BY <3>2 DEF Pending
      <4>2. g # h /\ pc[g] = "waiting"
        BY <1>1, <2>3, <4>1 DEF Onward, Holding
      <4> QED
        BY <1>1, <4>1, <4>2, WaiterPends DEF Told
    <3>3. CASE Heading(p)
      <4>1. /\ \A g \in Handlers : todo[g] = {} /\ cur[g] = {}
            /\ \A g \in Handlers : \A a \in todo'[g] : g = h
        BY <1>1, <1>2 DEF Onward
      <4>2. report[p].state = "on" => Raising(p)'
        BY <1>2, <3>1, <3>3, <4>1 DEF Heading, Raising, firmware_tasks
      <4>3. report[p].state = "off" => Clearing(p)'
        BY <1>2, <3>1, <3>3, <4>1 DEF Heading, Clearing, firmware_tasks
      <4> QED
        BY <1>2, <4>2, <4>3 DEF Told, Heading
    <3> QED
      BY <3>2, <3>3 DEF Told
  <2> QED
    BY <2>2, <2>3
<1> QED
  BY <1>3, <1>4 DEF Plan

LEMMA HandlerWork ==
    ASSUME QuietInv, NEW h \in Handlers, HandlerStep(h) \/ Fail(h), ~ missed', NEW p \in registered,
           ~ missed => Told(p), report'[p] = report[p], reportedAt'[p] = reportedAt[p]
    PROVE  Told(p)'
<1> USE DEF QuietInv
<1>1. p \in Printers /\ todo \in [Handlers -> SUBSET Action] /\ cur \in [Handlers -> SUBSET Action]
  BY DEF IndInv, TypeInv, TypeOK, CoroutineTypes
<1>2. CASE Acquire(h)
  <2>1. /\ pc'[h] = "list" /\ pc[h] = "waiting" /\ \A g \in Handlers \ {h} : pc'[g] = pc[g]
    BY <1>2, AcquireIs
  <2>2. UNCHANGED <<tasks, todo, cur, cleared, job, missed>>
    BY <1>2 DEF Acquire, hkVars, glueVars
  <2>3. Pending(p) => Pending(p)'
    BY <2>1, <2>2 DEF Pending, About
  <2> QED
    BY <2>2, <2>3, HeadingFrame DEF Told
<1>3. CASE List(h)
  <2>1. /\ pc'[h] = "plan" /\ \A g \in Handlers \ {h} : pc'[g] = pc[g]
        /\ UNCHANGED <<tasks, todo, cur, cleared, job, missed>>
    BY <1>3 DEF List, hkVars, glueVars, IndInv, TypeInv, TypeOK, CoroutineTypes
  <2>2. Pending(p) => Pending(p)'
    BY <2>1 DEF Pending, About
  <2> QED
    BY <2>1, <2>2, HeadingFrame DEF Told
<1>4. CASE Plan(h)
  <2>1. CASE missed
    <3>1. job[h].kind \in {"reconcile", "setup"} /\ todo'[h] = plan_all(h) /\ snap[h] = tasks
      BY <1>1, <1>4, <2>1 DEF Plan, IndInv, PlanInv
    <3> QED
      BY <1>4, <3>1, ReconcileHeads, PlanHeading DEF Told
  <2> QED
    BY <1>4, <2>1, PlanWork
<1>5. ASSUME ExecCreate(h) \/ ExecArm(h) \/ ExecUpdate(h) \/ ExecComplete(h) \/ ExecNotes(h)
      PROVE  Told(p)'
  <2>1. Onward(h) /\ pc[h] \notin {"list", "plan"} /\ missed' = missed
    BY <1>5, HolderGoesOn DEF HandlerStep, ExecCreate, ExecArm, ExecUpdate, ExecComplete, ExecNotes,
       Executing, Acquire
  <2>2. CASE Pending(p)
    BY <2>1, <2>2, OthersPend DEF Told
  <2>3. CASE Heading(p)
    BY <1>1, <1>5, <2>3, CreateLeadsOn, ArmLeadsOn, UpdateLeadsOn, CompleteLeadsOn, NotesLeadOn DEF Told
  <2> QED
    BY <2>1, <2>2, <2>3 DEF Told
<1>6. CASE Stamp(h)
  <2>1. Onward(h) /\ pc[h] \notin {"list", "plan"} /\ missed' = missed
    BY <1>6, HolderGoesOn DEF HandlerStep, Stamp, Acquire
  <2>2. CASE Pending(p)
    BY <2>1, <2>2, OthersPend DEF Told
  <2>3. CASE Heading(p)
    BY <1>1, <1>6, <2>3, StampLeadsOn DEF Told
  <2> QED
    BY <2>1, <2>2, <2>3 DEF Told
<1>7. CASE Finish(h)
  <2>1. Onward(h) /\ pc[h] \notin {"list", "plan"} /\ missed' = missed
    BY <1>7, HolderGoesOn DEF HandlerStep, Finish, Acquire
  <2>2. todo[h] = {} /\ cur[h] = {}
    BY <1>7 DEF Finish, CurPlanned
  <2>3. UNCHANGED <<tasks, todo, cur, cleared>>
    BY <1>1, <1>7, <2>2 DEF Finish, Release, hkVars, glueVars
  <2>4. CASE Pending(p)
    BY <2>1, <2>4, OthersPend DEF Told
  <2>5. CASE Heading(p)
    BY <2>3, <2>5, HeadingFrame DEF Told
  <2> QED
    BY <2>1, <2>4, <2>5 DEF Told
<1> QED
  BY <1>2, <1>3, <1>4, <1>5, <1>6, <1>7 DEF HandlerStep, ListUnavailable, DropRest, Fail

LEMMA WorkKeeps ==
    ASSUME QuietInv, HNext
    PROVE  WorkInv'
<1> USE DEF QuietInv
<1> SUFFICES ASSUME ~ missed', NEW p \in registered' PROVE Told(p)'
  BY DEF WorkInv, Told
<1>1. Next /\ report \in [Printers -> Report] /\ registered \subseteq Printers
      /\ missed \in BOOLEAN
  BY DEF HNext, IndInv, TypeInv, TypeOK
<1>2. p \in Printers /\ report'[p] = report[p] => reportedAt'[p] = reportedAt[p]
  <2>1. reportedAt' = [q \in Printers |->
                         IF report'[q] # report[q] THEN clock ELSE reportedAt[q]]
    BY DEF HNext
  <2> QED
    BY <2>1
<1>3. ~ missed /\ p \in registered => Told(p)
  BY DEF WorkInv, Told
<1>4. ASSUME NEW h \in Handlers, HandlerStep(h) \/ Fail(h) PROVE Told(p)'
  <2>1. UNCHANGED <<report, registered>>
    BY <1>4 DEF HandlerStep, Acquire, List, ListUnavailable, Plan, ExecCreate, ExecArm, ExecUpdate,
       ExecComplete, Stamp, ExecNotes, DropRest, Finish, Fail, haVars
  <2> QED
    BY <1>1, <1>2, <1>3, <1>4, <2>1, HandlerWork
<1>5. ASSUME NEW q \in Printers, ChangeReport(q) PROVE Told(p)'
  <2>1. PICK r \in Reports(q) \ {report[q]} :
            /\ report' = [report EXCEPT ![q] = r]
            /\ \/ q \in tracked /\ Spawn(Event(q, r))
               \/ q \notin tracked /\ UNCHANGED handlerVars
    BY <1>5 DEF ChangeReport
  <2>2. q \in registered /\ UNCHANGED <<phase, registered, tracked, missed, tasks, cleared>>
    BY <1>5 DEF ChangeReport, glueVars, hkVars
  <2>3. Spawn(Event(q, r))
    BY <2>1, <2>2 DEF SubscribedInv
  <2>4. CASE p = q
    <3>1. About(Event(q, r), p)
      BY <2>4 DEF About, Event
    <3> QED
      BY <2>3, <3>1, SpawnPends DEF Told
  <2>5. CASE p # q
    <3>1. report'[p] = report[p]
      BY <1>1, <2>1, <2>2, <2>5
    <3> QED
      BY <1>1, <1>2, <1>3, <2>2, <2>3, <3>1, EnvironmentWork
  <2> QED
    BY <2>4, <2>5
<1>6. ASSUME NEW q \in Printers, Register(q) \/ Unregister(q) PROVE Told(p)'
  <2>1. (UNCHANGED handlerVars /\ missed' = missed) \/ StartReconcile(Reconcile)
    BY <1>6 DEF Register, Unregister, RegistryUpdated
  <2>2. (UNCHANGED handlerVars \/ \E j : Spawn(j)) /\ ~ missed
    BY <2>1 DEF StartReconcile
  <2>3. UNCHANGED <<tasks, cleared>>
    BY <1>6 DEF Register, Unregister, hkVars
  <2>4. CASE Register(q) /\ p = q
    <3>1. report'[p].state = "unavailable"
      BY <2>4 DEF Register, SubscribedInv, unavailable
    <3> QED
      BY <3>1 DEF Told, Heading
  <2>5. CASE ~ (Register(q) /\ p = q)
    <3>1. p \in registered /\ report'[p] = report[p]
      BY <1>1, <1>6, <2>5 DEF Register, Unregister
    <3> QED
      BY <1>1, <1>2, <1>3, <2>2, <2>3, <3>1, EnvironmentWork
  <2> QED
    BY <2>4, <2>5
<1>7. CASE HKUp \/ HKDown \/ Tick \/ Started
  <2>1. /\ (UNCHANGED handlerVars /\ missed' = missed) \/ StartReconcile(Reconcile)
        /\ UNCHANGED <<tasks, cleared, report, registered>>
    BY <1>7 DEF HKUp, HKDown, Tick, Started, hkVars, haVars, glueVars
  <2>2. (UNCHANGED handlerVars \/ \E j : Spawn(j)) /\ ~ missed
    BY <2>1 DEF StartReconcile
  <2> QED
    BY <1>1, <1>2, <1>3, <2>1, <2>2, EnvironmentWork
<1>8. ~ (Setup \/ Unload \/ Restart)
  BY DEF Setup, StartReconcile, Unload, Restart, SubscribedInv
<1> QED
  BY <1>1, <1>4, <1>5, <1>6, <1>7, <1>8 DEF Next

-----------------------------------------------------------------------------
\* Quiet means settled.

LEMMA QuietInit == HInit => QuietInv
<1> SUFFICES ASSUME HInit PROVE QuietInv
  OBVIOUS
<1>1. IndInv
  BY TypeInit, LockedInit DEF HInit, IndInv, LockedInv
<1>2. QueueInv
  BY DEF HInit, Init, QueueInv
<1>3. SubscribedInv
  BY DEF HInit, Init, SubscribedInv
<1>4. CurPlanned /\ OrderInv /\ WorkInv
  BY DEF HInit, Init, CurPlanned, OrderInv, WorkInv
<1> QED
  BY <1>1, <1>2, <1>3, <1>4 DEF QuietInv

LEMMA QuietStutter ==
    ASSUME QuietInv, UNCHANGED <<vars, historyVars>>
    PROVE  QuietInv'
<1> USE DEF vars, historyVars, hkVars, haVars, glueVars, handlerVars
<1>1. IndInv'
  BY IndInvStep DEF QuietInv
<1>2. QueueInv' /\ SubscribedInv' /\ CurPlanned'
  BY DEF QuietInv, QueueInv, SubscribedInv, CurPlanned
<1>3. OrderInv'
  BY DEF QuietInv, OrderInv, LastIsCurrent, NoneWaits
<1>4. WorkInv'
  BY DEF QuietInv, WorkInv, Pending, Heading, Raising, Clearing, firmware_tasks
<1> QED
  BY <1>1, <1>2, <1>3, <1>4 DEF QuietInv

LEMMA QuietStep == QuietInv /\ [HNext]_<<vars, historyVars>> => QuietInv'
<1> SUFFICES ASSUME QuietInv, HNext PROVE QuietInv'
  BY QuietStutter
<1>1. Next
  BY DEF HNext
<1>2. IndInv'
  BY <1>1, IndInvStep DEF QuietInv
<1>3. QueueInv' /\ SubscribedInv' /\ CurPlanned' /\ OrderInv'
  BY <1>1, QueueKeeps, SubscribedKeeps, CurKeeps, OrderKeeps DEF QuietInv
<1>4. WorkInv'
  BY WorkKeeps
<1> QED
  BY <1>2, <1>3, <1>4 DEF QuietInv

LEMMA QuietIsMirror == QuietInv => QuiescentMirror
<1> SUFFICES ASSUME QuietInv, AllIdle, ~ missed, NEW p \in registered
             PROVE  /\ report[p].state = "on" =>
                         \E t \in firmware_tasks(p) :
                            \/ is_armed(t)
                            \/ \E c \in cleared[p] :
                                  /\ is_stale_rearm(report[p].latest, c.version)
                                  /\ reportedAt[p] - c.at < Cooldown
                    /\ report[p].state = "off" => \A t \in firmware_tasks(p) : ~ is_armed(t)
  BY DEF QuiescentMirror
<1>1. \A h \in Handlers : todo[h] = {}
  BY DEF QuietInv, IndInv, LockInv, AllIdle
<1>2. Heading(p)
  BY DEF QuietInv, WorkInv, Pending, AllIdle
<1> QED
  BY <1>1, <1>2 DEF Heading, Raising, Clearing

\* Once nothing runs and nothing was dropped, Home Keeper shows what every
\* printer reports, whatever interleaved, failed or restarted before: an event
\* handled late, or a reconcile that overtook it, never has the last word.
THEOREM QuietGlueMirrors == HSpec => []QuiescentMirror
<1> QED
  BY QuietInit, QuietStep, QuietIsMirror, PTL DEF HSpec
=============================================================================
