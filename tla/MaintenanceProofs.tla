--------------------------- MODULE MaintenanceProofs ---------------------------
(***************************************************************************)
(* Maintenance and EntryRemoval for every set of printers, items, options  *)
(* and coroutines, without the bounds on changes and faults: every         *)
(* schedule is one Home Keeper can keep, a removal leaves only what it     *)
(* could not delete, and the tasks converge to the catalog.                *)
(***************************************************************************)
EXTENDS EntryRemoval, CatalogProofs, WellFoundedInduction

-----------------------------------------------------------------------------
\* Types: what plan_catalog makes of well-typed options and tasks.

LEMMA ResolveTypes ==
    ASSUME TypeOK, NEW key \in Items, NEW family \in FAMILIES, NEW p \in Printers
    PROVE  LET r == resolve(key, family, p, options)
           IN  /\ r.key = key
               /\ r.interval \in Nat \ {0}
               /\ r.unit \in {"weeks", "months"}
               /\ r.hours = {} \/ \E n \in Nat \ {0} : r.hours = {n}
               /\ r.notes \in Notes
<1>1. key \in BY_KEY /\ override_interval(key, p, options) \in Int
  BY MaintenanceAssumption DEF TypeOK
<1>2. BASELINES[key][family].unit \in {"weeks", "months"}
  BY <1>1, CatalogFigures
<1>3. BASELINES[key][family].wording \in SUBSET FAMILIES
  BY <1>1 DEF BASELINES, baseline
<1> DEFINE r == resolve(key, family, p, options)
           base == BASELINES[key][family]
<1>4. r.key = key /\ r.unit = base.unit /\ r.notes = [item |-> key, wording |-> base.wording]
  BY DEF resolve
<1>5. /\ r.interval \in Nat \ {0}
      /\ r.hours = {} \/ \E n \in Nat \ {0} : r.hours = {n}
  BY <1>1, ScheduleIsPositive
<1> HIDE DEF r, base
<1>6. r.notes \in Notes
  BY <1>3, <1>4 DEF Notes, base
<1> QED
  BY <1>2, <1>4, <1>5, <1>6 DEF r, base

LEMMA PayloadTypes ==
    ASSUME TypeOK, NEW key \in Items, NEW family \in FAMILIES, NEW p \in Printers, NEW u
    PROVE  build_catalog_task_payload(resolve(key, family, p, options), p, u)
             \in {a \in Create : Keepable(a)}
<1> DEFINE r == resolve(key, family, p, options)
<1>1. /\ r.key = key /\ r.notes \in Notes
      /\ r.interval \in Nat \ {0} /\ r.unit \in {"weeks", "months"}
      /\ r.hours = {} \/ \E n \in Nat \ {0} : r.hours = {n}
  BY ResolveTypes
<1> HIDE DEF r
<1>2. r.hours # {} => sensor_binding(r) \in Binding
  <2>1. ASSUME NEW n \in Nat \ {0}, r.hours = {n}
        PROVE  sensor_binding(r) \in Binding
    <3>1. (CHOOSE h \in r.hours : TRUE) = n
      BY <2>1
    <3> QED
      BY <1>1, <3>1 DEF sensor_binding, Binding, Every
  <2> QED
    BY <1>1, <2>1
<1>3. [interval |-> r.interval, unit |-> r.unit] \in Every
  BY <1>1 DEF Every
<1>4. build_catalog_task_payload(r, p, u) \in {a \in Create : Keepable(a)}
  BY <1>1, <1>2, <1>3 DEF build_catalog_task_payload, metered, Create, Keepable, Kinds
<1> QED
  BY <1>4 DEF r

\* What scan_printers hands to the planner.
LEMMA ScanTypes ==
    ASSUME TypeOK
    PROVE  /\ DOMAIN scan_printers = registered
           /\ \A p \in registered :
                 /\ scan_printers[p].serial = p
                 /\ scan_printers[p].model = model[p]
                 /\ scan_printers[p].usage = (p \in usage)
           /\ registered \subseteq Printers
BY DEF TypeOK, scan_printers

\* The payloads are those of the items that apply, one for each.
LEMMA WantedIs ==
    ASSUME TypeOK, NEW w
    PROVE  w \in wanted(Items, scan_printers, options) <=>
             \E p \in registered : \E key \in Items :
                LET r == resolve(key, resolved_family(p, model[p], options), p, options)
                IN  r.enabled /\ w = build_catalog_task_payload(r, p, p \in usage)
<1> DEFINE Fam(p) == resolved_family(p, model[p], options)
           Res(p) == {r \in resolve_all(Items, Fam(p), p, options) : r.enabled}
<1>1. wanted(Items, scan_printers, options)
        = UNION {{build_catalog_task_payload(r, p, p \in usage) : r \in Res(p)} : p \in registered}
  BY ScanTypes DEF wanted
<1>2. \A p, r : r \in Res(p) <=> r.enabled /\ \E key \in Items : r = resolve(key, Fam(p), p, options)
  BY DEF resolve_all
<1> HIDE DEF Res
<1> QED
  BY <1>1, <1>2

LEMMA WantedTypes ==
    ASSUME TypeOK
    PROVE  wanted(Items, scan_printers, options) \subseteq {a \in Create : Keepable(a)}
<1> SUFFICES ASSUME NEW w \in wanted(Items, scan_printers, options)
             PROVE  w \in {a \in Create : Keepable(a)}
  OBVIOUS
<1>1. PICK p \in registered, key \in Items :
          w = build_catalog_task_payload(resolve(key, resolved_family(p, model[p], options), p, options),
                                         p, p \in usage)
  BY WantedIs
<1> QED
  BY <1>1, ScanTypes, FamilyTypes, PayloadTypes

Kept == {t \in Task : Keepable(t)}

LEMMA DriftTypes ==
    ASSUME NEW t \in Kept, NEW w \in {a \in Create : Keepable(a)}
    PROVE  UpdateCatalogTask(t.id, w, catalog_task_drift(t, w)) \in Action
<1> DEFINE fields == catalog_task_drift(t, w)
<1>1. /\ fields \subseteq {"sensor", "every", "notes"}
      /\ "sensor" \in fields => w.sensor # {}
      /\ "every" \in fields => w.every # {}
  BY DEF catalog_task_drift, Keepable
<1> HIDE DEF fields
<1>2. UpdateCatalogTask(t.id, w, fields) \in Update
  BY <1>1 DEF UpdateCatalogTask, Update, Create, Kept, Task
<1>3. LET a == UpdateCatalogTask(t.id, w, fields)
      IN  a.fields = fields /\ a.sensor = w.sensor /\ a.every = w.every
  BY DEF UpdateCatalogTask
<1>4. UpdateCatalogTask(t.id, w, fields) \in Action
  BY <1>1, <1>2, <1>3 DEF Action
<1> QED
  BY <1>4 DEF fields

LEMMA PlanTypes ==
    ASSUME TypeOK, NEW list \in SUBSET Kept
    PROVE  plan_all(list) \in SUBSET Action
<1> DEFINE on == stored(options, OPT_MAINTENANCE, FALSE)
           want == IF on THEN wanted(Items, scan_printers, options) ELSE {}
<1>1. want \subseteq {a \in Create : Keepable(a)}
  BY WantedTypes
<1>2. plan_clears(list, scan_up_to_date) \subseteq Action
  <2>1. \A d \in DOMAIN scan_up_to_date : d \in Printers /\ scan_up_to_date[d] = NoVersion
    BY DEF TypeOK, scan_up_to_date
  <2>2. \A t \in list : t.device \in DOMAIN scan_up_to_date =>
            ClearTask(t.id, t.device, format_up_to_date_notes(scan_up_to_date[t.device]),
                      scan_up_to_date[t.device]) \in Clear
    BY <2>1 DEF ClearTask, Clear, Kept, Task
  <2> QED
    BY <2>2 DEF plan_clears, Action
<1>3. plan_catalog(Items, list, scan_printers, on, options) \subseteq Action
  <2>1. \A t \in list : DeleteTask(t.id, t.device) \in Action
    BY DEF DeleteTask, Delete, Action, Kept, Task
  <2>2. \A w \in want : w \in Action
    BY <1>1 DEF Action
  <2>3. \A w \in want : \A t \in task_for_device(list, w.device, w.item) :
            UpdateCatalogTask(t.id, w, catalog_task_drift(t, w)) \in Action
    BY <1>1, DriftTypes DEF task_for_device
  <2> HIDE DEF on
  <2>4. plan_catalog(Items, list, scan_printers, on, options)
          = {w \in want : task_for_device(list, w.device, w.item) = {}}
            \cup {DeleteTask(t.id, t.device) :
                    t \in {u \in list : /\ u.item \in BY_KEY
                                        /\ ~ \E w \in want : w.device = u.device /\ w.item = u.item}}
            \cup UNION {{UpdateCatalogTask(t.id, w, catalog_task_drift(t, w)) :
                            t \in {u \in task_for_device(list, w.device, w.item) :
                                     catalog_task_drift(u, w) # {}}} : w \in want}
    BY DEF plan_catalog
  <2> HIDE DEF want
  <2> QED
    BY <2>1, <2>2, <2>3, <2>4
<1> QED
  BY <1>2, <1>3 DEF plan_all

-----------------------------------------------------------------------------
\* Types: what Home Keeper's calls make of a well-typed task list.

LEMMA ArmedTypes ==
    ASSUME NEW n, NEW S \in SUBSET {t \in Kept : t.id < n}, NEW i
    PROVE  /\ trigger_task(S, i) \subseteq {t \in Kept : t.id < n}
           /\ complete_task(S, i) \subseteq {t \in Kept : t.id < n}
           /\ delete_task(S, i) \subseteq {t \in Kept : t.id < n}
<1>1. ASSUME NEW t \in S, NEW b \in BOOLEAN
      PROVE  [t EXCEPT !.armed = b] \in {u \in Kept : u.id < n}
  BY DEF Kept, Task, Keepable
<1>2. \A t \in S : (t.armed \/ t.id = i) \in BOOLEAN /\ (t.armed /\ t.id # i) \in BOOLEAN
  OBVIOUS
<1> QED
  BY <1>1, <1>2 DEF trigger_task, complete_task, delete_task

LEMMA AddTypes ==
    ASSUME NEW n \in Nat, NEW S \in SUBSET {t \in Kept : t.id < n},
           NEW a \in Create, Keepable(a)
    PROVE  add_maintenance_task(S, n, a) \subseteq {t \in Kept : t.id < n + 1}
<1>1. [id |-> n, device |-> a.device, item |-> a.item, armed |-> FALSE, notes |-> a.notes,
       kind |-> a.kind, sensor |-> a.sensor, every |-> a.every] \in {t \in Kept : t.id < n + 1}
  BY DEF Kept, Task, Create, Keepable
<1>2. \A t \in S : t \in Kept /\ t.id < n + 1
  BY DEF Kept, Task
<1> QED
  BY <1>1, <1>2 DEF add_maintenance_task

LEMMA UpdateTypes ==
    ASSUME NEW n, NEW S \in SUBSET {t \in Kept : t.id < n}, NEW call,
           "sensor" \in call.fields => call.sensor # {} /\ call.sensor \subseteq Binding,
           "every" \in call.fields => call.every # {} /\ call.every \subseteq Every,
           "notes" \in call.fields => call.notes \in Notes
    PROVE  update_maintenance_task(S, call) \subseteq {t \in Kept : t.id < n}
<1> SUFFICES ASSUME NEW t \in S
             PROVE  [t EXCEPT !.sensor = IF "sensor" \in call.fields THEN call.sensor ELSE @,
                              !.every = IF "every" \in call.fields THEN call.every ELSE @,
                              !.notes = IF "notes" \in call.fields THEN call.notes ELSE @]
                      \in {u \in Kept : u.id < n}
  BY DEF update_maintenance_task
<1>1. t \in Task /\ Keepable(t) /\ t.id < n
  BY DEF Kept
<1> QED
  BY <1>1 DEF Kept, Task, Keepable

-----------------------------------------------------------------------------
\* Types: the steps.

\* No two tasks have the same id.
Distinct(S) == \A t, u \in S : t.id = u.id => t = u

LEMMA TypeInit == Init => TypeOK
<1> SUFFICES ASSUME Init PROVE TypeOK
  OBVIOUS
<1>1. \A p \in Printers : \A key \in Items : override_interval(key, p, options) \in Int
  BY MaintenanceAssumption DEF Init
<1>2. CoroutineTypes
  BY MaintenanceAssumption DEF Init, CoroutineTypes
<1>3. MaxInstances \in Nat
  BY MaintenanceAssumption
<1>4. instance \in 0 .. MaxInstances /\ nextId \in Nat
  BY <1>3 DEF Init
<1>6. up \in BOOLEAN /\ reloadDue \in BOOLEAN /\ stale \subseteq Reasons
  BY ZenonT(20) DEF Init, Reasons
<1>5. /\ tasks \subseteq {t \in Task : Keepable(t) /\ t.id < nextId}
      /\ completedByGlue \subseteq 0 .. (nextId - 1)
      /\ registered \subseteq Printers /\ usage \subseteq Printers
      /\ firmware \in [Printers -> {"on", "off", "unavailable"}]
  BY DEF Init
<1> QED
  BY <1>1, <1>2, <1>4, <1>5, <1>6 DEF TypeOK

LEMMA StartTypes ==
    ASSUME TypeOK, NEW i \in Instances, NEW setup \in BOOLEAN, StartReconcile(i, setup)
    PROVE  CoroutineTypes'
<1>1. PICK h \in Handlers :
          /\ pc' = [pc EXCEPT ![h] = "waiting"]
          /\ owner' = [owner EXCEPT ![h] = i]
          /\ inSetup' = [inSetup EXCEPT ![h] = setup]
          /\ waiters' = [waiters EXCEPT ![i] = Append(@, h)]
          /\ UNCHANGED <<lock, snap, todo, cur>>
  BY DEF StartReconcile
<1>2. Append(waiters[i], h) \in Seq(Handlers)
  BY DEF TypeOK, CoroutineTypes
<1> QED
  BY <1>1, <1>2, MaintenanceAssumption DEF TypeOK, CoroutineTypes, Instances

LEMMA IdleTypes ==
    ASSUME TypeOK, UNCHANGED coroutineVars
    PROVE  CoroutineTypes'
BY DEF TypeOK, CoroutineTypes, coroutineVars

LEMMA TypeEnvironment ==
    ASSUME TypeOK,
           \/ \E p \in Printers : FirmwareEntity(p) \/ UsageSensor(p) \/ FirmwareReport(p)
           \/ ChangeOptions \/ SetUp
    PROVE  TypeOK'
<1>1. ASSUME NEW p \in Printers, FirmwareEntity(p) PROVE TypeOK'
  <2>1. CASE up /\ StartReconcile(instance, FALSE)
    <3>1. CASE instance \in Instances
      BY <1>1, <2>1, <3>1, StartTypes DEF FirmwareEntity, TypeOK, hkVars, entryVars, Reasons
    <3>2. CASE instance \notin Instances
      <4>1. PICK h \in Handlers :
                /\ pc' = [pc EXCEPT ![h] = "waiting"]
                /\ owner' = [owner EXCEPT ![h] = instance]
                /\ inSetup' = [inSetup EXCEPT ![h] = FALSE]
                /\ waiters' = [waiters EXCEPT ![instance] = Append(@, h)]
                /\ UNCHANGED <<lock, snap, todo, cur>>
        BY <2>1 DEF StartReconcile
      <4>2. CoroutineTypes'
        BY <3>2, <4>1 DEF TypeOK, CoroutineTypes
      <4> QED
        BY <1>1, <2>1, <4>2 DEF FirmwareEntity, TypeOK, hkVars, entryVars, Reasons
    <3> QED
      BY <3>1, <3>2
  <2>2. CASE ~ up /\ UNCHANGED coroutineVars
    BY <1>1, <2>2, IdleTypes DEF FirmwareEntity, TypeOK, hkVars, entryVars, Reasons
  <2> QED
    BY <1>1, <2>1, <2>2 DEF FirmwareEntity, coroutineVars
<1>2. ASSUME NEW p \in Printers, UsageSensor(p) PROVE TypeOK'
  BY <1>2, IdleTypes DEF UsageSensor, TypeOK, hkVars, entryVars, Reasons
<1>3. ASSUME NEW p \in Printers, FirmwareReport(p) PROVE TypeOK'
  BY <1>3, IdleTypes DEF FirmwareReport, TypeOK, hkVars, entryVars, historyVars, Reasons
<1>4. ASSUME ChangeOptions PROVE TypeOK'
  <2>1. \A p \in Printers : \A key \in Items : override_interval(key, p, options') \in Int
    BY <1>4, MaintenanceAssumption DEF ChangeOptions
  <2>2. stale' \subseteq Reasons /\ reloadDue' \in BOOLEAN
    BY <1>4 DEF ChangeOptions, TypeOK, Reasons
  <2> QED
    BY <1>4, <2>1, <2>2, IdleTypes DEF ChangeOptions, TypeOK, hkVars, haVars
<1>5. ASSUME SetUp PROVE TypeOK'
  <2>1. instance' \in Instances /\ instance' = instance + 1
    BY <1>5, MaintenanceAssumption DEF SetUp, TypeOK, Instances
  <2>2. CoroutineTypes'
    BY <1>5, <2>1, StartTypes DEF SetUp
  <2>3. instance' \in 0 .. MaxInstances
    BY <2>1, MaintenanceAssumption DEF Instances
  <2>4. up' \in BOOLEAN /\ reloadDue' \in BOOLEAN
    BY <1>5, ZenonT(20) DEF SetUp
  <2> QED
    BY <1>5, <2>2, <2>3, <2>4 DEF SetUp, TypeOK, hkVars, haVars, historyVars
<1> QED
  BY <1>1, <1>2, <1>3, <1>4, <1>5

\* The steps in which Home Keeper and its user change the tasks.
LEMMA TypeHomeKeeper ==
    ASSUME TypeOK, Distinct(tasks), ComesDue \/ UserCompletes \/ UserEdits
    PROVE  TypeOK'
<1>1. tasks \subseteq {t \in Kept : t.id < nextId}
  BY DEF TypeOK, Kept
<1>2. ASSUME tasks' \subseteq {t \in Kept : t.id < nextId}, stale' \subseteq Reasons,
             UNCHANGED <<nextId, completedByGlue, haVars, entryVars, coroutineVars>>
      PROVE  TypeOK'
  BY <1>2, IdleTypes DEF TypeOK, Kept, haVars, entryVars
<1>3. ASSUME ComesDue PROVE TypeOK'
  <2>1. tasks' \subseteq {t \in Kept : t.id < nextId}
    BY <1>1, <1>3, ArmedTypes DEF ComesDue
  <2> QED
    BY <1>2, <1>3, <2>1 DEF ComesDue, historyVars, TypeOK
<1>4. ASSUME UserCompletes PROVE TypeOK'
  <2>1. tasks' \subseteq {t \in Kept : t.id < nextId}
    BY <1>1, <1>4, ArmedTypes DEF UserCompletes
  <2> QED
    BY <1>2, <1>4, <2>1 DEF UserCompletes, historyVars, TypeOK
<1>5. ASSUME UserEdits PROVE TypeOK'
  <2>1. PICK t \in tasks :
            tasks' = update_maintenance_task(tasks,
                       [id |-> t.id,
                        sensor |-> {[b EXCEPT !.target = @ + 1] : b \in t.sensor},
                        every |-> {[e EXCEPT !.interval = @ + 1] : e \in t.every},
                        fields |-> {"sensor", "every"}])
    BY <1>5 DEF UserEdits
  <2> DEFINE sensor == {[b EXCEPT !.target = @ + 1] : b \in t.sensor}
             every == {[e EXCEPT !.interval = @ + 1] : e \in t.every}
  <2>2. sensor \subseteq Binding /\ every \subseteq Every
    BY <1>1 DEF Kept, Task, Binding, Every
  <2>3. (t.sensor # {} => sensor # {}) /\ (t.every # {} => every # {})
    OBVIOUS
  <2> HIDE DEF sensor, every
  <2>4. [t EXCEPT !.sensor = sensor, !.every = every] \in {u \in Kept : u.id < nextId}
    <3>1. t \in Task /\ Keepable(t) /\ t.id < nextId
      BY <1>1 DEF Kept
    <3> QED
      BY <2>2, <2>3, <3>1 DEF Kept, Task, Keepable
  <2>5. \A u \in update_maintenance_task(tasks, [id |-> t.id, sensor |-> sensor, every |-> every,
                                                 fields |-> {"sensor", "every"}]) :
            u \in tasks \/ u = [t EXCEPT !.sensor = sensor, !.every = every]
    <3>1. ASSUME NEW u \in tasks, u.id = t.id
          PROVE  u = t /\ u \in Task
      BY <1>1, <3>1 DEF Distinct, Kept
    <3>2. t \in Task
      BY <1>1 DEF Kept
    <3>3. [t EXCEPT !.sensor = sensor, !.every = every, !.notes = t.notes]
            = [t EXCEPT !.sensor = sensor, !.every = every]
      BY <3>2 DEF Task
    <3> QED
      BY <3>1, <3>3 DEF update_maintenance_task
  <2>6. tasks' \subseteq {u \in Kept : u.id < nextId}
    BY <1>1, <2>1, <2>4, <2>5 DEF sensor, every
  <2>7. stale' \subseteq Reasons
    BY <1>5 DEF UserEdits, TypeOK, Reasons
  <2> QED
    BY <1>2, <1>5, <2>6, <2>7 DEF UserEdits
<1> QED
  BY <1>3, <1>4, <1>5

\* A coroutine's step leaves its surroundings alone.
Surroundings == <<haVars, options, instance, reloadDue>>

LEMMA TypeCoroutine ==
    ASSUME TypeOK, NEW h \in Handlers, Coroutine(h)
    PROVE  TypeOK'
<1>1. tasks \subseteq {t \in Kept : t.id < nextId} /\ nextId \in Nat
  BY DEF TypeOK, Kept
<1>2. ASSUME tasks' \subseteq {t \in Kept : t.id < nextId'}, nextId' \in Nat,
             completedByGlue' \subseteq 0 .. (nextId' - 1), CoroutineTypes',
             UNCHANGED Surroundings, up' \in BOOLEAN, stale' \subseteq Reasons
      PROVE  TypeOK'
  BY <1>2 DEF TypeOK, Kept, Surroundings, haVars
<1>3. ASSUME Release(h) PROVE CoroutineTypes'
  <2>1. 0 \in 0 .. MaxInstances
    BY MaintenanceAssumption
  <2>2. inSetup' \in [Handlers -> BOOLEAN]
    BY <1>3 DEF Release, TypeOK, CoroutineTypes
  <2>3. /\ lock' \in [Instances -> Handlers \cup {Free}]
        /\ waiters' \in [Instances -> Seq(Handlers)]
    BY <1>3 DEF Release, TypeOK, CoroutineTypes
  <2>4. /\ pc' \in [Handlers -> {"idle", "waiting", "list", "plan", "exec", "notes"}]
        /\ owner' \in [Handlers -> 0 .. MaxInstances]
        /\ snap' \in [Handlers -> SUBSET {t \in Task : Keepable(t)}]
        /\ todo' \in [Handlers -> SUBSET Action]
        /\ cur' \in [Handlers -> SUBSET Clear]
    BY <1>3, <2>1 DEF Release, TypeOK, CoroutineTypes
  <2> QED
    BY <2>2, <2>3, <2>4 DEF CoroutineTypes
<1>4. ASSUME NEW a \in todo[h], Done(h, a) PROVE CoroutineTypes'
  BY <1>4 DEF Done, TypeOK, CoroutineTypes
<1>5. ASSUME NEW a \in todo[h]
      PROVE  a \in Action
  BY <1>5 DEF TypeOK, CoroutineTypes
<1>6. ASSUME UNCHANGED hkVars, CoroutineTypes', UNCHANGED Surroundings,
             up' \in BOOLEAN, stale' \subseteq Reasons
      PROVE  TypeOK'
  BY <1>1, <1>2, <1>6 DEF TypeOK, hkVars
<1>7. ASSUME UNCHANGED <<nextId, completedByGlue>>, CoroutineTypes', UNCHANGED Surroundings,
             tasks' \subseteq {t \in Kept : t.id < nextId}, UNCHANGED <<up, stale>>
      PROVE  TypeOK'
  BY <1>1, <1>2, <1>7 DEF TypeOK
<1>8. CASE Acquire(h)
  <2>1. waiters' \in [Instances -> Seq(Handlers)]
    <3>1. /\ waiters' = [waiters EXCEPT ![owner[h]] = Tail(@)]
          /\ waiters[owner[h]] # <<>>
      BY <1>8 DEF Acquire
    <3>2. waiters \in [Instances -> Seq(Handlers)]
      BY DEF TypeOK, CoroutineTypes
    <3>3. owner[h] \in Instances => Tail(waiters[owner[h]]) \in Seq(Handlers)
      BY <3>1, <3>2
    <3> QED
      BY <3>1, <3>2, <3>3
  <2>2. CoroutineTypes'
    BY <1>8, <2>1 DEF Acquire, TypeOK, CoroutineTypes
  <2> QED
    BY <1>6, <1>8, <2>2 DEF Acquire, TypeOK, Surroundings, entryVars, historyVars
<1>9. CASE List(h)
  <2>1. CoroutineTypes'
    BY <1>9 DEF List, TypeOK, CoroutineTypes
  <2>2. stale' \subseteq Reasons
    BY <1>9 DEF List, TypeOK, Reasons
  <2> QED
    BY <1>6, <1>9, <2>1, <2>2 DEF List, TypeOK, Surroundings, entryVars
<1>10. CASE Plan(h)
  <2>1. plan_all(snap[h]) \in SUBSET Action
    BY PlanTypes DEF TypeOK, CoroutineTypes, Kept
  <2>2. CoroutineTypes'
    BY <1>10, <2>1 DEF Plan, TypeOK, CoroutineTypes
  <2> QED
    BY <1>6, <1>10, <2>2 DEF Plan, TypeOK, Surroundings, entryVars, historyVars
<1>11. CASE ExecCreate(h)
  <2>1. PICK a \in todo[h] :
            /\ a.op = "create" /\ Done(h, a)
            /\ tasks' = add_maintenance_task(tasks, nextId, a)
            /\ nextId' = nextId + 1
    BY <1>11 DEF ExecCreate, Executing
  <2>2. a \in Create /\ Keepable(a)
    BY <1>5, <2>1 DEF Action, Update, Delete, Clear
  <2>3. tasks' \subseteq {t \in Kept : t.id < nextId'}
    BY <1>1, <2>1, <2>2, AddTypes
  <2>4. completedByGlue' \subseteq 0 .. (nextId' - 1) /\ nextId' \in Nat
    BY <1>1, <1>11, <2>1 DEF ExecCreate, TypeOK
  <2>5. CoroutineTypes'
    BY <1>4, <2>1
  <2> QED
    BY <1>2, <1>11, <2>3, <2>4, <2>5 DEF ExecCreate, Surroundings, entryVars, historyVars, TypeOK
<1>12. CASE ExecUpdate(h)
  <2>1. PICK a \in todo[h] :
            a.op = "update" /\ Done(h, a) /\ tasks' = update_maintenance_task(tasks, a)
    BY <1>12 DEF ExecUpdate, Executing
  <2>2. a \in Update /\ ("sensor" \in a.fields => a.sensor # {}) /\ ("every" \in a.fields => a.every # {})
    BY <1>5, <2>1 DEF Action, Create, Delete, Clear
  <2>3. tasks' \subseteq {t \in Kept : t.id < nextId}
    BY <1>1, <2>1, <2>2, UpdateTypes DEF Update
  <2>4. CoroutineTypes'
    BY <1>4, <2>1
  <2> QED
    BY <1>7, <1>12, <2>3, <2>4 DEF ExecUpdate, Surroundings, entryVars, historyVars
<1>13. CASE ExecDelete(h)
  <2>1. PICK a \in todo[h] : Done(h, a) /\ tasks' = delete_task(tasks, a.id)
    BY <1>13 DEF ExecDelete
  <2>2. tasks' \subseteq {t \in Kept : t.id < nextId} /\ CoroutineTypes'
    BY <1>1, <1>4, <2>1, ArmedTypes
  <2> QED
    BY <1>7, <1>13, <2>2 DEF ExecDelete, Surroundings, entryVars, historyVars
<1>14. CASE ExecComplete(h)
  <2>1. PICK a \in todo[h] :
            /\ a.op = "clear" /\ Known(a.id)
            /\ tasks' = complete_task(tasks, a.id)
            /\ completedByGlue' = completedByGlue \cup {a.id}
            /\ cur' = [cur EXCEPT ![h] = {a}]
            /\ pc' = [pc EXCEPT ![h] = "notes"]
    BY <1>14 DEF ExecComplete, Executing
  <2>2. a \in Clear
    BY <1>5, <2>1 DEF Action, Create, Delete, Update
  <2>3. tasks' \subseteq {t \in Kept : t.id < nextId}
    BY <1>1, <2>1, ArmedTypes
  <2>4. a.id \in 0 .. (nextId - 1)
    BY <1>1, <2>1 DEF Known, Kept, Task
  <2>5. CoroutineTypes'
    BY <1>14, <2>1, <2>2 DEF ExecComplete, TypeOK, CoroutineTypes
  <2>6. completedByGlue' \subseteq 0 .. (nextId - 1)
    BY <2>1, <2>4 DEF TypeOK
  <2> QED
    BY <1>1, <1>2, <1>14, <2>3, <2>5, <2>6 DEF ExecComplete, Surroundings, entryVars, historyVars, TypeOK
<1>15. CASE ExecNotes(h)
  <2>1. PICK a \in cur[h] :
            /\ tasks' = update_maintenance_task(tasks, [id |-> a.id, notes |-> a.notes, fields |-> {"notes"}])
            /\ cur' = [cur EXCEPT ![h] = {}]
            /\ todo' = [todo EXCEPT ![h] = @ \ {a}]
            /\ pc' = [pc EXCEPT ![h] = "exec"]
    BY <1>15 DEF ExecNotes
  <2>2. a.notes \in Notes
    BY DEF TypeOK, CoroutineTypes, Clear, Notes
  <2>3. tasks' \subseteq {t \in Kept : t.id < nextId}
    BY <1>1, <2>1, <2>2, UpdateTypes
  <2>4. CoroutineTypes'
    BY <1>15, <2>1 DEF ExecNotes, TypeOK, CoroutineTypes
  <2> QED
    BY <1>7, <1>15, <2>3, <2>4 DEF ExecNotes, Surroundings, entryVars, historyVars
<1>16. CASE Fail(h)
  <2>1. up' \in BOOLEAN
    BY <1>16, ZenonT(20) DEF Fail
  <2>2. stale' \subseteq Reasons
    BY <1>16 DEF Fail, TypeOK, Reasons
  <2> QED
    BY <1>3, <1>6, <1>16, <2>1, <2>2 DEF Fail, Surroundings
<1>17. CASE Finish(h)
  BY <1>3, <1>6, <1>17 DEF Finish, TypeOK, Surroundings, entryVars, historyVars
<1> QED
  BY <1>8, <1>9, <1>10, <1>11, <1>12, <1>13, <1>14, <1>15, <1>16, <1>17 DEF Coroutine

-----------------------------------------------------------------------------
\* What a call leaves of each task.

Same(t, u) ==
    /\ t.id = u.id /\ t.device = u.device /\ t.item = u.item
    /\ t.kind = u.kind /\ t.sensor = u.sensor /\ t.every = u.every

\* What t is after a call that updates fields of task call.id.
Became(t, u, call) ==
    /\ t.id = u.id /\ t.device = u.device /\ t.item = u.item /\ t.kind = u.kind
    /\ u.sensor = IF t.id = call.id /\ "sensor" \in call.fields THEN call.sensor ELSE t.sensor
    /\ u.every = IF t.id = call.id /\ "every" \in call.fields THEN call.every ELSE t.every

\* S and R hold the same tasks, but for what is armed and noted.
Alike(S, R) ==
    /\ \A t \in S : \E u \in R : Same(t, u)
    /\ \A u \in R : \E t \in S : Same(t, u)

\* R is S after the update.
Updated(S, R, call) ==
    /\ \A t \in S : \E u \in R : Became(t, u, call)
    /\ \A u \in R : \E t \in S : Became(t, u, call)

LEMMA ArmedAlike ==
    ASSUME NEW S \in SUBSET Task, NEW i
    PROVE  Alike(S, trigger_task(S, i)) /\ Alike(S, complete_task(S, i))
<1> DEFINE Trigger(t) == [t EXCEPT !.armed = @ \/ t.id = i]
           Complete(t) == [t EXCEPT !.armed = @ /\ t.id # i]
<1>1. \A t \in S : Same(t, Trigger(t)) /\ Same(t, Complete(t))
  BY DEF Task, Same
<1>2. /\ trigger_task(S, i) = {Trigger(t) : t \in S}
      /\ complete_task(S, i) = {Complete(t) : t \in S}
  BY DEF trigger_task, complete_task
<1> HIDE DEF Trigger, Complete
<1> QED
  BY <1>1, <1>2 DEF Alike

LEMMA CallUpdates ==
    ASSUME NEW S \in SUBSET Task, NEW call
    PROVE  Updated(S, update_maintenance_task(S, call), call)
<1> DEFINE Call(t) ==
        IF t.id = call.id
        THEN [t EXCEPT !.sensor = IF "sensor" \in call.fields THEN call.sensor ELSE @,
                       !.every = IF "every" \in call.fields THEN call.every ELSE @,
                       !.notes = IF "notes" \in call.fields THEN call.notes ELSE @]
        ELSE t
<1>1. ASSUME NEW t \in S PROVE Became(t, Call(t), call)
  BY DEF Task, Became
<1>2. update_maintenance_task(S, call) = {Call(t) : t \in S}
  BY DEF update_maintenance_task
<1> HIDE DEF Call
<1> QED
  BY <1>1, <1>2 DEF Updated

LEMMA NotesAlike ==
    ASSUME NEW S \in SUBSET Task, NEW i, NEW notes
    PROVE  Alike(S, update_maintenance_task(S, [id |-> i, notes |-> notes, fields |-> {"notes"}]))
<1> DEFINE call == [id |-> i, notes |-> notes, fields |-> {"notes"}]
<1>1. Updated(S, update_maintenance_task(S, call), call)
  BY CallUpdates
<1>2. \A t, u : Became(t, u, call) => Same(t, u)
  BY DEF Became, Same
<1> HIDE DEF call
<1>3. Alike(S, update_maintenance_task(S, call))
  BY <1>1, <1>2 DEF Updated, Alike
<1> QED
  BY <1>3 DEF call

LEMMA CallsKeepDistinct ==
    ASSUME NEW S \in SUBSET Task, Distinct(S), NEW i, NEW call
    PROVE  /\ Distinct(trigger_task(S, i)) /\ Distinct(complete_task(S, i))
           /\ Distinct(delete_task(S, i)) /\ Distinct(update_maintenance_task(S, call))
<1>1. Distinct(trigger_task(S, i)) /\ Distinct(complete_task(S, i))
  <2> DEFINE Trigger(t) == [t EXCEPT !.armed = @ \/ t.id = i]
             Complete(t) == [t EXCEPT !.armed = @ /\ t.id # i]
  <2>1. \A t \in S : Trigger(t).id = t.id /\ Complete(t).id = t.id
    BY DEF Task
  <2>2. /\ trigger_task(S, i) = {Trigger(t) : t \in S}
        /\ complete_task(S, i) = {Complete(t) : t \in S}
    BY DEF trigger_task, complete_task
  <2> HIDE DEF Trigger, Complete
  <2> QED
    BY <2>1, <2>2 DEF Distinct
<1>3. Distinct(delete_task(S, i))
  BY DEF Distinct, delete_task
<1> DEFINE Call(t) ==
        IF t.id = call.id
        THEN [t EXCEPT !.sensor = IF "sensor" \in call.fields THEN call.sensor ELSE @,
                       !.every = IF "every" \in call.fields THEN call.every ELSE @,
                       !.notes = IF "notes" \in call.fields THEN call.notes ELSE @]
        ELSE t
<1>4. ASSUME NEW t \in S PROVE Call(t).id = t.id
  BY DEF Task
<1>5. update_maintenance_task(S, call) = {Call(t) : t \in S}
  BY DEF update_maintenance_task
<1> HIDE DEF Call
<1>6. Distinct(update_maintenance_task(S, call))
  BY <1>4, <1>5 DEF Distinct
<1> QED
  BY <1>1, <1>3, <1>6

LEMMA AddKeepsDistinct ==
    ASSUME NEW n \in Nat, NEW S \in SUBSET {t \in Kept : t.id < n}, Distinct(S), NEW a
    PROVE  Distinct(add_maintenance_task(S, n, a))
<1> DEFINE new == [id |-> n, device |-> a.device, item |-> a.item, armed |-> FALSE,
                   notes |-> a.notes, kind |-> a.kind, sensor |-> a.sensor, every |-> a.every]
<1>1. \A t \in S : t.id # n
  BY DEF Kept, Task
<1>2. new.id = n /\ add_maintenance_task(S, n, a) = S \cup {new}
  BY DEF add_maintenance_task
<1> HIDE DEF new
<1> QED
  BY <1>1, <1>2 DEF Distinct

TypeInv == TypeOK /\ Distinct(tasks)

\* How one step changes the tasks.
LEMMA TasksChange ==
    ASSUME TypeInv, Next
    PROVE  \/ UNCHANGED <<tasks, nextId>>
           \/ \E i : tasks' \in {trigger_task(tasks, i), complete_task(tasks, i)} /\ nextId' = nextId
           \/ UserEdits
           \/ \E h \in Handlers : ExecCreate(h) \/ ExecUpdate(h) \/ ExecDelete(h) \/ ExecNotes(h)
<1>1. ASSUME NEW h \in Handlers, Acquire(h) \/ List(h) \/ Plan(h) \/ Fail(h) \/ Finish(h)
      PROVE  UNCHANGED <<tasks, nextId>>
  BY <1>1 DEF Acquire, List, Plan, Fail, Finish, hkVars
<1>2. ASSUME NEW p \in Printers, FirmwareEntity(p) \/ UsageSensor(p) \/ FirmwareReport(p)
      PROVE  UNCHANGED <<tasks, nextId>>
  BY <1>2 DEF FirmwareEntity, UsageSensor, FirmwareReport, hkVars
<1>3. ASSUME ChangeOptions \/ SetUp PROVE UNCHANGED <<tasks, nextId>>
  BY <1>3 DEF ChangeOptions, SetUp, hkVars
<1>4. ASSUME ComesDue \/ UserCompletes \/ \E h \in Handlers : ExecComplete(h)
      PROVE  \E i : tasks' \in {trigger_task(tasks, i), complete_task(tasks, i)} /\ nextId' = nextId
  BY <1>4 DEF ComesDue, UserCompletes, ExecComplete
<1> QED
  BY <1>1, <1>2, <1>3, <1>4 DEF Next, Coroutine

LEMMA DistinctNext ==
    ASSUME TypeInv, Next
    PROVE  Distinct(tasks)'
<1>1. /\ tasks \in SUBSET Task /\ Distinct(tasks)
      /\ tasks \in SUBSET {t \in Kept : t.id < nextId} /\ nextId \in Nat
  BY DEF TypeInv, TypeOK, Kept
<1>2. ASSUME UserEdits PROVE Distinct(tasks')
  BY <1>1, <1>2, CallsKeepDistinct DEF UserEdits
<1>3. ASSUME NEW h \in Handlers, ExecUpdate(h) \/ ExecDelete(h) \/ ExecNotes(h)
      PROVE  Distinct(tasks')
  <2>1. \E i, call : tasks' = delete_task(tasks, i) \/ tasks' = update_maintenance_task(tasks, call)
    BY <1>3 DEF ExecUpdate, ExecDelete, ExecNotes
  <2> QED
    BY <1>1, <2>1, CallsKeepDistinct
<1>4. ASSUME NEW h \in Handlers, ExecCreate(h) PROVE Distinct(tasks')
  BY <1>1, <1>4, AddKeepsDistinct DEF ExecCreate
<1>5. ASSUME NEW i, tasks' \in {trigger_task(tasks, i), complete_task(tasks, i)}
      PROVE  Distinct(tasks')
  BY <1>1, <1>5, CallsKeepDistinct
<1>6. Distinct(tasks')
  BY <1>1, <1>2, <1>3, <1>4, <1>5, TasksChange
<1> QED
  BY <1>6 DEF Distinct

LEMMA TypeNext ==
    ASSUME TypeInv, Next
    PROVE  TypeInv'
<1>1. TypeOK /\ Distinct(tasks)
  BY DEF TypeInv
<1>2. TypeOK'
  <2>1. ASSUME NEW h \in Handlers, Coroutine(h) PROVE TypeOK'
    BY <1>1, <2>1, TypeCoroutine
  <2> QED
    BY <1>1, <2>1, TypeEnvironment, TypeHomeKeeper DEF Next
<1> QED
  BY <1>2, DistinctNext DEF TypeInv

\* Whatever the options hold, whatever overlaps and whatever fails, every task Home
\* Keeper has of the catalog is on a schedule it can keep (plan_catalog, resolve).
THEOREM SchedulesKeepable == Spec => []TypeOK
<1>1. Init => TypeInv
  BY TypeInit DEF Init, TypeInv, Distinct
<1>2. TypeInv /\ [Next]_vars => TypeInv'
  <2>1. ASSUME TypeInv, UNCHANGED vars PROVE TypeInv'
    BY <2>1 DEF TypeInv, TypeOK, CoroutineTypes, Distinct, vars, hkVars, haVars, entryVars,
                coroutineVars, historyVars
  <2> QED
    BY <2>1, TypeNext
<1>3. TypeInv => TypeOK
  BY DEF TypeInv
<1> QED
  BY <1>1, <1>2, <1>3, PTL DEF Spec

-----------------------------------------------------------------------------
\* The removal of the entry.

IdsOf(S) == {t.id : t \in S}

\* What the removal still has on its list, could not delete, or never saw.
Accounted(S) == \A i \in IdsOf(S) : i \in doomed \cup spared \/ i >= horizon

\* While there is no entry nothing is set up.  The tasks there are were listed, and
\* are on the list or could not be deleted, or came after; none came after unless
\* coroutines were left to bring them.
RemovalInv ==
    /\ horizon \in Nat
    /\ entry = "removed" =>
        /\ ~ up
        /\ ~ company => AllIdle
        /\ removal # "list" /\ ~ gaveUp =>
              /\ horizon <= nextId
              /\ Accounted(tasks)
              /\ removal = "none" => doomed = {}
              /\ ~ company => \A i \in IdsOf(tasks) : i < horizon

LifeTypeInv == TypeInv /\ RemovalInv

LEMMA AlikeIds ==
    ASSUME NEW S, NEW R, Alike(S, R)
    PROVE  IdsOf(R) = IdsOf(S)
BY DEF Alike, Same, IdsOf

LEMMA UpdatedIds ==
    ASSUME NEW S, NEW R, NEW call, Updated(S, R, call)
    PROVE  IdsOf(R) = IdsOf(S)
BY DEF Updated, Became, IdsOf

LEMMA SetUpIsNew ==
    ASSUME TypeInv, SetUp
    PROVE  instance' # instance
<1>1. instance \in 0 .. MaxInstances
  BY DEF TypeInv, TypeOK
<1>2. instance' = instance + 1
  BY DEF SetUp
<1> QED
  BY <1>1, <1>2, MaintenanceAssumption

\* An entry that is not set up does not come up but by a new set-up.
LEMMA StaysDown ==
    ASSUME TypeInv, Next, ~ up, instance' = instance
    PROVE  ~ up'
<1>1. ~ SetUp
  BY SetUpIsNew
<1>2. ASSUME NEW h \in Handlers, Coroutine(h) PROVE ~ up'
  BY <1>2 DEF Coroutine, Acquire, List, Plan, ExecCreate, ExecUpdate, ExecDelete, ExecComplete,
              ExecNotes, Fail, Finish, entryVars
<1>3. ASSUME ~ \E h \in Handlers : Coroutine(h) PROVE ~ up'
  BY <1>1, <1>3 DEF Next, FirmwareEntity, UsageSensor, FirmwareReport, ChangeOptions, ComesDue,
                    UserCompletes, UserEdits, entryVars
<1> QED
  BY <1>2, <1>3

\* With nothing running and nothing set up, no task is added.
LEMMA StaysIdle ==
    ASSUME TypeInv, Next, ~ up, instance' = instance, AllIdle
    PROVE  AllIdle' /\ IdsOf(tasks') \subseteq IdsOf(tasks)
<1>1. ~ SetUp
  BY SetUpIsNew
<1>2. ASSUME NEW h \in Handlers, Coroutine(h)
      PROVE  AllIdle' /\ tasks' = tasks
  <2>1. pc[h] = "idle"
    BY DEF AllIdle
  <2>2. Fail(h)
    BY <1>2, <2>1 DEF Coroutine, Acquire, List, Plan, ExecCreate, ExecUpdate, ExecDelete,
                      ExecComplete, ExecNotes, Finish, Executing
  <2> QED
    BY <2>2 DEF Fail, Release, hkVars, AllIdle, TypeInv, TypeOK, CoroutineTypes
<1>3. ASSUME ~ \E h \in Handlers : Coroutine(h)
      PROVE  AllIdle' /\ IdsOf(tasks') = IdsOf(tasks)
  <2>1. UNCHANGED pc
    BY <1>1, <1>3 DEF Next, FirmwareEntity, UsageSensor, FirmwareReport, ChangeOptions, ComesDue,
                      UserCompletes, UserEdits, coroutineVars
  <2>2. tasks \in SUBSET Task
    BY DEF TypeInv, TypeOK
  <2>3. ASSUME UserEdits PROVE IdsOf(tasks') = IdsOf(tasks)
    <3>1. PICK call : tasks' = update_maintenance_task(tasks, call)
      BY <2>3 DEF UserEdits
    <3> QED
      BY <2>2, <3>1, CallUpdates, UpdatedIds
  <2>4. ASSUME NEW i, tasks' \in {trigger_task(tasks, i), complete_task(tasks, i)}
        PROVE  IdsOf(tasks') = IdsOf(tasks)
    BY <2>2, <2>4, ArmedAlike, AlikeIds
  <2>5. IdsOf(tasks') = IdsOf(tasks)
    BY <1>3, <2>3, <2>4, TasksChange DEF Coroutine
  <2> QED
    BY <2>1, <2>5 DEF AllIdle
<1> QED
  BY <1>2, <1>3

\* A step adds at most the task with the next id.
LEMMA IdsGrow ==
    ASSUME TypeInv, Next
    PROVE  /\ nextId \in Nat /\ nextId' \in Nat /\ nextId <= nextId'
           /\ IdsOf(tasks') \subseteq IdsOf(tasks) \cup {nextId}
<1>1. tasks \in SUBSET Task /\ nextId \in Nat
  BY DEF TypeInv, TypeOK
<1>2. ASSUME NEW call, tasks' = update_maintenance_task(tasks, call)
      PROVE  IdsOf(tasks') = IdsOf(tasks)
  BY <1>1, <1>2, CallUpdates, UpdatedIds
<1>3. ASSUME NEW i, tasks' = delete_task(tasks, i)
      PROVE  IdsOf(tasks') \subseteq IdsOf(tasks)
  BY <1>3 DEF delete_task, IdsOf
<1>4. ASSUME NEW i, tasks' \in {trigger_task(tasks, i), complete_task(tasks, i)}
      PROVE  IdsOf(tasks') = IdsOf(tasks)
  BY <1>1, <1>4, ArmedAlike, AlikeIds
<1>5. ASSUME UserEdits PROVE IdsOf(tasks') = IdsOf(tasks) /\ nextId' = nextId
  BY <1>2, <1>5 DEF UserEdits
<1>6. ASSUME NEW h \in Handlers, ExecUpdate(h) \/ ExecDelete(h) \/ ExecNotes(h)
      PROVE  IdsOf(tasks') \subseteq IdsOf(tasks) /\ nextId' = nextId
  BY <1>2, <1>3, <1>6 DEF ExecUpdate, ExecDelete, ExecNotes
<1>7. ASSUME NEW h \in Handlers, ExecCreate(h)
      PROVE  IdsOf(tasks') \subseteq IdsOf(tasks) \cup {nextId} /\ nextId' = nextId + 1
  BY <1>7 DEF ExecCreate, add_maintenance_task, IdsOf
<1>8. CASE UNCHANGED <<tasks, nextId>>
  BY <1>1, <1>8
<1> QED
  BY <1>1, <1>4, <1>5, <1>6, <1>7, <1>8, TasksChange

LEMMA LifeTypes ==
    ASSUME TypeInv, LifeNext
    PROVE  TypeInv'
<1>1. CASE LifeGoesOn
  BY <1>1, TypeNext DEF LifeGoesOn
<1>2. CASE RemovalList \/ RemovalDone
  BY <1>2 DEF RemovalList, RemovalDone, TypeInv, TypeOK, CoroutineTypes, Distinct, vars, hkVars,
              haVars, entryVars, coroutineVars, historyVars
<1>3. CASE RemovalGivesUp \/ RemovalDeleteFails
  BY <1>3 DEF RemovalGivesUp, RemovalDeleteFails, TypeInv, TypeOK, CoroutineTypes, Distinct,
              hkVars, haVars, entryVars, coroutineVars, historyVars
<1>4. CASE Remove
  <2>1. up' \in BOOLEAN /\ reloadDue' \in BOOLEAN
    BY <1>4, ZenonT(20) DEF Remove
  <2>2. stale' \subseteq Reasons
    BY <1>4 DEF Remove, TypeInv, TypeOK, Reasons
  <2>3. CoroutineTypes'
    BY <1>4, IdleTypes DEF Remove, TypeInv
  <2> QED
    BY <1>4, <2>1, <2>2, <2>3 DEF Remove, TypeInv, TypeOK, Distinct, hkVars, haVars
<1>5. CASE RemovalDelete
  <2>1. PICK id : tasks' = delete_task(tasks, id)
    BY <1>5 DEF RemovalDelete
  <2>2. tasks' \subseteq tasks
    BY <2>1 DEF delete_task
  <2>3. stale' \subseteq Reasons
    BY <1>5 DEF RemovalDelete, TypeInv, TypeOK, Reasons
  <2>4. CoroutineTypes'
    BY <1>5, IdleTypes DEF RemovalDelete, TypeInv
  <2> QED
    BY <1>5, <2>2, <2>3, <2>4 DEF RemovalDelete, TypeInv, TypeOK, Distinct, haVars, entryVars
<1>6. CASE AddAgain
  <2>1. \A p \in Printers : \A key \in Items : override_interval(key, p, options') \in Int
    <3>1. DOMAIN options' = {}
      BY <1>6 DEF AddAgain
    <3> QED
      BY <3>1 DEF override_interval, stored
  <2>2. stale' \subseteq Reasons
    BY <1>6 DEF AddAgain, TypeInv, TypeOK, Reasons
  <2>3. CoroutineTypes'
    BY <1>6, IdleTypes DEF AddAgain, TypeInv
  <2> QED
    BY <1>6, <2>1, <2>2, <2>3 DEF AddAgain, TypeInv, TypeOK, Distinct, hkVars, haVars
<1> QED
  BY <1>1, <1>2, <1>3, <1>4, <1>5, <1>6 DEF LifeNext

LEMMA RemovalStep ==
    ASSUME LifeTypeInv, LifeNext
    PROVE  RemovalInv'
<1> USE DEF LifeTypeInv
<1>0. tasks \in SUBSET Task /\ nextId \in Nat /\ \A i \in IdsOf(tasks) : i \in Nat /\ i < nextId
  BY DEF TypeInv, TypeOK, IdsOf, Task
<1>1. CASE LifeGoesOn
  <2>1. ASSUME entry = "removed" PROVE RemovalInv'
    <3>1. Next /\ instance' = instance /\ UNCHANGED removalVars /\ ~ up /\ TypeInv
      BY <1>1, <2>1 DEF LifeGoesOn, RemovalInv
    <3>2. ~ up'
      BY <3>1, StaysDown
    <3>3. ~ company => AllIdle' /\ IdsOf(tasks') \subseteq IdsOf(tasks)
      BY <2>1, <3>1, StaysIdle DEF RemovalInv
    <3>4. /\ nextId' \in Nat /\ nextId <= nextId'
          /\ IdsOf(tasks') \subseteq IdsOf(tasks) \cup {nextId}
      BY <3>1, IdsGrow
    <3>5. UNCHANGED <<entry, removal, doomed, spared, gaveUp, company, horizon>>
      BY <3>1 DEF removalVars, historyOfRemoval
    <3>6. ASSUME removal # "list", ~ gaveUp
          PROVE  horizon <= nextId' /\ Accounted(tasks)'
      <4>1. horizon \in Nat /\ horizon <= nextId /\ Accounted(tasks)
        BY <2>1, <3>6 DEF RemovalInv
      <4> QED
        BY <1>0, <3>4, <3>5, <4>1 DEF Accounted
    <3> QED
      BY <2>1, <3>2, <3>3, <3>5, <3>6 DEF RemovalInv
  <2>2. ASSUME entry # "removed" PROVE RemovalInv'
    <3>1. UNCHANGED <<entry, horizon>>
      BY <1>1 DEF LifeGoesOn, removalVars, historyOfRemoval
    <3> QED
      BY <2>2, <3>1 DEF RemovalInv
  <2> QED
    BY <2>1, <2>2
<1>2. CASE Remove
  <2>1. up' = FALSE /\ removal' = "list" /\ company' = ~ AllIdle /\ UNCHANGED <<horizon, pc>>
    BY <1>2 DEF Remove, coroutineVars
  <2> QED
    BY <2>1 DEF RemovalInv, AllIdle
<1>3. CASE RemovalList
  <2>1. /\ horizon' = nextId /\ doomed' = IdsOf(tasks) /\ removal' = "delete"
        /\ UNCHANGED <<tasks, nextId, up, pc, entry, company>>
    BY <1>3 DEF RemovalList, vars, hkVars, entryVars, coroutineVars, IdsOf
  <2>2. Accounted(tasks)'
    BY <2>1 DEF Accounted
  <2>3. \A i \in IdsOf(tasks)' : i < horizon'
    BY <1>0, <2>1 DEF IdsOf
  <2> QED
    BY <1>0, <2>1, <2>2, <2>3 DEF RemovalInv, AllIdle
<1>4. CASE RemovalGivesUp
  BY <1>4 DEF RemovalGivesUp, RemovalInv, entryVars, coroutineVars, AllIdle
<1>5. CASE RemovalDelete
  <2>1. PICK id \in doomed : tasks' = delete_task(tasks, id) /\ doomed' = doomed \ {id}
    BY <1>5 DEF RemovalDelete
  <2>2. removal = "delete" /\ UNCHANGED <<nextId, up, pc, entry, removal, spared, gaveUp, company, horizon>>
    BY <1>5 DEF RemovalDelete, entryVars, coroutineVars, historyOfRemoval
  <2>3. IdsOf(tasks') \subseteq IdsOf(tasks) \ {id}
    BY <2>1 DEF delete_task, IdsOf
  <2>4. Accounted(tasks) => Accounted(tasks)'
    BY <2>1, <2>2, <2>3 DEF Accounted
  <2> QED
    BY <2>2, <2>3, <2>4 DEF RemovalInv, AllIdle
<1>6. CASE RemovalDeleteFails
  <2>1. PICK id \in doomed : doomed' = doomed \ {id} /\ spared' = spared \cup {id}
    BY <1>6 DEF RemovalDeleteFails
  <2>2. removal = "delete" /\ UNCHANGED <<tasks, nextId, up, pc, entry, removal, gaveUp, company, horizon>>
    BY <1>6 DEF RemovalDeleteFails, hkVars, entryVars, coroutineVars
  <2>3. Accounted(tasks) => Accounted(tasks)'
    BY <2>1, <2>2 DEF Accounted
  <2> QED
    BY <2>2, <2>3 DEF RemovalInv, AllIdle
<1>7. CASE RemovalDone
  <2>1. /\ doomed = {} /\ removal = "delete" /\ removal' = "none"
        /\ UNCHANGED <<tasks, nextId, up, pc, entry, doomed, spared, gaveUp, company, horizon>>
    BY <1>7 DEF RemovalDone, vars, hkVars, entryVars, coroutineVars, historyOfRemoval
  <2>2. Accounted(tasks) => Accounted(tasks)'
    BY <2>1 DEF Accounted
  <2> QED
    BY <2>1, <2>2 DEF RemovalInv, AllIdle
<1>8. CASE AddAgain
  BY <1>8 DEF AddAgain, RemovalInv, historyOfRemoval
<1> QED
  BY <1>1, <1>2, <1>3, <1>4, <1>5, <1>6, <1>7, <1>8 DEF LifeNext

LEMMA LifeInductive == LifeSpec => []LifeTypeInv
<1>1. LifeInit => LifeTypeInv
  BY TypeInit DEF LifeInit, Init, LifeTypeInv, TypeInv, Distinct, RemovalInv
<1>2. LifeTypeInv /\ [LifeNext]_lifeVars => LifeTypeInv'
  <2>1. ASSUME LifeTypeInv, UNCHANGED lifeVars PROVE LifeTypeInv'
    BY <2>1 DEF LifeTypeInv, RemovalInv, Accounted, AllIdle, IdsOf, TypeInv, TypeOK,
                CoroutineTypes, Distinct, lifeVars, removalVars, historyOfRemoval, vars, hkVars,
                haVars, entryVars, coroutineVars, historyVars
  <2>2. ASSUME LifeTypeInv, LifeNext PROVE LifeTypeInv'
    BY <2>2, LifeTypes, RemovalStep DEF LifeTypeInv
  <2> QED
    BY <2>1, <2>2
<1> QED
  BY <1>1, <1>2, PTL DEF LifeSpec

\* The schedules stay keepable through removals and returns of the entry.
THEOREM SchedulesKeepableForLife == LifeSpec => []TypeOK
<1>1. LifeTypeInv => TypeOK
  BY DEF LifeTypeInv, TypeInv
<1> QED
  BY <1>1, LifeInductive, PTL

\* async_remove_entry deletes every task it can: however many there are, whichever
\* deletes fail and whatever coroutines of the unloaded glue do to the tasks beside
\* it, of the tasks it listed it leaves those it failed to delete, and no other.  A
\* coroutine saves no task from it; it can only add one the removal never saw, and
\* without a coroutine in flight when the entry went there is no such task.
THEOREM RemovalDeletesAllItCan == LifeSpec => []RemovalSparesOnlyFailures
<1>1. LifeTypeInv => RemovalSparesOnlyFailures
  <2> SUFFICES ASSUME LifeTypeInv, entry = "removed", removal = "none", ~ gaveUp, NEW t \in tasks
               PROVE  t.id \in spared \/ (company /\ t.id >= horizon)
    BY DEF RemovalSparesOnlyFailures
  <2>1. /\ t.id \in spared \/ t.id >= horizon
        /\ ~ company => t.id < horizon
    BY DEF LifeTypeInv, RemovalInv, Accounted, IdsOf
  <2>2. t.id \in Nat /\ horizon \in Nat
    BY DEF LifeTypeInv, RemovalInv, TypeInv, TypeOK, Task
  <2> QED
    BY <2>1, <2>2
<1> QED
  BY <1>1, LifeInductive, PTL

-----------------------------------------------------------------------------
\* Convergence: the plan of the one coroutine at work is followed from the list it
\* was made from to its last call.

\* The payloads plan_catalog goes by.
Want == IF stored(options, OPT_MAINTENANCE, FALSE)
        THEN wanted(Items, scan_printers, options) ELSE {}

\* w and t are about the same item of the same printer.
About(w, t) == w.device = t.device /\ w.item = t.item

\* Task t is on the schedule payload w asks for.
Matches(t, w) == IF w.sensor # {} THEN t.sensor = w.sensor ELSE t.every = w.every

\* Call a puts its task on that schedule.
Fixes(a, w) ==
    IF w.sensor # {} THEN "sensor" \in a.fields /\ a.sensor = w.sensor
    ELSE "every" \in a.fields /\ a.every = w.every

\* Every payload has its task, or a call to come sees to it.
Served(S, A, W) ==
    \A w \in W :
        \/ w \in A
        \/ \E t \in task_for_device(S, w.device, w.item) :
              \/ Matches(t, w)
              \/ \E a \in A : a.op = "update" /\ a.id = t.id /\ Fixes(a, w)

\* Every task is wanted, or a call to come deletes it.
Culled(S, A, W) ==
    \A t \in S :
        \/ \E w \in W : About(w, t)
        \/ \E a \in A : a.op = "delete" /\ a.id = t.id

\* No call to come does harm.
Harmless(S, A, W, n) ==
    \A a \in A :
        /\ a.op = "create" => a \in W /\ \A t \in S : ~ About(a, t)
        /\ a.op \in {"update", "delete"} => a.id < n
        /\ a.op = "delete" => \A t \in S : t.id = a.id => \A w \in W : ~ About(w, t)
        /\ a.op = "update" =>
              \A t \in S : t.id = a.id =>
                  \A w \in W : About(w, t) =>
                      /\ "sensor" \in a.fields => a.sensor = w.sensor
                      /\ "every" \in a.fields => a.every = w.every

\* The calls A make of the tasks S what W asks for.
Achieves(S, A, W, n) == Served(S, A, W) /\ Culled(S, A, W) /\ Harmless(S, A, W, n)

\* A reconcile of the instance in charge has yet to list the tasks.
Fresh == \E h \in Handlers : owner[h] = instance /\ pc[h] \in {"waiting", "list"}

\* A coroutine past the lock of its instance is its holder.
HolderInv ==
    /\ \A h \in Handlers :
          /\ pc[h] # "idle" => owner[h] \in Instances
          /\ pc[h] \notin {"idle", "waiting"} => lock[owner[h]] = h
          /\ pc[h] # "notes" => cur[h] = {}
    /\ up => instance \in Instances
    /\ stale = {} => up

\* With nothing left unseen and no reconcile yet to list, the coroutine at work is
\* the last there is, and what it has yet to do leads to the catalog.
WorkInv ==
    stale = {} /\ ~ reloadDue /\ ~ Fresh =>
        /\ \A h \in Handlers :
              /\ pc[h] # "idle" => owner[h] = instance
              /\ pc[h] = "plan" => Alike(snap[h], tasks)
              /\ pc[h] \in {"exec", "notes"} => Achieves(tasks, todo[h], Want, nextId)
        /\ AllIdle => Achieves(tasks, {}, Want, nextId)

ConvInv == TypeInv /\ HolderInv /\ WorkInv

-----------------------------------------------------------------------------
\* The first task of the list.

LEMMA NatMin ==
    ASSUME NEW T \in SUBSET Nat, T # {}
    PROVE  \E m \in T : \A k \in T : m <= k
<1>1. \E m \in T : \A k \in T : ~ (<<k, m>> \in OpToRel(<, Nat))
  BY NatLessThanWellFounded, WFMin
<1>2. PICK m \in T : \A k \in T : ~ (<<k, m>> \in OpToRel(<, Nat))
  BY <1>1
<1>3. \A k \in T : ~ (k < m)
  BY <1>2 DEF OpToRel
<1>4. ASSUME NEW k \in T PROVE m <= k
  <2>1. m \in Nat /\ k \in Nat
    OBVIOUS
  <2> QED
    BY <1>3, <2>1
<1> QED
  BY <1>4

\* A printer with a task for an item has a first one.
LEMMA FirstThereIs ==
    ASSUME NEW S \in SUBSET Task, NEW t \in S
    PROVE  task_for_device(S, t.device, t.item) # {}
<1> DEFINE match == {u \in S : u.device = t.device /\ u.item = t.item}
           ids == {u.id : u \in match}
<1>1. ids \in SUBSET Nat /\ ids # {}
  BY DEF Task
<1>2. PICK m \in ids : \A k \in ids : m <= k
  BY <1>1, NatMin
<1>3. PICK u \in match : u.id = m
  OBVIOUS
<1> QED
  BY <1>2, <1>3 DEF task_for_device

LEMMA FirstAlike ==
    ASSUME NEW S, NEW R, Alike(S, R), NEW p, NEW key,
           NEW t \in task_for_device(S, p, key), NEW u \in R, Same(t, u)
    PROVE  u \in task_for_device(R, p, key)
BY DEF Alike, Same, task_for_device

LEMMA FirstUpdated ==
    ASSUME NEW S, NEW R, NEW call, Updated(S, R, call), NEW p, NEW key,
           NEW t \in task_for_device(S, p, key), NEW u \in R, Became(t, u, call)
    PROVE  u \in task_for_device(R, p, key)
BY DEF Updated, Became, task_for_device

-----------------------------------------------------------------------------
\* What each call makes of the calls to come.

Payloads(W) ==
    /\ W \subseteq Create
    /\ \A v, w \in W : About(v, w) => v = w

\* What is armed and what is noted does not matter.
LEMMA AchievesAlike ==
    ASSUME NEW S, NEW R, Alike(S, R), NEW A, NEW W, NEW n, Achieves(S, A, W, n)
    PROVE  Achieves(R, A, W, n)
<1>1. Served(R, A, W)
  <2> SUFFICES ASSUME NEW w \in W, w \notin A
               PROVE  \E u \in task_for_device(R, w.device, w.item) :
                         \/ Matches(u, w)
                         \/ \E a \in A : a.op = "update" /\ a.id = u.id /\ Fixes(a, w)
    BY DEF Served
  <2>1. PICK t \in task_for_device(S, w.device, w.item) :
            Matches(t, w) \/ \E a \in A : a.op = "update" /\ a.id = t.id /\ Fixes(a, w)
    BY DEF Achieves, Served
  <2>2. PICK u \in R : Same(t, u)
    BY DEF Alike, task_for_device
  <2>3. u \in task_for_device(R, w.device, w.item)
    BY <2>2, FirstAlike
  <2> QED
    BY <2>1, <2>2, <2>3 DEF Same, Matches
<1>2. Culled(R, A, W)
  BY DEF Achieves, Culled, Alike, Same, About
<1>3. Harmless(R, A, W, n)
  BY DEF Achieves, Harmless, Alike, Same, About
<1> QED
  BY <1>1, <1>2, <1>3 DEF Achieves

LEMMA AchievesWithout ==
    ASSUME NEW S, NEW A, NEW W, NEW n, Achieves(S, A, W, n), Payloads(W), NEW a, a.op = "clear"
    PROVE  Achieves(S, A \ {a}, W, n)
<1>1. \A w \in W : w.op = "create"
  BY DEF Payloads, Create
<1> QED
  BY <1>1 DEF Achieves, Served, Culled, Harmless

LEMMA AchievesCreate ==
    ASSUME NEW n \in Nat, NEW S \in SUBSET {t \in Kept : t.id < n},
           NEW A, NEW W, Achieves(S, A, W, n), Payloads(W), NEW a \in A, a.op = "create",
           \A b \in A : b.op \in {"create", "update", "delete", "clear"} /\ (b.op \in {"update", "delete"} => b.id \in Nat)
    PROVE  Achieves(add_maintenance_task(S, n, a), A \ {a}, W, n + 1)
<1> DEFINE new == [id |-> n, device |-> a.device, item |-> a.item, armed |-> FALSE,
                   notes |-> a.notes, kind |-> a.kind, sensor |-> a.sensor, every |-> a.every]
           R == S \cup {new}
<1>1. /\ new.id = n /\ new.device = a.device /\ new.item = a.item
      /\ new.sensor = a.sensor /\ new.every = a.every
      /\ add_maintenance_task(S, n, a) = R
  BY DEF add_maintenance_task
<1> HIDE DEF new
<1>2. a \in W /\ \A t \in S : ~ About(a, t)
  BY DEF Achieves, Harmless
<1>3. \A t \in S : t.id \in Nat /\ t.id < n
  BY DEF Kept, Task
<1>4. new \in task_for_device(R, a.device, a.item) /\ Matches(new, a)
  BY <1>1, <1>2 DEF task_for_device, About, Matches
<1>5. \A w \in W : w # a => ~ About(w, new)
  BY <1>1, <1>2 DEF Payloads, About
<1>6. \A w \in W : w # a =>
          task_for_device(S, w.device, w.item) \subseteq task_for_device(R, w.device, w.item)
  BY <1>5 DEF task_for_device, About
<1>7. Served(R, A \ {a}, W)
  BY <1>4, <1>6 DEF Achieves, Served
<1>8. Culled(R, A \ {a}, W)
  BY <1>1, <1>2 DEF Achieves, Culled, About
<1>9. Harmless(R, A \ {a}, W, n + 1)
  <2> SUFFICES ASSUME NEW b \in A, b # a
               PROVE  Harmless(R, {b}, W, n + 1)
    BY DEF Harmless
  <2>1. b.op \in {"update", "delete"} => b.id < n + 1 /\ new.id # b.id
    BY <1>1 DEF Achieves, Harmless
  <2>2. b.op = "create" => b \in W /\ ~ About(b, new)
    BY <1>5 DEF Achieves, Harmless
  <2> QED
    BY <2>1, <2>2 DEF Achieves, Harmless
<1> QED
  BY <1>1, <1>7, <1>8, <1>9 DEF Achieves

LEMMA AchievesUpdate ==
    ASSUME NEW S \in SUBSET Task, NEW A, NEW W, NEW n, Achieves(S, A, W, n), Payloads(W),
           Distinct(S), NEW a \in A, a.op = "update"
    PROVE  Achieves(update_maintenance_task(S, a), A \ {a}, W, n)
<1> DEFINE R == update_maintenance_task(S, a)
<1>1. Updated(S, R, a)
  BY CallUpdates
<1> HIDE DEF R
<1>2. \A w \in W : w \notin {a} /\ w.op = "create"
  BY DEF Payloads, Create
<1>3. \A t \in S : t.id = a.id =>
          \A w \in W : About(w, t) =>
              /\ "sensor" \in a.fields => a.sensor = w.sensor
              /\ "every" \in a.fields => a.every = w.every
  BY DEF Achieves, Harmless
<1>4. ASSUME NEW w \in W, w \notin A \ {a}
      PROVE  \E u \in task_for_device(R, w.device, w.item) :
                 \/ Matches(u, w)
                 \/ \E b \in A \ {a} : b.op = "update" /\ b.id = u.id /\ Fixes(b, w)
  <2>1. PICK t \in task_for_device(S, w.device, w.item) :
            Matches(t, w) \/ \E b \in A : b.op = "update" /\ b.id = t.id /\ Fixes(b, w)
    BY <1>2, <1>4 DEF Achieves, Served
  <2>2. t \in S /\ About(w, t)
    BY DEF task_for_device, About
  <2>3. PICK u \in R : Became(t, u, a)
    BY <1>1, <2>2 DEF Updated
  <2>4. u \in task_for_device(R, w.device, w.item) /\ u.id = t.id
    BY <1>1, <2>1, <2>3, FirstUpdated DEF Became
  <2>5. Matches(t, w) => Matches(u, w)
    BY <1>3, <2>2, <2>3 DEF Matches, Became
  <2>6. a.id = t.id /\ Fixes(a, w) => Matches(u, w)
    BY <2>3 DEF Fixes, Matches, Became
  <2> QED
    BY <2>1, <2>4, <2>5, <2>6
<1>5. Served(R, A \ {a}, W)
  BY <1>4 DEF Served
<1>6. Culled(R, A \ {a}, W)
  <2> SUFFICES ASSUME NEW u \in R, ~ \E w \in W : About(w, u)
               PROVE  \E b \in A \ {a} : b.op = "delete" /\ b.id = u.id
    BY DEF Culled
  <2>1. PICK t \in S : Became(t, u, a)
    BY <1>1 DEF Updated
  <2> QED
    BY <2>1 DEF Achieves, Culled, Became, About
<1>7. Harmless(R, A \ {a}, W, n)
  <2>1. \A u \in R : \E t \in S : t.id = u.id /\ t.device = u.device /\ t.item = u.item
    BY <1>1 DEF Updated, Became
  <2> QED
    BY <2>1 DEF Achieves, Harmless, About
<1> QED
  BY <1>5, <1>6, <1>7 DEF Achieves, R

LEMMA AchievesDelete ==
    ASSUME NEW S, NEW A, NEW W, NEW n, Achieves(S, A, W, n), Payloads(W),
           NEW a \in A, a.op = "delete"
    PROVE  Achieves(delete_task(S, a.id), A \ {a}, W, n)
<1> DEFINE R == delete_task(S, a.id)
<1>1. \A t : t \in R <=> t \in S /\ t.id # a.id
  BY DEF delete_task
<1> HIDE DEF R
<1>2. \A w \in W : w.op = "create"
  BY DEF Payloads, Create
<1>3. \A t \in S : t.id = a.id => \A w \in W : ~ About(w, t)
  BY DEF Achieves, Harmless
<1>4. \A w \in W : task_for_device(S, w.device, w.item) \subseteq task_for_device(R, w.device, w.item)
  BY <1>1, <1>3 DEF task_for_device, About
<1>5. Served(R, A \ {a}, W)
  BY <1>2, <1>4 DEF Achieves, Served
<1>6. Culled(R, A \ {a}, W)
  BY <1>1 DEF Achieves, Culled
<1>7. Harmless(R, A \ {a}, W, n)
  BY <1>1 DEF Achieves, Harmless
<1> QED
  BY <1>5, <1>6, <1>7 DEF Achieves, R

-----------------------------------------------------------------------------
\* What the planner goes by, and what it decides.

LEMMA WantIs ==
    ASSUME TypeOK, NEW w
    PROVE  w \in Want <=>
             /\ stored(options, OPT_MAINTENANCE, FALSE)
             /\ \E p \in registered : \E key \in Items :
                   LET r == resolve(key, resolved_family(p, model[p], options), p, options)
                   IN  r.enabled /\ w = build_catalog_task_payload(r, p, p \in usage)
BY WantedIs DEF Want

LEMMA WantPayloads ==
    ASSUME TypeOK
    PROVE  Payloads(Want)
<1>1. Want \subseteq Create
  BY WantedTypes DEF Want
<1>2. ASSUME NEW v \in Want, NEW w \in Want, About(v, w)
      PROVE  v = w
  <2> DEFINE Payload(p, key) ==
          build_catalog_task_payload(resolve(key, resolved_family(p, model[p], options), p, options),
                                     p, p \in usage)
  <2>1. \A x \in Want : \E p, key : x = Payload(p, key)
    BY WantIs
  <2>2. \A p, key : Payload(p, key).device = p /\ Payload(p, key).item = key
    BY DEF build_catalog_task_payload, resolve
  <2> HIDE DEF Payload
  <2> QED
    BY <1>2, <2>1, <2>2 DEF About
<1> QED
  BY <1>1, <1>2 DEF Payloads

\* The planner's actions, one kind at a time.
LEMMA PlanIs ==
    ASSUME NEW list, NEW a
    PROVE  a \in plan_all(list) <=>
             \/ a \in plan_clears(list, scan_up_to_date)
             \/ a \in Want /\ task_for_device(list, a.device, a.item) = {}
             \/ \E t \in list : /\ t.item \in BY_KEY /\ ~ \E w \in Want : About(w, t)
                                /\ a = DeleteTask(t.id, t.device)
             \/ \E w \in Want : \E t \in task_for_device(list, w.device, w.item) :
                   /\ catalog_task_drift(t, w) # {}
                   /\ a = UpdateCatalogTask(t.id, w, catalog_task_drift(t, w))
<1> DEFINE Creates == {w \in Want : task_for_device(list, w.device, w.item) = {}}
           Unwanted == {u \in list : /\ u.item \in BY_KEY
                                     /\ ~ \E w \in Want : w.device = u.device /\ w.item = u.item}
           Drifting(w) == {u \in task_for_device(list, w.device, w.item) :
                              catalog_task_drift(u, w) # {}}
           Updates(w) == {UpdateCatalogTask(t.id, w, catalog_task_drift(t, w)) : t \in Drifting(w)}
<1>1. plan_all(list)
        = plan_clears(list, scan_up_to_date)
          \cup (Creates \cup {DeleteTask(t.id, t.device) : t \in Unwanted}
                \cup UNION {Updates(w) : w \in Want})
  BY DEF plan_all, plan_catalog, Want
<1>2. a \in Creates <=> a \in Want /\ task_for_device(list, a.device, a.item) = {}
  OBVIOUS
<1>3. \A t : t \in Unwanted <=> t \in list /\ t.item \in BY_KEY /\ ~ \E w \in Want : About(w, t)
  BY DEF About
<1>4. \A w : \A t : t \in Drifting(w) <=>
          t \in task_for_device(list, w.device, w.item) /\ catalog_task_drift(t, w) # {}
  OBVIOUS
<1>5. \A w : a \in Updates(w) <=>
          \E t \in Drifting(w) : a = UpdateCatalogTask(t.id, w, catalog_task_drift(t, w))
  OBVIOUS
<1> HIDE DEF Creates, Unwanted, Drifting, Updates
<1> QED
  BY <1>1, <1>2, <1>3, <1>4, <1>5

\* A plan made from the tasks as they are achieves what the options ask for.
LEMMA PlanAchieves ==
    ASSUME TypeInv, NEW list \in SUBSET Kept, Alike(list, tasks)
    PROVE  Achieves(tasks, plan_all(list), Want, nextId)
<1> DEFINE A == plan_all(list)
<1>1. /\ list \in SUBSET Task
      /\ \A t \in list : t.id < nextId /\ t.id \in Nat /\ t.item \in BY_KEY
      /\ \A t, u \in list : t.id = u.id => t.device = u.device /\ t.item = u.item
  <2>1. tasks \subseteq Task /\ (\A t \in tasks : t.id < nextId) /\ Distinct(tasks)
    BY DEF TypeInv, TypeOK
  <2>2. \A t \in list : \E u \in tasks : Same(t, u)
    BY DEF Alike
  <2>3. \A t \in list : t \in Task /\ t.id \in Nat /\ t.item \in BY_KEY
    BY MaintenanceAssumption DEF Kept, Task
  <2>4. \A t \in list : t.id < nextId
    BY <2>1, <2>2 DEF Same
  <2>5. \A t, u \in list : t.id = u.id => t.device = u.device /\ t.item = u.item
    BY <2>1, <2>2 DEF Same, Distinct
  <2> QED
    BY <2>3, <2>4, <2>5
<1>2. Payloads(Want)
  BY WantPayloads DEF TypeInv
<1>3. \A w \in Want : w.op = "create" /\ (w.sensor = {} => w.every # {})
  BY WantedTypes DEF Want, TypeInv, Create, Keepable
<1>4. \A a \in plan_clears(list, scan_up_to_date) : a.op = "clear"
  BY DEF plan_clears, ClearTask
<1>5. \A t : DeleteTask(t.id, t.device).op = "delete" /\ DeleteTask(t.id, t.device).id = t.id
  BY DEF DeleteTask
<1>7. Served(list, A, Want)
  <2> SUFFICES ASSUME NEW w \in Want, w \notin A
               PROVE  \E t \in task_for_device(list, w.device, w.item) :
                         \/ Matches(t, w)
                         \/ \E a \in A : a.op = "update" /\ a.id = t.id /\ Fixes(a, w)
    BY DEF Served
  <2>1. PICK t \in task_for_device(list, w.device, w.item) : TRUE
    BY PlanIs
  <2>2. ASSUME ~ Matches(t, w)
        PROVE  \E a \in A : a.op = "update" /\ a.id = t.id /\ Fixes(a, w)
    <3> DEFINE f == catalog_task_drift(t, w)
               a == UpdateCatalogTask(t.id, w, f)
    <3>1. IF w.sensor # {} THEN "sensor" \in f ELSE "every" \in f
      BY <2>2 DEF Matches, catalog_task_drift
    <3>2. a \in A
      BY <2>1, <3>1, PlanIs
    <3>3. a.op = "update" /\ a.id = t.id /\ a.fields = f /\ a.sensor = w.sensor /\ a.every = w.every
      BY DEF UpdateCatalogTask
    <3> HIDE DEF a, f
    <3> QED
      BY <3>1, <3>2, <3>3 DEF Fixes
  <2> QED
    BY <2>1, <2>2
<1>8. Culled(list, A, Want)
  BY <1>1, <1>5, PlanIs DEF Culled
<1>9. Harmless(list, A, Want, nextId)
  <2> SUFFICES ASSUME NEW a \in A PROVE Harmless(list, {a}, Want, nextId)
    BY DEF Harmless
  <2>1. CASE a \in plan_clears(list, scan_up_to_date)
    BY <1>4, <2>1 DEF Harmless
  <2>2. CASE a \in Want /\ task_for_device(list, a.device, a.item) = {}
    <3>1. \A t \in list : ~ About(a, t)
      BY <1>1, <2>2, FirstThereIs DEF About
    <3> QED
      BY <1>3, <2>2, <3>1 DEF Harmless
  <2>3. ASSUME NEW t \in list, ~ \E w \in Want : About(w, t), a = DeleteTask(t.id, t.device)
        PROVE  Harmless(list, {a}, Want, nextId)
    BY <1>1, <1>5, <2>3 DEF Harmless, About
  <2>4. ASSUME NEW w \in Want, NEW t \in task_for_device(list, w.device, w.item),
               a = UpdateCatalogTask(t.id, w, catalog_task_drift(t, w))
        PROVE  Harmless(list, {a}, Want, nextId)
    <3>1. t \in list /\ t.device = w.device /\ t.item = w.item
      BY DEF task_for_device
    <3>2. \A u \in list : u.id = t.id => \A v \in Want : About(v, u) => v = w
      BY <1>1, <1>2, <3>1 DEF Payloads, About
    <3>3. a.op = "update" /\ a.id = t.id /\ a.sensor = w.sensor /\ a.every = w.every
      BY <2>4 DEF UpdateCatalogTask
    <3> QED
      BY <1>1, <3>1, <3>2, <3>3 DEF Harmless
  <2>5. \/ a \in plan_clears(list, scan_up_to_date)
        \/ a \in Want /\ task_for_device(list, a.device, a.item) = {}
        \/ \E t \in list : ~ (\E w \in Want : About(w, t)) /\ a = DeleteTask(t.id, t.device)
        \/ \E w \in Want : \E t \in task_for_device(list, w.device, w.item) :
              a = UpdateCatalogTask(t.id, w, catalog_task_drift(t, w))
    BY PlanIs
  <2> HIDE DEF A
  <2> QED
    BY <2>1, <2>2, <2>3, <2>4, <2>5
<1>10. Achieves(list, A, Want, nextId)
  BY <1>7, <1>8, <1>9 DEF Achieves
<1> QED
  BY <1>10, AchievesAlike

\* With no call to come the tasks are those the catalog and the options ask for.
LEMMA DoneConverges ==
    ASSUME TypeInv, Achieves(tasks, {}, Want, nextId)
    PROVE  Converged
<1>1. \A t \in tasks : \E w \in Want : About(w, t)
  BY DEF Achieves, Culled
<1>2. \A w \in Want : \E t \in task_for_device(tasks, w.device, w.item) : Matches(t, w)
  BY DEF Achieves, Served
<1> SUFFICES ASSUME NEW p \in Printers, NEW key \in Items
             PROVE  IF Applies(p, key)
                    THEN \E t \in task_for_device(tasks, p, key) :
                            schedule(p, key) = IF p \in usage /\ CATALOG[key].hours # {}
                                               THEN t.sensor ELSE t.every
                    ELSE \A t \in tasks : t.device # p \/ t.item # key
  BY DEF Converged
<1> DEFINE family == resolved_family(p, model[p], options)
           r == resolve(key, family, p, options)
           w == build_catalog_task_payload(r, p, p \in usage)
<1>3. /\ r.enabled = item_enabled(key, family, p, options)
      /\ w.device = p /\ w.item = key
      /\ w.sensor = IF r.hours # {} /\ p \in usage THEN {sensor_binding(r)} ELSE {}
      /\ w.every = IF r.hours # {} /\ p \in usage THEN {}
                   ELSE {[interval |-> r.interval, unit |-> r.unit]}
  BY DEF resolve, build_catalog_task_payload, metered
<1>4. r.hours # {} <=> CATALOG[key].hours # {}
  BY AxisIsTheItems, FamilyTypes, MaintenanceAssumption DEF TypeInv, TypeOK
<1>5. schedule(p, key) = IF r.hours # {} /\ p \in usage THEN {sensor_binding(r)}
                         ELSE {[interval |-> r.interval, unit |-> r.unit]}
  BY DEF schedule
<1>6. ASSUME Applies(p, key) PROVE w \in Want
  <2>1. p \in registered /\ r.enabled /\ stored(options, OPT_MAINTENANCE, FALSE)
    BY <1>3, <1>6 DEF Applies
  <2> QED
    BY <2>1, WantIs DEF TypeInv
<1>7. ASSUME NEW v \in Want, v.device = p, v.item = key PROVE Applies(p, key)
  <2>1. PICK q \in registered, k \in Items :
            LET s == resolve(k, resolved_family(q, model[q], options), q, options)
            IN  s.enabled /\ v = build_catalog_task_payload(s, q, q \in usage)
    BY WantIs DEF TypeInv
  <2>2. v.device = q /\ v.item = k
    BY <2>1 DEF resolve, build_catalog_task_payload
  <2>3. q = p /\ k = key
    BY <1>7, <2>2
  <2>4. stored(options, OPT_MAINTENANCE, FALSE)
    BY DEF Want
  <2> QED
    BY <1>3, <2>1, <2>3, <2>4 DEF Applies
<1> HIDE DEF w, r
<1>8. CASE Applies(p, key)
  <2>1. PICK t \in task_for_device(tasks, p, key) : Matches(t, w)
    BY <1>2, <1>3, <1>6, <1>8
  <2> QED
    BY <1>3, <1>4, <1>5, <1>8, <2>1 DEF Matches
<1>9. CASE ~ Applies(p, key)
  BY <1>1, <1>7, <1>9 DEF About
<1> QED
  BY <1>8, <1>9

-----------------------------------------------------------------------------
\* The lock of an instance has one holder.

LEMMA HolderCoroutine ==
    ASSUME TypeInv, HolderInv, NEW h \in Handlers, Coroutine(h)
    PROVE  HolderInv'
<1> USE DEF HolderInv
<1>1. /\ pc \in [Handlers -> {"idle", "waiting", "list", "plan", "exec", "notes"}]
      /\ lock \in [Instances -> Handlers \cup {Free}]
      /\ owner \in [Handlers -> 0 .. MaxInstances] /\ cur \in [Handlers -> SUBSET Clear]
      /\ Free \notin Handlers
  BY MaintenanceAssumption DEF TypeInv, TypeOK, CoroutineTypes
<1>2. CASE Acquire(h)
  BY <1>1, <1>2 DEF Acquire, entryVars, historyVars
<1>3. CASE List(h)
  BY <1>1, <1>3 DEF List, entryVars
<1>4. CASE Plan(h)
  BY <1>1, <1>4 DEF Plan, entryVars, historyVars
<1>5. CASE ExecCreate(h) \/ ExecUpdate(h) \/ ExecDelete(h)
  BY <1>1, <1>5 DEF ExecCreate, ExecUpdate, ExecDelete, Done, entryVars, historyVars
<1>6. CASE ExecComplete(h)
  <2>1. pc[h] = "exec"
    BY <1>6 DEF ExecComplete, Executing
  <2> QED
    BY <1>1, <1>6, <2>1 DEF ExecComplete, entryVars, historyVars
<1>7. CASE ExecNotes(h)
  BY <1>1, <1>7 DEF ExecNotes, entryVars, historyVars
<1>8. CASE Fail(h)
  <2>1. stale' # {} /\ (up' => up) /\ instance' = instance
    BY <1>8 DEF Fail
  <2>2. pc[h] \notin {"idle", "waiting"}
    BY <1>8 DEF Fail
  <2> QED
    BY <1>1, <1>8, <2>1, <2>2 DEF Fail, Release
<1>9. CASE Finish(h)
  BY <1>1, <1>9 DEF Finish, Release, entryVars, historyVars
<1> QED
  BY <1>2, <1>3, <1>4, <1>5, <1>6, <1>7, <1>8, <1>9 DEF Coroutine

LEMMA HolderStart ==
    ASSUME TypeInv, HolderInv, NEW i \in Instances, NEW setup, StartReconcile(i, setup)
    PROVE  \A h \in Handlers :
              /\ pc'[h] # "idle" => owner'[h] \in Instances
              /\ pc'[h] \notin {"idle", "waiting"} => lock'[owner'[h]] = h
              /\ pc'[h] # "notes" => cur'[h] = {}
BY DEF StartReconcile, HolderInv, TypeInv, TypeOK, CoroutineTypes

LEMMA HolderEnvironment ==
    ASSUME TypeInv, HolderInv, Next, ~ \E h \in Handlers : Coroutine(h)
    PROVE  HolderInv'
<1>1. ASSUME NEW p \in Printers, FirmwareEntity(p) PROVE HolderInv'
  <2>1. CASE up /\ StartReconcile(instance, FALSE)
    BY <1>1, <2>1, HolderStart DEF HolderInv, FirmwareEntity, entryVars
  <2>2. CASE ~ up /\ stale' = stale \cup {"down"} /\ UNCHANGED coroutineVars
    BY <1>1, <2>2 DEF HolderInv, FirmwareEntity, entryVars, coroutineVars
  <2> QED
    BY <1>1, <2>1, <2>2 DEF FirmwareEntity
<1>2. ASSUME NEW p \in Printers, UsageSensor(p) \/ FirmwareReport(p) PROVE HolderInv'
  BY <1>2 DEF HolderInv, UsageSensor, FirmwareReport, entryVars, coroutineVars, historyVars
<1>3. ASSUME ChangeOptions PROVE HolderInv'
  BY <1>3 DEF HolderInv, ChangeOptions, coroutineVars
<1>4. ASSUME SetUp PROVE HolderInv'
  <2>1. instance' \in Instances
    <3>1. instance \in 0 .. MaxInstances /\ instance < MaxInstances /\ instance' = instance + 1
      BY <1>4 DEF SetUp, TypeInv, TypeOK
    <3> QED
      BY <3>1, MaintenanceAssumption DEF Instances
  <2>2. StartReconcile(instance', TRUE) /\ up'
    BY <1>4 DEF SetUp
  <2> QED
    BY <2>1, <2>2, HolderStart DEF HolderInv
<1>5. ASSUME ComesDue \/ UserCompletes \/ UserEdits PROVE HolderInv'
  BY <1>5 DEF HolderInv, ComesDue, UserCompletes, UserEdits, entryVars, coroutineVars, historyVars
<1> QED
  BY <1>1, <1>2, <1>3, <1>4, <1>5 DEF Next

-----------------------------------------------------------------------------
\* The environment's steps.

LEMMA AlikeTransitive ==
    ASSUME NEW S, NEW R, NEW Q, Alike(S, R), Alike(R, Q)
    PROVE  Alike(S, Q)
<1>1. \A t, u, v : Same(t, u) /\ Same(u, v) => Same(t, v)
  BY DEF Same
<1>2. ASSUME NEW t \in S PROVE \E v \in Q : Same(t, v)
  BY <1>1 DEF Alike
<1>3. ASSUME NEW v \in Q PROVE \E t \in S : Same(t, v)
  BY <1>1 DEF Alike
<1> QED
  BY <1>2, <1>3 DEF Alike

LEMMA AlikeItself ==
    ASSUME NEW S
    PROVE  Alike(S, S)
BY DEF Alike, Same

LEMMA WantFrame ==
    ASSUME UNCHANGED <<registered, usage, options>>
    PROVE  Want' = Want
<1>1. scan_printers' = scan_printers
  BY DEF scan_printers
<1> QED
  BY <1>1 DEF Want

\* A step that changes what is armed at most.
LEMMA ArmingKeepsWork ==
    ASSUME WorkInv, Alike(tasks, tasks'),
           UNCHANGED <<nextId, registered, usage, options, instance, reloadDue, stale,
                       pc, owner, snap, todo>>
    PROVE  WorkInv'
<1>1. Want' = Want
  BY WantFrame
<1>2. Fresh' = Fresh /\ AllIdle' = AllIdle
  BY DEF Fresh, AllIdle
<1>3. \A A : Achieves(tasks, A, Want, nextId) => Achieves(tasks', A, Want', nextId')
  BY <1>1, AchievesAlike
<1>4. \A S : Alike(S, tasks) => Alike(S, tasks')
  BY AlikeTransitive
<1> QED
  BY <1>2, <1>3, <1>4 DEF WorkInv

LEMMA StartIsFresh ==
    ASSUME TypeInv, NEW i, NEW setup, StartReconcile(i, setup), instance' = i
    PROVE  Fresh'
BY DEF StartReconcile, Fresh, TypeInv, TypeOK, CoroutineTypes

LEMMA WorkEnvironment ==
    ASSUME ConvInv, Next, ~ \E h \in Handlers : Coroutine(h)
    PROVE  WorkInv'
<1>1. TypeInv /\ HolderInv /\ WorkInv /\ tasks \in SUBSET Task
  BY DEF ConvInv, TypeInv, TypeOK
<1>2. ASSUME NEW p \in Printers, FirmwareEntity(p) PROVE WorkInv'
  <2>1. CASE StartReconcile(instance, FALSE)
    BY <1>1, <1>2, <2>1, StartIsFresh DEF FirmwareEntity, entryVars, WorkInv
  <2>2. CASE stale' = stale \cup {"down"}
    BY <2>2 DEF WorkInv
  <2> QED
    BY <1>2, <2>1, <2>2 DEF FirmwareEntity
<1>3. ASSUME NEW p \in Printers, UsageSensor(p) PROVE WorkInv'
  BY <1>3 DEF UsageSensor, WorkInv
<1>4. ASSUME NEW p \in Printers, FirmwareReport(p) PROVE WorkInv'
  BY <1>1, <1>4, ArmingKeepsWork, AlikeItself
     DEF FirmwareReport, hkVars, entryVars, coroutineVars, historyVars
<1>5. ASSUME ChangeOptions PROVE WorkInv'
  BY <1>5 DEF ChangeOptions, WorkInv
<1>6. ASSUME SetUp PROVE WorkInv'
  BY <1>1, <1>6, StartIsFresh DEF SetUp, WorkInv
<1>7. ASSUME ComesDue \/ UserCompletes PROVE WorkInv'
  <2>1. Alike(tasks, tasks')
    BY <1>1, <1>7, ArmedAlike DEF ComesDue, UserCompletes
  <2> QED
    BY <1>1, <1>7, <2>1, ArmingKeepsWork
       DEF ComesDue, UserCompletes, haVars, entryVars, coroutineVars, historyVars
<1>8. ASSUME UserEdits PROVE WorkInv'
  BY <1>8 DEF UserEdits, WorkInv
<1> QED
  BY <1>2, <1>3, <1>4, <1>5, <1>6, <1>7, <1>8 DEF Next

-----------------------------------------------------------------------------
\* The coroutine at work.

\* It is the only one, of the instance in charge.
LEMMA Alone ==
    ASSUME ConvInv, stale = {}, ~ reloadDue, ~ Fresh, NEW h \in Handlers, pc[h] # "idle"
    PROVE  owner[h] = instance /\ \A g \in Handlers \ {h} : pc[g] = "idle"
<1>1. \A g \in Handlers : pc[g] # "idle" => owner[g] = instance /\ lock[instance] = g
  BY DEF ConvInv, WorkInv, HolderInv, Fresh
<1> QED
  BY <1>1

\* From its plan to its last call it stays on its way to the catalog.
LEMMA WorkGoesOn ==
    ASSUME ConvInv, NEW h \in Handlers, pc[h] \in {"plan", "exec", "notes"},
           NEW step \in {"exec", "notes"}, pc' = [pc EXCEPT ![h] = step],
           UNCHANGED <<registered, usage, options, instance, reloadDue, stale, owner>>,
           stale = {} /\ ~ reloadDue /\ ~ Fresh => Achieves(tasks', todo'[h], Want, nextId')
    PROVE  WorkInv'
<1>1. pc \in [Handlers -> {"idle", "waiting", "list", "plan", "exec", "notes"}]
  BY DEF ConvInv, TypeInv, TypeOK, CoroutineTypes
<1>2. Want' = Want
  BY WantFrame
<1>3. pc'[h] = step /\ \A g \in Handlers \ {h} : pc'[g] = pc[g]
  BY <1>1
<1>4. Fresh' = Fresh /\ ~ AllIdle'
  BY <1>3 DEF Fresh, AllIdle
<1> SUFFICES ASSUME stale = {}, ~ reloadDue, ~ Fresh
             PROVE  \A g \in Handlers :
                       /\ pc'[g] # "idle" => owner'[g] = instance'
                       /\ pc'[g] = "plan" => Alike(snap'[g], tasks')
                       /\ pc'[g] \in {"exec", "notes"} => Achieves(tasks', todo'[g], Want', nextId')
  BY <1>4 DEF WorkInv
<1>5. owner[h] = instance /\ \A g \in Handlers \ {h} : pc[g] = "idle"
  BY Alone
<1> QED
  BY <1>2, <1>3, <1>5

\* What the calls of a coroutine have in common.
LEMMA WorkCalls ==
    ASSUME ConvInv, NEW h \in Handlers,
           ExecCreate(h) \/ ExecUpdate(h) \/ ExecDelete(h) \/ ExecComplete(h) \/ ExecNotes(h)
    PROVE  WorkInv'
<1>1. /\ pc \in [Handlers -> {"idle", "waiting", "list", "plan", "exec", "notes"}]
      /\ todo \in [Handlers -> SUBSET Action] /\ cur \in [Handlers -> SUBSET Clear]
      /\ tasks \in SUBSET Task /\ tasks \in SUBSET {t \in Kept : t.id < nextId}
      /\ nextId \in Nat /\ Distinct(tasks) /\ Payloads(Want)
  BY WantPayloads DEF ConvInv, TypeInv, TypeOK, CoroutineTypes, Kept
<1>2. pc[h] \in {"exec", "notes"}
  BY DEF ExecCreate, ExecUpdate, ExecDelete, ExecComplete, ExecNotes, Executing
<1>3. UNCHANGED <<registered, usage, options, instance, reloadDue, stale, owner>>
  BY DEF ExecCreate, ExecUpdate, ExecDelete, ExecComplete, ExecNotes, Done, haVars, entryVars, historyVars
<1> SUFFICES ASSUME stale = {} /\ ~ reloadDue /\ ~ Fresh => Achieves(tasks, todo[h], Want, nextId)
             PROVE  /\ \E step \in {"exec", "notes"} : pc' = [pc EXCEPT ![h] = step]
                    /\ stale = {} /\ ~ reloadDue /\ ~ Fresh => Achieves(tasks', todo'[h], Want, nextId')
  BY <1>2, <1>3, WorkGoesOn DEF ConvInv, WorkInv
<1>4. \A a \in todo[h] : a \in Action
  BY <1>1
<1>5. ASSUME NEW a \in todo[h], Done(h, a), pc[h] = "exec"
      PROVE  pc' = [pc EXCEPT ![h] = "exec"] /\ todo'[h] = todo[h] \ {a}
  BY <1>1, <1>5 DEF Done
<1>6. CASE ExecCreate(h)
  <2>1. PICK a \in todo[h] :
            /\ a.op = "create" /\ Done(h, a) /\ pc[h] = "exec"
            /\ tasks' = add_maintenance_task(tasks, nextId, a) /\ nextId' = nextId + 1
    BY <1>6 DEF ExecCreate, Executing
  <2>2. \A b \in todo[h] : /\ b.op \in {"create", "update", "delete", "clear"}
                           /\ b.op \in {"update", "delete"} => b.id \in Nat
    BY <1>4 DEF Action, Create, Update, Delete, Clear
  <2> QED
    BY <1>1, <1>5, <2>1, <2>2, AchievesCreate
<1>7. CASE ExecUpdate(h)
  <2>1. PICK a \in todo[h] : /\ a.op = "update" /\ Done(h, a) /\ pc[h] = "exec"
                             /\ tasks' = update_maintenance_task(tasks, a) /\ nextId' = nextId
    BY <1>7 DEF ExecUpdate, Executing
  <2> QED
    BY <1>1, <1>5, <2>1, AchievesUpdate
<1>8. CASE ExecDelete(h)
  <2>1. PICK a \in todo[h] : /\ a.op = "delete" /\ Done(h, a) /\ pc[h] = "exec"
                             /\ tasks' = delete_task(tasks, a.id) /\ nextId' = nextId
    BY <1>8 DEF ExecDelete, Executing
  <2> QED
    BY <1>1, <1>5, <2>1, AchievesDelete
<1>9. CASE ExecComplete(h)
  <2>1. /\ \E i : tasks' = complete_task(tasks, i)
        /\ pc' = [pc EXCEPT ![h] = "notes"] /\ UNCHANGED <<todo, nextId>>
    BY <1>9 DEF ExecComplete
  <2>2. Alike(tasks, tasks')
    BY <1>1, <2>1, ArmedAlike
  <2> QED
    BY <2>1, <2>2, AchievesAlike
<1>10. CASE ExecNotes(h)
  <2>1. PICK a \in cur[h] :
            /\ tasks' = update_maintenance_task(tasks, [id |-> a.id, notes |-> a.notes, fields |-> {"notes"}])
            /\ todo' = [todo EXCEPT ![h] = @ \ {a}] /\ pc' = [pc EXCEPT ![h] = "exec"]
            /\ nextId' = nextId
    BY <1>10 DEF ExecNotes
  <2>2. Alike(tasks, tasks')
    BY <1>1, <2>1, NotesAlike
  <2>3. a.op = "clear" /\ todo'[h] = todo[h] \ {a}
    BY <1>1, <2>1 DEF Clear
  <2> QED
    BY <1>1, <2>1, <2>2, <2>3, AchievesAlike, AchievesWithout
<1> QED
  BY <1>6, <1>7, <1>8, <1>9, <1>10

LEMMA WorkCoroutine ==
    ASSUME ConvInv, NEW h \in Handlers, Coroutine(h)
    PROVE  WorkInv'
<1>1. /\ pc \in [Handlers -> {"idle", "waiting", "list", "plan", "exec", "notes"}]
      /\ owner \in [Handlers -> 0 .. MaxInstances]
      /\ todo \in [Handlers -> SUBSET Action]
      /\ snap \in [Handlers -> SUBSET Kept]
  BY DEF ConvInv, TypeInv, TypeOK, CoroutineTypes, Kept
<1>2. CASE Acquire(h)
  <2>1. /\ pc[h] = "waiting" /\ pc' = [pc EXCEPT ![h] = "list"]
        /\ UNCHANGED <<owner, instance, stale, reloadDue>>
    BY <1>2 DEF Acquire, entryVars, historyVars
  <2>2. Fresh => Fresh'
    BY <1>1, <2>1 DEF Fresh
  <2>3. stale = {} /\ ~ reloadDue => Fresh
    BY <2>1 DEF ConvInv, WorkInv, Fresh
  <2> QED
    BY <2>1, <2>2, <2>3 DEF WorkInv
<1>3. CASE List(h)
  <2>1. /\ pc[h] = "list" /\ pc' = [pc EXCEPT ![h] = "plan"]
        /\ snap' = [snap EXCEPT ![h] = tasks]
        /\ UNCHANGED <<tasks, nextId, owner, instance, reloadDue, todo, registered, usage, options>>
    BY <1>3 DEF List, entryVars, hkVars, haVars
  <2> SUFFICES ASSUME stale' = {}, ~ Fresh'
               PROVE  /\ \A g \in Handlers :
                            /\ pc'[g] # "idle" => owner'[g] = instance'
                            /\ pc'[g] = "plan" => Alike(snap'[g], tasks')
                            /\ pc'[g] \notin {"exec", "notes"}
                      /\ ~ AllIdle'
    BY DEF WorkInv
  <2>2. ~ Leftover
    BY <1>3 DEF List, ConvInv, HolderInv
  <2>3. \A g \in Handlers : pc[g] # "idle" => owner[g] = instance
    BY <2>2 DEF Leftover
  <2>4. \A g \in Handlers \ {h} :
         (pc'[g] = pc[g] /\ pc[g] \notin {"waiting", "list"}) \/ pc[g] = "idle"
    BY <1>1, <2>1, <2>3 DEF Fresh
  <2>5. \A g \in Handlers \ {h} : pc[g] = "idle" /\ pc'[g] = "idle"
    BY <1>1, <2>1, <2>3, <2>4 DEF ConvInv, HolderInv
  <2>6. pc'[h] = "plan" /\ snap'[h] = tasks /\ owner[h] = instance
    BY <1>1, <2>1, <2>3
  <2> QED
    BY <2>1, <2>5, <2>6, AlikeItself DEF AllIdle
<1>4. CASE Plan(h)
  <2>1. /\ pc[h] = "plan" /\ pc' = [pc EXCEPT ![h] = "exec"]
        /\ todo'[h] = plan_all(snap[h])
        /\ UNCHANGED <<tasks, nextId, registered, usage, options, instance, reloadDue, stale, owner>>
    BY <1>1, <1>4 DEF Plan, hkVars, haVars, entryVars, historyVars
  <2>2. stale = {} /\ ~ reloadDue /\ ~ Fresh => Achieves(tasks, plan_all(snap[h]), Want, nextId)
    BY <1>1, <2>1, PlanAchieves DEF ConvInv, WorkInv
  <2> QED
    BY <2>1, <2>2, WorkGoesOn
<1>5. CASE ExecCreate(h) \/ ExecUpdate(h) \/ ExecDelete(h) \/ ExecComplete(h) \/ ExecNotes(h)
  BY <1>5, WorkCalls
<1>6. CASE Fail(h)
  BY <1>6 DEF Fail, WorkInv
<1>7. CASE Finish(h)
  <2>1. /\ pc[h] = "exec" /\ pc' = [pc EXCEPT ![h] = "idle"] /\ todo[h] = {}
        /\ owner' = [owner EXCEPT ![h] = 0]
        /\ UNCHANGED <<tasks, nextId, registered, usage, options, instance, reloadDue, stale>>
    BY <1>7 DEF Finish, Release, hkVars, haVars, entryVars, historyVars
  <2> SUFFICES ASSUME stale = {}, ~ reloadDue, ~ Fresh'
               PROVE  (\A g \in Handlers : pc'[g] = "idle") /\ Achieves(tasks', {}, Want', nextId')
    BY <2>1 DEF WorkInv
  <2>2. ~ Fresh
    BY <1>1, <2>1 DEF Fresh
  <2>3. \A g \in Handlers : pc'[g] = "idle"
    BY <1>1, <2>1, <2>2, Alone
  <2>4. Achieves(tasks, {}, Want, nextId)
    BY <2>1, <2>2 DEF ConvInv, WorkInv
  <2> QED
    BY <2>1, <2>3, <2>4, WantFrame
<1> QED
  BY <1>2, <1>3, <1>4, <1>5, <1>6, <1>7 DEF Coroutine

-----------------------------------------------------------------------------
\* The theorems.

LEMMA ConvNext ==
    ASSUME ConvInv, Next
    PROVE  ConvInv'
<1>1. HolderInv' /\ WorkInv'
  <2>1. ASSUME NEW h \in Handlers, Coroutine(h) PROVE HolderInv' /\ WorkInv'
    BY <2>1, HolderCoroutine, WorkCoroutine DEF ConvInv
  <2>2. ASSUME ~ \E h \in Handlers : Coroutine(h) PROVE HolderInv' /\ WorkInv'
    BY <2>2, HolderEnvironment, WorkEnvironment DEF ConvInv
  <2> QED
    BY <2>1, <2>2
<1> QED
  BY <1>1, TypeNext DEF ConvInv

LEMMA ConvInit == Init => ConvInv
<1> SUFFICES ASSUME Init PROVE ConvInv
  OBVIOUS
<1>1. TypeInv
  BY TypeInit DEF Init, TypeInv, Distinct
<1>2. stale # {} /\ ~ up /\ \A h \in Handlers : pc[h] = "idle" /\ cur[h] = {}
  BY DEF Init
<1> QED
  BY <1>1, <1>2 DEF ConvInv, HolderInv, WorkInv

LEMMA ConvStutter ==
    ASSUME ConvInv, UNCHANGED vars
    PROVE  ConvInv'
<1>1. TypeInv'
  BY DEF ConvInv, TypeInv, TypeOK, CoroutineTypes, Distinct, vars, hkVars, haVars, entryVars,
         coroutineVars, historyVars
<1>2. HolderInv'
  BY DEF ConvInv, HolderInv, vars, entryVars, coroutineVars, historyVars
<1>3. WorkInv'
  BY ArmingKeepsWork, AlikeItself
     DEF ConvInv, vars, hkVars, haVars, entryVars, coroutineVars, historyVars
<1> QED
  BY <1>1, <1>2, <1>3 DEF ConvInv

\* The steps of the entry's removal and return leave what they change to be seen by
\* the next set-up, or change nothing a reconcile sees.
LEMMA ConvLife ==
    ASSUME ConvInv, LifeNext
    PROVE  ConvInv'
<1>1. TypeInv'
  BY LifeTypes DEF ConvInv
<1>2. CASE LifeGoesOn
  BY <1>2, ConvNext DEF LifeGoesOn
<1>3. CASE Remove \/ RemovalDelete \/ AddAgain
  <2>1. stale' # {}
    BY <1>3 DEF Remove, RemovalDelete, AddAgain
  <2>2. /\ up' => up
        /\ UNCHANGED <<coroutineVars, instance>>
    BY <1>3 DEF Remove, RemovalDelete, AddAgain, entryVars
  <2>3. HolderInv'
    BY <2>1, <2>2 DEF ConvInv, HolderInv, coroutineVars
  <2>4. WorkInv'
    BY <2>1 DEF WorkInv
  <2> QED
    BY <1>1, <2>3, <2>4 DEF ConvInv
<1>4. CASE RemovalList \/ RemovalGivesUp \/ RemovalDeleteFails \/ RemovalDone
  <2>1. UNCHANGED <<hkVars, haVars, entryVars, coroutineVars, historyVars>>
    BY <1>4 DEF RemovalList, RemovalGivesUp, RemovalDeleteFails, RemovalDone, vars
  <2>2. HolderInv'
    BY <2>1 DEF ConvInv, HolderInv, entryVars, coroutineVars, historyVars
  <2>3. WorkInv'
    BY <2>1, ArmingKeepsWork, AlikeItself
       DEF ConvInv, hkVars, haVars, entryVars, coroutineVars, historyVars
  <2> QED
    BY <1>1, <2>2, <2>3 DEF ConvInv
<1> QED
  BY <1>2, <1>3, <1>4 DEF LifeNext

LEMMA ConvConverges == ConvInv => CatalogConverges
<1> SUFFICES ASSUME ConvInv, QuietBut({}) PROVE Converged
  BY DEF CatalogConverges
<1>1. stale = {} /\ ~ reloadDue /\ AllIdle /\ ~ Fresh
  BY DEF QuietBut, Fresh, AllIdle
<1>2. Achieves(tasks, {}, Want, nextId)
  BY <1>1 DEF ConvInv, WorkInv
<1> QED
  BY <1>2, DoneConverges DEF ConvInv

\* "Converge every catalog task for every known printer" (plan_catalog): whatever
\* printers, options, items and coroutines there are, and however reconciles, edits,
\* reloads and failed calls interleave, once a reconcile has begun after the last of
\* them and nothing runs, each printer has each item that applies to it, on the
\* schedule its model and options give, and no other.
THEOREM TasksConverge == Spec => []CatalogConverges
<1>1. ConvInv /\ [Next]_vars => ConvInv'
  BY ConvNext, ConvStutter
<1> QED
  BY <1>1, ConvInit, ConvConverges, PTL DEF Spec

\* The catalog converges through removals of the entry and its returns too: what a
\* removal deletes under the feet of a new entry, the next set-up creates again.
THEOREM TasksConvergeForLife == LifeSpec => []CatalogConverges
<1>1. LifeInit => ConvInv
  BY ConvInit DEF LifeInit
<1>2. ConvInv /\ [LifeNext]_lifeVars => ConvInv'
  BY ConvLife, ConvStutter DEF lifeVars
<1> QED
  BY <1>1, <1>2, ConvConverges, PTL DEF LifeSpec
=============================================================================
