--------------------------- MODULE MaintenanceLogic ---------------------------
(***************************************************************************)
(* plan_catalog of logic.py: which calls bring the maintenance tasks of    *)
(* every printer in line with the catalog and the options.  A maintenance  *)
(* task is metered (kind "sensor", with a binding to the usage sensor) or  *)
(* periodic (kind "floating", with an interval).                           *)
(***************************************************************************)
EXTENDS Catalog, FirmwareLogic

\* The schedule of a task: what Home Keeper is told of when it comes due.
metered(resolved, usage) == resolved.hours # {} /\ usage

sensor_binding(resolved) ==
    [target |-> CHOOSE h \in resolved.hours : TRUE,
     also_every |-> [interval |-> resolved.interval, unit |-> resolved.unit]]

build_catalog_task_payload(resolved, device, usage) ==
    [op |-> "create", device |-> device, item |-> resolved.key, notes |-> resolved.notes,
     kind |-> IF metered(resolved, usage) THEN "sensor" ELSE "floating",
     sensor |-> IF metered(resolved, usage) THEN {sensor_binding(resolved)} ELSE {},
     every |-> IF metered(resolved, usage) THEN {}
               ELSE {[interval |-> resolved.interval, unit |-> resolved.unit]}]

\* The fields of the task that are not what the payload would hold.  The meter's
\* baseline is never compared nor sent, and neither is the kind.
catalog_task_drift(task, payload) ==
    {f \in {"sensor", "every", "notes"} :
        \/ f = "sensor" /\ payload.sensor # {} /\ task.sensor # payload.sensor
        \/ f = "every" /\ payload.sensor = {} /\ task.every # payload.every
        \/ f = "notes" /\ task.notes # payload.notes}

UpdateCatalogTask(task_id, payload, fields) ==
    [op |-> "update", id |-> task_id, device |-> payload.device, sensor |-> payload.sensor,
     every |-> payload.every, notes |-> payload.notes, fields |-> fields]

DeleteTask(task_id, device) == [op |-> "delete", id |-> task_id, device |-> device]

\* printers: device to [serial, model, usage], what scan_printers found.  The
\* payload of every item that applies to a printer:
wanted(keys, printers, options) ==
    UNION {{build_catalog_task_payload(r, d, printers[d].usage) :
              r \in {s \in resolve_all(keys,
                              resolved_family(printers[d].serial, printers[d].model, options),
                              printers[d].serial, options) : s.enabled}} :
              d \in DOMAIN printers}

\* Variant: items are looked up for the printers at hand only.
plan_catalog_in_sight(keys, tasks, printers, enabled, options) ==
    LET want == IF enabled THEN wanted(keys, printers, options) ELSE {}
    IN  {w \in want : task_for_device(tasks, w.device, w.item) = {}}
        \cup {DeleteTask(t.id, t.device) :
                t \in {u \in tasks : /\ u.device \in DOMAIN printers
                                     /\ u.item \in BY_KEY
                                     /\ ~ \E w \in want : w.device = u.device /\ w.item = u.item}}
        \cup UNION {{UpdateCatalogTask(t.id, w, catalog_task_drift(t, w)) :
                        t \in {u \in task_for_device(tasks, w.device, w.item) :
                                 catalog_task_drift(u, w) # {}}} : w \in want}

\* Variant: an item one printer wants is kept on every printer.
plan_catalog_wanted_by_any(keys, tasks, printers, enabled, options) ==
    LET want == IF enabled THEN wanted(keys, printers, options) ELSE {}
    IN  {w \in want : task_for_device(tasks, w.device, w.item) = {}}
        \cup {DeleteTask(t.id, t.device) :
                t \in {u \in tasks : u.item \in BY_KEY /\ ~ \E w \in want : w.item = u.item}}
        \cup UNION {{UpdateCatalogTask(t.id, w, catalog_task_drift(t, w)) :
                        t \in {u \in task_for_device(tasks, w.device, w.item) :
                                 catalog_task_drift(u, w) # {}}} : w \in want}

plan_catalog(keys, tasks, printers, enabled, options) ==
    LET want == IF enabled THEN wanted(keys, printers, options) ELSE {}
    IN  {w \in want : task_for_device(tasks, w.device, w.item) = {}}
        \cup {DeleteTask(t.id, t.device) :
                t \in {u \in tasks : /\ u.item \in BY_KEY
                                     /\ ~ \E w \in want : w.device = u.device /\ w.item = u.item}}
        \cup UNION {{UpdateCatalogTask(t.id, w, catalog_task_drift(t, w)) :
                        t \in {u \in task_for_device(tasks, w.device, w.item) :
                                 catalog_task_drift(u, w) # {}}} : w \in want}
=============================================================================
