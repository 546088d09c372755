------------------------------ MODULE HomeKeeper ------------------------------
(***************************************************************************)
(* The Home Keeper services the glue calls, as the glue relies on them:    *)
(* what each call makes of the set of tasks.  Home Keeper is another       *)
(* integration; it is modelled from its use in wiring.py and from the fake *)
(* the integration tests drive.                                            *)
(***************************************************************************)
EXTENDS Integers

\* A triggered task created with a payload is born armed (due now).
add_task(tasks, task_id, item, payload) ==
    tasks \cup {[id |-> task_id, device |-> payload.device, item |-> item,
                 armed |-> TRUE, notes |-> payload.notes, chips |-> payload.chips]}

trigger_task(tasks, task_id) ==
    {[t EXCEPT !.armed = @ \/ t.id = task_id] : t \in tasks}

complete_task(tasks, task_id) ==
    {[t EXCEPT !.armed = @ /\ t.id # task_id] : t \in tasks}

\* Only the fields the call names change.
update_task(tasks, task_id, chips, notes, fields) ==
    {[t EXCEPT !.chips = IF t.id = task_id /\ "chips" \in fields THEN chips ELSE @,
               !.notes = IF t.id = task_id /\ "notes" \in fields THEN notes ELSE @] :
        t \in tasks}

-----------------------------------------------------------------------------
\* The same calls on maintenance tasks, which Home Keeper makes due itself.

add_maintenance_task(tasks, task_id, payload) ==
    tasks \cup {[id |-> task_id, device |-> payload.device, item |-> payload.item,
                 armed |-> FALSE, notes |-> payload.notes,
                 kind |-> payload.kind, sensor |-> payload.sensor, every |-> payload.every]}

update_maintenance_task(tasks, call) ==
    {IF t.id = call.id
     THEN [t EXCEPT !.sensor = IF "sensor" \in call.fields THEN call.sensor ELSE @,
                    !.every = IF "every" \in call.fields THEN call.every ELSE @,
                    !.notes = IF "notes" \in call.fields THEN call.notes ELSE @]
     ELSE t : t \in tasks}

delete_task(tasks, task_id) == {t \in tasks : t.id # task_id}
=============================================================================
