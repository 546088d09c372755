------------------------------ MODULE EntryRemoval ------------------------------
(***************************************************************************)
(* The whole life of the config entry: Maintenance, and the removal of the *)
(* entry, which unloads it and then deletes the tasks it owns              *)
(* (async_remove_entry), and its being added again (async_step_user).      *)
(* Coroutines of the unloaded glue run on beside the removal.  Home        *)
(* Assistant drops the entry before it calls async_remove_entry, so the    *)
(* integration can be added again while the deletes are still under way.   *)
(***************************************************************************)
EXTENDS Maintenance

VARIABLES
    entry,          \* "there" or "removed"
    removal,        \* async_remove_entry: "none", "list" (list_tasks is in flight) or "delete"
    doomed,         \* ids of the tasks it listed and has not dealt with
    spared,         \* history: the ids it could not delete
    gaveUp,         \* history: it could not list the tasks
    company,        \* history: coroutines of the unloaded glue were in flight beside it
    horizon         \* history: the next task's id when it listed the tasks

historyOfRemoval == <<spared, gaveUp, company, horizon>>
removalVars == <<entry, removal, doomed, historyOfRemoval>>
lifeVars == <<vars, removalVars>>

LifeInit ==
    /\ Init
    /\ entry = "there"
    /\ removal = "none"
    /\ doomed = {}
    /\ spared = {}
    /\ gaveUp = FALSE
    /\ company = FALSE
    /\ horizon = 0

\* What Maintenance does.  Without an entry there is nothing to set up and there
\* are no options to change.
LifeGoesOn ==
    /\ Next
    /\ entry = "removed" => instance' = instance /\ options' = options
    /\ UNCHANGED removalVars

\* The user removes the entry.  Home Assistant waits for a setup in progress and
\* unloads it: the listeners are gone.
Remove ==
    /\ entry = "there" /\ instance > 0 /\ ~ SettingUp
    /\ removal = "none"
    /\ entry' = "removed"
    /\ removal' = "list"
    /\ spared' = {}
    /\ gaveUp' = FALSE
    /\ company' = ~ AllIdle
    /\ up' = FALSE
    /\ reloadDue' = FALSE
    /\ stale' = stale \cup {"down"}
    /\ UNCHANGED <<hkVars, haVars, options, instance, coroutineVars, edited, changes, faults,
                   doomed, horizon>>

RemovalList ==
    /\ removal = "list"
    /\ removal' = "delete"
    /\ doomed' = {t.id : t \in tasks}
    /\ horizon' = nextId
    /\ UNCHANGED <<vars, entry, spared, gaveUp, company>>

\* Home Keeper is gone, or list_tasks raises: the tasks are left to Home Keeper's
\* orphan detection.
RemovalGivesUp ==
    /\ removal = "list"
    /\ faults < MaxFaults
    /\ faults' = faults + 1
    /\ removal' = "none"
    /\ gaveUp' = TRUE
    /\ UNCHANGED <<hkVars, haVars, entryVars, coroutineVars, historyVars, changes, entry,
                   doomed, spared, company, horizon>>

\* Deletes under the feet of a new entry are not something it is told of.
RemovalDelete ==
    /\ removal = "delete"
    /\ \E id \in doomed :
          /\ Known(id)
          /\ tasks' = delete_task(tasks, id)
          /\ doomed' = doomed \ {id}
    /\ stale' = stale \cup {"down"}
    /\ UNCHANGED <<nextId, completedByGlue, haVars, entryVars, coroutineVars, edited,
                   changes, faults, entry, removal, historyOfRemoval>>

\* Variant: one try around the loop.
RemovalDeleteFailsAll ==
    /\ removal = "delete"
    /\ \E id \in doomed :
          /\ spared' = spared \cup {id}
          /\ \/ ~ Known(id) /\ UNCHANGED faults
             \/ faults < MaxFaults /\ faults' = faults + 1
    /\ doomed' = {}
    /\ UNCHANGED <<hkVars, haVars, entryVars, coroutineVars, historyVars, changes,
                   entry, removal, gaveUp, company, horizon>>

\* A delete raises: it fails, or the task is gone already.  It is the only one.
RemovalDeleteFails ==
    /\ removal = "delete"
    /\ \E id \in doomed :
          /\ doomed' = doomed \ {id}
          /\ spared' = spared \cup {id}
          /\ \/ ~ Known(id) /\ UNCHANGED faults
             \/ faults < MaxFaults /\ faults' = faults + 1
    /\ UNCHANGED <<hkVars, haVars, entryVars, coroutineVars, historyVars, changes,
                   entry, removal, gaveUp, company, horizon>>

RemovalDone ==
    /\ removal = "delete"
    /\ doomed = {}
    /\ removal' = "none"
    /\ UNCHANGED <<vars, entry, doomed, historyOfRemoval>>

\* The integration is added again, with no options: maintenance is off.
AddAgain ==
    /\ entry = "removed"
    /\ changes < MaxChanges
    /\ entry' = "there"
    /\ options' = [key \in {} |-> FALSE]
    /\ edited' = {}
    /\ changes' = changes + 1
    /\ stale' = stale \cup {"down"}
    /\ UNCHANGED <<hkVars, haVars, instance, up, reloadDue, coroutineVars, faults,
                   removal, doomed, historyOfRemoval>>

LifeNext ==
    \/ LifeGoesOn
    \/ Remove
    \/ RemovalList
    \/ RemovalGivesUp
    \/ RemovalDelete
    \/ RemovalDeleteFails
    \/ RemovalDone
    \/ AddAgain

LifeSpec == LifeInit /\ [][LifeNext]_lifeVars

-----------------------------------------------------------------------------
\* Properties.

\* A removal that can list the tasks leaves of those it listed the ones it failed to
\* delete: one failing delete does not save the tasks after it, nor does a coroutine
\* of the unloaded glue, which may delete, complete or reword any of them meanwhile.
\* Only a task such a coroutine creates after the listing outlives the removal.
RemovalSparesOnlyFailures ==
    entry = "removed" /\ removal = "none" /\ ~ gaveUp =>
        \A t \in tasks : t.id \in spared \/ (company /\ t.id >= horizon)

\* "Permanent cleanup happens in async_remove_entry when the integration is truly
\* removed" (async_unload_entry): with Home Keeper there and no call failing, no
\* task is left when all has come to rest.
RemovalLeavesNothing ==
    entry = "removed" /\ removal = "none" /\ AllIdle /\ faults = 0 => tasks = {}
=============================================================================
