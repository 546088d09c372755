----------------------------- MODULE FirmwareLogic -----------------------------
(***************************************************************************)
(* The pure planners of logic.py: given Home Keeper's task list and what a *)
(* printer reports about its firmware, which action should the wiring run? *)
(*                                                                         *)
(* An option (Python's "X | None") is a set of at most one element, and a  *)
(* list of actions is the set of its elements: the order the wiring runs   *)
(* them in is modelled in FirmwareGlue.  Names, icons, templates and the   *)
(* release URL are left out; a note is the record of what it says, and the *)
(* chips of a task are the set holding its version chip, if it has one.    *)
(***************************************************************************)
EXTENDS Integers

CONSTANT NoVersion      \* the entity reports no version (Python's None)

ITEM_FIRMWARE == "firmware"

-----------------------------------------------------------------------------
\* Action descriptors.  "offer" of ArmTask is auxiliary: it records which
\* version the plan saw, which the code leaves to the later refresh.

CreateTask(device, notes, chips) ==
    [op |-> "create", device |-> device, notes |-> notes, chips |-> chips]

ArmTask(task_id, device, offer) ==
    [op |-> "arm", id |-> task_id, device |-> device, offer |-> offer]

ClearTask(task_id, device, notes, cleared_version) ==
    [op |-> "clear", id |-> task_id, device |-> device, notes |-> notes,
     cleared_version |-> cleared_version]

\* fields names what is sent: a field that did not drift stays out of the call.
UpdateTask(task_id, device, chips, notes, fields) ==
    [op |-> "update", id |-> task_id, device |-> device, chips |-> chips,
     notes |-> notes, fields |-> fields]

-----------------------------------------------------------------------------
\* Helpers over the task list (every task of the models carries our source
\* namespace: a foreign task is invisible to each of these functions).

\* The first match of the list; the list is in order of creation.
task_for_device(tasks, device, item) ==
    LET match == {t \in tasks : t.device = device /\ t.item = item}
    IN  {t \in match : \A u \in match : t.id <= u.id}

is_armed(task) == task.armed

format_notes(latest, installed) ==
    [kind |-> "available", latest |-> latest, installed |-> installed]

format_up_to_date_notes(installed) ==
    [kind |-> "up_to_date", latest |-> NoVersion, installed |-> installed]

\* Variant: a chip even when there is no version.
build_firmware_chips_always(latest) == {latest}

build_firmware_chips(latest) == {latest} \ {NoVersion}

\* last_cleared is a set of at most one stamp time.
within_cooldown(last_cleared, now, cooldown) ==
    \E ts \in last_cleared : now - ts < cooldown

\* Variant: only a missing version is suspect.
is_stale_rearm_unversioned(offered_version, cleared_version) ==
    NoVersion \in {offered_version, cleared_version}

is_stale_rearm(offered_version, cleared_version) ==
    \/ NoVersion \in {offered_version, cleared_version}
    \/ offered_version = cleared_version

-----------------------------------------------------------------------------
\* Planners.  info is a report [state, latest, installed]; recent is the set
\* of versions (at most one) the printer was cleared at inside the cooldown.

plan_update_available(tasks, device, info, recent) ==
    LET task == task_for_device(tasks, device, ITEM_FIRMWARE)
        flap == \E v \in recent : is_stale_rearm(info.latest, v)
    IN  IF task = {}
        THEN {CreateTask(device, format_notes(info.latest, info.installed),
                         build_firmware_chips(info.latest))}
        ELSE {ArmTask(t.id, device, info.latest) :
                t \in {u \in task : ~ is_armed(u) /\ ~ flap}}

plan_update_cleared(tasks, device, installed) ==
    {ClearTask(t.id, device, format_up_to_date_notes(installed), installed) :
        t \in {u \in task_for_device(tasks, device, ITEM_FIRMWARE) : is_armed(u)}}

\* The refresh of plan_reconcile: bring chips and notes in step with the offer.
plan_refresh(tasks, device, info) ==
    LET chips == build_firmware_chips(info.latest)
        notes == format_notes(info.latest, info.installed)
        drift(t) == {f \in {"chips", "notes"} :
                        \/ f = "chips" /\ t.chips # chips
                        \/ f = "notes" /\ t.notes # notes}
    IN  {UpdateTask(t.id, device, chips, notes, drift(t)) :
            t \in {u \in task_for_device(tasks, device, ITEM_FIRMWARE) : drift(u) # {}}}

\* The clear loop of plan_reconcile takes every armed task of the device,
\* whatever item it mirrors.
plan_clears(tasks, up_to_date) ==
    {ClearTask(t.id, t.device, format_up_to_date_notes(up_to_date[t.device]),
               up_to_date[t.device]) :
        t \in {u \in tasks : u.device \in DOMAIN up_to_date /\ is_armed(u)}}

\* What plan_reconcile decides for one printer with an update on offer.
plan_offer(tasks, device, info, recent) ==
    plan_update_available(tasks, device, info, recent)
    \cup plan_refresh(tasks, device, info)

\* available and up_to_date are functions on disjoint sets of devices: device
\* to report, device to installed version.  recent is a function on devices.
plan_reconcile(tasks, available, up_to_date, recent) ==
    plan_clears(tasks, up_to_date) \cup
    UNION {plan_offer(tasks, d, available[d], recent[d]) : d \in DOMAIN available}
=============================================================================
