-------------------------- MODULE FirmwareGlueHistory --------------------------
(***************************************************************************)
(* FirmwareGlue with history variables, the properties that need them, and *)
(* the refinement to FirmwareMirror.  The history variables only watch:    *)
(* every step of HSpec is a step of FirmwareGlue!Spec.                     *)
(***************************************************************************)
EXTENDS FirmwareGlue

VARIABLES
    reportedAt,     \* reportedAt[p]: when p's entity last changed
    offs,           \* offs[p]: how often it changed to off
    lastClear,      \* lastClear[p]: the last completion since the setup
    armedFor        \* armedFor[p]: the version its task was last raised for

historyVars == <<reportedAt, offs, lastClear, armedFor>>

HInit ==
    /\ Init
    /\ reportedAt = [p \in Printers |-> 0]
    /\ offs = [p \in Printers |-> 0]
    /\ lastClear = [p \in Printers |-> {}]
    /\ armedFor = [p \in Printers |-> {}]

\* The actions of kinds ops on p that this step took off a plan.
Ran(p, ops) ==
    UNION {{a \in todo[h] \ todo'[h] : a.device = p /\ a.op \in ops /\ tasks' # tasks} :
              h \in Handlers}

HNext ==
    /\ Next
    /\ reportedAt' = [p \in Printers |->
                        IF report'[p] # report[p] THEN clock ELSE reportedAt[p]]
    /\ offs' = [p \in Printers |->
                  offs[p] + IF report'[p].state = "off" /\ report[p].state # "off"
                            THEN 1 ELSE 0]
    /\ lastClear' = [p \in Printers |->
                       IF completions'[p] # completions[p]
                       THEN {[at |-> clock, version |-> a.cleared_version] :
                                a \in UNION {cur'[h] : h \in Handlers}}
                       ELSE IF phase = "down" /\ phase' # "down" THEN {} ELSE lastClear[p]]
    /\ armedFor' = [p \in Printers |->
                      IF Ran(p, {"create", "arm"}) # {}
                      THEN {a.notes.latest : a \in Ran(p, {"create"})}
                             \cup {a.offer : a \in Ran(p, {"arm"})}
                      ELSE armedFor[p]]

HSpec == HInit /\ [][HNext]_<<vars, historyVars>>

FairHSpec == HSpec /\ Fairness

-----------------------------------------------------------------------------
MirrorStatus ==
    [p \in Printers |->
        IF firmware_tasks(p) = {} THEN "none"
        ELSE IF \E t \in firmware_tasks(p) : is_armed(t) THEN "armed" ELSE "dormant"]

Mirror ==
    INSTANCE FirmwareMirror WITH
        Offers <- Versions \cup {NoVersion},
        status <- MirrorStatus,
        offer <- armedFor,
        window <- lastClear,
        done <- completions,
        time <- clock

\* Through faults, restarts and every interleaving of events with reconciles,
\* the glue raises and clears a task only as FirmwareMirror allows: no second
\* task, no completion of a task that is not armed, and no re-arm within the
\* cooldown for the firmware just installed (_execute's stamp, logic.py's
\* within_cooldown and _is_stale_rearm).
RefinesMirror == Mirror!MirrorSpec

\* Once nothing runs and no work was dropped since the last reconcile, Home
\* Keeper shows what the printers say: armed for on, unless the report came
\* inside the cooldown of a clear it may be a flap of; not armed for off.
\* Stale events, overtaking reconciles and past faults leave no trace.
QuiescentMirror ==
    AllIdle /\ ~ missed =>
        \A p \in registered :
            /\ report[p].state = "on" =>
                 \E t \in firmware_tasks(p) :
                    \/ is_armed(t)
                    \/ \E c \in cleared[p] :
                          /\ is_stale_rearm(report[p].latest, c.version)
                          /\ reportedAt[p] - c.at < Cooldown
            /\ report[p].state = "off" => \A t \in firmware_tasks(p) : ~ is_armed(t)

\* A firmware task is completed at most once for every time its printer went
\* to off: a reconcile that overtakes queued events, or a late event, adds no
\* second completion for one install (CHANGELOG: "one install records one
\* completion").
CompletionPerOff == \A p \in Printers : completions[p] <= offs[p]

\* README: an available update makes the task due now, with "a chip showing the
\* new version".  Whenever the system is quiet, the version chip of an armed
\* task is the version its printer offers.
ChipShowsOffer ==
    AllIdle /\ ~ missed =>
        \A p \in registered : \A t \in firmware_tasks(p) :
            report[p].state = "on" /\ is_armed(t) =>
                t.chips = build_firmware_chips(report[p].latest)

\* ClearTask (logic.py) rewrites the note "so a dormant task stops advertising
\* an available update".  Whenever the system is quiet, no dormant task does.
DormantDoesNotAdvertise ==
    AllIdle /\ ~ missed => \A t \in tasks : is_armed(t) \/ t.notes.kind = "up_to_date"
=============================================================================
