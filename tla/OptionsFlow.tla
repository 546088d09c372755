------------------------------ MODULE OptionsFlow ------------------------------
(***************************************************************************)
(* The options flow of config_flow.py: init, then select_printer (for a    *)
(* fleet), model and items for one printer after the other.  A flow copies *)
(* the entry's options when its first form is submitted, collects the      *)
(* answers in the copy, and at its end puts the copy in the options'       *)
(* place.  Home Assistant lets several flows be open at a time, and a user *)
(* may leave one at any form.                                              *)
(*                                                                         *)
(* An answer about an item is whether it is on, and its interval.  The     *)
(* form takes whole numbers from 1, and a field left alone or blanked is   *)
(* submitted as it was pre-filled.  The firmware task's name template is   *)
(* left out.                                                               *)
(***************************************************************************)
EXTENDS Catalog, FiniteSets

CONSTANTS
    Printers,           \* Bambu Lab devices
    serial,             \* serial[p]: derived from the unique id of p's firmware entity,
                        \* which Home Assistant keeps unique
    model,              \* model[p]: the model in the device registry
    Items,              \* the catalog items looked at
    Flows,              \* options flows
    InitialOptions,     \* the options before the first flow
    ModelChoices,       \* the families a user may choose
    Edits,              \* the changes a user may make to the items form:
                        \* functions from some items to answers
    NoPrinter,
    MaxSubmissions,     \* bound on items forms submitted
    MaxChanges          \* bound on changes of the entity registry

Answer == [enabled : BOOLEAN, interval : Nat \ {0}]

ASSUME OptionsFlowAssumption ==
    /\ Items \subseteq BY_KEY
    /\ NoPrinter \notin Printers
    /\ \A p, q \in Printers : serial[p] = serial[q] => p = q \/ serial[p] = NoSerial
    /\ ModelChoices \subseteq FAMILIES
    /\ \A edit \in Edits : DOMAIN edit \subseteq Items /\ edit \in [DOMAIN edit -> Answer]
    /\ \A old \in InitialOptions, p \in Printers, key \in Items :
          override_interval(key, serial[p], old) \in Int
    /\ {MaxSubmissions, MaxChanges} \subseteq Nat

VARIABLES
    options,            \* the entry's options
    registered,         \* printers whose firmware entity is in the entity registry
    step,               \* step[f]: the form f shows, or "closed"
    data,               \* data[f]: its copy of the options
    printers,           \* printers[f]: the printers as of its start
    current,            \* current[f]: the printer its model and items forms are about
    previous_family,    \* previous_family[f]: the family that printer's answers are about
    family,             \* family[f]: the family chosen for it
    given,              \* history: given[f], what was submitted about each printer
    behind,             \* history: behind[f], the options have changed since f copied them
    said,               \* history: what was last submitted and saved about each printer
    overwritten,        \* history: a flow that was behind has saved
    submissions, changes

flowVars == <<step, data, printers, current, previous_family, family, given>>
historyVars == <<behind, said, overwritten>>
vars == <<options, registered, flowVars, historyVars, submissions, changes>>

NoOptions == [key \in {} |-> FALSE]
Nothing == [p \in {} |-> FALSE]

\* Python's {key: value}, and {**old, **new}.
entry(key, value) == [k \in {key} |-> value]

merged(old, new) ==
    [k \in DOMAIN old \cup DOMAIN new |-> IF k \in DOMAIN new THEN new[k] ELSE old[k]]

Init ==
    /\ options \in InitialOptions
    /\ registered = Printers
    /\ step = [f \in Flows |-> "closed"]
    /\ data = [f \in Flows |-> NoOptions]
    /\ printers = [f \in Flows |-> {}]
    /\ current = [f \in Flows |-> NoPrinter]
    /\ previous_family = [f \in Flows |-> "unknown"]
    /\ family = [f \in Flows |-> "unknown"]
    /\ given = [f \in Flows |-> Nothing]
    /\ behind = [f \in Flows |-> FALSE]
    /\ said = Nothing
    /\ overwritten = FALSE
    /\ submissions = 0
    /\ changes = 0

-----------------------------------------------------------------------------
\* The flow ends, saved or not.
Close(f) ==
    /\ step' = [step EXCEPT ![f] = "closed"]
    /\ data' = [data EXCEPT ![f] = NoOptions]
    /\ printers' = [printers EXCEPT ![f] = {}]
    /\ current' = [current EXCEPT ![f] = NoPrinter]
    /\ previous_family' = [previous_family EXCEPT ![f] = "unknown"]
    /\ family' = [family EXCEPT ![f] = "unknown"]
    /\ given' = [given EXCEPT ![f] = Nothing]

\* async_create_entry: the flow's copy becomes the options.
Save(f, copy, answers) ==
    /\ options' = copy
    /\ Close(f)
    /\ behind' = [g \in Flows |-> g # f /\ (behind[g] \/ step[g] \notin {"closed", "init"})]
    /\ said' = merged(said, answers)
    /\ overwritten' = (overwritten \/ behind[f])

\* _select: printer p is what the next two forms are about.
select(f, p, copy) ==
    LET detected == resolved_family(serial[p], model[p], copy)
    IN  /\ current' = [current EXCEPT ![f] = p]
        /\ previous_family' = [previous_family EXCEPT ![f] = detected]
        /\ family' = [family EXCEPT ![f] = detected]
        /\ step' = [step EXCEPT ![f] = "model"]

Open(f) ==
    /\ step[f] = "closed"
    /\ submissions < MaxSubmissions
    /\ step' = [step EXCEPT ![f] = "init"]
    /\ UNCHANGED <<options, registered, data, printers, current, previous_family, family, given,
                   historyVars, submissions, changes>>

\* async_step_init.
SubmitInit(f, on) ==
    LET copy == merged(options, entry(OPT_MAINTENANCE, on))
    IN  /\ step[f] = "init"
        /\ \/ /\ ~ on \/ registered = {}
              /\ Save(f, copy, Nothing)
           \/ /\ on /\ registered # {}
              /\ data' = [data EXCEPT ![f] = copy]
              /\ printers' = [printers EXCEPT ![f] = registered]
              /\ \/ /\ Cardinality(registered) = 1
                    /\ \E p \in registered : select(f, p, copy)
                 \/ /\ Cardinality(registered) > 1
                    /\ step' = [step EXCEPT ![f] = "select_printer"]
                    /\ UNCHANGED <<current, previous_family, family>>
              /\ UNCHANGED <<options, given, historyVars>>
        /\ UNCHANGED <<registered, submissions, changes>>

\* async_step_select_printer.  The picker's value is the serial; one that is empty
\* is taken for the end of the flow.
PickPrinter(f, p) ==
    /\ step[f] = "select_printer"
    /\ p \in printers[f]
    /\ \/ /\ serial[p] # NoSerial
          /\ select(f, p, data[f])
          /\ UNCHANGED <<options, data, printers, given, historyVars>>
       \/ /\ serial[p] = NoSerial
          /\ Save(f, data[f], given[f])
    /\ UNCHANGED <<registered, submissions, changes>>

PickFinish(f) ==
    /\ step[f] = "select_printer"
    /\ Save(f, data[f], given[f])
    /\ UNCHANGED <<registered, submissions, changes>>

\* async_step_model.
SubmitModel(f, chosen) ==
    /\ step[f] = "model"
    /\ family' = [family EXCEPT ![f] = chosen]
    /\ step' = [step EXCEPT ![f] = "items"]
    /\ UNCHANGED <<options, registered, data, printers, current, previous_family, given,
                   historyVars, submissions, changes>>

\* The items form as it is shown.  Stored answers count if they are about the
\* family chosen.
shown(resolved) ==
    [enabled |-> resolved.enabled,
     interval |-> IF resolved.hours # {} THEN CHOOSE h \in resolved.hours : TRUE
                  ELSE resolved.interval]

\* Variant: a corrected model keeps the answers.
prefill_kept(f) ==
    [key \in Items |-> shown(resolve(key, family[f], serial[current[f]], data[f]))]

\* Variant: the form always starts from the family's defaults.
prefill_fresh(f) ==
    [key \in Items |-> shown(resolve(key, family[f], serial[current[f]], NoOptions))]

prefill(f) ==
    LET stored_answers == IF family[f] = previous_family[f] THEN data[f] ELSE NoOptions
    IN  [key \in Items |-> shown(resolve(key, family[f], serial[current[f]], stored_answers))]

\* Variant: the model is taken as detected.
written_items_only(of_serial, chosen, answers) ==
    merged([key \in {option_key_enabled(of_serial, item) : item \in DOMAIN answers} |->
               answers[key[3]].enabled],
           [key \in {option_key_interval(of_serial, item) : item \in DOMAIN answers} |->
               answers[key[3]].interval])

\* The option keys of a submitted form.
written(of_serial, chosen, answers) ==
    merged(entry(option_key_model(of_serial), chosen),
           merged([key \in {option_key_enabled(of_serial, item) : item \in DOMAIN answers} |->
                      answers[key[3]].enabled],
                  [key \in {option_key_interval(of_serial, item) : item \in DOMAIN answers} |->
                      answers[key[3]].interval]))

\* async_step_items: every item's answer is stored, edited or not.
SubmitItems(f, edit) ==
    LET p == current[f]
        answers == merged(prefill(f), edit)
        copy == merged(data[f], written(serial[p], family[f], answers))
        corrected == family[f] # previous_family[f]
        edited == edit # NoOptions
        told == [family |-> family[f], answers |-> answers,
                 redefaulted |-> corrected /\ ~ edited,
                 touched |-> corrected \/ edited \/ (p \in DOMAIN given[f] /\ given[f][p].touched)]
    IN  /\ step[f] = "items"
        /\ submissions < MaxSubmissions
        /\ submissions' = submissions + 1
        /\ \/ /\ Cardinality(printers[f]) > 1
              /\ data' = [data EXCEPT ![f] = copy]
              /\ given' = [given EXCEPT ![f] = merged(@, entry(p, told))]
              /\ step' = [step EXCEPT ![f] = "select_printer"]
              /\ UNCHANGED <<options, printers, current, previous_family, family, historyVars>>
           \/ /\ Cardinality(printers[f]) = 1
              /\ Save(f, copy, merged(given[f], entry(p, told)))
        /\ UNCHANGED <<registered, changes>>

\* The user closes the dialog.
Abandon(f) ==
    /\ step[f] # "closed"
    /\ Close(f)
    /\ behind' = [behind EXCEPT ![f] = FALSE]
    /\ UNCHANGED <<options, registered, said, overwritten, submissions, changes>>

\* A printer's firmware entity comes or goes.
Registry(p) ==
    /\ changes < MaxChanges
    /\ changes' = changes + 1
    /\ registered' = IF p \in registered THEN registered \ {p} ELSE registered \cup {p}
    /\ UNCHANGED <<options, flowVars, historyVars, submissions>>

Next ==
    \/ \E f \in Flows :
          \/ Open(f)
          \/ \E on \in BOOLEAN : SubmitInit(f, on)
          \/ \E p \in Printers : PickPrinter(f, p)
          \/ PickFinish(f)
          \/ \E chosen \in ModelChoices : SubmitModel(f, chosen)
          \/ \E edit \in Edits : SubmitItems(f, edit)
          \/ Abandon(f)
    \/ \E p \in Printers : Registry(p)

Spec == Init /\ [][Next]_vars

-----------------------------------------------------------------------------
\* Properties.

\* What the reconcile would make of printer p: its family, and each item.
plan_of(p, opts) ==
    LET f == resolved_family(serial[p], model[p], opts)
    IN  [family |-> f, answers |-> [key \in Items |-> shown(resolve(key, f, serial[p], opts))]]

InForce(p) ==
    plan_of(p, options) = [family |-> said[p].family, answers |-> said[p].answers]

\* What the user last submitted about a printer, in a flow that was saved, is what
\* the printer gets, whatever other printers, flows and preview options there are,
\* unless a flow has saved a copy older than somebody's answers.
AnswersInForce ==
    ~ overwritten => \A p \in DOMAIN said : serial[p] # NoSerial => InForce(p)

\* "Correcting the model re-applies that model's defaults" (README.md): with the
\* items form accepted as it is, nothing is left of the answers before.
CorrectedModelRedefaults ==
    ~ overwritten =>
        \A p \in DOMAIN said :
            serial[p] # NoSerial /\ said[p].redefaulted =>
                \A key \in Items : resolve(key, said[p].family, serial[p], options)
                                   = resolve(key, said[p].family, serial[p], NoOptions)

\* Printers flow f is to answer for if it ends now.
visited(f) == DOMAIN given[f] \cup (IF step[f] = "items" THEN {current[f]} ELSE {})

\* A flow changes the schedule of the printers whose forms the user changed: no
\* printer he did not visit, and none whose forms he submitted as they were.
OnlyTouchedPrintersChange ==
    [][\A f \in Flows :
          options' # options /\ step'[f] # step[f] /\ ~ behind[f] =>
              \A p \in Printers :
                  /\ serial[p] # NoSerial
                  /\ p \in visited(f) => ~ said'[p].touched
                  => plan_of(p, options') = plan_of(p, options)]_vars

\* "Each printer's model and item choices are its own" (async_step_select_printer):
\* nobody else's answers about other printers take away what was said about one.
AnswersKept == \A p \in DOMAIN said : serial[p] # NoSerial => InForce(p)

\* "Change any of them in the options ... Each item can also be switched off
\* individually" (README.md), on whatever printer.
EveryPrinterListens == ~ overwritten => \A p \in DOMAIN said : InForce(p)
=============================================================================
