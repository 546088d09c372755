--------------------------- MODULE OptionsFlowProofs ---------------------------
(***************************************************************************)
(* What was submitted in the options flow is what the printers get: for    *)
(* every fleet with serials of its own, every catalog item, any number of  *)
(* flows open at a time, and without the bounds.                           *)
(***************************************************************************)
EXTENDS OptionsFlow, CatalogProofs

-----------------------------------------------------------------------------
\* Option keys.

\* Kinds of keys, printers and items do not share a key.
LEMMA KeysApart ==
    ASSUME NEW s, NEW t, NEW key, NEW item
    PROVE  /\ option_key_model(s) \notin {option_key_enabled(t, item), option_key_interval(t, item),
                                          OPT_MAINTENANCE}
           /\ option_key_enabled(s, key) \notin {option_key_interval(t, item), OPT_MAINTENANCE}
           /\ option_key_interval(s, key) # OPT_MAINTENANCE
           /\ \A k \in {legacy_key_enabled(key), legacy_key_interval(key)} :
                 k \notin {option_key_model(t), option_key_enabled(t, item),
                           option_key_interval(t, item), OPT_MAINTENANCE}
           /\ s # t \/ key # item => /\ option_key_enabled(s, key) # option_key_enabled(t, item)
                                     /\ option_key_interval(s, key) # option_key_interval(t, item)
           /\ s # t => option_key_model(s) # option_key_model(t)
BY DEF option_key_model, option_key_enabled, option_key_interval, legacy_key_enabled,
       legacy_key_interval, OPT_MAINTENANCE

\* The keys that say something about the printer with serial s.
KeysOf(s) ==
    {option_key_model(s)}
    \cup {option_key_enabled(s, key) : key \in Items}
    \cup {option_key_interval(s, key) : key \in Items}
    \cup {legacy_key_enabled(key) : key \in Items}
    \cup {legacy_key_interval(key) : key \in Items}

\* Options that say the same of it, whatever they say of others, plan the same.
LEMMA SamePlan ==
    ASSUME NEW p, NEW one, NEW two,
           \A k \in KeysOf(serial[p]) :
               /\ k \in DOMAIN one <=> k \in DOMAIN two
               /\ k \in DOMAIN one => one[k] = two[k]
    PROVE  plan_of(p, one) = plan_of(p, two)
<1>1. resolved_family(serial[p], model[p], one) = resolved_family(serial[p], model[p], two)
  <2>1. option_key_model(serial[p]) \in KeysOf(serial[p])
    BY DEF KeysOf
  <2> QED
    BY <2>1 DEF resolved_family, stored
<1>2. ASSUME NEW key \in Items
      PROVE  resolve(key, resolved_family(serial[p], model[p], one), serial[p], one)
               = resolve(key, resolved_family(serial[p], model[p], two), serial[p], two)
  <2>1. {option_key_model(serial[p]), option_key_enabled(serial[p], key),
         option_key_interval(serial[p], key), legacy_key_enabled(key), legacy_key_interval(key)}
          \subseteq KeysOf(serial[p])
    BY DEF KeysOf
  <2> QED
    BY <2>1, OptionsDoNotLeak
<1> QED
  BY <1>1, <1>2 DEF plan_of

LEMMA MergedElsewhere ==
    ASSUME NEW p, NEW old, NEW new, \A k \in KeysOf(serial[p]) : k \notin DOMAIN new
    PROVE  plan_of(p, merged(old, new)) = plan_of(p, old)
BY SamePlan DEF merged

LEMMA MasterSwitch ==
    ASSUME NEW p, NEW old, NEW value
    PROVE  plan_of(p, merged(old, entry(OPT_MAINTENANCE, value))) = plan_of(p, old)
<1>1. \A k \in KeysOf(serial[p]) : k # OPT_MAINTENANCE
  BY KeysApart DEF KeysOf
<1>2. DOMAIN entry(OPT_MAINTENANCE, value) = {OPT_MAINTENANCE}
  BY DEF entry
<1> QED
  BY <1>1, <1>2, MergedElsewhere

-----------------------------------------------------------------------------
\* The keys an items form writes.

WellFormed(answers) ==
    /\ answers = [key \in Items |-> [enabled |-> answers[key].enabled,
                                     interval |-> answers[key].interval]]
    /\ \A key \in Items : answers[key].interval \in Nat \ {0}

WrittenKeys(s) ==
    {option_key_model(s)} \cup {option_key_enabled(s, key) : key \in Items}
      \cup {option_key_interval(s, key) : key \in Items}

LEMMA WrittenIs ==
    ASSUME NEW s, NEW chosen, NEW answers, WellFormed(answers)
    PROVE  /\ DOMAIN written(s, chosen, answers) = WrittenKeys(s)
           /\ written(s, chosen, answers)[option_key_model(s)] = chosen
           /\ \A key \in Items :
                 /\ written(s, chosen, answers)[option_key_enabled(s, key)] = answers[key].enabled
                 /\ written(s, chosen, answers)[option_key_interval(s, key)] = answers[key].interval
<1> DEFINE flags == [k \in {option_key_enabled(s, item) : item \in Items} |-> answers[k[3]].enabled]
           numbers == [k \in {option_key_interval(s, item) : item \in Items} |->
                         answers[k[3]].interval]
<1>1. written(s, chosen, answers)
        = merged(entry(option_key_model(s), chosen), merged(flags, numbers))
  <2>1. DOMAIN answers = Items
    BY DEF WellFormed
  <2> QED
    BY <2>1 DEF written
<1>2. /\ DOMAIN flags = {option_key_enabled(s, item) : item \in Items}
      /\ \A key \in Items : flags[option_key_enabled(s, key)] = answers[key].enabled
  BY DEF option_key_enabled
<1>3. /\ DOMAIN numbers = {option_key_interval(s, item) : item \in Items}
      /\ \A key \in Items : numbers[option_key_interval(s, key)] = answers[key].interval
  BY DEF option_key_interval
<1> HIDE DEF flags, numbers
<1>4. /\ DOMAIN merged(flags, numbers) = DOMAIN flags \cup DOMAIN numbers
      /\ \A key \in Items :
            /\ merged(flags, numbers)[option_key_enabled(s, key)] = answers[key].enabled
            /\ merged(flags, numbers)[option_key_interval(s, key)] = answers[key].interval
  BY <1>2, <1>3, KeysApart DEF merged
<1>5. option_key_model(s) \notin DOMAIN merged(flags, numbers)
  BY <1>2, <1>3, <1>4, KeysApart
<1> QED
  BY <1>1, <1>2, <1>3, <1>4, <1>5 DEF merged, entry, WrittenKeys

\* One printer's answers are nobody else's.
LEMMA WrittenElsewhere ==
    ASSUME NEW p, NEW s, s # serial[p], NEW old, NEW chosen, NEW answers, WellFormed(answers)
    PROVE  plan_of(p, merged(old, written(s, chosen, answers))) = plan_of(p, old)
<1>1. \A k \in KeysOf(serial[p]) : k \notin DOMAIN written(s, chosen, answers)
  <2>1. DOMAIN written(s, chosen, answers) = WrittenKeys(s)
    BY WrittenIs
  <2>2. option_key_model(serial[p]) \notin WrittenKeys(s)
    BY KeysApart DEF WrittenKeys
  <2>3. ASSUME NEW key \in Items
        PROVE  /\ option_key_enabled(serial[p], key) \notin WrittenKeys(s)
               /\ option_key_interval(serial[p], key) \notin WrittenKeys(s)
               /\ legacy_key_enabled(key) \notin WrittenKeys(s)
               /\ legacy_key_interval(key) \notin WrittenKeys(s)
    BY KeysApart DEF WrittenKeys
  <2> QED
    BY <2>1, <2>2, <2>3 DEF KeysOf
<1> QED
  BY <1>1, MergedElsewhere

\* What is written about a printer is what its plan is made from.
LEMMA WrittenHere ==
    ASSUME NEW p, serial[p] # NoSerial, NEW old, NEW chosen \in FAMILIES,
           NEW answers, WellFormed(answers)
    PROVE  plan_of(p, merged(old, written(serial[p], chosen, answers)))
             = [family |-> chosen, answers |-> answers]
<1> DEFINE s == serial[p]
           copy == merged(old, written(s, chosen, answers))
<1>1. /\ option_key_model(s) \in DOMAIN copy /\ copy[option_key_model(s)] = chosen
      /\ \A key \in Items :
            /\ option_key_enabled(s, key) \in DOMAIN copy
            /\ copy[option_key_enabled(s, key)] = answers[key].enabled
            /\ option_key_interval(s, key) \in DOMAIN copy
            /\ copy[option_key_interval(s, key)] = answers[key].interval
  <2>1. /\ DOMAIN written(s, chosen, answers) = WrittenKeys(s)
        /\ written(s, chosen, answers)[option_key_model(s)] = chosen
        /\ \A key \in Items :
              /\ written(s, chosen, answers)[option_key_enabled(s, key)] = answers[key].enabled
              /\ written(s, chosen, answers)[option_key_interval(s, key)] = answers[key].interval
    BY WrittenIs
  <2>2. \A k \in WrittenKeys(s) : k \in DOMAIN copy /\ copy[k] = written(s, chosen, answers)[k]
    BY <2>1 DEF merged
  <2>3. /\ option_key_model(s) \in WrittenKeys(s)
        /\ \A key \in Items : /\ option_key_enabled(s, key) \in WrittenKeys(s)
                              /\ option_key_interval(s, key) \in WrittenKeys(s)
    BY DEF WrittenKeys
  <2> HIDE DEF copy
  <2> QED
    BY <2>1, <2>2, <2>3
<1> HIDE DEF copy
<1>2. resolved_family(s, model[p], copy) = chosen
  BY <1>1 DEF resolved_family, stored
<1>3. ASSUME NEW key \in Items
      PROVE  shown(resolve(key, chosen, s, copy))
               = [enabled |-> answers[key].enabled, interval |-> answers[key].interval]
  <2> DEFINE n == answers[key].interval
             r == resolve(key, chosen, s, copy)
  <2>1. n \in Nat /\ n > 0
    BY DEF WellFormed
  <2>2. item_enabled(key, chosen, s, copy) = answers[key].enabled
    BY <1>1 DEF item_enabled, stored
  <2>3. override_interval(key, s, copy) = n
    BY <1>1 DEF override_interval, stored
  <2>4. {m \in {n} : m > 0} = {n} /\ (CHOOSE m \in {n} : TRUE) = n
    BY <2>1
  <2> DEFINE base == BASELINES[key][chosen]
  <2>5. /\ r.enabled = answers[key].enabled
        /\ r.hours = (IF base.hours # {} THEN {n} ELSE base.hours)
        /\ r.interval = (IF base.hours = {} THEN n ELSE base.interval)
    BY <2>2, <2>3, <2>4 DEF resolve
  <2> HIDE DEF r, n, base
  <2>6. (IF r.hours # {} THEN CHOOSE h \in r.hours : TRUE ELSE r.interval) = n
    BY <2>4, <2>5
  <2> QED
    BY <2>5, <2>6 DEF shown, r, n
<1>4. [key \in Items |-> shown(resolve(key, chosen, s, copy))] = answers
  BY <1>3 DEF WellFormed
<1> QED
  BY <1>2, <1>4 DEF plan_of, copy

-----------------------------------------------------------------------------
\* What an items form starts from.

\* Every interval the options hold is a whole number.
Numbers(opts) ==
    \A p \in Printers : \A key \in Items : override_interval(key, serial[p], opts) \in Int

LEMMA NoOptionsNumbers == Numbers(NoOptions)
BY DEF Numbers, NoOptions, override_interval, stored

LEMMA ShownPositive ==
    ASSUME NEW key \in Items, NEW chosen \in FAMILIES, NEW s, NEW opts,
           override_interval(key, s, opts) \in Int
    PROVE  shown(resolve(key, chosen, s, opts)).interval \in Nat \ {0}
<1> DEFINE r == resolve(key, chosen, s, opts)
<1>1. r.interval \in Nat \ {0} /\ (r.hours = {} \/ \E n \in Nat \ {0} : r.hours = {n})
  BY OptionsFlowAssumption, ScheduleIsPositive
<1> HIDE DEF r
<1>2. (IF r.hours # {} THEN CHOOSE h \in r.hours : TRUE ELSE r.interval) \in Nat \ {0}
  BY <1>1
<1> QED
  BY <1>2 DEF shown, r

LEMMA FormWellFormed ==
    ASSUME NEW chosen \in FAMILIES, NEW s, NEW opts,
           \A key \in Items : override_interval(key, s, opts) \in Int
    PROVE  WellFormed([key \in Items |-> shown(resolve(key, chosen, s, opts))])
<1>1. \A key \in Items : shown(resolve(key, chosen, s, opts)).interval \in Nat \ {0}
  BY ShownPositive
<1>2. \A key \in Items : shown(resolve(key, chosen, s, opts))
                           = [enabled |-> shown(resolve(key, chosen, s, opts)).enabled,
                              interval |-> shown(resolve(key, chosen, s, opts)).interval]
  BY DEF shown
<1> QED
  BY <1>1, <1>2 DEF WellFormed

\* The user's changes to a form leave a form.
LEMMA EditedWellFormed ==
    ASSUME NEW form, WellFormed(form), NEW edit \in Edits
    PROVE  WellFormed(merged(form, edit))
<1> DEFINE answers == merged(form, edit)
<1>1. DOMAIN form = Items /\ DOMAIN edit \subseteq Items /\ edit \in [DOMAIN edit -> Answer]
  BY OptionsFlowAssumption DEF WellFormed
<1>2. answers = [key \in Items |-> answers[key]]
  BY <1>1 DEF merged
<1>3. ASSUME NEW key \in Items
      PROVE  /\ answers[key] = [enabled |-> answers[key].enabled, interval |-> answers[key].interval]
             /\ answers[key].interval \in Nat \ {0}
  <2>1. CASE key \in DOMAIN edit
    <3>1. answers[key] = edit[key] /\ edit[key] \in Answer
      BY <1>1, <2>1 DEF merged
    <3> HIDE DEF answers
    <3> QED
      BY <3>1 DEF Answer
  <2>2. CASE key \notin DOMAIN edit
    <3>1. answers[key] = form[key]
      BY <1>1, <2>2 DEF merged
    <3> HIDE DEF answers
    <3> QED
      BY <3>1 DEF WellFormed
  <2> QED
    BY <2>1, <2>2
<1> HIDE DEF answers
<1>4. WellFormed(answers)
  BY <1>2, <1>3 DEF WellFormed
<1> QED
  BY <1>4 DEF answers

\* An unchanged form is what it was pre-filled with.
LEMMA Unedited ==
    ASSUME NEW form, WellFormed(form)
    PROVE  merged(form, NoOptions) = form
<1>1. DOMAIN form = Items /\ form = [key \in Items |-> form[key]]
  BY DEF WellFormed
<1> QED
  BY <1>1 DEF merged, NoOptions

\* What is shown of an item says all of its schedule.
LEMMA ShownSaysAll ==
    ASSUME NEW key \in Items, NEW chosen \in FAMILIES, NEW s, NEW one, NEW two,
           override_interval(key, s, one) \in Int, override_interval(key, s, two) \in Int,
           shown(resolve(key, chosen, s, one)) = shown(resolve(key, chosen, s, two))
    PROVE  resolve(key, chosen, s, one) = resolve(key, chosen, s, two)
<1> DEFINE r == resolve(key, chosen, s, one)
           t == resolve(key, chosen, s, two)
           base == BASELINES[key][chosen]
<1>1. /\ r.hours = {} \/ \E n \in Nat : r.hours = {n}
      /\ t.hours = {} \/ \E n \in Nat : t.hours = {n}
  BY OptionsFlowAssumption, ScheduleIsPositive
<1>2. /\ r = [key |-> key, enabled |-> r.enabled, hours |-> r.hours, interval |-> r.interval,
              unit |-> base.unit, notes |-> [item |-> key, wording |-> base.wording]]
      /\ t = [key |-> key, enabled |-> t.enabled, hours |-> t.hours, interval |-> t.interval,
              unit |-> base.unit, notes |-> [item |-> key, wording |-> base.wording]]
      /\ r.hours = {} <=> base.hours = {}
      /\ t.hours = {} <=> base.hours = {}
      /\ base.hours # {} => r.interval = base.interval /\ t.interval = base.interval
  BY DEF resolve
<1> HIDE DEF r, t, base
<1>3. /\ r.enabled = t.enabled
      /\ (IF r.hours # {} THEN CHOOSE h \in r.hours : TRUE ELSE r.interval)
           = (IF t.hours # {} THEN CHOOSE h \in t.hours : TRUE ELSE t.interval)
  <2>1. shown(r) = shown(t)
    BY DEF r, t
  <2> QED
    BY <2>1 DEF shown
<1>4. r.hours = t.hours /\ r.interval = t.interval
  BY <1>1, <1>2, <1>3
<1> QED
  BY <1>2, <1>3, <1>4 DEF r, t

\* Writing a form keeps the intervals whole numbers.
LEMMA WrittenNumbers ==
    ASSUME NEW p \in Printers, NEW old, Numbers(old), NEW chosen, NEW answers, WellFormed(answers)
    PROVE  Numbers(merged(old, written(serial[p], chosen, answers)))
<1> DEFINE s == serial[p]
           new == written(s, chosen, answers)
           copy == merged(old, new)
<1>1. /\ DOMAIN new = WrittenKeys(s)
      /\ \A key \in Items : new[option_key_interval(s, key)] = answers[key].interval
  BY WrittenIs
<1> HIDE DEF new
<1>2. /\ \A k \in WrittenKeys(s) : k \in DOMAIN copy /\ copy[k] = new[k]
      /\ \A k : k \notin WrittenKeys(s) =>
            /\ k \in DOMAIN copy <=> k \in DOMAIN old
            /\ k \in DOMAIN old => copy[k] = old[k]
  BY <1>1 DEF merged
<1> HIDE DEF copy
<1>3. ASSUME NEW q \in Printers, NEW key \in Items
      PROVE  override_interval(key, serial[q], copy) \in Int
  <2>1. override_interval(key, serial[q], old) \in Int /\ answers[key].interval \in Int
    BY DEF Numbers, WellFormed
  <2>2. legacy_key_interval(key) \notin WrittenKeys(s)
    BY KeysApart DEF WrittenKeys
  <2>3. CASE serial[q] = NoSerial
    BY <1>2, <2>1, <2>2, <2>3 DEF override_interval, stored
  <2>4. CASE serial[q] # NoSerial /\ serial[q] = s
    <3>1. option_key_interval(s, key) \in WrittenKeys(s)
      BY DEF WrittenKeys
    <3>2. stored(copy, option_key_interval(s, key), stored(copy, legacy_key_interval(key), 0))
            = answers[key].interval
      BY <1>1, <1>2, <3>1 DEF stored
    <3> QED
      BY <2>1, <2>4, <3>2 DEF override_interval
  <2>5. CASE serial[q] # NoSerial /\ serial[q] # s
    <3>1. option_key_interval(serial[q], key) \notin WrittenKeys(s)
      BY <2>5, KeysApart DEF WrittenKeys
    <3> QED
      BY <1>2, <2>1, <2>2, <2>5, <3>1 DEF override_interval, stored
  <2> QED
    BY <2>3, <2>4, <2>5
<1> QED
  BY <1>3 DEF Numbers, copy, new

LEMMA MasterNumbers ==
    ASSUME NEW old, Numbers(old), NEW value
    PROVE  Numbers(merged(old, entry(OPT_MAINTENANCE, value)))
<1> DEFINE copy == merged(old, entry(OPT_MAINTENANCE, value))
<1>1. \A k : k # OPT_MAINTENANCE =>
        /\ k \in DOMAIN copy <=> k \in DOMAIN old
        /\ k \in DOMAIN old => copy[k] = old[k]
  BY DEF merged, entry
<1> HIDE DEF copy
<1>2. ASSUME NEW q \in Printers, NEW key \in Items
      PROVE  override_interval(key, serial[q], copy) \in Int
  <2>1. override_interval(key, serial[q], old) \in Int
    BY DEF Numbers
  <2>2. legacy_key_interval(key) # OPT_MAINTENANCE
        /\ option_key_interval(serial[q], key) # OPT_MAINTENANCE
    BY KeysApart
  <2> QED
    BY <1>1, <2>1, <2>2 DEF override_interval, stored
<1> QED
  BY <1>2 DEF Numbers, copy

-----------------------------------------------------------------------------
\* The invariant.

\* The shape of a flow: what its forms are about, and the family its model form
\* started from.
FlowInv ==
    /\ registered \subseteq Printers
    /\ DOMAIN step = Flows /\ DOMAIN data = Flows /\ DOMAIN printers = Flows
    /\ DOMAIN current = Flows /\ DOMAIN previous_family = Flows /\ DOMAIN family = Flows
    /\ DOMAIN given = Flows /\ DOMAIN behind = Flows
    /\ Numbers(options)
    /\ \A f \in Flows :
          /\ printers[f] \subseteq Printers
          /\ Numbers(data[f])
          /\ step[f] \in {"closed", "init"} => given[f] = Nothing
          /\ step[f] \in {"model", "items"} =>
                /\ current[f] \in Printers
                /\ previous_family[f] = resolved_family(serial[current[f]], model[current[f]], data[f])
          /\ step[f] = "items" => family[f] \in FAMILIES

\* The options opts do for p what was told about it.
Follows(told, p, opts) ==
    serial[p] # NoSerial => plan_of(p, opts) = [family |-> told.family, answers |-> told.answers]

\* A form accepted under a corrected family says what the catalog says.
Redefaulted(told, p) ==
    told.redefaulted =>
        told.answers = [key \in Items |-> shown(resolve(key, told.family, serial[p], NoOptions))]

\* Told(answers, opts): the options do for each printer what the answers say.
Told(answers, opts) ==
    /\ DOMAIN answers \subseteq Printers
    /\ \A p \in DOMAIN answers : Follows(answers[p], p, opts) /\ Redefaulted(answers[p], p)

GivenInv == \A f \in Flows : Told(given[f], data[f])

SaidInv ==
    /\ DOMAIN said \subseteq Printers
    /\ \A p \in DOMAIN said : Redefaulted(said[p], p)
    /\ ~ overwritten => \A p \in DOMAIN said : Follows(said[p], p, options)

\* For a printer nothing was changed about, copy plans what the options plan.
Faithful(answers, copy) ==
    \A p \in Printers :
        /\ serial[p] # NoSerial
        /\ p \in DOMAIN answers => ~ answers[p].touched
        => plan_of(p, copy) = plan_of(p, options)

CopyInv ==
    \A f \in Flows :
        step[f] \notin {"closed", "init"} /\ ~ behind[f] => Faithful(given[f], data[f])

AnswersInv == FlowInv /\ GivenInv /\ SaidInv /\ CopyInv

LEMMA AnswersInit == Init => AnswersInv
<1> SUFFICES ASSUME Init PROVE AnswersInv
  OBVIOUS
<1>1. Numbers(options)
  BY OptionsFlowAssumption DEF Init, Numbers
<1>2. FlowInv
  BY <1>1, NoOptionsNumbers DEF Init, FlowInv
<1>3. GivenInv /\ SaidInv
  BY DEF Init, GivenInv, SaidInv, Told, Nothing
<1>4. CopyInv
  BY DEF Init, CopyInv
<1> QED
  BY <1>2, <1>3, <1>4 DEF AnswersInv

\* A flow saved with answers its copy follows, and that is faithful to the options
\* about the other printers if nobody saved in between.
LEMMA SaveKeeps ==
    ASSUME AnswersInv, NEW f \in Flows, NEW copy, NEW answers, Save(f, copy, answers),
           registered' \subseteq Printers,
           Numbers(copy), Told(answers, copy),
           ~ behind[f] => \A p \in Printers :
               serial[p] # NoSerial /\ p \notin DOMAIN answers => plan_of(p, copy) = plan_of(p, options)
    PROVE  AnswersInv'
<1> USE DEF AnswersInv
<1>1. /\ options' = copy
      /\ step' = [step EXCEPT ![f] = "closed"] /\ data' = [data EXCEPT ![f] = NoOptions]
      /\ printers' = [printers EXCEPT ![f] = {}] /\ current' = [current EXCEPT ![f] = NoPrinter]
      /\ previous_family' = [previous_family EXCEPT ![f] = "unknown"]
      /\ family' = [family EXCEPT ![f] = "unknown"] /\ given' = [given EXCEPT ![f] = Nothing]
      /\ behind' = [g \in Flows |-> g # f /\ (behind[g] \/ step[g] \notin {"closed", "init"})]
      /\ said' = merged(said, answers)
      /\ overwritten' = (overwritten \/ behind[f])
  BY DEF Save, Close
<1>2. FlowInv'
  <2>1. /\ DOMAIN step' = Flows /\ DOMAIN data' = Flows /\ DOMAIN printers' = Flows
        /\ DOMAIN current' = Flows /\ DOMAIN previous_family' = Flows /\ DOMAIN family' = Flows
        /\ DOMAIN given' = Flows /\ DOMAIN behind' = Flows
    BY <1>1 DEF FlowInv
  <2>2. Numbers(options)'
    BY <1>1 DEF Numbers
  <2>3. ASSUME NEW g \in Flows
        PROVE  /\ printers'[g] \subseteq Printers
               /\ Numbers(data'[g])
               /\ step'[g] \in {"closed", "init"} => given'[g] = Nothing
               /\ step'[g] \in {"model", "items"} =>
                     /\ current'[g] \in Printers
                     /\ previous_family'[g]
                          = resolved_family(serial[current'[g]], model[current'[g]], data'[g])
               /\ step'[g] = "items" => family'[g] \in FAMILIES
    <3>1. CASE g = f
      BY <1>1, <3>1, NoOptionsNumbers DEF FlowInv
    <3>2. CASE g # f
      BY <1>1, <3>2 DEF FlowInv
    <3> QED
      BY <3>1, <3>2
  <2> QED
    BY <2>1, <2>2, <2>3 DEF FlowInv, Numbers
<1>3. GivenInv'
  <2>1. \A g \in Flows : Told(given'[g], data'[g])
    <3>1. Told(Nothing, NoOptions)
      BY DEF Told, Nothing
    <3> QED
      BY <1>1, <3>1 DEF GivenInv, FlowInv
  <2> QED
    BY <2>1 DEF GivenInv, Told, Follows, Redefaulted
<1>4. SaidInv'
  <2>1. /\ DOMAIN said' = DOMAIN said \cup DOMAIN answers
        /\ \A p \in DOMAIN answers : said'[p] = answers[p]
        /\ \A p \in DOMAIN said \ DOMAIN answers : said'[p] = said[p]
    BY <1>1 DEF merged
  <2>2. DOMAIN said' \subseteq Printers /\ \A p \in DOMAIN said' : Redefaulted(said'[p], p)
    BY <2>1 DEF SaidInv, Told
  <2>3. ASSUME ~ overwritten', NEW p \in DOMAIN said'
        PROVE  Follows(said'[p], p, copy)
    <3>1. CASE p \in DOMAIN answers
      BY <2>1, <3>1 DEF Told
    <3>2. CASE p \notin DOMAIN answers
      <4>1. ~ overwritten /\ ~ behind[f]
        BY <1>1, <2>3
      <4>2. said'[p] = said[p] /\ Follows(said[p], p, options) /\ p \in Printers
        BY <2>1, <2>3, <3>2, <4>1 DEF SaidInv
      <4>3. serial[p] # NoSerial => plan_of(p, copy) = plan_of(p, options)
        BY <3>2, <4>1, <4>2
      <4> QED
        BY <4>2, <4>3 DEF Follows
    <3> QED
      BY <3>1, <3>2
  <2> QED
    BY <1>1, <2>2, <2>3 DEF SaidInv, Follows, Redefaulted
<1>5. CopyInv'
  <2>1. ASSUME NEW g \in Flows, step'[g] \notin {"closed", "init"} PROVE behind'[g]
    BY <1>1, <2>1 DEF FlowInv
  <2> QED
    BY <2>1 DEF CopyInv
<1> QED
  BY <1>2, <1>3, <1>4, <1>5

\* A step of one flow that leaves the options and the other flows alone.
LEMMA FlowKeeps ==
    ASSUME AnswersInv, NEW f \in Flows, UNCHANGED <<options, said, overwritten>>,
           registered' \subseteq Printers,
           DOMAIN step' = Flows, DOMAIN data' = Flows, DOMAIN printers' = Flows,
           DOMAIN current' = Flows, DOMAIN previous_family' = Flows, DOMAIN family' = Flows,
           DOMAIN given' = Flows, DOMAIN behind' = Flows,
           \A g \in Flows \ {f} :
              /\ step'[g] = step[g] /\ data'[g] = data[g] /\ printers'[g] = printers[g]
              /\ current'[g] = current[g] /\ previous_family'[g] = previous_family[g]
              /\ family'[g] = family[g] /\ given'[g] = given[g] /\ behind'[g] = behind[g],
           printers'[f] \subseteq Printers, Numbers(data'[f]),
           step'[f] \in {"closed", "init"} => given'[f] = Nothing,
           step'[f] \in {"model", "items"} =>
              /\ current'[f] \in Printers
              /\ previous_family'[f]
                   = resolved_family(serial[current'[f]], model[current'[f]], data'[f]),
           step'[f] = "items" => family'[f] \in FAMILIES,
           Told(given'[f], data'[f]),
           step'[f] \notin {"closed", "init"} /\ ~ behind'[f] => Faithful(given'[f], data'[f])
    PROVE  AnswersInv'
<1> USE DEF AnswersInv
<1>1. FlowInv'
  <2>1. Numbers(options)'
    BY DEF FlowInv, Numbers
  <2>2. ASSUME NEW g \in Flows
        PROVE  /\ printers'[g] \subseteq Printers
               /\ Numbers(data'[g])
               /\ step'[g] \in {"closed", "init"} => given'[g] = Nothing
               /\ step'[g] \in {"model", "items"} =>
                     /\ current'[g] \in Printers
                     /\ previous_family'[g]
                          = resolved_family(serial[current'[g]], model[current'[g]], data'[g])
               /\ step'[g] = "items" => family'[g] \in FAMILIES
    <3>1. CASE g = f
      BY <3>1
    <3>2. CASE g # f
      BY <3>2 DEF FlowInv
    <3> QED
      BY <3>1, <3>2
  <2> QED
    BY <2>1, <2>2 DEF FlowInv, Numbers
<1>2. GivenInv'
  <2>1. \A g \in Flows : Told(given'[g], data'[g])
    BY DEF GivenInv
  <2> QED
    BY <2>1 DEF GivenInv, Told, Follows, Redefaulted
<1>3. SaidInv'
  BY DEF SaidInv, Follows, Redefaulted
<1>4. CopyInv'
  <2>1. \A g \in Flows : step'[g] \notin {"closed", "init"} /\ ~ behind'[g] =>
            Faithful(given'[g], data'[g])
    BY DEF CopyInv
  <2> QED
    BY <2>1 DEF CopyInv, Faithful
<1> QED
  BY <1>1, <1>2, <1>3, <1>4

-----------------------------------------------------------------------------
\* The steps.

\* An items form submitted: the flow's copy follows the answers, and is faithful
\* about the printers no form was changed of.
LEMMA ItemsAnswered ==
    ASSUME AnswersInv, NEW f \in Flows, NEW edit \in Edits, step[f] = "items",
           NEW p, p = current[f],
           NEW answers, answers = merged(prefill(f), edit),
           NEW copy, copy = merged(data[f], written(serial[p], family[f], answers)),
           NEW told, told.family = family[f], told.answers = answers,
           told.redefaulted => family[f] # previous_family[f] /\ edit = NoOptions,
           ~ told.touched => /\ family[f] = previous_family[f] /\ edit = NoOptions
                             /\ p \in DOMAIN given[f] => ~ given[f][p].touched
    PROVE  /\ Numbers(copy)
           /\ Told(merged(given[f], entry(p, told)), copy)
           /\ ~ behind[f] => Faithful(merged(given[f], entry(p, told)), copy)
<1> DEFINE all == merged(given[f], entry(p, told))
           stored_answers == IF family[f] = previous_family[f] THEN data[f] ELSE NoOptions
<1>1. /\ p \in Printers /\ family[f] \in FAMILIES /\ Numbers(data[f])
      /\ previous_family[f] = resolved_family(serial[p], model[p], data[f])
      /\ Told(given[f], data[f]) /\ DOMAIN given[f] \subseteq Printers
  BY DEF AnswersInv, FlowInv, GivenInv, Told
<1>2. Numbers(stored_answers)
  BY <1>1, NoOptionsNumbers
<1>3. prefill(f) = [key \in Items |-> shown(resolve(key, family[f], serial[p], stored_answers))]
  BY DEF prefill
<1> HIDE DEF stored_answers
<1>4. WellFormed(prefill(f))
  <2>1. \A key \in Items : override_interval(key, serial[p], stored_answers) \in Int
    BY <1>1, <1>2 DEF Numbers
  <2>2. family[f] \in FAMILIES
    BY <1>1
  <2> HIDE DEF FAMILIES
  <2> QED
    BY <1>3, <2>1, <2>2, FormWellFormed
<1>5. WellFormed(answers)
  BY <1>4, EditedWellFormed
<1>6. Numbers(copy)
  BY <1>1, <1>5, WrittenNumbers
<1>7. /\ DOMAIN all = DOMAIN given[f] \cup {p} /\ all[p] = told
      /\ \A q \in DOMAIN given[f] \ {p} : all[q] = given[f][q]
  BY DEF merged, entry
<1> HIDE DEF all
<1>8. serial[p] # NoSerial => plan_of(p, copy) = [family |-> family[f], answers |-> answers]
  BY <1>1, <1>5, WrittenHere
<1>9. ASSUME NEW q \in Printers, q # p, serial[q] # NoSerial
      PROVE  plan_of(q, copy) = plan_of(q, data[f])
  <2>1. serial[q] # serial[p]
    BY <1>1, <1>9, OptionsFlowAssumption
  <2> QED
    BY <1>5, <2>1, WrittenElsewhere
<1>10. Told(all, copy)
  <2>1. Follows(told, p, copy)
    BY <1>8 DEF Follows
  <2>2. Redefaulted(told, p)
    <3> SUFFICES ASSUME told.redefaulted
                 PROVE  answers = [key \in Items |->
                                     shown(resolve(key, family[f], serial[p], NoOptions))]
      BY DEF Redefaulted
    <3>1. stored_answers = NoOptions /\ edit = NoOptions
      BY DEF stored_answers
    <3> QED
      BY <1>3, <1>4, <3>1, Unedited
  <2>3. ASSUME NEW q \in DOMAIN given[f] \ {p}
        PROVE  Follows(all[q], q, copy) /\ Redefaulted(all[q], q)
    <3>1. Follows(given[f][q], q, data[f]) /\ Redefaulted(given[f][q], q) /\ q \in Printers
      BY <1>1 DEF Told
    <3>2. serial[q] # NoSerial => plan_of(q, copy) = plan_of(q, data[f])
      BY <1>9, <3>1
    <3> QED
      BY <1>7, <3>1, <3>2 DEF Follows
  <2> QED
    BY <1>1, <1>7, <2>1, <2>2, <2>3 DEF Told
<1>11. ASSUME ~ behind[f] PROVE Faithful(all, copy)
  <2>1. Faithful(given[f], data[f])
    BY <1>11 DEF AnswersInv, CopyInv
  <2> SUFFICES ASSUME NEW q \in Printers, serial[q] # NoSerial,
                      q \in DOMAIN all => ~ all[q].touched
               PROVE  plan_of(q, copy) = plan_of(q, options)
    BY DEF Faithful
  <2>2. CASE q = p
    <3>1. family[f] = previous_family[f] /\ edit = NoOptions
          /\ (p \in DOMAIN given[f] => ~ given[f][p].touched)
      BY <1>7, <2>2
    <3>2. plan_of(p, data[f]) = plan_of(p, options)
      BY <1>1, <2>1, <2>2, <3>1 DEF Faithful
    <3>3. answers = [key \in Items |-> shown(resolve(key, family[f], serial[p], data[f]))]
      BY <1>3, <1>4, <3>1, Unedited DEF stored_answers
    <3>4. plan_of(p, data[f]) = [family |-> family[f], answers |-> answers]
      BY <1>1, <3>1, <3>3 DEF plan_of
    <3> QED
      BY <1>8, <2>2, <3>2, <3>4
  <2>3. CASE q # p
    <3>1. q \in DOMAIN given[f] => ~ given[f][q].touched
      BY <1>7, <2>3
    <3> QED
      BY <1>9, <2>1, <2>3, <3>1 DEF Faithful
  <2> QED
    BY <2>2, <2>3
<1> QED
  BY <1>6, <1>10, <1>11 DEF all

\* Only the printers touched get another plan by this step.
TouchedOnly ==
    \A f \in Flows :
        options' # options /\ step'[f] # step[f] /\ ~ behind[f] =>
            \A p \in Printers :
                /\ serial[p] # NoSerial
                /\ p \in visited(f) => ~ said'[p].touched
                => plan_of(p, options') = plan_of(p, options)

LEMMA SaveTouches ==
    ASSUME AnswersInv, NEW f \in Flows, NEW copy, NEW answers, Save(f, copy, answers),
           DOMAIN answers \subseteq visited(f), ~ behind[f] => Faithful(answers, copy)
    PROVE  TouchedOnly
<1>1. /\ options' = copy /\ step' = [step EXCEPT ![f] = "closed"]
      /\ said' = merged(said, answers)
  BY DEF Save, Close
<1>2. \A g \in Flows : step'[g] # step[g] => g = f
  BY <1>1 DEF AnswersInv, FlowInv
<1>3. \A p \in DOMAIN answers : said'[p] = answers[p]
  BY <1>1 DEF merged
<1>4. ASSUME ~ behind[f], NEW p \in Printers, serial[p] # NoSerial,
             p \in visited(f) => ~ said'[p].touched
      PROVE  plan_of(p, options') = plan_of(p, options)
  BY <1>1, <1>3, <1>4 DEF Faithful
<1> QED
  BY <1>2, <1>4 DEF TouchedOnly

\* A flow saved.
LEMMA SaveStep ==
    ASSUME AnswersInv, NEW f \in Flows, NEW copy, NEW answers, Save(f, copy, answers),
           UNCHANGED registered, Numbers(copy), Told(answers, copy),
           DOMAIN answers \subseteq visited(f), ~ behind[f] => Faithful(answers, copy)
    PROVE  AnswersInv' /\ TouchedOnly
<1>1. ~ behind[f] => \A p \in Printers :
          serial[p] # NoSerial /\ p \notin DOMAIN answers => plan_of(p, copy) = plan_of(p, options)
  BY DEF Faithful
<1>2. registered' \subseteq Printers
  BY DEF AnswersInv, FlowInv
<1> QED
  BY <1>1, <1>2, SaveKeeps, SaveTouches

LEMMA Untouched ==
    ASSUME UNCHANGED options
    PROVE  TouchedOnly
BY DEF TouchedOnly

LEMMA SubmitInitStep ==
    ASSUME AnswersInv, NEW f \in Flows, NEW on, SubmitInit(f, on)
    PROVE  AnswersInv' /\ TouchedOnly
<1> DEFINE copy == merged(options, entry(OPT_MAINTENANCE, on))
<1>1. /\ step[f] = "init" /\ given[f] = Nothing /\ registered \subseteq Printers
      /\ UNCHANGED registered /\ Numbers(copy)
  BY MasterNumbers DEF AnswersInv, FlowInv, SubmitInit
<1>2. Told(Nothing, copy) /\ Faithful(Nothing, copy)
  BY MasterSwitch DEF Told, Faithful, Nothing
<1>3. CASE Save(f, copy, Nothing)
  <2>1. DOMAIN Nothing \subseteq visited(f)
    BY DEF Nothing
  <2> HIDE DEF copy
  <2> QED
    BY <1>1, <1>2, <1>3, <2>1, SaveStep
<1>4. ASSUME data' = [data EXCEPT ![f] = copy], printers' = [printers EXCEPT ![f] = registered],
             \/ \E p \in registered : select(f, p, copy)
             \/ /\ step' = [step EXCEPT ![f] = "select_printer"]
                /\ UNCHANGED <<current, previous_family, family>>,
             UNCHANGED <<options, given, historyVars>>
      PROVE  AnswersInv' /\ TouchedOnly
  <2> HIDE DEF copy
  <2>1. /\ DOMAIN data' = Flows /\ data'[f] = copy
        /\ DOMAIN printers' = Flows /\ printers'[f] = registered
        /\ \A g \in Flows \ {f} : data'[g] = data[g] /\ printers'[g] = printers[g]
        /\ given' = given /\ behind' = behind /\ UNCHANGED <<options, said, overwritten>>
        /\ DOMAIN given = Flows /\ DOMAIN behind = Flows
    BY <1>4 DEF AnswersInv, FlowInv, historyVars
  <2>2. /\ DOMAIN step' = Flows /\ DOMAIN current' = Flows /\ DOMAIN previous_family' = Flows
        /\ DOMAIN family' = Flows
        /\ \A g \in Flows \ {f} :
              /\ step'[g] = step[g] /\ current'[g] = current[g]
              /\ previous_family'[g] = previous_family[g] /\ family'[g] = family[g]
        /\ step'[f] \in {"model", "select_printer"}
        /\ step'[f] = "model" =>
              /\ current'[f] \in Printers
              /\ previous_family'[f] = resolved_family(serial[current'[f]], model[current'[f]], copy)
    BY <1>1, <1>4 DEF AnswersInv, FlowInv, select
  <2> QED
    BY <1>1, <1>2, <2>1, <2>2, FlowKeeps, Untouched
<1> QED
  BY <1>3, <1>4 DEF SubmitInit

LEMMA PickStep ==
    ASSUME AnswersInv, NEW f \in Flows, PickFinish(f) \/ \E p \in Printers : PickPrinter(f, p)
    PROVE  AnswersInv' /\ TouchedOnly
<1>1. /\ step[f] = "select_printer" /\ Numbers(data[f]) /\ Told(given[f], data[f])
      /\ ~ behind[f] => Faithful(given[f], data[f])
      /\ UNCHANGED registered /\ registered \subseteq Printers
  BY DEF AnswersInv, FlowInv, GivenInv, CopyInv, PickFinish, PickPrinter
<1>2. CASE Save(f, data[f], given[f])
  <2>1. DOMAIN given[f] \subseteq visited(f)
    BY DEF visited
  <2> QED
    BY <1>1, <1>2, <2>1, SaveStep
<1>3. ASSUME NEW p \in Printers, select(f, p, data[f]),
             UNCHANGED <<options, data, printers, given, historyVars>>
      PROVE  AnswersInv' /\ TouchedOnly
  <2>1. /\ DOMAIN step' = Flows /\ DOMAIN current' = Flows /\ DOMAIN previous_family' = Flows
        /\ DOMAIN family' = Flows
        /\ DOMAIN data' = Flows /\ DOMAIN printers' = Flows /\ DOMAIN given' = Flows
        /\ DOMAIN behind' = Flows
        /\ \A g \in Flows \ {f} :
              /\ step'[g] = step[g] /\ current'[g] = current[g]
              /\ previous_family'[g] = previous_family[g] /\ family'[g] = family[g]
        /\ step'[f] = "model" /\ current'[f] = p
        /\ previous_family'[f] = resolved_family(serial[p], model[p], data[f])
        /\ UNCHANGED <<options, data, printers, given, behind, said, overwritten>>
        /\ printers[f] \subseteq Printers
    BY <1>3 DEF AnswersInv, FlowInv, select, historyVars
  <2> QED
    BY <1>1, <2>1, FlowKeeps, Untouched
<1> QED
  BY <1>2, <1>3 DEF PickFinish, PickPrinter

LEMMA SubmitItemsStep ==
    ASSUME AnswersInv, NEW f \in Flows, NEW edit \in Edits, SubmitItems(f, edit)
    PROVE  AnswersInv' /\ TouchedOnly
<1> DEFINE p == current[f]
           answers == merged(prefill(f), edit)
           copy == merged(data[f], written(serial[p], family[f], answers))
           corrected == family[f] # previous_family[f]
           edited == edit # NoOptions
           told == [family |-> family[f], answers |-> answers,
                    redefaulted |-> corrected /\ ~ edited,
                    touched |-> corrected \/ edited
                                \/ (p \in DOMAIN given[f] /\ given[f][p].touched)]
           all == merged(given[f], entry(p, told))
<1>1. step[f] = "items" /\ UNCHANGED registered /\ registered \subseteq Printers
  BY DEF SubmitItems, AnswersInv, FlowInv
<1>2. /\ told.family = family[f] /\ told.answers = answers
      /\ told.redefaulted => family[f] # previous_family[f] /\ edit = NoOptions
      /\ ~ told.touched => /\ family[f] = previous_family[f] /\ edit = NoOptions
                           /\ p \in DOMAIN given[f] => ~ given[f][p].touched
  OBVIOUS
<1>3. \/ /\ data' = [data EXCEPT ![f] = copy] /\ given' = [given EXCEPT ![f] = all]
         /\ step' = [step EXCEPT ![f] = "select_printer"]
         /\ UNCHANGED <<options, printers, current, previous_family, family, historyVars>>
      \/ Save(f, copy, all)
  BY DEF SubmitItems
<1>4. DOMAIN all = DOMAIN given[f] \cup {p}
  BY DEF merged, entry
<1> HIDE DEF told
<1>5. /\ Numbers(copy) /\ Told(all, copy)
      /\ ~ behind[f] => Faithful(all, copy)
  BY <1>1, <1>2, ItemsAnswered
<1> HIDE DEF copy, all
<1>6. CASE Save(f, copy, all)
  <2>1. DOMAIN all \subseteq visited(f)
    BY <1>1, <1>4 DEF visited
  <2> QED
    BY <1>1, <1>5, <1>6, <2>1, SaveStep
<1>7. ASSUME data' = [data EXCEPT ![f] = copy], given' = [given EXCEPT ![f] = all],
             step' = [step EXCEPT ![f] = "select_printer"],
             UNCHANGED <<options, printers, current, previous_family, family, historyVars>>
      PROVE  AnswersInv' /\ TouchedOnly
  <2>1. /\ DOMAIN step' = Flows /\ DOMAIN current' = Flows /\ DOMAIN previous_family' = Flows
        /\ DOMAIN family' = Flows
        /\ DOMAIN data' = Flows /\ DOMAIN printers' = Flows /\ DOMAIN given' = Flows
        /\ DOMAIN behind' = Flows
        /\ \A g \in Flows \ {f} :
              step'[g] = step[g] /\ data'[g] = data[g] /\ given'[g] = given[g]
        /\ step'[f] = "select_printer" /\ data'[f] = copy /\ given'[f] = all
        /\ UNCHANGED <<options, printers, current, previous_family, family,
                       behind, said, overwritten>>
        /\ printers[f] \subseteq Printers
    BY <1>7 DEF AnswersInv, FlowInv, historyVars
  <2> QED
    BY <1>1, <1>5, <2>1, FlowKeeps, Untouched
<1> QED
  BY <1>3, <1>6, <1>7

LEMMA SubmitModelStep ==
    ASSUME AnswersInv, NEW f \in Flows, NEW chosen \in ModelChoices, SubmitModel(f, chosen)
    PROVE  AnswersInv' /\ TouchedOnly
<1>1. /\ UNCHANGED <<options, said, overwritten, registered, data, printers, current,
                     previous_family, given, behind>>
      /\ DOMAIN step' = Flows /\ DOMAIN data' = Flows /\ DOMAIN printers' = Flows
      /\ DOMAIN current' = Flows /\ DOMAIN previous_family' = Flows /\ DOMAIN family' = Flows
      /\ DOMAIN given' = Flows /\ DOMAIN behind' = Flows
      /\ \A g \in Flows \ {f} : step'[g] = step[g] /\ family'[g] = family[g]
      /\ step[f] = "model" /\ step'[f] = "items" /\ family'[f] = chosen
      /\ chosen \in FAMILIES
  BY OptionsFlowAssumption DEF AnswersInv, FlowInv, SubmitModel, historyVars
<1>2. /\ registered \subseteq Printers /\ printers[f] \subseteq Printers /\ Numbers(data[f])
      /\ current[f] \in Printers
      /\ previous_family[f] = resolved_family(serial[current[f]], model[current[f]], data[f])
      /\ Told(given[f], data[f])
      /\ ~ behind[f] => Faithful(given[f], data[f])
  BY <1>1 DEF AnswersInv, FlowInv, GivenInv, CopyInv
<1> QED
  BY <1>1, <1>2, FlowKeeps, Untouched

LEMMA OpenStep ==
    ASSUME AnswersInv, NEW f \in Flows, Open(f)
    PROVE  AnswersInv' /\ TouchedOnly
<1>1. /\ UNCHANGED <<options, said, overwritten, registered, data, printers, current,
                     previous_family, family, given, behind>>
      /\ DOMAIN step' = Flows /\ DOMAIN data' = Flows /\ DOMAIN printers' = Flows
      /\ DOMAIN current' = Flows /\ DOMAIN previous_family' = Flows /\ DOMAIN family' = Flows
      /\ DOMAIN given' = Flows /\ DOMAIN behind' = Flows
      /\ \A g \in Flows \ {f} : step'[g] = step[g]
      /\ step[f] = "closed" /\ step'[f] = "init"
  BY DEF AnswersInv, FlowInv, Open, historyVars
<1>2. /\ registered \subseteq Printers /\ printers[f] \subseteq Printers /\ Numbers(data[f])
      /\ given[f] = Nothing /\ Told(given[f], data[f])
  BY <1>1 DEF AnswersInv, FlowInv, GivenInv
<1> QED
  BY <1>1, <1>2, FlowKeeps, Untouched

LEMMA AbandonStep ==
    ASSUME AnswersInv, NEW f \in Flows, Abandon(f)
    PROVE  AnswersInv' /\ TouchedOnly
<1>1. /\ UNCHANGED <<options, said, overwritten, registered>>
      /\ DOMAIN step' = Flows /\ DOMAIN data' = Flows /\ DOMAIN printers' = Flows
      /\ DOMAIN current' = Flows /\ DOMAIN previous_family' = Flows /\ DOMAIN family' = Flows
      /\ DOMAIN given' = Flows /\ DOMAIN behind' = Flows
      /\ \A g \in Flows \ {f} :
            /\ step'[g] = step[g] /\ data'[g] = data[g] /\ printers'[g] = printers[g]
            /\ current'[g] = current[g] /\ previous_family'[g] = previous_family[g]
            /\ family'[g] = family[g] /\ given'[g] = given[g] /\ behind'[g] = behind[g]
      /\ step'[f] = "closed" /\ data'[f] = NoOptions /\ printers'[f] = {} /\ given'[f] = Nothing
      /\ registered \subseteq Printers
  BY DEF AnswersInv, FlowInv, Abandon, Close
<1>2. Told(Nothing, NoOptions)
  BY DEF Told, Nothing
<1> QED
  BY <1>1, <1>2, NoOptionsNumbers, FlowKeeps, Untouched

\* Nothing but the shape of the flows is about the entity registry.
LEMMA OthersKeep ==
    ASSUME AnswersInv, registered' \subseteq Printers,
           UNCHANGED <<options, step, data, printers, current, previous_family, family, given,
                       behind, said, overwritten>>
    PROVE  AnswersInv'
<1>1. FlowInv'
  BY DEF AnswersInv, FlowInv, Numbers
<1>2. GivenInv'
  BY DEF AnswersInv, GivenInv, Told, Follows, Redefaulted
<1>3. SaidInv'
  BY DEF AnswersInv, SaidInv, Follows, Redefaulted
<1>4. CopyInv'
  BY DEF AnswersInv, CopyInv, Faithful
<1> QED
  BY <1>1, <1>2, <1>3, <1>4 DEF AnswersInv

LEMMA RegistryStep ==
    ASSUME AnswersInv, NEW p \in Printers, Registry(p)
    PROVE  AnswersInv' /\ TouchedOnly
<1>1. /\ UNCHANGED <<options, step, data, printers, current, previous_family, family, given,
                     behind, said, overwritten>>
      /\ registered' \subseteq Printers
  BY DEF AnswersInv, FlowInv, Registry, flowVars, historyVars
<1> QED
  BY <1>1, Untouched, OthersKeep

LEMMA AnswersStep ==
    ASSUME AnswersInv, [Next]_vars
    PROVE  AnswersInv' /\ [TouchedOnly]_vars
<1>1. ASSUME Next PROVE AnswersInv' /\ TouchedOnly
  BY <1>1, OpenStep, SubmitInitStep, PickStep, SubmitModelStep, SubmitItemsStep, AbandonStep,
     RegistryStep DEF Next
<1>2. ASSUME UNCHANGED vars PROVE AnswersInv'
  <2>1. /\ UNCHANGED <<options, registered, step, data, printers, current, previous_family,
                       family, given, behind, said, overwritten>>
        /\ registered \subseteq Printers
    BY <1>2 DEF vars, flowVars, historyVars, AnswersInv, FlowInv
  <2> QED
    BY <2>1, OthersKeep
<1> QED
  BY <1>1, <1>2

LEMMA Answered == AnswersInv => AnswersInForce
BY DEF AnswersInv, SaidInv, Follows, AnswersInForce, InForce

LEMMA Corrected == AnswersInv => CorrectedModelRedefaults
<1> SUFFICES ASSUME AnswersInv, ~ overwritten, NEW p \in DOMAIN said,
                    serial[p] # NoSerial, said[p].redefaulted, NEW key \in Items
             PROVE  resolve(key, said[p].family, serial[p], options)
                      = resolve(key, said[p].family, serial[p], NoOptions)
  BY DEF CorrectedModelRedefaults
<1> DEFINE chosen == said[p].family
           now == [item \in Items |-> shown(resolve(item, chosen, serial[p], options))]
           fresh == [item \in Items |-> shown(resolve(item, chosen, serial[p], NoOptions))]
<1>1. p \in Printers /\ plan_of(p, options) = [family |-> chosen, answers |-> said[p].answers]
  BY DEF AnswersInv, SaidInv, Follows
<1>2. said[p].answers = fresh
  BY DEF AnswersInv, SaidInv, Redefaulted
<1>3. resolved_family(serial[p], model[p], options) = chosen
  BY <1>1 DEF plan_of
<1>4. now = said[p].answers
  BY <1>1, <1>3 DEF plan_of
<1>5. shown(resolve(key, chosen, serial[p], options))
        = shown(resolve(key, chosen, serial[p], NoOptions))
  <2>1. now[key] = fresh[key]
    BY <1>2, <1>4
  <2> QED
    BY <2>1
<1>6. /\ override_interval(key, serial[p], options) \in Int
      /\ override_interval(key, serial[p], NoOptions) \in Int
  BY <1>1, NoOptionsNumbers DEF AnswersInv, FlowInv, Numbers
<1>7. chosen \in FAMILIES
  BY <1>3, FamilyTypes
<1> HIDE DEF chosen
<1> QED
  BY <1>5, <1>6, <1>7, ShownSaysAll DEF chosen

-----------------------------------------------------------------------------
\* Theorems.

LEMMA AnswersAlways == Spec => []AnswersInv /\ [][TouchedOnly]_vars
<1>1. AnswersInv /\ [Next]_vars => AnswersInv' /\ [TouchedOnly]_vars
  BY AnswersStep
<1> QED
  BY <1>1, AnswersInit, PTL DEF Spec

\* What a user last submitted about a printer and saved is what the reconcile makes
\* of that printer, after any sequence of flows, open side by side or abandoned,
\* unless a flow was saved over somebody's later answers (async_step_init copies
\* the options, async_create_entry replaces them).
THEOREM AnswersStayInForce == Spec => []AnswersInForce
BY AnswersAlways, Answered, PTL

\* With the model corrected and its items form accepted, nothing of an item's
\* schedule comes from the answers stored before (async_step_items's stored_answers).
THEOREM CorrectionsRedefault == Spec => []CorrectedModelRedefaults
BY AnswersAlways, Corrected, PTL

\* A flow saved over the options it copied changes no printer's schedule but those
\* whose forms the user changed (async_step_items keys every answer by the printer's serial).
THEOREM OthersStayAsTheyAre == Spec => OnlyTouchedPrintersChange
<1>1. Spec => [][TouchedOnly]_vars
  BY AnswersAlways, PTL
<1> QED
  BY <1>1 DEF OnlyTouchedPrintersChange, TouchedOnly
=============================================================================
