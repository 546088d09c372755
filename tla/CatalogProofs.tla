----------------------------- MODULE CatalogProofs -----------------------------
(***************************************************************************)
(* What resolve (catalog.py) guarantees for every item, printer and set of *)
(* options a config entry may hold.                                        *)
(***************************************************************************)
EXTENDS Catalog, TLAPS

\* What the catalog's data gives an item before any option: positive figures, at
\* most one of them in hours, and no family that meters an item the catalog does
\* not meter.
LEMMA CatalogFigures ==
    ASSUME NEW key \in BY_KEY, NEW family \in FAMILIES
    PROVE  LET base == BASELINES[key][family]
           IN  /\ base.interval \in Nat \ {0}
               /\ base.unit \in {"weeks", "months"}
               /\ base.hours = {} \/ \E n \in Nat \ {0} : base.hours = {n}
               /\ base.hours # {} <=> CATALOG[key].hours # {}
<1> DEFINE item == CATALOG[key]
           base == baseline(item, family)
<1>1. key \in {"linear_rods", "z_lead_screws", "carbon_filter", "carbon_rods",
               "rod_antirust", "camera_lens", "extruder_gear", "toolhead_fans"}
  BY DEF BY_KEY, CATALOG
<1>2. /\ item.interval \in Nat \ {0}
      /\ item.unit \in {"weeks", "months"}
      /\ item.hours = {} \/ \E n \in Nat \ {0} : item.hours = {n}
  <2>1. CASE key = "linear_rods"
    <3>1. item.hours = {150} /\ item.interval = 1 /\ item.unit = "months"
      BY <2>1 DEF CATALOG, CatalogItem
    <3> QED
      BY <3>1
  <2>2. CASE key = "z_lead_screws"
    <3>1. item.hours = {450} /\ item.interval = 3 /\ item.unit = "months"
      BY <2>2 DEF CATALOG, CatalogItem
    <3> QED
      BY <3>1
  <2>3. CASE key = "carbon_filter"
    <3>1. item.hours = {720} /\ item.interval = 3 /\ item.unit = "months"
      BY <2>3 DEF CATALOG, CatalogItem
    <3> QED
      BY <3>1
  <2>4. CASE key \in {"carbon_rods", "rod_antirust", "camera_lens"}
    BY <2>4 DEF CATALOG, CatalogItem
  <2>5. CASE key \in {"extruder_gear", "toolhead_fans"}
    BY <2>5 DEF CATALOG, CatalogItem
  <2> QED
    BY <1>1, <2>1, <2>2, <2>3, <2>4, <2>5
<1>3. /\ override_for(item, family).hours = {}
      /\ override_for(item, family).interval = {}
      /\ override_for(item, family).unit = {}
  <2>1. \A f \in DOMAIN item.by_family :
            item.by_family[f] \in {Inherit, SwitchedOn, SwitchedOff, Reworded}
    <3>1. CASE key \in {"linear_rods", "z_lead_screws", "carbon_filter"}
      BY <3>1 DEF CATALOG, CatalogItem
    <3>2. CASE key \in {"carbon_rods", "rod_antirust", "camera_lens"}
      BY <3>2 DEF CATALOG, CatalogItem
    <3>3. CASE key \in {"extruder_gear", "toolhead_fans"}
      BY <3>3 DEF CATALOG, CatalogItem, NoOverrides
    <3> QED
      BY <1>1, <3>1, <3>2, <3>3
  <2> HIDE DEF item
  <2>2. override_for(item, family) \in {Inherit, SwitchedOn, SwitchedOff, Reworded}
    BY <2>1 DEF override_for
  <2>3. \A o \in {Inherit, SwitchedOn, SwitchedOff, Reworded} :
            \E e, n : o = ModelOverride(e, {}, {}, {}, n)
    BY DEF Inherit, SwitchedOn, SwitchedOff, Reworded
  <2>4. PICK e, n : override_for(item, family) = ModelOverride(e, {}, {}, {}, n)
    BY <2>2, <2>3
  <2> QED
    BY <2>4 DEF ModelOverride
<1>4. base.interval = item.interval /\ base.unit = item.unit /\ base.hours = item.hours
  <2> HIDE DEF item
  <2> QED
    BY <1>3 DEF baseline, inherited
<1> HIDE DEF base, item
<1>5. QED
  BY <1>2, <1>4 DEF base, item, BASELINES

\* Whatever number the options hold for an item, its schedule is one Home Keeper
\* can keep: one positive number of hours or none, and a positive interval.  A
\* blanked or negative field is no schedule, it is the default (resolve's
\* override_interval > 0).
THEOREM ScheduleIsPositive ==
    ASSUME NEW key \in BY_KEY, NEW family \in FAMILIES, NEW serial, NEW options,
           override_interval(key, serial, options) \in Int
    PROVE  LET r == resolve(key, family, serial, options)
           IN  /\ r.interval \in Nat \ {0}
               /\ r.hours = {} \/ \E n \in Nat \ {0} : r.hours = {n}
<1> DEFINE base == BASELINES[key][family]
           number == override_interval(key, serial, options)
           chosen == {n \in {number} : n > 0}
           r == resolve(key, family, serial, options)
<1>1. /\ base.interval \in Nat \ {0}
      /\ base.hours = {} \/ \E n \in Nat \ {0} : base.hours = {n}
  BY CatalogFigures
<1>2. /\ r.hours = (IF base.hours # {} /\ chosen # {} THEN chosen ELSE base.hours)
      /\ r.interval = (IF base.hours = {} /\ chosen # {}
                       THEN CHOOSE n \in chosen : TRUE ELSE base.interval)
  BY DEF resolve
<1> HIDE DEF r, base
<1>3. CASE number > 0
  <2>1. chosen = {number} /\ number \in Nat \ {0}
    BY <1>3
  <2>2. (CHOOSE n \in chosen : TRUE) = number
    BY <2>1
  <2> QED
    BY <1>1, <1>2, <2>1, <2>2 DEF r
<1>4. CASE ~ (number > 0)
  <2>1. chosen = {}
    BY <1>4
  <2> QED
    BY <1>1, <1>2, <2>1 DEF r
<1> QED
  BY <1>3, <1>4

\* The inherit rule, for every item anyone may write: "a family can retune hours but
\* cannot remove it" (ModelOverride's docstring).
LEMMA HoursAreNeverRemoved ==
    ASSUME NEW item, NEW family, item.hours # {}
    PROVE  baseline(item, family).hours # {}
BY DEF baseline

\* The one interval option of an item of the catalog means the same number for every
\* family, printer hours or calendar units, whatever a family retunes: correcting a
\* printer's model cannot turn a stored answer into one on the other axis
\* (ModelOverride's docstring).  One half is the rule that an override only inherits
\* or retunes; the other is that no family of the catalog gives hours to an item
\* without, which the rule alone does not forbid.
THEOREM AxisIsTheItems ==
    ASSUME NEW key \in BY_KEY, NEW serial, NEW options,
           NEW family \in FAMILIES, NEW corrected \in FAMILIES,
           override_interval(key, serial, options) \in Int
    PROVE  LET r == resolve(key, family, serial, options)
               s == resolve(key, corrected, serial, options)
               answer == override_interval(key, serial, options)
           IN  /\ r.hours # {} <=> CATALOG[key].hours # {}
               /\ answer > 0 /\ CATALOG[key].hours # {}
                    => {answer} = r.hours /\ {answer} = s.hours
               /\ answer > 0 /\ CATALOG[key].hours = {}
                    => answer = r.interval /\ answer = s.interval
<1> DEFINE answer == override_interval(key, serial, options)
           chosen == {n \in {answer} : n > 0}
<1> SUFFICES ASSUME NEW f \in FAMILIES
             PROVE  LET r == resolve(key, f, serial, options)
                    IN  /\ r.hours # {} <=> CATALOG[key].hours # {}
                        /\ answer > 0 /\ CATALOG[key].hours # {} => {answer} = r.hours
                        /\ answer > 0 /\ CATALOG[key].hours = {} => answer = r.interval
  OBVIOUS
<1> DEFINE base == BASELINES[key][f]
           r == resolve(key, f, serial, options)
<1>1. base.hours # {} <=> CATALOG[key].hours # {}
  <2>1. CATALOG[key].hours # {} => base.hours # {}
    BY HoursAreNeverRemoved DEF BASELINES
  <2> QED
    BY <2>1, CatalogFigures
<1>2. /\ r.hours = (IF base.hours # {} /\ chosen # {} THEN chosen ELSE base.hours)
      /\ r.interval = (IF base.hours = {} /\ chosen # {}
                       THEN CHOOSE n \in chosen : TRUE ELSE base.interval)
  BY DEF resolve
<1>3. answer > 0 => chosen = {answer}
  OBVIOUS
<1>4. answer > 0 => (CHOOSE n \in chosen : TRUE) = answer
  BY <1>3
<1> HIDE DEF base, r, chosen, answer
<1> QED
  BY <1>1, <1>2, <1>3, <1>4 DEF r, answer

\* A printer has one of the families, whatever the registry or the options say.
LEMMA FamilyTypes ==
    ASSUME NEW serial, NEW detected, NEW opts
    PROVE  resolved_family(serial, detected, opts) \in FAMILIES
<1>1. normalize_family(detected) \in FAMILIES
  BY DEF normalize_family, MODEL_FAMILIES, FAMILIES
<1> QED
  BY <1>1 DEF resolved_family

\* Two sets of options that agree on a printer's own keys and on the flat keys
\* of the preview give the printer the same schedule, whatever they say about
\* other printers: one printer's answers never reach another's tasks.
THEOREM OptionsDoNotLeak ==
    ASSUME NEW key, NEW serial, NEW model, NEW one, NEW two,
           \A k \in {option_key_model(serial), option_key_enabled(serial, key),
                     option_key_interval(serial, key), legacy_key_enabled(key),
                     legacy_key_interval(key)} :
               /\ k \in DOMAIN one <=> k \in DOMAIN two
               /\ k \in DOMAIN one => one[k] = two[k]
    PROVE  resolve(key, resolved_family(serial, model, one), serial, one)
             = resolve(key, resolved_family(serial, model, two), serial, two)
<1> DEFINE agree(k) == \A default : stored(one, k, default) = stored(two, k, default)
<1>1. /\ agree(option_key_model(serial)) /\ agree(option_key_enabled(serial, key))
      /\ agree(option_key_interval(serial, key))
      /\ agree(legacy_key_enabled(key)) /\ agree(legacy_key_interval(key))
  BY DEF stored
<1>2. resolved_family(serial, model, one) = resolved_family(serial, model, two)
  BY <1>1 DEF resolved_family
<1>3. \A family : item_enabled(key, family, serial, one) = item_enabled(key, family, serial, two)
  BY <1>1 DEF item_enabled
<1>4. override_interval(key, serial, one) = override_interval(key, serial, two)
  BY <1>1 DEF override_interval
<1> QED
  BY <1>2, <1>3, <1>4 DEF resolve
=============================================================================
