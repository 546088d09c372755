-------------------------------- MODULE Catalog --------------------------------
(***************************************************************************)
(* catalog.py: Bambu Lab's maintenance schedule, and how one item of it    *)
(* resolves for one printer: the item's baseline, the printer family's     *)
(* overrides, the flat options of the 0.2.0b1 preview, and the printer's   *)
(* own options, each over the one before.                                  *)
(*                                                                         *)
(* The entry's options are a function on option keys.  A note is the item  *)
(* and the family that rewords it, if one does; names and sources are left *)
(* out.  An optional number is a set of at most one.                       *)
(***************************************************************************)
EXTENDS Integers

CONSTANT NoSerial       \* no serial could be derived for the printer (Python's "")

FAMILIES == {"X1", "P1P", "P1S", "P2", "A1", "H2", "unknown"}

\* From the device registry's model, already stripped and upper-cased.
MODEL_FAMILIES ==
    [X1 |-> "X1", X1C |-> "X1", X1E |-> "X1", P1P |-> "P1P", P1S |-> "P1S",
     P2S |-> "P2", X2D |-> "P2", A1 |-> "A1", A1MINI |-> "A1",
     H2C |-> "H2", H2D |-> "H2", H2DPRO |-> "H2", H2S |-> "H2", A2L |-> "unknown"]

normalize_family(model) ==
    IF model \in DOMAIN MODEL_FAMILIES THEN MODEL_FAMILIES[model] ELSE "unknown"

\* How a family differs from an item's baseline: an empty field inherits.  notes
\* says whether the family words the note itself.
ModelOverride(enabled, hours, interval, unit, notes) ==
    [enabled |-> enabled, hours |-> hours, interval |-> interval, unit |-> unit,
     notes |-> notes]

Inherit == ModelOverride({}, {}, {}, {}, FALSE)
SwitchedOn == ModelOverride({TRUE}, {}, {}, {}, FALSE)
SwitchedOff == ModelOverride({FALSE}, {}, {}, {}, FALSE)
Reworded == ModelOverride({}, {}, {}, {}, TRUE)

\* by_family is a function from some of the families to overrides.
CatalogItem(hours, interval, unit, default_enabled, by_family) ==
    [hours |-> hours, interval |-> interval, unit |-> unit,
     default_enabled |-> default_enabled, by_family |-> by_family]

NoOverrides == [family \in {} |-> Inherit]

CATALOG ==
    [linear_rods |-> CatalogItem({150}, 1, "months", TRUE,
         [P2 |-> Reworded, H2 |-> Inherit, A1 |-> Inherit]),
     z_lead_screws |-> CatalogItem({450}, 3, "months", TRUE,
         [A1 |-> Reworded, P2 |-> Inherit, H2 |-> Inherit]),
     carbon_filter |-> CatalogItem({720}, 3, "months", FALSE,
         [X1 |-> SwitchedOn, P1S |-> SwitchedOn, P2 |-> SwitchedOn, H2 |-> SwitchedOn]),
     carbon_rods |-> CatalogItem({}, 1, "months", FALSE,
         [X1 |-> SwitchedOn, P1P |-> SwitchedOn, P1S |-> SwitchedOn]),
     rod_antirust |-> CatalogItem({}, 3, "months", FALSE,
         [X1 |-> SwitchedOn, P1P |-> SwitchedOn, P1S |-> SwitchedOn]),
     camera_lens |-> CatalogItem({}, 6, "months", TRUE, [A1 |-> SwitchedOff]),
     extruder_gear |-> CatalogItem({}, 1, "weeks", FALSE, NoOverrides),
     toolhead_fans |-> CatalogItem({}, 1, "weeks", FALSE, NoOverrides)]

BY_KEY == DOMAIN CATALOG

-----------------------------------------------------------------------------
\* Option keys; the first is the master switch.

OPT_MAINTENANCE == <<"maintenance">>
option_key_model(serial) == <<"model", serial>>
option_key_enabled(serial, key) == <<"enabled", serial, key>>
\* Variant: the serial is left out.
option_key_interval_shared(serial, key) == <<"interval", NoSerial, key>>
option_key_interval(serial, key) == <<"interval", serial, key>>
legacy_key_enabled(key) == <<"enabled", key>>
legacy_key_interval(key) == <<"interval", key>>

stored(options, key, default) == IF key \in DOMAIN options THEN options[key] ELSE default

-----------------------------------------------------------------------------
resolved_family(serial, detected, options) ==
    LET chosen == stored(options, option_key_model(serial), "")
    IN  IF chosen \in FAMILIES THEN chosen ELSE normalize_family(detected)

override_for(item, family) ==
    IF family \in DOMAIN item.by_family THEN item.by_family[family] ELSE Inherit

inherited(given, base) == IF given = {} THEN base ELSE CHOOSE x \in given : TRUE

\* The item as its family has it, before any option.
baseline(item, family) ==
    LET override == override_for(item, family)
    IN  [enabled |-> inherited(override.enabled, item.default_enabled),
         hours |-> IF override.hours = {} THEN item.hours ELSE override.hours,
         interval |-> inherited(override.interval, item.interval),
         unit |-> inherited(override.unit, item.unit),
         wording |-> {f \in {family} : override.notes}]

\* Every item as every family has it.
BASELINES ==
    [key \in BY_KEY |-> [family \in FAMILIES |-> baseline(CATALOG[key], family)]]

\* Each layer is read where the one above it is silent.
item_enabled(key, family, serial, options) ==
    LET base == BASELINES[key][family]
        legacy == stored(options, legacy_key_enabled(key), base.enabled)
    IN  IF serial = NoSerial THEN legacy
        ELSE stored(options, option_key_enabled(serial, key), legacy)

override_interval(key, serial, options) ==
    LET legacy == stored(options, legacy_key_interval(key), 0)
    IN  IF serial = NoSerial THEN legacy
        ELSE stored(options, option_key_interval(serial, key), legacy)

\* Variant: a stored 0 is taken for an interval.
resolve_zero(key, family, serial, options) ==
    LET base == BASELINES[key][family]
        chosen == {n \in {override_interval(key, serial, options)} : n >= 0}
    IN  [key |-> key,
         enabled |-> item_enabled(key, family, serial, options),
         hours |-> IF base.hours # {} /\ chosen # {} THEN chosen ELSE base.hours,
         interval |-> IF base.hours = {} /\ chosen # {}
                      THEN CHOOSE n \in chosen : TRUE ELSE base.interval,
         unit |-> base.unit,
         notes |-> [item |-> key, wording |-> base.wording]]

\* The one interval option is the hours of an item that is metered in hours once its
\* family has had its say, and the calendar interval of any other.
resolve(key, family, serial, options) ==
    LET base == BASELINES[key][family]
        chosen == {n \in {override_interval(key, serial, options)} : n > 0}
    IN  [key |-> key,
         enabled |-> item_enabled(key, family, serial, options),
         hours |-> IF base.hours # {} /\ chosen # {} THEN chosen ELSE base.hours,
         interval |-> IF base.hours = {} /\ chosen # {}
                      THEN CHOOSE n \in chosen : TRUE ELSE base.interval,
         unit |-> base.unit,
         notes |-> [item |-> key, wording |-> base.wording]]

resolve_all(keys, family, serial, options) ==
    {resolve(key, family, serial, options) : key \in keys}
=============================================================================
