----------------------------- MODULE MCMaintenance -----------------------------
(***************************************************************************)
(* Maintenance for TLC: an X1C and an A1 mini, and an options flow that    *)
(* saves one of a few answers.                                             *)
(***************************************************************************)
EXTENDS Maintenance, TLC

CONSTANTS x1, a1

MCmodel == (x1 :> "X1C") @@ (a1 :> "A1MINI")

switch(value) == OPT_MAINTENANCE :> value

\* Off; the manufacturer's schedule; a preview tester's flat options; and per
\* printer, a corrected model, an item switched on and retuned, a blanked field.
MCOptionChoices ==
    {switch(FALSE),
     switch(TRUE),
     switch(TRUE) @@ (legacy_key_interval("carbon_filter") :> 9)
                  @@ (legacy_key_enabled("carbon_filter") :> TRUE)
                  @@ (legacy_key_enabled("carbon_rods") :> FALSE),
     switch(TRUE) @@ (option_key_model(x1) :> "A1")
                  @@ (option_key_enabled(x1, "carbon_rods") :> TRUE)
                  @@ (option_key_interval(x1, "carbon_rods") :> 2)
                  @@ (option_key_enabled(x1, "carbon_filter") :> TRUE)
                  @@ (option_key_interval(x1, "carbon_filter") :> 0)}

MaintenanceSymmetry == Permutations(Handlers)
=============================================================================
