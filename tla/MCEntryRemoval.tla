----------------------------- MODULE MCEntryRemoval -----------------------------
(***************************************************************************)
(* EntryRemoval for TLC: an X1C, and an options flow that saves one of a   *)
(* few answers.                                                            *)
(***************************************************************************)
EXTENDS EntryRemoval, TLC

CONSTANT x1

MCmodel == x1 :> "X1C"

switch(value) == OPT_MAINTENANCE :> value

\* Off; the manufacturer's schedule; and a corrected model, an item switched on
\* and retuned, a blanked field.
MCOptionChoices ==
    {switch(FALSE),
     switch(TRUE),
     switch(TRUE) @@ (option_key_model(x1) :> "A1")
                  @@ (option_key_enabled(x1, "carbon_rods") :> TRUE)
                  @@ (option_key_interval(x1, "carbon_rods") :> 2)
                  @@ (option_key_enabled(x1, "carbon_filter") :> TRUE)
                  @@ (option_key_interval(x1, "carbon_filter") :> 0)}

RemovalSymmetry == Permutations(Handlers)
=============================================================================
