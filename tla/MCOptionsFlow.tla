----------------------------- MODULE MCOptionsFlow -----------------------------
(***************************************************************************)
(* OptionsFlow for TLC: an X1C, an A1 mini, and a P1S whose serial cannot  *)
(* be derived, before them nothing or the flat options of the preview.     *)
(***************************************************************************)
EXTENDS OptionsFlow, TLC

CONSTANTS x1, a1, p1s

MCmodel == (x1 :> "X1C") @@ (a1 :> "A1MINI") @@ (p1s :> "P1S")

MCserial == (x1 :> x1) @@ (a1 :> a1) @@ (p1s :> NoSerial)

MCPreviewOptions ==
    {(legacy_key_interval("carbon_filter") :> 9) @@ (legacy_key_enabled("carbon_rods") :> FALSE)}

MCInitialOptions == {NoOptions} \cup MCPreviewOptions

\* The form as it is; the filter switched off and retuned, and the rods switched
\* on and retuned.
MCEdits ==
    {NoOptions,
     ("carbon_filter" :> [enabled |-> FALSE, interval |-> 5])
         @@ ("carbon_rods" :> [enabled |-> TRUE, interval |-> 2])}

FlowSymmetry == Permutations(Flows)
=============================================================================
