--------------------------- MODULE MCFirmwareReload ---------------------------
(***************************************************************************)
(* FirmwareReload for TLC.                                                 *)
(***************************************************************************)
EXTENDS FirmwareReload, TLC

SlotSymmetry == Permutations(Handlers)
=============================================================================
