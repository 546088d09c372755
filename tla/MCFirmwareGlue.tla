---------------------------- MODULE MCFirmwareGlue ----------------------------
(***************************************************************************)
(* FirmwareGlue and its history variables for TLC.  Printers and coroutine *)
(* slots are interchangeable as long as the run checks no liveness.        *)
(***************************************************************************)
EXTENDS FirmwareGlueHistory, TLC

HandlerSymmetry == Permutations(Handlers) \cup Permutations(Versions)
FleetSymmetry == Permutations(Printers) \cup Permutations(Handlers)
=============================================================================
