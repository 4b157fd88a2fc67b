-------------------------- MODULE MCMidpointImport --------------------------
(* The import loop for TLC: the numbers of the code, and a few faults.     *)
EXTENDS MidpointImport
=============================================================================
