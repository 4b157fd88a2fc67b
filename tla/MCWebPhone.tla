----------------------------- MODULE MCWebPhone -----------------------------
(* Small instances of the browser's phone for TLC.                         *)
EXTENDS WebPhone, TLC

\* Calls differ in their names only.
Symmetry == Permutations(Sessions)
=============================================================================
