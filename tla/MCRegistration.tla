--------------------------- MODULE MCRegistration ---------------------------
(* Small instances of registration for TLC.                                *)
EXTENDS Registration, TLC

\* Logins, and the other calls, differ in their names only.
Symmetry == Permutations(Logins) \cup Permutations(Others)
=============================================================================
