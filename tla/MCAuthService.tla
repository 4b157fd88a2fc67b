---------------------------- MODULE MCAuthService ---------------------------
(* Small instances of the auth service for TLC.                            *)
EXTENDS AuthService, TLC

\* Calls differ in their names only; so do the users without a row.
Symmetry == Permutations(Calls) \cup Permutations(Users \ SeedRows)
=============================================================================
