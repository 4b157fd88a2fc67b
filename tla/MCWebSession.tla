---------------------------- MODULE MCWebSession ----------------------------
(* A small instance of the browser's session for TLC.                      *)
EXTENDS WebSession

\* A user without an extension or a SIP password, unless races come in pairs or
\* somebody types.
MCUnusual == [r \in Races |-> IF Cardinality(r) = 2 \/ "Typing" \in r THEN 0 ELSE 1]
=============================================================================
