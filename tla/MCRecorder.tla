----------------------------- MODULE MCRecorder -----------------------------
(* A small instance of the recorder for TLC: the cfg names the file and the *)
(* tasks as model values.                                                  *)
EXTENDS Recorder
=============================================================================
