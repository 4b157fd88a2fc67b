------------------------ MODULE MCRecordingPipeline -------------------------
(* Small instances of the recorder and the CDR service for TLC.            *)
EXTENDS RecordingPipeline
=============================================================================
