--------------------------- MODULE MCRecordingsPage ---------------------------
(* Names with and without parties, and WAV files as Asterisk and as other    *)
(* programs write them, read through a window of 80 bytes.                   *)
EXTENDS RecordingsPage

MCNames ==
    {[parts |-> <<"u1", "1001", "1002">>, suffix |-> ".wav"],
     [parts |-> <<"u2", "", "1001">>, suffix |-> ".wav"],
     [parts |-> <<"note">>, suffix |-> ".txt"]}

Chunk(id, size, rate) == [id |-> id, size |-> size, pcm |-> TRUE, rate |-> rate]
Fmt(rate) == Chunk("fmt", 16, rate)

MCWavs ==
    {<<Fmt(4), Chunk("data", 6, 0)>>,
     <<Fmt(4), Chunk("data", 5, 0)>>,
     <<Fmt(0), Chunk("data", 6, 0)>>,
     <<[Fmt(4) EXCEPT !.pcm = FALSE], Chunk("data", 6, 0)>>,
     <<Chunk("other", 3, 0), Fmt(4), Chunk("other", 5, 0), Chunk("data", 9, 0)>>,
     <<Fmt(4), Chunk("other", 40, 0), Chunk("data", 9, 0)>>,
     <<Fmt(4)>>}

ASSUME FilesAreWellFormed == WellFormedFiles
=============================================================================
