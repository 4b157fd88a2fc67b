---------------------------- MODULE RecordingsPage ----------------------------
(***************************************************************************)
(* The list of recordings the gateway answers with                         *)
(* (backend/gateway/src/recordings/recordings.controller.ts): one listing  *)
(* of the bucket, then for each recording a presigned URL, its parties     *)
(* from its name, and its duration from the first bytes of its WAV file.   *)
(* Meanwhile the recorder (module Recorder) goes on uploading, also over   *)
(* an object that is there.                                                *)
(*                                                                         *)
(* A name is the sequence of its parts between the "-"s, with its suffix.  *)
(* A WAV file is a sequence of chunks; chunks of an odd size are padded.   *)
(***************************************************************************)
EXTENDS Integers, Sequences, FiniteSets, SequencesExt, FiniteSetsExt

CONSTANTS
    Names,       \* names of objects: [parts, suffix]
    Wavs,        \* WAV files: sequences of chunks [id, size, pcm, rate]
    HeaderBytes, \* bytes of a file that are read: 4096
    MaxUploads,  \* bound: uploads
    MaxFaults    \* bound: failed requests to MinIO

Chunks == [id : {"fmt", "data", "other"}, size : Nat, pcm : BOOLEAN, rate : Nat]

ASSUME RecordingsPageAssumption ==
    /\ IsFiniteSet(Names)
    /\ Wavs \subseteq Seq(Chunks)
    /\ HeaderBytes \in Nat /\ HeaderBytes >= 12
    /\ MaxUploads \in Nat /\ MaxFaults \in Nat

VARIABLES
    bucket,  \* [Names -> [wav, modified], None when not stored]
    clock,   \* MinIO's time
    uploads,
    page,    \* the request: "idle", "list", "items", "answered", "error"
    items,   \* the listing, sorted: sequence of [name, modified]
    step,    \* [Names -> what the item's callback waits for]
    result,  \* [Names -> [caller, callee, duration, url], None until it is known]
    since,   \* [Names -> files stored since the listing, the listed one included] (history)
    faults

pageVars == <<bucket, clock, uploads, page, items, step, result, since, faults>>

None == [none |-> TRUE]

-----------------------------------------------------------------------------
(* The duration of a WAV file.                                             *)

\* Offset of the i-th chunk, or of the end of the file: RIFF, the size and WAVE
\* are 12 bytes, the header of a chunk is 8.
Offset(wav, i) ==
    LET after[j \in 0..Len(wav)] ==
          IF j = 0 THEN 12 ELSE after[j - 1] + 8 + wav[j].size + (wav[j].size % 2)
    IN after[i - 1]

FileSize(wav) == Offset(wav, Len(wav) + 1)

\* The bytes getPartialObject gets.
Window(wav) == IF FileSize(wav) < HeaderBytes THEN FileSize(wav) ELSE HeaderBytes

\* What the reader takes for a chunk at an offset: in the middle of another one,
\* bytes that are none of the ids it knows, and a size that leaves the buffer.
ChunkAt(wav, offset) ==
    LET starts == {i \in 1..Len(wav) : Offset(wav, i) = offset}
    IN IF starts # {} THEN wav[CHOOSE i \in starts : TRUE]
       ELSE [id |-> "other", size |-> HeaderBytes, pcm |-> FALSE, rate |-> 0]

\* Math.round(size / rate).
Seconds(size, rate) == (2 * size + rate) \div (2 * rate)

\* Mutant of AfterOther: the padding of an odd chunk is not skipped.
AfterOtherUnpadded(offset, size) == offset + 8 + size

AfterOther(offset, size) == offset + 8 + size + (size % 2)

\* The reader at the top of its loop, and after its return.
ReadsOn(offset, rate) == [at |-> "chunk", offset |-> offset, rate |-> rate, duration |-> 0]
Returns(duration)     == [at |-> "end", offset |-> 0, rate |-> 0, duration |-> duration]

\* A turn of the loop of getWavDuration; the rate is channels * sampleRate *
\* bitsPerSample / 8, 0 when one of them is.
Turn(wav, r) ==
    LET chunk == ChunkAt(wav, r.offset)
        more  == r.at = "chunk" /\ r.offset + 8 <= Window(wav)
    IN CASE r.at = "end" -> r
         [] r.at = "chunk" /\ r.offset + 8 > Window(wav) -> Returns(0)
         [] more /\ chunk.id = "fmt" ->
              IF r.offset + 24 > Window(wav) \/ ~chunk.pcm THEN Returns(0)
              ELSE ReadsOn(r.offset + 8 + chunk.size, chunk.rate)
         [] more /\ chunk.id = "data" ->
              Returns(IF r.rate = 0 THEN 0 ELSE Seconds(chunk.size, r.rate))
         [] more /\ chunk.id = "other" -> ReadsOn(AfterOther(r.offset, chunk.size), r.rate)

\* getWavDuration: a turn passes at least 8 bytes, so HeaderBytes turns are more
\* than the loop takes.
WavDuration(wav) ==
    LET reader[k \in 0..HeaderBytes] ==
          IF k = 0 THEN ReadsOn(12, 0) ELSE Turn(wav, reader[k - 1])
    IN reader[HeaderBytes].duration

-----------------------------------------------------------------------------
(* The parties of a recording.                                             *)

Part(parts, i) == IF i <= Len(parts) THEN parts[i] ELSE ""

\* Mutant of Parties: the parts are counted from zero.
PartiesFromZero(name) == [caller |-> Part(name.parts, 1), callee |-> Part(name.parts, 2)]

\* listRecordings: parts[1] and parts[2] of the split name.
Parties(name) == [caller |-> Part(name.parts, 2), callee |-> Part(name.parts, 3)]

\* notifyCdrService: the last part, then the one before, while one is left.
NotifiedParties(name) ==
    LET n == Len(name.parts)
    IN [callee |-> IF n > 1 THEN name.parts[n] ELSE "",
        caller |-> IF n > 2 THEN name.parts[n - 1] ELSE ""]

-----------------------------------------------------------------------------

PageTypeOK ==
    /\ bucket \in [Names -> [wav : Wavs, modified : Nat] \cup {None}]
    /\ clock \in Nat /\ uploads \in 0..MaxUploads /\ faults \in 0..MaxFaults
    /\ page \in {"idle", "list", "items", "answered", "error"}
    /\ items \in Seq([name : Names, modified : Nat])
    /\ step \in [Names -> {"none", "url", "header", "done"}]
    /\ DOMAIN result = Names
    /\ since \in [Names -> SUBSET Wavs]

PageInit ==
    /\ bucket = [n \in Names |-> None]
    /\ clock = 0 /\ uploads = 0 /\ faults = 0
    /\ page = "idle" /\ items = <<>>
    /\ step = [n \in Names |-> "none"]
    /\ result = [n \in Names |-> None]
    /\ since = [n \in Names |-> {}]

request == <<page, items, step, result>>

\* The recorder's PUT, of a new object or over the one that is there.
Upload(n, wav) ==
    /\ uploads < MaxUploads
    /\ uploads' = uploads + 1
    /\ clock' \in {clock, clock + 1}
    /\ bucket' = [bucket EXCEPT ![n] = [wav |-> wav, modified |-> clock']]
    /\ since' = [since EXCEPT ![n] = @ \union {wav}]
    /\ UNCHANGED <<request, faults>>

PageAsked ==
    /\ page = "idle"
    /\ page' = "list"
    /\ UNCHANGED <<bucket, clock, uploads, items, step, result, since, faults>>

Listed == {n \in Names : n.suffix = ".wav" /\ bucket[n] # None}

Rows == {[name |-> n, modified |-> bucket[n].modified] : n \in Listed}

NewestFirst(rows) == \A i, j \in 1..Len(rows) : i < j => rows[i].modified >= rows[j].modified

\* The listing ends: it is filtered and sorted, and each item's URL is asked for.
\* Objects of the same time are in any order.
ListEnds ==
    /\ page = "list"
    /\ page' = "items"
    /\ items' \in {rows \in SetToSeqs(Rows) : NewestFirst(rows)}
    /\ step' = [n \in Names |-> IF n \in Listed THEN "url" ELSE "none"]
    /\ since' = [n \in Names |-> IF bucket[n] = None THEN {} ELSE {bucket[n].wav}]
    /\ UNCHANGED <<bucket, clock, uploads, result, faults>>

Fails == faults < MaxFaults /\ faults' = faults + 1

ListFails ==
    /\ page = "list" /\ Fails
    /\ page' = "error"
    /\ UNCHANGED <<bucket, clock, uploads, items, step, result, since>>

ItemIs(n, url, duration, next) ==
    /\ result' = [result EXCEPT ![n] =
         [caller |-> Parties(n).caller, callee |-> Parties(n).callee,
          url |-> url, duration |-> duration]]
    /\ step' = [step EXCEPT ![n] = next]
    /\ UNCHANGED <<bucket, clock, uploads, page, items, since>>

\* presignedGetObject, which may ask MinIO for the region of the bucket: without
\* an answer the URL is empty.
Presigned(n) ==
    /\ page = "items" /\ step[n] = "url"
    /\ \/ ItemIs(n, TRUE, 0, "header") /\ UNCHANGED faults
       \/ ItemIs(n, FALSE, 0, "header") /\ Fails

\* getWavDuration could not read the object, and the duration is 0.
HeaderFails(n) ==
    /\ page = "items" /\ step[n] = "header" /\ Fails
    /\ ItemIs(n, result[n].url, 0, "done")

\* getWavDuration has read what the object is by now.
HeaderRead(n) ==
    /\ page = "items" /\ step[n] = "header"
    /\ ItemIs(n, result[n].url, WavDuration(bucket[n].wav), "done")
    /\ UNCHANGED faults

\* Promise.all: every item is there.
PageAnswered ==
    /\ page = "items" /\ \A n \in Names : step[n] \in {"none", "done"}
    /\ page' = "answered"
    /\ UNCHANGED <<bucket, clock, uploads, items, step, result, since, faults>>

PageNext ==
    \/ \E n \in Names, wav \in Wavs : Upload(n, wav)
    \/ \E n \in Names : Presigned(n) \/ HeaderFails(n) \/ HeaderRead(n)
    \/ PageAsked \/ ListEnds \/ ListFails \/ PageAnswered

PageSpec == PageInit /\ [][PageNext]_pageVars

-----------------------------------------------------------------------------
(* Properties.                                                             *)

\* The inductive invariant: what was listed stays listed, each name once and the
\* newest first, and a result always has the parties of its name.
PageInv ==
    /\ PageTypeOK
    /\ page \in {"items", "answered"} =>
         /\ \A n \in Names : step[n] # "none" <=> \E i \in 1..Len(items) : items[i].name = n
         /\ \A i, j \in 1..Len(items) : items[i].name = items[j].name => i = j
         /\ NewestFirst(items)
    /\ \A n \in Names : result[n] # None =>
         result[n].caller = Parties(n).caller /\ result[n].callee = Parties(n).callee

\* A file as the WAV format has it: one format chunk at most, whose size is even
\* and at least the 16 bytes of a PCM format.
WellFormed(wav) ==
    /\ \A i \in 1..Len(wav) : wav[i].id = "fmt" => wav[i].size >= 16 /\ wav[i].size % 2 = 0
    /\ \A i, j \in 1..Len(wav) : wav[i].id = "fmt" /\ wav[j].id = "fmt" => i = j

WellFormedFiles == \A wav \in Wavs : WellFormed(wav)

DataChunks(wav)       == {i \in 1..Len(wav) : wav[i].id = "data"}
FormatsBefore(wav, d) == {i \in 1..(d - 1) : wav[i].id = "fmt"}

\* What a player of the file would show: the first data chunk at the rate of the
\* format chunk before it; 0 when their headers are not in the bytes that are read.
TrueDuration(wav) ==
    LET d == Min(DataChunks(wav))
        f == Max(FormatsBefore(wav, d))
    IN IF DataChunks(wav) = {} THEN 0
       ELSE IF \/ FormatsBefore(wav, d) = {}
               \/ Offset(wav, d) + 8 > HeaderBytes
               \/ ~wav[f].pcm \/ wav[f].rate = 0
         THEN 0
       ELSE Seconds(wav[d].size, wav[f].rate)

\* The duration of a recording is the true one of a file that was stored under
\* its name at the listing or after it, or 0 when its header could not be read:
\* the reader of chunks finds format and data wherever they are.
DurationIsOfAStoredFile ==
    \A n \in Names : step[n] = "done" =>
        \/ \E wav \in since[n] : result[n].duration = TrueDuration(wav)
        \/ faults > 0 /\ result[n].duration = 0

\* What makes it inductive: a file that is listed stays stored, as the last one
\* that was put there.
DurationInv ==
    /\ DurationIsOfAStoredFile
    /\ \A n \in Names : step[n] # "none" => bucket[n] # None /\ bucket[n].wav \in since[n]

\* The page and the table of recordings name the same caller and callee for a
\* file, for every name the dialplan gives (unique id, caller, extension) and for
\* one without parties.  The one is counted from the front of the name, the other
\* from its end: with a "-" in a part they differ.
PartiesAsNotified ==
    \A n \in Names : result[n] # None /\ Len(n.parts) \in {1, 3} =>
        /\ result[n].caller = NotifiedParties(n).caller
        /\ result[n].callee = NotifiedParties(n).callee
=============================================================================
