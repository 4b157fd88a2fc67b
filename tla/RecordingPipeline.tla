------------------------- MODULE RecordingPipeline --------------------------
(***************************************************************************)
(* The recorder (module Recorder) and the CDR service composed by the      *)
(* message 'recording.uploaded'.  saveRecording                            *)
(* (backend/cdr/src/cdr.service.ts) inserts a row of table recordings and  *)
(* then, in a second statement outside any transaction, sets recording_url *)
(* of the call's row in table cdr.  Handlers run concurrently; a handler   *)
(* outlives the 5 s the recorder waits for it, and the recorder's          *)
(* restarts.                                                               *)
(*                                                                         *)
(* The rows of table cdr are written by Asterisk (cdr_pgsql) at hang-up.   *)
(***************************************************************************)
EXTENDS Recorder, Sequences

CONSTANTS
    Reqs,       \* bound: handlers of recording.uploaded running at once
    CdrPrompt   \* does Asterisk write the cdr row within 2 s of hang-up?

ASSUME CdrPromptAssumption == CdrPrompt \in BOOLEAN
ASSUME ReqsAssumption == IsFiniteSet(Reqs)

VARIABLES
    req,        \* [Reqs -> step of the handler]
    reqFile,    \* [Reqs -> recording the message is about]
    reqSize,    \* [Reqs -> filesize the message carries]
    rows,       \* [Files -> filesize of its rows in table recordings, in order]
    cdr,        \* [Files -> the call's row in table cdr]
    completed   \* [Files -> PUTs whose answer arrived] (history)

request  == <<req, reqFile, reqSize>>
tables   == <<rows, cdr>>
pipeVars == <<recVars, request, tables, completed>>

PipeTypeOK ==
    /\ TypeOK
    /\ req \in [Reqs -> {"free", "sent", "inserted"}]
    /\ reqFile \in [Reqs -> Files \cup {NoFile}]
    /\ reqSize \in [Reqs -> Sizes]
    /\ rows \in [Files -> Seq(Sizes)]
    /\ cdr \in [Files -> {"none", "noUrl", "url"}]
    /\ completed \in [Files -> Nat]

PipeInit ==
    /\ Init
    /\ req = [r \in Reqs |-> "free"]
    /\ reqFile = [r \in Reqs |-> NoFile]
    /\ reqSize = [r \in Reqs |-> 0]
    /\ rows = [f \in Files |-> <<>>]
    /\ cdr = [f \in Files |-> "none"]
    /\ completed = [f \in Files |-> 0]

-----------------------------------------------------------------------------

\* Mutant of UploadedAndSent: the message is sent before the PUT is awaited.
SentBeforePut(t, r) ==
    /\ PutObject(t)
    /\ req[r] = "free"
    /\ req' = [req EXCEPT ![r] = "sent"]
    /\ reqFile' = [reqFile EXCEPT ![r] = cur[t]]
    /\ reqSize' = [reqSize EXCEPT ![r] = seen[t]]
    /\ UNCHANGED <<tables, completed>>

\* The step of the recorder that logs the upload also sends the message.
UploadedAndSent(t, r) ==
    /\ PutReturns(t)
    /\ req[r] = "free"
    /\ req' = [req EXCEPT ![r] = "sent"]
    /\ reqFile' = [reqFile EXCEPT ![r] = cur[t]]
    /\ reqSize' = [reqSize EXCEPT ![r] = seen[t]]
    /\ completed' = [completed EXCEPT ![cur[t]] = @ + 1]
    /\ UNCHANGED tables

\* The handler is done with its message.
Free(r) ==
    /\ req' = [req EXCEPT ![r] = "free"]
    /\ reqFile' = [reqFile EXCEPT ![r] = NoFile]
    /\ reqSize' = [reqSize EXCEPT ![r] = 0]

\* Mutant of InsertRow: the UPDATE of table cdr comes first.
UpdateFirst(r) ==
    /\ req[r] = "sent"
    /\ cdr' = IF cdr[reqFile[r]] = "none" THEN cdr ELSE [cdr EXCEPT ![reqFile[r]] = "url"]
    /\ req' = [req EXCEPT ![r] = "inserted"]
    /\ UNCHANGED <<recVars, reqFile, reqSize, rows, completed>>

\* Mutant of InsertRow: the handler answers after its first statement.
InsertRowOnly(r) ==
    /\ req[r] = "sent"
    /\ rows' = [rows EXCEPT ![reqFile[r]] = Append(@, reqSize[r])]
    /\ Free(r)
    /\ UNCHANGED <<recVars, cdr, completed>>

\* saveRecording, first statement: a new row, whatever rows there are.
InsertRow(r) ==
    /\ req[r] = "sent"
    /\ rows' = [rows EXCEPT ![reqFile[r]] = Append(@, reqSize[r])]
    /\ req' = [req EXCEPT ![r] = "inserted"]
    /\ UNCHANGED <<recVars, reqFile, reqSize, cdr, completed>>

\* Second statement: UPDATE cdr ... WHERE uniqueid; no matching row is only
\* logged.
UpdateCdr(r) ==
    /\ req[r] = "inserted"
    /\ cdr' = IF cdr[reqFile[r]] = "none" THEN cdr ELSE [cdr EXCEPT ![reqFile[r]] = "url"]
    /\ Free(r)
    /\ UNCHANGED <<recVars, rows, completed>>

\* Mutant of SaveFails: a message whose handler failed is handled again.
SaveIsRetried(r) ==
    /\ req[r] # "free" /\ Fault
    /\ req' = [req EXCEPT ![r] = "sent"]
    /\ UNCHANGED <<disk, watch, task, uploadedLog, minio, reqFile, reqSize, tables, completed>>

\* The message is lost, or a statement fails and the handler answers
\* {success: false}, which the recorder does not look at.
SaveFails(r) ==
    /\ req[r] # "free" /\ Fault
    /\ Free(r)
    /\ UNCHANGED <<disk, watch, task, uploadedLog, minio, tables, completed>>

\* The CDR service restarts: all its handlers are gone.
CdrRestarts ==
    /\ Fault
    /\ req' = [r \in Reqs |-> "free"]
    /\ reqFile' = [r \in Reqs |-> NoFile]
    /\ reqSize' = [r \in Reqs |-> 0]
    /\ UNCHANGED <<disk, watch, task, uploadedLog, minio, tables, completed>>

\* Asterisk writes the call's row, after the call.
PostCdr(f) ==
    /\ Finished(f) /\ cdr[f] = "none"
    /\ cdr' = [cdr EXCEPT ![f] = "noUrl"]
    /\ UNCHANGED <<recVars, request, rows, completed>>

CdrService == \E r \in Reqs : InsertRow(r) \/ UpdateCdr(r)

\* The recorder's other steps; a prompt Asterisk writes the row before two
\* seconds have passed since hang-up.
RecorderAlone ==
    /\ \/ Bootstrap \/ Timers \/ Failures
       \/ \E f \in Files : StartRecording(f) \/ WriteChunk(f) \/ CloseRecording(f)
       \/ \E f \in Files : Quiet(f) /\ (CdrPrompt /\ Finished(f) => cdr[f] # "none")
       \/ \E t \in PollTasks : PollStep(t)
       \/ \E t \in Tasks : UploadStep(t) \/ NotifyReturns(t)
    /\ UNCHANGED <<request, tables, completed>>

PipeNext ==
    \/ RecorderAlone
    \/ \E t \in Tasks, r \in Reqs : UploadedAndSent(t, r)
    \/ CdrService \/ CdrRestarts
    \/ \E r \in Reqs : SaveFails(r)
    \/ \E f \in Files : PostCdr(f)

PipeSpec == PipeInit /\ [][PipeNext]_pipeVars

\* As for the recorder; and a handler's statements are executed, and Asterisk
\* writes its rows.
PipeFairness ==
    /\ WF_pipeVars(Bootstrap /\ RecorderAlone)
    /\ WF_pipeVars(Timers /\ RecorderAlone)
    /\ \A f \in Files : WF_pipeVars(Finished(f) /\ Quiet(f) /\ RecorderAlone)
    /\ \A f \in Files : WF_pipeVars(PostCdr(f))
    /\ \A t \in PollTasks : WF_pipeVars(PollStep(t) /\ RecorderAlone)
    /\ \A t \in Tasks : WF_pipeVars((UploadStep(t) \/ NotifyReturns(t)) /\ RecorderAlone)
    /\ \A t \in Tasks : WF_pipeVars(\E r \in Reqs : UploadedAndSent(t, r))
    /\ \A r \in Reqs : WF_pipeVars(InsertRow(r) \/ UpdateCdr(r))

FairPipe == PipeSpec /\ PipeFairness

-----------------------------------------------------------------------------
(* The archive the two services implement together.                        *)

Archive == INSTANCE RecordingArchive WITH
    Recordings <- Files,
    length <- size,
    ended  <- {f \in Files : Finished(f)},
    open   <- bucketMade,
    kept   <- bucket,
    listed <- {f \in Files : rows[f] # <<>>}

\* Every step of the two services is a step of the archive or changes nothing
\* of it: a stored recording is never lost, and nothing is listed before it is
\* stored, under any interleaving of uploads, handlers and restarts.
ImplementsArchive == Archive!ArchiveSpec

\* The same with the archive's promise that an ended recording is kept.
ImplementsFairArchive == Archive!FairArchive

-----------------------------------------------------------------------------
(* Properties.                                                             *)

\* A row of recordings, a recording_url, or a message under way is about a
\* recording whose object exists: a player that follows one finds the object.
RowImpliesStored ==
    /\ \A f \in Files : rows[f] # <<>> \/ cdr[f] = "url" => bucket[f] > 0
    /\ \A r \in Reqs : req[r] # "free" => bucket[reqFile[r]] > 0

\* There is no recording_url without a row of recordings: the UPDATE comes
\* second, so a failure between the two statements leaves a row without URL
\* and never the other way round.
UrlHasRow == \A f \in Files : cdr[f] = "url" => rows[f] # <<>>

Unhandled(f) == {r \in Reqs : req[r] = "sent" /\ reqFile[r] = f}

\* Timeouts and failures never multiply rows: a file has at most one row for
\* each PUT whose answer arrived, counting the messages still to be handled.
RowsBoundedByUploads ==
    \A f \in Files : Len(rows[f]) + Cardinality(Unhandled(f)) <= completed[f]

\* With a writer that never pauses for 2 s, every row's filesize is the size
\* of the recording and of its object, though localSize, the object and the
\* row are taken at three different moments.
SteadyRowsExact ==
    ~WriterPauses =>
        \A f \in Files : \A i \in 1..Len(rows[f]) :
            rows[f][i] = size[f] /\ rows[f][i] = bucket[f]

\* Both: the table says of a recording what was stored, as often as it was.
RowsAreRight == RowsBoundedByUploads /\ SteadyRowsExact

\* What a task and a handler know that makes the above inductive.
PipeKnowledge ==
    /\ \A r \in Reqs : req[r] # "free" => reqFile[r] \in Files
    /\ \A r \in Reqs : req[r] = "inserted" => rows[reqFile[r]] # <<>>
    /\ \A f \in Files : bucket[f] > 0 => bucketMade

PipeInv ==
    /\ PipeTypeOK
    /\ RecorderInv
    /\ RowImpliesStored
    /\ UrlHasRow
    /\ PipeKnowledge

\* With a writer that does not pause, the size that localSize took goes on being
\* the file's while the task, the message and the row carry it.
SteadyCopies ==
    ~WriterPauses =>
        /\ \A t \in Tasks : pc[t] \in {"head", "put", "putting", "stored"} => seen[t] = size[cur[t]]
        /\ \A r \in Reqs : req[r] # "free" => reqSize[r] = size[reqFile[r]]
        /\ \A f \in Files : \A i \in 1..Len(rows[f]) : rows[f][i] = size[f]

RowsInv == PipeInv /\ RowsBoundedByUploads /\ SteadyCopies

\* The call's row of table cdr is there when the UPDATE comes: Asterisk has
\* written it, or is prompt and the file is left to the watcher and the poller,
\* which wait for 5 s without a write.  The start-up scan does not, so the
\* recording of a call that ends during the scan may stay without its URL.
CdrInTime(f) == cdr[f] # "none" \/ (CdrPrompt /\ phase = "running")

\* Unless something fails, every finished recording with sound in it is listed
\* in table recordings; and one of which nothing is stored yet gets the URL in
\* its cdr row too, when that row is in time.
FinishedIsListed ==
    \A f \in Files :
        /\ (Finished(f) /\ size[f] > 0) ~> (rows[f] # <<>> \/ faults > 0)
        /\ (Finished(f) /\ size[f] > 0 /\ bucket[f] = 0 /\ CdrInTime(f))
              ~> ((rows[f] # <<>> /\ cdr[f] = "url") \/ faults > 0)
=============================================================================
