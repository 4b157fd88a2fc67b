------------------------------ MODULE Recorder ------------------------------
(***************************************************************************)
(* The recorder service (backend/recorder/src/recorder.service.ts): it     *)
(* copies the .wav files that Asterisk's MixMonitor writes to a shared     *)
(* volume into the MinIO bucket "recordings".                              *)
(*                                                                         *)
(* Three sources start uploads in one event loop: the scan at start-up     *)
(* (uploadExistingFiles), the debounced fs.watch timers, and a poller      *)
(* that ticks every 15 s and whose ticks may overlap.  Every await of      *)
(* uploadFile is a step of its own, so uploads of one file interleave      *)
(* with each other and with the writer.                                    *)
(*                                                                         *)
(* Sizes are counted in chunks: 0 is "at most the 44-byte header", the     *)
(* size that waitForStableFile refuses.  Time is the age of the last write *)
(* of a file: 0 just written, 1 quiet for the 2 s of the stability check,  *)
(* 2 quiet for the 5 s of the debounce and of the mtime check.             *)
(***************************************************************************)
EXTENDS Integers, FiniteSets

CONSTANTS
    Files,           \* recordings
    NoFile,          \* "no file in hand"
    BootTask,        \* the start-up scan
    WatchTasks,      \* bound: debounce callbacks running at the same time
    PollTasks,       \* bound: poller ticks running at the same time
    MaxSize,         \* bound: chunks in a recording
    StableAttempts,  \* attempts of waitForStableFile (12 in the code)
    WriterPauses,    \* may MixMonitor stop writing for 2 s during a call?
    MaxFaults        \* bound: failures and restarts injected

Tasks == {BootTask} \cup WatchTasks \cup PollTasks

ASSUME TasksAssumption ==
    /\ BootTask \notin WatchTasks \cup PollTasks
    /\ WatchTasks \cap PollTasks = {}
ASSUME FilesAssumption == NoFile \notin Files
ASSUME BoundsAssumption ==
    /\ MaxSize \in Nat \ {0}
    /\ StableAttempts \in Nat \ {0}
    /\ MaxFaults \in Nat
    /\ WriterPauses \in BOOLEAN

VARIABLES
    writer,       \* [Files -> what MixMonitor does with the file]
    size,         \* [Files -> chunks on disk]
    age,          \* [Files -> time since the last write: 0, 1 or 2]
    phase,        \* how far onApplicationBootstrap has come
    watching,     \* is the fs.watch handle open?
    event,        \* [Files -> inotify event of the last write]
    pending,      \* pendingUploads: files with an armed debounce timer
    pc,           \* [Tasks -> the await the task is at]
    cur,          \* [Tasks -> the file it is uploading]
    todo,         \* [Tasks -> files of its directory listing still to visit]
    attempt,      \* [Tasks -> attempts of waitForStableFile used up]
    seen,         \* [Tasks -> size1, later localSize]
    snap,         \* [Tasks -> chunks fPutObject is sending]
    uploadedLog,  \* uploadedLog: names uploaded since the process started
    bucketMade,   \* does the bucket exist in MinIO?
    bucket,       \* [Files -> chunks of the stored object, 0 if there is none]
    faults        \* failures injected so far

disk    == <<writer, size, age>>
watch   == <<phase, watching, event, pending>>
upload  == <<attempt, seen, snap>>
task    == <<pc, cur, todo, upload>>
minio   == <<bucketMade, bucket>>
recVars == <<disk, watch, task, uploadedLog, minio, faults>>

Sizes      == 0..MaxSize
UploadPc   == {"size1", "size2", "local", "head", "put", "putting", "stored", "notify"}
Pcs        == {"idle", "next", "fresh"} \cup UploadPc
Recorded   == {f \in Files : writer[f] # "none"}
Finished(f) == writer[f] = "closed"

TypeOK ==
    /\ writer \in [Files -> {"none", "recording", "closed"}]
    /\ size \in [Files -> Sizes]
    /\ age \in [Files -> 0..2]
    /\ phase \in {"ensure", "existing", "scanning", "running"}
    /\ watching \in BOOLEAN
    /\ event \in [Files -> {"none", "queued", "lost"}]
    /\ pending \in SUBSET Files
    /\ pc \in [Tasks -> Pcs]
    /\ cur \in [Tasks -> Files \cup {NoFile}]
    /\ todo \in [Tasks -> SUBSET Files]
    /\ attempt \in [Tasks -> 0..StableAttempts]
    /\ seen \in [Tasks -> Sizes]
    /\ snap \in [Tasks -> Sizes]
    /\ uploadedLog \in SUBSET Files
    /\ bucketMade \in BOOLEAN
    /\ bucket \in [Files -> Sizes]
    /\ faults \in 0..MaxFaults

Init ==
    /\ writer = [f \in Files |-> "none"]
    /\ size = [f \in Files |-> 0]
    /\ age = [f \in Files |-> 0]
    /\ phase = "ensure"
    /\ watching = FALSE
    /\ event = [f \in Files |-> "none"]
    /\ pending = {}
    /\ pc = [t \in Tasks |-> "idle"]
    /\ cur = [t \in Tasks |-> NoFile]
    /\ todo = [t \in Tasks |-> {}]
    /\ attempt = [t \in Tasks |-> 0]
    /\ seen = [t \in Tasks |-> 0]
    /\ snap = [t \in Tasks |-> 0]
    /\ uploadedLog = {}
    /\ bucketMade = FALSE
    /\ bucket = [f \in Files |-> 0]
    /\ faults = 0

Fault   == faults < MaxFaults /\ faults' = faults + 1
NoFault == UNCHANGED faults

-----------------------------------------------------------------------------
(* The writer: MixMonitor of the dialplan, and the clock.                  *)

\* A write restarts the age and, while the watcher is open, queues an event.
Touch(f) ==
    /\ age' = [age EXCEPT ![f] = 0]
    /\ event' = IF watching THEN [event EXCEPT ![f] = "queued"] ELSE event
    /\ UNCHANGED <<phase, watching, pending>>

StartRecording(f) ==
    /\ writer[f] = "none"
    /\ writer' = [writer EXCEPT ![f] = "recording"]
    /\ Touch(f)
    /\ UNCHANGED <<size, task, uploadedLog, minio, faults>>

WriteChunk(f) ==
    /\ writer[f] = "recording" /\ size[f] < MaxSize
    /\ size' = [size EXCEPT ![f] = @ + 1]
    /\ Touch(f)
    /\ UNCHANGED <<writer, task, uploadedLog, minio, faults>>

\* Hang-up: MixMonitor rewrites the header and closes the file.
CloseRecording(f) ==
    /\ writer[f] = "recording"
    /\ writer' = [writer EXCEPT ![f] = "closed"]
    /\ Touch(f)
    /\ UNCHANGED <<size, task, uploadedLog, minio, faults>>

\* Time passes without a write.
Quiet(f) ==
    /\ age[f] < 2
    /\ Finished(f) \/ (WriterPauses /\ writer[f] = "recording")
    /\ age' = [age EXCEPT ![f] = @ + 1]
    /\ UNCHANGED <<writer, size, watch, task, uploadedLog, minio, faults>>

Writer == \E f \in Files :
    StartRecording(f) \/ WriteChunk(f) \/ CloseRecording(f) \/ Quiet(f)

-----------------------------------------------------------------------------
(* onApplicationBootstrap.                                                 *)

\* ensureBucket: the bucket is there or is made; after 30 failed attempts the
\* method only logs the error and the start-up goes on.
EnsureBucket ==
    /\ phase = "ensure"
    /\ phase' = "existing"
    /\ \/ bucketMade' = TRUE /\ NoFault
       \/ Fault /\ UNCHANGED bucketMade
    /\ UNCHANGED <<disk, watching, event, pending, task, uploadedLog, bucket>>

\* uploadExistingFiles lists the directory.
UploadExistingFiles ==
    /\ phase = "existing"
    /\ phase' = "scanning"
    /\ pc' = [pc EXCEPT ![BootTask] = "next"]
    /\ \/ todo' = [todo EXCEPT ![BootTask] = Recorded] /\ NoFault
       \/ Fault /\ UNCHANGED todo
    /\ UNCHANGED <<disk, watching, event, pending, cur, upload, uploadedLog, minio>>

\* The scan is over: startWatcher (which gives up when the directory cannot be
\* read) and startPoller.
StartWatcherAndPoller ==
    /\ phase = "scanning" /\ pc[BootTask] = "next" /\ todo[BootTask] = {}
    /\ phase' = "running"
    /\ pc' = [pc EXCEPT ![BootTask] = "idle"]
    /\ \/ watching' = TRUE /\ NoFault
       \/ Fault /\ UNCHANGED watching
    /\ UNCHANGED <<disk, event, pending, cur, todo, upload, uploadedLog, minio>>

\* The scan takes its next file, without a look at its mtime.
ScanNext(f) ==
    /\ pc[BootTask] = "next" /\ f \in todo[BootTask]
    /\ todo' = [todo EXCEPT ![BootTask] = @ \ {f}]
    /\ cur' = [cur EXCEPT ![BootTask] = f]
    /\ pc' = [pc EXCEPT ![BootTask] = "size1"]
    /\ UNCHANGED <<disk, watch, upload, uploadedLog, minio, faults>>

Bootstrap == \/ EnsureBucket \/ UploadExistingFiles \/ StartWatcherAndPoller
             \/ \E f \in Files : ScanNext(f)

-----------------------------------------------------------------------------
(* The watcher.                                                            *)

\* The fs.watch callback: clear the file's timer, if any, and arm a new one.
WatchEvent(f) ==
    /\ watching /\ event[f] = "queued"
    /\ event' = [event EXCEPT ![f] = "none"]
    /\ pending' = pending \cup {f}
    /\ UNCHANGED <<disk, phase, watching, task, uploadedLog, minio, faults>>

\* inotify overflows and fs.watch never reports the write.
LoseEvent(f) ==
    /\ event[f] = "queued" /\ Fault
    /\ event' = [event EXCEPT ![f] = "lost"]
    /\ UNCHANGED <<disk, phase, watching, pending, task, uploadedLog, minio>>

\* A timer fires 5 s after the last event that armed it: when every write was
\* reported, 5 s after the last write.
WatchTimer(f, t) ==
    /\ t \in WatchTasks /\ pc[t] = "idle"
    /\ f \in pending
    /\ event[f] = "none" => age[f] = 2
    /\ pending' = pending \ {f}
    /\ pc' = [pc EXCEPT ![t] = "fresh"]
    /\ cur' = [cur EXCEPT ![t] = f]
    /\ UNCHANGED <<disk, phase, watching, event, todo, upload, uploadedLog, minio, faults>>

-----------------------------------------------------------------------------
(* The poller.                                                             *)

\* setInterval fires, whether or not an earlier tick is still uploading.
PollTick(t) ==
    /\ phase = "running" /\ t \in PollTasks /\ pc[t] = "idle"
    /\ pc' = [pc EXCEPT ![t] = "next"]
    /\ todo' = [todo EXCEPT ![t] = Recorded]
    /\ UNCHANGED <<disk, watch, cur, upload, uploadedLog, minio, faults>>

\* The next file of the listing; one already in uploadedLog is skipped.
PollNext(t, f) ==
    /\ t \in PollTasks /\ pc[t] = "next" /\ f \in todo[t]
    /\ todo' = [todo EXCEPT ![t] = @ \ {f}]
    /\ IF f \in uploadedLog
         THEN UNCHANGED <<pc, cur>>
         ELSE /\ pc' = [pc EXCEPT ![t] = "fresh"]
              /\ cur' = [cur EXCEPT ![t] = f]
    /\ UNCHANGED <<disk, watch, upload, uploadedLog, minio, faults>>

PollDone(t) ==
    /\ t \in PollTasks /\ pc[t] = "next" /\ todo[t] = {}
    /\ pc' = [pc EXCEPT ![t] = "idle"]
    /\ UNCHANGED <<disk, watch, cur, todo, upload, uploadedLog, minio, faults>>

-----------------------------------------------------------------------------
(* uploadFile, one step for each await.                                    *)

Goto(t, label) == pc' = [pc EXCEPT ![t] = label]

\* uploadFile returns: a timer callback ends, a scan goes on to its next file.
Return(t) ==
    /\ Goto(t, IF t \in WatchTasks THEN "idle" ELSE "next")
    /\ cur' = [cur EXCEPT ![t] = NoFile]
    /\ attempt' = [attempt EXCEPT ![t] = 0]
    /\ seen' = [seen EXCEPT ![t] = 0]
    /\ snap' = [snap EXCEPT ![t] = 0]

\* The mtime check of the watcher and of the poller: a file modified within
\* the last 5 s is left alone, and no timer is armed for it.
CheckFresh(t) ==
    /\ pc[t] = "fresh"
    /\ IF age[cur[t]] < 2
         THEN Return(t)
         ELSE Goto(t, "size1") /\ UNCHANGED <<cur, upload>>
    /\ UNCHANGED <<disk, watch, todo, uploadedLog, minio, faults>>

\* Mutant of ReadSize1: one look at the size, no second one 2 s later.
ReadSizeOnce(t) ==
    /\ pc[t] = "size1"
    /\ seen' = [seen EXCEPT ![t] = size[cur[t]]]
    /\ Goto(t, IF size[cur[t]] > 0 THEN "local" ELSE "size2")
    /\ UNCHANGED <<disk, watch, cur, todo, attempt, snap, uploadedLog, minio, faults>>

ReadSize1(t) ==
    /\ pc[t] = "size1"
    /\ seen' = [seen EXCEPT ![t] = size[cur[t]]]
    /\ Goto(t, "size2")
    /\ UNCHANGED <<disk, watch, cur, todo, attempt, snap, uploadedLog, minio, faults>>

\* Between two reads of one size: a file still recorded has been quiet for 2 s;
\* of a closed one the model keeps no such time, and lets the reads follow.
TwoSecondsPassed(f) == age[f] > 0 \/ Finished(f)

\* Mutant of ReadSize2: a file that is its header only is stable too.
ReadSize2AnySize(t) ==
    /\ pc[t] = "size2"
    /\ seen[t] = size[cur[t]] => TwoSecondsPassed(cur[t])
    /\ IF seen[t] = size[cur[t]]
         THEN Goto(t, "local") /\ UNCHANGED <<cur, upload>>
         ELSE Return(t)
    /\ UNCHANGED <<disk, watch, todo, uploadedLog, minio, faults>>

\* Two seconds later.  The same size means that no chunk was written for 2 s;
\* the close changes no size, so a file closed since may be younger than that.
ReadSize2(t) ==
    /\ pc[t] = "size2"
    /\ seen[t] = size[cur[t]] => TwoSecondsPassed(cur[t])
    /\ \/ /\ seen[t] = size[cur[t]] /\ seen[t] > 0
          /\ Goto(t, "local")
          /\ UNCHANGED <<cur, upload>>
       \/ /\ seen[t] # size[cur[t]] \/ seen[t] = 0
          /\ attempt[t] + 1 < StableAttempts
          /\ attempt' = [attempt EXCEPT ![t] = @ + 1]
          /\ Goto(t, "size1")
          /\ UNCHANGED <<cur, seen, snap>>
       \/ /\ seen[t] # size[cur[t]] \/ seen[t] = 0
          /\ attempt[t] + 1 >= StableAttempts
          /\ Return(t)
    /\ UNCHANGED <<disk, watch, todo, uploadedLog, minio, faults>>

\* localSize; a name already uploaded by this process is first compared with
\* the stored object.
ReadLocalSize(t) ==
    /\ pc[t] = "local"
    /\ seen' = [seen EXCEPT ![t] = size[cur[t]]]
    /\ Goto(t, IF cur[t] \in uploadedLog THEN "head" ELSE "put")
    /\ UNCHANGED <<disk, watch, cur, todo, attempt, snap, uploadedLog, minio, faults>>

\* statObject: equal sizes end the upload; a difference, a missing object or
\* an error sends the file again.
StatObject(t) ==
    /\ pc[t] = "head"
    /\ \/ bucket[cur[t]] = seen[t] /\ Return(t) /\ NoFault
       \/ bucket[cur[t]] # seen[t] /\ Goto(t, "put") /\ NoFault /\ UNCHANGED <<cur, upload>>
       \/ Fault /\ Goto(t, "put") /\ UNCHANGED <<cur, upload>>
    /\ UNCHANGED <<disk, watch, todo, uploadedLog, minio>>

\* Mutant of PutObject: the name is logged before the PUT is awaited.
PutObjectLogsFirst(t) ==
    /\ pc[t] = "put"
    /\ snap' = [snap EXCEPT ![t] = size[cur[t]]]
    /\ uploadedLog' = uploadedLog \cup {cur[t]}
    /\ Goto(t, "putting")
    /\ UNCHANGED <<disk, watch, cur, todo, attempt, seen, minio, faults>>

\* Mutant of PutObject: an outdated object is removed before the file is sent.
PutObjectRemovesFirst(t) ==
    /\ pc[t] = "put"
    /\ snap' = [snap EXCEPT ![t] = size[cur[t]]]
    /\ bucket' = [bucket EXCEPT ![cur[t]] = 0]
    /\ Goto(t, "putting")
    /\ UNCHANGED <<disk, watch, cur, todo, attempt, seen, uploadedLog, bucketMade, faults>>

\* fPutObject opens the file and fixes the length of what it sends ...
PutObject(t) ==
    /\ pc[t] = "put"
    /\ snap' = [snap EXCEPT ![t] = size[cur[t]]]
    /\ Goto(t, "putting")
    /\ UNCHANGED <<disk, watch, cur, todo, attempt, seen, uploadedLog, minio, faults>>

\* ... and MinIO replaces the object by it: the last PUT to arrive wins.
StoreObject(t) ==
    /\ pc[t] = "putting" /\ bucketMade
    /\ bucket' = [bucket EXCEPT ![cur[t]] = snap[t]]
    /\ Goto(t, "stored")
    /\ UNCHANGED <<disk, watch, cur, todo, upload, uploadedLog, bucketMade, faults>>

\* The answer arrives: the name is logged and the CDR service is called.
PutReturns(t) ==
    /\ pc[t] = "stored"
    /\ uploadedLog' = uploadedLog \cup {cur[t]}
    /\ Goto(t, "notify")
    /\ UNCHANGED <<disk, watch, cur, todo, upload, minio, faults>>

\* Mutant of PutFails: the name is logged in a finally block.
PutFailsLogged(t) ==
    /\ \/ pc[t] \in {"putting", "stored"} /\ Fault
       \/ pc[t] = "putting" /\ ~bucketMade /\ NoFault
    /\ Return(t)
    /\ uploadedLog' = uploadedLog \cup {cur[t]}
    /\ UNCHANGED <<disk, watch, todo, minio>>

\* The PUT is refused, or its answer is lost: logged, and that is all.
PutFails(t) ==
    /\ \/ pc[t] \in {"putting", "stored"} /\ Fault
       \/ pc[t] = "putting" /\ ~bucketMade /\ NoFault
    /\ Return(t)
    /\ UNCHANGED <<disk, watch, todo, uploadedLog, minio>>

\* notifyCdrService ends with the answer, an error or the 5 s timeout: the
\* three are the same to the caller, nothing is remembered or tried again.
NotifyReturns(t) ==
    /\ pc[t] = "notify"
    /\ Return(t)
    /\ UNCHANGED <<disk, watch, todo, uploadedLog, minio, faults>>

-----------------------------------------------------------------------------
(* Failures.                                                               *)

\* The process ends (stopWatcher, or a kill) and Docker starts it again: what
\* was in memory is gone.
ProcessRestarts ==
    /\ phase' = "ensure"
    /\ watching' = FALSE
    /\ event' = [f \in Files |-> "none"]
    /\ pending' = {}
    /\ pc' = [t \in Tasks |-> "idle"]
    /\ cur' = [t \in Tasks |-> NoFile]
    /\ todo' = [t \in Tasks |-> {}]
    /\ attempt' = [t \in Tasks |-> 0]
    /\ seen' = [t \in Tasks |-> 0]
    /\ snap' = [t \in Tasks |-> 0]
    /\ uploadedLog' = {}
    /\ UNCHANGED <<disk, minio>>

Restart == Fault /\ ProcessRestarts

\* A stat of the file fails.  The mtime and stability checks treat that as
\* "not now".  The stat of localSize is outside every try of uploadFile: it
\* abandons the whole scan or tick, and in a timer callback it is an unhandled
\* rejection, which ends the process.
StatFails(t) ==
    /\ Fault
    /\ \/ /\ pc[t] \in {"fresh", "size1", "size2"}
          /\ Return(t)
          /\ UNCHANGED <<disk, watch, todo, uploadedLog, minio>>
       \/ /\ pc[t] = "local" /\ t \notin WatchTasks
          /\ Return(t)
          /\ todo' = [todo EXCEPT ![t] = {}]
          /\ UNCHANGED <<disk, watch, uploadedLog, minio>>
       \/ /\ pc[t] = "local" /\ t \in WatchTasks
          /\ ProcessRestarts

Failures == \/ Restart
            \/ \E f \in Files : LoseEvent(f)
            \/ \E t \in Tasks : StatFails(t)

-----------------------------------------------------------------------------

UploadStep(t) ==
    \/ CheckFresh(t) \/ ReadSize1(t) \/ ReadSize2(t) \/ ReadLocalSize(t)
    \/ StatObject(t) \/ PutObject(t) \/ StoreObject(t) \/ PutFails(t)

Timers == \E f \in Files : WatchEvent(f) \/ \E t \in WatchTasks : WatchTimer(f, t)

PollStep(t) == PollTick(t) \/ PollDone(t) \/ \E f \in Files : PollNext(t, f)

Next == \/ Writer \/ Bootstrap \/ Timers \/ Failures
        \/ \E t \in PollTasks : PollStep(t)
        \/ \E t \in Tasks : UploadStep(t) \/ PutReturns(t) \/ NotifyReturns(t)

Spec == Init /\ [][Next]_recVars

\* The event loop goes on: a promise that can settle does, timers fire, time
\* passes for a file nobody writes.  Nothing makes the writer go on or close.
Fairness ==
    /\ WF_recVars(Bootstrap)
    /\ WF_recVars(Timers)
    /\ \A f \in Files : WF_recVars(Finished(f) /\ Quiet(f))
    /\ \A t \in PollTasks : WF_recVars(PollStep(t))
    /\ \A t \in Tasks : WF_recVars(UploadStep(t) \/ PutReturns(t) \/ NotifyReturns(t))

FairSpec == Spec /\ Fairness

-----------------------------------------------------------------------------
(* Properties.                                                             *)

\* A name in uploadedLog has an object in MinIO: what makes it right for the
\* poller to skip such a name (recorder.service.ts:118), whatever PUTs fail.
LogImpliesStored == \A f \in uploadedLog : bucket[f] > 0

\* When MixMonitor never pauses for 2 s during a call, the stability check of
\* uploadFile keeps every partial recording out of MinIO, in the start-up scan
\* (which has no mtime check) and across restarts and overlapping uploads too.
SteadyWriterStoredWhole ==
    ~WriterPauses =>
        \A f \in Files : bucket[f] > 0 => Finished(f) /\ bucket[f] = size[f]

\* The inductive invariant behind the two: what a task knows of its file at
\* each await.  Past the stability check the file has sound; from fPutObject on
\* the chunks in flight are a part of the file; and when the writer does not
\* pause, the file is closed and the chunks are all of it.
Checked == {"local", "head", "put", "putting", "stored", "notify"}

ObjectIsPrefix == \A f \in Files : bucket[f] <= size[f]

HasFile == \A t \in Tasks : pc[t] \in {"fresh"} \cup UploadPc => cur[t] \in Files

PutInFlight ==
    /\ \A t \in Tasks : pc[t] \in Checked => size[cur[t]] > 0
    /\ \A t \in Tasks : pc[t] \in {"putting", "stored"} =>
            0 < snap[t] /\ snap[t] <= size[cur[t]]
    /\ \A t \in Tasks : pc[t] = "stored" => bucket[cur[t]] > 0

SteadyTasks ==
    ~WriterPauses =>
        /\ \A f \in Files : age[f] > 0 => Finished(f)
        /\ \A t \in Tasks : pc[t] \in Checked => Finished(cur[t])
        /\ \A t \in Tasks : pc[t] \in {"putting", "stored"} => snap[t] = size[cur[t]]

RecorderInv ==
    /\ TypeOK
    /\ HasFile
    /\ PutInFlight
    /\ LogImpliesStored
    /\ ObjectIsPrefix
    /\ SteadyTasks
    /\ SteadyWriterStoredWhole

\* Every finished recording with any sound in it gets an object in the end:
\* the poller picks up what the scan and the watcher missed, after any finite
\* number of failures, once the bucket exists.
FinishedIsStored ==
    \A f \in Files :
        (Finished(f) /\ size[f] > 0 /\ bucketMade) ~> (bucket[f] > 0)

\* What the poller is announced to do (recorder.service.ts:132, "for missed
\* recordings"): in the end the object of a finished recording is all of it.
FinishedIsStoredWhole ==
    \A f \in Files :
        (Finished(f) /\ size[f] > 0 /\ bucketMade) ~> (bucket[f] = size[f])
=============================================================================
