--------------------------- MODULE RecordingProofs --------------------------
(* Proofs about the recorder, for every set of files and tasks and every   *)
(* bound: what a name in uploadedLog is worth, and when the stability      *)
(* check keeps partial recordings out of MinIO.  Then about the recorder   *)
(* and the CDR service together: their inductive invariant, what the rows  *)
(* say, and that they implement the archive of RecordingArchive.           *)
EXTENDS RecordingPipeline, FiniteSetTheorems, TLAPS

-----------------------------------------------------------------------------
(* The recorder.                                                           *)

\* What holds of a task holds whatever its kind.
LEMMA BootIsTask == BootTask \in Tasks /\ WatchTasks \subseteq Tasks /\ PollTasks \subseteq Tasks
BY DEF Tasks

\* The initial states are well typed and nothing has been uploaded in them.
LEMMA InitInv == Init => RecorderInv
<1> SUFFICES ASSUME Init PROVE RecorderInv
  OBVIOUS
<1>1. TypeOK
  <2>1. 0 \in Sizes /\ 0 \in 0..2 /\ 0 \in 0..StableAttempts /\ 0 \in 0..MaxFaults
    BY BoundsAssumption DEF Sizes
  <2>2. writer \in [Files -> {"none", "recording", "closed"}] /\ phase = "ensure" /\ watching = FALSE
    BY DEF Init
  <2>3. /\ size \in [Files -> Sizes] /\ age \in [Files -> 0..2] /\ bucket \in [Files -> Sizes]
        /\ event \in [Files -> {"none", "queued", "lost"}]
    BY <2>1 DEF Init
  <2>4. pc \in [Tasks -> Pcs] /\ cur \in [Tasks -> Files \cup {NoFile}] /\ todo \in [Tasks -> SUBSET Files]
    BY DEF Init, Pcs
  <2>5. attempt \in [Tasks -> 0..StableAttempts] /\ seen \in [Tasks -> Sizes] /\ snap \in [Tasks -> Sizes]
    BY <2>1 DEF Init
  <2>6. QED
    BY <2>1, <2>2, <2>3, <2>4, <2>5 DEF Init, TypeOK
<1>2. HasFile /\ PutInFlight
  BY DEF Init, HasFile, PutInFlight, UploadPc, Checked
<1>3. LogImpliesStored /\ ObjectIsPrefix /\ SteadyWriterStoredWhole
  BY DEF Init, LogImpliesStored, ObjectIsPrefix, SteadyWriterStoredWhole
<1>4. SteadyTasks
  BY DEF Init, SteadyTasks, Checked
<1>5. QED
  BY <1>1, <1>2, <1>3, <1>4 DEF RecorderInv

\* A restart empties the memory and leaves the disk and MinIO alone.
LEMMA RestartInv == RecorderInv /\ ProcessRestarts /\ faults' \in 0..MaxFaults => RecorderInv'
<1> SUFFICES ASSUME RecorderInv, ProcessRestarts, faults' \in 0..MaxFaults PROVE RecorderInv'
  OBVIOUS
<1> USE DEF RecorderInv, ProcessRestarts, disk, minio
<1>1. TypeOK'
  <2>1. 0 \in Sizes /\ 0 \in 0..StableAttempts
    BY BoundsAssumption DEF Sizes
  <2>2. event' \in [Files -> {"none", "queued", "lost"}] /\ phase' = "ensure" /\ watching' = FALSE
    OBVIOUS
  <2>3. /\ pc' \in [Tasks -> Pcs] /\ cur' \in [Tasks -> Files \cup {NoFile}]
        /\ todo' \in [Tasks -> SUBSET Files]
    BY DEF Pcs
  <2>4. /\ attempt' \in [Tasks -> 0..StableAttempts] /\ seen' \in [Tasks -> Sizes]
        /\ snap' \in [Tasks -> Sizes]
    BY <2>1
  <2>5. QED
    BY <2>1, <2>2, <2>3, <2>4 DEF TypeOK, Sizes
<1>2. HasFile' /\ PutInFlight'
  BY DEF HasFile, PutInFlight, UploadPc, Checked
<1>3. LogImpliesStored' /\ ObjectIsPrefix' /\ SteadyWriterStoredWhole'
  BY DEF LogImpliesStored, ObjectIsPrefix, SteadyWriterStoredWhole, Finished
<1>4. SteadyTasks'
  BY DEF SteadyTasks, Checked, Finished
<1>5. QED
  BY <1>1, <1>2, <1>3, <1>4

\* The number of failures stays within its bound.
LEMMA FaultBound == TypeOK /\ Fault => faults' \in 0..MaxFaults
BY BoundsAssumption DEF TypeOK, Fault

\* Every step keeps the variables in their types.
LEMMA TypeStep == RecorderInv /\ [Next]_recVars => TypeOK'
<1> SUFFICES ASSUME RecorderInv, [Next]_recVars PROVE TypeOK'
  OBVIOUS
<1> USE BoundsAssumption, BootIsTask
    DEF RecorderInv, TypeOK, HasFile, Sizes, Pcs, UploadPc, Recorded
<1>1. ASSUME NEW f \in Files, StartRecording(f) \/ WriteChunk(f) \/ CloseRecording(f) \/ Quiet(f)
      PROVE  TypeOK'
  BY <1>1 DEF StartRecording, WriteChunk, CloseRecording, Quiet, Touch, disk, watch, task,
              upload, minio
<1>2. CASE Bootstrap
  <2>1. CASE EnsureBucket
    BY <2>1, FaultBound DEF EnsureBucket, NoFault, disk, task, upload
  <2>2. CASE UploadExistingFiles
    BY <2>2, FaultBound DEF UploadExistingFiles, NoFault, disk, upload, minio
  <2>3. CASE StartWatcherAndPoller
    BY <2>3, FaultBound DEF StartWatcherAndPoller, NoFault, disk, upload, minio
  <2>4. ASSUME NEW f \in Files, ScanNext(f) PROVE TypeOK'
    BY <2>4 DEF ScanNext, disk, watch, upload, minio
  <2>5. QED
    BY <1>2, <2>1, <2>2, <2>3, <2>4 DEF Bootstrap
<1>3. ASSUME NEW f \in Files, WatchEvent(f) \/ (\E t \in WatchTasks : WatchTimer(f, t))
      PROVE  TypeOK'
  BY <1>3 DEF WatchEvent, WatchTimer, disk, task, upload, minio
<1>4. CASE Failures
  <2>1. CASE Restart
    BY <2>1, RestartInv, FaultBound DEF Restart
  <2>2. ASSUME NEW f \in Files, LoseEvent(f) PROVE TypeOK'
    BY <2>2, FaultBound DEF LoseEvent, disk, task, upload, minio
  <2>3. ASSUME NEW t \in Tasks, StatFails(t) PROVE TypeOK'
    <3>1. CASE ProcessRestarts
      BY <2>3, <3>1, RestartInv, FaultBound DEF StatFails
    <3>2. CASE ~ProcessRestarts
      BY <2>3, <3>2, FaultBound DEF StatFails, Return, Goto, disk, watch, minio
    <3>3. QED BY <3>1, <3>2
  <2>4. QED
    BY <1>4, <2>1, <2>2, <2>3 DEF Failures
<1>5. ASSUME NEW t \in PollTasks, PollStep(t) PROVE TypeOK'
  BY <1>5 DEF PollStep, PollTick, PollDone, PollNext, disk, watch, upload, minio
<1>6. ASSUME NEW t \in Tasks, UploadStep(t) \/ PutReturns(t) \/ NotifyReturns(t) PROVE TypeOK'
  <2>1. CASE CheckFresh(t)
    BY <2>1 DEF CheckFresh, Return, Goto, disk, watch, upload, minio
  <2>2. CASE ReadSize1(t) \/ ReadSize2(t) \/ ReadLocalSize(t)
    BY <2>2 DEF ReadSize1, ReadSize2, ReadLocalSize, Return, Goto, disk, watch, upload, minio
  <2>3. CASE StatObject(t)
    BY <2>3, FaultBound DEF StatObject, Return, Goto, NoFault, disk, watch, upload, minio
  <2>4. CASE PutObject(t) \/ StoreObject(t)
    BY <2>4 DEF PutObject, StoreObject, Goto, disk, watch, upload, minio
  <2>5. CASE PutFails(t)
    BY <2>5, FaultBound DEF PutFails, Return, Goto, NoFault, disk, watch, minio
  <2>6. CASE PutReturns(t) \/ NotifyReturns(t)
    BY <2>6 DEF PutReturns, NotifyReturns, Return, Goto, disk, watch, upload, minio
  <2>7. QED
    BY <1>6, <2>1, <2>2, <2>3, <2>4, <2>5, <2>6 DEF UploadStep
<1>7. CASE UNCHANGED recVars
  BY <1>7 DEF recVars, disk, watch, task, upload, minio
<1>8. QED
  BY <1>1, <1>2, <1>3, <1>4, <1>5, <1>6, <1>7 DEF Next, Writer, Timers

\* What tasks know of their files, and the three properties.
Knowledge == HasFile /\ PutInFlight /\ LogImpliesStored /\ ObjectIsPrefix
             /\ SteadyTasks /\ SteadyWriterStoredWhole

\* A step that leaves the tasks at their awaits, and only lets files grow or
\* be closed, keeps what the tasks know.
LEMMA WriterStep ==
    ASSUME RecorderInv, TypeOK', NEW g \in Files,
           StartRecording(g) \/ WriteChunk(g) \/ CloseRecording(g) \/ Quiet(g)
    PROVE  Knowledge'
<1> USE DEF RecorderInv, TypeOK
<1>1. CASE StartRecording(g)
  <2> USE <1>1 DEF StartRecording, Touch, task, upload, minio
  <2>1. HasFile' /\ PutInFlight' /\ LogImpliesStored' /\ ObjectIsPrefix'
    BY DEF HasFile, PutInFlight, LogImpliesStored, ObjectIsPrefix
  <2>2. SteadyTasks' /\ SteadyWriterStoredWhole'
    BY DEF SteadyTasks, SteadyWriterStoredWhole, Finished, HasFile, Checked, UploadPc
  <2>3. QED BY <2>1, <2>2 DEF Knowledge
<1>2. CASE WriteChunk(g)
  <2> USE <1>2 DEF WriteChunk, Touch, task, upload, minio
  <2>1. HasFile' /\ LogImpliesStored'
    BY DEF HasFile, LogImpliesStored
  <2>2. \A f \in Files : size[f] <= size'[f] /\ size[f] \in Int /\ size'[f] \in Int
    BY DEF Sizes
  <2>3. PutInFlight' /\ ObjectIsPrefix'
    BY <2>2 DEF PutInFlight, ObjectIsPrefix, HasFile, Checked, UploadPc, Sizes
  <2>4. SteadyTasks' /\ SteadyWriterStoredWhole'
    BY DEF SteadyTasks, SteadyWriterStoredWhole, Finished, HasFile, Checked, UploadPc
  <2>5. QED BY <2>1, <2>3, <2>4 DEF Knowledge
<1>3. CASE CloseRecording(g)
  <2> USE <1>3 DEF CloseRecording, Touch, task, upload, minio
  <2>1. HasFile' /\ PutInFlight' /\ LogImpliesStored' /\ ObjectIsPrefix'
    BY DEF HasFile, PutInFlight, LogImpliesStored, ObjectIsPrefix
  <2>2. SteadyTasks' /\ SteadyWriterStoredWhole'
    BY DEF SteadyTasks, SteadyWriterStoredWhole, Finished, HasFile, Checked, UploadPc
  <2>3. QED BY <2>1, <2>2 DEF Knowledge
<1>4. CASE Quiet(g)
  <2> USE <1>4 DEF Quiet, task, upload, minio
  <2>1. HasFile' /\ PutInFlight' /\ LogImpliesStored' /\ ObjectIsPrefix'
    BY DEF HasFile, PutInFlight, LogImpliesStored, ObjectIsPrefix
  <2>2. SteadyTasks' /\ SteadyWriterStoredWhole'
    BY DEF SteadyTasks, SteadyWriterStoredWhole, Finished, HasFile, Checked, UploadPc
  <2>3. QED BY <2>1, <2>2 DEF Knowledge
<1>5. QED BY <1>1, <1>2, <1>3, <1>4

\* A step that leaves disk, log and MinIO alone and takes tasks only away from
\* the awaits past the stability check.
LEMMA EarlyStep ==
    ASSUME RecorderInv, HasFile', UNCHANGED <<disk, uploadedLog, bucket>>,
           \A t \in Tasks : pc'[t] \in Checked => pc'[t] = pc[t] /\ cur'[t] = cur[t] /\ snap'[t] = snap[t]
    PROVE  Knowledge'
<1> USE DEF RecorderInv, disk
<1>1. PutInFlight'
  BY DEF PutInFlight, Checked
<1>2. LogImpliesStored' /\ ObjectIsPrefix' /\ SteadyWriterStoredWhole'
  BY DEF LogImpliesStored, ObjectIsPrefix, SteadyWriterStoredWhole, Finished
<1>3. SteadyTasks'
  BY DEF SteadyTasks, Finished, Checked
<1>4. QED BY <1>1, <1>2, <1>3 DEF Knowledge

\* The awaits of uploadFile past the stability check.
LEMMA UploadInv ==
    ASSUME RecorderInv, TypeOK', NEW u \in Tasks,
           ReadSize2(u) \/ ReadLocalSize(u) \/ StatObject(u) \/ PutObject(u) \/ StoreObject(u)
           \/ PutReturns(u)
    PROVE  Knowledge'
<1> USE DEF RecorderInv, TypeOK
<1>1. CASE ReadSize2(u)
  <2> USE <1>1 DEF ReadSize2, TwoSecondsPassed, disk, watch, minio, upload
  <2>1. HasFile' BY DEF HasFile, Return, Goto, UploadPc
  <2>2. CASE pc'[u] # "local"
    BY <2>1, <2>2, EarlyStep DEF Return, Goto, Checked
  <2>3. CASE pc'[u] = "local"
    <3>1. /\ seen[u] = size[cur[u]] /\ seen[u] > 0
          /\ age[cur[u]] > 0 \/ Finished(cur[u])
          /\ pc' = [pc EXCEPT ![u] = "local"] /\ UNCHANGED <<cur, seen, snap>>
      BY <2>3 DEF Return, Goto
    <3>2. pc[u] = "size2" /\ cur[u] \in Files
      BY DEF HasFile, UploadPc
    <3>3. PutInFlight' /\ SteadyTasks'
      BY <3>1, <3>2 DEF PutInFlight, SteadyTasks, Finished, Checked
    <3>4. LogImpliesStored' /\ ObjectIsPrefix' /\ SteadyWriterStoredWhole'
      BY DEF LogImpliesStored, ObjectIsPrefix, SteadyWriterStoredWhole, Finished
    <3>5. QED BY <2>1, <3>3, <3>4 DEF Knowledge
  <2>4. QED BY <2>2, <2>3
<1>2. CASE ReadLocalSize(u) \/ StatObject(u)
  <2> USE <1>2 DEF ReadLocalSize, StatObject, disk, watch, minio, upload
  <2>1. HasFile' BY DEF HasFile, Return, Goto, UploadPc
  <2>2. PutInFlight'
    BY DEF PutInFlight, Return, Goto, Checked
  <2>3. SteadyTasks'
    BY DEF SteadyTasks, Return, Goto, Checked, Finished
  <2>4. LogImpliesStored' /\ ObjectIsPrefix' /\ SteadyWriterStoredWhole'
    BY DEF LogImpliesStored, ObjectIsPrefix, SteadyWriterStoredWhole, Finished
  <2>5. QED BY <2>1, <2>2, <2>3, <2>4 DEF Knowledge
<1>3. CASE PutObject(u)
  <2> USE <1>3 DEF PutObject, Goto, disk, watch, minio
  <2>1. HasFile' BY DEF HasFile, UploadPc
  <2>2. size[cur[u]] > 0 /\ cur[u] \in Files /\ size[cur[u]] \in Int
    BY DEF PutInFlight, HasFile, UploadPc, Checked, Sizes
  <2>3. PutInFlight' /\ SteadyTasks'
    BY <2>2 DEF PutInFlight, SteadyTasks, Finished, Checked
  <2>4. LogImpliesStored' /\ ObjectIsPrefix' /\ SteadyWriterStoredWhole'
    BY DEF LogImpliesStored, ObjectIsPrefix, SteadyWriterStoredWhole, Finished
  <2>5. QED BY <2>1, <2>3, <2>4 DEF Knowledge
<1>4. CASE StoreObject(u)
  <2> USE <1>4 DEF StoreObject, Goto, disk, watch, upload
  <2>1. HasFile' BY DEF HasFile, UploadPc
  <2>2. /\ cur[u] \in Files /\ 0 < snap[u] /\ snap[u] <= size[cur[u]]
        /\ ~WriterPauses => Finished(cur[u]) /\ snap[u] = size[cur[u]]
    BY DEF PutInFlight, HasFile, UploadPc, SteadyTasks, Checked
  <2>3. PutInFlight' /\ SteadyTasks'
    BY <2>2 DEF PutInFlight, SteadyTasks, Finished, Checked, HasFile, UploadPc
  <2>4. LogImpliesStored' /\ ObjectIsPrefix' /\ SteadyWriterStoredWhole'
    BY <2>2 DEF LogImpliesStored, ObjectIsPrefix, SteadyWriterStoredWhole, Finished
  <2>5. QED BY <2>1, <2>3, <2>4 DEF Knowledge
<1>5. CASE PutReturns(u)
  <2> USE <1>5 DEF PutReturns, Goto, disk, watch, upload, minio
  <2>1. HasFile' BY DEF HasFile, UploadPc
  <2>2. PutInFlight' /\ SteadyTasks'
    BY DEF PutInFlight, SteadyTasks, Finished, Checked
  <2>3. LogImpliesStored' /\ ObjectIsPrefix' /\ SteadyWriterStoredWhole'
    BY DEF LogImpliesStored, ObjectIsPrefix, SteadyWriterStoredWhole, Finished, PutInFlight
  <2>4. QED BY <2>1, <2>2, <2>3 DEF Knowledge
<1>6. QED BY <1>1, <1>2, <1>3, <1>4, <1>5

\* Every step keeps the invariant.
LEMMA InvStep == RecorderInv /\ [Next]_recVars => RecorderInv'
<1> SUFFICES ASSUME RecorderInv, [Next]_recVars PROVE RecorderInv'
  OBVIOUS
<1>0. TypeOK'
  BY TypeStep
<1> SUFFICES Knowledge'
  BY <1>0 DEF Knowledge, RecorderInv
<1> USE <1>0, BootIsTask DEF RecorderInv, TypeOK
<1>1. ASSUME NEW f \in Files, StartRecording(f) \/ WriteChunk(f) \/ CloseRecording(f) \/ Quiet(f)
      PROVE  Knowledge'
  BY <1>1, WriterStep
<1>2. ASSUME Bootstrap PROVE Knowledge'
  <2>1. HasFile'
    BY <1>2 DEF Bootstrap, EnsureBucket, UploadExistingFiles, StartWatcherAndPoller, ScanNext,
                HasFile, UploadPc, task, upload
  <2>2. UNCHANGED <<disk, uploadedLog, bucket, snap>>
    BY <1>2 DEF Bootstrap, EnsureBucket, UploadExistingFiles, StartWatcherAndPoller, ScanNext,
                disk, task, upload, minio
  <2>3. \A t \in Tasks : pc'[t] \in Checked => pc'[t] = pc[t] /\ cur'[t] = cur[t]
    BY <1>2 DEF Bootstrap, EnsureBucket, UploadExistingFiles, StartWatcherAndPoller, ScanNext,
                Checked, task
  <2>4. QED BY <2>1, <2>2, <2>3, EarlyStep
<1>3. ASSUME NEW f \in Files, WatchEvent(f) \/ (\E t \in WatchTasks : WatchTimer(f, t))
      PROVE  Knowledge'
  <2>1. HasFile'
    BY <1>3 DEF WatchEvent, WatchTimer, HasFile, UploadPc, task
  <2>2. UNCHANGED <<disk, uploadedLog, bucket, snap>>
    BY <1>3 DEF WatchEvent, WatchTimer, disk, task, upload, minio
  <2>3. \A t \in Tasks : pc'[t] \in Checked => pc'[t] = pc[t] /\ cur'[t] = cur[t]
    BY <1>3 DEF WatchEvent, WatchTimer, Checked, task
  <2>4. QED BY <2>1, <2>2, <2>3, EarlyStep
<1>4. ASSUME NEW f \in Files, LoseEvent(f) PROVE Knowledge'
  <2>1. UNCHANGED <<disk, uploadedLog, bucket, pc, cur, snap>>
    BY <1>4 DEF LoseEvent, disk, task, upload, minio
  <2>2. HasFile' BY <2>1 DEF HasFile
  <2>3. QED BY <2>1, <2>2, EarlyStep
<1>5. ASSUME ProcessRestarts PROVE Knowledge'
  BY <1>5, RestartInv DEF Knowledge
<1>6. ASSUME NEW t \in Tasks, Return(t), UNCHANGED <<disk, uploadedLog, bucket>> PROVE Knowledge'
  <2>1. HasFile'
    BY <1>6 DEF Return, Goto, HasFile, UploadPc
  <2>2. \A s \in Tasks : pc'[s] \in Checked => pc'[s] = pc[s] /\ cur'[s] = cur[s] /\ snap'[s] = snap[s]
    BY <1>6 DEF Return, Goto, Checked
  <2>3. QED BY <1>6, <2>1, <2>2, EarlyStep
<1>7. ASSUME NEW t \in Tasks, StatFails(t) PROVE Knowledge'
  BY <1>5, <1>6, <1>7 DEF StatFails, minio
<1>8. ASSUME NEW t \in PollTasks, PollStep(t) PROVE Knowledge'
  <2>1. HasFile'
    BY <1>8 DEF PollStep, PollTick, PollDone, PollNext, HasFile, UploadPc
  <2>2. UNCHANGED <<disk, uploadedLog, bucket, snap>>
    BY <1>8 DEF PollStep, PollTick, PollDone, PollNext, upload, minio, disk
  <2>3. \A s \in Tasks : pc'[s] \in Checked => pc'[s] = pc[s] /\ cur'[s] = cur[s]
    BY <1>8 DEF PollStep, PollTick, PollDone, PollNext, Checked
  <2>4. QED BY <2>1, <2>2, <2>3, EarlyStep
<1>9. ASSUME NEW t \in Tasks, CheckFresh(t) \/ ReadSize1(t) PROVE Knowledge'
  <2>1. HasFile'
    BY <1>9 DEF CheckFresh, ReadSize1, Return, Goto, HasFile, UploadPc
  <2>2. UNCHANGED <<disk, uploadedLog, bucket>>
    BY <1>9 DEF CheckFresh, ReadSize1, minio, disk
  <2>3. \A s \in Tasks : pc'[s] \in Checked => pc'[s] = pc[s] /\ cur'[s] = cur[s] /\ snap'[s] = snap[s]
    BY <1>9 DEF CheckFresh, ReadSize1, Return, Goto, Checked, upload
  <2>4. QED BY <2>1, <2>2, <2>3, EarlyStep
<1>10. ASSUME NEW t \in Tasks, PutFails(t) \/ NotifyReturns(t) PROVE Knowledge'
  BY <1>6, <1>10 DEF PutFails, NotifyReturns, minio
<1>11. CASE UNCHANGED recVars
  <2>1. UNCHANGED <<disk, uploadedLog, bucket, pc, cur, snap>>
    BY <1>11 DEF recVars, task, upload, minio
  <2>2. HasFile' BY <2>1 DEF HasFile
  <2>3. QED BY <2>1, <2>2, EarlyStep
<1>12. QED
  BY <1>1, <1>2, <1>3, <1>4, <1>5, <1>7, <1>8, <1>9, <1>10, <1>11, UploadInv
     DEF Next, Writer, Timers, Failures, Restart, UploadStep

-----------------------------------------------------------------------------

\* The invariant holds in every reachable state of the recorder.
THEOREM RecorderInvariance == Spec => []RecorderInv
<1>1. Init => RecorderInv
  BY InitInv
<1>2. RecorderInv /\ [Next]_recVars => RecorderInv'
  BY InvStep
<1>3. QED
  BY <1>1, <1>2, PTL DEF Spec

\* Type correctness, for every number of files and tasks.
THEOREM TypeCorrect == Spec => []TypeOK
BY RecorderInvariance, PTL DEF RecorderInv

\* Every name in uploadedLog has an object, so skipping it (the poller,
\* recorder.service.ts:118) never leaves a recording without one.
THEOREM LogIsStored == Spec => []LogImpliesStored
BY RecorderInvariance, PTL DEF RecorderInv

\* With a writer that never pauses for 2 s, only whole recordings of closed
\* files reach MinIO.
THEOREM SteadyWriterIsSafe == Spec => []SteadyWriterStoredWhole
BY RecorderInvariance, PTL DEF RecorderInv

-----------------------------------------------------------------------------
(* The recorder and the CDR service.                                       *)

\* A sequence one has appended to is not empty.
LEMMA AppendNonEmpty == ASSUME NEW S, NEW s \in Seq(S), NEW e \in S PROVE Append(s, e) # <<>>
<1>1. Len(Append(s, e)) = Len(s) + 1 /\ Len(s) \in Nat
  OBVIOUS
<1>2. Len(<<>>) = 0
  OBVIOUS
<1>3. QED
  BY <1>1, <1>2

\* A failure outside the recorder counts and does nothing else to it.
LEMMA OtherFaultInv ==
    ASSUME RecorderInv, Fault, UNCHANGED <<disk, watch, task, uploadedLog, minio>>
    PROVE  RecorderInv'
<1>1. TypeOK'
  BY FaultBound DEF RecorderInv, TypeOK, disk, watch, task, upload, minio, Sizes
<1>2. HasFile' /\ PutInFlight'
  BY DEF RecorderInv, HasFile, PutInFlight, disk, task, upload, minio
<1>3. LogImpliesStored' /\ ObjectIsPrefix' /\ SteadyWriterStoredWhole'
  BY DEF RecorderInv, LogImpliesStored, ObjectIsPrefix, SteadyWriterStoredWhole, Finished, disk, minio
<1>4. SteadyTasks'
  BY DEF RecorderInv, SteadyTasks, Finished, disk, task, upload
<1>5. QED
  BY <1>1, <1>2, <1>3, <1>4 DEF RecorderInv

\* What a step of the pipeline is to the recorder.
LEMMA PipeStepRecorder ==
    ASSUME [PipeNext]_pipeVars
    PROVE  [Next]_recVars \/ (Fault /\ UNCHANGED <<disk, watch, task, uploadedLog, minio>>)
<1>1. CASE RecorderAlone
  BY <1>1 DEF RecorderAlone, Next, Writer
<1>2. ASSUME NEW t \in Tasks, NEW r \in Reqs, UploadedAndSent(t, r) PROVE Next
  BY <1>2 DEF UploadedAndSent, Next
<1>3. CASE CdrService
  BY <1>3 DEF CdrService, InsertRow, UpdateCdr
<1>4. ASSUME NEW r \in Reqs, CdrRestarts \/ SaveFails(r)
      PROVE  Fault /\ UNCHANGED <<disk, watch, task, uploadedLog, minio>>
  BY <1>4 DEF CdrRestarts, SaveFails
<1>5. CASE CdrRestarts
  BY <1>5 DEF CdrRestarts
<1>6. ASSUME NEW f \in Files, PostCdr(f) PROVE UNCHANGED recVars
  BY <1>6 DEF PostCdr
<1>7. CASE UNCHANGED pipeVars
  BY <1>7 DEF pipeVars
<1>8. QED
  BY <1>1, <1>2, <1>3, <1>4, <1>5, <1>6, <1>7 DEF PipeNext

\* The recorder's invariant survives in the composition.
LEMMA PipeRecorderInv == RecorderInv /\ [PipeNext]_pipeVars => RecorderInv'
BY PipeStepRecorder, OtherFaultInv, InvStep

\* Objects are never removed, and the bucket is not either.
LEMMA ObjectsStay ==
    ASSUME RecorderInv, [PipeNext]_pipeVars, NEW f \in Files, bucket[f] > 0
    PROVE  bucket'[f] > 0
<1>1. CASE \E t \in Tasks : StoreObject(t)
  <2>1. PICK t \in Tasks : StoreObject(t)
    BY <1>1
  <2>2. snap[t] > 0 /\ cur[t] \in Files
    BY <2>1 DEF StoreObject, RecorderInv, PutInFlight, HasFile, UploadPc
  <2>3. QED
    BY <2>1, <2>2 DEF StoreObject, RecorderInv, TypeOK
<1>2. CASE UNCHANGED bucket
  BY <1>2
<1>3. (\E t \in Tasks : StoreObject(t)) \/ UNCHANGED bucket
  <2>1. CASE Fault /\ UNCHANGED <<disk, watch, task, uploadedLog, minio>>
    BY <2>1 DEF minio
  <2>2. CASE UNCHANGED recVars
    BY <2>2 DEF recVars, minio
  <2>3. CASE Next
    BY <2>3 DEF Next, Writer, StartRecording, WriteChunk, CloseRecording, Quiet, Bootstrap,
         EnsureBucket, UploadExistingFiles, StartWatcherAndPoller, ScanNext, Timers, WatchEvent,
         WatchTimer, Failures, Restart, ProcessRestarts, LoseEvent, StatFails, PollStep, PollTick,
         PollNext, PollDone, UploadStep, CheckFresh, ReadSize1, ReadSize2, ReadLocalSize,
         StatObject, PutObject, PutFails, PutReturns, NotifyReturns, minio
  <2>4. QED BY <2>1, <2>2, <2>3, PipeStepRecorder
<1>4. QED BY <1>1, <1>2, <1>3

\* MinIO holds objects only once the bucket has been made.
LEMMA BucketStep ==
    ASSUME RecorderInv, [PipeNext]_pipeVars, \A f \in Files : bucket[f] > 0 => bucketMade
    PROVE  (\A f \in Files : bucket[f] > 0 => bucketMade)'
<1>1. CASE Fault /\ UNCHANGED <<disk, watch, task, uploadedLog, minio>>
  BY <1>1 DEF minio
<1>2. CASE UNCHANGED recVars
  BY <1>2 DEF recVars, minio
<1>3. CASE Next
  BY <1>3 DEF Next, Writer, StartRecording, WriteChunk, CloseRecording, Quiet, Bootstrap,
       EnsureBucket, UploadExistingFiles, StartWatcherAndPoller, ScanNext, Timers, WatchEvent,
       WatchTimer, Failures, Restart, ProcessRestarts, LoseEvent, StatFails, PollStep, PollTick,
       PollNext, PollDone, UploadStep, CheckFresh, ReadSize1, ReadSize2, ReadLocalSize,
       StatObject, PutObject, StoreObject, PutFails, PutReturns, NotifyReturns, minio,
       RecorderInv, TypeOK, HasFile, UploadPc
<1>4. QED BY <1>1, <1>2, <1>3, PipeStepRecorder

\* The types of the CDR service's own variables.
CdrTypeOK ==
    /\ req \in [Reqs -> {"free", "sent", "inserted"}]
    /\ reqFile \in [Reqs -> Files \cup {NoFile}]
    /\ reqSize \in [Reqs -> Sizes]
    /\ rows \in [Files -> Seq(Sizes)]
    /\ cdr \in [Files -> {"none", "noUrl", "url"}]
    /\ completed \in [Files -> Nat]

LEMMA CdrTypeStep == PipeInv /\ [PipeNext]_pipeVars => CdrTypeOK'
<1> SUFFICES ASSUME PipeInv, [PipeNext]_pipeVars PROVE CdrTypeOK'
  OBVIOUS
<1> USE DEF PipeInv, PipeTypeOK, CdrTypeOK, PipeKnowledge
<1>1. 0 \in Sizes
  BY BoundsAssumption DEF Sizes
<1>2. CASE RecorderAlone
  BY <1>2 DEF RecorderAlone, request, tables
<1>3. ASSUME NEW t \in Tasks, NEW r \in Reqs, UploadedAndSent(t, r) PROVE CdrTypeOK'
  <2>1. seen[t] \in Sizes /\ cur[t] \in Files
    BY <1>3 DEF UploadedAndSent, PutReturns, RecorderInv, TypeOK, HasFile, UploadPc
  <2>2. completed' \in [Files -> Nat]
    BY <1>3, <2>1 DEF UploadedAndSent
  <2>3. QED
    BY <1>3, <2>1, <2>2 DEF UploadedAndSent, tables
<1>4. ASSUME NEW r \in Reqs, InsertRow(r) PROVE CdrTypeOK'
  <2>1. reqFile[r] \in Files /\ reqSize[r] \in Sizes /\ rows[reqFile[r]] \in Seq(Sizes)
    BY <1>4 DEF InsertRow
  <2>2. Append(rows[reqFile[r]], reqSize[r]) \in Seq(Sizes)
    BY <2>1
  <2>3. rows' \in [Files -> Seq(Sizes)]
    BY <1>4, <2>2 DEF InsertRow
  <2>4. QED
    BY <1>4, <2>3 DEF InsertRow
<1>5. ASSUME NEW r \in Reqs, UpdateCdr(r) PROVE CdrTypeOK'
  BY <1>1, <1>5 DEF UpdateCdr, Free
<1>6. ASSUME NEW r \in Reqs, SaveFails(r) PROVE CdrTypeOK'
  BY <1>1, <1>6 DEF SaveFails, Free, tables
<1>7. CASE CdrRestarts
  BY <1>1, <1>7 DEF CdrRestarts, tables
<1>8. ASSUME NEW f \in Files, PostCdr(f) PROVE CdrTypeOK'
  BY <1>8 DEF PostCdr, request
<1>9. CASE UNCHANGED pipeVars
  BY <1>9 DEF pipeVars, request, tables
<1>10. QED
  BY <1>2, <1>3, <1>4, <1>5, <1>6, <1>7, <1>8, <1>9 DEF PipeNext, CdrService

\* Rows, URLs and messages go on being about stored recordings.
RowKnowledge ==
    /\ RowImpliesStored
    /\ UrlHasRow
    /\ \A r \in Reqs : req[r] # "free" => reqFile[r] \in Files
    /\ \A r \in Reqs : req[r] = "inserted" => rows[reqFile[r]] # <<>>

LEMMA RowStep == PipeInv /\ [PipeNext]_pipeVars => RowKnowledge'
<1> SUFFICES ASSUME PipeInv, [PipeNext]_pipeVars PROVE RowKnowledge'
  OBVIOUS
<1> USE DEF PipeInv, PipeTypeOK, RowKnowledge, RowImpliesStored, UrlHasRow, PipeKnowledge
<1>1. \A f \in Files : bucket[f] > 0 => bucket'[f] > 0
  BY ObjectsStay
<1>2. CASE UNCHANGED <<request, tables>>
  BY <1>1, <1>2 DEF request, tables
<1>3. ASSUME NEW t \in Tasks, NEW r \in Reqs, UploadedAndSent(t, r) PROVE RowKnowledge'
  <2>1. cur[t] \in Files /\ bucket[cur[t]] > 0
    BY <1>3 DEF UploadedAndSent, PutReturns, RecorderInv, HasFile, PutInFlight, UploadPc
  <2>2. QED
    BY <1>1, <1>3, <2>1 DEF UploadedAndSent, tables
<1>4. ASSUME NEW r \in Reqs, InsertRow(r) PROVE RowKnowledge'
  <2>1. reqFile[r] \in Files /\ bucket[reqFile[r]] > 0
    BY <1>4 DEF InsertRow
  <2>2. \A f \in Files : rows'[f] = IF f = reqFile[r] THEN Append(rows[f], reqSize[r]) ELSE rows[f]
    BY <1>4, <2>1 DEF InsertRow
  <2>3. Append(rows[reqFile[r]], reqSize[r]) # <<>>
    <3>1. rows[reqFile[r]] \in Seq(Sizes) /\ reqSize[r] \in Sizes
      BY <2>1
    <3>2. QED BY <3>1, AppendNonEmpty
  <2>4. \A f \in Files : rows[f] # <<>> => rows'[f] # <<>>
    BY <2>2, <2>3
  <2>5. rows'[reqFile[r]] # <<>>
    BY <2>1, <2>2, <2>3
  <2>6. \A f \in Files : rows'[f] # <<>> => rows[f] # <<>> \/ f = reqFile[r]
    BY <2>2
  <2>7. req' = [req EXCEPT ![r] = "inserted"] /\ UNCHANGED <<reqFile, cdr>>
    BY <1>4 DEF InsertRow
  <2>8. QED
    BY <1>1, <2>1, <2>4, <2>5, <2>6, <2>7
<1>5. ASSUME NEW r \in Reqs, UpdateCdr(r) PROVE RowKnowledge'
  BY <1>1, <1>5 DEF UpdateCdr, Free
<1>6. ASSUME NEW r \in Reqs, SaveFails(r) PROVE RowKnowledge'
  BY <1>1, <1>6 DEF SaveFails, Free, tables
<1>7. CASE CdrRestarts
  BY <1>1, <1>7 DEF CdrRestarts, tables
<1>8. ASSUME NEW f \in Files, PostCdr(f) PROVE RowKnowledge'
  BY <1>1, <1>8 DEF PostCdr, request
<1>9. QED
  BY <1>2, <1>3, <1>4, <1>5, <1>6, <1>7, <1>8
     DEF PipeNext, CdrService, RecorderAlone, pipeVars, request, tables

LEMMA PipeInvInit == PipeInit => PipeInv
<1> SUFFICES ASSUME PipeInit PROVE PipeInv
  OBVIOUS
<1>1. RecorderInv
  BY InitInv DEF PipeInit
<1>2. 0 \in Sizes
  BY BoundsAssumption DEF Sizes
<1>3. \A f \in Files : bucket[f] = 0
  BY DEF PipeInit, Init
<1>4. PipeTypeOK
  BY <1>1, <1>2 DEF PipeInit, PipeTypeOK, RecorderInv
<1>5. RowImpliesStored /\ UrlHasRow /\ PipeKnowledge
  BY <1>3 DEF PipeInit, RowImpliesStored, UrlHasRow, PipeKnowledge
<1>6. QED
  BY <1>1, <1>4, <1>5 DEF PipeInv

LEMMA PipeInvStep == PipeInv /\ [PipeNext]_pipeVars => PipeInv'
<1> SUFFICES ASSUME PipeInv, [PipeNext]_pipeVars PROVE PipeInv'
  OBVIOUS
<1>1. RecorderInv'
  BY PipeRecorderInv DEF PipeInv
<1>2. PipeTypeOK'
  BY <1>1, CdrTypeStep DEF CdrTypeOK, PipeTypeOK, RecorderInv
<1>3. RowKnowledge'
  BY RowStep
<1>4. (\A f \in Files : bucket[f] > 0 => bucketMade)'
  BY BucketStep DEF PipeInv, PipeKnowledge
<1>5. QED
  BY <1>1, <1>2, <1>3, <1>4 DEF PipeInv, PipeKnowledge, RowKnowledge

-----------------------------------------------------------------------------

\* The invariant of the pipeline holds in every reachable state.
THEOREM PipelineInvariance == PipeSpec => []PipeInv
<1>1. PipeInit => PipeInv
  BY PipeInvInit
<1>2. PipeInv /\ [PipeNext]_pipeVars => PipeInv'
  BY PipeInvStep
<1>3. QED
  BY <1>1, <1>2, PTL DEF PipeSpec

\* Whoever follows a row, a URL or a message finds the object.
THEOREM RowsHaveObjects == PipeSpec => []RowImpliesStored
BY PipelineInvariance, PTL DEF PipeInv

\* A call with a recording_url has a row of recordings.
THEOREM UrlsHaveRows == PipeSpec => []UrlHasRow
BY PipelineInvariance, PTL DEF PipeInv

\* A step of the recorder, seen from the archive.
LEMMA RecorderArchiveStep ==
    ASSUME RecorderInv, [Next]_recVars, UNCHANGED rows
    PROVE  [Archive!ArchiveNext]_(Archive!archiveVars)
<1> USE DEF RecorderInv, TypeOK, Archive!archiveVars
<1>1. ASSUME NEW f \in Files, StartRecording(f) PROVE UNCHANGED Archive!archiveVars
  BY <1>1 DEF StartRecording, minio, Finished
<1>2. ASSUME NEW f \in Files, WriteChunk(f) PROVE Archive!Grow(f)
  BY <1>2 DEF WriteChunk, minio, Finished, Archive!Grow
<1>3. ASSUME NEW f \in Files, CloseRecording(f) PROVE Archive!End(f)
  <2>1. writer' = [writer EXCEPT ![f] = "closed"] /\ UNCHANGED <<size, bucketMade, bucket>>
    BY <1>3 DEF CloseRecording, minio
  <2>2. {g \in Files : Finished(g)}' = {g \in Files : Finished(g)} \cup {f}
    BY <2>1 DEF Finished
  <2>3. QED BY <2>1, <2>2 DEF Archive!End
<1>4. ASSUME NEW t \in Tasks, StoreObject(t) PROVE Archive!Keep(cur[t])
  <2>1. snap[t] \in 1..size[cur[t]]
    BY <1>4 DEF StoreObject, PutInFlight, HasFile, UploadPc, Sizes
  <2>2. QED
    BY <1>4, <2>1 DEF StoreObject, Archive!Keep, disk, Finished
<1>5. ASSUME EnsureBucket PROVE Archive!Open \/ UNCHANGED Archive!archiveVars
  BY <1>5 DEF EnsureBucket, Archive!Open, disk, Finished
<1>6. CASE UNCHANGED <<writer, size, bucketMade, bucket>>
  BY <1>6 DEF Finished
<1>7. \/ \E f \in Files : StartRecording(f) \/ WriteChunk(f) \/ CloseRecording(f)
      \/ EnsureBucket
      \/ \E t \in Tasks : StoreObject(t)
      \/ UNCHANGED <<writer, size, bucketMade, bucket>>
  BY DEF Next, Writer, Quiet, Bootstrap,
       UploadExistingFiles, StartWatcherAndPoller, ScanNext, Timers, WatchEvent,
       WatchTimer, Failures, Restart, ProcessRestarts, LoseEvent, StatFails, PollStep, PollTick,
       PollNext, PollDone, UploadStep, CheckFresh, ReadSize1, ReadSize2, ReadLocalSize,
       StatObject, PutObject, PutFails, PutReturns, NotifyReturns, minio, disk, recVars, Tasks
<1>8. ASSUME NEW t \in Tasks, StoreObject(t) PROVE cur[t] \in Files
  BY <1>8 DEF StoreObject, HasFile, UploadPc
<1>9. QED
  BY <1>1, <1>2, <1>3, <1>4, <1>5, <1>6, <1>7, <1>8 DEF Archive!ArchiveNext

\* Every step of the pipeline is a step of the archive or a stutter.
LEMMA ArchiveStep == PipeInv /\ [PipeNext]_pipeVars => [Archive!ArchiveNext]_(Archive!archiveVars)
<1> SUFFICES ASSUME PipeInv, [PipeNext]_pipeVars PROVE [Archive!ArchiveNext]_(Archive!archiveVars)
  OBVIOUS
<1>1. CASE UNCHANGED rows /\ [Next]_recVars
  BY <1>1, RecorderArchiveStep DEF PipeInv
<1>2. CASE UNCHANGED rows /\ UNCHANGED <<disk, watch, task, uploadedLog, minio>>
  BY <1>2 DEF disk, minio, Finished, Archive!archiveVars
<1>3. ASSUME NEW r \in Reqs, InsertRow(r) PROVE Archive!List(reqFile[r]) /\ reqFile[r] \in Files
  <2>1. reqFile[r] \in Files /\ bucket[reqFile[r]] > 0
    BY <1>3 DEF InsertRow, PipeInv, PipeKnowledge, RowImpliesStored
  <2>2. rows[reqFile[r]] \in Seq(Sizes) /\ reqSize[r] \in Sizes
    BY <2>1 DEF PipeInv, PipeTypeOK
  <2>3. Append(rows[reqFile[r]], reqSize[r]) # <<>>
    BY <2>2, AppendNonEmpty
  <2>4. {f \in Files : rows[f] # <<>>}' = {f \in Files : rows[f] # <<>>} \cup {reqFile[r]}
    BY <1>3, <2>1, <2>3 DEF InsertRow, PipeInv, PipeTypeOK
  <2>5. UNCHANGED <<writer, size, bucketMade, bucket>>
    BY <1>3 DEF InsertRow, recVars, disk, minio
  <2>6. QED
    BY <2>1, <2>4, <2>5 DEF Archive!List, Finished
<1>4. (\E r \in Reqs : InsertRow(r)) \/ UNCHANGED rows
  BY DEF PipeNext, RecorderAlone, UploadedAndSent, CdrService, UpdateCdr, SaveFails, CdrRestarts,
         PostCdr, pipeVars, tables
<1>5. CASE UNCHANGED rows
  <2>1. [Next]_recVars \/ UNCHANGED <<disk, watch, task, uploadedLog, minio>>
    BY PipeStepRecorder
  <2>2. QED
    BY <1>1, <1>2, <1>5, <2>1
<1>6. CASE \E r \in Reqs : InsertRow(r)
  <2>1. PICK r \in Reqs : InsertRow(r)
    BY <1>6
  <2>2. Archive!List(reqFile[r]) /\ reqFile[r] \in Files
    BY <1>3, <2>1
  <2>3. Archive!ArchiveNext
    BY <2>2 DEF Archive!ArchiveNext, Archive!List
  <2>4. QED
    BY <2>3
<1>7. QED
  BY <1>4, <1>5, <1>6

\* The recorder and the CDR service implement the archive: no interleaving of
\* uploads, handlers, failures and restarts loses a stored recording or lists
\* one that is not stored.
THEOREM PipelineImplementsArchive == PipeSpec => ImplementsArchive
<1>1. PipeInit => Archive!ArchiveInit
  BY DEF PipeInit, Init, Archive!ArchiveInit, Finished
<1>2. PipeInv /\ [PipeNext]_pipeVars => [Archive!ArchiveNext]_(Archive!archiveVars)
  BY ArchiveStep
<1>3. QED
  BY <1>1, <1>2, PipelineInvariance, PTL DEF PipeSpec, Archive!ArchiveSpec, ImplementsArchive

-----------------------------------------------------------------------------
(* What the archive promises.                                              *)

LEMMA ArchiveBegins == Archive!ArchiveInit => Archive!ArchiveSafe
BY DEF Archive!ArchiveInit, Archive!ArchiveSafe

LEMMA ArchiveKeeps ==
    ASSUME Archive!ArchiveSafe, [Archive!ArchiveNext]_(Archive!archiveVars)
    PROVE  Archive!ArchiveSafe' /\ Archive!Keeps
<1> DEFINE ended  == {g \in Files : Finished(g)}
           listed == {g \in Files : rows[g] # <<>>}
           Counts == size' \in [Files -> Nat] /\ bucket' \in [Files -> Nat]
           Holds  == \A g \in Files : bucket'[g] <= size'[g] /\ (g \in listed' => bucket'[g] > 0)
           Stays  == \A g \in Files : /\ bucket[g] > 0 => bucket'[g] > 0
                                      /\ g \in listed => g \in listed'
                                      /\ g \in ended => g \in ended' /\ size'[g] = size[g]
           Goal   == Archive!ArchiveSafe' /\ Archive!Keeps
<1>1. /\ size \in [Files -> Nat] /\ bucket \in [Files -> Nat]
      /\ \A g \in Files : bucket[g] <= size[g] /\ (g \in listed => bucket[g] > 0)
  BY DEF Archive!ArchiveSafe
<1>2. Counts /\ Holds /\ Stays => Goal
  BY DEF Archive!ArchiveSafe, Archive!Keeps
<1> HIDE DEF Goal
<1>3. ASSUME NEW r \in Files, Archive!Grow(r) PROVE Goal
  <2>1. /\ r \notin ended /\ size' = [size EXCEPT ![r] = @ + 1]
        /\ bucket' = bucket /\ ended' = ended /\ listed' = listed
    BY <1>3 DEF Archive!Grow
  <2> HIDE DEF ended, listed
  <2>2. Counts
    BY <1>1, <2>1
  <2>3. Holds
    BY <1>1, <2>1
  <2>4. Stays
    BY <1>1, <2>1
  <2> HIDE DEF Counts, Holds, Stays
  <2> QED
    BY <1>2, <2>2, <2>3, <2>4
<1>4. ASSUME NEW r \in Files, Archive!End(r) PROVE Goal
  <2>1. ended' = ended \cup {r} /\ size' = size /\ bucket' = bucket /\ listed' = listed
    BY <1>4 DEF Archive!End
  <2> HIDE DEF ended, listed
  <2>2. Counts /\ Holds
    BY <1>1, <2>1
  <2>3. Stays
    BY <1>1, <2>1
  <2> HIDE DEF Counts, Holds, Stays
  <2> QED
    BY <1>2, <2>2, <2>3
<1>5. ASSUME NEW r \in Files, Archive!Keep(r) PROVE Goal
  <2>1. PICK n \in 1..size[r] : bucket' = [bucket EXCEPT ![r] = n]
    BY <1>5 DEF Archive!Keep
  <2>2. size' = size /\ ended' = ended /\ listed' = listed
    BY <1>5 DEF Archive!Keep
  <2>3. n \in Nat /\ n > 0 /\ n <= size[r]
    BY <1>1, <2>1
  <2> HIDE DEF ended, listed
  <2>4. bucket' \in [Files -> Nat] /\ \A g \in Files : bucket'[g] = IF g = r THEN n ELSE bucket[g]
    BY <1>1, <2>1, <2>3
  <2>5. Counts
    BY <1>1, <2>2, <2>4
  <2>6. Holds
    BY <1>1, <2>2, <2>3, <2>4
  <2>7. Stays
    BY <2>2, <2>3, <2>4
  <2> HIDE DEF Counts, Holds, Stays
  <2> QED
    BY <1>2, <2>5, <2>6, <2>7
<1>6. ASSUME NEW r \in Files, Archive!List(r) PROVE Goal
  <2>1. /\ bucket[r] > 0 /\ listed' = listed \cup {r} /\ size' = size
        /\ bucket' = bucket /\ ended' = ended
    BY <1>6 DEF Archive!List
  <2> HIDE DEF ended, listed
  <2>2. Counts /\ Holds
    BY <1>1, <2>1
  <2>3. Stays
    BY <2>1
  <2> HIDE DEF Counts, Holds, Stays
  <2> QED
    BY <1>2, <2>2, <2>3
<1>7. ASSUME Archive!Open \/ UNCHANGED Archive!archiveVars PROVE Goal
  <2>1. size' = size /\ bucket' = bucket /\ ended' = ended /\ listed' = listed
    BY <1>7 DEF Archive!Open, Archive!archiveVars
  <2> HIDE DEF ended, listed
  <2>2. Counts /\ Holds
    BY <1>1, <2>1
  <2>3. Stays
    BY <2>1
  <2> HIDE DEF Counts, Holds, Stays
  <2> QED
    BY <1>2, <2>2, <2>3
<1>8. Goal
  BY <1>3, <1>4, <1>5, <1>6, <1>7 DEF Archive!ArchiveNext
<1>9. QED
  BY <1>8 DEF Goal

\* Whatever implements the archive keeps what it has stored and listed.
THEOREM ArchivePromises == Archive!ArchiveSpec => []Archive!ArchiveSafe /\ Archive!NothingIsLost
<1>1. Archive!ArchiveSafe /\ [Archive!ArchiveNext]_(Archive!archiveVars) => Archive!ArchiveSafe'
  BY ArchiveKeeps
<1>2. Archive!ArchiveSafe /\ [Archive!ArchiveNext]_(Archive!archiveVars)
        => [Archive!Keeps]_(Archive!archiveVars)
  BY ArchiveKeeps
<1>3. QED
  BY <1>1, <1>2, ArchiveBegins, PTL DEF Archive!ArchiveSpec, Archive!NothingIsLost

\* So do the two services: a stored recording stays stored and a row stays, no
\* row is about a recording that is not stored, and no object is longer than its
\* recording.
THEOREM PipelineKeepsPromises == PipeSpec => []Archive!ArchiveSafe /\ Archive!NothingIsLost
BY PipelineImplementsArchive, ArchivePromises, PTL DEF ImplementsArchive

-----------------------------------------------------------------------------
(* The rows: how many there are, and what they say.                        *)

\* The messages of a file are finitely many.
LEMMA UnhandledFinite ==
    ASSUME NEW f
    PROVE  IsFiniteSet(Unhandled(f)) /\ Cardinality(Unhandled(f)) \in Nat
<1>1. Unhandled(f) \subseteq Reqs
  BY DEF Unhandled
<1>2. QED
  BY <1>1, ReqsAssumption, FS_Subset, FS_CardinalityType

LEMMA RowsBounded ==
    ASSUME PipeInv, RowsBoundedByUploads, [PipeNext]_pipeVars
    PROVE  RowsBoundedByUploads'
<1> SUFFICES ASSUME NEW f \in Files
             PROVE  Len(rows'[f]) + Cardinality(Unhandled(f)') <= completed'[f]
  BY DEF RowsBoundedByUploads
<1> DEFINE before == Unhandled(f)
           after  == Unhandled(f)'
<1>1. /\ IsFiniteSet(before) /\ Cardinality(before) \in Nat
      /\ rows[f] \in Seq(Sizes) /\ Len(rows[f]) \in Nat /\ completed[f] \in Nat
      /\ Len(rows[f]) + Cardinality(before) <= completed[f]
  BY UnhandledFinite DEF PipeInv, PipeTypeOK, RowsBoundedByUploads
<1>2. ASSUME after \subseteq before, rows'[f] = rows[f], completed'[f] = completed[f]
      PROVE  Len(rows'[f]) + Cardinality(after) <= completed'[f]
  <2>1. Cardinality(after) <= Cardinality(before) /\ Cardinality(after) \in Nat
    BY <1>1, <1>2, FS_Subset, FS_CardinalityType
  <2> QED
    BY <1>1, <1>2, <2>1
<1> USE DEF PipeInv, PipeTypeOK
<1>3. ASSUME NEW t \in Tasks, NEW r \in Reqs, UploadedAndSent(t, r)
      PROVE  Len(rows'[f]) + Cardinality(after) <= completed'[f]
  <2>1. /\ rows' = rows /\ req[r] = "free" /\ cur[t] \in Files
        /\ completed' = [completed EXCEPT ![cur[t]] = @ + 1]
        /\ req' = [req EXCEPT ![r] = "sent"] /\ reqFile' = [reqFile EXCEPT ![r] = cur[t]]
    BY <1>3 DEF UploadedAndSent, PutReturns, tables, RecorderInv, HasFile, UploadPc
  <2>2. CASE f = cur[t]
    <3>1. after = before \cup {r} /\ r \notin before
      BY <2>1, <2>2 DEF Unhandled
    <3>2. Cardinality(after) = Cardinality(before) + 1
      BY <1>1, <3>1, FS_AddElement
    <3>3. completed'[f] = completed[f] + 1
      BY <2>1, <2>2
    <3> HIDE DEF before, after
    <3> QED
      BY <1>1, <2>1, <3>2, <3>3
  <2>3. CASE f # cur[t]
    <3>1. after \subseteq before /\ completed'[f] = completed[f]
      BY <2>1, <2>3 DEF Unhandled
    <3> QED
      BY <1>2, <2>1, <3>1
  <2> QED
    BY <2>2, <2>3
<1>4. ASSUME NEW r \in Reqs, InsertRow(r)
      PROVE  Len(rows'[f]) + Cardinality(after) <= completed'[f]
  <2>1. /\ req[r] = "sent" /\ reqFile[r] \in Files /\ reqSize[r] \in Sizes
        /\ rows' = [rows EXCEPT ![reqFile[r]] = Append(@, reqSize[r])]
        /\ req' = [req EXCEPT ![r] = "inserted"] /\ reqFile' = reqFile /\ completed' = completed
    BY <1>4 DEF InsertRow, PipeKnowledge
  <2>2. CASE f = reqFile[r]
    <3>1. after = before \ {r} /\ r \in before
      BY <2>1, <2>2 DEF Unhandled
    <3>2. Cardinality(after) = Cardinality(before) - 1
      BY <1>1, <3>1, FS_RemoveElement
    <3>3. Len(rows'[f]) = Len(rows[f]) + 1
      BY <1>1, <2>1, <2>2
    <3> HIDE DEF before, after
    <3> QED
      BY <1>1, <2>1, <3>2, <3>3
  <2>3. CASE f # reqFile[r]
    <3>1. after \subseteq before /\ rows'[f] = rows[f]
      BY <2>1, <2>3 DEF Unhandled
    <3> QED
      BY <1>2, <2>1, <3>1
  <2> QED
    BY <2>2, <2>3
<1>5. ASSUME NEW r \in Reqs, UpdateCdr(r) \/ SaveFails(r) \/ CdrRestarts
      PROVE  after \subseteq before /\ rows' = rows /\ completed' = completed
  BY <1>5 DEF UpdateCdr, SaveFails, CdrRestarts, Free, Unhandled, tables
<1>6. CASE CdrRestarts
  <2>1. after \subseteq before /\ rows' = rows /\ completed' = completed
    BY <1>6 DEF CdrRestarts, Unhandled, tables
  <2> QED
    BY <1>2, <2>1
<1>7. CASE RecorderAlone \/ (\E g \in Files : PostCdr(g)) \/ UNCHANGED pipeVars
  <2>1. UNCHANGED <<req, reqFile, rows, completed>>
    BY <1>7 DEF RecorderAlone, PostCdr, pipeVars, request, tables
  <2> QED
    BY <1>2, <2>1 DEF Unhandled
<1>8. QED
  BY <1>2, <1>3, <1>4, <1>5, <1>6, <1>7 DEF PipeNext, CdrService

Carrying == {"head", "put", "putting", "stored"}

\* A task that carries a size took it from its file or carried it before; a
\* closed file keeps its size.
LEMMA CopiesStep ==
    ASSUME RecorderInv, [Next]_recVars
    PROVE  /\ \A t \in Tasks : pc'[t] \in Carrying =>
                 \/ pc[t] \in Carrying /\ cur'[t] = cur[t] /\ seen'[t] = seen[t]
                 \/ pc[t] = "local" /\ cur'[t] = cur[t] /\ seen'[t] = size[cur[t]]
           /\ \A f \in Files : Finished(f) => size'[f] = size[f]
<1> DEFINE Same == \A t \in Tasks : pc'[t] \in Carrying =>
                 \/ pc[t] \in Carrying /\ cur'[t] = cur[t] /\ seen'[t] = seen[t]
                 \/ pc[t] = "local" /\ cur'[t] = cur[t] /\ seen'[t] = size[cur[t]]
<1>1. pc \in [Tasks -> Pcs] /\ cur \in [Tasks -> Files \cup {NoFile}] /\ seen \in [Tasks -> Sizes]
  BY DEF RecorderInv, TypeOK
<1>2. ASSUME Writer \/ Timers \/ (\E f \in Files : LoseEvent(f)) \/ UNCHANGED recVars PROVE Same
  BY <1>1, <1>2, BootIsTask DEF Writer, StartRecording, WriteChunk, CloseRecording, Quiet, Touch, Timers, WatchEvent,
     WatchTimer, LoseEvent, recVars, task, upload, Carrying
<1>3. ASSUME Bootstrap PROVE Same
  BY <1>1, <1>3, BootIsTask DEF Bootstrap, EnsureBucket, UploadExistingFiles, StartWatcherAndPoller, ScanNext,
     task, upload, Carrying
<1>4. ASSUME ProcessRestarts PROVE Same
  BY <1>4 DEF ProcessRestarts, Carrying
<1>5. ASSUME NEW u \in Tasks, Return(u) PROVE Same
  BY <1>1, <1>5 DEF Return, Goto, Carrying
<1>6. ASSUME NEW u \in PollTasks, PollStep(u) PROVE Same
  BY <1>1, <1>6, BootIsTask DEF PollStep, PollTick, PollDone, PollNext, upload, Carrying
<1>7. ASSUME NEW u \in Tasks, StatFails(u) \/ PutFails(u) \/ NotifyReturns(u) PROVE Same
  BY <1>4, <1>5, <1>7 DEF StatFails, PutFails, NotifyReturns
<1>8. ASSUME NEW u \in Tasks, CheckFresh(u) \/ ReadSize1(u) \/ ReadSize2(u) PROVE Same
  BY <1>1, <1>5, <1>8 DEF CheckFresh, ReadSize1, ReadSize2, Goto, upload, Carrying
<1>9. ASSUME NEW u \in Tasks, ReadLocalSize(u) \/ StatObject(u) \/ PutObject(u) \/ StoreObject(u) \/ PutReturns(u)
      PROVE  Same
  BY <1>1, <1>5, <1>9 DEF ReadLocalSize, StatObject, PutObject, StoreObject, PutReturns, Goto, upload, Carrying
<1>10. Same
  BY <1>2, <1>3, <1>4, <1>5, <1>6, <1>7, <1>8, <1>9 DEF Next, Failures, Restart, UploadStep
<1>11. \A f \in Files : Finished(f) => size'[f] = size[f]
  <2>1. (\E g \in Files : WriteChunk(g)) \/ size' = size
    BY DEF Next, Writer, StartRecording, CloseRecording, Quiet, Bootstrap, EnsureBucket,
       UploadExistingFiles, StartWatcherAndPoller, ScanNext, Timers, WatchEvent, WatchTimer, Failures,
       Restart, ProcessRestarts, LoseEvent, StatFails, PollStep, PollTick, PollNext, PollDone, UploadStep,
       CheckFresh, ReadSize1, ReadSize2, ReadLocalSize, StatObject, PutObject, StoreObject, PutFails,
       PutReturns, NotifyReturns, recVars, disk
  <2>2. ASSUME NEW g \in Files, WriteChunk(g), NEW f \in Files, Finished(f) PROVE size'[f] = size[f]
    BY <2>2 DEF WriteChunk, Finished, RecorderInv, TypeOK
  <2> QED
    BY <2>1, <2>2
<1>12. QED
  BY <1>10, <1>11

LEMMA CopiesKept ==
    ASSUME PipeInv, SteadyCopies, [PipeNext]_pipeVars, PipeInv'
    PROVE  SteadyCopies'
<1> SUFFICES ASSUME ~WriterPauses PROVE SteadyCopies'
  BY DEF SteadyCopies
<1>1. /\ \A t \in Tasks : pc[t] \in Carrying => seen[t] = size[cur[t]]
      /\ \A r \in Reqs : req[r] # "free" => reqSize[r] = size[reqFile[r]]
      /\ \A f \in Files : \A i \in 1..Len(rows[f]) : rows[f][i] = size[f]
  BY DEF SteadyCopies, Carrying
<1>2. /\ \A t \in Tasks : pc[t] \in Carrying \cup {"local"} => Finished(cur[t]) /\ cur[t] \in Files
      /\ \A f \in Files : bucket[f] > 0 => Finished(f)
  BY DEF PipeInv, RecorderInv, SteadyTasks, SteadyWriterStoredWhole, HasFile, Carrying, Checked, UploadPc
<1>3. \A r \in Reqs : req[r] # "free" => reqFile[r] \in Files /\ Finished(reqFile[r])
  BY <1>2 DEF PipeInv, PipeKnowledge, RowImpliesStored
<1>4. \A f \in Files : rows[f] # <<>> => Finished(f)
  BY <1>2 DEF PipeInv, RowImpliesStored
<1>5. /\ \A t \in Tasks : pc'[t] \in Carrying =>
            \/ pc[t] \in Carrying /\ cur'[t] = cur[t] /\ seen'[t] = seen[t]
            \/ pc[t] = "local" /\ cur'[t] = cur[t] /\ seen'[t] = size[cur[t]]
      /\ \A f \in Files : Finished(f) => size'[f] = size[f]
  <2>1. CASE [Next]_recVars
    BY <2>1, CopiesStep DEF PipeInv
  <2>2. CASE UNCHANGED <<disk, watch, task, uploadedLog, minio>>
    BY <2>2 DEF disk, task, upload
  <2> QED
    BY <2>1, <2>2, PipeStepRecorder
<1>6. \A t \in Tasks : pc'[t] \in Carrying => seen'[t] = size'[cur'[t]]
  BY <1>1, <1>2, <1>5
<1>7. /\ rows \in [Files -> Seq(Sizes)] /\ req \in [Reqs -> {"free", "sent", "inserted"}]
      /\ reqFile \in [Reqs -> Files \cup {NoFile}] /\ reqSize \in [Reqs -> Sizes]
  BY DEF PipeInv, PipeTypeOK
<1>8. \A r \in Reqs : req'[r] # "free" => reqSize'[r] = size'[reqFile'[r]]
  <2>1. ASSUME NEW t \in Tasks, NEW q \in Reqs, UploadedAndSent(t, q)
        PROVE  \A r \in Reqs : req'[r] # "free" => reqSize'[r] = size'[reqFile'[r]]
    <3>1. pc[t] = "stored" /\ seen[t] = size[cur[t]] /\ size'[cur[t]] = size[cur[t]]
      BY <1>1, <1>2, <1>5, <2>1 DEF UploadedAndSent, PutReturns, Carrying
    <3>2. \A r \in Reqs : r # q => req'[r] = req[r] /\ reqSize'[r] = reqSize[r] /\ reqFile'[r] = reqFile[r]
      BY <1>7, <2>1 DEF UploadedAndSent
    <3>3. reqSize'[q] = seen[t] /\ reqFile'[q] = cur[t]
      BY <1>7, <2>1 DEF UploadedAndSent
    <3> QED
      BY <1>1, <1>3, <1>5, <3>1, <3>2, <3>3
  <2>2. CASE \A r \in Reqs : req'[r] # "free" =>
                req[r] # "free" /\ reqSize'[r] = reqSize[r] /\ reqFile'[r] = reqFile[r]
    BY <1>1, <1>3, <1>5, <2>2
  <2>3. \/ \E t \in Tasks, q \in Reqs : UploadedAndSent(t, q)
        \/ \A r \in Reqs : req'[r] # "free" =>
              req[r] # "free" /\ reqSize'[r] = reqSize[r] /\ reqFile'[r] = reqFile[r]
    BY <1>7 DEF PipeNext, RecorderAlone, CdrService, InsertRow, UpdateCdr, SaveFails, CdrRestarts, PostCdr,
       Free, pipeVars, request
  <2> QED
    BY <2>1, <2>2, <2>3
<1>9. ASSUME NEW f \in Files, NEW i \in 1..Len(rows'[f]) PROVE rows'[f][i] = size'[f]
  <2>1. CASE rows'[f] = rows[f]
    <3>1. i \in 1..Len(rows[f]) /\ rows[f] # <<>>
      BY <1>7, <2>1
    <3> QED
      BY <1>1, <1>4, <1>5, <2>1, <3>1
  <2>2. ASSUME NEW r \in Reqs, InsertRow(r) PROVE rows'[f][i] = size'[f]
    <3>1. /\ req[r] = "sent" /\ reqFile[r] \in Files /\ reqSize[r] \in Sizes
          /\ rows' = [rows EXCEPT ![reqFile[r]] = Append(@, reqSize[r])]
      BY <1>3, <1>7, <2>2 DEF InsertRow
    <3>2. CASE f # reqFile[r]
      BY <1>7, <2>1, <3>1, <3>2
    <3>3. CASE f = reqFile[r]
      <4>1. rows'[f] = Append(rows[f], reqSize[r]) /\ rows[f] \in Seq(Sizes)
        BY <1>7, <3>1, <3>3
      <4>2. rows'[f][i] = IF i = Len(rows[f]) + 1 THEN reqSize[r] ELSE rows[f][i]
        BY <3>1, <4>1
      <4>3. i # Len(rows[f]) + 1 => i \in 1..Len(rows[f])
        BY <3>1, <4>1
      <4>4. size'[f] = size[f] /\ reqSize[r] = size[f]
        BY <1>1, <1>3, <1>5, <3>1, <3>3
      <4> QED
        BY <1>1, <4>2, <4>3, <4>4
    <3> QED
      BY <3>2, <3>3
  <2>3. (\E r \in Reqs : InsertRow(r)) \/ rows' = rows
    BY DEF PipeNext, RecorderAlone, UploadedAndSent, CdrService, UpdateCdr, SaveFails, CdrRestarts,
       PostCdr, pipeVars, tables
  <2> QED
    BY <2>1, <2>2, <2>3
<1>10. QED
  BY <1>6, <1>8, <1>9 DEF SteadyCopies, Carrying

\* The inductive invariant of the rows.
THEOREM RowsInvariance == PipeSpec => []RowsInv
<1>1. PipeInit => RowsInv
  <2> SUFFICES ASSUME PipeInit PROVE RowsInv
    OBVIOUS
  <2>1. \A f \in Files : Unhandled(f) = {} /\ Len(rows[f]) = 0 /\ completed[f] = 0
    BY DEF PipeInit, Unhandled
  <2>2. RowsBoundedByUploads
    <3>1. \A f \in Files : Cardinality(Unhandled(f)) = 0
      BY <2>1, FS_EmptySet
    <3>2. \A f \in Files : Len(rows[f]) + Cardinality(Unhandled(f)) <= completed[f]
      BY <2>1, <3>1
    <3> QED
      BY <3>2 DEF RowsBoundedByUploads
  <2>3. SteadyCopies
    BY <2>1 DEF PipeInit, Init, SteadyCopies
  <2> QED
    BY <2>2, <2>3, PipeInvInit DEF RowsInv
<1>2. RowsInv /\ [PipeNext]_pipeVars => RowsInv'
  <2> SUFFICES ASSUME RowsInv, [PipeNext]_pipeVars PROVE RowsInv'
    OBVIOUS
  <2>1. PipeInv'
    BY PipeInvStep DEF RowsInv
  <2> QED
    BY <2>1, RowsBounded, CopiesKept DEF RowsInv
<1>3. QED
  BY <1>1, <1>2, PTL DEF PipeSpec

\* A file has at most one row for each PUT whose answer arrived; with a writer
\* that never pauses for 2 s each row says the size of the whole recording,
\* which is the object's.
THEOREM RowsSayWhatWasStored == PipeSpec => []RowsAreRight
<1>1. RowsInv => RowsAreRight
  <2> SUFFICES ASSUME RowsInv PROVE SteadyRowsExact
    BY DEF RowsInv, RowsAreRight
  <2> SUFFICES ASSUME ~WriterPauses, NEW f \in Files, NEW i \in 1..Len(rows[f])
               PROVE  rows[f][i] = size[f] /\ rows[f][i] = bucket[f]
    BY DEF SteadyRowsExact
  <2>1. rows[f] # <<>>
    OBVIOUS
  <2>2. bucket[f] = size[f]
    BY <2>1 DEF RowsInv, PipeInv, RowImpliesStored, RecorderInv, SteadyWriterStoredWhole
  <2> QED
    BY <2>2 DEF RowsInv, SteadyCopies
<1>2. QED
  BY <1>1, RowsInvariance, PTL
=============================================================================
