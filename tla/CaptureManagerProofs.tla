------------------------ MODULE CaptureManagerProofs ------------------------
(***************************************************************************)
(* Theorems of CaptureManager for any number of pairs, captures, failing   *)
(* calls and crashes: first for any number of tasks inside stop_capture at *)
(* the same time, then for one at a time.                                  *)
(***************************************************************************)
EXTENDS CaptureManager, TLAPS

\* What a sequence holds after it is appended to.
LEMMA RangeOfConcat ==
  ASSUME NEW S, NEW s \in Seq(S), NEW t \in Seq(S)
  PROVE  /\ s \o t \in Seq(S)
         /\ Range(s \o t) = Range(s) \cup Range(t)
<1>1. s \o t \in Seq(S)
  OBVIOUS
<1>2. Range(s \o t) \subseteq Range(s) \cup Range(t)
  BY DEF Range
<1>3. Range(s) \subseteq Range(s \o t)
  <2> SUFFICES ASSUME NEW i \in DOMAIN s PROVE s[i] \in Range(s \o t)
    BY DEF Range
  <2>1. i \in DOMAIN (s \o t) /\ (s \o t)[i] = s[i]
    OBVIOUS
  <2> QED BY <2>1 DEF Range
<1>4. Range(t) \subseteq Range(s \o t)
  <2> SUFFICES ASSUME NEW i \in DOMAIN t PROVE t[i] \in Range(s \o t)
    BY DEF Range
  <2>1. Len(s) + i \in DOMAIN (s \o t) /\ (s \o t)[Len(s) + i] = t[i]
    OBVIOUS
  <2> QED BY <2>1 DEF Range
<1> QED BY <1>1, <1>2, <1>3, <1>4

LEMMA RangeOfAppend ==
  ASSUME NEW S, NEW s \in Seq(S), NEW e \in S
  PROVE  /\ Append(s, e) \in Seq(S)
         /\ Range(Append(s, e)) = Range(s) \cup {e}
<1>1. Append(s, e) \in Seq(S)
  OBVIOUS
<1>2. Range(Append(s, e)) \subseteq Range(s) \cup {e}
  BY DEF Range
<1>3. Range(s) \subseteq Range(Append(s, e))
  <2> SUFFICES ASSUME NEW i \in DOMAIN s PROVE s[i] \in Range(Append(s, e))
    BY DEF Range
  <2>1. i \in DOMAIN Append(s, e) /\ Append(s, e)[i] = s[i]
    OBVIOUS
  <2> QED BY <2>1 DEF Range
<1>4. e \in Range(Append(s, e))
  <2>1. Len(s) + 1 \in DOMAIN Append(s, e) /\ Append(s, e)[Len(s) + 1] = e
    OBVIOUS
  <2> QED BY <2>1 DEF Range
<1> QED BY <1>1, <1>2, <1>3, <1>4

\* The daemon starts with no capture, no directory of its own and no pair.
LEMMA TypeInit == Init => TypeOK
BY FaultAssumption, CrashAssumption
DEF Init, BufferInit, TypeOK, BufferTypeOK, Steps, Content, Absent, StopState

\* What a killed process leaves is well typed.
LEMMA KillTypes ==
  ASSUME TypeOK, Kill, crashes' \in 0..MaxCrashes
  PROVE  TypeOK'
<1> USE DEF TypeOK, BufferTypeOK, Kill
<1>1. pc' \in [Requests -> Steps]
  BY DEF Steps, WorkerSteps
<1>2. pending' \in [Names -> Seq(Requests)]
  OBVIOUS
<1>3. stop' \in [Stoppers -> StopState]
      /\ history' \in Seq([name : Names, entries : Seq(Requests)])
  BY DEF StopState
<1> QED BY <1>1, <1>2, <1>3 DEF outputVars

\* Each action keeps the types: only files that are appended to need an argument.
LEMMA TypeStep == TypeOK /\ [Next]_vars => TypeOK'
<1> SUFFICES ASSUME TypeOK, [Next]_vars PROVE TypeOK'
  OBVIOUS
<1> USE FaultAssumption, CrashAssumption DEF TypeOK, BufferTypeOK
<1>1. ASSUME NEW n \in Names, StartCapture(n) PROVE TypeOK'
  BY <1>1 DEF StartCapture, OpenBuffer, pairVars
<1>2. ASSUME NEW n \in Names, StartFails(n) PROVE TypeOK'
  BY <1>2 DEF StartFails, Fault, bufferVars, pairVars, managerVars
<1>3. ASSUME NEW r \in Requests, RecordEntry(r) PROVE TypeOK'
  BY <1>3 DEF RecordEntry, bufferVars, managerVars, outputVars, Steps, WorkerSteps
<1>4. ASSUME NEW r \in Requests, BufferWork(r) PROVE TypeOK'
  <2> USE DEF managerVars, outputVars, bufferVars, Advance, Steps, WorkerSteps
  <2>1. CASE WriteLine(r)
    <3>1. into[r] \in Names /\ Append(pending[into[r]], r) \in Seq(Requests)
      BY <2>1, RangeOfAppend DEF WriteLine
    <3> QED BY <1>4, <2>1, <3>1 DEF BufferWork, WriteLine
  <2>2. CASE FlushLines(r)
    <3>1. into[r] \in Names /\ file[into[r]] \o pending[into[r]] \in Seq(Requests)
      BY <2>2, RangeOfConcat DEF FlushLines
    <3> QED BY <1>4, <2>2, <3>1 DEF BufferWork, FlushLines
  <2>3. CASE FlushOrSyncFails(r)
    BY <1>4, <2>3 DEF BufferWork, FlushOrSyncFails, Fault
  <2>4. CASE BeginSync(r)
    BY <1>4, <2>4 DEF BufferWork, BeginSync
  <2>5. CASE EndSync(r)
    <3>1. CASE into[r] \in Names
      <4>1. PICK i \in DOMAIN file[into[r]] :
              synced' = [synced EXCEPT
                           ![into[r]] = @ \cup {file[into[r]][j] : j \in 1..i}]
        BY <2>5 DEF EndSync
      <4>2. {file[into[r]][j] : j \in 1..i} \subseteq Requests
        BY <3>1
      <4>3. synced' \in [Names -> SUBSET Requests]
        BY <3>1, <4>1, <4>2
      <4> QED BY <1>4, <2>5, <4>3 DEF BufferWork, EndSync
    <3>2. CASE into[r] \notin Names
      <4>1. synced' = synced
        BY <2>5, <3>2 DEF EndSync
      <4> QED BY <1>4, <2>5, <4>1 DEF BufferWork, EndSync
    <3> QED BY <3>1, <3>2
  <2>6. CASE SyncOnClosed(r)
    BY <1>4, <2>6 DEF BufferWork, SyncOnClosed
  <2>7. CASE UseClosedFile(r)
    BY <1>4, <2>7 DEF BufferWork, UseClosedFile
  <2>8. CASE WriteLineFails(r)
    <3>1. into[r] \in Names
      BY <2>8 DEF WriteLineFails
    <3> QED BY <1>4, <2>8, <3>1 DEF BufferWork, WriteLineFails, Fault
  <2> QED BY <1>4, <2>1, <2>2, <2>3, <2>4, <2>5, <2>6, <2>7, <2>8 DEF BufferWork, Worker
<1>5. ASSUME NEW r \in Requests, AppendReturns(r) PROVE TypeOK'
  BY <1>5 DEF AppendReturns, Advance, bufferVars, outputVars, Steps
<1>6. ASSUME NEW r \in Requests, AppendRaises(r) PROVE TypeOK'
  BY <1>6 DEF AppendRaises, Advance, bufferVars, managerVars, outputVars, Steps
<1>7. ASSUME NEW s \in Stoppers, StopBegin(s) PROVE TypeOK'
  <2>1. buffer \in Names /\ active \in Names
    BY <1>7 DEF StopBegin
  <2>2. file[buffer] \o pending[buffer] \in Seq(Requests)
    BY <2>1, RangeOfConcat
  <2>3. file' \in [Names -> Seq(Requests)]
    BY <1>7, <2>1, <2>2 DEF StopBegin, CloseBuffer
  <2>4. ReadBuffer(active, file'[active]) \in Seq(Requests)
    BY <2>1, <2>3 DEF ReadBuffer
  <2>5. [pc |-> "truncate", cap |-> active, next |-> 1,
         entries |-> ReadBuffer(active, file'[active])] \in StopState
    BY <2>1, <2>4 DEF StopState, Busy, Outputs
  <2>6. stop' \in [Stoppers -> StopState]
    BY <1>7, <2>5 DEF StopBegin
  <2> QED BY <1>7, <2>1, <2>3, <2>6
          DEF StopBegin, CloseBuffer, pairVars, managerVars, outputVars
<1>8. ASSUME NEW s \in Stoppers, StopRaises(s) PROVE TypeOK'
  <2>1. CASE StopCloseFails(s)
    <3>1. buffer \in Names
      BY <2>1 DEF StopCloseFails
    <3> QED BY <2>1, <3>1
            DEF StopCloseFails, CloseBufferFails, Fault, pairVars, managerVars, outputVars
  <2>2. CASE StopReadFails(s) \/ StopAnalysisFails(s)
    <3>1. file[buffer] \o pending[buffer] \in Seq(Requests)
      BY <2>2, RangeOfConcat DEF StopReadFails, StopAnalysisFails
    <3>2. CloseBuffer(buffer) /\ buffer # NoCapture
          /\ UNCHANGED <<pairVars, faults, managerVars, outputVars, up, stop, crashes>>
      BY <2>2 DEF StopReadFails, StopAnalysisFails
    <3> QED BY <3>1, <3>2 DEF CloseBuffer, pairVars, managerVars, outputVars
  <2> QED BY <1>8, <2>1, <2>2 DEF StopRaises
<1>9. ASSUME NEW s \in Stoppers, TruncateOutput(s) PROVE TypeOK'
  <2>1. Torn \in Content
    BY DEF Torn, Content
  <2>2. out' \in [Names -> [Outputs -> Content]]
    BY <1>9, <2>1 DEF TruncateOutput
  <2>3. stop[s] \in Busy
    BY <1>9 DEF TruncateOutput, StopState, Idle
  <2>4. [stop[s] EXCEPT !.pc = "fill"] \in Busy
    BY <2>3 DEF Busy
  <2>5. stop' \in [Stoppers -> StopState]
    BY <1>9, <2>4 DEF TruncateOutput, StopState
  <2> QED BY <1>9, <2>2, <2>5 DEF TruncateOutput, bufferVars, pairVars, managerVars
<1>10. ASSUME NEW s \in Stoppers, FillOutput(s) PROVE TypeOK'
  <2>1. Whole(stop[s].entries) \in Content
    BY <1>10 DEF FillOutput, Whole, Content, StopState, Busy, Idle
  <2>2. out' \in [Names -> [Outputs -> Content]]
    BY <1>10, <2>1 DEF FillOutput
  <2>3. stop[s] \in Busy
    BY <1>10 DEF FillOutput, StopState, Idle
  <2>4. Filled(stop[s]) \in Busy
    <3>1. CASE stop[s].next = 3
      BY <2>3, <3>1 DEF Filled, Busy
    <3>2. CASE stop[s].next # 3
      <4>1. stop[s].next + 1 \in Outputs
        BY <2>3, <3>2 DEF Busy, Outputs
      <4>2. Filled(stop[s]) = [stop[s] EXCEPT !.pc = "truncate", !.next = stop[s].next + 1]
        BY <3>2 DEF Filled
      <4> QED BY <2>3, <4>1, <4>2 DEF Busy
    <3> QED BY <3>1, <3>2
  <2>6. stop' \in [Stoppers -> StopState]
    BY <1>10, <2>4 DEF FillOutput, StopState
  <2> QED BY <1>10, <2>2, <2>6 DEF FillOutput, bufferVars, pairVars, managerVars
<1>11. ASSUME NEW s \in Stoppers, StopBreaks(s) PROVE TypeOK'
  <2>1. stop' \in [Stoppers -> StopState]
    BY <1>11 DEF StopBreaks, WriteFails, UnlinkFails, StopState
  <2>2. faults' \in 0..MaxFaults
    BY <1>11 DEF StopBreaks, WriteFails, UnlinkFails, Fault
  <2> QED BY <1>11, <2>1, <2>2 DEF StopBreaks, WriteFails, UnlinkFails, bufferVars, pairVars,
                                   managerVars, outputVars
<1>12. ASSUME NEW s \in Stoppers, StopFinish(s) PROVE TypeOK'
  <2>1. stop[s] \in Busy
    BY <1>12 DEF StopFinish, StopState, Idle
  <2>2. Append(history, [name |-> stop[s].cap, entries |-> stop[s].entries])
          \in Seq([name : Names, entries : Seq(Requests)])
    BY <2>1, RangeOfAppend DEF Busy
  <2> QED BY <1>12, <2>2 DEF StopFinish, StopState, pairVars, outputVars
<1>13. ASSUME Crash PROVE TypeOK'
  <2>1. Kill /\ crashes' \in 0..MaxCrashes
    BY <1>13 DEF Crash
  <2> HIDE DEF TypeOK, BufferTypeOK
  <2> QED BY <2>1, KillTypes
<1>14. ASSUME Restart PROVE TypeOK'
  BY <1>14 DEF Restart, bufferVars, pairVars, managerVars, outputVars
<1>15. CASE UNCHANGED vars
  BY <1>15 DEF vars, bufferVars, pairVars, managerVars, outputVars
<1> QED BY <1>1, <1>2, <1>3, <1>4, <1>5, <1>6, <1>7, <1>8, <1>9, <1>10, <1>11, <1>12,
           <1>13, <1>14, <1>15 DEF Next, Recording, StopCall, StopWork

\* Every variable of the manager, the buffers and the stops keeps its type.
THEOREM TypeCorrect == Spec => []TypeOK
BY TypeInit, TypeStep, PTL DEF Spec

---------------------------------------------------------------------------
(* What holds however many stops overlap.                                  *)

BufferOfActive ==
  buffer = active /\ (active # NoCapture => active \in dirs /\ active \in onDisk)

FreshNames ==
  /\ open \subseteq dirs /\ onDisk \subseteq dirs
  /\ \A n \in Names \ dirs : file[n] = <<>> /\ \A k \in Outputs : out[n][k] = Absent

NothingPendingWhenClosed == \A n \in Names \ open : pending[n] = <<>>

\* What a stop has read back is what the closed file still holds.
FramesAreFinal ==
  \A s \in Stoppers : stop[s] # Idle =>
    /\ stop[s].cap \in dirs /\ stop[s].cap \notin open
    /\ stop[s].entries = file[stop[s].cap]

PairsHaveBuffers ==
  \A r \in Requests :
    /\ into[r] # NoCapture => into[r] \in dirs
    /\ pc[r] \in WorkerSteps => into[r] # NoCapture

LinesAreThere ==
  \A r \in Requests : into[r] # NoCapture =>
    /\ pc[r] \in {"flushed", "syncing", "synced", "answered"} => r \in Range(file[into[r]])
    /\ pc[r] = "written" /\ into[r] \in open
         => r \in Range(pending[into[r]]) \cup Range(file[into[r]])

OutputsAreFinal ==
  \A n \in Names, k \in Outputs : out[n][k].state = "whole" =>
    n \notin open /\ out[n][k].entries = file[n]

Shared ==
  /\ TypeOK
  /\ BufferOfActive
  /\ FreshNames
  /\ NothingPendingWhenClosed
  /\ FramesAreFinal
  /\ PairsHaveBuffers
  /\ LinesAreThere
  /\ FsyncedBeforeAnswer
  /\ OutputsAreFinal

\* The parts of Shared hold when nothing has been started.
LEMMA SharedInit == Init => Shared
<1> SUFFICES ASSUME Init PROVE Shared
  OBVIOUS
<1>1. TypeOK
  BY TypeInit
<1> QED
  BY <1>1, NoCaptureAssumption
  DEF Shared, Init, BufferInit, BufferOfActive, FreshNames, NothingPendingWhenClosed,
      FramesAreFinal, PairsHaveBuffers, LinesAreThere, FsyncedBeforeAnswer, Acknowledged,
      OutputsAreFinal, Absent, WorkerSteps

\* A capture starts in a directory that is new, so no pair, frame or output is of it.
LEMMA StartPreservesShared ==
  ASSUME Shared, TypeOK', NEW n \in Names, StartCapture(n) \/ StartFails(n)
  PROVE  Shared'
<1> USE NoCaptureAssumption DEF Shared
<1>1. CASE StartCapture(n)
  <2> USE <1>1 DEF StartCapture, OpenBuffer, pairVars
  <2>1. n \notin dirs /\ file[n] = <<>> /\ n \notin open /\ n \notin onDisk
    BY DEF FreshNames
  <2>2. BufferOfActive'
    BY DEF BufferOfActive
  <2>3. FreshNames'
    BY DEF FreshNames
  <2>4. NothingPendingWhenClosed'
    BY DEF NothingPendingWhenClosed
  <2>5. FramesAreFinal'
    BY <2>1 DEF FramesAreFinal
  <2>6. PairsHaveBuffers'
    BY DEF PairsHaveBuffers
  <2>7. LinesAreThere'
    BY <2>1 DEF LinesAreThere, PairsHaveBuffers
  <2>8. FsyncedBeforeAnswer'
    BY <2>1 DEF FsyncedBeforeAnswer, Acknowledged, PairsHaveBuffers
  <2>9. OutputsAreFinal'
    BY <2>1 DEF OutputsAreFinal, FreshNames, Absent
  <2> QED BY <2>2, <2>3, <2>4, <2>5, <2>6, <2>7, <2>8, <2>9
<1>2. CASE StartFails(n)
  BY <1>2
  DEF StartFails, Fault, bufferVars, pairVars, managerVars, BufferOfActive, FreshNames,
      NothingPendingWhenClosed, FramesAreFinal, PairsHaveBuffers, LinesAreThere,
      FsyncedBeforeAnswer, Acknowledged, OutputsAreFinal
<1> QED BY <1>1, <1>2

\* record_entry moves one pair: into the buffer that is current, or out of a worker.
LEMMA RecordPreservesShared ==
  ASSUME Shared, TypeOK', NEW r \in Requests,
         RecordEntry(r) \/ AppendReturns(r) \/ AppendRaises(r)
  PROVE  Shared'
<1> USE NoCaptureAssumption DEF Shared
<1>1. CASE RecordEntry(r)
  <2> USE <1>1 DEF RecordEntry, bufferVars, managerVars, outputVars
  <2>1. into' \in [Requests -> Names \cup {NoCapture}] /\ into'[r] = buffer
        /\ pc'[r] = IF buffer = NoCapture THEN "answered" ELSE "queued"
    BY DEF TypeOK, BufferTypeOK
  <2>2. \A q \in Requests \ {r} : into'[q] = into[q] /\ pc'[q] = pc[q]
    BY DEF TypeOK, BufferTypeOK
  <2>3. BufferOfActive' /\ FreshNames' /\ NothingPendingWhenClosed' /\ FramesAreFinal'
        /\ OutputsAreFinal'
    BY DEF BufferOfActive, FreshNames, NothingPendingWhenClosed, FramesAreFinal,
           OutputsAreFinal
  <2>4. PairsHaveBuffers'
    BY <2>1, <2>2 DEF PairsHaveBuffers, BufferOfActive, WorkerSteps
  <2>5. LinesAreThere'
    BY <2>1, <2>2 DEF LinesAreThere
  <2>6. FsyncedBeforeAnswer'
    BY <2>1, <2>2 DEF FsyncedBeforeAnswer, Acknowledged, TypeOK, BufferTypeOK
  <2> QED BY <2>3, <2>4, <2>5, <2>6
<1>2. CASE AppendReturns(r) \/ AppendRaises(r)
  <2> USE <1>2 DEF AppendReturns, AppendRaises, Advance, bufferVars, managerVars, outputVars
  <2>1. into' = into /\ pc'[r] \in {"answered", "dropped"}
        /\ (pc'[r] = "answered" => pc[r] = "synced")
    BY DEF TypeOK, BufferTypeOK
  <2>2. \A q \in Requests \ {r} : pc'[q] = pc[q]
    BY DEF TypeOK, BufferTypeOK
  <2>3. BufferOfActive' /\ FreshNames' /\ NothingPendingWhenClosed' /\ FramesAreFinal'
        /\ OutputsAreFinal'
    BY DEF BufferOfActive, FreshNames, NothingPendingWhenClosed, FramesAreFinal,
           OutputsAreFinal
  <2>4. PairsHaveBuffers'
    BY <2>1, <2>2 DEF PairsHaveBuffers, WorkerSteps
  <2>5. LinesAreThere'
    BY <2>1, <2>2 DEF LinesAreThere
  <2>6. FsyncedBeforeAnswer'
    BY <2>1, <2>2 DEF FsyncedBeforeAnswer, Acknowledged
  <2> QED BY <2>3, <2>4, <2>5, <2>6
<1> QED BY <1>1, <1>2

\* A worker's step moves only its own pair, and touches the files only of a
\* capture that is open.
LEMMA WorkerPreservesShared ==
  ASSUME Shared, TypeOK', NEW r \in Requests, BufferWork(r)
  PROVE  Shared'
<1> DEFINE n == into[r]
<1> USE NoCaptureAssumption DEF Shared
<1>0. UNCHANGED <<managerVars, outputVars, up, stop, crashes>>
  BY DEF BufferWork
<1>1. n \in Names /\ n \in dirs /\ into' = into /\ open' = open /\ onDisk' = onDisk
      /\ pc[r] \in WorkerSteps
      /\ pc'[r] \in WorkerSteps \cup {"raised"}
      /\ \A q \in Requests \ {r} : pc'[q] = pc[q]
  <2>1. pc[r] \in WorkerSteps
    BY DEF BufferWork, Worker, WriteLine, FlushLines, WriteLineFails, FlushOrSyncFails,
           BeginSync, EndSync, SyncOnClosed, UseClosedFile, Advance, WorkerSteps
  <2>2. into' = into /\ open' = open /\ onDisk' = onDisk
    BY DEF BufferWork, Worker, WriteLine, FlushLines, WriteLineFails, FlushOrSyncFails,
           BeginSync, EndSync, SyncOnClosed, UseClosedFile, Advance, bufferVars
  <2>3. \E to \in WorkerSteps \cup {"raised"} : pc' = [pc EXCEPT ![r] = to]
    BY DEF BufferWork, Worker, WriteLine, FlushLines, WriteLineFails, FlushOrSyncFails,
           BeginSync, EndSync, SyncOnClosed, UseClosedFile, Advance, WorkerSteps
  <2>4. n \in Names /\ n \in dirs
    BY <2>1 DEF PairsHaveBuffers, TypeOK, BufferTypeOK
  <2> QED BY <2>1, <2>2, <2>3, <2>4 DEF TypeOK, BufferTypeOK
<1>2. BufferOfActive' /\ PairsHaveBuffers'
  BY <1>0, <1>1 DEF BufferOfActive, PairsHaveBuffers, managerVars, outputVars
<1>3. CASE WriteLine(r)
  <2> USE <1>3 DEF WriteLine, Advance
  <2>1. pending'[n] = Append(pending[n], r) /\ Range(pending'[n]) = Range(pending[n]) \cup {r}
        /\ \A m \in Names \ {n} : pending'[m] = pending[m]
    BY <1>1, RangeOfAppend DEF TypeOK, BufferTypeOK
  <2>2. pc'[r] = "written" /\ n \in open /\ file' = file /\ synced' = synced
    BY DEF TypeOK, BufferTypeOK
  <2>3. FreshNames' /\ NothingPendingWhenClosed' /\ FramesAreFinal' /\ OutputsAreFinal'
    BY <1>0, <1>1, <2>1, <2>2
    DEF FreshNames, NothingPendingWhenClosed, FramesAreFinal, OutputsAreFinal, outputVars
  <2>4. LinesAreThere'
    BY <1>1, <2>1, <2>2 DEF LinesAreThere, TypeOK, BufferTypeOK
  <2>5. FsyncedBeforeAnswer'
    BY <1>1, <2>2 DEF FsyncedBeforeAnswer, Acknowledged
  <2> QED BY <1>2, <2>3, <2>4, <2>5
<1>4. CASE FlushLines(r)
  <2> USE <1>4 DEF FlushLines, Advance
  <2>1. /\ Range(file'[n]) = Range(file[n]) \cup Range(pending[n])
        /\ \A m \in Names \ {n} : file'[m] = file[m] /\ pending'[m] = pending[m]
    BY <1>1, RangeOfConcat DEF TypeOK, BufferTypeOK
  <2>2. pc[r] = "written" /\ pc'[r] = "flushed" /\ n \in open /\ synced' = synced
    BY DEF TypeOK, BufferTypeOK
  <2>3. FreshNames' /\ NothingPendingWhenClosed' /\ FramesAreFinal' /\ OutputsAreFinal'
    BY <1>0, <1>1, <2>1, <2>2
    DEF FreshNames, NothingPendingWhenClosed, FramesAreFinal, OutputsAreFinal, outputVars,
        TypeOK, BufferTypeOK
  <2>4. LinesAreThere'
    BY <1>1, <2>1, <2>2 DEF LinesAreThere, TypeOK, BufferTypeOK
  <2>5. FsyncedBeforeAnswer'
    BY <1>1, <2>2 DEF FsyncedBeforeAnswer, Acknowledged
  <2> QED BY <1>2, <2>3, <2>4, <2>5
<1>5. CASE EndSync(r)
  <2> USE <1>5 DEF EndSync, Advance
  <2>1. pc[r] = "syncing" /\ pc'[r] = "synced" /\ file' = file /\ pending' = pending
    BY DEF TypeOK, BufferTypeOK
  <2>2. r \in synced'[n] /\ \A m \in Names : synced[m] \subseteq synced'[m]
    BY <1>1 DEF TypeOK, BufferTypeOK
  <2>3. FreshNames' /\ NothingPendingWhenClosed' /\ FramesAreFinal' /\ OutputsAreFinal'
    BY <1>0, <1>1, <2>1
    DEF FreshNames, NothingPendingWhenClosed, FramesAreFinal, OutputsAreFinal, outputVars
  <2>4. LinesAreThere'
    BY <1>1, <2>1 DEF LinesAreThere
  <2>5. FsyncedBeforeAnswer'
    BY <1>1, <2>1, <2>2 DEF FsyncedBeforeAnswer, Acknowledged, TypeOK, BufferTypeOK
  <2> QED BY <1>2, <2>3, <2>4, <2>5
<1>6. CASE \/ WriteLineFails(r) \/ FlushOrSyncFails(r) \/ BeginSync(r)
           \/ SyncOnClosed(r) \/ UseClosedFile(r)
  <2> USE <1>6 DEF WriteLineFails, FlushOrSyncFails, BeginSync, SyncOnClosed,
                   UseClosedFile, Advance, bufferVars
  <2>1. UNCHANGED <<file, pending, synced>>
    OBVIOUS
  <2>2. /\ pc'[r] = "syncing" => pc[r] = "flushed"
        /\ pc'[r] = "synced" => pc[r] = "syncing" /\ n \notin open
        /\ pc'[r] \in {"syncing", "synced", "raised"}
    BY DEF TypeOK, BufferTypeOK
  <2>3. FreshNames' /\ NothingPendingWhenClosed' /\ FramesAreFinal' /\ OutputsAreFinal'
    BY <1>0, <1>1, <2>1
    DEF FreshNames, NothingPendingWhenClosed, FramesAreFinal, OutputsAreFinal, outputVars
  <2>4. LinesAreThere'
    BY <1>1, <2>1, <2>2 DEF LinesAreThere
  <2>5. FsyncedBeforeAnswer'
    BY <1>1, <2>1, <2>2 DEF FsyncedBeforeAnswer, Acknowledged
  <2> QED BY <1>2, <2>3, <2>4, <2>5
<1> QED BY <1>3, <1>4, <1>5, <1>6 DEF BufferWork, Worker

\* Closing the active buffer moves what is pending into the file, or loses it; a
\* frame or an output that is already final is of a closed file, so stays so.
LEMMA StopCallPreservesShared ==
  ASSUME Shared, TypeOK', NEW s \in Stoppers, StopCall(s)
  PROVE  Shared'
<1> DEFINE n == active
<1> USE NoCaptureAssumption DEF Shared
<1>1. /\ n \in Names /\ n \in dirs /\ n \in onDisk /\ buffer = n
      /\ stop[s] = Idle
      /\ UNCHANGED <<pairVars, managerVars, outputVars, synced, onDisk>>
      /\ open' = open \ {n}
      /\ pending' = [pending EXCEPT ![n] = <<>>]
  <2>1. active # NoCapture /\ stop[s].pc = "idle"
    BY DEF StopCall, StopRaises, StopBegin, StopCloseFails, StopReadFails, StopAnalysisFails
  <2>2. stop[s] = Idle
    BY <2>1 DEF TypeOK, StopState, Busy
  <2>3. n \in Names /\ n \in dirs /\ n \in onDisk /\ buffer = n
    BY <2>1 DEF BufferOfActive, TypeOK
  <2> QED BY <2>2, <2>3
          DEF StopCall, StopRaises, StopBegin, StopCloseFails, StopReadFails, StopAnalysisFails,
              CloseBuffer, CloseBufferFails
<1>2. /\ \A m \in Names \ {n} : file'[m] = file[m] /\ pending'[m] = pending[m]
      /\ pending'[n] = <<>>
      /\ Range(file[n]) \subseteq Range(file'[n])
      /\ n \notin open => file'[n] = file[n]
  <2>1. CASE StopBegin(s) \/ StopReadFails(s) \/ StopAnalysisFails(s)
    <3>1. file'[n] = file[n] \o pending[n]
      BY <1>1, <2>1 DEF StopBegin, StopReadFails, StopAnalysisFails, CloseBuffer, TypeOK,
                        BufferTypeOK
    <3>2. Range(file[n]) \subseteq Range(file'[n])
      BY <1>1, <3>1, RangeOfConcat DEF TypeOK, BufferTypeOK
    <3>3. n \notin open => file'[n] = file[n]
      BY <1>1, <3>1 DEF NothingPendingWhenClosed, TypeOK, BufferTypeOK
    <3> QED BY <1>1, <2>1, <3>2, <3>3
            DEF StopBegin, StopReadFails, StopAnalysisFails, CloseBuffer, TypeOK, BufferTypeOK
  <2>2. CASE StopCloseFails(s)
    BY <1>1, <2>2 DEF StopCloseFails, CloseBufferFails, TypeOK, BufferTypeOK
  <2> QED BY <2>1, <2>2 DEF StopCall, StopRaises
<1>3. /\ \A t \in Stoppers \ {s} : stop'[t] = stop[t]
      /\ stop'[s] = Idle \/ (stop'[s].cap = n /\ stop'[s].entries = file'[n])
  <2>1. CASE StopBegin(s)
    BY <1>1, <2>1 DEF StopBegin, ReadBuffer, TypeOK
  <2>2. CASE StopRaises(s)
    BY <1>1, <2>2 DEF StopRaises, StopCloseFails, StopReadFails, StopAnalysisFails
  <2> QED BY <2>1, <2>2 DEF StopCall, StopRaises
<1>4. BufferOfActive' /\ PairsHaveBuffers'
  BY <1>1 DEF BufferOfActive, PairsHaveBuffers, managerVars, pairVars, outputVars
<1>5. FreshNames'
  BY <1>1, <1>2 DEF FreshNames, outputVars
<1>6. NothingPendingWhenClosed'
  BY <1>1, <1>2 DEF NothingPendingWhenClosed
<1>7. FramesAreFinal'
  <2> SUFFICES ASSUME NEW t \in Stoppers, stop'[t] # Idle
               PROVE  /\ stop'[t].cap \in dirs' /\ stop'[t].cap \notin open'
                      /\ stop'[t].entries = file'[stop'[t].cap]
    BY DEF FramesAreFinal
  <2>1. CASE t = s
    BY <1>1, <1>3, <2>1 DEF outputVars
  <2>2. CASE t # s
    <3>1. stop'[t] = stop[t]
      BY <1>3, <2>2
    <3>2. /\ stop[t].cap \in dirs /\ stop[t].cap \notin open /\ stop[t].cap \in Names
          /\ stop[t].entries = file[stop[t].cap]
      BY <3>1 DEF FramesAreFinal, TypeOK
    <3>3. file'[stop[t].cap] = file[stop[t].cap]
      BY <1>2, <3>2
    <3> QED BY <1>1, <3>1, <3>2, <3>3 DEF outputVars
  <2> QED BY <2>1, <2>2
<1>8. LinesAreThere'
  BY <1>1, <1>2 DEF LinesAreThere, pairVars, TypeOK, BufferTypeOK
<1>9. FsyncedBeforeAnswer'
  BY <1>1 DEF FsyncedBeforeAnswer, Acknowledged, pairVars
<1>10. OutputsAreFinal'
  BY <1>1, <1>2 DEF OutputsAreFinal, outputVars
<1> QED BY <1>4, <1>5, <1>6, <1>7, <1>8, <1>9, <1>10

\* Outputs are written from a frame, and a frame is of a closed file.
LEMMA StopWorkPreservesShared ==
  ASSUME Shared, TypeOK', NEW s \in Stoppers, StopWork(s)
  PROVE  Shared'
<1> DEFINE n == stop[s].cap
<1> USE NoCaptureAssumption DEF Shared
<1>1. /\ stop[s] \in Busy /\ n \in Names /\ n \in dirs /\ n \notin open
      /\ stop[s].entries = file[n]
      /\ UNCHANGED <<pairVars, dirs, synced, file, pending, open>>
  <2>1. stop[s].pc # "idle"
    BY DEF StopWork, TruncateOutput, FillOutput, StopBreaks, WriteFails, UnlinkFails, StopFinish
  <2>2. stop[s] \in Busy /\ stop[s] # Idle
    BY <2>1 DEF TypeOK, StopState, Idle
  <2> QED BY <2>2 DEF FramesAreFinal, TypeOK, BufferTypeOK, StopWork, TruncateOutput,
                      FillOutput, StopBreaks, WriteFails, UnlinkFails, StopFinish, bufferVars,
                      outputVars
<1>2. /\ \A t \in Stoppers \ {s} : stop'[t] = stop[t]
      /\ stop'[s] = Idle \/ (stop'[s].cap = n /\ stop'[s].entries = stop[s].entries)
  <2>1. CASE FillOutput(s)
    <3>1. Filled(stop[s]).cap = n /\ Filled(stop[s]).entries = stop[s].entries
      BY <1>1 DEF Filled, Busy
    <3> QED BY <2>1, <3>1 DEF FillOutput, TypeOK
  <2>2. CASE TruncateOutput(s)
    <3>1. [stop[s] EXCEPT !.pc = "fill"].cap = n
          /\ [stop[s] EXCEPT !.pc = "fill"].entries = stop[s].entries
      BY <1>1 DEF Busy
    <3> QED BY <2>2, <3>1 DEF TruncateOutput, TypeOK
  <2>3. CASE StopBreaks(s) \/ StopFinish(s)
    BY <2>3 DEF StopBreaks, WriteFails, UnlinkFails, StopFinish, TypeOK
  <2> QED BY <2>1, <2>2, <2>3 DEF StopWork
<1>3. \A m \in Names, k \in Outputs :
        \/ out'[m][k] = out[m][k]
        \/ m = n /\ out'[m][k] \in {Torn, Whole(file[n])}
  <2>1. CASE FillOutput(s) \/ TruncateOutput(s)
    BY <1>1, <2>1 DEF FillOutput, TruncateOutput, TypeOK
  <2>2. CASE StopBreaks(s) \/ StopFinish(s)
    BY <2>2 DEF StopBreaks, WriteFails, UnlinkFails, StopFinish, outputVars
  <2> QED BY <2>1, <2>2 DEF StopWork
<1>4. \/ UNCHANGED <<active, buffer, onDisk>>
      \/ active' = NoCapture /\ buffer' = NoCapture /\ onDisk' \subseteq onDisk
  BY DEF StopWork, TruncateOutput, FillOutput, StopBreaks, WriteFails, UnlinkFails, StopFinish,
         bufferVars, managerVars
<1>5. BufferOfActive' /\ PairsHaveBuffers'
  BY <1>1, <1>4 DEF BufferOfActive, PairsHaveBuffers, pairVars
<1>6. FreshNames'
  BY <1>1, <1>3, <1>4 DEF FreshNames
<1>7. NothingPendingWhenClosed' /\ LinesAreThere' /\ FsyncedBeforeAnswer'
  BY <1>1 DEF NothingPendingWhenClosed, LinesAreThere, FsyncedBeforeAnswer, Acknowledged,
              pairVars
<1>8. FramesAreFinal'
  BY <1>1, <1>2 DEF FramesAreFinal
<1>9. OutputsAreFinal'
  BY <1>1, <1>3 DEF OutputsAreFinal, Torn, Whole
<1> QED BY <1>5, <1>6, <1>7, <1>8, <1>9

\* The death of the process closes every file and drops every pair in a worker.
LEMMA KillPreservesShared ==
  ASSUME Shared, TypeOK', Kill
  PROVE  Shared'
<1> USE NoCaptureAssumption DEF Shared, Kill, outputVars
<1>1. \A r \in Requests :
        (pc'[r] = pc[r] /\ pc[r] \notin WorkerSteps) \/ pc'[r] = "dropped"
  OBVIOUS
<1>2. BufferOfActive' /\ FreshNames' /\ NothingPendingWhenClosed' /\ OutputsAreFinal'
  BY DEF BufferOfActive, FreshNames, NothingPendingWhenClosed, OutputsAreFinal
<1>3. FramesAreFinal'
  BY DEF FramesAreFinal
<1>4. PairsHaveBuffers' /\ LinesAreThere' /\ FsyncedBeforeAnswer'
  BY <1>1 DEF PairsHaveBuffers, LinesAreThere, FsyncedBeforeAnswer, WorkerSteps
<1> QED BY <1>2, <1>3, <1>4

LEMMA CrashPreservesShared ==
  ASSUME Shared, TypeOK', Crash \/ Restart
  PROVE  Shared'
<1>1. CASE Crash
  BY <1>1, KillPreservesShared DEF Crash
<1>2. CASE Restart
  BY <1>2
  DEF Restart, Shared, bufferVars, pairVars, managerVars, outputVars, BufferOfActive, FreshNames,
      NothingPendingWhenClosed, FramesAreFinal, PairsHaveBuffers, LinesAreThere,
      FsyncedBeforeAnswer, Acknowledged, OutputsAreFinal
<1> QED BY <1>1, <1>2

\* Shared is inductive.
LEMMA SharedStep == Shared /\ [Next]_vars => Shared'
<1> SUFFICES ASSUME Shared, [Next]_vars PROVE Shared'
  OBVIOUS
<1>1. TypeOK'
  BY TypeStep DEF Shared
<1>2. CASE UNCHANGED vars
  BY <1>1, <1>2
  DEF Shared, vars, bufferVars, pairVars, managerVars, outputVars, BufferOfActive,
      FreshNames, NothingPendingWhenClosed, FramesAreFinal, PairsHaveBuffers,
      LinesAreThere, FsyncedBeforeAnswer, Acknowledged, OutputsAreFinal
<1> QED
  BY <1>1, <1>2, StartPreservesShared, RecordPreservesShared, WorkerPreservesShared,
     StopCallPreservesShared, StopWorkPreservesShared, CrashPreservesShared
  DEF Next, Recording

\* The invariant the next two theorems rest on.
THEOREM SharedHolds == Spec => []Shared
BY SharedInit, SharedStep, PTL DEF Spec

\* README.md and buffer.py promise that a recorded pair is on stable storage when
\* its handler goes on: true of every pair acknowledged while the buffer is open,
\* with any number of pairs, captures and tasks in stop_capture.
THEOREM AcknowledgedIsFsynced == Spec => []FsyncedBeforeAnswer
BY SharedHolds, PTL DEF Shared

LEMMA SharedReports == Shared => ReportsHoldAcknowledged
BY NoCaptureAssumption
DEF Shared, ReportsHoldAcknowledged, Acknowledged, LinesAreThere, OutputsAreFinal

\* No output that is whole lacks an acknowledged pair, overlapping stops included:
\* by the time a stop reads the buffer the file is closed for good.
THEOREM ReportsAreComplete == Spec => []ReportsHoldAcknowledged
BY SharedReports, SharedHolds, PTL

---------------------------------------------------------------------------
(***************************************************************************)
(* What the capture manager guarantees as long as at most one task at a    *)
(* time is inside stop_capture.  The code does not see to that by itself   *)
(* (Daemon shows what an overlap does), but a user who waits for `capture  *)
(* stop` before interrupting the daemon does.                              *)
(***************************************************************************)

\* No two tasks are between the start and the end of stop_capture.
NoOverlap == \A s, t \in Stoppers : stop[s] # Idle /\ stop[t] # Idle => s = t

OnlyActiveIsOpen == open \subseteq {active}

\* The frame of the one stop is of the active capture, and has already filled the
\* outputs it has gone past.
FrameIsOfActive ==
  \A s \in Stoppers : stop[s] # Idle =>
    /\ stop[s].cap = active
    /\ \A k \in Outputs : k < stop[s].next \/ stop[s].pc = "written"
         => out[active][k] = Whole(stop[s].entries)

\* A buffer that has held a line is gone only where the outputs have replaced it.
UnlinkedIsReplaced ==
  \A n \in Names : n \notin onDisk /\ file[n] # <<>> => WholeOutputs(n, file[n])

HistoryIsOfOld == \A i \in DOMAIN history : history[i].name \in dirs

Solo ==
  /\ Shared
  /\ OnlyActiveIsOpen
  /\ FrameIsOfActive
  /\ UnlinkedIsReplaced
  /\ HistoryIsOfOld
  /\ HistoryIsWhole

\* Nothing is open, unlinked or in the history at first.
LEMMA SoloInit == Init => Solo
BY SharedInit
DEF Solo, Init, BufferInit, OnlyActiveIsOpen, FrameIsOfActive, UnlinkedIsReplaced,
    HistoryIsOfOld, HistoryIsWhole

\* A capture can start only while no stop is under way: a frame would be of the
\* active capture, and there is none.
LEMMA StartPreservesSolo ==
  ASSUME Solo, Shared', NEW n \in Names, StartCapture(n) \/ StartFails(n)
  PROVE  Solo'
<1> USE NoCaptureAssumption DEF Solo
<1>1. TypeOK /\ active = NoCapture /\ n \notin dirs
  BY DEF Shared, StartCapture, StartFails
<1>2. open = {} /\ \A s \in Stoppers : stop[s] = Idle
  <2>1. open = {}
    BY <1>1 DEF OnlyActiveIsOpen, TypeOK, BufferTypeOK
  <2>2. \A s \in Stoppers : stop[s] # Idle => stop[s].cap \in Names
    BY <1>1 DEF TypeOK, StopState, Busy
  <2> QED BY <1>1, <2>1, <2>2 DEF FrameIsOfActive
<1>3. UNCHANGED <<file, out, history, stop>>
      /\ dirs' = dirs \cup {n} /\ open' \subseteq {active'}
      /\ onDisk' \in {onDisk, onDisk \cup {n}}
  BY <1>1, <1>2 DEF StartCapture, StartFails, OpenBuffer, bufferVars, managerVars
<1>4. OnlyActiveIsOpen' /\ FrameIsOfActive' /\ HistoryIsOfOld'
  BY <1>2, <1>3 DEF OnlyActiveIsOpen, FrameIsOfActive, HistoryIsOfOld
<1>5. UnlinkedIsReplaced'
  BY <1>3 DEF UnlinkedIsReplaced, WholeOutputs
<1>6. HistoryIsWhole'
  BY <1>1, <1>3 DEF HistoryIsWhole, WholeOutputs, HistoryIsOfOld
<1> QED BY <1>4, <1>5, <1>6

\* Pairs touch only the file of an open capture, which is the active one, whose
\* buffer is in its directory.
LEMMA RecordingPreservesSolo ==
  ASSUME Solo, Shared', NEW r \in Requests, Recording(r)
  PROVE  Solo'
<1> USE NoCaptureAssumption DEF Solo
<1>1. UNCHANGED <<active, open, onDisk, dirs, out, history, stop>>
  BY DEF Recording, RecordEntry, BufferWork, AppendReturns, AppendRaises, Worker, WriteLine,
         WriteLineFails, FlushLines, FlushOrSyncFails, BeginSync, EndSync, SyncOnClosed,
         UseClosedFile, bufferVars, managerVars, outputVars
<1>2. \A n \in Names \ onDisk : file'[n] = file[n]
  <2>1. CASE BufferWork(r) /\ FlushLines(r)
    <3>1. into[r] \in open /\ into[r] \in onDisk
      BY <2>1 DEF FlushLines, OnlyActiveIsOpen, Shared, BufferOfActive, TypeOK, BufferTypeOK
    <3> QED BY <2>1, <3>1 DEF FlushLines, Shared, TypeOK, BufferTypeOK
  <2>2. CASE ~(BufferWork(r) /\ FlushLines(r))
    <3>1. file' = file
      BY <2>2 DEF Recording, RecordEntry, BufferWork, AppendReturns, AppendRaises, Worker,
                  WriteLine, WriteLineFails, FlushOrSyncFails, BeginSync, EndSync,
                  SyncOnClosed, UseClosedFile, bufferVars
    <3> QED BY <3>1
  <2> QED BY <2>1, <2>2
<1>3. OnlyActiveIsOpen' /\ FrameIsOfActive' /\ HistoryIsOfOld' /\ HistoryIsWhole'
  BY <1>1 DEF OnlyActiveIsOpen, FrameIsOfActive, HistoryIsOfOld, HistoryIsWhole, WholeOutputs
<1>4. UnlinkedIsReplaced'
  BY <1>1, <1>2 DEF UnlinkedIsReplaced, WholeOutputs
<1> QED BY <1>3, <1>4

\* A task that begins, writes or ends a stop is the only one inside stop_capture.
LEMMA OthersAreOut ==
  ASSUME NoOverlap, NoOverlap', TypeOK, NEW s \in Stoppers,
         \/ StopBegin(s) \/ TruncateOutput(s) \/ FillOutput(s)
         \/ StopBreaks(s) \/ StopFinish(s)
  PROVE  \A t \in Stoppers \ {s} : stop'[t] = Idle
<1>1. CASE StopBegin(s)
  <2>1. stop'[s].pc = "truncate"
    BY <1>1 DEF StopBegin, TypeOK
  <2>2. stop'[s] # Idle
    BY <2>1 DEF Idle
  <2> QED BY <2>2 DEF NoOverlap
<1>2. CASE TruncateOutput(s) \/ FillOutput(s) \/ StopBreaks(s) \/ StopFinish(s)
  <2>1. stop[s].pc # "idle"
    BY <1>2 DEF TruncateOutput, FillOutput, StopBreaks, WriteFails, UnlinkFails, StopFinish
  <2>2. stop[s] # Idle
    BY <2>1 DEF Idle
  <2>3. \A t \in Stoppers \ {s} : stop[t] = Idle
    BY <2>2 DEF NoOverlap
  <2>4. \A t \in Stoppers \ {s} : stop'[t] = stop[t]
    BY <1>2 DEF TruncateOutput, FillOutput, StopBreaks, WriteFails, UnlinkFails, StopFinish, TypeOK
  <2> QED BY <2>3, <2>4
<1> QED BY <1>1, <1>2

\* A stop begins with no output filled, and with the buffer in its directory.
LEMMA StopCallPreservesSolo ==
  ASSUME NoOverlap, NoOverlap', Solo, Shared', NEW s \in Stoppers, StopCall(s)
  PROVE  Solo'
<1> USE NoCaptureAssumption DEF Solo
<1>1. TypeOK /\ buffer = active /\ active \in Names /\ active \in onDisk
  BY DEF Shared, BufferOfActive, StopCall, StopRaises, StopBegin, StopCloseFails,
         StopReadFails, StopAnalysisFails, TypeOK
<1>2. /\ UNCHANGED <<active, onDisk, dirs, out, history>>
      /\ open' \subseteq open
      /\ \A n \in Names \ {active} : file'[n] = file[n]
  BY <1>1
  DEF StopCall, StopRaises, StopBegin, StopCloseFails, StopReadFails, StopAnalysisFails,
      CloseBuffer, CloseBufferFails, managerVars, outputVars, TypeOK, BufferTypeOK
<1>3. stop[s] = Idle
  BY <1>1 DEF StopCall, StopRaises, StopBegin, StopCloseFails, StopReadFails, StopAnalysisFails,
              TypeOK, StopState, Busy
<1>4. stop'[s] = Idle \/ (stop'[s].cap = active /\ stop'[s].next = 1
                              /\ stop'[s].pc = "truncate")
  BY <1>1, <1>3 DEF StopCall, StopRaises, StopBegin, StopCloseFails, StopReadFails,
                    StopAnalysisFails, TypeOK
<1>5. FrameIsOfActive'
  <2>1. CASE StopBegin(s)
    <3>1. \A t \in Stoppers \ {s} : stop'[t] = Idle
      BY <1>1, <2>1, OthersAreOut
    <3> QED BY <1>2, <1>4, <3>1 DEF FrameIsOfActive, Outputs
  <2>2. CASE StopRaises(s)
    <3>1. stop' = stop
      BY <2>2 DEF StopRaises, StopCloseFails, StopReadFails, StopAnalysisFails
    <3> QED BY <1>2, <3>1 DEF FrameIsOfActive
  <2> QED BY <2>1, <2>2 DEF StopCall
<1>6. OnlyActiveIsOpen' /\ HistoryIsOfOld' /\ HistoryIsWhole'
  BY <1>2 DEF OnlyActiveIsOpen, HistoryIsOfOld, HistoryIsWhole, WholeOutputs
<1>7. UnlinkedIsReplaced'
  BY <1>1, <1>2 DEF UnlinkedIsReplaced, WholeOutputs
<1> QED BY <1>5, <1>6, <1>7

\* What every step of a stop under way starts from.
LEMMA FrameFacts ==
  ASSUME Solo, NEW s \in Stoppers, stop[s].pc # "idle"
  PROVE  /\ stop[s] \in Busy /\ stop[s] # Idle
         /\ stop[s].cap = active /\ active \in Names
         /\ active \in onDisk /\ active \in dirs /\ active \notin open
         /\ stop[s].entries = file[active]
<1>1. stop[s] \in Busy /\ stop[s] # Idle
  BY DEF Solo, Shared, TypeOK, StopState, Idle
<1>2. stop[s].cap = active /\ active \in Names
  BY <1>1 DEF Solo, FrameIsOfActive, Busy
<1>3. active # NoCapture
  BY <1>2, NoCaptureAssumption
<1> QED BY <1>1, <1>2, <1>3 DEF Solo, Shared, BufferOfActive, FramesAreFinal

\* Each output filled is one more that agrees with the frame.
LEMMA OutputPreservesSolo ==
  ASSUME NoOverlap, NoOverlap', Solo, Shared', NEW s \in Stoppers,
         TruncateOutput(s) \/ FillOutput(s) \/ StopBreaks(s)
  PROVE  Solo'
<1> USE NoCaptureAssumption DEF Solo
<1>1. /\ stop[s] \in Busy /\ stop[s] # Idle
      /\ stop[s].cap = active /\ active \in Names /\ active \in onDisk
      /\ UNCHANGED <<active, open, onDisk, dirs, file, history>>
      /\ TypeOK
  BY FrameFacts DEF TruncateOutput, FillOutput, StopBreaks, WriteFails, UnlinkFails, bufferVars,
                    managerVars, outputVars, Shared
<1>2. \A n \in Names \ {active} : out'[n] = out[n]
  BY <1>1 DEF TruncateOutput, FillOutput, StopBreaks, WriteFails, UnlinkFails, outputVars, TypeOK
<1>3. FrameIsOfActive'
  <2>0. \A t \in Stoppers \ {s} : stop'[t] = Idle
    BY <1>1, OthersAreOut
  <2>1. CASE TruncateOutput(s)
    <3>1. stop'[s] = [stop[s] EXCEPT !.pc = "fill"]
      BY <1>1, <2>1, Zenon DEF TruncateOutput, TypeOK
    <3>2. /\ stop'[s].cap = active /\ stop'[s].next = stop[s].next
          /\ stop'[s].entries = stop[s].entries /\ stop'[s].pc = "fill"
      BY <1>1, <3>1 DEF Busy
    <3>3. \A k \in Outputs : k < stop[s].next => out[active][k] = Whole(stop[s].entries)
      BY <1>1 DEF FrameIsOfActive
    <3>4. /\ stop[s].next \in Nat
          /\ \A k \in Outputs \ {stop[s].next} : out'[active][k] = out[active][k]
      BY <1>1, <2>1 DEF TruncateOutput, TypeOK, Busy, Outputs
    <3>5. \A k \in Outputs : k < stop'[s].next => out'[active][k] = Whole(stop'[s].entries)
      BY <3>2, <3>3, <3>4 DEF Outputs
    <3> QED BY <1>1, <2>0, <3>2, <3>5 DEF FrameIsOfActive
  <2>2. CASE FillOutput(s)
    <3>1. stop'[s] = Filled(stop[s])
      BY <1>1, <2>2, Zenon DEF FillOutput, TypeOK
    <3>2. /\ stop'[s].cap = active /\ stop'[s].entries = stop[s].entries
          /\ \/ stop[s].next = 3 /\ stop'[s].pc = "written"
             \/ stop'[s].next = stop[s].next + 1 /\ stop'[s].pc = "truncate"
      BY <1>1, <3>1 DEF Filled, Busy
    <3>3. \A k \in Outputs : k < stop[s].next => out[active][k] = Whole(stop[s].entries)
      BY <1>1 DEF FrameIsOfActive
    <3>4. /\ stop[s].next \in Outputs
          /\ out'[active][stop[s].next] = Whole(stop[s].entries)
          /\ \A k \in Outputs \ {stop[s].next} : out'[active][k] = out[active][k]
      BY <1>1, <2>2 DEF FillOutput, TypeOK, Busy
    <3>5. \A k \in Outputs : k < stop'[s].next \/ stop'[s].pc = "written"
            => out'[active][k] = Whole(stop'[s].entries)
      <4>1. SUFFICES ASSUME NEW k \in Outputs, k < stop'[s].next \/ stop'[s].pc = "written"
                     PROVE  out'[active][k] = Whole(stop[s].entries)
        BY <3>2
      <4>2. k < stop[s].next \/ k = stop[s].next
        BY <2>2, <3>1, <3>2, <3>4, <4>1, <1>1 DEF Outputs, Filled, Busy
      <4> QED BY <3>3, <3>4, <4>2
    <3> QED BY <1>1, <2>0, <3>2, <3>5 DEF FrameIsOfActive
  <2>3. CASE StopBreaks(s)
    <3>1. stop'[s] = Idle
      BY <1>1, <2>3 DEF StopBreaks, WriteFails, UnlinkFails, TypeOK
    <3> QED BY <2>0, <3>1 DEF FrameIsOfActive
  <2> QED BY <2>1, <2>2, <2>3
<1>4. OnlyActiveIsOpen' /\ HistoryIsOfOld'
  BY <1>1 DEF OnlyActiveIsOpen, HistoryIsOfOld
<1>5. UnlinkedIsReplaced'
  BY <1>1, <1>2 DEF UnlinkedIsReplaced, WholeOutputs
<1>6. HistoryIsWhole'
  <2>1. \A i \in DOMAIN history : history[i].name \in Names \ {active}
    BY <1>1 DEF HistoryIsWhole, HistoryIsOfOld, TypeOK
  <2> QED BY <1>1, <1>2, <2>1 DEF HistoryIsWhole, WholeOutputs
<1> QED BY <1>3, <1>4, <1>5, <1>6

\* The end of a stop: its capture was not in the history, as its buffer was there.
LEMMA FinishPreservesSolo ==
  ASSUME NoOverlap, NoOverlap', Solo, Shared', NEW s \in Stoppers, StopFinish(s)
  PROVE  Solo'
<1> DEFINE h == [name |-> active, entries |-> stop[s].entries]
<1> USE NoCaptureAssumption DEF Solo
<1>1. /\ stop[s] \in Busy /\ stop[s] # Idle /\ stop[s].entries = file[active]
      /\ stop[s].cap = active /\ active \in Names /\ active \in onDisk /\ active \in dirs
      /\ active \notin open /\ TypeOK
  BY FrameFacts DEF StopFinish, Shared
<1>2. /\ UNCHANGED <<file, out, open, dirs>>
      /\ onDisk' = onDisk \ {active} /\ active' = NoCapture
      /\ history' = Append(history, h)
      /\ stop'[s] = Idle
  BY <1>1 DEF StopFinish, outputVars, TypeOK
<1>3. WholeOutputs(active, stop[s].entries)
  BY <1>1 DEF StopFinish, FrameIsOfActive, WholeOutputs
<1>4. \A i \in DOMAIN history' :
        \/ i \in DOMAIN history /\ history'[i] = history[i]
        \/ i = Len(history) + 1 /\ history'[i] = h
  BY <1>1, <1>2 DEF TypeOK, Busy
<1>5. OnlyActiveIsOpen' /\ FrameIsOfActive'
  <2>1. \A t \in Stoppers \ {s} : stop'[t] = Idle
    BY <1>1, OthersAreOut
  <2> QED BY <1>1, <1>2, <2>1 DEF OnlyActiveIsOpen, FrameIsOfActive
<1>6. UnlinkedIsReplaced'
  BY <1>1, <1>2, <1>3 DEF UnlinkedIsReplaced, WholeOutputs
<1>7. HistoryIsOfOld'
  BY <1>1, <1>2, <1>4 DEF HistoryIsOfOld
<1>8. HistoryIsWhole'
  <2>1. \A i \in DOMAIN history : history[i].name # active
    BY <1>1 DEF HistoryIsWhole
  <2>2. \A i, j \in DOMAIN history' : history'[i].name = history'[j].name => i = j
    BY <1>4, <2>1 DEF HistoryIsWhole
  <2>3. \A i \in DOMAIN history' : history'[i].name \notin onDisk'
    BY <1>2, <1>4, <2>1 DEF HistoryIsWhole
  <2>4. \A i \in DOMAIN history' : WholeOutputs(history'[i].name, history'[i].entries)
    BY <1>3, <1>4 DEF HistoryIsWhole
  <2>5. \A i \in DOMAIN history', k \in Outputs :
          out'[history'[i].name][k] = Whole(history'[i].entries)
    BY <1>2, <2>4 DEF WholeOutputs
  <2> QED BY <2>2, <2>3, <2>5 DEF HistoryIsWhole, WholeOutputs
<1> QED BY <1>5, <1>6, <1>7, <1>8

\* A process that dies leaves the files, and forgets the history.
LEMMA KillPreservesSolo ==
  ASSUME Solo, Shared', Kill
  PROVE  Solo'
<1>1. UNCHANGED <<file, out, onDisk>> /\ open' = {} /\ history' = <<>>
      /\ \A s \in Stoppers : stop'[s] = Idle
  BY DEF Kill, outputVars
<1> QED BY <1>1 DEF Solo, OnlyActiveIsOpen, FrameIsOfActive, UnlinkedIsReplaced, WholeOutputs,
                    HistoryIsOfOld, HistoryIsWhole

LEMMA RestartPreservesSolo ==
  ASSUME Solo, Shared', Restart
  PROVE  Solo'
BY DEF Solo, Restart, bufferVars, managerVars, outputVars, OnlyActiveIsOpen, FrameIsOfActive,
       UnlinkedIsReplaced, WholeOutputs, HistoryIsOfOld, HistoryIsWhole

\* Solo is inductive.
LEMMA SoloStep ==
  ASSUME NoOverlap, NoOverlap'
  PROVE  Solo /\ [Next]_vars => Solo'
<1> SUFFICES ASSUME Solo, [Next]_vars PROVE Solo'
  OBVIOUS
<1>1. Shared'
  BY SharedStep DEF Solo
<1>2. CASE UNCHANGED vars
  BY <1>1, <1>2
  DEF Solo, vars, bufferVars, managerVars, outputVars, OnlyActiveIsOpen, FrameIsOfActive,
      UnlinkedIsReplaced, WholeOutputs, HistoryIsOfOld, HistoryIsWhole
<1> QED
  BY <1>1, <1>2, StartPreservesSolo, RecordingPreservesSolo, StopCallPreservesSolo,
     OutputPreservesSolo, FinishPreservesSolo, KillPreservesSolo, RestartPreservesSolo
  DEF Next, StopWork, Crash

\* The invariant the next theorems rest on.
THEOREM SoloHolds == Spec /\ []NoOverlap => []Solo
BY SoloInit, SoloStep, PTL DEF Spec

\* A line that was acknowledged is in the buffer's file, and that file is there or
\* replaced.
LEMMA SoloKeeps == Solo => AcknowledgedIsKept
<1> SUFFICES ASSUME Solo, NEW r \in Requests, NEW n \in Names, Acknowledged(r, n)
             PROVE  Kept(n, r)
  BY DEF AcknowledgedIsKept
<1>1. r \in Range(file[n])
  BY NoCaptureAssumption DEF Solo, Shared, LinesAreThere, Acknowledged
<1>2. CASE n \in onDisk
  BY <1>1, <1>2 DEF Kept
<1>3. CASE n \notin onDisk
  <2>1. file[n] # <<>>
    BY <1>1 DEF Range
  <2>2. WholeOutputs(n, file[n])
    BY <1>3, <2>1 DEF Solo, UnlinkedIsReplaced
  <2> QED BY <1>1, <2>2 DEF Kept, WholeOutputs, Whole
<1> QED BY <1>2, <1>3

\* No acknowledged pair is ever missing from disk, at whatever point of a stop, of
\* a write or of a start the process dies, and however often: read_buffer,
\* _write_outputs and unlink come in an order that leaves no gap.
THEOREM AcknowledgedSurvives == Spec /\ []NoOverlap => []AcknowledgedIsKept
BY SoloHolds, SoloKeeps, PTL

\* A completed capture is listed once, with three files that say the same.
THEOREM CompletedIsWhole == Spec /\ []NoOverlap => []HistoryIsWhole
<1>1. Solo => HistoryIsWhole
  BY DEF Solo
<1> QED BY <1>1, SoloHolds, PTL

\* Neither a failing stop nor anything that runs beside it lets go of the active
\* capture: it leaves only for the history, or with the process.
THEOREM ActiveIsNotForgotten == Spec /\ []NoOverlap => NoCaptureForgotten
<1> DEFINE Forgets == active # NoCapture /\ active' # active /\ up'
<1>1. Solo /\ [Next]_vars
        => [Forgets => history' # history /\ history'[Len(history')].name = active]_vars
  <2> SUFFICES ASSUME Solo, Next, Forgets
               PROVE  history' # history /\ history'[Len(history')].name = active
    OBVIOUS
  <2>1. PICK s \in Stoppers : StopFinish(s)
    BY DEF Next, StartCapture, StartFails, Recording, RecordEntry, BufferWork, AppendReturns,
           AppendRaises, StopCall, StopRaises, StopBegin, StopCloseFails, StopReadFails,
           StopAnalysisFails, StopWork, TruncateOutput, FillOutput, StopBreaks, WriteFails,
           UnlinkFails, Crash, Kill, Restart, managerVars
  <2>2. stop[s].cap = active /\ stop[s] \in Busy
        /\ history \in Seq([name : Names, entries : Seq(Requests)])
    BY <2>1, FrameFacts DEF StopFinish, Solo, Shared, TypeOK
  <2>3. history' = Append(history, [name |-> active, entries |-> stop[s].entries])
    BY <2>1, <2>2 DEF StopFinish
  <2>4. Len(history') = Len(history) + 1 /\ history'[Len(history')].name = active
    BY <2>2, <2>3 DEF Busy
  <2> QED BY <2>2, <2>4
<1> QED BY <1>1, SoloHolds, PTL DEF Spec, NoCaptureForgotten

---------------------------------------------------------------------------
(* The store: what the manager refines, and what it has settled for good   *)

\* Between a crash and the restart nothing is active.
DeadIsIdle == ~up => active = NoCapture

Stored == Solo /\ DeadIsIdle

\* The daemon is up at first.
LEMMA StoredInit == Init => Stored
BY SoloInit DEF Stored, Init, DeadIsIdle

\* Only a running daemon makes a capture active.
LEMMA StoredStep ==
  ASSUME NoOverlap, NoOverlap'
  PROVE  Stored /\ [Next]_vars => Stored'
<1> SUFFICES ASSUME Stored, [Next]_vars PROVE DeadIsIdle'
  BY SoloStep DEF Stored
<1>1. CASE \/ \E n \in Names : StartCapture(n) \/ StartFails(n)
           \/ \E s \in Stoppers : StopCall(s)
           \/ \E r \in Requests : RecordEntry(r)
  BY <1>1 DEF StartCapture, StartFails, StopCall, StopRaises, StopBegin, StopCloseFails,
              StopReadFails, StopAnalysisFails, RecordEntry, DeadIsIdle
<1>2. CASE \/ \E r \in Requests : BufferWork(r) \/ AppendReturns(r) \/ AppendRaises(r)
           \/ \E s \in Stoppers : TruncateOutput(s) \/ FillOutput(s) \/ StopBreaks(s)
  BY <1>2 DEF BufferWork, AppendReturns, AppendRaises, TruncateOutput, FillOutput, StopBreaks,
              WriteFails, UnlinkFails, managerVars, Stored, DeadIsIdle
<1>3. CASE \/ \E s \in Stoppers : StopFinish(s)
           \/ Crash \/ Restart
  BY <1>3 DEF StopFinish, Crash, Kill, Restart, DeadIsIdle
<1>4. CASE UNCHANGED vars
  BY <1>4 DEF vars, managerVars, Stored, DeadIsIdle
<1> QED BY <1>1, <1>2, <1>3, <1>4 DEF Next, Recording, StopWork

\* The invariant the refinement rests on.
LEMMA StoredHolds == Spec /\ []NoOverlap => []Stored
BY StoredInit, StoredStep, PTL DEF Spec

---------------------------------------------------------------------------
(* Steps that leave the manager's _active and the directories alone        *)

\* Recording, and a stop up to its await, only let the active capture's file grow.
LEMMA FilesOnlyGrow ==
  ASSUME Stored,
         \/ \E r \in Requests : Recording(r)
         \/ \E s \in Stoppers : StopCall(s)
  PROVE  /\ UNCHANGED <<up, active, onDisk, dirs, out>>
         /\ \A n \in Names \ {active} : file'[n] = file[n]
         /\ active \in Names => Range(file[active]) \subseteq Range(file'[active])
<1> USE DEF Stored, Solo
<1>0. TypeOK /\ BufferOfActive
  BY DEF Shared
<1>1. ASSUME NEW r \in Requests, BufferWork(r) /\ FlushLines(r)
      PROVE  /\ \A n \in Names \ {active} : file'[n] = file[n]
             /\ active \in Names => Range(file[active]) \subseteq Range(file'[active])
  <2>1. into[r] \in open /\ into[r] = active /\ active \in Names
    BY <1>0, <1>1 DEF FlushLines, OnlyActiveIsOpen, TypeOK, BufferTypeOK
  <2>2. file' = [file EXCEPT ![active] = file[active] \o pending[active]]
    BY <1>1, <2>1 DEF FlushLines
  <2>3. Range(file[active] \o pending[active]) = Range(file[active]) \cup Range(pending[active])
    BY <1>0, <2>1, RangeOfConcat DEF TypeOK, BufferTypeOK
  <2> QED BY <1>0, <2>1, <2>2, <2>3 DEF TypeOK, BufferTypeOK
<1>2. ASSUME NEW r \in Requests, Recording(r), ~(BufferWork(r) /\ FlushLines(r))
      PROVE  file' = file
  BY <1>2 DEF Recording, RecordEntry, BufferWork, AppendReturns, AppendRaises, Worker,
              WriteLine, WriteLineFails, FlushOrSyncFails, BeginSync, EndSync, SyncOnClosed,
              UseClosedFile, bufferVars
<1>3. ASSUME NEW r \in Requests, Recording(r)
      PROVE  UNCHANGED <<up, active, onDisk, dirs, out>>
  BY <1>3 DEF Recording, RecordEntry, BufferWork, AppendReturns, AppendRaises, Worker,
              WriteLine, WriteLineFails, FlushLines, FlushOrSyncFails, BeginSync, EndSync,
              SyncOnClosed, UseClosedFile, bufferVars, managerVars, outputVars
<1>4. ASSUME NEW s \in Stoppers, StopCall(s)
      PROVE  /\ UNCHANGED <<up, active, onDisk, dirs, out>>
             /\ \A n \in Names \ {active} : file'[n] = file[n]
             /\ active \in Names => Range(file[active]) \subseteq Range(file'[active])
  <2>1. UNCHANGED <<up, active, onDisk, dirs, out>>
    BY <1>4 DEF StopCall, StopRaises, StopBegin, StopCloseFails, StopReadFails,
                StopAnalysisFails, CloseBuffer, CloseBufferFails, managerVars, outputVars
  <2>2. active \in Names /\ buffer = active
    BY <1>0, <1>4 DEF StopCall, StopRaises, StopBegin, StopCloseFails, StopReadFails,
                      StopAnalysisFails, BufferOfActive, TypeOK
  <2>3. Range(file[active] \o pending[active]) = Range(file[active]) \cup Range(pending[active])
    BY <1>0, <2>2, RangeOfConcat DEF TypeOK, BufferTypeOK
  <2>4. file' = file \/ file' = [file EXCEPT ![active] = file[active] \o pending[active]]
    BY <1>4, <2>2 DEF StopCall, StopRaises, StopBegin, StopCloseFails, StopReadFails,
                      StopAnalysisFails, CloseBuffer, CloseBufferFails
  <2> QED BY <1>0, <2>1, <2>2, <2>3, <2>4 DEF TypeOK, BufferTypeOK
<1> QED BY <1>1, <1>2, <1>3, <1>4 DEF Recording

\* Writing the outputs, done or failed, changes only those of the active capture.
LEMMA OutputsOnlyOfActive ==
  ASSUME Stored, NEW s \in Stoppers, TruncateOutput(s) \/ FillOutput(s) \/ StopBreaks(s)
  PROVE  /\ UNCHANGED <<up, active, onDisk, dirs, file>>
         /\ active \in onDisk
         /\ \A n \in Names \ {active} : out'[n] = out[n]
<1>1. stop[s].cap = active /\ active \in Names /\ active \in onDisk /\ TypeOK
  BY FrameFacts DEF TruncateOutput, FillOutput, StopBreaks, WriteFails, UnlinkFails, Stored,
                    Solo, Shared
<1> QED BY <1>1 DEF TruncateOutput, FillOutput, StopBreaks, WriteFails, UnlinkFails, TypeOK,
                    bufferVars, managerVars, outputVars

---------------------------------------------------------------------------
(* Refinement                                                              *)

\* No capture has been started: all names are unused and keep nothing.
LEMMA StoreInitial == Init => Store!StoreInit
<1> SUFFICES ASSUME Init PROVE Store!StoreInit
  OBVIOUS
<1>1. \A n \in Names : StorePhase(n) = "unused" /\ StoreKept(n) = {}
  BY DEF Init, BufferInit, StorePhase, StoreKept, Absent, Range, Outputs
<1> QED BY <1>1 DEF Init, Store!StoreInit

\* A process that dies spoils the recording log and changes no other.
LEMMA KillIsDie ==
  ASSUME Stored, up, Kill
  PROVE  Store!Die
<1> DEFINE P == [n \in Names |-> StorePhase(n)]
           K == [n \in Names |-> StoreKept(n)]
<1>0. TypeOK /\ BufferOfActive
  BY DEF Stored, Solo, Shared
<1>1. ~up' /\ active' = NoCapture /\ UNCHANGED <<file, out, onDisk, dirs>>
  BY DEF Kill, outputVars
<1>2. \A n \in Names : StoreKept(n)' = StoreKept(n)
  BY <1>1 DEF StoreKept
<1>3. \A n \in Names : StorePhase(n)' = IF StorePhase(n) = "recording" THEN "spoiled"
                                       ELSE StorePhase(n)
  BY NoCaptureAssumption, <1>0, <1>1 DEF StorePhase, BufferOfActive
<1>4. P' = [n \in Names |-> IF P[n] = "recording" THEN "spoiled" ELSE P[n]] /\ K' = K
  BY <1>2, <1>3
<1> QED BY <1>0, <1>1, <1>4 DEF Store!Die, TypeOK

\* Start, failing start, growth of the active file, the end of a stop, a crash and
\* the restart are the six steps of the store; all others change nothing in it.
LEMMA StoreStep ==
  ASSUME Stored, Stored', [Next]_vars
  PROVE  [Store!StoreNext]_(Store!storeVars)
<1> USE NoCaptureAssumption DEF Stored, Solo
<1> DEFINE P == [n \in Names |-> StorePhase(n)]
           K == [n \in Names |-> StoreKept(n)]
<1>0. TypeOK /\ BufferOfActive /\ FreshNames
  BY DEF Shared
<1>1. ASSUME NEW n \in Names, StartCapture(n) PROVE Store!Begin(n)
  <2>1. /\ up /\ up' = up /\ active = NoCapture /\ n \notin dirs /\ dirs' = dirs \cup {n}
        /\ active' = n /\ onDisk' = onDisk \cup {n} /\ UNCHANGED <<file, out>>
    BY <1>1 DEF StartCapture, OpenBuffer
  <2>2. /\ file[n] = <<>> /\ out[n][1].entries = <<>> /\ n \notin onDisk
    BY <1>0, <2>1 DEF FreshNames, Absent, Outputs
  <2>3. \A m \in Names \ {n} : StorePhase(m)' = StorePhase(m)
    BY <2>1 DEF StorePhase
  <2>4. \A m \in Names : StoreKept(m)' = StoreKept(m)
    BY <2>1, <2>2 DEF StoreKept
  <2>5. StorePhase(n) = "unused" /\ StorePhase(n)' = "recording"
    BY <2>1 DEF StorePhase
  <2>6. \A m \in Names : P[m] # "recording"
    BY <2>1 DEF StorePhase
  <2>7. P' = [P EXCEPT ![n] = "recording"] /\ K' = K
    BY <2>3, <2>4, <2>5
  <2> QED BY <2>1, <2>5, <2>6, <2>7 DEF Store!Begin
<1>2. ASSUME NEW n \in Names, StartFails(n) PROVE Store!Spoil(n)
  <2>1. /\ up /\ up' = up /\ active = NoCapture /\ n \notin dirs /\ dirs' = dirs \cup {n}
        /\ UNCHANGED <<active, onDisk, file, out>>
    BY <1>2 DEF StartFails, bufferVars, managerVars
  <2>2. /\ out[n][1] = Absent /\ n \notin onDisk
    BY <1>0, <2>1 DEF FreshNames, Outputs
  <2>3. \A m \in Names \ {n} : StorePhase(m)' = StorePhase(m)
    BY <2>1 DEF StorePhase
  <2>4. \A m \in Names : StoreKept(m)' = StoreKept(m)
    BY <2>1 DEF StoreKept
  <2>5. StorePhase(n) = "unused" /\ StorePhase(n)' = "spoiled"
    BY <2>1, <2>2 DEF StorePhase, Absent
  <2>6. P' = [P EXCEPT ![n] = "spoiled"] /\ K' = K
    BY <2>3, <2>4, <2>5
  <2> QED BY <2>1, <2>5, <2>6 DEF Store!Spoil
<1>3. ASSUME \/ \E r \in Requests : Recording(r)
             \/ \E s \in Stoppers : StopCall(s)
      PROVE  \/ UNCHANGED Store!storeVars
             \/ \E n \in Names, pairs \in SUBSET Requests : Store!Keep(n, pairs)
  <2>1. /\ UNCHANGED <<up, active, onDisk, dirs, out>>
        /\ \A n \in Names \ {active} : file'[n] = file[n]
        /\ active \in Names => Range(file[active]) \subseteq Range(file'[active])
    BY <1>3, FilesOnlyGrow
  <2>2. P' = P /\ \A n \in Names \ {active} : StoreKept(n)' = StoreKept(n)
    BY <2>1 DEF StorePhase, StoreKept
  <2>3. CASE active = NoCapture
    BY <2>1, <2>2, <2>3 DEF Store!storeVars
  <2>4. CASE active # NoCapture
    <3>1. active \in Names /\ active \in dirs /\ active \in onDisk /\ up
      BY <1>0, <2>4 DEF TypeOK, BufferOfActive, DeadIsIdle
    <3>2. StoreKept(active) = Range(file[active]) /\ StoreKept(active)' = Range(file'[active])
      BY <2>1, <3>1 DEF StoreKept
    <3>3. Range(file'[active]) \subseteq Requests
      BY <3>1 DEF Shared, TypeOK, BufferTypeOK, Range
    <3>4. K' = [K EXCEPT ![active] = @ \cup Range(file'[active])]
      BY <2>1, <2>2, <3>1, <3>2
    <3>5. P[active] = "recording"
      BY <3>1 DEF StorePhase
    <3>6. Store!Keep(active, Range(file'[active]))
      BY <2>1, <2>2, <3>1, <3>4, <3>5 DEF Store!Keep
    <3> QED BY <3>1, <3>3, <3>6
  <2> QED BY <2>3, <2>4
<1>4. ASSUME NEW s \in Stoppers, TruncateOutput(s) \/ FillOutput(s) \/ StopBreaks(s)
      PROVE  UNCHANGED Store!storeVars
  <2>1. /\ UNCHANGED <<up, active, onDisk, dirs, file>> /\ active \in onDisk
        /\ \A n \in Names \ {active} : out'[n] = out[n]
    BY <1>4, OutputsOnlyOfActive
  <2>2. \A n \in Names : StorePhase(n)' = StorePhase(n) /\ StoreKept(n)' = StoreKept(n)
    BY <2>1 DEF StorePhase, StoreKept
  <2> QED BY <2>1, <2>2 DEF Store!storeVars
<1>5. ASSUME NEW s \in Stoppers, StopFinish(s) PROVE active \in Names /\ Store!Seal(active)
  <2>1. /\ stop[s].cap = active /\ active \in Names /\ active \in onDisk /\ active \in dirs
        /\ stop[s].entries = file[active]
        /\ stop[s] # Idle
    BY <1>5, FrameFacts DEF StopFinish
  <2>2. /\ UNCHANGED <<up, dirs, file, out>> /\ onDisk' = onDisk \ {active}
        /\ active' = NoCapture
    BY <1>5, <2>1 DEF StopFinish, outputVars
  <2>3. out[active][1] = Whole(file[active])
    BY <1>5, <2>1 DEF StopFinish, FrameIsOfActive, Outputs
  <2>5. P[active] = "recording" /\ P'[active] = "sealed"
    BY <2>1, <2>2, <2>3 DEF StorePhase, Whole
  <2>6. \A m \in Names \ {active} : P'[m] = P[m]
    BY <2>1, <2>2 DEF StorePhase
  <2>7. \A m \in Names : K'[m] = K[m]
    BY <2>1, <2>2, <2>3 DEF StoreKept, Whole
  <2>8. P' = [P EXCEPT ![active] = "sealed"] /\ K' = K
    BY <2>5, <2>6, <2>7
  <2>9. up
    BY <2>1 DEF DeadIsIdle
  <2> QED BY <2>1, <2>2, <2>5, <2>8, <2>9 DEF Store!Seal
<1>6. ASSUME Crash PROVE Store!Die
  BY <1>6, KillIsDie DEF Crash
<1>7. ASSUME Restart PROVE Store!Return
  <2>1. P' = P /\ K' = K
    BY <1>7 DEF Restart, bufferVars, managerVars, outputVars, StorePhase, StoreKept
  <2> QED BY <1>7, <2>1 DEF Restart, Store!Return
<1>8. CASE \/ \E n \in Names : StartCapture(n) \/ StartFails(n)
           \/ Crash \/ Restart
  BY <1>1, <1>2, <1>6, <1>7, <1>8 DEF Store!StoreNext
<1>9. CASE \/ \E r \in Requests : Recording(r)
           \/ \E s \in Stoppers : StopCall(s)
  BY <1>3, <1>9 DEF Store!StoreNext
<1>10. CASE \E s \in Stoppers : StopWork(s)
  BY <1>4, <1>5, <1>10 DEF StopWork, Store!StoreNext
<1>11. CASE UNCHANGED vars
  <2>1. P' = P /\ K' = K
    BY <1>11 DEF vars, bufferVars, managerVars, outputVars, StorePhase, StoreKept
  <2> QED BY <1>11, <2>1 DEF vars, Store!storeVars
<1> QED BY <1>8, <1>9, <1>10, <1>11 DEF Next

\* Every behaviour of the threads, the event loop, failures and crashes is one of a
\* store in which no log shrinks, none grows but the recording one's, and sealing
\* changes none.
THEOREM RefinesStore == Spec /\ []NoOverlap => ImplementsStore
<1>1. Stored /\ Stored' /\ [Next]_vars => [Store!StoreNext]_(Store!storeVars)
  BY StoreStep
<1> QED BY <1>1, StoreInitial, StoredHolds, PTL DEF Spec, ImplementsStore, Store!StoreSpec

\* A capture that is neither active nor being stopped keeps its files: no worker
\* that is late, no later capture and no daemon after a crash writes to them.
THEOREM SettledStaysFrozen == Spec /\ []NoOverlap => SettledIsFrozen
<1> DEFINE Frozen(n) == /\ file'[n] = file[n] /\ out'[n] = out[n]
                        /\ n \in onDisk' <=> n \in onDisk
<1>1. ASSUME Stored, [Next]_vars, NEW n \in dirs, n # active, ~Stopping(n)
      PROVE  Frozen(n)
  <2>0. n \in Names
    BY <1>1 DEF Stored, Solo, Shared, TypeOK
  <2>1. CASE \E m \in Names : StartCapture(m) \/ StartFails(m)
    BY <1>1, <2>1 DEF StartCapture, StartFails, OpenBuffer, bufferVars
  <2>2. CASE \/ \E r \in Requests : Recording(r)
             \/ \E s \in Stoppers : StopCall(s)
    BY <1>1, <2>0, <2>2, FilesOnlyGrow
  <2>3. CASE \E s \in Stoppers : TruncateOutput(s) \/ FillOutput(s) \/ StopBreaks(s)
    BY <1>1, <2>0, <2>3, OutputsOnlyOfActive
  <2>4. CASE \E s \in Stoppers : StopFinish(s)
    BY <1>1, <2>4 DEF StopFinish, outputVars, Stopping
  <2>5. CASE Crash \/ Restart
    BY <2>5 DEF Crash, Kill, Restart, bufferVars, outputVars
  <2>6. CASE UNCHANGED vars
    BY <2>6 DEF vars, bufferVars, outputVars
  <2> QED BY <1>1, <2>1, <2>2, <2>3, <2>4, <2>5, <2>6 DEF Next, StopWork
<1>2. Stored /\ [Next]_vars
        => [\A n \in dirs : n # active /\ ~Stopping(n) => Frozen(n)]_vars
  BY <1>1
<1> QED BY <1>2, StoredHolds, PTL DEF Spec, SettledIsFrozen
=============================================================================
