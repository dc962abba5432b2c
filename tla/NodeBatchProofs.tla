-------------------------- MODULE NodeBatchProofs --------------------------
(***************************************************************************)
(* Safety of NodeBatch for every number of streams, attempts, chunks and   *)
(* faults, from one inductive invariant: while an attempt is beyond the    *)
(* rates, what the products table holds is exactly what this attempt       *)
(* inserted.                                                               *)
(***************************************************************************)
EXTENDS NodeBatch, TLAPS

(* Before the upload there is nothing, and before the job is added there   *)
(* is no job.                                                              *)
Fresh ==
    /\ req = "none" => /\ status = "none" /\ processed = 0
                       /\ ~rates /\ ~gaveUp
    /\ req \in {"none", "queue"} => job = "none"

(* The handler runs only for an active job, which has attempts left.       *)
JobInHand ==
    /\ pc # "idle" => job = "active"
    /\ job \notin {"completed", "failed"} => attempts < Attempts

(* What the table holds when exactly n chunks were inserted.               *)
Holds(n) == \A c \in 1..MaxChunks : stored[c] = IF c <= n THEN 1 ELSE 0

AttemptIsFirst ==
    /\ ~rates => Holds(0)
    /\ pc \in {"parse", "total"} => Holds(0)
    /\ pc = "save" => i < chunks /\ Holds(i)
    /\ pc \in {"count", "report"} => i < chunks /\ Holds(i + 1)
    /\ pc = "complete" => i = chunks /\ Holds(chunks)
    /\ pc \in {"idle", "start", "rates", "parse", "total"} => i = 0

Beyond == {"parse", "total", "save", "count", "report", "complete"}

RowFollows ==
    /\ pc \in Beyond \union {"finish"} => rates
    /\ pc \in Beyond \union {"rates"} => status # "completed"

GivenUp ==
    /\ pc = "failing" => status = "failed"
    /\ gaveUp => /\ file = "deleted"
                 /\ pc \notin (Beyond \ {"parse"}) \union {"finish"}

Control == TypeOK /\ Fresh /\ JobInHand
Tables == AttemptIsFirst /\ RowFollows /\ ChunksStoredOnce /\ RowMatchesTables
Finality == GivenUp /\ FailedNeverCompletes

IInv == Control /\ Tables /\ Finality

----------------------------------------------------------------------------
(* Every step keeps the types and the control: who may run, with how many  *)
(* attempts left.                                                          *)
LEMMA ControlStep ==
    ASSUME Control, Tables, [Next]_vars
    PROVE  Control'
<1> USE ConstantsAssumption
<1> USE DEF Control, Tables, TypeOK, Fresh, JobInHand, AttemptIsFirst, Open,
        Calling, Statuses, MaxStalls, vars, rowVars, dataVars, fileVars,
        jobVars, streamVars, faultVars
<1>1. CASE RequestStep
  <2>1. CASE Upload
    BY <2>1 DEF Upload
  <2>2. CASE Enqueue
    BY <2>2 DEF Enqueue, Reply, LostReply, Fault
  <2>3. CASE EnqueueFails
    BY <2>3 DEF EnqueueFails, FailedCall, Fault
  <2>4. CASE MarkUnqueued
    BY <2>4 DEF MarkUnqueued
  <2>5. CASE MarkUnqueuedFails
    BY <2>5 DEF MarkUnqueuedFails, FailedCall, Fault
  <2> QED
    BY <1>1, <2>1, <2>2, <2>3, <2>4, <2>5 DEF RequestStep
<1>2. ASSUME NEW s \in Streams,
               Subscribe(s) \/ ReadRow(s) \/ ReadFails(s) \/ SendInitial(s)
               \/ Disconnect(s)
      PROVE  Control'
  <2>1. CASE Subscribe(s)
    BY <2>1 DEF Subscribe
  <2>2. CASE ReadRow(s)
    BY <2>2 DEF ReadRow
  <2>3. CASE ReadFails(s)
    BY <2>3 DEF ReadFails, FailedCall, Fault, CloseStream
  <2>4. CASE SendInitial(s)
    BY <2>4 DEF SendInitial, Sent, CloseStream, Done
  <2>5. CASE Disconnect(s)
    BY <2>5 DEF Disconnect, CloseStream
  <2> QED
    BY <1>2, <2>1, <2>2, <2>3, <2>4, <2>5
<1>3. CASE HandlerStep
  <2>1. CASE SetProcessing
    BY <2>1 DEF SetProcessing, Reply, LostReply, Fault
  <2>2. CASE SaveRates
    BY <2>2 DEF SaveRates, Reply, LostReply, Fault
  <2>3. CASE RatesCollide
    BY <2>3 DEF RatesCollide
  <2>4. CASE ParseCSV
    BY <2>4 DEF ParseCSV
  <2>5. CASE ParseMissingFile
    BY <2>5 DEF ParseMissingFile, Die
  <2>6. CASE Announce
    BY <2>6 DEF Announce, Emit, Sent, CloseStream, Done, NextChunk
  <2>7. CASE SaveChunk
    BY <2>7 DEF SaveChunk, Reply, LostReply, Fault
  <2>8. CASE CountChunk
    BY <2>8 DEF CountChunk, Reply, LostReply, Fault
  <2>9. CASE ReportChunk
    BY <2>9 DEF ReportChunk, Emit, Sent, CloseStream, Done, NextChunk,
        Reply, LostReply, Fault
  <2>10. CASE SetCompleted
    BY <2>10 DEF SetCompleted, Reply, LostReply, Fault
  <2>11. CASE Finish
    BY <2>11 DEF Finish, Emit, Sent, CloseStream, Done, Cleanup,
        FailedCall, Fault
  <2>12. CASE SetFailed
    BY <2>12 DEF SetFailed, Reply, LostReply, Fault
  <2>13. CASE Failing
    BY <2>13 DEF Failing, Emit, Sent, CloseStream, Done, Cleanup,
        FailedCall, Fault
  <2> QED
    BY <1>3, <2>1, <2>2, <2>3, <2>4, <2>5, <2>6, <2>7, <2>8, <2>9, <2>10,
        <2>11, <2>12, <2>13 DEF HandlerStep
<1>4. CASE QueueStep
  <2>1. CASE Take
    BY <2>1 DEF Take
  <2>2. CASE Acknowledge
    BY <2>2 DEF Acknowledge
  <2>3. CASE Rethrow
    BY <2>3 DEF Rethrow
  <2>4. CASE StalledCheck
    BY <2>4 DEF StalledCheck
  <2> QED
    BY <1>4, <2>1, <2>2, <2>3, <2>4 DEF QueueStep
<1>5. CASE FaultStep
  <2>1. CASE CallFails
    BY <2>1 DEF CallFails, Emit, Sent, CloseStream, Done, FailedCall, Fault
  <2>2. CASE SetFailedFails
    BY <2>2 DEF SetFailedFails, FailedCall, Fault
  <2>3. CASE SettleFails
    BY <2>3 DEF SettleFails, FailedCall, Fault
  <2>4. CASE Crash
    <3>1. faults' \in 0..MaxFaults /\ lost' \in 0..faults'
      BY <2>4 DEF Crash, FailedCall, Fault
    <3>2. /\ emitter' \in Open' \union {NoStream}
          /\ stream' \in [Streams -> {"closed", "reading", "read", "live"}]
      BY <2>4 DEF Crash, Die
    <3>3. req' \in {"none", "queue", "undo", "answered"} /\ Fresh'
      BY <2>4 DEF Crash, Die
    <3>4. /\ JobInHand'
          /\ job' \in {"none", "waiting", "active", "stalled", "completed",
                       "failed"}
      BY <2>4 DEF Crash, Die
    <3>5. /\ up' \in BOOLEAN /\ pc' = "idle" /\ i' = 0
          /\ UNCHANGED <<rowVars, dataVars, fileVars, attempts, stalls, snap>>
      BY <2>4 DEF Crash, Die
    <3>6. i' \in 0..chunks'
      BY <3>5
    <3> QED
      BY <3>1, <3>2, <3>3, <3>4, <3>5, <3>6
  <2> QED
    BY <1>5, <2>1, <2>2, <2>3, <2>4 DEF FaultStep
<1>6. CASE Restart
  BY <1>6 DEF Restart
<1>7. CASE UNCHANGED vars
  BY <1>7
<1> QED
  BY <1>1, <1>2, <1>3, <1>4, <1>5, <1>6, <1>7 DEF Next, StreamStep

(* Every step keeps what the tables hold and what the row says of them.    *)
LEMMA TablesStep ==
    ASSUME Control, Tables, [Next]_vars
    PROVE  Tables'
<1> USE ConstantsAssumption
<1> USE DEF Control, Tables, TypeOK, Fresh, JobInHand, AttemptIsFirst, Holds,
        RowFollows, ChunksStoredOnce, RowMatchesTables, Beyond, Calling, vars,
        rowVars, dataVars, fileVars, jobVars, streamVars, faultVars
<1>1. CASE RequestStep
  <2>1. CASE Upload
    BY <2>1 DEF Upload
  <2>2. CASE Enqueue
    BY <2>2 DEF Enqueue, Reply, LostReply, Fault
  <2>3. CASE EnqueueFails
    BY <2>3 DEF EnqueueFails, FailedCall, Fault
  <2>4. CASE MarkUnqueued
    BY <2>4 DEF MarkUnqueued
  <2>5. CASE MarkUnqueuedFails
    BY <2>5 DEF MarkUnqueuedFails, FailedCall, Fault
  <2> QED
    BY <1>1, <2>1, <2>2, <2>3, <2>4, <2>5 DEF RequestStep
<1>2. ASSUME NEW s \in Streams,
               Subscribe(s) \/ ReadRow(s) \/ ReadFails(s) \/ SendInitial(s)
               \/ Disconnect(s)
      PROVE  Tables'
  <2>1. CASE Subscribe(s)
    BY <2>1 DEF Subscribe
  <2>2. CASE ReadRow(s)
    BY <2>2 DEF ReadRow
  <2>3. CASE ReadFails(s)
    BY <2>3 DEF ReadFails, FailedCall, Fault, CloseStream
  <2>4. CASE SendInitial(s)
    BY <2>4 DEF SendInitial, Sent, CloseStream, Done
  <2>5. CASE Disconnect(s)
    BY <2>5 DEF Disconnect, CloseStream
  <2> QED
    BY <1>2, <2>1, <2>2, <2>3, <2>4, <2>5
<1>3. CASE HandlerStep
  <2>1. CASE SetProcessing
    BY <2>1 DEF SetProcessing, Reply, LostReply, Fault
  <2>2. CASE SaveRates
    BY <2>2 DEF SaveRates, Reply, LostReply, Fault
  <2>3. CASE RatesCollide
    BY <2>3 DEF RatesCollide
  <2>4. CASE ParseCSV
    BY <2>4 DEF ParseCSV
  <2>5. CASE ParseMissingFile
    BY <2>5 DEF ParseMissingFile, Die
  <2>6. CASE Announce
    BY <2>6 DEF Announce, Emit, Sent, CloseStream, Done, NextChunk
  <2>7. CASE SaveChunk
    BY <2>7 DEF SaveChunk, Reply, LostReply, Fault
  <2>8. CASE CountChunk
    BY <2>8 DEF CountChunk, Reply, LostReply, Fault
  <2>9. CASE ReportChunk
    BY <2>9 DEF ReportChunk, Emit, Sent, CloseStream, Done, NextChunk,
        Reply, LostReply, Fault
  <2>10. CASE SetCompleted
    BY <2>10 DEF SetCompleted, Reply, LostReply, Fault
  <2>11. CASE Finish
    BY <2>11 DEF Finish, Emit, Sent, CloseStream, Done, Cleanup,
        FailedCall, Fault
  <2>12. CASE SetFailed
    BY <2>12 DEF SetFailed, Reply, LostReply, Fault
  <2>13. CASE Failing
    BY <2>13 DEF Failing, Emit, Sent, CloseStream, Done, Cleanup,
        FailedCall, Fault
  <2> QED
    BY <1>3, <2>1, <2>2, <2>3, <2>4, <2>5, <2>6, <2>7, <2>8, <2>9, <2>10,
        <2>11, <2>12, <2>13 DEF HandlerStep
<1>4. CASE QueueStep
  <2>1. CASE Take
    BY <2>1 DEF Take
  <2>2. CASE Acknowledge
    BY <2>2 DEF Acknowledge
  <2>3. CASE Rethrow
    BY <2>3 DEF Rethrow
  <2>4. CASE StalledCheck
    BY <2>4 DEF StalledCheck
  <2> QED
    BY <1>4, <2>1, <2>2, <2>3, <2>4 DEF QueueStep
<1>5. CASE FaultStep
  <2>1. CASE CallFails
    BY <2>1 DEF CallFails, Emit, Sent, CloseStream, Done, FailedCall, Fault
  <2>2. CASE SetFailedFails
    BY <2>2 DEF SetFailedFails, FailedCall, Fault
  <2>3. CASE SettleFails
    BY <2>3 DEF SettleFails, FailedCall, Fault
  <2>4. CASE Crash
    BY <2>4 DEF Crash, Die, FailedCall, Fault
  <2> QED
    BY <1>5, <2>1, <2>2, <2>3, <2>4 DEF FaultStep
<1>6. CASE Restart
  BY <1>6 DEF Restart
<1>7. CASE UNCHANGED vars
  BY <1>7
<1> QED
  BY <1>1, <1>2, <1>3, <1>4, <1>5, <1>6, <1>7 DEF Next, StreamStep

(* Every step keeps a recorded failure final.                              *)
LEMMA GivenUpStep ==
    ASSUME Control, Finality, [Next]_vars
    PROVE  Finality'
<1> USE ConstantsAssumption
<1> USE DEF Control, Finality, TypeOK, Fresh, JobInHand, GivenUp,
        FailedNeverCompletes, Beyond, Calling, vars, rowVars, dataVars,
        fileVars, jobVars, streamVars, faultVars
<1>1. CASE RequestStep
  <2>1. CASE Upload
    BY <2>1 DEF Upload
  <2>2. CASE Enqueue
    BY <2>2 DEF Enqueue, Reply, LostReply, Fault
  <2>3. CASE EnqueueFails
    BY <2>3 DEF EnqueueFails, FailedCall, Fault
  <2>4. CASE MarkUnqueued
    BY <2>4 DEF MarkUnqueued
  <2>5. CASE MarkUnqueuedFails
    BY <2>5 DEF MarkUnqueuedFails, FailedCall, Fault
  <2> QED
    BY <1>1, <2>1, <2>2, <2>3, <2>4, <2>5 DEF RequestStep
<1>2. ASSUME NEW s \in Streams,
               Subscribe(s) \/ ReadRow(s) \/ ReadFails(s) \/ SendInitial(s)
               \/ Disconnect(s)
      PROVE  Finality'
  <2>1. CASE Subscribe(s)
    BY <2>1 DEF Subscribe
  <2>2. CASE ReadRow(s)
    BY <2>2 DEF ReadRow
  <2>3. CASE ReadFails(s)
    BY <2>3 DEF ReadFails, FailedCall, Fault, CloseStream
  <2>4. CASE SendInitial(s)
    BY <2>4 DEF SendInitial, Sent, CloseStream, Done
  <2>5. CASE Disconnect(s)
    BY <2>5 DEF Disconnect, CloseStream
  <2> QED
    BY <1>2, <2>1, <2>2, <2>3, <2>4, <2>5
<1>3. CASE HandlerStep
  <2>1. CASE SetProcessing
    BY <2>1 DEF SetProcessing, Reply, LostReply, Fault
  <2>2. CASE SaveRates
    BY <2>2 DEF SaveRates, Reply, LostReply, Fault
  <2>3. CASE RatesCollide
    BY <2>3 DEF RatesCollide
  <2>4. CASE ParseCSV
    BY <2>4 DEF ParseCSV
  <2>5. CASE ParseMissingFile
    BY <2>5 DEF ParseMissingFile, Die
  <2>6. CASE Announce
    BY <2>6 DEF Announce, Emit, Sent, CloseStream, Done, NextChunk
  <2>7. CASE SaveChunk
    BY <2>7 DEF SaveChunk, Reply, LostReply, Fault
  <2>8. CASE CountChunk
    BY <2>8 DEF CountChunk, Reply, LostReply, Fault
  <2>9. CASE ReportChunk
    BY <2>9 DEF ReportChunk, Emit, Sent, CloseStream, Done, NextChunk,
        Reply, LostReply, Fault
  <2>10. CASE SetCompleted
    BY <2>10 DEF SetCompleted, Reply, LostReply, Fault
  <2>11. CASE Finish
    BY <2>11 DEF Finish, Emit, Sent, CloseStream, Done, Cleanup,
        FailedCall, Fault
  <2>12. CASE SetFailed
    BY <2>12 DEF SetFailed, Reply, LostReply, Fault
  <2>13. CASE Failing
    BY <2>13 DEF Failing, Emit, Sent, CloseStream, Done, Cleanup,
        FailedCall, Fault
  <2> QED
    BY <1>3, <2>1, <2>2, <2>3, <2>4, <2>5, <2>6, <2>7, <2>8, <2>9, <2>10,
        <2>11, <2>12, <2>13 DEF HandlerStep
<1>4. CASE QueueStep
  <2>1. CASE Take
    BY <2>1 DEF Take
  <2>2. CASE Acknowledge
    BY <2>2 DEF Acknowledge
  <2>3. CASE Rethrow
    BY <2>3 DEF Rethrow
  <2>4. CASE StalledCheck
    BY <2>4 DEF StalledCheck
  <2> QED
    BY <1>4, <2>1, <2>2, <2>3, <2>4 DEF QueueStep
<1>5. CASE FaultStep
  <2>1. CASE CallFails
    BY <2>1 DEF CallFails, Emit, Sent, CloseStream, Done, FailedCall, Fault
  <2>2. CASE SetFailedFails
    BY <2>2 DEF SetFailedFails, FailedCall, Fault
  <2>3. CASE SettleFails
    BY <2>3 DEF SettleFails, FailedCall, Fault
  <2>4. CASE Crash
    BY <2>4 DEF Crash, Die, FailedCall, Fault
  <2> QED
    BY <1>5, <2>1, <2>2, <2>3, <2>4 DEF FaultStep
<1>6. CASE Restart
  BY <1>6 DEF Restart
<1>7. CASE UNCHANGED vars
  BY <1>7
<1> QED
  BY <1>1, <1>2, <1>3, <1>4, <1>5, <1>6, <1>7 DEF Next, StreamStep

----------------------------------------------------------------------------

(* The parts of the invariant support one another; together they hold.      *)
THEOREM Inductive == Spec => []IInv
<1>1. Init => IInv
  <2> SUFFICES ASSUME Init PROVE IInv
    OBVIOUS
  <2>1. Control
    <3>1. TypeOK
      <4>1. /\ stored \in [1..MaxChunks -> Nat]
            /\ stream \in [Streams -> {"closed", "reading", "read", "live"}]
            /\ snap \in [Streams -> Statuses \union {"none"}]
        BY DEF Init
      <4>2. /\ chunks \in 0..MaxChunks /\ processed \in 0..chunks
            /\ i \in 0..chunks /\ attempts \in 0..Attempts
            /\ stalls \in 0..MaxStalls
            /\ faults \in 0..MaxFaults /\ lost \in 0..faults
        BY ConstantsAssumption DEF Init, MaxStalls
      <4> QED BY <4>1, <4>2 DEF Init, TypeOK
    <3>2. Fresh /\ JobInHand
      BY ConstantsAssumption DEF Init, Fresh, JobInHand
    <3> QED BY <3>1, <3>2 DEF Control
  <2>2. Tables
    BY ConstantsAssumption
    DEF Init, Tables, AttemptIsFirst, Holds, RowFollows, ChunksStoredOnce,
        RowMatchesTables, Beyond
  <2>3. Finality
    BY DEF Init, Finality, GivenUp, FailedNeverCompletes, Beyond
  <2> QED BY <2>1, <2>2, <2>3 DEF IInv
<1>2. IInv /\ [Next]_vars => IInv'
  BY ControlStep, TablesStep, GivenUpStep DEF IInv
<1> QED BY <1>1, <1>2, PTL DEF Spec

(* Every variable of the batch keeps its type.                             *)
THEOREM TypeCorrect == Spec => []TypeOK
<1>1. IInv => TypeOK
  BY DEF IInv, Control
<1> QED BY <1>1, Inductive, PTL

(* However often Bull runs the job again, and wherever an attempt stops,   *)
(* the insert of csv.processor.ts:70 stores a chunk once.                  *)
THEOREM StoredOnce == Spec => []ChunksStoredOnce
<1>1. IInv => ChunksStoredOnce
  BY DEF IInv, Tables
<1> QED BY <1>1, Inductive, PTL

(* The row's status and processedRows never promise more than the tables   *)
(* hold.                                                                   *)
THEOREM RowHonest == Spec => []RowMatchesTables
<1>1. IInv => RowMatchesTables
  BY DEF IInv, Tables
<1> QED BY <1>1, Inductive, PTL

(* The attempts that follow a recorded failure never complete the batch,   *)
(* whatever number of attempts the job is given (upload.service.ts:42).    *)
THEOREM RetriesInVain == Spec => []FailedNeverCompletes
<1>1. IInv => FailedNeverCompletes
  BY DEF IInv, Finality
<1> QED BY <1>1, Inductive, PTL
----------------------------------------------------------------------------
(* With one stream: its emitter is the batch's, and whoever waits for the  *)
(* end of a batch that has ended is about to be told, or the batch never   *)
(* got a job.                                                              *)
OneEntry == \A s \in Open : emitter = s

Unqueued ==
    /\ req = "queue" => status = "pending"
    /\ req = "undo" /\ lost = 0 => job = "none"

Waits(s) == stream[s] = "live" \/ (stream[s] = "read" /\ snap[s] \notin Done)

EndOwed ==
    lost = 0 /\ status \in Done =>
        \A s \in Streams :
            Waits(s) => pc \in {"finish", "failing"} \/ job = "none"

Watching == OneEntry /\ Unqueued /\ EndOwed

LEMMA WatchingStep ==
    ASSUME \A s, t \in Streams : s = t,
           Control, Watching, [Next]_vars
    PROVE  Watching'
<1> USE ConstantsAssumption
<1> USE DEF Control, Watching, TypeOK, Fresh, JobInHand, OneEntry, Unqueued,
        EndOwed, Waits, Open, Done, Calling, vars, rowVars, dataVars,
        fileVars, jobVars, streamVars, faultVars
<1>1. CASE RequestStep
  <2>1. CASE Upload
    BY <2>1 DEF Upload
  <2>2. CASE Enqueue
    BY <2>2 DEF Enqueue, Reply, LostReply, Fault
  <2>3. CASE EnqueueFails
    BY <2>3 DEF EnqueueFails, FailedCall, Fault
  <2>4. CASE MarkUnqueued
    BY <2>4 DEF MarkUnqueued
  <2>5. CASE MarkUnqueuedFails
    BY <2>5 DEF MarkUnqueuedFails, FailedCall, Fault
  <2> QED
    BY <1>1, <2>1, <2>2, <2>3, <2>4, <2>5 DEF RequestStep
<1>2. ASSUME NEW s \in Streams,
               Subscribe(s) \/ ReadRow(s) \/ ReadFails(s) \/ SendInitial(s)
               \/ Disconnect(s)
      PROVE  Watching'
  <2>1. CASE Subscribe(s)
    BY <2>1 DEF Subscribe
  <2>2. CASE ReadRow(s)
    BY <2>2 DEF ReadRow
  <2>3. CASE ReadFails(s)
    BY <2>3 DEF ReadFails, FailedCall, Fault, CloseStream
  <2>4. CASE SendInitial(s)
    BY <2>4 DEF SendInitial, Sent, CloseStream, Done
  <2>5. CASE Disconnect(s)
    BY <2>5 DEF Disconnect, CloseStream
  <2> QED
    BY <1>2, <2>1, <2>2, <2>3, <2>4, <2>5
<1>3. CASE HandlerStep
  <2>1. CASE SetProcessing
    BY <2>1 DEF SetProcessing, Reply, LostReply, Fault
  <2>2. CASE SaveRates
    BY <2>2 DEF SaveRates, Reply, LostReply, Fault
  <2>3. CASE RatesCollide
    BY <2>3 DEF RatesCollide
  <2>4. CASE ParseCSV
    BY <2>4 DEF ParseCSV
  <2>5. CASE ParseMissingFile
    BY <2>5 DEF ParseMissingFile, Die
  <2>6. CASE Announce
    BY <2>6 DEF Announce, Emit, Sent, CloseStream, Done, NextChunk
  <2>7. CASE SaveChunk
    BY <2>7 DEF SaveChunk, Reply, LostReply, Fault
  <2>8. CASE CountChunk
    BY <2>8 DEF CountChunk, Reply, LostReply, Fault
  <2>9. CASE ReportChunk
    BY <2>9 DEF ReportChunk, Emit, Sent, CloseStream, Done, NextChunk,
        Reply, LostReply, Fault
  <2>10. CASE SetCompleted
    BY <2>10 DEF SetCompleted, Reply, LostReply, Fault
  <2>11. CASE Finish
    BY <2>11 DEF Finish, Emit, Sent, CloseStream, Done, Cleanup,
        FailedCall, Fault
  <2>12. CASE SetFailed
    BY <2>12 DEF SetFailed, Reply, LostReply, Fault
  <2>13. CASE Failing
    BY <2>13 DEF Failing, Emit, Sent, CloseStream, Done, Cleanup,
        FailedCall, Fault
  <2> QED
    BY <1>3, <2>1, <2>2, <2>3, <2>4, <2>5, <2>6, <2>7, <2>8, <2>9, <2>10,
        <2>11, <2>12, <2>13 DEF HandlerStep
<1>4. CASE QueueStep
  <2>1. CASE Take
    BY <2>1 DEF Take
  <2>2. CASE Acknowledge
    BY <2>2 DEF Acknowledge
  <2>3. CASE Rethrow
    BY <2>3 DEF Rethrow
  <2>4. CASE StalledCheck
    BY <2>4 DEF StalledCheck
  <2> QED
    BY <1>4, <2>1, <2>2, <2>3, <2>4 DEF QueueStep
<1>5. CASE FaultStep
  <2>1. CASE CallFails
    BY <2>1 DEF CallFails, Emit, Sent, CloseStream, Done, FailedCall, Fault
  <2>2. CASE SetFailedFails
    BY <2>2 DEF SetFailedFails, FailedCall, Fault
  <2>3. CASE SettleFails
    BY <2>3 DEF SettleFails, FailedCall, Fault
  <2>4. CASE Crash
    BY <2>4 DEF Crash, Die, FailedCall, Fault
  <2> QED
    BY <1>5, <2>1, <2>2, <2>3, <2>4 DEF FaultStep
<1>6. CASE Restart
  BY <1>6 DEF Restart
<1>7. CASE UNCHANGED vars
  BY <1>7
<1> QED
  BY <1>1, <1>2, <1>3, <1>4, <1>5, <1>6, <1>7 DEF Next, StreamStep

(* A batch's only stream is told of its end, between initial read and      *)
(* emitter, through failed calls, retries and deaths                       *)
(* (upload.controller.ts:146-177).                                         *)
THEOREM EndIsSent ==
    ASSUME \A s, t \in Streams : s = t
    PROVE  Spec => []EndReachesStreams
<1>1. Init => Watching
  BY ConstantsAssumption
  DEF Init, Watching, OneEntry, Unqueued, EndOwed, Waits, Open, Done
<1>2. IInv /\ Watching /\ [Next]_vars => Watching'
  BY WatchingStep DEF IInv
<1>3. IInv /\ Watching => EndReachesStreams
  BY DEF IInv, Control, JobInHand, Watching, EndOwed, Waits,
         EndReachesStreams, Settled
<1> QED BY <1>1, <1>2, <1>3, Inductive, PTL DEF Spec
=============================================================================
