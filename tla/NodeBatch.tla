----------------------------- MODULE NodeBatch -----------------------------
(***************************************************************************)
(* One uploaded batch of node-pipeline/server: the request that records    *)
(* and queues it (upload.service.ts), the Bull job that processes it in    *)
(* chunks (csv.processor.ts) with the rates snapshot it takes first        *)
(* (exchange-rates.service.ts), and the progress streams that watch it     *)
(* (upload.controller.ts).                                                 *)
(*                                                                         *)
(* A chunk stands for up to BATCH_SIZE valid rows. Every await of the      *)
(* handler is a step of its own, which may reject before or after its      *)
(* effect (lost counts the second kind). Bull is external: a retry counts  *)
(* an attempt, and a job whose process died is run again once.             *)
(***************************************************************************)
EXTENDS Integers, FiniteSets

CONSTANTS
    Streams,        \* connections to the progress endpoint
    NoStream,       \* no emitter is registered
    Attempts,       \* attempts of the queued job
    MaxChunks,      \* bound: chunks of valid rows in the file
    MaxFaults       \* bound: failed calls and process deaths

ASSUME ConstantsAssumption ==
    /\ NoStream \notin Streams
    /\ Attempts \in Nat \ {0}
    /\ MaxChunks \in Nat
    /\ MaxFaults \in Nat

Statuses == {"pending", "processing", "completed", "failed"}
Done == {"completed", "failed"}
MaxStalls == 1

VARIABLES
    up,         \* the server process
    req,        \* the upload request
    status, processed,  \* the batch's row: status and processedRows
    gaveUp,     \* history: an attempt failed, and said so and cleaned up
    rates,      \* the batch's rates are stored
    chunks,     \* chunks of valid rows in the file
    stored,     \* copies of each chunk in the products table
    file,       \* the uploaded file
    job, attempts, stalls,  \* the Bull job and its two counters
    pc, i,      \* handleProcessCsv: next await, chunks done this attempt
    emitter,    \* the stream whose emitter the batch's entry is
    stream,     \* stage of each progress stream
    snap,       \* the status its initial read returned
    faults, lost    \* failed calls; those that failed after their effect

rowVars == <<status, processed>>
dataVars == <<rates, chunks, stored>>
fileVars == <<file, gaveUp>>
jobVars == <<job, attempts, stalls>>
streamVars == <<emitter, stream, snap>>
faultVars == <<faults, lost>>
vars == <<up, req, rowVars, dataVars, fileVars, jobVars, pc, i, streamVars,
          faultVars>>

Init ==
    /\ up = TRUE /\ req = "none"
    /\ status = "none" /\ processed = 0
    /\ rates = FALSE /\ chunks = 0
    /\ stored = [c \in 1..MaxChunks |-> 0]
    /\ file = "none" /\ gaveUp = FALSE
    /\ job = "none" /\ attempts = 0 /\ stalls = 0
    /\ pc = "idle" /\ i = 0
    /\ emitter = NoStream
    /\ stream = [s \in Streams |-> "closed"]
    /\ snap = [s \in Streams |-> "none"]
    /\ faults = 0 /\ lost = 0

Fault == faults < MaxFaults /\ faults' = faults + 1
FailedCall == Fault /\ lost' = lost
LostReply == Fault /\ lost' = lost + 1

(* A call took effect: its reply arrives, or it is lost and the call       *)
(* rejects.                                                                *)
Reply(var, onReply, onReject) ==
    \/ var = onReply /\ UNCHANGED faultVars
    \/ var = onReject /\ LostReply

----------------------------------------------------------------------------
(* POST /upload: the file is on disk, createBatch saves the row and adds   *)
(* the job.                                                                *)

Upload ==
    /\ up /\ req = "none"
    /\ req' = "queue"
    /\ file' = "there"
    /\ chunks' \in 0..MaxChunks
    /\ status' = "pending"
    /\ UNCHANGED <<up, processed, rates, stored, gaveUp, jobVars, pc, i,
                   streamVars, faultVars>>

Enqueue ==
    /\ up /\ req = "queue"
    /\ job' = "waiting"
    /\ Reply(req', "answered", "undo")
    /\ UNCHANGED <<up, rowVars, dataVars, fileVars, attempts, stalls, pc, i,
                   streamVars>>

EnqueueFails ==
    /\ up /\ req = "queue"
    /\ FailedCall
    /\ req' = "undo"
    /\ UNCHANGED <<up, rowVars, dataVars, fileVars, jobVars, pc, i,
                   streamVars>>

(* The catch of createBatch: no progress event, and the answer still       *)
(* carries the row as it was saved.                                        *)
MarkUnqueued ==
    /\ up /\ req = "undo"
    /\ req' = "answered"
    /\ status' = "failed"
    /\ UNCHANGED <<up, processed, dataVars, fileVars, jobVars, pc, i,
                   streamVars, faultVars>>

MarkUnqueuedFails ==
    /\ up /\ req = "undo"
    /\ FailedCall
    /\ req' = "answered"
    /\ UNCHANGED <<up, rowVars, dataVars, fileVars, jobVars, pc, i,
                   streamVars>>

----------------------------------------------------------------------------
(* Progress streams.                                                       *)

Open == {s \in Streams : stream[s] # "closed"}

(* completeStream and the teardown remove the entry of the batch, whoever  *)
(* registered it.                                                          *)
CloseStream(s) ==
    /\ stream' = [stream EXCEPT ![s] = "closed"]
    /\ emitter' = NoStream

Sent(s, st, stage) ==
    IF st \in Done
    THEN CloseStream(s)
    ELSE /\ stream' = [stream EXCEPT ![s] = stage]
         /\ UNCHANGED emitter

Emit(st) ==
    /\ IF emitter \in Open
       THEN Sent(emitter, st, stream[emitter])
       ELSE UNCHANGED <<emitter, stream>>
    /\ UNCHANGED snap

(* The subscription starts the initial read and registers its emitter      *)
(* before the read can return.                                             *)
Subscribe(s) ==
    /\ up /\ s \notin Open
    /\ status # "none"
    /\ stream' = [stream EXCEPT ![s] = "reading"]
    /\ emitter' = s
    /\ snap' = [snap EXCEPT ![s] = "none"]
    /\ UNCHANGED <<up, req, rowVars, dataVars, fileVars, jobVars, pc, i,
                   faultVars>>

ReadRow(s) ==
    /\ stream[s] = "reading"
    /\ stream' = [stream EXCEPT ![s] = "read"]
    /\ snap' = [snap EXCEPT ![s] = status]
    /\ UNCHANGED <<up, req, rowVars, dataVars, fileVars, jobVars, pc, i,
                   emitter, faultVars>>

ReadFails(s) ==
    /\ stream[s] = "reading"
    /\ FailedCall
    /\ CloseStream(s)
    /\ UNCHANGED <<up, req, rowVars, dataVars, fileVars, jobVars, pc, i, snap>>

SendInitial(s) ==
    /\ stream[s] = "read"
    /\ Sent(s, snap[s], "live")
    /\ UNCHANGED <<up, req, rowVars, dataVars, fileVars, jobVars, pc, i, snap,
                   faultVars>>

Disconnect(s) ==
    /\ s \in Open
    /\ CloseStream(s)
    /\ UNCHANGED <<up, req, rowVars, dataVars, fileVars, jobVars, pc, i, snap,
                   faultVars>>

StreamStep ==
    \E s \in Streams :
        \/ Subscribe(s)
        \/ ReadRow(s)
        \/ ReadFails(s)
        \/ SendInitial(s)
        \/ Disconnect(s)

----------------------------------------------------------------------------
(* handleProcessCsv.                                                       *)

Calling == {"start", "rates", "total", "save", "count", "report", "complete"}

Take ==
    /\ up /\ pc = "idle"
    /\ job = "waiting"
    /\ job' = "active"
    /\ pc' = "start" /\ i' = 0
    /\ UNCHANGED <<up, req, rowVars, dataVars, fileVars, attempts, stalls,
                   streamVars, faultVars>>

SetProcessing ==
    /\ pc = "start"
    /\ status' = "processing"
    /\ Reply(pc', "rates", "catch")
    /\ UNCHANGED <<up, req, processed, dataVars, fileVars, jobVars, i,
                   streamVars>>

(* The five rates are saved in one transaction under a unique key of batch *)
(* and currency. Fetching them falls back to constants and cannot fail.    *)
SaveRates ==
    /\ pc = "rates" /\ ~rates
    /\ rates' = TRUE
    /\ Reply(pc', "parse", "catch")
    /\ UNCHANGED <<up, req, rowVars, chunks, stored, fileVars, jobVars, i,
                   streamVars>>

(* Variant: the rates are written over (no unique key).                    *)
RatesCollide_Ignored ==
    /\ pc = "rates" /\ rates
    /\ pc' = "parse"
    /\ UNCHANGED <<up, req, rowVars, dataVars, fileVars, jobVars, i,
                   streamVars, faultVars>>

RatesCollide ==
    /\ pc = "rates" /\ rates
    /\ pc' = "catch"
    /\ UNCHANGED <<up, req, rowVars, dataVars, fileVars, jobVars, i,
                   streamVars, faultVars>>

ParseCSV ==
    /\ pc = "parse" /\ file # "deleted"
    /\ pc' = "total"
    /\ UNCHANGED <<up, req, rowVars, dataVars, fileVars, jobVars, i,
                   streamVars, faultVars>>

NextChunk(n) == IF n < chunks THEN "save" ELSE "complete"

Announce ==
    /\ pc = "total"
    /\ Emit("processing")
    /\ pc' = NextChunk(0)
    /\ UNCHANGED <<up, req, rowVars, dataVars, fileVars, jobVars, i,
                   faultVars>>

(* Variant: a chunk that cannot be saved is skipped.                       *)
SaveChunk_Swallowed ==
    /\ pc = "save"
    /\ \/ /\ stored' = [stored EXCEPT ![i + 1] = @ + 1]
          /\ UNCHANGED faultVars
       \/ /\ UNCHANGED stored
          /\ FailedCall
    /\ pc' = "count"
    /\ UNCHANGED <<up, req, rowVars, rates, chunks, fileVars, jobVars, i,
                   streamVars>>

SaveChunk ==
    /\ pc = "save"
    /\ stored' = [stored EXCEPT ![i + 1] = @ + 1]
    /\ Reply(pc', "count", "catch")
    /\ UNCHANGED <<up, req, rowVars, rates, chunks, fileVars, jobVars, i,
                   streamVars>>

(* Variant: the loop counts the next chunk too.                            *)
CountChunk_NextOffset ==
    /\ pc = "count"
    /\ processed' = i + 2
    /\ Reply(pc', "report", "catch")
    /\ UNCHANGED <<up, req, status, dataVars, fileVars, jobVars, i,
                   streamVars>>

CountChunk ==
    /\ pc = "count"
    /\ processed' = i + 1
    /\ Reply(pc', "report", "catch")
    /\ UNCHANGED <<up, req, status, dataVars, fileVars, jobVars, i,
                   streamVars>>

(* The progress event, then job.progress.                                  *)
ReportChunk ==
    /\ pc = "report"
    /\ Emit("processing")
    /\ i' = i + 1
    /\ Reply(pc', NextChunk(i'), "catch")
    /\ UNCHANGED <<up, req, rowVars, dataVars, fileVars, jobVars>>

SetCompleted ==
    /\ pc = "complete"
    /\ status' = "completed"
    /\ processed' = chunks
    /\ Reply(pc', "finish", "catch")
    /\ UNCHANGED <<up, req, dataVars, fileVars, jobVars, i, streamVars>>

(* A file that cannot be removed is logged and stays.                      *)
Cleanup ==
    \/ file' = "deleted" /\ UNCHANGED faultVars
    \/ file # "deleted" /\ file' = "left" /\ FailedCall

Finish ==
    /\ pc = "finish"
    /\ Emit("completed")
    /\ Cleanup
    /\ pc' = "ack"
    /\ UNCHANGED <<up, req, rowVars, dataVars, gaveUp, jobVars, i>>

(* Any of the awaited calls rejects without an effect.                     *)
CallFails ==
    /\ pc \in Calling
    /\ FailedCall
    /\ pc' = "catch"
    /\ IF pc = "report" THEN Emit("processing") ELSE UNCHANGED streamVars
    /\ UNCHANGED <<up, req, rowVars, dataVars, fileVars, jobVars, i>>

SetFailed ==
    /\ pc = "catch"
    /\ status' = "failed"
    /\ Reply(pc', "failing", "rethrow")
    /\ UNCHANGED <<up, req, processed, dataVars, fileVars, jobVars, i,
                   streamVars>>

SetFailedFails ==
    /\ pc = "catch"
    /\ FailedCall
    /\ pc' = "rethrow"
    /\ UNCHANGED <<up, req, rowVars, dataVars, fileVars, jobVars, i,
                   streamVars>>

(* Variant: the file is kept for the retry.                                *)
Failing_KeepsFile ==
    /\ pc = "failing"
    /\ Emit("failed")
    /\ UNCHANGED <<file, faultVars>>
    /\ gaveUp' = TRUE
    /\ pc' = "rethrow"
    /\ UNCHANGED <<up, req, rowVars, dataVars, jobVars, i>>

(* Variant: the failure is not announced.                                  *)
Failing_Silent ==
    /\ pc = "failing"
    /\ Cleanup
    /\ gaveUp' = (gaveUp \/ file' # "left")
    /\ pc' = "rethrow"
    /\ UNCHANGED <<up, req, rowVars, dataVars, jobVars, i, streamVars>>

Failing ==
    /\ pc = "failing"
    /\ Emit("failed")
    /\ Cleanup
    /\ gaveUp' = (gaveUp \/ file' # "left")
    /\ pc' = "rethrow"
    /\ UNCHANGED <<up, req, rowVars, dataVars, jobVars, i>>

----------------------------------------------------------------------------
(* Bull, and the death of the process.                                     *)

Acknowledge ==
    /\ pc = "ack"
    /\ job' = "completed"
    /\ pc' = "idle" /\ i' = 0
    /\ UNCHANGED <<up, req, rowVars, dataVars, fileVars, attempts, stalls,
                   streamVars, faultVars>>

(* A rejected attempt is retried after the backoff; the last one is logged *)
(* by handleFailed.                                                        *)
Rethrow ==
    /\ pc = "rethrow"
    /\ attempts' = attempts + 1
    /\ job' = IF attempts' < Attempts THEN "waiting" ELSE "failed"
    /\ pc' = "idle" /\ i' = 0
    /\ UNCHANGED <<up, req, rowVars, dataVars, fileVars, stalls, streamVars,
                   faultVars>>

(* The queue does not learn how the attempt ended.                         *)
SettleFails ==
    /\ pc \in {"ack", "rethrow"}
    /\ FailedCall
    /\ job' = "stalled"
    /\ pc' = "idle" /\ i' = 0
    /\ UNCHANGED <<up, req, rowVars, dataVars, fileVars, attempts, stalls,
                   streamVars>>

Die ==
    /\ up
    /\ up' = FALSE
    /\ req' = IF req = "none" THEN "none" ELSE "answered"
    /\ job' = IF job = "active" THEN "stalled" ELSE job
    /\ pc' = "idle" /\ i' = 0
    /\ emitter' = NoStream
    /\ stream' = [s \in Streams |-> "closed"]
    /\ UNCHANGED <<rowVars, dataVars, fileVars, attempts, stalls, snap>>

Crash == FailedCall /\ Die

(* Variant: the read stream's error is handled, and the promise is left    *)
(* open.                                                                   *)
ParseMissingFile_Hangs ==
    /\ pc = "parse" /\ file = "deleted"
    /\ UNCHANGED vars

(* The read stream's error is not the parser's: nobody handles it, and it  *)
(* ends the process.                                                       *)
ParseMissingFile ==
    /\ pc = "parse" /\ file = "deleted"
    /\ Die
    /\ UNCHANGED faultVars

Restart ==
    /\ ~up
    /\ up' = TRUE
    /\ UNCHANGED <<req, rowVars, dataVars, fileVars, jobVars, pc, i,
                   streamVars, faultVars>>

StalledCheck ==
    /\ up
    /\ job = "stalled"
    /\ IF stalls < MaxStalls
       THEN job' = "waiting" /\ stalls' = stalls + 1
       ELSE job' = "failed" /\ UNCHANGED stalls
    /\ UNCHANGED <<up, req, rowVars, dataVars, fileVars, attempts, pc, i,
                   streamVars, faultVars>>

----------------------------------------------------------------------------

RequestStep == Upload \/ Enqueue \/ EnqueueFails \/ MarkUnqueued
               \/ MarkUnqueuedFails

HandlerStep ==
    \/ SetProcessing
    \/ SaveRates \/ RatesCollide
    \/ ParseCSV \/ ParseMissingFile
    \/ Announce \/ SaveChunk \/ CountChunk \/ ReportChunk
    \/ SetCompleted \/ Finish
    \/ SetFailed \/ Failing

QueueStep == Take \/ Acknowledge \/ Rethrow \/ StalledCheck

FaultStep == CallFails \/ SetFailedFails \/ SettleFails \/ Crash

Next == RequestStep \/ StreamStep \/ HandlerStep \/ QueueStep \/ FaultStep
        \/ Restart

Spec == Init /\ [][Next]_vars

(* The event loop and the queue keep running, and the process is started   *)
(* again.                                                                  *)
Fairness ==
    /\ WF_vars(HandlerStep)
    /\ WF_vars(QueueStep)
    /\ WF_vars(Restart)

FairSpec == Spec /\ Fairness
----------------------------------------------------------------------------
(* Properties.                                                             *)

(* Every variable has the values the code gives it; the row never counts   *)
(* more chunks than the file has.                                          *)
TypeOK ==
    /\ up \in BOOLEAN
    /\ req \in {"none", "queue", "undo", "answered"}
    /\ status \in Statuses \union {"none"}
    /\ gaveUp \in BOOLEAN
    /\ rates \in BOOLEAN
    /\ chunks \in 0..MaxChunks
    /\ processed \in 0..chunks
    /\ stored \in [1..MaxChunks -> Nat]
    /\ file \in {"none", "there", "left", "deleted"}
    /\ job \in {"none", "waiting", "active", "stalled", "completed", "failed"}
    /\ attempts \in 0..Attempts
    /\ stalls \in 0..MaxStalls
    /\ pc \in Calling \union {"idle", "parse", "finish", "ack", "catch",
                              "failing", "rethrow"}
    /\ i \in 0..chunks
    /\ emitter \in Open \union {NoStream}
    /\ stream \in [Streams -> {"closed", "reading", "read", "live"}]
    /\ snap \in [Streams -> Statuses \union {"none"}]
    /\ faults \in 0..MaxFaults
    /\ lost \in 0..faults

(* However often the job runs, a chunk is inserted at most once. Products  *)
(* have no natural key (product.entity.ts): the unique key of the batch's  *)
(* rates is what stops a second attempt before the products.               *)
ChunksStoredOnce == \A c \in 1..MaxChunks : stored[c] <= 1

(* A batch that reads completed has its rates and every chunk, and         *)
(* processedRows never counts a chunk that is not stored, through retries, *)
(* crashes and lost replies.                                               *)
RowMatchesTables ==
    /\ \A c \in 1..processed : stored[c] > 0
    /\ status = "completed" => rates /\ processed = chunks

(* The attempts that follow a reported failure are in vain: they find the  *)
(* rates stored or the file deleted, whatever else is lost or dies.        *)
FailedNeverCompletes == gaveUp => status # "completed"

Settled == job \in {"completed", "failed"}

(* With one stream per batch there is no lost wakeup between the initial   *)
(* read and the emitter: when the job has settled with a final status, no  *)
(* stream still waits for an event. Lost replies excepted.                 *)
EndReachesStreams ==
    lost = 0 /\ status \in Done /\ Settled =>
        \A s \in Streams : stream[s] # "live"

(* A queued job settles, whatever fails, also when an attempt ends the     *)
(* process because its file is gone.                                       *)
JobSettles == (job = "waiting") ~> Settled
============================================================================
