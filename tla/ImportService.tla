--------------------------- MODULE ImportService ---------------------------
(***************************************************************************)
(* The importer of go-pipeline/server (internal/importjob/service.go with  *)
(* internal/kafka/producer.go and internal/postgres/import_jobs.go): every *)
(* upload runs in a goroutine that streams the file, publishes each valid  *)
(* row, flushes, hands the job to the catalog worker and waits until the   *)
(* folded counters confirm it. All goroutines share one Publisher, and a   *)
(* new process fails the jobs whose work died with the old one.            *)
(*                                                                         *)
(* total_rows = invalid + published and valid_rows = published whenever    *)
(* the counters are written, so a job keeps the two.                       *)
(***************************************************************************)
EXTENDS Integers, Sequences, FiniteSets

CONSTANTS
    Jobs,           \* the uploads
    File,           \* the rows of each upload: TRUE is a valid row
    FlushEvery,     \* cfg.ProgressFlushRows
    MaxBuffered,    \* cfg.MaxBufferedRecords
    MaxFaults,      \* bound: failed deliveries, store errors, bad files
    MaxExpiries,    \* bound: imports that outlive maxImportDuration
    MaxCrashes      \* bound: importer processes that end

ASSUME ConstantsAssumption ==
    /\ IsFiniteSet(Jobs)
    /\ File \in [Jobs -> Seq(BOOLEAN)]
    /\ FlushEvery \in Nat \ {0}
    /\ MaxBuffered \in Nat \ {0}
    /\ MaxFaults \in Nat
    /\ MaxExpiries \in Nat
    /\ MaxCrashes \in Nat

Statuses == {"none", "parsing", "processing", "completed", "failed"}
Terminal(status) == status \in {"completed", "failed"}

ValidRows(j) == {i \in 1..Len(File[j]) : File[j][i]}

(* An event is named by its job and row.                                   *)
EventsOf(j) == {j} \X ValidRows(j)
Events == UNION {EventsOf(j) : j \in Jobs}

VARIABLES
    db,         \* import_jobs: status, invalid and published rows, and the
                \* rows the catalog confirmed (processed + dead)
    up,         \* the importer process runs
    pc,         \* where the goroutine of each upload is
    row,        \* rows the streamer has handed over
    mem,        \* process()'s counters: invalid, published
    expired,    \* the goroutine's context has ended
    buffer,     \* events the producer has not resolved yet
    firstErr,   \* Publisher.firstErr is set
    delivered,  \* events on the product topic
    rejected,   \* events whose promise got an error, or died with a process
    refused,    \* history: jobs with a status write the store refused
    faults, expiries, crashes   \* counters of the bounds

memVars == <<row, mem>>
kafkaVars == <<buffer, firstErr, delivered, rejected>>
boundVars == <<faults, expiries, crashes>>
vars == <<db, up, pc, memVars, expired, kafkaVars, refused, boundVars>>

Init ==
    /\ db = [j \in Jobs |-> [status |-> "none", invalid |-> 0,
                             published |-> 0, confirmed |-> 0]]
    /\ up = TRUE
    /\ pc = [j \in Jobs |-> "new"]
    /\ row = [j \in Jobs |-> 0]
    /\ mem = [j \in Jobs |-> [invalid |-> 0, published |-> 0]]
    /\ expired = [j \in Jobs |-> FALSE]
    /\ buffer = {}
    /\ firstErr = FALSE
    /\ delivered = {}
    /\ rejected = {}
    /\ refused = {}
    /\ faults = 0 /\ expiries = 0 /\ crashes = 0

At(j, place) == up /\ pc[j] = place
Goto(j, place) == pc' = [pc EXCEPT ![j] = place]
Fault == faults < MaxFaults /\ faults' = faults + 1 /\ UNCHANGED <<expiries, crashes>>

(* What the ended context of an import breaks needs no fault.              *)
FaultUnlessExpired(j) == IF expired[j] THEN UNCHANGED boundVars ELSE Fault

Gone == {"new", "done"}
Running(j) == up /\ pc[j] \notin Gone

----------------------------------------------------------------------------
(* The upload is registered and its goroutine starts.                      *)
StartImport(j) ==
    /\ At(j, "new")
    /\ db' = [db EXCEPT ![j].status = "parsing"]
    /\ Goto(j, "stream")
    /\ UNCHANGED <<up, memVars, expired, kafkaVars, refused, boundVars>>

(* os.Open fails, or the file has no usable header.                        *)
BadFile(j) ==
    /\ At(j, "stream")
    /\ row[j] = 0
    /\ Fault
    /\ Goto(j, "fail")
    /\ UNCHANGED <<db, up, memVars, expired, kafkaVars, refused>>

----------------------------------------------------------------------------
(* Streaming and publishing. Stream looks at the context before each row.  *)

Streaming(j) == At(j, "stream") /\ ~expired[j] /\ row[j] < Len(File[j])

StreamExpired(j) ==
    /\ At(j, "stream")
    /\ expired[j]
    /\ Goto(j, "fail")
    /\ UNCHANGED <<db, up, memVars, expired, kafkaVars, refused, boundVars>>

InvalidRow(j) ==
    /\ Streaming(j)
    /\ ~File[j][row[j] + 1]
    /\ row' = [row EXCEPT ![j] = @ + 1]
    /\ mem' = [mem EXCEPT ![j].invalid = @ + 1]
    /\ UNCHANGED <<db, up, pc, expired, kafkaVars, refused, boundVars>>

(* The publisher is asked for an earlier delivery failure, of whichever    *)
(* import: then the publish is refused, else the event goes to Produce.    *)
ValidRow(j) ==
    /\ Streaming(j)
    /\ File[j][row[j] + 1]
    /\ Goto(j, IF firstErr THEN "fail" ELSE "produce")
    /\ UNCHANGED <<db, up, memVars, expired, kafkaVars, refused, boundVars>>

(* valid++, published++, and a progress write every FlushEvery events.     *)
CountPublished(j) ==
    /\ row' = [row EXCEPT ![j] = @ + 1]
    /\ mem' = [mem EXCEPT ![j].published = @ + 1]
    /\ Goto(j, IF (mem[j].published + 1) % FlushEvery = 0
               THEN "report" ELSE "stream")

(* Variant: no backpressure.                                               *)
Publish_Unbounded(j) ==
    /\ At(j, "produce")
    /\ buffer' = buffer \cup {<<j, row[j] + 1>>}
    /\ CountPublished(j)
    /\ UNCHANGED <<db, up, expired, firstErr, delivered, rejected, refused,
                   boundVars>>

(* The event is buffered; a full buffer holds the goroutine back.          *)
Publish(j) ==
    /\ At(j, "produce")
    /\ Cardinality(buffer) < MaxBuffered
    /\ buffer' = buffer \cup {<<j, row[j] + 1>>}
    /\ CountPublished(j)
    /\ UNCHANGED <<db, up, expired, firstErr, delivered, rejected, refused,
                   boundVars>>

(* The context ends while Produce waits for room: the promise gets the     *)
(* error, the publish itself returns nil.                                  *)
BlockedPublishExpires(j) ==
    /\ At(j, "produce")
    /\ expired[j]
    /\ Cardinality(buffer) = MaxBuffered
    /\ firstErr' = TRUE
    /\ rejected' = rejected \cup {<<j, row[j] + 1>>}
    /\ CountPublished(j)
    /\ UNCHANGED <<db, up, expired, buffer, delivered, refused, boundVars>>

(* The broker acknowledges an event.                                       *)
Deliver(e) ==
    /\ up
    /\ e \in buffer
    /\ buffer' = buffer \ {e}
    /\ delivered' = delivered \cup {e}
    /\ UNCHANGED <<db, up, pc, memVars, expired, firstErr, rejected, refused,
                   boundVars>>

(* The promise records the first delivery failure before the event leaves  *)
(* the buffer; the event of an ended context may fail without any fault.   *)
(* A timed-out event may have been written all the same.                   *)
DeliveryFails(e) ==
    /\ up
    /\ e \in buffer
    /\ FaultUnlessExpired(e[1])
    /\ buffer' = buffer \ {e}
    /\ firstErr' = TRUE
    /\ rejected' = rejected \cup {e}
    /\ delivered' \in {delivered, delivered \cup {e}}
    /\ UNCHANGED <<db, up, pc, memVars, expired, refused>>

----------------------------------------------------------------------------
(* Writes to the job store. A call with an ended context always fails.     *)

WriteCounters(j) ==
    db' = [db EXCEPT ![j].invalid = mem[j].invalid,
                     ![j].published = mem[j].published]

(* Variant: the counters are not written again after the flush.            *)
UpdateProgress_OnlyInStream(j) ==
    /\ At(j, "report") \/ At(j, "final")
    /\ ~expired[j]
    /\ IF pc[j] = "report" THEN WriteCounters(j) ELSE UNCHANGED db
    /\ Goto(j, IF pc[j] = "report" THEN "stream"
               ELSE IF mem[j].published = 0 THEN "complete" ELSE "process")
    /\ UNCHANGED <<up, memVars, expired, kafkaVars, refused, boundVars>>

(* flushProgress, in the stream ("report") and after the flush ("final").  *)
UpdateProgress(j) ==
    /\ At(j, "report") \/ At(j, "final")
    /\ ~expired[j]
    /\ WriteCounters(j)
    /\ Goto(j, IF pc[j] = "report" THEN "stream"
               ELSE IF mem[j].published = 0 THEN "complete" ELSE "process")
    /\ UNCHANGED <<up, memVars, expired, kafkaVars, refused, boundVars>>

(* Variant: process() returns without failing the job.                     *)
UpdateProgressFails_Returns(j) ==
    /\ At(j, "report") \/ At(j, "final")
    /\ FaultUnlessExpired(j)
    /\ Goto(j, "done")
    /\ UNCHANGED <<db, up, memVars, expired, kafkaVars, refused>>

(* The error may come back after the statement took effect.                *)
UpdateProgressFails(j) ==
    /\ At(j, "report") \/ At(j, "final")
    /\ FaultUnlessExpired(j)
    /\ UNCHANGED db \/ (~expired[j] /\ WriteCounters(j))
    /\ Goto(j, "fail")
    /\ UNCHANGED <<up, memVars, expired, kafkaVars, refused>>

(* Flush waits for the client's whole buffer to empty, or for its own      *)
(* context; then, under the lock, it takes the recorded error with it.     *)
Flush(j) ==
    /\ At(j, "stream")
    /\ row[j] = Len(File[j])
    /\ ~expired[j]
    /\ Goto(j, "flush")
    /\ UNCHANGED <<db, up, memVars, expired, kafkaVars, refused, boundVars>>

Drained(j) ==
    /\ At(j, "flush")
    /\ buffer = {} \/ expired[j]
    /\ Goto(j, "drained")
    /\ UNCHANGED <<db, up, memVars, expired, kafkaVars, refused, boundVars>>

(* Variant: the error is logged, the import goes on.                       *)
FlushReturns_Logged(j) ==
    /\ At(j, "drained")
    /\ firstErr' = FALSE
    /\ Goto(j, "final")
    /\ UNCHANGED <<db, up, memVars, expired, buffer, delivered, rejected,
                   refused, boundVars>>

FlushReturns(j) ==
    /\ At(j, "drained")
    /\ firstErr' = FALSE
    /\ Goto(j, IF firstErr THEN "fail" ELSE "final")
    /\ UNCHANGED <<db, up, memVars, expired, buffer, delivered, rejected,
                   refused, boundVars>>

(* UpdateStatus to "processing", "completed" and "failed".                 *)
TargetOf(place) == CASE place = "process"  -> "processing"
                     [] place = "complete" -> "completed"
                     [] place = "fail"     -> "failed"

WriteStatus(j) == db' = [db EXCEPT ![j].status = TargetOf(pc[j])]

SetStatus(j) ==
    /\ up
    /\ pc[j] \in {"process", "complete", "fail"}
    /\ ~expired[j]
    /\ WriteStatus(j)
    /\ Goto(j, IF pc[j] = "process" THEN "await" ELSE "done")
    /\ UNCHANGED <<up, memVars, expired, kafkaVars, refused, boundVars>>

(* A refused "processing" is followed by an attempt to fail the job; a     *)
(* refused terminal status is only logged.                                 *)
SetStatusFails(j) ==
    /\ up
    /\ pc[j] \in {"process", "complete", "fail"}
    /\ FaultUnlessExpired(j)
    /\ UNCHANGED db \/ (~expired[j] /\ WriteStatus(j))
    /\ refused' = IF expired[j] THEN refused ELSE refused \cup {j}
    /\ Goto(j, IF pc[j] = "process" THEN "fail" ELSE "done")
    /\ UNCHANGED <<up, memVars, expired, kafkaVars>>

----------------------------------------------------------------------------
(* awaitConfirmation: one read per tick.                                   *)

(* Variant: the fold does not look at the status.                          *)
Fold_AnyStatus(j) ==
    /\ up
    /\ db[j].confirmed < Cardinality(delivered \cap EventsOf(j))
    /\ db' = [db EXCEPT ![j].confirmed = @ + 1]
    /\ UNCHANGED <<up, pc, memVars, expired, kafkaVars, refused, boundVars>>

(* The tracker folds one more confirmed row into a job that is not over.   *)
(* Here the catalog counts no event twice; module CatalogWorker shows how  *)
(* far a crash makes it do so.                                             *)
Fold(j) ==
    /\ up
    /\ db[j].status \in {"parsing", "processing"}
    /\ db[j].confirmed < Cardinality(delivered \cap EventsOf(j))
    /\ db' = [db EXCEPT ![j].confirmed = @ + 1]
    /\ UNCHANGED <<up, pc, memVars, expired, kafkaVars, refused, boundVars>>

Confirmed(j) == db[j].confirmed >= db[j].published

(* What one tick decides from the job it reads; unconfirmed, it stands for *)
(* the tick on which nothing was folded for confirmationTimeout.           *)
Decision(j) ==
    CASE db[j].status # "processing" -> "done"
      [] db[j].status = "processing" /\ Confirmed(j) -> "complete"
      [] OTHER -> "fail"

(* Variant: only the import's own deadline ends the wait.                  *)
AwaitTick_NoTimeout(j) ==
    /\ At(j, "await")
    /\ ~expired[j]
    /\ Decision(j) # "fail"
    /\ Goto(j, Decision(j))
    /\ UNCHANGED <<db, up, memVars, expired, kafkaVars, refused, boundVars>>

AwaitTick(j) ==
    /\ At(j, "await")
    /\ ~expired[j]
    /\ Goto(j, Decision(j))
    /\ UNCHANGED <<db, up, memVars, expired, kafkaVars, refused, boundVars>>

AwaitExpired(j) ==
    /\ At(j, "await")
    /\ expired[j]
    /\ Goto(j, "fail")
    /\ UNCHANGED <<db, up, memVars, expired, kafkaVars, refused, boundVars>>

----------------------------------------------------------------------------
(* Deadlines and processes.                                                *)

Expire(j) ==
    /\ Running(j)
    /\ ~expired[j]
    /\ expiries < MaxExpiries
    /\ expiries' = expiries + 1
    /\ expired' = [expired EXCEPT ![j] = TRUE]
    /\ UNCHANGED <<db, up, pc, memVars, kafkaVars, refused, faults, crashes>>

(* The process ends with some of its buffer on the wire; uploads that have *)
(* not begun belong to the next process.                                   *)
Crash ==
    /\ up
    /\ crashes < MaxCrashes
    /\ crashes' = crashes + 1
    /\ up' = FALSE
    /\ \E sent \in SUBSET buffer :
          /\ delivered' = delivered \cup sent
          /\ rejected' = rejected \cup (buffer \ sent)
    /\ buffer' = {}
    /\ firstErr' = FALSE
    /\ pc' = [j \in Jobs |-> IF pc[j] = "new" THEN "new" ELSE "done"]
    /\ UNCHANGED <<db, memVars, expired, refused, faults, expiries>>

(* Variant: the wrong status is taken for the interrupted one.             *)
FailStale_Processing(rows) ==
    [j \in Jobs |-> IF rows[j].status = "processing"
                    THEN [rows[j] EXCEPT !.status = "failed"] ELSE rows[j]]

(* FailStale: "uploading" and "publishing" are never stored.               *)
FailStale(rows) ==
    [j \in Jobs |-> IF rows[j].status = "parsing"
                    THEN [rows[j] EXCEPT !.status = "failed"] ELSE rows[j]]

Restart ==
    /\ ~up
    /\ up' = TRUE
    /\ db' = FailStale(db)
    /\ UNCHANGED <<pc, memVars, expired, kafkaVars, refused, boundVars>>

----------------------------------------------------------------------------
StreamStep(j) ==
    \/ StreamExpired(j) \/ InvalidRow(j) \/ ValidRow(j) \/ Publish(j)
    \/ BlockedPublishExpires(j) \/ Flush(j) \/ Drained(j) \/ FlushReturns(j)

AwaitStep(j) == AwaitTick(j) \/ AwaitExpired(j)

(* A write that must fail because the context ended is a step like any     *)
(* other; one that the store refuses is a fault.                           *)
StoreStep(j) ==
    \/ UpdateProgress(j) \/ SetStatus(j)
    \/ expired[j] /\ (UpdateProgressFails(j) \/ SetStatusFails(j))

JobStep(j) == StreamStep(j) \/ StoreStep(j) \/ AwaitStep(j)

FaultStep(j) ==
    \/ BadFile(j) \/ Expire(j)
    \/ ~expired[j] /\ (UpdateProgressFails(j) \/ SetStatusFails(j))

Next ==
    \/ \E j \in Jobs : StartImport(j) \/ JobStep(j) \/ Fold(j) \/ FaultStep(j)
    \/ \E e \in buffer : Deliver(e) \/ DeliveryFails(e)
    \/ Crash \/ Restart

Spec == Init /\ [][Next]_vars

(* Goroutines run, the producer resolves what it buffers (within its       *)
(* delivery timeout), a supervisor restarts the process. Nothing obliges   *)
(* the catalog to confirm: the timeout is what ends the wait.              *)
Fairness ==
    /\ \A j \in Jobs : WF_vars(JobStep(j))
    /\ WF_vars(\E e \in buffer : Deliver(e))
    /\ WF_vars(Restart)

FairSpec == Spec /\ Fairness

----------------------------------------------------------------------------
(* Properties.                                                             *)

TypeOK ==
    /\ db \in [Jobs -> [status : Statuses, invalid : Nat, published : Nat,
                        confirmed : Nat]]
    /\ up \in BOOLEAN
    /\ pc \in [Jobs -> {"new", "stream", "produce", "report", "flush",
                        "drained", "final", "process", "await", "complete",
                        "fail", "done"}]
    /\ row \in [Jobs -> Nat]
    /\ \A j \in Jobs : row[j] <= Len(File[j])
    /\ mem \in [Jobs -> [invalid : Nat, published : Nat]]
    /\ expired \in [Jobs -> BOOLEAN]
    /\ buffer \subseteq Events /\ Cardinality(buffer) <= MaxBuffered
    /\ firstErr \in BOOLEAN
    /\ delivered \subseteq Events
    /\ rejected \subseteq Events
    /\ refused \subseteq Jobs
    /\ faults \in 0..MaxFaults
    /\ expiries \in 0..MaxExpiries
    /\ crashes \in 0..MaxCrashes

(* A completed job counted its whole file, every valid row was published,  *)
(* and at least as many rows were confirmed: completion is decided on the  *)
(* final counters, never on an intermediate progress write.                *)
CompletedIsFinal ==
    \A j \in Jobs : db[j].status = "completed" =>
        /\ db[j].invalid + db[j].published = Len(File[j])
        /\ db[j].published = Cardinality(ValidRows(j))
        /\ db[j].confirmed >= db[j].published

(* A nil flush means every published event is confirmed by the broker      *)
(* (service.go:114, producer.go:118-120): a job past its flush has all its *)
(* events on the topic.                                                    *)
PastFlush(j) ==
    /\ pc[j] \in {"final", "process", "await", "complete"}
    /\ ~expired[j]

NilFlushMeansDelivered ==
    \A j \in Jobs : PastFlush(j) => EventsOf(j) \subseteq delivered

(* What the shared publisher does promise, as long as the process lives: a *)
(* job that is past its flush with an event missing from the topic was     *)
(* paid for by another import, which was made to fail in its place. With   *)
(* one import at a time this is NilFlushMeansDelivered.                    *)
Paid(j) == pc[j] = "fail" \/ (pc[j] = "done" /\ db[j].status # "completed")

LossFailsAnImport ==
    crashes = 0 =>
        /\ \A j \in Jobs : PastFlush(j) /\ ~(EventsOf(j) \subseteq delivered) =>
              \E k \in Jobs \ {j} : Paid(k)
        /\ rejected # {} => firstErr \/ \E k \in Jobs : Paid(k)

(* A terminal job never changes again: not its status, and not the         *)
(* counters a report was built from (entity.go:23).                        *)
TerminalIsFinal ==
    [][\A j \in Jobs : Terminal(db[j].status) => db'[j] = db[j]]_vars

(* Once a process serves, no job that a dead process was still parsing is  *)
(* left looking alive (main.go:45-46).                                     *)
NoOrphanParsing ==
    \A j \in Jobs : up /\ db[j].status = "parsing" =>
        Running(j) \/ j \in refused \/ expired[j]

(* Every goroutine that ends leaves a terminal status behind               *)
(* (service.go:63-64: "then applies the terminal status"), unless the      *)
(* store refused it, or the process died, or the context had ended.        *)
EndIsRecordedIfPossible ==
    \A j \in Jobs : pc[j] = "done" /\ ~Terminal(db[j].status) =>
        j \in refused \/ expired[j] \/ crashes > 0

(* Every import ends, unless the store refused its status or its context   *)
(* ended.                                                                  *)
EveryImportEnds ==
    \A j \in Jobs :
        db[j].status # "none" ~>
            Terminal(db[j].status) \/ j \in refused \/ expired[j]

(* The same in a process that is never replaced.                           *)
ImportsEndWithoutRestart ==
    \A j \in Jobs :
        db[j].status # "none" ~>
            \/ Terminal(db[j].status) \/ j \in refused \/ expired[j]
            \/ crashes > 0
=============================================================================
