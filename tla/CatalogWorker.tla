--------------------------- MODULE CatalogWorker ---------------------------
(***************************************************************************)
(* The catalog worker of go-pipeline/server (internal/catalog): a consumer *)
(* group that applies the product-imported topic to the catalog database,  *)
(* dead-letters what it cannot apply, reports cumulative per-job counts on *)
(* the progress topic and commits offsets last.                            *)
(*                                                                         *)
(* Each worker is one process incarnation with two goroutines that share   *)
(* the counters: the consume-process-commit loop ("main") and the progress *)
(* ticker ("flusher"). A process that ends never comes back: a restart is  *)
(* another member of Workers, and WorkerId is the identity its reports     *)
(* carry (hostname and pid, which two incarnations may share).             *)
(*                                                                         *)
(* Offsets count from 1; committed[p] and pos[w][p] are numbers of records.*)
(***************************************************************************)
EXTENDS Integers, Sequences, FiniteSets, FiniteSetsExt

CONSTANTS
    Workers,            \* process incarnations
    WorkerIds,          \* identities stamped on reports
    WorkerId,           \* the identity of each incarnation
    Partitions,         \* partitions of product.imported
    Jobs,               \* import jobs
    NoJob,              \* job of an undecodable record that names none
    Keys,               \* product identities (merchant, product id)
    PartitionOf,        \* the partition a product identity hashes to
    Events,             \* the events that may be produced
    NoWorker,           \* owner of an unassigned partition
    NoRec,              \* no record in hand
    MaxPoll,            \* cfg.MaxPollRecords
    writeRetryAttempts, \* in-place write attempts per batch
    MaxEvents,          \* bound: events per partition
    MaxFaults,          \* bound: crashes, stops and transient errors
    MaxRevokes          \* bound: partitions taken from a live member

(* "ok" is applied, "invalid" fails FromEvent, "poison" is not JSON, and   *)
(* "unwritable" passes FromEvent but makes the batch statement fail.       *)
Kinds == {"ok", "invalid", "poison", "unwritable"}
Threads == {"main", "flusher"}

Event == [job : Jobs \cup {NoJob}, key : Keys, kind : Kinds]

ASSUME ConstantsAssumption ==
    /\ IsFiniteSet(Partitions)
    /\ WorkerId \in [Workers -> WorkerIds]
    /\ PartitionOf \in [Keys -> Partitions]
    /\ Events \subseteq Event
    /\ \A e \in Events : e.kind # "poison" => e.job \in Jobs
    /\ NoWorker \notin Workers
    /\ MaxPoll \in Nat \ {0}
    /\ writeRetryAttempts \in Nat \ {0}
    /\ MaxEvents \in Nat
    /\ MaxFaults \in Nat
    /\ MaxRevokes \in Nat
    /\ NoJob \notin Jobs
    /\ NoRec \notin Partitions \X (1..MaxEvents)

(* A record is named by its partition and its place in it.                 *)
Recs == Partitions \X (1..MaxEvents)

Count == [applied : Nat, dead : Nat]
NoCount == [applied |-> 0, dead |-> 0]
JobCount == [job : Jobs, applied : Nat, dead : Nat]
Report == [worker : WorkerIds, job : Jobs, applied : Nat, dead : Nat]

VARIABLES
    log,        \* product.imported: the events of each partition
    committed,  \* offsets committed by the catalog-writer group
    owner,      \* which member each partition is assigned to
    pos,        \* how far each member has fetched each partition
    from, upto, \* the batch in hand: records from+1..upto of each partition
    pc,         \* where the main loop is
    todo,       \* records of the batch not yet adjudicated
    cur,        \* the poison record counted but not yet dead-lettered
    attempts,   \* failed write attempts for the batch in hand
    cnt, pub,   \* jobEntry: current totals, totals last published
    snap, left, \* per thread: FlushProgress's pending, and what is unsent
    applied,    \* history: records some committed UpsertBatch contained
    catalog,    \* products table: the record each row was last written from
    dlq,        \* records on the dead letter topic
    progress,   \* reports on the import-progress topic
    faults, revokes \* counters of the two bounds

groupVars == <<owner, pos, revokes>>
batchVars == <<from, upto, todo, cur, attempts>>
countVars == <<cnt, pub, snap, left>>
storeVars == <<applied, catalog>>
vars == <<log, committed, groupVars, pc, batchVars, countVars, storeVars,
          dlq, progress, faults>>

Zero == [p \in Partitions |-> 0]
Idle == [t \in Threads |-> {}]

Init ==
    /\ log = [p \in Partitions |-> <<>>]
    /\ committed = Zero
    /\ owner = [p \in Partitions |-> NoWorker]
    /\ pos = [w \in Workers |-> Zero]
    /\ from = [w \in Workers |-> Zero]
    /\ upto = [w \in Workers |-> Zero]
    /\ pc = [w \in Workers |-> "new"]
    /\ todo = [w \in Workers |-> {}]
    /\ cur = [w \in Workers |-> NoRec]
    /\ attempts = [w \in Workers |-> 0]
    /\ cnt = [w \in Workers |-> [j \in Jobs |-> NoCount]]
    /\ pub = [w \in Workers |-> [j \in Jobs |-> NoCount]]
    /\ snap = [w \in Workers |-> Idle]
    /\ left = [w \in Workers |-> Idle]
    /\ applied = {}
    /\ catalog = [k \in Keys |-> 0]
    /\ dlq = {}
    /\ progress = {}
    /\ faults = 0
    /\ revokes = 0

----------------------------------------------------------------------------
(* Reading the batch.                                                      *)

EventAt(r) == log[r[1]][r[2]]
Batch(w) == {r \in Recs : from[w][r[1]] < r[2] /\ r[2] <= upto[w][r[1]]}
Of(S, kind) == {r \in S : EventAt(r).kind = kind}
OfJob(S, j) == {r \in S : EventAt(r).job = j}

(* The records of S that come first in their partition.                    *)
First(S) == {r \in S : \A q \in S : q[1] = r[1] => r[2] <= q[2]}

(* What a validated event is: FromEvent accepted it.                       *)
Validated(S) == Of(S, "ok") \cup Of(S, "unwritable")

----------------------------------------------------------------------------
(* The environment: the importer's producer and the group coordinator.     *)

Produce(e) ==
    LET p == PartitionOf[e.key] IN
    /\ Len(log[p]) < MaxEvents
    /\ log' = [log EXCEPT ![p] = Append(@, e)]
    /\ UNCHANGED <<committed, groupVars, pc, batchVars, countVars, storeVars,
                   dlq, progress, faults>>

Member(w) == pc[w] \notin {"new", "gone"}
Orphan(p) == owner[p] = NoWorker \/ (owner[p] \in Workers /\ ~Member(owner[p]))

(* Variant: with no committed offset, consumption begins at the end.       *)
Assign_AtEnd(p, w) ==
    /\ Member(w)
    /\ Orphan(p)
    /\ owner' = [owner EXCEPT ![p] = w]
    /\ pos' = [pos EXCEPT ![w][p] =
                 IF committed[p] = 0 THEN Len(log[p]) ELSE committed[p]]
    /\ UNCHANGED <<log, committed, revokes, pc, batchVars, countVars,
                   storeVars, dlq, progress, faults>>

(* A partition moves to a member, which resumes from the committed offset. *)
(* The old owner is gone (session timeout), or the partition is revoked    *)
(* from a live member: nothing in the consumer holds the rebalance back    *)
(* while records are being processed.                                      *)
Assign(p, w) ==
    /\ Member(w)
    /\ \/ Orphan(p) /\ UNCHANGED revokes
       \/ ~Orphan(p) /\ revokes < MaxRevokes /\ revokes' = revokes + 1
    /\ owner' = [owner EXCEPT ![p] = w]
    /\ pos' = [pos EXCEPT ![w][p] = committed[p]]
    /\ UNCHANGED <<log, committed, pc, batchVars, countVars, storeVars,
                   dlq, progress, faults>>

----------------------------------------------------------------------------
(* Process life cycle.                                                     *)

Start(w) ==
    /\ pc[w] = "new"
    /\ pc' = [pc EXCEPT ![w] = "poll"]
    /\ UNCHANGED <<log, committed, groupVars, batchVars, countVars, storeVars,
                   dlq, progress, faults>>

(* Everything the process held in memory goes with it.                     *)
Forget(w) ==
    /\ pc' = [pc EXCEPT ![w] = "gone"]
    /\ from' = [from EXCEPT ![w] = Zero]
    /\ upto' = [upto EXCEPT ![w] = Zero]
    /\ todo' = [todo EXCEPT ![w] = {}]
    /\ cur' = [cur EXCEPT ![w] = NoRec]
    /\ attempts' = [attempts EXCEPT ![w] = 0]
    /\ cnt' = [cnt EXCEPT ![w] = [j \in Jobs |-> NoCount]]
    /\ pub' = [pub EXCEPT ![w] = [j \in Jobs |-> NoCount]]
    /\ snap' = [snap EXCEPT ![w] = Idle]
    /\ left' = [left EXCEPT ![w] = Idle]

Fault == faults < MaxFaults /\ faults' = faults + 1

Crash(w) ==
    /\ Member(w)
    /\ Fault
    /\ Forget(w)
    /\ UNCHANGED <<log, committed, groupVars, storeVars, dlq, progress>>

(* SIGTERM seen between two cycles: the loop waits for the flusher to end  *)
(* before it returns, then the deferred drain runs.                        *)
Shutdown(w) ==
    /\ pc[w] = "poll"
    /\ snap[w]["flusher"] = {}
    /\ Fault
    /\ pc' = [pc EXCEPT ![w] = "stop"]
    /\ UNCHANGED <<log, committed, groupVars, batchVars, countVars, storeVars,
                   dlq, progress>>

(* An error return of Run: the deferred drain runs, the flusher still may. *)
Exit(w) == pc' = [pc EXCEPT ![w] = "drain"]

----------------------------------------------------------------------------
(* Run and ProcessBatch.                                                   *)

(* One poll returns at most MaxPoll records, in partition order, of the    *)
(* partitions the member holds.                                            *)
Poll(w) ==
    /\ pc[w] = "poll"
    /\ \E n \in [Partitions -> 0..MaxPoll] :
          /\ \A p \in Partitions : n[p] > 0 =>
                owner[p] = w /\ pos[w][p] + n[p] <= Len(log[p])
          /\ from' = [from EXCEPT ![w] = pos[w]]
          /\ upto' = [upto EXCEPT ![w] = [p \in Partitions |-> pos[w][p] + n[p]]]
          /\ pos' = [pos EXCEPT ![w] = [p \in Partitions |-> @[p] + n[p]]]
    /\ Batch(w)' # {}
    /\ Cardinality(Batch(w)') <= MaxPoll
    /\ todo' = [todo EXCEPT ![w] = Batch(w)']
    /\ attempts' = [attempts EXCEPT ![w] = 0]
    /\ pc' = [pc EXCEPT ![w] = "work"]
    /\ UNCHANGED <<log, committed, owner, revokes, cur, countVars, storeVars,
                   dlq, progress, faults>>

(* entryLocked(job).dead++; a record that names no job counts nowhere.     *)
AddDead(c, j) == IF j \in Jobs THEN [c EXCEPT ![j].dead = @ + 1] ELSE c

(* ProcessPoison counts the record before it is dead-lettered.             *)
CountPoison(w, r) ==
    /\ pc[w] = "work"
    /\ r \in First(Of(todo[w], "poison"))
    /\ cnt' = [cnt EXCEPT ![w] = AddDead(@, EventAt(r).job)]
    /\ cur' = [cur EXCEPT ![w] = r]
    /\ pc' = [pc EXCEPT ![w] = "poison"]
    /\ UNCHANGED <<log, committed, groupVars, from, upto, todo, attempts, pub,
                   snap, left, storeVars, dlq, progress, faults>>

PoisonDead(w) ==
    /\ pc[w] = "poison"
    /\ dlq' = dlq \cup {cur[w]}
    /\ todo' = [todo EXCEPT ![w] = @ \ {cur[w]}]
    /\ cur' = [cur EXCEPT ![w] = NoRec]
    /\ pc' = [pc EXCEPT ![w] = "work"]
    /\ UNCHANGED <<log, committed, groupVars, from, upto, attempts, countVars,
                   storeVars, progress, faults>>

(* Variant: the failed publish is logged and the batch goes on.            *)
PoisonDeadFails_Logged(w) ==
    /\ pc[w] = "poison"
    /\ Fault
    /\ todo' = [todo EXCEPT ![w] = @ \ {cur[w]}]
    /\ cur' = [cur EXCEPT ![w] = NoRec]
    /\ pc' = [pc EXCEPT ![w] = "work"]
    /\ UNCHANGED <<log, committed, groupVars, from, upto, attempts, countVars,
                   storeVars, dlq, progress>>

(* A publish that returns an error may still have been delivered.          *)
PoisonDeadFails(w) ==
    /\ pc[w] = "poison"
    /\ Fault
    /\ dlq' \in {dlq, dlq \cup {cur[w]}}
    /\ Exit(w)
    /\ UNCHANGED <<log, committed, groupVars, batchVars, countVars, storeVars,
                   progress>>

(* ProcessBatch starts once the poison is out of the way.                  *)
NoPoisonLeft(w) == pc[w] = "work" /\ Of(todo[w], "poison") = {}

InvalidDead(w, r) ==
    /\ NoPoisonLeft(w)
    /\ r \in First(Of(todo[w], "invalid"))
    /\ dlq' = dlq \cup {r}
    /\ todo' = [todo EXCEPT ![w] = @ \ {r}]
    /\ UNCHANGED <<log, committed, groupVars, pc, from, upto, cur, attempts,
                   countVars, storeVars, progress, faults>>

InvalidDeadFails(w, r) ==
    /\ NoPoisonLeft(w)
    /\ r \in First(Of(todo[w], "invalid"))
    /\ Fault
    /\ dlq' \in {dlq, dlq \cup {r}}
    /\ Exit(w)
    /\ UNCHANGED <<log, committed, groupVars, batchVars, countVars, storeVars,
                   progress>>

ReadyToWrite(w) ==
    /\ NoPoisonLeft(w)
    /\ Of(todo[w], "invalid") = {}
    /\ todo[w] # {}

(* Variant: the first occurrence of each identity wins (no DESC).          *)
WrittenOver_First(rows, S) ==
    [k \in Keys |->
        LET hits == {r[2] : r \in {q \in S : EventAt(q).key = k}}
        IN  IF hits = {} THEN rows[k]
            ELSE CHOOSE i \in hits : \A h \in hits : h >= i]

(* DISTINCT ON ... ORDER BY ord DESC: the last occurrence of each identity *)
(* in the batch, unconditionally, over whatever the row held.              *)
WrittenOver(rows, S) ==
    [k \in Keys |->
        LET hits == {r[2] : r \in {q \in S : EventAt(q).key = k}}
        IN  IF hits = {} THEN rows[k]
            ELSE CHOOSE i \in hits : \A h \in hits : h <= i]

WriteLands(w) ==
    /\ applied' = applied \cup todo[w]
    /\ catalog' = WrittenOver(catalog, todo[w])

UpsertBatch(w) ==
    /\ ReadyToWrite(w)
    /\ Of(todo[w], "unwritable") = {}
    /\ WriteLands(w)
    /\ todo' = [todo EXCEPT ![w] = {}]
    /\ UNCHANGED <<log, committed, groupVars, pc, from, upto, cur, attempts,
                   countVars, dlq, progress, faults>>

(* Variant: one attempt too many.                                          *)
Retry_Once_More(w, cancelled) ==
    /\ attempts' = [attempts EXCEPT ![w] = @ + 1]
    /\ IF cancelled \/ attempts[w] + 1 > writeRetryAttempts
       THEN Exit(w) ELSE UNCHANGED pc
    /\ UNCHANGED <<log, committed, groupVars, from, upto, todo, cur, countVars,
                   dlq, progress>>

(* Variant: the error of the last attempt is swallowed.                    *)
Retry_Swallowed(w, cancelled) ==
    /\ attempts' = [attempts EXCEPT ![w] = @ + 1]
    /\ IF cancelled \/ attempts[w] + 1 >= writeRetryAttempts
       THEN pc' = [pc EXCEPT ![w] = "flush"] ELSE UNCHANGED pc
    /\ UNCHANGED <<log, committed, groupVars, from, upto, todo, cur, countVars,
                   dlq, progress>>

(* After a failed write: the next attempt, or the error return when the    *)
(* attempts are used up or the context ends during the backoff.            *)
Retry(w, cancelled) ==
    /\ attempts' = [attempts EXCEPT ![w] = @ + 1]
    /\ IF cancelled \/ attempts[w] + 1 >= writeRetryAttempts
       THEN Exit(w) ELSE UNCHANGED pc
    /\ UNCHANGED <<log, committed, groupVars, from, upto, todo, cur, countVars,
                   dlq, progress>>

(* A transient failure: the statement may have committed all the same.     *)
UpsertFails(w) ==
    /\ ReadyToWrite(w)
    /\ Fault
    /\ \/ UNCHANGED storeVars
       \/ Of(todo[w], "unwritable") = {} /\ WriteLands(w)
    /\ \E cancelled \in BOOLEAN : Retry(w, cancelled)

(* The database refuses a value of the batch: every attempt fails.         *)
UpsertRefused(w) ==
    /\ ReadyToWrite(w)
    /\ Of(todo[w], "unwritable") # {}
    /\ Retry(w, FALSE)
    /\ UNCHANGED <<storeVars, faults>>

(* Variant: the offsets are committed before the progress flush.           *)
CountBatch_CommitFirst(w) ==
    /\ pc[w] = "work"
    /\ todo[w] = {}
    /\ pc' = [pc EXCEPT ![w] = "commit"]
    /\ UNCHANGED <<log, committed, groupVars, batchVars, countVars,
                   storeVars, dlq, progress, faults>>

(* The batch is adjudicated: count what was applied and what was invalid.  *)
CountBatch(w) ==
    /\ pc[w] = "work"
    /\ todo[w] = {}
    /\ cnt' = [cnt EXCEPT ![w] = [j \in Jobs |->
          [applied |-> @[j].applied
                         + Cardinality(OfJob(Validated(Batch(w)), j)),
           dead    |-> @[j].dead
                         + Cardinality(OfJob(Of(Batch(w), "invalid"), j))]]]
    /\ pc' = [pc EXCEPT ![w] = "flush"]
    /\ UNCHANGED <<log, committed, groupVars, batchVars, pub, snap, left,
                   storeVars, dlq, progress, faults>>

----------------------------------------------------------------------------
(* FlushProgress, called by the loop, by the deferred drain and by the     *)
(* flusher goroutine; only the two locked sections are atomic.             *)

FlushPoints == {"flush", "drain", "stop"}
ReportPoints == {"report", "drainReport", "stopReport"}

Reporting(s) == CASE s = "flush" -> "report"
                  [] s = "drain" -> "drainReport"
                  [] s = "stop"  -> "stopReport"

(* Entries whose totals changed since they were last published. An entry   *)
(* exists once it is non-zero, and is never published at zero, so the      *)
(* published flag says no more than cnt = pub does.                        *)
Pending(w) ==
    {[job |-> j, applied |-> cnt[w][j].applied, dead |-> cnt[w][j].dead] :
        j \in {i \in Jobs : cnt[w][i] # pub[w][i]}}

FlusherRuns(w) == pc[w] \notin {"new", "stop", "stopReport", "gone"}

CanReport(w, t) == IF t = "main" THEN pc[w] \in ReportPoints ELSE FlusherRuns(w)

TakeSnapshot(w, t) ==
    /\ snap' = [snap EXCEPT ![w][t] = Pending(w)]
    /\ left' = [left EXCEPT ![w][t] = Pending(w)]

MainSnapshot(w) ==
    /\ pc[w] \in FlushPoints
    /\ TakeSnapshot(w, "main")
    /\ pc' = [pc EXCEPT ![w] = Reporting(@)]
    /\ UNCHANGED <<log, committed, groupVars, batchVars, cnt, pub, storeVars,
                   dlq, progress, faults>>

FlusherSnapshot(w) ==
    /\ FlusherRuns(w)
    /\ snap[w]["flusher"] = {}
    /\ Pending(w) # {}
    /\ TakeSnapshot(w, "flusher")
    /\ UNCHANGED <<log, committed, groupVars, pc, batchVars, cnt, pub,
                   storeVars, dlq, progress, faults>>

ReportOf(w, c) == [worker |-> WorkerId[w], job |-> c.job,
                   applied |-> c.applied, dead |-> c.dead]

ReportProgress(w, t, c) ==
    /\ CanReport(w, t)
    /\ c \in left[w][t]
    /\ progress' = progress \cup {ReportOf(w, c)}
    /\ left' = [left EXCEPT ![w][t] = @ \ {c}]
    /\ UNCHANGED <<log, committed, groupVars, pc, batchVars, cnt, pub, snap,
                   storeVars, dlq, faults>>

(* Variant: the current totals are remembered, not those that were sent.   *)
MarkPublished_Current(w, t) ==
    pub' = [pub EXCEPT ![w] = [j \in Jobs |->
              IF \E c \in snap[w][t] : c.job = j THEN cnt[w][j] ELSE @[j]]]

(* The second locked section: remember what was published.                 *)
MarkPublished(w, t) ==
    pub' = [pub EXCEPT ![w] = [j \in Jobs |->
              IF \E c \in snap[w][t] : c.job = j
              THEN LET c == CHOOSE c \in snap[w][t] : c.job = j
                   IN  [applied |-> c.applied, dead |-> c.dead]
              ELSE @[j]]]

Flushed(w, t) == CanReport(w, t) /\ left[w][t] = {}

FlusherDone(w) ==
    /\ Flushed(w, "flusher")
    /\ snap[w]["flusher"] # {}
    /\ MarkPublished(w, "flusher")
    /\ snap' = [snap EXCEPT ![w]["flusher"] = {}]
    /\ UNCHANGED <<log, committed, groupVars, pc, batchVars, cnt, left,
                   storeVars, dlq, progress, faults>>

MainDone(w) ==
    /\ Flushed(w, "main")
    /\ pc[w] = "report"
    /\ MarkPublished(w, "main")
    /\ snap' = [snap EXCEPT ![w]["main"] = {}]
    /\ pc' = [pc EXCEPT ![w] = "commit"]
    /\ UNCHANGED <<log, committed, groupVars, batchVars, cnt, left, storeVars,
                   dlq, progress, faults>>

(* After the drain the process ends.                                       *)
DrainDone(w) ==
    /\ Flushed(w, "main")
    /\ pc[w] \in {"drainReport", "stopReport"}
    /\ Forget(w)
    /\ UNCHANGED <<log, committed, groupVars, storeVars, dlq, progress, faults>>

(* A report or the client flush returns an error; one report in flight may *)
(* have been delivered. Nothing is marked published.                       *)
DeliveredAnyway(w, t) ==
    \/ UNCHANGED progress
    \/ \E c \in left[w][t] : progress' = progress \cup {ReportOf(w, c)}

DropFlush(w, t) ==
    /\ snap' = [snap EXCEPT ![w][t] = {}]
    /\ left' = [left EXCEPT ![w][t] = {}]

FlusherFails(w) ==
    /\ CanReport(w, "flusher")
    /\ snap[w]["flusher"] # {}
    /\ Fault
    /\ DeliveredAnyway(w, "flusher")
    /\ DropFlush(w, "flusher")
    /\ UNCHANGED <<log, committed, groupVars, pc, batchVars, cnt, pub,
                   storeVars, dlq>>

(* Variant: the failed flush is logged and the offsets are committed.      *)
MainFails_Logged(w) ==
    /\ pc[w] = "report"
    /\ snap[w]["main"] # {}
    /\ Fault
    /\ DropFlush(w, "main")
    /\ pc' = [pc EXCEPT ![w] = "commit"]
    /\ UNCHANGED <<log, committed, groupVars, batchVars, cnt, pub, storeVars,
                   dlq, progress>>

MainFails(w) ==
    /\ pc[w] = "report"
    /\ snap[w]["main"] # {}
    /\ Fault
    /\ DeliveredAnyway(w, "main")
    /\ DropFlush(w, "main")
    /\ Exit(w)
    /\ UNCHANGED <<log, committed, groupVars, batchVars, cnt, pub, storeVars,
                   dlq>>

DrainFails(w) ==
    /\ pc[w] \in {"drainReport", "stopReport"}
    /\ snap[w]["main"] # {}
    /\ Fault
    /\ DeliveredAnyway(w, "main")
    /\ Forget(w)
    /\ UNCHANGED <<log, committed, groupVars, storeVars, dlq>>

----------------------------------------------------------------------------
(* CommitRecords: the end of the batch, for every partition it touched,    *)
(* whoever holds that partition by now.                                    *)

CommitLands(w) ==
    committed' = [p \in Partitions |->
        IF from[w][p] < upto[w][p] THEN upto[w][p] ELSE committed[p]]

Commit(w) ==
    /\ pc[w] = "commit"
    /\ CommitLands(w)
    /\ from' = [from EXCEPT ![w] = Zero]
    /\ upto' = [upto EXCEPT ![w] = Zero]
    /\ pc' = [pc EXCEPT ![w] = "poll"]
    /\ UNCHANGED <<log, groupVars, todo, cur, attempts, countVars, storeVars,
                   dlq, progress, faults>>

(* Variant: the failed commit is logged and the batch fetched again.       *)
CommitFails_Refetch(w) ==
    /\ pc[w] = "commit"
    /\ Fault
    /\ pos' = [pos EXCEPT ![w] = from[w]]
    /\ pc' = [pc EXCEPT ![w] = "poll"]
    /\ UNCHANGED <<log, committed, owner, revokes, batchVars, countVars,
                   storeVars, dlq, progress>>

CommitFails(w) ==
    /\ pc[w] = "commit"
    /\ Fault
    /\ CommitLands(w) \/ UNCHANGED committed
    /\ Exit(w)
    /\ UNCHANGED <<log, groupVars, batchVars, countVars, storeVars, dlq,
                   progress>>

----------------------------------------------------------------------------
FlushStep(w) ==
    \/ MainSnapshot(w) \/ MainDone(w) \/ DrainDone(w)
    \/ \E c \in left[w]["main"] : ReportProgress(w, "main", c)

FlusherStep(w) ==
    \/ FlusherSnapshot(w) \/ FlusherDone(w)
    \/ \E c \in left[w]["flusher"] : ReportProgress(w, "flusher", c)

BatchStep(w) ==
    \/ PoisonDead(w) \/ UpsertBatch(w) \/ UpsertRefused(w) \/ CountBatch(w)
    \/ \E r \in todo[w] : CountPoison(w, r) \/ InvalidDead(w, r)

(* What the main goroutine does when nothing goes wrong.                   *)
MainStep(w) == Start(w) \/ Poll(w) \/ BatchStep(w) \/ FlushStep(w) \/ Commit(w)

FaultStep(w) ==
    \/ Crash(w) \/ Shutdown(w) \/ PoisonDeadFails(w) \/ UpsertFails(w)
    \/ FlusherFails(w) \/ MainFails(w) \/ DrainFails(w) \/ CommitFails(w)
    \/ \E r \in todo[w] : InvalidDeadFails(w, r)

Next ==
    \/ \E e \in Events : Produce(e)
    \/ \E p \in Partitions, w \in Workers : Assign(p, w)
    \/ \E w \in Workers : MainStep(w) \/ FlusherStep(w) \/ FaultStep(w)

Spec == Init /\ [][Next]_vars

(* The goroutine runs, a supervisor starts processes, and the coordinator  *)
(* gives a dead member's partitions away.                                  *)
Fairness ==
    /\ \A w \in Workers : WF_vars(MainStep(w))
    /\ \A p \in Partitions :
          WF_vars(Orphan(p) /\ \E w \in Workers : Assign(p, w))

FairSpec == Spec /\ Fairness
----------------------------------------------------------------------------
(* Properties.                                                             *)

TypeOK ==
    /\ log \in [Partitions -> Seq(Events)]
    /\ \A p \in Partitions : Len(log[p]) <= MaxEvents
    /\ committed \in [Partitions -> 0..MaxEvents]
    /\ owner \in [Partitions -> Workers \cup {NoWorker}]
    /\ pos \in [Workers -> [Partitions -> 0..MaxEvents]]
    /\ from \in [Workers -> [Partitions -> 0..MaxEvents]]
    /\ upto \in [Workers -> [Partitions -> 0..MaxEvents]]
    /\ pc \in [Workers -> {"new", "poll", "work", "poison", "commit", "gone"}
                             \cup FlushPoints \cup ReportPoints]
    /\ todo \in [Workers -> SUBSET Recs]
    /\ cur \in [Workers -> Recs \cup {NoRec}]
    /\ attempts \in [Workers -> 0..writeRetryAttempts]
    /\ cnt \in [Workers -> [Jobs -> Count]]
    /\ pub \in [Workers -> [Jobs -> Count]]
    /\ snap \in [Workers -> [Threads -> SUBSET JobCount]]
    /\ left \in [Workers -> [Threads -> SUBSET JobCount]]
    /\ applied \subseteq Recs
    /\ catalog \in [Keys -> 0..MaxEvents]
    /\ dlq \subseteq Recs
    /\ progress \subseteq Report
    /\ faults \in 0..MaxFaults
    /\ revokes \in 0..MaxRevokes

Adjudicated == applied \cup dlq
Committed == {r \in Recs : r[2] <= committed[r[1]]}

(* An offset is committed only when its event is in the catalog or on the  *)
(* dead letter topic, whatever crashes, failed writes, failed publishes,   *)
(* lost commits and rebalances came before (service.go: "the               *)
(* commit-after-write rule").                                              *)
CommitAfterWrite == Committed \subseteq Adjudicated

(* The importer's fold: each worker identity's greatest counts, added up.  *)
Greatest(S) == IF S = {} THEN 0 ELSE Max(S)
Ledger(j) ==
    LET of(id) == {m \in progress : m.worker = id /\ m.job = j}
    IN  MapThenSumSet(LAMBDA id : Greatest({m.applied : m \in of(id)})
                                  + Greatest({m.dead : m \in of(id)}),
                      WorkerIds)

(* Progress before commit (worker.go:37-40): what the reports add up to    *)
(* for a job is never behind the job's committed events, so a death at any *)
(* point strands no counts.                                                *)
ProgressBeforeCommit ==
    \A j \in Jobs : Ledger(j) >= Cardinality(OfJob(Committed, j))

(* A death re-counts at most one batch (worker.go:40-42): beyond the       *)
(* committed events, the reports only hold the batch in hand of each live  *)
(* member and one batch of each process that ended.                        *)
RecountAtMostOneBatch ==
    MapThenSumSet(Ledger, Jobs)
        <= Cardinality(Committed)
           + MapThenSumSet(LAMBDA w : Cardinality(Batch(w)), Workers)
           + MaxPoll * Cardinality({w \in Workers : pc[w] = "gone"})

(* A committed event is never hidden by an older one: the row holds an     *)
(* event at least as new as the last committed event of its identity       *)
(* (products.go: "the last occurrence per identity wins, matching          *)
(* current-state semantics").                                              *)
CatalogCurrent ==
    \A r \in Of(Committed, "ok") : catalog[EventAt(r).key] >= r[2]

(* Totals are marked published only if a report carried exactly them, also *)
(* when both goroutines flush at once: a failed publish loses nothing, the *)
(* next flush sends the same totals again.                                 *)
PublishedWasReported ==
    \A w \in Workers, j \in Jobs :
        pub[w][j] # NoCount =>
            [worker |-> WorkerId[w], job |-> j, applied |-> pub[w][j].applied,
             dead |-> pub[w][j].dead] \in progress

(* At the commit point the current totals, all of them, are on the topic.  *)
ReportedAtCommit ==
    \A w \in Workers, j \in Jobs :
        pc[w] = "commit" /\ cnt[w][j] # NoCount =>
            [worker |-> WorkerId[w], job |-> j, applied |-> cnt[w][j].applied,
             dead |-> cnt[w][j].dead] \in progress

(* While one process survives, every event is eventually committed: no     *)
(* failure leaves the group stuck in front of an event.                    *)
EveryEventCommitted ==
    \A p \in Partitions : <>[](committed[p] = Len(log[p]))
=============================================================================
