-------------------------- MODULE ProgressTracker --------------------------
(***************************************************************************)
(* The progress tracker of the importer (internal/importjob/progress.go    *)
(* with ApplyProgress of internal/postgres/import_jobs.go): it consumes    *)
(* the catalog workers' cumulative snapshots from one partition of the     *)
(* progress topic, folds each of them with two SQL statements, and commits *)
(* the offsets of the ones that are settled.                               *)
(*                                                                         *)
(* The three counters of a snapshot travel and fold alike: one stands for  *)
(* them. A cancelled context makes the remaining folds and the commit      *)
(* fail, and the process ends: a shutdown is a Crash.                      *)
(***************************************************************************)
EXTENDS Integers, Sequences, FiniteSets, Functions

CONSTANTS
    Jobs, Workers,
    MaxPoll,        \* the consumer's MaxPollRecords
    MaxCount,       \* bound: rows one worker counts for one job
    MaxReports,     \* bound: length of the topic
    MaxFaults,      \* bound: store and broker errors
    MaxCrashes      \* bound: importer processes that end

ASSUME ConstantsAssumption ==
    /\ IsFiniteSet(Jobs)
    /\ IsFiniteSet(Workers)
    /\ {MaxPoll, MaxCount, MaxReports, MaxFaults, MaxCrashes} \subseteq Nat
    /\ MaxPoll > 0

Reports == [job : Jobs, worker : Workers, n : 1..MaxCount]

(* An undecodable payload, or a job id that is not a UUID.                 *)
Foreign == [n |-> 0]

VARIABLES
    count,      \* rows each worker has counted for each job
    topic,      \* the partition of import.progress.v1
    committed,  \* the group's committed offset: records before it are done
    up, pc,     \* the importer process and where its tracker is
    pos,        \* records fetched so far
    cur,        \* the record in hand
    upto,       \* the last record of the polled batch
    settled,    \* the last record apply() reported as settled, or 0
    ledger,     \* import_progress_workers
    shown,      \* processed_rows of import_jobs
    open,       \* the job's status is not terminal
    failed,     \* history: records whose last fold failed
    faults, crashes     \* counters of the bounds

trackerVars == <<pos, cur, upto, settled>>
jobVars == <<ledger, shown, open>>
sourceVars == <<count, topic>>
vars == <<sourceVars, committed, up, pc, trackerVars, jobVars, failed,
          faults, crashes>>

ByJobAndWorker(v) == [j \in Jobs |-> [w \in Workers |-> v]]

Init ==
    /\ count = ByJobAndWorker(0)
    /\ topic = <<>>
    /\ committed = 0
    /\ up = TRUE /\ pc = "poll"
    /\ pos = 0 /\ cur = 0 /\ upto = 0 /\ settled = 0
    /\ ledger = ByJobAndWorker(0)
    /\ shown = [j \in Jobs |-> 0]
    /\ open = [j \in Jobs |-> TRUE]
    /\ failed = {}
    /\ faults = 0 /\ crashes = 0

Fault == faults < MaxFaults /\ faults' = faults + 1

----------------------------------------------------------------------------
(* The catalog workers and the job's owner.                                *)

Count(j, w) ==
    /\ count[j][w] < MaxCount
    /\ count' = [count EXCEPT ![j][w] = @ + 1]
    /\ UNCHANGED <<topic, committed, up, pc, trackerVars, jobVars, failed,
                   faults, crashes>>

Append1(r) ==
    /\ Len(topic) < MaxReports
    /\ topic' = Append(topic, r)
    /\ UNCHANGED <<count, committed, up, pc, trackerVars, jobVars, failed,
                   faults, crashes>>

(* Two goroutines of a worker flush, and a refused flush is repeated: a    *)
(* snapshot may be late or a duplicate.                                    *)
Report(j, w) ==
    \E n \in 1..count[j][w] : Append1([job |-> j, worker |-> w, n |-> n])

ReportForeign == Append1(Foreign)

(* The importer ends the job (module ImportService).                       *)
Close(j) ==
    /\ open[j]
    /\ open' = [open EXCEPT ![j] = FALSE]
    /\ UNCHANGED <<sourceVars, committed, up, pc, trackerVars, ledger, shown,
                   failed, faults, crashes>>

----------------------------------------------------------------------------
(* Run: poll, apply record by record, commit what is settled.              *)

Poll ==
    /\ up /\ pc = "poll"
    /\ \E n \in 1..MaxPoll :
          /\ pos + n <= Len(topic)
          /\ upto' = pos + n
          /\ pos' = pos + n
    /\ cur' = pos + 1
    /\ settled' = 0
    /\ pc' = "upsert"
    /\ UNCHANGED <<sourceVars, committed, up, jobVars, failed, faults, crashes>>

(* After a record: the next one, or the commit when any is settled.        *)
NextRecord(last) ==
    /\ settled' = last
    /\ cur' = cur + 1
    /\ pc' = IF cur < upto THEN "upsert"
             ELSE IF last > 0 THEN "commit" ELSE "poll"
    /\ UNCHANGED <<pos, upto>>

Settle == NextRecord(cur) /\ failed' = failed \ {cur}

(* apply() returned false: logged, and the loop goes on.                   *)
Skip == NextRecord(settled) /\ failed' = failed \cup {cur}

InHand(place) == up /\ pc = place

SkipForeign ==
    /\ InHand("upsert")
    /\ topic[cur] = Foreign
    /\ Settle
    /\ UNCHANGED <<sourceVars, committed, up, jobVars, faults, crashes>>

Greatest(a, b) == IF a >= b THEN a ELSE b

(* Variant: the snapshot is added to the worker's row.                     *)
Upserted_Adds(r) ==
    [ledger EXCEPT ![r.job][r.worker] = @ + r.n]

(* INSERT ... ON CONFLICT DO UPDATE SET ... GREATEST(...)                  *)
Upserted(r) ==
    [ledger EXCEPT ![r.job][r.worker] = Greatest(@, r.n)]

Upsert ==
    /\ InHand("upsert")
    /\ topic[cur] # Foreign
    /\ ledger' = Upserted(topic[cur])
    /\ pc' = "sum"
    /\ UNCHANGED <<sourceVars, committed, up, trackerVars, shown, open, failed,
                   faults, crashes>>

(* The error may come back after the statement took effect.                *)
UpsertFails ==
    /\ InHand("upsert")
    /\ topic[cur] # Foreign
    /\ Fault
    /\ ledger' \in {ledger, Upserted(topic[cur])}
    /\ Skip
    /\ UNCHANGED <<sourceVars, committed, up, shown, open, crashes>>

(* UPDATE import_jobs ... WHERE status is not terminal.                    *)
Summed(j) ==
    IF open[j] THEN [shown EXCEPT ![j] = SumFunction(ledger[j])] ELSE shown

Sum ==
    /\ InHand("sum")
    /\ shown' = Summed(topic[cur].job)
    /\ Settle
    /\ UNCHANGED <<sourceVars, committed, up, ledger, open, faults, crashes>>

(* Variant: the record counts as settled once its row is in the ledger.    *)
SumFails_Settles ==
    /\ InHand("sum")
    /\ Fault
    /\ shown' \in {shown, Summed(topic[cur].job)}
    /\ Settle
    /\ UNCHANGED <<sourceVars, committed, up, ledger, open, crashes>>

SumFails ==
    /\ InHand("sum")
    /\ Fault
    /\ shown' \in {shown, Summed(topic[cur].job)}
    /\ Skip
    /\ UNCHANGED <<sourceVars, committed, up, ledger, open, crashes>>

(* CommitRecords commits the highest offset it is given.                   *)
Commit ==
    /\ InHand("commit")
    /\ committed' = settled
    /\ pc' = "poll"
    /\ UNCHANGED <<sourceVars, up, trackerVars, jobVars, failed, faults, crashes>>

(* Run returns the error and main exits; the commit may have landed.       *)
CommitFails ==
    /\ InHand("commit")
    /\ Fault
    /\ committed' \in {committed, settled}
    /\ up' = FALSE
    /\ UNCHANGED <<sourceVars, pc, trackerVars, jobVars, failed, crashes>>

----------------------------------------------------------------------------
(* Processes. A new one fetches from the committed offset.                 *)

Crash ==
    /\ up
    /\ crashes < MaxCrashes
    /\ crashes' = crashes + 1
    /\ up' = FALSE
    /\ UNCHANGED <<sourceVars, committed, pc, trackerVars, jobVars, failed,
                   faults>>

(* Variant: the new process fetches from where the topic ends.             *)
Restart_AtEnd ==
    /\ ~up
    /\ up' = TRUE
    /\ pc' = "poll"
    /\ pos' = Len(topic)
    /\ cur' = 0 /\ upto' = 0 /\ settled' = 0
    /\ UNCHANGED <<sourceVars, committed, jobVars, failed, faults, crashes>>

Restart ==
    /\ ~up
    /\ up' = TRUE
    /\ pc' = "poll"
    /\ pos' = committed
    /\ cur' = 0 /\ upto' = 0 /\ settled' = 0
    /\ UNCHANGED <<sourceVars, committed, jobVars, failed, faults, crashes>>

----------------------------------------------------------------------------
TrackerStep == Poll \/ SkipForeign \/ Upsert \/ Sum \/ Commit

Next ==
    \/ \E j \in Jobs, w \in Workers : Count(j, w) \/ Report(j, w)
    \/ \E j \in Jobs : Close(j)
    \/ ReportForeign
    \/ TrackerStep
    \/ UpsertFails \/ SumFails \/ CommitFails
    \/ Crash \/ Restart

Spec == Init /\ [][Next]_vars

(* The tracker's goroutine runs and a supervisor restarts the process.     *)
Fairness == WF_vars(TrackerStep) /\ WF_vars(Restart)

FairSpec == Spec /\ Fairness

----------------------------------------------------------------------------
(* Properties.                                                             *)

TypeOK ==
    /\ count \in [Jobs -> [Workers -> 0..MaxCount]]
    /\ topic \in Seq(Reports \cup {Foreign}) /\ Len(topic) <= MaxReports
    /\ committed \in 0..Len(topic)
    /\ up \in BOOLEAN
    /\ pc \in {"poll", "upsert", "sum", "commit"}
    /\ pos \in 0..Len(topic)
    /\ upto \in 0..Len(topic)
    /\ cur \in 0..(Len(topic) + 1)
    /\ settled \in 0..Len(topic)
    /\ ledger \in [Jobs -> [Workers -> 0..MaxCount]]
    /\ shown \in [Jobs -> Nat]
    /\ open \in [Jobs -> BOOLEAN]
    /\ failed \subseteq 1..MaxReports
    /\ faults \in 0..MaxFaults
    /\ crashes \in 0..MaxCrashes

IsReport(i) == i \in DOMAIN topic /\ topic[i] # Foreign

(* The job's counter behaves as ProgressCounter promises, whatever is      *)
(* duplicated, late, replayed after a crash or torn between the two        *)
(* statements (import_jobs.go:152-160).                                    *)
Counter == INSTANCE ProgressCounter
               WITH total <- [j \in Jobs |-> SumFunction(count[j])]
CounterIsHonest == Counter!Spec

(* What a committed report said is in the job's counter, unless its last   *)
(* fold failed: a crash between the two statements is repaired before the  *)
(* offset can be committed (import_jobs.go:157-158).                       *)
Told(j, w) ==
    {topic[i].n : i \in {k \in 1..committed :
        IsReport(k) /\ k \notin failed /\ topic[k].job = j /\ topic[k].worker = w}}

CommittedIsShown ==
    \A j \in Jobs : open[j] =>
        shown[j] >= SumFunction([w \in Workers |->
            CHOOSE n \in Told(j, w) \cup {0} : \A m \in Told(j, w) : n >= m])

(* The same without the excuse of a failed fold: "store failures leave the *)
(* offset uncommitted for redelivery" (progress.go:83-85).                 *)
Folded(i) == ledger[topic[i].job][topic[i].worker] >= topic[i].n

CommittedIsFolded == \A i \in 1..committed : IsReport(i) => Folded(i)

(* Every report on the topic reaches the ledger in the end, whatever       *)
(* crashes on the way, unless its fold failed.                             *)
EveryReportFolded ==
    \A i \in 1..MaxReports :
        IsReport(i) ~> i \in failed \/ (IsReport(i) /\ Folded(i))
=============================================================================
