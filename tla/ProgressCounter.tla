-------------------------- MODULE ProgressCounter --------------------------
(* What an import job promises to whoever reads its processed and dead     *)
(* rows (postgres/import_jobs.go:152-160, events/progress.go:5-11): the    *)
(* number never exceeds what the catalog workers have counted, it only     *)
(* grows, and it stands still once the job is over.                        *)
EXTENDS Naturals

CONSTANT Jobs

VARIABLES
    total,      \* rows the catalog has counted for each job
    shown,      \* rows the job record shows
    open        \* the job is not over

vars == <<total, shown, open>>

Init ==
    /\ total = [j \in Jobs |-> 0]
    /\ shown = [j \in Jobs |-> 0]
    /\ open = [j \in Jobs |-> TRUE]

Count(j) ==
    /\ total'[j] \in Nat /\ total'[j] > total[j]
    /\ total' = [total EXCEPT ![j] = total'[j]]
    /\ UNCHANGED <<shown, open>>

Show(j) ==
    /\ open[j]
    /\ \E n \in shown[j]..total[j] : shown' = [shown EXCEPT ![j] = n]
    /\ UNCHANGED <<total, open>>

Close(j) ==
    /\ open[j]
    /\ open' = [open EXCEPT ![j] = FALSE]
    /\ UNCHANGED <<total, shown>>

Next == \E j \in Jobs : Count(j) \/ Show(j) \/ Close(j)

Spec == Init /\ [][Next]_vars
=============================================================================
