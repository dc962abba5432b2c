------------------------ MODULE CatalogWorkerProofs ------------------------
(***************************************************************************)
(* What the catalog worker guarantees for any number of processes,         *)
(* partitions, jobs and events, and for any bound on faults and            *)
(* rebalances.                                                             *)
(***************************************************************************)
EXTENDS CatalogWorker, FiniteSetTheorems, TLAPS

----------------------------------------------------------------------------
(* Facts about the operators of the model.                                 *)

(* A non-empty set of places has a last one, so the row that an upsert     *)
(* leaves is well defined.                                                 *)
LEMMA LastExists ==
    ASSUME NEW n \in Nat, NEW S \in SUBSET (0..n), S # {}
    PROVE  \E i \in S : \A h \in S : h <= i
<1> DEFINE D == {d \in Nat : \E i \in S : d = n - i}
           R == OpToRel(<, Nat)
<1>1. \A x, y \in Nat : <<x, y>> \in R <=> x < y
  BY DEF OpToRel
<1>2. D \subseteq Nat /\ D # {}
  <2>1. PICK i \in S : TRUE
    OBVIOUS
  <2>2. n - i \in D
    BY <2>1
  <2> QED BY <2>2
<1>3. IsWellFoundedOn(R, Nat)
  BY NatLessThanWellFounded
<1> HIDE DEF D, R
<1>4. PICK d \in D : \A e \in D : <<e, d>> \notin R
  BY <1>2, <1>3, WFMin
<1>5. PICK i \in S : d = n - i
  BY <1>4 DEF D
<1>6. ASSUME NEW h \in S PROVE h <= i
  <2>1. n - h \in D /\ n - h \in Nat /\ d \in Nat
    BY <1>4 DEF D
  <2>2. ~(n - h < d)
    BY <2>1, <1>1, <1>4
  <2> QED BY <2>2, <1>5
<1> QED BY <1>6

(* Records are finite in number, hence so is every set of them, and its    *)
(* size is a natural number.                                               *)
LEMMA RecsFinite ==
    ASSUME NEW S \in SUBSET Recs
    PROVE  IsFiniteSet(S) /\ Cardinality(S) \in Nat
<1>1. IsFiniteSet(1..MaxEvents)
  BY FS_Interval, ConstantsAssumption
<1>2. IsFiniteSet(Recs)
  BY <1>1, FS_Product, ConstantsAssumption DEF Recs
<1>3. IsFiniteSet(S)
  BY <1>2, FS_Subset
<1> QED BY <1>3, FS_CardinalityType

LEMMA BatchInRecs ==
    ASSUME NEW w \in Workers
    PROVE  Batch(w) \in SUBSET Recs
BY DEF Batch

LEMMA WrittenOverType ==
    ASSUME NEW rows \in [Keys -> 0..MaxEvents], NEW S \in SUBSET Recs
    PROVE  WrittenOver(rows, S) \in [Keys -> 0..MaxEvents]
<1> DEFINE hits(k) == {r[2] : r \in {q \in S : EventAt(q).key = k}}
<1>1. ASSUME NEW k \in Keys, hits(k) # {}
      PROVE  (CHOOSE i \in hits(k) : \A h \in hits(k) : h <= i) \in 0..MaxEvents
  <2>1. hits(k) \in SUBSET (0..MaxEvents)
    BY ConstantsAssumption DEF Recs
  <2>2. \E i \in hits(k) : \A h \in hits(k) : h <= i
    BY <1>1, <2>1, LastExists, ConstantsAssumption
  <2> HIDE DEF hits
  <2> QED BY <2>1, <2>2
<1> QED BY <1>1 DEF WrittenOver

----------------------------------------------------------------------------
(* Type correctness. TypeOK alone is not inductive: that the record being  *)
(* dead-lettered is one of the batch, and that a write attempt is left     *)
(* while the batch is being worked on, are facts about the loop.           *)

InHand ==
    \A w \in Workers :
        /\ pc[w] = "poison" => cur[w] \in todo[w]
        /\ pc[w] \in {"work", "poison"} => attempts[w] < writeRetryAttempts

TypeInv == TypeOK /\ InHand

LEMMA TypeInit == Init => TypeOK
<1> SUFFICES ASSUME Init PROVE TypeOK
  OBVIOUS
<1> QED
  BY ConstantsAssumption
  DEF Init, TypeOK, Zero, Idle, NoCount, Count, Threads, Recs

(* The environment: production and assignment.                             *)
LEMMA TypeEnvironment ==
    ASSUME TypeOK,
           \/ \E e \in Events : Produce(e)
           \/ \E p \in Partitions, w \in Workers : Assign(p, w)
    PROVE  TypeOK'
<1>1. ASSUME NEW e \in Events, Produce(e) PROVE TypeOK'
  <2>1. PartitionOf[e.key] \in Partitions
    BY ConstantsAssumption DEF Event
  <2> DEFINE p == PartitionOf[e.key]
  <2>2. /\ p \in Partitions
        /\ Len(log[p]) < MaxEvents
        /\ log' = [log EXCEPT ![p] = Append(log[p], e)]
    BY <1>1, <2>1 DEF Produce
  <2> HIDE DEF p
  <2>3. log[p] \in Seq(Events)
    BY <2>2 DEF TypeOK
  <2>4. Append(log[p], e) \in Seq(Events) /\ Len(Append(log[p], e)) <= MaxEvents
    BY <2>2, <2>3, ConstantsAssumption
  <2>5. /\ log' \in [Partitions -> Seq(Events)]
        /\ \A q \in Partitions : Len(log'[q]) <= MaxEvents
    BY <2>2, <2>4 DEF TypeOK
  <2> QED
    BY <1>1, <2>5 DEF Produce, TypeOK, groupVars, batchVars, countVars, storeVars
<1>2. ASSUME NEW p \in Partitions, NEW w \in Workers, Assign(p, w)
      PROVE  TypeOK'
  BY <1>2, ConstantsAssumption
  DEF Assign, TypeOK, batchVars, countVars, storeVars
<1> QED BY <1>1, <1>2

(* What a process leaves behind when it ends has the right types.          *)
LEMMA ForgetType ==
    ASSUME TypeOK, NEW w \in Workers, Forget(w)
    PROVE  /\ pc' \in [Workers -> {"new", "poll", "work", "poison", "commit", "gone"}
                                    \cup FlushPoints \cup ReportPoints]
           /\ from' \in [Workers -> [Partitions -> 0..MaxEvents]]
           /\ upto' \in [Workers -> [Partitions -> 0..MaxEvents]]
           /\ todo' \in [Workers -> SUBSET Recs]
           /\ cur' \in [Workers -> Recs \cup {NoRec}]
           /\ attempts' \in [Workers -> 0..writeRetryAttempts]
           /\ cnt' \in [Workers -> [Jobs -> Count]]
           /\ pub' \in [Workers -> [Jobs -> Count]]
           /\ snap' \in [Workers -> [Threads -> SUBSET JobCount]]
           /\ left' \in [Workers -> [Threads -> SUBSET JobCount]]
BY ConstantsAssumption DEF Forget, TypeOK, Zero, Idle, NoCount, Count

LEMMA ReportType ==
    ASSUME NEW w \in Workers, NEW c \in JobCount
    PROVE  ReportOf(w, c) \in Report
BY ConstantsAssumption DEF ReportOf, JobCount, Report

LEMMA CommitType ==
    ASSUME TypeOK, NEW w \in Workers, CommitLands(w)
    PROVE  committed' \in [Partitions -> 0..MaxEvents]
<1>1. \A p \in Partitions :
         upto[w][p] \in 0..MaxEvents /\ committed[p] \in 0..MaxEvents
  BY DEF TypeOK
<1> QED BY <1>1 DEF CommitLands

LEMMA AddDeadType ==
    ASSUME NEW c \in [Jobs -> Count], NEW j
    PROVE  AddDead(c, j) \in [Jobs -> Count]
<1>1. CASE j \in Jobs
  <2>1. [c[j] EXCEPT !.dead = @ + 1] \in Count
    BY <1>1 DEF Count
  <2> QED BY <1>1, <2>1 DEF AddDead
<1>2. CASE j \notin Jobs
  BY <1>2 DEF AddDead
<1> QED BY <1>1, <1>2

(* The fetch loop and the adjudication of a batch.                         *)
LEMMA TypeBatch ==
    ASSUME TypeInv, NEW w \in Workers,
           Start(w) \/ Poll(w) \/ BatchStep(w) \/ Commit(w)
    PROVE  TypeOK'
<1> USE DEF groupVars, batchVars, countVars, storeVars
<1> TypeOK /\ InHand
  BY DEF TypeInv
<1>1. CASE Start(w)
  BY <1>1 DEF Start, TypeOK
<1>2. CASE Poll(w)
  <2>1. PICK n \in [Partitions -> 0..MaxPoll] :
          /\ \A p \in Partitions : n[p] > 0 =>
                owner[p] = w /\ pos[w][p] + n[p] <= Len(log[p])
          /\ from' = [from EXCEPT ![w] = pos[w]]
          /\ upto' = [upto EXCEPT ![w] = [p \in Partitions |-> pos[w][p] + n[p]]]
          /\ pos' = [pos EXCEPT ![w] = [p \in Partitions |-> @[p] + n[p]]]
    BY <1>2 DEF Poll
  <2>2. ASSUME NEW p \in Partitions PROVE pos[w][p] + n[p] \in 0..MaxEvents
    <3>1. /\ pos[w][p] \in 0..MaxEvents /\ n[p] \in 0..MaxPoll
          /\ Len(log[p]) \in Nat /\ Len(log[p]) <= MaxEvents
      BY DEF TypeOK
    <3>2. n[p] > 0 => pos[w][p] + n[p] <= Len(log[p])
      BY <2>1
    <3> QED BY <3>1, <3>2, ConstantsAssumption
  <2>3. todo' = [todo EXCEPT ![w] = Batch(w)'] /\ Batch(w)' \in SUBSET Recs
    BY <1>2 DEF Poll, Batch
  <2> DEFINE reach == [p \in Partitions |-> pos[w][p] + n[p]]
  <2>4. /\ reach \in [Partitions -> 0..MaxEvents]
        /\ upto' = [upto EXCEPT ![w] = reach]
        /\ pos' = [pos EXCEPT ![w] = reach]
    BY <2>1, <2>2 DEF TypeOK
  <2> HIDE DEF reach
  <2>5. /\ from' \in [Workers -> [Partitions -> 0..MaxEvents]]
        /\ upto' \in [Workers -> [Partitions -> 0..MaxEvents]]
        /\ pos' \in [Workers -> [Partitions -> 0..MaxEvents]]
    BY <2>1, <2>4 DEF TypeOK
  <2>6. /\ attempts' = [attempts EXCEPT ![w] = 0]
        /\ pc' = [pc EXCEPT ![w] = "work"]
        /\ UNCHANGED <<log, committed, owner, revokes, cur, countVars,
                       storeVars, dlq, progress, faults>>
    BY <1>2 DEF Poll
  <2> QED
    BY <2>3, <2>5, <2>6, ConstantsAssumption DEF TypeOK
<1>3. CASE PoisonDead(w)
  <2>1. cur[w] \in Recs
    BY <1>3 DEF PoisonDead, InHand, TypeOK
  <2> QED BY <1>3, <2>1 DEF PoisonDead, TypeOK
<1>4. CASE UpsertBatch(w)
  BY <1>4, WrittenOverType DEF UpsertBatch, WriteLands, TypeOK
<1>5. CASE UpsertRefused(w)
  <2>1. attempts[w] + 1 \in 0..writeRetryAttempts
    BY <1>5, ConstantsAssumption
    DEF UpsertRefused, ReadyToWrite, NoPoisonLeft, InHand, TypeOK
  <2> QED
    BY <1>5, <2>1 DEF UpsertRefused, Retry, Exit, TypeOK, FlushPoints
<1>6. CASE CountBatch(w)
  <2>1. ASSUME NEW j \in Jobs
        PROVE  /\ Cardinality(OfJob(Validated(Batch(w)), j)) \in Nat
               /\ Cardinality(OfJob(Of(Batch(w), "invalid"), j)) \in Nat
    BY BatchInRecs, RecsFinite DEF OfJob, Of, Validated
  <2> QED
    BY <1>6, <2>1 DEF CountBatch, TypeOK, Count, FlushPoints
<1>7. CASE \E r \in todo[w] : CountPoison(w, r) \/ InvalidDead(w, r)
  <2>1. ASSUME NEW r \in todo[w], CountPoison(w, r) PROVE TypeOK'
    <3>1. cnt[w] \in [Jobs -> Count]
      BY DEF TypeOK
    <3>2. AddDead(cnt[w], EventAt(r).job) \in [Jobs -> Count]
      BY <3>1, AddDeadType
    <3>3. cnt' \in [Workers -> [Jobs -> Count]]
      BY <2>1, <3>2 DEF CountPoison, TypeOK
    <3>4. r \in Recs
      BY DEF TypeOK
    <3> QED BY <2>1, <3>3, <3>4 DEF CountPoison, TypeOK
  <2>2. ASSUME NEW r \in todo[w], InvalidDead(w, r) PROVE TypeOK'
    BY <2>2 DEF InvalidDead, TypeOK
  <2> QED BY <1>7, <2>1, <2>2
<1>8. CASE Commit(w)
  <2>1. committed' \in [Partitions -> 0..MaxEvents]
    BY <1>8, CommitType DEF Commit
  <2>2. Zero \in [Partitions -> 0..MaxEvents]
    BY ConstantsAssumption DEF Zero
  <2> HIDE DEF Zero
  <2> QED BY <1>8, <2>1, <2>2 DEF Commit, TypeOK
<1> QED BY <1>1, <1>2, <1>3, <1>4, <1>5, <1>6, <1>7, <1>8 DEF BatchStep

(* FlushProgress, from either goroutine.                                   *)
LEMMA TypeFlush ==
    ASSUME TypeInv, NEW w \in Workers,
           FlushStep(w) \/ FlusherStep(w)
    PROVE  TypeOK'
<1> USE DEF groupVars, batchVars, countVars, storeVars
<1> TypeOK
  BY DEF TypeInv
<1>1. Pending(w) \in SUBSET JobCount
  BY DEF Pending, TypeOK, Count, JobCount
<1>2. ASSUME NEW t \in Threads, TakeSnapshot(w, t)
      PROVE  /\ snap' \in [Workers -> [Threads -> SUBSET JobCount]]
             /\ left' \in [Workers -> [Threads -> SUBSET JobCount]]
  BY <1>1, <1>2 DEF TakeSnapshot, TypeOK
<1>3. ASSUME NEW t \in Threads, MarkPublished(w, t)
      PROVE  pub' \in [Workers -> [Jobs -> Count]]
  <2>1. ASSUME NEW j \in Jobs, \E c \in snap[w][t] : c.job = j
        PROVE  LET c == CHOOSE c \in snap[w][t] : c.job = j
               IN  [applied |-> c.applied, dead |-> c.dead] \in Count
    <3> DEFINE d == CHOOSE c \in snap[w][t] : c.job = j
    <3>1. d \in snap[w][t]
      BY <2>1
    <3>2. d \in JobCount
      BY <3>1 DEF TypeOK
    <3> QED BY <3>2 DEF JobCount, Count
  <2>2. \A j \in Jobs : pub[w][j] \in Count
    BY DEF TypeOK
  <2> QED BY <1>3, <2>1, <2>2 DEF MarkPublished, TypeOK
<1>4. ASSUME NEW t \in Threads, NEW c \in left[w][t], ReportProgress(w, t, c)
      PROVE  TypeOK'
  <2>1. ReportOf(w, c) \in Report
    BY ReportType DEF TypeOK
  <2>2. progress' \subseteq Report
    BY <1>4, <2>1 DEF ReportProgress, TypeOK
  <2>3. left' \in [Workers -> [Threads -> SUBSET JobCount]]
    BY <1>4 DEF ReportProgress, TypeOK
  <2> QED BY <1>4, <2>2, <2>3 DEF ReportProgress, TypeOK
<1>5. "main" \in Threads /\ "flusher" \in Threads
  BY DEF Threads
<1>6. CASE MainSnapshot(w)
  <2>1. Reporting(pc[w]) \in ReportPoints
    BY <1>6 DEF MainSnapshot, FlushPoints, Reporting, ReportPoints
  <2> QED BY <1>6, <2>1, <1>2, <1>5 DEF MainSnapshot, TypeOK
<1>7. CASE MainDone(w)
  <2>1. snap' \in [Workers -> [Threads -> SUBSET JobCount]]
    BY <1>7 DEF MainDone, TypeOK
  <2> QED BY <1>7, <2>1, <1>3, <1>5 DEF MainDone, TypeOK
<1>8. CASE DrainDone(w)
  BY <1>8, ForgetType DEF DrainDone, TypeOK
<1>9. CASE FlusherSnapshot(w)
  BY <1>9, <1>2, <1>5 DEF FlusherSnapshot, TypeOK
<1>10. CASE FlusherDone(w)
  <2>1. snap' \in [Workers -> [Threads -> SUBSET JobCount]]
    BY <1>10 DEF FlusherDone, TypeOK
  <2> QED BY <1>10, <2>1, <1>3, <1>5 DEF FlusherDone, TypeOK
<1> QED
  BY <1>4, <1>5, <1>6, <1>7, <1>8, <1>9, <1>10 DEF FlushStep, FlusherStep

(* Everything that goes wrong.                                             *)
LEMMA TypeFault ==
    ASSUME TypeInv, NEW w \in Workers, FaultStep(w)
    PROVE  TypeOK'
<1> USE DEF groupVars, batchVars, countVars, storeVars
<1> TypeOK /\ InHand
  BY DEF TypeInv
<1>1. ASSUME Fault PROVE faults' \in 0..MaxFaults
  BY <1>1, ConstantsAssumption DEF Fault, TypeOK
<1>2. ASSUME Exit(w)
      PROVE  pc' \in [Workers -> {"new", "poll", "work", "poison", "commit", "gone"}
                                  \cup FlushPoints \cup ReportPoints]
  BY <1>2 DEF Exit, TypeOK, FlushPoints
<1>3. ASSUME NEW t \in Threads, DropFlush(w, t)
      PROVE  /\ snap' \in [Workers -> [Threads -> SUBSET JobCount]]
             /\ left' \in [Workers -> [Threads -> SUBSET JobCount]]
  BY <1>3 DEF DropFlush, TypeOK
<1>4. ASSUME NEW t \in Threads, DeliveredAnyway(w, t)
      PROVE  progress' \subseteq Report
  <2>1. CASE UNCHANGED progress
    BY <2>1 DEF TypeOK
  <2>2. ASSUME NEW c \in left[w][t], progress' = progress \cup {ReportOf(w, c)}
        PROVE  progress' \subseteq Report
    BY <2>2, ReportType DEF TypeOK
  <2> QED BY <1>4, <2>1, <2>2 DEF DeliveredAnyway
<1>5. "main" \in Threads /\ "flusher" \in Threads
  BY DEF Threads
<1>6. CASE Crash(w)
  BY <1>6, <1>1, ForgetType DEF Crash, TypeOK
<1>7. CASE Shutdown(w)
  BY <1>7, <1>1 DEF Shutdown, TypeOK, FlushPoints
<1>8. CASE PoisonDeadFails(w)
  <2>1. dlq' \subseteq Recs
    BY <1>8 DEF PoisonDeadFails, InHand, TypeOK
  <2> QED BY <1>8, <2>1, <1>1, <1>2 DEF PoisonDeadFails, TypeOK
<1>9. CASE UpsertFails(w)
  <2>1. applied' \subseteq Recs /\ catalog' \in [Keys -> 0..MaxEvents]
    BY <1>9, WrittenOverType DEF UpsertFails, WriteLands, TypeOK
  <2>2. PICK cancelled \in BOOLEAN : Retry(w, cancelled)
    BY <1>9 DEF UpsertFails
  <2>3. attempts[w] + 1 \in 0..writeRetryAttempts
    BY <1>9, ConstantsAssumption
    DEF UpsertFails, ReadyToWrite, NoPoisonLeft, InHand, TypeOK
  <2>4. attempts' \in [Workers -> 0..writeRetryAttempts]
    BY <2>2, <2>3 DEF Retry, TypeOK
  <2>5. pc' \in [Workers -> {"new", "poll", "work", "poison", "commit", "gone"}
                             \cup FlushPoints \cup ReportPoints]
    BY <2>2, <1>2 DEF Retry, TypeOK
  <2>6. faults' \in 0..MaxFaults
    BY <1>9, <1>1 DEF UpsertFails
  <2> QED BY <2>1, <2>2, <2>4, <2>5, <2>6 DEF Retry, TypeOK
<1>10. CASE FlusherFails(w)
  BY <1>10, <1>1, <1>3, <1>4, <1>5 DEF FlusherFails, TypeOK
<1>11. CASE MainFails(w)
  BY <1>11, <1>1, <1>2, <1>3, <1>4, <1>5 DEF MainFails, TypeOK
<1>12. CASE DrainFails(w)
  BY <1>12, <1>1, <1>4, <1>5, ForgetType DEF DrainFails, TypeOK
<1>13. CASE CommitFails(w)
  BY <1>13, <1>1, <1>2, CommitType DEF CommitFails, TypeOK
<1>14. ASSUME NEW r \in todo[w], InvalidDeadFails(w, r)
       PROVE  TypeOK'
  <2>1. dlq' \subseteq Recs
    BY <1>14 DEF InvalidDeadFails, TypeOK
  <2> QED BY <1>14, <2>1, <1>1, <1>2 DEF InvalidDeadFails, TypeOK
<1> QED
  BY <1>6, <1>7, <1>8, <1>9, <1>10, <1>11, <1>12, <1>13, <1>14 DEF FaultStep

(* The record in hand and the attempts left.                               *)
LEMMA InHandStep ==
    ASSUME TypeInv, [Next]_vars
    PROVE  InHand'
<1> USE DEF groupVars, batchVars, countVars, storeVars
<1> TypeOK /\ InHand
  BY DEF TypeInv
<1>1. CASE UNCHANGED vars
  BY <1>1 DEF vars, InHand
<1>2. ASSUME NEW e \in Events, Produce(e) PROVE InHand'
  BY <1>2 DEF Produce, InHand
<1>3. ASSUME NEW p \in Partitions, NEW w \in Workers, Assign(p, w)
      PROVE  InHand'
  BY <1>3 DEF Assign, InHand
<1>4. ASSUME NEW w \in Workers, MainStep(w) PROVE InHand'
  <2>1. CASE Start(w)
    BY <2>1 DEF Start, InHand, TypeOK
  <2>2. CASE Poll(w)
    BY <2>2, ConstantsAssumption DEF Poll, InHand, TypeOK
  <2>3. CASE PoisonDead(w)
    BY <2>3 DEF PoisonDead, InHand, TypeOK
  <2>4. CASE UpsertBatch(w)
    BY <2>4 DEF UpsertBatch, ReadyToWrite, NoPoisonLeft, InHand, TypeOK
  <2>5. CASE UpsertRefused(w)
    <3>1. pc[w] = "work" /\ Retry(w, FALSE)
      BY <2>5 DEF UpsertRefused, ReadyToWrite, NoPoisonLeft
    <3> QED BY <3>1, ConstantsAssumption DEF Retry, Exit, InHand, TypeOK
  <2>6. CASE CountBatch(w)
    BY <2>6 DEF CountBatch, InHand, TypeOK
  <2>7. ASSUME NEW r \in todo[w], CountPoison(w, r) PROVE InHand'
    BY <2>7 DEF CountPoison, InHand, TypeOK
  <2>8. ASSUME NEW r \in todo[w], InvalidDead(w, r) PROVE InHand'
    BY <2>8 DEF InvalidDead, NoPoisonLeft, InHand, TypeOK
  <2>9. CASE Commit(w)
    BY <2>9 DEF Commit, InHand, TypeOK
  <2>10. CASE MainSnapshot(w)
    BY <2>10 DEF MainSnapshot, Reporting, FlushPoints, InHand, TypeOK
  <2>11. CASE MainDone(w)
    BY <2>11 DEF MainDone, InHand, TypeOK
  <2>12. CASE DrainDone(w)
    BY <2>12 DEF DrainDone, Forget, InHand, TypeOK
  <2>13. ASSUME NEW c \in left[w]["main"], ReportProgress(w, "main", c)
         PROVE  InHand'
    BY <2>13 DEF ReportProgress, InHand
  <2> QED
    BY <1>4, <2>1, <2>2, <2>3, <2>4, <2>5, <2>6, <2>7, <2>8, <2>9, <2>10,
       <2>11, <2>12, <2>13
    DEF MainStep, BatchStep, FlushStep
<1>5. ASSUME NEW w \in Workers, FlusherStep(w) PROVE InHand'
  BY <1>5 DEF FlusherStep, FlusherSnapshot, FlusherDone, ReportProgress, InHand
<1>6. ASSUME NEW w \in Workers, FaultStep(w) PROVE InHand'
  <2>1. ASSUME Exit(w), UNCHANGED <<todo, cur>>,
               \A v \in Workers \ {w} : attempts'[v] = attempts[v]
        PROVE  InHand'
    BY <2>1 DEF Exit, InHand, TypeOK
  <2>2. ASSUME Forget(w) PROVE InHand'
    BY <2>2 DEF Forget, InHand, TypeOK
  <2>3. CASE Shutdown(w)
    BY <2>3 DEF Shutdown, InHand, TypeOK
  <2>4. CASE UpsertFails(w)
    <3>1. pc[w] = "work"
      BY <2>4 DEF UpsertFails, ReadyToWrite, NoPoisonLeft
    <3>2. PICK cancelled \in BOOLEAN : Retry(w, cancelled)
      BY <2>4 DEF UpsertFails
    <3> QED BY <3>1, <3>2, ConstantsAssumption DEF Retry, Exit, InHand, TypeOK
  <2>5. CASE FlusherFails(w)
    BY <2>5 DEF FlusherFails, InHand
  <2> QED
    BY <1>6, <2>1, <2>2, <2>3, <2>4, <2>5
    DEF FaultStep, Crash, PoisonDeadFails, MainFails, DrainFails, CommitFails,
        InvalidDeadFails
<1> QED
  BY <1>1, <1>2, <1>3, <1>4, <1>5, <1>6 DEF Next

LEMMA TypeStep == TypeInv /\ [Next]_vars => TypeInv'
<1> SUFFICES ASSUME TypeInv, [Next]_vars PROVE TypeInv'
  OBVIOUS
<1>1. CASE UNCHANGED vars
  BY <1>1 DEF TypeInv, TypeOK, InHand, vars, groupVars, batchVars, countVars,
              storeVars
<1>2. CASE Next
  <2>1. TypeOK'
    BY <1>2, TypeEnvironment, TypeBatch, TypeFlush, TypeFault
    DEF Next, MainStep, TypeInv
  <2> QED BY <2>1, InHandStep DEF TypeInv
<1> QED BY <1>1, <1>2

LEMMA TypeInvariance == Spec => []TypeInv
<1>1. Init => TypeInv
  BY TypeInit DEF Init, TypeInv, InHand
<1> QED BY <1>1, TypeStep, PTL DEF Spec

(* In every reachable state the variables have their types.                *)
THEOREM TypeCorrect == Spec => []TypeOK
BY TypeInvariance, PTL DEF TypeInv

----------------------------------------------------------------------------
(* Commit after write. What the committed offsets owe is carried through   *)
(* three places: the records before the batch in hand, the batch itself,   *)
(* and how far each member has fetched.                                    *)

(* Where nothing of a batch is left to adjudicate.                         *)
Settled == {"new", "poll", "flush", "report", "commit"}

BeforeBatch ==
    \A w \in Workers, r \in Recs :
        r[2] <= from[w][r[1]] => r \in Adjudicated

InBatch == \A w \in Workers : Batch(w) \subseteq Adjudicated \cup todo[w]

NothingLeft == \A w \in Workers : pc[w] \in Settled => todo[w] = {}

Fetched ==
    \A w \in Workers, r \in Recs :
        /\ pc[w] # "gone"
        /\ r[2] <= pos[w][r[1]]
        => r \in Adjudicated \cup Batch(w)

CommitInv ==
    CommitAfterWrite /\ BeforeBatch /\ InBatch /\ NothingLeft /\ Fetched

LEMMA CommitInit == Init => CommitInv
<1> SUFFICES ASSUME Init PROVE CommitInv
  OBVIOUS
<1>1. \A r \in Recs : r[1] \in Partitions /\ r[2] \in Nat /\ r[2] > 0
  BY ConstantsAssumption DEF Recs
<1>2. \A r \in Recs : ~(r[2] <= Zero[r[1]])
  BY <1>1 DEF Zero
<1> HIDE DEF Zero
<1> QED
  BY <1>2
  DEF Init, CommitInv, CommitAfterWrite, Committed, BeforeBatch, InBatch,
      Batch, NothingLeft, Fetched

(* A step that moves no offset and forgets no adjudication.                *)
LEMMA CommitStable ==
    ASSUME CommitInv,
           UNCHANGED <<committed, pos, from, upto>>,
           Adjudicated \subseteq Adjudicated',
           \A w \in Workers : todo[w] \subseteq todo'[w] \cup Adjudicated',
           \A w \in Workers : pc'[w] \in Settled => todo'[w] = {},
           \A w \in Workers : pc[w] = "gone" => pc'[w] = "gone"
    PROVE  CommitInv'
<1>1. Committed' = Committed /\ \A w \in Workers : Batch(w)' = Batch(w)
  BY DEF Committed, Batch
<1> QED
  BY <1>1
  DEF CommitInv, CommitAfterWrite, BeforeBatch, InBatch, NothingLeft, Fetched

(* A process that ends has no batch and fetches no more.                   *)
LEMMA CommitForget ==
    ASSUME TypeOK, CommitInv, NEW w \in Workers, Forget(w),
           UNCHANGED <<committed, pos, applied, dlq>>
    PROVE  CommitInv'
<1>1. \A r \in Recs : r[1] \in Partitions /\ r[2] \in Nat /\ r[2] > 0
  BY ConstantsAssumption DEF Recs
<1>2. Committed' = Committed /\ Adjudicated' = Adjudicated
  BY DEF Committed, Adjudicated
<1>3. /\ from'[w] = Zero /\ upto'[w] = Zero /\ todo'[w] = {} /\ pc'[w] = "gone"
      /\ \A v \in Workers \ {w} :
            /\ from'[v] = from[v] /\ upto'[v] = upto[v]
            /\ todo'[v] = todo[v] /\ pc'[v] = pc[v]
  BY DEF Forget, TypeOK
<1>4. \A r \in Recs : ~(r[2] <= Zero[r[1]])
  BY <1>1 DEF Zero
<1> HIDE DEF Zero
<1>5. Batch(w)' = {} /\ \A v \in Workers \ {w} : Batch(v)' = Batch(v)
  BY <1>3, <1>4 DEF Batch
<1>6. "gone" \notin Settled
  BY DEF Settled
<1> QED
  BY <1>2, <1>3, <1>4, <1>5, <1>6
  DEF CommitInv, CommitAfterWrite, BeforeBatch, InBatch, NothingLeft, Fetched

(* Committing a settled batch covers only adjudicated records.             *)
LEMMA CommitCovers ==
    ASSUME TypeOK, CommitInv, NEW w \in Workers, pc[w] = "commit",
           CommitLands(w), UNCHANGED <<applied, dlq>>
    PROVE  CommitAfterWrite'
<1> SUFFICES ASSUME NEW r \in Recs, r[2] <= committed'[r[1]]
             PROVE  r \in Adjudicated
  BY DEF CommitAfterWrite, Committed, Adjudicated
<1> DEFINE p == r[1]
<1>1. p \in Partitions /\ r[2] \in Nat
  BY ConstantsAssumption DEF Recs
<1>2. CASE from[w][p] < upto[w][p]
  <2>1. r[2] <= upto[w][p]
    BY <1>1, <1>2 DEF CommitLands
  <2>2. r[2] <= from[w][p] \/ r \in Batch(w)
    BY <2>1, <1>1 DEF Batch, TypeOK
  <2>3. todo[w] = {}
    BY DEF CommitInv, NothingLeft, Settled
  <2> QED BY <2>2, <2>3 DEF CommitInv, BeforeBatch, InBatch
<1>3. CASE ~(from[w][p] < upto[w][p])
  <2>1. r \in Committed
    BY <1>1, <1>3 DEF CommitLands, Committed
  <2> QED BY <2>1 DEF CommitInv, CommitAfterWrite
<1> QED BY <1>2, <1>3

LEMMA CommitAssign ==
    ASSUME TypeOK, CommitInv, NEW p \in Partitions, NEW w \in Workers,
           Assign(p, w)
    PROVE  CommitInv'
<1> USE DEF batchVars, storeVars
<1>1. /\ UNCHANGED <<committed, from, upto, todo, pc, applied, dlq>>
      /\ pos' = [pos EXCEPT ![w][p] = committed[p]]
  BY DEF Assign
<1>2. /\ Committed' = Committed /\ Adjudicated' = Adjudicated
      /\ \A v \in Workers : Batch(v)' = Batch(v)
  BY <1>1 DEF Committed, Adjudicated, Batch
<1>3. ASSUME NEW v \in Workers, NEW r \in Recs, pc[v] # "gone",
             r[2] <= pos'[v][r[1]]
      PROVE  r \in Adjudicated \cup Batch(v)
  <2>1. CASE v = w /\ r[1] = p
    <3>1. r \in Committed
      BY <1>1, <1>3, <2>1 DEF TypeOK, Committed
    <3> QED BY <3>1 DEF CommitInv, CommitAfterWrite
  <2>2. CASE ~(v = w /\ r[1] = p)
    <3>1. r[1] \in Partitions
      BY DEF Recs
    <3>2. r[2] <= pos[v][r[1]]
      BY <1>1, <1>3, <2>2, <3>1 DEF TypeOK
    <3> QED BY <1>3, <3>2 DEF CommitInv, Fetched
  <2> QED BY <2>1, <2>2
<1> QED
  BY <1>1, <1>2, <1>3
  DEF CommitInv, CommitAfterWrite, BeforeBatch, InBatch, NothingLeft, Fetched

LEMMA CommitPoll ==
    ASSUME TypeOK, CommitInv, NEW w \in Workers, Poll(w)
    PROVE  CommitInv'
<1> USE DEF storeVars
<1>1. PICK n \in [Partitions -> 0..MaxPoll] :
        /\ from' = [from EXCEPT ![w] = pos[w]]
        /\ upto' = [upto EXCEPT ![w] = [p \in Partitions |-> pos[w][p] + n[p]]]
        /\ pos' = [pos EXCEPT ![w] = [p \in Partitions |-> @[p] + n[p]]]
  BY DEF Poll
<1>2. /\ pc[w] = "poll" /\ pc' = [pc EXCEPT ![w] = "work"]
      /\ todo' = [todo EXCEPT ![w] = Batch(w)']
      /\ UNCHANGED <<committed, applied, dlq>>
  BY DEF Poll
<1>3. /\ from'[w] = pos[w] /\ todo'[w] = Batch(w)' /\ pc'[w] = "work"
      /\ \A p \in Partitions : upto'[w][p] = pos'[w][p]
      /\ \A v \in Workers \ {w} :
            /\ from'[v] = from[v] /\ upto'[v] = upto[v] /\ pos'[v] = pos[v]
            /\ todo'[v] = todo[v] /\ pc'[v] = pc[v]
  BY <1>1, <1>2 DEF TypeOK
<1>4. /\ Committed' = Committed /\ Adjudicated' = Adjudicated
      /\ \A v \in Workers \ {w} : Batch(v)' = Batch(v)
  BY <1>2, <1>3 DEF Committed, Adjudicated, Batch
<1>5. ASSUME NEW r \in Recs, r[2] <= pos[w][r[1]] PROVE r \in Adjudicated
  <2>1. r \in Adjudicated \cup Batch(w)
    BY <1>2, <1>5 DEF CommitInv, Fetched
  <2>2. todo[w] = {}
    BY <1>2 DEF CommitInv, NothingLeft, Settled
  <2> QED BY <2>1, <2>2 DEF CommitInv, InBatch
<1>6. ASSUME NEW r \in Recs, r[2] <= pos'[w][r[1]]
      PROVE  r \in Adjudicated \cup Batch(w)'
  <2>1. r[1] \in Partitions /\ r[2] \in Nat
    BY ConstantsAssumption DEF Recs
  <2>2. r[2] <= pos[w][r[1]] \/ from'[w][r[1]] < r[2]
    BY <2>1, <1>3 DEF TypeOK
  <2>3. r[2] <= upto'[w][r[1]]
    BY <2>1, <1>3, <1>6
  <2> QED BY <2>2, <2>3, <1>5 DEF Batch
<1>7. BeforeBatch'
  BY <1>3, <1>4, <1>5 DEF CommitInv, BeforeBatch
<1>8. InBatch'
  BY <1>3, <1>4 DEF CommitInv, InBatch
<1>9. NothingLeft'
  BY <1>3 DEF CommitInv, NothingLeft, Settled
<1>10. Fetched'
  BY <1>3, <1>4, <1>6 DEF CommitInv, Fetched
<1> QED BY <1>4, <1>7, <1>8, <1>9, <1>10 DEF CommitInv, CommitAfterWrite

LEMMA CommitCommit ==
    ASSUME TypeOK, CommitInv, NEW w \in Workers, Commit(w)
    PROVE  CommitInv'
<1> USE DEF storeVars, groupVars
<1>1. /\ pc[w] = "commit" /\ CommitLands(w)
      /\ from' = [from EXCEPT ![w] = Zero] /\ upto' = [upto EXCEPT ![w] = Zero]
      /\ pc' = [pc EXCEPT ![w] = "poll"]
      /\ UNCHANGED <<pos, todo, applied, dlq>>
  BY DEF Commit
<1>2. CommitAfterWrite'
  BY <1>1, CommitCovers
<1>3. \A r \in Recs : r[1] \in Partitions /\ r[2] \in Nat /\ r[2] > 0
  BY ConstantsAssumption DEF Recs
<1>4. \A r \in Recs : ~(r[2] <= Zero[r[1]])
  BY <1>3 DEF Zero
<1> HIDE DEF Zero
<1>5. /\ from'[w] = Zero /\ upto'[w] = Zero /\ pc'[w] = "poll" /\ todo[w] = {}
      /\ \A v \in Workers \ {w} :
            from'[v] = from[v] /\ upto'[v] = upto[v] /\ pc'[v] = pc[v]
  BY <1>1 DEF TypeOK, CommitInv, NothingLeft, Settled
<1>6. /\ Adjudicated' = Adjudicated /\ Batch(w)' = {}
      /\ \A v \in Workers \ {w} : Batch(v)' = Batch(v)
  BY <1>1, <1>4, <1>5 DEF Adjudicated, Batch
<1>7. Batch(w) \subseteq Adjudicated
  BY <1>5 DEF CommitInv, InBatch
<1>8. BeforeBatch' /\ InBatch' /\ NothingLeft'
  BY <1>1, <1>4, <1>5, <1>6 DEF CommitInv, BeforeBatch, InBatch, NothingLeft
<1>9. Fetched'
  BY <1>1, <1>5, <1>6, <1>7 DEF CommitInv, Fetched
<1> QED BY <1>2, <1>8, <1>9 DEF CommitInv

LEMMA CommitStep ==
    ASSUME TypeInv, CommitInv, [Next]_vars
    PROVE  CommitInv'
<1> USE DEF groupVars, batchVars, countVars, storeVars, Adjudicated
<1> TypeOK /\ InHand
  BY DEF TypeInv
<1>1. \A w \in Workers : pc[w] \in Settled => todo[w] = {}
  BY DEF CommitInv, NothingLeft
<1>2. CASE UNCHANGED vars
  BY <1>1, <1>2, CommitStable DEF vars
<1>3. ASSUME NEW e \in Events, Produce(e) PROVE CommitInv'
  BY <1>1, <1>3, CommitStable DEF Produce
<1>4. ASSUME NEW p \in Partitions, NEW w \in Workers, Assign(p, w)
      PROVE  CommitInv'
  BY <1>4, CommitAssign
<1>5. ASSUME NEW w \in Workers, MainStep(w) PROVE CommitInv'
  <2>1. CASE Start(w)
    BY <1>1, <2>1, CommitStable DEF Start, Settled, TypeOK
  <2>2. CASE Poll(w)
    BY <2>2, CommitPoll
  <2>3. CASE PoisonDead(w)
    BY <1>1, <2>3, CommitStable DEF PoisonDead, Settled, TypeOK
  <2>4. CASE UpsertBatch(w)
    BY <1>1, <2>4, CommitStable
    DEF UpsertBatch, WriteLands, ReadyToWrite, NoPoisonLeft, TypeOK
  <2>5. CASE UpsertRefused(w)
    BY <1>1, <2>5, CommitStable
    DEF UpsertRefused, ReadyToWrite, NoPoisonLeft, Retry, Exit, Settled, TypeOK
  <2>6. CASE CountBatch(w)
    BY <1>1, <2>6, CommitStable DEF CountBatch, TypeOK
  <2>7. ASSUME NEW r \in todo[w], CountPoison(w, r) PROVE CommitInv'
    BY <1>1, <2>7, CommitStable DEF CountPoison, Settled, TypeOK
  <2>8. ASSUME NEW r \in todo[w], InvalidDead(w, r) PROVE CommitInv'
    BY <1>1, <2>8, CommitStable
    DEF InvalidDead, NoPoisonLeft, Settled, TypeOK
  <2>9. CASE Commit(w)
    BY <2>9, CommitCommit
  <2>10. CASE MainSnapshot(w)
    BY <1>1, <2>10, CommitStable
    DEF MainSnapshot, FlushPoints, Reporting, Settled, TypeOK
  <2>11. CASE MainDone(w)
    BY <1>1, <2>11, CommitStable DEF MainDone, Settled, TypeOK
  <2>12. CASE DrainDone(w)
    BY <2>12, CommitForget DEF DrainDone
  <2>13. ASSUME NEW c \in left[w]["main"], ReportProgress(w, "main", c)
         PROVE  CommitInv'
    BY <1>1, <2>13, CommitStable DEF ReportProgress
  <2> QED
    BY <1>5, <2>1, <2>2, <2>3, <2>4, <2>5, <2>6, <2>7, <2>8, <2>9, <2>10,
       <2>11, <2>12, <2>13
    DEF MainStep, BatchStep, FlushStep
<1>6. ASSUME NEW w \in Workers, FlusherStep(w) PROVE CommitInv'
  <2>1. UNCHANGED <<committed, pos, from, upto, applied, dlq, todo, pc>>
    BY <1>6 DEF FlusherStep, FlusherSnapshot, FlusherDone, ReportProgress
  <2> QED BY <1>1, <2>1, CommitStable
<1>7. ASSUME NEW w \in Workers, FaultStep(w) PROVE CommitInv'
  <2>1. CASE Crash(w)
    BY <2>1, CommitForget DEF Crash
  <2>2. CASE Shutdown(w)
    BY <1>1, <2>2, CommitStable DEF Shutdown, Settled, TypeOK
  <2>3. CASE PoisonDeadFails(w)
    BY <1>1, <2>3, CommitStable DEF PoisonDeadFails, Exit, Settled, TypeOK
  <2>4. CASE UpsertFails(w)
    <3>1. PICK cancelled \in BOOLEAN : Retry(w, cancelled)
      BY <2>4 DEF UpsertFails
    <3>2. applied \subseteq applied' /\ pc[w] = "work"
      BY <2>4 DEF UpsertFails, WriteLands, ReadyToWrite, NoPoisonLeft
    <3> QED BY <1>1, <3>1, <3>2, CommitStable DEF Retry, Exit, Settled, TypeOK
  <2>5. CASE FlusherFails(w)
    BY <1>1, <2>5, CommitStable DEF FlusherFails
  <2>6. CASE MainFails(w)
    BY <1>1, <2>6, CommitStable DEF MainFails, Exit, Settled, TypeOK
  <2>7. CASE DrainFails(w)
    BY <2>7, CommitForget DEF DrainFails
  <2>8. CASE CommitFails(w)
    <3>1. /\ pc[w] = "commit" /\ Exit(w)
          /\ UNCHANGED <<pos, from, upto, todo, applied, dlq>>
          /\ CommitLands(w) \/ UNCHANGED committed
      BY <2>8 DEF CommitFails
    <3>2. CommitAfterWrite'
      BY <3>1, CommitCovers DEF CommitInv, CommitAfterWrite, Committed
    <3>3. \A v \in Workers : Batch(v)' = Batch(v)
      BY <3>1 DEF Batch
    <3> QED
      BY <3>1, <3>2, <3>3
      DEF CommitInv, BeforeBatch, InBatch, NothingLeft, Fetched, Exit, Settled,
          TypeOK
  <2>9. ASSUME NEW r \in todo[w], InvalidDeadFails(w, r) PROVE CommitInv'
    <3>1. /\ Exit(w) /\ dlq \subseteq dlq'
          /\ UNCHANGED <<committed, pos, from, upto, todo, applied>>
      BY <2>9 DEF InvalidDeadFails
    <3>2. Adjudicated \subseteq Adjudicated'
      BY <3>1
    <3>3. \A v \in Workers :
            /\ pc'[v] \in Settled => todo'[v] = {}
            /\ pc[v] = "gone" => pc'[v] = "gone"
      <4>1. pc[w] = "work"
        BY <2>9 DEF InvalidDeadFails, NoPoisonLeft
      <4> QED BY <1>1, <3>1, <4>1 DEF Exit, Settled, TypeOK
    <3> HIDE DEF Adjudicated
    <3> QED BY <3>1, <3>2, <3>3, CommitStable
  <2> QED
    BY <1>7, <2>1, <2>2, <2>3, <2>4, <2>5, <2>6, <2>7, <2>8, <2>9 DEF FaultStep
<1> QED
  BY <1>2, <1>3, <1>4, <1>5, <1>6, <1>7 DEF Next

(* An offset is committed only when its event is in the catalog or on the  *)
(* dead letter topic, for any number of crashes, failures and rebalances.  *)
THEOREM CommitsFollowWrites == Spec => []CommitAfterWrite
<1>1. Init => CommitInv
  BY CommitInit
<1>2. TypeInv /\ CommitInv /\ [Next]_vars => CommitInv'
  BY CommitStep
<1>3. CommitInv => CommitAfterWrite
  BY DEF CommitInv
<1> QED BY <1>1, <1>2, <1>3, TypeInvariance, PTL DEF Spec

----------------------------------------------------------------------------
(* Progress before commit, the part of it that one process answers for:    *)
(* both goroutines flush the same counters, and a total counts as          *)
(* published only when a report carried it.                                *)

Carried(w, j, c) ==
    [worker |-> WorkerId[w], job |-> j, applied |-> c.applied,
     dead |-> c.dead] \in progress

(* A flush has sent what is no longer left of its snapshot, which holds    *)
(* one total per job.                                                      *)
SentIsCarried ==
    \A w \in Workers, t \in Threads :
        /\ left[w][t] \subseteq snap[w][t]
        /\ \A c \in snap[w][t] \ left[w][t] : ReportOf(w, c) \in progress
        /\ \A c, d \in snap[w][t] : c.job = d.job => c = d

(* While the loop's own flush runs, each current total is in its snapshot  *)
(* or already carried.                                                     *)
LoopFlushCovers ==
    \A w \in Workers, j \in Jobs :
        pc[w] = "report" /\ cnt[w][j] # NoCount =>
            \/ Carried(w, j, cnt[w][j])
            \/ \E c \in snap[w]["main"] :
                  /\ c.job = j
                  /\ c.applied = cnt[w][j].applied
                  /\ c.dead = cnt[w][j].dead

ReportInv ==
    PublishedWasReported /\ ReportedAtCommit /\ SentIsCarried /\ LoopFlushCovers

(* A step that touches no counter and no snapshot, and does not enter the  *)
(* flush.                                                                  *)
LEMMA ReportStable ==
    ASSUME ReportInv,
           UNCHANGED <<cnt, pub, snap, left>>,
           progress \subseteq progress',
           \A w \in Workers : pc'[w] \in {"report", "commit"} => pc'[w] = pc[w]
    PROVE  ReportInv'
BY DEF ReportInv, PublishedWasReported, ReportedAtCommit, SentIsCarried,
       LoopFlushCovers, Carried, ReportOf

(* The counters move only while the loop is outside its flush.             *)
LEMMA ReportCount ==
    ASSUME TypeOK, ReportInv, NEW w \in Workers,
           UNCHANGED <<pub, snap, left, progress>>,
           \A v \in Workers \ {w} : cnt'[v] = cnt[v] /\ pc'[v] = pc[v],
           pc'[w] \notin {"report", "commit"}
    PROVE  ReportInv'
BY DEF ReportInv, PublishedWasReported, ReportedAtCommit, SentIsCarried,
       LoopFlushCovers, Carried, ReportOf

LEMMA ReportForget ==
    ASSUME TypeOK, ReportInv, NEW w \in Workers, Forget(w),
           progress \subseteq progress'
    PROVE  ReportInv'
<1>1. /\ cnt'[w] = [j \in Jobs |-> NoCount] /\ pub'[w] = [j \in Jobs |-> NoCount]
      /\ snap'[w] = Idle /\ left'[w] = Idle /\ pc'[w] = "gone"
      /\ \A v \in Workers \ {w} :
            /\ cnt'[v] = cnt[v] /\ pub'[v] = pub[v] /\ snap'[v] = snap[v]
            /\ left'[v] = left[v] /\ pc'[v] = pc[v]
  BY DEF Forget, TypeOK
<1>2. PublishedWasReported' /\ ReportedAtCommit'
  BY <1>1 DEF ReportInv, PublishedWasReported, ReportedAtCommit
<1>3. SentIsCarried'
  BY <1>1 DEF ReportInv, SentIsCarried, Idle, ReportOf
<1>4. LoopFlushCovers'
  BY <1>1 DEF ReportInv, LoopFlushCovers, Carried
<1> QED BY <1>2, <1>3, <1>4 DEF ReportInv

(* A flush that is given up leaves no claim behind.                        *)
LEMMA ReportDrop ==
    ASSUME TypeOK, ReportInv, NEW w \in Workers, NEW t \in Threads,
           DropFlush(w, t), UNCHANGED <<cnt, pub>>,
           progress \subseteq progress',
           \A v \in Workers : pc'[v] \in {"report", "commit"} => pc'[v] = pc[v],
           t = "main" => pc'[w] # "report"
    PROVE  ReportInv'
<1>1. /\ snap'[w][t] = {} /\ left'[w][t] = {}
      /\ \A v \in Workers, u \in Threads : ~(v = w /\ u = t) =>
            snap'[v][u] = snap[v][u] /\ left'[v][u] = left[v][u]
  BY DEF DropFlush, TypeOK
<1>2. PublishedWasReported' /\ ReportedAtCommit'
  BY DEF ReportInv, PublishedWasReported, ReportedAtCommit
<1>3. SentIsCarried'
  BY <1>1 DEF ReportInv, SentIsCarried, ReportOf
<1>4. LoopFlushCovers'
  BY <1>1 DEF ReportInv, LoopFlushCovers, Carried, Threads
<1> QED BY <1>2, <1>3, <1>4 DEF ReportInv

(* Taking a snapshot: what it leaves out was published before.             *)
LEMMA ReportSnapshot ==
    ASSUME TypeOK, ReportInv, NEW w \in Workers, NEW t \in Threads,
           TakeSnapshot(w, t), UNCHANGED <<cnt, pub, progress>>,
           \A v \in Workers \ {w} : pc'[v] = pc[v],
           pc'[w] # "commit" \/ pc'[w] = pc[w],
           t = "main" \/ pc'[w] = pc[w]
    PROVE  ReportInv'
<1>1. /\ snap'[w][t] = Pending(w) /\ left'[w][t] = Pending(w)
      /\ \A v \in Workers, u \in Threads : ~(v = w /\ u = t) =>
            snap'[v][u] = snap[v][u] /\ left'[v][u] = left[v][u]
  BY DEF TakeSnapshot, TypeOK
<1>2. PublishedWasReported' /\ ReportedAtCommit'
  BY DEF ReportInv, PublishedWasReported, ReportedAtCommit
<1>3. SentIsCarried'
  <2>1. \A c, d \in Pending(w) : c.job = d.job => c = d
    BY DEF Pending
  <2> QED BY <1>1, <2>1 DEF ReportInv, SentIsCarried, ReportOf
<1>4. ASSUME NEW j \in Jobs, cnt[w][j] # NoCount
      PROVE  \/ Carried(w, j, cnt[w][j])
             \/ \E c \in Pending(w) :
                   /\ c.job = j
                   /\ c.applied = cnt[w][j].applied
                   /\ c.dead = cnt[w][j].dead
  <2>1. CASE cnt[w][j] = pub[w][j]
    BY <1>4, <2>1 DEF ReportInv, PublishedWasReported, Carried
  <2>2. CASE cnt[w][j] # pub[w][j]
    <3> DEFINE c == [job |-> j, applied |-> cnt[w][j].applied,
                     dead |-> cnt[w][j].dead]
    <3>1. c \in Pending(w)
      BY <2>2 DEF Pending
    <3> QED BY <3>1
  <2> QED BY <2>1, <2>2
<1>5. LoopFlushCovers'
  BY <1>1, <1>4 DEF ReportInv, LoopFlushCovers, Carried, Threads
<1> QED BY <1>2, <1>3, <1>5 DEF ReportInv

(* One report goes out.                                                    *)
LEMMA ReportSent ==
    ASSUME TypeOK, ReportInv, NEW w \in Workers, NEW t \in Threads,
           NEW c \in left[w][t], ReportProgress(w, t, c)
    PROVE  ReportInv'
<1>1. /\ progress' = progress \cup {ReportOf(w, c)}
      /\ UNCHANGED <<pc, cnt, pub, snap>>
      /\ left'[w][t] = left[w][t] \ {c}
      /\ \A v \in Workers, u \in Threads : ~(v = w /\ u = t) =>
            left'[v][u] = left[v][u]
  BY DEF ReportProgress, TypeOK
<1>2. PublishedWasReported' /\ ReportedAtCommit'
  BY <1>1 DEF ReportInv, PublishedWasReported, ReportedAtCommit
<1>3. SentIsCarried'
  BY <1>1 DEF ReportInv, SentIsCarried, ReportOf
<1>4. LoopFlushCovers'
  BY <1>1 DEF ReportInv, LoopFlushCovers, Carried
<1> QED BY <1>2, <1>3, <1>4 DEF ReportInv

(* A flush is over: all of its snapshot is carried, and marked published.  *)
LEMMA ReportMarked ==
    ASSUME TypeOK, ReportInv, NEW w \in Workers, NEW t \in Threads,
           left[w][t] = {}, MarkPublished(w, t),
           snap' = [snap EXCEPT ![w][t] = {}],
           UNCHANGED <<cnt, left, progress>>,
           \/ UNCHANGED pc /\ t = "flusher"
           \/ /\ t = "main" /\ pc[w] = "report"
              /\ pc' = [pc EXCEPT ![w] = "commit"]
    PROVE  ReportInv'
<1>1. \A c \in snap[w][t] : ReportOf(w, c) \in progress
  BY DEF ReportInv, SentIsCarried
<1>2. ASSUME NEW j \in Jobs, pub'[w][j] # NoCount
      PROVE  Carried(w, j, pub'[w][j])
  <2>1. CASE \E c \in snap[w][t] : c.job = j
    <3> DEFINE d == CHOOSE c \in snap[w][t] : c.job = j
    <3>1. d \in snap[w][t] /\ d.job = j
      BY <2>1
    <3>2. pub'[w][j] = [applied |-> d.applied, dead |-> d.dead]
      BY <2>1 DEF MarkPublished, TypeOK
    <3>3. ReportOf(w, d) \in progress
      BY <1>1, <3>1
    <3> HIDE DEF d
    <3> QED BY <3>1, <3>2, <3>3 DEF Carried, ReportOf
  <2>2. CASE ~ \E c \in snap[w][t] : c.job = j
    <3>1. pub'[w][j] = pub[w][j]
      BY <2>2 DEF MarkPublished, TypeOK
    <3> QED BY <1>2, <3>1 DEF ReportInv, PublishedWasReported, Carried
  <2> QED BY <2>1, <2>2
<1>3. \A v \in Workers \ {w} : pub'[v] = pub[v]
  BY DEF MarkPublished, TypeOK
<1>4. PublishedWasReported'
  BY <1>2, <1>3 DEF ReportInv, PublishedWasReported, Carried
<1>5. ReportedAtCommit'
  <2>1. CASE UNCHANGED pc
    BY <2>1 DEF ReportInv, ReportedAtCommit
  <2>2. CASE t = "main" /\ pc[w] = "report" /\ pc' = [pc EXCEPT ![w] = "commit"]
    <3>1. ASSUME NEW j \in Jobs, cnt[w][j] # NoCount
          PROVE  Carried(w, j, cnt[w][j])
      BY <2>2, <3>1, <1>1 DEF ReportInv, LoopFlushCovers, Carried, ReportOf
    <3> QED BY <2>2, <3>1 DEF ReportInv, ReportedAtCommit, Carried, TypeOK
  <2> QED BY <2>1, <2>2
<1>6. SentIsCarried'
  BY DEF ReportInv, SentIsCarried, TypeOK
<1>7. LoopFlushCovers'
  <2>1. CASE UNCHANGED pc /\ t = "flusher"
    <3>1. \A v \in Workers : snap'[v]["main"] = snap[v]["main"]
      BY <2>1 DEF TypeOK, Threads
    <3> QED BY <2>1, <3>1 DEF ReportInv, LoopFlushCovers, Carried
  <2>2. CASE t = "main" /\ pc' = [pc EXCEPT ![w] = "commit"]
    <3>1. /\ pc'[w] = "commit"
          /\ \A v \in Workers \ {w} : pc'[v] = pc[v] /\ snap'[v] = snap[v]
      BY <2>2 DEF TypeOK
    <3> QED BY <3>1 DEF ReportInv, LoopFlushCovers, Carried
  <2> QED BY <2>1, <2>2
<1> QED BY <1>4, <1>5, <1>6, <1>7 DEF ReportInv

LEMMA ReportStep ==
    ASSUME TypeInv, ReportInv, [Next]_vars
    PROVE  ReportInv'
<1> USE DEF groupVars, batchVars, countVars, storeVars
<1> TypeOK
  BY DEF TypeInv
<1>1. CASE UNCHANGED vars
  BY <1>1, ReportStable DEF vars
<1>2. ASSUME NEW e \in Events, Produce(e) PROVE ReportInv'
  BY <1>2, ReportStable DEF Produce
<1>3. ASSUME NEW p \in Partitions, NEW w \in Workers, Assign(p, w)
      PROVE  ReportInv'
  BY <1>3, ReportStable DEF Assign
<1>4. "main" \in Threads /\ "flusher" \in Threads
  BY DEF Threads
<1>5. ASSUME NEW w \in Workers, MainStep(w) PROVE ReportInv'
  <2>1. CASE Start(w)
    BY <2>1, ReportStable DEF Start, TypeOK
  <2>2. CASE Poll(w)
    BY <2>2, ReportStable DEF Poll, TypeOK
  <2>3. CASE PoisonDead(w)
    BY <2>3, ReportStable DEF PoisonDead, TypeOK
  <2>4. CASE UpsertBatch(w)
    BY <2>4, ReportStable DEF UpsertBatch
  <2>5. CASE UpsertRefused(w)
    BY <2>5, ReportStable DEF UpsertRefused, Retry, Exit, TypeOK
  <2>6. CASE CountBatch(w)
    BY <2>6, ReportCount DEF CountBatch, TypeOK
  <2>7. ASSUME NEW r \in todo[w], CountPoison(w, r) PROVE ReportInv'
    BY <2>7, ReportCount DEF CountPoison, TypeOK
  <2>8. ASSUME NEW r \in todo[w], InvalidDead(w, r) PROVE ReportInv'
    BY <2>8, ReportStable DEF InvalidDead
  <2>9. CASE Commit(w)
    BY <2>9, ReportStable DEF Commit, TypeOK
  <2>10. CASE MainSnapshot(w)
    BY <2>10, <1>4, ReportSnapshot
    DEF MainSnapshot, Reporting, FlushPoints, TypeOK
  <2>11. CASE MainDone(w)
    BY <2>11, <1>4, ReportMarked DEF MainDone, Flushed
  <2>12. CASE DrainDone(w)
    BY <2>12, ReportForget DEF DrainDone
  <2>13. ASSUME NEW c \in left[w]["main"], ReportProgress(w, "main", c)
         PROVE  ReportInv'
    BY <2>13, <1>4, ReportSent
  <2> QED
    BY <1>5, <2>1, <2>2, <2>3, <2>4, <2>5, <2>6, <2>7, <2>8, <2>9, <2>10,
       <2>11, <2>12, <2>13
    DEF MainStep, BatchStep, FlushStep
<1>6. ASSUME NEW w \in Workers, FlusherStep(w) PROVE ReportInv'
  <2>1. CASE FlusherSnapshot(w)
    BY <2>1, <1>4, ReportSnapshot DEF FlusherSnapshot
  <2>2. CASE FlusherDone(w)
    BY <2>2, <1>4, ReportMarked DEF FlusherDone, Flushed
  <2>3. ASSUME NEW c \in left[w]["flusher"], ReportProgress(w, "flusher", c)
        PROVE  ReportInv'
    BY <2>3, <1>4, ReportSent
  <2> QED BY <1>6, <2>1, <2>2, <2>3 DEF FlusherStep
<1>7. ASSUME NEW w \in Workers, FaultStep(w) PROVE ReportInv'
  <2>1. CASE Crash(w)
    BY <2>1, ReportForget DEF Crash
  <2>2. CASE Shutdown(w)
    BY <2>2, ReportStable DEF Shutdown, TypeOK
  <2>3. CASE PoisonDeadFails(w)
    BY <2>3, ReportStable DEF PoisonDeadFails, Exit, TypeOK
  <2>4. CASE UpsertFails(w)
    <3>1. PICK cancelled \in BOOLEAN : Retry(w, cancelled)
      BY <2>4 DEF UpsertFails
    <3> QED BY <3>1, ReportStable DEF Retry, Exit, TypeOK
  <2>5. CASE FlusherFails(w)
    BY <2>5, <1>4, ReportDrop DEF FlusherFails, DeliveredAnyway
  <2>6. CASE MainFails(w)
    BY <2>6, <1>4, ReportDrop DEF MainFails, DeliveredAnyway, Exit, TypeOK
  <2>7. CASE DrainFails(w)
    BY <2>7, ReportForget DEF DrainFails, DeliveredAnyway
  <2>8. CASE CommitFails(w)
    BY <2>8, ReportStable DEF CommitFails, Exit, TypeOK
  <2>9. ASSUME NEW r \in todo[w], InvalidDeadFails(w, r) PROVE ReportInv'
    BY <2>9, ReportStable DEF InvalidDeadFails, Exit, TypeOK
  <2> QED
    BY <1>7, <2>1, <2>2, <2>3, <2>4, <2>5, <2>6, <2>7, <2>8, <2>9 DEF FaultStep
<1> QED
  BY <1>1, <1>2, <1>3, <1>5, <1>6, <1>7 DEF Next

LEMMA ReportInvariance == Spec => []ReportInv
<1>1. Init => ReportInv
  BY DEF Init, Idle, ReportInv, PublishedWasReported, ReportedAtCommit,
         SentIsCarried, LoopFlushCovers
<1>2. TypeInv /\ ReportInv /\ [Next]_vars => ReportInv'
  BY ReportStep
<1> QED BY <1>1, <1>2, TypeInvariance, PTL DEF Spec

(* Before a process commits, its current totals of every job are on the    *)
(* progress topic, although two goroutines flush them concurrently.        *)
THEOREM ReportsPrecedeCommits == Spec => []ReportedAtCommit
BY ReportInvariance, PTL DEF ReportInv

(* A total is remembered as published only if a report carried it.         *)
THEOREM PublishedIsReported == Spec => []PublishedWasReported
BY ReportInvariance, PTL DEF ReportInv

----------------------------------------------------------------------------
(* Currency of the catalog, while no partition is taken from a live        *)
(* member. A batch in hand then keeps its partitions to its member, and    *)
(* starts where the commits end, so that a write never goes back.          *)

Working == {"work", "poison", "flush", "report", "commit"}
Holding == Working \cup {"drain", "drainReport"}
Holds(w, p) == from[w][p] < upto[w][p]

InLog ==
    \A p \in Partitions :
        /\ committed[p] <= Len(log[p])
        /\ \A w \in Workers :
              pos[w][p] <= Len(log[p]) /\ upto[w][p] <= Len(log[p])

Routed ==
    \A p \in Partitions : \A i \in 1..Len(log[p]) :
        PartitionOf[log[p][i].key] = p

Held ==
    \A w \in Workers, p \in Partitions :
        Holds(w, p) => owner[p] = w /\ pc[w] \in Holding

(* An owner goes on where its batch or, without one, the commits end.      *)
Resumed ==
    \A w \in Workers, p \in Partitions :
        owner[p] = w =>
            /\ pc[w] # "new"
            /\ pc[w] \in Working \cup {"poll"} =>
                  IF Holds(w, p)
                  THEN from[w][p] = committed[p] /\ pos[w][p] = upto[w][p]
                  ELSE pos[w][p] = committed[p]

LeftOfBatch ==
    \A w \in Workers :
        /\ todo[w] \subseteq Batch(w)
        /\ pc[w] = "poison" => EventAt(cur[w]).kind = "poison"

OnRow(r) == catalog[EventAt(r).key] >= r[2]

(* The valid records of a batch are written all at once.                   *)
Written ==
    \A w \in Workers : pc[w] \in Working =>
        \/ Of(Batch(w), "ok") \subseteq todo[w]
        \/ todo[w] = {} /\ \A r \in Of(Batch(w), "ok") : OnRow(r)

Places == InLog /\ Routed /\ Held /\ Resumed
CurrentInv == Places /\ LeftOfBatch /\ Written /\ CatalogCurrent

LEMMA RecParts ==
    ASSUME NEW r \in Recs
    PROVE  r[1] \in Partitions /\ r[2] \in Nat /\ r[2] > 0
BY ConstantsAssumption DEF Recs

LEMMA InBatchOf ==
    ASSUME NEW w \in Workers, NEW r \in Batch(w)
    PROVE  r \in Recs /\ from[w][r[1]] < r[2] /\ r[2] <= upto[w][r[1]]
BY DEF Batch

(* A record of a batch or before a commit is in the log, and its identity  *)
(* is one of its partition.                                                *)
LEMMA RecordRead ==
    ASSUME TypeOK, InLog, Routed, NEW r \in Recs,
           r \in Committed \/ \E w \in Workers : r \in Batch(w)
    PROVE  /\ r[2] \in 1..Len(log[r[1]])
           /\ EventAt(r).key \in Keys
           /\ PartitionOf[EventAt(r).key] = r[1]
<1>1. r[1] \in Partitions /\ r[2] \in Nat /\ r[2] > 0
  BY RecParts
<1>2. log[r[1]] \in Seq(Events) /\ Len(log[r[1]]) \in Nat
  BY <1>1 DEF TypeOK
<1>3. r[2] <= Len(log[r[1]])
  <2>1. CASE r \in Committed
    BY <1>1, <1>2, <2>1, ConstantsAssumption DEF Committed, InLog, TypeOK
  <2>2. ASSUME NEW w \in Workers, r \in Batch(w) PROVE r[2] <= Len(log[r[1]])
    BY <1>1, <1>2, <2>2, ConstantsAssumption DEF Batch, InLog, TypeOK
  <2> QED BY <2>1, <2>2
<1>4. r[2] \in 1..Len(log[r[1]])
  BY <1>1, <1>2, <1>3
<1>5. log[r[1]][r[2]] \in Events
  BY <1>2, <1>4
<1>6. log[r[1]][r[2]].key \in Keys
  BY <1>5, ConstantsAssumption DEF Event
<1> QED BY <1>1, <1>4, <1>6 DEF EventAt, Routed

(* What an upsert leaves on a row: a record of the statement at least as   *)
(* new as any other of the identity, or what was there.                    *)
LEMMA WrittenOverRow ==
    ASSUME NEW rows \in [Keys -> 0..MaxEvents], NEW S \in SUBSET Recs,
           NEW k \in Keys
    PROVE  /\ (\A r \in S : EventAt(r).key # k) =>
                 WrittenOver(rows, S)[k] = rows[k]
           /\ \A r \in S :
                 EventAt(r).key = k => WrittenOver(rows, S)[k] >= r[2]
<1> DEFINE hits == {r[2] : r \in {q \in S : EventAt(q).key = k}}
           last == CHOOSE i \in hits : \A h \in hits : h <= i
<1>1. WrittenOver(rows, S)[k] = IF hits = {} THEN rows[k] ELSE last
  BY DEF WrittenOver
<1>2. (\A r \in S : EventAt(r).key # k) => hits = {}
  OBVIOUS
<1>3. ASSUME NEW r \in S, EventAt(r).key = k PROVE last >= r[2] /\ hits # {}
  <2>1. r[2] \in hits
    BY <1>3
  <2>2. hits \in SUBSET (0..MaxEvents)
    BY RecParts, ConstantsAssumption DEF Recs
  <2>3. \E i \in hits : \A h \in hits : h <= i
    BY <2>1, <2>2, LastExists, ConstantsAssumption
  <2> HIDE DEF hits
  <2>4. last \in hits /\ \A h \in hits : h <= last
    BY <2>3
  <2> HIDE DEF last
  <2>5. last \in 0..MaxEvents /\ r[2] \in Nat
    BY <2>2, <2>4, RecParts
  <2>6. r[2] <= last
    BY <2>1, <2>4
  <2> QED BY <2>1, <2>5, <2>6
<1> HIDE DEF hits, last
<1> QED BY <1>1, <1>2, <1>3

(* The member that has a record in its batch holds the partition.          *)
LEMMA BatchIsHeld ==
    ASSUME TypeOK, Held, NEW w \in Workers, NEW r \in Batch(w)
    PROVE  Holds(w, r[1]) /\ owner[r[1]] = w /\ pc[w] \in Holding
<1>1. r[1] \in Partitions /\ r[2] \in Nat
  BY InBatchOf, RecParts
<1>2. from[w][r[1]] \in 0..MaxEvents /\ upto[w][r[1]] \in 0..MaxEvents
  BY <1>1 DEF TypeOK
<1>3. from[w][r[1]] < upto[w][r[1]]
  BY <1>1, <1>2, InBatchOf
<1> QED BY <1>1, <1>3 DEF Held, Holds

LEMMA CurrentInit == Init => CurrentInv
<1> SUFFICES ASSUME Init PROVE CurrentInv
  OBVIOUS
<1>1. \A r \in Recs : ~(r[2] <= Zero[r[1]])
  BY RecParts DEF Zero
<1>2. Committed = {} /\ \A w \in Workers : Batch(w) = {}
  BY <1>1 DEF Init, Committed, Batch
<1>3. InLog /\ Routed
  BY DEF Init, InLog, Routed, Zero
<1>4. Held /\ Resumed
  BY ConstantsAssumption DEF Init, Held, Resumed, Holds, Zero
<1>5. LeftOfBatch
  BY <1>2 DEF Init, LeftOfBatch
<1>6. Written /\ CatalogCurrent
  BY <1>2 DEF Init, Written, Working, CatalogCurrent, Of
<1> QED BY <1>3, <1>4, <1>5, <1>6 DEF CurrentInv, Places

(* A step of the members that moves no offset and writes no row.           *)
LEMMA CurrentStable ==
    ASSUME CurrentInv,
           UNCHANGED <<log, committed, owner, pos, from, upto, catalog>>,
           \A w \in Workers :
              /\ todo'[w] \subseteq todo[w]
              /\ Of(todo[w], "ok") \subseteq todo'[w]
              /\ pc'[w] \in Working => pc[w] \in Working
              /\ pc'[w] = "poll" => pc[w] \in {"new", "poll"}
              /\ pc'[w] = "new" => pc[w] = "new"
              /\ pc[w] \in Holding => pc'[w] \in Holding
              /\ pc'[w] = "poison" => EventAt(cur'[w]).kind = "poison"
    PROVE  CurrentInv'
<1>1. /\ Committed' = Committed
      /\ \A w \in Workers : Batch(w)' = Batch(w)
      /\ \A r \in Recs : EventAt(r)' = EventAt(r)
  BY DEF Committed, Batch, EventAt
<1>2. Places'
  BY DEF CurrentInv, Places, InLog, Routed, Held, Resumed, Holds
<1>3. LeftOfBatch'
  BY <1>1 DEF CurrentInv, LeftOfBatch, EventAt
<1>4. Written'
  <2> SUFFICES ASSUME NEW w \in Workers, pc[w] \in Working,
                      ~(Of(Batch(w), "ok") \subseteq todo'[w])
               PROVE  /\ todo'[w] = {}
                      /\ \A r \in Of(Batch(w), "ok") : OnRow(r)
    BY <1>1 DEF Written, Of, OnRow, EventAt
  <2>1. ~(Of(Batch(w), "ok") \subseteq todo[w])
    BY DEF Of
  <2> QED BY <2>1 DEF CurrentInv, Written
<1>5. CatalogCurrent'
  BY <1>1 DEF CurrentInv, CatalogCurrent, Of, EventAt
<1> QED BY <1>2, <1>3, <1>4, <1>5 DEF CurrentInv

(* What is appended is read by no batch and behind no commit yet.          *)
LEMMA CurrentProduce ==
    ASSUME TypeInv, CurrentInv, NEW e \in Events, Produce(e)
    PROVE  CurrentInv'
<1> USE DEF groupVars, batchVars, countVars, storeVars
<1> DEFINE p == PartitionOf[e.key]
<1>1. /\ TypeOK /\ p \in Partitions /\ log' = [log EXCEPT ![p] = Append(@, e)]
      /\ UNCHANGED <<committed, owner, pos, from, upto, catalog, todo, cur, pc>>
  BY ConstantsAssumption DEF TypeInv, Event, Produce
<1>2. \A q \in Partitions :
        /\ Len(log[q]) \in Nat /\ Len(log'[q]) \in Nat
        /\ Len(log[q]) <= Len(log'[q])
        /\ \A i \in 1..Len(log[q]) : log'[q][i] = log[q][i]
  <2> SUFFICES ASSUME NEW q \in Partitions
               PROVE  /\ Len(log[q]) \in Nat /\ Len(log'[q]) \in Nat
                      /\ Len(log[q]) <= Len(log'[q])
                      /\ \A i \in 1..Len(log[q]) : log'[q][i] = log[q][i]
    OBVIOUS
  <2>1. log[q] \in Seq(Events)
    BY <1>1 DEF TypeOK
  <2>2. log'[q] = log[q] \/ log'[q] = Append(log[q], e)
    BY <1>1 DEF TypeOK
  <2> QED BY <2>1, <2>2
<1>3. Routed'
  <2> SUFFICES ASSUME NEW q \in Partitions, NEW i \in 1..Len(log'[q])
               PROVE  PartitionOf[log'[q][i].key] = q
    BY DEF Routed
  <2>1. log[q] \in Seq(Events)
    BY <1>1 DEF TypeOK
  <2>2. CASE i \in 1..Len(log[q])
    BY <1>2, <2>2 DEF CurrentInv, Places, Routed
  <2>3. CASE i \notin 1..Len(log[q])
    <3>1. q = p /\ log'[q] = Append(log[q], e)
      BY <1>1, <2>3 DEF TypeOK
    <3>2. i = Len(log[q]) + 1
      BY <2>1, <2>3, <3>1
    <3> QED BY <2>1, <3>1, <3>2
  <2> QED BY <2>2, <2>3
<1>4. InLog'
  <2> SUFFICES ASSUME NEW q \in Partitions
               PROVE  /\ committed[q] <= Len(log'[q])
                      /\ \A w \in Workers :
                            pos[w][q] <= Len(log'[q]) /\ upto[w][q] <= Len(log'[q])
    BY <1>1 DEF InLog
  <2>1. /\ committed[q] \in Int
        /\ \A w \in Workers : pos[w][q] \in Int /\ upto[w][q] \in Int
    BY <1>1, ConstantsAssumption DEF TypeOK
  <2> QED BY <1>2, <2>1 DEF CurrentInv, Places, InLog
<1>5. /\ Committed' = Committed
      /\ \A w \in Workers : Batch(w)' = Batch(w)
      /\ Held' /\ Resumed'
  BY <1>1 DEF Committed, Batch, CurrentInv, Places, Held, Resumed, Holds
<1>6. ASSUME NEW r \in Recs, r \in Committed \/ \E w \in Workers : r \in Batch(w)
      PROVE  EventAt(r)' = EventAt(r)
  <2>1. r[1] \in Partitions /\ r[2] \in 1..Len(log[r[1]])
    BY <1>1, <1>6, RecParts, RecordRead DEF CurrentInv, Places
  <2> QED BY <1>2, <2>1 DEF EventAt
<1> HIDE DEF p
<1>7. LeftOfBatch'
  <2>1. \A w \in Workers : pc[w] = "poison" => cur[w] \in Batch(w)
    BY DEF TypeInv, InHand, CurrentInv, LeftOfBatch
  <2>2. \A w \in Workers : pc[w] = "poison" => EventAt(cur[w])' = EventAt(cur[w])
    BY <1>1, <1>6, <2>1, BatchInRecs DEF EventAt
  <2> QED BY <1>1, <1>5, <2>2 DEF CurrentInv, LeftOfBatch
<1>8. \A w \in Workers : Of(Batch(w), "ok")' = Of(Batch(w), "ok")
  BY <1>5, <1>6, BatchInRecs DEF Of
<1>9. \A w \in Workers : \A r \in Of(Batch(w), "ok") : OnRow(r)' = OnRow(r)
  BY <1>1, <1>6, BatchInRecs DEF Of, OnRow
<1>10. Written'
  BY <1>1, <1>8, <1>9 DEF CurrentInv, Written
<1>11. CatalogCurrent'
  BY <1>1, <1>5, <1>6 DEF CurrentInv, CatalogCurrent, Of, Committed
<1> QED
  BY <1>3, <1>4, <1>5, <1>7, <1>10, <1>11 DEF CurrentInv, Places

(* The partition assigned has no live owner, hence is in no batch.         *)
LEMMA CurrentAssign ==
    ASSUME TypeInv, CurrentInv, MaxRevokes = 0,
           NEW p \in Partitions, NEW w \in Workers, Assign(p, w)
    PROVE  CurrentInv'
<1> USE DEF batchVars, countVars, storeVars
<1>1. /\ TypeOK /\ Member(w)
      /\ owner' = [owner EXCEPT ![p] = w]
      /\ pos' = [pos EXCEPT ![w][p] = committed[p]]
      /\ UNCHANGED <<log, committed, from, upto, catalog, todo, cur, pc>>
  BY DEF TypeInv, Assign
<1>2. Orphan(p)
  <2>1. ~(revokes < MaxRevokes)
    BY <1>1 DEF TypeOK
  <2> QED BY <2>1 DEF Assign
<1>3. \A v \in Workers : ~Holds(v, p)
  BY <1>2, ConstantsAssumption
  DEF Orphan, Member, CurrentInv, Places, Held, Holding, Working
<1>4. /\ owner'[p] = w /\ pos'[w][p] = committed[p]
      /\ \A q \in Partitions \ {p} : owner'[q] = owner[q]
      /\ \A v \in Workers, q \in Partitions :
            v # w \/ q # p => pos'[v][q] = pos[v][q]
  BY <1>1 DEF TypeOK
<1>5. InLog' /\ Routed'
  BY <1>1, <1>4 DEF CurrentInv, Places, InLog, Routed
<1>6. Held'
  BY <1>1, <1>3, <1>4 DEF CurrentInv, Places, Held, Holds
<1>7. Resumed'
  <2> SUFFICES ASSUME NEW v \in Workers, NEW q \in Partitions, owner'[q] = v
               PROVE  /\ pc[v] # "new"
                      /\ pc[v] \in Working \cup {"poll"} =>
                            IF Holds(v, q)
                            THEN from[v][q] = committed[q] /\ pos'[v][q] = upto[v][q]
                            ELSE pos'[v][q] = committed[q]
    BY <1>1 DEF Resumed, Holds
  <2>1. CASE q = p
    BY <1>1, <1>3, <1>4, <2>1 DEF Member
  <2>2. CASE q # p
    BY <1>4, <2>2 DEF CurrentInv, Places, Resumed
  <2> QED BY <2>1, <2>2
<1>8. Committed' = Committed /\ \A v \in Workers : Batch(v)' = Batch(v)
  BY <1>1 DEF Committed, Batch
<1>9. LeftOfBatch' /\ Written' /\ CatalogCurrent'
  BY <1>1, <1>8
  DEF CurrentInv, LeftOfBatch, Written, CatalogCurrent, Of, OnRow, EventAt
<1> QED BY <1>5, <1>6, <1>7, <1>9 DEF CurrentInv, Places

(* A batch starts where the commits of its partitions end.                 *)
LEMMA CurrentPoll ==
    ASSUME TypeInv, CurrentInv, NEW w \in Workers, Poll(w)
    PROVE  CurrentInv'
<1> USE DEF storeVars
<1>1. PICK n \in [Partitions -> 0..MaxPoll] :
        /\ \A p \in Partitions : n[p] > 0 =>
              owner[p] = w /\ pos[w][p] + n[p] <= Len(log[p])
        /\ from' = [from EXCEPT ![w] = pos[w]]
        /\ upto' = [upto EXCEPT ![w] = [p \in Partitions |-> pos[w][p] + n[p]]]
        /\ pos' = [pos EXCEPT ![w] = [p \in Partitions |-> @[p] + n[p]]]
  BY DEF Poll
<1>2. /\ TypeOK /\ pc[w] = "poll" /\ pc' = [pc EXCEPT ![w] = "work"]
      /\ todo' = [todo EXCEPT ![w] = Batch(w)']
      /\ UNCHANGED <<log, committed, owner, cur, catalog>>
  BY DEF TypeInv, Poll
<1>3. /\ pc'[w] = "work" /\ todo'[w] = Batch(w)'
      /\ \A v \in Workers \ {w} :
            /\ from'[v] = from[v] /\ upto'[v] = upto[v] /\ pos'[v] = pos[v]
            /\ todo'[v] = todo[v] /\ pc'[v] = pc[v]
  BY <1>1, <1>2 DEF TypeOK
<1>4. \A p \in Partitions :
        /\ pos[w][p] \in Nat /\ n[p] \in Nat
        /\ from'[w][p] = pos[w][p]
        /\ upto'[w][p] = pos[w][p] + n[p] /\ pos'[w][p] = pos[w][p] + n[p]
  BY <1>1, <1>2, ConstantsAssumption DEF TypeOK
<1>5. \A p \in Partitions : Holds(w, p)' <=> n[p] > 0
  BY <1>4 DEF Holds
<1>6. \A v \in Workers \ {w} : Batch(v)' = Batch(v)
  BY <1>3 DEF Batch
<1>7. InLog'
  <2>1. ASSUME NEW p \in Partitions PROVE pos[w][p] + n[p] <= Len(log[p])
    BY <1>1, <1>4 DEF CurrentInv, Places, InLog
  <2> QED BY <1>2, <1>3, <1>4, <2>1 DEF CurrentInv, Places, InLog
<1>8. Held'
  <2> SUFFICES ASSUME NEW v \in Workers, NEW p \in Partitions, Holds(v, p)'
               PROVE  owner[p] = v /\ pc'[v] \in Holding
    BY <1>2 DEF Held
  <2>1. CASE v = w
    BY <1>1, <1>3, <1>5, <2>1 DEF Holding, Working
  <2>2. CASE v # w
    BY <1>3, <2>2 DEF CurrentInv, Places, Held, Holds
  <2> QED BY <2>1, <2>2
<1>9. Resumed'
  <2> SUFFICES ASSUME NEW v \in Workers, NEW p \in Partitions, owner[p] = v
               PROVE  /\ pc'[v] # "new"
                      /\ pc'[v] \in Working \cup {"poll"} =>
                            IF Holds(v, p)'
                            THEN from'[v][p] = committed[p] /\ pos'[v][p] = upto'[v][p]
                            ELSE pos'[v][p] = committed[p]
    BY <1>2 DEF Resumed
  <2>1. CASE v = w
    <3>1. pos[w][p] = committed[p]
      BY <1>2, <2>1
      DEF CurrentInv, Places, Resumed, Held, Holding, Working
    <3>2. ~Holds(v, p)' => n[p] = 0
      BY <1>4, <1>5, <2>1
    <3> QED BY <1>3, <1>4, <2>1, <3>1, <3>2
  <2>2. CASE v # w
    BY <1>3, <2>2 DEF CurrentInv, Places, Resumed, Holds
  <2> QED BY <2>1, <2>2
<1>10. Routed' /\ CatalogCurrent'
  BY <1>2
  DEF CurrentInv, Places, Routed, CatalogCurrent, Of, EventAt, Committed
<1>11. LeftOfBatch'
  BY <1>2, <1>3, <1>6 DEF CurrentInv, LeftOfBatch, EventAt
<1>12. Written'
  <2>1. ASSUME NEW v \in Workers, pc'[v] \in Working
        PROVE  \/ Of(Batch(v), "ok")' \subseteq todo'[v]
               \/ todo'[v] = {} /\ \A r \in Of(Batch(v), "ok")' : OnRow(r)'
    <3>1. CASE v = w
      BY <1>3, <3>1 DEF Of
    <3>2. CASE v # w
      <4>1. pc[v] \in Working /\ todo'[v] = todo[v]
        BY <1>3, <2>1, <3>2
      <4>2. Of(Batch(v), "ok")' = Of(Batch(v), "ok")
        BY <1>2, <1>6, <3>2 DEF Of, EventAt
      <4>3. \A r \in Of(Batch(v), "ok") : OnRow(r)' = OnRow(r)
        BY <1>2 DEF OnRow, EventAt
      <4> QED BY <4>1, <4>2, <4>3 DEF CurrentInv, Written
    <3> QED BY <3>1, <3>2
  <2> QED BY <2>1 DEF Written
<1> QED BY <1>7, <1>8, <1>9, <1>10, <1>11, <1>12 DEF CurrentInv, Places

(* A process that ends has no batch.                                       *)
LEMMA CurrentForget ==
    ASSUME TypeInv, CurrentInv, NEW w \in Workers, Forget(w),
           UNCHANGED <<log, committed, owner, pos, catalog>>
    PROVE  CurrentInv'
<1>1. TypeOK /\ \A p \in Partitions : Zero[p] = 0
  BY DEF TypeInv, Zero
<1>2. /\ from'[w] = Zero /\ upto'[w] = Zero /\ todo'[w] = {} /\ pc'[w] = "gone"
      /\ \A v \in Workers \ {w} :
            /\ from'[v] = from[v] /\ upto'[v] = upto[v] /\ cur'[v] = cur[v]
            /\ todo'[v] = todo[v] /\ pc'[v] = pc[v]
  BY <1>1 DEF Forget, TypeOK
<1> HIDE DEF Zero
<1>3. /\ Committed' = Committed
      /\ \A v \in Workers \ {w} : Batch(v)' = Batch(v)
  BY <1>2 DEF Committed, Batch
<1>4. InLog' /\ Routed'
  <2>1. \A p \in Partitions : Len(log[p]) >= 0
    BY <1>1 DEF TypeOK
  <2> QED BY <1>1, <1>2, <2>1 DEF CurrentInv, Places, InLog, Routed
<1>5. \A p \in Partitions : ~Holds(w, p)'
  BY <1>1, <1>2 DEF Holds
<1>6. Held'
  BY <1>2, <1>5 DEF CurrentInv, Places, Held, Holds
<1>7. Resumed'
  BY <1>2 DEF CurrentInv, Places, Resumed, Holds, Working
<1>8. LeftOfBatch'
  BY <1>2, <1>3 DEF CurrentInv, LeftOfBatch, EventAt
<1>9. Written'
  BY <1>2, <1>3 DEF CurrentInv, Written, Working, Of, OnRow, EventAt
<1>10. CatalogCurrent'
  BY <1>3 DEF CurrentInv, CatalogCurrent, Of, EventAt
<1> QED
  BY <1>4, <1>6, <1>7, <1>8, <1>9, <1>10 DEF CurrentInv, Places

(* A write reaches only rows of the partitions its member holds, and there *)
(* it goes beyond the commits.                                             *)
LEMMA WriteGoesOn ==
    ASSUME TypeOK, CurrentInv, NEW w \in Workers, ReadyToWrite(w),
           WriteLands(w), UNCHANGED log
    PROVE  /\ \A r \in todo[w] : OnRow(r)'
           /\ \A v \in Workers \ {w} : \A r \in Batch(v) : OnRow(r)' = OnRow(r)
           /\ \A r \in Of(Committed, "ok") : OnRow(r)'
<1>1. /\ pc[w] = "work"
      /\ todo[w] \subseteq Batch(w) /\ todo[w] \in SUBSET Recs
      /\ catalog' = WrittenOver(catalog, todo[w])
      /\ \A r \in Recs : EventAt(r)' = EventAt(r)
  BY BatchInRecs
  DEF ReadyToWrite, NoPoisonLeft, CurrentInv, LeftOfBatch, WriteLands, EventAt
<1>2. \A k \in Keys :
        /\ (\A r \in todo[w] : EventAt(r).key # k) => catalog'[k] = catalog[k]
        /\ \A r \in todo[w] : EventAt(r).key = k => catalog'[k] >= r[2]
  BY <1>1, WrittenOverRow DEF TypeOK
<1>3. ASSUME NEW r \in todo[w]
      PROVE  /\ r \in Recs /\ EventAt(r).key \in Keys
             /\ PartitionOf[EventAt(r).key] = r[1]
             /\ owner[r[1]] = w /\ Holds(w, r[1]) /\ from[w][r[1]] < r[2]
  BY <1>1, RecordRead, BatchIsHeld, InBatchOf DEF CurrentInv, Places
<1>4. ASSUME NEW r \in todo[w] PROVE OnRow(r)'
  BY <1>1, <1>2, <1>3 DEF OnRow
<1>5. ASSUME NEW v \in Workers \ {w}, NEW r \in Batch(v)
      PROVE  OnRow(r)' = OnRow(r)
  <2>1. /\ r \in Recs /\ EventAt(r).key \in Keys
        /\ PartitionOf[EventAt(r).key] = r[1] /\ owner[r[1]] = v
    BY RecordRead, BatchIsHeld, InBatchOf DEF CurrentInv, Places
  <2>2. \A q \in todo[w] : EventAt(q).key # EventAt(r).key
    BY <1>3, <2>1
  <2>3. catalog'[EventAt(r).key] = catalog[EventAt(r).key]
    BY <1>2, <2>1, <2>2
  <2> QED BY <1>1, <2>1, <2>3 DEF OnRow
<1>6. ASSUME NEW r \in Of(Committed, "ok") PROVE OnRow(r)'
  <2> DEFINE k == EventAt(r).key
  <2>1. r \in Committed /\ r \in Recs /\ r[2] <= committed[r[1]] /\ OnRow(r)
    BY DEF Of, Committed, CurrentInv, CatalogCurrent, OnRow
  <2>2. r[1] \in Partitions /\ r[2] \in Nat /\ k \in Keys /\ PartitionOf[k] = r[1]
    BY <2>1, RecordRead, RecParts DEF CurrentInv, Places
  <2>3. catalog'[k] \in 0..MaxEvents
    BY <1>1, <2>2, WrittenOverType DEF TypeOK
  <2>4. ASSUME NEW q \in todo[w], EventAt(q).key = k PROVE catalog'[k] >= r[2]
    <3>1. q[1] = r[1] /\ q[2] \in Nat
      BY <1>3, <2>2, <2>4, RecParts
    <3>2. committed[r[1]] = from[w][r[1]]
      BY <1>1, <1>3, <2>2, <3>1 DEF CurrentInv, Places, Resumed, Working
    <3>3. from[w][r[1]] \in 0..MaxEvents /\ from[w][r[1]] < q[2]
      BY <1>3, <2>2, <3>1 DEF TypeOK
    <3>4. catalog'[k] >= q[2]
      BY <1>2, <2>2, <2>4
    <3> QED
      BY <2>1, <2>2, <2>3, <3>1, <3>2, <3>3, <3>4, ConstantsAssumption
  <2>5. (\A q \in todo[w] : EventAt(q).key # k) => catalog'[k] >= r[2]
    BY <1>2, <2>1, <2>2 DEF OnRow
  <2>6. catalog'[k] >= r[2]
    BY <2>4, <2>5
  <2> QED BY <1>1, <2>1, <2>6 DEF OnRow
<1> QED BY <1>4, <1>5, <1>6

LEMMA CurrentWrite ==
    ASSUME TypeInv, CurrentInv, NEW w \in Workers, ReadyToWrite(w),
           WriteLands(w),
           UNCHANGED <<log, committed, owner, pos, from, upto, cur>>,
           \/ todo' = [todo EXCEPT ![w] = {}] /\ pc' = pc
           \/ todo' = todo /\ (pc' = pc \/ Exit(w))
    PROVE  CurrentInv'
<1>1. /\ TypeOK /\ pc[w] = "work" /\ todo[w] # {}
      /\ pc'[w] \in {"work", "drain"}
      /\ todo'[w] = {} \/ todo'[w] = todo[w]
      /\ \A v \in Workers \ {w} : pc'[v] = pc[v] /\ todo'[v] = todo[v]
  BY DEF TypeInv, TypeOK, ReadyToWrite, NoPoisonLeft, Exit
<1>2. /\ \A r \in todo[w] : OnRow(r)'
      /\ \A v \in Workers \ {w} : \A r \in Batch(v) : OnRow(r)' = OnRow(r)
      /\ \A r \in Of(Committed, "ok") : OnRow(r)'
  BY <1>1, WriteGoesOn
<1>3. /\ Committed' = Committed
      /\ \A v \in Workers : Batch(v)' = Batch(v)
      /\ \A v \in Workers : Of(Batch(v), "ok")' = Of(Batch(v), "ok")
  BY DEF Committed, Batch, Of, EventAt
<1>4. Places'
  BY <1>1
  DEF CurrentInv, Places, InLog, Routed, Held, Resumed, Holds, Working, Holding
<1>5. LeftOfBatch'
  BY <1>1, <1>3 DEF CurrentInv, LeftOfBatch, EventAt
<1>6. Written'
  <2>1. ASSUME NEW v \in Workers, pc'[v] \in Working
        PROVE  \/ Of(Batch(v), "ok") \subseteq todo'[v]
               \/ todo'[v] = {} /\ \A r \in Of(Batch(v), "ok") : OnRow(r)'
    <3>1. CASE v = w
      <4>1. Of(Batch(w), "ok") \subseteq todo[w]
        BY <1>1 DEF CurrentInv, Written, Working
      <4> QED BY <1>1, <1>2, <3>1, <4>1
    <3>2. CASE v # w
      <4>1. \A r \in Of(Batch(v), "ok") : OnRow(r)' = OnRow(r)
        BY <1>2, <3>2 DEF Of
      <4> QED BY <1>1, <2>1, <3>2, <4>1 DEF CurrentInv, Written
    <3> QED BY <3>1, <3>2
  <2> QED BY <1>3, <2>1 DEF Written
<1>7. CatalogCurrent'
  BY <1>2, <1>3 DEF CatalogCurrent, OnRow, Of, EventAt
<1> QED BY <1>4, <1>5, <1>6, <1>7 DEF CurrentInv

(* What a commit covers was committed before, or is on its row.            *)
LEMMA CommitIsCurrent ==
    ASSUME TypeOK, CommitInv, CurrentInv, NEW w \in Workers, pc[w] = "commit",
           CommitLands(w), UNCHANGED <<log, catalog>>
    PROVE  CatalogCurrent'
<1> SUFFICES ASSUME NEW r \in Recs, r[2] <= committed'[r[1]],
                    EventAt(r).kind = "ok"
             PROVE  OnRow(r)
  BY DEF CatalogCurrent, Committed, Of, EventAt, OnRow
<1>1. r[1] \in Partitions /\ r[2] \in Nat
  BY RecParts
<1>2. CASE Holds(w, r[1])
  <2>1. /\ owner[r[1]] = w /\ from[w][r[1]] = committed[r[1]]
        /\ r[2] <= upto[w][r[1]]
    BY <1>1, <1>2
    DEF CurrentInv, Places, Held, Resumed, Working, CommitLands, Holds
  <2>2. CASE r[2] <= from[w][r[1]]
    BY <1>1, <2>1, <2>2 DEF CurrentInv, CatalogCurrent, Committed, Of, OnRow
  <2>3. CASE ~(r[2] <= from[w][r[1]])
    <3>1. r \in Of(Batch(w), "ok")
      BY <1>1, <2>1, <2>3 DEF Batch, Of, TypeOK
    <3>2. todo[w] = {}
      BY DEF CommitInv, NothingLeft, Settled
    <3> QED BY <3>1, <3>2 DEF CurrentInv, Written, Working
  <2> QED BY <2>2, <2>3
<1>3. CASE ~Holds(w, r[1])
  <2>1. r[2] <= committed[r[1]]
    BY <1>1, <1>3 DEF CommitLands, Holds
  <2> QED BY <2>1 DEF CurrentInv, CatalogCurrent, Committed, Of, OnRow
<1> QED BY <1>2, <1>3

(* Commits move only the partitions of the batch, which the member owns.   *)
LEMMA CommitMoves ==
    ASSUME TypeOK, CurrentInv, NEW w \in Workers, CommitLands(w)
    PROVE  \A p \in Partitions :
              /\ owner[p] # w => committed'[p] = committed[p]
              /\ Holds(w, p) => committed'[p] = upto[w][p]
              /\ ~Holds(w, p) => committed'[p] = committed[p]
BY DEF CommitLands, CurrentInv, Places, Held, Holds

LEMMA CurrentCommit ==
    ASSUME TypeInv, CommitInv, CurrentInv, NEW w \in Workers, Commit(w)
    PROVE  CurrentInv'
<1> USE DEF groupVars, storeVars
<1>1. /\ TypeOK /\ pc[w] = "commit" /\ CommitLands(w) /\ todo[w] = {}
      /\ from' = [from EXCEPT ![w] = Zero] /\ upto' = [upto EXCEPT ![w] = Zero]
      /\ pc' = [pc EXCEPT ![w] = "poll"]
      /\ UNCHANGED <<log, owner, pos, todo, cur, catalog>>
  BY DEF TypeInv, Commit, CommitInv, NothingLeft, Settled
<1>2. /\ from'[w] = Zero /\ upto'[w] = Zero /\ pc'[w] = "poll"
      /\ \A v \in Workers \ {w} :
            from'[v] = from[v] /\ upto'[v] = upto[v] /\ pc'[v] = pc[v]
  BY <1>1 DEF TypeOK
<1>3. \A p \in Partitions : Zero[p] = 0
  BY DEF Zero
<1> HIDE DEF Zero
<1>4. \A p \in Partitions : ~Holds(w, p)'
  BY <1>2, <1>3 DEF Holds
<1>5. \A v \in Workers \ {w} : Batch(v)' = Batch(v)
  BY <1>2 DEF Batch
<1>6. InLog' /\ Routed'
  <2>1. \A p \in Partitions : Len(log[p]) >= 0
    BY <1>1 DEF TypeOK
  <2> QED
    BY <1>1, <1>2, <1>3, <2>1, CommitMoves
    DEF CurrentInv, Places, InLog, Routed
<1>7. Held'
  BY <1>1, <1>2, <1>4 DEF CurrentInv, Places, Held, Holds
<1>8. Resumed'
  <2> SUFFICES ASSUME NEW v \in Workers, NEW p \in Partitions, owner[p] = v
               PROVE  /\ pc'[v] # "new"
                      /\ pc'[v] \in Working \cup {"poll"} =>
                            IF Holds(v, p)'
                            THEN from'[v][p] = committed'[p] /\ pos[v][p] = upto'[v][p]
                            ELSE pos[v][p] = committed'[p]
    BY <1>1 DEF Resumed
  <2>1. CASE v = w
    BY <1>1, <1>2, <1>4, <2>1, CommitMoves
    DEF CurrentInv, Places, Resumed, Working
  <2>2. CASE v # w
    BY <1>1, <1>2, <2>2, CommitMoves DEF CurrentInv, Places, Resumed, Holds
  <2> QED BY <2>1, <2>2
<1>9. LeftOfBatch'
  BY <1>1, <1>2, <1>5 DEF CurrentInv, LeftOfBatch, EventAt
<1>10. Written'
  BY <1>1, <1>2, <1>5 DEF CurrentInv, Written, Working, Of, OnRow, EventAt
<1>11. CatalogCurrent'
  BY <1>1, CommitIsCurrent
<1> QED
  BY <1>6, <1>7, <1>8, <1>9, <1>10, <1>11 DEF CurrentInv, Places

LEMMA CurrentCommitFails ==
    ASSUME TypeInv, CommitInv, CurrentInv, NEW w \in Workers, CommitFails(w)
    PROVE  CurrentInv'
<1> USE DEF groupVars, batchVars, storeVars
<1>1. /\ TypeOK /\ pc[w] = "commit"
      /\ CommitLands(w) \/ UNCHANGED committed
      /\ pc' = [pc EXCEPT ![w] = "drain"]
      /\ UNCHANGED <<log, owner, pos, from, upto, todo, cur, catalog>>
  BY DEF TypeInv, CommitFails, Exit
<1>2. /\ pc'[w] = "drain"
      /\ \A v \in Workers \ {w} : pc'[v] = pc[v]
  BY <1>1 DEF TypeInv, TypeOK
<1>3. \A v \in Workers : Batch(v)' = Batch(v)
  BY <1>1 DEF Batch
<1>4. InLog' /\ Routed'
  BY <1>1, CommitMoves DEF CurrentInv, Places, InLog, Routed
<1>5. Held'
  BY <1>1, <1>2 DEF CurrentInv, Places, Held, Holds, Holding
<1>6. Resumed'
  <2> SUFFICES ASSUME NEW v \in Workers, NEW p \in Partitions, owner[p] = v
               PROVE  /\ pc'[v] # "new"
                      /\ pc'[v] \in Working \cup {"poll"} =>
                            IF Holds(v, p)
                            THEN from[v][p] = committed'[p] /\ pos[v][p] = upto[v][p]
                            ELSE pos[v][p] = committed'[p]
    BY <1>1 DEF Resumed, Holds
  <2>1. CASE v = w
    BY <1>2, <2>1 DEF Working
  <2>2. CASE v # w
    BY <1>1, <1>2, <2>2, CommitMoves DEF CurrentInv, Places, Resumed
  <2> QED BY <2>1, <2>2
<1>7. LeftOfBatch' /\ Written'
  BY <1>1, <1>2, <1>3
  DEF CurrentInv, LeftOfBatch, Written, Working, Of, OnRow, EventAt
<1>8. CatalogCurrent'
  <2>1. CASE CommitLands(w) /\ pc[w] = "commit"
    BY <1>1, <2>1, CommitIsCurrent DEF TypeInv
  <2>2. CASE UNCHANGED committed
    BY <1>1, <2>2 DEF CurrentInv, CatalogCurrent, Of, Committed, EventAt
  <2> QED BY <1>1, <2>1, <2>2
<1> QED BY <1>4, <1>5, <1>6, <1>7, <1>8 DEF CurrentInv, Places

LEMMA CurrentStep ==
    ASSUME TypeInv, CommitInv, CurrentInv, MaxRevokes = 0, [Next]_vars
    PROVE  CurrentInv'
<1> USE DEF groupVars, batchVars, countVars, storeVars
<1>1. /\ TypeOK
      /\ \A w \in Workers : pc[w] = "poison" => EventAt(cur[w]).kind = "poison"
  BY DEF TypeInv, CurrentInv, LeftOfBatch
<1>2. CASE UNCHANGED vars
  BY <1>1, <1>2, CurrentStable DEF vars, Of
<1>3. ASSUME NEW e \in Events, Produce(e) PROVE CurrentInv'
  BY <1>3, CurrentProduce
<1>4. ASSUME NEW p \in Partitions, NEW w \in Workers, Assign(p, w)
      PROVE  CurrentInv'
  BY <1>4, CurrentAssign
<1>5. ASSUME NEW w \in Workers, MainStep(w) PROVE CurrentInv'
  <2> USE DEF Of
  <2>1. CASE Start(w)
    BY <1>1, <2>1, CurrentStable DEF Start, TypeOK, Working, Holding
  <2>2. CASE Poll(w)
    BY <2>2, CurrentPoll
  <2>3. CASE PoisonDead(w)
    BY <1>1, <2>3, CurrentStable DEF PoisonDead, TypeOK, Working, Holding
  <2>4. CASE UpsertBatch(w)
    BY <2>4, CurrentWrite DEF UpsertBatch
  <2>5. CASE UpsertRefused(w)
    BY <1>1, <2>5, CurrentStable
    DEF UpsertRefused, ReadyToWrite, NoPoisonLeft, Retry, Exit, TypeOK,
        Working, Holding
  <2>6. CASE CountBatch(w)
    BY <1>1, <2>6, CurrentStable DEF CountBatch, TypeOK, Working, Holding
  <2>7. ASSUME NEW r \in todo[w], CountPoison(w, r) PROVE CurrentInv'
    BY <1>1, <2>7, CurrentStable
    DEF CountPoison, First, TypeOK, Working, Holding
  <2>8. ASSUME NEW r \in todo[w], InvalidDead(w, r) PROVE CurrentInv'
    BY <1>1, <2>8, CurrentStable
    DEF InvalidDead, NoPoisonLeft, First, TypeOK, Working, Holding
  <2>9. CASE Commit(w)
    BY <2>9, CurrentCommit
  <2>10. CASE MainSnapshot(w)
    BY <1>1, <2>10, CurrentStable
    DEF MainSnapshot, FlushPoints, Reporting, TypeOK, Working, Holding
  <2>11. CASE MainDone(w)
    BY <1>1, <2>11, CurrentStable DEF MainDone, TypeOK, Working, Holding
  <2>12. CASE DrainDone(w)
    BY <2>12, CurrentForget DEF DrainDone
  <2>13. ASSUME NEW c \in left[w]["main"], ReportProgress(w, "main", c)
         PROVE  CurrentInv'
    BY <1>1, <2>13, CurrentStable DEF ReportProgress
  <2> QED
    BY <1>5, <2>1, <2>2, <2>3, <2>4, <2>5, <2>6, <2>7, <2>8, <2>9, <2>10,
       <2>11, <2>12, <2>13
    DEF MainStep, BatchStep, FlushStep
<1>6. ASSUME NEW w \in Workers, FlusherStep(w) PROVE CurrentInv'
  <2>1. UNCHANGED <<log, committed, owner, pos, from, upto, catalog, todo, cur, pc>>
    BY <1>6 DEF FlusherStep, FlusherSnapshot, FlusherDone, ReportProgress
  <2> QED BY <1>1, <2>1, CurrentStable DEF Of
<1>7. ASSUME NEW w \in Workers, FaultStep(w) PROVE CurrentInv'
  <2>1. CASE Crash(w)
    BY <2>1, CurrentForget DEF Crash
  <2>2. CASE Shutdown(w)
    BY <1>1, <2>2, CurrentStable DEF Shutdown, TypeOK, Working, Holding, Of
  <2>3. CASE PoisonDeadFails(w)
    BY <1>1, <2>3, CurrentStable
    DEF PoisonDeadFails, Exit, TypeOK, Working, Holding, Of
  <2>4. CASE UpsertFails(w)
    <3>1. PICK cancelled \in BOOLEAN : Retry(w, cancelled)
      BY <2>4 DEF UpsertFails
    <3>2. /\ UNCHANGED <<log, committed, owner, pos, from, upto, todo, cur>>
          /\ pc' = pc \/ Exit(w)
      BY <3>1 DEF Retry
    <3>3. CASE WriteLands(w)
      BY <2>4, <3>2, <3>3, CurrentWrite DEF UpsertFails
    <3>4. CASE UNCHANGED catalog
      <4>1. pc[w] = "work"
        BY <2>4 DEF UpsertFails, ReadyToWrite, NoPoisonLeft
      <4> QED
        BY <1>1, <3>2, <3>4, <4>1, CurrentStable
        DEF Exit, TypeOK, Working, Holding, Of
    <3> QED BY <2>4, <3>3, <3>4 DEF UpsertFails
  <2>5. CASE FlusherFails(w)
    BY <1>1, <2>5, CurrentStable DEF FlusherFails, Of
  <2>6. CASE MainFails(w)
    BY <1>1, <2>6, CurrentStable
    DEF MainFails, Exit, TypeOK, Working, Holding, Of
  <2>7. CASE DrainFails(w)
    BY <2>7, CurrentForget DEF DrainFails
  <2>8. CASE CommitFails(w)
    BY <2>8, CurrentCommitFails
  <2>9. ASSUME NEW r \in todo[w], InvalidDeadFails(w, r) PROVE CurrentInv'
    BY <1>1, <2>9, CurrentStable
    DEF InvalidDeadFails, NoPoisonLeft, Exit, TypeOK, Working, Holding, Of
  <2> QED
    BY <1>7, <2>1, <2>2, <2>3, <2>4, <2>5, <2>6, <2>7, <2>8, <2>9 DEF FaultStep
<1> QED
  BY <1>2, <1>3, <1>4, <1>5, <1>6, <1>7 DEF Next

(* The row of a committed event holds it or a newer one of its identity,   *)
(* for any number of members and faults, as long as partitions move only   *)
(* from dead members (products.go:59-62).                                  *)
THEOREM RowsStayCurrent ==
    ASSUME MaxRevokes = 0
    PROVE  Spec => []CatalogCurrent
<1>1. Init => CurrentInv
  BY CurrentInit
<1>2. TypeInv /\ CommitInv /\ CurrentInv /\ [Next]_vars => CurrentInv'
  BY CurrentStep
<1>3. CurrentInv => CatalogCurrent
  BY DEF CurrentInv
<1>4. Init => CommitInv
  BY CommitInit
<1>5. TypeInv /\ CommitInv /\ [Next]_vars => CommitInv'
  BY CommitStep
<1> QED BY <1>1, <1>2, <1>3, <1>4, <1>5, TypeInvariance, PTL DEF Spec

----------------------------------------------------------------------------
(* Sums over finite sets. The importer's ledger is a recursive sum, and    *)
(* nothing can be said of it before its equation is known to have a        *)
(* solution. The library's induction theorems take an operator; this one   *)
(* takes the set of the good subsets, which says as much and is            *)
(* first-order.                                                            *)
LEMMA SetInduction ==
    ASSUME NEW S, IsFiniteSet(S), NEW Good \in SUBSET (SUBSET S),
           {} \in Good,
           \A s \in SUBSET S :
               s # {} /\ (\A x \in s : s \ {x} \in Good) => s \in Good
    PROVE  \A s \in SUBSET S : s \in Good
<1> DEFINE Bad == (SUBSET S) \ Good
           R == StrictSubsetOrdering(S)
<1> SUFFICES ASSUME NEW q \in SUBSET S, q \notin Good PROVE FALSE
  OBVIOUS
<1>1. IsWellFoundedOn(R, SUBSET S)
  BY FS_StrictSubsetOrderingWellFounded, FS_FiniteSubsetsOfFinite
<1>2. \A s, t \in SUBSET S : t \subseteq s /\ t # s => <<t, s>> \in R
  BY DEF StrictSubsetOrdering
<1>3. Bad \subseteq SUBSET S /\ Bad # {}
  OBVIOUS
<1> HIDE DEF R
<1>4. PICK s \in Bad : \A t \in Bad : <<t, s>> \notin R
  <2> HIDE DEF Bad
  <2> QED BY <1>1, <1>3, WFMin
<1>5. s # {}
  OBVIOUS
<1>6. \A x \in s : s \ {x} \in Good
  <2> TAKE x \in s
  <2>1. s \ {x} \in SUBSET S /\ s \ {x} \subseteq s /\ s \ {x} # s
    OBVIOUS
  <2>2. <<s \ {x}, s>> \in R
    BY <2>1, <1>2
  <2> QED BY <2>1, <2>2, <1>4
<1> QED BY <1>5, <1>6

(* A finite set of counts has a greatest one, so the fold's maximum is     *)
(* well defined: it is a count of the set, and no other is above it.       *)
LEMMA GreatestExists ==
    ASSUME NEW S \in SUBSET Nat, IsFiniteSet(S)
    PROVE  /\ Greatest(S) \in Nat /\ \A n \in S : Greatest(S) >= n
           /\ IF S = {} THEN Greatest(S) = 0 ELSE Greatest(S) \in S
<1> DEFINE Top(s) == \E i \in s : \A h \in s : i >= h
           Good == {s \in SUBSET S : s = {} \/ Top(s)}
<1>1. ASSUME NEW s \in SUBSET S, s # {}, \A x \in s : s \ {x} \in Good
      PROVE  s \in Good
  <2>1. PICK x \in s : TRUE
    BY <1>1
  <2>2. s \ {x} = {} \/ Top(s \ {x})
    BY <1>1, <2>1
  <2>3. CASE s \ {x} = {}
    BY <2>1, <2>3
  <2>4. CASE Top(s \ {x})
    <3>1. PICK i \in s \ {x} : \A h \in s \ {x} : i >= h
      BY <2>4
    <3>2. CASE i >= x
      BY <3>1, <3>2
    <3>3. CASE ~(i >= x)
      <4>1. \A h \in s : x >= h
        BY <3>1, <3>3, <2>1
      <4> QED BY <4>1, <2>1
    <3> QED BY <3>2, <3>3
  <2> QED BY <2>2, <2>3, <2>4
<1>2. Good \in SUBSET (SUBSET S) /\ {} \in Good
  OBVIOUS
<1>3. S \in Good
  <2> HIDE DEF Good
  <2> QED BY <1>1, <1>2, SetInduction
<1>4. CASE S = {}
  BY <1>4 DEF Greatest
<1>5. CASE S # {}
  <2>1. \E i \in S : \A h \in S : i >= h
    BY <1>3, <1>5
  <2>2. Max(S) \in S /\ \A h \in S : Max(S) >= h
    BY <2>1 DEF Max
  <2> HIDE DEF Max
  <2> QED BY <2>2, <1>5 DEF Greatest
<1> QED BY <1>4, <1>5

(* The element a sum takes next, and the equation a table of the sums of f *)
(* over the subsets of S satisfies.                                        *)
Taken(s) == CHOOSE x \in s : TRUE

IsSumTable(t, f, S) ==
    t = [s \in SUBSET S |->
            IF s = {} THEN 0 ELSE f[Taken(s)] + t[s \ {Taken(s)}]]

(* The equation has a solution: one for the subsets of up to n elements    *)
(* extends to those of n + 1.                                              *)
LEMMA SumTableExists ==
    ASSUME NEW S, IsFiniteSet(S), NEW f
    PROVE  \E t : IsSumTable(t, f, S)
<1> DEFINE UpTo(s) == {r \in SUBSET S : Cardinality(r) <= Cardinality(s)}
           Entry(t, r) == IF r = {} THEN 0
                          ELSE f[Taken(r)] + t[r \ {Taken(r)}]
           Good == {s \in SUBSET S :
                       \E t : /\ t = [r \in UpTo(s) |-> t[r]]
                              /\ \A r \in UpTo(s) : t[r] = Entry(t, r)}
<1>1. \A r \in SUBSET S : /\ Cardinality(r) \in Nat
                          /\ Cardinality(r) <= Cardinality(S)
                          /\ Cardinality(r) = 0 <=> r = {}
  BY FS_Subset, FS_CardinalityType, FS_EmptySet
<1>2. \A r \in SUBSET S : \A x \in r :
          /\ r \ {x} \in SUBSET S
          /\ Cardinality(r \ {x}) = Cardinality(r) - 1
  BY FS_RemoveElement, FS_Subset
<1>3. \A r \in SUBSET S : r # {} => Taken(r) \in r
  BY DEF Taken
<1>4. {} \in Good
  <2> DEFINE t == [r \in UpTo({}) |-> 0]
  <2>1. \A r \in UpTo({}) : r = {}
    BY <1>1
  <2>2. t = [r \in UpTo({}) |-> t[r]]
    OBVIOUS
  <2>3. \A r \in UpTo({}) : t[r] = Entry(t, r)
    BY <2>1
  <2> HIDE DEF t, UpTo, Entry
  <2> QED BY <2>2, <2>3
<1>5. ASSUME NEW s \in SUBSET S, s # {}, \A x \in s : s \ {x} \in Good
      PROVE  s \in Good
  <2> DEFINE less == s \ {Taken(s)}
  <2>1. less \in Good /\ Cardinality(less) = Cardinality(s) - 1
    BY <1>2, <1>3, <1>5
  <2>2. PICK g : \A r \in UpTo(less) : g[r] = Entry(g, r)
    BY <2>1
  <2> DEFINE t == [r \in UpTo(s) |-> Entry(g, r)]
  <2>3. t = [r \in UpTo(s) |-> t[r]]
    OBVIOUS
  <2>4. \A r \in UpTo(s) : r # {} => r \ {Taken(r)} \in UpTo(less)
    BY <1>1, <1>2, <1>3, <2>1
  <2>5. UpTo(less) \subseteq UpTo(s)
    BY <1>1, <2>1
  <2>6. \A r \in UpTo(less) : t[r] = g[r]
    <3> HIDE DEF UpTo, Entry, less
    <3> QED BY <2>2, <2>5
  <2>7. ASSUME NEW r \in UpTo(s) PROVE t[r] = Entry(t, r)
    <3>1. t[r] = Entry(g, r)
      <4> HIDE DEF UpTo, Entry
      <4> QED OBVIOUS
    <3>2. Entry(g, r) = Entry(t, r)
      <4> HIDE DEF UpTo, t, less
      <4> QED BY <2>4, <2>6
    <3> QED BY <3>1, <3>2
  <2> HIDE DEF t, UpTo, Entry
  <2> QED BY <2>3, <2>7
<1>6. S \in Good
  <2>1. Good \in SUBSET (SUBSET S)
    OBVIOUS
  <2> HIDE DEF Good
  <2> QED BY <1>4, <1>5, <2>1, SetInduction
<1>7. PICK t : /\ t = [r \in UpTo(S) |-> t[r]]
               /\ \A r \in UpTo(S) : t[r] = Entry(t, r)
  BY <1>6
<1>8. UpTo(S) = SUBSET S
  BY <1>1
<1>9. t = [r \in SUBSET S |-> t[r]] /\ \A r \in SUBSET S : t[r] = Entry(t, r)
  BY <1>7, <1>8
<1>10. t = [r \in SUBSET S |-> Entry(t, r)]
  <2> HIDE DEF Entry
  <2> QED BY <1>9
<1> QED BY <1>10 DEF IsSumTable

LEMMA SumTableUnfolds ==
    ASSUME NEW S, NEW f, NEW t, IsSumTable(t, f, S)
    PROVE  /\ t[{}] = 0
           /\ \A s \in SUBSET S : s # {} =>
                 /\ Taken(s) \in s
                 /\ t[s] = f[Taken(s)] + t[s \ {Taken(s)}]
<1>1. \A s \in SUBSET S :
          t[s] = IF s = {} THEN 0 ELSE f[Taken(s)] + t[s \ {Taken(s)}]
  BY DEF IsSumTable
<1>2. \A s \in SUBSET S : s # {} => Taken(s) \in s
  BY DEF Taken
<1> HIDE DEF Taken
<1> QED BY <1>1, <1>2

(* A sum of counts is a count, and when each summand is at least the size  *)
(* of a finite set, the sum is at least the size of any set they cover.    *)
LEMMA SumCovers ==
    ASSUME NEW S, IsFiniteSet(S), NEW f \in [S -> Nat], NEW A,
           \A x \in S : IsFiniteSet(A[x]) /\ Cardinality(A[x]) <= f[x],
           NEW t, IsSumTable(t, f, S),
           NEW U, \A u \in U : \E x \in S : u \in A[x]
    PROVE  t[S] \in Nat /\ Cardinality(U) \in Nat /\ Cardinality(U) <= t[S]
<1> DEFINE All(s) == UNION {A[x] : x \in s}
           Right(s) == /\ t[s] \in Nat
                       /\ IsFiniteSet(All(s))
                       /\ Cardinality(All(s)) <= t[s]
           Good == {s \in SUBSET S : Right(s)}
<1>1. t[{}] = 0 /\ \A s \in SUBSET S : s # {} =>
          Taken(s) \in s /\ t[s] = f[Taken(s)] + t[s \ {Taken(s)}]
  BY SumTableUnfolds
<1>2. {} \in Good
  <2>1. All({}) = {}
    OBVIOUS
  <2>2. Right({})
    <3>1. t[{}] = 0 /\ IsFiniteSet({}) /\ Cardinality({}) = 0
      BY <1>1, FS_EmptySet
    <3> HIDE DEF All
    <3> QED BY <2>1, <3>1
  <2> QED BY <2>2
<1>3. ASSUME NEW s \in SUBSET S, s # {}, \A x \in s : s \ {x} \in Good
      PROVE  s \in Good
  <2> DEFINE x == Taken(s)
             r == s \ {x}
  <2>1. x \in s /\ t[s] = f[x] + t[r]
    BY <1>1, <1>3
  <2>2. Right(r)
    BY <2>1, <1>3
  <2>3. /\ f[x] \in Nat /\ IsFiniteSet(A[x])
        /\ Cardinality(A[x]) <= f[x]
    BY <2>1
  <2>4. All(s) = A[x] \cup All(r)
    BY <2>1
  <2> HIDE DEF All, x, r
  <2>5. /\ IsFiniteSet(All(s))
        /\ Cardinality(All(s)) = Cardinality(A[x]) + Cardinality(All(r))
                                    - Cardinality(A[x] \cap All(r))
    BY <2>2, <2>3, <2>4, FS_Union
  <2>6. /\ Cardinality(A[x]) \in Nat /\ Cardinality(All(r)) \in Nat
        /\ Cardinality(A[x] \cap All(r)) \in Nat
    BY <2>2, <2>3, FS_CardinalityType, FS_Intersection
  <2> QED BY <2>1, <2>2, <2>3, <2>5, <2>6
<1>4. \A s \in SUBSET S : s \in Good
  <2>1. Good \in SUBSET (SUBSET S)
    OBVIOUS
  <2> HIDE DEF Good
  <2> QED BY <1>2, <1>3, <2>1, SetInduction
<1>5. Right(S)
  BY <1>4
<1>6. U \in SUBSET All(S)
  OBVIOUS
<1> HIDE DEF All
<1>7. /\ Cardinality(U) <= Cardinality(All(S))
      /\ Cardinality(U) \in Nat /\ Cardinality(All(S)) \in Nat
  BY <1>5, <1>6, FS_Subset, FS_CardinalityType
<1> QED BY <1>5, <1>7

(* What one identity's reports add to the ledger of a job.                 *)
ReportsOf(id, j) == {m \in progress : m.worker = id /\ m.job = j}
RowOf(id, j) == Greatest({m.applied : m \in ReportsOf(id, j)})
                  + Greatest({m.dead : m \in ReportsOf(id, j)})

LEMMA LedgerIsTabled ==
    ASSUME IsFiniteSet(WorkerIds), NEW j
    PROVE  \E t :
              /\ IsSumTable(t, [id \in WorkerIds |-> RowOf(id, j)], WorkerIds)
              /\ Ledger(j) = t[WorkerIds]
<1> DEFINE f == [id \in WorkerIds |-> RowOf(id, j)]
           Tabled(t) == t = [s \in SUBSET WorkerIds |->
                               IF s = {} THEN 0
                               ELSE RowOf(Taken(s), j) + t[s \ {Taken(s)}]]
           table == CHOOSE t : Tabled(t)
<1>1. Ledger(j) = table[WorkerIds]
  BY DEF Ledger, MapThenSumSet, MapThenFoldSet, RowOf, ReportsOf, Taken
<1>2. \A s \in SUBSET WorkerIds : s # {} => f[Taken(s)] = RowOf(Taken(s), j)
  BY DEF Taken
<1>3. \A t : Tabled(t) <=> IsSumTable(t, f, WorkerIds)
  <2> HIDE DEF f
  <2> QED BY <1>2 DEF IsSumTable
<1>4. \E t : IsSumTable(t, f, WorkerIds)
  BY SumTableExists
<1> HIDE DEF f
<1>5. \E t : Tabled(t)
  BY <1>3, <1>4
<1>6. Tabled(table)
  <2> HIDE DEF Tabled
  <2> QED BY <1>5
<1> HIDE DEF Tabled, table
<1>7. IsSumTable(table, f, WorkerIds)
  BY <1>3, <1>6
<1> QED BY <1>1, <1>7 DEF f

----------------------------------------------------------------------------
(* Nothing is read, fetched or committed beyond the end of the log, however *)
(* the partitions move.                                                    *)

LEMMA LogTyped ==
    ASSUME TypeOK, NEW p \in Partitions
    PROVE  /\ log[p] \in Seq(Events) /\ Len(log[p]) \in Nat
           /\ committed[p] \in Nat
           /\ \A w \in Workers :
                 from[w][p] \in Nat /\ upto[w][p] \in Nat /\ pos[w][p] \in Nat
<1>1. /\ log[p] \in Seq(Events) /\ committed[p] \in 0..MaxEvents
      /\ \A w \in Workers : /\ from[w][p] \in 0..MaxEvents
                            /\ upto[w][p] \in 0..MaxEvents
                            /\ pos[w][p] \in 0..MaxEvents
  BY DEF TypeOK
<1> QED BY <1>1, ConstantsAssumption

LEMMA LogGrows ==
    ASSUME TypeOK, NEW e \in Events, Produce(e), NEW p \in Partitions
    PROVE  /\ Len(log'[p]) \in Nat /\ Len(log[p]) <= Len(log'[p])
           /\ \A i \in 1..Len(log[p]) : log'[p][i] = log[p][i]
<1>1. log[p] \in Seq(Events)
  BY DEF TypeOK
<1>2. log'[p] = log[p] \/ log'[p] = Append(log[p], e)
  BY DEF Produce, TypeOK
<1> QED BY <1>1, <1>2

LEMMA InLogStable ==
    ASSUME InLog, UNCHANGED <<log, committed, pos>>,
           \A w \in Workers : upto'[w] = upto[w] \/ upto'[w] = Zero
    PROVE  TypeOK => InLog'
<1> SUFFICES ASSUME TypeOK, NEW p \in Partitions
             PROVE  /\ committed[p] <= Len(log[p])
                    /\ \A w \in Workers :
                          /\ pos[w][p] <= Len(log[p])
                          /\ upto'[w][p] <= Len(log[p])
  BY DEF InLog
<1>1. Len(log[p]) \in Nat /\ Zero[p] = 0
  BY LogTyped DEF Zero
<1> QED BY <1>1 DEF InLog

LEMMA InLogPoll ==
    ASSUME TypeOK, InLog, NEW w \in Workers, Poll(w)
    PROVE  InLog'
<1>1. PICK n \in [Partitions -> 0..MaxPoll] :
        /\ \A p \in Partitions : n[p] > 0 =>
              owner[p] = w /\ pos[w][p] + n[p] <= Len(log[p])
        /\ upto' = [upto EXCEPT ![w] = [p \in Partitions |-> pos[w][p] + n[p]]]
        /\ pos' = [pos EXCEPT ![w] = [p \in Partitions |-> @[p] + n[p]]]
  BY DEF Poll
<1>2. UNCHANGED <<log, committed>>
  BY DEF Poll
<1> SUFFICES ASSUME NEW p \in Partitions, NEW v \in Workers
             PROVE  /\ committed[p] <= Len(log[p])
                    /\ pos'[v][p] <= Len(log[p]) /\ upto'[v][p] <= Len(log[p])
  BY <1>2 DEF InLog
<1>3. CASE v # w
  BY <1>1, <1>3 DEF InLog, TypeOK
<1>4. CASE v = w
  <2>1. pos'[w][p] = pos[w][p] + n[p] /\ upto'[w][p] = pos[w][p] + n[p]
    BY <1>1 DEF TypeOK
  <2>2. pos[w][p] <= Len(log[p]) /\ committed[p] <= Len(log[p])
    BY DEF InLog
  <2>3. pos[w][p] \in Nat /\ Len(log[p]) \in Nat /\ n[p] \in Nat
    BY LogTyped, ConstantsAssumption
  <2> QED BY <1>1, <1>4, <2>1, <2>2, <2>3
<1> QED BY <1>3, <1>4

LEMMA InLogStep ==
    ASSUME TypeOK, InLog, [Next]_vars
    PROVE  InLog'
<1> USE DEF groupVars, batchVars, countVars, storeVars
<1>1. ASSUME NEW w \in Workers, UNCHANGED <<log, pos>>, CommitLands(w),
             \A v \in Workers : upto'[v] = upto[v] \/ upto'[v] = Zero
      PROVE  InLog'
  <2> SUFFICES ASSUME NEW p \in Partitions
               PROVE  /\ committed'[p] <= Len(log[p])
                      /\ \A v \in Workers : upto'[v][p] <= Len(log[p])
    BY <1>1 DEF InLog
  <2>1. Len(log[p]) \in Nat /\ Zero[p] = 0
    BY LogTyped DEF Zero
  <2> QED BY <1>1, <2>1 DEF InLog, CommitLands
<1>2. ASSUME NEW e \in Events, Produce(e) PROVE InLog'
  <2> SUFFICES ASSUME NEW p \in Partitions
               PROVE  /\ committed[p] <= Len(log'[p])
                      /\ \A w \in Workers :
                            /\ pos[w][p] <= Len(log'[p])
                            /\ upto[w][p] <= Len(log'[p])
    BY <1>2 DEF Produce, InLog
  <2> QED BY <1>2, LogTyped, LogGrows DEF InLog
<1>3. ASSUME NEW p \in Partitions, NEW w \in Workers, Assign(p, w)
      PROVE  InLog'
  BY <1>3 DEF Assign, InLog, TypeOK
<1>4. ASSUME NEW w \in Workers, MainStep(w) PROVE InLog'
  <2>1. CASE Poll(w)
    BY <2>1, InLogPoll
  <2>2. CASE Commit(w)
    BY <2>2, <1>1 DEF Commit, TypeOK
  <2>3. CASE Start(w) \/ BatchStep(w)
    BY <2>3, InLogStable
    DEF Start, BatchStep, PoisonDead, UpsertBatch, UpsertRefused, Retry,
        CountBatch, CountPoison, InvalidDead
  <2>4. CASE FlushStep(w)
    BY <2>4, InLogStable
    DEF FlushStep, MainSnapshot, MainDone, DrainDone, Forget, ReportProgress,
        TypeOK
  <2> QED BY <1>4, <2>1, <2>2, <2>3, <2>4 DEF MainStep
<1>5. ASSUME NEW w \in Workers, FlusherStep(w) PROVE InLog'
  BY <1>5, InLogStable
  DEF FlusherStep, FlusherSnapshot, FlusherDone, ReportProgress
<1>6. ASSUME NEW w \in Workers, FaultStep(w) PROVE InLog'
  <2>1. CASE CommitFails(w)
    BY <2>1, <1>1, InLogStable DEF CommitFails
  <2>2. CASE Crash(w) \/ DrainFails(w)
    BY <2>2, InLogStable DEF Crash, DrainFails, Forget, TypeOK
  <2>3. CASE UpsertFails(w)
    BY <2>3, InLogStable DEF UpsertFails, Retry
  <2>4. CASE \/ Shutdown(w) \/ PoisonDeadFails(w) \/ FlusherFails(w)
             \/ MainFails(w) \/ \E r \in todo[w] : InvalidDeadFails(w, r)
    BY <2>4, InLogStable
    DEF Shutdown, PoisonDeadFails, FlusherFails, MainFails, InvalidDeadFails
  <2> QED BY <1>6, <2>1, <2>2, <2>3, <2>4 DEF FaultStep
<1>7. CASE UNCHANGED vars
  BY <1>7, InLogStable DEF vars
<1> QED BY <1>2, <1>3, <1>4, <1>5, <1>6, <1>7 DEF Next

----------------------------------------------------------------------------
(* Progress before commit. Each worker identity answers for some records:  *)
(* C[id] holds the records of the batches its process committed, or tried  *)
(* to. Together the identities answer for whatever a commit covers; a live *)
(* process has counted what it answers for, and the part of the batch in   *)
(* hand that it is past; and a report of the identity says as much. The    *)
(* identities are distinct: a process that started under the identity of a *)
(* dead one would count from zero under its reports.                       *)

(* The records of the batch in hand whose verdict is in the counters.      *)
Counted(w) ==
    IF pc[w] = "work" THEN Of(Batch(w) \ todo[w], "poison")
    ELSE IF pc[w] = "poison"
         THEN Of(Batch(w) \ (todo[w] \ {cur[w]}), "poison")
    ELSE IF pc[w] \in {"flush", "report", "commit"} THEN Batch(w)
    ELSE {}

Credit(C) == {r \in Recs : \E id \in WorkerIds : r \in C[id]}

Within(C) == \A id \in WorkerIds : \A r \in C[id] : r[2] <= Len(log[r[1]])

(* What is committed, before a batch or fetched is answered for.           *)
Covers(C) ==
    /\ Committed \subseteq Credit(C)
    /\ \A w \in Workers, r \in Recs :
          r[2] <= from[w][r[1]] => r \in Credit(C)
    /\ \A w \in Workers, r \in Recs :
          pc[w] # "gone" /\ r[2] <= pos[w][r[1]]
              => r \in Credit(C) \cup Batch(w)
    /\ \A w \in Workers : pc[w] \in {"new", "poll"} => Batch(w) = {}

Total(c) == c.applied + c.dead
Size(S, j) == Cardinality(OfJob(S, j))

Tallied(C, w) ==
    \A j \in Jobs :
        Size(C[WorkerId[w]], j) + Size(Counted(w), j) <= Total(cnt[w][j])

Tallies(C) ==
    \A w \in Workers :
        /\ pc[w] = "new" => C[WorkerId[w]] = {}
        /\ pc[w] \notin {"new", "gone"} => Tallied(C, w)

Told(C) ==
    \A id \in WorkerIds, j \in Jobs :
        \/ OfJob(C[id], j) = {}
        \/ \E m \in ReportsOf(id, j) : Size(C[id], j) <= Total(m)

Account(C) == Within(C) /\ Covers(C) /\ Tallies(C) /\ Told(C)

Accounts == [WorkerIds -> SUBSET Recs]

AccountInv ==
    /\ InLog
    /\ IsFiniteSet(progress)
    /\ \E C \in Accounts : Account(C)

LEMMA SizeType ==
    ASSUME NEW S \in SUBSET Recs, NEW j
    PROVE  OfJob(S, j) \in SUBSET Recs /\ Size(S, j) \in Nat
BY RecsFinite DEF Size, OfJob

LEMMA SizeMonotone ==
    ASSUME NEW S \in SUBSET Recs, NEW T \in SUBSET S, NEW j
    PROVE  Size(T, j) <= Size(S, j)
<1>1. OfJob(T, j) \in SUBSET OfJob(S, j)
  BY DEF OfJob
<1> QED BY <1>1, SizeType, RecsFinite, FS_Subset DEF Size

LEMMA SizeOfUnion ==
    ASSUME NEW S \in SUBSET Recs, NEW T \in SUBSET Recs, NEW j
    PROVE  Size(S \cup T, j) <= Size(S, j) + Size(T, j)
<1> DEFINE A == OfJob(S, j)
           B == OfJob(T, j)
<1>1. OfJob(S \cup T, j) = A \cup B
  BY DEF OfJob
<1>2. A \in SUBSET Recs /\ B \in SUBSET Recs /\ A \cap B \in SUBSET Recs
  BY DEF OfJob
<1>3. /\ IsFiniteSet(A) /\ IsFiniteSet(B)
      /\ Cardinality(A) \in Nat /\ Cardinality(B) \in Nat
      /\ Cardinality(A \cap B) \in Nat
  BY <1>2, RecsFinite
<1> HIDE DEF A, B
<1>4. Cardinality(A \cup B)
        = Cardinality(A) + Cardinality(B) - Cardinality(A \cap B)
  BY <1>3, FS_Union
<1>5. Cardinality(A \cup B) <= Cardinality(A) + Cardinality(B)
  BY <1>3, <1>4
<1> QED BY <1>1, <1>5 DEF Size, A, B

LEMMA CountedInBatch ==
    ASSUME NEW w \in Workers
    PROVE  Counted(w) \subseteq Batch(w) /\ Counted(w) \in SUBSET Recs
BY BatchInRecs DEF Counted, Of

LEMMA TotalType ==
    ASSUME TypeOK, NEW w \in Workers, NEW j \in Jobs
    PROVE  /\ Total(cnt[w][j]) \in Nat
           /\ cnt[w][j].applied \in Nat /\ cnt[w][j].dead \in Nat
<1>1. cnt[w][j] \in Count
  BY DEF TypeOK
<1> QED BY <1>1 DEF Count, Total

(* A step of one process that moves no offset.                             *)
LEMMA AccountMoves ==
    ASSUME NEW C \in Accounts, Account(C), NEW w \in Workers,
           UNCHANGED <<log, committed, pos, from, upto>>,
           progress \subseteq progress',
           \A v \in Workers \ {w} :
              /\ pc'[v] = pc[v] /\ cnt'[v] = cnt[v]
              /\ todo'[v] = todo[v] /\ cur'[v] = cur[v],
           pc'[w] = "new" => pc[w] = "new",
           pc'[w] = "poll" => pc[w] \in {"new", "poll"},
           pc[w] = "gone" => pc'[w] = "gone",
           pc'[w] \notin {"new", "gone"} => Tallied(C, w)'
    PROVE  Account(C)'
<1>1. /\ Committed' = Committed /\ Credit(C)' = Credit(C)
      /\ \A v \in Workers : Batch(v)' = Batch(v)
      /\ \A r \in Recs : EventAt(r)' = EventAt(r)
  BY DEF Committed, Batch, Credit, EventAt
<1>2. Within(C)'
  BY DEF Account, Within
<1>3. Covers(C)'
  BY <1>1 DEF Account, Covers
<1>4. ASSUME NEW v \in Workers \ {w} PROVE Counted(v)' = Counted(v)
  BY <1>1 DEF Counted, Of, EventAt
<1>5. Tallies(C)'
  <2>1. ASSUME NEW v \in Workers \ {w}
        PROVE  Tallied(C, v)' <=> Tallied(C, v)
    BY <1>4 DEF Tallied, Size, OfJob, EventAt
  <2> QED BY <2>1 DEF Account, Tallies
<1>6. Told(C)'
  BY DEF Account, Told, Size, OfJob, EventAt, ReportsOf
<1> QED BY <1>2, <1>3, <1>5, <1>6 DEF Account

(* ... and counts nothing, and takes nothing new for counted.              *)
LEMMA AccountQuiet ==
    ASSUME TypeOK, NEW C \in Accounts, Account(C), NEW w \in Workers,
           UNCHANGED <<log, committed, pos, from, upto, cnt>>,
           progress \subseteq progress',
           \A v \in Workers \ {w} :
              pc'[v] = pc[v] /\ todo'[v] = todo[v] /\ cur'[v] = cur[v],
           pc[w] \notin {"new", "gone"},
           pc'[w] \notin {"new", "gone"},
           pc'[w] = "poll" => pc[w] = "poll",
           Counted(w)' \subseteq Counted(w)
    PROVE  Account(C)'
<1>1. C[WorkerId[w]] \in SUBSET Recs
  BY ConstantsAssumption DEF Accounts
<1>2. ASSUME NEW j \in Jobs
      PROVE  (Size(C[WorkerId[w]], j) + Size(Counted(w), j)
                 <= Total(cnt[w][j]))'
  <2>1. /\ Size(C[WorkerId[w]], j)' = Size(C[WorkerId[w]], j)
        /\ Size(Counted(w), j)' = Size(Counted(w)', j)
        /\ Total(cnt[w][j])' = Total(cnt[w][j])
    BY DEF Size, OfJob, EventAt
  <2>2. Size(Counted(w)', j) <= Size(Counted(w), j)
    BY CountedInBatch, SizeMonotone
  <2>3. Size(C[WorkerId[w]], j) + Size(Counted(w), j) <= Total(cnt[w][j])
    BY DEF Account, Tallies, Tallied
  <2>4. /\ Size(Counted(w)', j) \in Nat /\ Size(Counted(w), j) \in Nat
        /\ Size(C[WorkerId[w]], j) \in Nat /\ Total(cnt[w][j]) \in Nat
    BY <1>1, CountedInBatch, SizeType, TotalType
  <2> QED BY <2>1, <2>2, <2>3, <2>4
<1>3. Tallied(C, w)'
  BY <1>2 DEF Tallied
<1> QED BY <1>3, AccountMoves

(* What is appended is in no batch and behind no commit yet.               *)
LEMMA AccountProduce ==
    ASSUME TypeOK, InLog, NEW C \in Accounts, Account(C),
           NEW e \in Events, Produce(e)
    PROVE  Account(C)'
<1> USE DEF groupVars, batchVars, countVars, storeVars
<1>1. /\ UNCHANGED <<committed, pos, from, upto, pc, todo, cur, cnt, progress>>
      /\ Committed' = Committed /\ Credit(C)' = Credit(C)
      /\ \A w \in Workers : Batch(w)' = Batch(w)
  BY DEF Produce, Committed, Batch, Credit
<1>2. ASSUME NEW r \in Recs, r[2] <= Len(log[r[1]])
      PROVE  EventAt(r)' = EventAt(r) /\ r[2] <= Len(log'[r[1]])
  <2>1. r[1] \in Partitions /\ r[2] \in Nat /\ r[2] > 0
    BY RecParts
  <2>2. Len(log[r[1]]) \in Nat
    BY <2>1, LogTyped
  <2> QED BY <1>2, <2>1, <2>2, LogGrows DEF EventAt
<1>3. \A id \in WorkerIds : C[id] \subseteq Recs
  BY DEF Accounts
<1>4. ASSUME NEW id \in WorkerIds, NEW j
      PROVE  OfJob(C[id], j)' = OfJob(C[id], j)
  BY <1>2, <1>3 DEF OfJob, Account, Within
<1>5. ASSUME NEW w \in Workers, NEW r \in Batch(w)
      PROVE  EventAt(r)' = EventAt(r)
  <2>1. r \in Recs /\ r[1] \in Partitions /\ r[2] <= upto[w][r[1]]
    BY InBatchOf, RecParts
  <2>2. r[2] \in Nat /\ upto[w][r[1]] \in Nat /\ Len(log[r[1]]) \in Nat
    BY <2>1, RecParts, LogTyped
  <2>3. r[2] <= Len(log[r[1]])
    BY <2>1, <2>2 DEF InLog
  <2> QED BY <1>2, <2>1, <2>3
<1>6. ASSUME NEW w \in Workers
      PROVE  /\ Counted(w)' = Counted(w)
             /\ \A j : OfJob(Counted(w), j)' = OfJob(Counted(w), j)
  <2>1. Counted(w)' = Counted(w)
    BY <1>1, <1>5 DEF Counted, Of
  <2>2. \A r \in Counted(w) : EventAt(r)' = EventAt(r)
    BY <1>5, CountedInBatch
  <2> QED BY <2>1, <2>2 DEF OfJob
<1>7. Within(C)'
  BY <1>2, <1>3 DEF Account, Within
<1>8. Covers(C)'
  BY <1>1 DEF Account, Covers
<1>9. Tallies(C)'
  <2>1. ASSUME NEW w \in Workers PROVE Tallied(C, w)' <=> Tallied(C, w)
    BY <1>1, <1>4, <1>6, ConstantsAssumption DEF Tallied, Size
  <2> QED BY <1>1, <2>1 DEF Account, Tallies
<1>10. Told(C)'
  BY <1>1, <1>4 DEF Account, Told, Size, ReportsOf
<1> QED BY <1>7, <1>8, <1>9, <1>10 DEF Account

(* A member resumes where the commits end, which is answered for.          *)
LEMMA AccountAssign ==
    ASSUME TypeOK, NEW C \in Accounts, Account(C),
           NEW p \in Partitions, NEW w \in Workers, Assign(p, w)
    PROVE  Account(C)'
<1> USE DEF groupVars, batchVars, countVars, storeVars
<1>1. /\ UNCHANGED <<log, committed, from, upto, pc, todo, cur, cnt, progress>>
      /\ pos' = [pos EXCEPT ![w][p] = committed[p]]
      /\ Committed' = Committed /\ Credit(C)' = Credit(C)
      /\ \A v \in Workers : Batch(v)' = Batch(v)
  BY DEF Assign, Committed, Batch, Credit
<1>2. ASSUME NEW v \in Workers, NEW r \in Recs, pc[v] # "gone",
             r[2] <= pos'[v][r[1]]
      PROVE  r \in Credit(C) \cup Batch(v)
  <2>1. r[1] \in Partitions
    BY RecParts
  <2>2. CASE v = w /\ r[1] = p
    BY <1>1, <1>2, <2>2 DEF TypeOK, Committed, Account, Covers
  <2>3. CASE ~(v = w /\ r[1] = p)
    <3>1. r[2] <= pos[v][r[1]]
      BY <1>1, <1>2, <2>1, <2>3 DEF TypeOK
    <3> QED BY <1>2, <3>1 DEF Account, Covers
  <2> QED BY <2>2, <2>3
<1>3. Covers(C)'
  BY <1>1, <1>2 DEF Account, Covers
<1>4. Within(C)' /\ Tallies(C)' /\ Told(C)'
  BY <1>1 DEF Account, Within, Tallies, Tallied, Told, Size, OfJob, EventAt,
              Counted, Of, ReportsOf
<1> QED BY <1>3, <1>4 DEF Account

(* The next batch starts where the last one ended, and none of it counts.  *)
LEMMA AccountPoll ==
    ASSUME TypeOK, NEW C \in Accounts, Account(C),
           NEW w \in Workers, Poll(w)
    PROVE  Account(C)'
<1> USE DEF storeVars, countVars
<1>1. PICK n \in [Partitions -> 0..MaxPoll] :
        /\ from' = [from EXCEPT ![w] = pos[w]]
        /\ upto' = [upto EXCEPT ![w] = [p \in Partitions |-> pos[w][p] + n[p]]]
        /\ pos' = [pos EXCEPT ![w] = [p \in Partitions |-> @[p] + n[p]]]
  BY DEF Poll
<1>2. /\ pc[w] = "poll" /\ pc' = [pc EXCEPT ![w] = "work"]
      /\ todo' = [todo EXCEPT ![w] = Batch(w)']
      /\ UNCHANGED <<log, committed, cur, cnt, progress>>
  BY DEF Poll
<1>3. /\ from'[w] = pos[w] /\ todo'[w] = Batch(w)' /\ pc'[w] = "work"
      /\ \A p \in Partitions : upto'[w][p] = pos'[w][p]
      /\ \A v \in Workers \ {w} :
            /\ from'[v] = from[v] /\ upto'[v] = upto[v] /\ pos'[v] = pos[v]
            /\ todo'[v] = todo[v] /\ pc'[v] = pc[v]
  BY <1>1, <1>2 DEF TypeOK
<1>4. /\ Committed' = Committed /\ Credit(C)' = Credit(C)
      /\ \A v \in Workers \ {w} : Batch(v)' = Batch(v)
      /\ \A r : EventAt(r)' = EventAt(r)
  BY <1>2, <1>3 DEF Committed, Credit, Batch, EventAt
<1>5. ASSUME NEW r \in Recs, r[2] <= pos[w][r[1]] PROVE r \in Credit(C)
  BY <1>2, <1>5 DEF Account, Covers
<1>6. ASSUME NEW r \in Recs, r[2] <= pos'[w][r[1]]
      PROVE  r \in Credit(C) \cup Batch(w)'
  <2>1. r[1] \in Partitions /\ r[2] \in Nat
    BY RecParts
  <2>2. r[2] <= pos[w][r[1]] \/ from'[w][r[1]] < r[2]
    BY <2>1, <1>3, LogTyped
  <2>3. r[2] <= upto'[w][r[1]]
    BY <2>1, <1>3, <1>6
  <2> QED BY <2>2, <2>3, <1>5 DEF Batch
<1>7. Covers(C)'
  BY <1>3, <1>4, <1>5, <1>6 DEF Account, Covers
<1>8. Counted(w)' = {} /\ \A v \in Workers \ {w} : Counted(v)' = Counted(v)
  BY <1>2, <1>3, <1>4 DEF Counted, Of
<1>10. Tallied(C, w)'
  <2> SUFFICES ASSUME NEW j \in Jobs
               PROVE  Size(C[WorkerId[w]], j) + Size({}, j) <= Total(cnt[w][j])
    BY <1>2, <1>4, <1>8 DEF Tallied, Size, OfJob
  <2>1. C[WorkerId[w]] \in SUBSET Recs /\ {} \in SUBSET Counted(w)
    BY ConstantsAssumption DEF Accounts
  <2>2. /\ Size(C[WorkerId[w]], j) \in Nat /\ Size({}, j) \in Nat
        /\ Size(Counted(w), j) \in Nat /\ Total(cnt[w][j]) \in Nat
        /\ Size({}, j) <= Size(Counted(w), j)
    BY <2>1, CountedInBatch, SizeType, SizeMonotone, TotalType
  <2>3. Size(C[WorkerId[w]], j) + Size(Counted(w), j) <= Total(cnt[w][j])
    BY <1>2 DEF Account, Tallies, Tallied
  <2> QED BY <2>2, <2>3
<1>11. Tallies(C)'
  <2>1. ASSUME NEW v \in Workers \ {w}
        PROVE  Tallied(C, v)' <=> Tallied(C, v)
    BY <1>2, <1>4, <1>8 DEF Tallied, Size, OfJob
  <2> QED BY <1>2, <1>3, <1>10, <2>1 DEF Account, Tallies
<1>12. Within(C)' /\ Told(C)'
  BY <1>2, <1>4 DEF Account, Within, Told, Size, OfJob, ReportsOf
<1> QED BY <1>7, <1>11, <1>12 DEF Account

(* A process that ends leaves its identity answering for what it did.      *)
LEMMA AccountForget ==
    ASSUME TypeOK, NEW C \in Accounts, Account(C),
           NEW w \in Workers, Forget(w),
           UNCHANGED <<log, committed, pos>>, progress \subseteq progress'
    PROVE  Account(C)'
<1>1. /\ from'[w] = Zero /\ upto'[w] = Zero /\ pc'[w] = "gone"
      /\ \A v \in Workers \ {w} :
            /\ from'[v] = from[v] /\ upto'[v] = upto[v] /\ todo'[v] = todo[v]
            /\ cur'[v] = cur[v] /\ cnt'[v] = cnt[v] /\ pc'[v] = pc[v]
  BY DEF Forget, TypeOK
<1>2. \A r \in Recs : ~(r[2] <= Zero[r[1]])
  BY RecParts DEF Zero
<1> HIDE DEF Zero
<1>3. /\ Committed' = Committed /\ Credit(C)' = Credit(C)
      /\ \A v \in Workers \ {w} : Batch(v)' = Batch(v)
      /\ \A r : EventAt(r)' = EventAt(r)
  BY <1>1 DEF Committed, Credit, Batch, EventAt
<1>4. Covers(C)'
  BY <1>1, <1>2, <1>3 DEF Account, Covers
<1>5. Tallies(C)'
  <2>1. ASSUME NEW v \in Workers \ {w}
        PROVE  Tallied(C, v)' <=> Tallied(C, v)
    <3>1. Counted(v)' = Counted(v)
      BY <1>1, <1>3 DEF Counted, Of
    <3> QED BY <1>1, <1>3, <3>1 DEF Tallied, Size, OfJob
  <2> QED BY <1>1, <2>1 DEF Account, Tallies
<1>6. Within(C)' /\ Told(C)'
  BY <1>3 DEF Account, Within, Told, Size, OfJob, ReportsOf
<1> QED BY <1>4, <1>5, <1>6 DEF Account

(* A poison record counts as it is taken in hand.                          *)
LEMMA AccountPoison ==
    ASSUME TypeOK, InLog, NEW C \in Accounts, Account(C),
           NEW w \in Workers, NEW r \in todo[w], CountPoison(w, r)
    PROVE  Account(C)'
<1> USE DEF groupVars, storeVars
<1>1. /\ pc[w] = "work" /\ r \in Of(todo[w], "poison")
      /\ cnt' = [cnt EXCEPT ![w] = AddDead(@, EventAt(r).job)]
      /\ cur'[w] = r /\ pc'[w] = "poison"
      /\ \A v \in Workers \ {w} :
            pc'[v] = pc[v] /\ cnt'[v] = cnt[v] /\ cur'[v] = cur[v]
      /\ UNCHANGED <<log, committed, pos, from, upto, todo, progress>>
  BY DEF CountPoison, First, TypeOK
<1>2. Counted(w)' \subseteq Counted(w) \cup {r}
  BY <1>1 DEF Counted, Of, Batch, EventAt
<1>3. r \in Recs
  BY DEF TypeOK
<1>4. ASSUME NEW j \in Jobs
      PROVE  (Size(C[WorkerId[w]], j) + Size(Counted(w), j)
                 <= Total(cnt[w][j]))'
  <2> DEFINE before == Size(C[WorkerId[w]], j) + Size(Counted(w), j)
  <2>1. /\ Size(C[WorkerId[w]], j)' = Size(C[WorkerId[w]], j)
        /\ Size(Counted(w), j)' = Size(Counted(w)', j)
        /\ Total(cnt[w][j])' = Total(cnt'[w][j])
    BY <1>1 DEF Size, OfJob, EventAt, Total
  <2>2. before <= Total(cnt[w][j])
    BY <1>1 DEF Account, Tallies, Tallied
  <2>3. C[WorkerId[w]] \in SUBSET Recs /\ Counted(w)' \in SUBSET Recs
    BY <1>2, <1>3, CountedInBatch, ConstantsAssumption DEF Accounts
  <2>4. /\ Size(Counted(w)', j) \in Nat /\ Size(Counted(w), j) \in Nat
        /\ Size(C[WorkerId[w]], j) \in Nat /\ Total(cnt[w][j]) \in Nat
        /\ cnt[w][j].applied \in Nat /\ cnt[w][j].dead \in Nat
    BY <2>3, CountedInBatch, SizeType, TotalType
  <2>5. cnt[w] \in [Jobs -> Count]
    BY DEF TypeOK
  <2>6. CASE EventAt(r).job = j
    <3>1. Total(cnt'[w][j]) = Total(cnt[w][j]) + 1
      <4>1. cnt'[w][j] = [cnt[w][j] EXCEPT !.dead = @ + 1]
        BY <1>1, <2>5, <2>6 DEF AddDead, TypeOK
      <4>2. cnt[w][j] \in Count
        BY <2>5
      <4> QED BY <4>1, <4>2, <2>4 DEF Total, Count
    <3>2. Size(Counted(w)', j) <= Size(Counted(w), j) + 1
      <4> DEFINE S == OfJob(Counted(w), j)
      <4>1. OfJob(Counted(w)', j) \in SUBSET (S \cup {r})
        BY <1>2 DEF OfJob
      <4>2. S \in SUBSET Recs
        BY CountedInBatch, SizeType
      <4> HIDE DEF S
      <4>3. /\ S \cup {r} \in SUBSET Recs /\ IsFiniteSet(S)
            /\ Cardinality(S) \in Nat
        BY <4>2, <1>3, RecsFinite
      <4>4. /\ Cardinality(S \cup {r}) <= Cardinality(S) + 1
            /\ IsFiniteSet(S \cup {r}) /\ Cardinality(S \cup {r}) \in Nat
        BY <4>3, FS_AddElement, RecsFinite
      <4>5. Cardinality(OfJob(Counted(w)', j)) <= Cardinality(S \cup {r})
        BY <4>1, <4>4, FS_Subset
      <4> QED BY <2>4, <4>3, <4>4, <4>5 DEF Size, S
    <3> QED BY <2>1, <2>2, <2>4, <3>1, <3>2
  <2>7. CASE EventAt(r).job # j
    <3>1. cnt'[w][j] = cnt[w][j]
      BY <1>1, <2>5, <2>7 DEF AddDead, TypeOK
    <3>2. OfJob(Counted(w)', j) \in SUBSET OfJob(Counted(w), j)
      BY <1>2, <2>7 DEF OfJob
    <3>3. Size(Counted(w)', j) <= Size(Counted(w), j)
      BY <3>2, CountedInBatch, SizeType, RecsFinite, FS_Subset DEF Size
    <3> QED BY <2>1, <2>2, <2>4, <3>1, <3>3
  <2> QED BY <2>6, <2>7
<1>5. Tallied(C, w)'
  BY <1>4 DEF Tallied
<1> QED BY <1>1, <1>5, AccountMoves

(* A record of the batch is applied, invalid or poison, so that the counts *)
(* of an adjudicated batch account for all of it.                          *)
LEMMA BatchIsCounted ==
    ASSUME TypeOK, InLog, NEW w \in Workers, NEW j \in Jobs
    PROVE  Size(Batch(w), j)
              <= Cardinality(OfJob(Validated(Batch(w)), j))
                   + Cardinality(OfJob(Of(Batch(w), "invalid"), j))
                   + Size(Of(Batch(w), "poison"), j)
<1> DEFINE A == Validated(Batch(w))
           B == Of(Batch(w), "invalid")
           P == Of(Batch(w), "poison")
<1>1. ASSUME NEW r \in Batch(w) PROVE r \in (A \cup B) \cup P
  <2>1. r \in Recs /\ r[1] \in Partitions /\ r[2] <= upto[w][r[1]]
    BY InBatchOf, RecParts
  <2>2. /\ r[2] \in Nat /\ r[2] > 0
        /\ upto[w][r[1]] \in Nat /\ Len(log[r[1]]) \in Nat
        /\ log[r[1]] \in Seq(Events)
    BY <2>1, RecParts, LogTyped
  <2>3. r[2] \in 1..Len(log[r[1]])
    BY <2>1, <2>2 DEF InLog
  <2>4. EventAt(r) \in Events
    BY <2>2, <2>3 DEF EventAt
  <2>5. EventAt(r).kind \in Kinds
    BY <2>4, ConstantsAssumption DEF Event
  <2> QED BY <2>5 DEF Kinds, Validated, Of
<1>2. A \in SUBSET Recs /\ B \in SUBSET Recs /\ P \in SUBSET Recs
  BY BatchInRecs DEF Validated, Of
<1> HIDE DEF A, B, P
<1>3. Batch(w) \in SUBSET ((A \cup B) \cup P)
  BY <1>1
<1>4. /\ Size(Batch(w), j) <= Size((A \cup B) \cup P, j)
      /\ Size((A \cup B) \cup P, j) <= Size(A \cup B, j) + Size(P, j)
      /\ Size(A \cup B, j) <= Size(A, j) + Size(B, j)
  BY <1>2, <1>3, SizeMonotone, SizeOfUnion
<1>5. /\ Size(Batch(w), j) \in Nat /\ Size((A \cup B) \cup P, j) \in Nat
      /\ Size(A \cup B, j) \in Nat /\ Size(A, j) \in Nat
      /\ Size(B, j) \in Nat /\ Size(P, j) \in Nat
  BY <1>2, BatchInRecs, SizeType
<1>6. Size(Batch(w), j) <= Size(A, j) + Size(B, j) + Size(P, j)
  BY <1>4, <1>5
<1> QED BY <1>6 DEF A, B, P, Size

LEMMA AccountBatch ==
    ASSUME TypeOK, InLog, NEW C \in Accounts, Account(C),
           NEW w \in Workers, CountBatch(w)
    PROVE  Account(C)'
<1> USE DEF groupVars, storeVars, batchVars
<1>1. /\ pc[w] = "work" /\ todo[w] = {} /\ pc'[w] = "flush"
      /\ \A v \in Workers \ {w} : pc'[v] = pc[v] /\ cnt'[v] = cnt[v]
      /\ UNCHANGED <<log, committed, pos, from, upto, todo, cur, progress>>
  BY DEF CountBatch, TypeOK
<1>2. Counted(w) = Of(Batch(w), "poison")
  BY <1>1 DEF Counted
<1>3. Counted(w)' = Batch(w)
  BY <1>1 DEF Counted, Batch
<1>4. ASSUME NEW j \in Jobs
      PROVE  (Size(C[WorkerId[w]], j) + Size(Counted(w), j)
                 <= Total(cnt[w][j]))'
  <2> DEFINE a == Cardinality(OfJob(Validated(Batch(w)), j))
             d == Cardinality(OfJob(Of(Batch(w), "invalid"), j))
  <2>1. /\ Size(C[WorkerId[w]], j)' = Size(C[WorkerId[w]], j)
        /\ Size(Counted(w), j)' = Size(Batch(w), j)
        /\ Total(cnt[w][j])' = Total(cnt'[w][j])
    BY <1>1, <1>3 DEF Size, OfJob, EventAt, Total
  <2>2. cnt'[w][j] = [applied |-> cnt[w][j].applied + a,
                      dead |-> cnt[w][j].dead + d]
    BY DEF CountBatch, TypeOK
  <2>3. a \in Nat /\ d \in Nat
    BY BatchInRecs, RecsFinite DEF OfJob, Of, Validated
  <2> HIDE DEF a, d
  <2>4. C[WorkerId[w]] \in SUBSET Recs
    BY ConstantsAssumption DEF Accounts
  <2>5. /\ Size(Batch(w), j) \in Nat /\ Size(Counted(w), j) \in Nat
        /\ Size(C[WorkerId[w]], j) \in Nat /\ Total(cnt[w][j]) \in Nat
        /\ cnt[w][j].applied \in Nat /\ cnt[w][j].dead \in Nat
    BY <2>4, BatchInRecs, CountedInBatch, SizeType, TotalType
  <2>6. Total(cnt'[w][j]) = Total(cnt[w][j]) + a + d
    BY <2>2, <2>3, <2>5 DEF Total
  <2>7. Size(C[WorkerId[w]], j) + Size(Counted(w), j) <= Total(cnt[w][j])
    BY <1>1 DEF Account, Tallies, Tallied
  <2>8. Size(Batch(w), j) <= a + d + Size(Counted(w), j)
    BY <1>2, BatchIsCounted DEF a, d
  <2> QED BY <2>1, <2>3, <2>5, <2>6, <2>7, <2>8
<1>5. Tallied(C, w)'
  BY <1>4 DEF Tallied
<1> QED BY <1>1, <1>5, AccountMoves

(* A commit that lands makes the identity answer for the batch: at that    *)
(* point its counts are in a report.                                       *)
LEMMA AccountCommit ==
    ASSUME \A v, u \in Workers : WorkerId[v] = WorkerId[u] => v = u,
           TypeOK, InLog, ReportedAtCommit, NEW C \in Accounts, Account(C),
           NEW w \in Workers, pc[w] = "commit", CommitLands(w),
           UNCHANGED <<log, pos, todo, cur, cnt, progress>>,
           \A v \in Workers \ {w} :
              from'[v] = from[v] /\ upto'[v] = upto[v] /\ pc'[v] = pc[v],
           \/ from'[w] = Zero /\ upto'[w] = Zero /\ pc'[w] = "poll"
           \/ from'[w] = from[w] /\ upto'[w] = upto[w] /\ pc'[w] = "drain"
    PROVE  \E D \in Accounts : Account(D)'
<1> DEFINE id == WorkerId[w]
<1>1. id \in WorkerIds /\ C[id] \in SUBSET Recs
  BY ConstantsAssumption DEF Accounts
<1>2. PICK D \in Accounts :
         /\ D[id] = C[id] \cup Batch(w)
         /\ \A i \in WorkerIds \ {id} : D[i] = C[i]
  <2>1. [C EXCEPT ![id] = @ \cup Batch(w)] \in Accounts
    BY <1>1, BatchInRecs DEF Accounts
  <2> QED BY <1>1, <2>1 DEF Accounts
<1>3. \A v \in Workers \ {w} : WorkerId[v] \in WorkerIds \ {id}
  BY ConstantsAssumption
<1> HIDE DEF id
<1>4. Credit(D) = Credit(C) \cup Batch(w)
  BY <1>1, <1>2, BatchInRecs DEF Credit
<1>5. \A r \in Recs : ~(r[2] <= Zero[r[1]])
  BY RecParts DEF Zero
<1> HIDE DEF Zero
<1>6. /\ \A v \in Workers \ {w} : Batch(v)' = Batch(v)
      /\ pc'[w] = "poll" => Batch(w)' = {}
      /\ \A r : EventAt(r)' = EventAt(r)
      /\ Credit(D)' = Credit(D)
  BY <1>5 DEF Batch, EventAt, Credit
<1>7. Within(D)'
  <2>1. ASSUME NEW r \in Batch(w) PROVE r[2] <= Len(log[r[1]])
    <3>1. r \in Recs /\ r[1] \in Partitions /\ r[2] <= upto[w][r[1]]
      BY InBatchOf, RecParts
    <3>2. r[2] \in Nat /\ upto[w][r[1]] \in Nat /\ Len(log[r[1]]) \in Nat
      BY <3>1, RecParts, LogTyped
    <3> QED BY <3>1, <3>2 DEF InLog
  <2> QED BY <2>1, <1>2 DEF Account, Within
<1>8. ASSUME NEW r \in Recs, r[2] <= committed'[r[1]]
      PROVE  r \in Credit(D)
  <2>1. r[1] \in Partitions
    BY RecParts
  <2>2. CASE from[w][r[1]] < upto[w][r[1]]
    <3>1. r[2] <= upto[w][r[1]]
      BY <1>8, <2>1, <2>2 DEF CommitLands
    <3>2. r[2] \in Nat /\ from[w][r[1]] \in Nat
      BY <2>1, RecParts, LogTyped
    <3>3. r[2] <= from[w][r[1]] \/ r \in Batch(w)
      BY <3>1, <3>2 DEF Batch
    <3> QED BY <3>3, <1>4 DEF Account, Covers
  <2>3. CASE ~(from[w][r[1]] < upto[w][r[1]])
    BY <1>4, <1>8, <2>1, <2>3 DEF CommitLands, Committed, Account, Covers
  <2> QED BY <2>2, <2>3
<1>9. Covers(D)'
  <2>1. Committed' \subseteq Credit(D)
    BY <1>8 DEF Committed
  <2>2. \A v \in Workers, r \in Recs :
           r[2] <= from'[v][r[1]] => r \in Credit(D)
    BY <1>4, <1>5 DEF Account, Covers
  <2>3. \A v \in Workers, r \in Recs :
           pc'[v] # "gone" /\ r[2] <= pos[v][r[1]]
              => r \in Credit(D) \cup Batch(v)'
    BY <1>4, <1>6 DEF Account, Covers
  <2>4. \A v \in Workers : pc'[v] \in {"new", "poll"} => Batch(v)' = {}
    BY <1>6 DEF Account, Covers
  <2> QED BY <1>6, <2>1, <2>2, <2>3, <2>4 DEF Covers
<1>10. ASSUME NEW j \in Jobs PROVE Size(D[id], j) <= Total(cnt[w][j])
  <2>1. Counted(w) = Batch(w)
    BY DEF Counted
  <2>2. Size(C[id], j) + Size(Batch(w), j) <= Total(cnt[w][j])
    BY <2>1 DEF Account, Tallies, Tallied, id
  <2>3. Size(D[id], j) <= Size(C[id], j) + Size(Batch(w), j)
    BY <1>1, <1>2, BatchInRecs, SizeOfUnion
  <2>4. /\ Size(C[id], j) \in Nat /\ Size(Batch(w), j) \in Nat
        /\ Size(D[id], j) \in Nat /\ Total(cnt[w][j]) \in Nat
    BY <1>1, <1>2, BatchInRecs, SizeType, TotalType
  <2> QED BY <2>2, <2>3, <2>4
<1>11. Tallies(D)'
  <2>1. ASSUME NEW v \in Workers \ {w}
        PROVE  Tallied(D, v)' <=> Tallied(C, v)
    <3>1. Counted(v)' = Counted(v)
      BY <1>6 DEF Counted, Of
    <3> QED BY <1>2, <1>3, <1>6, <3>1 DEF Tallied, Size, OfJob
  <2>2. Tallied(D, w)'
    <3>1. Counted(w)' = {}
      BY DEF Counted
    <3>2. ASSUME NEW j \in Jobs PROVE Size({}, j) = 0
      BY FS_EmptySet DEF Size, OfJob
    <3>3. ASSUME NEW j \in Jobs
          PROVE  Size(D[id], j) + Size({}, j) <= Total(cnt[w][j])
      <4>1. Size(D[id], j) \in Nat /\ D[id] \in SUBSET Recs
        BY <1>1, <1>2, BatchInRecs, SizeType
      <4> QED BY <1>10, <3>2, <4>1, TotalType
    <3> QED BY <1>6, <3>1, <3>3 DEF Tallied, Size, OfJob, id
  <2> QED BY <1>2, <1>3, <2>1, <2>2 DEF Account, Tallies
<1>12. ASSUME NEW j \in Jobs, OfJob(D[id], j) # {}
       PROVE  \E m \in ReportsOf(id, j) : Size(D[id], j) <= Total(m)
  <2>1. D[id] \in SUBSET Recs
    BY <1>1, <1>2, BatchInRecs
  <2>2. Size(D[id], j) \in Nat /\ Size(D[id], j) # 0
    <3>1. /\ IsFiniteSet(OfJob(D[id], j)) /\ Size(D[id], j) \in Nat
      BY <2>1, SizeType, RecsFinite
    <3> QED BY <1>12, <3>1, FS_EmptySet DEF Size
  <2>3. cnt[w][j] # NoCount
    BY <1>10, <2>2 DEF NoCount, Total
  <2> DEFINE m == [worker |-> id, job |-> j, applied |-> cnt[w][j].applied,
                   dead |-> cnt[w][j].dead]
  <2>4. m \in progress
    BY <2>3 DEF ReportedAtCommit, id
  <2>5. m \in ReportsOf(id, j) /\ Total(m) = Total(cnt[w][j])
    BY <2>4 DEF ReportsOf, Total
  <2> QED BY <1>10, <2>5
<1>13. Told(D)'
  <2>1. ASSUME NEW i \in WorkerIds, NEW j \in Jobs, OfJob(D[i], j) # {}
        PROVE  \E m \in ReportsOf(i, j) : Size(D[i], j) <= Total(m)
    BY <1>2, <1>12, <2>1 DEF Account, Told
  <2> QED BY <1>6, <2>1 DEF Told, OfJob, Size, ReportsOf
<1> QED BY <1>2, <1>7, <1>9, <1>11, <1>13 DEF Account

LEMMA AccountStep ==
    ASSUME \A v, w \in Workers : WorkerId[v] = WorkerId[w] => v = w,
           TypeInv, InLog, ReportedAtCommit, [Next]_vars,
           NEW C \in Accounts, Account(C)
    PROVE  \E D \in Accounts : Account(D)'
<1> USE DEF groupVars, batchVars, countVars, storeVars
<1> TypeOK /\ InHand
  BY DEF TypeInv
<1> SUFFICES ASSUME ~ \E D \in Accounts : Account(D)'
             PROVE  Account(C)'
  OBVIOUS
<1>1. CASE UNCHANGED vars
  <2>1. UNCHANGED <<log, committed, pos, from, upto, pc, todo, cur, cnt,
                    progress>>
    BY <1>1 DEF vars
  <2>2. /\ Committed' = Committed /\ Credit(C)' = Credit(C)
        /\ \A w \in Workers : Batch(w)' = Batch(w) /\ Counted(w)' = Counted(w)
    BY <2>1 DEF Committed, Credit, Batch, Counted, Of, EventAt
  <2>3. Within(C)' /\ Covers(C)'
    BY <2>1, <2>2 DEF Account, Within, Covers
  <2>4. Tallies(C)'
    BY <2>1, <2>2 DEF Account, Tallies, Tallied, Size, OfJob, EventAt
  <2>5. Told(C)'
    BY <2>1 DEF Account, Told, Size, OfJob, EventAt, ReportsOf
  <2> QED BY <2>3, <2>4, <2>5 DEF Account
<1>2. ASSUME NEW e \in Events, Produce(e) PROVE Account(C)'
  BY <1>2, AccountProduce
<1>3. ASSUME NEW p \in Partitions, NEW w \in Workers, Assign(p, w)
      PROVE  Account(C)'
  BY <1>3, AccountAssign
<1>4. ASSUME NEW w \in Workers, Exit(w), pc[w] \notin {"new", "gone"},
             UNCHANGED <<log, committed, pos, from, upto, todo, cur, cnt>>,
             progress \subseteq progress'
      PROVE  Account(C)'
  <2>1. /\ pc'[w] = "drain" /\ Counted(w)' = {}
        /\ \A v \in Workers \ {w} : pc'[v] = pc[v]
    BY <1>4 DEF Exit, TypeOK, Counted
  <2> QED BY <1>4, <2>1, AccountQuiet
<1>5. ASSUME NEW w \in Workers, UNCHANGED <<log, committed, pos, from, upto,
             todo, cur, cnt, pc>>, progress \subseteq progress',
             pc[w] \notin {"new", "gone"}
      PROVE  Account(C)'
  <2>1. Counted(w)' = Counted(w)
    BY <1>5 DEF Counted, Of, Batch, EventAt
  <2> QED BY <1>5, <2>1, AccountQuiet
<1>6. ASSUME NEW w \in Workers, NEW t \in Threads, NEW c \in left[w][t],
             ReportProgress(w, t, c)
      PROVE  Account(C)'
  <2>1. pc[w] \notin {"new", "gone"}
    BY <1>6 DEF ReportProgress, CanReport, ReportPoints, FlusherRuns
  <2> QED BY <1>5, <1>6, <2>1 DEF ReportProgress
<1>7. "main" \in Threads /\ "flusher" \in Threads
  BY DEF Threads
<1>8. ASSUME NEW w \in Workers, MainStep(w) PROVE Account(C)'
  <2>1. CASE Start(w)
    <3>1. /\ pc[w] = "new" /\ pc'[w] = "poll"
          /\ \A v \in Workers \ {w} : pc'[v] = pc[v]
          /\ UNCHANGED <<log, committed, pos, from, upto, todo, cur, cnt,
                         progress>>
      BY <2>1 DEF Start, TypeOK
    <3>2. C[WorkerId[w]] = {} /\ Counted(w)' = {}
      BY <3>1 DEF Account, Tallies, Counted
    <3>3. ASSUME NEW j \in Jobs
          PROVE  Size({}, j) + Size({}, j) <= Total(cnt[w][j])
      BY FS_EmptySet, TotalType DEF Size, OfJob
    <3>4. Tallied(C, w)'
      BY <3>1, <3>2, <3>3 DEF Tallied, Size, OfJob
    <3> QED BY <3>1, <3>4, AccountMoves
  <2>2. CASE Poll(w)
    BY <2>2, AccountPoll
  <2>3. CASE PoisonDead(w)
    <3>1. /\ pc[w] = "poison" /\ pc'[w] = "work"
          /\ todo'[w] = todo[w] \ {cur[w]}
          /\ \A v \in Workers \ {w} :
                pc'[v] = pc[v] /\ todo'[v] = todo[v] /\ cur'[v] = cur[v]
          /\ UNCHANGED <<log, committed, pos, from, upto, cnt, progress>>
      BY <2>3 DEF PoisonDead, TypeOK
    <3>2. Counted(w)' = Counted(w)
      BY <3>1 DEF Counted, Of, Batch, EventAt
    <3> QED BY <3>1, <3>2, AccountQuiet
  <2>4. CASE UpsertBatch(w)
    <3>1. /\ pc[w] = "work" /\ Of(todo[w], "poison") = {}
          /\ \A v \in Workers \ {w} : todo'[v] = todo[v]
          /\ UNCHANGED <<log, committed, pos, from, upto, cnt, progress, pc,
                         cur>>
      BY <2>4 DEF UpsertBatch, ReadyToWrite, NoPoisonLeft, TypeOK
    <3>2. Counted(w)' \subseteq Counted(w)
      BY <3>1 DEF Counted, Of, Batch, EventAt
    <3> QED BY <3>1, <3>2, AccountQuiet
  <2>5. CASE UpsertRefused(w)
    <3>1. /\ pc[w] = "work" /\ (pc' = pc \/ Exit(w))
          /\ UNCHANGED <<log, committed, pos, from, upto, cnt, progress, todo,
                         cur>>
      BY <2>5 DEF UpsertRefused, ReadyToWrite, NoPoisonLeft, Retry
    <3>2. CASE pc' = pc
      BY <3>1, <3>2, <1>5
    <3>3. CASE Exit(w)
      BY <3>1, <3>3, <1>4
    <3> QED BY <3>1, <3>2, <3>3
  <2>6. CASE CountBatch(w)
    BY <2>6, AccountBatch
  <2>7. ASSUME NEW r \in todo[w], CountPoison(w, r) PROVE Account(C)'
    BY <2>7, AccountPoison
  <2>8. ASSUME NEW r \in todo[w], InvalidDead(w, r) PROVE Account(C)'
    <3>1. /\ pc[w] = "work" /\ r \in Of(todo[w], "invalid")
          /\ todo'[w] = todo[w] \ {r}
          /\ \A v \in Workers \ {w} : todo'[v] = todo[v]
          /\ UNCHANGED <<log, committed, pos, from, upto, cnt, progress, pc,
                         cur>>
      BY <2>8 DEF InvalidDead, NoPoisonLeft, First, TypeOK
    <3>2. Counted(w)' \subseteq Counted(w)
      BY <3>1 DEF Counted, Of, Batch, EventAt
    <3> QED BY <3>1, <3>2, AccountQuiet
  <2>9. CASE Commit(w)
    BY <2>9, AccountCommit DEF Commit, TypeOK
  <2>10. CASE MainSnapshot(w)
    <3>1. /\ pc[w] \in FlushPoints /\ pc'[w] = Reporting(pc[w])
          /\ \A v \in Workers \ {w} : pc'[v] = pc[v]
          /\ UNCHANGED <<log, committed, pos, from, upto, cnt, progress, todo,
                         cur>>
      BY <2>10 DEF MainSnapshot, TypeOK
    <3>2. pc'[w] \in ReportPoints /\ Counted(w)' \subseteq Counted(w)
      BY <3>1
      DEF FlushPoints, ReportPoints, Reporting, Counted, Batch
    <3> QED BY <3>1, <3>2, AccountQuiet DEF FlushPoints, ReportPoints
  <2>11. CASE MainDone(w)
    <3>1. /\ pc[w] = "report" /\ pc'[w] = "commit"
          /\ \A v \in Workers \ {w} : pc'[v] = pc[v]
          /\ UNCHANGED <<log, committed, pos, from, upto, cnt, progress, todo,
                         cur>>
      BY <2>11 DEF MainDone, TypeOK
    <3>2. Counted(w)' = Counted(w)
      BY <3>1 DEF Counted, Batch
    <3> QED BY <3>1, <3>2, AccountQuiet
  <2>12. CASE DrainDone(w)
    BY <2>12, AccountForget DEF DrainDone
  <2>13. ASSUME NEW c \in left[w]["main"], ReportProgress(w, "main", c)
         PROVE  Account(C)'
    BY <2>13, <1>6, <1>7
  <2> QED
    BY <1>8, <2>1, <2>2, <2>3, <2>4, <2>5, <2>6, <2>7, <2>8, <2>9, <2>10,
       <2>11, <2>12, <2>13
    DEF MainStep, BatchStep, FlushStep
<1>9. ASSUME NEW w \in Workers, FlusherStep(w) PROVE Account(C)'
  <2>1. CASE FlusherSnapshot(w) \/ FlusherDone(w)
    BY <2>1, <1>5 DEF FlusherSnapshot, FlusherDone, Flushed, CanReport,
                      FlusherRuns
  <2>2. ASSUME NEW c \in left[w]["flusher"], ReportProgress(w, "flusher", c)
        PROVE  Account(C)'
    BY <2>2, <1>6, <1>7
  <2> QED BY <1>9, <2>1, <2>2 DEF FlusherStep
<1>10. ASSUME NEW w \in Workers, FaultStep(w) PROVE Account(C)'
  <2>1. CASE Crash(w)
    BY <2>1, AccountForget DEF Crash
  <2>2. CASE Shutdown(w)
    <3>1. /\ pc[w] = "poll" /\ pc'[w] = "stop" /\ Counted(w)' = {}
          /\ \A v \in Workers \ {w} : pc'[v] = pc[v]
          /\ UNCHANGED <<log, committed, pos, from, upto, cnt, progress, todo,
                         cur>>
      BY <2>2 DEF Shutdown, TypeOK, Counted
    <3> QED BY <3>1, AccountQuiet
  <2>3. CASE PoisonDeadFails(w)
    BY <2>3, <1>4 DEF PoisonDeadFails
  <2>4. CASE UpsertFails(w)
    <3>1. PICK cancelled \in BOOLEAN : Retry(w, cancelled)
      BY <2>4 DEF UpsertFails
    <3>2. pc[w] = "work" /\ (pc' = pc \/ Exit(w))
      BY <2>4, <3>1 DEF UpsertFails, ReadyToWrite, NoPoisonLeft, Retry
    <3>3. UNCHANGED <<log, committed, pos, from, upto, cnt, progress, todo,
                      cur>>
      BY <3>1 DEF Retry
    <3>4. CASE pc' = pc
      BY <3>2, <3>3, <3>4, <1>5
    <3>5. CASE Exit(w)
      BY <3>2, <3>3, <3>5, <1>4
    <3> QED BY <3>2, <3>4, <3>5
  <2>5. CASE FlusherFails(w)
    BY <2>5, <1>5 DEF FlusherFails, DeliveredAnyway, CanReport, FlusherRuns
  <2>6. CASE MainFails(w)
    BY <2>6, <1>4 DEF MainFails, DeliveredAnyway
  <2>7. CASE DrainFails(w)
    BY <2>7, AccountForget DEF DrainFails, DeliveredAnyway
  <2>8. CASE CommitFails(w)
    <3>1. /\ pc[w] = "commit" /\ Exit(w)
          /\ (CommitLands(w) \/ UNCHANGED committed)
          /\ UNCHANGED <<log, pos, from, upto, cnt, progress, todo, cur>>
      BY <2>8 DEF CommitFails
    <3>2. CASE UNCHANGED committed
      BY <3>1, <3>2, <1>4
    <3>3. CASE CommitLands(w)
      <4>1. pc'[w] = "drain" /\ \A v \in Workers \ {w} : pc'[v] = pc[v]
        BY <3>1 DEF Exit, TypeOK
      <4> QED BY <3>1, <3>3, <4>1, AccountCommit
    <3> QED BY <3>1, <3>2, <3>3
  <2>9. ASSUME NEW r \in todo[w], InvalidDeadFails(w, r) PROVE Account(C)'
    BY <2>9, <1>4 DEF InvalidDeadFails, NoPoisonLeft
  <2> QED
    BY <1>10, <2>1, <2>2, <2>3, <2>4, <2>5, <2>6, <2>7, <2>8, <2>9
    DEF FaultStep
<1> QED
  BY <1>1, <1>2, <1>3, <1>8, <1>9, <1>10 DEF Next

(* One report more at most.                                                *)
LEMMA ReportsStayFinite ==
    ASSUME IsFiniteSet(progress), [Next]_vars
    PROVE  IsFiniteSet(progress')
<1> SUFFICES \/ UNCHANGED progress
             \/ \E m : progress' = progress \cup {m}
  BY FS_AddElement
<1> USE DEF groupVars, batchVars, countVars, storeVars
<1>1. ASSUME NEW w \in Workers, MainStep(w)
      PROVE  UNCHANGED progress \/ \E m : progress' = progress \cup {m}
  BY <1>1 DEF MainStep, Start, Poll, BatchStep, PoisonDead, UpsertBatch,
              UpsertRefused, Retry, CountBatch, CountPoison, InvalidDead,
              FlushStep, MainSnapshot, MainDone, DrainDone, ReportProgress,
              Commit
<1>2. ASSUME NEW w \in Workers, FaultStep(w)
      PROVE  UNCHANGED progress \/ \E m : progress' = progress \cup {m}
  BY <1>2 DEF FaultStep, Crash, Shutdown, PoisonDeadFails, UpsertFails, Retry,
              FlusherFails, MainFails, DrainFails, CommitFails,
              InvalidDeadFails, DeliveredAnyway
<1> QED
  BY <1>1, <1>2
  DEF Next, vars, Produce, Assign, FlusherStep, FlusherSnapshot, FlusherDone,
      ReportProgress

LEMMA AccountInit ==
    Init => AccountInv
<1> SUFFICES ASSUME Init PROVE AccountInv
  OBVIOUS
<1> DEFINE C == [id \in WorkerIds |-> {}]
<1>1. \A r \in Recs : ~(r[2] <= Zero[r[1]])
  BY RecParts DEF Zero
<1>2. Committed = {} /\ \A w \in Workers : Batch(w) = {}
  BY <1>1 DEF Init, Committed, Batch
<1>3. InLog /\ IsFiniteSet(progress)
  BY FS_EmptySet DEF Init, InLog, Zero
<1>4. C \in Accounts /\ \A id \in WorkerIds : C[id] = {}
  BY DEF Accounts
<1> HIDE DEF C
<1>5. Within(C) /\ Told(C)
  BY <1>4 DEF Within, Told, OfJob
<1>6. Covers(C)
  BY <1>1, <1>2 DEF Covers, Init
<1>7. Tallies(C)
  BY <1>4, ConstantsAssumption DEF Tallies, Init
<1> QED BY <1>3, <1>4, <1>5, <1>6, <1>7 DEF AccountInv, Account

(* A row of the ledger is no less than any report of its identity, and no  *)
(* more than the greatest counts that its reports name.                    *)
LEMMA RowIsReported ==
    ASSUME TypeOK, IsFiniteSet(progress), NEW id, NEW j
    PROVE  /\ RowOf(id, j) \in Nat
           /\ \A m \in ReportsOf(id, j) : Total(m) <= RowOf(id, j)
           /\ RowOf(id, j) = 0 \/
                 \E m, n \in ReportsOf(id, j) : RowOf(id, j) = m.applied + n.dead
<1> DEFINE R == ReportsOf(id, j)
           applieds == {m.applied : m \in R}
           dead == {m.dead : m \in R}
<1>1. IsFiniteSet(R) /\ \A m \in R : m.applied \in Nat /\ m.dead \in Nat
  <2>1. R \in SUBSET progress
    BY DEF ReportsOf
  <2>2. \A m \in progress : m.applied \in Nat /\ m.dead \in Nat
    BY DEF TypeOK, Report
  <2> QED BY <2>1, <2>2, FS_Subset
<1> HIDE DEF R
<1>2. IsFiniteSet(applieds) /\ IsFiniteSet(dead)
  <2>1. [m \in R |-> m.applied] \in Surjection(R, applieds)
    BY DEF Surjection
  <2>2. [m \in R |-> m.dead] \in Surjection(R, dead)
    BY DEF Surjection
  <2> QED BY <2>1, <2>2, <1>1, FS_Surjection
<1>3. applieds \in SUBSET Nat /\ dead \in SUBSET Nat
  BY <1>1
<1>4. /\ \A m \in R : m.applied \in applieds /\ m.dead \in dead
      /\ \A x \in applieds : \E m \in R : x = m.applied
      /\ \A x \in dead : \E m \in R : x = m.dead
      /\ applieds = {} <=> R = {}
      /\ dead = {} <=> R = {}
  OBVIOUS
<1>5. RowOf(id, j) = Greatest(applieds) + Greatest(dead)
  BY DEF RowOf, R
<1> HIDE DEF applieds, dead
<1>6. /\ Greatest(applieds) \in Nat /\ Greatest(dead) \in Nat
      /\ \A n \in applieds : Greatest(applieds) >= n
      /\ \A n \in dead : Greatest(dead) >= n
      /\ IF applieds = {} THEN Greatest(applieds) = 0
         ELSE Greatest(applieds) \in applieds
      /\ IF dead = {} THEN Greatest(dead) = 0 ELSE Greatest(dead) \in dead
  BY <1>2, <1>3, GreatestExists
<1>7. ASSUME NEW m \in R PROVE Total(m) <= RowOf(id, j)
  <2>1. m.applied \in Nat /\ m.dead \in Nat
    BY <1>1
  <2>2. Greatest(applieds) >= m.applied /\ Greatest(dead) >= m.dead
    BY <1>4, <1>6
  <2> QED BY <2>1, <2>2, <1>5, <1>6 DEF Total
<1>8. \/ RowOf(id, j) = 0
      \/ \E m, n \in R : RowOf(id, j) = m.applied + n.dead
  <2>1. CASE R = {}
    BY <1>4, <1>5, <1>6, <2>1
  <2>2. CASE R # {}
    <3>1. PICK m \in R, n \in R :
             Greatest(applieds) = m.applied /\ Greatest(dead) = n.dead
      BY <1>4, <1>6, <2>2
    <3> QED BY <1>5, <3>1
  <2> QED BY <2>1, <2>2
<1> QED BY <1>5, <1>6, <1>7, <1>8 DEF R

(* What the identities answer for, their reports add up to.                *)
LEMMA LedgerCovers ==
    ASSUME TypeOK, AccountInv, IsFiniteSet(WorkerIds), NEW j \in Jobs
    PROVE  Ledger(j) >= Cardinality(OfJob(Committed, j))
<1> DEFINE f == [id \in WorkerIds |-> RowOf(id, j)]
<1>1. PICK C \in Accounts : Account(C)
  BY DEF AccountInv
<1> DEFINE A == [id \in WorkerIds |-> OfJob(C[id], j)]
<1>2. PICK t : IsSumTable(t, f, WorkerIds) /\ Ledger(j) = t[WorkerIds]
  BY LedgerIsTabled
<1>3. \A id \in WorkerIds :
         /\ RowOf(id, j) \in Nat
         /\ \A m \in ReportsOf(id, j) : Total(m) <= RowOf(id, j)
  BY RowIsReported DEF AccountInv
<1>4. f \in [WorkerIds -> Nat]
  BY <1>3
<1>5. ASSUME NEW id \in WorkerIds
      PROVE  IsFiniteSet(A[id]) /\ Cardinality(A[id]) <= f[id]
  <2>1. C[id] \in SUBSET Recs
    BY DEF Accounts
  <2>2. A[id] \in SUBSET Recs /\ Cardinality(A[id]) = Size(C[id], j)
    BY <2>1, SizeType DEF Size
  <2>3. Size(C[id], j) <= RowOf(id, j)
    <3>1. CASE OfJob(C[id], j) = {}
      BY <1>3, <3>1, FS_EmptySet DEF Size
    <3>2. CASE \E m \in ReportsOf(id, j) : Size(C[id], j) <= Total(m)
      <4>1. PICK m \in ReportsOf(id, j) : Size(C[id], j) <= Total(m)
        BY <3>2
      <4>2. Total(m) <= RowOf(id, j) /\ RowOf(id, j) \in Nat
        BY <1>3
      <4>3. m.applied \in Nat /\ m.dead \in Nat
        BY DEF ReportsOf, TypeOK, Report
      <4>4. Size(C[id], j) \in Nat /\ Total(m) \in Nat
        BY <2>1, <4>3, SizeType DEF Total
      <4> QED BY <4>1, <4>2, <4>4
    <3> QED BY <1>1, <3>1, <3>2 DEF Account, Told
  <2> QED BY <2>2, <2>3, RecsFinite
<1>6. \A r \in OfJob(Committed, j) : \E id \in WorkerIds : r \in A[id]
  BY <1>1 DEF Account, Covers, Credit, OfJob
<1> HIDE DEF f, A
<1> QED BY <1>2, <1>4, <1>5, <1>6, SumCovers

(* Whatever dies, fails, is lost or is fetched again, and however the      *)
(* partitions move between members, what the reports of a job add up to is *)
(* never behind the events of it that are committed (worker.go:37-40), as  *)
(* long as no two processes report under one identity.                     *)
THEOREM CommittedIsReported ==
    ASSUME IsFiniteSet(WorkerIds),
           \A v, w \in Workers : WorkerId[v] = WorkerId[w] => v = w
    PROVE  Spec => []ProgressBeforeCommit
<1>1. Init => AccountInv
  BY AccountInit
<1>2. TypeInv /\ ReportInv /\ AccountInv /\ [Next]_vars => AccountInv'
  <2> SUFFICES ASSUME TypeInv, ReportInv, AccountInv, [Next]_vars
               PROVE  AccountInv'
    OBVIOUS
  <2>1. PICK C \in Accounts : Account(C)
    BY DEF AccountInv
  <2>2. PICK D \in Accounts : Account(D)'
    BY <2>1, AccountStep DEF AccountInv, ReportInv
  <2> QED BY <2>2, InLogStep, ReportsStayFinite DEF AccountInv, TypeInv
<1>3. TypeInv /\ AccountInv => ProgressBeforeCommit
  BY LedgerCovers DEF ProgressBeforeCommit, TypeInv
<1> QED
  BY <1>1, <1>2, <1>3, TypeInvariance, ReportInvariance, PTL DEF Spec

----------------------------------------------------------------------------
(* At most one batch is counted again. While no partition is taken from a  *)
(* live member, each committed record was committed by one process: C[w]   *)
(* holds those of w, and no record is in two of them. What a live process  *)
(* counted it committed, or has in hand; and what a process that ended has *)
(* reported it had committed, or had in hand as it ended: that is G[w].    *)

(* The records of the batch in hand that may be in the counters.           *)
Begun(w) ==
    IF pc[w] = "work" THEN Of(Batch(w) \ todo[w], "poison")
    ELSE IF pc[w] = "poison"
         THEN Of(Batch(w) \ (todo[w] \ {cur[w]}), "poison")
    ELSE Batch(w)

(* m, a total or a report, is not ahead of the counters of w.              *)
Behind(m, w) ==
    m.applied <= cnt[w][m.job].applied /\ m.dead <= cnt[w][m.job].dead

Alive(w) == pc[w] # "gone"

(* The reports are those of the processes, and a live one has reported,    *)
(* and is about to report, no more than it counted.                        *)
ReportsBehind ==
    /\ \A m \in progress : \E w \in Workers : m.worker = WorkerId[w]
    /\ \A w \in Workers : Alive(w) =>
          /\ \A t \in Threads : \A c \in snap[w][t] : Behind(c, w)
          /\ \A m \in progress : m.worker = WorkerId[w] => Behind(m, w)

SmallBatches == \A w \in Workers : Cardinality(Batch(w)) <= MaxPoll

Owned(C) ==
    /\ \A w \in Workers : C[w] \subseteq Committed
    /\ \A v, w \in Workers : v # w => C[v] \cap C[w] = {}

CountsBounded(C) ==
    \A w \in Workers, j \in Jobs : Alive(w) =>
        Total(cnt[w][j]) <= Size(C[w], j) + Size(Begun(w), j)

LastBatches(C, G) ==
    \A w \in Workers :
        /\ Cardinality(G[w]) <= MaxPoll
        /\ \A r \in G[w] : r[2] <= Len(log[r[1]])
        /\ ~Alive(w) => \A j \in Jobs : \A m, n \in ReportsOf(WorkerId[w], j) :
              m.applied + n.dead <= Size(C[w], j) + Size(G[w], j)

Recounted(C, G) == Owned(C) /\ CountsBounded(C) /\ LastBatches(C, G)

Shares == [Workers -> SUBSET Recs]

RecountInv ==
    /\ ReportsBehind /\ SmallBatches
    /\ \E C, G \in Shares : Recounted(C, G)

OneIdentityEach == \A v, w \in Workers : WorkerId[v] = WorkerId[w] => v = w

(* Counters of a live process only grow, snapshots are taken of them, and  *)
(* a report is sent from a snapshot.                                       *)
LEMMA BehindStable ==
    ASSUME OneIdentityEach, TypeOK, TypeOK', ReportsBehind,
           \A w \in Workers : Alive(w)' =>
              /\ Alive(w)
              /\ \A j \in Jobs : /\ cnt[w][j].applied <= cnt'[w][j].applied
                                 /\ cnt[w][j].dead <= cnt'[w][j].dead
              /\ \A t \in Threads : \A c \in snap'[w][t] :
                    c \in snap[w][t] \/ c \in Pending(w),
           \A m \in progress' : m \in progress \/
              \E w \in Workers, t \in Threads : \E c \in snap[w][t] :
                 Alive(w) /\ m = ReportOf(w, c)
    PROVE  ReportsBehind'
<1>1. ASSUME NEW w \in Workers, NEW m, m.job \in Jobs, Alive(w)', Behind(m, w),
             m.applied \in Nat, m.dead \in Nat
      PROVE  Behind(m, w)'
  <2>1. /\ cnt[w][m.job] \in Count /\ cnt'[w][m.job] \in Count
        /\ cnt[w][m.job].applied <= cnt'[w][m.job].applied
        /\ cnt[w][m.job].dead <= cnt'[w][m.job].dead
    BY <1>1 DEF TypeOK
  <2> QED BY <1>1, <2>1 DEF Behind, Count
<1>2. ASSUME NEW w \in Workers, NEW t \in Threads, NEW c \in snap[w][t]
      PROVE  /\ c.job \in Jobs /\ c.applied \in Nat /\ c.dead \in Nat
             /\ ReportOf(w, c).worker = WorkerId[w]
             /\ ReportOf(w, c).job = c.job
             /\ ReportOf(w, c).applied = c.applied
             /\ ReportOf(w, c).dead = c.dead
  BY DEF TypeOK, JobCount, ReportOf
<1>3. ASSUME NEW m \in progress
      PROVE  m.job \in Jobs /\ m.applied \in Nat /\ m.dead \in Nat
  BY DEF TypeOK, Report
<1>4. \A m \in progress' : \E w \in Workers : m.worker = WorkerId[w]
  BY <1>2 DEF ReportsBehind
<1>5. ASSUME NEW w \in Workers, Alive(w)', NEW t \in Threads,
             NEW c \in snap'[w][t]
      PROVE  Behind(c, w)'
  <2>1. CASE c \in snap[w][t]
    BY <1>1, <1>2, <1>5, <2>1 DEF ReportsBehind
  <2>2. CASE c \in Pending(w)
    <3>1. PICK j \in Jobs : c = [job |-> j, applied |-> cnt[w][j].applied,
                                 dead |-> cnt[w][j].dead]
      BY <2>2 DEF Pending
    <3> QED BY <1>5, <3>1 DEF Behind
  <2> QED BY <1>5, <2>1, <2>2
<1>6. ASSUME NEW w \in Workers, Alive(w)', NEW m \in progress',
             m.worker = WorkerId[w]
      PROVE  Behind(m, w)'
  <2>1. CASE m \in progress
    BY <1>1, <1>3, <1>6, <2>1 DEF ReportsBehind
  <2>2. ASSUME NEW v \in Workers, NEW t \in Threads, NEW c \in snap[v][t],
               Alive(v), m = ReportOf(v, c)
        PROVE  Behind(m, w)'
    <3>1. v = w
      BY <1>2, <1>6, <2>2 DEF OneIdentityEach
    <3>2. Behind(c, w)
      BY <2>2, <3>1 DEF ReportsBehind
    <3>3. Behind(m, w)
      BY <1>2, <2>2, <3>1, <3>2 DEF Behind
    <3>4. m.job \in Jobs /\ m.applied \in Nat /\ m.dead \in Nat
      BY <1>2, <2>2
    <3> QED BY <1>1, <1>6, <3>3, <3>4
  <2> QED BY <2>1, <2>2
<1> QED BY <1>4, <1>5, <1>6 DEF ReportsBehind

(* A step of w alone.                                                      *)
LEMMA BehindMoves ==
    ASSUME OneIdentityEach, TypeOK, TypeOK', ReportsBehind, SentIsCarried,
           NEW w \in Workers, Alive(w),
           \A v \in Workers \ {w} :
              pc'[v] = pc[v] /\ cnt'[v] = cnt[v] /\ snap'[v] = snap[v],
           Alive(w)' =>
              /\ \A j \in Jobs : /\ cnt[w][j].applied <= cnt'[w][j].applied
                                 /\ cnt[w][j].dead <= cnt'[w][j].dead
              /\ \A t \in Threads : \/ snap'[w][t] \subseteq snap[w][t]
                                    \/ snap'[w][t] = Pending(w),
           \/ UNCHANGED progress
           \/ \E t \in Threads : \E c \in left[w][t] :
                 progress' = progress \cup {ReportOf(w, c)}
    PROVE  ReportsBehind'
<1>1. ASSUME NEW v \in Workers, Alive(v)'
      PROVE  /\ Alive(v)
             /\ \A j \in Jobs : /\ cnt[v][j].applied <= cnt'[v][j].applied
                                /\ cnt[v][j].dead <= cnt'[v][j].dead
             /\ \A t \in Threads : \A c \in snap'[v][t] :
                   c \in snap[v][t] \/ c \in Pending(v)
  <2>1. CASE v = w
    BY <1>1, <2>1
  <2>2. CASE v # w
    <3>1. \A j \in Jobs : /\ cnt[v][j].applied <= cnt[v][j].applied
                          /\ cnt[v][j].dead <= cnt[v][j].dead
      BY TotalType
    <3> QED BY <1>1, <2>2, <3>1 DEF Alive
  <2> QED BY <2>1, <2>2
<1>2. \A t \in Threads : left[w][t] \subseteq snap[w][t]
  BY DEF SentIsCarried
<1>3. \A m \in progress' : m \in progress \/
         \E v \in Workers, t \in Threads : \E c \in snap[v][t] :
            Alive(v) /\ m = ReportOf(v, c)
  BY <1>2
<1> QED BY <1>1, <1>3, BehindStable

LEMMA BehindStep ==
    ASSUME OneIdentityEach, TypeInv, ReportInv, ReportsBehind, [Next]_vars
    PROVE  ReportsBehind'
<1> USE DEF groupVars, batchVars, countVars, storeVars
<1>1. TypeOK /\ TypeOK' /\ SentIsCarried
  BY TypeStep DEF TypeInv, ReportInv
<1>2. \A w \in Workers, j \in Jobs : /\ cnt[w][j].applied <= cnt[w][j].applied
                                     /\ cnt[w][j].dead <= cnt[w][j].dead
  BY <1>1, TotalType
<1>3. ASSUME UNCHANGED <<pc, cnt, snap, progress>> PROVE ReportsBehind'
  BY <1>3 DEF ReportsBehind, Alive, Behind
<1>4. CASE UNCHANGED vars
  BY <1>3, <1>4 DEF vars
<1>5. CASE \E e \in Events : Produce(e)
  BY <1>3, <1>5 DEF Produce
<1>6. CASE \E p \in Partitions, w \in Workers : Assign(p, w)
  BY <1>3, <1>6 DEF Assign
(* Steps that leave the counters and the snapshots alone.                  *)
<1>7. ASSUME NEW w \in Workers, Alive(w), UNCHANGED <<cnt, snap, progress>>,
             \A v \in Workers \ {w} : pc'[v] = pc[v]
      PROVE  ReportsBehind'
  BY <1>1, <1>2, <1>7, BehindMoves
<1>8. ASSUME NEW w \in Workers, Alive(w), NEW t \in Threads, UNCHANGED cnt,
             snap'[w][t] = {} \/ snap'[w][t] = Pending(w),
             \A u \in Threads \ {t} : snap'[w][u] = snap[w][u],
             \A v \in Workers \ {w} : pc'[v] = pc[v] /\ snap'[v] = snap[v],
             \/ UNCHANGED progress
             \/ \E u \in Threads : \E c \in left[w][u] :
                   progress' = progress \cup {ReportOf(w, c)}
      PROVE  ReportsBehind'
  <2>1. \A u \in Threads : \/ snap'[w][u] \subseteq snap[w][u]
                           \/ snap'[w][u] = Pending(w)
    BY <1>8
  <2> QED BY <1>1, <1>2, <1>8, <2>1, BehindMoves
<1>9. ASSUME NEW w \in Workers, Alive(w), NEW t \in Threads,
             NEW c \in left[w][t], ReportProgress(w, t, c)
      PROVE  ReportsBehind'
  BY <1>1, <1>2, <1>9, BehindMoves DEF ReportProgress
<1>10. ASSUME NEW w \in Workers, Alive(w), Forget(w),
              \/ UNCHANGED progress
              \/ \E t \in Threads : \E c \in left[w][t] :
                    progress' = progress \cup {ReportOf(w, c)}
       PROVE  ReportsBehind'
  <2>1. /\ ~Alive(w)'
        /\ \A v \in Workers \ {w} :
              pc'[v] = pc[v] /\ cnt'[v] = cnt[v] /\ snap'[v] = snap[v]
    BY <1>1, <1>10 DEF Forget, Alive, TypeOK
  <2> QED BY <1>1, <1>10, <2>1, BehindMoves
<1>11. "main" \in Threads /\ "flusher" \in Threads
  BY DEF Threads
<1>12. ASSUME NEW w \in Workers, MainStep(w) PROVE ReportsBehind'
  <2>1. CASE Start(w) \/ Poll(w) \/ Commit(w)
    BY <1>1, <1>7, <2>1 DEF Start, Poll, Commit, Alive, TypeOK
  <2>2. CASE PoisonDead(w) \/ UpsertBatch(w)
    BY <1>1, <1>7, <2>2
    DEF PoisonDead, UpsertBatch, ReadyToWrite, NoPoisonLeft, Alive, TypeOK
  <2>3. CASE UpsertRefused(w)
    BY <1>1, <1>7, <2>3
    DEF UpsertRefused, ReadyToWrite, NoPoisonLeft, Retry, Exit, Alive, TypeOK
  <2>4. CASE CountBatch(w)
    <3>1. \A j \in Jobs : /\ cnt[w][j].applied <= cnt'[w][j].applied
                          /\ cnt[w][j].dead <= cnt'[w][j].dead
      <4> TAKE j \in Jobs
      <4>1. /\ Cardinality(OfJob(Validated(Batch(w)), j)) \in Nat
            /\ Cardinality(OfJob(Of(Batch(w), "invalid"), j)) \in Nat
        BY BatchInRecs, RecsFinite DEF OfJob, Of, Validated
      <4>2. cnt[w][j].applied \in Nat /\ cnt[w][j].dead \in Nat
        BY <1>1, TotalType
      <4>3. /\ cnt'[w][j].applied = cnt[w][j].applied
                  + Cardinality(OfJob(Validated(Batch(w)), j))
            /\ cnt'[w][j].dead = cnt[w][j].dead
                  + Cardinality(OfJob(Of(Batch(w), "invalid"), j))
        BY <1>1, <2>4 DEF CountBatch, TypeOK
      <4> QED BY <4>1, <4>2, <4>3
    <3> QED BY <1>1, <2>4, <3>1, BehindMoves DEF CountBatch, Alive, TypeOK
  <2>5. ASSUME NEW r \in todo[w], CountPoison(w, r) PROVE ReportsBehind'
    <3>1. \A j \in Jobs : /\ cnt[w][j].applied <= cnt'[w][j].applied
                          /\ cnt[w][j].dead <= cnt'[w][j].dead
      <4> TAKE j \in Jobs
      <4>1. /\ cnt[w][j].applied \in Nat /\ cnt[w][j].dead \in Nat
            /\ cnt[w] \in [Jobs -> Count]
        BY <1>1, TotalType DEF TypeOK
      <4>2. cnt'[w] = AddDead(cnt[w], EventAt(r).job)
        BY <1>1, <2>5 DEF CountPoison, TypeOK
      <4>3. /\ cnt'[w][j].applied = cnt[w][j].applied
            /\ cnt'[w][j].dead \in {cnt[w][j].dead, cnt[w][j].dead + 1}
        BY <4>1, <4>2 DEF AddDead, Count
      <4> QED BY <4>1, <4>3
    <3> QED BY <1>1, <2>5, <3>1, BehindMoves DEF CountPoison, Alive, TypeOK
  <2>6. CASE \E r \in todo[w] : InvalidDead(w, r)
    BY <1>1, <1>7, <2>6 DEF InvalidDead, NoPoisonLeft, Alive, TypeOK
  <2>7. CASE MainSnapshot(w)
    <3>1. /\ Alive(w) /\ UNCHANGED <<cnt, progress>>
          /\ snap'[w]["main"] = Pending(w)
          /\ \A u \in Threads \ {"main"} : snap'[w][u] = snap[w][u]
          /\ \A v \in Workers \ {w} : pc'[v] = pc[v] /\ snap'[v] = snap[v]
      BY <1>1, <1>11, <2>7
      DEF MainSnapshot, TakeSnapshot, FlushPoints, Alive, TypeOK
    <3> QED BY <1>8, <1>11, <3>1
  <2>8. CASE MainDone(w)
    <3>1. /\ Alive(w) /\ UNCHANGED <<cnt, progress>>
          /\ snap'[w]["main"] = {}
          /\ \A u \in Threads \ {"main"} : snap'[w][u] = snap[w][u]
          /\ \A v \in Workers \ {w} : pc'[v] = pc[v] /\ snap'[v] = snap[v]
      BY <1>1, <1>11, <2>8 DEF MainDone, Alive, TypeOK
    <3> QED BY <1>8, <1>11, <3>1
  <2>9. CASE DrainDone(w)
    BY <1>10, <2>9 DEF DrainDone, Alive
  <2>10. ASSUME NEW c \in left[w]["main"], ReportProgress(w, "main", c)
         PROVE  ReportsBehind'
    BY <1>9, <1>11, <2>10 DEF ReportProgress, CanReport, ReportPoints, Alive
  <2> QED
    BY <1>12, <2>1, <2>2, <2>3, <2>4, <2>5, <2>6, <2>7, <2>8, <2>9, <2>10
    DEF MainStep, BatchStep, FlushStep
<1>13. ASSUME NEW w \in Workers, FlusherStep(w) PROVE ReportsBehind'
  <2>1. CASE FlusherSnapshot(w)
    <3>1. /\ Alive(w) /\ UNCHANGED <<cnt, progress, pc>>
          /\ snap'[w]["flusher"] = Pending(w)
          /\ \A u \in Threads \ {"flusher"} : snap'[w][u] = snap[w][u]
          /\ \A v \in Workers \ {w} : snap'[v] = snap[v]
      BY <1>1, <1>11, <2>1
      DEF FlusherSnapshot, TakeSnapshot, FlusherRuns, Alive, TypeOK
    <3> QED BY <1>8, <1>11, <3>1
  <2>2. CASE FlusherDone(w)
    <3>1. /\ Alive(w) /\ UNCHANGED <<cnt, progress, pc>>
          /\ snap'[w]["flusher"] = {}
          /\ \A u \in Threads \ {"flusher"} : snap'[w][u] = snap[w][u]
          /\ \A v \in Workers \ {w} : snap'[v] = snap[v]
      BY <1>1, <1>11, <2>2
      DEF FlusherDone, Flushed, CanReport, FlusherRuns, Alive, TypeOK
    <3> QED BY <1>8, <1>11, <3>1
  <2>3. ASSUME NEW c \in left[w]["flusher"], ReportProgress(w, "flusher", c)
        PROVE  ReportsBehind'
    BY <1>9, <1>11, <2>3 DEF ReportProgress, CanReport, FlusherRuns, Alive
  <2> QED BY <1>13, <2>1, <2>2, <2>3 DEF FlusherStep
<1>14. ASSUME NEW w \in Workers, FaultStep(w) PROVE ReportsBehind'
  <2>1. CASE Crash(w)
    BY <1>10, <2>1 DEF Crash, Member, Alive
  <2>2. CASE Shutdown(w) \/ PoisonDeadFails(w) \/ CommitFails(w)
    BY <1>1, <1>7, <2>2
    DEF Shutdown, PoisonDeadFails, CommitFails, Exit, Alive, TypeOK
  <2>3. CASE UpsertFails(w)
    <3>1. PICK cancelled \in BOOLEAN : Retry(w, cancelled)
      BY <2>3 DEF UpsertFails
    <3> QED
      BY <1>1, <1>7, <2>3, <3>1
      DEF UpsertFails, ReadyToWrite, NoPoisonLeft, Retry, Exit, Alive, TypeOK
  <2>4. CASE FlusherFails(w)
    <3>1. /\ Alive(w) /\ UNCHANGED <<cnt, pc>>
          /\ snap'[w]["flusher"] = {}
          /\ \A u \in Threads \ {"flusher"} : snap'[w][u] = snap[w][u]
          /\ \A v \in Workers \ {w} : snap'[v] = snap[v]
          /\ DeliveredAnyway(w, "flusher")
      BY <1>1, <1>11, <2>4
      DEF FlusherFails, CanReport, FlusherRuns, DropFlush, Alive, TypeOK
    <3> QED BY <1>8, <1>11, <3>1 DEF DeliveredAnyway
  <2>5. CASE MainFails(w)
    <3>1. /\ Alive(w) /\ UNCHANGED cnt
          /\ snap'[w]["main"] = {}
          /\ \A u \in Threads \ {"main"} : snap'[w][u] = snap[w][u]
          /\ \A v \in Workers \ {w} : pc'[v] = pc[v] /\ snap'[v] = snap[v]
          /\ DeliveredAnyway(w, "main")
      BY <1>1, <1>11, <2>5 DEF MainFails, DropFlush, Exit, Alive, TypeOK
    <3> QED BY <1>8, <1>11, <3>1 DEF DeliveredAnyway
  <2>6. CASE DrainFails(w)
    BY <1>10, <1>11, <2>6 DEF DrainFails, DeliveredAnyway, Alive
  <2>7. CASE \E r \in todo[w] : InvalidDeadFails(w, r)
    BY <1>1, <1>7, <2>7
    DEF InvalidDeadFails, NoPoisonLeft, Exit, Alive, TypeOK
  <2> QED
    BY <1>14, <2>1, <2>2, <2>3, <2>4, <2>5, <2>6, <2>7 DEF FaultStep
<1> QED
  BY <1>4, <1>5, <1>6, <1>12, <1>13, <1>14 DEF Next

LEMMA BegunInBatch ==
    ASSUME NEW w \in Workers
    PROVE  Begun(w) \subseteq Batch(w) /\ Begun(w) \in SUBSET Recs
BY BatchInRecs DEF Begun, Of

(* A step of a live process w that leaves it alive. What the others have   *)
(* counted, and what the processes that ended have reported, stays.        *)
LEMMA RecountMoves ==
    ASSUME OneIdentityEach, NEW C \in Shares, NEW G \in Shares,
           Recounted(C, G), NEW w \in Workers, Alive(w), Alive(w)',
           UNCHANGED log, Committed \subseteq Committed',
           \A v \in Workers \ {w} :
              /\ pc'[v] = pc[v] /\ cnt'[v] = cnt[v] /\ todo'[v] = todo[v]
              /\ cur'[v] = cur[v] /\ from'[v] = from[v] /\ upto'[v] = upto[v],
           \A m \in progress' : m \in progress \/ m.worker = WorkerId[w],
           progress \subseteq progress',
           \A j \in Jobs :
              Total(cnt'[w][j]) <= Size(C[w], j) + Size(Begun(w)', j)
    PROVE  Recounted(C, G)'
<1>1. \A r : EventAt(r)' = EventAt(r)
  BY DEF EventAt
<1>2. ASSUME NEW S, NEW j PROVE Size(S, j)' = Size(S', j)
  BY <1>1 DEF Size, OfJob
<1>3. Owned(C)'
  BY DEF Recounted, Owned
<1>4. ASSUME NEW v \in Workers \ {w} PROVE Begun(v)' = Begun(v)
  BY <1>1 DEF Begun, Batch, Of
<1>5. CountsBounded(C)'
  <2> SUFFICES ASSUME NEW v \in Workers, NEW j \in Jobs, Alive(v)'
               PROVE  Total(cnt'[v][j])
                         <= Size(C[v], j) + Size(Begun(v)', j)
    BY <1>1 DEF CountsBounded, Total, Size, OfJob
  <2>1. CASE v = w
    BY <2>1
  <2>2. CASE v # w
    BY <1>4, <2>2 DEF Recounted, CountsBounded, Alive
  <2> QED BY <2>1, <2>2
<1>6. LastBatches(C, G)'
  <2>1. ASSUME NEW v \in Workers \ {w}, NEW j
        PROVE  ReportsOf(WorkerId[v], j)' = ReportsOf(WorkerId[v], j)
    BY DEF ReportsOf, OneIdentityEach
  <2>2. ASSUME NEW v \in Workers, ~Alive(v)', NEW j \in Jobs,
               NEW m \in ReportsOf(WorkerId[v], j)',
               NEW n \in ReportsOf(WorkerId[v], j)'
        PROVE  m.applied + n.dead <= (Size(C[v], j) + Size(G[v], j))'
    <3>1. v # w
      BY <2>2
    <3>2. ~Alive(v) /\ ReportsOf(WorkerId[v], j)' = ReportsOf(WorkerId[v], j)
      BY <2>1, <2>2, <3>1 DEF Alive
    <3>3. m.applied + n.dead <= Size(C[v], j) + Size(G[v], j)
      BY <3>2 DEF Recounted, LastBatches
    <3> QED BY <1>1, <3>3 DEF Size, OfJob
  <2> QED BY <2>2 DEF Recounted, LastBatches
<1> QED BY <1>3, <1>5, <1>6 DEF Recounted

(* ... and that counts nothing.                                            *)
LEMMA RecountQuiet ==
    ASSUME OneIdentityEach, TypeOK, NEW C \in Shares, NEW G \in Shares,
           Recounted(C, G), NEW w \in Workers, Alive(w), Alive(w)',
           UNCHANGED <<log, cnt>>, Committed \subseteq Committed',
           \A v \in Workers \ {w} :
              /\ pc'[v] = pc[v] /\ todo'[v] = todo[v] /\ cur'[v] = cur[v]
              /\ from'[v] = from[v] /\ upto'[v] = upto[v],
           \A m \in progress' : m \in progress \/ m.worker = WorkerId[w],
           progress \subseteq progress',
           Begun(w) \subseteq Begun(w)'
    PROVE  Recounted(C, G)'
<1>1. ASSUME NEW j \in Jobs
      PROVE  Total(cnt'[w][j]) <= Size(C[w], j) + Size(Begun(w)', j)
  <2>1. Total(cnt[w][j]) <= Size(C[w], j) + Size(Begun(w), j)
    BY DEF Recounted, CountsBounded
  <2>2. Begun(w)' \in SUBSET Recs
    BY DEF Begun, Batch, Of
  <2>3. Size(Begun(w), j) <= Size(Begun(w)', j)
    BY <2>2, SizeMonotone
  <2>4. C[w] \in SUBSET Recs
    BY DEF Shares
  <2>5. /\ Size(C[w], j) \in Nat /\ Size(Begun(w), j) \in Nat
        /\ Size(Begun(w)', j) \in Nat /\ Total(cnt[w][j]) \in Nat
    BY <2>2, <2>4, BegunInBatch, SizeType, TotalType
  <2> QED BY <2>1, <2>3, <2>5
<1> QED BY <1>1, RecountMoves

(* ... and that keeps its batch, and ends or leaves the work on it.        *)
LEMMA RecountPast ==
    ASSUME OneIdentityEach, TypeOK, NEW C \in Shares, NEW G \in Shares,
           Recounted(C, G), NEW w \in Workers, Alive(w), Alive(w)',
           UNCHANGED <<log, cnt, from, upto>>, Committed \subseteq Committed',
           \A v \in Workers \ {w} :
              pc'[v] = pc[v] /\ todo'[v] = todo[v] /\ cur'[v] = cur[v],
           \A m \in progress' : m \in progress \/ m.worker = WorkerId[w],
           progress \subseteq progress',
           \/ pc'[w] \notin {"work", "poison"}
           \/ pc'[w] = "work" /\ pc[w] = "work" /\ todo'[w] \subseteq todo[w]
           \/ pc'[w] = pc[w] /\ todo'[w] = todo[w] /\ cur'[w] = cur[w]
    PROVE  Recounted(C, G)'
<1>1. Batch(w)' = Batch(w) /\ \A r : EventAt(r)' = EventAt(r)
  BY DEF Batch, EventAt
<1>2. CASE pc'[w] \notin {"work", "poison"}
  <2>1. Begun(w)' = Batch(w)
    BY <1>1, <1>2 DEF Begun
  <2> QED BY <2>1, BegunInBatch, RecountQuiet
<1>3. CASE pc'[w] = "work" /\ pc[w] = "work" /\ todo'[w] \subseteq todo[w]
  <2>1. Begun(w) \subseteq Begun(w)'
    BY <1>1, <1>3 DEF Begun, Of
  <2> QED BY <2>1, RecountQuiet
<1>4. CASE pc'[w] = pc[w] /\ todo'[w] = todo[w] /\ cur'[w] = cur[w]
  <2>1. Begun(w) \subseteq Begun(w)'
    BY <1>1, <1>4 DEF Begun, Of
  <2> QED BY <2>1, RecountQuiet
<1> QED BY <1>2, <1>3, <1>4

LEMMA SizeOfDisjoint ==
    ASSUME NEW S \in SUBSET Recs, NEW T \in SUBSET Recs, S \cap T = {}, NEW j
    PROVE  Size(S \cup T, j) = Size(S, j) + Size(T, j)
<1> DEFINE A == OfJob(S, j)
           B == OfJob(T, j)
<1>1. OfJob(S \cup T, j) = A \cup B /\ A \cap B = {}
  BY DEF OfJob
<1>2. A \in SUBSET Recs /\ B \in SUBSET Recs
  BY DEF OfJob
<1>3. /\ IsFiniteSet(A) /\ IsFiniteSet(B)
      /\ Cardinality(A) \in Nat /\ Cardinality(B) \in Nat
  BY <1>2, RecsFinite
<1> HIDE DEF A, B
<1>4. /\ Cardinality(A \cup B)
            = Cardinality(A) + Cardinality(B) - Cardinality(A \cap B)
      /\ Cardinality(A \cap B) = 0
  BY <1>1, <1>3, FS_Union, FS_EmptySet
<1>5. Cardinality(A \cup B) = Cardinality(A) + Cardinality(B)
  BY <1>3, <1>4
<1> QED BY <1>1, <1>5 DEF Size, A, B

(* A poison record is of the batch and is counted once.                    *)
LEMMA RecountPoison ==
    ASSUME OneIdentityEach, TypeOK, LeftOfBatch,
           NEW C \in Shares, NEW G \in Shares, Recounted(C, G),
           NEW w \in Workers, NEW r \in todo[w], CountPoison(w, r)
    PROVE  Recounted(C, G)'
<1> USE DEF groupVars, storeVars
<1>1. /\ pc[w] = "work" /\ r \in Of(todo[w], "poison")
      /\ cnt' = [cnt EXCEPT ![w] = AddDead(@, EventAt(r).job)]
      /\ cur'[w] = r /\ pc'[w] = "poison"
      /\ \A v \in Workers \ {w} :
            pc'[v] = pc[v] /\ cnt'[v] = cnt[v] /\ cur'[v] = cur[v]
      /\ UNCHANGED <<log, committed, from, upto, todo, progress>>
  BY DEF CountPoison, First, TypeOK
<1>2. Begun(w)' = Begun(w) \cup {r} /\ Begun(w) \cap {r} = {}
  BY <1>1 DEF Begun, Of, Batch, EventAt, LeftOfBatch
<1>3. {r} \in SUBSET Recs /\ C[w] \in SUBSET Recs
  BY DEF TypeOK, Shares
<1>4. ASSUME NEW j \in Jobs
      PROVE  Total(cnt'[w][j]) <= Size(C[w], j) + Size(Begun(w)', j)
  <2>1. Size(Begun(w)', j) = Size(Begun(w), j) + Size({r}, j)
    BY <1>2, <1>3, BegunInBatch, SizeOfDisjoint
  <2>2. Total(cnt[w][j]) <= Size(C[w], j) + Size(Begun(w), j)
    BY <1>1 DEF Recounted, CountsBounded, Alive
  <2>3. /\ Size(Begun(w), j) \in Nat /\ Size({r}, j) \in Nat
        /\ Size(C[w], j) \in Nat /\ Total(cnt[w][j]) \in Nat
        /\ cnt[w][j].applied \in Nat /\ cnt[w][j].dead \in Nat
    BY <1>3, BegunInBatch, SizeType, TotalType
  <2>4. cnt[w] \in [Jobs -> Count]
    BY DEF TypeOK
  <2>5. CASE EventAt(r).job = j
    <3>1. cnt'[w][j] = [cnt[w][j] EXCEPT !.dead = @ + 1]
      BY <1>1, <2>4, <2>5 DEF AddDead, TypeOK
    <3>2. cnt[w][j] \in Count
      BY <2>4
    <3>3. Total(cnt'[w][j]) = Total(cnt[w][j]) + 1
      BY <3>1, <3>2, <2>3 DEF Total, Count
    <3>4. Size({r}, j) = 1
      <4>1. OfJob({r}, j) = {r}
        BY <2>5 DEF OfJob
      <4> QED BY <4>1, FS_Singleton DEF Size
    <3> QED BY <2>1, <2>2, <2>3, <3>3, <3>4
  <2>6. CASE EventAt(r).job # j
    <3>1. cnt'[w][j] = cnt[w][j]
      BY <1>1, <2>4, <2>6 DEF AddDead, TypeOK
    <3> QED BY <2>1, <2>2, <2>3, <3>1
  <2> QED BY <2>5, <2>6
<1>5. /\ Alive(w) /\ Alive(w)' /\ Committed' = Committed
      /\ \A v \in Workers \ {w} : todo'[v] = todo[v] /\ from'[v] = from[v]
                                   /\ upto'[v] = upto[v]
  BY <1>1 DEF Alive, Committed
<1> QED BY <1>1, <1>4, <1>5, RecountMoves

(* The verdicts on a batch are of different records of it.                 *)
LEMMA VerdictsInBatch ==
    ASSUME NEW w \in Workers, NEW j
    PROVE  Cardinality(OfJob(Validated(Batch(w)), j))
             + Cardinality(OfJob(Of(Batch(w), "invalid"), j))
             + Size(Of(Batch(w), "poison"), j) <= Size(Batch(w), j)
<1> DEFINE A == Validated(Batch(w))
           B == Of(Batch(w), "invalid")
           P == Of(Batch(w), "poison")
<1>1. /\ A \cap B = {} /\ (A \cup B) \cap P = {}
      /\ (A \cup B) \cup P \in SUBSET Batch(w)
  BY DEF Validated, Of
<1>2. A \in SUBSET Recs /\ B \in SUBSET Recs /\ P \in SUBSET Recs
  BY BatchInRecs DEF Validated, Of
<1> HIDE DEF A, B, P
<1>3. /\ Size(A \cup B, j) = Size(A, j) + Size(B, j)
      /\ Size((A \cup B) \cup P, j) = Size(A \cup B, j) + Size(P, j)
      /\ Size((A \cup B) \cup P, j) <= Size(Batch(w), j)
  BY <1>1, <1>2, BatchInRecs, SizeOfDisjoint, SizeMonotone
<1>4. Size(A, j) + Size(B, j) + Size(P, j) <= Size(Batch(w), j)
  BY <1>3
<1> QED BY <1>4 DEF A, B, P, Size

LEMMA RecountBatch ==
    ASSUME OneIdentityEach, TypeOK,
           NEW C \in Shares, NEW G \in Shares, Recounted(C, G),
           NEW w \in Workers, CountBatch(w)
    PROVE  Recounted(C, G)'
<1> USE DEF groupVars, batchVars, storeVars
<1>1. /\ pc[w] = "work" /\ todo[w] = {} /\ pc'[w] = "flush"
      /\ \A v \in Workers \ {w} : pc'[v] = pc[v] /\ cnt'[v] = cnt[v]
      /\ UNCHANGED <<log, committed, from, upto, todo, cur, progress>>
  BY DEF CountBatch, TypeOK
<1>2. Begun(w) = Of(Batch(w), "poison") /\ Begun(w)' = Batch(w)
  BY <1>1 DEF Begun, Batch
<1>3. C[w] \in SUBSET Recs
  BY DEF Shares
<1>4. ASSUME NEW j \in Jobs
      PROVE  Total(cnt'[w][j]) <= Size(C[w], j) + Size(Begun(w)', j)
  <2> DEFINE a == Cardinality(OfJob(Validated(Batch(w)), j))
             d == Cardinality(OfJob(Of(Batch(w), "invalid"), j))
  <2>1. cnt'[w][j] = [applied |-> cnt[w][j].applied + a,
                      dead |-> cnt[w][j].dead + d]
    BY DEF CountBatch, TypeOK
  <2>2. a \in Nat /\ d \in Nat
    BY BatchInRecs, RecsFinite DEF OfJob, Of, Validated
  <2>3. a + d + Size(Begun(w), j) <= Size(Batch(w), j)
    BY <1>2, VerdictsInBatch
  <2> HIDE DEF a, d
  <2>4. Total(cnt[w][j]) <= Size(C[w], j) + Size(Begun(w), j)
    BY <1>1 DEF Recounted, CountsBounded, Alive
  <2>5. /\ Size(Batch(w), j) \in Nat /\ Size(Begun(w), j) \in Nat
        /\ Size(C[w], j) \in Nat /\ Total(cnt[w][j]) \in Nat
        /\ cnt[w][j].applied \in Nat /\ cnt[w][j].dead \in Nat
    BY <1>3, BatchInRecs, BegunInBatch, SizeType, TotalType
  <2>6. Total(cnt'[w][j]) = Total(cnt[w][j]) + a + d
    BY <2>1, <2>2, <2>5 DEF Total
  <2> QED BY <1>2, <2>2, <2>3, <2>4, <2>5, <2>6
<1>5. /\ Alive(w) /\ Alive(w)' /\ Committed' = Committed
      /\ \A v \in Workers \ {w} :
            /\ todo'[v] = todo[v] /\ cur'[v] = cur[v]
            /\ from'[v] = from[v] /\ upto'[v] = upto[v]
  BY <1>1 DEF Alive, Committed
<1> QED BY <1>1, <1>4, <1>5, RecountMoves

LEMMA NoBatchBetween ==
    ASSUME TypeOK, Held, NEW w \in Workers, pc[w] \notin Holding
    PROVE  Batch(w) = {}
BY BatchIsHeld

LEMMA RecountPoll ==
    ASSUME OneIdentityEach, TypeOK, Held,
           NEW C \in Shares, NEW G \in Shares, Recounted(C, G),
           NEW w \in Workers, Poll(w)
    PROVE  Recounted(C, G)'
<1> USE DEF countVars
<1>1. /\ pc[w] = "poll" /\ pc'[w] = "work"
      /\ \A v \in Workers \ {w} :
            /\ pc'[v] = pc[v] /\ todo'[v] = todo[v] /\ cur'[v] = cur[v]
            /\ from'[v] = from[v] /\ upto'[v] = upto[v]
      /\ UNCHANGED <<log, committed, cnt, progress>>
  BY DEF Poll, TypeOK
<1>2. Batch(w) = {}
  BY <1>1, NoBatchBetween DEF Holding, Working
<1>3. Begun(w) = {}
  BY <1>2, BegunInBatch
<1>4. Alive(w) /\ Alive(w)' /\ Committed' = Committed
  BY <1>1 DEF Alive, Committed
<1> QED BY <1>1, <1>3, <1>4, RecountQuiet

(* What is appended is in no batch, and behind no commit yet.              *)
LEMMA RecountProduce ==
    ASSUME TypeOK, InLog, NEW C \in Shares, NEW G \in Shares, Recounted(C, G),
           NEW e \in Events, Produce(e)
    PROVE  Recounted(C, G)'
<1> USE DEF groupVars, batchVars, countVars, storeVars
<1>1. /\ UNCHANGED <<committed, from, upto, pc, todo, cur, cnt, progress>>
      /\ Committed' = Committed
      /\ \A w \in Workers : Batch(w)' = Batch(w)
  BY DEF Produce, Committed, Batch
<1>2. ASSUME NEW r \in Recs, r[2] <= Len(log[r[1]])
      PROVE  EventAt(r)' = EventAt(r) /\ r[2] <= Len(log'[r[1]])
  <2>1. r[1] \in Partitions /\ r[2] \in Nat /\ r[2] > 0
    BY RecParts
  <2>2. Len(log[r[1]]) \in Nat
    BY <2>1, LogTyped
  <2> QED BY <1>2, <2>1, <2>2, LogGrows DEF EventAt
<1>3. ASSUME NEW w \in Workers, NEW r \in C[w]
      PROVE  r \in Recs /\ EventAt(r)' = EventAt(r)
  <2>1. r \in Recs /\ r[2] <= committed[r[1]]
    BY DEF Recounted, Owned, Committed, Shares
  <2>2. r[1] \in Partitions /\ r[2] \in Nat
    BY <2>1, RecParts
  <2>3. /\ committed[r[1]] \in Nat /\ Len(log[r[1]]) \in Nat
        /\ committed[r[1]] <= Len(log[r[1]])
    BY <2>2, LogTyped DEF InLog
  <2>4. r[2] <= Len(log[r[1]])
    BY <2>1, <2>2, <2>3
  <2> QED BY <1>2, <2>1, <2>4
<1>4. ASSUME NEW w \in Workers, NEW r \in G[w]
      PROVE  EventAt(r)' = EventAt(r) /\ r[2] <= Len(log'[r[1]])
  BY <1>2 DEF Recounted, LastBatches, Shares
<1>5. ASSUME NEW w \in Workers, NEW r \in Batch(w)
      PROVE  EventAt(r)' = EventAt(r)
  <2>1. r \in Recs /\ r[1] \in Partitions /\ r[2] <= upto[w][r[1]]
    BY InBatchOf, RecParts
  <2>2. r[2] \in Nat /\ upto[w][r[1]] \in Nat /\ Len(log[r[1]]) \in Nat
    BY <2>1, RecParts, LogTyped
  <2>3. r[2] <= Len(log[r[1]])
    BY <2>1, <2>2 DEF InLog
  <2> QED BY <1>2, <2>1, <2>3
<1>6. ASSUME NEW w \in Workers
      PROVE  /\ Begun(w)' = Begun(w)
             /\ \A r \in Begun(w) : EventAt(r)' = EventAt(r)
  BY <1>1, <1>5, BegunInBatch DEF Begun, Of
<1>7. ASSUME NEW w \in Workers, NEW j
      PROVE  /\ Size(C[w], j)' = Size(C[w], j)
             /\ Size(G[w], j)' = Size(G[w], j)
             /\ Size(Begun(w), j)' = Size(Begun(w), j)
  <2>1. /\ OfJob(C[w], j)' = OfJob(C[w], j)
        /\ OfJob(G[w], j)' = OfJob(G[w], j)
        /\ OfJob(Begun(w), j)' = OfJob(Begun(w), j)
    BY <1>3, <1>4, <1>6 DEF OfJob
  <2> QED BY <2>1 DEF Size
<1>8. Owned(C)'
  BY <1>1 DEF Recounted, Owned
<1>9. CountsBounded(C)'
  <2>1. ASSUME NEW w \in Workers, NEW j \in Jobs, Alive(w)
        PROVE  (Total(cnt[w][j]) <= Size(C[w], j) + Size(Begun(w), j))'
    <3>1. Total(cnt[w][j])' = Total(cnt[w][j])
      BY <1>1 DEF Total
    <3>2. Total(cnt[w][j]) <= Size(C[w], j) + Size(Begun(w), j)
      BY <2>1 DEF Recounted, CountsBounded
    <3> QED BY <1>7, <3>1, <3>2
  <2> QED BY <1>1, <2>1 DEF CountsBounded, Alive
<1>10. LastBatches(C, G)'
  <2>1. ASSUME NEW w \in Workers, ~Alive(w), NEW j \in Jobs,
               NEW m \in ReportsOf(WorkerId[w], j),
               NEW n \in ReportsOf(WorkerId[w], j)
        PROVE  m.applied + n.dead <= (Size(C[w], j) + Size(G[w], j))'
    BY <1>7, <2>1 DEF Recounted, LastBatches
  <2>2. /\ \A w \in Workers : Alive(w)' = Alive(w)
        /\ \A w \in Workers, j \in Jobs :
              ReportsOf(WorkerId[w], j)' = ReportsOf(WorkerId[w], j)
    BY <1>1 DEF Alive, ReportsOf
  <2> QED BY <1>4, <2>1, <2>2 DEF Recounted, LastBatches
<1> QED BY <1>8, <1>9, <1>10 DEF Recounted

(* The batch a process had in hand as it ended is its last one.            *)
LEMMA RecountForget ==
    ASSUME OneIdentityEach, TypeOK, InLog, SmallBatches, ReportsBehind,
           NEW C \in Shares, NEW G \in Shares, Recounted(C, G),
           NEW w \in Workers, Alive(w), Forget(w),
           UNCHANGED <<log, committed>>,
           \A m \in progress' : m \in progress \/
              \E t \in Threads : \E c \in snap[w][t] : m = ReportOf(w, c)
    PROVE  \E H \in Shares : Recounted(C, H)'
<1>1. PICK H \in Shares :
         H[w] = Batch(w) /\ \A v \in Workers \ {w} : H[v] = G[v]
  <2>1. [G EXCEPT ![w] = Batch(w)] \in Shares
    BY BatchInRecs DEF Shares
  <2> QED BY <2>1 DEF Shares
<1>2. /\ pc'[w] = "gone"
      /\ \A v \in Workers \ {w} :
            /\ from'[v] = from[v] /\ upto'[v] = upto[v] /\ todo'[v] = todo[v]
            /\ cur'[v] = cur[v] /\ cnt'[v] = cnt[v] /\ pc'[v] = pc[v]
  BY DEF Forget, TypeOK
<1>3. /\ Committed' = Committed
      /\ \A r : EventAt(r)' = EventAt(r)
      /\ \A v \in Workers \ {w} : Begun(v)' = Begun(v)
  BY <1>2 DEF Committed, EventAt, Begun, Batch, Of
<1>4. Owned(C)'
  BY <1>3 DEF Recounted, Owned
<1>5. CountsBounded(C)'
  <2>1. ASSUME NEW v \in Workers, NEW j \in Jobs, Alive(v)'
        PROVE  (Total(cnt[v][j]) <= Size(C[v], j) + Size(Begun(v), j))'
    <3>1. v # w /\ Alive(v)
      BY <1>2, <2>1 DEF Alive
    <3>2. Total(cnt[v][j]) <= Size(C[v], j) + Size(Begun(v), j)
      BY <3>1 DEF Recounted, CountsBounded
    <3>3. /\ Total(cnt[v][j])' = Total(cnt[v][j])
          /\ Size(C[v], j)' = Size(C[v], j)
      BY <1>2, <1>3, <3>1 DEF Total, Size, OfJob
    <3>4. Size(Begun(v), j)' = Size(Begun(v), j)
      <4>1. OfJob(Begun(v), j)' = OfJob(Begun(v), j)
        BY <1>3, <3>1 DEF OfJob
      <4> QED BY <4>1 DEF Size
    <3> QED BY <3>2, <3>3, <3>4
  <2> QED BY <2>1 DEF CountsBounded
<1>6. ASSUME NEW m \in progress', m.worker = WorkerId[w]
      PROVE  Behind(m, w)
  <2>1. CASE m \in progress
    BY <1>6, <2>1 DEF ReportsBehind
  <2>2. ASSUME NEW t \in Threads, NEW c \in snap[w][t], m = ReportOf(w, c)
        PROVE  Behind(m, w)
    BY <2>2 DEF ReportsBehind, Behind, ReportOf
  <2> QED BY <2>1, <2>2
<1>7. \A m \in progress' : m.applied \in Nat /\ m.dead \in Nat
  <2>1. \A t \in Threads : \A c \in snap[w][t] :
           ReportOf(w, c).applied \in Nat /\ ReportOf(w, c).dead \in Nat
    BY DEF TypeOK, JobCount, ReportOf
  <2> QED BY <2>1 DEF TypeOK, Report
<1>8. ASSUME NEW j \in Jobs, NEW m \in ReportsOf(WorkerId[w], j)',
             NEW n \in ReportsOf(WorkerId[w], j)'
      PROVE  m.applied + n.dead <= (Size(C[w], j) + Size(H[w], j))'
  <2>1. /\ m.applied <= cnt[w][j].applied /\ n.dead <= cnt[w][j].dead
        /\ m.applied \in Nat /\ n.dead \in Nat
    BY <1>6, <1>7 DEF ReportsOf, Behind
  <2>2. Total(cnt[w][j]) <= Size(C[w], j) + Size(Begun(w), j)
    BY DEF Recounted, CountsBounded
  <2>3. Size(Begun(w), j) <= Size(Batch(w), j)
    BY BatchInRecs, BegunInBatch, SizeMonotone
  <2>4. /\ Size(C[w], j) \in Nat /\ Size(Begun(w), j) \in Nat
        /\ Size(Batch(w), j) \in Nat
        /\ cnt[w][j].applied \in Nat /\ cnt[w][j].dead \in Nat
    BY BatchInRecs, BegunInBatch, SizeType, TotalType DEF Shares
  <2>5. m.applied + n.dead <= Size(C[w], j) + Size(H[w], j)
    BY <1>1, <2>1, <2>2, <2>3, <2>4 DEF Total
  <2> QED BY <1>3, <2>5 DEF Size, OfJob
<1>9. ASSUME NEW v \in Workers \ {w}, ~Alive(v)', NEW j \in Jobs,
             NEW m \in ReportsOf(WorkerId[v], j)',
             NEW n \in ReportsOf(WorkerId[v], j)'
      PROVE  m.applied + n.dead <= (Size(C[v], j) + Size(H[v], j))'
  <2>1. \A i \in progress' : i \in progress \/ i.worker = WorkerId[w]
    BY DEF ReportOf
  <2>2. ~Alive(v) /\ m \in ReportsOf(WorkerId[v], j)
        /\ n \in ReportsOf(WorkerId[v], j)
    BY <1>2, <1>9, <2>1 DEF Alive, ReportsOf, OneIdentityEach
  <2>3. m.applied + n.dead <= Size(C[v], j) + Size(G[v], j)
    BY <2>2 DEF Recounted, LastBatches
  <2> QED BY <1>1, <1>3, <2>3 DEF Size, OfJob
<1>10. ASSUME NEW r \in Batch(w) PROVE r[2] <= Len(log[r[1]])
  <2>1. r \in Recs /\ r[1] \in Partitions /\ r[2] <= upto[w][r[1]]
    BY InBatchOf, RecParts
  <2>2. r[2] \in Nat /\ upto[w][r[1]] \in Nat /\ Len(log[r[1]]) \in Nat
    BY <2>1, RecParts, LogTyped
  <2> QED BY <2>1, <2>2 DEF InLog
<1>11. \A v \in Workers : Cardinality(H[v]) <= MaxPoll
  BY <1>1 DEF SmallBatches, Recounted, LastBatches
<1>12. \A v \in Workers : \A r \in H[v] : r[2] <= Len(log[r[1]])
  BY <1>1, <1>10 DEF Recounted, LastBatches
<1>13. LastBatches(C, H)'
  BY <1>8, <1>9, <1>11, <1>12 DEF LastBatches
<1> QED BY <1>1, <1>4, <1>5, <1>13 DEF Recounted

(* What a commit covers stays covered: it starts where the commits end.    *)
LEMMA CommitsGrow ==
    ASSUME TypeOK, CurrentInv, NEW w \in Workers, pc[w] = "commit",
           CommitLands(w)
    PROVE  /\ Committed \subseteq Committed'
           /\ Batch(w) \subseteq Committed'
           /\ Committed \cap Batch(w) = {}
<1>1. ASSUME NEW p \in Partitions, Holds(w, p)
      PROVE  from[w][p] = committed[p] /\ committed'[p] = upto[w][p]
  BY <1>1, CommitMoves DEF CurrentInv, Places, Held, Resumed, Working
<1>2. ASSUME NEW p \in Partitions
      PROVE  /\ committed[p] \in Nat /\ committed'[p] \in Nat
             /\ committed[p] <= committed'[p]
  <2>1. committed[p] \in Nat /\ upto[w][p] \in Nat /\ from[w][p] \in Nat
    BY LogTyped
  <2>2. CASE Holds(w, p)
    BY <1>1, <2>1, <2>2 DEF Holds
  <2>3. CASE ~Holds(w, p)
    BY <2>1, <2>3, CommitMoves
  <2> QED BY <2>2, <2>3
<1>3. Committed \subseteq Committed'
  <2> SUFFICES ASSUME NEW r \in Recs, r[2] <= committed[r[1]]
               PROVE  r[2] <= committed'[r[1]]
    BY DEF Committed
  <2>1. r[1] \in Partitions /\ r[2] \in Nat
    BY RecParts
  <2> QED BY <1>2, <2>1
<1>4. ASSUME NEW r \in Batch(w)
      PROVE  r \in Committed' /\ r \notin Committed
  <2>1. /\ r \in Recs /\ r[1] \in Partitions /\ r[2] \in Nat
        /\ Holds(w, r[1])
        /\ from[w][r[1]] < r[2] /\ r[2] <= upto[w][r[1]]
    BY InBatchOf, RecParts, BatchIsHeld DEF CurrentInv, Places
  <2>2. committed[r[1]] < r[2] /\ r[2] <= committed'[r[1]]
    BY <1>1, <2>1
  <2>3. committed[r[1]] \in Nat
    BY <1>2, <2>1
  <2> QED BY <2>1, <2>2, <2>3 DEF Committed
<1> QED BY <1>3, <1>4

(* A commit makes its process the owner of the batch.                      *)
LEMMA RecountCommit ==
    ASSUME OneIdentityEach, TypeOK, CurrentInv,
           NEW C \in Shares, NEW G \in Shares, Recounted(C, G),
           NEW w \in Workers, Commit(w)
    PROVE  \E D \in Shares : Recounted(D, G)'
<1> USE DEF countVars
<1>1. PICK D \in Shares :
         /\ D[w] = C[w] \cup Batch(w)
         /\ \A v \in Workers \ {w} : D[v] = C[v]
  <2>1. [C EXCEPT ![w] = @ \cup Batch(w)] \in Shares
    BY BatchInRecs DEF Shares
  <2> QED BY <2>1 DEF Shares
<1>2. /\ pc[w] = "commit" /\ pc'[w] = "poll" /\ CommitLands(w)
      /\ from'[w] = Zero /\ upto'[w] = Zero
      /\ \A v \in Workers \ {w} :
            from'[v] = from[v] /\ upto'[v] = upto[v] /\ pc'[v] = pc[v]
      /\ UNCHANGED <<log, todo, cur, cnt, progress>>
  BY DEF Commit, TypeOK
<1>3. /\ Committed \subseteq Committed' /\ Batch(w) \subseteq Committed'
      /\ Committed \cap Batch(w) = {}
  BY <1>2, CommitsGrow
<1>4. \A v \in Workers : C[v] \subseteq Committed /\ C[v] \in SUBSET Recs
  BY DEF Recounted, Owned, Shares
<1>5. Owned(D)'
  <2>1. \A v \in Workers : D[v] \subseteq Committed'
    BY <1>1, <1>3, <1>4
  <2>2. \A u, v \in Workers : u # v => D[u] \cap D[v] = {}
    BY <1>1, <1>3, <1>4 DEF Recounted, Owned
  <2> QED BY <2>1, <2>2 DEF Owned
<1>6. ASSUME NEW S, NEW j PROVE Size(S, j)' = Size(S', j)
  BY <1>2 DEF Size, OfJob, EventAt
<1>7. /\ \A r : EventAt(r)' = EventAt(r)
      /\ \A v \in Workers \ {w} : Begun(v)' = Begun(v)
  BY <1>2 DEF EventAt, Begun, Batch, Of
<1>8. ASSUME NEW v \in Workers, NEW j \in Jobs, Alive(v)'
      PROVE  Total(cnt[v][j]) <= Size(D[v], j) + Size(Begun(v)', j)
  <2>1. CASE v = w
    <3>1. /\ Total(cnt[w][j]) <= Size(C[w], j) + Size(Batch(w), j)
      BY <1>2 DEF Recounted, CountsBounded, Begun, Alive
    <3>2. Size(D[w], j) = Size(C[w], j) + Size(Batch(w), j)
      <4>1. C[w] \cap Batch(w) = {}
        BY <1>3, <1>4
      <4> QED BY <1>1, <1>4, <4>1, BatchInRecs, SizeOfDisjoint
    <3>3. Begun(w)' \in SUBSET Recs
      BY DEF Begun, Batch, Of
    <3>4. /\ Size(D[w], j) \in Nat /\ Size(Begun(w)', j) \in Nat
          /\ Total(cnt[w][j]) \in Nat
      BY <3>3, SizeType, TotalType DEF Shares
    <3> QED BY <2>1, <3>1, <3>2, <3>4
  <2>2. CASE v # w
    BY <1>1, <1>2, <1>7, <1>8, <2>2 DEF Recounted, CountsBounded, Alive
  <2> QED BY <2>1, <2>2
<1>9. CountsBounded(D)'
  BY <1>2, <1>7, <1>8 DEF CountsBounded, Total, Size, OfJob
<1>10. LastBatches(D, G)'
  <2>1. ASSUME NEW v \in Workers, ~Alive(v)', NEW j \in Jobs,
               NEW m \in ReportsOf(WorkerId[v], j)',
               NEW n \in ReportsOf(WorkerId[v], j)'
        PROVE  m.applied + n.dead <= (Size(D[v], j) + Size(G[v], j))'
    <3>1. v # w
      BY <1>2, <2>1 DEF Alive
    <3>2. ~Alive(v) /\ m \in ReportsOf(WorkerId[v], j)
          /\ n \in ReportsOf(WorkerId[v], j)
      BY <1>2, <2>1, <3>1 DEF Alive, ReportsOf
    <3>3. m.applied + n.dead <= Size(C[v], j) + Size(G[v], j)
      BY <3>2 DEF Recounted, LastBatches
    <3> QED BY <1>1, <1>7, <3>1, <3>3 DEF Size, OfJob
  <2> QED BY <1>2, <2>1 DEF Recounted, LastBatches
<1> QED BY <1>1, <1>5, <1>9, <1>10 DEF Recounted

LEMMA RecountStable ==
    ASSUME NEW C \in Shares, NEW G \in Shares, Recounted(C, G),
           UNCHANGED <<log, committed, pc, cnt, from, upto, todo, cur,
                       progress>>
    PROVE  Recounted(C, G)'
<1>1. Owned(C)'
  BY DEF Recounted, Owned, Committed
<1>2. ASSUME NEW w \in Workers PROVE Begun(w)' = Begun(w)
  BY DEF Begun, Batch, Of, EventAt
<1>3. CountsBounded(C)'
  <2>1. ASSUME NEW w \in Workers, NEW j \in Jobs
        PROVE  Size(Begun(w), j)' = Size(Begun(w), j)
    BY <1>2 DEF Size, OfJob, EventAt
  <2> QED
    BY <2>1 DEF Recounted, CountsBounded, Alive, Total, Size, OfJob, EventAt
<1>4. LastBatches(C, G)'
  BY DEF Recounted, LastBatches, Alive, ReportsOf, Size, OfJob, EventAt
<1> QED BY <1>1, <1>3, <1>4 DEF Recounted

(* A poll is what makes a batch.                                           *)
LEMMA SmallStep ==
    ASSUME TypeOK, SmallBatches, [Next]_vars
    PROVE  SmallBatches'
<1> USE DEF groupVars, batchVars, countVars, storeVars
<1>1. \A r \in Recs : ~(r[2] <= Zero[r[1]])
  BY RecParts DEF Zero
<1> HIDE DEF Zero
<1>2. ASSUME NEW w \in Workers, upto'[w] = Zero PROVE Batch(w)' = {}
  BY <1>1, <1>2 DEF Batch
<1>3. ASSUME NEW w \in Workers,
             \/ from'[w] = from[w] /\ upto'[w] = upto[w]
             \/ upto'[w] = Zero
             \/ Cardinality(Batch(w)') <= MaxPoll
      PROVE  Cardinality(Batch(w)') <= MaxPoll
  <2>1. CASE from'[w] = from[w] /\ upto'[w] = upto[w]
    <3>1. Batch(w)' = Batch(w)
      BY <2>1 DEF Batch
    <3> QED BY <3>1 DEF SmallBatches
  <2>2. CASE upto'[w] = Zero
    BY <1>2, <2>2, FS_EmptySet, ConstantsAssumption
  <2> QED BY <1>3, <2>1, <2>2
<1>4. ASSUME NEW w \in Workers,
             \A v \in Workers \ {w} : from'[v] = from[v] /\ upto'[v] = upto[v],
             \/ from'[w] = from[w] /\ upto'[w] = upto[w]
             \/ upto'[w] = Zero
             \/ Cardinality(Batch(w)') <= MaxPoll
      PROVE  SmallBatches'
  BY <1>3, <1>4 DEF SmallBatches
<1>5. ASSUME UNCHANGED <<from, upto>> PROVE SmallBatches'
  BY <1>3, <1>5 DEF SmallBatches
<1>6. ASSUME NEW w \in Workers, MainStep(w) PROVE SmallBatches'
  <2>1. CASE Poll(w)
    BY <1>4, <2>1 DEF Poll, TypeOK
  <2>2. CASE Commit(w)
    BY <1>4, <2>2 DEF Commit, TypeOK
  <2>3. CASE Start(w) \/ BatchStep(w)
    BY <1>5, <2>3
    DEF Start, BatchStep, PoisonDead, UpsertBatch, UpsertRefused, Retry,
        CountBatch, CountPoison, InvalidDead
  <2>4. CASE FlushStep(w)
    BY <1>4, <1>5, <2>4
    DEF FlushStep, MainSnapshot, MainDone, DrainDone, Forget, ReportProgress,
        TypeOK
  <2> QED BY <1>6, <2>1, <2>2, <2>3, <2>4 DEF MainStep
<1>7. ASSUME NEW w \in Workers, FlusherStep(w) PROVE SmallBatches'
  BY <1>5, <1>7
  DEF FlusherStep, FlusherSnapshot, FlusherDone, ReportProgress
<1>8. ASSUME NEW w \in Workers, FaultStep(w) PROVE SmallBatches'
  <2>1. CASE Crash(w) \/ DrainFails(w)
    BY <1>4, <2>1 DEF Crash, DrainFails, Forget, TypeOK
  <2>2. CASE \/ Shutdown(w) \/ PoisonDeadFails(w) \/ UpsertFails(w)
             \/ FlusherFails(w) \/ MainFails(w) \/ CommitFails(w)
             \/ \E r \in todo[w] : InvalidDeadFails(w, r)
    BY <1>5, <2>2
    DEF Shutdown, PoisonDeadFails, UpsertFails, Retry, FlusherFails, MainFails,
        CommitFails, InvalidDeadFails
  <2> QED BY <1>8, <2>1, <2>2 DEF FaultStep
<1> QED
  BY <1>5, <1>6, <1>7, <1>8 DEF Next, vars, Produce, Assign

LEMMA RecountStep ==
    ASSUME OneIdentityEach, TypeInv, CurrentInv, ReportInv,
           ReportsBehind, SmallBatches, [Next]_vars,
           NEW C \in Shares, NEW G \in Shares, Recounted(C, G)
    PROVE  \E D, H \in Shares : Recounted(D, H)'
<1> USE DEF groupVars, batchVars, countVars, storeVars
<1>1. /\ TypeOK /\ InLog /\ Held /\ LeftOfBatch
      /\ \A w \in Workers, t \in Threads : left[w][t] \subseteq snap[w][t]
  BY DEF TypeInv, CurrentInv, Places, ReportInv, SentIsCarried
<1>2. "main" \in Threads /\ "flusher" \in Threads
  BY DEF Threads
<1>3. CASE UNCHANGED vars \/ \E p \in Partitions, w \in Workers : Assign(p, w)
  <2>1. Recounted(C, G)'
    BY <1>3, RecountStable DEF vars, Assign
  <2> QED BY <2>1
<1>4. CASE \E e \in Events : Produce(e)
  <2>1. Recounted(C, G)'
    BY <1>1, <1>4, RecountProduce
  <2> QED BY <2>1
(* Steps of one process that count nothing and keep its batch.             *)
<1>5. ASSUME NEW w \in Workers, Alive(w), Alive(w)',
             UNCHANGED <<log, committed, cnt, from, upto>>,
             \A v \in Workers \ {w} :
                pc'[v] = pc[v] /\ todo'[v] = todo[v] /\ cur'[v] = cur[v],
             \/ UNCHANGED progress
             \/ \E c : progress' = progress \cup {ReportOf(w, c)},
             \/ pc'[w] \notin {"work", "poison"}
             \/ pc'[w] = "work" /\ pc[w] = "work" /\ todo'[w] \subseteq todo[w]
             \/ pc'[w] = pc[w] /\ todo'[w] = todo[w] /\ cur'[w] = cur[w]
      PROVE  Recounted(C, G)'
  <2>1. /\ \A m \in progress' : m \in progress \/ m.worker = WorkerId[w]
        /\ progress \subseteq progress'
    BY <1>5 DEF ReportOf
  <2>2. Committed \subseteq Committed'
    BY <1>5 DEF Committed
  <2> QED BY <1>1, <1>5, <2>1, <2>2, RecountPast
<1>6. ASSUME NEW w \in Workers, Alive(w), Forget(w),
             UNCHANGED <<log, committed>>,
             \/ UNCHANGED progress
             \/ \E c \in left[w]["main"] :
                   progress' = progress \cup {ReportOf(w, c)}
      PROVE  \E D, H \in Shares : Recounted(D, H)'
  <2>1. \A m \in progress' : m \in progress \/
           \E t \in Threads : \E c \in snap[w][t] : m = ReportOf(w, c)
    BY <1>1, <1>2, <1>6
  <2> QED BY <1>1, <1>6, <2>1, RecountForget
<1>7. ASSUME NEW w \in Workers, MainStep(w)
      PROVE  \E D, H \in Shares : Recounted(D, H)'
  <2>1. CASE Start(w) \/ MainSnapshot(w) \/ MainDone(w)
    <3>1. Recounted(C, G)'
      BY <1>1, <1>5, <2>1
      DEF Start, MainSnapshot, TakeSnapshot, FlushPoints, Reporting, MainDone,
          Alive, TypeOK
    <3> QED BY <3>1
  <2>2. CASE UpsertBatch(w) \/ UpsertRefused(w)
    <3>1. Recounted(C, G)'
      BY <1>1, <1>5, <2>2
      DEF UpsertBatch, UpsertRefused, ReadyToWrite, NoPoisonLeft, Retry, Exit,
          Alive, TypeOK
    <3> QED BY <3>1
  <2>3. CASE \E r \in todo[w] : InvalidDead(w, r)
    <3>1. Recounted(C, G)'
      BY <1>1, <1>5, <2>3 DEF InvalidDead, NoPoisonLeft, Alive, TypeOK
    <3> QED BY <3>1
  <2>4. CASE PoisonDead(w)
    <3>1. /\ Alive(w) /\ Alive(w)' /\ pc[w] = "poison" /\ pc'[w] = "work"
          /\ todo'[w] = todo[w] \ {cur[w]}
          /\ UNCHANGED <<log, committed, cnt, from, upto, progress>>
          /\ \A v \in Workers \ {w} :
                pc'[v] = pc[v] /\ todo'[v] = todo[v] /\ cur'[v] = cur[v]
      BY <1>1, <2>4 DEF PoisonDead, Alive, TypeOK
    <3>2. Begun(w) \subseteq Begun(w)' /\ Committed \subseteq Committed'
      BY <3>1 DEF Begun, Batch, Of, EventAt, Committed
    <3>3. Recounted(C, G)'
      BY <1>1, <3>1, <3>2, RecountQuiet
    <3> QED BY <3>3
  <2>5. CASE Poll(w)
    <3>1. Recounted(C, G)'
      BY <1>1, <2>5, RecountPoll
    <3> QED BY <3>1
  <2>6. CASE CountBatch(w)
    <3>1. Recounted(C, G)'
      BY <1>1, <2>6, RecountBatch
    <3> QED BY <3>1
  <2>7. CASE \E r \in todo[w] : CountPoison(w, r)
    <3>1. Recounted(C, G)'
      BY <1>1, <2>7, RecountPoison
    <3> QED BY <3>1
  <2>8. CASE DrainDone(w)
    BY <1>6, <2>8 DEF DrainDone, Alive
  <2>9. ASSUME NEW c \in left[w]["main"], ReportProgress(w, "main", c)
        PROVE  Recounted(C, G)'
    BY <1>1, <1>2, <1>5, <2>9
    DEF ReportProgress, CanReport, ReportPoints, Alive, TypeOK
  <2>10. CASE Commit(w)
    BY <1>1, <2>10, RecountCommit
  <2> QED
    BY <1>7, <2>1, <2>2, <2>3, <2>4, <2>5, <2>6, <2>7, <2>8, <2>9, <2>10
    DEF MainStep, BatchStep, FlushStep
<1>8. ASSUME NEW w \in Workers, FlusherStep(w) PROVE Recounted(C, G)'
  BY <1>1, <1>5, <1>8
  DEF FlusherStep, FlusherSnapshot, TakeSnapshot, FlusherDone, Flushed,
      ReportProgress, CanReport, FlusherRuns, Alive, TypeOK
<1>9. ASSUME NEW w \in Workers, FaultStep(w)
      PROVE  \E D, H \in Shares : Recounted(D, H)'
  <2>1. CASE Crash(w)
    BY <1>6, <2>1 DEF Crash, Member, Alive
  <2>2. CASE DrainFails(w)
    BY <1>6, <2>2 DEF DrainFails, DeliveredAnyway, Alive
  <2>3. CASE Shutdown(w) \/ PoisonDeadFails(w)
    <3>1. Recounted(C, G)'
      BY <1>1, <1>5, <2>3 DEF Shutdown, PoisonDeadFails, Exit, Alive, TypeOK
    <3> QED BY <3>1
  <2>4. CASE UpsertFails(w)
    <3>1. PICK cancelled \in BOOLEAN : Retry(w, cancelled)
      BY <2>4 DEF UpsertFails
    <3>2. Recounted(C, G)'
      BY <1>1, <1>5, <2>4, <3>1
      DEF UpsertFails, ReadyToWrite, NoPoisonLeft, Retry, Exit, Alive, TypeOK
    <3> QED BY <3>2
  <2>5. CASE FlusherFails(w)
    <3>1. Recounted(C, G)'
      BY <1>1, <1>5, <2>5
      DEF FlusherFails, DeliveredAnyway, CanReport, FlusherRuns, Alive, TypeOK
    <3> QED BY <3>1
  <2>6. CASE MainFails(w)
    <3>1. Recounted(C, G)'
      BY <1>1, <1>5, <2>6
      DEF MainFails, DeliveredAnyway, Exit, Alive, TypeOK
    <3> QED BY <3>1
  <2>7. CASE \E r \in todo[w] : InvalidDeadFails(w, r)
    <3>1. Recounted(C, G)'
      BY <1>1, <1>5, <2>7
      DEF InvalidDeadFails, NoPoisonLeft, Exit, Alive, TypeOK
    <3> QED BY <3>1
  <2>8. CASE CommitFails(w)
    <3>1. /\ pc[w] = "commit" /\ pc'[w] = "drain" /\ Alive(w) /\ Alive(w)'
          /\ CommitLands(w) \/ UNCHANGED committed
          /\ UNCHANGED <<log, cnt, from, upto, todo, cur, progress>>
          /\ \A v \in Workers \ {w} : pc'[v] = pc[v]
      BY <1>1, <2>8 DEF CommitFails, Exit, Alive, TypeOK
    <3>2. Committed \subseteq Committed'
      <4>1. CASE CommitLands(w)
        BY <1>1, <3>1, <4>1, CommitsGrow
      <4>2. CASE UNCHANGED committed
        BY <4>2 DEF Committed
      <4> QED BY <3>1, <4>1, <4>2
    <3>3. Recounted(C, G)'
      BY <1>1, <3>1, <3>2, RecountPast
    <3> QED BY <3>3
  <2> QED
    BY <1>9, <2>1, <2>2, <2>3, <2>4, <2>5, <2>6, <2>7, <2>8 DEF FaultStep
<1> QED
  BY <1>3, <1>4, <1>7, <1>8, <1>9 DEF Next

LEMMA RecountInit ==
    Init => RecountInv
<1> SUFFICES ASSUME Init PROVE RecountInv
  OBVIOUS
<1> DEFINE C == [w \in Workers |-> {}]
<1>1. \A r \in Recs : ~(r[2] <= Zero[r[1]])
  BY RecParts DEF Zero
<1>2. \A w \in Workers : Batch(w) = {}
  BY <1>1 DEF Init, Batch
<1>3. ReportsBehind
  BY DEF Init, ReportsBehind, Idle
<1>4. Cardinality({}) <= MaxPoll
  BY FS_EmptySet, ConstantsAssumption
<1>5. C \in Shares /\ \A w \in Workers : C[w] = {}
  BY DEF Shares
<1> HIDE DEF C
<1>6. \A j : Size({}, j) = 0
  BY FS_EmptySet DEF Size, OfJob
<1>7. Owned(C)
  BY <1>5 DEF Owned
<1>8. CountsBounded(C)
  <2>1. ASSUME NEW w \in Workers, NEW j \in Jobs
        PROVE  Total(cnt[w][j]) <= Size(C[w], j) + Size(Begun(w), j)
    <3>1. Begun(w) = {}
      BY <1>2, BegunInBatch
    <3>2. Total(cnt[w][j]) = 0
      BY DEF Init, Total, NoCount
    <3> QED BY <1>5, <1>6, <3>1, <3>2
  <2> QED BY <2>1 DEF CountsBounded
<1>9. LastBatches(C, C)
  <2>1. \A w \in Workers : Alive(w)
    BY DEF Init, Alive
  <2> QED BY <1>4, <1>5, <2>1 DEF LastBatches
<1>10. SmallBatches
  BY <1>2, <1>4 DEF SmallBatches
<1> QED
  BY <1>3, <1>5, <1>7, <1>8, <1>9, <1>10 DEF RecountInv, Recounted

----------------------------------------------------------------------------
(* Sums bounded from above, as SumCovers bounds them from below: summands  *)
(* that are at most the sizes of disjoint parts of a finite set add up to  *)
(* at most its size.                                                       *)
LEMMA SumBelow ==
    ASSUME NEW S, IsFiniteSet(S), NEW f \in [S -> Nat], NEW A,
           NEW U, IsFiniteSet(U),
           \A x \in S : A[x] \subseteq U /\ f[x] <= Cardinality(A[x]),
           \A x, y \in S : x # y => A[x] \cap A[y] = {},
           NEW t, IsSumTable(t, f, S)
    PROVE  t[S] \in Nat /\ t[S] <= Cardinality(U)
<1> DEFINE All(s) == UNION {A[x] : x \in s}
           Right(s) == t[s] \in Nat /\ t[s] <= Cardinality(All(s))
           Good == {s \in SUBSET S : Right(s)}
<1>1. t[{}] = 0 /\ \A s \in SUBSET S : s # {} =>
          Taken(s) \in s /\ t[s] = f[Taken(s)] + t[s \ {Taken(s)}]
  BY ONLY IsSumTable(t, f, S), SumTableUnfolds
<1>2. ASSUME NEW s \in SUBSET S PROVE All(s) \in SUBSET U
  <2> SUFFICES ASSUME NEW x \in s, NEW u \in A[x] PROVE u \in U
    OBVIOUS
  <2>1. x \in S
    OBVIOUS
  <2> QED BY <2>1
<1>3. \A T \in SUBSET U : IsFiniteSet(T) /\ Cardinality(T) \in Nat
  BY FS_Subset, FS_CardinalityType
<1>4. {} \in Good
  <2>1. All({}) = {}
    OBVIOUS
  <2>2. Right({})
    <3>1. t[{}] = 0 /\ Cardinality({}) = 0
      BY <1>1, FS_EmptySet
    <3> HIDE DEF All
    <3> QED BY <2>1, <3>1
  <2> QED BY <2>2
<1>5. ASSUME NEW s \in SUBSET S, s # {}, \A x \in s : s \ {x} \in Good
      PROVE  s \in Good
  <2> DEFINE x == Taken(s)
             r == s \ {x}
  <2>1. x \in s /\ t[s] = f[x] + t[r]
    BY <1>1, <1>5
  <2>2. Right(r)
    BY <2>1, <1>5
  <2>3. f[x] \in Nat /\ f[x] <= Cardinality(A[x])
    BY <2>1
  <2>4. /\ All(s) = A[x] \cup All(r) /\ A[x] \cap All(r) = {}
        /\ A[x] \in SUBSET U /\ All(r) \in SUBSET U
    BY <2>1
  <2> HIDE DEF All, x, r
  <2>5. /\ Cardinality(All(s)) = Cardinality(A[x]) + Cardinality(All(r))
                                    - Cardinality(A[x] \cap All(r))
        /\ Cardinality(A[x] \cap All(r)) = 0
    BY <1>3, <2>4, FS_Union, FS_EmptySet
  <2>6. /\ Cardinality(A[x]) \in Nat /\ Cardinality(All(r)) \in Nat
    BY <1>3, <2>4
  <2> QED BY <2>1, <2>2, <2>3, <2>5, <2>6
<1>6. \A s \in SUBSET S : s \in Good
  <2>1. Good \in SUBSET (SUBSET S)
    OBVIOUS
  <2> HIDE DEF Good
  <2> QED BY <1>4, <1>5, <2>1, SetInduction
<1>7. Right(S)
  BY <1>6
<1>8. All(S) \in SUBSET U
  BY <1>2
<1> HIDE DEF All
<1>9. /\ Cardinality(All(S)) <= Cardinality(U)
      /\ Cardinality(U) \in Nat /\ Cardinality(All(S)) \in Nat
  BY <1>8, FS_Subset, FS_CardinalityType
<1> QED BY <1>7, <1>9

(* Sets of at most n elements each, taken together.                        *)
LEMMA SmallSetsTogether ==
    ASSUME NEW S, IsFiniteSet(S), NEW n \in Nat, NEW A,
           \A x \in S : IsFiniteSet(A[x]) /\ Cardinality(A[x]) <= n
    PROVE  /\ IsFiniteSet(UNION {A[x] : x \in S})
           /\ Cardinality(UNION {A[x] : x \in S}) <= n * Cardinality(S)
<1> DEFINE All(s) == UNION {A[x] : x \in s}
           Right(s) == /\ IsFiniteSet(All(s))
                       /\ Cardinality(All(s)) <= n * Cardinality(s)
           Good == {s \in SUBSET S : Right(s)}
<1>1. \A s \in SUBSET S : IsFiniteSet(s) /\ Cardinality(s) \in Nat
  BY FS_Subset, FS_CardinalityType
<1>2. {} \in Good
  <2>1. All({}) = {}
    OBVIOUS
  <2>2. IsFiniteSet({}) /\ Cardinality({}) = 0
    BY FS_EmptySet
  <2>3. Right({})
    <3> HIDE DEF All
    <3> QED BY <2>1, <2>2
  <2> QED BY <2>3
<1>3. ASSUME NEW s \in SUBSET S, s # {}, \A x \in s : s \ {x} \in Good
      PROVE  s \in Good
  <2>1. PICK x \in s : TRUE
    BY <1>3
  <2> DEFINE r == s \ {x}
  <2>2. Right(r)
    BY <1>3
  <2>3. IsFiniteSet(A[x]) /\ Cardinality(A[x]) <= n
    OBVIOUS
  <2>4. All(s) = A[x] \cup All(r)
    OBVIOUS
  <2>5. Cardinality(r) = Cardinality(s) - 1 /\ Cardinality(r) \in Nat
        /\ Cardinality(s) \in Nat
    BY <1>1, FS_RemoveElement
  <2> HIDE DEF All, r
  <2>6. /\ IsFiniteSet(All(s))
        /\ Cardinality(All(s)) = Cardinality(A[x]) + Cardinality(All(r))
                                    - Cardinality(A[x] \cap All(r))
    BY <2>2, <2>3, <2>4, FS_Union
  <2>7. /\ Cardinality(A[x]) \in Nat /\ Cardinality(All(r)) \in Nat
        /\ Cardinality(A[x] \cap All(r)) \in Nat
    BY <2>2, <2>3, FS_CardinalityType, FS_Intersection
  <2>8. n * Cardinality(s) = n * Cardinality(r) + n
    BY <2>5
  <2>9. n * Cardinality(r) \in Nat
    BY <2>5
  <2>10. Cardinality(All(s)) <= n * Cardinality(s)
    <3> DEFINE k == n * Cardinality(r)
    <3>1. Cardinality(All(r)) <= k /\ k \in Nat
      BY <2>2, <2>9
    <3>2. n * Cardinality(s) = k + n
      BY <2>8
    <3> HIDE DEF k
    <3>3. Cardinality(All(s)) <= k + n
      BY <2>3, <2>6, <2>7, <3>1
    <3> QED BY <3>2, <3>3
  <2> QED BY <2>6, <2>10
<1>4. \A s \in SUBSET S : s \in Good
  <2>1. Good \in SUBSET (SUBSET S)
    OBVIOUS
  <2> HIDE DEF Good
  <2> QED BY <1>2, <1>3, <2>1, SetInduction
<1> QED BY <1>4

LEMMA JobsAreTabled ==
    ASSUME IsFiniteSet(Jobs)
    PROVE  \E t : /\ IsSumTable(t, [j \in Jobs |-> Ledger(j)], Jobs)
                  /\ MapThenSumSet(Ledger, Jobs) = t[Jobs]
<1> DEFINE f == [j \in Jobs |-> Ledger(j)]
           Tabled(t) == t = [s \in SUBSET Jobs |->
                               IF s = {} THEN 0
                               ELSE Ledger(Taken(s)) + t[s \ {Taken(s)}]]
           table == CHOOSE t : Tabled(t)
<1>1. MapThenSumSet(Ledger, Jobs) = table[Jobs]
  BY DEF MapThenSumSet, MapThenFoldSet, Taken
<1>2. \A s \in SUBSET Jobs : s # {} => f[Taken(s)] = Ledger(Taken(s))
  BY DEF Taken
<1>3. \A t : Tabled(t) <=> IsSumTable(t, f, Jobs)
  <2> HIDE DEF f
  <2> QED BY <1>2 DEF IsSumTable
<1>4. \E t : IsSumTable(t, f, Jobs)
  BY SumTableExists
<1> HIDE DEF f
<1>5. \E t : Tabled(t)
  BY <1>3, <1>4
<1>6. Tabled(table)
  <2> HIDE DEF Tabled
  <2> QED BY <1>5
<1> HIDE DEF Tabled, table
<1>7. IsSumTable(table, f, Jobs)
  BY <1>3, <1>6
<1> QED BY <1>1, <1>7 DEF f

LEMMA BatchesAreTabled ==
    ASSUME IsFiniteSet(Workers)
    PROVE  \E t :
              /\ IsSumTable(t, [w \in Workers |-> Cardinality(Batch(w))],
                            Workers)
              /\ MapThenSumSet(LAMBDA w : Cardinality(Batch(w)), Workers)
                    = t[Workers]
<1> DEFINE f == [w \in Workers |-> Cardinality(Batch(w))]
           Tabled(t) == t = [s \in SUBSET Workers |->
                               IF s = {} THEN 0
                               ELSE Cardinality(Batch(Taken(s)))
                                      + t[s \ {Taken(s)}]]
           table == CHOOSE t : Tabled(t)
<1>1. MapThenSumSet(LAMBDA w : Cardinality(Batch(w)), Workers)
         = table[Workers]
  BY DEF MapThenSumSet, MapThenFoldSet, Taken
<1>2. \A s \in SUBSET Workers : s # {} =>
         f[Taken(s)] = Cardinality(Batch(Taken(s)))
  BY DEF Taken
<1>3. \A t : Tabled(t) <=> IsSumTable(t, f, Workers)
  <2> HIDE DEF f
  <2> QED BY <1>2 DEF IsSumTable
<1>4. \E t : IsSumTable(t, f, Workers)
  BY SumTableExists
<1> HIDE DEF f
<1>5. \E t : Tabled(t)
  BY <1>3, <1>4
<1>6. Tabled(table)
  <2> HIDE DEF Tabled
  <2> QED BY <1>5
<1> HIDE DEF Tabled, table
<1>7. IsSumTable(table, f, Workers)
  BY <1>3, <1>6
<1> QED BY <1>1, <1>7 DEF f

(* The records w may have in the reports: those it committed, and the      *)
(* batch it has, or had last, in hand. A record in hand is w's own, also   *)
(* when another process has it in hand too, or committed it later.         *)
Hand(G, w) == IF Alive(w) THEN Batch(w) ELSE G[w]
Part(C, G, w) == ({NoWorker} \X C[w]) \cup ({w} \X Hand(G, w))
Parts(C, G) == UNION {Part(C, G, w) : w \in Workers}
OfJobIn(U, j) == {d \in U : EventAt(d[2]).job = j}

LEMMA TaggedSize ==
    ASSUME NEW x, NEW S, IsFiniteSet(S)
    PROVE  IsFiniteSet({x} \X S) /\ Cardinality({x} \X S) = Cardinality(S)
<1>1. /\ IsFiniteSet({x}) /\ Cardinality({x}) = 1 /\ Cardinality(S) \in Nat
  BY FS_Singleton, FS_CardinalityType
<1>2. /\ IsFiniteSet({x} \X S)
      /\ Cardinality({x} \X S) = Cardinality({x}) * Cardinality(S)
  BY <1>1, FS_Product
<1>3. 1 * Cardinality(S) = Cardinality(S)
  BY <1>1
<1> QED BY <1>1, <1>2, <1>3

LEMMA HandInRecs ==
    ASSUME NEW G \in Shares, NEW w \in Workers
    PROVE  Hand(G, w) \in SUBSET Recs
BY BatchInRecs DEF Hand, Shares

(* What the reports of a process say of a job is in its part.              *)
LEMMA RowBounded ==
    ASSUME TypeOK, IsFiniteSet(progress), ReportsBehind,
           NEW C \in Shares, NEW G \in Shares, Recounted(C, G),
           NEW w \in Workers, NEW j \in Jobs
    PROVE  RowOf(WorkerId[w], j) <= Size(C[w], j) + Size(Hand(G, w), j)
<1> DEFINE row == RowOf(WorkerId[w], j)
           bound == Size(C[w], j) + Size(Hand(G, w), j)
<1>1. /\ Size(C[w], j) \in Nat /\ Size(Hand(G, w), j) \in Nat
  BY HandInRecs, SizeType DEF Shares
<1>2. CASE row = 0
  BY <1>1, <1>2
<1>3. ASSUME NEW m \in ReportsOf(WorkerId[w], j),
             NEW n \in ReportsOf(WorkerId[w], j), row = m.applied + n.dead
      PROVE  row <= bound
  <2>1. CASE ~Alive(w)
    BY <1>3, <2>1 DEF Recounted, LastBatches, Hand
  <2>2. CASE Alive(w)
    <3>1. /\ m.applied <= cnt[w][j].applied /\ n.dead <= cnt[w][j].dead
          /\ m.applied \in Nat /\ n.dead \in Nat
      BY <2>2 DEF ReportsBehind, Behind, ReportsOf, TypeOK, Report
    <3>2. Total(cnt[w][j]) <= Size(C[w], j) + Size(Begun(w), j)
      BY <2>2 DEF Recounted, CountsBounded
    <3>3. Size(Begun(w), j) <= Size(Hand(G, w), j) /\ Size(Begun(w), j) \in Nat
      BY <2>2, BatchInRecs, BegunInBatch, SizeMonotone, SizeType DEF Hand
    <3>4. cnt[w][j].applied \in Nat /\ cnt[w][j].dead \in Nat
      BY TotalType
    <3> QED BY <1>1, <1>3, <3>1, <3>2, <3>3, <3>4 DEF Total
  <2> QED BY <2>1, <2>2
<1>4. row = 0 \/ \E m, n \in ReportsOf(WorkerId[w], j) :
                    row = m.applied + n.dead
  BY RowIsReported
<1> HIDE DEF row, bound
<1> QED BY <1>2, <1>3, <1>4 DEF row, bound

LEMMA PartsApart ==
    ASSUME NEW C \in Shares, NEW G, Owned(C),
           NEW v \in Workers, NEW w \in Workers, v # w
    PROVE  Part(C, G, v) \cap Part(C, G, w) = {}
<1> SUFFICES ASSUME NEW d \in Part(C, G, v), d \in Part(C, G, w) PROVE FALSE
  OBVIOUS
<1>1. NoWorker # v /\ NoWorker # w
  BY ConstantsAssumption
<1>2. CASE d[1] = NoWorker
  <2>1. d[2] \in C[v] /\ d[2] \in C[w]
    BY <1>1, <1>2 DEF Part
  <2> QED BY <2>1 DEF Owned
<1>3. CASE d[1] # NoWorker
  BY <1>3 DEF Part
<1> QED BY <1>2, <1>3

LEMMA PartSize ==
    ASSUME NEW C \in Shares, NEW G \in Shares, NEW w \in Workers, NEW j
    PROVE  /\ IsFiniteSet(OfJobIn(Part(C, G, w), j))
           /\ Cardinality(OfJobIn(Part(C, G, w), j))
                 = Size(C[w], j) + Size(Hand(G, w), j)
<1> DEFINE A == OfJob(C[w], j)
           B == OfJob(Hand(G, w), j)
           X == {NoWorker} \X A
           Y == {w} \X B
<1>1. OfJobIn(Part(C, G, w), j) = X \cup Y
  BY DEF OfJobIn, Part, OfJob
<1>2. A \in SUBSET Recs /\ B \in SUBSET Recs
  BY HandInRecs DEF OfJob, Shares
<1>3. X \cap Y = {}
  BY ConstantsAssumption
<1> HIDE DEF A, B
<1>4. /\ IsFiniteSet(A) /\ IsFiniteSet(B)
      /\ Cardinality(A) \in Nat /\ Cardinality(B) \in Nat
  BY <1>2, RecsFinite
<1>5. /\ IsFiniteSet(X) /\ Cardinality(X) = Cardinality(A)
      /\ IsFiniteSet(Y) /\ Cardinality(Y) = Cardinality(B)
  BY <1>4, TaggedSize
<1> HIDE DEF X, Y
<1>6. /\ IsFiniteSet(X \cup Y)
      /\ Cardinality(X \cup Y)
            = Cardinality(X) + Cardinality(Y) - Cardinality(X \cap Y)
      /\ Cardinality(X \cap Y) = 0
  BY <1>3, <1>5, FS_Union, FS_EmptySet
<1>7. Cardinality(X \cup Y) = Cardinality(A) + Cardinality(B)
  BY <1>4, <1>5, <1>6
<1> QED BY <1>1, <1>6, <1>7 DEF Size, A, B

(* The rows of a job are of different processes, hence in different parts. *)
LEMMA LedgerBounded ==
    ASSUME IsFiniteSet(WorkerIds), OneIdentityEach,
           TypeOK, IsFiniteSet(progress), ReportsBehind,
           NEW C \in Shares, NEW G \in Shares, Recounted(C, G),
           IsFiniteSet(Parts(C, G)), NEW j \in Jobs
    PROVE  /\ Ledger(j) \in Nat
           /\ Ledger(j) <= Cardinality(OfJobIn(Parts(C, G), j))
<1> DEFINE f == [id \in WorkerIds |-> RowOf(id, j)]
           U == OfJobIn(Parts(C, G), j)
           A == [id \in WorkerIds |->
                   {d \in U : \E w \in Workers :
                                 WorkerId[w] = id /\ d \in Part(C, G, w)}]
<1>1. PICK t : IsSumTable(t, f, WorkerIds) /\ Ledger(j) = t[WorkerIds]
  BY LedgerIsTabled
<1>2. f \in [WorkerIds -> Nat]
  BY RowIsReported
<1>3. U \in SUBSET Parts(C, G)
  BY DEF OfJobIn
<1>4. IsFiniteSet(U)
  BY <1>3, FS_Subset
<1>5. ASSUME NEW id \in WorkerIds
      PROVE  A[id] \subseteq U /\ f[id] <= Cardinality(A[id])
  <2>1. A[id] \in SUBSET U
    OBVIOUS
  <2>2. IsFiniteSet(A[id]) /\ Cardinality(A[id]) \in Nat
    BY <1>4, <2>1, FS_Subset, FS_CardinalityType
  <2>3. CASE ReportsOf(id, j) = {}
    <3>1. RowOf(id, j) = 0
      BY <2>3, RowIsReported
    <3> HIDE DEF A
    <3> QED BY <2>1, <2>2, <3>1
  <2>4. CASE ReportsOf(id, j) # {}
    <3>1. PICK w \in Workers : WorkerId[w] = id
      BY <2>4 DEF ReportsBehind, ReportsOf
    <3>2. OfJobIn(Part(C, G, w), j) \in SUBSET A[id]
      BY <3>1 DEF OfJobIn, Parts
    <3>3. Cardinality(OfJobIn(Part(C, G, w), j)) <= Cardinality(A[id])
      BY <2>2, <3>2, FS_Subset
    <3>4. RowOf(id, j) <= Cardinality(OfJobIn(Part(C, G, w), j))
      BY <3>1, RowBounded, PartSize
    <3>5. /\ RowOf(id, j) \in Nat
          /\ Cardinality(OfJobIn(Part(C, G, w), j)) \in Nat
      BY RowIsReported, PartSize, FS_CardinalityType
    <3> HIDE DEF A
    <3> QED BY <2>1, <2>2, <3>3, <3>4, <3>5
  <2> QED BY <2>3, <2>4
<1>6. ASSUME NEW x \in WorkerIds, NEW y \in WorkerIds, x # y
      PROVE  A[x] \cap A[y] = {}
  <2> SUFFICES ASSUME NEW d \in A[x], d \in A[y] PROVE FALSE
    OBVIOUS
  <2>1. PICK v \in Workers : WorkerId[v] = x /\ d \in Part(C, G, v)
    OBVIOUS
  <2>2. PICK w \in Workers : WorkerId[w] = y /\ d \in Part(C, G, w)
    OBVIOUS
  <2> HIDE DEF A
  <2>3. v # w
    BY <1>6, <2>1, <2>2
  <2> QED BY <2>1, <2>2, <2>3, PartsApart DEF Recounted
<1> HIDE DEF f, U, A
<1> QED BY <1>1, <1>2, <1>4, <1>5, <1>6, SumBelow DEF U

(* All the parts together: the committed records, the batches in hand, and *)
(* a batch for each process that ended.                                    *)
LEMMA PartsBounded ==
    ASSUME IsFiniteSet(Workers), TypeOK,
           NEW C \in Shares, NEW G \in Shares, Recounted(C, G)
    PROVE  /\ IsFiniteSet(Parts(C, G))
           /\ LET bound ==
                     Cardinality(Committed)
                     + MapThenSumSet(LAMBDA w : Cardinality(Batch(w)), Workers)
                     + MaxPoll * Cardinality({w \in Workers : pc[w] = "gone"})
              IN  bound \in Nat /\ Cardinality(Parts(C, G)) <= bound
<1> DEFINE sum == MapThenSumSet(LAMBDA w : Cardinality(Batch(w)), Workers)
           gone == {w \in Workers : pc[w] = "gone"}
           f == [w \in Workers |-> Cardinality(Batch(w))]
           A == [w \in Workers |-> {w} \X Batch(w)]
           B == [w \in gone |-> {w} \X G[w]]
           X == {NoWorker} \X Committed
           Y == UNION {A[w] : w \in Workers}
           Z == UNION {B[w] : w \in gone}
<1>1. Committed \in SUBSET Recs
  BY DEF Committed
<1>2. IsFiniteSet(Committed) /\ Cardinality(Committed) \in Nat
  BY <1>1, RecsFinite
<1>3. IsFiniteSet(X) /\ Cardinality(X) = Cardinality(Committed)
  BY <1>2, TaggedSize
<1>4. \A w \in Workers : IsFiniteSet(Batch(w)) /\ Cardinality(Batch(w)) \in Nat
  BY BatchInRecs, RecsFinite
<1>5. PICK t : IsSumTable(t, f, Workers) /\ sum = t[Workers]
  BY BatchesAreTabled
<1>6. \A w \in Workers : IsFiniteSet(A[w]) /\ Cardinality(A[w]) = f[w]
  BY <1>4, TaggedSize
<1>7. f \in [Workers -> Nat]
  BY <1>4
<1>8. \A w \in gone : IsFiniteSet(B[w]) /\ Cardinality(B[w]) <= MaxPoll
  <2> TAKE w \in gone
  <2>1. G[w] \in SUBSET Recs /\ Cardinality(G[w]) <= MaxPoll
    BY DEF Shares, Recounted, LastBatches
  <2>2. IsFiniteSet(G[w])
    BY <2>1, RecsFinite
  <2> QED BY <2>1, <2>2, TaggedSize
<1>9. gone \in SUBSET Workers /\ MaxPoll \in Nat
  BY ConstantsAssumption
<1>10. IsFiniteSet(gone) /\ Cardinality(gone) \in Nat
  BY <1>9, FS_Subset, FS_CardinalityType
<1>11. Parts(C, G) \in SUBSET ((X \cup Y) \cup Z)
  BY DEF Parts, Part, Hand, Alive, Recounted, Owned
<1> HIDE DEF sum, gone, f, A, B, X
<1>12. \A w \in Workers : IsFiniteSet(A[w]) /\ Cardinality(A[w]) <= f[w]
  BY <1>6, <1>7
<1>13. /\ sum \in Nat /\ Cardinality(Y) \in Nat /\ Cardinality(Y) <= sum
  <2>1. \A u \in Y : \E w \in Workers : u \in A[w]
    OBVIOUS
  <2> HIDE DEF Y
  <2> QED BY <1>5, <1>7, <1>12, <2>1, SumCovers
<1>14. IsFiniteSet(Y)
  <2>1. Y \in SUBSET (Workers \X Recs)
    BY BatchInRecs DEF A
  <2>2. IsFiniteSet(Recs)
    BY RecsFinite
  <2> HIDE DEF Y
  <2> QED BY <2>1, <2>2, FS_Product, FS_Subset
<1>15. IsFiniteSet(Z) /\ Cardinality(Z) <= MaxPoll * Cardinality(gone)
  BY <1>8, <1>9, <1>10, SmallSetsTogether
<1> HIDE DEF Y, Z
<1>16. /\ IsFiniteSet(X \cup Y)
       /\ Cardinality(X \cup Y) <= Cardinality(Committed) + sum
  <2>1. /\ IsFiniteSet(X \cup Y)
        /\ Cardinality(X \cup Y)
              = Cardinality(X) + Cardinality(Y) - Cardinality(X \cap Y)
    BY <1>3, <1>14, FS_Union
  <2>2. Cardinality(X \cap Y) \in Nat
    BY <1>3, <1>14, FS_Intersection, FS_CardinalityType
  <2> QED BY <1>2, <1>3, <1>13, <2>1, <2>2
<1>17. /\ IsFiniteSet((X \cup Y) \cup Z)
       /\ Cardinality((X \cup Y) \cup Z)
             <= Cardinality(X \cup Y) + Cardinality(Z)
  <2>1. /\ IsFiniteSet((X \cup Y) \cup Z)
        /\ Cardinality((X \cup Y) \cup Z)
              = Cardinality(X \cup Y) + Cardinality(Z)
                  - Cardinality((X \cup Y) \cap Z)
    BY <1>15, <1>16, FS_Union
  <2>2. /\ Cardinality((X \cup Y) \cap Z) \in Nat
        /\ Cardinality(X \cup Y) \in Nat /\ Cardinality(Z) \in Nat
    BY <1>15, <1>16, FS_Intersection, FS_CardinalityType
  <2> QED BY <2>1, <2>2
<1>18. /\ IsFiniteSet(Parts(C, G))
       /\ Cardinality(Parts(C, G)) <= Cardinality((X \cup Y) \cup Z)
  BY <1>11, <1>17, FS_Subset
<1>19. /\ Cardinality(Parts(C, G)) \in Nat /\ Cardinality(Z) \in Nat
       /\ Cardinality(X \cup Y) \in Nat
       /\ Cardinality((X \cup Y) \cup Z) \in Nat
  BY <1>15, <1>16, <1>17, <1>18, FS_CardinalityType
<1> DEFINE last == MaxPoll * Cardinality(gone)
<1>20. last \in Nat
  BY <1>9, <1>10
<1>21. Cardinality(Z) <= last
  BY <1>15
<1> HIDE DEF last
<1>22. /\ Cardinality(Parts(C, G)) <= Cardinality(Committed) + sum + last
       /\ Cardinality(Committed) + sum + last \in Nat
  BY <1>2, <1>13, <1>16, <1>17, <1>18, <1>19, <1>20, <1>21
<1> QED BY <1>18, <1>22 DEF sum, last, gone

LEMMA RecountBounded ==
    ASSUME IsFiniteSet(WorkerIds), IsFiniteSet(Workers), IsFiniteSet(Jobs),
           OneIdentityEach, TypeOK, IsFiniteSet(progress), RecountInv
    PROVE  RecountAtMostOneBatch
<1> DEFINE f == [j \in Jobs |-> Ledger(j)]
<1>1. PICK C \in Shares, G \in Shares : Recounted(C, G)
  BY DEF RecountInv
<1> DEFINE U == Parts(C, G)
           A == [j \in Jobs |-> OfJobIn(U, j)]
<1>2. IsFiniteSet(U)
  BY <1>1, PartsBounded
<1>3. PICK t : /\ IsSumTable(t, f, Jobs)
               /\ MapThenSumSet(Ledger, Jobs) = t[Jobs]
  BY JobsAreTabled
<1>4. \A j \in Jobs : /\ Ledger(j) \in Nat
                      /\ Ledger(j) <= Cardinality(OfJobIn(U, j))
  BY <1>1, <1>2, LedgerBounded DEF RecountInv
<1>5. f \in [Jobs -> Nat]
  BY <1>4
<1>6. \A j \in Jobs : A[j] \subseteq U /\ f[j] <= Cardinality(A[j])
  BY <1>4 DEF OfJobIn
<1>7. \A i, j \in Jobs : i # j => A[i] \cap A[j] = {}
  BY DEF OfJobIn
<1>8. t[Jobs] \in Nat /\ t[Jobs] <= Cardinality(U)
  <2> HIDE DEF f, A, U
  <2> QED BY <1>2, <1>3, <1>5, <1>6, <1>7, SumBelow
<1> DEFINE bound ==
             Cardinality(Committed)
             + MapThenSumSet(LAMBDA w : Cardinality(Batch(w)), Workers)
             + MaxPoll * Cardinality({w \in Workers : pc[w] = "gone"})
<1>9. bound \in Nat /\ Cardinality(U) <= bound
  BY <1>1, PartsBounded
<1>10. Cardinality(U) \in Nat
  BY <1>2, FS_CardinalityType
<1>11. MapThenSumSet(Ledger, Jobs) <= bound
  <2> HIDE DEF bound, U
  <2> QED BY <1>3, <1>8, <1>9, <1>10
<1> QED BY <1>11 DEF RecountAtMostOneBatch

(* A death re-counts at most one batch (worker.go:40-42): for any number   *)
(* of processes, partitions, jobs and faults, the reports hold no more     *)
(* than the committed events, the batches in hand and one batch of each    *)
(* process that ended, as long as partitions move only from dead members   *)
(* and no two processes report under one identity.                         *)
THEOREM DeathsRecountOneBatch ==
    ASSUME MaxRevokes = 0, OneIdentityEach,
           IsFiniteSet(Workers), IsFiniteSet(WorkerIds), IsFiniteSet(Jobs)
    PROVE  Spec => []RecountAtMostOneBatch
<1>1. Init => CommitInv /\ CurrentInv /\ RecountInv /\ IsFiniteSet(progress)
  BY CommitInit, CurrentInit, RecountInit, AccountInit DEF AccountInv
<1>2. TypeInv /\ CommitInv /\ [Next]_vars => CommitInv'
  BY CommitStep
<1>3. TypeInv /\ CommitInv /\ CurrentInv /\ [Next]_vars => CurrentInv'
  BY CurrentStep
<1>4. IsFiniteSet(progress) /\ [Next]_vars => IsFiniteSet(progress)'
  BY ReportsStayFinite
<1>5. TypeInv /\ ReportInv /\ CurrentInv /\ RecountInv /\ [Next]_vars
        => RecountInv'
  <2> SUFFICES ASSUME TypeInv, ReportInv, CurrentInv, RecountInv, [Next]_vars
               PROVE  RecountInv'
    OBVIOUS
  <2>1. PICK C \in Shares, G \in Shares : Recounted(C, G)
    BY DEF RecountInv
  <2>2. PICK D \in Shares, H \in Shares : Recounted(D, H)'
    BY <2>1, RecountStep DEF RecountInv
  <2> QED BY <2>2, BehindStep, SmallStep DEF RecountInv, TypeInv
<1>6. TypeInv /\ IsFiniteSet(progress) /\ RecountInv => RecountAtMostOneBatch
  BY RecountBounded DEF TypeInv
<1> QED
  BY <1>1, <1>2, <1>3, <1>4, <1>5, <1>6, TypeInvariance, ReportInvariance, PTL
  DEF Spec
=============================================================================
