------------------------ MODULE ImportServiceProofs ------------------------
(***************************************************************************)
(* Proofs about ImportService, for any uploads, files, buffer and faults:  *)
(* its types, CompletedIsFinal, NoOrphanParsing, EndIsRecordedIfPossible,  *)
(* LossFailsAnImport, and the action property TerminalIsFinal.             *)
(*                                                                         *)
(* The invariant has a part per upload (Job: its counters are those of the *)
(* rows read, its place says how far file and job row are, and what it     *)
(* left when it ended) and a part for the publisher they share (Accounted, *)
(* Flushed: each published event is buffered, delivered or rejected, and   *)
(* an import behind its flush has none in the buffer).                     *)
(***************************************************************************)
EXTENDS ImportService, FiniteSetTheorems, TLAPS

(* The valid rows among the first n.                                       *)
SeenUpTo(j, n) == {i \in ValidRows(j) : i <= n}

Past == {"final", "process", "await", "complete"}

(* process()'s counters are those of the rows handed over.                 *)
Counted(j) ==
    /\ mem[j].published = Cardinality(SeenUpTo(j, row[j]))
    /\ mem[j].invalid + mem[j].published = row[j]

(* What the place of a goroutine says about its file and its job row.      *)
Place(j) ==
    /\ pc[j] = "new" <=> db[j].status = "none"
    /\ pc[j] = "produce" => row[j] < Len(File[j]) /\ File[j][row[j] + 1]
    /\ pc[j] \in {"flush", "drained"} \cup Past => row[j] = Len(File[j])
    /\ pc[j] \in Past \ {"final"} => /\ db[j].invalid = mem[j].invalid
                                     /\ db[j].published = mem[j].published
    /\ pc[j] = "await" => db[j].status = "processing"
    /\ pc[j] = "complete" => Confirmed(j)
    /\ Terminal(db[j].status) => pc[j] = "done"
    /\ ~up => pc[j] \in Gone

(* What a goroutine that is over left behind: EndIsRecordedIfPossible and  *)
(* NoOrphanParsing, job by job.                                            *)
Ended(j) ==
    /\ pc[j] = "done" /\ ~Terminal(db[j].status) =>
           j \in refused \/ expired[j] \/ crashes > 0
    /\ up /\ db[j].status = "parsing" /\ pc[j] = "done" =>
           j \in refused \/ expired[j]

Complete(j) ==
    db[j].status = "completed" =>
        /\ db[j].invalid + db[j].published = Len(File[j])
        /\ db[j].published = Cardinality(ValidRows(j))
        /\ db[j].confirmed >= db[j].published

Job(j) == Counted(j) /\ Place(j) /\ Ended(j) /\ Complete(j)

(* No published event is forgotten by the producer.                        *)
Accounted ==
    \A j \in Jobs : \A i \in SeenUpTo(j, row[j]) :
        <<j, i>> \in buffer \cup delivered \cup rejected

(* An import behind its flush has nothing in the buffer.                   *)
Flushed ==
    \A j \in Jobs : pc[j] \in Past \cup {"drained"} /\ ~expired[j] =>
        EventsOf(j) \cap buffer = {}

IInv ==
    /\ TypeOK /\ IsFiniteSet(buffer)
    /\ \A j \in Jobs : Job(j)
    /\ Accounted /\ Flushed /\ LossFailsAnImport

-----------------------------------------------------------------------------
(* Rows of a file.                                                         *)
LEMMA SeenFinite ==
    ASSUME NEW j \in Jobs, NEW n \in Nat
    PROVE  /\ IsFiniteSet(SeenUpTo(j, n)) /\ Cardinality(SeenUpTo(j, n)) \in Nat
           /\ SeenUpTo(j, 0) = {} /\ Cardinality(SeenUpTo(j, 0)) = 0
           /\ SeenUpTo(j, Len(File[j])) = ValidRows(j)
<1>1. Len(File[j]) \in Nat
  BY ConstantsAssumption
<1>2. IsFiniteSet(1..Len(File[j]))
  BY <1>1, FS_Interval
<1>3. SeenUpTo(j, n) \subseteq 1..Len(File[j])
  BY DEF SeenUpTo, ValidRows
<1>4. IsFiniteSet(SeenUpTo(j, n)) /\ Cardinality(SeenUpTo(j, n)) \in Nat
  BY <1>2, <1>3, FS_Subset, FS_CardinalityType
<1>5. SeenUpTo(j, 0) = {}
  BY <1>1 DEF SeenUpTo, ValidRows
<1>6. SeenUpTo(j, Len(File[j])) = ValidRows(j)
  BY <1>1 DEF SeenUpTo, ValidRows
<1> QED
  BY <1>4, <1>5, <1>6, FS_EmptySet

LEMMA SeenNext ==
    ASSUME NEW j \in Jobs, NEW n \in Nat, n < Len(File[j])
    PROVE  /\ ~File[j][n + 1] => SeenUpTo(j, n + 1) = SeenUpTo(j, n)
           /\ File[j][n + 1] =>
                /\ SeenUpTo(j, n + 1) = SeenUpTo(j, n) \cup {n + 1}
                /\ Cardinality(SeenUpTo(j, n + 1)) = Cardinality(SeenUpTo(j, n)) + 1
                /\ <<j, n + 1>> \in Events
<1>1. Len(File[j]) \in Nat /\ n + 1 \in 1..Len(File[j])
  BY ConstantsAssumption
<1>2. ASSUME ~File[j][n + 1] PROVE SeenUpTo(j, n + 1) = SeenUpTo(j, n)
  BY <1>1, <1>2 DEF SeenUpTo, ValidRows
<1>3. ASSUME File[j][n + 1]
      PROVE  SeenUpTo(j, n + 1) = SeenUpTo(j, n) \cup {n + 1}
  BY <1>1, <1>3 DEF SeenUpTo, ValidRows
<1>4. n + 1 \notin SeenUpTo(j, n)
  BY DEF SeenUpTo
<1>5. ASSUME File[j][n + 1]
      PROVE  Cardinality(SeenUpTo(j, n + 1)) = Cardinality(SeenUpTo(j, n)) + 1
  BY <1>3, <1>4, <1>5, SeenFinite, FS_AddElement
<1>6. ASSUME File[j][n + 1] PROVE <<j, n + 1>> \in Events
  BY <1>1, <1>6 DEF Events, EventsOf, ValidRows
<1> QED
  BY <1>2, <1>3, <1>5, <1>6

(* The events of different uploads are different.                          *)
LEMMA EventOfJob ==
    ASSUME NEW j \in Jobs, NEW k \in Jobs, NEW i
    PROVE  /\ <<j, i>> \in EventsOf(k) => k = j
           /\ <<j, i>> \in EventsOf(j) <=> i \in ValidRows(j)
BY DEF EventsOf

-----------------------------------------------------------------------------
(* A step of upload j leaves the goroutines and rows of the others alone.  *)
Others(j) ==
    /\ \A k \in Jobs \ {j} :
          /\ db'[k] = db[k] /\ pc'[k] = pc[k] /\ row'[k] = row[k]
          /\ mem'[k] = mem[k] /\ expired'[k] = expired[k]
    /\ up' = up /\ crashes' = crashes
    /\ refused \subseteq refused'

Effect(j) == TypeOK' /\ IsFiniteSet(buffer') /\ Others(j) /\ Job(j)'

LEMMA OtherJobs ==
    ASSUME IInv, NEW j \in Jobs, Others(j), Job(j)', NEW k \in Jobs
    PROVE  Job(k)'
<1>1. CASE k = j
  BY <1>1
<1>2. CASE k # j
  BY <1>2 DEF IInv, Others, Job, Counted, Place, Ended, Complete, Confirmed
<1> QED
  BY <1>1, <1>2

(* Steps that only move a goroutine on.                                    *)
Moves(j, p) ==
    /\ Goto(j, p)
    /\ UNCHANGED <<db, up, memVars, expired, buffer, delivered, rejected,
                   refused, expiries, crashes>>
    /\ firstErr' \in BOOLEAN
    /\ faults' = faults \/ Fault

LEMMA MoveStep ==
    ASSUME IInv, NEW j \in Jobs, up, pc[j] \notin Gone, NEW p, Moves(j, p),
           \/ p \in {"fail", "stream"}
           \/ p = "produce" /\ row[j] < Len(File[j]) /\ File[j][row[j] + 1]
           \/ p = "flush" /\ row[j] = Len(File[j])
           \/ p = "drained" /\ pc[j] = "flush"
           \/ p = "final" /\ pc[j] = "drained"
           \/ p = "complete" /\ pc[j] = "await" /\ Confirmed(j)
    PROVE  Effect(j)
<1>1. faults' \in 0..MaxFaults
  BY ConstantsAssumption DEF IInv, TypeOK, Moves, Fault
<1>2. TypeOK' /\ IsFiniteSet(buffer') /\ Others(j)
  BY <1>1 DEF IInv, TypeOK, Moves, Goto, Others, memVars, kafkaVars
<1>3. /\ pc'[j] = p /\ db'[j] = db[j] /\ mem'[j] = mem[j] /\ row'[j] = row[j]
      /\ expired'[j] = expired[j] /\ up' = up
  BY DEF IInv, TypeOK, Moves, Goto, memVars
<1>4. Job(j)
  BY DEF IInv
<1>5. Counted(j)' /\ Complete(j)'
  BY <1>3, <1>4 DEF Job, Counted, Complete
<1>6. Place(j)' /\ Ended(j)'
  BY <1>3, <1>4 DEF Job, Place, Ended, Gone, Past, Terminal, Confirmed
<1> QED
  BY <1>2, <1>5, <1>6 DEF Effect, Job

LEMMA Decided ==
    ASSUME IInv, NEW j \in Jobs, pc[j] = "await"
    PROVE  Decision(j) = IF Confirmed(j) THEN "complete" ELSE "fail"
BY DEF IInv, Job, Place, Decision

LEMMA PlainSteps ==
    ASSUME IInv, NEW j \in Jobs,
           \/ BadFile(j) \/ StreamExpired(j) \/ ValidRow(j) \/ Flush(j)
           \/ Drained(j) \/ FlushReturns(j) \/ AwaitTick(j) \/ AwaitExpired(j)
    PROVE  Effect(j)
<1> USE DEF At, Moves, boundVars, kafkaVars, Gone
<1>b. firstErr \in BOOLEAN
  BY DEF IInv, TypeOK
<1>1. CASE BadFile(j)
  <2>1. Moves(j, "fail")
    BY <1>b, <1>1 DEF BadFile, Fault
  <2> QED
    BY <1>1, <2>1, MoveStep DEF BadFile
<1>2. CASE StreamExpired(j)
  <2>1. Moves(j, "fail")
    BY <1>b, <1>2 DEF StreamExpired
  <2> QED
    BY <1>2, <2>1, MoveStep DEF StreamExpired
<1>3. CASE ValidRow(j)
  <2>1. Moves(j, "fail") \/ Moves(j, "produce")
    BY <1>b, <1>3 DEF ValidRow
  <2>2. up /\ pc[j] = "stream" /\ row[j] < Len(File[j]) /\ File[j][row[j] + 1]
    BY <1>3 DEF ValidRow, Streaming
  <2> HIDE DEF Moves
  <2> QED
    BY <2>1, <2>2, MoveStep
<1>4. CASE Flush(j)
  <2>1. Moves(j, "flush")
    BY <1>b, <1>4 DEF Flush
  <2> QED
    BY <1>4, <2>1, MoveStep DEF Flush
<1>5. CASE Drained(j)
  <2>1. Moves(j, "drained")
    BY <1>b, <1>5 DEF Drained
  <2> QED
    BY <1>5, <2>1, MoveStep DEF Drained
<1>6. CASE FlushReturns(j)
  <2>1. Moves(j, "fail") \/ Moves(j, "final")
    BY <1>6 DEF FlushReturns
  <2>2. up /\ pc[j] = "drained"
    BY <1>6 DEF FlushReturns
  <2> HIDE DEF Moves
  <2> QED
    BY <2>1, <2>2, MoveStep
<1>7. CASE AwaitTick(j)
  <2>1. up /\ pc[j] = "await"
    BY <1>7 DEF AwaitTick
  <2>2. \/ Moves(j, "fail")
        \/ Moves(j, "complete") /\ Confirmed(j)
    BY <1>b, <1>7, <2>1, Decided DEF AwaitTick
  <2> HIDE DEF Moves
  <2> QED
    BY <2>1, <2>2, MoveStep
<1>8. CASE AwaitExpired(j)
  <2>1. Moves(j, "fail")
    BY <1>b, <1>8 DEF AwaitExpired
  <2> QED
    BY <1>8, <2>1, MoveStep DEF AwaitExpired
<1> QED
  BY <1>1, <1>2, <1>3, <1>4, <1>5, <1>6, <1>7, <1>8

(* The first write of a row.                                               *)
LEMMA StartStep ==
    ASSUME IInv, NEW j \in Jobs, StartImport(j)
    PROVE  Effect(j)
<1>1. TypeOK' /\ IsFiniteSet(buffer') /\ Others(j)
  BY DEF IInv, TypeOK, StartImport, Goto, Others, memVars, kafkaVars,
     boundVars, Statuses
<1>2. /\ pc'[j] = "stream" /\ db'[j] = [db[j] EXCEPT !.status = "parsing"]
      /\ mem'[j] = mem[j] /\ row'[j] = row[j] /\ up' /\ pc[j] = "new"
  BY DEF IInv, TypeOK, StartImport, Goto, memVars, At
<1>3. db'[j].status = "parsing" /\ Job(j)
  BY <1>2 DEF IInv, TypeOK
<1>4. Job(j)'
  BY <1>2, <1>3 DEF Job, Counted, Place, Ended, Complete, Past, Terminal
<1> QED
  BY <1>1, <1>4 DEF Effect

LEMMA InvalidStep ==
    ASSUME IInv, NEW j \in Jobs, InvalidRow(j)
    PROVE  Effect(j)
<1>1. /\ pc[j] = "stream" /\ row[j] \in Nat /\ row[j] < Len(File[j])
      /\ Len(File[j]) \in Nat
      /\ ~File[j][row[j] + 1]
      /\ mem[j] \in [invalid : Nat, published : Nat]
      /\ mem[j].invalid + 1 \in Nat /\ mem[j].published + 1 \in Nat
  <2>1. pc[j] = "stream" /\ row[j] < Len(File[j]) /\ ~File[j][row[j] + 1]
    BY DEF InvalidRow, Streaming, At
  <2>2. row[j] \in Nat /\ mem[j] \in [invalid : Nat, published : Nat]
    BY DEF IInv, TypeOK
  <2>3. Len(File[j]) \in Nat
    BY ConstantsAssumption
  <2> QED
    BY <2>1, <2>2, <2>3
<1>2. /\ pc' = pc /\ db' = db /\ up' = up /\ expired' = expired
      /\ refused' = refused /\ crashes' = crashes /\ buffer' = buffer
      /\ row' = [row EXCEPT ![j] = row[j] + 1]
      /\ mem' = [mem EXCEPT ![j].invalid = mem[j].invalid + 1]
  BY DEF InvalidRow, kafkaVars, boundVars
<1>3. TypeOK' /\ IsFiniteSet(buffer') /\ Others(j)
  <2>1. row' \in [Jobs -> Nat] /\ mem' \in [Jobs -> [invalid : Nat, published : Nat]]
    BY <1>1, <1>2 DEF IInv, TypeOK
  <2>2. ASSUME NEW k \in Jobs PROVE row'[k] <= Len(File[k])
    <3>1. CASE k = j
      BY <1>1, <1>2, <3>1 DEF IInv, TypeOK
    <3>2. CASE k # j
      BY <1>2, <3>2 DEF IInv, TypeOK
    <3> QED
      BY <3>1, <3>2
  <2>3. Others(j)
    BY <1>2 DEF Others, IInv, TypeOK
  <2> QED
    BY <1>2, <2>1, <2>2, <2>3 DEF IInv, TypeOK, InvalidRow, kafkaVars, boundVars
<1>4. /\ row'[j] = row[j] + 1 /\ mem'[j].invalid = mem[j].invalid + 1
      /\ mem'[j].published = mem[j].published
  BY <1>1, <1>2 DEF IInv, TypeOK
<1>5. Counted(j)'
  <2>1. SeenUpTo(j, row[j] + 1) = SeenUpTo(j, row[j])
    BY <1>1, SeenNext
  <2> QED
    BY <1>1, <1>4, <2>1 DEF IInv, Job, Counted
<1>6. Place(j)' /\ Ended(j)' /\ Complete(j)'
  BY <1>1, <1>2 DEF IInv, Job, Place, Ended, Complete, Past, Terminal, Gone
<1> QED
  BY <1>3, <1>5, <1>6 DEF Effect, Job

(* A valid row is counted when its event went to the producer.             *)
LEMMA CountStep ==
    ASSUME IInv, NEW j \in Jobs, up, pc[j] = "produce", CountPublished(j),
           UNCHANGED <<db, up, expired, delivered, refused, boundVars>>,
           firstErr' \in BOOLEAN,
           \/ /\ Cardinality(buffer) < MaxBuffered
              /\ buffer' = buffer \cup {<<j, row[j] + 1>>}
              /\ UNCHANGED rejected
           \/ /\ rejected' = rejected \cup {<<j, row[j] + 1>>}
              /\ UNCHANGED buffer
    PROVE  Effect(j)
<1>1. /\ row[j] \in Nat /\ row[j] < Len(File[j]) /\ File[j][row[j] + 1]
      /\ Len(File[j]) \in Nat
      /\ mem[j] \in [invalid : Nat, published : Nat]
      /\ mem[j].invalid + 1 \in Nat /\ mem[j].published + 1 \in Nat
  BY ConstantsAssumption DEF IInv, TypeOK, Job, Place
<1>2. /\ <<j, row[j] + 1>> \in Events
      /\ Cardinality(SeenUpTo(j, row[j] + 1)) = Cardinality(SeenUpTo(j, row[j])) + 1
  BY <1>1, SeenNext
<1>3. /\ row' = [row EXCEPT ![j] = row[j] + 1]
      /\ mem' = [mem EXCEPT ![j].published = mem[j].published + 1]
      /\ \E p \in {"report", "stream"} : pc' = [pc EXCEPT ![j] = p]
  BY DEF CountPublished, Goto
<1>4. /\ buffer' \subseteq Events /\ rejected' \subseteq Events
      /\ IsFiniteSet(buffer') /\ Cardinality(buffer') <= MaxBuffered
  <2>1. CASE UNCHANGED buffer /\ rejected' = rejected \cup {<<j, row[j] + 1>>}
    BY <1>2, <2>1 DEF IInv, TypeOK
  <2>2. CASE /\ Cardinality(buffer) < MaxBuffered
             /\ buffer' = buffer \cup {<<j, row[j] + 1>>}
             /\ UNCHANGED rejected
    <3>1. IsFiniteSet(buffer) /\ Cardinality(buffer) \in Nat
      BY FS_CardinalityType DEF IInv
    <3>2. IsFiniteSet(buffer') /\ Cardinality(buffer') <= Cardinality(buffer) + 1
      <4>1. /\ IsFiniteSet(buffer')
            /\ Cardinality(buffer') \in {Cardinality(buffer), Cardinality(buffer) + 1}
        BY <2>2, <3>1, FS_AddElement
      <4> QED
        BY <3>1, <4>1
    <3>3. Cardinality(buffer') \in Nat /\ MaxBuffered \in Nat
      BY <3>2, FS_CardinalityType, ConstantsAssumption
    <3>4. Cardinality(buffer') <= MaxBuffered
      BY <2>2, <3>1, <3>2, <3>3
    <3> QED
      BY <1>2, <2>2, <3>2, <3>4 DEF IInv, TypeOK
  <2> QED
    BY <2>1, <2>2
<1>5. TypeOK' /\ Others(j)
  <2>1. row' \in [Jobs -> Nat] /\ mem' \in [Jobs -> [invalid : Nat, published : Nat]]
    BY <1>1, <1>3 DEF IInv, TypeOK
  <2>3. ASSUME NEW k \in Jobs PROVE row'[k] <= Len(File[k])
    <3>1. CASE k = j
      BY <1>1, <1>3, <3>1 DEF IInv, TypeOK
    <3>2. CASE k # j
      BY <1>3, <3>2 DEF IInv, TypeOK
    <3> QED
      BY <3>1, <3>2
  <2>2. Others(j)
    BY <1>3 DEF Others, IInv, TypeOK, boundVars
  <2> QED
    BY <1>3, <1>4, <2>1, <2>2, <2>3 DEF IInv, TypeOK, boundVars
<1>6. /\ row'[j] = row[j] + 1 /\ mem'[j].invalid = mem[j].invalid
      /\ mem'[j].published = mem[j].published + 1
      /\ pc'[j] \in {"report", "stream"} /\ db'[j] = db[j]
  BY <1>1, <1>3 DEF IInv, TypeOK
<1>7. Counted(j)'
  BY <1>1, <1>2, <1>6 DEF IInv, Job, Counted
<1>8. Place(j)' /\ Ended(j)' /\ Complete(j)'
  BY <1>6 DEF IInv, Job, Place, Ended, Complete, Past, Terminal, Gone
<1> QED
  BY <1>4, <1>5, <1>7, <1>8 DEF Effect, Job

LEMMA PublishSteps ==
    ASSUME IInv, NEW j \in Jobs, Publish(j) \/ BlockedPublishExpires(j)
    PROVE  Effect(j)
<1>1. CASE Publish(j)
  BY <1>1, CountStep DEF Publish, At, IInv, TypeOK
<1>2. CASE BlockedPublishExpires(j)
  BY <1>2, CountStep DEF BlockedPublishExpires, At
<1> QED
  BY <1>1, <1>2

(* Writes to the job row: what each of them can leave there.               *)
LEMMA CounterSteps ==
    ASSUME IInv, NEW j \in Jobs, UpdateProgress(j) \/ UpdateProgressFails(j)
    PROVE  Effect(j)
<1>1. /\ up /\ pc[j] \in {"report", "final"}
      /\ UNCHANGED <<up, memVars, expired, kafkaVars, refused, crashes, expiries>>
      /\ db' = db \/ WriteCounters(j)
      /\ \E p \in {"stream", "complete", "process", "fail"} :
            /\ Goto(j, p)
            /\ p \in {"complete", "process"} => pc[j] = "final" /\ WriteCounters(j)
            /\ p = "complete" => mem[j].published = 0
  BY DEF UpdateProgress, UpdateProgressFails, At, FaultUnlessExpired, Fault,
     boundVars
<1>2. faults' \in 0..MaxFaults
  BY ConstantsAssumption
     DEF IInv, TypeOK, UpdateProgress, UpdateProgressFails, FaultUnlessExpired,
         Fault, boundVars
<1>3. mem[j].invalid \in Nat /\ mem[j].published \in Nat /\ db[j].confirmed \in Nat
  BY DEF IInv, TypeOK
<1>4. /\ db' \in [Jobs -> [status : Statuses, invalid : Nat, published : Nat,
                          confirmed : Nat]]
      /\ \A k \in Jobs \ {j} : db'[k] = db[k]
      /\ db'[j].status = db[j].status /\ db'[j].confirmed = db[j].confirmed
      /\ WriteCounters(j) => /\ db'[j].invalid = mem[j].invalid
                             /\ db'[j].published = mem[j].published
  <2>1. CASE db' = db
    BY <2>1 DEF IInv, TypeOK, WriteCounters
  <2>2. CASE WriteCounters(j)
    <3> DEFINE R == [status : Statuses, invalid : Nat, published : Nat,
                     confirmed : Nat]
    <3>1. db \in [Jobs -> R] /\ db[j] \in R
      BY DEF IInv, TypeOK
    <3>2. \A k \in Jobs \ {j} : db'[k] = db[k]
      BY <2>2, <3>1 DEF WriteCounters
    <3>3. /\ db'[j].invalid = mem[j].invalid
          /\ db'[j].published = mem[j].published
          /\ db'[j].status = db[j].status /\ db'[j].confirmed = db[j].confirmed
      BY <2>2, <3>1 DEF WriteCounters
    <3>4. db' \in [Jobs -> R]
      BY <1>3, <2>2, <3>1 DEF WriteCounters
    <3> QED
      BY <3>2, <3>3, <3>4
  <2> QED
    BY <1>1, <2>1, <2>2
<1>5. PICK p \in {"stream", "complete", "process", "fail"} :
          /\ Goto(j, p)
          /\ p \in {"complete", "process"} => pc[j] = "final" /\ WriteCounters(j)
          /\ p = "complete" => mem[j].published = 0
  BY <1>1
<1>6. TypeOK' /\ IsFiniteSet(buffer') /\ Others(j)
  <2>1. Others(j)
    BY <1>1, <1>4, <1>5 DEF Others, IInv, TypeOK, Goto, memVars
  <2> QED
    BY <1>1, <1>2, <1>4, <1>5, <2>1 DEF IInv, TypeOK, Goto, memVars, kafkaVars
<1>7. /\ pc'[j] = p /\ mem' = mem /\ row' = row /\ up' = up
      /\ refused' = refused /\ expired' = expired /\ crashes' = crashes
  BY <1>1, <1>5 DEF IInv, TypeOK, Goto, memVars
<1>8. Job(j) /\ ~Terminal(db[j].status) /\ db[j].status # "none"
  BY <1>1 DEF IInv, Job, Place
<1>9. Counted(j)' /\ Ended(j)' /\ Complete(j)'
  BY <1>4, <1>7, <1>8 DEF Job, Counted, Ended, Complete, Terminal
<1>10. Place(j)'
  <2>1. p = "complete" => db'[j].confirmed >= db'[j].published
    BY <1>3, <1>4, <1>5
  <2> QED
    BY <1>1, <1>4, <1>5, <1>7, <1>8, <2>1
       DEF Job, Place, Past, Terminal, Confirmed, Gone
<1> QED
  BY <1>6, <1>9, <1>10 DEF Effect, Job

LEMMA StatusSteps ==
    ASSUME IInv, NEW j \in Jobs, SetStatus(j) \/ SetStatusFails(j)
    PROVE  Effect(j)
<1> DEFINE Target == TargetOf(pc[j])
<1>1. /\ up /\ pc[j] \in {"process", "complete", "fail"}
      /\ UNCHANGED <<up, memVars, expired, kafkaVars, crashes, expiries>>
      /\ refused' \in {refused, refused \cup {j}}
      /\ db' = db \/ WriteStatus(j)
  BY DEF SetStatus, SetStatusFails, FaultUnlessExpired, Fault, boundVars
<1>2. faults' \in 0..MaxFaults
  BY ConstantsAssumption
     DEF IInv, TypeOK, SetStatus, SetStatusFails, FaultUnlessExpired, Fault,
         boundVars
<1>3. \/ Target = "processing" /\ pc[j] = "process"
      \/ Target = "completed" /\ pc[j] = "complete"
      \/ Target = "failed" /\ pc[j] = "fail"
  BY <1>1 DEF TargetOf
<1>4. /\ db' \in [Jobs -> [status : Statuses, invalid : Nat, published : Nat,
                          confirmed : Nat]]
      /\ \A k \in Jobs \ {j} : db'[k] = db[k]
      /\ db'[j].status = db[j].status \/ db'[j].status = Target
      /\ WriteStatus(j) => db'[j].status = Target
      /\ db'[j].invalid = db[j].invalid /\ db'[j].published = db[j].published
      /\ db'[j].confirmed = db[j].confirmed
  <2>1. Target \in Statuses
    BY <1>3 DEF Statuses
  <2> HIDE DEF Target
  <2>2. CASE db' = db
    BY <2>2 DEF IInv, TypeOK, WriteStatus, Target
  <2>3. CASE db' = [db EXCEPT ![j].status = Target]
    BY <2>1, <2>3 DEF IInv, TypeOK
  <2> QED
    BY <1>1, <2>2, <2>3 DEF WriteStatus, Target
<1>5. \/ /\ pc' = [pc EXCEPT ![j] = "await"]
         /\ pc[j] = "process" /\ WriteStatus(j)
      \/ /\ pc' = [pc EXCEPT ![j] = "fail"]
         /\ pc[j] = "process"
      \/ /\ pc' = [pc EXCEPT ![j] = "done"]
         /\ pc[j] \in {"complete", "fail"}
         /\ WriteStatus(j) \/ expired[j] \/ j \in refused'
  BY <1>1 DEF SetStatus, SetStatusFails, Goto
<1>6. TypeOK' /\ IsFiniteSet(buffer') /\ Others(j)
  <2>1. pc' \in [Jobs -> {"new", "stream", "produce", "report", "flush",
                        "drained", "final", "process", "await", "complete",
                        "fail", "done"}]
    BY <1>5 DEF IInv, TypeOK
  <2>2. Others(j)
    BY <1>1, <1>4, <1>5 DEF Others, IInv, TypeOK, memVars
  <2>3. refused' \subseteq Jobs
    BY <1>1 DEF IInv, TypeOK
  <2> QED
    BY <1>1, <1>2, <1>4, <2>1, <2>2, <2>3 DEF IInv, TypeOK, memVars, kafkaVars
<1>7. /\ mem' = mem /\ row' = row /\ up' = up
      /\ expired' = expired /\ crashes' = crashes
  BY <1>1 DEF memVars
<1>8. Job(j) /\ ~Terminal(db[j].status) /\ db[j].status # "none"
  BY <1>1 DEF IInv, Job, Place
<1>9. Counted(j)'
  BY <1>7, <1>8 DEF Job, Counted
<1> HIDE DEF Target
<1>10. pc'[j] \in {"await", "fail", "done"}
  BY <1>5 DEF IInv, TypeOK
<1>11. Ended(j)'
  <2>1. pc'[j] = "done" =>
           /\ pc[j] \in {"complete", "fail"}
           /\ WriteStatus(j) \/ expired[j] \/ j \in refused'
    BY <1>5 DEF IInv, TypeOK
  <2> QED
    BY <1>3, <1>4, <1>7, <2>1 DEF Ended, Terminal
<1>12. Place(j)'
  <2>1. pc'[j] = "await" => Target = "processing" /\ WriteStatus(j) /\ pc[j] = "process"
    BY <1>3, <1>5 DEF IInv, TypeOK
  <2>2. pc'[j] = "fail" => Target = "processing"
    BY <1>3, <1>5 DEF IInv, TypeOK
  <2> QED
    BY <1>1, <1>3, <1>4, <1>7, <1>8, <1>10, <2>1, <2>2
       DEF Job, Place, Past, Terminal, Gone
<1>13. Complete(j)'
  <2>1. SUFFICES ASSUME db'[j].status = "completed", pc[j] = "complete"
                 PROVE  Complete(j)'
    BY <1>3, <1>4, <1>8 DEF Complete, Terminal
  <2>2. /\ row[j] = Len(File[j]) /\ db[j].invalid = mem[j].invalid
        /\ db[j].published = mem[j].published /\ Confirmed(j)
    BY <2>1, <1>8 DEF Job, Place, Past
  <2>3. mem[j].published = Cardinality(ValidRows(j))
    BY <1>8, <2>2, SeenFinite DEF Job, Counted
  <2>4. mem[j].invalid + mem[j].published = Len(File[j])
    BY <1>8, <2>2 DEF Job, Counted
  <2> QED
    BY <1>4, <2>2, <2>3, <2>4 DEF Complete, Confirmed
<1> QED
  BY <1>6, <1>9, <1>11, <1>12, <1>13 DEF Effect, Job

LEMMA FoldStep ==
    ASSUME IInv, NEW j \in Jobs, Fold(j)
    PROVE  Effect(j)
<1>1. /\ db' = [db EXCEPT ![j].confirmed = db[j].confirmed + 1]
      /\ db[j].status \in {"parsing", "processing"}
      /\ UNCHANGED <<up, pc, memVars, expired, kafkaVars, refused, boundVars>>
  BY DEF Fold
<1>2. /\ db[j].confirmed \in Nat /\ db[j].confirmed + 1 \in Nat
      /\ db[j].published \in Nat
  BY DEF IInv, TypeOK
<1>3. /\ db' \in [Jobs -> [status : Statuses, invalid : Nat, published : Nat,
                          confirmed : Nat]]
      /\ \A k \in Jobs \ {j} : db'[k] = db[k]
      /\ db'[j].status = db[j].status /\ db'[j].confirmed = db[j].confirmed + 1
      /\ db'[j].invalid = db[j].invalid /\ db'[j].published = db[j].published
  BY <1>1, <1>2 DEF IInv, TypeOK
<1>4. TypeOK' /\ IsFiniteSet(buffer') /\ Others(j)
  BY <1>1, <1>3 DEF IInv, TypeOK, Others, memVars, kafkaVars, boundVars
<1>5. Confirmed(j) => Confirmed(j)'
  BY <1>2, <1>3 DEF Confirmed
<1>6. Job(j)'
  BY <1>1, <1>3, <1>5
     DEF IInv, Job, Counted, Place, Ended, Complete, Terminal, memVars, boundVars
<1> QED
  BY <1>4, <1>6 DEF Effect

LEMMA ExpireStep ==
    ASSUME IInv, NEW j \in Jobs, Expire(j)
    PROVE  Effect(j)
<1>1. expiries' \in 0..MaxExpiries
  BY ConstantsAssumption DEF IInv, TypeOK, Expire
<1>2. TypeOK' /\ IsFiniteSet(buffer') /\ Others(j)
  BY <1>1 DEF IInv, TypeOK, Others, Expire, memVars, kafkaVars
<1>3. /\ db' = db /\ pc' = pc /\ row' = row /\ mem' = mem /\ up' = up
      /\ crashes' = crashes /\ refused' = refused /\ expired'[j]
  BY DEF IInv, TypeOK, Expire, memVars
<1>4. Job(j)'
  BY <1>3 DEF IInv, Job, Counted, Place, Ended, Complete, Confirmed
<1> QED
  BY <1>2, <1>4 DEF Effect

(* Every step of an upload: its own part of the invariant, and the others'.*)
LEMMA UploadSteps ==
    ASSUME IInv, NEW j \in Jobs,
           StartImport(j) \/ JobStep(j) \/ Fold(j) \/ FaultStep(j)
    PROVE  Effect(j) /\ \A k \in Jobs : Job(k)'
<1>1. Effect(j)
  BY PlainSteps, StartStep, InvalidStep, PublishSteps, CounterSteps,
     StatusSteps, FoldStep, ExpireStep
     DEF JobStep, FaultStep, StreamStep, StoreStep, AwaitStep
<1> QED
  BY <1>1, OtherJobs DEF Effect

-----------------------------------------------------------------------------
(* What a step of upload j does to the publisher, and what it may conclude *)
(* from it.                                                                *)
Settled == Past \cup {"drained"}

Published(j) ==
    /\ delivered' = delivered /\ rejected \subseteq rejected'
    /\ rejected' = rejected \/ firstErr'
    /\ firstErr /\ ~firstErr' => pc'[j] = "fail"
    /\ \/ buffer' = buffer
       \/ buffer' = buffer \cup {<<j, row[j] + 1>>} /\ pc'[j] \notin Settled
    /\ row'[j] \in {row[j], row[j] + 1}
    /\ row'[j] # row[j] /\ File[j][row[j] + 1] =>
           <<j, row[j] + 1>> \in buffer' \cup rejected'
    /\ expired[j] => expired'[j]
    /\ pc'[j] \in Settled => pc[j] \in Settled \/ buffer = {} \/ expired[j]
    /\ pc'[j] \in Past => pc[j] \in Past \/ (pc[j] = "drained" /\ ~firstErr)

LEMMA PublishedSteps ==
    ASSUME IInv, NEW j \in Jobs,
           StartImport(j) \/ JobStep(j) \/ Fold(j) \/ FaultStep(j)
    PROVE  Published(j)
<1>t. pc \in [Jobs -> {"new", "stream", "produce", "report", "flush",
                       "drained", "final", "process", "await", "complete",
                       "fail", "done"}]
  BY DEF IInv, TypeOK
<1>r. row \in [Jobs -> Nat] /\ expired \in [Jobs -> BOOLEAN]
  BY DEF IInv, TypeOK
<1> USE <1>t, <1>r DEF Published, Settled, Past, Goto, At, memVars, kafkaVars
<1>1. CASE StartImport(j)
  BY <1>1 DEF StartImport
<1>2. CASE BadFile(j) \/ StreamExpired(j) \/ ValidRow(j) \/ Flush(j)
  BY <1>2 DEF BadFile, StreamExpired, ValidRow, Flush
<1>3. CASE InvalidRow(j)
  BY <1>3 DEF InvalidRow, Streaming
<1>4. CASE Publish(j)
  <2>1. /\ row' = [row EXCEPT ![j] = row[j] + 1]
        /\ \E p \in {"report", "stream"} : pc' = [pc EXCEPT ![j] = p]
    BY <1>4 DEF Publish, CountPublished
  <2> QED
    BY <1>4, <2>1 DEF Publish
<1>5. CASE BlockedPublishExpires(j)
  <2>1. /\ row' = [row EXCEPT ![j] = row[j] + 1]
        /\ \E p \in {"report", "stream"} : pc' = [pc EXCEPT ![j] = p]
    BY <1>5 DEF BlockedPublishExpires, CountPublished
  <2> QED
    BY <1>5, <2>1 DEF BlockedPublishExpires
<1>6. CASE UpdateProgress(j) \/ UpdateProgressFails(j)
  BY <1>6 DEF UpdateProgress, UpdateProgressFails
<1>7. CASE Drained(j)
  BY <1>7 DEF Drained
<1>8. CASE FlushReturns(j)
  BY <1>8 DEF FlushReturns
<1>9. CASE SetStatus(j) \/ SetStatusFails(j)
  BY <1>9 DEF SetStatus, SetStatusFails
<1>10. CASE AwaitTick(j) \/ AwaitExpired(j)
  BY <1>10, Decided DEF AwaitTick, AwaitExpired
<1>11. CASE Fold(j)
  BY <1>11 DEF Fold
<1>12. CASE Expire(j)
  BY <1>12 DEF Expire
<1> QED
  BY <1>1, <1>2, <1>3, <1>4, <1>5, <1>6, <1>7, <1>8, <1>9, <1>10, <1>11,
     <1>12 DEF JobStep, FaultStep, StreamStep, StoreStep, AwaitStep

(* An import that failed stays failed.                                     *)
LEMMA PaidStays ==
    ASSUME IInv, NEW j \in Jobs,
           StartImport(j) \/ JobStep(j) \/ Fold(j) \/ FaultStep(j),
           Paid(j)
    PROVE  Paid(j)'
<1>1. pc[j] \in {"fail", "done"} /\ db[j].status # "completed"
  BY DEF Paid, IInv, Job, Place, Terminal
<1>2. SetStatus(j) \/ SetStatusFails(j) \/ Fold(j) \/ Expire(j)
  BY <1>1 DEF StartImport, JobStep, FaultStep, StreamStep, StoreStep, AwaitStep,
     BadFile, StreamExpired, InvalidRow, ValidRow, Publish,
     BlockedPublishExpires, Flush, Drained, FlushReturns, UpdateProgress,
     UpdateProgressFails, AwaitTick, AwaitExpired, Streaming, At
<1>3. CASE Fold(j) \/ Expire(j)
  <2>1. pc' = pc /\ db'[j].status = db[j].status
    BY <1>3 DEF Fold, Expire, IInv, TypeOK
  <2> QED
    BY <2>1 DEF Paid
<1>4. CASE SetStatus(j) \/ SetStatusFails(j)
  <2>1. pc[j] = "fail" /\ (db' = db \/ WriteStatus(j)) /\ Goto(j, "done")
    BY <1>1, <1>4 DEF SetStatus, SetStatusFails
  <2>2. pc'[j] = "done" /\ db'[j].status \in {db[j].status, "failed"}
    BY <2>1 DEF Goto, WriteStatus, TargetOf, IInv, TypeOK
  <2> QED
    BY <1>1, <2>2 DEF Paid
<1> QED
  BY <1>2, <1>3, <1>4

LEMMA UploadLedger ==
    ASSUME IInv, NEW j \in Jobs,
           StartImport(j) \/ JobStep(j) \/ Fold(j) \/ FaultStep(j)
    PROVE  Accounted' /\ Flushed' /\ LossFailsAnImport'
<1>1. Effect(j) /\ Published(j)
  BY UploadSteps, PublishedSteps
<1>2. ASSUME NEW k \in Jobs, Paid(k) PROVE Paid(k)'
  <2>1. CASE k = j
    BY <1>2, <2>1, PaidStays
  <2>2. CASE k # j
    BY <1>1, <1>2, <2>2 DEF Effect, Others, Paid
  <2> QED
    BY <2>1, <2>2
<1>3. Accounted'
  <2>1. SUFFICES ASSUME NEW k \in Jobs, NEW i \in SeenUpTo(k, row'[k])
                 PROVE  <<k, i>> \in buffer' \cup delivered' \cup rejected'
    BY DEF Accounted, SeenUpTo, ValidRows
  <2>2. buffer \cup delivered \cup rejected
            \subseteq buffer' \cup delivered' \cup rejected'
    BY <1>1 DEF Published
  <2>3. CASE i \in SeenUpTo(k, row[k])
    BY <2>2, <2>3 DEF IInv, Accounted
  <2>4. CASE i \notin SeenUpTo(k, row[k])
    <3>1. k = j
      BY <1>1, <2>1, <2>4 DEF Effect, Others
    <3>2. i \in ValidRows(j) /\ i <= row'[j] /\ ~(i <= row[j])
      BY <2>1, <2>4, <3>1 DEF SeenUpTo
    <3>3. row[j] \in Nat /\ i \in Nat /\ row'[j] \in {row[j], row[j] + 1}
      BY <1>1, <3>2, ConstantsAssumption DEF IInv, TypeOK, ValidRows, Published
    <3>4. i = row[j] + 1 /\ row'[j] # row[j]
      BY <3>2, <3>3
    <3>5. File[j][row[j] + 1]
      BY <3>2, <3>4 DEF ValidRows
    <3> QED
      BY <1>1, <3>1, <3>4, <3>5 DEF Published
  <2> QED
    BY <2>3, <2>4
<1>4. Flushed'
  <2>1. SUFFICES ASSUME NEW k \in Jobs, pc'[k] \in Settled, ~expired'[k]
                 PROVE  EventsOf(k) \cap buffer' = {}
    BY DEF Flushed, Settled, EventsOf, ValidRows
  <2>2. EventsOf(k) \cap buffer = {}
    <3>1. CASE k = j
      BY <1>1, <2>1, <3>1 DEF Published, IInv, Flushed, Settled
    <3>2. CASE k # j
      BY <1>1, <2>1, <3>2 DEF Effect, Others, IInv, Flushed, Settled
    <3> QED
      BY <3>1, <3>2
  <2>3. CASE buffer' = buffer
    BY <2>2, <2>3
  <2>4. CASE buffer' = buffer \cup {<<j, row[j] + 1>>} /\ pc'[j] \notin Settled
    <3>1. k # j
      BY <2>1, <2>4
    <3>2. <<j, row[j] + 1>> \notin EventsOf(k)
      BY <3>1, EventOfJob
    <3> QED
      BY <2>2, <2>4, <3>2
  <2> QED
    BY <1>1, <2>3, <2>4 DEF Published
<1>5. LossFailsAnImport'
  <2>1. SUFFICES ASSUME crashes = 0
                 PROVE  /\ \A k \in Jobs :
                              PastFlush(k)' /\ ~(EventsOf(k) \subseteq delivered') =>
                                  \E l \in Jobs \ {k} : Paid(l)'
                        /\ rejected' # {} => firstErr' \/ \E l \in Jobs : Paid(l)'
    BY <1>1 DEF LossFailsAnImport, Effect, Others, EventsOf, ValidRows
  <2>2. LossFailsAnImport
    BY DEF IInv
  <2>3. ASSUME NEW k \in Jobs, PastFlush(k)', ~(EventsOf(k) \subseteq delivered')
        PROVE  \E l \in Jobs \ {k} : Paid(l)'
    <3>1. ~(EventsOf(k) \subseteq delivered)
      BY <1>1, <2>3 DEF Published
    <3>2. CASE PastFlush(k)
      BY <1>2, <2>1, <2>2, <3>1, <3>2 DEF LossFailsAnImport
    <3>3. CASE ~PastFlush(k)
      <4>1. pc'[k] \in Past /\ ~expired'[k]
        BY <2>3 DEF PastFlush, Past
      <4>2. k = j
        BY <1>1, <3>3, <4>1 DEF Effect, Others, PastFlush, Past
      <4>3. pc[j] = "drained" /\ ~firstErr /\ ~expired[j]
        BY <1>1, <3>3, <4>1, <4>2 DEF Published, PastFlush, Past
      <4>4. EventsOf(j) \cap buffer = {} /\ row[j] = Len(File[j])
        BY <4>3 DEF IInv, Flushed, Job, Place
      <4>5. SeenUpTo(j, row[j]) = ValidRows(j)
        BY <4>4, SeenFinite DEF IInv, TypeOK
      <4>6. EventsOf(j) \subseteq delivered \cup rejected
        BY <4>4, <4>5 DEF IInv, Accounted, EventsOf
      <4>7. rejected # {}
        BY <3>1, <4>2, <4>6
      <4>8. PICK l \in Jobs : Paid(l)
        BY <2>1, <2>2, <4>3, <4>7 DEF LossFailsAnImport
      <4>9. l # j
        BY <4>3, <4>8 DEF Paid
      <4> QED
        BY <1>2, <4>2, <4>8, <4>9
    <3> QED
      BY <3>2, <3>3
  <2>4. ASSUME rejected' # {}, ~firstErr' PROVE \E l \in Jobs : Paid(l)'
    <3>1. rejected # {}
      BY <1>1, <2>4 DEF Published
    <3>2. CASE firstErr
      BY <1>1, <2>4, <3>2 DEF Published, Paid
    <3>3. CASE ~firstErr
      BY <1>2, <2>1, <2>2, <3>1, <3>3 DEF LossFailsAnImport
    <3> QED
      BY <3>2, <3>3
  <2> QED
    BY <2>3, <2>4
<1> QED
  BY <1>3, <1>4, <1>5

-----------------------------------------------------------------------------
(* Steps that belong to no upload.                                         *)

(* What the producer resolves leaves the buffer.                           *)
LEMMA Resolved ==
    ASSUME IInv, NEW S, S \subseteq buffer
    PROVE  /\ S \subseteq Events
           /\ IsFiniteSet(S) /\ Cardinality(S) <= MaxBuffered
<1>1. IsFiniteSet(S) /\ Cardinality(S) <= Cardinality(buffer)
  BY FS_Subset DEF IInv
<1>2. Cardinality(S) \in Nat /\ Cardinality(buffer) \in Nat
  BY <1>1, FS_CardinalityType DEF IInv
<1>3. S \subseteq Events /\ Cardinality(buffer) <= MaxBuffered
  BY DEF IInv, TypeOK
<1> QED
  BY <1>1, <1>2, <1>3, ConstantsAssumption

LEMMA ProducerSteps ==
    ASSUME IInv, NEW e \in buffer, Deliver(e) \/ DeliveryFails(e)
    PROVE  IInv'
<1>1. /\ UNCHANGED <<db, up, pc, memVars, expired, refused, expiries, crashes>>
      /\ buffer' = buffer \ {e}
      /\ delivered \subseteq delivered' /\ delivered' \subseteq delivered \cup {e}
      /\ rejected \subseteq rejected' /\ rejected' \subseteq rejected \cup {e}
      /\ e \in delivered' \cup rejected'
      /\ (rejected' = rejected /\ firstErr' = firstErr) \/ firstErr' = TRUE
  BY DEF Deliver, DeliveryFails, FaultUnlessExpired, Fault, boundVars
<1>2. faults' \in 0..MaxFaults
  BY ConstantsAssumption
     DEF IInv, TypeOK, Deliver, DeliveryFails, FaultUnlessExpired, Fault, boundVars
<1>3. TypeOK' /\ IsFiniteSet(buffer')
  <2>1. /\ buffer' \subseteq Events /\ IsFiniteSet(buffer')
        /\ Cardinality(buffer') <= MaxBuffered /\ e \in Events
    BY <1>1, Resolved DEF IInv, TypeOK
  <2>2. delivered' \subseteq Events /\ rejected' \subseteq Events /\ firstErr' \in BOOLEAN
    BY <1>1, <2>1 DEF IInv, TypeOK
  <2> QED
    BY <1>1, <1>2, <2>1, <2>2 DEF IInv, TypeOK, memVars
<1>4. ASSUME NEW k \in Jobs PROVE Job(k)'
  BY <1>1 DEF IInv, Job, Counted, Place, Ended, Complete, Confirmed, memVars
<1>5. Accounted' /\ Flushed'
  BY <1>1 DEF IInv, Accounted, Flushed, memVars
<1>6. LossFailsAnImport'
  <2>1. \A k \in Jobs : (Paid(k)' <=> Paid(k)) /\ (PastFlush(k)' <=> PastFlush(k))
    BY <1>1 DEF Paid, PastFlush
  <2> QED
    BY <1>1, <2>1 DEF IInv, LossFailsAnImport, EventsOf, ValidRows
<1> QED
  BY <1>3, <1>4, <1>5, <1>6 DEF IInv

LEMMA CrashStep ==
    ASSUME IInv, Crash
    PROVE  IInv'
<1>1. PICK sent \in SUBSET buffer :
          /\ delivered' = delivered \cup sent
          /\ rejected' = rejected \cup (buffer \ sent)
  BY DEF Crash
<1>2. /\ buffer' = {} /\ firstErr' = FALSE /\ up' = FALSE
      /\ pc' = [j \in Jobs |-> IF pc[j] = "new" THEN "new" ELSE "done"]
      /\ crashes' = crashes + 1 /\ crashes < MaxCrashes
      /\ UNCHANGED <<db, memVars, expired, refused, faults, expiries>>
  BY DEF Crash
<1>3. crashes' \in 0..MaxCrashes /\ crashes' > 0
  BY <1>2, ConstantsAssumption DEF IInv, TypeOK
<1>4. TypeOK' /\ IsFiniteSet(buffer')
  <2>1. /\ buffer' \subseteq Events /\ IsFiniteSet(buffer')
        /\ Cardinality(buffer') <= MaxBuffered
    BY <1>2, Resolved
  <2>2. delivered' \subseteq Events /\ rejected' \subseteq Events
    BY <1>1 DEF IInv, TypeOK
  <2> QED
    BY <1>2, <1>3, <2>1, <2>2 DEF IInv, TypeOK, memVars
<1>5. ASSUME NEW k \in Jobs PROVE Job(k)'
  <2>1. Job(k) /\ pc'[k] = IF pc[k] = "new" THEN "new" ELSE "done"
    BY <1>2 DEF IInv
  <2>2. db' = db /\ row' = row /\ mem' = mem /\ ~up'
    BY <1>2 DEF memVars
  <2>3. Counted(k)' /\ Complete(k)'
    BY <2>1, <2>2 DEF Job, Counted, Complete
  <2>4. Place(k)' /\ Ended(k)'
    BY <1>3, <2>1, <2>2 DEF Job, Place, Ended, Past, Terminal, Gone
  <2> QED
    BY <2>3, <2>4 DEF Job
<1>6. Accounted' /\ Flushed'
  <2>1. row' = row
    BY <1>2 DEF memVars
  <2> QED
    BY <1>1, <1>2, <2>1 DEF IInv, Accounted, Flushed, SeenUpTo, ValidRows
<1>7. LossFailsAnImport'
  BY <1>3 DEF LossFailsAnImport
<1> QED
  BY <1>4, <1>5, <1>6, <1>7 DEF IInv

LEMMA RestartStep ==
    ASSUME IInv, Restart
    PROVE  IInv'
<1>1. /\ ~up /\ up' = TRUE
      /\ UNCHANGED <<pc, memVars, expired, kafkaVars, refused, boundVars>>
      /\ db' = [j \in Jobs |-> IF db[j].status = "parsing"
                               THEN [db[j] EXCEPT !.status = "failed"] ELSE db[j]]
  BY DEF Restart, FailStale
<1>2. ASSUME NEW k \in Jobs
      PROVE  /\ db'[k].status = IF db[k].status = "parsing" THEN "failed"
                                ELSE db[k].status
             /\ db'[k].invalid = db[k].invalid
             /\ db'[k].published = db[k].published
             /\ db'[k].confirmed = db[k].confirmed
             /\ db'[k] \in [status : Statuses, invalid : Nat, published : Nat,
                            confirmed : Nat]
  BY <1>1 DEF IInv, TypeOK, Statuses
<1>3. TypeOK' /\ IsFiniteSet(buffer')
  <2>1. db' \in [Jobs -> [status : Statuses, invalid : Nat, published : Nat,
                          confirmed : Nat]]
    BY <1>1, <1>2
  <2> QED
    BY <1>1, <2>1 DEF IInv, TypeOK, memVars, kafkaVars, boundVars
<1>4. ASSUME NEW k \in Jobs PROVE Job(k)' /\ pc[k] \in Gone
  <2>1. Job(k) /\ pc[k] \in Gone
    BY <1>1 DEF IInv, Job, Place
  <2>2. /\ pc' = pc /\ row' = row /\ mem' = mem /\ up'
        /\ refused' = refused /\ expired' = expired /\ crashes' = crashes
    BY <1>1 DEF memVars, boundVars
  <2>3. Counted(k)'
    BY <2>1, <2>2 DEF Job, Counted
  <2>4. Place(k)' /\ Ended(k)'
    BY <1>2, <2>1, <2>2 DEF Job, Place, Ended, Past, Terminal, Gone
  <2>5. Complete(k)'
    BY <1>2, <2>1, <2>2 DEF Job, Complete
  <2> QED
    BY <2>1, <2>3, <2>4, <2>5 DEF Job
<1>5. Accounted' /\ Flushed'
  BY <1>1 DEF IInv, Accounted, Flushed, memVars, kafkaVars
<1>6. LossFailsAnImport'
  <2>1. \A k \in Jobs : ~PastFlush(k)' /\ (Paid(k) => Paid(k)')
    BY <1>1, <1>2, <1>4 DEF PastFlush, Paid, Gone
  <2> QED
    BY <1>1, <2>1 DEF IInv, LossFailsAnImport, kafkaVars, boundVars
<1> QED
  BY <1>3, <1>4, <1>5, <1>6 DEF IInv

-----------------------------------------------------------------------------
LEMMA Initially == Init => IInv
<1> SUFFICES ASSUME Init PROVE IInv
  OBVIOUS
<1>1. IsFiniteSet(buffer) /\ Cardinality(buffer) = 0
  BY FS_EmptySet DEF Init
<1>2. TypeOK
  <2>1. ASSUME NEW j \in Jobs PROVE row[j] \in Nat /\ row[j] <= Len(File[j])
    <3>1. Len(File[j]) \in Nat
      BY ConstantsAssumption
    <3> QED
      BY <3>1 DEF Init
  <2>2. /\ Cardinality(buffer) <= MaxBuffered /\ faults \in 0..MaxFaults
        /\ expiries \in 0..MaxExpiries /\ crashes \in 0..MaxCrashes
    BY <1>1, ConstantsAssumption DEF Init
  <2> QED
    BY <2>1, <2>2 DEF Init, TypeOK, Statuses
<1>3. ASSUME NEW j \in Jobs PROVE Job(j)
  <2>1. Counted(j)
    BY SeenFinite DEF Init, Counted
  <2> QED
    BY <2>1 DEF Init, Job, Place, Ended, Complete, Past, Terminal, Gone
<1>4. Accounted
  BY SeenFinite DEF Init, Accounted
<1>5. Flushed /\ LossFailsAnImport
  BY DEF Init, Flushed, LossFailsAnImport, Past, PastFlush
<1> QED
  BY <1>1, <1>2, <1>3, <1>4, <1>5 DEF IInv

LEMMA Steps == IInv /\ [Next]_vars => IInv'
<1> SUFFICES ASSUME IInv, [Next]_vars PROVE IInv'
  OBVIOUS
<1>1. ASSUME NEW j \in Jobs,
             StartImport(j) \/ JobStep(j) \/ Fold(j) \/ FaultStep(j)
      PROVE  IInv'
  BY <1>1, UploadSteps, UploadLedger DEF IInv, Effect
<1>2. CASE UNCHANGED vars
  BY <1>2 DEF vars, memVars, kafkaVars, boundVars, IInv, TypeOK, Job, Counted,
     Place, Ended, Complete, Confirmed, Accounted, Flushed, LossFailsAnImport,
     PastFlush, Paid
<1> QED
  BY <1>1, <1>2, ProducerSteps, CrashStep, RestartStep DEF Next

(* The invariant holds in every state of every behaviour.                  *)
THEOREM Invariant == Spec => []IInv
<1> QED
  BY Initially, Steps, PTL DEF Spec

(* TypeOK: in particular no upload counts rows beyond its file and the     *)
(* producer never buffers more than its bound (producer.go:74).            *)
THEOREM TypeCorrect == Spec => []TypeOK
<1>1. IInv => TypeOK
  BY DEF IInv
<1> QED
  BY <1>1, Invariant, PTL

(* CompletedIsFinal: completion is decided on the counters of the whole    *)
(* file (service.go:141, 158-189).                                         *)
THEOREM CompletedCounts == Spec => []CompletedIsFinal
<1>1. IInv => CompletedIsFinal
  BY DEF IInv, Job, Complete, CompletedIsFinal
<1> QED
  BY <1>1, Invariant, PTL

(* NoOrphanParsing: FailStale leaves no job of a dead process in parsing   *)
(* (main.go:45-46).                                                        *)
THEOREM OrphansFail == Spec => []NoOrphanParsing
<1>1. ASSUME IInv PROVE NoOrphanParsing
  <2>1. SUFFICES ASSUME NEW j \in Jobs, up, db[j].status = "parsing",
                        pc[j] \in Gone
                 PROVE  j \in refused \/ expired[j]
    BY DEF NoOrphanParsing, Running
  <2> QED
    BY <1>1, <2>1 DEF IInv, Job, Place, Ended, Gone
<1> QED
  BY <1>1, Invariant, PTL

(* EndIsRecordedIfPossible: a goroutine that ends leaves a terminal status *)
(* unless store, context or process failed it (service.go:63-64).          *)
THEOREM EndRecorded == Spec => []EndIsRecordedIfPossible
<1>1. IInv => EndIsRecordedIfPossible
  BY DEF IInv, Job, Ended, EndIsRecordedIfPossible
<1> QED
  BY <1>1, Invariant, PTL

(* LossFailsAnImport: with any number of imports on the shared publisher,  *)
(* a lost event is charged to some import (producer.go:85, 126).           *)
THEOREM LossIsCharged == Spec => []LossFailsAnImport
<1>1. IInv => LossFailsAnImport
  BY DEF IInv
<1> QED
  BY <1>1, Invariant, PTL

(* TerminalIsFinal: only the goroutine of a job and the fold change its    *)
(* row, and neither does once it is over (entity.go:23).                   *)
THEOREM TerminalStays == Spec => TerminalIsFinal
<1>1. ASSUME IInv, [Next]_vars, NEW k \in Jobs, Terminal(db[k].status)
      PROVE  db'[k] = db[k]
  <2>1. pc[k] = "done"
    BY <1>1 DEF IInv, Job, Place
  <2>2. ASSUME NEW j \in Jobs,
               StartImport(j) \/ JobStep(j) \/ Fold(j) \/ FaultStep(j)
        PROVE  db'[k] = db[k]
    <3>1. CASE j # k
      BY <1>1, <2>2, <3>1, UploadSteps DEF Effect, Others
    <3>2. CASE j = k
      <4>1. ~Fold(j)
        BY <1>1, <3>2 DEF Fold, Terminal
      <4> QED
        BY <2>1, <2>2, <3>2, <4>1
           DEF StartImport, JobStep, FaultStep, StreamStep, StoreStep, AwaitStep,
               BadFile, StreamExpired, InvalidRow, ValidRow, Publish,
               BlockedPublishExpires, Flush, Drained, FlushReturns,
               UpdateProgress, UpdateProgressFails, SetStatus, SetStatusFails,
               AwaitTick, AwaitExpired, Expire, Streaming, At
    <3> QED
      BY <3>1, <3>2
  <2>3. CASE \E e \in buffer : Deliver(e) \/ DeliveryFails(e)
    BY <2>3 DEF Deliver, DeliveryFails
  <2>4. CASE Crash
    BY <2>4 DEF Crash
  <2>5. CASE Restart
    BY <1>1, <2>5 DEF Restart, FailStale, Terminal, IInv, TypeOK
  <2>6. CASE UNCHANGED vars
    BY <2>6 DEF vars
  <2> QED
    BY <1>1, <2>2, <2>3, <2>4, <2>5, <2>6 DEF Next
<1>2. IInv /\ [Next]_vars =>
          [\A j \in Jobs : Terminal(db[j].status) => db'[j] = db[j]]_vars
  BY <1>1
<1> QED
  BY <1>2, Invariant, PTL DEF Spec, TerminalIsFinal
=============================================================================
