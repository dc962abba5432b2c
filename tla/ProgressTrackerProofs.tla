----------------------- MODULE ProgressTrackerProofs -----------------------
(***************************************************************************)
(* Safety of ProgressTracker, and that it implements ProgressCounter, for  *)
(* every set of jobs and workers, every length of the topic and any number *)
(* of faults and crashes. The argument: a worker's row is never ahead of   *)
(* its count, so no sum of rows is; and as long as a job is open there is  *)
(* a ledger behind the real one that holds every report done so far, and   *)
(* whose sum is shown already. A fold torn between its statements only     *)
(* moves the real ledger further ahead of that one.                        *)
(***************************************************************************)
EXTENDS ProgressTracker, FiniteSetTheorems, WellFoundedInduction, TLAPS

----------------------------------------------------------------------------
(* Sums over finite sets. SumFunction is a recursive function, and nothing *)
(* can be said of it before its equation is known to have a solution. The  *)
(* library's induction theorems take an operator; the ones below take the  *)
(* set of the good subsets instead, which says as much and is first-order. *)

LEMMA SetInduction ==
    ASSUME NEW S, IsFiniteSet(S), NEW Good \in SUBSET (SUBSET S),
           {} \in Good,
           \A s \in SUBSET S :
               s # {} /\ (\A x \in s : s \ {x} \in Good) => s \in Good
    PROVE  \A s \in SUBSET S : s \in Good
<1> DEFINE Bad == (SUBSET S) \ Good
           R == StrictSubsetOrdering(S)
<1> SUFFICES ASSUME NEW q \in SUBSET S, q \notin Good PROVE FALSE
  OBVIOUS
<1>1. IsWellFoundedOn(R, SUBSET S)
  BY FS_StrictSubsetOrderingWellFounded, FS_FiniteSubsetsOfFinite
<1>2. \A s, t \in SUBSET S : t \subseteq s /\ t # s => <<t, s>> \in R
  BY DEF StrictSubsetOrdering
<1>3. Bad \subseteq SUBSET S /\ Bad # {}
  OBVIOUS
<1> HIDE DEF R
<1>4. PICK s \in Bad : \A t \in Bad : <<t, s>> \notin R
  <2> HIDE DEF Bad
  <2> QED BY <1>1, <1>3, WFMin
<1>5. s # {}
  OBVIOUS
<1>6. \A x \in s : s \ {x} \in Good
  <2> TAKE x \in s
  <2>1. s \ {x} \in SUBSET S /\ s \ {x} \subseteq s /\ s \ {x} # s
    OBVIOUS
  <2>2. <<s \ {x}, s>> \in R
    BY <2>1, <1>2
  <2> QED BY <2>1, <2>2, <1>4
<1> QED BY <1>5, <1>6

(* The element a sum takes next, and the equation a table of the sums of f *)
(* over the subsets of S satisfies.                                        *)
Taken(s) == CHOOSE x \in s : TRUE

IsSumTable(t, f, S) ==
    t = [s \in SUBSET S |->
            IF s = {} THEN 0 ELSE f[Taken(s)] + t[s \ {Taken(s)}]]

SumTable(f, S) == CHOOSE t : IsSumTable(t, f, S)

LEMMA SumIsTabled ==
    ASSUME NEW f
    PROVE  SumFunction(f) = SumTable(f, DOMAIN f)[DOMAIN f]
BY DEF SumFunction, SumFunctionOnSet, FoldFunctionOnSet, MapThenFoldSet,
       SumTable, IsSumTable, Taken

(* The equation has a solution: one for the subsets of up to n elements    *)
(* extends to those of n + 1.                                              *)
LEMMA SumTableExists ==
    ASSUME NEW S, IsFiniteSet(S), NEW f
    PROVE  IsSumTable(SumTable(f, S), f, S)
<1> DEFINE UpTo(s) == {r \in SUBSET S : Cardinality(r) <= Cardinality(s)}
           Entry(t, r) == IF r = {} THEN 0
                          ELSE f[Taken(r)] + t[r \ {Taken(r)}]
           Good == {s \in SUBSET S :
                       \E t : /\ t = [r \in UpTo(s) |-> t[r]]
                              /\ \A r \in UpTo(s) : t[r] = Entry(t, r)}
<1>1. \A r \in SUBSET S : /\ Cardinality(r) \in Nat
                          /\ Cardinality(r) <= Cardinality(S)
                          /\ Cardinality(r) = 0 <=> r = {}
  BY FS_Subset, FS_CardinalityType, FS_EmptySet
<1>2. \A r \in SUBSET S : \A x \in r :
          /\ r \ {x} \in SUBSET S
          /\ Cardinality(r \ {x}) = Cardinality(r) - 1
  BY FS_RemoveElement, FS_Subset
<1>3. \A r \in SUBSET S : r # {} => Taken(r) \in r
  BY DEF Taken
<1>4. {} \in Good
  <2> DEFINE t == [r \in UpTo({}) |-> 0]
  <2>1. \A r \in UpTo({}) : r = {}
    BY <1>1
  <2>2. t = [r \in UpTo({}) |-> t[r]]
    OBVIOUS
  <2>3. \A r \in UpTo({}) : t[r] = Entry(t, r)
    BY <2>1
  <2> HIDE DEF t, UpTo, Entry
  <2> QED BY <2>2, <2>3
<1>5. ASSUME NEW s \in SUBSET S, s # {}, \A x \in s : s \ {x} \in Good
      PROVE  s \in Good
  <2> DEFINE less == s \ {Taken(s)}
  <2>1. less \in Good /\ Cardinality(less) = Cardinality(s) - 1
    BY <1>2, <1>3, <1>5
  <2>2. PICK g : \A r \in UpTo(less) : g[r] = Entry(g, r)
    BY <2>1
  <2> DEFINE t == [r \in UpTo(s) |-> Entry(g, r)]
  <2>3. t = [r \in UpTo(s) |-> t[r]]
    OBVIOUS
  <2>4. \A r \in UpTo(s) : r # {} => r \ {Taken(r)} \in UpTo(less)
    BY <1>1, <1>2, <1>3, <2>1
  <2>5. UpTo(less) \subseteq UpTo(s)
    BY <1>1, <2>1
  <2>6. \A r \in UpTo(less) : t[r] = g[r]
    <3> HIDE DEF UpTo, Entry, less
    <3> QED BY <2>2, <2>5
  <2>7. ASSUME NEW r \in UpTo(s) PROVE t[r] = Entry(t, r)
    <3>1. t[r] = Entry(g, r)
      <4> HIDE DEF UpTo, Entry
      <4> QED OBVIOUS
    <3>2. Entry(g, r) = Entry(t, r)
      <4> HIDE DEF UpTo, t, less
      <4> QED BY <2>4, <2>6
    <3> QED BY <3>1, <3>2
  <2> HIDE DEF t, UpTo, Entry
  <2> QED BY <2>3, <2>7
<1>6. S \in Good
  <2>1. Good \in SUBSET (SUBSET S)
    OBVIOUS
  <2> HIDE DEF Good
  <2> QED BY <1>4, <1>5, <2>1, SetInduction
<1>7. PICK t : /\ t = [r \in UpTo(S) |-> t[r]]
               /\ \A r \in UpTo(S) : t[r] = Entry(t, r)
  BY <1>6
<1>8. UpTo(S) = SUBSET S
  BY <1>1
<1>9. IsSumTable(t, f, S)
  <2>1. t = [r \in SUBSET S |-> t[r]] /\ \A r \in SUBSET S : t[r] = Entry(t, r)
    BY <1>7, <1>8
  <2>2. t = [r \in SUBSET S |-> Entry(t, r)]
    <3> HIDE DEF Entry
    <3> QED BY <2>1
  <2> QED BY <2>2 DEF IsSumTable
<1> QED BY <1>9 DEF SumTable

LEMMA SumTableUnfolds ==
    ASSUME NEW S, IsFiniteSet(S), NEW f
    PROVE  /\ SumTable(f, S)[{}] = 0
           /\ \A s \in SUBSET S : s # {} =>
                 /\ Taken(s) \in s
                 /\ SumTable(f, S)[s] =
                       f[Taken(s)] + SumTable(f, S)[s \ {Taken(s)}]
<1> DEFINE t == SumTable(f, S)
<1>1. t = [s \in SUBSET S |->
              IF s = {} THEN 0 ELSE f[Taken(s)] + t[s \ {Taken(s)}]]
  BY SumTableExists DEF IsSumTable
<1>2. \A s \in SUBSET S : s # {} => Taken(s) \in s
  BY DEF Taken
<1> HIDE DEF t
<1>3. \A s \in SUBSET S :
          t[s] = IF s = {} THEN 0 ELSE f[Taken(s)] + t[s \ {Taken(s)}]
  BY <1>1
<1>4. t[{}] = 0 /\ \A s \in SUBSET S : s # {} =>
          t[s] = f[Taken(s)] + t[s \ {Taken(s)}]
  BY <1>3
<1> QED BY <1>2, <1>4 DEF t

(* A sum of naturals is a natural. It does not shrink when the summands    *)
(* grow, grows when one of them does, and is 0 when all of them are.       *)
LEMMA SumTableLaws ==
    ASSUME NEW S, IsFiniteSet(S),
           NEW f \in [S -> Nat], NEW g \in [S -> Nat],
           \A x \in S : f[x] <= g[x]
    PROVE  \A s \in SUBSET S :
               /\ SumTable(f, S)[s] \in Nat
               /\ SumTable(g, S)[s] \in Nat
               /\ SumTable(f, S)[s] <= SumTable(g, S)[s]
               /\ (\E x \in s : f[x] < g[x]) =>
                     SumTable(f, S)[s] < SumTable(g, S)[s]
               /\ (\A x \in s : f[x] = 0) => SumTable(f, S)[s] = 0
<1> DEFINE tf == SumTable(f, S)
           tg == SumTable(g, S)
           Holds(s) == /\ tf[s] \in Nat
                       /\ tg[s] \in Nat
                       /\ tf[s] <= tg[s]
                       /\ (\E x \in s : f[x] < g[x]) => tf[s] < tg[s]
                       /\ (\A x \in s : f[x] = 0) => tf[s] = 0
           Good == {s \in SUBSET S : Holds(s)}
<1>1. tf[{}] = 0 /\ tg[{}] = 0
  BY SumTableUnfolds
<1>2. \A s \in SUBSET S : s # {} =>
          /\ Taken(s) \in s
          /\ tf[s] = f[Taken(s)] + tf[s \ {Taken(s)}]
          /\ tg[s] = g[Taken(s)] + tg[s \ {Taken(s)}]
  BY SumTableUnfolds
<1> HIDE DEF tf, tg
<1>3. {} \in Good
  BY <1>1
<1>4. ASSUME NEW s \in SUBSET S, s # {}, \A x \in s : s \ {x} \in Good
      PROVE  s \in Good
  <2> DEFINE x == Taken(s)
             r == s \ {x}
  <2>1. x \in s /\ tf[s] = f[x] + tf[r] /\ tg[s] = g[x] + tg[r]
    BY <1>2, <1>4
  <2>2. Holds(r)
    BY <2>1, <1>4
  <2>3. f[x] \in Nat /\ g[x] \in Nat /\ f[x] <= g[x]
    BY <2>1
  <2>4. tf[s] \in Nat /\ tg[s] \in Nat /\ tf[s] <= tg[s]
    BY <2>1, <2>2, <2>3
  <2>5. ASSUME NEW y \in s, f[y] < g[y] PROVE tf[s] < tg[s]
    <3>1. CASE y = x
      BY <3>1, <2>1, <2>2, <2>3, <2>5
    <3>2. CASE y # x
      <4>1. tf[r] < tg[r]
        BY <3>2, <2>2, <2>5
      <4> HIDE DEF x, r
      <4> QED BY <4>1, <2>1, <2>2, <2>3
    <3> QED BY <3>1, <3>2
  <2>6. ASSUME \A y \in s : f[y] = 0 PROVE tf[s] = 0
    BY <2>1, <2>2, <2>6
  <2> QED BY <2>4, <2>5, <2>6
<1>5. \A s \in SUBSET S : s \in Good
  <2>1. Good \in SUBSET (SUBSET S)
    OBVIOUS
  <2> HIDE DEF Good
  <2> QED BY <1>3, <1>4, <2>1, SetInduction
<1> QED BY <1>5 DEF tf, tg

LEMMA SumType ==
    ASSUME NEW S, IsFiniteSet(S), NEW f \in [S -> Nat]
    PROVE  SumFunction(f) \in Nat
<1>1. S \in SUBSET S /\ DOMAIN f = S /\ \A x \in S : f[x] <= f[x]
  OBVIOUS
<1> QED BY <1>1, SumIsTabled, SumTableLaws

LEMMA SumMonotone ==
    ASSUME NEW S, IsFiniteSet(S),
           NEW f \in [S -> Nat], NEW g \in [S -> Nat],
           \A x \in S : f[x] <= g[x]
    PROVE  SumFunction(f) <= SumFunction(g)
<1>1. S \in SUBSET S /\ DOMAIN f = S /\ DOMAIN g = S
  OBVIOUS
<1> QED BY <1>1, SumIsTabled, SumTableLaws

LEMMA SumGrows ==
    ASSUME NEW S, IsFiniteSet(S), NEW f \in [S -> Nat], NEW x \in S
    PROVE  SumFunction(f) < SumFunction([f EXCEPT ![x] = @ + 1])
<1> DEFINE g == [f EXCEPT ![x] = @ + 1]
<1>1. S \in SUBSET S /\ DOMAIN f = S /\ DOMAIN g = S /\ g \in [S -> Nat]
  OBVIOUS
<1>2. (\A y \in S : f[y] <= g[y]) /\ f[x] < g[x]
  OBVIOUS
<1> HIDE DEF g
<1>3. SumTable(f, S)[S] < SumTable(g, S)[S]
  BY <1>1, <1>2, SumTableLaws
<1>4. SumFunction(f) < SumFunction(g)
  BY <1>1, <1>3, SumIsTabled
<1> QED BY <1>4 DEF g

LEMMA SumZero ==
    ASSUME NEW S, IsFiniteSet(S)
    PROVE  SumFunction([x \in S |-> 0]) = 0
<1> DEFINE f == [x \in S |-> 0]
<1>1. /\ S \in SUBSET S /\ DOMAIN f = S /\ f \in [S -> Nat]
      /\ \A x \in S : f[x] = 0 /\ f[x] <= f[x]
  OBVIOUS
<1> HIDE DEF f
<1>2. SumTable(f, S)[S] = 0
  BY <1>1, SumTableLaws
<1>3. SumFunction(f) = 0
  BY <1>1, <1>2, SumIsTabled
<1> QED BY <1>3 DEF f

----------------------------------------------------------------------------
(* The inductive invariant.                                                *)

(* How far the process has got: the records it has settled or given up on, *)
(* and the ones a predecessor left behind its offset.                      *)
Progress == IF pc \in {"upsert", "sum"} THEN cur - 1 ELSE pos

(* A batch is worked through record by record; what is settled, and what   *)
(* is committed, has been worked through.                                  *)
Position ==
    /\ pc \in {"upsert", "sum"} => cur \in 1..upto
    /\ pc # "poll" => upto = pos
    /\ pc = "sum" => topic[cur] # Foreign /\ Folded(cur)
    /\ settled <= Progress
    /\ committed <= Progress

(* Nothing runs ahead of the workers: no report, no row of the ledger; and *)
(* no job shows more than its rows add up to.                              *)
Honest ==
    /\ \A i \in DOMAIN topic : topic[i] # Foreign =>
          topic[i].n <= count[topic[i].job][topic[i].worker]
    /\ \A j \in Jobs, w \in Workers : ledger[j][w] <= count[j][w]
    /\ \A j \in Jobs : shown[j] <= SumFunction(ledger[j])

(* f is a ledger the job's counter has caught up with: it is behind the    *)
(* real one, and has every report of the job that is done and did not fail.*)
Covers(f, j) ==
    /\ \A w \in Workers : f[w] <= ledger[j][w]
    /\ \A i \in 1..Progress :
          IsReport(i) /\ i \notin failed /\ topic[i].job = j
              => topic[i].n <= f[topic[i].worker]
    /\ SumFunction(f) <= shown[j]

Caught == \A j \in Jobs : open[j] =>
              \E f \in [Workers -> 0..MaxCount] : Covers(f, j)

Control == TypeOK /\ Position /\ Honest

IInv == Control /\ Caught

----------------------------------------------------------------------------
LEMMA Bounds ==
    /\ IsFiniteSet(Workers)
    /\ MaxPoll \in Nat /\ MaxCount \in Nat /\ MaxReports \in Nat
    /\ MaxFaults \in Nat /\ MaxCrashes \in Nat
BY ConstantsAssumption

(* A record of the topic is a report or foreign, and foreign is no report. *)
LEMMA RecordTyped ==
    ASSUME TypeOK, NEW i \in DOMAIN topic, topic[i] # Foreign
    PROVE  /\ topic[i] \in Reports
           /\ topic[i].job \in Jobs /\ topic[i].worker \in Workers
           /\ topic[i].n \in 1..MaxCount
<1>1. topic[i] \in Reports \cup {Foreign}
  BY DEF TypeOK
<1> QED BY <1>1 DEF Reports

(* The rows of a job are naturals, and so is what they add up to.          *)
LEMMA RowsTyped ==
    ASSUME NEW m \in [Jobs -> [Workers -> 0..MaxCount]], NEW j \in Jobs
    PROVE  /\ m[j] \in [Workers -> 0..MaxCount]
           /\ m[j] \in [Workers -> Nat]
           /\ SumFunction(m[j]) \in Nat
<1>1. m[j] \in [Workers -> 0..MaxCount] /\ 0..MaxCount \subseteq Nat
  BY Bounds
<1>2. m[j] \in [Workers -> Nat]
  BY <1>1
<1> QED BY <1>1, <1>2, Bounds, SumType

LEMMA RowsGrow ==
    ASSUME NEW m \in [Jobs -> [Workers -> 0..MaxCount]],
           NEW k \in [Jobs -> [Workers -> 0..MaxCount]],
           \A j \in Jobs, w \in Workers : m[j][w] <= k[j][w]
    PROVE  \A j \in Jobs : SumFunction(m[j]) <= SumFunction(k[j])
<1> TAKE j \in Jobs
<1>1. m[j] \in [Workers -> Nat] /\ k[j] \in [Workers -> Nat]
  BY RowsTyped
<1>2. \A w \in Workers : m[j][w] <= k[j][w]
  OBVIOUS
<1> QED BY <1>1, <1>2, Bounds, SumMonotone

(* The upsert raises one row, to what the report says if that is more.     *)
LEMMA UpsertRaises ==
    ASSUME Control, NEW i \in DOMAIN topic, topic[i] # Foreign
    PROVE  LET new == Upserted(topic[i])
           IN  /\ new \in [Jobs -> [Workers -> 0..MaxCount]]
               /\ \A j \in Jobs, w \in Workers :
                     ledger[j][w] <= new[j][w] /\ new[j][w] <= count[j][w]
               /\ new[topic[i].job][topic[i].worker] >= topic[i].n
<1> DEFINE r == topic[i]
           new == Upserted(r)
<1>1. r.job \in Jobs /\ r.worker \in Workers /\ r.n \in 1..MaxCount
  BY RecordTyped DEF Control
<1>2. r.n <= count[r.job][r.worker]
  BY DEF Control, Honest
<1>3. /\ ledger \in [Jobs -> [Workers -> 0..MaxCount]]
      /\ count \in [Jobs -> [Workers -> 0..MaxCount]]
      /\ \A j \in Jobs, w \in Workers : ledger[j][w] <= count[j][w]
  BY DEF Control, TypeOK, Honest
<1> HIDE DEF r
<1> DEFINE top == Greatest(ledger[r.job][r.worker], r.n)
           row == [ledger[r.job] EXCEPT ![r.worker] = top]
<1>4. new = [ledger EXCEPT ![r.job] = row]
  BY DEF Upserted
<1>5. top \in 0..MaxCount /\ row \in [Workers -> 0..MaxCount]
  <2>1. ledger[r.job] \in [Workers -> 0..MaxCount]
    BY <1>1, <1>3
  <2>2. ledger[r.job][r.worker] \in 0..MaxCount
    BY <2>1, <1>1
  <2>3. top \in 0..MaxCount
    BY <2>2, <1>1, Bounds DEF Greatest
  <2> HIDE DEF top
  <2> QED BY <2>1, <2>3, <1>1
<1>6. ASSUME NEW j \in Jobs, NEW w \in Workers
      PROVE  new[j][w] = IF j = r.job /\ w = r.worker THEN top
                         ELSE ledger[j][w]
  <2>1. new[j] = IF j = r.job THEN row ELSE ledger[j]
    <3> HIDE DEF row, new
    <3> QED BY <1>1, <1>3, <1>4
  <2>2. row[w] = IF w = r.worker THEN top ELSE ledger[r.job][w]
    <3>1. ledger[r.job] \in [Workers -> 0..MaxCount]
      BY <1>1, <1>3
    <3> HIDE DEF top
    <3> QED BY <3>1, <1>1
  <2> HIDE DEF new, row, top
  <2> QED BY <2>1, <2>2
<1>7. new \in [Jobs -> [Workers -> 0..MaxCount]]
  <2> HIDE DEF row, new
  <2> QED BY <1>1, <1>3, <1>4, <1>5
<1> HIDE DEF new
<1>8. ASSUME NEW j \in Jobs, NEW w \in Workers
      PROVE  ledger[j][w] <= new[j][w] /\ new[j][w] <= count[j][w]
  <2>1. ledger[j][w] \in 0..MaxCount /\ count[j][w] \in 0..MaxCount
    BY <1>3
  <2> QED BY <2>1, <1>1, <1>2, <1>3, <1>6, Bounds DEF Greatest
<1>9. new[r.job][r.worker] >= r.n
  <2>1. ledger[r.job][r.worker] \in 0..MaxCount
    BY <1>1, <1>3
  <2> QED BY <2>1, <1>1, <1>6, Bounds DEF Greatest
<1> QED BY <1>7, <1>8, <1>9 DEF r, new

----------------------------------------------------------------------------
(* Control is inductive: one lemma per kind of step.                       *)

LEMMA InitControl == Init => Control
<1> SUFFICES ASSUME Init PROVE Control
  OBVIOUS
<1>1. TypeOK
  BY Bounds DEF Init, TypeOK, ByJobAndWorker
<1>2. Position
  BY DEF Init, Position, Progress
<1>3. Honest
  <2>1. \A j \in Jobs : ledger[j] = [w \in Workers |-> 0] /\ shown[j] = 0
    BY DEF Init, ByJobAndWorker
  <2>2. SumFunction([w \in Workers |-> 0]) = 0
    BY Bounds, SumZero
  <2>3. \A j \in Jobs : shown[j] <= SumFunction(ledger[j])
    BY <2>1, <2>2
  <2>4. \A j \in Jobs, w \in Workers : ledger[j][w] <= count[j][w]
    BY DEF Init, ByJobAndWorker
  <2>5. DOMAIN topic = {}
    BY DEF Init
  <2> QED BY <2>3, <2>4, <2>5 DEF Honest
<1> QED BY <1>1, <1>2, <1>3 DEF Control

LEMMA CountControl ==
    ASSUME Control, NEW j \in Jobs, NEW w \in Workers, Count(j, w)
    PROVE  Control'
<1>1. /\ count[j][w] < MaxCount
      /\ count' = [count EXCEPT ![j][w] = @ + 1]
      /\ UNCHANGED <<topic, committed, up, pc, pos, cur, upto, settled, ledger,
                     shown, open, failed, faults, crashes>>
  BY DEF Count, trackerVars, jobVars
<1>2. count \in [Jobs -> [Workers -> 0..MaxCount]]
  BY DEF Control, TypeOK
<1> DEFINE row == [count[j] EXCEPT ![w] = @ + 1]
<1>3. /\ row \in [Workers -> 0..MaxCount]
      /\ \A v \in Workers : count[j][v] <= row[v]
  <2>1. count[j] \in [Workers -> 0..MaxCount] /\ count[j][w] \in 0..MaxCount
    BY <1>2
  <2>2. count[j][w] + 1 \in 0..MaxCount
    BY <2>1, <1>1, Bounds
  <2>3. \A v \in Workers : /\ count[j][v] \in 0..MaxCount
                           /\ row[v] = IF v = w THEN count[j][w] + 1
                                       ELSE count[j][v]
    BY <2>1
  <2>4. row \in [Workers -> 0..MaxCount]
    BY <2>1, <2>2
  <2> HIDE DEF row
  <2> QED BY <2>1, <2>3, <2>4, Bounds
<1>4. count' = [count EXCEPT ![j] = row]
  BY <1>1
<1> HIDE DEF row
<1>5. /\ count' \in [Jobs -> [Workers -> 0..MaxCount]]
      /\ \A k \in Jobs, v \in Workers : count[k][v] <= count'[k][v]
  <2>1. \A k \in Jobs : count'[k] = IF k = j THEN row ELSE count[k]
    BY <1>2, <1>4
  <2>2. \A k \in Jobs, v \in Workers : count[k][v] \in 0..MaxCount
    BY <1>2
  <2> QED BY <2>1, <2>2, <1>2, <1>3, <1>4, Bounds
<1>6. TypeOK'
  BY <1>1, <1>5 DEF Control, TypeOK
<1>7. Position'
  BY <1>1 DEF Control, Position, Progress, Folded
<1>8. Honest'
  <2>1. ASSUME NEW i \in DOMAIN topic, topic[i] # Foreign
        PROVE  topic[i].n <= count'[topic[i].job][topic[i].worker]
    <3>1. topic[i].job \in Jobs /\ topic[i].worker \in Workers
              /\ topic[i].n \in Nat
      BY <2>1, RecordTyped, Bounds DEF Control
    <3>2. topic[i].n <= count[topic[i].job][topic[i].worker]
      BY <2>1 DEF Control, Honest
    <3>3. /\ count[topic[i].job][topic[i].worker] \in 0..MaxCount
          /\ count'[topic[i].job][topic[i].worker] \in 0..MaxCount
      BY <3>1, <1>2, <1>5
    <3>4. count[topic[i].job][topic[i].worker]
              <= count'[topic[i].job][topic[i].worker]
      BY <3>1, <1>5
    <3> QED BY <3>1, <3>2, <3>3, <3>4, Bounds
  <2>2. ASSUME NEW k \in Jobs, NEW v \in Workers
        PROVE  ledger[k][v] <= count'[k][v]
    <3>1. /\ ledger[k][v] \in 0..MaxCount /\ count[k][v] \in 0..MaxCount
          /\ count'[k][v] \in 0..MaxCount /\ ledger[k][v] <= count[k][v]
      BY <1>2, <1>5 DEF Control, TypeOK, Honest
    <3> QED BY <3>1, <1>5, Bounds
  <2> QED BY <2>1, <2>2, <1>1 DEF Control, Honest
<1> QED BY <1>6, <1>7, <1>8 DEF Control

LEMMA AppendControl ==
    ASSUME Control, NEW r \in Reports \cup {Foreign},
           r # Foreign => r.n <= count[r.job][r.worker],
           Append1(r)
    PROVE  Control'
<1>1. /\ Len(topic) < MaxReports
      /\ topic' = Append(topic, r)
      /\ UNCHANGED <<count, committed, up, pc, pos, cur, upto, settled, ledger,
                     shown, open, failed, faults, crashes>>
  BY DEF Append1, trackerVars, jobVars
<1>2. topic \in Seq(Reports \cup {Foreign})
  BY DEF Control, TypeOK
<1>3. /\ topic' \in Seq(Reports \cup {Foreign})
      /\ Len(topic') = Len(topic) + 1 /\ Len(topic) \in Nat
      /\ DOMAIN topic' = 1..(Len(topic) + 1) /\ DOMAIN topic = 1..Len(topic)
      /\ \A i \in DOMAIN topic : topic'[i] = topic[i]
      /\ topic'[Len(topic) + 1] = r
  BY <1>1, <1>2
<1>4. TypeOK'
  BY <1>1, <1>3, Bounds DEF Control, TypeOK
<1>5. pc = "sum" => cur \in DOMAIN topic
  BY <1>3 DEF Control, Position, TypeOK
<1>6. Position'
  BY <1>1, <1>3, <1>5 DEF Control, Position, Progress, Folded
<1>7. Honest'
  <2>1. ASSUME NEW i \in DOMAIN topic', topic'[i] # Foreign
        PROVE  topic'[i].n <= count[topic'[i].job][topic'[i].worker]
    <3>1. CASE i \in DOMAIN topic
      BY <3>1, <2>1, <1>3 DEF Control, Honest
    <3>2. CASE i = Len(topic) + 1
      BY <3>2, <2>1, <1>3
    <3> QED BY <3>1, <3>2, <1>3
  <2> QED BY <2>1, <1>1 DEF Control, Honest
<1> QED BY <1>3, <1>4, <1>6, <1>7 DEF Control

(* A job that is closed, and the process that polls, commits, ends or      *)
(* starts again: no counter of a job moves.                                *)
LEMMA ProcessControl ==
    ASSUME Control,
           \/ \E j \in Jobs : Close(j)
           \/ Poll \/ Commit \/ CommitFails \/ Crash \/ Restart
    PROVE  Control'
<1> USE DEF trackerVars, sourceVars, jobVars
<1>1. Honest'
  <2>1. UNCHANGED <<topic, count, ledger, shown>>
    BY DEF Close, Poll, Commit, CommitFails, Crash, Restart
  <2> QED BY <2>1 DEF Control, Honest
<1>2. TypeOK /\ Position /\ Len(topic) \in Nat
  BY DEF Control, TypeOK
<1> USE Bounds DEF TypeOK, Position, Progress, Folded
<1>3. ASSUME NEW j \in Jobs, Close(j) PROVE TypeOK' /\ Position'
  BY <1>2, <1>3 DEF Close
<1>4. CASE Poll
  <2>1. PICK n \in 1..MaxPoll : /\ pos + n <= Len(topic)
                                /\ upto' = pos + n /\ pos' = pos + n
    BY <1>4 DEF Poll
  <2>2. /\ pc = "poll" /\ pc' = "upsert" /\ cur' = pos + 1 /\ settled' = 0
        /\ UNCHANGED <<count, topic, committed, up, ledger, shown, open,
                       failed, faults, crashes>>
    BY <1>4 DEF Poll
  <2>3. TypeOK'
    BY <2>1, <2>2, <1>2
  <2>4. Position'
    BY <2>1, <2>2, <1>2
  <2> QED BY <2>3, <2>4, <1>1 DEF Control
<1>5. CASE Commit \/ CommitFails
  <2>1. /\ pc = "commit" /\ pc' \in {"poll", "commit"}
        /\ committed' \in {committed, settled} /\ up' \in BOOLEAN
        /\ UNCHANGED <<count, topic, pos, cur, upto, settled, ledger, shown,
                       open, failed, crashes>>
    BY <1>2, <1>5 DEF Commit, CommitFails, InHand
  <2>2. faults' \in 0..MaxFaults
    BY <1>2, <1>5 DEF Commit, CommitFails, Fault
  <2>3. TypeOK'
    BY <2>1, <2>2, <1>2
  <2>4. Position'
    BY <2>1, <1>2
  <2> QED BY <2>3, <2>4, <1>1 DEF Control
<1>7. CASE Crash
  <2>1. /\ crashes < MaxCrashes /\ crashes' = crashes + 1 /\ up' = FALSE
        /\ UNCHANGED <<count, topic, committed, pc, pos, cur, upto, settled,
                       ledger, shown, open, failed, faults>>
    BY <1>7 DEF Crash
  <2>2. TypeOK'
    <3>1. crashes \in 0..MaxCrashes
      BY <1>2
    <3>2. crashes' \in 0..MaxCrashes
      BY <2>1, <3>1
    <3>3. up' \in BOOLEAN
      BY <2>1
    <3> QED BY <2>1, <3>2, <3>3, <1>2
  <2>3. Position'
    BY <2>1, <1>2
  <2> QED BY <2>2, <2>3, <1>1 DEF Control
<1>8. CASE Restart
  BY <1>1, <1>2, <1>8 DEF Restart, Control
<1> QED BY <1>1, <1>3, <1>4, <1>5, <1>7, <1>8 DEF Control

(* After a record, settled or not, the process has got one record further. *)
LEMMA NextRecordPosition ==
    ASSUME TypeOK, Position, pc \in {"upsert", "sum"},
           NEW last \in 0..cur, NextRecord(last),
           UNCHANGED <<topic, committed>>
    PROVE  /\ Progress = cur - 1 /\ Progress' = cur
           /\ cur \in 1..Len(topic)
           /\ Position'
           /\ pc' \in {"poll", "upsert", "commit"}
           /\ pos' \in 0..Len(topic) /\ upto' \in 0..Len(topic)
           /\ cur' \in 0..(Len(topic) + 1) /\ settled' \in 0..Len(topic)
<1>1. /\ Len(topic) \in Nat
      /\ cur \in 1..upto /\ upto = pos /\ pos \in 0..Len(topic)
      /\ committed <= cur - 1 /\ committed \in 0..Len(topic)
  BY DEF TypeOK, Position, Progress
<1>2. /\ settled' = last /\ cur' = cur + 1 /\ pos' = pos /\ upto' = upto
      /\ pc' = IF cur < upto THEN "upsert"
               ELSE IF last > 0 THEN "commit" ELSE "poll"
  BY DEF NextRecord
<1> QED BY <1>1, <1>2 DEF Position, Progress

(* The record in hand is one of the topic, and those before it are done.   *)
LEMMA RecordInHand ==
    ASSUME TypeOK, Position, pc \in {"upsert", "sum"}
    PROVE  /\ Len(topic) \in Nat /\ cur \in 1..Len(topic) /\ cur \in DOMAIN topic
           /\ cur \in 1..MaxReports /\ settled \in 0..cur /\ cur \in 0..cur
           /\ Progress = cur - 1 /\ 1..Progress \subseteq DOMAIN topic
<1>1. /\ Len(topic) \in Nat /\ Len(topic) <= MaxReports /\ MaxReports \in Nat
      /\ DOMAIN topic = 1..Len(topic)
      /\ pos \in 0..Len(topic) /\ cur \in 0..(Len(topic) + 1)
      /\ settled \in 0..Len(topic)
  <2>1. topic \in Seq(Reports \cup {Foreign}) /\ Len(topic) <= MaxReports
    BY DEF TypeOK
  <2>2. /\ pos \in 0..Len(topic) /\ cur \in 0..(Len(topic) + 1)
        /\ settled \in 0..Len(topic)
    BY DEF TypeOK
  <2> HIDE DEF Reports
  <2> QED BY <2>1, <2>2, Bounds
<1>2. Progress = cur - 1
  BY DEF Progress
<1>3. cur \in 1..upto /\ upto = pos /\ settled <= cur - 1
  BY <1>2 DEF Position
<1> QED BY <1>1, <1>2, <1>3

LEMMA RecordControl ==
    ASSUME Control,
           SkipForeign \/ Upsert \/ UpsertFails \/ Sum \/ SumFails
    PROVE  Control'
<1> USE DEF sourceVars, jobVars
<1>1. /\ pc \in {"upsert", "sum"}
      /\ UNCHANGED <<count, topic, committed, up, open, crashes>>
  BY DEF SkipForeign, Upsert, UpsertFails, Sum, SumFails, InHand
<1>2. /\ Len(topic) \in Nat /\ cur \in 1..Len(topic) /\ cur \in DOMAIN topic
      /\ cur \in 1..MaxReports /\ settled \in 0..cur /\ cur \in 0..cur
  BY <1>1, RecordInHand DEF Control
<1>3. /\ ledger' \in [Jobs -> [Workers -> 0..MaxCount]]
      /\ \A j \in Jobs, w \in Workers :
            ledger[j][w] <= ledger'[j][w] /\ ledger'[j][w] <= count[j][w]
  <2>1. CASE UNCHANGED ledger
    <3>1. \A j \in Jobs, w \in Workers :
              ledger[j][w] \in 0..MaxCount /\ ledger[j][w] <= count[j][w]
      BY DEF Control, TypeOK, Honest
    <3> QED BY <3>1, <2>1, Bounds DEF Control, TypeOK
  <2>2. CASE topic[cur] # Foreign /\ ledger' = Upserted(topic[cur])
    BY <2>2, <1>2, UpsertRaises
  <2> QED BY <2>1, <2>2 DEF SkipForeign, Upsert, UpsertFails, Sum, SumFails
<1>4. \A j \in Jobs : SumFunction(ledger[j]) <= SumFunction(ledger'[j])
  BY <1>3, RowsGrow DEF Control, TypeOK
<1>5. /\ shown' \in [Jobs -> Nat]
      /\ \A j \in Jobs : shown'[j] <= SumFunction(ledger'[j])
  <2>1. shown \in [Jobs -> Nat] /\ \A j \in Jobs :
            /\ shown[j] \in Nat /\ shown[j] <= SumFunction(ledger[j])
            /\ SumFunction(ledger[j]) \in Nat
            /\ SumFunction(ledger'[j]) \in Nat
    BY <1>3, RowsTyped DEF Control, TypeOK, Honest
  <2>2. CASE UNCHANGED shown
    BY <2>1, <2>2, <1>4
  <2>3. CASE UNCHANGED ledger /\ shown' = Summed(topic[cur].job)
    <3>1. CASE shown' = shown
      BY <2>1, <2>3, <3>1
    <3>2. CASE shown' = [shown EXCEPT ![topic[cur].job] =
                                          SumFunction(ledger[topic[cur].job])]
      <4> DEFINE total(j) == SumFunction(ledger[j])
      <4>1. \A j \in Jobs : total(j) \in Nat /\ shown[j] <= total(j)
        BY <2>1
      <4>2. shown' = [shown EXCEPT ![topic[cur].job] = total(topic[cur].job)]
        BY <3>2
      <4> HIDE DEF total
      <4>3. \A j \in Jobs : shown'[j] = total(j) \/ shown'[j] = shown[j]
        BY <2>1, <4>2
      <4>4. shown' \in [Jobs -> Nat]
        BY <2>1, <4>1, <4>2
      <4>5. \A j \in Jobs : shown'[j] <= total(j)
        BY <4>1, <4>3
      <4> QED BY <4>4, <4>5, <2>3 DEF total
    <3> QED BY <2>3, <3>1, <3>2 DEF Summed
  <2> QED BY <2>2, <2>3 DEF SkipForeign, Upsert, UpsertFails, Sum, SumFails
<1>6. Honest'
  BY <1>1, <1>3, <1>5 DEF Control, Honest
<1>7. failed' \subseteq 1..MaxReports /\ faults' \in 0..MaxFaults
  <2>1. failed \subseteq 1..MaxReports /\ faults \in 0..MaxFaults
    BY DEF Control, TypeOK
  <2>2. \/ failed' = failed
        \/ failed' = failed \cup {cur}
        \/ failed' = failed \ {cur}
    BY DEF SkipForeign, Upsert, UpsertFails, Sum, SumFails, Settle, Skip
  <2>3. \/ faults' = faults
        \/ faults < MaxFaults /\ faults' = faults + 1
    BY DEF SkipForeign, Upsert, UpsertFails, Sum, SumFails, Fault
  <2>4. failed' \subseteq 1..MaxReports
    BY <2>1, <2>2, <1>2
  <2>5. faults' \in 0..MaxFaults
    BY <2>1, <2>3, Bounds
  <2> QED BY <2>4, <2>5
<1>8. /\ pc' \in {"poll", "upsert", "sum", "commit"}
      /\ pos' \in 0..Len(topic) /\ upto' \in 0..Len(topic)
      /\ cur' \in 0..(Len(topic) + 1) /\ settled' \in 0..Len(topic)
      /\ Position'
  <2>1. CASE Upsert
    <3>1. /\ topic[cur] # Foreign /\ pc = "upsert" /\ pc' = "sum"
          /\ ledger' = Upserted(topic[cur])
          /\ UNCHANGED <<topic, committed, pos, cur, upto, settled>>
      BY <2>1 DEF Upsert, InHand, trackerVars
    <3>2. ledger'[topic[cur].job][topic[cur].worker] >= topic[cur].n
      BY <3>1, <1>2, UpsertRaises
    <3> QED BY <3>1, <3>2, <1>2 DEF Control, TypeOK, Position, Progress, Folded
  <2>2. CASE SkipForeign \/ UpsertFails \/ Sum \/ SumFails
    <3>1. \E last \in 0..cur : NextRecord(last)
      BY <2>2, <1>2 DEF SkipForeign, UpsertFails, Sum, SumFails, Settle, Skip
    <3> QED BY <3>1, <1>1, NextRecordPosition DEF Control
  <2> QED BY <2>1, <2>2
<1>9. TypeOK'
  BY <1>1, <1>3, <1>5, <1>7, <1>8 DEF Control, TypeOK
<1> QED BY <1>6, <1>8, <1>9 DEF Control

LEMMA ControlStep ==
    ASSUME Control, [Next]_vars
    PROVE  Control'
<1>1. CASE UNCHANGED vars
  BY <1>1 DEF vars, sourceVars, trackerVars, jobVars, Control, TypeOK, Position,
              Progress, Honest, Folded
<1>2. ASSUME NEW j \in Jobs, NEW w \in Workers, Count(j, w) PROVE Control'
  BY <1>2, CountControl
<1>3. ASSUME NEW j \in Jobs, NEW w \in Workers, Report(j, w) PROVE Control'
  <2>1. PICK n \in 1..count[j][w] :
            Append1([job |-> j, worker |-> w, n |-> n])
    BY <1>3 DEF Report
  <2>2. count[j][w] \in 0..MaxCount
    BY DEF Control, TypeOK
  <2>3. [job |-> j, worker |-> w, n |-> n] \in Reports /\ n <= count[j][w]
    BY <2>2, Bounds DEF Reports
  <2> QED BY <2>1, <2>3, AppendControl
<1>4. CASE ReportForeign
  BY <1>4, AppendControl DEF ReportForeign
<1> QED
  BY <1>1, <1>2, <1>3, <1>4, ProcessControl, RecordControl
     DEF Next, TrackerStep

(* Every variable keeps its type, whatever the number of jobs and workers, *)
(* the length of the topic and the number of faults and crashes: the       *)
(* tracker reads no record that is not there, and no row of the ledger     *)
(* exceeds what its worker counted.                                        *)
THEOREM TypeCorrect == Spec => []TypeOK
<1>1. Spec => []Control
  <2>1. Control /\ [Next]_vars => Control'
    BY ControlStep
  <2> QED BY InitControl, <2>1, PTL DEF Spec
<1>2. Control => TypeOK
  BY DEF Control
<1> QED BY <1>1, <1>2, PTL

----------------------------------------------------------------------------
(* Caught is inductive.                                                    *)

(* Progress is within the topic, and ahead of the offset.                  *)
LEMMA ProgressTyped ==
    ASSUME Control
    PROVE  /\ Len(topic) \in Nat /\ DOMAIN topic = 1..Len(topic)
           /\ Progress \in 0..Len(topic) /\ committed \in 0..Progress
           /\ pc \in {"upsert", "sum"} =>
                 /\ cur \in 1..Len(topic) /\ cur \in DOMAIN topic
                 /\ Progress = cur - 1 /\ settled \in 0..cur /\ cur \in 0..cur
           /\ pc \notin {"upsert", "sum"} => Progress = pos
<1>1. /\ Len(topic) \in Nat /\ DOMAIN topic = 1..Len(topic)
      /\ pos \in 0..Len(topic) /\ committed \in 0..Len(topic)
      /\ cur \in 0..(Len(topic) + 1) /\ upto \in 0..Len(topic)
      /\ settled \in 0..Len(topic)
  BY DEF Control, TypeOK
<1>2. Position
  BY DEF Control
<1> QED BY <1>1, <1>2 DEF Position, Progress

(* What does not move has not shrunk.                                      *)
LEMMA Still ==
    ASSUME Control
    PROVE  \A j \in Jobs : /\ shown[j] <= shown[j]
                           /\ \A w \in Workers : ledger[j][w] <= ledger[j][w]
<1>1. /\ shown \in [Jobs -> Nat]
      /\ ledger \in [Jobs -> [Workers -> 0..MaxCount]]
  BY DEF Control, TypeOK
<1> QED BY <1>1, Bounds

(* A step that gets no further with a report, unless the report fails,     *)
(* leaves the counters caught up.                                          *)
LEMMA CaughtKept ==
    ASSUME Control, Control', Caught,
           \A i \in 1..Progress' :
               (i \in DOMAIN topic' /\ topic'[i] # Foreign
                                      /\ i \notin failed') =>
                   /\ i \in 1..Progress /\ i \notin failed
                   /\ i \in DOMAIN topic /\ topic'[i] = topic[i],
           \A j \in Jobs, w \in Workers : ledger[j][w] <= ledger'[j][w],
           \A j \in Jobs : open'[j] => open[j] /\ shown[j] <= shown'[j]
    PROVE  Caught'
<1> SUFFICES ASSUME NEW j \in Jobs, open'[j]
             PROVE  \E f \in [Workers -> 0..MaxCount] : Covers(f, j)'
  BY DEF Caught
<1>1. PICK f \in [Workers -> 0..MaxCount] : Covers(f, j)
  BY DEF Caught
<1>2. \A w \in Workers : f[w] <= ledger'[j][w]
  <2> TAKE w \in Workers
  <2>1. /\ f[w] \in 0..MaxCount /\ ledger[j][w] \in 0..MaxCount
        /\ ledger'[j][w] \in 0..MaxCount
    BY DEF Control, TypeOK
  <2>2. f[w] <= ledger[j][w] /\ ledger[j][w] <= ledger'[j][w]
    BY <1>1 DEF Covers
  <2> QED BY <2>1, <2>2, Bounds
<1>3. ASSUME NEW i \in 1..Progress', IsReport(i)', i \notin failed',
             topic'[i].job = j
      PROVE  topic'[i].n <= f[topic'[i].worker]
  <2>1. /\ i \in 1..Progress /\ i \notin failed /\ IsReport(i)
        /\ topic'[i] = topic[i]
    BY <1>3 DEF IsReport
  <2> QED BY <2>1, <1>1, <1>3 DEF Covers
<1>4. SumFunction(f) <= shown'[j]
  <2>1. f \in [Workers -> Nat]
    BY Bounds
  <2>2. SumFunction(f) \in Nat
    BY <2>1, Bounds, SumType
  <2>3. shown[j] \in Nat /\ shown'[j] \in Nat /\ shown[j] <= shown'[j]
    BY DEF Control, TypeOK
  <2>4. SumFunction(f) <= shown[j]
    BY <1>1 DEF Covers
  <2> QED BY <2>2, <2>3, <2>4
<1>5. Covers(f, j)'
  BY <1>2, <1>3, <1>4 DEF Covers
<1> QED BY <1>5

(* The sum catches up with the whole ledger of the job of the report in    *)
(* hand, which the upsert has folded.                                      *)
LEMMA SumCaught ==
    ASSUME Control, Control', Caught, Sum
    PROVE  Caught'
<1> DEFINE r == topic[cur]
<1>1. /\ pc = "sum" /\ shown' = Summed(r.job) /\ failed' = failed \ {cur}
      /\ UNCHANGED <<count, topic, committed, ledger, open>>
  BY DEF Sum, Settle, InHand, sourceVars
<1>2. Progress = cur - 1 /\ Progress' = cur /\ cur \in DOMAIN topic
  <2>1. cur \in DOMAIN topic /\ cur \in 0..cur
    BY <1>1, ProgressTyped
  <2>2. NextRecord(cur)
    BY DEF Sum, Settle
  <2> QED BY <1>1, <2>1, <2>2, NextRecordPosition DEF Control
<1>3. r \in Reports /\ r.job \in Jobs /\ r # Foreign /\ Folded(cur)
  BY <1>1, <1>2, RecordTyped DEF Control, Position
<1> SUFFICES ASSUME NEW j \in Jobs, open'[j]
             PROVE  \E f \in [Workers -> 0..MaxCount] : Covers(f, j)'
  BY DEF Caught
<1>4. PICK f \in [Workers -> 0..MaxCount] : Covers(f, j)
  BY <1>1 DEF Caught
<1>5. CASE j = r.job
  <2>1. /\ ledger[j] \in [Workers -> 0..MaxCount]
        /\ SumFunction(ledger[j]) \in Nat
    BY RowsTyped DEF Control, TypeOK
  <2>2. shown'[j] = SumFunction(ledger[j])
    BY <1>1, <1>3, <1>5 DEF Summed, Control, TypeOK
  <2>3. \A w \in Workers : ledger[j][w] <= ledger'[j][w]
    BY <2>1, <1>1, Bounds
  <2>4. ASSUME NEW i \in 1..Progress', IsReport(i)', i \notin failed',
               topic'[i].job = j
        PROVE  topic'[i].n <= ledger[j][topic'[i].worker]
    <3>1. CASE i = cur
      BY <3>1, <1>1, <1>3, <1>5 DEF Folded, Reports
    <3>2. CASE i # cur
      <4>1. i \in 1..Progress /\ IsReport(i) /\ i \notin failed
        BY <3>2, <2>4, <1>1, <1>2, ProgressTyped DEF IsReport
      <4>2. topic[i].n <= f[topic[i].worker]
        BY <4>1, <2>4, <1>1, <1>4 DEF Covers
      <4>3. topic[i].worker \in Workers /\ topic[i].n \in Nat
        BY <4>1, RecordTyped, Bounds DEF IsReport, Control
      <4>4. f[topic[i].worker] <= ledger[j][topic[i].worker]
        BY <4>3, <1>4 DEF Covers
      <4>5. /\ f[topic[i].worker] \in 0..MaxCount
            /\ ledger[j][topic[i].worker] \in 0..MaxCount
        BY <4>3, <2>1
      <4> QED BY <4>2, <4>3, <4>4, <4>5, <1>1, Bounds
    <3> QED BY <3>1, <3>2
  <2>5. Covers(ledger[j], j)'
    BY <2>1, <2>2, <2>3, <2>4, <1>1 DEF Covers
  <2> QED BY <2>1, <2>5, <1>1
<1>6. CASE j # r.job
  <2>1. shown'[j] = shown[j]
    BY <1>1, <1>6 DEF Summed, Control, TypeOK
  <2>2. ASSUME NEW i \in 1..Progress', IsReport(i)', i \notin failed',
               topic'[i].job = j
        PROVE  i \in 1..Progress /\ IsReport(i) /\ i \notin failed
    BY <2>2, <1>1, <1>2, <1>6, ProgressTyped DEF IsReport
  <2>3. Covers(f, j)'
    BY <2>1, <2>2, <1>1, <1>4 DEF Covers
  <2> QED BY <2>3
<1> QED BY <1>5, <1>6

LEMMA SourceCaught ==
    ASSUME Control, Control', Caught,
           \/ \E j \in Jobs : Close(j) \/ \E w \in Workers : Count(j, w)
           \/ \E r \in Reports \cup {Foreign} : Append1(r)
    PROVE  Caught'
<1> USE DEF sourceVars, jobVars, trackerVars
<1>1. /\ UNCHANGED <<pc, cur, pos, ledger, shown, failed>>
      /\ \A j \in Jobs : open'[j] => open[j]
  BY DEF Close, Count, Append1, Control, TypeOK
<1>2. \A i \in DOMAIN topic : topic'[i] = topic[i]
  <2>1. topic \in Seq(Reports \cup {Foreign})
    BY DEF Control, TypeOK
  <2>2. ASSUME NEW r \in Reports \cup {Foreign}, topic' = Append(topic, r)
        PROVE  \A i \in DOMAIN topic : topic'[i] = topic[i]
    BY <2>1, <2>2
  <2> QED BY <2>2 DEF Close, Count, Append1
<1>3. Progress' = Progress /\ 1..Progress \subseteq DOMAIN topic
  BY <1>1, ProgressTyped DEF Progress
<1>4. \A j \in Jobs : /\ shown[j] <= shown'[j]
                     /\ \A w \in Workers : ledger[j][w] <= ledger'[j][w]
  BY <1>1, Still
<1> QED BY <1>1, <1>2, <1>3, <1>4, CaughtKept

LEMMA ProcessCaught ==
    ASSUME Control, Control', Caught,
           Poll \/ Commit \/ CommitFails \/ Crash \/ Restart
    PROVE  Caught'
<1> USE DEF sourceVars, jobVars, trackerVars
<1>1. UNCHANGED <<topic, ledger, shown, open, failed>>
  BY DEF Poll, Commit, CommitFails, Crash, Restart
<1>2. /\ Progress \in Int /\ Progress' \in Int /\ Progress' <= Progress
      /\ 1..Progress \subseteq DOMAIN topic
  <2>1. CASE Poll
    BY <2>1, ProgressTyped DEF Poll, Progress
  <2>2. CASE Commit \/ CommitFails
    <3>1. pc = "commit" /\ pc' \in {"commit", "poll"} /\ pos' = pos
      BY <2>2 DEF Commit, CommitFails, InHand
    <3> QED BY <3>1, ProgressTyped DEF Progress
  <2>3. CASE Crash
    BY <2>3, ProgressTyped DEF Crash, Progress
  <2>4. CASE Restart
    BY <2>4, ProgressTyped DEF Restart, Progress
  <2> QED BY <2>1, <2>2, <2>3, <2>4
<1>3. \A j \in Jobs : /\ shown[j] <= shown'[j]
                     /\ \A w \in Workers : ledger[j][w] <= ledger'[j][w]
  BY <1>1, Still
<1> QED BY <1>1, <1>2, <1>3, CaughtKept

LEMMA RecordCaught ==
    ASSUME Control, Control', Caught,
           SkipForeign \/ Upsert \/ UpsertFails \/ SumFails
    PROVE  Caught'
<1> USE DEF sourceVars, jobVars, trackerVars
<1>1. /\ pc \in {"upsert", "sum"}
      /\ UNCHANGED <<count, topic, committed, open>>
  BY DEF SkipForeign, Upsert, UpsertFails, SumFails, InHand
<1>2. /\ Len(topic) \in Nat /\ cur \in 1..Len(topic) /\ cur \in DOMAIN topic
      /\ settled \in 0..cur /\ cur \in 0..cur /\ Progress = cur - 1
      /\ 1..Progress \subseteq DOMAIN topic
  BY <1>1, RecordInHand DEF Control
<1>3. ASSUME NEW j \in Jobs, NEW w \in Workers
      PROVE  ledger[j][w] <= ledger'[j][w]
  <2>1. ledger[j][w] \in 0..MaxCount
    BY DEF Control, TypeOK
  <2>2. CASE UNCHANGED ledger
    BY <2>1, <2>2, Bounds
  <2>3. CASE topic[cur] # Foreign /\ ledger' = Upserted(topic[cur])
    BY <2>3, <1>2, UpsertRaises
  <2> QED BY <2>2, <2>3 DEF SkipForeign, Upsert, UpsertFails, SumFails
<1>4. ASSUME NEW j \in Jobs PROVE shown[j] <= shown'[j]
  <2>1. /\ shown \in [Jobs -> Nat] /\ shown[j] \in Nat
        /\ shown[j] <= SumFunction(ledger[j])
    BY DEF Control, TypeOK, Honest
  <2>2. CASE UNCHANGED shown
    BY <2>1, <2>2
  <2>3. CASE shown' = Summed(topic[cur].job)
    BY <2>1, <2>3 DEF Summed
  <2> QED BY <2>2, <2>3 DEF SkipForeign, Upsert, UpsertFails, SumFails
<1>5. ASSUME NEW i \in 1..Progress', topic[i] # Foreign, i \notin failed'
      PROVE  i \in 1..Progress /\ i \notin failed
  <2>1. CASE Upsert
    BY <2>1, <1>1, <1>2, <1>5 DEF Upsert, Progress
  <2>2. CASE SkipForeign \/ UpsertFails \/ SumFails
    <3>1. \E last \in 0..cur : NextRecord(last)
      BY <2>2, <1>2 DEF SkipForeign, UpsertFails, SumFails, Settle, Skip
    <3>2. Progress' = cur
      BY <3>1, <1>1, NextRecordPosition DEF Control
    <3>3. i # cur
      BY <2>2, <1>5 DEF SkipForeign, UpsertFails, SumFails, Settle, Skip
    <3>4. i \notin failed
      BY <2>2, <3>3, <1>5 DEF SkipForeign, UpsertFails, SumFails, Settle, Skip
    <3> QED BY <3>2, <3>3, <3>4, <1>2
  <2> QED BY <2>1, <2>2
<1> QED BY <1>1, <1>2, <1>3, <1>4, <1>5, CaughtKept

LEMMA InitCaught == Init => Caught
<1> SUFFICES ASSUME Init, NEW j \in Jobs
             PROVE  \E f \in [Workers -> 0..MaxCount] : Covers(f, j)
  BY DEF Caught
<1> DEFINE f == [w \in Workers |-> 0]
<1>1. /\ f \in [Workers -> 0..MaxCount]
      /\ \A w \in Workers : f[w] <= ledger[j][w]
  BY Bounds DEF Init, ByJobAndWorker
<1>2. 1..Progress = {}
  BY DEF Init, Progress
<1>3. SumFunction(f) = 0 /\ shown[j] = 0
  BY Bounds, SumZero DEF Init
<1>4. Covers(f, j)
  <2> HIDE DEF f
  <2> QED BY <1>1, <1>2, <1>3 DEF Covers
<1> QED BY <1>1, <1>4

LEMMA CaughtStep ==
    ASSUME Control, Control', Caught, [Next]_vars
    PROVE  Caught'
<1>1. CASE UNCHANGED vars
  BY <1>1 DEF vars, sourceVars, trackerVars, jobVars, Caught, Covers, Progress,
              IsReport
<1>2. CASE Next
  <2>1. ASSUME NEW j \in Jobs, NEW w \in Workers, Report(j, w) PROVE Caught'
    <3>1. PICK n \in 1..count[j][w] :
              Append1([job |-> j, worker |-> w, n |-> n])
      BY <2>1 DEF Report
    <3>2. count[j][w] \in 0..MaxCount
      BY DEF Control, TypeOK
    <3>3. [job |-> j, worker |-> w, n |-> n] \in Reports
      BY <3>2, Bounds DEF Reports
    <3> QED BY <3>1, <3>3, SourceCaught
  <2>2. CASE ReportForeign
    BY <2>2, SourceCaught DEF ReportForeign
  <2> QED BY <1>2, <2>1, <2>2, SourceCaught, ProcessCaught, RecordCaught,
             SumCaught DEF Next, TrackerStep
<1> QED BY <1>1, <1>2

(* The inductive invariant holds in every state of every behavior.         *)
THEOREM Inductive == Spec => []IInv
<1>1. Init => IInv
  BY InitControl, InitCaught DEF IInv
<1>2. IInv /\ [Next]_vars => IInv'
  BY ControlStep, CaughtStep DEF IInv
<1> QED BY <1>1, <1>2, PTL DEF Spec

----------------------------------------------------------------------------
(* A non-empty set of counts has a greatest.                               *)
LEMMA GreatestExists ==
    ASSUME NEW n \in Nat, NEW S \in SUBSET (0..n), S # {}
    PROVE  \E m \in S : \A k \in S : m >= k
<1> DEFINE Good == {s \in SUBSET (0..n) :
                       s # {} => \E m \in s : \A k \in s : m >= k}
<1>1. IsFiniteSet(0..n)
  BY FS_Interval
<1>2. {} \in Good /\ Good \in SUBSET (SUBSET (0..n))
  OBVIOUS
<1>3. ASSUME NEW s \in SUBSET (0..n), s # {}, \A x \in s : s \ {x} \in Good
      PROVE  s \in Good
  <2>1. PICK x \in s : TRUE
    BY <1>3
  <2>2. CASE s \ {x} = {}
    BY <2>1, <2>2
  <2>3. CASE s \ {x} # {}
    <3>1. PICK m \in s \ {x} : \A k \in s \ {x} : m >= k
      BY <2>1, <2>3, <1>3
    <3>2. m \in Nat /\ x \in Nat /\ \A k \in s : k \in Nat
      BY <2>1, <3>1
    <3>3. CASE m >= x
      BY <3>1, <3>3
    <3>4. CASE x >= m
      BY <2>1, <3>1, <3>2, <3>4
    <3> QED BY <3>2, <3>3, <3>4
  <2> QED BY <2>2, <2>3
<1> HIDE DEF Good
<1>4. \A s \in SUBSET (0..n) : s \in Good
  <2> DEFINE T == 0..n
  <2>1. IsFiniteSet(T) /\ {} \in Good /\ Good \in SUBSET (SUBSET T)
    BY <1>1, <1>2
  <2>2. \A s \in SUBSET T :
            s # {} /\ (\A x \in s : s \ {x} \in Good) => s \in Good
    BY <1>3
  <2> HIDE DEF T
  <2>3. \A s \in SUBSET T : s \in Good
    BY <2>1, <2>2, SetInduction
  <2> QED BY <2>3 DEF T
<1> QED BY <1>4 DEF Good

(* While a job is open its counter has caught up with every report that is *)
(* committed and whose last fold did not fail, whatever crashes between    *)
(* the two statements and the commit (import_jobs.go:157-158).             *)
THEOREM CommittedReportsShown == Spec => []CommittedIsShown
<1>1. ASSUME IInv PROVE CommittedIsShown
  <2> SUFFICES ASSUME NEW j \in Jobs, open[j]
               PROVE  SumFunction([w \in Workers |->
                          CHOOSE n \in Told(j, w) \cup {0} :
                              \A m \in Told(j, w) : n >= m]) <= shown[j]
    <3>1. shown \in [Jobs -> Nat]
      BY <1>1 DEF IInv, Control, TypeOK
    <3> QED BY <3>1 DEF CommittedIsShown
  <2> DEFINE top(w) == CHOOSE n \in Told(j, w) \cup {0} :
                           \A m \in Told(j, w) : n >= m
             g == [w \in Workers |-> top(w)]
  <2>1. PICK f \in [Workers -> 0..MaxCount] : Covers(f, j)
    BY <1>1 DEF IInv, Caught
  <2>2. ASSUME NEW w \in Workers
        PROVE  top(w) \in Nat /\ top(w) <= f[w]
    <3>1. \A n \in Told(j, w) : n \in 1..MaxCount /\ n <= f[w]
      <4>1. ASSUME NEW i \in 1..committed, IsReport(i), i \notin failed,
                   topic[i].job = j, topic[i].worker = w
            PROVE  topic[i].n \in 1..MaxCount /\ topic[i].n <= f[w]
        <5>1. i \in 1..Progress
          BY <1>1, ProgressTyped DEF IInv
        <5>2. topic[i].n \in 1..MaxCount
          BY <4>1, <1>1, RecordTyped DEF IsReport, IInv, Control
        <5> QED BY <4>1, <5>1, <5>2, <2>1 DEF Covers
      <4> QED BY <4>1 DEF Told
    <3>2. Told(j, w) \cup {0} \in SUBSET (0..MaxCount)
      BY <3>1, Bounds
    <3>3. \E n \in Told(j, w) \cup {0} : \A m \in Told(j, w) \cup {0} : n >= m
      <4> HIDE DEF top, g
      <4>1. Told(j, w) \cup {0} # {}
        OBVIOUS
      <4> QED BY <3>2, <4>1, Bounds, GreatestExists
    <3>4. \E n \in Told(j, w) \cup {0} : \A m \in Told(j, w) : n >= m
      BY <3>3
    <3>5. top(w) \in Told(j, w) \cup {0}
      BY <3>4
    <3> HIDE DEF top
    <3> QED BY <3>1, <3>5, Bounds
  <2>3. f \in [Workers -> Nat]
    BY <2>1, Bounds
  <2>4. g \in [Workers -> Nat] /\ \A w \in Workers : g[w] <= f[w]
    <3> HIDE DEF top
    <3> QED BY <2>2
  <2> HIDE DEF g
  <2>5. SumFunction(g) <= SumFunction(f)
    BY <2>3, <2>4, Bounds, SumMonotone
  <2>6. SumFunction(f) <= shown[j]
    BY <2>1 DEF Covers
  <2>7. SumFunction(g) \in Nat /\ SumFunction(f) \in Nat /\ shown[j] \in Nat
    BY <2>3, <2>4, <1>1, Bounds, SumType DEF IInv, Control, TypeOK
  <2>8. SumFunction(g) <= shown[j]
    BY <2>5, <2>6, <2>7
  <2> QED BY <2>8 DEF g
<1> QED BY <1>1, Inductive, PTL

----------------------------------------------------------------------------
(* ProgressTracker implements ProgressCounter.                             *)

LEMMA InitMaps == Init => Counter!Init
<1> SUFFICES ASSUME Init PROVE Counter!Init
  OBVIOUS
<1>1. \A j \in Jobs : SumFunction(count[j]) = 0
  <2> TAKE j \in Jobs
  <2>1. count[j] = [w \in Workers |-> 0]
    BY DEF Init, ByJobAndWorker
  <2> QED BY <2>1, Bounds, SumZero
<1> QED BY <1>1 DEF Init, Counter!Init

(* The counters of the jobs, and the total of each, are well typed.        *)
LEMMA TotalTyped ==
    ASSUME Control, NEW j \in Jobs
    PROVE  /\ SumFunction(count[j]) \in Nat /\ SumFunction(ledger[j]) \in Nat
           /\ shown[j] \in Nat /\ shown[j] <= SumFunction(ledger[j])
           /\ SumFunction(ledger[j]) <= SumFunction(count[j])
<1>1. /\ count \in [Jobs -> [Workers -> 0..MaxCount]]
      /\ ledger \in [Jobs -> [Workers -> 0..MaxCount]]
      /\ shown[j] \in Nat /\ shown[j] <= SumFunction(ledger[j])
      /\ \A k \in Jobs, w \in Workers : ledger[k][w] <= count[k][w]
  BY DEF Control, TypeOK, Honest
<1> QED BY <1>1, RowsTyped, RowsGrow

(* A row a worker counts is a Count of the abstract counter.               *)
LEMMA CountMaps ==
    ASSUME Control, Control', NEW j \in Jobs, NEW w \in Workers, Count(j, w)
    PROVE  Counter!Count(j)
<1> DEFINE total == [k \in Jobs |-> SumFunction(count[k])]
<1>1. /\ count' = [count EXCEPT ![j][w] = @ + 1]
      /\ UNCHANGED <<shown, open>>
  BY DEF Count, jobVars
<1>2. count \in [Jobs -> [Workers -> 0..MaxCount]]
  BY DEF Control, TypeOK
<1>3. SumFunction(count[j]) < SumFunction(count'[j])
  <2>1. count[j] \in [Workers -> Nat]
    BY <1>2, RowsTyped
  <2>2. count'[j] = [count[j] EXCEPT ![w] = @ + 1]
    BY <1>1, <1>2
  <2> QED BY <2>1, <2>2, Bounds, SumGrows
<1>4. \A k \in Jobs : k # j => count'[k] = count[k]
  BY <1>1, <1>2
<1>5. SumFunction(count[j]) \in Nat /\ SumFunction(count'[j]) \in Nat
  <2>1. count' \in [Jobs -> [Workers -> 0..MaxCount]]
    BY DEF Control, TypeOK
  <2> QED BY <1>2, <2>1, RowsTyped
<1>6. total' = [total EXCEPT ![j] = total'[j]]
  BY <1>4
<1>7. total'[j] \in Nat /\ total'[j] > total[j]
  BY <1>3, <1>5
<1> QED BY <1>1, <1>6, <1>7 DEF Counter!Count

(* The sum shows what the ledger adds up to: no less than what was shown,  *)
(* no more than the workers have counted.                                  *)
LEMMA SumMaps ==
    ASSUME Control, cur \in DOMAIN topic, topic[cur] # Foreign,
           shown' = Summed(topic[cur].job), UNCHANGED <<count, open>>
    PROVE  Counter!Next \/ UNCHANGED Counter!vars
<1> DEFINE j == topic[cur].job
           n == SumFunction(ledger[j])
<1>1. j \in Jobs
  BY RecordTyped DEF Control
<1>2. CASE open[j]
  <2>1. n \in shown[j]..SumFunction(count[j])
    BY <1>1, TotalTyped
  <2>2. shown' = [shown EXCEPT ![j] = n]
    BY <1>2 DEF Summed
  <2>3. Counter!Show(j)
    <3> HIDE DEF n, j
    <3> QED BY <1>1, <1>2, <2>1, <2>2 DEF Counter!Show
  <2> QED BY <1>1, <2>3 DEF Counter!Next
<1>3. CASE ~open[j]
  BY <1>3 DEF Summed, Counter!vars
<1> QED BY <1>2, <1>3

LEMMA NextMaps ==
    ASSUME Control, Control', [Next]_vars
    PROVE  Counter!Next \/ UNCHANGED Counter!vars
<1> USE DEF sourceVars, jobVars
<1>1. ASSUME NEW j \in Jobs, NEW w \in Workers, Count(j, w)
      PROVE  Counter!Next
  BY <1>1, CountMaps DEF Counter!Next
<1>2. ASSUME NEW j \in Jobs, Close(j) PROVE Counter!Next
  <2>1. Counter!Close(j)
    BY <1>2 DEF Close, Counter!Close
  <2> QED BY <2>1 DEF Counter!Next
<1>3. CASE Sum \/ SumFails
  <2>1. pc = "sum" /\ UNCHANGED <<count, open>>
    BY <1>3 DEF Sum, SumFails, InHand
  <2>2. cur \in DOMAIN topic /\ topic[cur] # Foreign
    BY <2>1, ProgressTyped DEF Control, Position
  <2>3. CASE shown' = Summed(topic[cur].job)
    BY <2>1, <2>2, <2>3, SumMaps
  <2>4. CASE shown' = shown
    BY <2>1, <2>4 DEF Counter!vars
  <2> QED BY <1>3, <2>3, <2>4 DEF Sum, SumFails
<1>4. CASE UNCHANGED <<count, shown, open>>
  BY <1>4 DEF Counter!vars
<1>5. ASSUME NEW j \in Jobs, NEW w \in Workers, Report(j, w)
      PROVE  UNCHANGED <<count, shown, open>>
  BY <1>5 DEF Report, Append1
<1>6. CASE ReportForeign \/ Poll \/ SkipForeign \/ Upsert \/ Commit
           \/ UpsertFails \/ CommitFails \/ Crash \/ Restart \/ UNCHANGED vars
  <2>1. UNCHANGED <<count, shown, open>>
    BY <1>6 DEF ReportForeign, Append1, Poll, SkipForeign, Upsert, Commit,
                UpsertFails, CommitFails, Crash, Restart, vars
  <2> QED BY <2>1, <1>4
<1> QED BY <1>1, <1>2, <1>3, <1>4, <1>5, <1>6 DEF Next, TrackerStep

(* Each behavior of the tracker is one of the counter an import job        *)
(* promises: what is shown never exceeds what was counted, only grows, and *)
(* stands still once the job is over, with duplicated, late and replayed   *)
(* snapshots and a fold torn between its statements                        *)
(* (import_jobs.go:152-160).                                               *)
THEOREM ImplementsCounter == Spec => CounterIsHonest
<1>1. Init => Counter!Init
  BY InitMaps
<1>2. IInv /\ IInv' /\ [Next]_vars => [Counter!Next]_(Counter!vars)
  BY NextMaps DEF IInv
<1> QED BY <1>1, <1>2, Inductive, PTL DEF Spec, CounterIsHonest, Counter!Spec
=============================================================================
