------------------------ MODULE ProductListingProofs ------------------------
(***************************************************************************)
(* Proofs about ProductListing, for any batches, searches, page sizes and  *)
(* requests in flight: its types, RestMeansCurrent and RangeMatchesRows.   *)
(* The invariant says where the newest query is: last of the requests in   *)
(* flight, or answered.                                                    *)
(***************************************************************************)
EXTENDS ProductListing, SequenceTheorems, TLAPS

(* No answer is to a query the server refuses.                             *)
ShownAccepted == page >= 1

(* As long as no answer was overtaken or missed, the newest query is that  *)
(* of the screen.                                                          *)
NewestIsCurrent ==
    ~missed =>
        IF requests = <<>>
        THEN shown.query = Query(filters, selected)
        ELSE requests[Len(requests)] = Query(filters, selected)

SpinsWhileAsked == requests = <<>> => ~loading

IInv == TypeOK /\ ShownAccepted /\ NewestIsCurrent /\ SpinsWhileAsked

-----------------------------------------------------------------------------
(* The filters the controls set are filters.                               *)
LEMMA FirstFilters == defaultFilters \in Filters /\ defaultFilters.page = 1
BY ConstantsAssumption DEF defaultFilters, Filters

LEMMA QueryType ==
    ASSUME NEW f \in Filters, NEW b \in Batches \cup {All}
    PROVE  Query(f, b) \in Queries
BY DEF Query, Queries

(* The page buttons lead to pages.                                         *)
LEMMA OfferedPages ==
    ASSUME TypeOK, ShownAccepted, NEW p \in Offered, p <= MaxPage
    PROVE  p \in 0..MaxPage
<1>1. page \in 1..MaxPage
  BY DEF TypeOK, ShownAccepted, page, Queries, Filters
<1>2. shown.total \in Nat /\ shown.query.filters.limit \in Nat \ {0}
  BY ConstantsAssumption DEF TypeOK, Queries, Filters
<1>3. ASSUME NEW m \in Nat, NEW n \in Nat \ {0}
      PROVE  (m + n - 1) \div n \in Nat
  BY <1>3, Z3
<1>4. PagesOf(shown) \in Nat
  BY <1>2, <1>3 DEF PagesOf
<1> QED
  BY <1>1, <1>4, ConstantsAssumption DEF Offered, IsFirstPage

-----------------------------------------------------------------------------
(* Asking again: the new query is the last, and the screen's.              *)
LEMMA LoadStep ==
    ASSUME IInv, NEW f \in Filters, NEW b \in Batches \cup {All},
           Load(f, b), filters' = f, selected' = b,
           field' \in Names, viewing' \in BOOLEAN
    PROVE  IInv'
<1> DEFINE q == Query(f, b)
<1>1. q \in Queries
  BY QueryType
<1>2. /\ requests \in Seq(Queries) /\ Len(requests) < MaxRequests
      /\ requests' = Append(requests, q)
  BY DEF IInv, TypeOK, Load
<1>3. /\ requests' \in Seq(Queries)
      /\ Len(requests') = Len(requests) + 1
      /\ requests'[Len(requests')] = q
      /\ requests' # <<>>
  BY <1>1, <1>2
<1>4. TypeOK'
  BY <1>2, <1>3, ConstantsAssumption DEF IInv, TypeOK, Load
<1>5. NewestIsCurrent' /\ SpinsWhileAsked' /\ ShownAccepted'
  BY <1>3 DEF IInv, Load, NewestIsCurrent, SpinsWhileAsked, ShownAccepted, page
<1> QED
  BY <1>4, <1>5 DEF IInv

LEMMA UpdateFiltersStep ==
    ASSUME IInv, NEW f \in Filters, UpdateFilters(f), field' \in Names
    PROVE  IInv'
<1>1. Load(f, selected) /\ filters' = f /\ selected' = selected
  BY DEF UpdateFilters
<1>2. selected \in Batches \cup {All} /\ viewing' \in BOOLEAN
  BY DEF IInv, TypeOK, UpdateFilters
<1> QED
  BY <1>1, <1>2, LoadStep

(* What is left of the requests when one has gone.                         *)
LEMMA Removed ==
    ASSUME NEW S, NEW s \in Seq(S), NEW i \in 1..Len(s)
    PROVE  /\ RemoveAt(s, i) \in Seq(S)
           /\ Len(RemoveAt(s, i)) = Len(s) - 1
           /\ i < Len(s) =>
                RemoveAt(s, i)[Len(s) - 1] = s[Len(s)]
<1> DEFINE a == SubSeq(s, 1, i - 1)
           b == SubSeq(s, i + 1, Len(s))
<1>1. a \in Seq(S) /\ Len(a) = i - 1
  OBVIOUS
<1>2. b \in Seq(S) /\ Len(b) = Len(s) - i
  OBVIOUS
<1>3. i < Len(s) => b[Len(b)] = s[Len(s)]
  <2>1. \A j \in (i + 1)..Len(s) : s[j] \in S
    OBVIOUS
  <2>2. \A j \in 1..(Len(s) - (i + 1) + 1) :
            SubSeq(s, i + 1, Len(s))[j] = s[i + 1 + j - 1]
    BY <2>1, SubSeqProperties
  <2> HIDE DEF b
  <2>3. ASSUME i < Len(s) PROVE b[Len(s) - i] = s[Len(s)]
    <3>1. Len(s) - i \in 1..(Len(s) - (i + 1) + 1)
      BY <2>3
    <3>2. i + 1 + (Len(s) - i) - 1 = Len(s)
      OBVIOUS
    <3> QED
      BY <2>2, <3>1, <3>2 DEF b
  <2> QED
    BY <1>2, <2>3
<1>4. RemoveAt(s, i) = a \o b
  BY DEF RemoveAt
<1> HIDE DEF a, b
<1>5. a \o b \in Seq(S) /\ Len(a \o b) = Len(s) - 1
  BY <1>1, <1>2
<1>6. i < Len(s) => (a \o b)[Len(s) - 1] = b[Len(b)]
  BY <1>1, <1>2
<1> QED
  BY <1>3, <1>4, <1>5, <1>6

LEMMA DoneStep ==
    ASSUME IInv, NEW i \in 1..Len(requests),
           Answer(i) \/ Refused(i) \/ Fails(i)
    PROVE  IInv'
<1>1. /\ requests \in Seq(Queries) /\ requests[i] \in Queries
      /\ Len(requests) \in Nat
  BY DEF IInv, TypeOK
<1>2. Done(i) /\ requests' = RemoveAt(requests, i) /\ loading' = FALSE
  BY DEF Answer, Refused, Fails, Done
<1>3. /\ requests' \in Seq(Queries)
      /\ Len(requests') = Len(requests) - 1
      /\ i < Len(requests) => requests'[Len(requests')] = requests[Len(requests)]
  BY <1>1, <1>2, Removed
<1>4. /\ faults' \in 0..MaxFaults /\ missed' \in BOOLEAN
      /\ shown' \in [query : Queries, total : Nat]
      /\ ShownAccepted'
  <2>1. CASE Answer(i)
    <3>1. TotalOf(requests[i]) \in Nat
      BY <1>1, ConstantsAssumption DEF TotalOf, Queries, Filters
    <3> QED
      BY <2>1, <3>1, <1>1 DEF IInv, TypeOK, Answer, ShownAccepted, Accepted,
         page, Queries, Filters
  <2>2. CASE Refused(i)
    BY <2>2 DEF IInv, TypeOK, Refused, ShownAccepted, page
  <2>3. CASE Fails(i)
    BY <2>3, ConstantsAssumption DEF IInv, TypeOK, Fails, ShownAccepted, page
  <2> QED
    BY <2>1, <2>2, <2>3
<1>5. TypeOK'
  <2>1. Len(requests') <= MaxRequests
    BY <1>1, <1>3, ConstantsAssumption DEF IInv, TypeOK
  <2> QED
    BY <1>2, <1>3, <1>4, <2>1 DEF IInv, TypeOK, Done
<1>6. NewestIsCurrent'
  <2>0. (Answer(i) /\ ~(i > 1) /\ ~missed) \/ missed'
    BY Zenon DEF Answer, Refused, Fails
  <2>1. SUFFICES ASSUME Answer(i), i = 1, ~missed
                 PROVE  NewestIsCurrent'
    BY <2>0, SMT DEF NewestIsCurrent
  <2>2. requests # <<>> /\ requests[Len(requests)] = Query(filters, selected)
    BY <2>1, <1>1 DEF IInv, NewestIsCurrent
  <2>3. filters' = filters /\ selected' = selected
    BY <1>2 DEF Done
  <2>4. CASE Len(requests) = 1
    <3>1. shown'.query = requests[1]
      BY <2>1 DEF Answer
    <3>2. requests' = <<>>
      BY <2>4, <1>3
    <3> QED
      BY <2>2, <2>3, <2>4, <3>1, <3>2 DEF NewestIsCurrent, Query
  <2>5. CASE Len(requests) > 1
    <3>1. requests' # <<>>
      BY <2>5, <1>1, <1>3
    <3> QED
      BY <2>1, <2>2, <2>3, <2>5, <1>3, <3>1 DEF NewestIsCurrent, Query
  <2>6. Len(requests) = 1 \/ Len(requests) > 1
    <3>1. Len(requests) \in Nat /\ Len(requests) # 0
      BY <1>1, <2>2
    <3>2. \A n \in Nat : n # 0 => n = 1 \/ n > 1
      OBVIOUS
    <3> QED
      BY <3>1, <3>2, Zenon
  <2> QED
    BY <2>4, <2>5, <2>6
<1> QED
  BY <1>2, <1>4, <1>5, <1>6 DEF IInv, SpinsWhileAsked

-----------------------------------------------------------------------------
LEMMA Initially == Init => IInv
<1> SUFFICES ASSUME Init PROVE IInv
  OBVIOUS
<1>1. /\ Query(defaultFilters, All) \in Queries
      /\ defaultFilters.page = 1
  BY FirstFilters, QueryType
<1>2. /\ requests \in Seq(Queries) /\ Len(requests) = 1
      /\ requests[1] = Query(defaultFilters, All) /\ requests # <<>>
  BY <1>1 DEF Init
<1>3. TypeOK
  <2>1. Len(requests) <= MaxRequests /\ 0 \in 0..MaxFaults
    BY <1>2, ConstantsAssumption
  <2>2. shown \in [query : Queries, total : Nat]
    BY <1>1 DEF Init
  <2> QED
    BY <1>2, <2>1, <2>2, FirstFilters, ConstantsAssumption DEF Init, TypeOK
<1>4. ShownAccepted
  BY <1>1 DEF Init, ShownAccepted, page, Query
<1> QED
  BY <1>2, <1>3, <1>4 DEF Init, IInv, NewestIsCurrent, SpinsWhileAsked

LEMMA Steps == IInv /\ [Next]_vars => IInv'
<1> SUFFICES ASSUME IInv, [Next]_vars PROVE IInv'
  OBVIOUS
<1>0. /\ filters \in Filters /\ field \in Names
      /\ selected \in Batches \cup {All} /\ viewing \in BOOLEAN
  BY DEF IInv, TypeOK
<1>f. filters.name \in Names /\ filters.order \in {"ASC", "DESC"}
  BY <1>0 DEF Filters
<1>p. 1 \in 0..MaxPage
  BY ConstantsAssumption
<1>1. ASSUME NEW b \in Batches, OpenBatch(b) PROVE IInv'
  <2>1. CASE b = selected
    BY <1>0, <1>f, <1>1, <2>1
       DEF OpenBatch, Show, IInv, TypeOK, NewestIsCurrent, SpinsWhileAsked,
           ShownAccepted, page
  <2>2. CASE b # selected
    <3>1. /\ Load(filters, b) /\ filters' = filters /\ selected' = b
          /\ field' \in Names /\ viewing' \in BOOLEAN
      BY <1>1, <1>f, <2>2 DEF OpenBatch, Show
    <3> QED
      BY <1>0, <3>1, LoadStep
  <2> QED
    BY <2>1, <2>2
<1>2. CASE BackToBatches
  <2>1. /\ Load(filters, All) /\ filters' = filters /\ selected' = All
        /\ field' \in Names /\ viewing' \in BOOLEAN
    BY <1>2, <1>f DEF BackToBatches
  <2> QED
    BY <1>0, <2>1, LoadStep
<1>3. CASE UploadNew
  BY <1>3, <1>f DEF UploadNew, IInv, TypeOK, NewestIsCurrent, SpinsWhileAsked,
     ShownAccepted, page
<1>4. ASSUME NEW text \in Names, Type(text) PROVE IInv'
  BY <1>4 DEF Type, IInv, TypeOK, NewestIsCurrent, SpinsWhileAsked,
     ShownAccepted, page
<1>5. CASE Debounce
  <2>1. [filters EXCEPT !.name = field, !.page = 1] \in Filters
    BY <1>0, <1>p DEF Filters
  <2> QED
    BY <1>0, <1>5, <2>1, UpdateFiltersStep DEF Debounce
<1>6. ASSUME NEW l \in Limits, SetLimit(l) PROVE IInv'
  <2>1. [filters EXCEPT !.limit = l, !.page = 1] \in Filters
    BY <1>0, <1>p DEF Filters
  <2> QED
    BY <1>0, <1>6, <2>1, UpdateFiltersStep DEF SetLimit
<1>7. ASSUME NEW c \in Columns, HandleSort(c) PROVE IInv'
  <2>1. PICK o \in {"ASC", "DESC"} :
            UpdateFilters([filters EXCEPT !.by = c, !.order = o, !.page = 1])
    BY <1>7 DEF HandleSort
  <2>2. [filters EXCEPT !.by = c, !.order = o, !.page = 1] \in Filters
    BY <1>0, <1>p DEF Filters
  <2>3. field' = field
    BY <1>7 DEF HandleSort
  <2> QED
    BY <1>0, <2>1, <2>2, <2>3, UpdateFiltersStep
<1>8. ASSUME NEW p \in Offered, ChangePage(p) PROVE IInv'
  <2>1. p \in 0..MaxPage
    BY <1>8, OfferedPages DEF ChangePage, IInv
  <2>2. [filters EXCEPT !.page = p] \in Filters
    BY <1>0, <2>1 DEF Filters
  <2> QED
    BY <1>0, <1>8, <2>2, UpdateFiltersStep DEF ChangePage
<1>9. ASSUME NEW i \in 1..Len(requests), Answer(i) \/ Refused(i) \/ Fails(i)
      PROVE  IInv'
  BY <1>9, DoneStep
<1>10. CASE UNCHANGED vars
  BY <1>10 DEF vars, IInv, TypeOK, NewestIsCurrent, SpinsWhileAsked,
     ShownAccepted, page
<1> QED
  BY <1>1, <1>2, <1>3, <1>4, <1>5, <1>6, <1>7, <1>8, <1>9, <1>10 DEF Next

(* The invariant holds in every state of every behaviour.                  *)
THEOREM Invariant == Spec => []IInv
<1> QED
  BY Initially, Steps, PTL DEF Spec

(* A page there is has its first row among those that match.               *)
LEMMA PageHasRows ==
    ASSUME NEW t \in Nat, NEW l \in Nat \ {0}, NEW p \in Nat \ {0},
           p <= (t + l - 1) \div l
    PROVE  /\ (p - 1) * l \in Nat /\ (p - 1) * l < t
           /\ p * l = (p - 1) * l + l
<1> DEFINE n == (t + l - 1) \div l
<1>1. n \in Nat /\ n * l <= t + l - 1
  BY Z3
<1>2. p * l = (p - 1) * l + l /\ (p - 1) * l \in Nat
  BY Z3
<1>3. p * l <= n * l
  <2> HIDE DEF n
  <2>1. p <= n
    BY DEF n
  <2> QED
    BY <1>1, <2>1, Z3
<1> HIDE DEF n
<1> QED
  BY <1>1, <1>2, <1>3

(* TypeOK: every variable of the hook and of the screen keeps its type; in *)
(* particular no page below 0 is ever asked for (ProductTable.tsx:136-140).*)
THEOREM TypeCorrect == Spec => []TypeOK
<1>1. IInv => TypeOK
  BY DEF IInv
<1> QED
  BY <1>1, Invariant, PTL

(* RestMeansCurrent: when nothing is under way the table shows what was    *)
(* asked for last, unless an answer was overtaken or did not come          *)
(* (useProductsData.ts:79-96).                                             *)
THEOREM TableIsCurrent == Spec => []RestMeansCurrent
<1>1. IInv => RestMeansCurrent
  BY DEF IInv, NewestIsCurrent, SpinsWhileAsked, RestMeansCurrent
<1> QED
  BY <1>1, Invariant, PTL

(* RangeMatchesRows: on every page there is, the range under the table     *)
(* counts its rows (ProductTable.tsx:133-134, products.service.ts:99-101). *)
THEOREM RangeIsRight == Spec => []RangeMatchesRows
<1>1. ASSUME IInv PROVE RangeMatchesRows
  <2> SUFFICES ASSUME requests = <<>>, ~missed, page <= PagesOf(shown)
               PROVE  RowsOf(shown) = End - Start + 1
    BY DEF RangeMatchesRows
  <2> DEFINE l == shown.query.filters.limit
             t == shown.total
             x == (page - 1) * l
  <2>1. l \in Nat \ {0} /\ t \in Nat /\ page \in Nat \ {0}
    <3>1. shown.query.filters \in Filters /\ t \in Nat
      BY <1>1 DEF IInv, TypeOK, Queries
    <3>2. l \in Limits /\ shown.query.filters.page \in 0..MaxPage
      BY <3>1 DEF Filters
    <3>3. page \in 0..MaxPage /\ page >= 1
      BY <1>1, <3>2 DEF IInv, ShownAccepted, page
    <3>4. l \in Nat \ {0}
      BY <3>2, ConstantsAssumption
    <3> QED
      BY <3>1, <3>3, <3>4, ConstantsAssumption
  <2>2. filters.limit = l
    BY <1>1 DEF IInv, NewestIsCurrent, Query
  <2>3. x \in Nat /\ x < t /\ page * l = x + l
    BY <2>1, PageHasRows DEF PagesOf
  <2>4. RowsOf(shown) = IF t - x <= 0 THEN 0 ELSE IF t - x < l THEN t - x ELSE l
    BY DEF RowsOf, page
  <2>5. Start = AtMost(x + 1, t) /\ End = AtMost(x + l, t)
    BY <2>2, <2>3 DEF Start, End
  <2> HIDE DEF l, t, x
  <2> QED
    BY <2>1, <2>3, <2>4, <2>5 DEF AtMost
<1> QED
  BY <1>1, Invariant, PTL
=============================================================================
