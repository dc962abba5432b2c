--------------------------- MODULE ProductListing ---------------------------
(***************************************************************************)
(* The products of a batch in node-pipeline: the hook that asks for them   *)
(* (useProductsData.ts), the table, its page buttons, sort headers and     *)
(* page size (ProductTable.tsx), the debounced search field                *)
(* (FilterPanel.tsx), and the query that answers (products.service.ts).    *)
(*                                                                         *)
(* A product is counted, not named: what an answer shows is the query it   *)
(* answers and how many products match. The hook lives as long as the      *)
(* dashboard, the field only while the products screen is shown; without a *)
(* selected batch the hook asks for all products.                          *)
(***************************************************************************)
EXTENDS Integers, Sequences, SequencesExt

CONSTANTS
    Batches, All,   \* batches, and no batch selected
    Names, NoName,  \* what can be searched for, and an empty field
    Columns, FirstColumn,   \* sortable columns, "name" first
    Limits, FirstLimit,     \* page sizes, 50 first
    Total,          \* products that match, by batch and search
    MaxPage,        \* bound: pages asked for
    MaxRequests,    \* bound: requests in flight
    MaxFaults       \* bound: failed requests

ASSUME ConstantsAssumption ==
    /\ All \notin Batches
    /\ NoName \in Names
    /\ FirstColumn \in Columns
    /\ Limits \subseteq Nat \ {0} /\ FirstLimit \in Limits
    /\ Total \in [Batches \cup {All} -> [Names -> Nat]]
    /\ MaxPage \in Nat \ {0} /\ MaxRequests \in Nat \ {0} /\ MaxFaults \in Nat

VARIABLES
    viewing,    \* the products screen is shown
    selected,   \* selectedBatchId
    field,      \* the text in the search field
    filters,    \* filters of the hook
    requests,   \* queries in flight, in the order they were sent
    shown,      \* the query answered last, with its total
    loading,
    missed,     \* history: an answer was overtaken, or did not come
    faults

vars == <<viewing, selected, field, filters, requests, shown, loading,
          missed, faults>>

defaultFilters ==
    [page |-> 1, limit |-> FirstLimit, name |-> NoName, by |-> FirstColumn,
     order |-> "ASC"]

Query(f, b) == [filters |-> f, batch |-> b]

(* On mount all products are asked for, and nothing is shown.              *)
Init ==
    /\ viewing = FALSE
    /\ selected = All
    /\ field = NoName
    /\ filters = defaultFilters
    /\ requests = <<Query(defaultFilters, All)>>
    /\ shown = [query |-> Query(defaultFilters, All), total |-> 0]
    /\ loading = TRUE
    /\ missed = FALSE
    /\ faults = 0

----------------------------------------------------------------------------
(* The server: findAll.                                                    *)

(* @Min(1) of the query's page.                                            *)
Accepted(q) == q.filters.page >= 1

TotalOf(q) == Total[q.batch][q.filters.name]

PagesOf(a) ==
    (a.total + a.query.filters.limit - 1) \div a.query.filters.limit

(* skip and take.                                                          *)
RowsOf(a) ==
    LET left == a.total - (a.query.filters.page - 1) * a.query.filters.limit
    IN  IF left <= 0 THEN 0
        ELSE IF left < a.query.filters.limit THEN left
        ELSE a.query.filters.limit

----------------------------------------------------------------------------
(* load: every change of the filters or of the batch asks again. Requests  *)
(* are not cancelled.                                                      *)
Load(f, b) ==
    /\ Len(requests) < MaxRequests
    /\ requests' = Append(requests, Query(f, b))
    /\ loading' = TRUE
    /\ missed' = (missed /\ requests # <<>>)
    /\ UNCHANGED <<shown, faults>>

UpdateFilters(f) ==
    /\ filters' = f
    /\ Load(f, selected)
    /\ UNCHANGED <<viewing, selected>>

Done(i) ==
    /\ requests' = RemoveAt(requests, i)
    /\ loading' = FALSE
    /\ UNCHANGED <<viewing, selected, field, filters>>

(* Whatever was asked for since, the answer is shown.                      *)
Answer(i) ==
    /\ Accepted(requests[i])
    /\ shown' = [query |-> requests[i], total |-> TotalOf(requests[i])]
    /\ missed' = (missed \/ i > 1)
    /\ Done(i)
    /\ UNCHANGED faults

(* The products stay as they were.                                         *)
Refused(i) ==
    /\ ~Accepted(requests[i])
    /\ missed' = TRUE
    /\ Done(i)
    /\ UNCHANGED <<shown, faults>>

Fails(i) ==
    /\ faults < MaxFaults /\ faults' = faults + 1
    /\ missed' = TRUE
    /\ Done(i)
    /\ UNCHANGED shown

----------------------------------------------------------------------------
(* The screen.                                                             *)

(* Variant: the batch is not given up with the screen, and its products    *)
(* are not asked for when it is opened again.                              *)
Show_Cached(b) ==
    /\ viewing' = TRUE
    /\ field' = filters.name
    /\ selected' = b
    /\ UNCHANGED <<requests, loading, missed, shown, faults, filters>>

(* The products of a batch are opened: the field starts with the search    *)
(* that is in force, and another batch is loaded with the filters as they  *)
(* are, page included.                                                     *)
Show(b) ==
    /\ viewing' = TRUE
    /\ field' = filters.name
    /\ selected' = b
    /\ IF b = selected
       THEN UNCHANGED <<requests, loading, missed, shown, faults>>
       ELSE Load(filters, b)
    /\ UNCHANGED filters

OpenBatch(b) == ~viewing /\ Show(b)

(* Back to the batches: all products are asked for.                        *)
BackToBatches ==
    /\ viewing
    /\ viewing' = FALSE
    /\ selected' = All
    /\ Load(filters, All)
    /\ field' = filters.name
    /\ UNCHANGED filters

(* Upload New keeps the batch selected.                                    *)
UploadNew ==
    /\ viewing
    /\ viewing' = FALSE
    /\ field' = filters.name
    /\ UNCHANGED <<selected, filters, requests, shown, loading, missed, faults>>

Type(text) ==
    /\ viewing /\ text # field
    /\ field' = text
    /\ UNCHANGED <<viewing, selected, filters, requests, shown, loading,
                   missed, faults>>

(* Variant: only a search that is not empty is applied.                    *)
Debounce_NotEmpty ==
    /\ viewing /\ field # filters.name /\ field # NoName
    /\ UpdateFilters([filters EXCEPT !.name = field, !.page = 1])
    /\ UNCHANGED field

(* The field was left alone for 300 ms.                                    *)
Debounce ==
    /\ viewing /\ field # filters.name
    /\ UpdateFilters([filters EXCEPT !.name = field, !.page = 1])
    /\ UNCHANGED field

SetLimit(l) ==
    /\ viewing
    /\ UpdateFilters([filters EXCEPT !.limit = l, !.page = 1])
    /\ UNCHANGED field

HandleSort(column) ==
    /\ viewing
    /\ LET newOrder == IF filters.by = column /\ filters.order = "ASC"
                       THEN "DESC" ELSE "ASC" IN
       UpdateFilters([filters EXCEPT !.by = column, !.order = newOrder,
                                     !.page = 1])
    /\ UNCHANGED field

page == shown.query.filters.page
IsFirstPage == page = 1
IsLastPage == page = PagesOf(shown)

(* First, previous, next, last: by the answer on the screen.               *)
Offered ==
    {p \in {1, page - 1} : ~IsFirstPage}
        \cup {p \in {page + 1, PagesOf(shown)} : ~IsLastPage}

ChangePage(p) ==
    /\ viewing /\ p <= MaxPage
    /\ UpdateFilters([filters EXCEPT !.page = p])
    /\ UNCHANGED field

(* "start-end of total" under the table.                                   *)
AtMost(m, n) == IF m < n THEN m ELSE n

(* Variant: the first row of a page is counted with the page before it.    *)
Start_ZeroBased == AtMost((page - 1) * filters.limit, shown.total)

Start == AtMost((page - 1) * filters.limit + 1, shown.total)
End == AtMost(page * filters.limit, shown.total)

----------------------------------------------------------------------------
Arrive(i) == i <= Len(requests) /\ (Answer(i) \/ Refused(i))

Next ==
    \/ \E b \in Batches : OpenBatch(b)
    \/ BackToBatches \/ UploadNew
    \/ \E text \in Names : Type(text)
    \/ Debounce
    \/ \E l \in Limits : SetLimit(l)
    \/ \E c \in Columns : HandleSort(c)
    \/ \E p \in Offered : ChangePage(p)
    \/ \E i \in 1..Len(requests) : Answer(i) \/ Refused(i) \/ Fails(i)

Spec == Init /\ [][Next]_vars

(* Requests are answered, and a text that is left in the field is applied: *)
(* strongly, since only the bound on requests ever disables it.            *)
FairSpec ==
    /\ Spec
    /\ WF_vars(Arrive(1))
    /\ SF_vars(Debounce)

----------------------------------------------------------------------------
Filters ==
    [page : 0..MaxPage, limit : Limits, name : Names, by : Columns,
     order : {"ASC", "DESC"}]
Queries == [filters : Filters, batch : Batches \cup {All}]

TypeOK ==
    /\ viewing \in BOOLEAN
    /\ selected \in Batches \cup {All}
    /\ field \in Names
    /\ filters \in Filters
    /\ requests \in Seq(Queries) /\ Len(requests) <= MaxRequests
    /\ shown \in [query : Queries, total : Nat]
    /\ loading \in BOOLEAN /\ missed \in BOOLEAN
    /\ faults \in 0..MaxFaults

(* When nothing is under way the spinner is off and the table is the       *)
(* answer to the batch and the filters of the screen, however they were    *)
(* changed while requests were in flight. The exceptions the code makes:   *)
(* an answer that a later one overtook, and a request that failed, leave   *)
(* what the table happened to show (useProductsData.ts:79-96).             *)
RestMeansCurrent ==
    requests = <<>> =>
        /\ ~loading
        /\ ~missed => shown.query = Query(filters, selected)

(* The range under the table counts the rows above it, on every page there *)
(* is, once nothing is under way (ProductTable.tsx:133-134 against the     *)
(* skip and take of products.service.ts:99-101).                           *)
RangeMatchesRows ==
    requests = <<>> /\ ~missed /\ page <= PagesOf(shown)
        => RowsOf(shown) = End - Start + 1

(* What is typed is searched for, unless it is typed over or the screen is *)
(* left within the 300 ms (FilterPanel.tsx:12-19).                         *)
SearchApplied ==
    \A text \in Names :
        viewing /\ field = text ~> ~viewing \/ field # text \/ filters.name = text
=============================================================================
