---------------------------- MODULE ImportClient ----------------------------
(***************************************************************************)
(* The dashboard of go-pipeline/client over the importer: the views and    *)
(* their handlers (Dashboard.tsx), the upload and its late answer          *)
(* (useFileUpload.ts), the import that is followed, over an event stream   *)
(* and by polling once that breaks (useImportProgress.ts against           *)
(* pumpEvents of http.go), and the products of an import, asked for again  *)
(* while the read model trails (useProductsData.ts).                       *)
(*                                                                         *)
(* A handler and the React effects of the render it causes are one step.   *)
(* The list of imports shows any status a row has had; what the search,    *)
(* the sort and the page size add to a page's query is left out.           *)
(***************************************************************************)
EXTENDS Integers, FiniteSets

CONSTANTS
    Jobs, NoJob,
    Earlier,    \* imports of earlier visits, still running
    Pages,      \* pages asked for, 1 first
    Calls,      \* bound: polls and page requests in flight
    MaxFaults   \* bound: failed requests

ASSUME ConstantsAssumption ==
    /\ NoJob \notin Jobs
    /\ Earlier \subseteq Jobs
    /\ Pages \subseteq Nat /\ 1 \in Pages
    /\ MaxFaults \in Nat

(* "running" stands for every status that is not terminal.                 *)
Final == {"completed", "failed"}
Statuses == Final \cup {"running"}

VARIABLES
    row, projected,     \* the imports' statuses; those in the read model
    view, active, page, \* the dashboard's view, activeJobId and page
    uploading,          \* the import whose POST is under way
    frame,              \* the stream: closed, idle, a snapshot, or its end
    job, isComplete, usingPolling,
    late,               \* history: job or isComplete is of a late answer
    call,               \* requests in flight
    shown,              \* the page answered last
    overtaken,          \* history: it was not the page asked for
    faults

rowVars == <<row, projected>>
viewVars == <<view, active, page>>
progressVars == <<frame, job, isComplete, usingPolling, late>>
pageVars == <<shown, overtaken>>
vars == <<rowVars, viewVars, uploading, progressVars, call, pageVars, faults>>

Idle == [what |-> "none", of |-> NoJob, page |-> 1, got |-> "none"]
NoSnapshot == [of |-> NoJob, status |-> "none"]
EmptyPage == [of |-> NoJob, page |-> 1, rows |-> FALSE]

Init ==
    /\ row = [j \in Jobs |-> IF j \in Earlier THEN "running" ELSE "none"]
    /\ projected = {}
    /\ view = "list" /\ active = NoJob /\ page = 1
    /\ uploading = NoJob
    /\ frame = "closed" /\ job = NoSnapshot
    /\ isComplete = FALSE /\ usingPolling = FALSE /\ late = FALSE
    /\ call = [q \in Calls |-> Idle]
    /\ shown = EmptyPage /\ overtaken = FALSE
    /\ faults = 0

Fault == faults < MaxFaults /\ faults' = faults + 1

----------------------------------------------------------------------------
(* The importer.                                                           *)

EndImport(j) ==
    /\ row[j] = "running"
    /\ \E st \in Final : row' = [row EXCEPT ![j] = st]
    /\ UNCHANGED <<projected, viewVars, uploading, progressVars, call,
                   pageVars, faults>>

(* The projection trails the catalog worker.                               *)
Project(j) ==
    /\ row[j] \in {"running", "completed"} /\ j \notin projected
    /\ projected' = projected \cup {j}
    /\ UNCHANGED <<row, viewVars, uploading, progressVars, call, pageVars, faults>>

(* The snapshot, or whether the import has products.                       *)
ReadStore(q) ==
    /\ call[q].got = "asked"
    /\ call' = [call EXCEPT ![q].got =
                   IF call[q].what = "poll" THEN row[call[q].of]
                   ELSE IF call[q].of \in projected THEN "rows" ELSE "empty"]
    /\ UNCHANGED <<rowVars, viewVars, uploading, progressVars, pageVars, faults>>

(* pumpEvents: the next snapshot.                                          *)
Pump ==
    /\ frame = "idle"
    /\ frame' = row[active]
    /\ UNCHANGED <<rowVars, viewVars, uploading, job, isComplete,
                   usingPolling, late, call, pageVars, faults>>

(* SSEMaxDuration, a store that fails, or the network.                     *)
StreamEnds ==
    /\ frame \in Statuses \cup {"idle"}
    /\ frame' = "end"
    /\ UNCHANGED <<rowVars, viewVars, uploading, job, isComplete,
                   usingPolling, late, call, pageVars, faults>>

----------------------------------------------------------------------------
(* Requests.                                                               *)

Free(q) == call[q] = Idle

Ask(what, j, p) ==
    /\ \E q \in Calls : Free(q)
    /\ LET q == CHOOSE q \in Calls : Free(q) IN
       call' = [call EXCEPT ![q] = [what |-> what, of |-> j, page |-> p,
                                    got |-> "asked"]]

----------------------------------------------------------------------------
(* The effects of a new view, activeJobId or page.                         *)

StopFollowing ==
    /\ frame' = "closed" /\ job' = NoSnapshot
    /\ isComplete' = FALSE /\ usingPolling' = FALSE /\ late' = FALSE

(* Variant: what was known of the import followed before is kept.          *)
Follow_Keeps ==
    /\ frame' = "idle"
    /\ usingPolling' = FALSE /\ late' = FALSE
    /\ UNCHANGED <<job, isComplete>>

Follow ==
    /\ frame' = "idle" /\ job' = NoSnapshot
    /\ isComplete' = FALSE /\ usingPolling' = FALSE /\ late' = FALSE

(* useImportProgress is given the import on the processing view, and       *)
(* useProductsData the one on the products view; each runs when it changes.*)
(* Where activeJobId and the page are not read, and set before they are    *)
(* read again, they are forgotten.                                         *)
Enter(v, j, p) ==
    /\ view' = v /\ active' = j /\ page' = p
    /\ IF v # "processing" THEN
           IF view = "processing" THEN StopFollowing ELSE UNCHANGED progressVars
       ELSE IF view = v /\ active = j THEN UNCHANGED progressVars ELSE Follow
    /\ IF v # "products" THEN
           /\ shown' = EmptyPage /\ overtaken' = FALSE
           /\ UNCHANGED call
       ELSE
           /\ \/ view = v /\ active = j /\ page = p /\ UNCHANGED call
              \/ ~(view = v /\ active = j /\ page = p) /\ Ask("page", j, p)
           /\ UNCHANGED pageVars

----------------------------------------------------------------------------
(* useImportProgress.                                                      *)

(* A snapshot of the stream. The last one is final, and closes it.         *)
Snapshot ==
    /\ frame \in Statuses
    /\ job' = [of |-> active, status |-> frame]
    /\ frame' = IF frame \in Final THEN "closed" ELSE "idle"
    /\ isComplete' = (isComplete \/ frame \in Final)
    /\ late' = (late /\ isComplete)
    /\ UNCHANGED <<rowVars, viewVars, uploading, usingPolling, call,
                   pageVars, faults>>

(* Variant: a stream that breaks is only closed.                           *)
StreamError_Closes ==
    /\ frame = "end"
    /\ frame' = "closed"
    /\ UNCHANGED <<rowVars, viewVars, uploading, job, isComplete,
                   usingPolling, late, call, pageVars, faults>>

StreamError ==
    /\ frame = "end"
    /\ frame' = "closed" /\ usingPolling' = TRUE
    /\ UNCHANGED <<rowVars, viewVars, uploading, job, isComplete, late, call,
                   pageVars, faults>>

Poll ==
    /\ view = "processing" /\ usingPolling /\ ~isComplete
    /\ Ask("poll", active, 1)
    /\ UNCHANGED <<rowVars, viewVars, uploading, progressVars, pageVars, faults>>

(* The answer counts for the import followed now, whichever it is of, and  *)
(* replaces a later one. When none is, what it sets is reset unread.       *)
PollAnswered(q) ==
    /\ call[q].what = "poll" /\ call[q].got # "asked"
    /\ call' = [call EXCEPT ![q] = Idle]
    /\ IF view # "processing" THEN UNCHANGED <<job, isComplete, late>> ELSE
           /\ job' = [of |-> call[q].of, status |-> call[q].got]
           /\ isComplete' = (isComplete \/ call[q].got \in Final)
           /\ late' = (isComplete \/ ~usingPolling \/ call[q].of # active)
    /\ UNCHANGED <<rowVars, viewVars, uploading, frame, usingPolling,
                   pageVars, faults>>

(* The timer of the completion effect.                                     *)
Settle ==
    /\ view = "processing" /\ isComplete /\ job # NoSnapshot
    /\ IF job.status = "completed"
       THEN Enter("products", active, 1)
       ELSE Enter("list", NoJob, 1)
    /\ UNCHANGED <<rowVars, uploading, faults>>

----------------------------------------------------------------------------
(* useProductsData.                                                        *)

(* Variant: once there was an answer, it is not asked for again.           *)
AskWhileEmpty_Once ==
    /\ view = "products" /\ shown = EmptyPage
    /\ Ask("page", active, page)
    /\ UNCHANGED <<rowVars, viewVars, uploading, progressVars, pageVars, faults>>

AskWhileEmpty ==
    /\ view = "products" /\ ~shown.rows
    /\ Ask("page", active, page)
    /\ UNCHANGED <<rowVars, viewVars, uploading, progressVars, pageVars, faults>>

(* Off the view, what an answer sets is replaced before it is shown.       *)
PageAnswered(q) ==
    /\ call[q].what = "page" /\ call[q].got # "asked"
    /\ call' = [call EXCEPT ![q] = Idle]
    /\ IF view # "products" THEN UNCHANGED pageVars ELSE
           /\ shown' = [of |-> call[q].of, page |-> call[q].page,
                        rows |-> call[q].got = "rows"]
           /\ overtaken' = ~(call[q].of = active /\ call[q].page = page)
    /\ UNCHANGED <<rowVars, viewVars, uploading, progressVars, faults>>

(* A poll that fails is forgotten, a page that fails is shown empty.       *)
CallFails(q) ==
    /\ ~Free(q) /\ Fault
    /\ call' = [call EXCEPT ![q] = Idle]
    /\ shown' = IF call[q].what = "page" THEN EmptyPage ELSE shown
    /\ UNCHANGED <<rowVars, viewVars, uploading, progressVars, overtaken>>

----------------------------------------------------------------------------
(* The upload.                                                             *)

(* A file is chosen and sent. It is not given up with the view.            *)
StartUpload(j) ==
    /\ view = "upload" /\ uploading = NoJob
    /\ row[j] = "none"
    /\ uploading' = j
    /\ UNCHANGED <<rowVars, viewVars, progressVars, call, pageVars, faults>>

CreateImport(j) ==
    /\ uploading = j /\ row[j] = "none"
    /\ row' = [row EXCEPT ![j] = "running"]
    /\ UNCHANGED <<projected, viewVars, uploading, progressVars, call,
                   pageVars, faults>>

(* The answer moves the dashboard to the import, wherever the user is.     *)
UploadAnswered(j) ==
    /\ uploading = j /\ row[j] # "none"
    /\ uploading' = NoJob
    /\ Enter("processing", j, 1)
    /\ UNCHANGED <<rowVars, faults>>

UploadFails ==
    /\ uploading # NoJob /\ Fault
    /\ uploading' = NoJob
    /\ UNCHANGED <<rowVars, viewVars, progressVars, call, pageVars>>

----------------------------------------------------------------------------
(* The handlers of the dashboard.                                          *)

Go(v, j, p) ==
    /\ Enter(v, j, p)
    /\ UNCHANGED <<rowVars, uploading, faults>>

ViewProducts(j) == view = "list" /\ row[j] = "completed" /\ Go("products", j, 1)

(* Offered for the rows that run, or did when the list was loaded.         *)
ViewProgress(j) ==
    /\ view = "list" /\ row[j] \in Statuses
    /\ Go("processing", j, 1)

ViewReport(j) == view = "list" /\ row[j] \in Final /\ Go("report", j, 1)

UploadNew == view \in {"list", "products"} /\ Go("upload", NoJob, 1)

BackToList == view # "list" /\ Go("list", NoJob, 1)

ChangePage(p) == view = "products" /\ shown.rows /\ Go("products", active, p)

----------------------------------------------------------------------------
Answered(q) == ReadStore(q) \/ PollAnswered(q) \/ PageAnswered(q)

User ==
    \/ UploadNew \/ BackToList
    \/ \E j \in Jobs :
           StartUpload(j) \/ ViewProducts(j) \/ ViewProgress(j) \/ ViewReport(j)
    \/ \E p \in Pages : ChangePage(p)

Next ==
    \/ User
    \/ \E j \in Jobs :
           EndImport(j) \/ Project(j) \/ CreateImport(j) \/ UploadAnswered(j)
    \/ Pump \/ Snapshot \/ StreamEnds \/ StreamError
    \/ Poll \/ Settle \/ AskWhileEmpty \/ UploadFails
    \/ \E q \in Calls : Answered(q) \/ CallFails(q)

Spec == Init /\ [][Next]_vars

(* What is sent arrives, intervals and timers fire. Nothing is asked of    *)
(* the user, of imports or of the projection.                              *)
FairSpec ==
    /\ Spec
    /\ WF_vars(Pump) /\ WF_vars(Snapshot) /\ WF_vars(StreamError)
    /\ WF_vars(Poll) /\ WF_vars(Settle) /\ WF_vars(AskWhileEmpty)
    /\ \A q \in Calls : WF_vars(Answered(q))

----------------------------------------------------------------------------
Snapshots == [of : Jobs \cup {NoJob}, status : Statuses \cup {"none"}]

TypeOK ==
    /\ row \in [Jobs -> Statuses \cup {"none"}]
    /\ projected \subseteq Jobs
    /\ view \in {"list", "upload", "processing", "products", "report"}
    /\ active \in Jobs \cup {NoJob} /\ page \in Pages
    /\ uploading \in Jobs \cup {NoJob}
    /\ frame \in Statuses \cup {"closed", "idle", "end"}
    /\ job \in Snapshots
    /\ isComplete \in BOOLEAN /\ usingPolling \in BOOLEAN /\ late \in BOOLEAN
    /\ call \in [Calls ->
           [what : {"none", "poll", "page"}, of : Jobs \cup {NoJob}, page : Pages,
            got : Statuses \cup {"none", "asked", "rows", "empty"}]]
    /\ shown \in [of : Jobs \cup {NoJob}, page : Pages, rows : BOOLEAN]
    /\ overtaken \in BOOLEAN
    /\ faults \in 0..MaxFaults

(* An import that is followed, and not known to have ended, has one source *)
(* of news and never two: its stream, or polling once the stream broke,    *)
(* however the user moved between imports (useImportProgress.ts:13-69).    *)
OneSource ==
    view = "processing" /\ ~isComplete => ((frame # "closed") # usingPolling)

(* The end the processing view acts on is the end of the import it shows.  *)
(* The exception: a poll that is answered late, when another import is     *)
(* followed, or this one again by a stream, or the end is known, still     *)
(* counts (useImportProgress.ts:61).                                       *)
SettlesOnItsEnd ==
    view = "processing" /\ isComplete /\ ~late =>
        /\ job.of = active
        /\ job.status \in Final /\ row[active] = job.status

(* The processing view of an import that has ended is left, through        *)
(* streams that break and polls that fail (Dashboard.tsx:46-59).           *)
FollowedEnds == []<>(view = "processing" => row[active] \notin Final)

(* The products view shows the import's products once the read model has   *)
(* them, though it was opened before (useProductsData.ts:52-59). The       *)
(* exception: an earlier query that is answered last stays on screen.      *)
RowsAppear ==
    []<>(view = "products" /\ active \in projected =>
            overtaken \/ (shown.rows /\ shown.of = active /\ shown.page = page))
=============================================================================
