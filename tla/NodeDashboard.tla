--------------------------- MODULE NodeDashboard ---------------------------
(***************************************************************************)
(* The dashboard of node-pipeline/client with the server it watches: the   *)
(* screens and their handlers (Dashboard.tsx), the upload and its late     *)
(* answer (useFileUpload.ts), the EventSource of the batch that is being   *)
(* processed (useProgressTracking.ts) with the one emitter per batch that  *)
(* feeds it (upload.controller.ts). The list of batches is BatchesData's:  *)
(* here it shows any status the row has had.                               *)
(*                                                                         *)
(* A handler and the React effects of the render it causes are one step.   *)
(* What the server does to a batch is kept to the order of its statuses    *)
(* and of the events that announce them; NodeBatch has the detail.         *)
(***************************************************************************)
EXTENDS Integers, Sequences, FiniteSets

CONSTANTS
    Batches, NoBatch,
    Earlier,        \* batches of earlier visits, still processing
    Conns, NoConn,  \* progress connections, reused once closed at both ends
    MaxInbox,       \* bound: events under way on a connection
    MaxFaults       \* bound: failed requests, cut connections and jobs
                    \* that Bull takes up again after they failed

ASSUME ConstantsAssumption ==
    /\ NoBatch \notin Batches
    /\ Earlier \subseteq Batches
    /\ NoConn \notin Conns
    /\ MaxInbox \in Nat
    /\ MaxFaults \in Nat

Active == {"pending", "processing"}
Final == {"completed", "failed"}
Statuses == Active \cup Final

VARIABLES
    row, owed,      \* the rows' statuses; ends whose event is still to come
    emitter,        \* the connection each batch's emitter entry belongs to
    wire,           \* server's end: off, dialing, asked, the status read, live
    of, inbox,      \* batch of a connection, and what it is delivering
    open, ref,      \* EventSources not closed, and eventSourceRef
    view, selected, tracked,    \* viewMode, selected and processingBatchId
    progress,       \* the status of the last event received
    file, uploading, post,      \* pendingFile, isUploading, each POST /upload
    faults

rowVars == <<row, owed>>
connVars == <<emitter, wire, of, inbox, open, ref>>
trackVars == <<tracked, progress>>
screenVars == <<view, selected>>
uploadVars == <<file, uploading, post>>
vars == <<rowVars, connVars, trackVars, screenVars, uploadVars,
          faults>>

Init ==
    /\ row = [b \in Batches |-> IF b \in Earlier THEN "processing" ELSE "none"]
    /\ owed = {}
    /\ emitter = [b \in Batches |-> NoConn]
    /\ wire = [c \in Conns |-> "off"]
    /\ of = [c \in Conns |-> NoBatch]
    /\ inbox = [c \in Conns |-> <<>>]
    /\ open = {} /\ ref = NoConn
    /\ view = "batches" /\ selected = NoBatch
    /\ tracked = NoBatch /\ progress = "none"
    /\ file = FALSE /\ uploading = FALSE
    /\ post = [b \in Batches |-> IF b \in Earlier THEN "over" ELSE "none"]
    /\ faults = 0

Fault == faults < MaxFaults /\ faults' = faults + 1

----------------------------------------------------------------------------
(* What the screen shows and offers.                                       *)

(* isComplete lasts for one render: ShowCompleted.                         *)
IsFailed == progress = "failed"
IsProcessing == tracked # NoBatch /\ ~IsFailed

Screen ==
    CASE IsProcessing -> "processing"
      [] ~IsProcessing /\ view = "products" /\ selected = NoBatch -> "blank"
      [] OTHER -> view

(* The list shows row b with status st, which may be an old one, and the   *)
(* button that goes with it.                                               *)
Offers(b, st) ==
    /\ Screen = "batches"
    /\ row[b] = st \/ (st = "processing" /\ row[b] \in Final)

OffersUploadNew == Screen \in {"batches", "products"}

----------------------------------------------------------------------------
(* The progress connection.                                                *)

(* A connection closed at both ends is free again.                         *)
Freed(cs) ==
    [c \in Conns |-> IF c \in cs /\ wire[c] = "off" THEN NoBatch ELSE of[c]]
Emptied(cs) == [c \in Conns |-> IF c \in cs THEN <<>> ELSE inbox[c]]

(* close() of EventSources: nothing more is delivered.                     *)
Close(cs) ==
    /\ open' = open \ cs
    /\ inbox' = Emptied(cs)
    /\ of' = Freed(cs)
    /\ ref' = NoConn

Free(c) == wire[c] = "off" /\ c \notin open

(* Variant: the connection dialled before is not closed.                   *)
Connect_Leaves(b) ==
    /\ \E c \in Conns : Free(c)
    /\ LET c == CHOOSE c \in Conns : Free(c) IN
       /\ wire' = [wire EXCEPT ![c] = "dialing"]
       /\ of' = [of EXCEPT ![c] = b]
       /\ inbox' = inbox
       /\ open' = open \cup {c}
       /\ ref' = c

(* closeConnection, then a new EventSource.                                *)
Connect(b) ==
    /\ \E c \in Conns : Free(c)
    /\ LET c == CHOOSE c \in Conns : Free(c) IN
       /\ wire' = [wire EXCEPT ![c] = "dialing"]
       /\ of' = [Freed({ref}) EXCEPT ![c] = b]
       /\ inbox' = Emptied({ref})
       /\ open' = (open \ {ref}) \cup {c}
       /\ ref' = c

(* The effect of a new processingBatchId: what the old connection said is  *)
(* forgotten, and the batch's own is dialled. The same id changes nothing. *)
Track(b) ==
    \/ b = tracked /\ UNCHANGED <<trackVars, connVars>>
    \/ /\ b # tracked
       /\ tracked' = b /\ progress' = "none"
       /\ Connect(b)
       /\ UNCHANGED emitter

Untrack ==
    /\ tracked' = NoBatch /\ progress' = "none"
    /\ Close({ref})

(* The completion effect of the dashboard, and onmessage before it: the    *)
(* connection is closed, the batch's products are shown.                   *)
ShowCompleted(c) ==
    /\ selected' = tracked /\ view' = "products"
    /\ tracked' = NoBatch /\ progress' = "none"
    /\ Close({c, ref})

ShowFailed(c) ==
    /\ progress' = "failed"
    /\ Close({c})
    /\ UNCHANGED <<screenVars, tracked>>

ShowProgress(c) ==
    /\ progress' = Head(inbox[c])
    /\ inbox' = [inbox EXCEPT ![c] = Tail(@)]
    /\ UNCHANGED <<screenVars, tracked, open, ref, of>>

Message(c) ==
    /\ c \in open /\ inbox[c] # <<>>
    /\ \/ Head(inbox[c]) = "completed" /\ of[c] = tracked /\ ShowCompleted(c)
       \/ Head(inbox[c]) = "failed" /\ ShowFailed(c)
       \/ Head(inbox[c]) \in Active /\ ShowProgress(c)
    /\ UNCHANGED <<rowVars, emitter, wire, uploadVars, faults>>

(* onerror: the stream was ended or cut. There is no retry.                *)
StreamError(c) ==
    /\ c \in open /\ inbox[c] # <<>> /\ Head(inbox[c]) = "end"
    /\ Close({c})
    /\ UNCHANGED <<rowVars, emitter, wire, trackVars, screenVars, uploadVars,
                   faults>>

----------------------------------------------------------------------------
(* The server's end of the connection.                                     *)

Subscribe(c) ==
    /\ wire[c] = "dialing"
    /\ wire' = [wire EXCEPT ![c] = "asked"]
    /\ emitter' = [emitter EXCEPT ![of[c]] = c]
    /\ UNCHANGED <<rowVars, of, inbox, open, ref, trackVars, screenVars,
                   uploadVars, faults>>

ReadRow(c) ==
    /\ wire[c] = "asked"
    /\ wire' = [wire EXCEPT ![c] = row[of[c]]]
    /\ UNCHANGED <<rowVars, emitter, of, inbox, open, ref, trackVars,
                   screenVars, uploadVars, faults>>

(* What reaches a client that closed its end is dropped.                   *)
Delivered(c, events) ==
    inbox' = IF c \in open THEN [inbox EXCEPT ![c] = @ \o events] ELSE inbox

(* A stream that ends removes its batch's entry, whoever registered it.    *)
EndStream(c, events) ==
    /\ Delivered(c, Append(events, "end"))
    /\ wire' = [wire EXCEPT ![c] = "off"]
    /\ of' = IF c \in open THEN of ELSE [of EXCEPT ![c] = NoBatch]
    /\ emitter' = [emitter EXCEPT ![of[c]] = NoConn]

Send(c, st, stage) ==
    IF st \in Final
    THEN EndStream(c, <<st>>)
    ELSE /\ Delivered(c, <<st>>)
         /\ wire' = [wire EXCEPT ![c] = stage]
         /\ UNCHANGED <<of, emitter>>

SendInitial(c) ==
    /\ wire[c] \in Statuses
    /\ Send(c, wire[c], "live")
    /\ UNCHANGED <<rowVars, open, ref, trackVars, screenVars, uploadVars, faults>>

ReadFails(c) ==
    /\ wire[c] = "asked" /\ Fault
    /\ EndStream(c, <<>>)
    /\ UNCHANGED <<rowVars, open, ref, trackVars, screenVars, uploadVars>>

(* The connection breaks under the client.                                 *)
Cut(c) ==
    /\ c \in open /\ wire[c] # "off" /\ Fault
    /\ inbox' = [inbox EXCEPT ![c] = <<"end">>]
    /\ UNCHANGED <<rowVars, emitter, wire, of, open, ref, trackVars,
                   screenVars, uploadVars>>

(* The server learns that the client is gone, at once or much later.       *)
NoticeClosed(c) ==
    /\ wire[c] # "off" /\ c \notin open
    /\ wire' = [wire EXCEPT ![c] = "off"]
    /\ of' = [of EXCEPT ![c] = NoBatch]
    /\ emitter' = IF wire[c] = "dialing" THEN emitter
                  ELSE [emitter EXCEPT ![of[c]] = NoConn]
    /\ UNCHANGED <<rowVars, inbox, open, ref, trackVars, screenVars,
                   uploadVars, faults>>

Emit(b, st) ==
    IF emitter[b] = NoConn
    THEN UNCHANGED <<emitter, wire, of, inbox>>
    ELSE Send(emitter[b], st, wire[emitter[b]])

----------------------------------------------------------------------------
(* The batches on the server.                                              *)

TakeJob(b) ==
    /\ row[b] = "pending"
    /\ row' = [row EXCEPT ![b] = "processing"]
    /\ UNCHANGED <<owed, connVars, trackVars, screenVars, uploadVars, faults>>

Report(b) ==
    /\ row[b] = "processing" /\ emitter[b] # NoConn
    /\ Len(inbox[emitter[b]]) < MaxInbox
    /\ Emit(b, "processing")
    /\ UNCHANGED <<rowVars, open, ref, trackVars, screenVars, uploadVars, faults>>

(* Variant: a job that fails says nothing.                                 *)
EndJob_Silent(b) ==
    /\ row[b] = "processing"
    /\ \E st \in Final :
           /\ row' = [row EXCEPT ![b] = st]
           /\ owed' = IF st = "failed" THEN owed ELSE owed \cup {b}
    /\ UNCHANGED <<connVars, trackVars, screenVars, uploadVars, faults>>

EndJob(b) ==
    /\ row[b] = "processing"
    /\ \E st \in Final : row' = [row EXCEPT ![b] = st]
    /\ owed' = owed \cup {b}
    /\ UNCHANGED <<connVars, trackVars, screenVars, uploadVars, faults>>

AnnounceEnd(b) ==
    /\ b \in owed
    /\ owed' = owed \ {b}
    /\ Emit(b, row[b])
    /\ UNCHANGED <<row, open, ref, trackVars, screenVars, uploadVars, faults>>

RetryJob(b) ==
    /\ row[b] = "failed" /\ b \notin owed
    /\ Fault
    /\ row' = [row EXCEPT ![b] = "processing"]
    /\ UNCHANGED <<owed, connVars, trackVars, screenVars, uploadVars>>

----------------------------------------------------------------------------
(* The upload.                                                             *)

SelectFile ==
    /\ Screen = "upload" /\ ~file /\ ~uploading
    /\ file' = TRUE
    /\ UNCHANGED <<rowVars, connVars, trackVars, screenVars, uploading, post, faults>>

ClearFile ==
    /\ Screen = "upload" /\ file
    /\ file' = FALSE
    /\ UNCHANGED <<rowVars, connVars, trackVars, screenVars, uploading, post, faults>>

(* The button stays enabled while a request is under way.                  *)
StartUpload ==
    /\ Screen = "upload" /\ file
    /\ \E b \in Batches :
           /\ post[b] = "none"
           /\ post' = [post EXCEPT ![b] = "sent"]
    /\ uploading' = TRUE
    /\ UNCHANGED <<rowVars, connVars, trackVars, screenVars, file,
                   faults>>

CreateBatch(b) ==
    /\ post[b] = "sent"
    /\ post' = [post EXCEPT ![b] = "created"]
    /\ row' = [row EXCEPT ![b] = "pending"]
    /\ UNCHANGED <<owed, connVars, trackVars, screenVars, file,
                   uploading, faults>>

(* The answer moves the dashboard to the batch, wherever the user is.      *)
UploadAnswered(b) ==
    /\ post[b] = "created"
    /\ post' = [post EXCEPT ![b] = "over"]
    /\ uploading' = FALSE /\ file' = FALSE
    /\ Track(b)
    /\ UNCHANGED <<rowVars, screenVars, faults>>

UploadFails(b) ==
    /\ post[b] \in {"sent", "created"} /\ Fault
    /\ post' = [post EXCEPT ![b] = "over"]
    /\ uploading' = FALSE
    /\ UNCHANGED <<rowVars, connVars, trackVars, screenVars, file>>

----------------------------------------------------------------------------
(* The handlers of the dashboard.                                          *)

(* Variant: whatever row the list shows can be opened.                     *)
ViewProducts_AnyRow(b) ==
    /\ Screen = "batches" /\ row[b] # "none"
    /\ selected' = b /\ view' = "products"
    /\ UNCHANGED <<rowVars, connVars, trackVars, uploadVars, faults>>

ViewProducts(b) ==
    /\ Offers(b, "completed")
    /\ selected' = b /\ view' = "products"
    /\ UNCHANGED <<rowVars, connVars, trackVars, uploadVars, faults>>

ViewProgress(b) ==
    /\ Offers(b, "processing")
    /\ Track(b)
    /\ UNCHANGED <<rowVars, screenVars, uploadVars, faults>>

UploadNew ==
    /\ OffersUploadNew
    /\ file' = FALSE /\ view' = "upload"
    /\ UNCHANGED <<rowVars, connVars, trackVars, selected, uploading, post, faults>>

CancelUpload ==
    /\ Screen = "upload"
    /\ file' = FALSE /\ view' = "batches"
    /\ UNCHANGED <<rowVars, connVars, trackVars, selected, uploading, post, faults>>

BackToBatches ==
    /\ Screen = "products"
    /\ selected' = NoBatch /\ view' = "batches"
    /\ UNCHANGED <<rowVars, connVars, trackVars, uploadVars, faults>>

BackFromProcessing ==
    /\ Screen = "processing"
    /\ Untrack
    /\ UNCHANGED <<rowVars, emitter, wire, screenVars, uploadVars, faults>>

----------------------------------------------------------------------------
Server(b) ==
    TakeJob(b) \/ EndJob(b) \/ AnnounceEnd(b) \/ CreateBatch(b)

Wire(c) ==
    \/ Subscribe(c) \/ ReadRow(c) \/ SendInitial(c) \/ NoticeClosed(c)
    \/ Message(c) \/ StreamError(c)

User ==
    \/ SelectFile \/ ClearFile \/ StartUpload
    \/ UploadNew \/ CancelUpload \/ BackToBatches \/ BackFromProcessing
    \/ \E b \in Batches : ViewProducts(b) \/ ViewProgress(b)

Next ==
    \/ User
    \/ \E b \in Batches :
           Server(b) \/ Report(b) \/ RetryJob(b) \/ UploadAnswered(b) \/ UploadFails(b)
    \/ \E c \in Conns : Wire(c) \/ ReadFails(c) \/ Cut(c)

Spec == Init /\ [][Next]_vars

(* Jobs end and are announced, and what is sent arrives.                   *)
(* Nothing is asked of the user, of retries or of progress reports.        *)
FairSpec ==
    /\ Spec
    /\ \A b \in Batches : WF_vars(Server(b)) /\ WF_vars(UploadAnswered(b))
    /\ \A c \in Conns : WF_vars(Wire(c))

----------------------------------------------------------------------------
TypeOK ==
    /\ row \in [Batches -> Statuses \cup {"none"}]
    /\ owed \subseteq Batches
    /\ emitter \in [Batches -> Conns \cup {NoConn}]
    /\ wire \in [Conns -> Statuses \cup {"off", "dialing", "asked", "live"}]
    /\ of \in [Conns -> Batches \cup {NoBatch}]
    /\ inbox \in [Conns -> Seq(Statuses \cup {"end"})]
    /\ open \subseteq Conns
    /\ ref \in Conns \cup {NoConn}
    /\ view \in {"batches", "upload", "products"}
    /\ selected \in Batches \cup {NoBatch}
    /\ tracked \in Batches \cup {NoBatch}
    /\ progress \in Statuses \cup {"none"}
    /\ file \in BOOLEAN /\ uploading \in BOOLEAN
    /\ post \in [Batches -> {"none", "sent", "created", "over"}]
    /\ faults \in 0..MaxFaults

(* However tracking is started, replaced and given up (a click, a late     *)
(* upload answer, the end of a batch), no EventSource is left open but the *)
(* one eventSourceRef holds, and that one follows the batch the dashboard  *)
(* tracks (useProgressTracking.ts:21-30, 84-106).                          *)
OneConnection ==
    /\ open \subseteq {ref}
    /\ \A c \in open : of[c] = tracked

(* The products screen is only ever of one batch, and of a batch whose row *)
(* is completed: it is reached through a completed event of the batch      *)
(* tracked, or through a copy of the row that may be old.                  *)
ProductsOfCompleted ==
    view = "products" => selected \in Batches /\ row[selected] = "completed"

(* The batch's events go elsewhere: its entry was taken by a later         *)
(* connection, or removed with the end of an earlier one.                  *)
Muted(c) == wire[c] = "live" /\ emitter[of[c]] # c

(* While an EventSource is open its end is still to come, if its batch has *)
(* one: the connection is being set up, or its batch is not announced yet, *)
(* or an end is on its way to it. Only a lost emitter leaves it waiting.   *)
EndOnItsWay ==
    \A c \in open :
        \/ wire[c] \in Statuses \cup {"dialing", "asked"}
        \/ wire[c] = "live" /\ (row[of[c]] \in Active \/ of[c] \in owed)
        \/ \E i \in DOMAIN inbox[c] : inbox[c][i] = "end"
        \/ Muted(c)

(* The progress screen is left in the end: no EventSource stays open for   *)
(* good once jobs end and events arrive, whatever the user does, unless    *)
(* the server lost its emitter.                                            *)
ProgressEnds == []<>(\A c \in open : Muted(c))
=============================================================================
