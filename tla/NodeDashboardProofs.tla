------------------------ MODULE NodeDashboardProofs -------------------------
(***************************************************************************)
(* Safety of NodeDashboard for every number of batches, connections,       *)
(* events under way and faults. The inductive invariant follows a batch's  *)
(* end from its row over the emitter entry and the connection to the       *)
(* EventSource.                                                            *)
(***************************************************************************)
EXTENDS NodeDashboard, SequenceTheorems, TLAPS

Events == Statuses \cup {"end"}

Has(q, e) == \E i \in DOMAIN q : q[i] = e

(* Rows: what was not uploaded has none, and only ends are announced.      *)
RowsFollow ==
    \A b \in Batches :
        /\ post[b] \in {"none", "sent"} => row[b] = "none"
        /\ post[b] = "created" => row[b] # "none"
        /\ b \in owed => row[b] \in Final

(* A connection at work is a batch's, and one that is closed is empty.     *)
ConnsFollow ==
    \A c \in Conns :
        /\ wire[c] # "off" => of[c] \in Batches
        /\ of[c] \in Batches => row[of[c]] # "none"
        /\ c \in open => of[c] \in Batches
        /\ c \notin open => inbox[c] = <<>>

(* An emitter entry is of a stream of its batch that was not ended.        *)
EntriesFollow ==
    \A b \in Batches :
        emitter[b] # NoConn =>
            /\ of[emitter[b]] = b
            /\ wire[emitter[b]] \in Statuses \cup {"asked", "live"}

(* A completion that was read or sent is the row's, for good.              *)
CompletedIsTrue ==
    \A c \in Conns :
        wire[c] = "completed" \/ Has(inbox[c], "completed")
            => of[c] \in Batches /\ row[of[c]] = "completed"

(* A stream that is over says so, and one that is not still has its        *)
(* batch's end to come, or no entry.                                       *)
EndToCome ==
    \A c \in open :
        /\ wire[c] = "off" => Has(inbox[c], "end")
        /\ wire[c] \in Active \cup {"live"} =>
               row[of[c]] \in Active \/ of[c] \in owed \/ emitter[of[c]] # c

Rows == RowsFollow /\ ProductsOfCompleted
Wires == ConnsFollow /\ EntriesFollow /\ CompletedIsTrue /\ EndToCome /\ OneConnection

IInv == TypeOK /\ Rows /\ Wires

----------------------------------------------------------------------------
(* What sequences of events hold after they grow and shrink.               *)
LEMMA HasAppended ==
    ASSUME NEW S, NEW q \in Seq(S), NEW r \in Seq(S), NEW e
    PROVE  /\ q \o r \in Seq(S)
           /\ Has(q \o r, e) <=> Has(q, e) \/ Has(r, e)
<1>1. q \o r \in Seq(S) /\ Len(q \o r) = Len(q) + Len(r)
  OBVIOUS
<1>2. ASSUME Has(q \o r, e) PROVE Has(q, e) \/ Has(r, e)
  <2>1. PICK i \in 1..(Len(q) + Len(r)) : (q \o r)[i] = e
    BY <1>1, <1>2 DEF Has
  <2>2. CASE i <= Len(q)
    <3>1. i \in DOMAIN q /\ q[i] = e
      BY <2>1, <2>2
    <3> QED
      BY <3>1 DEF Has
  <2>3. CASE i > Len(q)
    <3>1. i - Len(q) \in DOMAIN r /\ r[i - Len(q)] = e
      BY <2>1, <2>3
    <3> QED
      BY <3>1 DEF Has
  <2> QED
    BY <2>1, <2>2, <2>3
<1>3. ASSUME Has(q, e) PROVE Has(q \o r, e)
  <2>1. PICK i \in 1..Len(q) : q[i] = e
    BY <1>3 DEF Has
  <2>2. i \in DOMAIN (q \o r) /\ (q \o r)[i] = e
    BY <1>1, <2>1
  <2> QED
    BY <2>2 DEF Has
<1>4. ASSUME Has(r, e) PROVE Has(q \o r, e)
  <2>1. PICK i \in 1..Len(r) : r[i] = e
    BY <1>4 DEF Has
  <2>2. Len(q) + i \in DOMAIN (q \o r) /\ (q \o r)[Len(q) + i] = e
    BY <1>1, <2>1
  <2> QED
    BY <2>2 DEF Has
<1> QED
  BY <1>1, <1>2, <1>3, <1>4

LEMMA HasTail ==
    ASSUME NEW S, NEW q \in Seq(S), q # <<>>, NEW e
    PROVE  /\ Head(q) \in S /\ Tail(q) \in Seq(S)
           /\ Has(q, e) <=> Head(q) = e \/ Has(Tail(q), e)
<1>1. /\ Head(q) \in S /\ Tail(q) \in Seq(S) /\ Len(Tail(q)) = Len(q) - 1
      /\ Len(q) \in Nat \ {0} /\ Head(q) = q[1]
      /\ \A i \in 1..(Len(q) - 1) : Tail(q)[i] = q[i + 1]
  OBVIOUS
<1>2. ASSUME Has(q, e), Head(q) # e PROVE Has(Tail(q), e)
  <2>1. PICK i \in 1..Len(q) : q[i] = e
    BY <1>2 DEF Has
  <2>2. i - 1 \in 1..(Len(q) - 1)
    BY <1>1, <1>2, <2>1
  <2>3. i - 1 \in DOMAIN Tail(q) /\ Tail(q)[i - 1] = e
    BY <1>1, <2>1, <2>2
  <2> QED
    BY <2>3 DEF Has
<1>3. ASSUME Head(q) = e PROVE Has(q, e)
  BY <1>1, <1>3 DEF Has
<1>4. ASSUME Has(Tail(q), e) PROVE Has(q, e)
  <2>1. PICK i \in 1..(Len(q) - 1) : Tail(q)[i] = e
    BY <1>1, <1>4 DEF Has
  <2>2. i + 1 \in DOMAIN q /\ q[i + 1] = e
    BY <1>1, <2>1
  <2> QED
    BY <2>2 DEF Has
<1> QED
  BY <1>1, <1>2, <1>3, <1>4

LEMMA HasShort ==
    ASSUME NEW S, NEW a \in S, NEW e
    PROVE  /\ <<>> \in Seq(S) /\ ~Has(<<>>, e)
           /\ <<a>> \in Seq(S) /\ (Has(<<a>>, e) <=> e = a)
BY DEF Has

----------------------------------------------------------------------------
(* The screens: no handler that only moves between them disturbs anything  *)
(* but what the products screen is of.                                     *)
LEMMA ScreenStep ==
    ASSUME IInv,
           \/ SelectFile \/ ClearFile \/ UploadNew \/ CancelUpload \/ BackToBatches
           \/ \E b \in Batches : ViewProducts(b)
    PROVE  IInv'
<1> USE ConstantsAssumption
<1>1. /\ UNCHANGED <<rowVars, connVars, trackVars, uploading, post, faults>>
      /\ file' \in BOOLEAN
  BY DEF SelectFile, ClearFile, UploadNew, CancelUpload, BackToBatches,
     ViewProducts, uploadVars, IInv, TypeOK
<1>2. /\ view' \in {"batches", "upload", "products"}
      /\ selected' \in Batches \cup {NoBatch}
      /\ view' = "products" => selected' \in Batches /\ row[selected'] = "completed"
  BY DEF SelectFile, ClearFile, UploadNew, CancelUpload, BackToBatches,
     ViewProducts, Offers, screenVars, IInv, TypeOK, Rows, ProductsOfCompleted
<1> QED
  BY <1>1, <1>2
     DEF IInv, TypeOK, Rows, RowsFollow, ProductsOfCompleted, Wires, ConnsFollow,
         EntriesFollow, CompletedIsTrue, EndToCome, OneConnection, rowVars,
         connVars, trackVars

(* The batches: a row leaves "failed" by a retry, and "completed" never.   *)
LEMMA RowStep ==
    ASSUME IInv, NEW b \in Batches,
           TakeJob(b) \/ EndJob(b) \/ CreateBatch(b) \/ RetryJob(b)
    PROVE  IInv'
<1> USE ConstantsAssumption
<1>1. UNCHANGED <<connVars, trackVars, screenVars, file, uploading>>
  BY DEF TakeJob, EndJob, CreateBatch, RetryJob, uploadVars
<1>2. PICK st \in Statuses : row' = [row EXCEPT ![b] = st]
  BY DEF TakeJob, EndJob, CreateBatch, RetryJob, Statuses, Active, Final
<1>3. /\ row[b] # "completed"
      /\ owed' \subseteq Batches /\ owed \subseteq owed' /\ owed' \subseteq owed \cup {b}
      /\ b \in owed' => st \in Final
      /\ st \in Active \/ b \in owed'
      /\ post' \in [Batches -> {"none", "sent", "created", "over"}]
      /\ post'[b] \notin {"none", "sent"}
      /\ \A a \in Batches \ {b} : post'[a] = post[a]
      /\ faults' \in 0..MaxFaults
  <2> USE DEF IInv, TypeOK, Rows, RowsFollow, Statuses, Active, Final
  <2>1. CASE TakeJob(b)
    BY <1>2, <2>1 DEF TakeJob, uploadVars
  <2>2. CASE EndJob(b)
    BY <1>2, <2>2 DEF EndJob, uploadVars
  <2>3. CASE CreateBatch(b)
    BY <1>2, <2>3 DEF CreateBatch
  <2>4. CASE RetryJob(b)
    BY <1>2, <2>4 DEF RetryJob, Fault, uploadVars
  <2> QED
    BY <2>1, <2>2, <2>3, <2>4
<1>4. TypeOK' /\ Rows'
  BY <1>1, <1>2, <1>3
     DEF IInv, TypeOK, Rows, RowsFollow, ProductsOfCompleted, connVars,
         trackVars, screenVars, Statuses, Active, Final
<1>5. /\ UNCHANGED <<emitter, wire, of, inbox, open, ref, tracked>>
      /\ row' \in [Batches -> Statuses \cup {"none"}]
      /\ row'[b] = st /\ \A a \in Batches \ {b} : row'[a] = row[a]
  BY <1>1, <1>2, <1>4 DEF IInv, TypeOK, connVars, trackVars
<1>6. ConnsFollow' /\ EntriesFollow' /\ OneConnection'
  BY <1>5 DEF IInv, Wires, ConnsFollow, EntriesFollow, OneConnection,
     Statuses, Active, Final
<1>7. CompletedIsTrue'
  <2>1. ASSUME NEW c \in Conns, wire[c] = "completed" \/ Has(inbox[c], "completed")
        PROVE  of[c] \in Batches /\ row'[of[c]] = "completed"
    <3>1. of[c] \in Batches /\ row[of[c]] = "completed"
      BY <2>1 DEF IInv, Wires, CompletedIsTrue
    <3> QED
      BY <1>3, <1>5, <3>1
  <2>2. ASSUME NEW c \in Conns, wire'[c] = "completed" \/ Has(inbox'[c], "completed")
        PROVE  of'[c] \in Batches /\ row'[of'[c]] = "completed"
    <3>1. wire[c] = "completed" \/ Has(inbox[c], "completed")
      BY <1>5, <2>2
    <3> QED
      BY <1>5, <2>1, <3>1
  <2> QED
    BY <2>2 DEF CompletedIsTrue, Has
<1>8. EndToCome'
  <2>1. ASSUME NEW c \in open, wire[c] \in Active \cup {"live"}, emitter[of[c]] = c
        PROVE  row'[of[c]] \in Active \/ of[c] \in owed'
    <3>1. of[c] \in Batches /\ (row[of[c]] \in Active \/ of[c] \in owed)
      BY <2>1 DEF IInv, TypeOK, Wires, ConnsFollow, EndToCome
    <3>2. CASE of[c] = b
      BY <1>3, <1>5, <3>2
    <3>3. CASE of[c] # b
      BY <1>3, <1>5, <3>1, <3>3
    <3> QED
      BY <3>2, <3>3
  <2>2. ASSUME NEW c \in open, wire[c] = "off"
        PROVE  Has(inbox[c], "end")
    BY <2>2 DEF IInv, Wires, EndToCome
  <2> QED
    BY <1>5, <2>1, <2>2 DEF EndToCome, Has, Active
<1> QED
  BY <1>4, <1>6, <1>7, <1>8 DEF IInv, Wires

(* The upload's own steps.                                                 *)
LEMMA PostStep ==
    ASSUME IInv, StartUpload \/ \E b \in Batches : UploadFails(b)
    PROVE  IInv'
<1> USE ConstantsAssumption
<1>1. /\ UNCHANGED <<rowVars, connVars, trackVars, screenVars, file>>
      /\ uploading' \in BOOLEAN
  BY DEF StartUpload, UploadFails
<1>2. /\ faults' \in 0..MaxFaults
      /\ \E b \in Batches :
            \/ post[b] = "none" /\ post' = [post EXCEPT ![b] = "sent"]
            \/ post' = [post EXCEPT ![b] = "over"]
  BY DEF StartUpload, UploadFails, Fault, IInv, TypeOK
<1>3. TypeOK'
  BY <1>1, <1>2 DEF IInv, TypeOK, rowVars, connVars, trackVars, screenVars
<1>4. Rows'
  BY <1>1, <1>2 DEF IInv, TypeOK, Rows, RowsFollow, ProductsOfCompleted, rowVars,
     screenVars
<1>5. Wires'
  BY <1>1 DEF IInv, Wires, ConnsFollow, EntriesFollow, CompletedIsTrue, EndToCome,
     OneConnection, rowVars, connVars, trackVars
<1> QED
  BY <1>3, <1>4, <1>5 DEF IInv

----------------------------------------------------------------------------
(* Closing EventSources, which the screen then no longer waits for.        *)
LEMMA CloseStep ==
    ASSUME IInv, NEW cs \in SUBSET (Conns \cup {NoConn}),
           Close(cs), open \subseteq cs,
           tracked' \in Batches \cup {NoBatch}, progress' \in Statuses \cup {"none"},
           view' \in {"batches", "upload", "products"},
           selected' \in Batches \cup {NoBatch}, ProductsOfCompleted',
           UNCHANGED <<rowVars, emitter, wire, uploadVars, faults>>
    PROVE  IInv'
<1> USE ConstantsAssumption
<1>1. open' = {} /\ ref' = NoConn
  BY DEF Close
<1>2. /\ inbox' \in [Conns -> Seq(Statuses \cup {"end"})]
      /\ \A c \in Conns : inbox'[c] = <<>>
  BY DEF Close, Emptied, IInv, TypeOK, Wires, ConnsFollow
<1>3. /\ of' \in [Conns -> Batches \cup {NoBatch}]
      /\ \A c \in Conns : of'[c] = of[c] \/ (of'[c] = NoBatch /\ wire[c] = "off")
  BY DEF Close, Freed, IInv, TypeOK
<1>4. TypeOK' /\ Rows'
  BY <1>1, <1>2, <1>3 DEF IInv, TypeOK, Rows, RowsFollow, rowVars, uploadVars
<1>5. ConnsFollow' /\ OneConnection' /\ EndToCome'
  BY <1>1, <1>2, <1>3
     DEF IInv, Wires, ConnsFollow, OneConnection, EndToCome, rowVars
<1>6. EntriesFollow'
  BY <1>3 DEF IInv, TypeOK, Wires, EntriesFollow, Statuses, Active, Final
<1>7. CompletedIsTrue'
  <2>1. ASSUME NEW c \in Conns, wire[c] = "completed"
        PROVE  of'[c] \in Batches /\ row[of'[c]] = "completed"
    BY <1>3, <2>1 DEF IInv, Wires, CompletedIsTrue
  <2>2. ASSUME NEW c \in Conns PROVE ~Has(inbox'[c], "completed")
    BY <1>2 DEF Has
  <2> QED
    BY <2>1, <2>2 DEF CompletedIsTrue, rowVars, Has
<1> QED
  BY <1>4, <1>5, <1>6, <1>7 DEF IInv, Wires

(* Following a batch: the connection of the one before is closed.          *)
LEMMA TrackStep ==
    ASSUME IInv, NEW b \in Batches, row[b] # "none", Track(b),
           post' \in [Batches -> {"none", "sent", "created", "over"}],
           file' \in BOOLEAN, uploading' \in BOOLEAN,
           \A a \in Batches : post'[a] \in {post[a], "over"},
           UNCHANGED <<rowVars, screenVars, faults>>
    PROVE  IInv'
<1> USE ConstantsAssumption
<1>1. Rows'
  BY DEF IInv, Rows, RowsFollow, ProductsOfCompleted, rowVars, screenVars
<1>2. CASE b = tracked /\ UNCHANGED <<trackVars, connVars>>
  <2>1. TypeOK'
    BY <1>2 DEF IInv, TypeOK, rowVars, screenVars, trackVars, connVars
  <2>2. Wires'
    BY <1>2 DEF IInv, Wires, ConnsFollow, EntriesFollow, CompletedIsTrue,
       EndToCome, OneConnection, rowVars, trackVars, connVars
  <2> QED
    BY <1>1, <2>1, <2>2 DEF IInv
<1>3. CASE b # tracked /\ tracked' = b /\ progress' = "none" /\ Connect(b)
           /\ UNCHANGED emitter
  <2>1. PICK c \in Conns :
            /\ Free(c)
            /\ wire' = [wire EXCEPT ![c] = "dialing"]
            /\ of' = [Freed({ref}) EXCEPT ![c] = b]
            /\ inbox' = Emptied({ref})
            /\ open' = (open \ {ref}) \cup {c}
            /\ ref' = c
    BY <1>3 DEF Connect
  <2>2. open' = {c} /\ ref' = c
    BY <2>1 DEF IInv, Wires, OneConnection
  <2>3. /\ wire' \in [Conns -> Statuses \cup {"off", "dialing", "asked", "live"}]
        /\ wire'[c] = "dialing" /\ wire[c] = "off"
        /\ \A d \in Conns \ {c} : wire'[d] = wire[d]
    BY <2>1 DEF Free, IInv, TypeOK
  <2>4. /\ inbox' \in [Conns -> Seq(Statuses \cup {"end"})]
        /\ \A d \in Conns : inbox'[d] = <<>>
    BY <2>1 DEF Emptied, IInv, TypeOK, Wires, ConnsFollow, OneConnection
  <2>5. /\ of' \in [Conns -> Batches \cup {NoBatch}] /\ of'[c] = b
        /\ \A d \in Conns \ {c} :
               of'[d] = of[d] \/ (of'[d] = NoBatch /\ wire[d] = "off")
    BY <2>1 DEF Freed, IInv, TypeOK
  <2>6. TypeOK'
    BY <1>3, <2>2, <2>3, <2>4, <2>5 DEF IInv, TypeOK, rowVars, screenVars
  <2>7. ConnsFollow' /\ OneConnection'
    BY <1>3, <2>2, <2>3, <2>4, <2>5
       DEF IInv, Wires, ConnsFollow, OneConnection, rowVars
  <2>8. EntriesFollow'
    <3>1. ASSUME NEW a \in Batches, emitter[a] # NoConn
          PROVE  /\ of'[emitter[a]] = a
                 /\ wire'[emitter[a]] \in Statuses \cup {"asked", "live"}
      <4>1. /\ emitter[a] \in Conns /\ of[emitter[a]] = a
            /\ wire[emitter[a]] \in Statuses \cup {"asked", "live"}
        BY <3>1 DEF IInv, TypeOK, Wires, EntriesFollow
      <4>2. emitter[a] # c /\ wire[emitter[a]] # "off"
        BY <2>3, <4>1 DEF Statuses, Active, Final
      <4> QED
        BY <2>3, <2>5, <4>1, <4>2
    <3> QED
      BY <1>3, <3>1 DEF EntriesFollow
  <2>9. EndToCome'
    BY <2>2, <2>3 DEF EndToCome, Active
  <2>10. CompletedIsTrue'
    <3>1. ASSUME NEW d \in Conns, wire'[d] = "completed"
          PROVE  of'[d] \in Batches /\ row[of'[d]] = "completed"
      BY <2>3, <2>5, <3>1 DEF IInv, Wires, CompletedIsTrue
    <3>2. ASSUME NEW d \in Conns PROVE ~Has(inbox'[d], "completed")
      BY <2>4 DEF Has
    <3> QED
      BY <3>1, <3>2 DEF CompletedIsTrue, rowVars, Has
  <2> QED
    BY <1>1, <2>6, <2>7, <2>8, <2>9, <2>10 DEF IInv, Wires
<1> QED
  BY <1>2, <1>3 DEF Track

(* What an EventSource delivers.                                           *)
LEMMA ClientStep ==
    ASSUME IInv, NEW c \in Conns, Message(c) \/ StreamError(c)
    PROVE  IInv'
<1> USE ConstantsAssumption
<1>1. c \in open /\ open = {c} /\ ref = c /\ of[c] = tracked /\ tracked \in Batches
  BY DEF Message, StreamError, IInv, Wires, OneConnection, ConnsFollow
<1>2. inbox[c] # <<>> /\ inbox[c] \in Seq(Events)
  BY DEF Message, StreamError, IInv, TypeOK, Events
<1>3. CASE StreamError(c)
  <2>1. Close({c}) /\ UNCHANGED <<rowVars, emitter, wire, trackVars, screenVars,
                                  uploadVars, faults>>
    BY <1>3 DEF StreamError
  <2> QED
    BY <1>1, <2>1, CloseStep DEF IInv, TypeOK, Rows, ProductsOfCompleted,
       trackVars, screenVars, rowVars
<1>4. CASE Message(c) /\ Head(inbox[c]) = "completed" /\ ShowCompleted(c)
  <2>1. row[tracked] = "completed"
    BY <1>1, <1>2, <1>4, HasTail DEF IInv, Wires, CompletedIsTrue
  <2>2. /\ Close({c, ref}) /\ selected' = tracked /\ view' = "products"
        /\ tracked' = NoBatch /\ progress' = "none"
        /\ UNCHANGED <<rowVars, emitter, wire, uploadVars, faults>>
    BY <1>4 DEF Message, ShowCompleted
  <2> QED
    BY <1>1, <2>1, <2>2, CloseStep DEF ProductsOfCompleted, rowVars
<1>5. CASE Message(c) /\ ShowFailed(c)
  <2>1. /\ Close({c}) /\ progress' = "failed" /\ UNCHANGED <<screenVars, tracked>>
        /\ UNCHANGED <<rowVars, emitter, wire, uploadVars, faults>>
    BY <1>5 DEF Message, ShowFailed
  <2> QED
    BY <1>1, <2>1, CloseStep DEF IInv, TypeOK, Rows, ProductsOfCompleted,
       screenVars, rowVars, Statuses, Final
<1>6. CASE Message(c) /\ Head(inbox[c]) \in Active /\ ShowProgress(c)
  <2>1. /\ progress' = Head(inbox[c])
        /\ inbox' = [inbox EXCEPT ![c] = Tail(inbox[c])]
        /\ UNCHANGED <<screenVars, tracked, open, ref, of, rowVars, emitter,
                       wire, uploadVars, faults>>
    BY <1>6 DEF Message, ShowProgress
  <2>2. /\ Tail(inbox[c]) \in Seq(Events)
        /\ Has(Tail(inbox[c]), "completed") => Has(inbox[c], "completed")
        /\ Has(inbox[c], "end") => Has(Tail(inbox[c]), "end")
    BY <1>2, <1>6, HasTail DEF Active
  <2>3. TypeOK'
    BY <1>6, <2>1, <2>2
       DEF IInv, TypeOK, Events, Statuses, screenVars, rowVars, uploadVars
  <2>4. Rows' /\ ConnsFollow' /\ EntriesFollow' /\ OneConnection'
    BY <1>1, <2>1 DEF IInv, TypeOK, Rows, RowsFollow, ProductsOfCompleted,
       Wires, ConnsFollow, EntriesFollow, OneConnection, screenVars, rowVars,
       uploadVars
  <2>5. CompletedIsTrue'
    <3>1. ASSUME NEW d \in Conns, Has(inbox'[d], "completed")
          PROVE  Has(inbox[d], "completed")
      <4>1. CASE d = c
        BY <2>1, <2>2, <3>1, <4>1 DEF IInv, TypeOK
      <4>2. CASE d # c
        <5>1. inbox'[d] = inbox[d]
          BY <2>1, <4>2 DEF IInv, TypeOK
        <5> QED
          BY <3>1, <5>1
      <4> QED
        BY <4>1, <4>2
    <3> QED
      BY <2>1, <3>1 DEF IInv, Wires, CompletedIsTrue, Has, rowVars
  <2>6. EndToCome'
    <3>1. inbox'[c] = Tail(inbox[c])
      BY <2>1 DEF IInv, TypeOK
    <3> QED
      BY <1>1, <2>1, <2>2, <3>1 DEF IInv, Wires, EndToCome, Has, rowVars
  <2> QED
    BY <2>3, <2>4, <2>5, <2>6 DEF IInv, Wires
<1> QED
  BY <1>3, <1>4, <1>5, <1>6 DEF Message

----------------------------------------------------------------------------
(* The server's end of a connection: the steps that send nothing.          *)
LEMMA SubscribeStep ==
    ASSUME IInv, NEW c \in Conns, Subscribe(c)
    PROVE  IInv'
<1> USE ConstantsAssumption
<1>1. /\ UNCHANGED <<row, owed, of, inbox, open, ref, tracked, view, selected>>
      /\ UNCHANGED <<progress, file, uploading, post, faults>>
  BY DEF Subscribe, rowVars, trackVars, screenVars, uploadVars
<1>2. of[c] \in Batches
  BY DEF Subscribe, IInv, Wires, ConnsFollow
<1>3. /\ wire' \in [Conns -> Statuses \cup {"off", "dialing", "asked", "live"}]
      /\ wire[c] = "dialing" /\ wire'[c] = "asked"
      /\ \A d \in Conns \ {c} : wire'[d] = wire[d]
  BY DEF Subscribe, IInv, TypeOK
<1>4. /\ emitter' \in [Batches -> Conns \cup {NoConn}]
      /\ emitter'[of[c]] = c
      /\ \A a \in Batches \ {of[c]} : emitter'[a] = emitter[a]
  BY <1>2 DEF Subscribe, IInv, TypeOK
<1>5. TypeOK' /\ Rows'
  BY <1>1, <1>3, <1>4
     DEF IInv, TypeOK, Rows, RowsFollow, ProductsOfCompleted
<1>6. ConnsFollow' /\ OneConnection'
  BY <1>1, <1>2, <1>3 DEF IInv, Wires, ConnsFollow, OneConnection
<1>7. EntriesFollow'
  <2>1. ASSUME NEW a \in Batches \ {of[c]}, emitter[a] # NoConn
        PROVE  /\ of[emitter[a]] = a
               /\ wire'[emitter[a]] \in Statuses \cup {"asked", "live"}
    <3>1. /\ emitter[a] \in Conns /\ of[emitter[a]] = a
          /\ wire[emitter[a]] \in Statuses \cup {"asked", "live"}
      BY <2>1 DEF IInv, TypeOK, Wires, EntriesFollow
    <3> QED
      BY <1>3, <3>1
  <2> QED
    BY <1>1, <1>3, <1>4, <2>1 DEF EntriesFollow
<1>8. CompletedIsTrue'
  <2>1. ASSUME NEW d \in Conns, wire'[d] = "completed" \/ Has(inbox[d], "completed")
        PROVE  of[d] \in Batches /\ row[of[d]] = "completed"
    BY <1>3, <2>1 DEF IInv, Wires, CompletedIsTrue
  <2> QED
    BY <1>1, <2>1 DEF CompletedIsTrue, Has
<1>9. EndToCome'
  <2>1. ASSUME NEW d \in open
        PROVE  /\ wire'[d] = "off" => Has(inbox[d], "end")
               /\ wire'[d] \in Active \cup {"live"} =>
                      row[of[d]] \in Active \/ of[d] \in owed \/ emitter'[of[d]] # d
    <3>1. d \in Conns /\ of[d] \in Batches
      BY <2>1 DEF IInv, TypeOK, Wires, ConnsFollow
    <3>2. CASE d = c
      BY <1>3, <3>2 DEF Active
    <3>3. CASE d # c
      BY <1>3, <1>4, <3>1, <3>3 DEF IInv, Wires, EndToCome
    <3> QED
      BY <3>2, <3>3
  <2> QED
    BY <1>1, <2>1 DEF EndToCome, Has
<1> QED
  BY <1>5, <1>6, <1>7, <1>8, <1>9 DEF IInv, Wires

LEMMA ReadRowStep ==
    ASSUME IInv, NEW c \in Conns, ReadRow(c)
    PROVE  IInv'
<1> USE ConstantsAssumption
<1>1. /\ UNCHANGED <<row, owed, emitter, of, inbox, open, ref, tracked, view, selected>>
      /\ UNCHANGED <<progress, file, uploading, post, faults>>
  BY DEF ReadRow, rowVars, trackVars, screenVars, uploadVars
<1>2. of[c] \in Batches /\ row[of[c]] \in Statuses
  BY DEF ReadRow, IInv, TypeOK, Wires, ConnsFollow
<1>3. /\ wire' \in [Conns -> Statuses \cup {"off", "dialing", "asked", "live"}]
      /\ wire[c] = "asked" /\ wire'[c] = row[of[c]]
      /\ \A d \in Conns \ {c} : wire'[d] = wire[d]
  BY <1>2 DEF ReadRow, IInv, TypeOK
<1>4. TypeOK' /\ Rows'
  BY <1>1, <1>3 DEF IInv, TypeOK, Rows, RowsFollow, ProductsOfCompleted
<1>5. ConnsFollow' /\ OneConnection'
  BY <1>1, <1>2, <1>3 DEF IInv, Wires, ConnsFollow, OneConnection
<1>6. EntriesFollow'
  <2>1. ASSUME NEW a \in Batches, emitter[a] # NoConn
        PROVE  /\ of[emitter[a]] = a
               /\ wire'[emitter[a]] \in Statuses \cup {"asked", "live"}
    <3>1. /\ emitter[a] \in Conns /\ of[emitter[a]] = a
          /\ wire[emitter[a]] \in Statuses \cup {"asked", "live"}
      BY <2>1 DEF IInv, TypeOK, Wires, EntriesFollow
    <3> QED
      BY <1>2, <1>3, <3>1
  <2> QED
    BY <1>1, <2>1 DEF EntriesFollow
<1>7. CompletedIsTrue'
  <2>1. ASSUME NEW d \in Conns, wire'[d] = "completed" \/ Has(inbox[d], "completed")
        PROVE  of[d] \in Batches /\ row[of[d]] = "completed"
    <3>1. CASE d = c /\ wire'[d] = "completed"
      BY <1>2, <1>3, <3>1
    <3>2. CASE d # c \/ Has(inbox[d], "completed")
      BY <1>3, <2>1, <3>2 DEF IInv, Wires, CompletedIsTrue
    <3> QED
      BY <2>1, <3>1, <3>2
  <2> QED
    BY <1>1, <2>1 DEF CompletedIsTrue, Has
<1>8. EndToCome'
  <2>1. ASSUME NEW d \in open
        PROVE  /\ wire'[d] = "off" => Has(inbox[d], "end")
               /\ wire'[d] \in Active \cup {"live"} =>
                      row[of[d]] \in Active \/ of[d] \in owed \/ emitter[of[d]] # d
    <3>1. d \in Conns
      BY <2>1 DEF IInv, TypeOK
    <3>2. CASE d = c
      BY <1>2, <1>3, <3>2 DEF Statuses, Active, Final
    <3>3. CASE d # c
      BY <1>3, <3>1, <3>3 DEF IInv, Wires, EndToCome
    <3> QED
      BY <3>2, <3>3
  <2> QED
    BY <1>1, <2>1 DEF EndToCome, Has
<1> QED
  BY <1>4, <1>5, <1>6, <1>7, <1>8 DEF IInv, Wires

LEMMA NoticeStep ==
    ASSUME IInv, NEW c \in Conns, NoticeClosed(c)
    PROVE  IInv'
<1> USE ConstantsAssumption
<1>1. /\ UNCHANGED <<row, owed, inbox, open, ref, tracked, view, selected>>
      /\ UNCHANGED <<progress, file, uploading, post, faults>>
  BY DEF NoticeClosed, rowVars, trackVars, screenVars, uploadVars
<1>2. wire[c] # "off" /\ c \notin open /\ inbox[c] = <<>> /\ of[c] \in Batches
  BY DEF NoticeClosed, IInv, Wires, ConnsFollow
<1>3. /\ wire' \in [Conns -> Statuses \cup {"off", "dialing", "asked", "live"}]
      /\ wire'[c] = "off" /\ \A d \in Conns \ {c} : wire'[d] = wire[d]
  BY DEF NoticeClosed, IInv, TypeOK
<1>4. /\ of' \in [Conns -> Batches \cup {NoBatch}]
      /\ of'[c] = NoBatch /\ \A d \in Conns \ {c} : of'[d] = of[d]
  BY DEF NoticeClosed, IInv, TypeOK
<1>5. /\ emitter' \in [Batches -> Conns \cup {NoConn}]
      /\ \A a \in Batches : emitter'[a] \in {emitter[a], NoConn}
      /\ \A a \in Batches : emitter'[a] # c
  <2>1. CASE wire[c] = "dialing"
    <3>1. emitter' = emitter /\ c # NoConn /\ emitter \in [Batches -> Conns \cup {NoConn}]
      BY <2>1 DEF NoticeClosed, IInv, TypeOK
    <3>2. ASSUME NEW a \in Batches PROVE emitter[a] # c
      BY <2>1, <3>1 DEF IInv, Wires, EntriesFollow, Statuses, Active, Final
    <3> QED
      BY <3>1, <3>2
  <2>2. CASE wire[c] # "dialing"
    BY <1>2, <2>2 DEF NoticeClosed, IInv, TypeOK, Wires, EntriesFollow
  <2> QED
    BY <2>1, <2>2
<1>6. TypeOK' /\ Rows'
  BY <1>1, <1>3, <1>4, <1>5
     DEF IInv, TypeOK, Rows, RowsFollow, ProductsOfCompleted
<1>7. ConnsFollow' /\ OneConnection'
  BY <1>1, <1>2, <1>3, <1>4 DEF IInv, TypeOK, Wires, ConnsFollow, OneConnection
<1>8. EntriesFollow'
  <2>1. ASSUME NEW a \in Batches, emitter'[a] # NoConn
        PROVE  /\ of'[emitter'[a]] = a
               /\ wire'[emitter'[a]] \in Statuses \cup {"asked", "live"}
    BY <1>3, <1>4, <1>5, <2>1 DEF IInv, TypeOK, Wires, EntriesFollow
  <2> QED
    BY <2>1 DEF EntriesFollow
<1>9. CompletedIsTrue'
  <2>1. ASSUME NEW d \in Conns, wire'[d] = "completed" \/ Has(inbox[d], "completed")
        PROVE  of'[d] \in Batches /\ row[of'[d]] = "completed"
    <3>1. d # c
      BY <1>2, <1>3, <2>1, HasShort DEF Has
    <3> QED
      BY <1>3, <1>4, <2>1, <3>1 DEF IInv, Wires, CompletedIsTrue
  <2> QED
    BY <1>1, <2>1 DEF CompletedIsTrue, Has
<1>10. EndToCome'
  <2>1. ASSUME NEW d \in open
        PROVE  /\ wire'[d] = "off" => Has(inbox[d], "end")
               /\ wire'[d] \in Active \cup {"live"} =>
                      row[of'[d]] \in Active \/ of'[d] \in owed \/ emitter'[of'[d]] # d
    <3>1. d \in Conns /\ d # c /\ of[d] \in Batches
      BY <1>2, <2>1 DEF IInv, TypeOK, Wires, ConnsFollow
    <3> QED
      BY <1>3, <1>4, <1>5, <3>1 DEF IInv, Wires, EndToCome
  <2> QED
    BY <1>1, <2>1 DEF EndToCome, Has
<1> QED
  BY <1>6, <1>7, <1>8, <1>9, <1>10 DEF IInv, Wires

(* What reaches an EventSource is what it had and what was sent.           *)
LEMMA DeliveredHolds ==
    ASSUME IInv, NEW c \in Conns, NEW events \in Seq(Events), Delivered(c, events)
    PROVE  /\ inbox' \in [Conns -> Seq(Statuses \cup {"end"})]
           /\ \A d \in Conns : d \notin open => inbox'[d] = <<>>
           /\ \A d \in Conns \ {c} : inbox'[d] = inbox[d]
           /\ c \in open => inbox'[c] = inbox[c] \o events
           /\ \A e : Has(inbox'[c], e) => Has(inbox[c], e) \/ Has(events, e)
           /\ \A e : c \in open /\ (Has(inbox[c], e) \/ Has(events, e)) => Has(inbox'[c], e)
<1>1. inbox \in [Conns -> Seq(Events)] /\ inbox[c] \in Seq(Events)
  BY DEF IInv, TypeOK, Events
<1>2. \A d \in Conns : d \notin open => inbox[d] = <<>>
  BY DEF IInv, Wires, ConnsFollow
<1>3. inbox[c] \o events \in Seq(Events)
  BY <1>1
<1>4. \A e : Has(inbox[c] \o events, e) <=> Has(inbox[c], e) \/ Has(events, e)
  <2>1. ASSUME NEW e
        PROVE  Has(inbox[c] \o events, e) <=> Has(inbox[c], e) \/ Has(events, e)
    BY <1>1, HasAppended
  <2> QED
    BY <2>1
<1>5. CASE c \in open
  <2>1. inbox' = [inbox EXCEPT ![c] = inbox[c] \o events]
    BY <1>5 DEF Delivered
  <2>2. inbox' \in [Conns -> Seq(Events)]
    BY <1>1, <1>3, <2>1
  <2>3. inbox'[c] = inbox[c] \o events /\ \A d \in Conns \ {c} : inbox'[d] = inbox[d]
    BY <1>1, <2>1
  <2> QED
    BY <1>2, <1>4, <1>5, <2>2, <2>3 DEF Events
<1>6. CASE c \notin open
  <2>1. inbox' = inbox
    BY <1>6 DEF Delivered
  <2> QED
    BY <1>1, <1>2, <1>6, <2>1 DEF Events
<1> QED
  BY <1>5, <1>6

(* A stream that ends: its EventSource is told, and no entry is left of    *)
(* its batch. The end announced was of this batch at most.                 *)
LEMMA EndStep ==
    ASSUME IInv, NEW c \in Conns, NEW events \in Seq(Events),
           wire[c] \in Statuses \cup {"asked", "live"},
           Has(events, "completed") => row[of[c]] = "completed",
           EndStream(c, events),
           owed' \subseteq owed, owed \ {of[c]} \subseteq owed',
           faults' \in 0..MaxFaults,
           UNCHANGED <<row, open, ref, trackVars, screenVars, uploadVars>>
    PROVE  IInv'
<1> USE ConstantsAssumption
<1>1. /\ UNCHANGED <<row, open, ref, tracked, view, selected>>
      /\ UNCHANGED <<progress, file, uploading, post>>
  BY DEF trackVars, screenVars, uploadVars
<1>2. of[c] \in Batches /\ wire[c] # "off"
  BY DEF IInv, Wires, ConnsFollow, Statuses, Active, Final
<1>3. /\ wire' \in [Conns -> Statuses \cup {"off", "dialing", "asked", "live"}]
      /\ wire'[c] = "off" /\ \A d \in Conns \ {c} : wire'[d] = wire[d]
  BY DEF EndStream, IInv, TypeOK
<1>4. /\ of' \in [Conns -> Batches \cup {NoBatch}]
      /\ of'[c] \in {of[c], NoBatch} /\ (c \in open => of'[c] = of[c])
      /\ \A d \in Conns \ {c} : of'[d] = of[d]
  BY DEF EndStream, IInv, TypeOK
<1>5. /\ emitter' \in [Batches -> Conns \cup {NoConn}]
      /\ emitter'[of[c]] = NoConn
      /\ \A a \in Batches \ {of[c]} : emitter'[a] = emitter[a]
  BY <1>2 DEF EndStream, IInv, TypeOK
<1>6. Append(events, "end") \in Seq(Events) /\ Delivered(c, Append(events, "end"))
  BY DEF EndStream, Events
<1>7. /\ Has(Append(events, "end"), "end")
      /\ Has(Append(events, "end"), "completed") => Has(events, "completed")
  <2>1. /\ <<"end">> \in Seq(Events) /\ Has(<<"end">>, "end")
        /\ ~Has(<<"end">>, "completed")
    BY HasShort DEF Events
  <2>2. Append(events, "end") = events \o <<"end">>
    OBVIOUS
  <2>3. ASSUME NEW e
        PROVE  Has(events \o <<"end">>, e) <=> Has(events, e) \/ Has(<<"end">>, e)
    BY <2>1, HasAppended
  <2> QED
    BY <2>1, <2>2, <2>3
<1>8. /\ inbox' \in [Conns -> Seq(Statuses \cup {"end"})]
      /\ \A d \in Conns : d \notin open => inbox'[d] = <<>>
      /\ \A d \in Conns \ {c} : inbox'[d] = inbox[d]
      /\ Has(inbox'[c], "completed") => Has(inbox[c], "completed") \/ Has(events, "completed")
      /\ c \in open => Has(inbox'[c], "end")
  BY <1>6, <1>7, DeliveredHolds
<1>9. TypeOK' /\ Rows'
  BY <1>1, <1>3, <1>4, <1>5, <1>8
     DEF IInv, TypeOK, Rows, RowsFollow, ProductsOfCompleted
<1>10. ConnsFollow' /\ OneConnection'
  <2>1. ConnsFollow'
    <3>1. \A d \in Conns :
              /\ wire[d] # "off" => of[d] \in Batches
              /\ of[d] \in Batches => row[of[d]] # "none"
              /\ d \in open => of[d] \in Batches
      BY DEF IInv, Wires, ConnsFollow
    <3>2. ASSUME NEW d \in Conns
          PROVE  /\ wire'[d] # "off" => of'[d] \in Batches
                 /\ of'[d] \in Batches => row[of'[d]] # "none"
                 /\ d \in open => of'[d] \in Batches
      <4>1. CASE d = c
        BY <1>2, <1>3, <1>4, <3>1, <4>1
      <4>2. CASE d # c
        BY <1>3, <1>4, <3>1, <4>2
      <4> QED
        BY <4>1, <4>2
    <3> QED
      BY <1>1, <1>8, <3>2 DEF ConnsFollow
  <2>2. OneConnection'
    BY <1>1, <1>4 DEF IInv, TypeOK, Wires, OneConnection
  <2> QED
    BY <2>1, <2>2
<1>11. EntriesFollow'
  <2>1. ASSUME NEW a \in Batches, emitter'[a] # NoConn
        PROVE  /\ of'[emitter'[a]] = a
               /\ wire'[emitter'[a]] \in Statuses \cup {"asked", "live"}
    <3>1. a # of[c] /\ emitter'[a] = emitter[a]
      BY <1>5, <2>1
    <3>2. /\ emitter[a] \in Conns /\ of[emitter[a]] = a
          /\ wire[emitter[a]] \in Statuses \cup {"asked", "live"}
      BY <2>1, <3>1 DEF IInv, TypeOK, Wires, EntriesFollow
    <3> QED
      BY <1>3, <1>4, <3>1, <3>2
  <2> QED
    BY <2>1 DEF EntriesFollow
<1>12. CompletedIsTrue'
  <2>1. ASSUME NEW d \in Conns, wire'[d] = "completed" \/ Has(inbox'[d], "completed")
        PROVE  of'[d] \in Batches /\ row[of'[d]] = "completed"
    <3>1. CASE d = c
      <4>1. Has(inbox'[c], "completed")
        BY <1>3, <2>1, <3>1
      <4>2. c \in open
        BY <1>8, <4>1 DEF Has
      <4>3. row[of[c]] = "completed"
        BY <1>8, <4>1 DEF IInv, Wires, CompletedIsTrue
      <4> QED
        BY <1>2, <1>4, <3>1, <4>2, <4>3
    <3>2. CASE d # c
      <4>1. wire[d] = "completed" \/ Has(inbox[d], "completed")
        BY <1>3, <1>8, <2>1, <3>2
      <4>2. of[d] \in Batches /\ row[of[d]] = "completed"
        BY <4>1 DEF IInv, Wires, CompletedIsTrue
      <4> QED
        BY <1>4, <3>2, <4>2
    <3> QED
      BY <3>1, <3>2
  <2> QED
    BY <1>1, <2>1 DEF CompletedIsTrue, Has
<1>13. EndToCome'
  <2>1. ASSUME NEW d \in open
        PROVE  /\ wire'[d] = "off" => Has(inbox'[d], "end")
               /\ wire'[d] \in Active \cup {"live"} =>
                      row[of'[d]] \in Active \/ of'[d] \in owed' \/ emitter'[of'[d]] # d
    <3>1. d \in Conns /\ of[d] \in Batches
      BY <2>1 DEF IInv, TypeOK, Wires, ConnsFollow
    <3>2. CASE d = c
      BY <1>3, <1>8, <2>1, <3>2 DEF Active
    <3>3. CASE d # c
      <4>1. wire'[d] = wire[d] /\ of'[d] = of[d] /\ inbox'[d] = inbox[d]
        BY <1>3, <1>4, <1>8, <3>1, <3>3
      <4>2. of[d] = of[c] => emitter'[of[d]] # d
        BY <1>5, <3>1
      <4>3. of[d] # of[c] => emitter'[of[d]] = emitter[of[d]]
        BY <1>5, <3>1
      <4> QED
        BY <2>1, <4>1, <4>2, <4>3 DEF IInv, Wires, EndToCome
    <3> QED
      BY <3>2, <3>3
  <2> QED
    BY <1>1, <2>1 DEF EndToCome, Has
<1> QED
  BY <1>9, <1>10, <1>11, <1>12, <1>13 DEF IInv, Wires

(* Progress, or the first status of a stream that then lives.              *)
LEMMA ProgressStep ==
    ASSUME IInv, NEW c \in Conns, NEW st \in Active,
           NEW stage \in Statuses \cup {"asked", "live"},
           wire[c] \in Statuses \cup {"asked", "live"},
           stage = wire[c] \/ (wire[c] \in Active /\ stage = "live"),
           Delivered(c, <<st>>), wire' = [wire EXCEPT ![c] = stage],
           UNCHANGED <<rowVars, of, emitter, open, ref, trackVars, screenVars,
                       uploadVars, faults>>
    PROVE  IInv'
<1> USE ConstantsAssumption
<1>1. /\ UNCHANGED <<row, owed, of, emitter, open, ref, tracked, view, selected>>
      /\ UNCHANGED <<progress, file, uploading, post, faults>>
  BY DEF rowVars, trackVars, screenVars, uploadVars
<1>2. /\ wire' \in [Conns -> Statuses \cup {"off", "dialing", "asked", "live"}]
      /\ wire'[c] = stage /\ \A d \in Conns \ {c} : wire'[d] = wire[d]
      /\ wire[c] # "off" /\ stage # "off"
      /\ stage = "completed" => wire[c] = "completed"
  BY DEF IInv, TypeOK, Statuses, Active, Final
<1>3. <<st>> \in Seq(Events) /\ ~Has(<<st>>, "completed")
  BY HasShort DEF Events, Statuses, Active
<1>4. /\ inbox' \in [Conns -> Seq(Statuses \cup {"end"})]
      /\ \A d \in Conns : d \notin open => inbox'[d] = <<>>
      /\ \A d \in Conns \ {c} : inbox'[d] = inbox[d]
      /\ Has(inbox'[c], "completed") => Has(inbox[c], "completed")
      /\ c \in open /\ Has(inbox[c], "end") => Has(inbox'[c], "end")
  BY <1>3, DeliveredHolds
<1>5. TypeOK' /\ Rows'
  BY <1>1, <1>2, <1>4 DEF IInv, TypeOK, Rows, RowsFollow, ProductsOfCompleted
<1>6. ConnsFollow' /\ OneConnection'
  BY <1>1, <1>2, <1>4 DEF IInv, TypeOK, Wires, ConnsFollow, OneConnection
<1>7. EntriesFollow'
  <2>1. ASSUME NEW a \in Batches, emitter[a] # NoConn
        PROVE  /\ of[emitter[a]] = a
               /\ wire'[emitter[a]] \in Statuses \cup {"asked", "live"}
    <3>1. /\ emitter[a] \in Conns /\ of[emitter[a]] = a
          /\ wire[emitter[a]] \in Statuses \cup {"asked", "live"}
      BY <2>1 DEF IInv, TypeOK, Wires, EntriesFollow
    <3> QED
      BY <1>2, <3>1
  <2> QED
    BY <1>1, <2>1 DEF EntriesFollow
<1>8. CompletedIsTrue'
  <2>1. ASSUME NEW d \in Conns, wire'[d] = "completed" \/ Has(inbox'[d], "completed")
        PROVE  of[d] \in Batches /\ row[of[d]] = "completed"
    <3>1. wire[d] = "completed" \/ Has(inbox[d], "completed")
      <4>1. CASE d = c
        BY <1>2, <1>4, <2>1, <4>1
      <4>2. CASE d # c
        BY <1>2, <1>4, <2>1, <4>2
      <4> QED
        BY <4>1, <4>2
    <3> QED
      BY <3>1 DEF IInv, Wires, CompletedIsTrue
  <2> QED
    BY <1>1, <2>1 DEF CompletedIsTrue, Has
<1>9. EndToCome'
  <2>1. ASSUME NEW d \in open
        PROVE  /\ wire'[d] = "off" => Has(inbox'[d], "end")
               /\ wire'[d] \in Active \cup {"live"} =>
                      row[of[d]] \in Active \/ of[d] \in owed \/ emitter[of[d]] # d
    <3>1. d \in Conns
      BY <2>1 DEF IInv, TypeOK
    <3>2. CASE d = c
      BY <1>2, <2>1, <3>2 DEF IInv, Wires, EndToCome
    <3>3. CASE d # c
      BY <1>2, <1>4, <2>1, <3>1, <3>3 DEF IInv, Wires, EndToCome
    <3> QED
      BY <3>2, <3>3
  <2> QED
    BY <1>1, <2>1 DEF EndToCome, Has
<1> QED
  BY <1>5, <1>6, <1>7, <1>8, <1>9 DEF IInv, Wires

LEMMA CutStep ==
    ASSUME IInv, NEW c \in Conns, Cut(c)
    PROVE  IInv'
<1> USE ConstantsAssumption
<1>1. /\ UNCHANGED <<row, owed, of, emitter, wire, open, ref, tracked, view, selected>>
      /\ UNCHANGED <<progress, file, uploading, post>>
      /\ faults' \in 0..MaxFaults
  BY DEF Cut, Fault, rowVars, trackVars, screenVars, uploadVars, IInv, TypeOK
<1>2. <<"end">> \in Seq(Statuses \cup {"end"}) /\ Has(<<"end">>, "end")
      /\ ~Has(<<"end">>, "completed")
  BY HasShort
<1>3. /\ inbox' \in [Conns -> Seq(Statuses \cup {"end"})]
      /\ c \in open /\ inbox'[c] = <<"end">>
      /\ \A d \in Conns \ {c} : inbox'[d] = inbox[d]
  BY <1>2 DEF Cut, IInv, TypeOK
<1>4. TypeOK' /\ Rows'
  BY <1>1, <1>3 DEF IInv, TypeOK, Rows, RowsFollow, ProductsOfCompleted
<1>5. ConnsFollow' /\ OneConnection' /\ EntriesFollow'
  BY <1>1, <1>3 DEF IInv, Wires, ConnsFollow, OneConnection, EntriesFollow
<1>6. CompletedIsTrue'
  <2>1. ASSUME NEW d \in Conns, wire[d] = "completed" \/ Has(inbox'[d], "completed")
        PROVE  of[d] \in Batches /\ row[of[d]] = "completed"
    <3>1. wire[d] = "completed" \/ Has(inbox[d], "completed")
      <4>1. CASE d = c
        BY <1>2, <1>3, <2>1, <4>1
      <4>2. CASE d # c
        BY <1>3, <2>1, <4>2
      <4> QED
        BY <4>1, <4>2
    <3> QED
      BY <3>1 DEF IInv, Wires, CompletedIsTrue
  <2> QED
    BY <1>1, <2>1 DEF CompletedIsTrue, Has
<1>7. EndToCome'
  <2>1. ASSUME NEW d \in open, wire[d] = "off"
        PROVE  Has(inbox'[d], "end")
    <3>1. d \in Conns
      BY <2>1 DEF IInv, TypeOK
    <3>2. CASE d = c
      BY <1>2, <1>3, <3>2
    <3>3. CASE d # c
      BY <1>3, <2>1, <3>1, <3>3 DEF IInv, Wires, EndToCome
    <3> QED
      BY <3>2, <3>3
  <2>2. ASSUME NEW d \in open, wire[d] \in Active \cup {"live"}
        PROVE  row[of[d]] \in Active \/ of[d] \in owed \/ emitter[of[d]] # d
    BY <2>2 DEF IInv, Wires, EndToCome
  <2> QED
    BY <1>1, <2>1, <2>2 DEF EndToCome, Has
<1> QED
  BY <1>4, <1>5, <1>6, <1>7 DEF IInv, Wires

(* What a stream tells when it starts, and when its row cannot be read.    *)
LEMMA StreamStarts ==
    ASSUME IInv, NEW c \in Conns, SendInitial(c) \/ ReadFails(c)
    PROVE  IInv'
<1> USE ConstantsAssumption
<1>1. CASE SendInitial(c) /\ wire[c] \in Final
  <2>1. /\ EndStream(c, <<wire[c]>>)
        /\ UNCHANGED <<rowVars, open, ref, trackVars, screenVars, uploadVars, faults>>
    BY <1>1 DEF SendInitial, Send
  <2>2. /\ <<wire[c]>> \in Seq(Events) /\ wire[c] \in Statuses
        /\ Has(<<wire[c]>>, "completed") => wire[c] = "completed"
    BY <1>1, HasShort DEF Events, Statuses, Final
  <2>3. wire[c] = "completed" => row[of[c]] = "completed"
    BY DEF IInv, Wires, CompletedIsTrue
  <2>4. UNCHANGED <<row, owed, open, ref, trackVars, screenVars, uploadVars>>
        /\ faults' \in 0..MaxFaults
    BY <2>1 DEF rowVars, IInv, TypeOK
  <2> QED
    BY <2>1, <2>2, <2>3, <2>4, EndStep
<1>2. CASE SendInitial(c) /\ wire[c] \notin Final
  <2>1. wire[c] \in Active
    BY <1>2 DEF SendInitial, Statuses
  <2>2. /\ Delivered(c, <<wire[c]>>) /\ wire' = [wire EXCEPT ![c] = "live"]
        /\ UNCHANGED <<rowVars, of, emitter, open, ref, trackVars, screenVars,
                       uploadVars, faults>>
    BY <1>2 DEF SendInitial, Send
  <2> QED
    BY <2>1, <2>2, ProgressStep DEF Statuses
<1>3. CASE ReadFails(c)
  <2>1. /\ EndStream(c, <<>>) /\ wire[c] = "asked" /\ faults' \in 0..MaxFaults
        /\ UNCHANGED <<row, owed, open, ref, trackVars, screenVars, uploadVars>>
    BY <1>3 DEF ReadFails, Fault, rowVars, IInv, TypeOK
  <2>2. <<>> \in Seq(Events) /\ ~Has(<<>>, "completed")
    BY DEF Has
  <2> QED
    BY <2>1, <2>2, EndStep
<1> QED
  BY <1>1, <1>2, <1>3

(* What the processor tells the batch's stream, if it has one.             *)
LEMMA EmitStep ==
    ASSUME IInv, NEW b \in Batches, Report(b) \/ AnnounceEnd(b)
    PROVE  IInv'
<1> USE ConstantsAssumption
<1>1. emitter[b] # NoConn =>
          /\ emitter[b] \in Conns /\ of[emitter[b]] = b
          /\ wire[emitter[b]] \in Statuses \cup {"asked", "live"}
  BY DEF IInv, TypeOK, Wires, EntriesFollow
<1>2. CASE Report(b)
  <2>1. /\ Delivered(emitter[b], <<"processing">>)
        /\ wire' = [wire EXCEPT ![emitter[b]] = wire[emitter[b]]]
        /\ UNCHANGED <<rowVars, of, emitter, open, ref, trackVars, screenVars,
                       uploadVars, faults>>
    BY <1>2 DEF Report, Emit, Send, Final
  <2>2. emitter[b] # NoConn /\ "processing" \in Active
    BY <1>2 DEF Report, Active
  <2> QED
    BY <1>1, <2>1, <2>2, ProgressStep
<1>3. CASE AnnounceEnd(b) /\ emitter[b] # NoConn
  <2>1. row[b] \in Final
    BY <1>3 DEF AnnounceEnd, IInv, Rows, RowsFollow
  <2>2. /\ EndStream(emitter[b], <<row[b]>>) /\ owed' = owed \ {b}
        /\ UNCHANGED <<row, open, ref, trackVars, screenVars, uploadVars, faults>>
    BY <1>3, <2>1 DEF AnnounceEnd, Emit, Send
  <2>3. /\ <<row[b]>> \in Seq(Events)
        /\ Has(<<row[b]>>, "completed") => row[b] = "completed"
    BY <2>1, HasShort DEF Events, Statuses
  <2>4. /\ owed' \subseteq owed /\ owed \ {b} \subseteq owed'
        /\ faults' \in 0..MaxFaults
        /\ UNCHANGED <<row, open, ref, trackVars, screenVars, uploadVars>>
    BY <2>2 DEF IInv, TypeOK
  <2> QED
    BY <1>1, <1>3, <2>2, <2>3, <2>4, EndStep
<1>4. CASE AnnounceEnd(b) /\ emitter[b] = NoConn
  <2>1. /\ owed' = owed \ {b}
        /\ UNCHANGED <<row, emitter, wire, of, inbox, open, ref, tracked, view>>
        /\ UNCHANGED <<selected, progress, file, uploading, post, faults>>
    BY <1>4 DEF AnnounceEnd, Emit, trackVars, screenVars, uploadVars
  <2>2. TypeOK' /\ Rows'
    BY <2>1 DEF IInv, TypeOK, Rows, RowsFollow, ProductsOfCompleted
  <2>3. ConnsFollow' /\ EntriesFollow' /\ OneConnection'
    BY <2>1 DEF IInv, Wires, ConnsFollow, EntriesFollow, OneConnection
  <2>4. CompletedIsTrue'
    BY <2>1 DEF IInv, Wires, CompletedIsTrue, Has
  <2>5. EndToCome'
    <3>1. ASSUME NEW d \in open
          PROVE  /\ wire[d] = "off" => Has(inbox[d], "end")
                 /\ wire[d] \in Active \cup {"live"} =>
                        row[of[d]] \in Active \/ of[d] \in owed' \/ emitter[of[d]] # d
      <4>1. d \in Conns /\ d # NoConn
        BY <3>1 DEF IInv, TypeOK
      <4> QED
        BY <1>4, <2>1, <3>1, <4>1 DEF IInv, Wires, EndToCome
    <3> QED
      BY <2>1, <3>1 DEF EndToCome, Has
  <2> QED
    BY <2>2, <2>3, <2>4, <2>5 DEF IInv, Wires
<1> QED
  BY <1>2, <1>3, <1>4

(* The handlers that start following a batch, and the one that stops.      *)
LEMMA FollowStep ==
    ASSUME IInv,
           \/ BackFromProcessing
           \/ \E b \in Batches : ViewProgress(b) \/ UploadAnswered(b)
    PROVE  IInv'
<1>1. ASSUME NEW b \in Batches, ViewProgress(b) PROVE IInv'
  <2>1. row[b] # "none" /\ Track(b)
    BY <1>1 DEF ViewProgress, Offers, Final
  <2>2. /\ UNCHANGED <<rowVars, screenVars, faults>> /\ UNCHANGED <<file, uploading, post>>
        /\ post' \in [Batches -> {"none", "sent", "created", "over"}]
        /\ file' \in BOOLEAN /\ uploading' \in BOOLEAN
    BY <1>1 DEF ViewProgress, uploadVars, IInv, TypeOK
  <2> QED
    BY <2>1, <2>2, TrackStep
<1>2. ASSUME NEW b \in Batches, UploadAnswered(b) PROVE IInv'
  <2>1. row[b] # "none" /\ Track(b)
    BY <1>2 DEF UploadAnswered, IInv, Rows, RowsFollow
  <2>2. /\ UNCHANGED <<rowVars, screenVars, faults>>
        /\ post' \in [Batches -> {"none", "sent", "created", "over"}]
        /\ file' \in BOOLEAN /\ uploading' \in BOOLEAN
        /\ \A a \in Batches : post'[a] \in {post[a], "over"}
    BY <1>2 DEF UploadAnswered, IInv, TypeOK
  <2> QED
    BY <2>1, <2>2, TrackStep
<1>3. CASE BackFromProcessing
  <2>1. /\ Close({ref}) /\ tracked' = NoBatch /\ progress' = "none"
        /\ UNCHANGED <<rowVars, emitter, wire, screenVars, uploadVars, faults>>
    BY <1>3 DEF BackFromProcessing, Untrack
  <2>2. /\ {ref} \in SUBSET (Conns \cup {NoConn}) /\ open \subseteq {ref}
        /\ view' \in {"batches", "upload", "products"}
        /\ selected' \in Batches \cup {NoBatch} /\ ProductsOfCompleted'
    BY <2>1 DEF screenVars, rowVars, IInv, TypeOK, Rows, ProductsOfCompleted, Wires,
       OneConnection
  <2> QED
    BY <2>1, <2>2, CloseStep
<1> QED
  BY <1>1, <1>2, <1>3

LEMMA Initially == Init => IInv
<1> SUFFICES ASSUME Init PROVE IInv
  OBVIOUS
<1> USE ConstantsAssumption
<1>1. /\ row \in [Batches -> Statuses \cup {"none"}]
      /\ wire \in [Conns -> Statuses \cup {"off", "dialing", "asked", "live"}]
      /\ emitter \in [Batches -> Conns \cup {NoConn}]
      /\ of \in [Conns -> Batches \cup {NoBatch}]
  BY DEF Init, Statuses, Active
<1>2. /\ inbox \in [Conns -> Seq(Statuses \cup {"end"})]
      /\ post \in [Batches -> {"none", "sent", "created", "over"}]
  BY DEF Init
<1>3. TypeOK
  <2>1. /\ owed \subseteq Batches /\ open \subseteq Conns /\ ref \in Conns \cup {NoConn}
    BY DEF Init
  <2>2. /\ selected \in Batches \cup {NoBatch} /\ tracked \in Batches \cup {NoBatch}
        /\ view \in {"batches", "upload", "products"}
        /\ progress \in Statuses \cup {"none"}
    BY DEF Init
  <2>3. file \in BOOLEAN /\ uploading \in BOOLEAN
    BY DEF Init
  <2>4. faults \in 0..MaxFaults
    BY DEF Init
  <2> QED
    BY <1>1, <1>2, <2>1, <2>2, <2>3, <2>4 DEF TypeOK
<1>4. Rows
  BY DEF Init, Rows, RowsFollow, ProductsOfCompleted
<1>5. ConnsFollow /\ EntriesFollow /\ EndToCome /\ OneConnection
  BY DEF Init, ConnsFollow, EntriesFollow, EndToCome, OneConnection
<1>6. CompletedIsTrue
  BY DEF Init, CompletedIsTrue, Has
<1> QED
  BY <1>3, <1>4, <1>5, <1>6 DEF IInv, Wires

LEMMA EveryStep == IInv /\ [Next]_vars => IInv'
<1> SUFFICES ASSUME IInv, [Next]_vars PROVE IInv'
  OBVIOUS
<1>1. CASE User
  <2>1. CASE StartUpload
    BY <2>1, PostStep
  <2>2. CASE SelectFile \/ ClearFile \/ UploadNew \/ CancelUpload \/ BackToBatches
    BY <2>2, ScreenStep
  <2>3. CASE BackFromProcessing
    BY <2>3, FollowStep
  <2>4. ASSUME NEW b \in Batches, ViewProducts(b) PROVE IInv'
    BY <2>4, ScreenStep
  <2>5. ASSUME NEW b \in Batches, ViewProgress(b) PROVE IInv'
    BY <2>5, FollowStep
  <2> QED
    BY <1>1, <2>1, <2>2, <2>3, <2>4, <2>5 DEF User
<1>2. ASSUME NEW b \in Batches,
             Server(b) \/ Report(b) \/ RetryJob(b) \/ UploadAnswered(b) \/ UploadFails(b)
      PROVE  IInv'
  <2>1. CASE TakeJob(b) \/ EndJob(b) \/ CreateBatch(b) \/ RetryJob(b)
    BY <2>1, RowStep
  <2>2. CASE Report(b) \/ AnnounceEnd(b)
    BY <2>2, EmitStep
  <2>3. CASE UploadAnswered(b)
    BY <2>3, FollowStep
  <2>4. CASE UploadFails(b)
    BY <2>4, PostStep
  <2> QED
    BY <1>2, <2>1, <2>2, <2>3, <2>4 DEF Server
<1>3. ASSUME NEW c \in Conns, Wire(c) \/ ReadFails(c) \/ Cut(c) PROVE IInv'
  BY <1>3, SubscribeStep, ReadRowStep, StreamStarts, NoticeStep, ClientStep, CutStep
     DEF Wire
<1>4. CASE UNCHANGED vars
  <2>1. TypeOK' /\ Rows'
    BY <1>4 DEF vars, IInv, TypeOK, Rows, RowsFollow, ProductsOfCompleted, rowVars,
       connVars, trackVars, screenVars, uploadVars
  <2>2. Wires'
    BY <1>4 DEF vars, IInv, Wires, ConnsFollow, EntriesFollow, CompletedIsTrue,
       EndToCome, OneConnection, rowVars, connVars, trackVars
  <2> QED
    BY <2>1, <2>2 DEF IInv
<1> QED
  BY <1>1, <1>2, <1>3, <1>4 DEF Next

(* The invariant behind the three below: the way of a batch's end from its *)
(* row over the emitter entry to the EventSource that waits for it.        *)
THEOREM Inductive == Spec => []IInv
<1> QED
  BY Initially, EveryStep, PTL DEF Spec

(* Every value stays in its type: connections, entries and screens name    *)
(* batches of the server, whatever order requests and events arrive in.    *)
THEOREM TypeCorrect == Spec => []TypeOK
<1>1. IInv => TypeOK
  BY DEF IInv
<1> QED
  BY <1>1, Inductive, PTL

(* Of every number of connections at most one EventSource is open, the one *)
(* eventSourceRef holds, and it is of the batch the dashboard tracks.      *)
THEOREM AtMostOneOpen == Spec => []OneConnection
<1>1. IInv => OneConnection
  BY DEF IInv, Wires
<1> QED
  BY <1>1, Inductive, PTL

(* The products screen opens on a completed batch only, be it by a click   *)
(* on a copy of the row or by a completed event.                           *)
THEOREM ProductsAreComplete == Spec => []ProductsOfCompleted
<1>1. IInv => ProductsOfCompleted
  BY DEF IInv, Rows
<1> QED
  BY <1>1, Inductive, PTL

(* No end is lost between the row and the EventSource but with the         *)
(* emitter's entry.                                                        *)
THEOREM EndNotLost == Spec => []EndOnItsWay
<1>1. ASSUME IInv, NEW c \in open
      PROVE  \/ wire[c] \in Statuses \cup {"dialing", "asked"}
             \/ wire[c] = "live" /\ (row[of[c]] \in Active \/ of[c] \in owed)
             \/ Has(inbox[c], "end")
             \/ Muted(c)
  <2>1. /\ c \in Conns
        /\ wire[c] \in Statuses \cup {"off", "dialing", "asked", "live"}
    BY <1>1 DEF IInv, TypeOK
  <2>2. CASE wire[c] = "off"
    BY <1>1, <2>2 DEF IInv, Wires, EndToCome
  <2>3. CASE wire[c] = "live"
    BY <1>1, <2>3 DEF IInv, Wires, EndToCome, Muted
  <2> QED
    BY <2>1, <2>2, <2>3
<1>2. IInv => EndOnItsWay
  BY <1>1 DEF EndOnItsWay, Has
<1> QED
  BY <1>2, Inductive, PTL
=============================================================================
