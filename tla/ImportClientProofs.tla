------------------------- MODULE ImportClientProofs -------------------------
(***************************************************************************)
(* Safety of ImportClient for every number of imports, requests in flight  *)
(* and faults. The inductive invariant relates what is known of an import  *)
(* at three places, a snapshot on the stream, the answer of a poll and the *)
(* state of the hook, to the import's row, which never leaves its end.     *)
(***************************************************************************)
EXTENDS ImportClient, TLAPS

(* The hook is reset off the processing view, and follows an import that   *)
(* exists on it.                                                           *)
Following ==
    /\ view # "processing" =>
           /\ frame = "closed" /\ job = NoSnapshot
           /\ ~isComplete /\ ~usingPolling /\ ~late
    /\ view = "processing" => active \in Jobs /\ row[active] # "none"

(* An end on its way is the row's: on the stream, and in a poll's answer.  *)
Requests ==
    [what : {"none", "poll", "page"}, of : Jobs \cup {NoJob}, page : Pages,
     got : Statuses \cup {"none", "asked", "rows", "empty"}]

PollIsTrue(c) ==
    c.what = "poll" =>
        /\ c.of \in Jobs
        /\ c.got \in Statuses \cup {"none", "asked"}
        /\ c.got \in Final => row[c.of] = c.got

NewsIsTrue ==
    /\ frame \in Final => row[active] = frame
    /\ \A q \in Calls : PollIsTrue(call[q])

(* Once the end is known in time, the stream says nothing more.            *)
EndClosesStream == isComplete /\ ~late => frame = "closed"

Control == TypeOK /\ Following
News == NewsIsTrue /\ EndClosesStream /\ OneSource /\ SettlesOnItsEnd

IInv == Control /\ News

----------------------------------------------------------------------------
(* Moving to a view starts and stops the hook as the view asks.            *)
LEMMA EnterStep ==
    ASSUME IInv, NEW v \in {"list", "upload", "processing", "products", "report"},
           NEW j \in Jobs \cup {NoJob}, NEW p \in Pages,
           v = "processing" => j \in Jobs /\ row[j] # "none",
           Enter(v, j, p), UNCHANGED rowVars
    PROVE  /\ view' = v /\ active' = j /\ page' = p
           /\ frame' \in Statuses \cup {"closed", "idle", "end"}
           /\ job' \in Snapshots
           /\ isComplete' \in BOOLEAN /\ usingPolling' \in BOOLEAN /\ late' \in BOOLEAN
           /\ shown' \in [of : Jobs \cup {NoJob}, page : Pages, rows : BOOLEAN]
           /\ overtaken' \in BOOLEAN
           /\ call' = call \/ Ask("page", j, p)
           /\ Following'
           /\ frame' \in Final => row'[active'] = frame'
           /\ EndClosesStream' /\ OneSource' /\ SettlesOnItsEnd'
<1> USE ConstantsAssumption DEF Snapshots, Statuses, Final, NoSnapshot, EmptyPage
<1>1. /\ view' = v /\ active' = j /\ page' = p
      /\ row' = row
      /\ call' = call \/ Ask("page", j, p)
      /\ shown' \in [of : Jobs \cup {NoJob}, page : Pages, rows : BOOLEAN]
      /\ overtaken' \in BOOLEAN
  <2>1. /\ view' = v /\ active' = j /\ page' = p /\ row' = row
        /\ call' = call \/ Ask("page", j, p)
        /\ \/ shown' = EmptyPage /\ overtaken' = FALSE
           \/ shown' = shown /\ overtaken' = overtaken
    BY Zenon DEF Enter, rowVars, pageVars
  <2>2. EmptyPage \in [of : Jobs \cup {NoJob}, page : Pages, rows : BOOLEAN]
    OBVIOUS
  <2> QED
    BY <2>1, <2>2 DEF IInv, Control, TypeOK
<1>2. CASE v = "processing" /\ view = v /\ active = j
  <2>1. UNCHANGED progressVars
    BY <1>2 DEF Enter
  <2> QED
    BY <1>1, <1>2, <2>1 DEF IInv, Control, News, TypeOK, Following,
       NewsIsTrue, EndClosesStream, OneSource, SettlesOnItsEnd, progressVars
<1>3. CASE v = "processing" /\ ~(view = v /\ active = j)
  <2>1. Follow
    BY <1>3 DEF Enter
  <2> QED
    BY <1>1, <1>3, <2>1 DEF Follow, Following, EndClosesStream, OneSource,
       SettlesOnItsEnd
<1>4. CASE v # "processing"
  <2>1. StopFollowing \/ (view # "processing" /\ UNCHANGED progressVars)
    BY <1>4 DEF Enter
  <2>2. /\ frame' = "closed" /\ job' = NoSnapshot
        /\ isComplete' = FALSE /\ usingPolling' = FALSE /\ late' = FALSE
    BY <2>1 DEF StopFollowing, progressVars, IInv, Control, TypeOK, Following
  <2> QED
    BY <1>1, <1>4, <2>2 DEF Following, EndClosesStream, OneSource,
       SettlesOnItsEnd
<1> QED
  BY <1>2, <1>3, <1>4

(* A request that is sent keeps the types, and what the others bring.      *)
LEMMA AskStep ==
    ASSUME IInv, NEW what \in {"poll", "page"}, NEW j \in Jobs \cup {NoJob},
           NEW p \in Pages, what = "poll" => j \in Jobs,
           Ask(what, j, p), row' = row
    PROVE  /\ call' \in [Calls -> Requests]
           /\ \A q \in Calls : PollIsTrue(call[q])'
<1> DEFINE r == CHOOSE q \in Calls : Free(q)
<1> DEFINE new == [what |-> what, of |-> j, page |-> p, got |-> "asked"]
<1>1. call' = [call EXCEPT ![r] = new]
  BY DEF Ask
<1>2. new \in Requests
  BY DEF Requests
<1>3. \A q \in Calls : call'[q] = new \/ call'[q] = call[q]
  BY <1>1 DEF IInv, Control, TypeOK
<1> HIDE DEF r
<1>4. call' \in [Calls -> Requests]
  BY <1>1, <1>2 DEF IInv, Control, TypeOK, Requests
<1>5. ASSUME NEW q \in Calls
      PROVE  PollIsTrue(call[q])'
  BY <1>3 DEF IInv, News, NewsIsTrue, PollIsTrue, Final
<1> QED
  BY <1>4, <1>5

(* A move between views, by a handler or by an effect, keeps the whole     *)
(* invariant.                                                              *)
LEMMA MoveStep ==
    ASSUME IInv, NEW v \in {"list", "upload", "processing", "products", "report"},
           NEW j \in Jobs \cup {NoJob}, NEW p \in Pages,
           v = "processing" => j \in Jobs /\ row[j] # "none",
           Enter(v, j, p), UNCHANGED <<rowVars, faults>>,
           uploading' \in Jobs \cup {NoJob}
    PROVE  IInv'
<1>1. row' = row /\ projected' = projected /\ faults' = faults
  BY DEF rowVars
<1>2. /\ call' \in [Calls -> Requests]
      /\ \A q \in Calls : PollIsTrue(call[q])'
  <2>1. CASE call' = call
    BY <1>1, <2>1
       DEF IInv, Control, TypeOK, News, NewsIsTrue, Requests, PollIsTrue
  <2>2. CASE Ask("page", j, p)
    BY <1>1, <2>2, AskStep
  <2> QED
    BY <2>1, <2>2, EnterStep DEF rowVars
<1> QED
  BY <1>1, <1>2, EnterStep DEF IInv, Control, TypeOK, News, NewsIsTrue, Requests,
     rowVars

----------------------------------------------------------------------------
(* The importer: rows only ever reach their end, and stay there.           *)
LEMMA RowStep ==
    ASSUME IInv, NEW j \in Jobs, EndImport(j) \/ Project(j) \/ CreateImport(j)
    PROVE  IInv'
<1> USE ConstantsAssumption
<1> USE DEF IInv, Control, News, TypeOK, Statuses, Final, viewVars,
        progressVars, pageVars, Following, NewsIsTrue, EndClosesStream,
        OneSource, SettlesOnItsEnd, Requests, PollIsTrue
<1>1. CASE EndImport(j)
  BY <1>1 DEF EndImport
<1>2. CASE Project(j)
  BY <1>2 DEF Project
<1>3. CASE CreateImport(j)
  BY <1>3 DEF CreateImport
<1> QED
  BY <1>1, <1>2, <1>3

(* The stream: a snapshot on it is the row's, and an end closes it.        *)
LEMMA StreamStep ==
    ASSUME IInv, Pump \/ StreamEnds \/ StreamError \/ Snapshot
    PROVE  IInv'
<1> USE DEF IInv, Control, News, TypeOK, Statuses, Final, rowVars, viewVars,
        pageVars, Following, NewsIsTrue, EndClosesStream,
        OneSource, SettlesOnItsEnd, Requests, PollIsTrue, Snapshots
<1>1. CASE Pump
  BY <1>1 DEF Pump
<1>2. CASE StreamEnds
  BY <1>2 DEF StreamEnds
<1>3. CASE StreamError
  BY <1>3 DEF StreamError
<1>4. CASE Snapshot
  BY <1>4 DEF Snapshot
<1> QED
  BY <1>1, <1>2, <1>3, <1>4

(* Requests: an answer is read from the row, and counts in time or late.   *)
LEMMA CallStep ==
    ASSUME IInv, NEW q \in Calls,
           ReadStore(q) \/ PollAnswered(q) \/ PageAnswered(q) \/ CallFails(q)
    PROVE  IInv'
<1> USE ConstantsAssumption
<1> USE DEF IInv, Control, News, TypeOK, Statuses, Final, rowVars, viewVars,
        progressVars, pageVars, Following, NewsIsTrue, EndClosesStream,
        OneSource, SettlesOnItsEnd, Requests, PollIsTrue
<1>1. CASE ReadStore(q)
  BY <1>1 DEF ReadStore
<1>2. ASSUME call' = [call EXCEPT ![q] = Idle], row' = row
      PROVE  /\ call' \in [Calls -> Requests]
             /\ \A r \in Calls : PollIsTrue(call[r])'
  <2>1. Idle \in Requests /\ Idle.what # "poll"
    BY DEF Idle
  <2>2. \A r \in Calls : call'[r] = Idle \/ call'[r] = call[r]
    BY <1>2
  <2> QED
    BY <1>2, <2>1, <2>2
<1>3. CASE PollAnswered(q)
  <2>1. /\ call' = [call EXCEPT ![q] = Idle] /\ row' = row
        /\ UNCHANGED <<projected, viewVars, uploading, frame, usingPolling,
                       pageVars, faults>>
    BY <1>3 DEF PollAnswered
  <2>2. CASE view # "processing"
    BY <1>2, <1>3, <2>1, <2>2 DEF PollAnswered
  <2>3. CASE view = "processing"
    <3>1. /\ job' = [of |-> call[q].of, status |-> call[q].got]
          /\ isComplete' = (isComplete \/ call[q].got \in Final)
          /\ late' = (isComplete \/ ~usingPolling \/ call[q].of # active)
      BY <1>3, <2>3 DEF PollAnswered
    <3>2. call[q].of \in Jobs /\ call[q].got \in Statuses \cup {"none"}
      BY <1>3 DEF PollAnswered
    <3>3. job' \in Snapshots
      BY <3>1, <3>2 DEF Snapshots
    <3>4. Following' /\ OneSource' /\ (frame' \in Final => row'[active'] = frame')
      BY <2>1, <2>3, <3>1
    <3>5. EndClosesStream' /\ SettlesOnItsEnd'
      BY <1>3, <2>1, <2>3, <3>1 DEF PollAnswered
    <3> QED
      BY <1>2, <2>1, <3>1, <3>3, <3>4, <3>5
  <2> QED
    BY <2>2, <2>3
<1>4. CASE PageAnswered(q)
  <2>1. /\ call' = [call EXCEPT ![q] = Idle] /\ row' = row
        /\ UNCHANGED <<projected, viewVars, uploading, progressVars, faults>>
    BY <1>4 DEF PageAnswered
  <2>2. overtaken' \in BOOLEAN
    BY <1>4 DEF PageAnswered
  <2>3. shown' \in [of : Jobs \cup {NoJob}, page : Pages, rows : BOOLEAN]
    <3>1. CASE view # "products"
      BY <1>4, <3>1 DEF PageAnswered
    <3>2. CASE view = "products"
      <4>1. PICK b \in BOOLEAN : b = (call[q].got = "rows")
        OBVIOUS
      <4>2. shown' = [of |-> call[q].of, page |-> call[q].page, rows |-> b]
        BY <1>4, <3>2, <4>1 DEF PageAnswered
      <4>3. call[q].of \in Jobs \cup {NoJob} /\ call[q].page \in Pages
        OBVIOUS
      <4> QED
        BY <4>2, <4>3
    <3> QED
      BY <3>1, <3>2
  <2> QED
    BY <1>2, <2>1, <2>2, <2>3
<1>5. CASE CallFails(q)
  <2>1. /\ call' = [call EXCEPT ![q] = Idle] /\ row' = row
        /\ UNCHANGED <<projected, viewVars, uploading, progressVars, overtaken>>
        /\ faults' \in 0..MaxFaults
    BY <1>5 DEF CallFails, Fault
  <2>2. EmptyPage \in [of : Jobs \cup {NoJob}, page : Pages, rows : BOOLEAN]
    BY DEF EmptyPage
  <2>3. shown' = EmptyPage \/ shown' = shown
    BY <1>5, Zenon DEF CallFails
  <2> QED
    BY <1>2, <2>1, <2>2, <2>3
<1> QED
  BY <1>1, <1>3, <1>4, <1>5

(* The intervals ask again; nothing else changes.                          *)
LEMMA IntervalStep ==
    ASSUME IInv, Poll \/ AskWhileEmpty
    PROVE  IInv'
<1>1. /\ UNCHANGED <<rowVars, viewVars, uploading, progressVars, pageVars, faults>>
      /\ (Ask("poll", active, 1) /\ view = "processing") \/ Ask("page", active, page)
  BY DEF Poll, AskWhileEmpty
<1>2. /\ call' \in [Calls -> Requests]
      /\ \A q \in Calls : PollIsTrue(call[q])'
  BY <1>1, AskStep, ConstantsAssumption
     DEF IInv, Control, TypeOK, Following, rowVars
<1> QED
  BY <1>1, <1>2 DEF IInv, Control, News, TypeOK, rowVars, viewVars,
     progressVars, pageVars, Following, NewsIsTrue, EndClosesStream, OneSource,
     SettlesOnItsEnd, Requests, PollIsTrue

----------------------------------------------------------------------------
LEMMA Initially == Init => IInv
<1> SUFFICES ASSUME Init PROVE IInv
  OBVIOUS
<1> USE ConstantsAssumption
<1>1. call \in [Calls -> Requests] /\ \A q \in Calls : PollIsTrue(call[q])
  <2>1. Idle \in Requests /\ Idle.what # "poll"
    BY DEF Idle, Requests
  <2> QED
    BY <2>1 DEF Init, PollIsTrue
<1>2. row \in [Jobs -> Statuses \cup {"none"}]
  BY DEF Init, Statuses
<1>3. job \in Snapshots
  BY DEF Init, Snapshots, NoSnapshot
<1>4. shown \in [of : Jobs \cup {NoJob}, page : Pages, rows : BOOLEAN]
  BY DEF Init, EmptyPage
<1>5. /\ projected = {} /\ view = "list" /\ active = NoJob /\ page = 1
      /\ uploading = NoJob /\ frame = "closed" /\ faults = 0
      /\ ~isComplete /\ isComplete \in BOOLEAN
      /\ ~usingPolling /\ usingPolling \in BOOLEAN
      /\ ~late /\ late \in BOOLEAN /\ overtaken \in BOOLEAN
  BY DEF Init
<1>6. TypeOK
  BY <1>1, <1>2, <1>3, <1>4, <1>5 DEF TypeOK, Requests
<1> QED
  BY <1>1, <1>5, <1>6 DEF Init, IInv, Control, News, Final, Following,
     NewsIsTrue, EndClosesStream, OneSource, SettlesOnItsEnd

(* Every step keeps the invariant.                                         *)
LEMMA EveryStep ==
    ASSUME IInv, [Next]_vars
    PROVE  IInv'
<1>1. CASE UNCHANGED vars
  BY <1>1 DEF IInv, Control, News, TypeOK, Following, NewsIsTrue,
     EndClosesStream, OneSource, SettlesOnItsEnd, Requests, PollIsTrue, vars, rowVars, viewVars,
     progressVars, pageVars
<1>2. CASE User
  <2>1. CASE UploadNew \/ BackToList
    BY <2>1, MoveStep, ConstantsAssumption
       DEF UploadNew, BackToList, Go, IInv, Control, TypeOK
  <2>2. ASSUME NEW j \in Jobs, StartUpload(j)
        PROVE  IInv'
    BY <2>2 DEF StartUpload, IInv, Control, News, TypeOK, Following,
       NewsIsTrue, EndClosesStream, OneSource, SettlesOnItsEnd, Requests,
       PollIsTrue, rowVars, viewVars, progressVars, pageVars
  <2>3. ASSUME NEW j \in Jobs, ViewProducts(j) \/ ViewProgress(j) \/ ViewReport(j)
        PROVE  IInv'
    BY <2>3, MoveStep, ConstantsAssumption
       DEF ViewProducts, ViewProgress, ViewReport, Go, IInv, Control, TypeOK,
           Statuses, Final
  <2>4. ASSUME NEW p \in Pages, ChangePage(p)
        PROVE  IInv'
    BY <2>4, MoveStep DEF ChangePage, Go, IInv, Control, TypeOK
  <2> QED
    BY <1>2, <2>1, <2>2, <2>3, <2>4 DEF User
<1>3. ASSUME NEW j \in Jobs, UploadAnswered(j)
      PROVE  IInv'
  BY <1>3, MoveStep, ConstantsAssumption
     DEF UploadAnswered, IInv, Control, TypeOK
<1>4. CASE Settle
  <2>1. CASE job.status = "completed"
    BY <1>4, <2>1, MoveStep, ConstantsAssumption
       DEF Settle, IInv, Control, TypeOK
  <2>2. CASE job.status # "completed"
    BY <1>4, <2>2, MoveStep, ConstantsAssumption
       DEF Settle, IInv, Control, TypeOK
  <2> QED
    BY <2>1, <2>2
<1>5. CASE UploadFails
  BY <1>5, ConstantsAssumption
     DEF UploadFails, Fault, IInv, Control, News, TypeOK, Following,
         NewsIsTrue, EndClosesStream, OneSource, SettlesOnItsEnd, Requests,
         PollIsTrue, rowVars, viewVars, progressVars, pageVars
<1> QED
  BY <1>1, <1>2, <1>3, <1>4, <1>5, RowStep, StreamStep, CallStep, IntervalStep
     DEF Next, Answered

(* The inductive invariant holds in every state of every behavior.         *)
THEOREM Inductive == Spec => []IInv
<1>1. IInv /\ [Next]_vars => IInv'
  BY EveryStep
<1> QED
  BY Initially, <1>1, PTL DEF Spec

----------------------------------------------------------------------------
(* Every variable keeps its type, whatever the number of imports, requests *)
(* in flight and faults.                                                   *)
THEOREM TypeCorrect == Spec => []TypeOK
<1>1. IInv => TypeOK
  BY DEF IInv, Control
<1> QED
  BY Inductive, <1>1, PTL

(* While an import is followed and not known to have ended there is either *)
(* a stream or polling (useImportProgress.ts:13-69).                       *)
THEOREM FollowedByOneSource == Spec => []OneSource
<1>1. IInv => OneSource
  BY DEF IInv, News
<1> QED
  BY Inductive, <1>1, PTL

(* What the processing view takes for the end of its import is that end,   *)
(* except for late polls (Dashboard.tsx:46-59).                            *)
THEOREM EndIsItsOwn == Spec => []SettlesOnItsEnd
<1>1. IInv => SettlesOnItsEnd
  BY DEF IInv, News
<1> QED
  BY Inductive, <1>1, PTL
=============================================================================
