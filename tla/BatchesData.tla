---------------------------- MODULE BatchesData ----------------------------
(***************************************************************************)
(* The session of node-pipeline/client and the list of batches it shows:   *)
(* signing up, logging in and out (useAuth.ts, AuthLayout.tsx), the token  *)
(* in the browser's storage that every request carries (services/auth.ts,  *)
(* services/network), the guard that reads it (auth.guard.ts), and the     *)
(* list that is loaded on mount, polled while a row is in progress and     *)
(* loaded again after a completion (useBatchesData.ts).                    *)
(*                                                                         *)
(* One tab. The dashboard is mounted while there is a user; its state and  *)
(* the answers to its requests go with it. A batch is of one user.         *)
(***************************************************************************)
EXTENDS Integers, FiniteSets

CONSTANTS
    Users, NoUser,
    Batches,
    Owner,      \* the user of each batch
    Known,      \* users there are at the start
    Logins,     \* bound: sign-ups and logins in flight
    Fetches,    \* bound: list requests in flight
    MaxFaults   \* bound: failed requests and expired tokens

ASSUME ConstantsAssumption ==
    /\ NoUser \notin Users
    /\ Owner \in [Batches -> Users]
    /\ Known \subseteq Users
    /\ MaxFaults \in Nat

Active == {"pending", "processing"}
Final == {"completed", "failed"}
Statuses == Active \cup Final

VARIABLES
    known,      \* the users table
    row,        \* status of each batch's row
    token, expired,     \* whose token is stored, and whether it still counts
    user,       \* state.userId; the dashboard is mounted while it is set
    busy,       \* state.isLoading
    login,      \* what each request in flight asks for: a user, or "new"
    swapped,    \* history: the user changed under a mounted dashboard
    list, loading,      \* the client's copy of the rows
    fetch,      \* its requests: idle, sent, read
    bearer,     \* whose token each of them carries
    answer,     \* the rows it returns
    faults

serverVars == <<known, row>>
authVars == <<token, expired, user, busy, swapped>>
fetchVars == <<fetch, bearer, answer>>
listVars == <<list, loading, fetchVars>>
vars == <<serverVars, authVars, login, listVars, faults>>

NoRows == [b \in Batches |-> "none"]

(* The page is opened with nothing stored.                                 *)
Init ==
    /\ known = Known
    /\ row = NoRows
    /\ token = NoUser /\ expired = FALSE
    /\ user = NoUser /\ busy = FALSE
    /\ login = [k \in Logins |-> "idle"]
    /\ swapped = FALSE
    /\ list = NoRows /\ loading = FALSE
    /\ fetch = [f \in Fetches |-> "idle"]
    /\ bearer = [f \in Fetches |-> NoUser]
    /\ answer = [f \in Fetches |-> NoRows]
    /\ faults = 0

Fault == faults < MaxFaults /\ faults' = faults + 1

----------------------------------------------------------------------------
(* The server.                                                             *)

(* The user uploads a file, here or elsewhere.                             *)
Upload(b) ==
    /\ row[b] = "none" /\ Owner[b] \in known
    /\ row' = [row EXCEPT ![b] = "pending"]
    /\ UNCHANGED <<known, authVars, login, listVars, faults>>

Process(b) ==
    /\ \/ row[b] = "pending" /\ row' = [row EXCEPT ![b] = "processing"]
       \/ /\ row[b] = "processing"
          /\ \E st \in Final : row' = [row EXCEPT ![b] = st]
    /\ UNCHANGED <<known, authVars, login, listVars, faults>>

(* getBatchesByUserId.                                                     *)
RowsOf(u) == [b \in Batches |-> IF Owner[b] = u THEN row[b] ELSE "none"]

----------------------------------------------------------------------------
(* The list of batches.                                                    *)

(* load: the request carries the token stored now.                         *)
Load ==
    /\ \E f \in Fetches :
           /\ fetch[f] = "idle"
           /\ fetch' = [fetch EXCEPT ![f] = "sent"]
           /\ bearer' = [bearer EXCEPT ![f] = IF expired THEN NoUser ELSE token]
    /\ loading' = TRUE
    /\ UNCHANGED <<list, answer>>

(* Variant: only rows that are being processed are polled for.             *)
Poll_ProcessingOnly ==
    /\ user # NoUser
    /\ \E b \in Batches : list[b] = "processing"
    /\ Load
    /\ UNCHANGED <<serverVars, authVars, login, faults>>

Poll ==
    /\ user # NoUser
    /\ \E b \in Batches : list[b] \in Active
    /\ Load
    /\ UNCHANGED <<serverVars, authVars, login, faults>>

(* The dashboard saw a batch of its user complete.                         *)
Refresh ==
    /\ user # NoUser
    /\ \E b \in Batches : Owner[b] = user /\ row[b] = "completed"
    /\ Load
    /\ UNCHANGED <<serverVars, authVars, login, faults>>

(* The guard knows the bearer, or answers 401.                             *)
Admitted(f) == bearer[f] # NoUser /\ ~expired

ReadRows(f) ==
    /\ fetch[f] = "sent" /\ Admitted(f)
    /\ fetch' = [fetch EXCEPT ![f] = "read"]
    /\ answer' = [answer EXCEPT ![f] = RowsOf(bearer[f])]
    /\ UNCHANGED <<serverVars, authVars, login, list, loading, bearer, faults>>

Settled(f) ==
    /\ fetch' = [fetch EXCEPT ![f] = "idle"]
    /\ bearer' = [bearer EXCEPT ![f] = NoUser]
    /\ answer' = [answer EXCEPT ![f] = NoRows]
    /\ loading' = FALSE

(* Answers are applied in the order they arrive.                           *)
ListAnswered(f) ==
    /\ fetch[f] = "read"
    /\ list' = answer[f]
    /\ Settled(f)
    /\ UNCHANGED <<serverVars, authVars, login, faults>>

(* A failed request keeps the rows, and the interval.                      *)
Unauthorized(f) ==
    /\ fetch[f] = "sent" /\ ~Admitted(f)
    /\ Settled(f)
    /\ UNCHANGED <<serverVars, authVars, login, list, faults>>

ListFails(f) ==
    /\ fetch[f] # "idle" /\ Fault
    /\ Settled(f)
    /\ UNCHANGED <<serverVars, authVars, login, list>>

----------------------------------------------------------------------------
(* The session.                                                            *)

(* The dashboard mounts with an empty list and loads it.                   *)
Mount(u) ==
    /\ list' = NoRows /\ loading' = TRUE
    /\ \E f \in Fetches :
           /\ fetch' = [g \in Fetches |-> IF g = f THEN "sent" ELSE "idle"]
           /\ bearer' = [g \in Fetches |-> IF g = f THEN u ELSE NoUser]
    /\ answer' = [f \in Fetches |-> NoRows]

(* Answers to requests of a dashboard that is gone are not applied.        *)
Unmount ==
    /\ list' = NoRows /\ loading' = FALSE
    /\ fetch' = [f \in Fetches |-> "idle"]
    /\ bearer' = [f \in Fetches |-> NoUser]
    /\ answer' = [f \in Fetches |-> NoRows]

Request(who) ==
    /\ \E k \in Logins :
           /\ login[k] = "idle"
           /\ login' = [login EXCEPT ![k] = who]
    /\ busy' = TRUE
    /\ UNCHANGED <<serverVars, token, expired, user, swapped, listVars, faults>>

(* The button is disabled while a request is under way.                    *)
Signup == user = NoUser /\ ~busy /\ Request("new")

(* Enter in the field is not.                                              *)
Login(u) == user = NoUser /\ Request(u)

(* The answer signs the user in, whatever happened since it was asked for. *)
SignedIn(k, u) ==
    /\ login' = [login EXCEPT ![k] = "idle"]
    /\ token' = u /\ expired' = FALSE
    /\ user' = u /\ busy' = FALSE
    /\ IF user = NoUser
       THEN Mount(u) /\ UNCHANGED swapped
       ELSE swapped' = (swapped \/ u # user) /\ UNCHANGED listVars
    /\ UNCHANGED <<row, faults>>

SignupAnswered(k) ==
    /\ login[k] = "new"
    /\ \E u \in Users \ known :
           /\ known' = known \cup {u}
           /\ SignedIn(k, u)

LoginAnswered(k) ==
    /\ login[k] \in known
    /\ SignedIn(k, login[k])
    /\ UNCHANGED known

LoginFails(k) ==
    /\ login[k] # "idle"
    /\ \/ login[k] \in Users \ known /\ UNCHANGED faults
       \/ Fault
    /\ login' = [login EXCEPT ![k] = "idle"]
    /\ busy' = FALSE
    /\ UNCHANGED <<serverVars, token, expired, user, swapped, listVars>>

(* Variant: the dashboard stays mounted, and keeps its rows.               *)
Logout_KeepsRows ==
    /\ user # NoUser
    /\ token' = NoUser /\ expired' = FALSE
    /\ user' = NoUser /\ busy' = FALSE /\ swapped' = FALSE
    /\ UNCHANGED <<serverVars, login, listVars, faults>>

Logout ==
    /\ user # NoUser
    /\ token' = NoUser /\ expired' = FALSE
    /\ user' = NoUser /\ busy' = FALSE /\ swapped' = FALSE
    /\ Unmount
    /\ UNCHANGED <<serverVars, login, faults>>

(* 24 hours pass: only a reload looks at the token's age.                  *)
Expire ==
    /\ token # NoUser /\ ~expired /\ Fault
    /\ expired' = TRUE
    /\ UNCHANGED <<serverVars, token, user, busy, swapped, login, listVars>>

(* The page is loaded again, and the session restored from the storage.    *)
Reload ==
    /\ login' = [k \in Logins |-> "idle"]
    /\ busy' = FALSE /\ swapped' = FALSE
    /\ IF token # NoUser /\ ~expired
       THEN user' = token /\ token' = token /\ Mount(token)
       ELSE user' = NoUser /\ token' = NoUser /\ Unmount
    /\ expired' = FALSE
    /\ UNCHANGED <<serverVars, faults>>

----------------------------------------------------------------------------
Next ==
    \/ Signup
    \/ \E u \in Users : Login(u)
    \/ \E k \in Logins : SignupAnswered(k) \/ LoginAnswered(k) \/ LoginFails(k)
    \/ Logout \/ Expire \/ Reload
    \/ \E b \in Batches : Upload(b) \/ Process(b)
    \/ Poll \/ Refresh
    \/ \E f \in Fetches :
           ReadRows(f) \/ ListAnswered(f) \/ Unauthorized(f) \/ ListFails(f)

Spec == Init /\ [][Next]_vars

(* Batches are processed, requests answered, and the interval fires.       *)
FairSpec ==
    /\ Spec
    /\ WF_vars(Poll)
    /\ \A b \in Batches : WF_vars(Process(b))
    /\ \A f \in Fetches :
           WF_vars(ReadRows(f) \/ ListAnswered(f) \/ Unauthorized(f))

----------------------------------------------------------------------------
TypeOK ==
    /\ known \subseteq Users
    /\ row \in [Batches -> Statuses \cup {"none"}]
    /\ token \in Users \cup {NoUser} /\ expired \in BOOLEAN
    /\ user \in Users \cup {NoUser} /\ busy \in BOOLEAN
    /\ login \in [Logins -> Users \cup {"idle", "new"}]
    /\ swapped \in BOOLEAN
    /\ list \in [Batches -> Statuses \cup {"none"}] /\ loading \in BOOLEAN
    /\ fetch \in [Fetches -> {"idle", "sent", "read"}]
    /\ bearer \in [Fetches -> Users \cup {NoUser}]
    /\ answer \in [Fetches -> [Batches -> Statuses \cup {"none"}]]
    /\ faults \in 0..MaxFaults

(* The rows on screen are those of the user in the header, across logout,  *)
(* login, reload and answers that come late. The exception is a second     *)
(* login that was under way with the first, and is answered after it: the  *)
(* mounted dashboard gets another user and keeps its rows (App.tsx:25).    *)
RowsOfUser ==
    ~swapped => \A b \in Batches : list[b] # "none" => Owner[b] = user

(* The list settles: as long as the session lasts, polling goes on until   *)
(* no row is shown in progress that has ended, whatever request failed and *)
(* in whatever order the answers came (useBatchesData.ts:41-66).           *)
ListSettles == <>[](expired \/ \A b \in Batches : list[b] \notin Active)
=============================================================================
