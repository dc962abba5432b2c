------------------------- MODULE BatchesDataProofs --------------------------
(***************************************************************************)
(* Safety of BatchesData for every set of users and batches and any number *)
(* of requests in flight: the rows on screen are the user's because every  *)
(* answer under way carries rows of its bearer only, and no bearer but the *)
(* user of the dashboard has a request under way.                          *)
(***************************************************************************)
EXTENDS BatchesData, TLAPS

Listing == [Batches -> Statuses \cup {"none"}]

(* The token stored is the token of the user on screen.                    *)
OneSession == token = user

AnswersOfBearer ==
    \A f \in Fetches, b \in Batches :
        answer[f][b] # "none" => fetch[f] = "read" /\ Owner[b] = bearer[f]

BearersAreUser == ~swapped => \A f \in Fetches : bearer[f] \in {NoUser, user}

IInv == TypeOK /\ OneSession /\ AnswersOfBearer /\ BearersAreUser /\ RowsOfUser

----------------------------------------------------------------------------
LEMMA NoRowsListing == NoRows \in Listing /\ \A b \in Batches : NoRows[b] = "none"
BY DEF NoRows, Listing

(* What the server answers is of the user asked about.                     *)
LEMMA RowsOfListing ==
    ASSUME TypeOK, NEW u \in Users \cup {NoUser}
    PROVE  /\ RowsOf(u) \in Listing
           /\ \A b \in Batches : RowsOf(u)[b] # "none" => Owner[b] = u
BY DEF TypeOK, RowsOf, Listing

(* The server's own steps change rows and users only.                      *)
LEMMA ServerStep ==
    ASSUME IInv, NEW b \in Batches, Upload(b) \/ Process(b)
    PROVE  IInv'
<1> USE DEF IInv, TypeOK, OneSession, AnswersOfBearer, BearersAreUser,
        RowsOfUser, Statuses, Active, Final, authVars, listVars, fetchVars
<1>1. CASE Upload(b)
  BY <1>1 DEF Upload
<1>2. CASE Process(b)
  BY <1>2 DEF Process
<1> QED
  BY <1>1, <1>2

(* Asking for the list: the request carries the user's token, or none.     *)
LEMMA LoadStep ==
    ASSUME IInv, Poll \/ Refresh
    PROVE  IInv'
<1>1. Load /\ UNCHANGED <<serverVars, authVars, login, faults>>
  BY DEF Poll, Refresh
<1>2. PICK f \in Fetches :
          /\ fetch[f] = "idle"
          /\ fetch' = [fetch EXCEPT ![f] = "sent"]
          /\ bearer' = [bearer EXCEPT ![f] = IF expired THEN NoUser ELSE token]
  BY <1>1 DEF Load
<1>3. loading' = TRUE /\ UNCHANGED <<list, answer>>
  BY <1>1 DEF Load
<1> QED
  BY <1>1, <1>2, <1>3
     DEF IInv, TypeOK, OneSession, AnswersOfBearer, BearersAreUser, RowsOfUser,
         serverVars, authVars

(* A request that ends leaves nothing behind.                              *)
LEMMA SettledStep ==
    ASSUME IInv, NEW f \in Fetches, Settled(f), UNCHANGED <<serverVars, authVars>>
    PROVE  /\ fetch' \in [Fetches -> {"idle", "sent", "read"}]
           /\ bearer' \in [Fetches -> Users \cup {NoUser}]
           /\ answer' \in [Fetches -> Listing]
           /\ loading' \in BOOLEAN
           /\ AnswersOfBearer' /\ BearersAreUser' /\ OneSession'
BY NoRowsListing
   DEF IInv, TypeOK, OneSession, AnswersOfBearer, BearersAreUser, Settled,
       serverVars, authVars, Listing

(* An answer is read for its bearer, and applied while its bearer is the   *)
(* user.                                                                   *)
LEMMA FetchStep ==
    ASSUME IInv, NEW f \in Fetches,
           ReadRows(f) \/ ListAnswered(f) \/ Unauthorized(f) \/ ListFails(f)
    PROVE  IInv'
<1> USE ConstantsAssumption
<1>1. CASE ReadRows(f)
  <2>1. /\ fetch' = [fetch EXCEPT ![f] = "read"]
        /\ answer' = [answer EXCEPT ![f] = RowsOf(bearer[f])]
        /\ UNCHANGED <<serverVars, authVars, login, list, loading, bearer, faults>>
    BY <1>1 DEF ReadRows
  <2>2. /\ RowsOf(bearer[f]) \in Listing
        /\ \A b \in Batches : RowsOf(bearer[f])[b] # "none" => Owner[b] = bearer[f]
    BY RowsOfListing DEF IInv, TypeOK
  <2> QED
    BY <2>1, <2>2
       DEF IInv, TypeOK, OneSession, AnswersOfBearer, BearersAreUser,
           RowsOfUser, serverVars, authVars, Listing
<1>2. CASE ListAnswered(f)
  <2>1. list' = answer[f] /\ Settled(f) /\ UNCHANGED <<serverVars, authVars, login, faults>>
    BY <1>2 DEF ListAnswered
  <2>2. list' \in Listing
    BY <2>1 DEF IInv, TypeOK, Listing
  <2>3. ASSUME ~swapped, NEW b \in Batches, answer[f][b] # "none"
        PROVE  Owner[b] = user
    BY <2>3 DEF IInv, AnswersOfBearer, BearersAreUser
  <2>4. RowsOfUser'
    BY <2>1, <2>3 DEF RowsOfUser, authVars
  <2> QED
    BY <2>1, <2>2, <2>4, SettledStep
       DEF IInv, TypeOK, serverVars, authVars, Listing
<1>3. CASE Unauthorized(f) \/ ListFails(f)
  <2>1. /\ Settled(f) /\ UNCHANGED <<serverVars, authVars, login, list>>
        /\ faults' \in 0..MaxFaults
    BY <1>3 DEF Unauthorized, ListFails, Fault, IInv, TypeOK
  <2> QED
    BY <2>1, SettledStep
       DEF IInv, TypeOK, RowsOfUser, serverVars, authVars, Listing
<1> QED
  BY <1>1, <1>2, <1>3

----------------------------------------------------------------------------
(* A dashboard that is mounted asks for its user's rows and shows none; one*)
(* that is gone has nothing under way.                                     *)
LEMMA MountStep ==
    ASSUME TypeOK, NEW u \in Users \cup {NoUser}, Mount(u) \/ Unmount, user' = u
    PROVE  /\ list' \in Listing /\ loading' \in BOOLEAN
           /\ fetch' \in [Fetches -> {"idle", "sent", "read"}]
           /\ bearer' \in [Fetches -> Users \cup {NoUser}]
           /\ answer' \in [Fetches -> Listing]
           /\ AnswersOfBearer' /\ BearersAreUser' /\ RowsOfUser'
<1>1. list' = NoRows /\ loading' \in BOOLEAN /\ answer' = [f \in Fetches |-> NoRows]
  BY DEF Mount, Unmount
<1>2. /\ fetch' \in [Fetches -> {"idle", "sent", "read"}]
      /\ bearer' \in [Fetches -> {NoUser, u}]
  <2>1. CASE Mount(u)
    <3>1. PICK f \in Fetches :
              /\ fetch' = [g \in Fetches |-> IF g = f THEN "sent" ELSE "idle"]
              /\ bearer' = [g \in Fetches |-> IF g = f THEN u ELSE NoUser]
      BY <2>1 DEF Mount
    <3> QED
      BY <3>1
  <2>2. CASE Unmount
    BY <2>2 DEF Unmount
  <2> QED
    BY <2>1, <2>2
<1> QED
  BY <1>1, <1>2, NoRowsListing
     DEF AnswersOfBearer, BearersAreUser, RowsOfUser

(* Signing in, by a first answer or by one that comes late.                *)
LEMMA SignedInStep ==
    ASSUME IInv, NEW k \in Logins, NEW u \in Users, SignedIn(k, u),
           known' \in SUBSET Users
    PROVE  IInv'
<1> USE ConstantsAssumption
<1>1. /\ login' = [login EXCEPT ![k] = "idle"]
      /\ token' = u /\ expired' = FALSE /\ user' = u /\ busy' = FALSE
      /\ row' = row /\ faults' = faults
  BY DEF SignedIn
<1>2. CASE user = NoUser
  <2>1. Mount(u) /\ UNCHANGED swapped
    BY <1>2 DEF SignedIn
  <2> QED
    BY <1>1, <2>1, MountStep DEF IInv, TypeOK, OneSession, Listing
<1>3. CASE user # NoUser
  <2>1. swapped' = (swapped \/ u # user) /\ UNCHANGED listVars
    BY <1>3 DEF SignedIn
  <2> QED
    BY <1>1, <2>1
       DEF IInv, TypeOK, OneSession, AnswersOfBearer, BearersAreUser,
           RowsOfUser, listVars, fetchVars
<1> QED
  BY <1>2, <1>3

(* Asking to sign in, and being refused.                                   *)
LEMMA LoginStep ==
    ASSUME IInv,
           Signup \/ (\E u \in Users : Login(u)) \/ (\E k \in Logins : LoginFails(k))
    PROVE  IInv'
<1> USE ConstantsAssumption
<1> DEFINE OnlyLogin ==
        /\ login' \in [Logins -> Users \cup {"idle", "new"}]
        /\ busy' \in BOOLEAN /\ faults' \in 0..MaxFaults
        /\ UNCHANGED <<serverVars, token, expired, user, swapped, listVars>>
<1>1. OnlyLogin
  <2>1. CASE Signup
    BY <2>1 DEF Signup, Request, IInv, TypeOK
  <2>2. ASSUME NEW u \in Users, Login(u)
        PROVE  OnlyLogin
    BY <2>2 DEF Login, Request, IInv, TypeOK
  <2>3. ASSUME NEW k \in Logins, LoginFails(k)
        PROVE  OnlyLogin
    <3>1. /\ login' = [login EXCEPT ![k] = "idle"] /\ busy' = FALSE
          /\ UNCHANGED <<serverVars, token, expired, user, swapped, listVars>>
      BY <2>3 DEF LoginFails
    <3>2. faults' \in 0..MaxFaults
      BY <2>3 DEF LoginFails, Fault, IInv, TypeOK
    <3>3. login' \in [Logins -> Users \cup {"idle", "new"}]
      BY <3>1 DEF IInv, TypeOK
    <3> QED
      BY <3>1, <3>2, <3>3
  <2> QED
    BY <2>1, <2>2, <2>3
<1> QED
  BY <1>1 DEF IInv, TypeOK, OneSession, AnswersOfBearer, BearersAreUser,
     RowsOfUser, serverVars, listVars, fetchVars

(* Leaving the session, coming back to it, and its age.                    *)
LEMMA SessionStep ==
    ASSUME IInv, Logout \/ Expire \/ Reload
    PROVE  IInv'
<1> USE ConstantsAssumption
<1>1. CASE Logout
  <2>1. /\ token' = NoUser /\ user' = NoUser /\ expired' = FALSE
        /\ busy' = FALSE /\ swapped' = FALSE
        /\ Unmount /\ UNCHANGED <<serverVars, login, faults>>
    BY <1>1 DEF Logout
  <2> QED
    BY <2>1, MountStep DEF IInv, TypeOK, OneSession, serverVars, Listing
<1>2. CASE Expire
  BY <1>2 DEF Expire, Fault, IInv, TypeOK, OneSession, AnswersOfBearer,
     BearersAreUser, RowsOfUser, serverVars, listVars, fetchVars
<1>3. CASE Reload
  <2>1. /\ login' = [k \in Logins |-> "idle"]
        /\ busy' = FALSE /\ swapped' = FALSE /\ expired' = FALSE
        /\ token' = user' /\ user' \in Users \cup {NoUser}
        /\ Mount(user') \/ Unmount
        /\ UNCHANGED <<serverVars, faults>>
    BY <1>3 DEF Reload, IInv, TypeOK
  <2>2. login' \in [Logins -> Users \cup {"idle", "new"}]
    BY <2>1
  <2> QED
    BY <2>1, <2>2, MountStep DEF IInv, TypeOK, OneSession, serverVars, Listing
<1> QED
  BY <1>1, <1>2, <1>3

----------------------------------------------------------------------------
LEMMA Initially == Init => IInv
<1> SUFFICES ASSUME Init PROVE IInv
  OBVIOUS
<1> USE ConstantsAssumption
<1>1. /\ row \in Listing /\ list \in Listing /\ answer \in [Fetches -> Listing]
      /\ \A b \in Batches : list[b] = "none"
      /\ \A f \in Fetches, b \in Batches : answer[f][b] = "none"
  BY NoRowsListing DEF Init
<1>2. /\ login \in [Logins -> Users \cup {"idle", "new"}]
      /\ fetch \in [Fetches -> {"idle", "sent", "read"}]
      /\ bearer \in [Fetches -> Users \cup {NoUser}]
      /\ \A f \in Fetches : bearer[f] = NoUser
  BY DEF Init
<1>3. /\ known \subseteq Users /\ token = NoUser /\ user = NoUser
      /\ expired \in BOOLEAN /\ busy \in BOOLEAN /\ swapped \in BOOLEAN
      /\ loading \in BOOLEAN
  BY DEF Init
<1>4. faults \in 0..MaxFaults
  BY DEF Init
<1> QED
  BY <1>1, <1>2, <1>3, <1>4
     DEF IInv, TypeOK, OneSession, AnswersOfBearer, BearersAreUser, RowsOfUser,
         Listing

(* Every step keeps the invariant.                                         *)
LEMMA EveryStep ==
    ASSUME IInv, [Next]_vars
    PROVE  IInv'
<1>1. CASE UNCHANGED vars
  BY <1>1 DEF IInv, TypeOK, OneSession, AnswersOfBearer, BearersAreUser,
     RowsOfUser, vars, serverVars, authVars, listVars, fetchVars
<1>2. ASSUME NEW k \in Logins, SignupAnswered(k) \/ LoginAnswered(k)
      PROVE  IInv'
  <2>1. CASE SignupAnswered(k)
    <3>1. PICK u \in Users \ known : known' = known \cup {u} /\ SignedIn(k, u)
      BY <2>1 DEF SignupAnswered
    <3> QED
      BY <3>1, SignedInStep DEF IInv, TypeOK
  <2>2. CASE LoginAnswered(k)
    <3>1. login[k] \in Users /\ SignedIn(k, login[k]) /\ known' = known
      BY <2>2 DEF LoginAnswered, IInv, TypeOK
    <3> QED
      BY <3>1, SignedInStep DEF IInv, TypeOK
  <2> QED
    BY <1>2, <2>1, <2>2
<1> QED
  BY <1>1, <1>2, ServerStep, LoadStep, FetchStep, LoginStep, SessionStep DEF Next

(* The inductive invariant holds in every state of every behavior.         *)
THEOREM Inductive == Spec => []IInv
<1>1. IInv /\ [Next]_vars => IInv'
  BY EveryStep
<1> QED
  BY Initially, <1>1, PTL DEF Spec

----------------------------------------------------------------------------
(* Every variable keeps its type, whatever the number of users, batches    *)
(* and requests in flight.                                                 *)
THEOREM TypeCorrect == Spec => []TypeOK
<1>1. IInv => TypeOK
  BY DEF IInv
<1> QED
  BY Inductive, <1>1, PTL

(* The rows on screen are the user's, across logout, login, reload and     *)
(* late answers, except after a second login (useBatchesData.ts, App.tsx). *)
THEOREM RowsAreTheUsers == Spec => []RowsOfUser
<1>1. IInv => RowsOfUser
  BY DEF IInv
<1> QED
  BY Inductive, <1>1, PTL
=============================================================================
