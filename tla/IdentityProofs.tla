---------------------------- MODULE IdentityProofs ----------------------------
(***************************************************************************)
(* The accounts and their sessions, for any number of accounts, requests,  *)
(* logins and callbacks.                                                   *)
(*                                                                         *)
(* Whoever writes an account holds the business lock since it has read it, *)
(* so that an active administrator is left by the write as by the check.   *)
(* The invariant says so of every request under way, that the sessions     *)
(* from before a change of the account have ended, and that a transaction  *)
(* is used by one callback at most.                                        *)
(***************************************************************************)
EXTENDS Identity, FiniteSetTheorems, TLAPS

Roles == {"system_admin", "member"}
Modes == {"local_accounts", "keycloak_local_container"}
Accounts == [role : Roles, status : {"active", "disabled"}, failed : Nat, locked : BOOLEAN]
SessionRows ==
  [state : {"open", "revoked", "expired"}, user : Users,
   by : {"setup", "password"} \cup Transactions]
RequestStates ==
  {Vacant} \cup [at : {"setup"}, actor : Users]
           \cup [at : {"session"}, session : Sessions]
           \cup [at : {"principal"}, actor : Users, role : Roles]
           \cup [at : {"write", "revoke"}, user : Users, row : Accounts, password : BOOLEAN]
LoginStates ==
  {Vacant} \cup [at : {"verified"}, user : Users, verified : BOOLEAN,
                 fresh : BOOLEAN, hash : BOOLEAN, account : BOOLEAN]
CallbackStates ==
  {Vacant} \cup [at : {"seen", "consumed"}, transaction : Transactions]
           \cup [at : {"identity"}, transaction : Transactions, user : Users]

UsersOK == users \in [Users -> Accounts \cup {NoUser}]
SessionsOK == sessions \in [Sessions -> SessionRows \cup {NoSession}]
BoundOK == bound \in [Users -> Users \cup {"none"}]
RequestsOK ==
  /\ requests \in [Requests -> RequestStates]
  /\ \A r \in Requests : requests[r].at = "session" => sessions[requests[r].session] # NoSession
LoginsOK == logins \in [Logins -> LoginStates]
CallbacksOK == callbacks \in [Callbacks -> CallbackStates]
TransactionsOK ==
  transactions \in [Transactions -> {"absent", "open", "consumed", "expired", "deleted"}]

IdentityTypes ==
  /\ UsersOK /\ SessionsOK /\ BoundOK /\ RequestsOK /\ LoginsOK /\ CallbacksOK /\ TransactionsOK
  /\ faults \in Nat

\* Whoever has read an account to write it holds the business lock.
LockIsHeldToWrite ==
  /\ lock \in Requests \cup {Free}
  /\ \A r \in Requests : requests[r].at \in {"write", "revoke"} <=> lock = r

\* A write under way leaves an active administrator.
IsActiveAdmin(account) == account.status = "active" /\ account.role = "system_admin"
WriteIsSafe(r) ==
  LET u == requests[r].user IN
  /\ users[u] # NoUser
  /\ IsActiveAdmin(requests[r].row) \/ \E v \in ActiveAdmins : v # u
WritesAreSafe ==
  \A r \in Requests : requests[r].at = "write" => WriteIsSafe(r)

\* An account that has changed had sessions, not future ones.
OutdatedAreIssued == \A s \in outdated : s \in Sessions /\ sessions[s] # NoSession

\* A transaction is used by one callback, or by one session, and is not open then.
Uses(c, t) == callbacks[c].at \in {"consumed", "identity"} /\ callbacks[c].transaction = t
IssuedBy(s, t) == sessions[s] # NoSession /\ sessions[s].by = t
UsedOnce(t) ==
  /\ \A c \in Callbacks : Uses(c, t) => transactions[t] \notin {"absent", "open"}
  /\ \A s \in Sessions : IssuedBy(s, t) => transactions[t] \notin {"absent", "open"}
  /\ \A b, c \in Callbacks : Uses(b, t) /\ Uses(c, t) => b = c
  /\ \A c \in Callbacks, s \in Sessions : ~(Uses(c, t) /\ IssuedBy(s, t))
  /\ \A n, s \in Sessions : IssuedBy(n, t) /\ IssuedBy(s, t) => n = s

\* A login that has the current row has the account that was verified.
FreshIsVerified ==
  \A l \in Logins : logins[l].at = "verified" /\ logins[l].fresh => logins[l].account

\* Nobody has logged in before there is an account.
SetUpFirst ==
  \A r \in Requests : requests[r].at = "principal" => \E u \in Users : users[u] # NoUser

IdentityInv ==
  /\ IdentityTypes
  /\ SetUpFirst
  /\ LockIsHeldToWrite
  /\ WritesAreSafe
  /\ AnAdminRemains
  /\ OutdatedAreIssued
  /\ SessionsEndWithTheAccount
  /\ \A t \in Transactions : UsedOnce(t)
  /\ FreshIsVerified

-----------------------------------------------------------------------------
(* What a single write leaves well-typed.                                  *)

LEMMA StateFacts ==
  ASSUME IdentityTypes
  PROVE  /\ \A u \in Users : users[u] \in Accounts \cup {NoUser}
         /\ \A u \in Users : users[u].status \in {"active", "disabled"} => users[u] \in Accounts
         /\ \A u \in Users : users[u] # NoUser => users[u] \in Accounts
         /\ \A s \in Sessions : sessions[s] \in SessionRows \cup {NoSession}
         /\ \A s \in Sessions : sessions[s] # NoSession => sessions[s] \in SessionRows
         /\ \A s \in Sessions : sessions[s].state = "open" => sessions[s] \in SessionRows
         /\ \A l \in Logins : logins[l] \in LoginStates
         /\ \A c \in Callbacks : callbacks[c] \in CallbackStates
         /\ \A r \in Requests : requests[r] \in RequestStates
  BY DEF IdentityTypes, UsersOK, SessionsOK, LoginsOK, CallbacksOK, RequestsOK, Accounts, NoUser,
         NoSession

LEMMA RevokedSessions ==
  ASSUME IdentityTypes, NEW S, sessions' = Revoked(S)
  PROVE  /\ SessionsOK'
         /\ \A s \in Sessions : sessions'[s] = NoSession <=> sessions[s] = NoSession
         /\ \A s \in Sessions :
              sessions[s] # NoSession => sessions'[s].user = sessions[s].user /\ sessions'[s].by = sessions[s].by
         /\ \A s \in Sessions : sessions'[s].state = "open" => sessions[s].state = "open" /\ s \notin S
  <1>1. \A s \in Sessions : sessions[s] \in SessionRows \cup {NoSession}
    BY StateFacts
  <1>2. \A s \in Sessions :
          sessions'[s] = IF s \in S /\ sessions[s].state = "open"
                         THEN [sessions[s] EXCEPT !.state = "revoked"] ELSE sessions[s]
    BY DEF Revoked
  <1>3. ASSUME NEW s \in Sessions, s \in S, sessions[s].state = "open"
        PROVE  /\ sessions'[s] \in SessionRows /\ sessions[s] # NoSession /\ sessions'[s] # NoSession
               /\ sessions'[s].user = sessions[s].user /\ sessions'[s].by = sessions[s].by
               /\ sessions'[s].state = "revoked"
    <2>1. PICK x \in SessionRows : x = sessions[s]
      BY <1>3, StateFacts
    <2>2. sessions'[s] = [x EXCEPT !.state = "revoked"]
      BY <1>2, <1>3, <2>1
    <2>3. /\ [x EXCEPT !.state = "revoked"] \in SessionRows
          /\ [x EXCEPT !.state = "revoked"].user = x.user
          /\ [x EXCEPT !.state = "revoked"].by = x.by
          /\ [x EXCEPT !.state = "revoked"].state = "revoked"
      BY DEF SessionRows
    <2>4. sessions[s] # NoSession /\ sessions'[s] # NoSession
      BY <1>3, <2>2, <2>3 DEF NoSession
    <2> QED
      BY <2>1, <2>2, <2>3, <2>4
  <1>4. \A s \in Sessions : sessions'[s] \in SessionRows \cup {NoSession}
    BY <1>1, <1>2, <1>3
  <1>5. SessionsOK'
    BY <1>4 DEF Revoked, SessionsOK
  <1>6. \A s \in Sessions : ~(s \in S /\ sessions[s].state = "open") => sessions'[s] = sessions[s]
    BY <1>2
  <1> QED
    BY <1>3, <1>5, <1>6

LEMMA IssuedSession ==
  ASSUME IdentityTypes, NEW s \in Sessions, NEW u \in Users,
         NEW by \in {"setup", "password"} \cup Transactions, Issue(s, u, by)
  PROVE  /\ SessionsOK'
         /\ sessions[s] = NoSession /\ sessions'[s] # NoSession
         /\ sessions'[s].user = u /\ sessions'[s].by = by /\ sessions'[s].state = "open"
         /\ \A n \in Sessions \ {s} : sessions'[n] = sessions[n]
  <1>1. PICK x : x = [state |-> "open", user |-> u, by |-> by]
    OBVIOUS
  <1>2. x \in SessionRows /\ x # NoSession /\ x.user = u /\ x.by = by /\ x.state = "open"
    BY <1>1 DEF SessionRows, NoSession
  <1>3. sessions' = [sessions EXCEPT ![s] = x] /\ sessions[s] = NoSession
    BY <1>1 DEF Issue
  <1> QED
    BY <1>2, <1>3 DEF IdentityTypes, SessionsOK

LEMMA WrittenLogins ==
  ASSUME IdentityTypes, NEW u, NEW hash, NEW account,
         NEW ls, ls = LoginsAfterWrite(u, hash, account)
  PROVE  /\ ls \in [Logins -> LoginStates]
         /\ \A l \in Logins : ls[l] = Vacant <=> logins[l] = Vacant
         /\ \A l \in Logins :
              ls[l].at = "verified" /\ ls[l].fresh => ls[l] = logins[l]
  <1>1. \A l \in Logins : logins[l] \in LoginStates
    BY StateFacts
  <1>2. ASSUME NEW l \in Logins, logins[l] # Vacant, logins[l].user = u
        PROVE  ls[l] \in LoginStates /\ ls[l] # Vacant /\ ~ls[l].fresh
    <2>1. logins[l] \in LoginStates \ {Vacant}
      BY <1>1, <1>2
    <2>2. ls[l] = [logins[l] EXCEPT !.fresh = FALSE, !.hash = logins[l].hash /\ ~hash,
                                    !.account = logins[l].account /\ ~account]
      BY <1>2 DEF LoginsAfterWrite
    <2>3. PICK h \in BOOLEAN : h = (logins[l].hash /\ ~hash)
      OBVIOUS
    <2>4. PICK a \in BOOLEAN : a = (logins[l].account /\ ~account)
      OBVIOUS
    <2>5. ls[l] = [logins[l] EXCEPT !.fresh = FALSE, !.hash = h, !.account = a]
      BY <2>2, <2>3, <2>4
    <2> QED
      BY <2>1, <2>5 DEF LoginStates, Vacant
  <1>3. \A l \in Logins :
          ~(logins[l] # Vacant /\ logins[l].user = u) => ls[l] = logins[l]
    BY DEF LoginsAfterWrite
  <1>4. ls \in [Logins -> LoginStates]
    BY <1>1, <1>2, <1>3 DEF LoginsAfterWrite
  <1> QED
    BY <1>1, <1>2, <1>3, <1>4

\* The steps that begin or go on with a request.
LEMMA RequestTypes ==
  ASSUME IdentityTypes, NEW r \in Requests, NEW x \in RequestStates,
         x.at = "session" => sessions'[x.session] # NoSession,
         requests' = [requests EXCEPT ![r] = x],
         \A s \in Sessions : sessions[s] # NoSession => sessions'[s] # NoSession
  PROVE  RequestsOK'
  <1>1. \A q \in Requests : requests'[q] = IF q = r THEN x ELSE requests[q]
    BY DEF IdentityTypes, RequestsOK
  <1>2. \A q \in Requests : requests[q].at = "session" => requests[q].session \in Sessions
    BY StateFacts DEF RequestStates, Vacant
  <1> QED
    BY <1>1, <1>2 DEF IdentityTypes, RequestsOK

-----------------------------------------------------------------------------
(* What most steps do not do.                                              *)

\* No account comes up, and none changes its role or its status.
AccessKept ==
  \A u \in Users :
    /\ users'[u] = NoUser <=> users[u] = NoUser
    /\ users'[u].status = users[u].status
    /\ users'[u].role = users[u].role

\* Sessions stay those of their accounts, and none is open again.
SessionsMoveOn ==
  \A s \in Sessions :
    sessions[s] # NoSession =>
      /\ sessions'[s] # NoSession
      /\ sessions'[s].user = sessions[s].user
      /\ sessions'[s].by = sessions[s].by
      /\ sessions'[s].state = "open" => sessions[s].state = "open"

\* Who writes goes on to write the same role and status.
WritesKept ==
  /\ lock' = lock
  /\ \A r \in Requests :
       /\ requests'[r].at \in {"write", "revoke"} => requests'[r].at = requests[r].at
       /\ requests[r].at \in {"write", "revoke"} =>
            /\ requests'[r].at = requests[r].at
            /\ requests'[r].user = requests[r].user
            /\ requests'[r].row.role = requests[r].row.role
            /\ requests'[r].row.status = requests[r].row.status

\* Nobody is authenticated by this step.
NobodyArrives ==
  \A r \in Requests : requests'[r].at = "principal" => requests[r].at = "principal"

\* A login that still has the current row had it before, or has just read it.
LoginsFallBehind ==
  \A l \in Logins : logins'[l].at = "verified" /\ logins'[l].fresh =>
    logins'[l].account \/ logins'[l] = logins[l]

\* No transaction is used by this step.
UsesKept ==
  \A t \in Transactions :
    /\ transactions[t] \notin {"absent", "open"} => transactions'[t] \notin {"absent", "open"}
    /\ \A c \in Callbacks : Uses(c, t)' => Uses(c, t)
    /\ \A s \in Sessions : IssuedBy(s, t)' => IssuedBy(s, t)

LEMMA AccessStays ==
  ASSUME AccessKept
  PROVE  ActiveAdmins' = ActiveAdmins
  BY DEF AccessKept, ActiveAdmins

LEMMA QuietSteps ==
  ASSUME IdentityInv, AccessKept, SessionsMoveOn, WritesKept,
         outdated' = outdated, faults' = faults
  PROVE  /\ NobodyArrives => SetUpFirst'
         /\ LockIsHeldToWrite' /\ WritesAreSafe' /\ AnAdminRemains'
         /\ OutdatedAreIssued' /\ SessionsEndWithTheAccount'
  <1>1. ActiveAdmins' = ActiveAdmins
    BY AccessStays
  <1>2. NobodyArrives => SetUpFirst'
    BY DEF IdentityInv, SetUpFirst, NobodyArrives, AccessKept
  <1>3. LockIsHeldToWrite'
    BY DEF IdentityInv, LockIsHeldToWrite, WritesKept
  <1>4. WritesAreSafe'
    <2> SUFFICES ASSUME NEW r \in Requests, requests'[r].at = "write"
                 PROVE  WriteIsSafe(r)'
      BY DEF WritesAreSafe
    <2>1. /\ requests[r].at = "write" /\ requests'[r].user = requests[r].user
          /\ requests'[r].row.role = requests[r].row.role
          /\ requests'[r].row.status = requests[r].row.status
      BY DEF WritesKept
    <2>2. WriteIsSafe(r)
      BY <2>1 DEF IdentityInv, WritesAreSafe
    <2>3. requests[r].user \in Users
      BY <2>1, StateFacts DEF IdentityInv, RequestStates, Vacant
    <2> QED
      BY <1>1, <2>1, <2>2, <2>3 DEF WriteIsSafe, IsActiveAdmin, AccessKept
  <1>5. AnAdminRemains'
    BY <1>1 DEF IdentityInv, AnAdminRemains, AccessKept
  <1>6. OutdatedAreIssued'
    BY DEF IdentityInv, OutdatedAreIssued, SessionsMoveOn
  <1>7. SessionsEndWithTheAccount'
    <2> SUFFICES ASSUME faults = 0, NEW s \in outdated, sessions'[s].state = "open"
                 PROVE  /\ lock # Free /\ requests'[lock].at = "revoke"
                        /\ requests'[lock].user = sessions'[s].user
      BY DEF SessionsEndWithTheAccount, WritesKept
    <2>1. s \in Sessions /\ sessions[s] # NoSession
      BY DEF IdentityInv, OutdatedAreIssued
    <2>2. sessions[s].state = "open" /\ sessions'[s].user = sessions[s].user
      BY <2>1 DEF SessionsMoveOn
    <2>3. lock # Free /\ requests[lock].at = "revoke" /\ requests[lock].user = sessions[s].user
      BY <2>2 DEF IdentityInv, SessionsEndWithTheAccount
    <2>4. lock \in Requests
      BY <2>3 DEF IdentityInv, LockIsHeldToWrite
    <2> QED
      BY <2>2, <2>3, <2>4 DEF WritesKept
  <1> QED
    BY <1>2, <1>3, <1>4, <1>5, <1>6, <1>7

LEMMA QuietUses ==
  ASSUME IdentityInv, UsesKept
  PROVE  \A t \in Transactions : UsedOnce(t)'
  <1> SUFFICES ASSUME NEW t \in Transactions
               PROVE  UsedOnce(t)'
    OBVIOUS
  <1>1. UsedOnce(t)
    BY DEF IdentityInv
  <1>2. /\ \A c \in Callbacks : Uses(c, t)' => Uses(c, t)
        /\ \A s \in Sessions : IssuedBy(s, t)' => IssuedBy(s, t)
        /\ transactions[t] \notin {"absent", "open"} => transactions'[t] \notin {"absent", "open"}
    BY DEF UsesKept
  <1> QED
    BY <1>1, <1>2 DEF UsedOnce

LEMMA QuietLogins ==
  ASSUME IdentityInv, LoginsFallBehind
  PROVE  FreshIsVerified'
  BY DEF IdentityInv, FreshIsVerified, LoginsFallBehind

\* No session is issued for a transaction.
NoneForATransaction ==
  \A s \in Sessions : sessions'[s] # NoSession =>
    \/ sessions'[s].by \in {"setup", "password"}
    \/ sessions[s] # NoSession /\ sessions'[s].by = sessions[s].by

LEMMA UnchangedParts ==
  /\ users' = users => AccessKept
  /\ sessions' = sessions => SessionsMoveOn /\ NoneForATransaction
  /\ logins' = logins => LoginsFallBehind
  /\ UNCHANGED <<lock, requests>> => WritesKept /\ NobodyArrives
  BY DEF AccessKept, SessionsMoveOn, NoneForATransaction, LoginsFallBehind, WritesKept, NobodyArrives

LEMMA UsesStay ==
  ASSUME IdentityAssumption, NoneForATransaction, UNCHANGED <<transactions, callbacks>>
  PROVE  UsesKept
  BY DEF IdentityAssumption, NoneForATransaction, UsesKept, Uses, IssuedBy

LEMMA QuietInv ==
  ASSUME IdentityInv, IdentityTypes', AccessKept, SessionsMoveOn, WritesKept, NobodyArrives,
         UsesKept, LoginsFallBehind, outdated' = outdated, faults' = faults
  PROVE  IdentityInv'
  <1>1. SetUpFirst' /\ LockIsHeldToWrite' /\ WritesAreSafe' /\ AnAdminRemains'
        /\ OutdatedAreIssued' /\ SessionsEndWithTheAccount'
    BY QuietSteps
  <1>2. \A t \in Transactions : UsedOnce(t)'
    BY QuietUses
  <1>3. FreshIsVerified'
    BY QuietLogins
  <1> QED
    BY <1>1, <1>2, <1>3 DEF IdentityInv

LEMMA VacantIsVacant ==
  /\ Vacant \in RequestStates /\ Vacant \in LoginStates /\ Vacant \in CallbackStates
  /\ Vacant.at = "vacant"
  BY DEF Vacant, RequestStates, LoginStates, CallbackStates

\* A request that does not write, and goes on.
LEMMA RequestStep ==
  ASSUME IdentityTypes, NEW r \in Requests, NEW x \in RequestStates,
         requests' = [requests EXCEPT ![r] = x],
         requests[r].at \notin {"write", "revoke"}, x.at \notin {"write", "revoke"}, lock' = lock
  PROVE  WritesKept /\ (x.at # "principal" => NobodyArrives)
  <1>1. \A q \in Requests : requests'[q] = IF q = r THEN x ELSE requests[q]
    BY DEF IdentityTypes, RequestsOK
  <1> QED
    BY <1>1 DEF WritesKept, NobodyArrives

LEMMA RequestsStay ==
  ASSUME IdentityTypes, requests' = requests, SessionsMoveOn
  PROVE  RequestsOK'
  <1>1. \A q \in Requests : requests[q].at = "session" => requests[q].session \in Sessions
    BY StateFacts DEF RequestStates, Vacant
  <1> QED
    BY <1>1 DEF IdentityTypes, RequestsOK, SessionsMoveOn

LEMMA SessionsRevoked ==
  ASSUME IdentityTypes, NEW S, sessions' = Revoked(S)
  PROVE  SessionsOK' /\ SessionsMoveOn /\ NoneForATransaction
  BY RevokedSessions DEF SessionsMoveOn, NoneForATransaction

LEMMA SessionIssued ==
  ASSUME IdentityTypes, NEW s \in Sessions, NEW u \in Users,
         NEW by \in {"setup", "password"} \cup Transactions, Issue(s, u, by)
  PROVE  SessionsOK' /\ SessionsMoveOn /\ (by \in {"setup", "password"} => NoneForATransaction)
  BY IssuedSession DEF SessionsMoveOn, NoneForATransaction

\* An account that is written with the role and the status it had.
LEMMA AccountWritten ==
  ASSUME IdentityTypes, NEW u \in Users, users[u] # NoUser, NEW x \in Accounts,
         x.role = users[u].role, x.status = users[u].status, users' = [users EXCEPT ![u] = x]
  PROVE  UsersOK' /\ AccessKept
  <1>1. \A v \in Users : users'[v] = IF v = u THEN x ELSE users[v]
    BY DEF IdentityTypes, UsersOK
  <1>2. x # NoUser
    BY DEF Accounts, NoUser
  <1> QED
    BY <1>1, <1>2 DEF IdentityTypes, UsersOK, AccessKept

-----------------------------------------------------------------------------
(* The requests.                                                           *)

LEMMA SetupInv ==
  ASSUME IdentityInv, NEW u \in Users, NEW r \in Requests, Setup(u, r)
  PROVE  IdentityInv'
  <1> DEFINE x == [at |-> "setup", actor |-> u]
             a == NewUser("system_admin")
  <1>1. x \in RequestStates /\ x.at = "setup"
    BY DEF RequestStates
  <1>2. a \in Accounts /\ a # NoUser /\ a.status = "active" /\ a.role = "system_admin"
    BY DEF NewUser, Accounts, Roles, NoUser
  <1>3. /\ users' = [users EXCEPT ![u] = a] /\ requests' = [requests EXCEPT ![r] = x]
        /\ \A v \in Users : users[v] = NoUser
        /\ requests[r].at = "vacant"
        /\ UNCHANGED <<mode, sessions, bound, transactions, lock, logins, callbacks, outdated, faults>>
    BY VacantIsVacant DEF Setup
  <1> HIDE DEF x, a
  <1>4. IdentityTypes
    BY DEF IdentityInv
  <1>5. users' \in [Users -> Accounts \cup {NoUser}] /\ users'[u] = a
    BY <1>2, <1>3, <1>4 DEF IdentityTypes, UsersOK
  <1>6. RequestsOK'
    BY <1>1, <1>3, <1>4, RequestTypes
  <1>7. IdentityTypes'
    BY <1>3, <1>4, <1>5, <1>6
       DEF IdentityTypes, UsersOK, SessionsOK, BoundOK, LoginsOK, CallbacksOK, TransactionsOK
  <1>8. WritesKept /\ NobodyArrives
    BY <1>1, <1>3, <1>4, RequestStep
  <1>9. SetUpFirst' /\ AnAdminRemains'
    BY <1>2, <1>5 DEF SetUpFirst, AnAdminRemains, ActiveAdmins
  <1>10. LockIsHeldToWrite'
    BY <1>8 DEF IdentityInv, LockIsHeldToWrite, WritesKept
  <1>11. WritesAreSafe'
    <2>1. \A q \in Requests : requests[q].at = "write" => requests[q].user \in Users
      BY <1>4, StateFacts DEF RequestStates, Vacant
    <2>2. \A q \in Requests : requests[q].at # "write"
      BY <1>3, <2>1 DEF IdentityInv, WritesAreSafe, WriteIsSafe
    <2> QED
      BY <1>8, <2>2 DEF WritesAreSafe, WritesKept
  <1>12. \A q \in Requests : requests[q].at = "revoke" =>
           requests'[q].at = "revoke" /\ requests'[q].user = requests[q].user
    BY <1>8 DEF WritesKept
  <1>13. OutdatedAreIssued' /\ SessionsEndWithTheAccount'
    BY <1>3, <1>12 DEF IdentityInv, OutdatedAreIssued, SessionsEndWithTheAccount, LockIsHeldToWrite
  <1>14. UsesKept /\ LoginsFallBehind
    BY <1>3, UnchangedParts, UsesStay, IdentityAssumption
  <1> QED
    BY <1>7, <1>9, <1>10, <1>11, <1>13, <1>14, QuietUses, QuietLogins DEF IdentityInv

LEMMA VacantNext ==
  ASSUME IdentityTypes, NEW r \in Requests, requests' = [requests EXCEPT ![r] = Vacant],
         requests[r].at \notin {"write", "revoke"}, lock' = lock, SessionsMoveOn
  PROVE  RequestsOK' /\ WritesKept /\ NobodyArrives
  <1>1. RequestsOK'
    BY RequestTypes, VacantIsVacant DEF SessionsMoveOn
  <1> QED
    BY <1>1, RequestStep, VacantIsVacant

LEMMA CreateUserInv ==
  ASSUME IdentityInv, NEW r \in Requests, NEW u \in Users, NEW role \in Roles, CreateUser(r, u, role)
  PROVE  IdentityInv'
  <1> DEFINE a == NewUser(role)
  <1>1. a \in Accounts /\ a # NoUser
    BY DEF NewUser, Accounts, Roles, NoUser
  <1>2. /\ users' = [users EXCEPT ![u] = a] /\ requests' = [requests EXCEPT ![r] = Vacant]
        /\ users[u] = NoUser /\ requests[r].at = "principal"
        /\ UNCHANGED <<mode, sessions, bound, transactions, lock, logins, callbacks, outdated, faults>>
    BY DEF CreateUser, Administers
  <1> HIDE DEF a
  <1>3. IdentityTypes
    BY DEF IdentityInv
  <1>4. /\ users' \in [Users -> Accounts \cup {NoUser}]
        /\ \A v \in Users : users[v] # NoUser => users'[v] = users[v]
    BY <1>1, <1>2, <1>3 DEF IdentityTypes, UsersOK
  <1>5. SessionsMoveOn /\ UsesKept /\ LoginsFallBehind
    BY <1>2, UnchangedParts, UsesStay, IdentityAssumption
  <1>6. RequestsOK' /\ WritesKept /\ NobodyArrives
    BY <1>2, <1>3, <1>5, VacantNext
  <1>7. IdentityTypes'
    BY <1>2, <1>3, <1>4, <1>6
       DEF IdentityTypes, UsersOK, SessionsOK, BoundOK, LoginsOK, CallbacksOK, TransactionsOK
  <1>8. ActiveAdmins \subseteq ActiveAdmins'
    BY <1>4 DEF ActiveAdmins, NoUser
  <1>9. ActiveAdmins # {}
    BY <1>2 DEF IdentityInv, SetUpFirst, AnAdminRemains
  <1>10. SetUpFirst' /\ AnAdminRemains'
    BY <1>4, <1>6, <1>8, <1>9 DEF IdentityInv, SetUpFirst, AnAdminRemains, NobodyArrives
  <1>11. LockIsHeldToWrite'
    BY <1>6 DEF IdentityInv, LockIsHeldToWrite, WritesKept
  <1>12. WritesAreSafe'
    <2> SUFFICES ASSUME NEW q \in Requests, requests'[q].at = "write"
                 PROVE  WriteIsSafe(q)'
      BY DEF WritesAreSafe
    <2>1. /\ requests[q].at = "write" /\ requests'[q].user = requests[q].user
          /\ requests'[q].row.role = requests[q].row.role
          /\ requests'[q].row.status = requests[q].row.status
      BY <1>6 DEF WritesKept
    <2>2. WriteIsSafe(q)
      BY <2>1 DEF IdentityInv, WritesAreSafe
    <2>3. requests[q].user \in Users
      BY <1>3, <2>1, StateFacts DEF RequestStates, Vacant
    <2> QED
      BY <1>4, <1>8, <2>1, <2>2, <2>3 DEF WriteIsSafe, IsActiveAdmin
  <1>13. \A q \in Requests : requests[q].at = "revoke" =>
           requests'[q].at = "revoke" /\ requests'[q].user = requests[q].user
    BY <1>6 DEF WritesKept
  <1>14. OutdatedAreIssued' /\ SessionsEndWithTheAccount'
    BY <1>2, <1>13 DEF IdentityInv, OutdatedAreIssued, SessionsEndWithTheAccount, LockIsHeldToWrite
  <1> QED
    BY <1>5, <1>7, <1>10, <1>11, <1>12, <1>14, QuietUses, QuietLogins DEF IdentityInv

LEMMA IssueSetupSessionInv ==
  ASSUME IdentityInv, NEW r \in Requests, NEW s \in Sessions, IssueSetupSession(r, s)
  PROVE  IdentityInv'
  <1>1. IdentityTypes
    BY DEF IdentityInv
  <1>2. /\ requests[r].at = "setup" /\ Issue(s, requests[r].actor, "setup")
        /\ requests' = [requests EXCEPT ![r] = Vacant]
        /\ UNCHANGED <<mode, users, bound, transactions, lock, logins, callbacks, outdated, faults>>
    BY DEF IssueSetupSession
  <1>3. requests[r].actor \in Users
    BY <1>1, <1>2, StateFacts DEF RequestStates, Vacant
  <1>4. SessionsOK' /\ SessionsMoveOn /\ NoneForATransaction
    BY <1>1, <1>2, <1>3, SessionIssued
  <1>5. RequestsOK' /\ WritesKept /\ NobodyArrives
    BY <1>1, <1>2, <1>4, VacantNext
  <1>6. IdentityTypes'
    BY <1>1, <1>2, <1>4, <1>5
       DEF IdentityTypes, UsersOK, BoundOK, LoginsOK, CallbacksOK, TransactionsOK
  <1> QED
    BY <1>2, <1>4, <1>5, <1>6, UnchangedParts, UsesStay, QuietInv, IdentityAssumption

LEMMA ReadSessionInv ==
  ASSUME IdentityInv, NEW r \in Requests, NEW s \in Sessions, ReadSession(r, s)
  PROVE  IdentityInv'
  <1> DEFINE x == [at |-> "session", session |-> s]
  <1>1. IdentityTypes
    BY DEF IdentityInv
  <1>2. x \in RequestStates /\ x.at = "session" /\ x.session = s
    BY DEF RequestStates
  <1>3. /\ requests[r].at = "vacant" /\ sessions[s].state = "open"
        /\ requests' = [requests EXCEPT ![r] = x]
        /\ UNCHANGED <<mode, users, sessions, bound, transactions, lock, logins, callbacks, outdated, faults>>
    BY VacantIsVacant DEF ReadSession
  <1> HIDE DEF x
  <1>4. sessions'[s] # NoSession
    BY <1>3 DEF NoSession
  <1>5. RequestsOK' /\ WritesKept /\ NobodyArrives
    BY <1>1, <1>2, <1>3, <1>4, RequestTypes, RequestStep
  <1>6. IdentityTypes'
    BY <1>1, <1>3, <1>5
       DEF IdentityTypes, UsersOK, SessionsOK, BoundOK, LoginsOK, CallbacksOK, TransactionsOK
  <1> QED
    BY <1>3, <1>5, <1>6, UnchangedParts, UsesStay, QuietInv, IdentityAssumption

LEMMA RevokeSessionsInv ==
  ASSUME IdentityInv, NEW r \in Requests, NEW u \in Users, RevokeSessions(r, u)
  PROVE  IdentityInv'
  <1>1. IdentityTypes
    BY DEF IdentityInv
  <1>2. /\ requests[r].at = "principal" /\ sessions' = Revoked(SessionsOf(u))
        /\ requests' = [requests EXCEPT ![r] = Vacant]
        /\ UNCHANGED <<mode, users, bound, transactions, lock, logins, callbacks, outdated, faults>>
    BY DEF RevokeSessions, Administers
  <1>3. SessionsOK' /\ SessionsMoveOn /\ NoneForATransaction
    BY <1>1, <1>2, SessionsRevoked
  <1>4. RequestsOK' /\ WritesKept /\ NobodyArrives
    BY <1>1, <1>2, <1>3, VacantNext
  <1>5. IdentityTypes'
    BY <1>1, <1>2, <1>3, <1>4
       DEF IdentityTypes, UsersOK, BoundOK, LoginsOK, CallbacksOK, TransactionsOK
  <1> QED
    BY <1>2, <1>3, <1>4, <1>5, UnchangedParts, UsesStay, QuietInv, IdentityAssumption

LEMMA BindIdentityInv ==
  ASSUME IdentityInv, NEW r \in Requests, NEW u \in Users, NEW subject \in Users,
         BindIdentity(r, u, subject)
  PROVE  IdentityInv'
  <1>1. IdentityTypes
    BY DEF IdentityInv
  <1>2. /\ requests[r].at = "principal" /\ bound' = [bound EXCEPT ![subject] = u]
        /\ requests' = [requests EXCEPT ![r] = Vacant]
        /\ UNCHANGED <<mode, users, sessions, transactions, lock, logins, callbacks, outdated, faults>>
    BY DEF BindIdentity, Administers
  <1>3. SessionsMoveOn
    BY <1>2, UnchangedParts
  <1>4. RequestsOK' /\ WritesKept /\ NobodyArrives
    BY <1>1, <1>2, <1>3, VacantNext
  <1>5. IdentityTypes'
    BY <1>1, <1>2, <1>4
       DEF IdentityTypes, UsersOK, SessionsOK, BoundOK, LoginsOK, CallbacksOK, TransactionsOK
  <1> QED
    BY <1>2, <1>4, <1>5, UnchangedParts, UsesStay, QuietInv, IdentityAssumption

LEMMA SessionEndsInv ==
  ASSUME IdentityInv, NEW s \in Sessions, Logout(s) \/ SessionExpires(s)
  PROVE  IdentityInv'
  <1>1. IdentityTypes
    BY DEF IdentityInv
  <1>2. UNCHANGED <<mode, users, bound, transactions, lock, requests, logins, callbacks, outdated, faults>>
    BY DEF Logout, SessionExpires
  <1>3. SessionsOK' /\ SessionsMoveOn /\ NoneForATransaction
    <2>1. CASE Logout(s)
      BY <1>1, <2>1, SessionsRevoked DEF Logout
    <2>2. CASE SessionExpires(s)
      <3>1. PICK x \in SessionRows : x = sessions[s]
        BY <1>1, <2>2, StateFacts DEF SessionExpires
      <3>2. PICK y : y = [x EXCEPT !.state = "expired"]
        OBVIOUS
      <3>3. /\ y \in SessionRows /\ y # NoSession /\ y.user = x.user /\ y.by = x.by
            /\ y.state # "open"
        BY <3>2 DEF SessionRows, NoSession
      <3>4. sessions' = [sessions EXCEPT ![s] = y]
        BY <2>2, <3>1, <3>2 DEF SessionExpires
      <3>5. x # NoSession
        BY DEF SessionRows, NoSession
      <3> QED
        BY <1>1, <3>1, <3>3, <3>4, <3>5
           DEF IdentityTypes, SessionsOK, SessionsMoveOn, NoneForATransaction
    <2> QED
      BY <2>1, <2>2
  <1>4. RequestsOK'
    BY <1>1, <1>2, <1>3, RequestsStay
  <1>5. IdentityTypes'
    BY <1>1, <1>2, <1>3, <1>4
       DEF IdentityTypes, UsersOK, BoundOK, LoginsOK, CallbacksOK, TransactionsOK
  <1> QED
    BY <1>2, <1>3, <1>5, UnchangedParts, UsesStay, QuietInv, IdentityAssumption

LEMMA ReadUserInv ==
  ASSUME IdentityInv, NEW r \in Requests, ReadUser(r)
  PROVE  IdentityInv'
  <1> DEFINE s == requests[r].session
             u == sessions[s].user
             x == [at |-> "principal", actor |-> u, role |-> users[u].role]
  <1>1. IdentityTypes
    BY DEF IdentityInv
  <1>2. /\ requests[r].at = "session"
        /\ UNCHANGED <<mode, users, bound, transactions, lock, logins, callbacks, outdated, faults>>
    BY DEF ReadUser
  <1>3. s \in Sessions /\ sessions[s] # NoSession
    BY <1>1, <1>2, StateFacts DEF IdentityTypes, RequestsOK, RequestStates, Vacant
  <1>4. u \in Users
    BY <1>1, <1>3, StateFacts DEF SessionRows
  <1>5. \/ sessions' = Revoked({s}) /\ requests' = [requests EXCEPT ![r] = Vacant]
        \/ sessions' = sessions /\ requests' = [requests EXCEPT ![r] = Vacant]
        \/ users[u].status = "active" /\ sessions' = sessions /\ requests' = [requests EXCEPT ![r] = x]
    BY DEF ReadUser
  <1> HIDE DEF s, u
  <1>6. CASE requests' = [requests EXCEPT ![r] = Vacant] /\ (sessions' = Revoked({s}) \/ sessions' = sessions)
    <2>1. SessionsOK' /\ SessionsMoveOn /\ NoneForATransaction
      <3>1. CASE sessions' = Revoked({s})
        BY <1>1, <3>1, SessionsRevoked
      <3>2. CASE sessions' = sessions
        BY <1>1, <3>2, UnchangedParts DEF IdentityTypes, SessionsOK
      <3> QED
        BY <1>6, <3>1, <3>2
    <2>2. RequestsOK' /\ WritesKept /\ NobodyArrives
      BY <1>1, <1>2, <1>6, <2>1, VacantNext
    <2>3. IdentityTypes'
      BY <1>1, <1>2, <2>1, <2>2
         DEF IdentityTypes, UsersOK, BoundOK, LoginsOK, CallbacksOK, TransactionsOK
    <2> QED
      BY <1>2, <2>1, <2>2, <2>3, UnchangedParts, UsesStay, QuietInv, IdentityAssumption
  <1>7. CASE users[u].status = "active" /\ sessions' = sessions /\ requests' = [requests EXCEPT ![r] = x]
    <2>1. users[u] \in Accounts /\ users[u] # NoUser
      BY <1>1, <1>4, <1>7, StateFacts DEF NoUser
    <2>2. x \in RequestStates /\ x.at = "principal"
      BY <1>4, <2>1 DEF RequestStates, Accounts
    <2> HIDE DEF x
    <2>3. RequestsOK' /\ WritesKept /\ SessionsMoveOn
      BY <1>1, <1>2, <1>7, <2>2, RequestTypes, RequestStep, UnchangedParts
    <2>4. IdentityTypes'
      BY <1>1, <1>2, <1>7, <2>3
         DEF IdentityTypes, UsersOK, SessionsOK, BoundOK, LoginsOK, CallbacksOK, TransactionsOK
    <2>5. SetUpFirst'
      BY <1>2, <1>4, <2>1 DEF SetUpFirst
    <2>6. AccessKept /\ LoginsFallBehind /\ UsesKept
      BY <1>2, <1>7, UnchangedParts, UsesStay, IdentityAssumption
    <2>7. /\ LockIsHeldToWrite' /\ WritesAreSafe' /\ AnAdminRemains'
          /\ OutdatedAreIssued' /\ SessionsEndWithTheAccount'
      BY <1>2, <2>3, <2>6, QuietSteps
    <2> QED
      BY <2>4, <2>5, <2>6, <2>7, QuietUses, QuietLogins DEF IdentityInv
  <1> QED
    BY <1>5, <1>6, <1>7

\* A second active administrator.
LEMMA AnotherAdmin ==
  ASSUME IdentityAssumption, NEW u, Cardinality(ActiveAdmins) > 1
  PROVE  \E v \in ActiveAdmins : v # u
  <1> SUFFICES ASSUME \A v \in ActiveAdmins : v = u
               PROVE  FALSE
    OBVIOUS
  <1>1. ActiveAdmins \subseteq {u}
    OBVIOUS
  <1>2. IsFiniteSet({u}) /\ Cardinality({u}) = 1
    BY FS_Singleton
  <1>3. Cardinality(ActiveAdmins) <= 1 /\ Cardinality(ActiveAdmins) \in Nat
    BY <1>1, <1>2, FS_Subset, FS_CardinalityType
  <1> QED
    BY <1>3

\* Taking the lock to write an account that has been read.
LEMMA BeginWriteInv ==
  ASSUME IdentityInv, NEW r \in Requests, NEW u \in Users, NEW x \in Accounts, NEW password \in BOOLEAN,
         requests[r].at = "principal", lock = Free, lock' = r, users[u] # NoUser,
         requests' = [requests EXCEPT ![r] =
           [at |-> "write", user |-> u, row |-> x, password |-> password]],
         IsActiveAdmin(x) \/ \E v \in ActiveAdmins : v # u,
         UNCHANGED <<mode, users, sessions, bound, transactions, logins, callbacks, outdated, faults>>
  PROVE  IdentityInv'
  <1> DEFINE w == [at |-> "write", user |-> u, row |-> x, password |-> password]
  <1>1. IdentityTypes
    BY DEF IdentityInv
  <1>2. w \in RequestStates /\ w.at = "write" /\ w.user = u /\ w.row = x
    BY DEF RequestStates
  <1>3. requests' = [requests EXCEPT ![r] = w]
    OBVIOUS
  <1> HIDE DEF w
  <1>4. \A q \in Requests : requests'[q] = IF q = r THEN w ELSE requests[q]
    BY <1>1, <1>3 DEF IdentityTypes, RequestsOK
  <1>5. SessionsMoveOn /\ AccessKept /\ LoginsFallBehind /\ UsesKept
    BY UnchangedParts, UsesStay, IdentityAssumption
  <1>6. RequestsOK'
    BY <1>1, <1>2, <1>3, <1>5, RequestTypes DEF SessionsMoveOn
  <1>7. IdentityTypes'
    BY <1>1, <1>6
       DEF IdentityTypes, UsersOK, SessionsOK, BoundOK, LoginsOK, CallbacksOK, TransactionsOK
  <1>8. SetUpFirst' /\ AnAdminRemains' /\ OutdatedAreIssued'
    BY <1>2, <1>4
       DEF IdentityInv, SetUpFirst, AnAdminRemains, ActiveAdmins, OutdatedAreIssued
  <1>9. \A q \in Requests : requests[q].at \notin {"write", "revoke"}
    BY IdentityAssumption DEF IdentityInv, LockIsHeldToWrite, IdentityAssumption, Free
  <1>10. LockIsHeldToWrite'
    BY <1>2, <1>4, <1>9 DEF LockIsHeldToWrite
  <1>11. ActiveAdmins' = ActiveAdmins
    BY <1>5, AccessStays
  <1>12. WritesAreSafe'
    BY <1>2, <1>4, <1>9, <1>11 DEF WritesAreSafe, WriteIsSafe, IsActiveAdmin
  <1>13. SessionsEndWithTheAccount'
    BY DEF IdentityInv, SessionsEndWithTheAccount
  <1> QED
    BY <1>5, <1>7, <1>8, <1>10, <1>12, <1>13, QuietUses, QuietLogins DEF IdentityInv

LEMMA BeginUpdateInv ==
  ASSUME IdentityInv, NEW r \in Requests, NEW u \in Users, NEW role \in Roles,
         NEW status \in {"active", "disabled"}, BeginUpdate(r, u, role, status)
  PROVE  IdentityInv'
  <1>1. IdentityTypes
    BY DEF IdentityInv
  <1>2. /\ requests[r].at = "principal" /\ lock = Free /\ lock' = r
        /\ users[u] # NoUser /\ MayUpdate(requests[r].actor, u, role, status)
        /\ UNCHANGED <<mode, users, sessions, bound, transactions, logins, callbacks, outdated, faults>>
    BY DEF BeginUpdate, Administers
  <1>3. PICK x : x = Changed(users[u], role, status)
    OBVIOUS
  <1>4. requests' = [requests EXCEPT ![r] = [at |-> "write", user |-> u, row |-> x, password |-> FALSE]]
    BY <1>3 DEF BeginUpdate
  <1>5. PICK y \in Accounts : y = users[u]
    BY <1>1, <1>2, StateFacts
  <1>6. x \in Accounts /\ x.role = role /\ x.status = status
    BY <1>3, <1>5 DEF Changed, Accounts
  <1>7. IsActiveAdmin(x) \/ \E v \in ActiveAdmins : v # u
    <2>1. CASE status = "active" /\ role = "system_admin"
      BY <1>6, <2>1 DEF IsActiveAdmin
    <2>2. CASE u \notin ActiveAdmins
      BY <1>2, <2>2 DEF IdentityInv, AnAdminRemains
    <2>3. CASE u \in ActiveAdmins /\ ~(status = "active" /\ role = "system_admin")
      BY <1>2, <2>3, AnotherAdmin, IdentityAssumption DEF MayUpdate
    <2> QED
      BY <2>1, <2>2, <2>3
  <1> QED
    BY <1>2, <1>4, <1>6, <1>7, BeginWriteInv

LEMMA BeginPasswordInv ==
  ASSUME IdentityInv, NEW r \in Requests, NEW u \in Users, BeginPassword(r, u)
  PROVE  IdentityInv'
  <1>1. IdentityTypes
    BY DEF IdentityInv
  <1>2. /\ requests[r].at = "principal" /\ lock = Free /\ lock' = r /\ users[u] # NoUser
        /\ UNCHANGED <<mode, users, sessions, bound, transactions, logins, callbacks, outdated, faults>>
    BY DEF BeginPassword
  <1>3. PICK x : x = [users[u] EXCEPT !.failed = 0, !.locked = FALSE]
    OBVIOUS
  <1>4. requests' = [requests EXCEPT ![r] = [at |-> "write", user |-> u, row |-> x, password |-> TRUE]]
    BY <1>3 DEF BeginPassword
  <1>5. PICK y \in Accounts : y = users[u]
    BY <1>1, <1>2, StateFacts
  <1>6. x \in Accounts /\ x.role = users[u].role /\ x.status = users[u].status
    BY <1>3, <1>5 DEF Accounts
  <1>7. IsActiveAdmin(x) \/ \E v \in ActiveAdmins : v # u
    BY <1>2, <1>6 DEF IdentityInv, AnAdminRemains, ActiveAdmins, IsActiveAdmin
  <1> QED
    BY <1>2, <1>4, <1>6, <1>7, BeginWriteInv

LEMMA RevokeAfterWriteInv ==
  ASSUME IdentityInv, NEW r \in Requests, RevokeAfterWrite(r)
  PROVE  IdentityInv'
  <1>1. IdentityTypes
    BY DEF IdentityInv
  <1>2. /\ requests[r].at = "revoke" /\ sessions' = Revoked(SessionsOf(requests[r].user))
        /\ requests' = [requests EXCEPT ![r] = Vacant] /\ lock' = Free
        /\ UNCHANGED <<mode, users, bound, transactions, logins, callbacks, outdated, faults>>
    BY DEF RevokeAfterWrite
  <1>3. SessionsOK' /\ SessionsMoveOn /\ NoneForATransaction
    BY <1>1, <1>2, SessionsRevoked
  <1>4. \A q \in Requests : requests'[q] = IF q = r THEN Vacant ELSE requests[q]
    BY <1>1, <1>2 DEF IdentityTypes, RequestsOK
  <1>5. RequestsOK'
    BY <1>1, <1>2, <1>3, RequestTypes, VacantIsVacant DEF SessionsMoveOn
  <1>6. IdentityTypes'
    BY <1>1, <1>2, <1>3, <1>5
       DEF IdentityTypes, UsersOK, BoundOK, LoginsOK, CallbacksOK, TransactionsOK
  <1>7. UsesKept /\ LoginsFallBehind
    BY <1>2, <1>3, UnchangedParts, UsesStay, IdentityAssumption
  <1>8. SetUpFirst' /\ AnAdminRemains'
    BY <1>2, <1>4, VacantIsVacant DEF IdentityInv, SetUpFirst, AnAdminRemains, ActiveAdmins
  <1>9. lock = r /\ \A q \in Requests : requests'[q].at \notin {"write", "revoke"}
    BY <1>2, <1>4, VacantIsVacant DEF IdentityInv, LockIsHeldToWrite
  <1>10. LockIsHeldToWrite' /\ WritesAreSafe'
    BY <1>2, <1>9, IdentityAssumption
       DEF LockIsHeldToWrite, WritesAreSafe, IdentityAssumption, Free
  <1>11. OutdatedAreIssued'
    BY <1>2, <1>3 DEF IdentityInv, OutdatedAreIssued, SessionsMoveOn
  <1>12. SessionsEndWithTheAccount'
    <2> SUFFICES ASSUME faults = 0, NEW s \in outdated, sessions'[s].state = "open"
                 PROVE  FALSE
      BY <1>2 DEF SessionsEndWithTheAccount
    <2>1. s \in Sessions /\ sessions[s] # NoSession
      BY DEF IdentityInv, OutdatedAreIssued
    <2>2. sessions[s].state = "open" /\ s \notin SessionsOf(requests[r].user)
      BY <1>1, <1>2, <2>1, RevokedSessions
    <2>3. requests[r].user = sessions[s].user
      BY <1>9, <2>2 DEF IdentityInv, SessionsEndWithTheAccount
    <2> QED
      BY <2>1, <2>2, <2>3 DEF SessionsOf
  <1> QED
    BY <1>6, <1>7, <1>8, <1>10, <1>11, <1>12, QuietUses, QuietLogins DEF IdentityInv

LEMMA WriteUserInv ==
  ASSUME IdentityInv, NEW r \in Requests, WriteUser(r)
  PROVE  IdentityInv'
  <1> DEFINE u == requests[r].user
             x == requests[r].row
  <1>1. IdentityTypes
    BY DEF IdentityInv
  <1>2. requests[r].at = "write"
    BY DEF WriteUser
  <1>3. PICK q \in [at : {"write", "revoke"}, user : Users, row : Accounts, password : BOOLEAN] :
          q = requests[r]
    BY <1>1, <1>2, StateFacts DEF RequestStates, Vacant
  <1>4. u \in Users /\ x \in Accounts /\ requests[r].password \in BOOLEAN
    BY <1>3
  <1>5. PICK revokes \in BOOLEAN : revokes =
          (requests[r].password \/ x.status # "active" \/ x.role # users[u].role)
    OBVIOUS
  <1>6. /\ users' = [users EXCEPT ![u] = x]
        /\ logins' = LoginsAfterWrite(u, requests[r].password, revokes)
        /\ outdated' = IF revokes THEN outdated \cup SessionsOf(u) ELSE outdated
        /\ IF revokes THEN requests' = [requests EXCEPT ![r].at = "revoke"] /\ lock' = lock
           ELSE requests' = [requests EXCEPT ![r] = Vacant] /\ lock' = Free
        /\ UNCHANGED <<mode, sessions, bound, transactions, callbacks, faults>>
    BY <1>5 DEF WriteUser
  <1>7. PICK n : n = IF revokes THEN [q EXCEPT !.at = "revoke"] ELSE Vacant
    OBVIOUS
  <1>8. requests' = [requests EXCEPT ![r] = n]
    BY <1>3, <1>6, <1>7
  <1>9. /\ n \in RequestStates
        /\ revokes => n.at = "revoke" /\ n.user = u
        /\ ~revokes => n.at = "vacant"
    BY <1>3, <1>7, VacantIsVacant DEF RequestStates
  <1>10. lock = r /\ lock' = IF revokes THEN r ELSE Free
    BY <1>2, <1>6 DEF IdentityInv, LockIsHeldToWrite
  <1> HIDE DEF u, x
  <1>11. \A p \in Requests : requests'[p] = IF p = r THEN n ELSE requests[p]
    BY <1>1, <1>8 DEF IdentityTypes, RequestsOK
  <1>12. \A p \in Requests : p # r => requests'[p].at \notin {"write", "revoke"}
    BY <1>10, <1>11 DEF IdentityInv, LockIsHeldToWrite
  <1>13. RequestsOK'
    BY <1>1, <1>6, <1>8, <1>9, RequestTypes
  <1>14. /\ users' \in [Users -> Accounts \cup {NoUser}] /\ x # NoUser
         /\ \A v \in Users : users'[v] = IF v = u THEN x ELSE users[v]
    BY <1>1, <1>4, <1>6 DEF IdentityTypes, UsersOK, Accounts, NoUser
  <1>15. logins' \in [Logins -> LoginStates] /\ LoginsFallBehind
    BY <1>1, <1>4, <1>6, WrittenLogins DEF LoginsFallBehind
  <1>16. IdentityTypes'
    BY <1>1, <1>6, <1>13, <1>14, <1>15
       DEF IdentityTypes, UsersOK, SessionsOK, BoundOK, LoginsOK, CallbacksOK, TransactionsOK
  <1>17. UsesKept
    BY <1>6, UnchangedParts, UsesStay, IdentityAssumption
  <1>18. AnAdminRemains'
    <2>1. WriteIsSafe(r)
      BY <1>2 DEF IdentityInv, WritesAreSafe
    <2>2. CASE IsActiveAdmin(x)
      BY <1>4, <1>14, <2>2 DEF AnAdminRemains, ActiveAdmins, IsActiveAdmin
    <2>3. CASE \E v \in ActiveAdmins : v # u
      BY <1>14, <2>3 DEF AnAdminRemains, ActiveAdmins
    <2> QED
      BY <2>1, <2>2, <2>3 DEF WriteIsSafe, u, x
  <1>19. SetUpFirst'
    BY <1>4, <1>14 DEF SetUpFirst
  <1>20. LockIsHeldToWrite' /\ WritesAreSafe'
    BY <1>9, <1>10, <1>11, <1>12, IdentityAssumption
       DEF LockIsHeldToWrite, WritesAreSafe, IdentityAssumption, Free
  <1>21. OutdatedAreIssued'
    BY <1>6 DEF IdentityInv, OutdatedAreIssued, SessionsOf
  <1>22. SessionsEndWithTheAccount'
    <2> SUFFICES ASSUME faults = 0, NEW s \in outdated', sessions[s].state = "open"
                 PROVE  /\ lock' # Free /\ requests'[lock'].at = "revoke"
                        /\ requests'[lock'].user = sessions[s].user
      BY <1>6 DEF SessionsEndWithTheAccount
    <2>1. s \notin outdated
      BY <1>2, <1>10 DEF IdentityInv, SessionsEndWithTheAccount
    <2>2. revokes /\ sessions[s].user = u
      BY <1>6, <2>1 DEF SessionsOf
    <2> QED
      BY <1>9, <1>10, <1>11, <2>2, IdentityAssumption DEF IdentityAssumption, Free
  <1> QED
    BY <1>15, <1>16, <1>17, <1>18, <1>19, <1>20, <1>21, <1>22, QuietUses, QuietLogins DEF IdentityInv

-----------------------------------------------------------------------------
(* The logins.                                                             *)

\* A login that ends after others may have fallen behind.
LEMMA LoginEnds ==
  ASSUME IdentityTypes, NEW l \in Logins, NEW ls \in [Logins -> LoginStates],
         \A k \in Logins : ls[k].at = "verified" /\ ls[k].fresh => ls[k] = logins[k],
         EndLogin(l, ls)
  PROVE  LoginsOK' /\ LoginsFallBehind
  BY VacantIsVacant DEF EndLogin, LoginsOK, LoginsFallBehind

LEMMA VerifyPasswordInv ==
  ASSUME IdentityInv, NEW l \in Logins, NEW u \in Users, NEW verified \in BOOLEAN,
         VerifyPassword(l, u, verified)
  PROVE  IdentityInv'
  <1> DEFINE x == [at |-> "verified", user |-> u, verified |-> verified,
                   fresh |-> TRUE, hash |-> TRUE, account |-> TRUE]
  <1>1. IdentityTypes
    BY DEF IdentityInv
  <1>2. x \in LoginStates /\ x.account
    BY DEF LoginStates
  <1>3. /\ logins' = [logins EXCEPT ![l] = x]
        /\ UNCHANGED <<mode, users, sessions, bound, transactions, lock, requests, callbacks, outdated, faults>>
    BY DEF VerifyPassword
  <1> HIDE DEF x
  <1>4. logins' \in [Logins -> LoginStates] /\ LoginsFallBehind
    BY <1>1, <1>2, <1>3 DEF IdentityTypes, LoginsOK, LoginsFallBehind
  <1>5. AccessKept /\ SessionsMoveOn /\ WritesKept /\ NobodyArrives /\ UsesKept
    BY <1>3, UnchangedParts, UsesStay, IdentityAssumption
  <1>6. IdentityTypes'
    BY <1>1, <1>3, <1>4
       DEF IdentityTypes, UsersOK, SessionsOK, BoundOK, RequestsOK, LoginsOK, CallbacksOK, TransactionsOK
  <1> QED
    BY <1>3, <1>4, <1>5, <1>6, QuietInv

LEMMA LoginReads ==
  ASSUME IdentityTypes, NEW l \in Logins, logins[l].at = "verified"
  PROVE  logins[l].user \in Users
  BY StateFacts DEF LoginStates, Vacant

LEMMA RecordFailedLoginInv ==
  ASSUME IdentityInv, NEW l \in Logins, RecordFailedLogin(l)
  PROVE  IdentityInv'
  <1> DEFINE u == logins[l].user
             failed == IF users[u].failed = MaxFailedLogins THEN MaxFailedLogins ELSE users[u].failed + 1
             locked == failed >= MaxFailedLogins
             ls == LoginsAfterWrite(u, FALSE, FALSE)
  <1>1. IdentityTypes
    BY DEF IdentityInv
  <1>2. /\ logins[l].at = "verified"
        /\ UNCHANGED <<mode, sessions, bound, transactions, lock, requests, callbacks, outdated, faults>>
    BY DEF RecordFailedLogin
  <1>3. u \in Users
    BY <1>1, <1>2, LoginReads
  <1>4. \/ /\ users[u].status = "active"
           /\ users' = [users EXCEPT ![u].failed = failed, ![u].locked = locked]
           /\ EndLogin(l, ls)
        \/ users' = users /\ EndLogin(l, logins)
    BY DEF RecordFailedLogin
  <1> HIDE DEF u, ls
  <1>5. LoginsOK' /\ LoginsFallBehind
    <2>1. CASE EndLogin(l, logins)
      BY <1>1, <2>1, LoginEnds DEF IdentityTypes, LoginsOK
    <2>2. CASE EndLogin(l, ls)
      BY <1>1, <2>2, WrittenLogins, LoginEnds DEF ls
    <2> QED
      BY <1>4, <2>1, <2>2
  <1>6. UsersOK' /\ AccessKept
    <2>1. CASE users' = users
      BY <1>1, <2>1, UnchangedParts DEF IdentityTypes, UsersOK
    <2>2. CASE /\ users[u].status = "active"
               /\ users' = [users EXCEPT ![u].failed = failed, ![u].locked = locked]
      <3>1. users[u] # NoUser /\ users[u] \in Accounts
        BY <1>1, <1>3, <2>2, StateFacts DEF NoUser
      <3>2. PICK a \in Accounts : a = users[u]
        BY <3>1
      <3>3. failed \in Nat
        BY <3>2, IdentityAssumption DEF Accounts, IdentityAssumption
      <3>4. PICK m \in Nat : m = failed
        BY <3>3
      <3>5. PICK b : b = locked
        OBVIOUS
      <3>9. b \in BOOLEAN
        BY <3>5
      <3> HIDE DEF failed, locked
      <3>6. PICK y : y = [a EXCEPT !.failed = m, !.locked = b]
        OBVIOUS
      <3>7. y \in Accounts /\ y.role = users[u].role /\ y.status = users[u].status
        BY <3>2, <3>6, <3>9 DEF Accounts
      <3>8. users' = [users EXCEPT ![u] = y]
        BY <1>1, <1>3, <2>2, <3>2, <3>4, <3>5, <3>6 DEF IdentityTypes, UsersOK
      <3> QED
        BY <1>1, <1>3, <3>1, <3>7, <3>8, AccountWritten
    <2> QED
      BY <1>4, <2>1, <2>2
  <1>7. SessionsMoveOn /\ WritesKept /\ NobodyArrives /\ UsesKept
    BY <1>2, UnchangedParts, UsesStay, IdentityAssumption
  <1>8. IdentityTypes'
    BY <1>1, <1>2, <1>5, <1>6
       DEF IdentityTypes, SessionsOK, BoundOK, RequestsOK, CallbacksOK, TransactionsOK
  <1> QED
    BY <1>2, <1>5, <1>6, <1>7, <1>8, QuietInv

\* What a login writes into the account it opens.
LEMMA AccountOpened ==
  ASSUME IdentityTypes, NEW u \in Users, users[u].status = "active",
         users' = [users EXCEPT ![u].failed = 0, ![u].locked = FALSE]
  PROVE  UsersOK' /\ AccessKept
  <1>1. users[u] # NoUser /\ users[u] \in Accounts
    BY StateFacts DEF NoUser
  <1>2. PICK a \in Accounts : a = users[u]
    BY <1>1
  <1>3. PICK y : y = [a EXCEPT !.failed = 0, !.locked = FALSE]
    OBVIOUS
  <1>4. y \in Accounts /\ y.role = users[u].role /\ y.status = users[u].status
    BY <1>2, <1>3 DEF Accounts
  <1>5. users' = [users EXCEPT ![u] = y]
    BY <1>2, <1>3 DEF IdentityTypes, UsersOK
  <1> QED
    BY <1>1, <1>4, <1>5, AccountWritten

LEMMA CompleteLoginInv ==
  ASSUME IdentityInv, NEW l \in Logins, NEW s \in Sessions, NEW rehash \in BOOLEAN,
         CompleteLogin(l, s, rehash)
  PROVE  IdentityInv'
  <1> DEFINE u == logins[l].user
             ls == LoginsAfterWrite(u, rehash, FALSE)
  <1>1. IdentityTypes
    BY DEF IdentityInv
  <1>2. /\ logins[l].at = "verified"
        /\ UNCHANGED <<mode, bound, transactions, lock, requests, callbacks, outdated, faults>>
    BY DEF CompleteLogin
  <1>3. u \in Users
    BY <1>1, <1>2, LoginReads
  <1>4. \/ /\ users[u].status = "active" /\ Issue(s, u, "password")
           /\ users' = [users EXCEPT ![u].failed = 0, ![u].locked = FALSE]
           /\ EndLogin(l, ls)
        \/ users' = users /\ sessions' = sessions /\ EndLogin(l, logins)
    BY DEF CompleteLogin, IsAsVerified
  <1> HIDE DEF u, ls
  <1>5. LoginsOK' /\ LoginsFallBehind
    <2>1. CASE EndLogin(l, logins)
      BY <1>1, <2>1, LoginEnds DEF IdentityTypes, LoginsOK
    <2>2. CASE EndLogin(l, ls)
      <3>1. /\ ls \in [Logins -> LoginStates]
            /\ \A k \in Logins : ls[k].at = "verified" /\ ls[k].fresh => ls[k] = logins[k]
        BY <1>1, WrittenLogins DEF ls
      <3>2. PICK z : z = ls
        OBVIOUS
      <3> QED
        BY <1>1, <2>2, <3>1, <3>2, LoginEnds
    <2> QED
      BY <1>4, <2>1, <2>2
  <1>6. UsersOK' /\ AccessKept
    BY <1>1, <1>3, <1>4, AccountOpened, UnchangedParts DEF IdentityTypes, UsersOK
  <1>7. SessionsOK' /\ SessionsMoveOn /\ NoneForATransaction
    <2>1. CASE Issue(s, u, "password")
      BY <1>1, <1>3, <2>1, SessionIssued
    <2>2. CASE sessions' = sessions
      BY <1>1, <2>2, UnchangedParts DEF IdentityTypes, SessionsOK
    <2> QED
      BY <1>4, <2>1, <2>2
  <1>8. WritesKept /\ NobodyArrives /\ UsesKept
    BY <1>2, <1>7, UnchangedParts, UsesStay, IdentityAssumption
  <1>9. RequestsOK'
    BY <1>1, <1>2, <1>7, RequestsStay
  <1>10. IdentityTypes'
    BY <1>1, <1>2, <1>5, <1>6, <1>7, <1>9 DEF IdentityTypes, BoundOK, CallbacksOK, TransactionsOK
  <1> QED
    BY <1>2, <1>5, <1>6, <1>7, <1>8, <1>10, QuietInv

-----------------------------------------------------------------------------
(* The OIDC logins.                                                        *)

\* What the steps of a callback, and those of a transaction, leave alone.
LEMMA CallbackSteps ==
  ASSUME IdentityInv, UNCHANGED <<users, sessions, bound, lock, requests, logins, outdated, faults>>,
         CallbacksOK', TransactionsOK'
  PROVE  /\ UsesKept => IdentityInv'
         /\ (\A t \in Transactions : UsedOnce(t)') => IdentityInv'
  <1>1. IdentityTypes
    BY DEF IdentityInv
  <1>2. IdentityTypes'
    BY <1>1 DEF IdentityTypes, UsersOK, SessionsOK, BoundOK, RequestsOK, LoginsOK
  <1>3. AccessKept /\ SessionsMoveOn /\ WritesKept /\ NobodyArrives /\ LoginsFallBehind
    BY UnchangedParts
  <1>4. SetUpFirst' /\ LockIsHeldToWrite' /\ WritesAreSafe' /\ AnAdminRemains'
        /\ OutdatedAreIssued' /\ SessionsEndWithTheAccount'
    BY <1>3, QuietSteps
  <1>5. FreshIsVerified'
    BY <1>3, QuietLogins
  <1> QED
    BY <1>2, <1>4, <1>5, QuietUses DEF IdentityInv

LEMMA TransactionStepInv ==
  ASSUME IdentityInv, NEW t \in Transactions, StartAuthorization(t) \/ TransactionExpires(t)
  PROVE  IdentityInv'
  <1>1. UNCHANGED <<users, sessions, bound, lock, requests, logins, callbacks, outdated, faults>>
    BY DEF StartAuthorization, TransactionExpires
  <1>2. CallbacksOK'
    BY <1>1 DEF IdentityInv, IdentityTypes, CallbacksOK
  <1>3. TransactionsOK'
    BY DEF StartAuthorization, TransactionExpires, IdentityInv, IdentityTypes, TransactionsOK
  <1>4. \A v \in Transactions :
          transactions[v] \notin {"absent", "open"} => transactions'[v] \notin {"absent", "open"}
    BY DEF StartAuthorization, TransactionExpires, IdentityInv, IdentityTypes, TransactionsOK
  <1>5. UsesKept
    BY <1>1, <1>4 DEF UsesKept, Uses, IssuedBy
  <1> QED
    BY <1>1, <1>2, <1>3, <1>5, CallbackSteps

LEMMA LookUpTransactionInv ==
  ASSUME IdentityInv, NEW c \in Callbacks, NEW t \in Transactions, LookUpTransaction(c, t)
  PROVE  IdentityInv'
  <1> DEFINE x == [at |-> "seen", transaction |-> t]
  <1>1. /\ callbacks' = [callbacks EXCEPT ![c] = x]
        /\ UNCHANGED <<users, sessions, bound, transactions, lock, requests, logins, outdated, faults>>
    BY DEF LookUpTransaction
  <1>2. x \in CallbackStates /\ x.at = "seen"
    BY DEF CallbackStates
  <1> HIDE DEF x
  <1>3. callbacks \in [Callbacks -> CallbackStates]
    BY DEF IdentityInv, IdentityTypes, CallbacksOK
  <1>4. CallbacksOK' /\ \A b \in Callbacks : callbacks'[b] = IF b = c THEN x ELSE callbacks[b]
    BY <1>1, <1>2, <1>3 DEF CallbacksOK
  <1>5. UsesKept
    BY <1>1, <1>2, <1>4 DEF UsesKept, Uses, IssuedBy
  <1>6. TransactionsOK'
    BY <1>1 DEF IdentityInv, IdentityTypes, TransactionsOK
  <1> QED
    BY <1>1, <1>4, <1>5, <1>6, CallbackSteps

LEMMA ConsumeTransactionInv ==
  ASSUME IdentityInv, NEW c \in Callbacks, ConsumeTransaction(c)
  PROVE  IdentityInv'
  <1> DEFINE t == callbacks[c].transaction
  <1>1. /\ callbacks[c].at = "seen"
        /\ UNCHANGED <<users, sessions, bound, lock, requests, logins, outdated, faults>>
    BY DEF ConsumeTransaction
  <1>2. /\ callbacks \in [Callbacks -> CallbackStates]
        /\ transactions \in [Transactions -> {"absent", "open", "consumed", "expired", "deleted"}]
    BY DEF IdentityInv, IdentityTypes, CallbacksOK, TransactionsOK
  <1>3. PICK q \in [at : {"seen", "consumed"}, transaction : Transactions] : q = callbacks[c]
    BY <1>1, <1>2 DEF CallbackStates, Vacant
  <1>4. t \in Transactions /\ q.transaction = t
    BY <1>3
  <1>5. PICK x : x = [q EXCEPT !.at = "consumed"]
    OBVIOUS
  <1>6. x \in CallbackStates /\ x.at = "consumed" /\ x.transaction = q.transaction
    BY <1>5 DEF CallbackStates
  <1>7. \/ /\ transactions[t] = "open"
           /\ transactions' = [transactions EXCEPT ![t] = "consumed"]
           /\ callbacks' = [callbacks EXCEPT ![c] = x]
        \/ transactions' = transactions /\ callbacks' = [callbacks EXCEPT ![c] = Vacant]
    BY <1>2, <1>3, <1>5 DEF ConsumeTransaction
  <1> HIDE DEF t
  <1>8. CASE transactions' = transactions /\ callbacks' = [callbacks EXCEPT ![c] = Vacant]
    <2>1. CallbacksOK' /\ \A b \in Callbacks : callbacks'[b] = IF b = c THEN Vacant ELSE callbacks[b]
      BY <1>2, <1>8, VacantIsVacant DEF CallbacksOK
    <2>2. UsesKept
      BY <1>1, <1>8, <2>1, VacantIsVacant DEF UsesKept, Uses, IssuedBy
    <2> QED
      BY <1>1, <1>2, <1>8, <2>1, <2>2, CallbackSteps DEF TransactionsOK
  <1>9. CASE /\ transactions[t] = "open"
             /\ transactions' = [transactions EXCEPT ![t] = "consumed"]
             /\ callbacks' = [callbacks EXCEPT ![c] = x]
    <2>1. CallbacksOK' /\ \A b \in Callbacks : callbacks'[b] = IF b = c THEN x ELSE callbacks[b]
      BY <1>2, <1>6, <1>9 DEF CallbacksOK
    <2>2. TransactionsOK' /\ \A v \in Transactions :
            transactions'[v] = IF v = t THEN "consumed" ELSE transactions[v]
      BY <1>2, <1>9 DEF TransactionsOK
    <2>3. ASSUME NEW v \in Transactions
          PROVE  UsedOnce(v)'
      <3>1. UsedOnce(v)
        BY DEF IdentityInv
      <3>2. \A s \in Sessions : IssuedBy(s, v)' <=> IssuedBy(s, v)
        BY <1>1 DEF IssuedBy
      <3>3. \A b \in Callbacks : Uses(b, v)' <=> (b = c /\ v = t) \/ Uses(b, v)
        BY <1>1, <1>3, <1>4, <1>6, <2>1 DEF Uses
      <3>4. CASE v = t
        <4>1. (\A b \in Callbacks : ~Uses(b, v)) /\ (\A s \in Sessions : ~IssuedBy(s, v))
          BY <1>9, <3>1, <3>4 DEF UsedOnce
        <4>2. transactions'[v] = "consumed"
          BY <2>2, <3>4
        <4> QED
          BY <3>2, <3>3, <4>1, <4>2 DEF UsedOnce
      <3>5. CASE v # t
        <4>1. transactions'[v] = transactions[v]
          BY <2>2, <3>5
        <4>2. \A b \in Callbacks : Uses(b, v)' <=> Uses(b, v)
          BY <3>3, <3>5
        <4> QED
          BY <3>1, <3>2, <4>1, <4>2 DEF UsedOnce
      <3> QED
        BY <3>4, <3>5
    <2> QED
      BY <1>1, <2>1, <2>2, <2>3, CallbackSteps
  <1> QED
    BY <1>7, <1>8, <1>9

LEMMA LeavesCallbackInv ==
  ASSUME IdentityInv, NEW c \in Callbacks,
         AbandonCallback(c) \/ \E subject \in Users : ReadIdentity(c, subject)
  PROVE  IdentityInv'
  <1>1. /\ callbacks[c].at = "consumed"
        /\ UNCHANGED <<users, sessions, bound, transactions, lock, requests, logins, outdated, faults>>
    BY DEF AbandonCallback, ReadIdentity
  <1>2. callbacks \in [Callbacks -> CallbackStates]
    BY DEF IdentityInv, IdentityTypes, CallbacksOK
  <1>3. PICK q \in [at : {"seen", "consumed"}, transaction : Transactions] : q = callbacks[c]
    BY <1>1, <1>2 DEF CallbackStates, Vacant
  <1>8. PICK x : x = callbacks'[c]
    OBVIOUS
  <1>4. /\ x \in CallbackStates /\ callbacks' = [callbacks EXCEPT ![c] = x]
        /\ x = Vacant \/ (x.at = "identity" /\ x.transaction = q.transaction)
    <2>1. CASE callbacks' = [callbacks EXCEPT ![c] = Vacant]
      <3>1. x = Vacant
        BY <1>2, <1>8, <2>1
      <3> QED
        BY <2>1, <3>1, VacantIsVacant
    <2>2. ASSUME NEW u \in Users,
                 callbacks' = [callbacks EXCEPT ![c] =
                   [at |-> "identity", transaction |-> q.transaction, user |-> u]]
          PROVE  /\ x \in CallbackStates /\ callbacks' = [callbacks EXCEPT ![c] = x]
                 /\ x.at = "identity" /\ x.transaction = q.transaction
      <3>1. PICK y : y = [at |-> "identity", transaction |-> q.transaction, user |-> u]
        OBVIOUS
      <3>2. y \in CallbackStates /\ y.at = "identity" /\ y.transaction = q.transaction
        BY <3>1 DEF CallbackStates
      <3> QED
        BY <1>2, <1>8, <2>2, <3>1, <3>2
    <2>3. \/ callbacks' = [callbacks EXCEPT ![c] = Vacant]
          \/ \E u \in Users : callbacks' = [callbacks EXCEPT ![c] =
               [at |-> "identity", transaction |-> q.transaction, user |-> u]]
      <3>1. CASE AbandonCallback(c)
        BY <3>1, Zenon DEF AbandonCallback
      <3>2. ASSUME NEW subject \in Users, ReadIdentity(c, subject)
            PROVE  \/ callbacks' = [callbacks EXCEPT ![c] = Vacant]
                   \/ \E u \in Users : callbacks' = [callbacks EXCEPT ![c] =
                        [at |-> "identity", transaction |-> q.transaction, user |-> u]]
        BY <1>2, <1>3, <3>2 DEF ReadIdentity
      <3> QED
        BY <3>1, <3>2
    <2> QED
      BY <2>1, <2>2, <2>3
  <1>5. CallbacksOK' /\ \A b \in Callbacks : callbacks'[b] = IF b = c THEN x ELSE callbacks[b]
    BY <1>2, <1>4 DEF CallbacksOK
  <1>6. UsesKept
    BY <1>1, <1>3, <1>4, <1>5, VacantIsVacant DEF UsesKept, Uses, IssuedBy
  <1>7. TransactionsOK'
    BY <1>1 DEF IdentityInv, IdentityTypes, TransactionsOK
  <1> QED
    BY <1>1, <1>5, <1>6, <1>7, CallbackSteps

LEMMA CompleteOidcLoginInv ==
  ASSUME IdentityInv, NEW c \in Callbacks, NEW s \in Sessions, CompleteOidcLogin(c, s)
  PROVE  IdentityInv'
  <1> DEFINE u == callbacks[c].user
             t == callbacks[c].transaction
             ls == LoginsAfterWrite(u, FALSE, FALSE)
  <1>1. IdentityTypes
    BY DEF IdentityInv
  <1>2. /\ callbacks[c].at = "identity" /\ callbacks' = [callbacks EXCEPT ![c] = Vacant]
        /\ UNCHANGED <<mode, bound, transactions, lock, requests, outdated, faults>>
    BY DEF CompleteOidcLogin
  <1>3. u \in Users /\ t \in Transactions
    BY <1>1, <1>2, StateFacts DEF CallbackStates, Vacant
  <1>4. \/ /\ users[u].status = "active" /\ Issue(s, u, t)
           /\ users' = [users EXCEPT ![u].failed = 0, ![u].locked = FALSE]
           /\ logins' = ls
        \/ users' = users /\ sessions' = sessions /\ logins' = logins
    BY DEF CompleteOidcLogin
  <1> HIDE DEF u, t, ls
  <1>5. LoginsOK' /\ LoginsFallBehind
    <2>1. /\ ls \in [Logins -> LoginStates]
          /\ \A k \in Logins : ls[k].at = "verified" /\ ls[k].fresh => ls[k] = logins[k]
      BY <1>1, WrittenLogins DEF ls
    <2>2. CASE logins' = logins
      BY <1>1, <2>2, UnchangedParts DEF IdentityTypes, LoginsOK
    <2>3. CASE logins' = ls
      BY <2>1, <2>3 DEF LoginsOK, LoginsFallBehind
    <2> QED
      BY <1>4, <2>2, <2>3
  <1>6. UsersOK' /\ AccessKept
    BY <1>1, <1>3, <1>4, AccountOpened, UnchangedParts DEF IdentityTypes, UsersOK
  <1>7. SessionsOK' /\ SessionsMoveOn
    <2>1. CASE Issue(s, u, t)
      BY <1>1, <1>3, <2>1, SessionIssued
    <2>2. CASE sessions' = sessions
      BY <1>1, <2>2, UnchangedParts DEF IdentityTypes, SessionsOK
    <2> QED
      BY <1>4, <2>1, <2>2
  <1>8. WritesKept /\ NobodyArrives
    BY <1>2, UnchangedParts
  <1>9. RequestsOK'
    BY <1>1, <1>2, <1>7, RequestsStay
  <1>10. CallbacksOK' /\ \A b \in Callbacks : callbacks'[b] = IF b = c THEN Vacant ELSE callbacks[b]
    BY <1>1, <1>2, VacantIsVacant DEF IdentityTypes, CallbacksOK
  <1>11. IdentityTypes'
    BY <1>1, <1>2, <1>5, <1>6, <1>7, <1>9, <1>10 DEF IdentityTypes, BoundOK, TransactionsOK
  <1>12. /\ SetUpFirst' /\ LockIsHeldToWrite' /\ WritesAreSafe' /\ AnAdminRemains'
         /\ OutdatedAreIssued' /\ SessionsEndWithTheAccount' /\ FreshIsVerified'
    BY <1>2, <1>5, <1>6, <1>7, <1>8, QuietSteps, QuietLogins
  <1>13. ASSUME NEW v \in Transactions
         PROVE  UsedOnce(v)'
    <2>1. UsedOnce(v) /\ UsedOnce(t)
      BY <1>3 DEF IdentityInv
    <2>2. transactions'[v] = transactions[v]
      BY <1>2
    <2>3. \A b \in Callbacks : Uses(b, v)' <=> b # c /\ Uses(b, v)
      BY <1>10, VacantIsVacant DEF Uses
    <2>4. Uses(c, t)
      BY <1>2 DEF Uses, t
    <2>5. CASE sessions' = sessions
      <3>1. \A n \in Sessions : IssuedBy(n, v)' <=> IssuedBy(n, v)
        BY <2>5 DEF IssuedBy
      <3> QED
        BY <2>1, <2>2, <2>3, <3>1 DEF UsedOnce
    <2>6. CASE Issue(s, u, t)
      <3>1. \A n \in Sessions : IssuedBy(n, v)' <=> (n = s /\ v = t) \/ (n # s /\ IssuedBy(n, v))
        BY <1>1, <1>3, <2>6, IssuedSession DEF IssuedBy
      <3>2. CASE v = t
        <4>1. \A b \in Callbacks : ~Uses(b, v)'
          BY <2>1, <2>3, <2>4, <3>2 DEF UsedOnce
        <4>2. \A n \in Sessions : ~IssuedBy(n, v)
          BY <2>1, <2>4, <3>2 DEF UsedOnce
        <4>3. transactions'[v] \notin {"absent", "open"}
          BY <2>1, <2>2, <2>4, <3>2 DEF UsedOnce
        <4> QED
          BY <3>1, <4>1, <4>2, <4>3 DEF UsedOnce
      <3>3. CASE v # t
        BY <2>1, <2>2, <2>3, <3>1, <3>3 DEF UsedOnce
      <3> QED
        BY <3>2, <3>3
    <2> QED
      BY <1>4, <2>5, <2>6
  <1> QED
    BY <1>11, <1>12, <1>13 DEF IdentityInv

-----------------------------------------------------------------------------
(* Time and restarts, and every step.                                      *)

LEMMA LockExpiresInv ==
  ASSUME IdentityInv, NEW u \in Users, LockExpires(u)
  PROVE  IdentityInv'
  <1>1. IdentityTypes
    BY DEF IdentityInv
  <1>2. /\ users[u] # NoUser /\ users' = [users EXCEPT ![u].locked = FALSE]
        /\ UNCHANGED <<mode, sessions, bound, transactions, lock, logins, callbacks, outdated, faults>>
    BY DEF LockExpires
  <1>3. UsersOK' /\ AccessKept
    <2>1. PICK a \in Accounts : a = users[u]
      BY <1>1, <1>2, StateFacts
    <2>2. PICK y : y = [a EXCEPT !.locked = FALSE]
      OBVIOUS
    <2>3. y \in Accounts /\ y.role = users[u].role /\ y.status = users[u].status
      BY <2>1, <2>2 DEF Accounts
    <2>4. users' = [users EXCEPT ![u] = y]
      BY <1>1, <1>2, <2>1, <2>2 DEF IdentityTypes, UsersOK
    <2> QED
      BY <1>1, <1>2, <2>3, <2>4, AccountWritten
  <1>4. ASSUME NEW r \in Requests
        PROVE  /\ requests'[r] \in RequestStates /\ requests'[r].at = requests[r].at
               /\ requests[r].at = "session" => requests'[r] = requests[r]
               /\ requests[r].at \in {"write", "revoke"} =>
                    /\ requests'[r].user = requests[r].user
                    /\ requests'[r].row.role = requests[r].row.role
                    /\ requests'[r].row.status = requests[r].row.status
    <2>1. CASE requests[r].at = "write" /\ requests[r].user = u
      <3>1. PICK q \in [at : {"write", "revoke"}, user : Users, row : Accounts, password : BOOLEAN] :
              q = requests[r]
        BY <1>1, <2>1, StateFacts DEF RequestStates, Vacant
      <3>2. PICK a \in Accounts : a = q.row
        OBVIOUS
      <3>3. PICK b : b = [a EXCEPT !.locked = FALSE]
        OBVIOUS
      <3>4. b \in Accounts /\ b.role = a.role /\ b.status = a.status
        BY <3>3 DEF Accounts
      <3>5. PICK n : n = [q EXCEPT !.row = b]
        OBVIOUS
      <3>6. /\ n \in [at : {"write", "revoke"}, user : Users, row : Accounts, password : BOOLEAN]
            /\ n.at = q.at /\ n.user = q.user /\ n.row = b
        BY <3>4, <3>5
      <3>7. requests'[r] = n
        BY <2>1, <3>1, <3>2, <3>3, <3>5 DEF LockExpires
      <3>8. n \in RequestStates
        BY <3>6 DEF RequestStates
      <3> QED
        BY <2>1, <3>1, <3>2, <3>4, <3>6, <3>7, <3>8
    <2>2. CASE ~(requests[r].at = "write" /\ requests[r].user = u)
      <3>1. requests'[r] = requests[r]
        BY <2>2 DEF LockExpires
      <3> QED
        BY <1>1, <3>1, StateFacts
    <2> QED
      BY <2>1, <2>2
  <1>5. requests' \in [Requests -> RequestStates]
    BY <1>4 DEF LockExpires
  <1>6. RequestsOK'
    BY <1>1, <1>2, <1>4, <1>5 DEF IdentityTypes, RequestsOK
  <1>7. WritesKept /\ NobodyArrives
    BY <1>2, <1>4 DEF WritesKept, NobodyArrives
  <1>8. SessionsMoveOn /\ UsesKept /\ LoginsFallBehind
    BY <1>2, UnchangedParts, UsesStay, IdentityAssumption
  <1>9. IdentityTypes'
    BY <1>1, <1>2, <1>3, <1>6
       DEF IdentityTypes, SessionsOK, BoundOK, LoginsOK, CallbacksOK, TransactionsOK
  <1> QED
    BY <1>2, <1>3, <1>7, <1>8, <1>9, QuietInv

LEMMA RestartInv ==
  ASSUME IdentityInv, NEW next, Restart(next)
  PROVE  IdentityInv'
  <1>1. IdentityTypes
    BY DEF IdentityInv
  <1>2. /\ lock' = Free /\ faults' = faults + 1
        /\ requests' = [r \in Requests |-> Vacant] /\ logins' = [l \in Logins |-> Vacant]
        /\ callbacks' = [c \in Callbacks |-> Vacant]
        /\ UNCHANGED <<users, sessions, bound, transactions, outdated>>
    BY DEF Restart, Fault
  <1>3. faults' \in Nat /\ faults' # 0
    BY <1>1, <1>2 DEF IdentityTypes
  <1>4. IdentityTypes'
    BY <1>1, <1>2, <1>3, VacantIsVacant
       DEF IdentityTypes, UsersOK, SessionsOK, BoundOK, RequestsOK, LoginsOK, CallbacksOK, TransactionsOK
  <1>5. AccessKept /\ SessionsMoveOn
    BY <1>2, UnchangedParts
  <1>6. AnAdminRemains'
    BY <1>2 DEF IdentityInv, AnAdminRemains, ActiveAdmins
  <1>7. SetUpFirst' /\ LockIsHeldToWrite' /\ WritesAreSafe'
    BY <1>2, VacantIsVacant, IdentityAssumption
       DEF SetUpFirst, LockIsHeldToWrite, WritesAreSafe, IdentityAssumption, Free
  <1>8. OutdatedAreIssued' /\ SessionsEndWithTheAccount'
    BY <1>2, <1>3 DEF IdentityInv, OutdatedAreIssued, SessionsEndWithTheAccount
  <1>9. UsesKept /\ LoginsFallBehind
    BY <1>2, VacantIsVacant DEF UsesKept, Uses, IssuedBy, LoginsFallBehind
  <1> QED
    BY <1>4, <1>6, <1>7, <1>8, <1>9, QuietUses, QuietLogins DEF IdentityInv

LEMMA IdentityStep ==
  ASSUME IdentityInv, [IdentityNext]_identityVars
  PROVE  IdentityInv'
  <1>1. ASSUME NEW r \in Requests, NEW u \in Users, Setup(u, r) \/ RevokeSessions(r, u) \/ BeginPassword(r, u)
        PROVE  IdentityInv'
    BY <1>1, SetupInv, RevokeSessionsInv, BeginPasswordInv
  <1>2. ASSUME NEW r \in Requests, NEW u \in Users, NEW subject \in Users, BindIdentity(r, u, subject)
        PROVE  IdentityInv'
    BY <1>2, BindIdentityInv
  <1>3. ASSUME NEW r \in Requests, NEW u \in Users, NEW role \in Roles, CreateUser(r, u, role)
        PROVE  IdentityInv'
    BY <1>3, CreateUserInv
  <1>4. ASSUME NEW r \in Requests, NEW u \in Users, NEW role \in Roles,
               NEW status \in {"active", "disabled"}, BeginUpdate(r, u, role, status)
        PROVE  IdentityInv'
    BY <1>4, BeginUpdateInv
  <1>5. ASSUME NEW r \in Requests, NEW s \in Sessions, IssueSetupSession(r, s) \/ ReadSession(r, s)
        PROVE  IdentityInv'
    BY <1>5, IssueSetupSessionInv, ReadSessionInv
  <1>6. ASSUME NEW r \in Requests, ReadUser(r) \/ WriteUser(r) \/ RevokeAfterWrite(r)
        PROVE  IdentityInv'
    BY <1>6, ReadUserInv, WriteUserInv, RevokeAfterWriteInv
  <1>7. ASSUME NEW l \in Logins, NEW u \in Users, NEW verified \in BOOLEAN, VerifyPassword(l, u, verified)
        PROVE  IdentityInv'
    BY <1>7, VerifyPasswordInv
  <1>8. ASSUME NEW l \in Logins, RecordFailedLogin(l)
        PROVE  IdentityInv'
    BY <1>8, RecordFailedLoginInv
  <1>9. ASSUME NEW l \in Logins, NEW s \in Sessions, NEW rehash \in BOOLEAN, CompleteLogin(l, s, rehash)
        PROVE  IdentityInv'
    BY <1>9, CompleteLoginInv
  <1>10. ASSUME NEW t \in Transactions, StartAuthorization(t) \/ TransactionExpires(t)
         PROVE  IdentityInv'
    BY <1>10, TransactionStepInv
  <1>11. ASSUME NEW c \in Callbacks, NEW t \in Transactions, LookUpTransaction(c, t)
         PROVE  IdentityInv'
    BY <1>11, LookUpTransactionInv
  <1>12. ASSUME NEW c \in Callbacks,
                ConsumeTransaction(c) \/ AbandonCallback(c) \/ \E subject \in Users : ReadIdentity(c, subject)
         PROVE  IdentityInv'
    BY <1>12, ConsumeTransactionInv, LeavesCallbackInv
  <1>13. ASSUME NEW c \in Callbacks, NEW s \in Sessions, CompleteOidcLogin(c, s)
         PROVE  IdentityInv'
    BY <1>13, CompleteOidcLoginInv
  <1>14. ASSUME NEW u \in Users, LockExpires(u)
         PROVE  IdentityInv'
    BY <1>14, LockExpiresInv
  <1>15. ASSUME NEW s \in Sessions, Logout(s) \/ SessionExpires(s)
         PROVE  IdentityInv'
    BY <1>15, SessionEndsInv
  <1>16. ASSUME NEW next, Restart(next)
         PROVE  IdentityInv'
    BY <1>16, RestartInv
  <1>17. CASE UNCHANGED identityVars
    <2>1. IdentityTypes'
      BY <1>17
         DEF IdentityInv, IdentityTypes, UsersOK, SessionsOK, BoundOK, RequestsOK, LoginsOK, CallbacksOK,
             TransactionsOK, identityVars
    <2> QED
      BY <1>17, <2>1, UnchangedParts, UsesStay, QuietInv, IdentityAssumption DEF identityVars
  <1> QED
    BY <1>1, <1>2, <1>3, <1>4, <1>5, <1>6, <1>7, <1>8, <1>9, <1>10, <1>11, <1>12, <1>13, <1>14,
       <1>15, <1>16, <1>17
       DEF IdentityNext, Roles

LEMMA IdentityBegins ==
  ASSUME IdentityInit
  PROVE  IdentityInv
  <1>1. NoUser.status = "absent" /\ NoSession.state = "absent"
    BY DEF NoUser, NoSession
  <1>2. IdentityTypes
    BY VacantIsVacant
       DEF IdentityInit, IdentityTypes, UsersOK, SessionsOK, BoundOK, RequestsOK, LoginsOK,
           CallbacksOK, TransactionsOK
  <1>3. SetUpFirst /\ LockIsHeldToWrite /\ WritesAreSafe
    BY VacantIsVacant, IdentityAssumption
       DEF IdentityInit, SetUpFirst, LockIsHeldToWrite, WritesAreSafe, IdentityAssumption, Free
  <1>4. AnAdminRemains /\ OutdatedAreIssued /\ SessionsEndWithTheAccount
    BY DEF IdentityInit, AnAdminRemains, OutdatedAreIssued, SessionsEndWithTheAccount
  <1>5. \A t \in Transactions : UsedOnce(t)
    BY VacantIsVacant DEF IdentityInit, UsedOnce, Uses, IssuedBy
  <1>6. FreshIsVerified
    BY VacantIsVacant DEF IdentityInit, FreshIsVerified
  <1> QED
    BY <1>2, <1>3, <1>4, <1>5, <1>6 DEF IdentityInv

\* Whoever holds the business lock writes from an account nobody else writes;
\* a transaction has one user; a login with the current row has the account
\* that it verified.
THEOREM IdentityInvariance == IdentitySpec => []IdentityInv
  <1>1. IdentityInit => IdentityInv
    BY IdentityBegins
  <1>2. IdentityInv /\ [IdentityNext]_identityVars => IdentityInv'
    BY IdentityStep
  <1> QED
    BY <1>1, <1>2, PTL DEF IdentitySpec

\* update_user and the check of the last administrator, under the business
\* lock: once set up, the platform has an active administrator for ever.
THEOREM AdminRemains == IdentitySpec => []AnAdminRemains
  <1>1. IdentityInv => AnAdminRemains
    BY DEF IdentityInv
  <1> QED
    BY <1>1, IdentityInvariance, PTL

\* A change of an account revokes its sessions before the lock is released,
\* and one authorisation logs in at most once (consume_oidc_transaction).
THEOREM SessionsStayDue == IdentitySpec => []SessionsAreDue
  <1>1. IdentityInv => SessionsAreDue
    <2> SUFFICES ASSUME IdentityInv
                 PROVE  OneSessionPerTransaction
      BY DEF IdentityInv, SessionsAreDue
    <2>1. \A t \in Transactions : UsedOnce(t)
      BY DEF IdentityInv
    <2> QED
      BY <2>1 DEF OneSessionPerTransaction, UsedOnce, IssuedBy
  <1> QED
    BY <1>1, IdentityInvariance, PTL

\* No other step issues a session for a password.
LEMMA PasswordSessions ==
  ASSUME IdentityInv, [IdentityNext]_identityVars, NEW s \in Sessions,
         sessions[s] = NoSession, sessions'[s] # NoSession, sessions'[s].by = "password"
  PROVE  \E l \in Logins, rehash \in BOOLEAN : CompleteLogin(l, s, rehash) /\ sessions' # sessions
  <1>1. IdentityTypes
    BY DEF IdentityInv
  <1>2. sessions' # sessions
    OBVIOUS
  <1>3. ASSUME NEW S, sessions' = Revoked(S)
        PROVE  FALSE
    BY <1>1, <1>3, RevokedSessions
  <1>4. ASSUME NEW n \in Sessions, NEW u \in Users,
               NEW by \in {"setup"} \cup Transactions, Issue(n, u, by)
        PROVE  FALSE
    BY <1>1, <1>4, IssuedSession, IdentityAssumption DEF IdentityAssumption
  <1>5. ~(\E n \in Sessions : Logout(n)) /\ ~(\E r \in Requests, u \in Users : RevokeSessions(r, u))
        /\ ~(\E r \in Requests : ReadUser(r) \/ RevokeAfterWrite(r))
    BY <1>2, <1>3 DEF Logout, RevokeSessions, ReadUser, RevokeAfterWrite
  <1>6. ~(\E n \in Sessions : SessionExpires(n))
    BY <1>1 DEF SessionExpires, IdentityTypes, SessionsOK, NoSession
  <1>7. ASSUME NEW r \in Requests, NEW n \in Sessions, IssueSetupSession(r, n)
        PROVE  FALSE
    <2>1. requests[r].actor \in Users
      BY <1>1, <1>7, StateFacts DEF IssueSetupSession, RequestStates, Vacant
    <2> QED
      BY <1>4, <1>7, <2>1 DEF IssueSetupSession
  <1>8. ASSUME NEW c \in Callbacks, NEW n \in Sessions, CompleteOidcLogin(c, n)
        PROVE  FALSE
    <2>1. callbacks[c].user \in Users /\ callbacks[c].transaction \in Transactions
      BY <1>1, <1>8, StateFacts DEF CompleteOidcLogin, CallbackStates, Vacant
    <2> QED
      BY <1>2, <1>4, <1>8, <2>1 DEF CompleteOidcLogin
  <1>9. PICK l \in Logins, n \in Sessions, rehash \in BOOLEAN : CompleteLogin(l, n, rehash)
    <2>1. IdentityNext
      BY <1>2 DEF identityVars
    <2>2. ~(\E r \in Requests, u \in Users : Setup(u, r) \/ BeginPassword(r, u))
      BY <1>2 DEF Setup, BeginPassword
    <2>3. ~(\E r \in Requests, u, subject \in Users : BindIdentity(r, u, subject))
      BY <1>2 DEF BindIdentity
    <2>4. ~(\E r \in Requests, u \in Users, role \in {"system_admin", "member"} :
              CreateUser(r, u, role) \/ \E status \in {"active", "disabled"} : BeginUpdate(r, u, role, status))
      BY <1>2 DEF CreateUser, BeginUpdate
    <2>5. ~(\E r \in Requests : WriteUser(r) \/ \E n \in Sessions : ReadSession(r, n))
      BY <1>2 DEF WriteUser, ReadSession
    <2>6. ~(\E l \in Logins : RecordFailedLogin(l)
              \/ \E u \in Users, verified \in BOOLEAN : VerifyPassword(l, u, verified))
      BY <1>2 DEF RecordFailedLogin, VerifyPassword
    <2>7. ~(\E t \in Transactions : StartAuthorization(t) \/ TransactionExpires(t))
      BY <1>2 DEF StartAuthorization, TransactionExpires
    <2>8. ~(\E c \in Callbacks : ConsumeTransaction(c) \/ AbandonCallback(c)
              \/ (\E t \in Transactions : LookUpTransaction(c, t))
              \/ (\E subject \in Users : ReadIdentity(c, subject)))
      BY <1>2 DEF ConsumeTransaction, AbandonCallback, LookUpTransaction, ReadIdentity
    <2>9. /\ ~(\E u \in Users : LockExpires(u))
          /\ ~(\E next \in {"local_accounts", "keycloak_local_container"} : Restart(next))
      BY <1>2 DEF LockExpires, Restart
    <2> QED
      BY <1>5, <1>6, <1>7, <1>8, <2>1, <2>2, <2>3, <2>4, <2>5, <2>6, <2>7, <2>8, <2>9
         DEF IdentityNext
  <1>10. n = s
    <2>1. Issue(n, logins[l].user, "password")
      BY <1>2, <1>9 DEF CompleteLogin
    <2> QED
      BY <1>1, <2>1 DEF Issue, IdentityTypes, SessionsOK
  <1> QED
    BY <1>2, <1>9, <1>10

\* complete_login compares the row it verified with the one it locks: the
\* session is for the account as it was verified.
THEOREM LoginsStayCurrent == IdentitySpec => LoginsAreCurrent
  <1> DEFINE Current ==
        \A s \in Sessions :
          sessions[s] = NoSession /\ sessions'[s] # NoSession /\ sessions'[s].by = "password" =>
            /\ \E l \in Logins :
                 /\ logins[l] # Vacant /\ logins'[l] = Vacant
                 /\ logins[l].verified /\ logins[l].account /\ logins[l].user = sessions'[s].user
            /\ users[sessions'[s].user].status = "active"
            /\ ~users[sessions'[s].user].locked
  <1>1. ASSUME IdentityInv, [IdentityNext]_identityVars
        PROVE  Current
    <2> SUFFICES ASSUME NEW s \in Sessions, sessions[s] = NoSession, sessions'[s] # NoSession,
                        sessions'[s].by = "password"
                 PROVE  /\ \E l \in Logins :
                             /\ logins[l] # Vacant /\ logins'[l] = Vacant
                             /\ logins[l].verified /\ logins[l].account
                             /\ logins[l].user = sessions'[s].user
                        /\ users[sessions'[s].user].status = "active"
                        /\ ~users[sessions'[s].user].locked
      OBVIOUS
    <2>1. PICK l \in Logins, rehash \in BOOLEAN : CompleteLogin(l, s, rehash) /\ sessions' # sessions
      BY <1>1, PasswordSessions
    <2>2. /\ logins[l].at = "verified" /\ logins[l].verified /\ IsAsVerified(l)
          /\ Issue(s, logins[l].user, "password")
          /\ EndLogin(l, LoginsAfterWrite(logins[l].user, rehash, FALSE))
      BY <2>1 DEF CompleteLogin
    <2>3. sessions'[s].user = logins[l].user
      BY <1>1, <2>2, IssuedSession, LoginReads DEF IdentityInv
    <2>4. logins[l].account
      BY <1>1, <2>2 DEF IdentityInv, FreshIsVerified, IsAsVerified
    <2>5. logins[l] # Vacant /\ logins'[l] = Vacant
      BY <2>2, VacantIsVacant DEF EndLogin, LoginsAfterWrite
    <2> QED
      BY <2>2, <2>3, <2>4, <2>5 DEF IsAsVerified
  <1>2. IdentitySpec => [][Current]_identityVars
    BY <1>1, IdentityInvariance, PTL DEF IdentitySpec
  <1> QED
    BY <1>2 DEF LoginsAreCurrent

=============================================================================
