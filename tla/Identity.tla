------------------------------ MODULE Identity ------------------------------
(***************************************************************************)
(* Accounts, password logins, OIDC logins and the sessions they issue.     *)
(*                                                                         *)
(* Administration holds the business lock from reading an account to       *)
(* revoking its sessions; a login verifies the password (slow) without it, *)
(* and its transaction compares the account with what was verified.  The   *)
(* identity provider is external: a callback brings any subject, or fails. *)
(* A password hash is salted, so that every write of it is a change, and   *)
(* updated_at changes with every write of the row.                         *)
(***************************************************************************)
EXTENDS Naturals, FiniteSets, Faults

CONSTANTS
  Users,             \* also the subjects: each may be bound to one user
  Sessions, Requests, Logins,
  Callbacks,         \* OIDC callbacks under way
  Transactions,      \* OIDC login transactions
  MaxFailedLogins

ASSUME IdentityAssumption ==
  /\ MaxFailedLogins \in Nat \ {0}
  /\ IsFiniteSet(Users)
  /\ "none" \notin Users
  /\ "free" \notin Requests
  /\ {"setup", "password"} \cap Transactions = {}

VARIABLES
  mode,              \* auth_runtime_mode of the process
  users, sessions,
  bound,             \* of each subject: its user
  transactions,
  lock,              \* the request that holds the business lock
  requests, logins, callbacks,
  outdated           \* history: sessions whose account has changed since

identityVars ==
  <<mode, users, sessions, bound, transactions, lock, requests, logins, callbacks, outdated, faults>>

NoUser == [status |-> "absent"]
NoSession == [state |-> "absent"]
Vacant == [at |-> "vacant"]
Free == "free"

IdentityInit ==
  /\ mode \in {"local_accounts", "keycloak_local_container"}
  /\ users = [u \in Users |-> NoUser]
  /\ sessions = [s \in Sessions |-> NoSession]
  /\ bound = [u \in Users |-> "none"]
  /\ transactions = [t \in Transactions |-> "absent"]
  /\ lock = Free
  /\ requests = [r \in Requests |-> Vacant]
  /\ logins = [l \in Logins |-> Vacant]
  /\ callbacks = [c \in Callbacks |-> Vacant]
  /\ outdated = {} /\ faults = 0

ActiveAdmins ==
  {u \in Users : users[u].status = "active" /\ users[u].role = "system_admin"}

NewUser(role) == [role |-> role, status |-> "active", failed |-> 0, locked |-> FALSE]

Issue(s, u, by) ==
  /\ sessions[s] = NoSession
  /\ sessions' = [sessions EXCEPT ![s] = [state |-> "open", user |-> u, by |-> by]]

SessionsOf(u) == {s \in Sessions : sessions[s] # NoSession /\ sessions[s].user = u}

\* revoke_session, revoke_user_sessions
Revoked(revoked) ==
  [s \in Sessions |-> IF s \in revoked /\ sessions[s].state = "open"
                      THEN [sessions[s] EXCEPT !.state = "revoked"] ELSE sessions[s]]

\* What a write of u's row does to the logins that have read it: none of them
\* has the current row, some of them an old hash or an old account.
LoginsAfterWrite(u, hash, account) ==
  [l \in Logins |->
     IF logins[l] # Vacant /\ logins[l].user = u
     THEN [logins[l] EXCEPT !.fresh = FALSE, !.hash = @ /\ ~hash, !.account = @ /\ ~account]
     ELSE logins[l]]

-----------------------------------------------------------------------------
(* Requests: authentication, and what an authenticated request does.       *)

\* The first account, and after the lock its session, whatever happened to
\* the account in between.
Setup(u, r) ==
  /\ mode = "local_accounts" /\ lock = Free /\ requests[r] = Vacant
  /\ \A v \in Users : users[v] = NoUser
  /\ users' = [users EXCEPT ![u] = NewUser("system_admin")]
  /\ requests' = [requests EXCEPT ![r] = [at |-> "setup", actor |-> u]]
  /\ UNCHANGED <<mode, sessions, bound, transactions, lock, logins, callbacks, outdated, faults>>

IssueSetupSession(r, s) ==
  /\ requests[r].at = "setup"
  /\ Issue(s, requests[r].actor, "setup")
  /\ requests' = [requests EXCEPT ![r] = Vacant]
  /\ UNCHANGED <<mode, users, bound, transactions, lock, logins, callbacks, outdated, faults>>

ReadSession(r, s) ==
  /\ requests[r] = Vacant
  /\ sessions[s].state = "open"
  /\ requests' = [requests EXCEPT ![r] = [at |-> "session", session |-> s]]
  /\ UNCHANGED <<mode, users, sessions, bound, transactions, lock, logins, callbacks, outdated, faults>>

\* A session of an account that is not active is revoked on sight.  A session
\* last seen long ago is touched, which fails when it is no longer open.
ReadUser(r) ==
  LET s == requests[r].session
      u == sessions[s].user IN
  /\ requests[r].at = "session"
  /\ IF users[u].status # "active"
     THEN /\ sessions' = Revoked({s})
          /\ requests' = [requests EXCEPT ![r] = Vacant]
     ELSE /\ UNCHANGED sessions
          /\ \/ requests' = [requests EXCEPT ![r] =
                               [at |-> "principal", actor |-> u, role |-> users[u].role]]
             \/ sessions[s].state # "open" /\ requests' = [requests EXCEPT ![r] = Vacant]
  /\ UNCHANGED <<mode, users, bound, transactions, lock, logins, callbacks, outdated, faults>>

Logout(s) ==
  /\ sessions[s].state = "open"
  /\ sessions' = Revoked({s})
  /\ UNCHANGED <<mode, users, bound, transactions, lock, requests, logins, callbacks, outdated, faults>>

Administers(r) == requests[r].at = "principal" /\ requests[r].role = "system_admin"

CreateUser(r, u, role) ==
  /\ Administers(r) /\ lock = Free
  /\ users[u] = NoUser
  /\ users' = [users EXCEPT ![u] = NewUser(role)]
  /\ requests' = [requests EXCEPT ![r] = Vacant]
  /\ UNCHANGED <<mode, sessions, bound, transactions, lock, logins, callbacks, outdated, faults>>

RevokeSessions(r, u) ==
  /\ Administers(r) /\ users[u] # NoUser
  /\ sessions' = Revoked(SessionsOf(u))
  /\ requests' = [requests EXCEPT ![r] = Vacant]
  /\ UNCHANGED <<mode, users, bound, transactions, lock, logins, callbacks, outdated, faults>>

BindIdentity(r, u, subject) ==
  /\ Administers(r) /\ users[u].status = "active"
  /\ bound[subject] = "none" /\ \A other \in Users : bound[other] # u
  /\ bound' = [bound EXCEPT ![subject] = u]
  /\ requests' = [requests EXCEPT ![r] = Vacant]
  /\ UNCHANGED <<mode, users, sessions, transactions, lock, logins, callbacks, outdated, faults>>

Changed(account, role, status) == [account EXCEPT !.role = role, !.status = status]

\* Faulty variant: only a loss of access is judged, not one of the role.
MayUpdateRole(actor, u, role, status) ==
  status # "active" => u # actor /\ (u \in ActiveAdmins => Cardinality(ActiveAdmins) > 1)

\* update_user: nobody takes the role or the access from himself, nor from the
\* last active administrator.
MayUpdate(actor, u, role, status) ==
  /\ u = actor =>
       (status # users[u].status => status = "active") /\ (role # users[u].role => role = "system_admin")
  /\ u \in ActiveAdmins /\ (status # "active" \/ role # "system_admin") => Cardinality(ActiveAdmins) > 1

\* The account is read under the lock, and all of it is written back: failed
\* logins that were counted in between are lost.  The principal of the
\* request may be out of date.
BeginUpdate(r, u, role, status) ==
  /\ Administers(r) /\ lock = Free
  /\ users[u] # NoUser /\ MayUpdate(requests[r].actor, u, role, status)
  /\ lock' = r
  /\ requests' = [requests EXCEPT ![r] =
       [at |-> "write", user |-> u, row |-> Changed(users[u], role, status), password |-> FALSE]]
  /\ UNCHANGED <<mode, users, sessions, bound, transactions, logins, callbacks, outdated, faults>>

\* change_password of the own account, reset_password by an administrator.
BeginPassword(r, u) ==
  /\ requests[r].at = "principal" /\ lock = Free
  /\ \/ u = requests[r].actor /\ mode = "local_accounts"
     \/ Administers(r)
  /\ users[u] # NoUser
  /\ lock' = r
  /\ requests' = [requests EXCEPT ![r] =
       [at |-> "write", user |-> u, password |-> TRUE,
        row |-> [users[u] EXCEPT !.failed = 0, !.locked = FALSE]]]
  /\ UNCHANGED <<mode, users, sessions, bound, transactions, logins, callbacks, outdated, faults>>

WriteUser(r) ==
  LET q == requests[r]
      old == users[q.user]
      revokes == q.password \/ q.row.status # "active" \/ q.row.role # old.role
  IN /\ q.at = "write"
     /\ users' = [users EXCEPT ![q.user] = q.row]
     /\ logins' = LoginsAfterWrite(q.user, q.password, revokes)
     /\ outdated' = IF revokes THEN outdated \cup SessionsOf(q.user) ELSE outdated
     /\ IF revokes THEN requests' = [requests EXCEPT ![r].at = "revoke"] /\ UNCHANGED lock
        ELSE requests' = [requests EXCEPT ![r] = Vacant] /\ lock' = Free
     /\ UNCHANGED <<mode, sessions, bound, transactions, callbacks, faults>>

\* Faulty variant: a change of the account leaves its sessions open.
RevokeNothing(r) ==
  /\ requests[r].at = "revoke"
  /\ requests' = [requests EXCEPT ![r] = Vacant] /\ lock' = Free
  /\ UNCHANGED <<mode, users, sessions, bound, transactions, logins, callbacks, outdated, faults>>

RevokeAfterWrite(r) ==
  /\ requests[r].at = "revoke"
  /\ sessions' = Revoked(SessionsOf(requests[r].user))
  /\ requests' = [requests EXCEPT ![r] = Vacant] /\ lock' = Free
  /\ UNCHANGED <<mode, users, bound, transactions, logins, callbacks, outdated, faults>>

-----------------------------------------------------------------------------
(* Password logins.                                                        *)

\* The account is read, and the password is judged by what was read.  A login
\* into an account that is not active or locked ends here.
VerifyPassword(l, u, verified) ==
  /\ mode = "local_accounts" /\ logins[l] = Vacant
  /\ users[u].status = "active" /\ ~users[u].locked
  /\ logins' = [logins EXCEPT ![l] = [at |-> "verified", user |-> u, verified |-> verified,
                                      fresh |-> TRUE, hash |-> TRUE, account |-> TRUE]]
  /\ UNCHANGED <<mode, users, sessions, bound, transactions, lock, requests, callbacks, outdated, faults>>

EndLogin(l, ls) == logins' = [ls EXCEPT ![l] = Vacant]

\* Counted only against the password that was verified, on an open account.
RecordFailedLogin(l) ==
  LET u == logins[l].user
      failed == IF users[u].failed = MaxFailedLogins THEN MaxFailedLogins ELSE users[u].failed + 1 IN
  /\ logins[l].at = "verified" /\ ~logins[l].verified
  /\ IF logins[l].hash /\ users[u].status = "active" /\ ~users[u].locked
     THEN /\ users' = [users EXCEPT ![u].failed = failed,
                                    ![u].locked = failed >= MaxFailedLogins]
          /\ EndLogin(l, LoginsAfterWrite(u, FALSE, FALSE))
     ELSE UNCHANGED users /\ EndLogin(l, logins)
  /\ UNCHANGED <<mode, sessions, bound, transactions, lock, requests, callbacks, outdated, faults>>

\* Faulty variant: the login compares no more than an OIDC login does.
IsActiveStill(l) == users[logins[l].user].status = "active"

\* The account is what was verified: same version, same hash, open.
IsAsVerified(l) ==
  /\ logins[l].fresh /\ logins[l].hash
  /\ users[logins[l].user].status = "active" /\ ~users[logins[l].user].locked

CompleteLogin(l, s, rehash) ==
  LET u == logins[l].user IN
  /\ logins[l].at = "verified" /\ logins[l].verified
  /\ \/ /\ IsAsVerified(l)
        /\ Issue(s, u, "password")
        /\ users' = [users EXCEPT ![u].failed = 0, ![u].locked = FALSE]
        /\ EndLogin(l, LoginsAfterWrite(u, rehash, FALSE))
     \/ ~IsAsVerified(l) /\ UNCHANGED <<users, sessions>> /\ EndLogin(l, logins)
  /\ UNCHANGED <<mode, bound, transactions, lock, requests, callbacks, outdated, faults>>

-----------------------------------------------------------------------------
(* OIDC logins.                                                            *)

\* Transactions that have expired are deleted when the next one starts.
StartAuthorization(t) ==
  /\ mode = "keycloak_local_container" /\ transactions[t] = "absent"
  /\ transactions' = [v \in Transactions |->
                        IF v = t THEN "open" ELSE IF transactions[v] = "expired" THEN "deleted" ELSE transactions[v]]
  /\ UNCHANGED <<mode, users, sessions, bound, lock, requests, logins, callbacks, outdated, faults>>

\* Callbacks of one transaction may arrive several times, and both see it open.
LookUpTransaction(c, t) ==
  /\ mode = "keycloak_local_container" /\ callbacks[c] = Vacant
  /\ transactions[t] = "open"
  /\ callbacks' = [callbacks EXCEPT ![c] = [at |-> "seen", transaction |-> t]]
  /\ UNCHANGED <<mode, users, sessions, bound, transactions, lock, requests, logins, outdated, faults>>

ConsumeTransaction(c) ==
  LET t == callbacks[c].transaction IN
  /\ callbacks[c].at = "seen"
  /\ IF transactions[t] = "open"
     THEN /\ transactions' = [transactions EXCEPT ![t] = "consumed"]
          /\ callbacks' = [callbacks EXCEPT ![c].at = "consumed"]
     ELSE UNCHANGED transactions /\ callbacks' = [callbacks EXCEPT ![c] = Vacant]
  /\ UNCHANGED <<mode, users, sessions, bound, lock, requests, logins, outdated, faults>>

\* The code is exchanged and the token verified; the subject needs a user.
ReadIdentity(c, subject) ==
  /\ callbacks[c].at = "consumed"
  /\ callbacks' = [callbacks EXCEPT ![c] =
       IF bound[subject] \in Users /\ users[bound[subject]].status = "active"
       THEN [at |-> "identity", transaction |-> @.transaction, user |-> bound[subject]] ELSE Vacant]
  /\ UNCHANGED <<mode, users, sessions, bound, transactions, lock, requests, logins, outdated, faults>>

AbandonCallback(c) ==
  /\ callbacks[c].at = "consumed"
  /\ callbacks' = [callbacks EXCEPT ![c] = Vacant]
  /\ UNCHANGED <<mode, users, sessions, bound, transactions, lock, requests, logins, outdated, faults>>

CompleteOidcLogin(c, s) ==
  LET u == callbacks[c].user IN
  /\ callbacks[c].at = "identity"
  /\ \/ /\ users[u].status = "active"
        /\ Issue(s, u, callbacks[c].transaction)
        /\ users' = [users EXCEPT ![u].failed = 0, ![u].locked = FALSE]
        /\ logins' = LoginsAfterWrite(u, FALSE, FALSE)
     \/ users[u].status # "active" /\ UNCHANGED <<users, sessions, logins>>
  /\ callbacks' = [callbacks EXCEPT ![c] = Vacant]
  /\ UNCHANGED <<mode, bound, transactions, lock, requests, outdated, faults>>

-----------------------------------------------------------------------------
(* Time and restarts.                                                      *)

LockExpires(u) ==
  /\ users[u] # NoUser /\ users[u].locked
  /\ users' = [users EXCEPT ![u].locked = FALSE]
  /\ requests' = [r \in Requests |->
                    IF requests[r].at = "write" /\ requests[r].user = u
                    THEN [requests[r] EXCEPT !.row.locked = FALSE] ELSE requests[r]]
  /\ UNCHANGED <<mode, sessions, bound, transactions, lock, logins, callbacks, outdated, faults>>

SessionExpires(s) ==
  /\ sessions[s].state = "open"
  /\ sessions' = [sessions EXCEPT ![s].state = "expired"]
  /\ UNCHANGED <<mode, users, bound, transactions, lock, requests, logins, callbacks, outdated, faults>>

TransactionExpires(t) ==
  /\ transactions[t] \in {"open", "consumed"}
  /\ transactions' = [transactions EXCEPT ![t] = "expired"]
  /\ UNCHANGED <<mode, users, sessions, bound, lock, requests, logins, callbacks, outdated, faults>>

\* A restart, possibly into the other mode; what was under way is lost.
Restart(next) ==
  /\ Fault
  /\ mode' = next
  /\ lock' = Free
  /\ requests' = [r \in Requests |-> Vacant]
  /\ logins' = [l \in Logins |-> Vacant]
  /\ callbacks' = [c \in Callbacks |-> Vacant]
  /\ UNCHANGED <<users, sessions, bound, transactions, outdated>>

IdentityNext ==
  \/ \E r \in Requests :
       \/ \E u \in Users : Setup(u, r) \/ RevokeSessions(r, u) \/ BeginPassword(r, u)
       \/ \E u, subject \in Users : BindIdentity(r, u, subject)
       \/ \E u \in Users, role \in {"system_admin", "member"} :
            \/ CreateUser(r, u, role)
            \/ \E status \in {"active", "disabled"} : BeginUpdate(r, u, role, status)
       \/ \E s \in Sessions : IssueSetupSession(r, s) \/ ReadSession(r, s)
       \/ ReadUser(r) \/ WriteUser(r) \/ RevokeAfterWrite(r)
  \/ \E l \in Logins :
       \/ \E u \in Users, verified \in BOOLEAN : VerifyPassword(l, u, verified)
       \/ RecordFailedLogin(l)
       \/ \E s \in Sessions, rehash \in BOOLEAN : CompleteLogin(l, s, rehash)
  \/ \E t \in Transactions : StartAuthorization(t) \/ TransactionExpires(t)
  \/ \E c \in Callbacks :
       \/ \E t \in Transactions : LookUpTransaction(c, t)
       \/ ConsumeTransaction(c) \/ AbandonCallback(c)
       \/ \E subject \in Users : ReadIdentity(c, subject)
       \/ \E s \in Sessions : CompleteOidcLogin(c, s)
  \/ \E u \in Users : LockExpires(u)
  \/ \E s \in Sessions : Logout(s) \/ SessionExpires(s)
  \/ \E next \in {"local_accounts", "keycloak_local_container"} : Restart(next)

IdentitySpec == IdentityInit /\ [][IdentityNext]_identityVars

-----------------------------------------------------------------------------
(* Properties.                                                             *)

\* Once the platform is set up it has an active administrator for ever,
\* whatever administrators do to each other with requests that were
\* authorised before (update_user's count under the lock).
AnAdminRemains ==
  (\E u \in Users : users[u] # NoUser) => ActiveAdmins # {}

\* A session does not survive a change of its account's password, role or
\* access: without restarts every session from before the change is revoked
\* when the request that made the change is done.
SessionsEndWithTheAccount ==
  faults = 0 =>
    \A s \in outdated :
      sessions[s].state = "open" =>
        lock # Free /\ requests[lock].at = "revoke" /\ requests[lock].user = sessions[s].user

\* A password login issues a session only for the account it has verified: no
\* change of password, role or access since, and not locked meanwhile.
LoginsAreCurrent ==
  [][\A s \in Sessions :
       sessions[s] = NoSession /\ sessions'[s] # NoSession /\ sessions'[s].by = "password" =>
         /\ \E l \in Logins :
              /\ logins[l] # Vacant /\ logins'[l] = Vacant
              /\ logins[l].verified /\ logins[l].account /\ logins[l].user = sessions'[s].user
         /\ users[sessions'[s].user].status = "active"
         /\ ~users[sessions'[s].user].locked]_identityVars

\* One authorisation logs in at most once, however often its callback comes.
OneSessionPerTransaction ==
  \A s1, s2 \in Sessions :
    sessions[s1] # NoSession /\ sessions[s2] # NoSession
      /\ sessions[s1].by \in Transactions /\ sessions[s1].by = sessions[s2].by => s1 = s2

\* No session is open that should not be: none outlives a change of its
\* account, and no authorisation has two.
SessionsAreDue == SessionsEndWithTheAccount /\ OneSessionPerTransaction
=============================================================================
