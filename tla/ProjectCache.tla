---------------------------- MODULE ProjectCache ----------------------------
(***************************************************************************)
(* The cache-aside decorator of the project repository: a Redis entry for  *)
(* each project and one for the list, filled by reads and deleted after    *)
(* writes.  Redis is external and fails open: a lookup that fails reads    *)
(* the table, a fill or a deletion that fails is ignored.                  *)
(*                                                                         *)
(* Reads and writes go through several awaits; what orders them is the     *)
(* business lock that the project service holds around both.               *)
(***************************************************************************)
EXTENDS Faults

CONSTANTS
  ProjectIds,
  Versions,     \* what a row can hold
  All,          \* the key of the list
  NoEntry,       \* no row, no entry
  Clients,
  Nobody        \* the lock is not held

ASSUME ProjectCacheAssumption ==
  /\ All \notin ProjectIds /\ Nobody \notin Clients
  /\ NoEntry \notin Versions /\ NoEntry \notin [ProjectIds -> Versions \cup {NoEntry}]

VARIABLES
  project_rows,
  cache,
  holder,         \* the client that holds the business lock
  clients,      \* where each request is
  spoiled       \* history: keys whose deletion has failed or was never sent

cacheVars == <<project_rows, cache, holder, clients, spoiled, faults>>

Keys == ProjectIds \cup {All}
ProjectTables == [ProjectIds -> Versions \cup {NoEntry}]
Positions == {"idle", "lookup", "load", "fill", "write", "invalidate"}

\* What an entry should be: the row, or all of them.
Truth(table, key) == IF key = All THEN table ELSE table[key]

Nowhere == [at |-> "idle", key |-> All, loaded |-> NoEntry]

CacheInit ==
  /\ project_rows = [p \in ProjectIds |-> NoEntry]
  /\ cache = [key \in Keys |-> NoEntry]
  /\ holder = Nobody
  /\ clients = [c \in Clients |-> Nowhere]
  /\ spoiled = {}
  /\ faults = 0

\* Faulty variant: reads do not take the business lock.
MayBeginUnlocked(at) == at = "lookup" \/ holder = Nobody

MayBegin(at) == holder = Nobody

Begin(c, at, key) ==
  /\ clients[c].at = "idle" /\ MayBegin(at)
  /\ holder' = c
  /\ clients' = [clients EXCEPT ![c] = [at |-> at, key |-> key, loaded |-> NoEntry]]
  /\ UNCHANGED <<project_rows, cache, spoiled, faults>>

Finish(c) ==
  /\ holder' = Nobody
  /\ clients' = [clients EXCEPT ![c] = Nowhere]

\* get, list
Lookup(c) ==
  LET key == clients[c].key IN
  /\ clients[c].at = "lookup"
  /\ \/ cache[key] # NoEntry /\ Finish(c) /\ UNCHANGED faults
     \/ /\ \/ cache[key] = NoEntry /\ UNCHANGED faults
           \/ Fault
        /\ clients' = [clients EXCEPT ![c].at = "load"] /\ UNCHANGED holder
  /\ UNCHANGED <<project_rows, cache, spoiled>>

\* A project that is not there is not cached.
Load(c) ==
  LET found == Truth(project_rows, clients[c].key) IN
  /\ clients[c].at = "load"
  /\ \/ found = NoEntry /\ Finish(c)
     \/ /\ found # NoEntry
        /\ clients' = [clients EXCEPT ![c] = [@ EXCEPT !.at = "fill", !.loaded = found]] /\ UNCHANGED holder
  /\ UNCHANGED <<project_rows, cache, spoiled, faults>>

Fill(c) ==
  /\ clients[c].at = "fill"
  /\ \/ /\ cache' = [cache EXCEPT ![clients[c].key] = clients[c].loaded]
        /\ spoiled' = spoiled \ {clients[c].key}
        /\ UNCHANGED faults
     \/ Fault /\ UNCHANGED <<cache, spoiled>>
  /\ Finish(c)
  /\ UNCHANGED project_rows

\* create, update, transition, delete
Write(c, version) ==
  /\ clients[c].at = "write"
  /\ project_rows' = [project_rows EXCEPT ![clients[c].key] = version]
  /\ clients' = [clients EXCEPT ![c].at = "invalidate"]
  /\ UNCHANGED <<cache, holder, spoiled, faults>>

\* _invalidate
Deleted(key) == {key, All}

Invalidate(c) ==
  LET keys == Deleted(clients[c].key) IN
  /\ clients[c].at = "invalidate"
  /\ \/ /\ cache' = [key \in Keys |-> IF key \in keys THEN NoEntry ELSE cache[key]]
        /\ spoiled' = spoiled \ keys
        /\ UNCHANGED faults
     \/ Fault /\ UNCHANGED cache /\ spoiled' = spoiled \cup {clients[c].key, All}
  /\ Finish(c)
  /\ UNCHANGED project_rows

\* The request is cancelled, or the process ends.
Abort(c) ==
  /\ clients[c].at # "idle"
  /\ Fault
  /\ spoiled' = IF clients[c].at = "invalidate" THEN spoiled \cup {clients[c].key, All} ELSE spoiled
  /\ Finish(c)
  /\ UNCHANGED <<project_rows, cache>>

\* ttl_seconds
Expire(key) ==
  /\ cache[key] # NoEntry
  /\ cache' = [cache EXCEPT ![key] = NoEntry]
  /\ spoiled' = spoiled \ {key}
  /\ UNCHANGED <<project_rows, holder, clients, faults>>

CacheNext ==
  \/ \E c \in Clients :
       \/ \E key \in Keys : Begin(c, "lookup", key)
       \/ \E p \in ProjectIds : Begin(c, "write", p)
       \/ Lookup(c) \/ Load(c) \/ Fill(c) \/ Invalidate(c) \/ Abort(c)
       \/ \E version \in Versions \cup {NoEntry} : Write(c, version)
  \/ \E key \in Keys : Expire(key)

CacheSpec == CacheInit /\ [][CacheNext]_cacheVars

-----------------------------------------------------------------------------
(* Properties.                                                             *)

\* Between a write and its invalidation the entries it concerns are old.
BeingWritten(key) ==
  \E c \in Clients : clients[c].at = "invalidate" /\ key \in {clients[c].key, All}

\* A cached project or list is the table's, except while its writer has not
\* yet deleted it, and after a deletion that failed until the entry expires
\* or is deleted by the next write: no read fills in what a write replaced.
CacheIsCurrent ==
  \A key \in Keys :
    cache[key] = NoEntry \/ cache[key] = Truth(project_rows, key) \/ key \in spoiled \/ BeingWritten(key)
=============================================================================
