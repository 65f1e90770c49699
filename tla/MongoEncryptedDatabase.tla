------------------------ MODULE MongoEncryptedDatabase ------------------------
(***************************************************************************)
(* MongoEncryptedDatabaseStore: the persistence port on two collections of *)
(* a server that several processes use.  A mutation of one document is one *)
(* conditional statement; one of the catalog and a vault is a transaction  *)
(* of two, whose body withTransaction runs again after a transient error.  *)
(* The server and the driver are modelled from how the code uses them:     *)
(* snapshot isolation with an early write conflict, one execution of a     *)
(* retried statement, replies that are lost, and commands that arrive      *)
(* after their caller has given up.                                        *)
(***************************************************************************)
EXTENDS EncryptedDatabaseStore, Sequences, FiniteSets

CONSTANTS Clients, Vaults,
          MaxCalls, MaxFaults  \* bounds: mutations, lost replies and aborts

VARIABLES replicated, \* the deployment runs transactions
          present,    \* the catalog's collection exists
          conn,       \* the clients' connections
          store,      \* the documents of both collections
          view,       \* what a client last read
          job,        \* the call a client has in progress
          late,       \* commands that outlive their call
          calls, taken, report, \* what the contract speaks of, see AtomicStore
          faults

vars     == <<replicated, present, conn, store, view, job, late, calls, taken, report, faults>>
contract == <<store, calls, taken, report>>
Contract == INSTANCE AtomicStore

Idle == [at |-> "idle"]

Init == /\ replicated \in BOOLEAN /\ present = FALSE
        /\ conn = [c \in Clients |-> "none"] /\ Contract!Init
        /\ view = [c \in Clients |-> store] /\ job = [c \in Clients |-> Idle] /\ late = {}
        /\ faults = 0

Fault == faults < MaxFaults /\ faults' = faults + 1

-----------------------------------------------------------------------------
(* connect, initializeIndexes: the collection that a transaction writes    *)
(* exists before it; clients race to create it.                            *)
Connects(c, state) == conn' = [conn EXCEPT ![c] = state]

List(c) == /\ conn[c] = "none" /\ Connects(c, IF present THEN "indexing" ELSE "missing")
           /\ UNCHANGED <<replicated, present, contract, view, job, late, faults>>

\* NamespaceExists is confirmed by listing again
CreateCollection(c) ==
  /\ conn[c] = "missing" /\ present' = TRUE
  /\ Connects(c, IF present THEN "none" ELSE "indexing")
  /\ UNCHANGED <<replicated, contract, view, job, late, faults>>

CreateIndexes(c) ==
  /\ conn[c] = "indexing"
  /\ \/ Connects(c, "open") /\ UNCHANGED faults
     \/ Fault /\ Connects(c, "failed")
  /\ UNCHANGED <<replicated, present, contract, view, job, late>>

-----------------------------------------------------------------------------
\* getDatabase and listVaults, as the session that compares them accepts them
Read(c) == /\ conn[c] = "open" /\ job[c] = Idle /\ view' = [view EXCEPT ![c] = store]
           /\ UNCHANGED <<replicated, present, conn, contract, job, late, faults>>

NextDatabase(s, catalog) ==
  [rev |-> s.database.rev + 1, digest |-> Len(calls) + 1, catalog |-> catalog]

\* What a client computes from what it has read.
Mutations(s) ==
  LET m == [kind |-> "rename", database |-> NextDatabase(s, s.database.catalog),
            vault |-> "none", head |-> [rev |-> 0, digest |-> Len(calls) + 1], expected |-> 0]
      Of(v) == [m EXCEPT !.vault = v, !.expected = s.heads[v].rev,
                         !.head.rev = s.heads[v].rev + 1]
  IN IF ~ s.exists THEN {[m EXCEPT !.kind = "initialize", !.database.rev = 0]}
     ELSE {m}
          \cup {[m EXCEPT !.kind = "create", !.vault = v,
                          !.database.catalog = @ \cup {v}] : v \in Vaults \ DOMAIN s.heads}
          \cup {[Of(v) EXCEPT !.kind = "update"] : v \in DOMAIN s.heads}
          \cup {[Of(v) EXCEPT !.kind = "delete",
                              !.database.catalog = @ \ {v}] : v \in DOMAIN s.heads}

\* createDatabase asks for the deployment first.
Entry(m) == IF m.kind = "initialize" THEN "hello"
            ELSE IF m.kind \in {"create", "delete"} THEN "begin" ELSE "sent"

Call(c, m) ==
  /\ conn[c] = "open" /\ job[c] = Idle /\ Len(calls) < MaxCalls /\ m \in Mutations(view[c])
  /\ calls' = Append(calls, m) /\ report' = Append(report, "none")
  /\ job' = [job EXCEPT ![c] = [at |-> Entry(m), k |-> Len(calls) + 1, seen |-> store]]
  /\ UNCHANGED <<replicated, present, conn, store, view, late, taken, faults>>

Moves(c, at) == job' = [job EXCEPT ![c].at = at]

Answers(c, what) == /\ job' = [job EXCEPT ![c] = Idle]
                    /\ report' = [report EXCEPT ![job[c].k] = what]

-----------------------------------------------------------------------------
(* The statements, each with its filter.                                   *)
Jobs     == {job[c] : c \in Clients} \cup late
Writing  == {j \in Jobs : j.at \in {"catalog", "both"}}  \* they hold the catalog

CatalogFree(j)  == Writing \subseteq {j}
VaultFree(v, j) == \A i \in Writing \ {j} : i.at = "both" => calls[i.k].vault # v

MatchesDatabase(s, m) == s.exists /\ s.database.rev = m.database.rev - 1
MatchesVault(s, m)    == m.vault \in DOMAIN s.heads /\ s.heads[m.vault].rev = m.expected

\* insertOne, or updateOne of one document
Statement(m) ==
  \/ m.kind = "initialize" /\ ~ store.exists
     /\ store' = [store EXCEPT !.exists = TRUE]
  \/ m.kind = "rename" /\ MatchesDatabase(store, m)
     /\ store' = [store EXCEPT !.database = m.database]
  \/ m.kind = "update" /\ MatchesVault(store, m)
     /\ store' = [store EXCEPT !.heads[m.vault] = m.head]

Refuses(m) == \/ m.kind = "initialize" /\ store.exists
              \/ m.kind = "rename" /\ ~ MatchesDatabase(store, m)
              \/ m.kind = "update" /\ ~ MatchesVault(store, m)

Unlocked(j) == IF calls[j.k].kind = "update" THEN VaultFree(calls[j.k].vault, j)
                                             ELSE CatalogFree(j)

Takes(j) == taken' = taken \cup {j.k}

\* The vault half of a transaction, on the snapshot.
VaultAccepts(s, m) == \/ m.kind = "create" /\ m.vault \notin DOMAIN s.heads
                      \/ m.kind = "delete" /\ MatchesVault(s, m)

\* Another client wrote the document since the snapshot was taken.
Changed(s, v) == \/ (v \in DOMAIN s.heads) # (v \in DOMAIN store.heads)
                 \/ v \in DOMAIN s.heads /\ s.heads[v] # store.heads[v]

Committed(m) == store' = [store EXCEPT !.database = m.database,
                                       !.heads = HeadsAfter(store.heads, m)]

-----------------------------------------------------------------------------
(* A call in progress.                                                     *)

\* assertTransactionCapable
Hello(c) ==
  /\ job[c].at = "hello"
  /\ \/ replicated /\ Moves(c, "sent") /\ UNCHANGED <<report, faults>>
     \/ ~ replicated /\ Answers(c, "refused") /\ UNCHANGED faults
     \/ Fault /\ Answers(c, "unknown")
  /\ UNCHANGED <<replicated, present, conn, store, view, late, calls, taken>>

\* createDatabase, updateDatabase, updateVault; a command that is sent again carries
\* the number the server has executed
Execute(c) ==
  LET j == job[c]  m == calls[j.k]
  IN /\ j.at = "sent" /\ Unlocked(j)
     /\ \/ Statement(m) /\ Takes(j) /\ Moves(c, "done") /\ UNCHANGED report
        \/ Refuses(m) /\ Answers(c, "refused") /\ UNCHANGED <<store, taken>>
     /\ UNCHANGED <<replicated, present, conn, view, late, calls, faults>>

\* Mutant: the catalog's statement is not part of the transaction.
WriteCatalogOutside(c) ==
  LET m == calls[job[c].k]
  IN /\ job[c].at = "begin" /\ MatchesDatabase(store, m)
     /\ store' = [store EXCEPT !.database = m.database]
     /\ job' = [job EXCEPT ![c] = [@ EXCEPT !.at = "catalog", !.seen = store']]
     /\ UNCHANGED <<replicated, present, conn, view, late, calls, taken, report, faults>>

\* createVault, deleteVault: the catalog first.
WriteCatalog(c) ==
  LET j == job[c]
  IN /\ j.at = "begin" /\ CatalogFree(j)
     /\ IF replicated /\ MatchesDatabase(store, calls[j.k])
        THEN job' = [job EXCEPT ![c] = [j EXCEPT !.at = "catalog", !.seen = store]]
             /\ UNCHANGED report
        ELSE Answers(c, "refused")
     /\ UNCHANGED <<replicated, present, conn, store, view, late, calls, taken, faults>>

WriteVault(c) ==
  LET j == job[c]  m == calls[j.k]
  IN /\ j.at = "catalog" /\ VaultFree(m.vault, j)
     /\ IF Changed(j.seen, m.vault) THEN Moves(c, "begin") /\ UNCHANGED report
        ELSE IF VaultAccepts(j.seen, m) THEN Moves(c, "both") /\ UNCHANGED report
        ELSE Answers(c, "refused")
     /\ UNCHANGED <<replicated, present, conn, store, view, late, calls, taken, faults>>

Commit(c) ==
  /\ job[c].at = "both" /\ Committed(calls[job[c].k]) /\ Takes(job[c]) /\ Moves(c, "done")
  /\ UNCHANGED <<replicated, present, conn, view, late, calls, report, faults>>

\* The server aborts a transaction that has not committed, a transient error.
Abort(c) ==
  /\ job[c].at \in {"catalog", "both"} /\ Fault /\ Moves(c, "begin")
  /\ UNCHANGED <<replicated, present, conn, store, view, late, calls, taken, report>>

Return(c) == /\ job[c].at = "done" /\ Answers(c, "ok")
             /\ UNCHANGED <<replicated, present, conn, store, view, late, calls, taken, faults>>

\* `operation`: a timeout or an error of the network
Lose(c) == /\ job[c].at \notin {"idle", "hello"} /\ Fault /\ Answers(c, "unknown")
           /\ late' = late \cup ({job[c]} \cap {j \in Jobs : j.at \in {"sent", "both"}})
           /\ UNCHANGED <<replicated, present, conn, store, view, calls, taken>>

\* A call in progress is aborted; a later one is not sent, and throws `closed`.
Close(c) ==
  /\ conn[c] = "open" /\ Connects(c, "closed")
  /\ IF job[c] = Idle THEN UNCHANGED <<job, report, late>>
     ELSE Answers(c, "unknown")
          /\ late' = late \cup ({job[c]} \cap {j \in Jobs : j.at \in {"sent", "both"}})
  /\ UNCHANGED <<replicated, present, store, view, calls, taken, faults>>

\* A late command arrives, or never does.
Arrive(j) ==
  /\ late' = late \ {j}
  /\ \/ j.at = "sent" /\ Unlocked(j) /\ Statement(calls[j.k]) /\ Takes(j)
     \/ j.at = "both" /\ Committed(calls[j.k]) /\ Takes(j)
     \/ UNCHANGED <<store, taken>>
  /\ UNCHANGED <<replicated, present, conn, view, job, calls, report, faults>>

Next == \/ \E c \in Clients :
             \/ List(c) \/ CreateCollection(c) \/ CreateIndexes(c) \/ Read(c)
             \/ Hello(c) \/ Execute(c) \/ WriteCatalog(c) \/ WriteVault(c)
             \/ Commit(c) \/ Abort(c) \/ Return(c) \/ Lose(c) \/ Close(c)
             \/ \E m \in Mutations(view[c]) : Call(c, m)
        \/ \E j \in late : Arrive(j)

Spec == Init /\ [][Next]_vars

-----------------------------------------------------------------------------
\* Whatever is lost, late, aborted or run again, every call is an atomic one of the
\* contract: the catalog and the vault are published together, at most once, and never
\* after the call was refused.
Implements == Contract!Spec
=============================================================================
