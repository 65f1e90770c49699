----------------------- MODULE CollaborativeVaultStore -----------------------
(***************************************************************************)
(* The MongoDB collections of one collaborative vault: its document, the   *)
(* device registry of the database, mutation links, outcomes, operation    *)
(* tombstones, the permanent destruction record, authorization             *)
(* checkpoints, and the legacy document the vault was migrated from.       *)
(*                                                                         *)
(* An operation is prepared against what its client read, and may then be  *)
(* submitted any number of times: the answer to a commit can be lost.      *)
(* Every submission is a transaction that reads one snapshot and commits   *)
(* if no document it writes changed since (MongoDB snapshot isolation;     *)
(* withTransaction runs it again otherwise).  A transaction that only      *)
(* reads, or that only inserts or deletes rows of its own identity, is one *)
(* step, and one of those is the answer to an operation applied before.    *)
(*                                                                         *)
(* Digests commit to everything below them: the head of a document is the  *)
(* operation that wrote it, an authorization state the operation that      *)
(* established it, a registry digest the chain of its denied devices.      *)
(***************************************************************************)
EXTENDS Naturals, FiniteSets, Sequences, SequencesExt

CONSTANTS Ops,       \* the identities of operations
          Devices,   \* the writers' devices
          None,
          MaxLegacy, \* bound: revisions of the legacy vault
          MaxChain,  \* bound: generations of the device registry
          MaxPending, \* bound: operations prepared and not applied
          MaxUpkeep  \* bound: compactions and checkpoints

\* None is no document, and the answer it stands for is none of the two records.
ASSUME ApartAssumption ==
  /\ None \notin [rev : Nat \ {0}, head : Ops, auth : Ops, chain : Seq(SUBSET Devices)]
  /\ None \notin {"outcome", "tombstone"}

VARIABLES db,    \* the collections
          req,   \* req[o]: the prepared request of operation o
          view   \* view[o]: the snapshot of o's open transaction, or None

vars == <<db, req, view>>

-----------------------------------------------------------------------------
Kinds == {"begin", "genesis", "write", "admin", "destroy", "registry"}

\* A legacy document: a vault at some revision, or the marker of a migration
\* that is prepared or active.
Legacy(state, rev, op) == [state |-> state, rev |-> rev, op |-> op]

Init == /\ db = [registry |-> [chain |-> <<>>, fence |-> None],
                 legacy |-> Legacy("vault", 1, None),
                 vault |-> None, grave |-> None,
                 links |-> {}, outcomes |-> {}, tombs |-> {}, checks |-> {}]
        /\ req = [o \in Ops |-> None]
        /\ view = [o \in Ops |-> None]

Committed == {l.op : l \in db.links}

\* registryDenialsAreMonotonic and the generation and digest that a new
\* registry continues; the first registry is generation one.
RegistryFits(now, next) ==
  IF now = <<>> THEN Len(next) = 1
  ELSE Front(next) = now /\ Last(now) \subseteq Last(next)

-----------------------------------------------------------------------------
(* What the clients prepare, from what they read.                          *)

Pending == {o \in Ops : /\ req[o] # None /\ o \notin Committed
                        /\ req[o].kind = "registry" => req[o].chain # db.registry.chain}

\* Identities are fresh; which one is drawn makes no difference.
Drawn == CHOOSE o \in Ops : req[o] = None

Prepare(o, r) == /\ req[o] = None /\ o = Drawn
                 /\ Cardinality(Pending) < MaxPending
                 /\ req' = [req EXCEPT ![o] = r]
                 /\ UNCHANGED <<db, view>>

\* A migration binds one revision of the legacy vault and the registry the
\* vault will start under.
PrepareGenesis(o, d) ==
  /\ db.legacy.state = "vault"
  /\ Prepare(o, [kind |-> "begin", writer |-> d, base |-> db.legacy.rev,
                 chain |-> IF db.registry.chain = <<>> THEN <<{}>>
                           ELSE db.registry.chain])

\* An ordinary write keeps the authorization state, which the registry is part
\* of; an administrative one changes it; a destruction retains it.
PreparePublication(o, kind, d) ==
  /\ kind \in {"write", "admin", "destroy"}
  /\ db.vault # None
  /\ kind # "admin" => db.vault.chain = db.registry.chain
  /\ d \notin Last(db.registry.chain)
  /\ Prepare(o, [kind |-> kind, writer |-> d, base |-> db.vault,
                 chain |-> db.registry.chain])

PrepareRegistry(o, denied) ==
  /\ db.registry.chain # <<>> /\ Len(db.registry.chain) < MaxChain
  /\ Prepare(o, [kind |-> "registry", writer |-> None, base |-> db.registry.chain,
                 chain |-> Append(db.registry.chain,
                                  Last(db.registry.chain) \cup denied)])

-----------------------------------------------------------------------------
(* Transactions.                                                           *)

\* The documents of the snapshot that more than one operation writes.
Snapshot == [d \in {"registry", "vault", "grave", "legacy"} |-> db[d]]

Recorded(o) == o \in db.outcomes \cup db.tombs

\* What was applied is answered from its record and no transaction is opened.
Open(o) == /\ req[o] # None /\ view[o] = None /\ ~ Recorded(o)
           /\ view' = [view EXCEPT ![o] = Snapshot]
           /\ UNCHANGED <<db, req>>

\* An error, a write conflict or a crashed client: nothing was written.
Abort(o) == /\ view[o] # None
            /\ view' = [view EXCEPT ![o] = None]
            /\ UNCHANGED <<db, req>>

\* The documents `docs` are as the snapshot has them.
Fresh(o, docs) == \A d \in docs : db[d] = view[o][d]

Close(o) == view' = [view EXCEPT ![o] = None]

\* The link of o on top of the document it was prepared against.
LinkOf(o) ==
  LET r == req[o]
      first == r.kind = "genesis"
      changes == r.kind \in {"genesis", "admin"}
  IN [op |-> o, writer |-> r.writer, chain |-> r.chain,
      rev |-> IF first THEN 1 ELSE r.base.rev + 1,
      prev |-> IF first THEN None ELSE r.base.head,
      prevAuth |-> IF first THEN None ELSE r.base.auth,
      auth |-> IF changes THEN o ELSE r.base.auth,
      witness |-> r.kind # "write"]

DocumentOf(o) == LET l == LinkOf(o)
                 IN [rev |-> l.rev, head |-> o, auth |-> l.auth, chain |-> l.chain]

\* assertRegistryFence, assertWriterNotDenied and the fence that the lock of
\* the registry moves.
RegistryAllows(o) ==
  LET reg == view[o].registry
  IN /\ reg.chain = req[o].chain
     /\ reg.fence # o
     /\ req[o].writer \notin Last(reg.chain)

\* Mutant: any prior document is replaced.
PriorExists(o) == view[o].vault # None

\* The compare-and-set of the vault document.
PriorMatches(o) == view[o].vault = req[o].base

\* Mutant: the registry is read and not locked.
PublishUnlocked(o) ==
  /\ req[o].kind \in {"write", "admin"}
  /\ RegistryAllows(o) /\ PriorMatches(o)
  /\ Fresh(o, {"vault"})
  /\ db' = [db EXCEPT !.vault = DocumentOf(o), !.links = @ \cup {LinkOf(o)},
                      !.outcomes = @ \cup {o}]

Publish(o) ==
  /\ req[o].kind \in {"write", "admin"}
  /\ RegistryAllows(o) /\ PriorMatches(o)
  /\ Fresh(o, {"registry", "vault"})
  /\ db' = [db EXCEPT !.registry.fence = o,
                      !.vault = DocumentOf(o),
                      !.links = @ \cup {LinkOf(o)},
                      !.outcomes = @ \cup {o}]

\* A destruction without its permanent record was never begun: any other
\* trace of it is corruption, which StoreIsCoherent excludes.
Destroy(o) ==
  /\ req[o].kind = "destroy"
  /\ view[o].grave = None
  /\ RegistryAllows(o) /\ PriorMatches(o)
  /\ Fresh(o, {"registry", "vault", "grave"})
  /\ db' = [db EXCEPT !.registry.fence = o, !.vault = None, !.grave = o,
                      !.links = @ \cup {LinkOf(o)},
                      !.outcomes = @ \cup {o}]

\* beginCollaborativeMigration: the legacy vault becomes a prepared marker.
Begin(o) ==
  /\ req[o].kind = "begin"
  /\ view[o].vault = None
  /\ view[o].legacy.state = "vault" /\ view[o].legacy.rev = req[o].base
  /\ Fresh(o, {"legacy"})
  /\ db' = [db EXCEPT !.legacy = Legacy("prepared", req[o].base, o)]

\* The marker of this very migration: begun before, go on with the genesis.
Begun(o) == /\ req[o].kind = "begin"
            /\ view[o].legacy.state = "prepared" /\ view[o].legacy.op = o
            /\ UNCHANGED db

\* activateCollaborativeGenesis.
Activate(o) ==
  LET reg == view[o].registry.chain
  IN /\ req[o].kind = "genesis"
     /\ view[o].grave = None /\ view[o].vault = None
     /\ view[o].legacy = Legacy("prepared", req[o].base, o)
     /\ reg = req[o].chain \/ RegistryFits(reg, req[o].chain)
     /\ Fresh(o, {"registry", "vault", "legacy"})
     /\ db' = [db EXCEPT !.registry = [chain |-> req[o].chain,
                                       fence |-> IF reg = req[o].chain THEN o ELSE None],
                         !.vault = DocumentOf(o), !.legacy.state = "active",
                         !.links = @ \cup {LinkOf(o)},
                         !.outcomes = @ \cup {o}]

\* publishDatabaseDeviceRegistry; an equal registry is a silent success.
PublishRegistry(o) ==
  /\ req[o].kind = "registry"
  /\ RegistryFits(view[o].registry.chain, req[o].chain)
  /\ Fresh(o, {"registry"})
  /\ db' = [db EXCEPT !.registry = [chain |-> req[o].chain, fence |-> None]]

\* A client that holds the marker of its migration activates it next.
Commit(o) ==
  /\ view[o] # None
  /\ \/ /\ Publish(o) \/ Destroy(o) \/ Activate(o) \/ PublishRegistry(o)
        /\ UNCHANGED req
     \/ /\ Begin(o) \/ Begun(o)
        /\ req' = [req EXCEPT ![o].kind = "genesis"]
  /\ Close(o)

-----------------------------------------------------------------------------
\* The legacy store replaces the document by its revision: a marker has none.
LegacyWrite == /\ db.legacy.state = "vault" /\ db.legacy.rev < MaxLegacy
               /\ db' = [db EXCEPT !.legacy.rev = @ + 1]
               /\ UNCHANGED <<req, view>>

Upkeep == Cardinality(db.tombs) + Cardinality(db.checks)

\* compactCollaborativeOperationOutcome: the pair of writes is one transaction.
Compact(o) == /\ o \in db.outcomes /\ Upkeep < MaxUpkeep
              /\ db' = [db EXCEPT !.outcomes = @ \ {o}, !.tombs = @ \cup {o}]
              /\ UNCHANGED <<req, view>>

\* appendCollaborationAuthorizationCheckpoint of the link at revision `at`.
Checkpoint(at, prev) ==
  /\ Upkeep < MaxUpkeep
  /\ \E l \in db.links : l.rev = at
  /\ \A k \in db.checks : k.at # at
  /\ prev # 0 => prev < at /\ \E k \in db.checks : k.at = prev
  /\ db' = [db EXCEPT !.checks = @ \cup {[at |-> at, prev |-> prev]}]
  /\ UNCHANGED <<req, view>>

Next == \/ \E o \in Ops : \/ \E d \in Devices : PrepareGenesis(o, d)
                          \/ \E kind \in Kinds, d \in Devices :
                               PreparePublication(o, kind, d)
                          \/ \E d \in Devices : PrepareRegistry(o, {d})
                          \/ Open(o) \/ Abort(o) \/ Commit(o) \/ Compact(o)
        \/ LegacyWrite
        \/ \E at \in 1..Cardinality(Ops), prev \in 0..Cardinality(Ops) :
             Checkpoint(at, prev)

Spec == Init /\ [][Next]_vars

-----------------------------------------------------------------------------
(* getCollaborativeMutationProofRange and getCollaborationAuthorizationWitness *)

LinksOf(from, to) == {l \in db.links : from < l.rev /\ l.rev <= to}

\* The latest witness of an authorization state at or before a revision.
HasWitness(auth, rev) == \E l \in db.links : l.witness /\ l.auth = auth /\ l.rev <= rev

\* The range parses as a proof: contiguous from one head to the other, and
\* opened by a witness of the state its first link starts from.
Provable(from, fromHead, to, toHead) ==
  /\ \A r \in (from + 1)..to : \E l \in LinksOf(from, to) :
       /\ l.rev = r
       /\ IF r = from + 1 THEN l.prev = fromHead /\ HasWitness(l.prevAuth, from)
          ELSE \E k \in LinksOf(from, to) : k.rev = r - 1 /\ l.prev = k.op
  /\ \E l \in LinksOf(from, to) : l.rev = to /\ l.op = toHead

\* getCollaborativeOperationOutcome.
Outcome(o) == IF o \in db.outcomes THEN "outcome"
              ELSE IF o \in db.tombs THEN "tombstone" ELSE None

\* The links are one chain from the genesis to the live document or to the
\* destruction that ended it, every stretch of it can be proved to a client
\* that stopped anywhere on it, and it starts where the migration was fenced.
StoreIsCoherent ==
  LET n == Cardinality(db.links)
      tip == IF db.vault # None THEN db.vault.head ELSE db.grave
  IN /\ {l.rev : l \in db.links} = 1..n
     /\ db.vault # None => db.grave = None /\ db.vault.rev = n
     /\ n > 0 <=> db.legacy.state = "active"
     /\ \A l \in db.links : l.rev < n => Provable(l.rev, l.op, n, tip)
     /\ \A l \in db.links : l.rev = 1 => l.op = db.legacy.op
     /\ \A k \in db.checks : k.prev < k.at
                             /\ (k.prev # 0 => \E j \in db.checks : j.at = k.prev)

\* Retrying what was applied is answered from its one record, whatever was
\* compacted or destroyed since; nothing else has an answer, and nothing that
\* has one is applied again.
EveryCommitIsAnswered ==
  /\ db.outcomes \cap db.tombs = {}
  /\ \A o \in Ops : Outcome(o) # None <=> o \in Committed

\* The chain of a vault and the outcomes of its operations agree, whatever is
\* published, retried, compacted or destroyed in between.
StoreAnswersTruly == StoreIsCoherent /\ EveryCommitIsAnswered

\* A denied device writes nothing after its denial is published, although a
\* publication reads the registry long before it commits.
DeniedDevicesWriteNothing ==
  [][\A l \in db'.links \ db.links :
       /\ l.chain = db'.registry.chain
       /\ l.writer \notin Last(db'.registry.chain)]_vars
=============================================================================
