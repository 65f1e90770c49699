----------------------- MODULE EncryptedDatabaseStore -----------------------
(***************************************************************************)
(* The contract of the persistence port: one encrypted database record     *)
(* (revision, digest, the vault set its catalog names) and the heads of    *)
(* the vault documents, mutated by four calls.  Every call compares the    *)
(* revisions it was given exactly, advances what it writes by one, and     *)
(* publishes the catalog and the vault together.                           *)
(*                                                                         *)
(* Beside it, the trusted local anchor next to a database-owner key file:  *)
(* a database revision with its catalog digest, and the head (revision and *)
(* payload digest) of every vault.  verifyDatabaseRevisionAnchor compares  *)
(* an anchor with an observed state; the anchorWith... operators compute   *)
(* the anchor an accepted mutation leaves.                                 *)
(*                                                                         *)
(* A digest is a number: two documents that differ have different digests. *)
(* heads is a function whose domain is the set of vaults that exist.       *)
(***************************************************************************)
EXTENDS Naturals

VaultHead == [rev : Nat, digest : Nat]

\* The heads of some of the vaults.
IsHeads(heads, Vaults) == /\ DOMAIN heads \subseteq Vaults
                          /\ heads \in [DOMAIN heads -> VaultHead]

IsAnchor(a, Vaults) ==
  /\ a = [rev |-> a.rev, digest |-> a.digest, heads |-> a.heads]
  /\ a.rev \in Nat /\ a.digest \in Nat
  /\ IsHeads(a.heads, Vaults)

\* One revision names one digest, and revisions never go back.
NotOlder(trusted, observed) ==
  /\ observed.rev >= trusted.rev
  /\ observed.rev = trusted.rev => observed.digest = trusted.digest

\* verifyDatabaseRevisionAnchor: the database record and every trusted head
\* are not older than what the anchor holds; a head may only disappear under
\* a strictly newer database revision, which is what a vault deletion makes.
Verifies(trusted, observed) ==
  /\ NotOlder(trusted, observed)
  /\ \A v \in DOMAIN trusted.heads :
       IF v \in DOMAIN observed.heads
         THEN NotOlder(trusted.heads[v], observed.heads[v])
         ELSE observed.rev > trusted.rev

\* The same with requireExactVaultSet: neither side has a vault of its own.
VerifiesExactly(trusted, observed) ==
  /\ DOMAIN trusted.heads = DOMAIN observed.heads
  /\ Verifies(trusted, observed)

-----------------------------------------------------------------------------
WithHead(heads, v, head) ==
  [w \in DOMAIN heads \cup {v} |-> IF w = v THEN head ELSE heads[w]]

WithoutHead(heads, v) == [w \in DOMAIN heads \ {v} |-> heads[w]]

AnchorFromVaults(database, heads) ==
  [rev |-> database.rev, digest |-> database.digest, heads |-> heads]

AnchorWithCreatedVault(prior, database, v, head) ==
  AnchorFromVaults(database, WithHead(prior.heads, v, head))

AnchorWithUpdatedVault(prior, v, head) ==
  [prior EXCEPT !.heads = WithHead(prior.heads, v, head)]

AnchorWithoutVault(prior, database, v) ==
  AnchorFromVaults(database, WithoutHead(prior.heads, v))

\* A catalog-only mutation (a rename, a recovery slot added or revoked).
AnchorWithDatabase(prior, database) == AnchorFromVaults(database, prior.heads)

-----------------------------------------------------------------------------

Kinds == {"rename", "create", "update", "delete"}

\* A mutation carries the next database record and the next vault head; the
\* expected revisions are their predecessors (assertNextRevision).
\*   database : the record to publish (not used by "update")
\*   vault, head : the vault document (head not used by "rename", "delete")
\*   expected : the vault revision compared by "update" and "delete"
DatabaseCurrent(store, m) == store.database.rev + 1 = m.database.rev

\* Mutant: the vault revision is not compared.
VaultPresent(store, m) == m.vault \in DOMAIN store.heads

VaultCurrent(store, m) == /\ m.vault \in DOMAIN store.heads
                          /\ store.heads[m.vault].rev = m.expected

\* The compare half of each compare-and-set.
StoreAccepts(store, m) ==
  \/ /\ m.kind = "rename"
     /\ DatabaseCurrent(store, m)
  \/ /\ m.kind = "create"
     /\ DatabaseCurrent(store, m)
     /\ m.vault \notin DOMAIN store.heads
  \/ /\ m.kind = "update"
     /\ VaultCurrent(store, m)
  \/ /\ m.kind = "delete"
     /\ DatabaseCurrent(store, m)
     /\ VaultCurrent(store, m)

\* Mutant: a deletion publishes the catalog without the vault.
HeadsOfLiveVaults(heads, m) ==
  IF m.kind \in {"create", "update"} THEN WithHead(heads, m.vault, m.head)
                                     ELSE heads

HeadsAfter(heads, m) ==
  CASE m.kind = "rename" -> heads
    [] m.kind \in {"create", "update"} -> WithHead(heads, m.vault, m.head)
    [] m.kind = "delete" -> WithoutHead(heads, m.vault)

\* The set half: one atomic publication.
StoreApplied(store, m) ==
  [database |-> IF m.kind = "update" THEN store.database ELSE m.database,
   heads    |-> HeadsAfter(store.heads, m)]

\* The anchor after a mutation: anchorWithCreatedVault, anchorWithUpdatedVault,
\* anchorWithoutVault and the catalog-only case of #databaseMutation.
AnchorAfter(before, m) ==
  CASE m.kind = "rename" -> AnchorWithDatabase(before, m.database)
    [] m.kind = "create" ->
         AnchorWithCreatedVault(before, m.database, m.vault, m.head)
    [] m.kind = "update" -> AnchorWithUpdatedVault(before, m.vault, m.head)
    [] m.kind = "delete" -> AnchorWithoutVault(before, m.database, m.vault)

\* The state of the store as the anchor sees it.
StoreAnchor(store) == AnchorFromVaults(store.database, store.heads)
=============================================================================
