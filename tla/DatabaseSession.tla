--------------------------- MODULE DatabaseSession ---------------------------
(***************************************************************************)
(* Sessions on one encrypted database.  A session opens by authenticating  *)
(* what it reads from the store and comparing it with the trusted anchor   *)
(* of its device; a mutation reads the store, enters the anchor's          *)
(* exclusive transition, calls the store, and publishes the next anchor.   *)
(* Every await of the code is a point where other sessions may act.        *)
(*                                                                         *)
(* The anchor's lock is the mutual exclusion SecureFileTransition          *)
(* establishes: held from the transition's first read to its replacement,  *)
(* and recovered when its owner crashed.                                   *)
(***************************************************************************)
EXTENDS EncryptedDatabaseStore, FiniteSets

CONSTANTS Sessions,      \* processes that open the database
          NoSession,     \* the holder of a free lock
          Devices,       \* key files, each with its own anchor
          DeviceOf,      \* DeviceOf[s]: the key file session s opens with
          Vaults,        \* vault identifiers (randomUUID: never reused)
          FirstVaults,   \* the vaults that exist at the start
          Operations,    \* the kinds of mutation that are performed
          Modes,         \* how sessions open: subset of AllModes
          MaxOps,        \* bound: mutations prepared
          MaxFaults,     \* bound: failures of the store or of the anchor file
          MaxCrashes,    \* bound: processes killed
          MaxRestores    \* bound: restores of the store from a backup

AllModes == {"plain", "accept"}

\* DeviceOf where every session opens with one and the same key file.
OneDevice == [s \in Sessions |-> CHOOSE d \in Devices : TRUE]

ASSUME NoSessionAssumption == NoSession \notin Sessions
ASSUME DevicesAssumption  == DeviceOf \in [Sessions -> Devices]
ASSUME VaultsAssumption   == /\ IsFiniteSet(Vaults) /\ Vaults # {}
                             /\ FirstVaults \subseteq Vaults
ASSUME ChoicesAssumption  == Operations \subseteq Kinds /\ Modes \subseteq AllModes
ASSUME BoundsAssumption   == /\ MaxOps \in Nat
                             /\ MaxFaults \in Nat
                             /\ MaxCrashes \in Nat
                             /\ MaxRestores \in Nat

\* Where a session is between two awaits.
Phases == {"closed",      \* not open, or closed, or poisoned
           "listing",     \* opening: the database record has been read
           "comparing",   \* opening: the vaults have been authenticated
           "accepting",   \* opening: the old anchor is about to be replaced
           "confirming",  \* opening: the new anchor is about to be re-read
           "idle",        \* open, no operation in progress
           "prepared",    \* a mutation has been computed from the cached state
           "observed",    \* the anchor `before` has been computed
           "locked",      \* inside the anchor transition, before the store call
           "stored",      \* inside the anchor transition, the store accepted
           "relisting",   \* verifyCurrentState: the record has been read
           "rechecking"}  \* verifyCurrentState: the vaults have been read

Answers == {"none", "opened", "rollback", "authentication", "conflict",
            "verified", "ok", "refused", "ambiguous"}

VARIABLES store,      \* [database, heads]
          backup,     \* a copy of the store an operator may restore
          anchor,     \* anchor[d]: the trusted anchor of device d
          lock,       \* lock[d]: who runs the anchor transition of d
          pc,         \* pc[s]
          mode,       \* mode[s]: how s is opening
          cached,     \* cached[s]: the database record s holds (#database)
          seen,       \* seen[s]: the state s observed (observed, before)
          pending,    \* pending[s]: the mutation s is performing
          answer,     \* answer[s]: what the last operation of s returned
          clock,      \* the number of mutations prepared; each one's digest
          born,       \* the vault identifiers drawn so far
          accepted,   \* digests of the mutations the store has accepted
          acked,      \* acked[d]: anchors acknowledged on d (see OpenList)
          faults, crashes, restores

control == <<pc, mode, cached, seen, pending, answer>>
budget  == <<faults, crashes, restores>>
vars    == <<store, backup, anchor, lock, control, clock, born, accepted,
             acked, budget>>

-----------------------------------------------------------------------------
(* The first state: an initialized database whose devices are anchored.    *)

\* Initialization publishes an empty catalog at revision 0, and each of the
\* first vaults was created by one mutation.
FirstStore == [database |-> [rev     |-> Cardinality(FirstVaults),
                             digest  |-> 0,
                             catalog |-> FirstVaults],
               heads    |-> [v \in FirstVaults |-> [rev |-> 0, digest |-> 0]]]

NoHead == [rev |-> 0, digest |-> 0]

\* What a session asks the store to do; stamp identifies the request.
Mutation(kind, stamp, database, v, head, expected) ==
  [kind |-> kind, stamp |-> stamp, database |-> database,
   vault |-> v, head |-> head, expected |-> expected]

AnyVault   == CHOOSE v \in Vaults : TRUE
NoMutation == Mutation("rename", 0, FirstStore.database, AnyVault, NoHead, 0)

Init == /\ store    = FirstStore
        /\ backup   = FirstStore
        /\ anchor   = [d \in Devices |-> StoreAnchor(FirstStore)]
        /\ lock     = [d \in Devices |-> NoSession]
        /\ pc       = [s \in Sessions |-> "closed"]
        /\ mode     = [s \in Sessions |-> "plain"]
        /\ cached   = [s \in Sessions |-> FirstStore.database]
        /\ seen     = [s \in Sessions |-> StoreAnchor(FirstStore)]
        /\ pending  = [s \in Sessions |-> NoMutation]
        /\ answer   = [s \in Sessions |-> "none"]
        /\ clock    = 0
        /\ born     = FirstVaults
        /\ accepted = {}
        /\ acked    = [d \in Devices |-> {}]
        /\ faults = 0 /\ crashes = 0 /\ restores = 0

\* Session s goes from phase `from` to phase `to` and its caller sees `reply`.
Goes(s, from, to, reply) ==
  /\ pc[s] = from
  /\ pc' = [pc EXCEPT ![s] = to]
  /\ answer' = [answer EXCEPT ![s] = reply]

AnchorOf(s) == anchor[DeviceOf[s]]
LockOf(s)   == lock[DeviceOf[s]]

-----------------------------------------------------------------------------
(* Opening: openWithSecret.                                                *)

\* store.getDatabase, then the catalog of that record is decrypted.
OpenRead(s) ==
  /\ Goes(s, "closed", "listing", "none")
  /\ \E how \in Modes : mode' = [mode EXCEPT ![s] = how]
  /\ cached' = [cached EXCEPT ![s] = store.database]
  /\ UNCHANGED <<store, backup, anchor, lock, seen, pending, clock,
                 born, accepted, acked, budget>>

CatalogMatches(s) == DOMAIN store.heads = cached[s].catalog

\* store.listVaults and assertCatalogVaultSet (authenticateDatabaseState).
OpenList(s) ==
  /\ IF CatalogMatches(s)
       THEN /\ Goes(s, "listing", "comparing", "none")
            /\ seen' = [seen EXCEPT ![s] =
                          AnchorFromVaults(cached[s], store.heads)]
            \* What is acknowledged from here on is newer than the state a
            \* human chose to accept.
            /\ acked' = IF mode[s] = "accept"
                          THEN [acked EXCEPT ![DeviceOf[s]] = {}]
                          ELSE acked
       ELSE /\ Goes(s, "listing", "closed", "authentication")
            /\ UNCHANGED <<seen, acked>>
  /\ UNCHANGED <<store, backup, anchor, lock, mode, cached, pending,
                 clock, born, accepted, budget>>

\* Mutant: an open heals an anchor that does not match.
OpenHeals(s) ==
  /\ mode[s] = "plain"
  /\ Goes(s, "comparing", "idle", "opened")
  /\ anchor' = [anchor EXCEPT ![DeviceOf[s]] = seen[s]]
  /\ UNCHANGED <<store, backup, lock, mode, cached, seen, pending, clock, born,
                 accepted, acked, budget>>

\* Mutant: an open does not compare.
OpenUnchecked(s) ==
  /\ mode[s] = "plain"
  /\ Goes(s, "comparing", "idle", "opened")
  /\ UNCHANGED <<store, backup, anchor, lock, mode, cached, seen, pending,
                 clock, born, accepted, acked, budget>>

\* reconcileAnchor: an ordinary open never advances the anchor, so anything
\* but the anchored state is refused.
OpenCompare(s) ==
  /\ mode[s] = "plain"
  /\ IF AnchorOf(s) = seen[s] THEN Goes(s, "comparing", "idle", "opened")
                              ELSE Goes(s, "comparing", "closed", "rollback")
  /\ UNCHANGED <<store, backup, anchor, lock, mode, cached, seen,
                 pending, clock, born, accepted, acked, budget>>

\* acceptCurrentAnchor reads the anchor without verifying it.
AcceptRead(s) ==
  /\ mode[s] = "accept"
  /\ Goes(s, "comparing",
          IF AnchorOf(s) = seen[s] THEN "confirming" ELSE "accepting", "none")
  /\ UNCHANGED <<store, backup, anchor, lock, mode, cached, seen, pending,
                 clock, born, accepted, acked, budget>>

\* writeDatabaseRevisionAnchor replaces the file under its lock, whatever the
\* file holds by now.
AcceptWrite(s) ==
  /\ LockOf(s) = NoSession
  /\ Goes(s, "accepting", "confirming", "none")
  /\ anchor' = [anchor EXCEPT ![DeviceOf[s]] = seen[s]]
  /\ UNCHANGED <<store, backup, lock, mode, cached, seen, pending,
                 clock, born, accepted, acked, budget>>

\* Mutant: the anchor is awaited instead of verified.
AcceptAwaits(s) ==
  /\ VerifiesExactly(AnchorOf(s), seen[s])
  /\ Goes(s, "confirming", "idle", "opened")
  /\ UNCHANGED <<store, backup, anchor, lock, mode, cached, seen, pending,
                 clock, born, accepted, acked, budget>>

\* The anchor is read again and must verify exactly; the caller is told
\* whether this open replaced it.
AcceptConfirm(s) ==
  /\ IF VerifiesExactly(AnchorOf(s), seen[s])
       THEN Goes(s, "confirming", "idle", "opened")
       ELSE Goes(s, "confirming", "closed", "authentication")
  /\ UNCHANGED <<store, backup, anchor, lock, mode, cached, seen,
                 pending, clock, born, accepted, acked, budget>>

Close(s) == /\ Goes(s, "idle", "closed", "none")
            /\ UNCHANGED <<store, backup, anchor, lock, mode, cached, seen,
                           pending, clock, born, accepted, acked,
                           budget>>

-----------------------------------------------------------------------------
(* Mutations.                                                              *)

NextDatabase(s, vaults) ==
  [rev |-> cached[s].rev + 1, digest |-> clock + 1, catalog |-> vaults]

\* The current document of v, read by getVaultDocument.
Current(v) == store.heads[v].rev

\* renameVault, and every other catalog-only mutation: the next record is
\* computed from the cached one.
Rename(s) ==
  Mutation("rename", clock + 1, NextDatabase(s, cached[s].catalog),
           AnyVault, NoHead, 0)

\* createVault draws a fresh identifier.
Create(s, v) ==
  Mutation("create", clock + 1, NextDatabase(s, cached[s].catalog \cup {v}),
           v, [rev |-> 0, digest |-> clock + 1], 0)

\* updateVault: the next document follows the one just read.
Update(s, v) ==
  Mutation("update", clock + 1, cached[s],
           v, [rev |-> Current(v) + 1, digest |-> clock + 1], Current(v))

\* deleteVault: the vault is read from the store, the catalog is the cached one.
Delete(s, v) ==
  Mutation("delete", clock + 1, NextDatabase(s, cached[s].catalog \ {v}),
           v, NoHead, Current(v))

Prepared(s, m) ==
  /\ clock < MaxOps
  /\ m.kind \in Operations
  /\ Goes(s, "idle", "prepared", "none")
  /\ pending' = [pending EXCEPT ![s] = m]
  /\ clock' = clock + 1
  /\ UNCHANGED <<store, backup, anchor, lock, mode, cached, seen,
                 accepted, acked, budget>>

PrepareRename(s) == /\ Prepared(s, Rename(s))
                    /\ UNCHANGED born

PrepareCreate(s) == \E v \in Vaults \ born :
                      /\ Prepared(s, Create(s, v))
                      /\ born' = born \cup {v}

PrepareUpdate(s) == \E v \in DOMAIN store.heads :
                      /\ Prepared(s, Update(s, v))
                      /\ UNCHANGED born

PrepareDelete(s) == \E v \in DOMAIN store.heads :
                      /\ Prepared(s, Delete(s, v))
                      /\ UNCHANGED born

\* observedAnchor: the cached record with the vaults listed now.
Observe(s) ==
  /\ Goes(s, "prepared", "observed", "none")
  /\ seen' = [seen EXCEPT ![s] = AnchorFromVaults(cached[s], store.heads)]
  /\ UNCHANGED <<store, backup, anchor, lock, mode, cached, pending,
                 clock, born, accepted, acked, budget>>

\* Mutant: the anchor is verified but its lock is not taken.
EnterUnlocked(s) ==
  /\ LockOf(s) = NoSession
  /\ IF VerifiesExactly(AnchorOf(s), seen[s])
       THEN Goes(s, "observed", "locked", "none")
       ELSE Goes(s, "observed", "idle", "refused")
  /\ UNCHANGED <<store, backup, anchor, lock, mode, cached, seen, pending,
                 clock, born, accepted, acked, budget>>

\* transitionDatabaseRevisionAnchor: under the lock, the stored anchor must
\* verify exactly against `before`; otherwise nothing was attempted.
EnterTransition(s) ==
  /\ LockOf(s) = NoSession
  /\ IF VerifiesExactly(AnchorOf(s), seen[s])
       THEN /\ Goes(s, "observed", "locked", "none")
            /\ lock' = [lock EXCEPT ![DeviceOf[s]] = s]
       ELSE /\ Goes(s, "observed", "idle", "refused")
            /\ UNCHANGED lock
  /\ UNCHANGED <<store, backup, anchor, mode, cached, seen, pending,
                 clock, born, accepted, acked, budget>>

\* The lock is not obtained in time.
LockTimeout(s) ==
  /\ LockOf(s) # NoSession
  /\ \/ Goes(s, "observed", "idle", "refused")
     \/ Goes(s, "accepting", "closed", "authentication")
  /\ UNCHANGED <<store, backup, anchor, lock, mode, cached, seen,
                 pending, clock, born, accepted, acked, budget>>

Accepts(s)  == StoreAccepts(store, pending[s])
Unlock(s)   == lock' = [lock EXCEPT ![DeviceOf[s]] = NoSession]
Publishes(s) == /\ store' = StoreApplied(store, pending[s])
                /\ accepted' = accepted \cup {pending[s].stamp}

\* The store call returns: the mutation is published.
StoreAccept(s) ==
  /\ Accepts(s)
  /\ Goes(s, "locked", "stored", "none")
  /\ Publishes(s)
  /\ UNCHANGED <<backup, anchor, lock, mode, cached, seen, pending,
                 clock, born, acked, budget>>

\* `conflict`: a proven rejection (isProvenRejectedMutation).  The transition
\* ends without a next anchor and the session stays usable.
StoreReject(s) ==
  /\ ~Accepts(s)
  /\ Goes(s, "locked", "idle", "refused")
  /\ Unlock(s)
  /\ UNCHANGED <<store, backup, anchor, mode, cached, seen, pending,
                 clock, born, accepted, acked, budget>>

\* Mutant: every error of the store call counts as a rejection.
StoreFailTrusted(s) ==
  /\ faults < MaxFaults
  /\ faults' = faults + 1
  /\ Goes(s, "locked", "idle", "refused")
  /\ \/ Accepts(s) /\ Publishes(s)
     \/ UNCHANGED <<store, accepted>>
  /\ Unlock(s)
  /\ UNCHANGED <<backup, anchor, mode, cached, seen, pending, clock, born,
                 acked, crashes, restores>>

\* Any other error of the store call leaves the outcome unknown: the session
\* is poisoned and the caller is told so.
StoreFail(s) ==
  /\ faults < MaxFaults
  /\ faults' = faults + 1
  /\ Goes(s, "locked", "closed", "ambiguous")
  /\ \/ Accepts(s) /\ Publishes(s)
     \/ UNCHANGED <<store, accepted>>
  /\ Unlock(s)
  /\ UNCHANGED <<backup, anchor, mode, cached, seen, pending, clock,
                 born, acked, crashes, restores>>

\* The anchor a mutation leaves behind: `before`, changed as the store was.
NextAnchor(s) == AnchorAfter(seen[s], pending[s])

\* The next anchor must verify against both the stored anchor and `before`.
LateVerification(s) == /\ Verifies(AnchorOf(s), NextAnchor(s))
                       /\ Verifies(seen[s], NextAnchor(s))

\* The anchor is replaced and the session adopts the record it published.
\* updateVault leaves the cached record alone.
PublishAnchor(s) ==
  /\ LateVerification(s)
  /\ Goes(s, "stored", "idle", "ok")
  /\ anchor' = [anchor EXCEPT ![DeviceOf[s]] = NextAnchor(s)]
  /\ Unlock(s)
  /\ cached' = [cached EXCEPT ![s] = pending[s].database]
  /\ acked' = [acked EXCEPT ![DeviceOf[s]] = @ \cup {NextAnchor(s)}]
  /\ UNCHANGED <<store, backup, mode, seen, pending, clock, born,
                 accepted, budget>>

\* The store has accepted, but the next anchor does not verify.
PublishRefused(s) ==
  /\ ~LateVerification(s)
  /\ Goes(s, "stored", "closed", "ambiguous")
  /\ Unlock(s)
  /\ UNCHANGED <<store, backup, anchor, mode, cached, seen, pending, clock,
                 born, accepted, acked, budget>>

\* The store has accepted, but the replacement of the anchor file fails,
\* before or after it took effect.
PublishFail(s) ==
  /\ LateVerification(s)
  /\ faults < MaxFaults
  /\ faults' = faults + 1
  /\ \/ UNCHANGED anchor
     \/ anchor' = [anchor EXCEPT ![DeviceOf[s]] = NextAnchor(s)]
  /\ Goes(s, "stored", "closed", "ambiguous")
  /\ Unlock(s)
  /\ UNCHANGED <<store, backup, mode, cached, seen, pending, clock,
                 born, accepted, acked, crashes, restores>>

-----------------------------------------------------------------------------
(* verifyCurrentState: a cached session is checked before it is reused; any *)
(* failure poisons it.                                                      *)

RecheckRead(s) ==
  /\ IF store.database = cached[s]
       THEN Goes(s, "idle", "relisting", "none")
       ELSE Goes(s, "idle", "closed", "conflict")
  /\ UNCHANGED <<store, backup, anchor, lock, mode, cached, seen,
                 pending, clock, born, accepted, acked, budget>>

RecheckList(s) ==
  /\ IF CatalogMatches(s)
       THEN /\ Goes(s, "relisting", "rechecking", "none")
            /\ seen' = [seen EXCEPT ![s] =
                          AnchorFromVaults(cached[s], store.heads)]
       ELSE /\ Goes(s, "relisting", "closed", "authentication")
            /\ UNCHANGED seen
  /\ UNCHANGED <<store, backup, anchor, lock, mode, cached, pending,
                 clock, born, accepted, acked, budget>>

RecheckCompare(s) ==
  /\ IF AnchorOf(s) = seen[s]
       THEN Goes(s, "rechecking", "idle", "verified")
       ELSE Goes(s, "rechecking", "closed", "rollback")
  /\ UNCHANGED <<store, backup, anchor, lock, mode, cached, seen,
                 pending, clock, born, accepted, acked, budget>>

-----------------------------------------------------------------------------
(* The environment.                                                        *)

\* The process is killed; a lock it held is recovered by the next owner.
Crash(s) ==
  /\ crashes < MaxCrashes
  /\ crashes' = crashes + 1
  /\ pc[s] # "closed"
  /\ Goes(s, pc[s], "closed", "none")
  /\ IF LockOf(s) = s THEN Unlock(s) ELSE UNCHANGED lock
  /\ UNCHANGED <<store, backup, anchor, mode, cached, seen, pending,
                 clock, born, accepted, acked, faults, restores>>

\* An operator copies the datastore, and later puts the copy back.
Backup ==
  /\ restores < MaxRestores
  /\ backup # store
  /\ backup' = store
  /\ UNCHANGED <<store, anchor, lock, control, clock, born, accepted, acked,
                 budget>>

Restore ==
  /\ restores < MaxRestores
  /\ restores' = restores + 1
  /\ store # backup
  /\ store' = backup
  /\ UNCHANGED <<backup, anchor, lock, control, clock, born, accepted, acked,
                 faults, crashes>>

-----------------------------------------------------------------------------
Opening(s)  == \/ OpenRead(s) \/ OpenList(s) \/ OpenCompare(s)
               \/ AcceptRead(s) \/ AcceptWrite(s) \/ AcceptConfirm(s)
Preparing(s) == \/ PrepareRename(s) \/ PrepareCreate(s)
                \/ PrepareUpdate(s) \/ PrepareDelete(s)
Mutating(s) == \/ Observe(s) \/ EnterTransition(s) \/ LockTimeout(s)
               \/ StoreAccept(s) \/ StoreReject(s) \/ StoreFail(s)
               \/ PublishAnchor(s) \/ PublishRefused(s) \/ PublishFail(s)
Rechecking(s) == RecheckRead(s) \/ RecheckList(s) \/ RecheckCompare(s)

Next == \/ \E s \in Sessions : \/ Opening(s) \/ Preparing(s) \/ Mutating(s)
                               \/ Rechecking(s) \/ Close(s) \/ Crash(s)
        \/ Backup
        \/ Restore

Spec == Init /\ [][Next]_vars

\* A session's own code runs on once started; what a user starts (an open, a
\* mutation, a recheck, a close), and what goes wrong, is never owed.
Proceeds(s) == \/ OpenList(s) \/ OpenCompare(s)
               \/ AcceptRead(s) \/ AcceptWrite(s) \/ AcceptConfirm(s)
               \/ Observe(s) \/ EnterTransition(s) \/ LockTimeout(s)
               \/ StoreAccept(s) \/ StoreReject(s)
               \/ PublishAnchor(s) \/ PublishRefused(s)
               \/ RecheckList(s) \/ RecheckCompare(s)

LiveSpec == Spec /\ \A s \in Sessions : WF_vars(Proceeds(s))

-----------------------------------------------------------------------------
Databases == [rev : Nat, digest : Nat, catalog : SUBSET Vaults]
Mutations == [kind : Kinds, stamp : Nat, database : Databases,
              vault : Vaults, head : VaultHead, expected : Nat]

IsStore(st) == /\ st = [database |-> st.database, heads |-> st.heads]
               /\ st.database \in Databases
               /\ IsHeads(st.heads, Vaults)

AnchorsIn(f, S) == /\ f = [x \in S |-> f[x]]
                   /\ \A x \in S : IsAnchor(f[x], Vaults)

StoreTypeOK   == IsStore(store) /\ IsStore(backup)
AnchorTypeOK  == /\ AnchorsIn(anchor, Devices)
                 /\ AnchorsIn(seen, Sessions)
                 /\ acked = [d \in Devices |-> acked[d]]
                 /\ \A d \in Devices : \A a \in acked[d] : IsAnchor(a, Vaults)
SessionTypeOK == /\ pc \in [Sessions -> Phases]
                 /\ answer \in [Sessions -> Answers]
                 /\ mode \in [Sessions -> AllModes]
                 /\ cached \in [Sessions -> Databases]
                 /\ lock \in [Devices -> Sessions \cup {NoSession}]
RequestTypeOK == /\ pending \in [Sessions -> Mutations]
                 /\ clock \in Nat
                 /\ born \subseteq Vaults
                 /\ accepted \subseteq Nat
                 /\ faults \in Nat /\ crashes \in Nat /\ restores \in Nat

TypeOK == StoreTypeOK /\ AnchorTypeOK /\ SessionTypeOK /\ RequestTypeOK

NeverRestored == restores = 0

\* Without a restore every acknowledged mutation is still in the store, or
\* was superseded by a later revision: concurrent sessions never overwrite
\* each other, and no failure loses what a caller was told is done.
AckedSurvives ==
  NeverRestored => \A d \in Devices : \A a \in acked[d] :
                     Verifies(a, StoreAnchor(store))

\* Without a restore no anchor is ahead of the store or on another branch:
\* a `rollback` refusal then only ever means that the store moved on.
AnchorBehindStore ==
  NeverRestored => \A d \in Devices : Verifies(anchor[d], StoreAnchor(store))

\* The catalog always names exactly the stored vaults, whatever sessions
\* with stale catalogs attempt; otherwise no open would ever pass
\* assertCatalogVaultSet again.
CatalogNamesVaults ==
  NeverRestored => store.database.catalog = DOMAIN store.heads

\* An error that is not `ambiguous-commit` proves that the mutation was not
\* written (isProvenRejectedMutation and the transition's own refusals).
FailureProvesNoWrite ==
  \A s \in Sessions : answer[s] = "refused" =>
                       pending[s].stamp \notin accepted

\* The verification made after the store has accepted cannot fail without a
\* restore: what was verified under the lock before the call suffices, so
\* only a real fault leaves an accepted mutation unanchored.
LateVerificationPasses ==
  NeverRestored => \A s \in Sessions : pc[s] = "stored" => LateVerification(s)

\* With one key file, no fault, crash, restore or acceptance: whenever no
\* transition runs, the anchor is the store's state, so the next open passes.
AnchorMatchesStore ==
  /\ \A s, t \in Sessions : DeviceOf[s] = DeviceOf[t]
  /\ Modes = {"plain"}
  /\ faults + crashes + restores = 0
  => \A s \in Sessions : LockOf(s) = NoSession => AnchorOf(s) = StoreAnchor(store)

\* An accepted update is of a vault that was listed in the state it was verified
\* in.  anchorWithUpdatedVault would add the head of any other one, and with it
\* bring back a vault that was removed: for that the store must be restored
\* while the update is in progress.
UpdatesAreListed ==
  \A s \in Sessions : pc[s] = "stored" /\ pending[s].kind = "update" =>
                       pending[s].vault \in DOMAIN seen[s].heads

\* A key file under which states are accepted by hand is used by one session:
\* acceptCurrentAnchor writes what it read, over what another session of the
\* key file has anchored since.
AcceptsAlone ==
  "accept" \in Modes => \A s, t \in Sessions : DeviceOf[s] = DeviceOf[t] => s = t

\* The anchor of a device never forgets what was acknowledged on that device,
\* even when the store was rolled back and other devices wrote to it since, as
\* long as AcceptsAlone and UpdatesAreListed hold.
AnchorRemembers ==
  \A d \in Devices : \A a \in acked[d] : Verifies(a, anchor[d])

\* An ordinary open, and a recheck that passes, never vouch for a state older
\* than, or forked from, what was acknowledged on the device since a state was
\* last accepted by hand, under the same two conditions.
RollbackRefused ==
  [][\A s \in Sessions :
       pc'[s] = "idle" /\ (pc[s] = "rechecking" \/ (pc[s] = "comparing" /\ mode[s] = "plain"))
         => \A a \in acked[DeviceOf[s]] : Verifies(a, seen[s])]_vars

\* docs/cli-reference.md: "A failed removal never advances the revision
\* anchor: the previously working key keeps working", that is, the anchor
\* still matches what an open would read.
FailedRemovalKeepsKeyWorking ==
  \A s \in Sessions :
    /\ pending[s].kind = "delete"
    /\ answer[s] \in {"refused", "ambiguous"}
    => AnchorOf(s) = StoreAnchor(store)

\* Whatever a session starts comes to an end, open and idle or closed, and then
\* it does not hold the anchor's lock.
SessionSettles(s) == pc[s] \notin {"idle", "closed"} ~>
                       pc[s] \in {"idle", "closed"} /\ LockOf(s) # s
EverySessionSettles == \A s \in Sessions : SessionSettles(s)
=============================================================================
