# Kavrix: models, model checking and proofs

This directory holds TLA+ models of kavrix (a local-first encrypted secrets
vault: TypeScript monorepo, `src/`), the TLC configurations that check them on
small instances, and TLAPS proofs about them.

## 1. The system

Kavrix is a command-line program, a full-screen terminal interface and an
"agent broker" that runs approved commands with secrets injected. There is no
server: every invocation is an operating-system process of its own, and the
processes meet in files (or in a MongoDB collection). The pieces that keep
state, and what can go wrong with each:

| Component | State | Operations | Hard behaviour |
|---|---|---|---|
| protected files (`packages/key-files/src/filesystem.ts`, `canonical-json-document.ts`) | a lock file per document, the document's inode and bytes, temporary files | lock, recover a stale lock, read-callback-rename, create, owned publications | processes that race, die while holding the lock, pids that are reused |
| authorization state (`apps/cli/src/execution/authorization-state.ts`, `authorization-state-file.ts`) | sealed policies, grants, audit ring, sequence | open, put/remove policy, put/revoke grant, consume a use, record an event | two runs claiming the last use, denials that must be audited |
| revision anchor (`packages/key-files/src/database-revision-anchor.ts`) | per database: revision and digest of the newest accepted state, one head per vault | create, read, accept a newer state | a store rolled back to an older, perfectly authentic state |
| encrypted database store (`packages/core/src/ports/encrypted-database-store.ts`) | one database record with the catalog and its vault records | create, read, compare-and-swap update of database and vaults | conflicting writers, a write whose outcome is unknown |
| file store (`packages/storage/src/file-encrypted-database.ts`) | container file, lock file, backup and temporary links | the same, on one file | crash between two links or renames, recovery of its lock, rollback of a publication |
| MongoDB store (`packages/storage/src/mongo-encrypted-database.ts`) | documents in a collection | the same, in transactions | lost acknowledgements |
| database session (`apps/cli/src/database-session.ts`) | decrypted catalog, the anchor, poisoned flag | open, vault create/rename/update/delete, recovery slots, close | store and anchor are two files and no transaction spans them |
| policy engine and grants (`apps/cli/src/execution/{engine,policy-*}.ts`) | none (pure) | evaluate a request | precedence of denials |
| agent broker (`apps/cli/src/execution/agent-command.ts`, `broker-protocol.ts`) | connections, queue, active runs, serialized confirmations and audit | accept, enqueue, confirm, run, shut down | bounded queue, wait timeout, shutdown while running |
| runner (`packages/runner/src/executor.ts`) | child process, timers, output limits | spawn, stream, time out, kill | exit racing timeout and abort |
| collaborative vault (`packages/storage/src/collaborative-vault-store.ts`, `packages/crypto/src/collaboration.ts`, `packages/key-files/src/collaboration-*.ts`) | generations, member keys, operation/migration/destruction journals, anchors | create, invite, rotate, migrate, destroy | crash recovery from journals |
| session unlock, local and structured vaults, profiles, self-update (`apps/cli/src/*`) | session key file, vault files, profile registry, staged binary | unlock, lock, read, write, switch, update | expiry, atomic replacement |
| terminal interface (`packages/tui`, `apps/cli/src/tui-session.ts`) | screen stack, pending effects | keys, results of effects | results that arrive after the screen changed |
| pure libraries (`packages/schemas`, `packages/crypto`, `packages/core`) | none | validation, sealing, derivation | numeric edges, canonical form |

## 2. How the parts interact

A command opens the *store* (a file or a MongoDB collection) through a
`DatabaseSession`. The session reads the database record and its vaults,
authenticates them, and compares revision and digests with the *anchor* that
lies beside the user's key file: an old but authentic store is a rollback. A
mutation prepares the next record from the cached one, enters the anchor's
exclusive transition (a *protected file*: lock, read, callback, rename), calls
the store inside it, and publishes the next anchor. Several processes of one
user share the anchor; users with key files of their own share only the store.
The authorization state of the agent broker is another protected file. Nothing
spans the store and the anchor but the order of these steps, and every `await`
between them is a point where another process may act, fail or die.

## 3. The modules

A detailed module keeps the names of the code where it can: an action is a
function or the stretch of a function between two awaits, a variable is a field,
a file or a collection. Each module's header says what it stands for and what it
leaves out; `PROJECT.json` maps every definition to the lines it translates.

| Module | Models | Proofs |
|---|---|---|
| `AtomicDocument` | what one protected document promises: a use counter with an audit trail (abstract) | |
| `SecureFileTransition` | `withExclusiveSecureFile`: lock, stale-lock recovery, read, callback, replacement, readback; refines `AtomicDocument` | `SecureFileTransition_proofs` |
| `ProtectedFile` | writing, replacing, streaming, owning and deleting one file, on POSIX and Windows | |
| `AtomicContainer` | what one data file promises to whoever writes it (abstract) | |
| `FileEncryptedDatabase` | the file store: lock for life, publication by link and rename, rollback, kills; refines `AtomicContainer` | `FileEncryptedDatabase_proofs` |
| `AtomicStore` | what the persistence port promises of every call (abstract) | |
| `MongoEncryptedDatabase` | the store on MongoDB: conditional statements, transactions, retries, lost replies; refines `AtomicStore` | |
| `EncryptedDatabaseStore` | the port's compare-and-set and the revision anchor with its verification (operators) | `DatabaseSession_proofs` |
| `DatabaseSession` | open, `--accept-current`, the mutations, `verifyCurrentState`; stores that fail or are restored, crashes | `DatabaseSession_proofs` |
| `Initialization` | `init` for a new database beside other commands on the registry of profiles, and healing | `Initialization_proofs` |
| `RecoveryKits` | creation, use and revocation of kits, each with an anchor of its own | |
| `SessionUnlock` | the session file and its machine key, shared by profiles with one key file | |
| `DatabaseMigration` | the staged migration of a legacy vault, its codes and cleanup | |
| `LegacyVault` | the commands of a legacy vault: document, key file, anchor, kits, on a file or a collection | |
| `StructuredVault` | the plaintext of one vault under structured and flat commands, with its history | |
| `PolicyEngine` | permission entries: decision, explanation, lint, diff, suggestions | |
| `RunCommand` | `kavrix run`: grants, policies, confirmation, claims, audit, and the sealed authorization state | |
| `AgentBroker` | one `agent run` session: slots, queue, authorization, children, frames, sealed audit, shutdown | `AgentBroker_proofs` |
| `Executor` | one supervised child and a descendant, with every way of termination | in the module |
| `CollaborativeVaultStore` | publications, destructions, migrations, registries, checkpoints as transactions | `CollaborativeVaultStore_proofs` |
| `CollaborationDevice` | a device's operation and destruction journals, its anchors, over a store that may be restored | `CollaborationDevice_proofs` |
| `CollaborationMigration` | the migration journal of several machines and the anchors it advances | |
| `CollaborationIdentity` | the root file of an identity, certificates, revocation | |
| `CollaborationChain`, `CollaborationDocument`, `CollaborationConsent` | what a reader accepts of chains of links, of documents, of approvals, transfers and destructions | |
| `KeyRotation`, `AttachmentStream` | the checkpoint of a rotation with its caller; the secret stream | |
| `SelfUpdate` | `kavrix update` against a moving tag and other installations | |
| `TuiState`, `AppRouter`, `Onboarding`, `TerminalSession` | reducer of the vault browser, router of the screens, setup wizard, backend with its timers | |
| `MCLocks`, `MCProgress`, `MCSessions`, `MCExecution`, `MCCollaboration`, `MCClient` | instances, bounds and symmetry for TLC | |

Definitions named "Mutant: ..." in a comment are not used by the specifications:
each is a plausible bug in the definition that follows it. Replacing that
definition by the mutant makes TLC find the property violated that
`PROJECT.json` pairs with it.

An MC module puts several components beside one another. `which`, fixed in the
initial state, names the one a behaviour belongs to; the others keep their
initial state. A run is therefore the union of the runs of its components, not
their product, and a property conjoins what is checked of each. Components that
do interact are composed inside the modules: sessions with stores and anchors in
`DatabaseSession`, profiles with databases in `Initialization`, a device's files
with the store in `CollaborationDevice`, the sealed state with runs in
`RunCommand`.

### SecureFileTransition

An element of `Procs` is one operating-system process performing one
transition; it also names the inode of the one lock file it may create. `pc`
follows `acquireReplacementLock` (create with `O_EXCL`; on `EEXIST` inspect the
lock, re-check its identity, unlink it, retry, at most
`MAX_LOCK_ACQUISITION_ATTEMPTS` times), then the read, the callback's decision,
the capture of the inode, the rename, the checks after it, the readback that
turns a failed publication into `published`, `not-published` or `uncertain`,
and the release. A lock's age is one of the three ranges the code tells apart:
younger than the write grace, older, older than the absolute limit. The
document's content is that of `consumeGrantUse`, because a use counter with an
audit trail shows lost updates, double claims and false reports alike.

Two assumptions about time. A lock ages only when nobody works under it any
more: the code's own comments say that the owner record is written "in
milliseconds" and that transitions hold locks "for seconds", against a grace of
a minute and a limit of a day. And `SoloRecovery`: no two processes are inside
`recoverStaleLock` at once. The code does not enforce the second one: with it
everything below holds; without it see the findings. (In `FileEncryptedDatabase`
the constant of that name says only that no two processes are between the last
comparison and the unlink.)

### ProtectedFile

`at` maps a name (the path and the hidden names of the operations) to an inode,
`body` an inode to its bytes; operation k makes inode k. The actions are the
system calls of `writeSecureFile`, `replaceSecureFile`, `writeSecureStream`,
`deleteSecureFile` and of the owned publications, which write in place, keep the
descriptor, and replace or empty the file again. `platform` selects the rename
of POSIX or the displaced file of Windows. `FilesAreSafe` says that a file that
was reported written stays, whole and under some name, until another one is put
over it or it is deleted (`WrittenStays`); on POSIX also that a failure callers
take for definite left nothing in place (`DefiniteFailures`), and that an owner
that emptied its file left none of what it wrote but under another command's
quarantine name (`CleanedIsGone`). What Windows does instead is in section 8.

### EncryptedDatabaseStore, DatabaseSession

Digests are numbers, each mutation having its own; encrypted payloads and
authentication are not modelled beyond that (an open that authenticates is the
only kind there is). `store` is the database record with its catalog and the
heads of the vaults; `StoreAccepts` and `StoreApplied` are the port's compare
and swap. A session's `pc` has one value per await of `open`,
`acceptCurrentAnchor`, the four kinds of mutation and `verifyCurrentState`;
`cached` is `#database`, `seen` the anchor computed from the last observation,
`pending` the mutation in progress. `lock[d]` abstracts the file lock proved
exclusive in `SecureFileTransition`; a crash frees it, as its recovery does.
The environment may fail a store call with or without its effect, fail the
replacement of the anchor, kill a session, and restore the store from a copy
taken at any earlier moment. Every kind of error the code maps to
`ambiguous-commit` ends in `"ambiguous"`, every proven rejection in `"refused"`.

### FileEncryptedDatabase

A process opens the store once and keeps the lock until it closes. `dir` is
the directory: which name (data file, temporary, backup) is which inode, so
`Links` is the link count the code's `nlink` checks read. `Stage` to `Retain`
are the steps of `publishContainer` in `replace` mode between which a process
may be killed or a system call may fail; `Undo` and its companions are
`rollbackPublishedContainer`. A container is the set of mutations it includes,
its revision their number. A failed cleanup leaves its file behind, and a
failed creation of the lock may leave a lock without an owner, as in the code.
`inspectExistingLock` and each read of the container are single steps.

The refinement maps `value` to `Committed`: the data file's container, except
that while a replacement may still be undone it is the container replaced.
`AtomicContainer` then says that mutations are taken whole and once, in one
order, that reports are true, and that a mutation of unknown outcome is decided
no later than its report.

### AgentBroker, Executor, RunCommand

A connection carries one request. `pc` has one value per await of the request's
handler; `audits` is the promise chain that serializes the operations on the
sealed state, `toFlush` and `barrier` the shutdown that waits for them. A socket
may close, a child may exit and an operation on the sealed state may fail at any
await. `AgentBroker` takes a child as started, running or gone; `Executor` is
what happens to it: process groups, job objects, timers, abort, output limits,
and descendants that escape. `RunCommand` is the other user of the sealed state:
several commands read it, wait for their operator, claim uses in transitions of
one step each (what `SecureFileTransition` justifies) and record the outcome.

### Collaboration

The library has four kinds of state, and each has its module: the store's
collections, a device's files, a migration's files and an identity's files. The
store's methods run in transactions of snapshot isolation: `Begin` takes a
snapshot into `view`, `Commit` requires that no document the transaction writes
has changed since. The three reader modules take signatures as unforgeable and
let a server put together whatever was signed.

## 4. What the runs check

| Run | Components and bounds | Distinct states |
|---|---|---|
| `locks` | `SecureFileTransition` (3 interchangeable processes, 2 attempts, 1 fault); `FileEncryptedDatabase` (3 processes, 2 mutations, 2 faults, 2 kills); `LegacyVault` (2 commands, 1 fault, kill or restore, either store); `ProtectedFile` (3 operations of 2 processes, 1 fault or kill, either platform) | 1.3 million |
| `filedb_progress` | `FileEncryptedDatabase` (3 processes, 1 mutation, 2 faults, 2 kills) | 0.19 million |
| `sessions` | `DatabaseSession`: two key files with a fault (creations and updates), one key file with every mutation, two key files with a restore (updates); `StructuredVault`; `CollaborationChain`, `CollaborationDocument`, `CollaborationConsent` | 0.63 million |
| `execution` | `AgentBroker` (3 requests, 1 slot, 1 queue place, 1 fault); `Executor`; `RunCommand` (2 runs, 2 grants, 2 policies, 4 changes); `PolicyEngine` (about 400 policies) | 2.2 million |
| `progress` | `SecureFileTransition` (2 processes, 4 attempts, overlapping recoveries), `AgentBroker` (2 requests), `Executor`, `DatabaseSession` (2 sessions, 1 mutation, 1 fault, 1 crash) | 0.15 million |
| `collaboration` | `CollaborativeVaultStore` (4 operations, 2 devices), `CollaborationDevice` (2 operations, 2 processes, 1 restore), `CollaborationMigration` (2 machines), `CollaborationIdentity` (2 devices, 3 places) | 1.3 million |
| `client` | `Initialization`, `SessionUnlock`, `RecoveryKits`, `SelfUpdate`, `MongoEncryptedDatabase`, `DatabaseMigration`, `KeyRotation`, `AttachmentStream`, `TuiState`, `TerminalSession`, `AppRouter`, `Onboarding` | 1.9 million |
| `securefile_doubleclaim`, `dbsession_removal`, `filedb_lockstolen`, `filedb_killed`, `onboarding_cancelled` | one component each | violated: section 5 |

What the properties say, by run:

- `locks`. `LockOfHolderStays`: a lock that is worked under is its owner's.
  `Linearizable`: a transition is one step of `AtomicDocument`, and is answered
  truly. `NothingIsLost`: the generation a data file displaced can be restored
  until the new one is reported, reports are true, an acknowledged write of a
  legacy vault survives and its owner keeps access, a protected file is whole.
- `filedb_progress`. `StoreCallsEnd`: every call ends and a dead owner's lock is
  taken over. `ExclusiveForLifetime`, `Implements`: a data file has one writer, and
  is an `AtomicContainer`.
- `sessions`. `AckedSurvives`: no acknowledged mutation is lost or forked.
  `AnchorBehindStore`: no anchor leads the store. `CatalogNamesVaults`: catalog
  and vaults agree. `FailureProvesNoWrite`: a refusal means that nothing was
  written. `LateVerificationPasses`: the check made after the store accepted
  cannot fail. `AnchorsAreTrue`: an anchor never forgets what was acknowledged
  with its key file, and with one key file and no fault it is the store's state
  whenever no transition runs; the run also checks what the theorem about it assumes.
  `RollbackRefused`: no open or recheck accepts a store that has lost what this
  key file acknowledged. `VaultsStayUsable`, `EditsAreKept`: flat commands work
  whatever the structured ones did; every update keeps what it replaced.
  `OnlyWhatWasSigned`: a reader of a collaborative vault accepts only links,
  documents and consents that their signers made for that place.
- `execution`. `LimitsHold`: slots, queue and uses. `AnswersAreTrue`: one verdict,
  which agrees with the child and with the sealed audit. `ChildrenAreCovered`: no
  child of a standing connection outlives the secrets. `SettlesCleanly`: no
  timer, listener, secret or leader is left, and a result names what ended the
  child. `RunsAreAuthorized`: uses are claims, verdicts are recorded, and a deny
  policy stored before the run blocks it. `AuditIsTail`: the ring is the
  tail of what happened. `ToldIsTrue`: explanation, lint, diff and suggestions
  agree with the decision.
- `progress`. Every operation on a protected file ends and a lock left behind never
  blocks it for good, the broker shuts down, a requested termination settles,
  every operation of a session ends without keeping the anchor's lock. Processes
  and sessions are interchangeable, so the first stands for both.
- `collaboration`. `StoreAnswersTruly`: one chain, and one answer per operation
  exactly when it was applied. `DeniedDevicesWriteNothing`: no link under a
  registry that denies its writer. `JournalsKeepTheBytes`: a retry publishes the
  same bytes. `AnchorsNeverGoBack`; `FilesAgree`: journals, anchors and the store
  tell one story, and a device has one pair of keys.
- `client`. `AllOrNothing`: a profile names a complete database, and a plain
  failure left nothing. `NeverLockedOut`: the owner and every active kit can open
  the database. `UpdatesGoForward`; `MigrationCodesAreTrue`; `DataIsWhole`: the
  old key goes last, a committed attachment is whole. `OperatorDecides`: what is
  sent is what was confirmed. `SecretsAreTimed`: no unlock outlives its time or
  its revocation. `EveryCallIsAtomic`: a call of the MongoDB store is one step of
  `AtomicStore`.

**Bounds.** Three processes are the least that show a recovery race (one that
dies, two that recover); two sessions the least for a race between mutations,
and two devices the least for anchors that disagree. Two faults in the file
store let a failure meet a failing rollback or cleanup; the second mutation of
a file is the one that can be based on a stale read or be undone under an
acknowledged one. Two mutations of a database suffice for a conflict and for a
revision that two histories share. One slot and one queue place make the third
request meet a full queue. A restore needs one copy: an older state restored
twice is the same state. Some instances take less than every kind of operation
to stay small: in `sessions` the instance with a fault creates and updates, the
one with a restore only updates, and rename and delete are in the instance
without faults and in `dbsession_removal`; the sessions of `progress`
update and delete, and the other mutations take the same steps. The theorems of
`DatabaseSession_proofs` hold for all kinds. `ProtectedFile` also passes with
four operations, a size that is left out of the run for its time. `faults`,
`kills`, `crashes`, `restores`, `clock` and the counters named `Max...` exist
only to be bounded.

Symmetry is used only in `locks`, over the three processes, which no other
constant tells apart. Deadlock is checked in `sessions` and `dbsession_removal`; everywhere
else processes run once and stop, and the check is off.

**Fairness.** It is stated for what the code does once it has begun:
`SecureFileTransition` (a process takes its next step, and time passes: locks
grow old), `FileEncryptedDatabase` and `DatabaseSession` (a call goes on),
`AgentBroker` (the event loop runs what is ready and timers fire; the operator
answers, children end and clients leave, which the code does wait for without a
limit), `Executor` (timers fire, a killed process ends; nothing is assumed of one
that was not killed). Elsewhere the code has no unbounded waits of its own: a
busy lock is answered or times out, a queue has a wait limit. What users start
(opening, mutating, closing), faults, kills and restores are never fair.

## 5. Findings

Each is a run expected to be violated, with the statement it refutes in
`PROJECT.json`.

1. **A stale lock's recovery may delete a live lock** (`filesystem.ts:997`). The
   identity is compared and then unlinked by path in a later call. If two
   processes recover one stale lock, the slower unlinks the faster's new lock;
   both then hold the document, and since the inode the rename expects is
   captured after the callback, two callers can both be told they hold the last
   use of a grant.
2. **A failed vault removal may leave the key file unusable**
   (`database-session.ts:1649`): the store accepted, the anchor could not
   follow, ordinary opens refuse until `--accept-current`. The documentation
   says a failed removal leaves the key working.
3. **The same race in the file store's lock** (`file-encrypted-database.ts:1049`):
   two processes have the store open at once.
4. **A kill between the backup link and the rename** leaves a data file with two
   names; every later open takes the dead lock over and then refuses the file.
5. **Escape at the wizard's last question reports a cancelled setup**
   (`local-vault-cli.ts:4183`): "No vault was created", although it was.

## 6. What is proved

TLAPS proves the following for every value of the constants, from the
assumptions named in the modules, all of which TLC evaluates in the runs. They
say that bounds are natural numbers, that null values are not elements of the
sets beside them, and that maps have the domains they are used on.

**`SecureFileTransition_proofs`.** `TypeCorrect`, `HolderKeepsItsLock`,
`Exclusive`, `PublishedStays`, `FailureIsProof` and `Refinement`, all under
`SoloRecovery`. The lock invariant `LockInv` adds to the lock property that only
the lock of a process that is gone ever looks stale (`StaleInv`), and that a
process about to unlink is the only one that recovers and that the lock path
still names the lock it has seen (`RecoveryInv`); without these the lock
property is not inductive. `LinearInv` relates what a process read (`prior`),
what it decided and what it reported to the document, and holds because nobody
else can be between the read and the rename. `Refinement` follows from both: the
rename is the step of `AtomicDocument`, every other step is an answer or a
stutter.

**`FileEncryptedDatabase_proofs`.** `Exclusive`, `AnswersHold`, `GenerationKept`
and `Refinement` (the data file implements `AtomicContainer`), under
`SoloRecovery`. `RemovalInv` says that whoever is about to unlink a lock has found
its owner dead and the path still names that lock; with `OwnerInv` (an owner's
lock is on the path) it gives exclusion. `FreshInv` keeps the names and the
content of a mutation that was not staged yet free, `JobInv` says at every step
of a publication which inode has which name, and `CallerInv` that what a caller
prepares from is included in the data file. The last one is what carries the
compare-and-set: containers are compared by revision, their number of mutations,
and because the caller's base is a subset of the data, equal numbers mean equal
containers.

**`DatabaseSession_proofs`** (with the theorems on `EncryptedDatabaseStore`).
`Verifies` is reflexive and, as `ForksAreDetected` states, antisymmetric: a fork
cannot pass the check in both directions. It is not transitive, because a vault
that was deleted may come back in an anchor further on; so the invariant relates
every anchor to the store and never two anchors to each other. `TypeCorrect`,
`FailureIsHonest`, `AcknowledgedSurvives`, `AnchorsFollowStore`, `CatalogAgrees`
and `AcceptedIsAnchored` follow from one inductive invariant `Inductive`:

- `Invariants`: types, the shape of pending mutations, who holds which lock and
  what a session knows while it holds it (`LockInv`, `BeforeInv`), and that vault
  identifiers and stamps are fresh;
- `StampInv`: a mutation still being worked on has a stamp of its own that the
  store has not accepted, hence `FailureProvesNoWrite`;
- `Lineage`, as long as nothing was restored: every cached record, observation,
  anchor and acknowledgement verifies against the store as it is now.
  Each is a separate property a unit test might check; only together are they
  inductive, because a new anchor is computed from an observation, which was
  computed from a cached record and a listing made at different times.

`AnchorsRemember` and `RollbacksAreRefused` (the property `RollbackRefused`) hold
whatever is restored, and say nothing about the store: the invariant is `Remembers`,
that is `AnchorRemembers` with `HolderInv`, by which the anchor of a lock holder
lists what the holder has seen, and `AcceptInv`, by which nothing is acknowledged
while a state is being accepted. `Verifies` is not transitive, and the step from an
acknowledged state over the anchor to the next anchor fails in exactly two ways,
which TLC also finds; each is excluded by a hypothesis. `AcceptsAlone` is about the
constants: a key file under which states are accepted by hand belongs to one session.
`UpdatesAreListed` is about behaviours: an accepted update is of a vault listed when
the update was observed. `ListedWithoutRestore` proves it as long as nothing was
restored, and the run `sessions` checks it with a restore and sessions that only
update; where vaults are created and deleted too, a restore during the update
breaks it (section 8). `AnchorIsStore` is about users with one key file
whose calls do not fail (`Steady`): whenever no transition runs, the anchor is the
state of the store. `SteadyInv` adds the moment between the store's answer and the
replacement of the anchor, when the anchor about to be written is that state.

**`AgentBroker_proofs`.** `Limits`, `Answers` and `Children`, from `BrokerSafe`.
`SlotInv` says that the counters are the cardinalities of the sets of requests
they stand for and that nobody waits while a slot is free; `UseInv` that every
child is covered by a reserved use; `AuditInv` that an operation in the sealed
chain is awaited by the request it belongs to; `WireInv` what the frames written
to a client say of what is remembered of it; `ChildInv` that only a torn-down
connection has a killed child; `RecordInv` that a verdict is in the sealed audit
or still in the chain, an `allowed` being followed by its outcome; `ClosingInv`
that the secrets go only when no socket is open. `RecordInv` is what makes
`Answers` inductive: the record of an outcome is queued before the request ends,
and the chain keeps the order.

**`Initialization_proofs`.** `WholeOrAbsent`, from `InitializationSafe`.
`DrawnInv`: a database identifier is drawn once and belongs to one command.
`FilesInv`: what a profile names has content, key and anchor of that database.
`EndsInv`: a plain failure left nothing. `PlaceInv` and `StageInv` say for a
running command where its database may be and what exists at its stage, so that
the rollback of one command never empties what another has made.

**`CollaborativeVaultStore_proofs`.** `AnsweredTruly` and `DenialsHold`, from
`StoreSafe`. `Chained`: revisions are unique and without gaps, each link follows
the operation and the state of its predecessor, and every authorization state has
a witness among the links. `TipInv` ties the last link to the live document or to
the tombstone; `RecordInv` says that exactly the applied operations have one
record and that an open transaction is of an operation that was not applied;
`ChecksInv` that checkpoints form a chain. `LegacyInv` says that there is no
registry before the vault is active: this is what leaves the writer of the first
link undenied, and without it the action property `DeniedDevicesWriteNothing`
does not follow.

**`CollaborationDevice_proofs`.** `JournalsAreKept` and `AnchorsNeverReturn`, for
constants where `None` is no operation, document or journal and the kinds of an
operation are those of the code (`ConstantsApart`, which the run `collaboration`
checks). `JournalInv`: an operation has documents of one kind, ordinary or
destroying, whoever holds them, because a prepared journal of the one kind refuses
the other; a process that may publish holds exactly the bytes its journal keeps;
what was published stays kept. The second invariant, `LineageInv`, says that a document
is later than everything in its history (`Older`: a higher revision, no counter
lower, and a counter that stood still has the digest it had), and that without a
restore every file trusts something in the history of the live document. The first
conjunct is what a verification relies on: what descends from an anchor is accepted.

**`Executor`.** `RunsSettleCleanly`. The invariant `Clean` adds that nothing but a
supervised run holds timers, a listener or a secret, that a leader that ended is
not alive, and that a run settles otherwise than by a rejection only once its
leader ended.

## 7. What is only model-checked

- Every liveness property: the prover does not handle `ENABLED` and fairness.
- What recursive definitions compute (folds over chains, vectors and ranges in
  `PolicyEngine`, `StructuredVault`, `CollaborationChain`): induction over data is
  out of the prover's reach.
- Of the components with proofs: `NoDoubleClaim` apart from what `Refinement`
  implies, and that `UpdatesAreListed` survives one restore.
- Every other component's properties: `ProtectedFile`, `LegacyVault`,
  `RunCommand`, `PolicyEngine`, the migrations' and identities' files, the readers of collaborative vaults, and everything in the
  run `client` but `Initialization`.

## 8. What is not modelled, and what the models showed on the way

Left out of modelled components: the trust and container caches, whose contract
is that a changed `lstat` invalidates them; process ids that are reused in the
file store; the key bootstrap of a local share on open; creating a container and
rolling a creation back in the file store (the port's `createDatabase` is in
`AtomicStore`); rewrapping an identity under a new passphrase; enrollment
receipts, membership history and its compaction, identity schemas, signatures of
migration requests; structured import, template fields, attachments and related
items; passphrases of legacy commands; reading, permissions and the hardening of
directories; rendering. Components without a module (primitives, synchronisation
schemas, Windows access control, deployment scripts) are in `PROJECT.json` with
the reason.

Parts of the code that no other part of `src/` calls are modelled as libraries
with the caller their comments describe: key rotation, the verification of
collaborative vaults, the journal and anchor of a destruction. `VaultTui` is a
library that the CLI does not open.

Observations made while modelling, which the models follow as the code is:

*Files.* On Windows a failed replacement puts the displaced file back over one
created meanwhile; a creation whose file was displaced while it was checked
answers `NOT_FOUND` and may still be put back; a swap that failed after the
transfer leaves the displaced secret, which the cleanup does not empty.
`deleteSecureFile` takes no lock and may leave another's new file (or, after a
failed deletion, the old secret) under its quarantine name.

*Sessions.* An anchor can be made to forget what was acknowledged in two ways.
`acceptCurrentAnchor` writes the state it read over what another session of the
key file has anchored since; and if the store is restored during one
`updateVault`, while another key file creates and later deletes a vault,
`anchorWithUpdatedVault` adds a vault that `before` did not list and that was
deleted. `docs/local-database.md` says that accepting a
state by hand gives up rollback protection, and no document promises the second.
`acceptCurrentAnchor` is documented to return "whether the previous
anchor already matched" (`database-session.ts:2144`) and returns the negation.
A mutation of unknown outcome is taken as decided when it is reported; on
MongoDB it may be decided later. A migration whose cleanup failed may be
reported `authentication` while a key file remains. A close that fails in the
wizard hides that the outcome is ambiguous. The comment at `session-unlock.ts:407`
expects a file that `validateSecureFileDestination` refuses.

*Terminal.* Creating a profile that fails after `db profile use` leaves the other
profile's passphrase in memory, where `docs/architecture.md:82` says that profile
changes and failures clear it (`ProfileChangesClear` of `TerminalSession`, which
TLC refutes on the instance of `client` and which is part of no run). The keys'
timer may expire at an await of `doctor` or `recovery`, whose rows are then shown
after the lock, and an operation that committed is reported failed when the
lifetime ran out during it. A reveal whose element selection moved stays pending.

*Collaboration.* A proof's entries compare the previous authorization state with
the starting witness only in the first entry; `approvedAt` is not compared with
the request's lifetime; the recovery envelope of the authority is covered by no
digest the commitment binds.

*Structured vaults.* The message at `structured-vault-impl.ts:1041` asks to remove
a field before recreating it, which `payloads.ts` refuses for a removed stable
key; the first edit of a legacy payload records no snapshot
(`docs/features.md:208` says every edit does); a title such as `toString`, which
every object inherits, makes flat commands fail.

*Legacy vaults.* A check after the rename throws `invalid`, which the caller takes
as "not committed" (`local-vault-cli.ts:3577`; `slipped` in the model). On
MongoDB two commands may take an anchor back by one write. A restored document
that was written past the anchored revision through a second key file is not
noticed. Kits need an anchor of exactly the document, so a commit whose anchor
write failed makes them unusable until an unlock with the key file; a kill
between document and anchor of `recovery use --overwrite` leaves an anchor that
neither an unlock nor `--accept-current` takes. `key rewrap` does not classify
publication failures and, racing such a recovery, can put the old key back; two
overwriting recoveries to the same files on MongoDB can lose the committed key.
The access property is therefore stated for file stores, and not where a key was
copied over another.

## 9. Plan

The order is the order of importance: everything durable passes through the
protected files, then through the store and its anchor, then the session.

1. `SecureFileTransition`, `FileEncryptedDatabase`, `EncryptedDatabaseStore`,
   `DatabaseSession`: modelled and proved as section 6 says.
2. `AgentBroker`, `Executor`, `Initialization`, `CollaborativeVaultStore`,
   `CollaborationDevice`: modelled and proved.
3. To prove next: `NeverLockedOut` of `RecoveryKits`; `EveryCallIsAtomic`, the refinement of `AtomicStore` by
   `MongoEncryptedDatabase`; `RunsAreAuthorized` of `RunCommand`.
4. To model next: enrollment and membership history, `createDatabase` of the file
   store with its rollback, rewrapping of identities.
