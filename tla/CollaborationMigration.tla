------------------------ MODULE CollaborationMigration ------------------------
(***************************************************************************)
(* The migration of one legacy vault to a collaborative one, as a machine  *)
(* drives it: a journal that holds the whole bundle (markers, registry,    *)
(* genesis, outcome, first anchor) and the stages it reaches, the two      *)
(* rollback anchors of the genesis, and the store's marker and outcome.    *)
(* Machines that share a device's secret may run one migration, each with  *)
(* a bundle sealed anew, and a process may stop between any two steps.     *)
(***************************************************************************)
EXTENDS Naturals, FiniteSets

CONSTANTS Machines, None,
          Variants,    \* bound: bundles a machine seals
          MaxRevision  \* bound: revisions of the collaborative vault

VARIABLES marker,     \* the legacy vault: None, or a migration's marker
          outcome,    \* the genesis the store has committed, or None
          revision,   \* the revision of the collaborative vault, 0 before
          journal,    \* journal[m]: [state, bundle], or None
          running,    \* running[m]: the bundle a process holds, and how far it is
          recipient,  \* recipient[m]: the revision and genesis anchored, or None
          authority   \* authority[m]: the same under the database root key

vars == <<marker, outcome, revision, journal, running, recipient, authority>>

\* What a machine seals at once binds its parts, so that a bundle is one value:
\* request, registry, both markers, genesis, proof, outcome and first anchor.
Bundles == Machines \X Variants

\* Its own identity signs a bundle, and is the recipient that can open it.
SealedBy(m, b) == b[1] = m

Record(state, b)   == [state |-> state, bundle |-> b]
MarkerOf(state, b) == [state |-> state, bundle |-> b]

States == {"prepared", "published", "anchored", "active", "failed"}

\* What the proofs assume: None is no bundle, no file and no process.
ConstantsApart ==
  /\ None \notin Bundles
  /\ None \notin [state : States, bundle : Bundles]
  /\ None \notin [bundle : Bundles, at : {"sealed", "journaled"}]
  /\ None \notin [genesis : Bundles, rev : Nat]

Init == /\ marker = None /\ outcome = None /\ revision = 0
        /\ journal = [m \in Machines |-> None]
        /\ running = [m \in Machines |-> None]
        /\ recipient = [m \in Machines |-> None]
        /\ authority = [m \in Machines |-> None]

stores  == <<marker, outcome, revision>>
anchors == <<recipient, authority>>

-----------------------------------------------------------------------------
(* The process of a machine.                                               *)

Run(m, b, at) == running' = [running EXCEPT ![m] = [bundle |-> b, at |-> at]]
Stop(m) == running' = [running EXCEPT ![m] = None]

\* buildPreparedRecord: a bundle that binds the legacy vault as it is read.
Seal(m, b) == /\ running[m] = None /\ journal[m] = None
              /\ SealedBy(m, b) /\ marker = None
              /\ Run(m, b, "sealed")
              /\ UNCHANGED <<stores, journal, anchors>>

\* A journal is authenticated under the machine's secret with its identity:
\* what is read is what was written, or the journal is refused.
Keep(m, record) == journal' = [journal EXCEPT ![m] = record]

SameBundle(record, b) == record.bundle = b

\* createCollaborationMigrationJournal, before anything is published; a
\* journal of another bundle is refused.
Create(m) ==
  LET b == running[m].bundle
  IN /\ running[m] # None /\ running[m].at = "sealed"
     /\ IF journal[m] = None
        THEN Keep(m, Record("prepared", b)) /\ Run(m, b, "journaled")
        ELSE /\ IF SameBundle(journal[m], b) THEN Run(m, b, "journaled") ELSE Stop(m)
             /\ UNCHANGED journal
     /\ UNCHANGED <<stores, anchors>>

\* The journal exists and is of the migration it is asked for.
Found(m) == journal[m] # None

\* readCollaborationMigrationJournalForResume.
Resume(m) == /\ running[m] = None /\ Found(m)
             /\ Run(m, journal[m].bundle, "journaled")
             /\ UNCHANGED <<stores, journal, anchors>>

Crash(m) == running[m] # None /\ Stop(m) /\ UNCHANGED <<stores, journal, anchors>>

Holds(m) == running[m] # None /\ running[m].at = "journaled"

-----------------------------------------------------------------------------
(* What the store answers it.                                              *)

\* The marker fixes the head of the genesis it will become.
Begin(m) == /\ Holds(m) /\ marker = None
            /\ marker' = MarkerOf("prepared", running[m].bundle)
            /\ UNCHANGED <<outcome, revision, journal, running, anchors>>

Activate(m) == /\ Holds(m)
               /\ marker = MarkerOf("prepared", running[m].bundle)
               /\ marker' = MarkerOf("active", running[m].bundle)
               /\ outcome' = running[m].bundle /\ revision' = 1
               /\ UNCHANGED <<journal, running, anchors>>

\* The owner of the vault writes on.
Write == /\ revision \in 1..(MaxRevision - 1) /\ revision' = revision + 1
         /\ UNCHANGED <<marker, outcome, journal, running, anchors>>

-----------------------------------------------------------------------------
(* The stages of the journal, each a transition of the file.               *)

Stage(m, state) == /\ Keep(m, Record(state, journal[m].bundle))
                   /\ UNCHANGED <<stores, running, anchors>>

\* assertAuthoritativeOutcomeIdentity: a committed outcome of the operation.
Decided == outcome # None

\* Mutant: a committed outcome of the operation is taken for its own.
ReconcileAny(m) == /\ Holds(m) /\ Decided
                   /\ journal[m].state = "prepared"
                   /\ Stage(m, "published")

\* reconcileCollaborationMigrationPublication: only a committed outcome moves
\* the journal, to failed when another bundle of the operation was applied.
\* A journal that has gone further refuses it.
Reconcile(m) == /\ Holds(m) /\ Decided
                /\ journal[m].state = "prepared"
                /\ Stage(m, IF outcome = journal[m].bundle THEN "published" ELSE "failed")

\* createRecipientRollbackAnchor and createCollaborationAuthorityRollbackAnchor
\* of the genesis, two files and two steps; neither replaces a file.
AnchorRecipient(m) ==
  /\ Holds(m) /\ journal[m].state = "published" /\ recipient[m] = None
  /\ recipient' = [recipient EXCEPT ![m] = [genesis |-> journal[m].bundle, rev |-> 1]]
  /\ UNCHANGED <<stores, journal, running, authority>>

AnchorAuthority(m) ==
  /\ Holds(m) /\ journal[m].state = "published" /\ authority[m] = None
  /\ authority' = [authority EXCEPT ![m] = [genesis |-> journal[m].bundle, rev |-> 1]]
  /\ UNCHANGED <<stores, journal, running, recipient>>

\* markCollaborationMigrationAnchored reads both files back.
MarkAnchored(m) ==
  LET first == [genesis |-> journal[m].bundle, rev |-> 1]
  IN /\ Holds(m) /\ journal[m].state = "published"
     /\ recipient[m] = first /\ authority[m] = first
     /\ Stage(m, "anchored")

\* markCollaborationMigrationActive: the observed marker is the precomputed one.
MarkActive(m) == /\ Holds(m) /\ journal[m].state = "anchored"
                 /\ marker = MarkerOf("active", journal[m].bundle)
                 /\ Stage(m, "active")

\* The vault is used by the device while its migration is not finished.
Follow(m) == /\ recipient[m] # None /\ recipient[m].rev < revision
             /\ recipient[m].genesis = outcome
             /\ recipient' = [recipient EXCEPT ![m].rev = @ + 1]
             /\ UNCHANGED <<stores, journal, running, authority>>

Next == \/ \E m \in Machines :
             \/ \E b \in Bundles : Seal(m, b)
             \/ Create(m) \/ Resume(m) \/ Crash(m) \/ Begin(m) \/ Activate(m)
             \/ Reconcile(m) \/ AnchorRecipient(m) \/ AnchorAuthority(m)
             \/ MarkAnchored(m) \/ MarkActive(m) \/ Follow(m)
        \/ Write

Spec == Init /\ [][Next]_vars

-----------------------------------------------------------------------------
\* A legacy vault is fenced only by a bundle that a journal can still finish
\* with; what a journal says of its migration is what the store did, whichever
\* machine ran it: at most one bundle is published, the others fail; and a
\* migration that counts as anchored has both anchors on its own genesis.
MigrationsAgree ==
  /\ marker # None => \E m \in Machines : journal[m] # None
                                          /\ journal[m].bundle = marker.bundle
  /\ outcome # None <=> marker # None /\ marker.state = "active"
  /\ \A m \in Machines : journal[m] # None =>
       LET j == journal[m]
       IN /\ j.state \in {"published", "anchored", "active"} => outcome = j.bundle
          /\ j.state = "failed" => outcome \notin {None, j.bundle}
          /\ j.state \in {"anchored", "active"} =>
               \A a \in {recipient[m], authority[m]} : a # None /\ a.genesis = j.bundle
          /\ recipient[m] # None => recipient[m].rev <= revision
=============================================================================
