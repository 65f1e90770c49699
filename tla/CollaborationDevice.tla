------------------------- MODULE CollaborationDevice -------------------------
(***************************************************************************)
(* What devices keep beside a collaborative vault: a journal per operation,*)
(* which holds the exact bytes to publish, one of another kind for a       *)
(* destruction, a rollback anchor per recipient and one of the authority,  *)
(* and the anchor of a destruction.  Processes of a device crash between   *)
(* their steps, and the store of the vault may be put back to a backup.    *)
(*                                                                         *)
(* Every file is authenticated with what it is about: reading one gives    *)
(* what was written for that operation or device, or is refused.           *)
(*                                                                         *)
(* Sealing is randomised: preparing an operation twice gives two documents *)
(* of one identity.  A document commits to its history; its counters are   *)
(* the revisions of its authorization state, each with the document that   *)
(* last moved it, which stands for the digest of that part.                *)
(***************************************************************************)
EXTENDS Naturals, FiniteSets

CONSTANTS Ops, Devices, Authority, Procs, None,
          Kinds,       \* Kinds[o]: what operation o may do
          Variants,    \* bound: preparations of one operation
          MaxRestores, \* bound: restores from a backup
          MaxRevision  \* bound: revisions of the vault

VARIABLES store,     \* the live document, the committed ones, the destruction
          restores,
          journal,   \* journal[o]: the journal of operation o, or None
          tomb,      \* tomb[o]: its journal as a destruction, or None
          proc,      \* proc[p]: the candidate a process works on, or None
          anchor,    \* anchor[f]: the document file f trusts, or None
          gone,      \* gone[d]: the destruction that device d remembers
          published  \* history: the documents published

vars == <<store, restores, journal, tomb, proc, anchor, gone, published>>

journals == <<journal, tomb>>

Files == Devices \cup {Authority}

-----------------------------------------------------------------------------
Counters == {"gen", "mem", "pol", "key"}

\* What each kind of operation moves; the others keep the authorization state.
Moves(kind) == CASE kind = "member" -> {"mem", "key"}
                 [] kind = "policy" -> {"pol"}
                 [] kind = "registry" -> {"gen"}
                 [] OTHER -> {}

Genesis == [id |-> <<None, 0>>, device |-> None, kind |-> "genesis", prev |-> None,
            past |-> {}, rev |-> 1, num |-> [c \in Counters |-> 1],
            by |-> [c \in Counters |-> <<None, 0>>], auth |-> <<None, 0>>]

Candidate(o, d, v, kind, base) ==
  LET id == <<o, v>>
      moved == Moves(kind)
  IN [id |-> id, device |-> d, kind |-> kind, prev |-> base.id,
      past |-> base.past \cup {base.id}, rev |-> base.rev + 1,
      num |-> [c \in Counters |-> base.num[c] + (IF c \in moved THEN 1 ELSE 0)],
      by |-> [c \in Counters |-> IF c \in moved THEN id ELSE base.by[c]],
      auth |-> IF moved = {} THEN base.auth ELSE id]

Init == /\ store = [tip |-> Genesis, done |-> {}, grave |-> None]
        /\ restores = 0
        /\ journal = [o \in Ops |-> None] /\ tomb = [o \in Ops |-> None]
        /\ proc = [p \in Procs |-> None]
        /\ anchor = [f \in Files |-> None]
        /\ gone = [d \in Devices |-> None]
        /\ published = {}

-----------------------------------------------------------------------------
(* verifyRecipientRollbackAnchor and verifyCollaborationAuthorityAnchor.   *)

Advanced(old, new) == \E c \in Counters : new.num[c] > old.num[c]

\* Each counter stands still with its digest or moves on; the key epoch has no
\* digest of its own.
Monotonic(old, new) ==
  \A c \in Counters : /\ new.num[c] >= old.num[c]
                      /\ c # "key" /\ new.num[c] = old.num[c] => new.by[c] = old.by[c]

SameRevisionSameHead(old, new) == new.rev = old.rev <=> new.id = old.id

Gap(old, new) == \/ new.rev > old.rev + 1
                 \/ \E c \in Counters : new.num[c] > old.num[c] + 1

\* assertVerifiedChain: a verified proof runs from exactly the one to the other.
Descends(old, new) == new.id = old.id \/ old.id \in new.past

\* Mutant: the head is not compared at an equal revision.
AcceptsByRevision(old, new, proved) ==
  /\ Monotonic(old, new) /\ new.rev >= old.rev
  /\ Gap(old, new) => proved

Accepts(old, new, proved) ==
  /\ Monotonic(old, new)
  /\ new.rev >= old.rev
  /\ SameRevisionSameHead(old, new)
  /\ Advanced(old, new) <=> new.auth # old.auth
  /\ Gap(old, new) => proved
  /\ proved => Descends(old, new)

Trust(f, doc) == anchor' = [anchor EXCEPT ![f] = doc]

\* The anchor of a first use trusts what it is shown.
Enroll(f) == /\ anchor[f] = None /\ store.tip # None
             /\ Trust(f, store.tip)
             /\ UNCHANGED <<store, restores, journals, proc, gone, published>>

\* transitionRecipientRollbackAnchor to what the store shows.
Advance(f, proved) ==
  /\ anchor[f] # None /\ store.tip # None
  /\ Accepts(anchor[f], store.tip, proved)
  /\ Trust(f, store.tip)
  /\ UNCHANGED <<store, restores, journals, proc, gone, published>>

-----------------------------------------------------------------------------
(* Operations: a process prepares, journals, publishes and reconciles.     *)

Step(p, cand, at) == proc' = [proc EXCEPT ![p] = [cand |-> cand, at |-> at]]
Stop(p) == proc' = [proc EXCEPT ![p] = None]
At(p, at) == proc[p] # None /\ proc[p].at = at

Destroys(cand) == cand.kind = "destroy"

\* What was prepared or published as operation o.
Claims(o) == {x \in published \cup {proc[q].cand : q \in {r \in Procs : proc[r] # None}} :
                x.id[1] = o}

\* A device opens the vault through its anchor and seals a candidate; an
\* operation is drawn by one device, as a destruction or as another mutation.
Prepare(p, o, d, v, kind, proved) ==
  /\ proc[p] = None /\ journal[o] = None /\ tomb[o] = None
  /\ \A x \in Claims(o) : x.device = d /\ (Destroys(x) <=> kind = "destroy")
  /\ anchor[d] # None /\ store.tip # None /\ store.tip.rev < MaxRevision
  /\ Accepts(anchor[d], store.tip, proved)
  /\ Step(p, Candidate(o, d, v, kind, store.tip), "prepared")
  /\ UNCHANGED <<store, restores, journals, anchor, gone, published>>

\* What a journal holds: the candidate with its anchor, proof and outcome.
Record(state, cand) == [state |-> state, cand |-> cand]

Keep(o, record) == journal' = [journal EXCEPT ![o] = record]

\* Mutant: a retry has the same identity.
SameIdentity(record, cand) == record.cand.id[1] = cand.id[1]

\* sameJournalRequest: a retry has the same bytes.
SameRequest(record, cand) == record.cand = cand

\* createCollaborativeOperationJournal.
Create(p) ==
  LET cand == proc[p].cand
      o == cand.id[1]
  IN /\ At(p, "prepared") /\ ~Destroys(cand)
     /\ IF journal[o] = None
        THEN Keep(o, Record("prepared", cand)) /\ Step(p, cand, "journaled")
        ELSE /\ IF SameRequest(journal[o], cand) THEN Step(p, cand, "journaled")
                ELSE Stop(p)
             /\ UNCHANGED journal
     /\ UNCHANGED <<store, restores, tomb, anchor, gone, published>>

\* A restarted process goes on with the bytes of the journal.
Resume(p, o) ==
  /\ proc[p] = None /\ journal[o] # None /\ journal[o].state = "prepared"
  /\ Step(p, journal[o].cand, "journaled")
  /\ UNCHANGED <<store, restores, journals, anchor, gone, published>>

\* The store applies a candidate on top of its predecessor, or answers with
\* the outcome it has recorded.
Applies(cand) == /\ store.tip # None /\ store.tip.id = cand.prev /\ store.grave = None
                 /\ \A doc \in store.done : doc.id[1] # cand.id[1]

\* Either on its own or by the callback of the anchor's transition, which
\* publishes before the next anchor is verified and written.
Publish(p, anchoring) ==
  LET cand == proc[p].cand
      f == cand.device
  IN /\ At(p, "journaled") /\ ~Destroys(cand)
     /\ Applies(cand)
     /\ store' = [store EXCEPT !.tip = cand, !.done = @ \cup {cand}]
     /\ published' = published \cup {cand}
     /\ IF anchoring
        THEN /\ anchor[f] # None /\ Accepts(anchor[f], store.tip, FALSE)
             /\ Accepts(store.tip, cand, FALSE)
             /\ Trust(f, cand)
        ELSE UNCHANGED anchor
     /\ UNCHANGED <<restores, journals, proc, gone>>

\* assertOutcomeMatchesJournal, and assertTerminalOutcome of one that is
\* committed: the outcome is the one proposed for the very candidate.
Committed(cand) == cand \in store.done

\* reconcileCollaborativeOperationJournal: nothing but that outcome ends a
\* journal; a conflict leaves it prepared.
Reconcile(p) ==
  LET cand == proc[p].cand
  IN /\ At(p, "journaled") /\ ~Destroys(cand)
     /\ IF Committed(cand) THEN Keep(cand.id[1], Record("committed", cand))
                           ELSE UNCHANGED journal
     /\ Stop(p)
     /\ UNCHANGED <<store, restores, tomb, anchor, gone, published>>

-----------------------------------------------------------------------------
(* A destruction has a journal of its own, under another name.             *)

Entomb(o, record) == tomb' = [tomb EXCEPT ![o] = record]

\* samePreparedArtifacts: the tombstone, the outcome and the anchor.
SameArtifacts(record, cand) == record.cand = cand

\* createCollaborativeVaultDestructionJournal.
CreateDestruction(p) ==
  LET cand == proc[p].cand
      o == cand.id[1]
  IN /\ At(p, "prepared") /\ Destroys(cand)
     /\ IF tomb[o] = None
        THEN Entomb(o, Record("prepared", cand)) /\ Step(p, cand, "journaled")
        ELSE /\ IF SameArtifacts(tomb[o], cand) THEN Step(p, cand, "journaled")
                ELSE Stop(p)
             /\ UNCHANGED tomb
     /\ UNCHANGED <<store, restores, journal, anchor, gone, published>>

ResumeDestruction(p, o) ==
  /\ proc[p] = None /\ tomb[o] # None /\ tomb[o].state = "prepared"
  /\ Step(p, tomb[o].cand, "journaled")
  /\ UNCHANGED <<store, restores, journals, anchor, gone, published>>

\* Nothing is left but the tombstone.
Destroy(p) ==
  LET cand == proc[p].cand
  IN /\ At(p, "journaled") /\ Destroys(cand)
     /\ Applies(cand)
     /\ store' = [tip |-> None, done |-> store.done \cup {cand}, grave |-> cand]
     /\ published' = published \cup {cand}
     /\ UNCHANGED <<restores, journals, proc, anchor, gone>>

\* assertCommittedEvidenceMatches: the tombstone and outcome of the journal.
Destroyed(cand) == store.grave = cand

\* reconcileCollaborativeVaultDestructionJournal.
ReconcileDestruction(p) ==
  LET cand == proc[p].cand
  IN /\ At(p, "journaled") /\ Destroys(cand)
     /\ IF Destroyed(cand) THEN Entomb(cand.id[1], Record("committed", cand))
                           ELSE UNCHANGED tomb
     /\ Stop(p)
     /\ UNCHANGED <<store, restores, journal, anchor, gone, published>>

\* recipientVaultDestructionAnchorFromTombstone of the tombstone that the store
\* shows, or that the device's own committed journal holds.
Tombstones(d) ==
  {store.grave} \cup {tomb[o].cand : o \in {x \in Ops : /\ tomb[x] # None
                                                        /\ tomb[x].state = "committed"
                                                        /\ tomb[x].cand.device = d}}

\* createOrVerifyRecipientVaultDestructionAnchor: another one is refused.
Bury(d) == /\ gone[d] = None
           /\ \E stone \in Tombstones(d) \ {None} : gone' = [gone EXCEPT ![d] = stone]
           /\ UNCHANGED <<store, restores, journals, proc, anchor, published>>

Crash(p) == /\ proc[p] # None /\ Stop(p)
            /\ UNCHANGED <<store, restores, journals, anchor, gone, published>>

-----------------------------------------------------------------------------
\* An operator puts the store back to what it was when `doc` was its document.
Restore(doc) ==
  /\ restores < MaxRestores /\ restores' = restores + 1
  /\ doc \in store.done \cup {Genesis} /\ doc.kind # "destroy"
  /\ store' = [tip |-> doc, grave |-> None,
               done |-> {x \in store.done : Descends(x, doc)}]
  /\ UNCHANGED <<journals, proc, anchor, gone, published>>

Next == \/ \E f \in Files : Enroll(f) \/ \E proved \in BOOLEAN : Advance(f, proved)
        \/ \E p \in Procs :
             \/ \E o \in Ops : \/ Resume(p, o) \/ ResumeDestruction(p, o)
                              \/ \E d \in Devices, v \in Variants, kind \in Kinds[o],
                                    proved \in BOOLEAN : Prepare(p, o, d, v, kind, proved)
             \/ Create(p) \/ Reconcile(p) \/ Crash(p)
             \/ CreateDestruction(p) \/ Destroy(p) \/ ReconcileDestruction(p)
             \/ \E anchoring \in BOOLEAN : Publish(p, anchoring)
        \/ \E d \in Devices : Bury(d)
        \/ \E doc \in store.done \cup {Genesis} : Restore(doc)

Spec == Init /\ [][Next]_vars

-----------------------------------------------------------------------------
\* An operation publishes one document or destruction, the one its journal
\* keeps, however often its processes crash and prepare it again, and even when
\* the store has forgotten it; a journal that says committed, and a device that
\* remembers a destruction, tell of a publication.
JournalsKeepTheBytes ==
  /\ \A doc \in published :
       LET file == IF Destroys(doc) THEN tomb ELSE journal
       IN file[doc.id[1]] # None /\ file[doc.id[1]].cand = doc
  /\ \A o \in Ops, file \in {journal, tomb} :
       file[o] # None /\ file[o].state = "committed" => file[o].cand \in published
  /\ \A d \in Devices : gone[d] # None => gone[d] \in published /\ Destroys(gone[d])

\* A file never trusts a smaller revision, nor another document of the same
\* one, after it trusted a document, also when the store was put back to a
\* backup and other documents took the place of what was lost; yet an
\* undisturbed store is always accepted, at any distance.
AnchorsNeverGoBack ==
  /\ [][\A f \in Files : anchor[f] # None =>
         \/ anchor'[f] = anchor[f]
         \/ /\ anchor'[f].rev > anchor[f].rev
            /\ \A c \in Counters : anchor'[f].num[c] >= anchor[f].num[c]]_vars
  /\ [](\A f \in Files : anchor[f] # None /\ store.tip # None =>
         /\ Descends(anchor[f], store.tip) => Accepts(anchor[f], store.tip, TRUE)
         /\ restores = 0 => Descends(anchor[f], store.tip))

-----------------------------------------------------------------------------
(* What the theorems of CollaborationDevice_proofs assume of the constants.   *)

Ids == (Ops \cup {None}) \X (Variants \cup {0})
Mutations == {"write", "member", "policy", "registry", "destroy"}
Documents == [id : Ids, device : Devices \cup {None}, kind : Mutations \cup {"genesis"},
              prev : Ids \cup {None}, past : SUBSET Ids, rev : Nat, num : [Counters -> Nat],
              by : [Counters -> Ids], auth : Ids]

\* What the constants are: None is no operation, document or journal.
ConstantsApart ==
  /\ None \notin Ops
  /\ \A o \in Ops : Kinds[o] \subseteq Mutations
  /\ None \notin Documents
  /\ None \notin [state : {"prepared", "committed"}, cand : Documents]
=============================================================================
