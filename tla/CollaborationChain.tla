--------------------------- MODULE CollaborationChain ---------------------------
(***************************************************************************)
(* The chain of mutations of a collaborative vault, as the schemas and the *)
(* signatures of packages/schemas and packages/crypto define it.  An owner *)
(* (or, to recover, the authority) signs a transition: what an operation   *)
(* does to the authorization state.  Any member's device signs the link    *)
(* that carries an operation; a device that follows the vault is given a   *)
(* proof, a sequence of links, and verifies it from the head it trusts.    *)
(*                                                                         *)
(* A digest is the value it digests (no collisions), and a signature of an *)
(* owner or of the authority is on what they signed and on nothing else.   *)
(* A link's writer is any member, so links are whatever the schemas let a  *)
(* member sign, with any transition that was ever signed.                  *)
(*                                                                         *)
(* Of a revision tuple the document revision, the authority epoch and the  *)
(* digest of the authorization state are kept: the other counters and the  *)
(* digest of the device registry are bound as the epoch is.  Sizes, times  *)
(* and scopes (database, vault) are left out.                              *)
(***************************************************************************)
EXTENDS Naturals, Sequences, FiniteSets

CONSTANTS Devices,     \* devices of owners; each follows the vault
          Authority,   \* the signer of recoveries
          Operations,  \* operation ids
          Kinds,       \* operation types
          States,      \* digests of authorization states
          FirstState,  \* the one after the genesis
          MaxEpoch, MaxDecisions, MaxRevision, MaxCheckpoints,
          None

VARIABLES decided,     \* the transitions signed so far
          view,        \* what a device trusts, and the entries that it verified
          checkpoints  \* the checkpoints signed so far

chainVars == <<decided, view, checkpoints>>

Evidence == {"none", "approval", "ownership-transfer", "authority-recovery"}

Tuple(revision, epoch, state) ==
  [revision |-> revision, epoch |-> epoch, state |-> state]

-----------------------------------------------------------------------------
(* What the schemas admit.                                                 *)

\* Who may sign what, and the evidence it takes; only a destruction leaves the
\* authorization state as it is.
WellFormedTransition(t) ==
  /\ t.kind # "ordinary-write"
  /\ (t.signer = Authority) <=> (t.kind = "recover-owner")
  /\ (t.kind = "destroy-vault") <=> (t.before.state = t.after.state)
  /\ (t.kind = "transfer-owner") <=> (t.evidence = "ownership-transfer")
  /\ (t.kind = "recover-owner") <=> (t.evidence = "authority-recovery")
  /\ (t.kind = "genesis-migration") => t.evidence = "none"

\* A recovery happens within the epoch that the authority signs for.
AuthorityBindingsMatch(t) ==
  t.signer = Authority => /\ t.epoch = t.before.epoch
                          /\ t.epoch = t.after.epoch

\* Revisions never go back; an operation has a transition when, and only when,
\* it is not a plain write, and a plain write keeps the authorization state.
WellFormedCommitment(c) ==
  /\ c.before.revision =< c.after.revision
  /\ c.before.epoch =< c.after.epoch
  /\ (c.kind = "ordinary-write") <=> (c.transition = None)
  /\ (c.kind \in {"ordinary-write", "destroy-vault"}) <=> (c.before.state = c.after.state)

\* Mutant: the place in the chain is not compared.
BindsSomewhere(c, t) ==
  /\ t.operation = c.operation /\ t.kind = c.kind
  /\ t = c.transition
  /\ t.before = c.before /\ t.after = c.after

\* A transition is that of this very commitment: operation, place, both tuples.
BindsCommitment(c, t) ==
  /\ t.operation = c.operation /\ t.kind = c.kind
  /\ t = c.transition
  /\ t.previous = c.previous
  /\ t.before = c.before /\ t.after = c.after

\* The head of a link is the digest of its commitment, which its writer signs.
WellFormedLink(l) ==
  /\ WellFormedCommitment(l.commitment)
  /\ (l.transition = None) <=> (l.commitment.kind = "ordinary-write")
  /\ l.transition # None => /\ WellFormedTransition(l.transition)
                            /\ BindsCommitment(l.commitment, l.transition)
  /\ l.head = l.commitment

\* An entry that changes the authorization state shows the new one.
WellFormedEntry(e) ==
  LET c == e.link.commitment IN
  /\ WellFormedLink(e.link)
  /\ (e.witness = None) <=> (c.kind = "ordinary-write")
  /\ e.witness # None => /\ e.witness.previous = c.previous
                         /\ e.witness.head = e.link.head
                         /\ e.witness.tuple = c.after

\* A proof leads from one head and revision to another without a gap, and starts
\* with the authorization state its first entry starts from.
WellFormedProof(p) ==
  LET Link(i)     == p.entries[i].link
      Revision(i) == IF i = 0 THEN p.from.revision ELSE Link(i).commitment.after.revision
      HeadAt(i)   == IF i = 0 THEN p.from.head ELSE Link(i).head
  IN /\ \A i \in DOMAIN p.entries :
          /\ WellFormedEntry(p.entries[i])
          /\ Link(i).commitment.before.revision = Revision(i - 1)
          /\ Link(i).commitment.after.revision = Revision(i - 1) + 1
          /\ Link(i).commitment.previous = HeadAt(i - 1)
     /\ p.start.revision =< p.from.revision
     /\ p.start.state = Link(1).commitment.before.state

\* A checkpoint compacts nothing beyond the tuple that it binds.
WellFormedCheckpoint(k) == k.compacted =< k.tuple.revision

-----------------------------------------------------------------------------
(* What signatures admit.                                                  *)

\* An owner's or the authority's signature on exactly this transition.
VerifyTransition(t) == WellFormedTransition(t) /\ AuthorityBindingsMatch(t) /\ t \in decided

VerifyCheckpoint(k) == WellFormedCheckpoint(k) /\ k \in checkpoints

-----------------------------------------------------------------------------
(* Actions.                                                                *)

Trusted(d) == Tuple(view[d].revision, view[d].tuple.epoch, view[d].tuple.state)

\* An owner, or the authority, signs a transition of the state that its device
\* verified.  Whatever else it is asked to sign, signing refuses.
SignTransition(d) ==
  /\ Cardinality(decided) < MaxDecisions
  /\ \E signer \in {d, Authority}, kind \in Kinds, evidence \in Evidence,
        op \in Operations, epoch \in 1..MaxEpoch, state \in States :
       LET t == [signer |-> signer, epoch |-> view[d].tuple.epoch, kind |-> kind,
                 evidence |-> evidence, operation |-> op, previous |-> view[d].head,
                 before |-> Trusted(d),
                 after |-> Tuple(view[d].revision + 1, epoch, state)] IN
       /\ WellFormedTransition(t) /\ AuthorityBindingsMatch(t)
       /\ evidence # "approval"  \* bound as "none" is
       /\ decided' = decided \union {t}
  /\ UNCHANGED <<view, checkpoints>>

\* Links that members may have signed after a head and a revision: plain writes,
\* and operations with any transition that was signed.
Commitments(head, revision) ==
  LET Plain(s) == [kind |-> "ordinary-write", operation |-> None, previous |-> head,
                   before |-> Tuple(revision, 1, s), after |-> Tuple(revision + 1, 1, s),
                   transition |-> None]
      Near(t, kind, op, before, after) ==
        [kind |-> kind, operation |-> op, previous |-> head,
         before |-> [before EXCEPT !.revision = revision],
         after |-> [after EXCEPT !.revision = revision + 1], transition |-> t]
  IN {Plain(s) : s \in States}
     \union {Near(t, kind, op, u.before, u.after) :
               t \in decided, u \in decided, kind \in Kinds, op \in Operations}

Entries(head, revision) ==
  {[link |-> [commitment |-> c, transition |-> c.transition, head |-> c],
    witness |-> IF c.transition = None THEN None
                ELSE [previous |-> c.previous, head |-> c, tuple |-> c.after]] :
     c \in Commitments(head, revision)}

\* What a device trusts after a proof of these entries.  The authorization state
\* it follows is that of the last witness.
Follows(d, entries) ==
  LET proof == [from |-> [head |-> view[d].head, revision |-> view[d].revision],
                start |-> view[d].tuple, entries |-> entries]
      first == entries[1]
      last  == entries[Len(entries)]
  IN /\ WellFormedProof(proof)
     /\ \A i \in DOMAIN entries : entries[i].link.transition # None
                                    => VerifyTransition(entries[i].link.transition)
     /\ view' = [view EXCEPT
          ![d] = [head |-> last.link.head,
                  revision |-> last.link.commitment.after.revision,
                  tuple |-> CASE last.witness # None -> last.witness.tuple
                              [] last.witness = None /\ first.witness # None
                                   -> first.witness.tuple
                              [] OTHER -> @.tuple,
                  base |-> @.base, entries |-> @.entries \o entries]]

\* A device verifies a proof of one or two entries from what it trusts.
VerifyProof(d) ==
  /\ view[d].revision < MaxRevision
  /\ \E first \in Entries(view[d].head, view[d].revision) :
       \/ Follows(d, <<first>>)
       \/ /\ view[d].revision + 1 < MaxRevision /\ WellFormedEntry(first)
          /\ \E second \in Entries(first.link.head, view[d].revision + 1) :
               Follows(d, <<first, second>>)
  /\ UNCHANGED <<decided, checkpoints>>

\* An owner signs a checkpoint of what its device verified.
SignCheckpoint(d) ==
  /\ Cardinality(checkpoints) < MaxCheckpoints
  /\ \E compacted \in {view[d].revision, view[d].revision + 1} :
       LET k == [tuple |-> Trusted(d), shown |-> view[d].tuple, head |-> view[d].head,
                 compacted |-> compacted] IN
       WellFormedCheckpoint(k) /\ checkpoints' = checkpoints \union {k}
  /\ UNCHANGED <<decided, view>>

\* A device that has followed nothing yet starts from a checkpoint.
VerifyFromCheckpoint(d) ==
  /\ view[d].entries = <<>>
  /\ \E k \in checkpoints :
       /\ VerifyCheckpoint(k)
       /\ view[d].revision < k.tuple.revision
       /\ view' = [view EXCEPT ![d] = [head |-> k.head, revision |-> k.tuple.revision,
                                       tuple |-> k.shown, entries |-> <<>>,
                                       base |-> [head |-> k.head, state |-> k.shown.state]]]
  /\ UNCHANGED <<decided, checkpoints>>

Init ==
  /\ decided = {} /\ checkpoints = {}
  /\ view = [d \in Devices |-> [head |-> None, revision |-> 1,
                                tuple |-> Tuple(1, 1, FirstState), entries |-> <<>>,
                                base |-> [head |-> None, state |-> FirstState]]]

Next == \E d \in Devices : \/ SignTransition(d)
                           \/ VerifyProof(d)
                           \/ SignCheckpoint(d)
                           \/ VerifyFromCheckpoint(d)

Spec == Init /\ [][Next]_chainVars

-----------------------------------------------------------------------------
(* Properties.                                                             *)

\* The head before entry i of a view, the entries before it that show an
\* authorization state, and the state shown last.
HeadBefore(v, i) == IF i = 1 THEN v.base.head ELSE v.entries[i - 1].link.head

Shown(v, i) == {j \in 1..(i - 1) : v.entries[j].witness # None}

LastOf(shown) == CHOOSE j \in shown : \A k \in shown : k =< j

StateBefore(v, i) == IF Shown(v, i) = {} THEN v.base.state
                     ELSE v.entries[LastOf(Shown(v, i))].witness.tuple.state

\* Every change of the authorization state that a device follows was signed by
\* an owner, or by the authority to recover, for exactly that place in the
\* chain and from exactly the state that the device was in: whatever links
\* members sign, a transition is not applied elsewhere, twice, or to another
\* effect.
ChangesAreAuthorized ==
  \A d \in Devices :
    LET v == view[d] IN
    \A i \in DOMAIN v.entries :
      LET e == v.entries[i] IN
      e.witness # None =>
        \E t \in decided :
          /\ t.previous = HeadBefore(v, i)
          /\ t.before.state = StateBefore(v, i)
          /\ t.after = e.witness.tuple
          /\ t.kind = e.link.commitment.kind
          /\ (t.signer = Authority) => t.kind = "recover-owner"
=============================================================================
