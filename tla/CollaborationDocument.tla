-------------------------- MODULE CollaborationDocument --------------------------
(***************************************************************************)
(* The document of a collaborative vault: what the schemas and the digests *)
(* of packages/schemas and packages/crypto bind together.  A document has  *)
(* parts that are made apart and travel together: the revision tuple and   *)
(* the digests at its top, the delegation of the authority, the encrypted  *)
(* payload and manifest, a discovery record for each device, the link of   *)
(* the mutation and the envelope the authority recovers with.  Devices     *)
(* publish revisions, two of them perhaps on one predecessor; a reader is  *)
(* given a document whose parts may come from two publications, since the  *)
(* server that stores it is not relied upon to keep them together.         *)
(*                                                                         *)
(* A digest is the value it digests; what is encrypted or signed is used   *)
(* as it was made or not at all.  The tuple is the document revision and   *)
(* the authorization state, of which the membership revision and the key   *)
(* epoch are the counters compared by value.  The reader itself is not     *)
(* part of the code: it calls the schemas and every verification there is. *)
(***************************************************************************)
EXTENDS Naturals, FiniteSets

CONSTANTS Devices,      \* devices that may be members
          Owners,       \* those of owners
          Contents,     \* payloads
          MaxRevision, MaxPublished,
          MaxMixed,     \* parts of another publication in a document
          None

\* Owners are among finitely many devices.
OwnersAreDevices == IsFiniteSet(Devices) /\ Owners \subseteq Devices

VARIABLES published,    \* the documents published so far
          opened        \* what the reader opened last

documentVars == <<published, opened>>

-----------------------------------------------------------------------------
(* Authorization states and documents.                                     *)

\* Exactly the active devices have an envelope of the current key, and one owner
\* sealed the key for the authority.
WellFormedState(s) ==
  /\ \A d \in Devices : Cardinality({e \in s.envelopes : e.device = d})
                          = IF d \in s.active THEN 1 ELSE 0
  /\ \A e \in s.envelopes : e.epoch = s.epoch
  /\ s.sealedBy \in s.active \cap Owners
  /\ s.active \cap Owners # {}

TupleOf(v) == [revision |-> v.revision, state |-> v.state]

\* What a completed envelope is: its associated data, and what it encrypts with
\* the key of the state.
Payload(v)  == [aad |-> TupleOf(v), key |-> v.state.key, content |-> v.content]

Manifest(v) == [aad |-> TupleOf(v), key |-> v.state.key, state |-> v.state]

\* The record by which a device finds the vault and its envelope.
Record(v, e) == [device |-> e.device, key |-> e.key, serial |-> v.state.serial,
                 epoch |-> e.epoch, state |-> v.state, manifest |-> Manifest(v),
                 signer |-> v.writer]

Recovery(v) == [serial |-> v.state.serial, epoch |-> v.state.epoch, key |-> v.state.key,
                recipient |-> v.origin]

\* The commitment of a publication names it; its head is the commitment.
Commitment(v) == [kind |-> v.kind, previous |-> v.previous, tuple |-> TupleOf(v),
                  payload |-> Payload(v), manifest |-> Manifest(v), delegation |-> v.origin,
                  writer |-> v.writer]

\* The authority delegates once, to whoever begins the vault.
Delegation(v) == [origin |-> v.origin]

\* The parts of a document, each from the publication that o names for it.
Parts == {"tuple", "digests", "delegation", "payload", "manifest", "records", "recovery", "link"}

Document(o) ==
  [tuple      |-> TupleOf(o["tuple"]),
   digests    |-> [payload |-> Payload(o["digests"]), manifest |-> Manifest(o["digests"]),
                   previous |-> o["digests"].previous, head |-> Commitment(o["digests"]),
                   delegation |-> o["digests"].origin],
   delegation |-> Delegation(o["delegation"]),
   payload    |-> Payload(o["payload"]),
   manifest   |-> Manifest(o["manifest"]),
   records    |-> {Record(o["records"], e) : e \in o["records"].state.envelopes},
   recovery   |-> Recovery(o["recovery"]),
   link       |-> Commitment(o["link"])]

-----------------------------------------------------------------------------
(* What the schema of a document compares.                                 *)

RecoveryBinds(doc) ==
  /\ doc.recovery.serial = doc.tuple.state.serial
  /\ doc.recovery.epoch = doc.tuple.state.epoch
  /\ doc.recovery.recipient = doc.delegation.origin

EnvelopesBind(doc) == doc.payload.aad = doc.tuple /\ doc.manifest.aad = doc.tuple

\* Mutant: the digests are not those the mutation committed to.
TupleIsCommitted(doc) == doc.link.tuple = doc.tuple

\* The tuple and the digests at the top are those of the mutation.
LinkBinds(doc) ==
  /\ doc.link.tuple = doc.tuple
  /\ doc.link.previous = doc.digests.previous
  /\ doc.link.payload = doc.digests.payload
  /\ doc.link.manifest = doc.digests.manifest
  /\ doc.link.delegation = doc.digests.delegation
  /\ doc.link = doc.digests.head

\* A first revision is the one that was delegated; there is no other genesis.
GenesisBinds(doc) ==
  IF doc.tuple.revision = 1
  THEN /\ doc.link.kind = "genesis-migration"
       /\ doc.link.delegation = doc.delegation.origin
       /\ doc.link.previous = None
  ELSE doc.link.kind # "genesis-migration"

RecordsBind(doc) ==
  \A r \in doc.records : /\ r.serial = doc.tuple.state.serial
                         /\ r.epoch = doc.tuple.state.epoch
                         /\ r.state = doc.tuple.state
                         /\ r.manifest = doc.digests.manifest
                         /\ r.signer = doc.link.writer

WellFormedDocument(doc) == /\ RecoveryBinds(doc) /\ EnvelopesBind(doc) /\ LinkBinds(doc)
                           /\ GenesisBinds(doc) /\ RecordsBind(doc)

-----------------------------------------------------------------------------
(* What a reader recomputes and opens.                                     *)

\* The digests of the envelopes and of the delegation, recomputed.
DigestsMatch(doc) == /\ doc.digests.payload = doc.payload
                     /\ doc.digests.manifest = doc.manifest
                     /\ doc.digests.delegation = doc.delegation.origin

\* The manifest, once decrypted, is of the state and the tuple.
WellFormedManifest(doc) == /\ WellFormedState(doc.manifest.state)
                           /\ doc.manifest.state = doc.tuple.state

\* A device opens with the envelope of its record, the authority with its own;
\* with another key than the one used nothing opens.
KeysOfDevice(doc, d)  == {r.key : r \in {r \in doc.records : r.device = d}}
KeysOfAuthority(doc)  == {doc.recovery.key}

Decrypts(envelope, aad, key) == envelope.aad = aad /\ envelope.key = key

Opens(doc, reader) ==
  \E k \in IF reader = "authority" THEN KeysOfAuthority(doc) ELSE KeysOfDevice(doc, reader) :
    Decrypts(doc.payload, doc.tuple, k) /\ Decrypts(doc.manifest, doc.tuple, k)

-----------------------------------------------------------------------------
(* Actions.                                                                *)

\* A vault begins with its owner, and the delegation that names it.
Genesis(d, content) ==
  LET key   == <<1, d>>
      state == [serial |-> 1, epoch |-> 1, key |-> key, active |-> {d}, sealedBy |-> d,
                envelopes |-> {[device |-> d, epoch |-> 1, key |-> key]}]
  IN /\ WellFormedState(state)
     /\ published' = published \union
          {[kind |-> "genesis-migration", origin |-> d, revision |-> 1, previous |-> None,
            writer |-> d, state |-> state, content |-> content]}

\* An active device writes the payload after a revision that it read.
Write(v, d, content) ==
  /\ d \in v.state.active
  /\ published' = published \union
       {[v EXCEPT !.kind = "ordinary-write", !.revision = @ + 1, !.previous = Commitment(v),
                  !.writer = d, !.content = content]}

\* An owner adds or revokes devices, and may replace the key.  Envelopes that are
\* still those of the devices or of the key before make no well-formed state.
Administer(v, d) ==
  /\ d \in v.state.active \cap Owners
  /\ \E active \in SUBSET Devices, rotates \in BOOLEAN, stale \in BOOLEAN :
       LET epoch == v.state.epoch + IF rotates THEN 1 ELSE 0
           key   == IF rotates THEN <<epoch, d>> ELSE v.state.key
           made  == {[device |-> e, epoch |-> epoch, key |-> key] : e \in active}
           state == [serial |-> v.state.serial + 1, epoch |-> epoch, key |-> key,
                     active |-> active, sealedBy |-> d,
                     envelopes |-> IF stale THEN v.state.envelopes ELSE made]
       IN /\ <<active, rotates>> # <<v.state.active, FALSE>>
          /\ WellFormedState(state)
          /\ published' = published \union
               {[v EXCEPT !.kind = "administrative", !.revision = @ + 1, !.writer = d,
                          !.previous = Commitment(v), !.state = state]}

Publish ==
  /\ Cardinality(published) < MaxPublished
  /\ \/ \E d \in Owners, content \in Contents : Genesis(d, content)
     \/ \E v \in {v \in published : v.revision < MaxRevision}, d \in Devices :
          \/ \E content \in Contents : Write(v, d, content)
          \/ Administer(v, d)
  /\ UNCHANGED opened

\* The reader opens a document, its parts perhaps from two publications.
Read ==
  /\ \E v \in published, w \in published :
     \E other \in {ps \in SUBSET Parts : Cardinality(ps) =< MaxMixed} :
       LET doc == Document([p \in Parts |-> IF p \in other THEN w ELSE v]) IN
       /\ WellFormedDocument(doc) /\ DigestsMatch(doc) /\ WellFormedManifest(doc)
       /\ \E reader \in Devices \union {"authority"} :
            /\ Opens(doc, reader)
            /\ opened' = [reader |-> reader, document |-> doc]
  /\ UNCHANGED published

Init == published = {} /\ opened = None

Next == Publish \/ Read

Spec == Init /\ [][Next]_documentVars

-----------------------------------------------------------------------------
(* Properties.                                                             *)

\* What a reader opened is one publication, whole: its payload, its manifest
\* and the devices found in it are those that its writer published together,
\* also when two devices published on the same predecessor, and the reader is
\* among those it was published for.  (The envelope of the authority is not
\* committed to: one that is of another publication opens the same key.)
OpenedWasPublished ==
  opened # None =>
    LET doc == opened.document IN
    \E v \in published :
      /\ doc.link = Commitment(v) /\ doc.tuple = TupleOf(v)
      /\ doc.payload = Payload(v) /\ doc.manifest = Manifest(v)
      /\ doc.records = {Record(v, e) : e \in v.state.envelopes}
      /\ doc.delegation = Delegation(v)
      /\ opened.reader \in v.state.active \union {"authority"}
=============================================================================
