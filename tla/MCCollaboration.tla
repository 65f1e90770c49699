---------------------------- MODULE MCCollaboration ----------------------------
(***************************************************************************)
(* The library of collaborative vaults, checked in one run: a behaviour is *)
(* one of a single component, which `which` names; the others stay in      *)
(* their initial state.  The store's operators keep their names.           *)
(* Collaboration_proofs has their instances and proves their properties    *)
(* under the names that the run checks.                                    *)
(***************************************************************************)
EXTENDS Collaboration_proofs, TLC

CONSTANTS o1, o2, o3, o4, d1, d2,   \* the store: operations and devices
          j1, j2, p1, p2, own, authority, \* the devices' files
          m1, m2,                   \* machines that migrate
          i1, i2, f1, f2, f3, never, \* identities and their files
          g1, g2, second            \* devices that sign, g1 and `second` of one principal

VARIABLE which

deviceVars    == <<store, restores, journal, tomb, proc, anchor, gone, published>>
migrationVars == <<marker, outcome, revision, bundles, running, recipient, authorized>>
identityVars  == <<root, file, lock, exports, now>>
chainVars     == <<decided, chains, checkpoints>>
documentVars  == <<documents, opened>>
consentVars   == <<statements, today, record>>

-----------------------------------------------------------------------------
\* Two operations of one device, each prepared by two processes, over a store
\* that is restored once.
DeviceKinds == (j1 :> {"write", "member"}) @@ (j2 :> {"member", "destroy"})
ASSUME DeviceConstants == Device!ConstantsApart

\* Two machines that migrate one vault, each with two bundles.
ASSUME MigrationConstants == Migration!ConstantsApart

\* Two devices that are certified in three places, with and without an expiry.
ASSUME IdentityConstants == Identity!ConstantsFit

\* Three publications of two owners, of which two may be on one predecessor, and
\* three statements of two devices of one principal and one of another.
OwnedBy == (g1 :> "p") @@ (second :> "p") @@ (g2 :> "q")
ASSUME DocumentConstants == Reader!OwnersAreDevices
ASSUME ConsentConstants == Consent!ConstantsFit

-----------------------------------------------------------------------------
SuiteInit ==
  /\ which \in {"store", "device", "migration", "identity", "chain", "document", "consent"}
  /\ Init /\ Device!Init /\ Migration!Init /\ Identity!Init
  /\ Follower!Init /\ Reader!Init /\ Consent!Init

Rests(component, its) == IF which = component THEN TRUE ELSE UNCHANGED its

SuiteNext ==
  /\ UNCHANGED which
  /\ \/ which = "store"     /\ Next
     \/ which = "device"    /\ Device!Next
     \/ which = "migration" /\ Migration!Next
     \/ which = "identity"  /\ Identity!Next
     \/ which = "chain"     /\ Follower!Next
     \/ which = "document"  /\ Reader!Next
     \/ which = "consent"   /\ Consent!Next
  /\ Rests("store", vars)
  /\ Rests("device", deviceVars)
  /\ Rests("migration", migrationVars)
  /\ Rests("identity", identityVars)
  /\ Rests("chain", chainVars)
  /\ Rests("document", documentVars)
  /\ Rests("consent", consentVars)

SuiteSpec == SuiteInit /\ [][SuiteNext]_<<which, vars, deviceVars, migrationVars, identityVars,
                                         chainVars, documentVars, consentVars>>
=============================================================================
