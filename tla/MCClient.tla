-------------------------------- MODULE MCClient --------------------------------
(***************************************************************************)
(* The command line around a database, checked in one run: a behaviour is  *)
(* one of a single component, which `which` names; the others stay in      *)
(* their initial state.  Client_proofs has the instances Kit, Port,        *)
(* Update, Rotate, Stream, Unlock, Backend and Migrate, Terminal_proofs    *)
(* those of Tui, Router and Wizard; they prove the properties of these and *)
(* of Initialization under the names that the run checks.                  *)
(***************************************************************************)
EXTENDS Client_proofs, Terminal_proofs, TLC

CONSTANTS i1, p1, p2, f1, f2,  \* profiles, commands, paths
          t1, t2, shared,      \* targets of sessions, the session file they share
          k0, k1, r1, r2,      \* keys and kits
          v1                   \* a vault

VARIABLE which

unlockVars == <<sealed, keychain, session, unlock, ended, revoked, now, unlockFaults>>
kitVars    == <<db, files, trusts, held, kitProc, begun, acked, kitFaults, kitCrashes>>
updateVars == <<tag, package, updates, reports, starts>>
mongoVars  == <<replicated, present, conn, store, view, job, late, calls, taken, told, mongoFaults>>
migrateVars == <<mode, legacy, target, vaults, bound, targetLock, migrations, published, verified,
                 codes, writes, migrationFaults, migrationCrashes>>
rotateVars == <<records, versions, replaced, checkpoint, written, caller, retired,
                rotationCrashes, swaps>>
streamVars == <<given, buffer, enc, sink, manifests, dec, reads>>
tuiVars    == <<ui, requests, items, edits, kept, saved, asked>>
backendVars == <<entries, databases, selected, passphrases, mem, overdue, lifetime, opened, act,
                 actions, elsewhere>>
routerVars == <<screen, call, unlocked, named, screenCalls>>
wizardVars == <<wizard, known, twice, sent, made, setup>>

-----------------------------------------------------------------------------
\* Two profiles that share a key file, and so its session file; two sessions.
SharedFile == [t \in Targets |-> shared]
ASSUME UnlockConstants == Unlock!ConstantsFit

\* Two kits and one key to recover to, three commits, a fault and a crash.
ASSUME KitConstants == Kit!ConstantsFit

\* Two commands; two betas and the stable release of two versions.
Version(core, beta) == [core |-> core, beta |-> beta]
ASSUME UpdateConstants == Update!ConstantsFit

\* Port has two clients of one server, a vault, four mutations and one fault.

\* Two migrations to one destination, which exists or does not.
ASSUME MigrationConstants == Migrate!ConstantsFit

\* Two records, rotated twice.
ASSUME RotationConstants == Rotate!ConstantsFit

\* Two attachments of up to two chunks, four records offered.
ASSUME StreamConstants == Stream!ConstantsFit

\* Two groups of two items and one; a repeatable field of two elements.
BrowserGroups  == <<"g", "h">>
BrowserItems   == [g |-> <<"a", "b">>, h |-> <<"c">>]
BrowserLayouts == {<<"e1", "e2">>, <<"e2">>}
FirstElements  == <<"e1", "e2">>
ASSUME BrowserConstants == Tui!ConstantsFit

\* A local profile, and one on MongoDB that is created; another process selects
\* a profile once.
ASSUME BackendConstants == Backend!ConstantsFit

\* Two targets and four calls of the backend.
ASSUME RouterConstants == Router!ConstantsFit

\* Wizard has two choices of each setting that is checked or typed twice.

-----------------------------------------------------------------------------
SuiteInit ==
  /\ which \in {"init", "unlock", "kit", "update", "mongo", "migrate", "rotate", "stream", "tui",
               "backend", "router", "wizard"}
  /\ Init /\ Unlock!Init /\ Kit!Init /\ Update!Init /\ Port!Init /\ Migrate!Init
  /\ Rotate!Init /\ Stream!Init /\ Tui!Init /\ Backend!Init /\ Router!Init /\ Wizard!Init
  \* one initial state of those that do not move
  /\ which # "update"  => tag = Version(1, 99) /\ package = tag
  /\ which # "mongo"   => replicated
  /\ which # "migrate" => mode = "initialize"
  /\ which # "stream"  => buffer = [s |-> "x", t |-> "x"]
  /\ which # "backend" => selected = p1

Rests(component, own) == IF which = component THEN TRUE ELSE UNCHANGED own

SuiteNext ==
  /\ UNCHANGED which
  /\ \/ which = "init"    /\ Next
     \/ which = "unlock"  /\ Unlock!Next
     \/ which = "kit"     /\ Kit!Next
     \/ which = "update"  /\ Update!Next
     \/ which = "mongo"   /\ Port!Next
     \/ which = "migrate" /\ Migrate!Next
     \/ which = "rotate"  /\ Rotate!Next
     \/ which = "stream"  /\ Stream!Next
     \/ which = "tui"     /\ Tui!Next
     \/ which = "backend" /\ Backend!Next
     \/ which = "router"  /\ Router!Next
     \/ which = "wizard"  /\ Wizard!Next
  /\ Rests("init", vars)
  /\ Rests("unlock", unlockVars)
  /\ Rests("kit", kitVars)
  /\ Rests("update", updateVars)
  /\ Rests("mongo", mongoVars)
  /\ Rests("migrate", migrateVars)
  /\ Rests("rotate", rotateVars)
  /\ Rests("stream", streamVars)
  /\ Rests("tui", tuiVars)
  /\ Rests("backend", backendVars)
  /\ Rests("router", routerVars)
  /\ Rests("wizard", wizardVars)

SuiteSpec == SuiteInit /\ [][SuiteNext]_<<which, vars, unlockVars, kitVars, updateVars, mongoVars,
                                          migrateVars, rotateVars, streamVars, tuiVars,
                                          backendVars, routerVars, wizardVars>>
=============================================================================
