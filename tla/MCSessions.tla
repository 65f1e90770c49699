------------------------------- MODULE MCSessions -------------------------------
(***************************************************************************)
(* Three instances of DatabaseSession, and what a session writes into a     *)
(* vault, checked in one run; `which` names the one a behaviour belongs to. *)
(* The constants of the configuration are those of the session instance     *)
(* where the store or an anchor fails.                                      *)
(***************************************************************************)
EXTENDS DatabaseSession, TLC

CONSTANTS s1, s2, d1, d2, v1, v2, None

VARIABLES which,
  \* StructuredVault
  plaintext

OwnDevice == (s1 :> d1) @@ (s2 :> d2)
Anything  == {"rename", "create", "update", "delete"}

\* One key file, two mutations, nothing fails: the sessions of one user.
Shared == INSTANCE DatabaseSession WITH
  Sessions <- {s1, s2}, Devices <- {d1, d2}, DeviceOf <- OneDevice,
  Vaults <- {v1, v2}, FirstVaults <- {v1}, Operations <- Anything, Modes <- {"plain"},
  MaxOps <- 2, MaxFaults <- 0, MaxCrashes <- 0, MaxRestores <- 0

\* Two key files, two updates of a vault, and the store is restored.
Restored == INSTANCE DatabaseSession WITH
  Sessions <- {s1, s2}, Devices <- {d1, d2}, DeviceOf <- OwnDevice,
  Vaults <- {v1, v2}, FirstVaults <- {v1}, Operations <- {"update"},
  Modes <- {"plain", "accept"},
  MaxOps <- 2, MaxFaults <- 0, MaxCrashes <- 0, MaxRestores <- 1

\* Two items of a service, three titles, two updates.
Structured == INSTANCE StructuredVault WITH
  vault <- plaintext, Contexts <- {"c", "e"}, Services <- {"s"}, Titles <- {"a", "b", "toString"},
  NoteTitles <- {"n"}, FlatNames <- {"a", "toString"}, Inherited <- {"toString"},
  FieldNames <- {"value", "token"}, Keys <- {"value", "token"}, Values <- {"x"}, Ids <- {1, 2},
  LegacyVaults <- {"a" :> "x"}, Retained <- 1, Marks <- {"none", "public"},
  MaxRevision <- 2, MaxEntries <- 5

-----------------------------------------------------------------------------
SuiteInit ==
  /\ \/ which = "shared"   /\ Shared!Init
     \/ which = "restored" /\ Restored!Init
     \/ which \in {"faulty", "vault"} /\ Init
  /\ Structured!Init
  /\ which # "vault" => plaintext = Structured!CreateEmpty

Rests(components, its) == IF which \in components THEN TRUE ELSE UNCHANGED its

SuiteNext ==
  /\ UNCHANGED which
  /\ \/ which = "faulty"   /\ Next
     \/ which = "shared"   /\ Shared!Next
     \/ which = "restored" /\ Restored!Next
     \/ which = "vault"    /\ Structured!Next
     \/ which = "vault"    /\ UNCHANGED plaintext \* writes are bounded, sessions are not
  /\ Rests({"faulty", "shared", "restored"}, vars)
  /\ Rests({"vault"}, plaintext)

SuiteSpec == SuiteInit /\ [][SuiteNext]_<<which, vars, plaintext>>

-----------------------------------------------------------------------------
\* DatabaseSession: an anchor never forgets what was acknowledged, whatever was
\* restored (under the hypotheses of the theorem that says so), and sessions of
\* one key file keep it at the state of the store.
AnchorsAreTrue == /\ which \in {"faulty", "shared", "restored"} =>
                       AnchorRemembers /\ UpdatesAreListed
                  /\ AcceptsAlone /\ Shared!AcceptsAlone /\ Restored!AcceptsAlone
                  /\ which = "shared" => Shared!AnchorMatchesStore

\* StructuredVault: flat commands work whatever the structured ones did, and a
\* listed version of an item can be restored.
VaultsStayUsable == Structured!TypeOK /\ Structured!FlatCommandsWork /\ Structured!VersionsRestore

\* StructuredVault: an item is changed only along with a snapshot of what it was.
EditsAreKept == Structured!EditsAreKept
=============================================================================
