-------------------------------- MODULE MCLocks --------------------------------
(***************************************************************************)
(* The components that lock a file and replace it: a behaviour is one of   *)
(* the component `which` names, the others stay in their initial state.    *)
(* SecureFileTransition's operators keep their names.                      *)
(***************************************************************************)
EXTENDS SecureFileTransition, TLC

CONSTANTS p1, p2, p3, q1, q2

VARIABLES which,
  \* FileEncryptedDatabase
  storeLock, owner, dir, content, storePc, tries, stale, base, kept, job, answer, report,
  clock, storeFaults, kills,
  \* LegacyVault
  kind, doc, past, keyAt, anchorAt, kitAt, vaultLock, command, acked, overwritten,
  destroyed, starts, vaultFaults, crashes, restores,
  \* ProtectedFile
  platform, first, at, body, op, owned, pathLock, replaced, started, trouble

storeVars == <<storeLock, owner, dir, content, storePc, tries, stale, base, kept, job,
               answer, report, clock, storeFaults, kills>>
legacyVars == <<kind, doc, past, keyAt, anchorAt, kitAt, vaultLock, command, acked, overwritten,
                destroyed, starts, vaultFaults, crashes, restores>>
fileVars == <<platform, first, at, body, op, owned, pathLock, replaced, started, trouble>>

\* Three processes, two of which may be killed, two mutations and two faults.
Store == INSTANCE FileEncryptedDatabase WITH
  lockFile <- storeLock, recorded <- owner, pc <- storePc, attempts <- tries, prior <- kept,
  faults <- storeFaults, MaxAttempts <- 3, MaxWrites <- 2, MaxFaults <- 2, MaxKills <- 2

\* Two commands, with a fault, a kill or a document put back, on either store; two
\* key files and two kits.
Legacy == INSTANCE LegacyVault WITH
  store <- kind, lock <- vaultLock, proc <- command, faults <- vaultFaults,
  Paths <- {"p", "q"}, KitPaths <- {"r", "s"}, Stores <- {"file", "mongodb"}, None <- NoLock,
  MaxStarts <- 2, MaxTrouble <- 1

\* Three operations of two processes on either platform, with a fault or a kill.
Files == INSTANCE ProtectedFile WITH
  lock <- pathLock, Procs <- {q1, q2}, Platforms <- {"posix", "win32"}, None <- NoLock,
  MaxStarts <- 3, MaxTrouble <- 1

\* The processes p1, p2 and p3 are interchangeable.
Symmetry == Permutations(Procs)

SuiteInit ==
  /\ which \in {"file", "store", "legacy", "files"}
  /\ Init /\ Store!Init /\ Legacy!Init /\ Files!Init
  /\ which # "legacy" => kind = "file" /\ doc = NoLock \* one initial state where it rests
  /\ which # "files" => platform = "posix" /\ ~first

SuiteNext ==
  /\ UNCHANGED which
  /\ \/ which = "file"   /\ Next        /\ UNCHANGED <<storeVars, legacyVars, fileVars>>
     \/ which = "store"  /\ Store!Next  /\ UNCHANGED <<vars, legacyVars, fileVars>>
     \/ which = "legacy" /\ Legacy!Next /\ UNCHANGED <<vars, storeVars, fileVars>>
     \/ which = "files"  /\ Files!Next  /\ UNCHANGED <<vars, storeVars, legacyVars>>

SuiteSpec == SuiteInit /\ [][SuiteNext]_<<which, vars, storeVars, legacyVars, fileVars>>

-----------------------------------------------------------------------------
\* FileEncryptedDatabase: the prior content can be restored until the new one is
\* reported, and reports are true.  LegacyVault: what was acknowledged can be
\* restored too, whatever fails, and the user is told the truth.  ProtectedFile:
\* what was written stays whole, and what was emptied is gone.
NothingIsLost == /\ Store!PriorIsKept /\ Store!ReportsAreTrue
                 /\ Legacy!VaultIsSafe
                 /\ Files!FilesAreSafe
=============================================================================
