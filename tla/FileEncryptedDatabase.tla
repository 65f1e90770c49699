------------------------ MODULE FileEncryptedDatabase ------------------------
(***************************************************************************)
(* The file-backed database store.  A process opens the store by creating  *)
(* the lock file beside the data file (after removing one whose owner is   *)
(* dead), and then replaces the data file: write a temporary file, link    *)
(* the current file to a backup name, rename the temporary file over the   *)
(* data file, verify, and drop the backup, or rename the backup back.      *)
(*                                                                         *)
(* A process is one operating-system process that opens the store once.    *)
(* It creates at most one lock file, so it also names that file's inode.   *)
(* The n-th mutation names the inode of the file staged for it, and a      *)
(* container is the set of the mutations it includes; its revision is      *)
(* their number.  POSIX only; createDatabase is not modelled.              *)
(***************************************************************************)
EXTENDS Naturals, FiniteSets

CONSTANTS Procs,          \* the processes
          NoLock,         \* the lock path names no file
          MaxAttempts,    \* STALE_LOCK_RECOVERY_ATTEMPTS
          MaxWrites,      \* bound: mutations staged
          MaxFaults,      \* bound: failing system calls
          MaxKills,       \* bound: processes killed
          SoloRecovery    \* assumption: no two processes remove a lock at once

ASSUME NoLockAssumption == NoLock \notin Procs
ASSUME AttemptsAssumption == MaxAttempts \in Nat \ {0}
ASSUME BoundsAssumption == MaxWrites \in Nat /\ MaxFaults \in Nat /\ MaxKills \in Nat
ASSUME SoloRecoveryAssumption == SoloRecovery \in BOOLEAN

Mutations == 1 .. MaxWrites
Inodes    == 0 .. MaxWrites

\* The names in the data file's directory.
Target == [kind |-> "target", of |-> 0]
Tmp(n) == [kind |-> "tmp", of |-> n]
Bak(n) == [kind |-> "bak", of |-> n]
Names  == {Target} \cup {Tmp(n) : n \in Mutations} \cup {Bak(n) : n \in Mutations}

VARIABLES lockFile,   \* the inode the lock path names, or NoLock
          recorded,   \* the lock files that hold their owner's pid
          dir,        \* the directory: a function from names to inodes
          content,    \* content[i]: the mutations in the container of inode i
          pc,         \* pc[p]: the next step of p
          attempts,   \* attempts[p]: stale locks p has removed
          stale,      \* stale[p]: the dead owner p found in the lock
          base,       \* base[p]: the container p's caller has read
          prior,      \* prior[p]: the inode p verified before it staged
          job,        \* job[p]: p's mutation in progress, or its last one
          answer,     \* answer[p]: the last answer p's caller got
          report,     \* report[n]: what was said of mutation n
          clock, faults, kills

lockVars == <<lockFile, recorded>>
fileVars == <<dir, content>>
procVars == <<attempts, stale, base, prior, job>>
vars == <<lockVars, fileVars, pc, procVars, answer, report, clock, faults, kills>>

\* pc[p], grouped by what p holds.
Acquiring  == {"create", "inspect", "owner", "recheck", "unlink", "record"}
Undecided  == {"renamed", "confirmed", "undo"}
Publishing == {"staged", "verified", "backed", "linked", "retain", "undone"}
                \cup Undecided
Holding    == {"ping", "idle", "ready", "closing"} \cup Publishing
Over       == {"exited", "killed"}
Answers    == {"none", "opened", "busy", "invalid", "conflict", "operation", "ok"}

Init == /\ lockFile = NoLock /\ recorded = {}
        /\ dir      = [x \in {Target} |-> 0]
        /\ content  = [i \in Inodes |-> {}]
        /\ pc       = [p \in Procs |-> "new"]
        /\ attempts = [p \in Procs |-> 0]
        /\ stale    = [p \in Procs |-> NoLock]
        /\ base     = [p \in Procs |-> {}]
        /\ prior    = [p \in Procs |-> 0]
        /\ job      = [p \in Procs |-> 0]
        /\ answer   = [p \in Procs |-> "none"]
        /\ report   = [n \in Mutations |-> "none"]
        /\ clock = 0 /\ faults = 0 /\ kills = 0

-----------------------------------------------------------------------------
(* The directory.                                                          *)

Data        == dir[Target]
Links(d, i) == Cardinality({x \in DOMAIN d : d[x] = i})

Linked(d, x, i)  == [y \in DOMAIN d \cup {x} |-> IF y = x THEN i ELSE d[y]]
Unlinked(d, x)   == [y \in DOMAIN d \ {x} |-> d[y]]
Moved(d, x, y)   == Linked(Unlinked(d, x), y, d[x])

\* x names the expected file, which has that many names (nlink).
IsLinked(x, i, n) == x \in DOMAIN dir /\ dir[x] = i /\ Links(dir, i) = n

\* assertPathIdentity: the name is the only one of the expected file.
Names1(x, i) == IsLinked(x, i, 1)

Readable   == Names1(Target, Data)
Trusted(p) == lockFile = p
Dead(p)    == pc[p] \in Over

Goto(p, from, to) == pc[p] = from /\ pc' = [pc EXCEPT ![p] = to]

\* p goes on to `to` and its caller gets `reply`.
Tells(p, from, to, reply) == /\ Goto(p, from, to)
                             /\ answer' = [answer EXCEPT ![p] = reply]

Fault == faults < MaxFaults /\ faults' = faults + 1

-----------------------------------------------------------------------------
(* acquireLock and removeStaleLock.                                        *)

Start(p) == /\ Goto(p, "new", "create")
            /\ UNCHANGED <<lockVars, fileVars, procVars, answer, report, clock,
                           faults, kills>>

\* open(O_CREAT | O_EXCL).
CreateLock(p) ==
  /\ IF lockFile = NoLock THEN /\ Goto(p, "create", "record")
                               /\ lockFile' = p
                          ELSE /\ Goto(p, "create", "inspect")
                               /\ UNCHANGED lockFile
  /\ UNCHANGED <<recorded, fileVars, procVars, answer, report, clock, faults, kills>>

\* setAndVerifyCreatedFile, writeLockMetadata and sync.
Record(p) ==
  /\ Goto(p, "record", "ping")
  /\ recorded' = recorded \cup {p}
  /\ UNCHANGED <<lockFile, fileVars, procVars, answer, report, clock, faults, kills>>

\* One of them fails, the owner recorded or not: whatever the lock path names
\* is unlinked, unless that fails too.
RecordFails(p) ==
  /\ Fault
  /\ Tells(p, "record", "exited", "operation")
  /\ recorded' \in {recorded, recorded \cup {p}}
  /\ lockFile' \in {lockFile, NoLock}
  /\ UNCHANGED <<fileVars, procVars, report, clock, kills>>

\* Mutant: a lock that disappeared is waited for.
InspectWaits(p) ==
  /\ lockFile # NoLock
  /\ Goto(p, "inspect", "owner")
  /\ UNCHANGED <<lockVars, fileVars, procVars, answer, report, clock, faults, kills>>

\* inspectExistingLock: a lock that is gone by now is not a lock of ours.
Inspect(p) ==
  /\ IF lockFile = NoLock
       THEN Tells(p, "inspect", "exited", "invalid")
       ELSE Goto(p, "inspect", "owner") /\ UNCHANGED answer
  /\ UNCHANGED <<lockVars, fileVars, procVars, report, clock, faults, kills>>

\* Mutant: a recorded owner is taken to be dead.
OwnerPresumedDead(p) ==
  /\ IF lockFile \in recorded /\ attempts[p] + 1 < MaxAttempts
       THEN /\ Goto(p, "owner", "recheck")
            /\ stale' = [stale EXCEPT ![p] = lockFile]
            /\ UNCHANGED answer
       ELSE /\ Tells(p, "owner", "exited", "busy")
            /\ UNCHANGED stale
  /\ UNCHANGED <<lockVars, fileVars, attempts, base, prior, job, report, clock,
                 faults, kills>>

\* readLockOwner and isProcessLive: only a recorded, dead owner is removable.
ReadOwner(p) ==
  /\ IF /\ lockFile \in recorded
        /\ Dead(lockFile)
        /\ attempts[p] + 1 < MaxAttempts
       THEN /\ Goto(p, "owner", "recheck")
            /\ stale' = [stale EXCEPT ![p] = lockFile]
            /\ UNCHANGED answer
       ELSE /\ Tells(p, "owner", "exited", "busy")
            /\ UNCHANGED stale
  /\ UNCHANGED <<lockVars, fileVars, attempts, base, prior, job, report, clock,
                 faults, kills>>

\* The lock opened, its owner read again and the path compared once more.
Recheck(p) ==
  /\ SoloRecovery => \A q \in Procs : pc[q] # "unlink"
  /\ IF lockFile = stale[p]
       THEN Goto(p, "recheck", "unlink") /\ UNCHANGED answer
       ELSE Tells(p, "recheck", "exited", "busy")
  /\ UNCHANGED <<lockVars, fileVars, procVars, report, clock, faults, kills>>

\* unlink takes whatever the lock path names now; ENOENT is a refusal.
Unlink(p) ==
  /\ IF lockFile = NoLock
       THEN /\ Tells(p, "unlink", "exited", "busy")
            /\ UNCHANGED <<lockFile, attempts>>
       ELSE /\ Goto(p, "unlink", "create")
            /\ lockFile' = NoLock
            /\ attempts' = [attempts EXCEPT ![p] = @ + 1]
            /\ UNCHANGED answer
  /\ UNCHANGED <<recorded, fileVars, stale, base, prior, job, report, clock,
                 faults, kills>>

-----------------------------------------------------------------------------
(* open, reads and the compare half of a mutation.                         *)

\* ping reads the container; on an error the lock is released.
Ping(p) ==
  /\ IF Trusted(p) /\ Readable
       THEN Tells(p, "ping", "idle", "opened")
       ELSE Tells(p, "ping", "closing", "invalid")
  /\ UNCHANGED <<lockVars, fileVars, procVars, report, clock, faults, kills>>

\* getDatabase and listVaults, by which the caller prepares a mutation.
Read(p) ==
  /\ IF Trusted(p) /\ Readable
       THEN /\ Goto(p, "idle", "ready")
            /\ base' = [base EXCEPT ![p] = content[Data]]
            /\ UNCHANGED answer
       ELSE /\ Tells(p, "idle", "idle", "invalid")
            /\ UNCHANGED base
  /\ UNCHANGED <<lockVars, fileVars, attempts, stale, prior, job, report, clock,
                 faults, kills>>

\* A caller may go on from what it read before its last mutation.
Reuse(p) ==
  /\ job[p] # 0
  /\ Goto(p, "idle", "ready")
  /\ UNCHANGED <<lockVars, fileVars, procVars, answer, report, clock, faults, kills>>

Revision(c) == Cardinality(c)

Current(p) == Revision(content[Data]) = Revision(base[p])

\* readContainer again; an exact comparison; what the caller prepared is staged.
Stage(p) ==
  LET n == clock + 1 IN
  /\ n \in Mutations
  /\ Trusted(p) /\ Readable /\ Current(p)
  /\ Goto(p, "ready", "staged")
  /\ clock'   = n
  /\ job'     = [job EXCEPT ![p] = n]
  /\ prior'   = [prior EXCEPT ![p] = Data]
  /\ content' = [content EXCEPT ![n] = base[p] \cup {n}]
  /\ dir'     = Linked(dir, Tmp(n), n)
  /\ UNCHANGED <<lockVars, attempts, stale, base, answer, report, faults, kills>>

Refuse(p) ==
  /\ \/ /\ Trusted(p) /\ Readable /\ ~Current(p)
        /\ Tells(p, "ready", "idle", "conflict")
     \/ /\ ~(Trusted(p) /\ Readable)
        /\ Tells(p, "ready", "idle", "invalid")
  /\ UNCHANGED <<lockVars, fileVars, procVars, report, clock, faults, kills>>

-----------------------------------------------------------------------------
(* publishContainer.                                                       *)

Reports(p, r) == report' = [report EXCEPT ![job[p]] = r]

\* The data file is still the one that was read.
Verify(p) ==
  /\ IF Trusted(p) /\ Names1(Target, prior[p])
       THEN /\ Goto(p, "staged", "verified")
            /\ UNCHANGED <<dir, answer, report>>
       ELSE /\ Tells(p, "staged", "idle", "invalid")
            /\ dir' = Unlinked(dir, Tmp(job[p]))
            /\ Reports(p, "refused")
  /\ UNCHANGED <<lockVars, content, procVars, clock, faults, kills>>

LinkBackup(p) ==
  /\ Goto(p, "verified", "backed")
  /\ dir' = Linked(dir, Bak(job[p]), Data)
  /\ UNCHANGED <<lockVars, content, procVars, answer, report, clock, faults, kills>>

\* The backup is the file that was read, and nobody else has linked it.
BackupOwned(p) == IsLinked(Bak(job[p]), prior[p], 2)

\* assertBackupIdentity.  A backup that fails it stays in the directory.
CheckBackup(p) ==
  /\ IF BackupOwned(p)
       THEN /\ Goto(p, "backed", "linked")
            /\ UNCHANGED <<dir, answer, report>>
       ELSE /\ Tells(p, "backed", "idle", "invalid")
            /\ dir' = Unlinked(dir, Tmp(job[p]))
            /\ Reports(p, "refused")
  /\ UNCHANGED <<lockVars, content, procVars, clock, faults, kills>>

\* A system call fails before the rename: the temporary file is unlinked, and
\* so is a backup that was verified, unless that fails too.
StageFails(p) ==
  /\ Fault
  /\ \E from \in {"staged", "verified", "backed", "linked"}, kept \in BOOLEAN :
       LET rest == Unlinked(dir, Tmp(job[p])) IN
       /\ Tells(p, from, "idle", "operation")
       /\ dir' = IF from = "linked" /\ ~kept THEN Unlinked(rest, Bak(job[p])) ELSE rest
  /\ Reports(p, "unknown")
  /\ UNCHANGED <<lockVars, content, procVars, clock, kills>>

Rename(p) ==
  /\ Goto(p, "linked", "renamed")
  /\ dir' = Moved(dir, Tmp(job[p]), Target)
  /\ UNCHANGED <<lockVars, content, procVars, answer, report, clock, faults, kills>>

\* Mutant: the backup is dropped before the replacement has been verified.
ConfirmAfterDrop(p) ==
  /\ Goto(p, "renamed", "confirmed")
  /\ dir' = Unlinked(dir, Bak(job[p]))
  /\ UNCHANGED <<lockVars, content, procVars, answer, report, clock, faults, kills>>

\* Identity, permissions, readback and the directory sync, or one of them fails.
Confirm(p) ==
  /\ IF Trusted(p) /\ Names1(Target, job[p])
       THEN Goto(p, "renamed", "confirmed")
       ELSE Goto(p, "renamed", "undo")
  /\ UNCHANGED <<lockVars, fileVars, procVars, answer, report, clock, faults, kills>>

ConfirmFails(p) ==
  /\ Fault
  /\ \/ Goto(p, "renamed", "undo")
     \/ Goto(p, "confirmed", "undo")
  /\ UNCHANGED <<lockVars, fileVars, procVars, answer, report, clock, kills>>

\* The backup is dropped: from here on the mutation cannot be undone.
DropBackup(p) ==
  /\ IF Names1(Bak(job[p]), prior[p])
       THEN /\ Goto(p, "confirmed", "retain")
            /\ dir' = Unlinked(dir, Bak(job[p]))
       ELSE /\ Goto(p, "confirmed", "undo")
            /\ UNCHANGED dir
  /\ UNCHANGED <<lockVars, content, procVars, answer, report, clock, faults, kills>>

\* openRetainedFile and adoptPublishedHandle.
Retain(p) ==
  /\ IF Names1(Target, job[p])
       THEN Tells(p, "retain", "idle", "ok") /\ Reports(p, "ok")
       ELSE Tells(p, "retain", "idle", "operation") /\ Reports(p, "unknown")
  /\ UNCHANGED <<lockVars, fileVars, procVars, clock, faults, kills>>

\* Mutant: a failure after the backup was dropped is reported as a refusal.
RetainFailsRefused(p) ==
  /\ Fault
  /\ Tells(p, "retain", "idle", "operation")
  /\ Reports(p, "refused")
  /\ UNCHANGED <<lockVars, fileVars, procVars, clock, kills>>

RetainFails(p) ==
  /\ Fault
  /\ Tells(p, "retain", "idle", "operation")
  /\ Reports(p, "unknown")
  /\ UNCHANGED <<lockVars, fileVars, procVars, clock, kills>>

-----------------------------------------------------------------------------
(* rollbackPublishedContainer.                                             *)

\* The backup is renamed over the data file that was published.
Undo(p) ==
  /\ IF Trusted(p) /\ Names1(Target, job[p]) /\ Names1(Bak(job[p]), prior[p])
       THEN /\ Goto(p, "undo", "undone")
            /\ dir' = Moved(dir, Bak(job[p]), Target)
            /\ UNCHANGED <<answer, report>>
       ELSE /\ Tells(p, "undo", "idle", "operation")
            /\ Reports(p, "unknown")
            /\ UNCHANGED dir
  /\ UNCHANGED <<lockVars, content, procVars, clock, faults, kills>>

\* Both attempts to rename fail: the mutation stays.
UndoFails(p) ==
  /\ Fault
  /\ Tells(p, "undo", "idle", "operation")
  /\ Reports(p, "unknown")
  /\ UNCHANGED <<lockVars, fileVars, procVars, clock, kills>>

\* syncDirectory.
UndoSync(p) ==
  /\ Tells(p, "undone", "idle", "operation")
  /\ Reports(p, "unknown")
  /\ UNCHANGED <<lockVars, fileVars, procVars, clock, faults, kills>>

\* It fails: the restored file gets a second name, as evidence.
UndoSyncFails(p) ==
  /\ Fault
  /\ Tells(p, "undone", "idle", "operation")
  /\ Reports(p, "unknown")
  /\ dir' = IF Trusted(p) /\ Names1(Target, prior[p])
             THEN Linked(dir, Bak(job[p]), Data)
             ELSE dir
  /\ UNCHANGED <<lockVars, content, procVars, clock, kills>>

-----------------------------------------------------------------------------
(* close, and the environment.                                             *)

Close(p) ==
  /\ Goto(p, "idle", "closing")
  /\ UNCHANGED <<lockVars, fileVars, procVars, answer, report, clock, faults, kills>>

\* releaseLock compares the path with the lock it created, then unlinks it.
Release(p) ==
  /\ IF Trusted(p) THEN Goto(p, "closing", "releasing")
                   ELSE Goto(p, "closing", "exited")
  /\ UNCHANGED <<lockVars, fileVars, procVars, answer, report, clock, faults, kills>>

RemoveLock(p) ==
  /\ Goto(p, "releasing", "exited")
  /\ lockFile' = NoLock
  /\ UNCHANGED <<recorded, fileVars, procVars, answer, report, clock, faults, kills>>

\* The lock cannot be unlinked, and the process exits.
ReleaseFails(p) ==
  /\ Fault
  /\ Goto(p, "releasing", "exited")
  /\ UNCHANGED <<lockVars, fileVars, procVars, answer, report, clock, kills>>

Kill(p) ==
  /\ kills < MaxKills
  /\ kills' = kills + 1
  /\ pc[p] \notin Over \cup {"new"}
  /\ Goto(p, pc[p], "killed")
  /\ UNCHANGED <<lockVars, fileVars, procVars, answer, report, clock, faults>>

Locking(p)    == \/ CreateLock(p) \/ Record(p) \/ Inspect(p) \/ ReadOwner(p)
                 \/ Recheck(p) \/ Unlink(p) \/ Ping(p)
Writing(p)    == \/ Stage(p) \/ Refuse(p) \/ Verify(p) \/ LinkBackup(p)
                 \/ CheckBackup(p) \/ Rename(p) \/ Confirm(p) \/ DropBackup(p)
                 \/ Retain(p) \/ Undo(p) \/ UndoSync(p)
Failing(p)    == \/ RecordFails(p) \/ StageFails(p) \/ ConfirmFails(p)
                 \/ RetainFails(p) \/ UndoFails(p) \/ UndoSyncFails(p)
                 \/ ReleaseFails(p)
Leaving(p)    == Release(p) \/ RemoveLock(p)

Next == \E p \in Procs : \/ Start(p) \/ Locking(p) \/ Writing(p)
                         \/ Read(p) \/ Reuse(p) \/ Close(p)
                         \/ Leaving(p) \/ Failing(p) \/ Kill(p)

Spec == Init /\ [][Next]_vars

\* A call runs on once it has begun; starting, reading and closing are the
\* caller's choice, and what fails is nobody's duty.
LiveSpec == Spec /\ \A p \in Procs :
                      WF_vars(Locking(p) \/ Writing(p) \/ Leaving(p))

-----------------------------------------------------------------------------
PCs == {"new", "releasing"} \cup Acquiring \cup Holding \cup Over

TypeOK ==
  /\ lockFile \in Procs \cup {NoLock} /\ recorded \subseteq Procs
  /\ DOMAIN dir \subseteq Names /\ dir \in [DOMAIN dir -> Inodes]
  /\ content \in [Inodes -> SUBSET Mutations]
  /\ pc \in [Procs -> PCs] /\ answer \in [Procs -> Answers]
  /\ attempts \in [Procs -> 0 .. MaxAttempts - 1]
  /\ stale \in [Procs -> Procs \cup {NoLock}]
  /\ base \in [Procs -> SUBSET Mutations]
  /\ prior \in [Procs -> Inodes] /\ job \in [Procs -> Inodes]
  /\ report \in [Mutations -> {"none", "ok", "refused", "unknown"}]
  /\ clock \in 0 .. MaxWrites
  /\ faults \in 0 .. MaxFaults /\ kills \in 0 .. MaxKills

\* The container as decided so far: while a mutation may still be undone, the
\* file it replaced.
Committed ==
  IF \E p \in Procs : pc[p] \in Undecided
    THEN content[prior[CHOOSE p \in Procs : pc[p] \in Undecided]]
    ELSE content[Data]

Contract == INSTANCE AtomicContainer WITH value <- Committed

\* The store is an atomic container, whatever fails or is killed, as long as
\* two processes do not remove a lock at the same time.
Implements == Contract!Spec

\* "The store holds the exclusive writer lock for its whole lifetime": no two
\* live processes are between opening and closing.
ExclusiveForLifetime ==
  \A p, q \in Procs : pc[p] \in Holding /\ pc[q] \in Holding => p = q

\* A mutation reported `ok` is in the data file itself from then on, and one
\* that was refused never is.
ReportsAreTrue ==
  \A n \in Mutations : /\ report[n] = "ok" => n \in content[Data]
                       /\ report[n] = "refused" => n \notin content[Data]

\* While the data file is a replacement that may still be undone, the file it
\* replaced can be found under the backup name: no crash loses a generation.
PriorIsKept ==
  \A p \in Procs : pc[p] \in Undecided =>
    Bak(job[p]) \in DOMAIN dir /\ dir[Bak(job[p])] = prior[p]

\* docs/local-database.md: "a provably dead owner's lock is removed
\* automatically before the command proceeds": the process that has taken the
\* lock over finds a data file it can read.
TakeoverProceeds == \A p \in Procs : pc[p] = "ping" => Readable

\* Every call comes to an end.
EveryCallEnds ==
  \A p \in Procs : pc[p] \notin {"new", "idle", "ready"} \cup Over ~>
                    pc[p] \in {"idle"} \cup Over

\* A process that meets the recorded lock of a dead owner, and nobody else,
\* gets the lock (docs/local-database.md).
DeadOwnerYields ==
  \A p \in Procs :
    /\ pc[p] = "inspect" /\ lockFile \in recorded /\ Dead(lockFile)
    /\ \A q \in Procs \ {p} : Dead(q)
    ~> lockFile = p \/ pc[p] = "killed"

\* Whatever fails or is killed, no process waits for ever.
StoreCallsEnd == EveryCallEnds /\ DeadOwnerYields
=============================================================================
