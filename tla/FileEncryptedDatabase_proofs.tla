-------------------- MODULE FileEncryptedDatabase_proofs --------------------
(***************************************************************************)
(* Proofs about FileEncryptedDatabase, for every set of processes and any  *)
(* number of attempts, mutations, faults and kills, under the assumption   *)
(* that two processes never remove a lock at the same time.                *)
(***************************************************************************)
EXTENDS FileEncryptedDatabase, FiniteSetTheorems, TLAPS

-----------------------------------------------------------------------------
(* The inductive invariant.                                                *)

\* A process in one of these states has created the lock file and not let go.
Owning   == {"record", "releasing"} \cup Holding
Removing == {"recheck", "unlink"}

\* Whoever is about to remove a lock has found its owner dead, and the path
\* still names that owner's lock.
RemovalInv ==
  /\ \A p \in Procs : pc[p] \in Removing => /\ stale[p] \in Procs
                                            /\ pc[stale[p]] \in Over
                                            /\ attempts[p] + 1 < MaxAttempts
  /\ \A p \in Procs : pc[p] = "unlink" => lockFile = stale[p]
  /\ \A p, q \in Procs : pc[p] = "unlink" /\ pc[q] = "unlink" => p = q

OwnerInv == \A p \in Procs : pc[p] \in Owning => lockFile = p

LockInv == RemovalInv /\ OwnerInv

\* The data file exists, and nothing belongs to a mutation not staged yet.
FreshInv == /\ Target \in DOMAIN dir
            /\ \A x \in DOMAIN dir : dir[x] \in 0 .. clock
            /\ \A i \in Inodes : content[i] \subseteq 1 .. clock
            /\ \A n \in Mutations : n > clock => report[n] = "none"

Replaced == Undecided \cup {"retain"}
Before   == {"staged", "verified", "backed", "linked"}

\* The mutation in progress: its file, the file it replaces, and their names.
JobInv(p) ==
  /\ job[p] \in 1 .. clock /\ prior[p] \in 0 .. clock
  /\ report[job[p]] = "none"
  /\ job[p] \notin content[prior[p]]
  /\ content[job[p]] = content[prior[p]] \cup {job[p]}
  /\ base[p] \subseteq content[prior[p]]
  /\ dir[Target] = IF pc[p] \in Replaced THEN job[p] ELSE prior[p]
  /\ pc[p] \in Before => Tmp(job[p]) \in DOMAIN dir /\ dir[Tmp(job[p])] = job[p]
  /\ pc[p] \in {"linked"} \cup Undecided =>
       Bak(job[p]) \in DOMAIN dir /\ dir[Bak(job[p])] = prior[p]

\* What a caller prepares from was in the data file, and still is.
CallerInv(p) ==
  /\ pc[p] \in {"new"} \cup Acquiring => base[p] = {}
  /\ pc[p] \in {"ping", "idle", "ready"} => base[p] \subseteq content[Data]

StoreInv == /\ FreshInv
            /\ \A p \in Procs : pc[p] \in Publishing => JobInv(p)
            /\ \A p \in Procs : CallerInv(p)
            /\ ReportsAreTrue

IInv == TypeOK /\ LockInv /\ StoreInv

-----------------------------------------------------------------------------
(* Directories.                                                            *)

IsDir(d) == DOMAIN d \subseteq Names /\ d \in [DOMAIN d -> Inodes]

LEMMA NamesDiffer ==
  \A m, n : /\ Tmp(n) # Target /\ Bak(n) # Target /\ Tmp(m) # Bak(n)
            /\ Tmp(m) = Tmp(n) => m = n
            /\ Bak(m) = Bak(n) => m = n
BY DEF Tmp, Bak, Target

LEMMA LinkedIs ==
  ASSUME NEW d, NEW x, NEW i
  PROVE  /\ DOMAIN Linked(d, x, i) = DOMAIN d \cup {x}
         /\ Linked(d, x, i)[x] = i
         /\ \A y \in DOMAIN d : y # x => Linked(d, x, i)[y] = d[y]
         /\ IsDir(d) /\ x \in Names /\ i \in Inodes => IsDir(Linked(d, x, i))
BY DEF Linked, IsDir

LEMMA UnlinkedIs ==
  ASSUME NEW d, NEW x
  PROVE  /\ DOMAIN Unlinked(d, x) = DOMAIN d \ {x}
         /\ \A y \in DOMAIN d : y # x => Unlinked(d, x)[y] = d[y]
         /\ IsDir(d) => IsDir(Unlinked(d, x))
BY DEF Unlinked, IsDir

LEMMA MovedIs ==
  ASSUME NEW d, NEW x \in DOMAIN d, NEW y, x # y
  PROVE  /\ DOMAIN Moved(d, x, y) = (DOMAIN d \ {x}) \cup {y}
         /\ Moved(d, x, y)[y] = d[x]
         /\ \A z \in DOMAIN d : z \notin {x, y} => Moved(d, x, y)[z] = d[z]
         /\ IsDir(d) /\ y \in Names => IsDir(Moved(d, x, y))
<1> DEFINE e == Unlinked(d, x)
           f == Linked(e, y, d[x])
<1>1. /\ DOMAIN e = DOMAIN d \ {x}
      /\ \A z \in DOMAIN d : z # x => e[z] = d[z]
      /\ IsDir(d) => IsDir(e)
  BY UnlinkedIs
<1>2. /\ DOMAIN f = DOMAIN e \cup {y}
      /\ f[y] = d[x]
      /\ \A z \in DOMAIN e : z # y => f[z] = e[z]
      /\ IsDir(e) /\ y \in Names /\ d[x] \in Inodes => IsDir(f)
  BY LinkedIs
<1>3. IsDir(d) => d[x] \in Inodes
  BY DEF IsDir
<1>4. Moved(d, x, y) = f
  BY DEF Moved
<1> HIDE DEF e, f
<1> QED
  BY <1>1, <1>2, <1>3, <1>4

-----------------------------------------------------------------------------
(* Types.                                                                  *)

LEMMA JobType ==
  ASSUME TypeOK, StoreInv, NEW p \in Procs, pc[p] \in Publishing
  PROVE  /\ job[p] \in Mutations /\ prior[p] \in Inodes
         /\ Tmp(job[p]) \in Names /\ Bak(job[p]) \in Names /\ Target \in Names
         /\ JobInv(p)
BY BoundsAssumption
DEF TypeOK, StoreInv, JobInv, Mutations, Inodes, Names

LEMMA TypeStep ==
  ASSUME TypeOK, LockInv, StoreInv, Next
  PROVE  TypeOK'
<1> USE AttemptsAssumption, BoundsAssumption
    DEF TypeOK, Goto, Tells, Fault, Reports, lockVars, fileVars, procVars,
        PCs, Acquiring, Holding, Publishing, Undecided, Over, Answers
<1>1. ASSUME NEW p \in Procs, Start(p) PROVE TypeOK'
  BY <1>1 DEF Start
<1>2. ASSUME NEW p \in Procs, CreateLock(p) PROVE TypeOK'
  BY <1>2 DEF CreateLock
<1>3. ASSUME NEW p \in Procs, Record(p) PROVE TypeOK'
  BY <1>3 DEF Record
<1>4. ASSUME NEW p \in Procs, RecordFails(p) PROVE TypeOK'
  BY <1>4 DEF RecordFails
<1>5. ASSUME NEW p \in Procs, Inspect(p) PROVE TypeOK'
  BY <1>5 DEF Inspect
<1>6. ASSUME NEW p \in Procs, ReadOwner(p) PROVE TypeOK'
  BY <1>6 DEF ReadOwner
<1>7. ASSUME NEW p \in Procs, Recheck(p) PROVE TypeOK'
  BY <1>7 DEF Recheck
<1>8. ASSUME NEW p \in Procs, Unlink(p) PROVE TypeOK'
  BY <1>8 DEF Unlink, LockInv, RemovalInv, Removing
<1>9. ASSUME NEW p \in Procs, Ping(p) PROVE TypeOK'
  BY <1>9 DEF Ping
<1>10. ASSUME NEW p \in Procs, Read(p) PROVE TypeOK'
  BY <1>10 DEF Read, StoreInv, FreshInv, Data
<1>11. ASSUME NEW p \in Procs, Reuse(p) PROVE TypeOK'
  BY <1>11 DEF Reuse
<1>12. ASSUME NEW p \in Procs, Stage(p) PROVE TypeOK'
  <2> USE <1>12 DEF Stage
  <2>1. IsDir(dir) /\ Target \in DOMAIN dir /\ clock + 1 \in Mutations
    BY DEF IsDir, StoreInv, FreshInv
  <2>2. Data \in Inodes
    BY <2>1 DEF IsDir, Data
  <2>3. Tmp(clock + 1) \in Names /\ clock + 1 \in Inodes
    BY <2>1 DEF Names, Inodes, Mutations
  <2>4. IsDir(dir')
    BY <2>1, <2>3, LinkedIs
  <2>5. content' \in [Inodes -> SUBSET Mutations]
    BY <2>1
  <2>6. clock' \in 0 .. MaxWrites /\ pc' \in [Procs -> PCs]
    BY <2>1 DEF Mutations
  <2>7. job' \in [Procs -> Inodes] /\ prior' \in [Procs -> Inodes]
    BY <2>2, <2>3
  <2> QED BY <2>4, <2>5, <2>6, <2>7 DEF IsDir
<1>13. ASSUME NEW p \in Procs, Refuse(p) PROVE TypeOK'
  BY <1>13 DEF Refuse
<1>14. ASSUME NEW p \in Procs, Verify(p) PROVE TypeOK'
  <2>1. IsDir(dir)
    BY DEF IsDir
  <2>2. job[p] \in Mutations /\ Tmp(job[p]) \in Names /\ Bak(job[p]) \in Names /\ Target \in Names /\ JobInv(p)
    BY <1>14, JobType DEF Verify
  <2>3. IsDir(Unlinked(dir, Tmp(job[p])))
    BY <2>1, UnlinkedIs
  <2>4. IsDir(dir')
    BY <1>14, <2>1, <2>3 DEF Verify
  <2> QED
    BY <1>14, <2>2, <2>4 DEF Verify, IsDir
<1>15. ASSUME NEW p \in Procs, LinkBackup(p) PROVE TypeOK'
  <2>1. IsDir(dir)
    BY DEF IsDir
  <2>2. job[p] \in Mutations /\ Tmp(job[p]) \in Names /\ Bak(job[p]) \in Names /\ Target \in Names /\ JobInv(p)
    BY <1>15, JobType DEF LinkBackup
  <2>3. IsDir(Linked(dir, Bak(job[p]), Data))
    BY <2>1, <2>2, LinkedIs DEF JobInv, StoreInv, FreshInv, Data, IsDir
  <2>4. IsDir(dir')
    BY <1>15, <2>1, <2>3 DEF LinkBackup
  <2> QED
    BY <1>15, <2>2, <2>4 DEF LinkBackup, IsDir
<1>16. ASSUME NEW p \in Procs, CheckBackup(p) PROVE TypeOK'
  <2>1. IsDir(dir)
    BY DEF IsDir
  <2>2. job[p] \in Mutations /\ Tmp(job[p]) \in Names /\ Bak(job[p]) \in Names /\ Target \in Names /\ JobInv(p)
    BY <1>16, JobType DEF CheckBackup
  <2>3. IsDir(Unlinked(dir, Tmp(job[p])))
    BY <2>1, UnlinkedIs
  <2>4. IsDir(dir')
    BY <1>16, <2>1, <2>3 DEF CheckBackup
  <2> QED
    BY <1>16, <2>2, <2>4 DEF CheckBackup, IsDir
<1>17. ASSUME NEW p \in Procs, StageFails(p) PROVE TypeOK'
  <2>1. IsDir(dir)
    BY DEF IsDir
  <2>2. job[p] \in Mutations /\ Tmp(job[p]) \in Names /\ Bak(job[p]) \in Names /\ Target \in Names /\ JobInv(p)
    BY <1>17, JobType DEF StageFails
  <2>3. \A x, y : IsDir(Unlinked(dir, x)) /\ IsDir(Unlinked(Unlinked(dir, x), y))
    BY <2>1, UnlinkedIs
  <2>4. \/ dir' = Unlinked(dir, Tmp(job[p]))
        \/ dir' = Unlinked(Unlinked(dir, Tmp(job[p])), Bak(job[p]))
    BY <1>17 DEF StageFails
  <2>5. IsDir(dir')
    <3>1. IsDir(Unlinked(dir, Tmp(job[p]))) /\ IsDir(Unlinked(Unlinked(dir, Tmp(job[p])), Bak(job[p])))
      BY <2>3, Zenon
    <3> QED BY <2>4, <3>1, Zenon
  <2> QED
    BY <1>17, <2>2, <2>5 DEF StageFails, IsDir
<1>18. ASSUME NEW p \in Procs, Rename(p) PROVE TypeOK'
  <2>1. IsDir(dir)
    BY DEF IsDir
  <2>2. job[p] \in Mutations /\ Tmp(job[p]) \in Names /\ Bak(job[p]) \in Names /\ Target \in Names /\ JobInv(p)
    BY <1>18, JobType DEF Rename
  <2>3. IsDir(Moved(dir, Tmp(job[p]), Target))
    <3>1. Tmp(job[p]) \in DOMAIN dir /\ Tmp(job[p]) # Target
      BY <1>18, <2>2 DEF JobInv, Before, Rename, Tmp, Target
    <3> QED BY <2>1, <2>2, <3>1, MovedIs
  <2>4. IsDir(dir')
    BY <1>18, <2>1, <2>3 DEF Rename
  <2> QED
    BY <1>18, <2>2, <2>4 DEF Rename, IsDir
<1>19. ASSUME NEW p \in Procs, Confirm(p) PROVE TypeOK'
  BY <1>19 DEF Confirm
<1>20. ASSUME NEW p \in Procs, ConfirmFails(p) PROVE TypeOK'
  BY <1>20 DEF ConfirmFails
<1>21. ASSUME NEW p \in Procs, DropBackup(p) PROVE TypeOK'
  <2>1. IsDir(dir)
    BY DEF IsDir
  <2>2. job[p] \in Mutations /\ Tmp(job[p]) \in Names /\ Bak(job[p]) \in Names /\ Target \in Names /\ JobInv(p)
    BY <1>21, JobType DEF DropBackup
  <2>3. IsDir(Unlinked(dir, Bak(job[p])))
    BY <2>1, UnlinkedIs
  <2>4. IsDir(dir')
    BY <1>21, <2>1, <2>3 DEF DropBackup
  <2> QED
    BY <1>21, <2>2, <2>4 DEF DropBackup, IsDir
<1>22. ASSUME NEW p \in Procs, Retain(p) PROVE TypeOK'
  BY <1>22, JobType DEF Retain
<1>23. ASSUME NEW p \in Procs, RetainFails(p) PROVE TypeOK'
  BY <1>23, JobType DEF RetainFails
<1>24. ASSUME NEW p \in Procs, Undo(p) PROVE TypeOK'
  <2>1. IsDir(dir)
    BY DEF IsDir
  <2>2. job[p] \in Mutations /\ Tmp(job[p]) \in Names /\ Bak(job[p]) \in Names /\ Target \in Names /\ JobInv(p)
    BY <1>24, JobType DEF Undo
  <2>3. Bak(job[p]) \in DOMAIN dir => IsDir(Moved(dir, Bak(job[p]), Target))
    <3>1. Bak(job[p]) # Target
      BY DEF Bak, Target
    <3> QED BY <2>1, <2>2, <3>1, MovedIs
  <2>4. IsDir(dir')
    BY <1>24, <2>1, <2>3 DEF Undo, Names1, IsLinked
  <2> QED
    BY <1>24, <2>2, <2>4 DEF Undo, IsDir
<1>25. ASSUME NEW p \in Procs, UndoFails(p) PROVE TypeOK'
  BY <1>25, JobType DEF UndoFails
<1>26. ASSUME NEW p \in Procs, UndoSync(p) PROVE TypeOK'
  BY <1>26, JobType DEF UndoSync
<1>27. ASSUME NEW p \in Procs, UndoSyncFails(p) PROVE TypeOK'
  <2>1. IsDir(dir)
    BY DEF IsDir
  <2>2. job[p] \in Mutations /\ Tmp(job[p]) \in Names /\ Bak(job[p]) \in Names /\ Target \in Names /\ JobInv(p)
    BY <1>27, JobType DEF UndoSyncFails
  <2>3. IsDir(Linked(dir, Bak(job[p]), Data))
    BY <2>1, <2>2, LinkedIs DEF JobInv, StoreInv, FreshInv, Data, IsDir
  <2>4. IsDir(dir')
    BY <1>27, <2>1, <2>3 DEF UndoSyncFails
  <2> QED
    BY <1>27, <2>2, <2>4 DEF UndoSyncFails, IsDir
<1>28. ASSUME NEW p \in Procs, Close(p) PROVE TypeOK'
  BY <1>28 DEF Close
<1>29. ASSUME NEW p \in Procs, Release(p) PROVE TypeOK'
  BY <1>29 DEF Release
<1>30. ASSUME NEW p \in Procs, RemoveLock(p) PROVE TypeOK'
  BY <1>30 DEF RemoveLock
<1>31. ASSUME NEW p \in Procs, ReleaseFails(p) PROVE TypeOK'
  BY <1>31 DEF ReleaseFails
<1>32. ASSUME NEW p \in Procs, Kill(p) PROVE TypeOK'
  BY <1>32 DEF Kill
<1> QED
  BY <1>1, <1>2, <1>3, <1>4, <1>5, <1>6, <1>7, <1>8, <1>9, <1>10, <1>11, <1>12, <1>13, <1>14, <1>15, <1>16, <1>17, <1>18, <1>19, <1>20, <1>21, <1>22, <1>23, <1>24, <1>25, <1>26, <1>27, <1>28, <1>29, <1>30, <1>31, <1>32
  DEF Next, Locking, Writing, Failing, Leaving

-----------------------------------------------------------------------------
(* The lock.                                                               *)

\* A step that leaves the lock alone, of a process that goes on living, leaves
\* or stays in the states in which it owns the lock.
LEMMA LockFrame ==
  ASSUME TypeOK, LockInv, NEW p \in Procs, NEW from, NEW to,
         Goto(p, from, to), UNCHANGED <<lockFile, stale, attempts>>,
         from \notin Over, to \notin Removing,
         to \in Owning => from \in Owning
  PROVE  LockInv'
<1> USE DEF LockInv, RemovalInv, OwnerInv, Goto, TypeOK
<1>1. \A q \in Procs : pc[q] \in Over => pc'[q] \in Over
  OBVIOUS
<1>2. \A q \in Procs : pc'[q] \in Removing => pc[q] = pc'[q]
  OBVIOUS
<1>3. \A q \in Procs : pc'[q] = "unlink" => pc[q] = "unlink"
  BY <1>2 DEF Removing
<1>4. RemovalInv'
  BY <1>1, <1>2, <1>3
<1>5. OwnerInv'
  OBVIOUS
<1> QED BY <1>4, <1>5

LEMMA LockStep ==
  ASSUME SoloRecovery, TypeOK, LockInv, Next
  PROVE  LockInv'
<1> USE DEF Tells, lockVars, fileVars, procVars, Owning, Removing, Holding, Publishing, Undecided, Over
<1>1. ASSUME NEW p \in Procs, Start(p) PROVE LockInv'
  BY <1>1, LockFrame DEF Start
<1>2. ASSUME NEW p \in Procs, CreateLock(p) PROVE LockInv'
  BY <1>2, NoLockAssumption DEF CreateLock, Goto, LockInv, RemovalInv, OwnerInv, TypeOK
<1>3. ASSUME NEW p \in Procs, Record(p) PROVE LockInv'
  BY <1>3, LockFrame DEF Record
<1>4. ASSUME NEW p \in Procs, RecordFails(p) PROVE LockInv'
  BY <1>4, NoLockAssumption DEF RecordFails, Goto, LockInv, RemovalInv, OwnerInv, TypeOK
<1>5. ASSUME NEW p \in Procs, Inspect(p) PROVE LockInv'
  BY <1>5, LockFrame DEF Inspect
<1>6. ASSUME NEW p \in Procs, ReadOwner(p) PROVE LockInv'
  <2> USE <1>6 DEF ReadOwner, Goto, LockInv, RemovalInv, OwnerInv, TypeOK
  <2>1. pc'[p] = "recheck" => /\ stale'[p] = lockFile /\ lockFile \in Procs
                             /\ pc[lockFile] \in Over /\ attempts[p] + 1 < MaxAttempts
    BY DEF Dead
  <2>2. \A q \in Procs : q # p => pc'[q] = pc[q] /\ stale'[q] = stale[q]
    OBVIOUS
  <2>3. pc'[p] \in {"recheck", "exited"} /\ pc[p] = "owner"
    OBVIOUS
  <2>4. \A q \in Procs : pc[q] \in Over => pc'[q] \in Over
    BY <2>2, <2>3
  <2>5. RemovalInv'
    BY <2>1, <2>2, <2>3, <2>4
  <2>6. OwnerInv'
    BY <2>2, <2>3
  <2> QED BY <2>5, <2>6
<1>7. ASSUME NEW p \in Procs, Recheck(p) PROVE LockInv'
  BY <1>7, NoLockAssumption DEF Recheck, Goto, LockInv, RemovalInv, OwnerInv, TypeOK
<1>8. ASSUME NEW p \in Procs, Unlink(p) PROVE LockInv'
  BY <1>8, NoLockAssumption DEF Unlink, Goto, LockInv, RemovalInv, OwnerInv, TypeOK
<1>9. ASSUME NEW p \in Procs, Ping(p) PROVE LockInv'
  BY <1>9, LockFrame DEF Ping
<1>10. ASSUME NEW p \in Procs, Read(p) PROVE LockInv'
  BY <1>10, LockFrame DEF Read
<1>11. ASSUME NEW p \in Procs, Reuse(p) PROVE LockInv'
  BY <1>11, LockFrame DEF Reuse
<1>12. ASSUME NEW p \in Procs, Stage(p) PROVE LockInv'
  BY <1>12, LockFrame DEF Stage
<1>13. ASSUME NEW p \in Procs, Refuse(p) PROVE LockInv'
  BY <1>13, LockFrame DEF Refuse
<1>14. ASSUME NEW p \in Procs, Verify(p) PROVE LockInv'
  BY <1>14, LockFrame DEF Verify
<1>15. ASSUME NEW p \in Procs, LinkBackup(p) PROVE LockInv'
  BY <1>15, LockFrame DEF LinkBackup
<1>16. ASSUME NEW p \in Procs, CheckBackup(p) PROVE LockInv'
  BY <1>16, LockFrame DEF CheckBackup
<1>17. ASSUME NEW p \in Procs, StageFails(p) PROVE LockInv'
  BY <1>17, LockFrame DEF StageFails
<1>18. ASSUME NEW p \in Procs, Rename(p) PROVE LockInv'
  BY <1>18, LockFrame DEF Rename
<1>19. ASSUME NEW p \in Procs, Confirm(p) PROVE LockInv'
  BY <1>19, LockFrame DEF Confirm
<1>20. ASSUME NEW p \in Procs, ConfirmFails(p) PROVE LockInv'
  BY <1>20, LockFrame DEF ConfirmFails
<1>21. ASSUME NEW p \in Procs, DropBackup(p) PROVE LockInv'
  BY <1>21, LockFrame DEF DropBackup
<1>22. ASSUME NEW p \in Procs, Retain(p) PROVE LockInv'
  BY <1>22, LockFrame DEF Retain
<1>23. ASSUME NEW p \in Procs, RetainFails(p) PROVE LockInv'
  BY <1>23, LockFrame DEF RetainFails
<1>24. ASSUME NEW p \in Procs, Undo(p) PROVE LockInv'
  BY <1>24, LockFrame DEF Undo
<1>25. ASSUME NEW p \in Procs, UndoFails(p) PROVE LockInv'
  BY <1>25, LockFrame DEF UndoFails
<1>26. ASSUME NEW p \in Procs, UndoSync(p) PROVE LockInv'
  BY <1>26, LockFrame DEF UndoSync
<1>27. ASSUME NEW p \in Procs, UndoSyncFails(p) PROVE LockInv'
  BY <1>27, LockFrame DEF UndoSyncFails
<1>28. ASSUME NEW p \in Procs, Close(p) PROVE LockInv'
  BY <1>28, LockFrame DEF Close
<1>29. ASSUME NEW p \in Procs, Release(p) PROVE LockInv'
  BY <1>29, LockFrame DEF Release
<1>30. ASSUME NEW p \in Procs, RemoveLock(p) PROVE LockInv'
  BY <1>30, NoLockAssumption DEF RemoveLock, Goto, LockInv, RemovalInv, OwnerInv, TypeOK
<1>31. ASSUME NEW p \in Procs, ReleaseFails(p) PROVE LockInv'
  BY <1>31, LockFrame DEF ReleaseFails
<1>32. ASSUME NEW p \in Procs, Kill(p) PROVE LockInv'
  BY <1>32, LockFrame DEF Kill
<1> QED
  BY <1>1, <1>2, <1>3, <1>4, <1>5, <1>6, <1>7, <1>8, <1>9, <1>10, <1>11, <1>12, <1>13, <1>14, <1>15, <1>16, <1>17, <1>18, <1>19, <1>20, <1>21, <1>22, <1>23, <1>24, <1>25, <1>26, <1>27, <1>28, <1>29, <1>30, <1>31, <1>32
  DEF Next, Locking, Writing, Failing, Leaving
-----------------------------------------------------------------------------
(* The data file and the mutation in progress.                             *)

Reading == {"ping", "idle", "ready"}

\* Nobody but the owner of the lock reads or replaces the data file.
LEMMA OnlyOwner ==
  ASSUME LockInv, NEW p \in Procs, pc[p] \in Owning, NEW q \in Procs, q # p
  PROVE  pc[q] \notin Owning
BY DEF LockInv, OwnerInv

\* A step that leaves the store alone and begins no mutation.
LEMMA StoreFrame ==
  ASSUME TypeOK, StoreInv, NEW p \in Procs, NEW from, NEW to, Goto(p, from, to),
         UNCHANGED <<dir, content, base, prior, job, report, clock>>,
         to \notin Publishing,
         to \in {"new"} \cup Acquiring => from \in {"new"} \cup Acquiring,
         to \in Reading => from \in Reading \cup {"record"}
  PROVE  StoreInv'
<1> USE DEF StoreInv, Goto, TypeOK
<1>1. FreshInv' /\ ReportsAreTrue'
  BY DEF FreshInv, ReportsAreTrue, Data
<1>2. \A q \in Procs : pc'[q] \in Publishing => q # p /\ pc'[q] = pc[q]
  OBVIOUS
<1>3. \A q \in Procs : pc'[q] \in Publishing => JobInv(q)'
  BY <1>2 DEF JobInv
<1>4. \A q \in Procs : CallerInv(q)'
  BY DEF CallerInv, Data, Reading, Acquiring
<1> QED BY <1>1, <1>3, <1>4

\* A step of the owner of the lock: what it leaves of the others is unchanged.
LEMMA OwnerStep ==
  ASSUME TypeOK, LockInv, StoreInv, NEW p \in Procs, NEW from, NEW to,
         Goto(p, from, to), from \in Owning,
         \A q \in Procs : q # p => base'[q] = base[q],
         FreshInv', to \in Publishing => JobInv(p)', CallerInv(p)', ReportsAreTrue'
  PROVE  StoreInv'
<1>1. \A q \in Procs : q # p => pc'[q] = pc[q] /\ pc[q] \notin Owning
  BY OnlyOwner DEF Goto, TypeOK
<1>2. \A q \in Procs : q # p => pc'[q] \notin Publishing /\ pc'[q] \notin Reading
  BY <1>1 DEF Owning, Holding, Reading
<1>3. \A q \in Procs : q # p => CallerInv(q)'
  BY <1>1, <1>2 DEF StoreInv, CallerInv, Reading
<1>4. pc'[p] = to
  BY DEF Goto, TypeOK
<1> QED BY <1>2, <1>3, <1>4 DEF StoreInv

LEMMA RevisionsAgree ==
  ASSUME TypeOK, NEW p \in Procs, base[p] \subseteq content[Data], Data \in Inodes,
         Current(p)
  PROVE  base[p] = content[Data]
<1>1. content[Data] \in SUBSET (1 .. MaxWrites)
  BY DEF TypeOK, Mutations
<1>2. IsFiniteSet(1 .. MaxWrites)
  <2>1. 1 \in Int /\ MaxWrites \in Int
    BY BoundsAssumption
  <2> QED BY <2>1, FS_Interval, Zenon
<1>3. IsFiniteSet(content[Data])
  BY <1>1, <1>2, FS_Subset
<1> QED BY <1>3, FS_Subset DEF Current, Revision

LEMMA ReadStep ==
  ASSUME TypeOK, LockInv, StoreInv, NEW p \in Procs, Read(p)
  PROVE  StoreInv'
<1> USE DEF Read, lockVars, fileVars
<1>1. CASE Goto(p, "idle", "idle") /\ UNCHANGED base
  BY <1>1, StoreFrame DEF Reading, Publishing, Undecided, Acquiring
<1>2. CASE Goto(p, "idle", "ready") /\ base' = [base EXCEPT ![p] = content[Data]]
  <2>1. \A q \in Procs : q # p => base'[q] = base[q]
    BY <1>2
  <2>2. FreshInv' /\ ReportsAreTrue'
    BY DEF StoreInv, FreshInv, ReportsAreTrue, Data
  <2>3. CallerInv(p)'
    BY <1>2 DEF CallerInv, Data, Goto, TypeOK, Acquiring
  <2> QED BY <1>2, <2>1, <2>2, <2>3, OwnerStep DEF Owning, Holding, Publishing, Undecided
<1> QED BY <1>1, <1>2 DEF Tells

LEMMA StageStep ==
  ASSUME TypeOK, LockInv, StoreInv, NEW p \in Procs, Stage(p)
  PROVE  StoreInv'
<1> DEFINE n == clock + 1
<1> USE DEF Stage
<1>1. /\ Target \in DOMAIN dir /\ Data \in 0 .. clock /\ Data \in Inodes
      /\ n \in Mutations /\ clock \in Nat /\ n \notin 0 .. clock
  BY BoundsAssumption DEF StoreInv, FreshInv, TypeOK, Data, Mutations, Inodes
<1>2. base[p] = content[Data]
  BY <1>1, RevisionsAgree DEF StoreInv, CallerInv, Goto
<1>3. /\ job'[p] = n /\ prior'[p] = Data /\ pc'[p] = "staged" /\ clock' = n
      /\ content'[n] = content[Data] \cup {n}
      /\ \A i \in Inodes : i # n => content'[i] = content[i]
  BY <1>1, <1>2 DEF TypeOK, Goto, Inodes, Mutations
<1>4. content[Data] \subseteq 1 .. clock
  BY <1>1 DEF StoreInv, FreshInv
<1>5. /\ DOMAIN dir' = DOMAIN dir \cup {Tmp(n)} /\ dir'[Tmp(n)] = n
      /\ \A x \in DOMAIN dir : x # Tmp(n) => dir'[x] = dir[x]
  BY DEF Linked
<1>6. dir'[Target] = Data /\ Target # Tmp(n)
  BY <1>1, <1>5 DEF Tmp, Target, Data
<1>7. FreshInv'
  <2>1. \A x \in DOMAIN dir' : dir'[x] \in 0 .. clock'
    BY <1>1, <1>3, <1>5 DEF StoreInv, FreshInv
  <2>2. \A i \in Inodes : content'[i] \subseteq 1 .. clock'
    <3> TAKE i \in Inodes
    <3>1. CASE i = n
      BY <1>1, <1>3, <1>4, <3>1
    <3>2. CASE i # n
      <4>1. content[i] \subseteq 1 .. clock
        BY DEF StoreInv, FreshInv
      <4> QED BY <1>1, <1>3, <3>2, <4>1
    <3> QED BY <3>1, <3>2
  <2>3. \A m \in Mutations : m > clock' => report'[m] = "none"
    BY <1>1, <1>3 DEF StoreInv, FreshInv, Mutations
  <2> QED BY <1>1, <1>5, <2>1, <2>2, <2>3 DEF FreshInv
<1>8. JobInv(p)'
  <2>1. report'[n] = "none"
    BY <1>1 DEF StoreInv, FreshInv, Mutations
  <2>2. content'[Data] = content[Data] /\ n \notin content[Data]
    BY <1>1, <1>3, <1>4
  <2>3. n \in 1 .. clock' /\ Data \in 0 .. clock'
    BY <1>1, <1>3
  <2> QED
    BY <1>2, <1>3, <1>5, <1>6, <2>1, <2>2, <2>3
    DEF JobInv, Replaced, Undecided
<1>9. ReportsAreTrue'
  BY <1>1, <1>3, <1>6 DEF StoreInv, ReportsAreTrue, Data
<1>10. CallerInv(p)'
  BY <1>3 DEF CallerInv, Acquiring
<1> QED
  BY <1>7, <1>8, <1>9, <1>10, OwnerStep DEF Goto, Owning, Holding

\* The mutation in progress moves on: it is enough to say which names it holds.
LEMMA JobContinues ==
  ASSUME TypeOK, LockInv, StoreInv, NEW p \in Procs, NEW from, NEW to,
         Goto(p, from, to), from \in Publishing, to \in Publishing,
         UNCHANGED <<content, base, prior, job, clock, report>>,
         Target \in DOMAIN dir', \A x \in DOMAIN dir' : dir'[x] \in 0 .. clock,
         dir'[Target] = IF to \in Replaced THEN job[p] ELSE prior[p],
         to \in Before => Tmp(job[p]) \in DOMAIN dir' /\ dir'[Tmp(job[p])] = job[p],
         to \in {"linked"} \cup Undecided =>
           Bak(job[p]) \in DOMAIN dir' /\ dir'[Bak(job[p])] = prior[p]
  PROVE  StoreInv'
<1>1. JobInv(p) /\ FreshInv /\ pc'[p] = to
  BY DEF StoreInv, Goto, TypeOK
<1>2. FreshInv'
  BY <1>1 DEF FreshInv
<1>3. JobInv(p)'
  BY <1>1 DEF JobInv
<1>4. CallerInv(p)'
  BY <1>1 DEF CallerInv, Publishing, Undecided, Acquiring
<1>5. ReportsAreTrue'
  BY <1>1 DEF StoreInv, JobInv, ReportsAreTrue, Data
<1> QED BY <1>2, <1>3, <1>4, <1>5, OwnerStep DEF Owning, Holding

\* The mutation ends, with an answer that agrees with the file the data path names.
LEMMA JobEnds ==
  ASSUME TypeOK, LockInv, StoreInv, NEW p \in Procs, NEW from, NEW r,
         Goto(p, from, "idle"), from \in Publishing, Reports(p, r),
         UNCHANGED <<content, base, prior, job, clock>>,
         Target \in DOMAIN dir', \A x \in DOMAIN dir' : dir'[x] \in 0 .. clock,
         dir'[Target] \in {job[p], prior[p]},
         r = "ok" => dir'[Target] = job[p],
         r = "refused" => dir'[Target] = prior[p]
  PROVE  StoreInv'
<1>1. JobInv(p) /\ FreshInv /\ pc'[p] = "idle" /\ job[p] \in Mutations
  BY BoundsAssumption DEF StoreInv, Goto, TypeOK, JobInv, Mutations
<1>2. /\ report'[job[p]] = r
      /\ \A m \in Mutations : m # job[p] => report'[m] = report[m]
  BY <1>1 DEF Reports, TypeOK
<1>3. FreshInv'
  <2>1. \A m \in Mutations : m > clock => m # job[p]
    BY <1>1 DEF JobInv, TypeOK
  <2> QED BY <1>1, <1>2, <2>1 DEF FreshInv
<1>4. CallerInv(p)'
  BY <1>1 DEF CallerInv, JobInv, Acquiring, Data
<1>5. ReportsAreTrue'
  BY <1>1, <1>2 DEF StoreInv, JobInv, ReportsAreTrue, Data
<1>6. "idle" \notin Publishing
  BY DEF Publishing, Undecided
<1> QED BY <1>3, <1>4, <1>5, <1>6, OwnerStep DEF Owning, Holding

\* Taking a name of the mutation away, or giving it a backup name, leaves the data
\* file what it is.
LEMMA NamesKept ==
  ASSUME FreshInv, NEW n, NEW i \in 0 .. clock, NEW d,
         \/ d = dir
         \/ d = Unlinked(dir, Tmp(n))
         \/ d = Unlinked(dir, Bak(n))
         \/ d = Unlinked(Unlinked(dir, Tmp(n)), Bak(n))
         \/ d = Linked(dir, Bak(n), i)
  PROVE  /\ Target \in DOMAIN d /\ d[Target] = Data
         /\ \A x \in DOMAIN d : d[x] \in 0 .. clock
BY DEF FreshInv, Data, Linked, Unlinked, Tmp, Bak, Target

LEMMA PublishStep ==
  ASSUME TypeOK, LockInv, StoreInv, Next
  PROVE  StoreInv'
<1> USE DEF Tells, lockVars, fileVars, procVars, Fault
<1>1. ASSUME NEW p \in Procs, pc[p] \in Publishing
      PROVE  /\ JobInv(p) /\ FreshInv
             /\ Data = IF pc[p] \in Replaced THEN job[p] ELSE prior[p]
             /\ prior[p] \in 0 .. clock
  BY <1>1 DEF StoreInv, JobInv, Data
<1>2. ASSUME NEW p \in Procs, Start(p) PROVE StoreInv'
  BY <1>2, StoreFrame DEF Start, Acquiring, Reading, Publishing, Undecided, Over
<1>3. ASSUME NEW p \in Procs, CreateLock(p) PROVE StoreInv'
  BY <1>3, StoreFrame DEF CreateLock, Acquiring, Reading, Publishing, Undecided, Over
<1>4. ASSUME NEW p \in Procs, Record(p) PROVE StoreInv'
  BY <1>4, StoreFrame DEF Record, Acquiring, Reading, Publishing, Undecided, Over
<1>5. ASSUME NEW p \in Procs, RecordFails(p) PROVE StoreInv'
  BY <1>5, StoreFrame DEF RecordFails, Acquiring, Reading, Publishing, Undecided, Over
<1>6. ASSUME NEW p \in Procs, Inspect(p) PROVE StoreInv'
  BY <1>6, StoreFrame DEF Inspect, Acquiring, Reading, Publishing, Undecided, Over
<1>7. ASSUME NEW p \in Procs, ReadOwner(p) PROVE StoreInv'
  BY <1>7, StoreFrame DEF ReadOwner, Acquiring, Reading, Publishing, Undecided, Over
<1>8. ASSUME NEW p \in Procs, Recheck(p) PROVE StoreInv'
  BY <1>8, StoreFrame DEF Recheck, Acquiring, Reading, Publishing, Undecided, Over
<1>9. ASSUME NEW p \in Procs, Unlink(p) PROVE StoreInv'
  BY <1>9, StoreFrame DEF Unlink, Acquiring, Reading, Publishing, Undecided, Over
<1>10. ASSUME NEW p \in Procs, Ping(p) PROVE StoreInv'
  BY <1>10, StoreFrame DEF Ping, Acquiring, Reading, Publishing, Undecided, Over
<1>11. ASSUME NEW p \in Procs, Read(p) PROVE StoreInv'
  BY <1>11, ReadStep
<1>12. ASSUME NEW p \in Procs, Reuse(p) PROVE StoreInv'
  BY <1>12, StoreFrame DEF Reuse, Acquiring, Reading, Publishing, Undecided, Over
<1>13. ASSUME NEW p \in Procs, Stage(p) PROVE StoreInv'
  BY <1>13, StageStep
<1>14. ASSUME NEW p \in Procs, Refuse(p) PROVE StoreInv'
  BY <1>14, StoreFrame DEF Refuse, Acquiring, Reading, Publishing, Undecided, Over
<1>15. ASSUME NEW p \in Procs, Verify(p) PROVE StoreInv'
  <2> DEFINE d == Unlinked(dir, Tmp(job[p]))
  <2>1. Data = prior[p] /\ JobInv(p) /\ FreshInv /\ prior[p] \in 0 .. clock
    BY <1>15, <1>1 DEF Verify, Goto, Publishing, Replaced, Undecided
  <2>2. /\ Target \in DOMAIN dir' /\ dir'[Target] = prior[p]
        /\ \A x \in DOMAIN dir' : dir'[x] \in 0 .. clock
    BY <1>15, <2>1, NamesKept DEF Verify
  <2>3. CASE Goto(p, "staged", "verified") /\ UNCHANGED <<dir, report>>
    BY <1>15, <2>1, <2>2, <2>3, JobContinues
    DEF Verify, Publishing, Replaced, Before, Undecided, JobInv, Goto
  <2>4. CASE Goto(p, "staged", "idle") /\ Reports(p, "refused")
    BY <1>15, <2>2, <2>4, JobEnds DEF Verify, Publishing
  <2> QED BY <1>15, <2>3, <2>4 DEF Verify
<1>16. ASSUME NEW p \in Procs, LinkBackup(p) PROVE StoreInv'
  <2>1. Data = prior[p] /\ JobInv(p) /\ FreshInv /\ prior[p] \in 0 .. clock
    BY <1>16, <1>1 DEF LinkBackup, Goto, Publishing, Replaced, Undecided
  <2>2. /\ Target \in DOMAIN dir' /\ dir'[Target] = prior[p]
        /\ \A x \in DOMAIN dir' : dir'[x] \in 0 .. clock
    BY <1>16, <2>1, NamesKept DEF LinkBackup
  <2>3. Tmp(job[p]) \in DOMAIN dir' /\ dir'[Tmp(job[p])] = job[p]
    BY <1>16, <2>1 DEF LinkBackup, Goto, JobInv, Before, Linked, Tmp, Bak
  <2> QED
    BY <1>16, <2>2, <2>3, JobContinues DEF LinkBackup, Publishing, Replaced, Undecided
<1>17. ASSUME NEW p \in Procs, CheckBackup(p) PROVE StoreInv'
  <2>1. Data = prior[p] /\ JobInv(p) /\ FreshInv /\ prior[p] \in 0 .. clock
    BY <1>17, <1>1 DEF CheckBackup, Goto, Publishing, Replaced, Undecided
  <2>2. /\ Target \in DOMAIN dir' /\ dir'[Target] = prior[p]
        /\ \A x \in DOMAIN dir' : dir'[x] \in 0 .. clock
    <3>1. dir' = dir \/ dir' = Unlinked(dir, Tmp(job[p]))
      BY <1>17 DEF CheckBackup
    <3> QED BY <2>1, <3>1 DEF FreshInv, Data, Unlinked, Tmp, Target
  <2>3. CASE BackupOwned(p)
    <3>1. Goto(p, "backed", "linked") /\ UNCHANGED <<dir, report>>
      BY <1>17, <2>3 DEF CheckBackup
    <3>2. Bak(job[p]) \in DOMAIN dir' /\ dir'[Bak(job[p])] = prior[p]
      BY <2>3, <3>1 DEF BackupOwned, IsLinked
    <3>3. Tmp(job[p]) \in DOMAIN dir' /\ dir'[Tmp(job[p])] = job[p]
      BY <2>1, <3>1 DEF JobInv, Before, Goto
    <3> QED
      BY <1>17, <2>2, <3>1, <3>2, <3>3, JobContinues
      DEF CheckBackup, Publishing, Replaced, Undecided
  <2>4. CASE Goto(p, "backed", "idle") /\ Reports(p, "refused")
    BY <1>17, <2>2, <2>4, JobEnds DEF CheckBackup, Publishing
  <2> QED BY <1>17, <2>3, <2>4 DEF CheckBackup
<1>18. ASSUME NEW p \in Procs, StageFails(p) PROVE StoreInv'
  <2>1. PICK from \in Before : Goto(p, from, "idle")
    BY <1>18 DEF StageFails, Before
  <2>2. \/ dir' = Unlinked(dir, Tmp(job[p]))
        \/ dir' = Unlinked(Unlinked(dir, Tmp(job[p])), Bak(job[p]))
    BY <1>18 DEF StageFails
  <2>3. Data = prior[p] /\ FreshInv /\ prior[p] \in 0 .. clock /\ from \in Publishing
    BY <1>1, <2>1 DEF Goto, Publishing, Replaced, Undecided, Before
  <2>4. /\ Target \in DOMAIN dir' /\ dir'[Target] = prior[p]
        /\ \A x \in DOMAIN dir' : dir'[x] \in 0 .. clock
    BY <2>2, <2>3, NamesKept
  <2> QED BY <1>18, <2>1, <2>3, <2>4, JobEnds DEF StageFails
<1>19. ASSUME NEW p \in Procs, Rename(p) PROVE StoreInv'
  <2>1. JobInv(p) /\ FreshInv /\ pc[p] = "linked"
    BY <1>19, <1>1 DEF Rename, Goto, Publishing
  <2>2. /\ Tmp(job[p]) \in DOMAIN dir /\ dir[Tmp(job[p])] = job[p]
        /\ Bak(job[p]) \in DOMAIN dir /\ dir[Bak(job[p])] = prior[p]
        /\ job[p] \in 0 .. clock
    BY <2>1 DEF JobInv, Before, TypeOK
  <2>3. Tmp(job[p]) # Target /\ Bak(job[p]) \notin {Target, Tmp(job[p])}
    BY DEF Tmp, Bak, Target
  <2>4. /\ DOMAIN dir' = (DOMAIN dir \ {Tmp(job[p])}) \cup {Target}
        /\ dir'[Target] = job[p]
        /\ \A z \in DOMAIN dir : z \notin {Tmp(job[p]), Target} => dir'[z] = dir[z]
    <3>1. dir' = Moved(dir, Tmp(job[p]), Target)
      BY <1>19 DEF Rename
    <3> QED BY <2>2, <2>3, <3>1 DEF Moved, Linked, Unlinked
  <2>5. \A x \in DOMAIN dir' : dir'[x] \in 0 .. clock
    BY <2>1, <2>2, <2>4 DEF FreshInv
  <2>6. Bak(job[p]) \in DOMAIN dir' /\ dir'[Bak(job[p])] = prior[p]
    BY <2>2, <2>3, <2>4
  <2> QED
    BY <1>19, <2>4, <2>5, <2>6, JobContinues
    DEF Rename, Publishing, Replaced, Undecided, Before
<1>20. ASSUME NEW p \in Procs, Confirm(p) PROVE StoreInv'
  <2>1. JobInv(p) /\ FreshInv /\ pc[p] \in {"renamed", "confirmed"}
    BY <1>20, <1>1 DEF Confirm, Goto, Publishing, Undecided
  <2>2. PICK from \in Undecided, to \in Undecided : Goto(p, from, to)
    BY <1>20 DEF Confirm, Undecided
  <2> QED
    BY <1>20, <2>1, <2>2, JobContinues
    DEF Confirm, Publishing, Replaced, Undecided, Before, JobInv, FreshInv, Goto
<1>21. ASSUME NEW p \in Procs, ConfirmFails(p) PROVE StoreInv'
  <2>1. JobInv(p) /\ FreshInv /\ pc[p] \in {"renamed", "confirmed"}
    BY <1>21, <1>1 DEF ConfirmFails, Goto, Publishing, Undecided
  <2>2. PICK from \in Undecided, to \in Undecided : Goto(p, from, to)
    BY <1>21 DEF ConfirmFails, Undecided
  <2> QED
    BY <1>21, <2>1, <2>2, JobContinues
    DEF ConfirmFails, Publishing, Replaced, Undecided, Before, JobInv, FreshInv, Goto
<1>22. ASSUME NEW p \in Procs, DropBackup(p) PROVE StoreInv'
  <2>1. JobInv(p) /\ FreshInv /\ pc[p] = "confirmed" /\ Data = job[p] /\ prior[p] \in 0 .. clock
    BY <1>22, <1>1 DEF DropBackup, Goto, Publishing, Undecided, Replaced
  <2>2. /\ Target \in DOMAIN dir' /\ dir'[Target] = job[p]
        /\ \A x \in DOMAIN dir' : dir'[x] \in 0 .. clock
    BY <1>22, <2>1, NamesKept DEF DropBackup
  <2>3. CASE Goto(p, "confirmed", "retain")
    BY <1>22, <2>2, <2>3, JobContinues
    DEF DropBackup, Publishing, Replaced, Undecided, Before
  <2>4. CASE Goto(p, "confirmed", "undo") /\ UNCHANGED dir
    BY <1>22, <2>1, <2>2, <2>4, JobContinues
    DEF DropBackup, Publishing, Replaced, Undecided, Before, JobInv
  <2> QED BY <1>22, <2>3, <2>4 DEF DropBackup
<1>23. ASSUME NEW p \in Procs, Retain(p) PROVE StoreInv'
  <2>1. Data = job[p] /\ FreshInv
    BY <1>23, <1>1 DEF Retain, Goto, Publishing, Replaced, Undecided
  <2>2. \E r \in {"ok", "unknown"} : Reports(p, r) /\ Goto(p, "retain", "idle")
    BY <1>23 DEF Retain
  <2> QED BY <1>23, <2>1, <2>2, JobEnds DEF Retain, Publishing, FreshInv, Data
<1>24. ASSUME NEW p \in Procs, RetainFails(p) PROVE StoreInv'
  <2>1. Data = job[p] /\ FreshInv
    BY <1>24, <1>1 DEF RetainFails, Goto, Publishing, Replaced, Undecided
  <2> QED BY <1>24, <2>1, JobEnds DEF RetainFails, Publishing, Undecided, FreshInv, Data
<1>25. ASSUME NEW p \in Procs, Undo(p) PROVE StoreInv'
  <2>1. JobInv(p) /\ FreshInv /\ pc[p] = "undo" /\ Data = job[p]
    BY <1>25, <1>1 DEF Undo, Goto, Publishing, Undecided, Replaced
  <2>2. CASE Goto(p, "undo", "undone") /\ UNCHANGED report /\ dir' = Moved(dir, Bak(job[p]), Target)
    <3>1. /\ Bak(job[p]) \in DOMAIN dir /\ dir[Bak(job[p])] = prior[p]
          /\ prior[p] \in 0 .. clock
      BY <2>1 DEF JobInv, Undecided
    <3>2. Bak(job[p]) # Target
      BY DEF Bak, Target
    <3>3. /\ DOMAIN dir' = (DOMAIN dir \ {Bak(job[p])}) \cup {Target}
          /\ dir'[Target] = prior[p]
          /\ \A z \in DOMAIN dir : z \notin {Bak(job[p]), Target} => dir'[z] = dir[z]
      BY <2>2, <3>1, <3>2 DEF Moved, Linked, Unlinked
    <3>4. \A x \in DOMAIN dir' : dir'[x] \in 0 .. clock
      BY <2>1, <3>1, <3>3 DEF FreshInv
    <3> QED
      BY <1>25, <2>2, <3>3, <3>4, JobContinues
      DEF Undo, Publishing, Replaced, Undecided, Before
  <2>3. CASE Goto(p, "undo", "idle") /\ Reports(p, "unknown") /\ UNCHANGED dir
    BY <1>25, <2>1, <2>3, JobEnds DEF Undo, Publishing, Undecided, FreshInv, Data
  <2> QED BY <1>25, <2>2, <2>3 DEF Undo
<1>26. ASSUME NEW p \in Procs, UndoFails(p) PROVE StoreInv'
  <2>1. Data = job[p] /\ FreshInv
    BY <1>26, <1>1 DEF UndoFails, Goto, Publishing, Replaced, Undecided
  <2> QED BY <1>26, <2>1, JobEnds DEF UndoFails, Publishing, Undecided, FreshInv, Data
<1>27. ASSUME NEW p \in Procs, UndoSync(p) PROVE StoreInv'
  <2>1. Data = prior[p] /\ FreshInv
    BY <1>27, <1>1 DEF UndoSync, Goto, Publishing, Replaced, Undecided
  <2> QED BY <1>27, <2>1, JobEnds DEF UndoSync, Publishing, Undecided, FreshInv, Data
<1>28. ASSUME NEW p \in Procs, UndoSyncFails(p) PROVE StoreInv'
  <2>1. Data = prior[p] /\ JobInv(p) /\ FreshInv /\ prior[p] \in 0 .. clock
    BY <1>28, <1>1 DEF UndoSyncFails, Goto, Publishing, Replaced, Undecided
  <2>2. /\ Target \in DOMAIN dir' /\ dir'[Target] = prior[p]
        /\ \A x \in DOMAIN dir' : dir'[x] \in 0 .. clock
    BY <1>28, <2>1, NamesKept DEF UndoSyncFails
  <2> QED BY <1>28, <2>2, JobEnds DEF UndoSyncFails, Publishing
<1>29. ASSUME NEW p \in Procs, Close(p) PROVE StoreInv'
  BY <1>29, StoreFrame DEF Close, Acquiring, Reading, Publishing, Undecided, Over
<1>30. ASSUME NEW p \in Procs, Release(p) PROVE StoreInv'
  BY <1>30, StoreFrame DEF Release, Acquiring, Reading, Publishing, Undecided, Over
<1>31. ASSUME NEW p \in Procs, RemoveLock(p) PROVE StoreInv'
  BY <1>31, StoreFrame DEF RemoveLock, Acquiring, Reading, Publishing, Undecided, Over
<1>32. ASSUME NEW p \in Procs, ReleaseFails(p) PROVE StoreInv'
  BY <1>32, StoreFrame DEF ReleaseFails, Acquiring, Reading, Publishing, Undecided, Over
<1>33. ASSUME NEW p \in Procs, Kill(p) PROVE StoreInv'
  BY <1>33, StoreFrame DEF Kill, Acquiring, Reading, Publishing, Undecided, Over
<1> QED
  BY <1>2, <1>3, <1>4, <1>5, <1>6, <1>7, <1>8, <1>9, <1>10, <1>11, <1>12, <1>13, <1>14, <1>15, <1>16, <1>17, <1>18, <1>19, <1>20, <1>21, <1>22, <1>23, <1>24, <1>25, <1>26, <1>27, <1>28, <1>29, <1>30, <1>31, <1>32, <1>33
  DEF Next, Locking, Writing, Failing, Leaving

-----------------------------------------------------------------------------
(* Safety.                                                                 *)

LEMMA InitIInv == Init => IInv
<1> SUFFICES ASSUME Init PROVE IInv
  OBVIOUS
<1> USE NoLockAssumption, AttemptsAssumption, BoundsAssumption DEF Init
<1>1. TypeOK
  BY DEF TypeOK, PCs, Answers, Names, Inodes, Mutations
<1>2. LockInv
  BY DEF LockInv, RemovalInv, OwnerInv, Removing, Owning, Holding, Publishing, Undecided
<1>3. FreshInv /\ ReportsAreTrue
  BY DEF FreshInv, ReportsAreTrue, Inodes, Mutations
<1>4. \A p \in Procs : pc[p] \notin Publishing /\ CallerInv(p)
  BY DEF CallerInv, Publishing, Undecided
<1> QED BY <1>1, <1>2, <1>3, <1>4 DEF IInv, StoreInv

LEMMA NextIInv ==
  ASSUME SoloRecovery, IInv, [Next]_vars
  PROVE  IInv'
<1> USE DEF IInv
<1>1. CASE Next
  BY <1>1, TypeStep, LockStep, PublishStep
<1>2. CASE UNCHANGED vars
  <2> USE <1>2 DEF vars, lockVars, fileVars, procVars
  <2>1. TypeOK'
    BY DEF TypeOK
  <2>2. LockInv'
    BY DEF LockInv, RemovalInv, OwnerInv
  <2>3. StoreInv'
    BY DEF StoreInv, FreshInv, JobInv, CallerInv, ReportsAreTrue, Data
  <2> QED BY <2>1, <2>2, <2>3
<1> QED BY <1>1, <1>2

\* The inductive invariant holds: locks name their owners, the names of the data
\* file's generations are kept while they may be needed, and answers are true.
THEOREM StoreSafe ==
  ASSUME SoloRecovery
  PROVE  Spec => []IInv
<1>1. IInv /\ [Next]_vars => IInv'
  BY NextIInv
<1> QED BY <1>1, InitIInv, PTL DEF Spec

\* The variables keep their types.
THEOREM TypeCorrect ==
  ASSUME SoloRecovery
  PROVE  Spec => []TypeOK
<1>1. IInv => TypeOK
  BY DEF IInv
<1> QED BY <1>1, StoreSafe, PTL

\* A process that has the store open has it alone, until it lets go.
THEOREM Exclusive ==
  ASSUME SoloRecovery
  PROVE  Spec => []ExclusiveForLifetime
<1>1. IInv => ExclusiveForLifetime
  BY DEF IInv, LockInv, OwnerInv, Owning, ExclusiveForLifetime
<1> QED BY <1>1, StoreSafe, PTL

\* What the caller of a mutation was told is what the data file holds.
THEOREM AnswersHold ==
  ASSUME SoloRecovery
  PROVE  Spec => []ReportsAreTrue
<1>1. IInv => ReportsAreTrue
  BY DEF IInv, StoreInv
<1> QED BY <1>1, StoreSafe, PTL

\* As long as a replacement may be undone, the file it replaced has a name.
THEOREM GenerationKept ==
  ASSUME SoloRecovery
  PROVE  Spec => []PriorIsKept
<1>1. IInv => PriorIsKept
  BY DEF IInv, StoreInv, JobInv, PriorIsKept, Publishing
<1> QED BY <1>1, StoreSafe, PTL

-----------------------------------------------------------------------------
(* The store implements AtomicContainer.                                   *)

\* The value of the container, before and after a step of the owner of the lock.
LEMMA OwnerCommitted ==
  ASSUME TypeOK, LockInv, NEW p \in Procs, NEW from, NEW to,
         Goto(p, from, to), from \in Owning
  PROVE  /\ Committed = IF from \in Undecided THEN content[prior[p]] ELSE content[Data]
         /\ Committed' = IF to \in Undecided THEN content'[prior'[p]]
                                            ELSE content'[dir'[Target]]
<1>1. pc[p] = from /\ pc'[p] = to /\ \A q \in Procs : q # p => pc'[q] = pc[q]
  BY DEF Goto, TypeOK
<1>2. \A q \in Procs : q # p => pc[q] \notin Undecided /\ pc'[q] \notin Undecided
  BY <1>1, OnlyOwner DEF Owning, Holding, Publishing
<1>3. pc[p] \in Undecided => (CHOOSE q \in Procs : pc[q] \in Undecided) = p
  BY <1>2
<1>4. pc'[p] \in Undecided => (CHOOSE q \in Procs : pc'[q] \in Undecided) = p
  BY <1>2
<1>5. Committed = IF from \in Undecided THEN content[prior[p]] ELSE content[Data]
  BY <1>1, <1>2, <1>3 DEF Committed
<1>6. Committed' = IF to \in Undecided THEN content'[prior'[p]] ELSE content'[dir'[Target]]
  BY <1>1, <1>2, <1>4 DEF Committed, Data
<1> QED BY <1>5, <1>6

\* A step of anybody else.
LEMMA OtherCommitted ==
  ASSUME TypeOK, NEW p \in Procs, NEW from, NEW to, Goto(p, from, to),
         from \notin Undecided, to \notin Undecided,
         UNCHANGED <<dir, content, prior>>
  PROVE  Committed' = Committed
<1>1. \A q \in Procs : pc'[q] \in Undecided <=> pc[q] \in Undecided
  BY DEF Goto, TypeOK
<1>2. (CHOOSE q \in Procs : pc'[q] \in Undecided) = (CHOOSE q \in Procs : pc[q] \in Undecided)
  BY <1>1
<1> QED BY <1>1, <1>2 DEF Committed, Data

\* The mutation takes effect when it can no longer be undone, or nobody is left
\* to undo it.
LEMMA Taking ==
  ASSUME TypeOK, StoreInv, NEW p \in Procs, pc[p] \in Publishing,
         Committed = content[prior[p]], Committed' = content[job[p]],
         UNCHANGED report \/ Reports(p, "unknown")
  PROVE  Contract!Next
<1>1. JobInv(p) /\ job[p] \in Mutations
  BY BoundsAssumption DEF StoreInv, JobInv, TypeOK, Mutations
<1>2. report = [report EXCEPT ![job[p]] = "none"]
  BY <1>1 DEF JobInv, TypeOK
<1>3. \E r \in {"none", "unknown"} : report' = [report EXCEPT ![job[p]] = r]
  BY <1>2 DEF Reports
<1>4. Contract!Take(job[p])
  BY <1>1, <1>3 DEF Contract!Take, JobInv
<1> QED BY <1>1, <1>4 DEF Contract!Next

\* An answer changes nothing.
LEMMA Replying ==
  ASSUME TypeOK, StoreInv, NEW p \in Procs, pc[p] \in Publishing,
         NEW r \in {"ok", "refused", "unknown"}, Reports(p, r), Committed' = Committed,
         r = "ok" => Committed = content[job[p]],
         r = "refused" => Committed = content[prior[p]]
  PROVE  Contract!Next
<1>1. JobInv(p) /\ job[p] \in Mutations
  BY BoundsAssumption DEF StoreInv, JobInv, TypeOK, Mutations
<1>2. Contract!Reply(job[p])
  BY <1>1 DEF Contract!Reply, JobInv, Reports
<1> QED BY <1>1, <1>2 DEF Contract!Next

\* The mutation in progress, its files and the data file before a step.
LEMMA JobFacts ==
  ASSUME TypeOK, StoreInv, NEW p \in Procs, pc[p] \in Publishing
  PROVE  /\ Data = IF pc[p] \in Replaced THEN job[p] ELSE prior[p]
         /\ Target \in DOMAIN dir /\ dir[Target] = Data
         /\ prior[p] \in 0 .. clock
BY DEF StoreInv, JobInv, FreshInv, Data

\* A step of the owner of the lock before the rename: the data file stays.
LEMMA KeptBefore ==
  ASSUME TypeOK, LockInv, StoreInv, NEW p \in Procs, NEW from, NEW to,
         Goto(p, from, to), from \in Publishing, from \notin Replaced, to \notin Undecided,
         dir'[Target] = dir[Target], UNCHANGED <<content, prior>>
  PROVE  Committed = content[prior[p]] /\ Committed' = Committed
<1>1. pc[p] = from /\ from \notin Undecided /\ from \in Owning
  BY DEF Goto, Replaced, Owning, Holding
<1>2. Data = prior[p] /\ dir[Target] = Data
  BY <1>1, JobFacts
<1> QED BY <1>1, <1>2, OwnerCommitted

LEMMA NextRefines ==
  ASSUME TypeOK, LockInv, StoreInv, [Next]_vars
  PROVE  Contract!Next \/ UNCHANGED <<Committed, report>>
<1> USE DEF Tells, lockVars, fileVars, procVars, Fault
<1>1. ASSUME NEW p \in Procs, Start(p) PROVE Contract!Next \/ UNCHANGED <<Committed, report>>
  BY <1>1, OtherCommitted DEF Start, Undecided
<1>2. ASSUME NEW p \in Procs, CreateLock(p) PROVE Contract!Next \/ UNCHANGED <<Committed, report>>
  BY <1>2, OtherCommitted DEF CreateLock, Undecided
<1>3. ASSUME NEW p \in Procs, Record(p) PROVE Contract!Next \/ UNCHANGED <<Committed, report>>
  BY <1>3, OtherCommitted DEF Record, Undecided
<1>4. ASSUME NEW p \in Procs, RecordFails(p) PROVE Contract!Next \/ UNCHANGED <<Committed, report>>
  BY <1>4, OtherCommitted DEF RecordFails, Undecided
<1>5. ASSUME NEW p \in Procs, Inspect(p) PROVE Contract!Next \/ UNCHANGED <<Committed, report>>
  BY <1>5, OtherCommitted DEF Inspect, Undecided
<1>6. ASSUME NEW p \in Procs, ReadOwner(p) PROVE Contract!Next \/ UNCHANGED <<Committed, report>>
  BY <1>6, OtherCommitted DEF ReadOwner, Undecided
<1>7. ASSUME NEW p \in Procs, Recheck(p) PROVE Contract!Next \/ UNCHANGED <<Committed, report>>
  BY <1>7, OtherCommitted DEF Recheck, Undecided
<1>8. ASSUME NEW p \in Procs, Unlink(p) PROVE Contract!Next \/ UNCHANGED <<Committed, report>>
  BY <1>8, OtherCommitted DEF Unlink, Undecided
<1>9. ASSUME NEW p \in Procs, Ping(p) PROVE Contract!Next \/ UNCHANGED <<Committed, report>>
  BY <1>9, OtherCommitted DEF Ping, Undecided
<1>10. ASSUME NEW p \in Procs, Read(p) PROVE Contract!Next \/ UNCHANGED <<Committed, report>>
  BY <1>10, OtherCommitted DEF Read, Undecided
<1>11. ASSUME NEW p \in Procs, Reuse(p) PROVE Contract!Next \/ UNCHANGED <<Committed, report>>
  BY <1>11, OtherCommitted DEF Reuse, Undecided
<1>12. ASSUME NEW p \in Procs, Stage(p) PROVE Contract!Next \/ UNCHANGED <<Committed, report>>
  <2>1. Target \in DOMAIN dir /\ Data \in 0 .. clock /\ Data # clock + 1 /\ Data \in Inodes
    BY DEF StoreInv, FreshInv, Data, TypeOK, Inodes
  <2>2. dir'[Target] = Data
    BY <1>12, <2>1 DEF Stage, Linked, Tmp, Target, Data
  <2>3. content'[Data] = content[Data]
    BY <1>12, <2>1 DEF Stage, TypeOK
  <2> QED
    BY <1>12, <2>2, <2>3, OwnerCommitted
    DEF Stage, Owning, Holding, Undecided
<1>13. ASSUME NEW p \in Procs, Refuse(p) PROVE Contract!Next \/ UNCHANGED <<Committed, report>>
  BY <1>13, OtherCommitted DEF Refuse, Undecided
<1>14. ASSUME NEW p \in Procs, Verify(p) PROVE Contract!Next \/ UNCHANGED <<Committed, report>>
  <2>1. dir' = dir \/ dir' = Unlinked(dir, Tmp(job[p]))
    BY <1>14 DEF Verify
  <2>2. pc[p] = "staged" /\ "staged" \in Publishing /\ "staged" \notin Replaced
    BY <1>14 DEF Verify, Goto, Publishing, Replaced, Undecided
  <2>3. dir'[Target] = dir[Target]
    BY <2>1, <2>2, JobFacts DEF Linked, Unlinked, Tmp, Bak, Target
  <2>4. CASE Goto(p, "staged", "idle") /\ Reports(p, "refused")
    BY <1>14, <2>2, <2>3, <2>4, KeptBefore, Replying DEF Verify, Undecided
  <2>5. CASE UNCHANGED report
    BY <1>14, <2>2, <2>3, <2>5, KeptBefore DEF Verify, Undecided
  <2> QED BY <1>14, <2>4, <2>5 DEF Verify
<1>15. ASSUME NEW p \in Procs, LinkBackup(p) PROVE Contract!Next \/ UNCHANGED <<Committed, report>>
  <2>1. dir' = Linked(dir, Bak(job[p]), Data)
    BY <1>15 DEF LinkBackup
  <2>2. pc[p] = "verified" /\ "verified" \in Publishing /\ "verified" \notin Replaced
    BY <1>15 DEF LinkBackup, Goto, Publishing, Replaced, Undecided
  <2>3. dir'[Target] = dir[Target]
    BY <2>1, <2>2, JobFacts DEF Linked, Unlinked, Tmp, Bak, Target
  <2> QED BY <1>15, <2>2, <2>3, KeptBefore DEF LinkBackup, Undecided
<1>16. ASSUME NEW p \in Procs, CheckBackup(p) PROVE Contract!Next \/ UNCHANGED <<Committed, report>>
  <2>1. dir' = dir \/ dir' = Unlinked(dir, Tmp(job[p]))
    BY <1>16 DEF CheckBackup
  <2>2. pc[p] = "backed" /\ "backed" \in Publishing /\ "backed" \notin Replaced
    BY <1>16 DEF CheckBackup, Goto, Publishing, Replaced, Undecided
  <2>3. dir'[Target] = dir[Target]
    BY <2>1, <2>2, JobFacts DEF Linked, Unlinked, Tmp, Bak, Target
  <2>4. CASE Goto(p, "backed", "idle") /\ Reports(p, "refused")
    BY <1>16, <2>2, <2>3, <2>4, KeptBefore, Replying DEF CheckBackup, Undecided
  <2>5. CASE UNCHANGED report
    BY <1>16, <2>2, <2>3, <2>5, KeptBefore DEF CheckBackup, Undecided
  <2> QED BY <1>16, <2>4, <2>5 DEF CheckBackup
<1>17. ASSUME NEW p \in Procs, StageFails(p) PROVE Contract!Next \/ UNCHANGED <<Committed, report>>
  <2>1. PICK from \in Before : Goto(p, from, "idle")
    BY <1>17 DEF StageFails, Before
  <2>2. \/ dir' = Unlinked(dir, Tmp(job[p]))
        \/ dir' = Unlinked(Unlinked(dir, Tmp(job[p])), Bak(job[p]))
    BY <1>17 DEF StageFails
  <2>3. pc[p] = from /\ from \in Publishing /\ from \notin Replaced
    BY <2>1 DEF Goto, Before, Publishing, Replaced, Undecided
  <2>4. dir'[Target] = dir[Target]
    BY <2>2, <2>3, JobFacts DEF Unlinked, Tmp, Bak, Target
  <2> QED BY <1>17, <2>1, <2>3, <2>4, KeptBefore, Replying DEF StageFails, Undecided
<1>18. ASSUME NEW p \in Procs, Rename(p) PROVE Contract!Next \/ UNCHANGED <<Committed, report>>
  <2>1. pc[p] = "linked" /\ Data = prior[p]
    BY <1>18, JobFacts DEF Rename, Goto, Publishing, Replaced, Undecided
  <2> QED
    BY <1>18, <2>1, OwnerCommitted DEF Rename, Owning, Holding, Publishing, Undecided
<1>19. ASSUME NEW p \in Procs, Confirm(p) PROVE Contract!Next \/ UNCHANGED <<Committed, report>>
  <2>1. PICK from \in Undecided, to \in Undecided : Goto(p, from, to)
    BY <1>19 DEF Confirm, Undecided
  <2> QED
    BY <1>19, <2>1, OwnerCommitted DEF Confirm, Owning, Holding, Publishing
<1>20. ASSUME NEW p \in Procs, ConfirmFails(p) PROVE Contract!Next \/ UNCHANGED <<Committed, report>>
  <2>1. PICK from \in Undecided, to \in Undecided : Goto(p, from, to)
    BY <1>20 DEF ConfirmFails, Undecided
  <2> QED
    BY <1>20, <2>1, OwnerCommitted DEF ConfirmFails, Owning, Holding, Publishing
<1>21. ASSUME NEW p \in Procs, DropBackup(p) PROVE Contract!Next \/ UNCHANGED <<Committed, report>>
  <2>1. pc[p] = "confirmed" /\ "confirmed" \in Publishing \cap Undecided
    BY <1>21 DEF DropBackup, Goto, Publishing, Undecided
  <2>2. Data = job[p] /\ Target \in DOMAIN dir /\ dir[Target] = Data
    BY <2>1, JobFacts DEF Replaced
  <2>3. CASE Goto(p, "confirmed", "retain") /\ dir' = Unlinked(dir, Bak(job[p]))
    <3>1. dir'[Target] = job[p]
      BY <2>2, <2>3 DEF Unlinked, Bak, Target
    <3>2. Committed = content[prior[p]] /\ Committed' = content[job[p]]
      BY <1>21, <2>1, <2>3, <3>1, OwnerCommitted
      DEF DropBackup, Owning, Holding, Undecided
    <3> QED BY <1>21, <2>1, <3>2, Taking DEF DropBackup
  <2>4. CASE Goto(p, "confirmed", "undo")
    BY <1>21, <2>1, <2>4, OwnerCommitted DEF DropBackup, Owning, Holding, Undecided
  <2> QED BY <1>21, <2>3, <2>4 DEF DropBackup
<1>22. ASSUME NEW p \in Procs, Retain(p) PROVE Contract!Next \/ UNCHANGED <<Committed, report>>
  <2>1. pc[p] = "retain" /\ "retain" \in Publishing /\ "retain" \notin Undecided
    BY <1>22 DEF Retain, Goto, Publishing, Undecided
  <2>2. Data = job[p]
    BY <2>1, JobFacts DEF Replaced
  <2>3. Goto(p, "retain", "idle")
    BY <1>22 DEF Retain
  <2>4. Committed = content[job[p]] /\ Committed' = Committed
    BY <1>22, <2>1, <2>2, <2>3, OwnerCommitted DEF Retain, Owning, Holding, Undecided, Data
  <2>5. \E r \in {"ok", "unknown"} : Reports(p, r)
    BY <1>22 DEF Retain
  <2> QED BY <2>1, <2>4, <2>5, Replying
<1>23. ASSUME NEW p \in Procs, RetainFails(p) PROVE Contract!Next \/ UNCHANGED <<Committed, report>>
  <2>1. pc[p] = "retain" /\ "retain" \in Publishing /\ "retain" \notin Undecided
    BY <1>23 DEF RetainFails, Goto, Publishing, Undecided
  <2>2. Data = job[p]
    BY <2>1, JobFacts DEF Replaced
  <2>3. Goto(p, "retain", "idle")
    BY <1>23 DEF RetainFails
  <2>4. Committed = content[job[p]] /\ Committed' = Committed
    BY <1>23, <2>1, <2>2, <2>3, OwnerCommitted DEF RetainFails, Owning, Holding, Undecided, Data
  <2>5. Reports(p, "unknown")
    BY <1>23 DEF RetainFails
  <2> QED BY <2>1, <2>4, <2>5, Replying
<1>24. ASSUME NEW p \in Procs, Undo(p) PROVE Contract!Next \/ UNCHANGED <<Committed, report>>
  <2>1. pc[p] = "undo" /\ "undo" \in Publishing \cap Undecided
    BY <1>24 DEF Undo, Goto, Publishing, Undecided
  <2>2. Data = job[p] /\ JobInv(p)
    BY <2>1, JobFacts DEF Replaced, StoreInv
  <2>3. CASE Goto(p, "undo", "undone") /\ dir' = Moved(dir, Bak(job[p]), Target)
    <3>1. Bak(job[p]) \in DOMAIN dir /\ dir[Bak(job[p])] = prior[p]
      BY <2>1, <2>2 DEF JobInv
    <3>2. dir'[Target] = prior[p]
      BY <2>3, <3>1 DEF Moved, Linked
    <3>3. UNCHANGED report
      BY <1>24, <2>3 DEF Undo, Goto, TypeOK
    <3> QED
      BY <1>24, <2>1, <2>3, <3>2, <3>3, OwnerCommitted DEF Undo, Owning, Holding, Undecided
  <2>4. CASE Goto(p, "undo", "idle") /\ Reports(p, "unknown") /\ UNCHANGED dir
    <3>1. Committed = content[prior[p]] /\ Committed' = content[job[p]]
      BY <1>24, <2>1, <2>2, <2>4, OwnerCommitted DEF Undo, Owning, Holding, Undecided, Data
    <3> QED BY <2>1, <2>4, <3>1, Taking
  <2> QED BY <1>24, <2>3, <2>4 DEF Undo
<1>25. ASSUME NEW p \in Procs, UndoFails(p) PROVE Contract!Next \/ UNCHANGED <<Committed, report>>
  <2>1. pc[p] = "undo" /\ "undo" \in Publishing \cap Undecided
    BY <1>25 DEF UndoFails, Goto, Publishing, Undecided
  <2>2. Data = job[p]
    BY <2>1, JobFacts DEF Replaced
  <2>3. Committed = content[prior[p]] /\ Committed' = content[job[p]]
    BY <1>25, <2>1, <2>2, OwnerCommitted DEF UndoFails, Owning, Holding, Undecided, Data
  <2> QED BY <1>25, <2>1, <2>3, Taking DEF UndoFails
<1>26. ASSUME NEW p \in Procs, UndoSync(p) PROVE Contract!Next \/ UNCHANGED <<Committed, report>>
  <2>1. dir' = dir
    BY <1>26 DEF UndoSync
  <2>2. pc[p] = "undone" /\ "undone" \in Publishing /\ "undone" \notin Replaced
    BY <1>26 DEF UndoSync, Goto, Publishing, Replaced, Undecided
  <2>3. dir'[Target] = dir[Target]
    BY <2>1, <2>2, JobFacts DEF Linked, Unlinked, Tmp, Bak, Target
  <2> QED BY <1>26, <2>2, <2>3, KeptBefore, Replying DEF UndoSync, Undecided
<1>27. ASSUME NEW p \in Procs, UndoSyncFails(p) PROVE Contract!Next \/ UNCHANGED <<Committed, report>>
  <2>1. dir' = dir \/ dir' = Linked(dir, Bak(job[p]), Data)
    BY <1>27 DEF UndoSyncFails
  <2>2. pc[p] = "undone" /\ "undone" \in Publishing /\ "undone" \notin Replaced
    BY <1>27 DEF UndoSyncFails, Goto, Publishing, Replaced, Undecided
  <2>3. dir'[Target] = dir[Target]
    BY <2>1, <2>2, JobFacts DEF Linked, Unlinked, Tmp, Bak, Target
  <2> QED BY <1>27, <2>2, <2>3, KeptBefore, Replying DEF UndoSyncFails, Undecided
<1>28. ASSUME NEW p \in Procs, Close(p) PROVE Contract!Next \/ UNCHANGED <<Committed, report>>
  BY <1>28, OtherCommitted DEF Close, Undecided
<1>29. ASSUME NEW p \in Procs, Release(p) PROVE Contract!Next \/ UNCHANGED <<Committed, report>>
  BY <1>29, OtherCommitted DEF Release, Undecided
<1>30. ASSUME NEW p \in Procs, RemoveLock(p) PROVE Contract!Next \/ UNCHANGED <<Committed, report>>
  BY <1>30, OtherCommitted DEF RemoveLock, Undecided
<1>31. ASSUME NEW p \in Procs, ReleaseFails(p) PROVE Contract!Next \/ UNCHANGED <<Committed, report>>
  BY <1>31, OtherCommitted DEF ReleaseFails, Undecided
<1>32. ASSUME NEW p \in Procs, Kill(p) PROVE Contract!Next \/ UNCHANGED <<Committed, report>>
  <2>1. Goto(p, pc[p], "killed") /\ UNCHANGED <<dir, content, prior, report>>
    BY <1>32 DEF Kill
  <2>2. CASE pc[p] \in Undecided
    <3>1. pc[p] \in Publishing /\ pc[p] \in Owning
      BY <2>2 DEF Publishing, Owning, Holding
    <3>2. Data = job[p]
      BY <2>2, <3>1, JobFacts DEF Replaced
    <3>3. Committed = content[prior[p]] /\ Committed' = content[job[p]]
      BY <2>1, <2>2, <3>1, <3>2, OwnerCommitted DEF Undecided, Data
    <3> QED BY <2>1, <3>1, <3>3, Taking
  <2>3. CASE pc[p] \notin Undecided
    BY <2>1, <2>3, OtherCommitted DEF Undecided
  <2> QED BY <2>2, <2>3
<1>33. CASE UNCHANGED vars
  BY <1>33 DEF vars, Committed, Data
<1> QED
  BY <1>1, <1>2, <1>3, <1>4, <1>5, <1>6, <1>7, <1>8, <1>9, <1>10, <1>11, <1>12, <1>13, <1>14, <1>15, <1>16, <1>17, <1>18, <1>19, <1>20, <1>21, <1>22, <1>23, <1>24, <1>25, <1>26, <1>27, <1>28, <1>29, <1>30, <1>31, <1>32, <1>33
  DEF Next, Locking, Writing, Failing, Leaving

LEMMA InitRefines == Init => Contract!Init
<1> SUFFICES ASSUME Init PROVE Contract!Init
  OBVIOUS
<1>1. Data \in Inodes /\ \A p \in Procs : pc[p] \notin Undecided
  BY BoundsAssumption DEF Init, Data, Inodes, Undecided
<1>2. Committed = {}
  BY <1>1 DEF Init, Committed
<1> QED BY <1>2 DEF Init, Contract!Init

\* The data file with all that is done to it behaves as one container that each
\* mutation changes in a single step or not at all.
THEOREM Refinement ==
  ASSUME SoloRecovery
  PROVE  Spec => Implements
<1>1. IInv /\ [Next]_vars => [Contract!Next]_<<Committed, report>>
  BY NextRefines DEF IInv
<1> QED BY <1>1, InitRefines, StoreSafe, PTL DEF Spec, Implements, Contract!Spec
=============================================================================
