--------------------- MODULE SecureFileTransition_proofs ---------------------
(***************************************************************************)
(* Proofs about SecureFileTransition, for every set of processes, every    *)
(* number of faults and every number of attempts, under the assumption     *)
(* that two processes never recover a lock at the same time.               *)
(***************************************************************************)
EXTENDS SecureFileTransition, TLAPS

-----------------------------------------------------------------------------
\* Whoever is about to delete a lock has judged a process that is gone.
RecoveryInv ==
  /\ \A p \in Procs : pc[p] \in Recovering => /\ seen[p] \in Procs
                                              /\ pc[seen[p]] \in Settled
  /\ \A p \in Procs : pc[p] = "unlink" => lockFile = seen[p]
  /\ \A p, q \in Procs : pc[p] \in Recovering /\ pc[q] \in Recovering => p = q

\* Only the lock of a process that is gone ever looks stale.
StaleInv == \A p \in Procs : age[p] # "young" \/ p \notin live => pc[p] \in Settled

AttemptsInv == \A p \in Procs : pc[p] \in {"inspect"} \cup Recovering
                                  => attempts[p] + 1 < MaxAttempts

LockInv == /\ TypeOK
           /\ AttemptsInv
           /\ StaleInv
           /\ RecoveryInv
           /\ LockOfHolderStays

-----------------------------------------------------------------------------
LEMMA InitLockInv == Init => LockInv
<1> SUFFICES ASSUME Init PROVE LockInv
  OBVIOUS
<1> USE MaxAttemptsAssumption, MaxFaultsAssumption, NullsAssumption
    DEF Init, Recovering, Settled
<1>1. TypeOK
  BY DEF TypeOK, LockTypeOK, ControlTypeOK, AcquireTypeOK, DataTypeOK, ReportTypeOK,
         Contents, Ages, PCs, Outcomes, Doc!NewContent
<1>2. AttemptsInv /\ StaleInv /\ RecoveryInv /\ LockOfHolderStays
  BY DEF AttemptsInv, StaleInv, RecoveryInv, LockOfHolderStays, Holding, Inside
<1> QED BY <1>1, <1>2 DEF LockInv

LEMMA TypeStep ==
  ASSUME TypeOK, AttemptsInv, [Next]_vars
  PROVE  TypeOK' /\ AttemptsInv'
<1> USE MaxAttemptsAssumption, MaxFaultsAssumption
    DEF TypeOK, LockTypeOK, ControlTypeOK, AcquireTypeOK, DataTypeOK, ReportTypeOK, lockVars, procVars
<1>1. ASSUME NEW p \in Procs, Lookup(p) PROVE TypeOK' /\ AttemptsInv'
  <2> USE <1>1 DEF Lookup, Goto
  <2>1. LockTypeOK'
    BY DEF Ages
  <2>2. ControlTypeOK'
    BY DEF PCs, Outcomes, Inside, Holding, Recovering, Settled
  <2>3. AcquireTypeOK'
    OBVIOUS
  <2>4. DataTypeOK'
    BY DEF Contents
  <2>5. ReportTypeOK'
    OBVIOUS
  <2>6. AttemptsInv'
    BY DEF AttemptsInv, Recovering
  <2> QED BY <2>1, <2>2, <2>3, <2>4, <2>5, <2>6
<1>2. ASSUME NEW p \in Procs, Validate(p) PROVE TypeOK' /\ AttemptsInv'
  <2> USE <1>2 DEF Validate, Goto, Finish
  <2>1. LockTypeOK'
    BY DEF Ages
  <2>2. ControlTypeOK'
    BY DEF PCs, Outcomes, Inside, Holding, Recovering, Settled, ReportTypeOK
  <2>3. AcquireTypeOK'
    OBVIOUS
  <2>4. DataTypeOK'
    BY DEF Contents
  <2>5. ReportTypeOK'
    OBVIOUS
  <2>6. AttemptsInv'
    BY DEF AttemptsInv, Recovering
  <2> QED BY <2>1, <2>2, <2>3, <2>4, <2>5, <2>6
<1>3. ASSUME NEW p \in Procs, CreateLock(p) PROVE TypeOK' /\ AttemptsInv'
  <2> USE <1>3 DEF CreateLock, Goto
  <2>1. LockTypeOK'
    BY DEF Ages
  <2>2. ControlTypeOK'
    BY DEF PCs, Outcomes, Inside, Holding, Recovering, Settled
  <2>3. AcquireTypeOK'
    OBVIOUS
  <2>4. DataTypeOK'
    BY DEF Contents
  <2>5. ReportTypeOK'
    OBVIOUS
  <2>6. AttemptsInv'
    BY DEF AttemptsInv, Recovering
  <2> QED BY <2>1, <2>2, <2>3, <2>4, <2>5, <2>6
<1>4. ASSUME NEW p \in Procs, LockExists(p) PROVE TypeOK' /\ AttemptsInv'
  <2> USE <1>4 DEF LockExists, Goto, Finish
  <2>1. LockTypeOK'
    BY DEF Ages
  <2>2. ControlTypeOK'
    BY DEF PCs, Outcomes, Inside, Holding, Recovering, Settled, ReportTypeOK
  <2>3. AcquireTypeOK'
    OBVIOUS
  <2>4. DataTypeOK'
    BY DEF Contents
  <2>5. ReportTypeOK'
    OBVIOUS
  <2>6. AttemptsInv'
    BY DEF AttemptsInv, Recovering
  <2> QED BY <2>1, <2>2, <2>3, <2>4, <2>5, <2>6
<1>5. ASSUME NEW p \in Procs, WriteRecord(p) PROVE TypeOK' /\ AttemptsInv'
  <2> USE <1>5 DEF WriteRecord, Goto
  <2>1. LockTypeOK'
    BY DEF Ages
  <2>2. ControlTypeOK'
    BY DEF PCs, Outcomes, Inside, Holding, Recovering, Settled
  <2>3. AcquireTypeOK'
    OBVIOUS
  <2>4. DataTypeOK'
    BY DEF Contents
  <2>5. ReportTypeOK'
    OBVIOUS
  <2>6. AttemptsInv'
    BY DEF AttemptsInv, Recovering
  <2> QED BY <2>1, <2>2, <2>3, <2>4, <2>5, <2>6
<1>6. ASSUME NEW p \in Procs, RecordFails(p) PROVE TypeOK' /\ AttemptsInv'
  <2> USE <1>6 DEF RecordFails, Finish, Goto
  <2>1. LockTypeOK'
    BY DEF Ages
  <2>2. ControlTypeOK'
    BY DEF PCs, Outcomes, Inside, Holding, Recovering, Settled, ReportTypeOK
  <2>3. AcquireTypeOK'
    OBVIOUS
  <2>4. DataTypeOK'
    BY DEF Contents
  <2>5. ReportTypeOK'
    OBVIOUS
  <2>6. AttemptsInv'
    BY DEF AttemptsInv, Recovering
  <2> QED BY <2>1, <2>2, <2>3, <2>4, <2>5, <2>6
<1>7. ASSUME NEW p \in Procs, Inspect(p) PROVE TypeOK' /\ AttemptsInv'
  <2> USE <1>7 DEF Inspect, Goto, Finish, Retry, Stale
  <2>1. LockTypeOK'
    BY DEF Ages
  <2>2. ControlTypeOK'
    BY DEF PCs, Outcomes, Inside, Holding, Recovering, Settled, ReportTypeOK
  <2>3. AcquireTypeOK'
    BY DEF AttemptsInv, Recovering
  <2>4. DataTypeOK'
    BY DEF Contents
  <2>5. ReportTypeOK'
    OBVIOUS
  <2>6. AttemptsInv'
    BY DEF AttemptsInv, Recovering
  <2> QED BY <2>1, <2>2, <2>3, <2>4, <2>5, <2>6
<1>8. ASSUME NEW p \in Procs, CheckIdentity(p) PROVE TypeOK' /\ AttemptsInv'
  <2> USE <1>8 DEF CheckIdentity, Goto, Finish
  <2>1. LockTypeOK'
    BY DEF Ages
  <2>2. ControlTypeOK'
    BY DEF PCs, Outcomes, Inside, Holding, Recovering, Settled, ReportTypeOK
  <2>3. AcquireTypeOK'
    OBVIOUS
  <2>4. DataTypeOK'
    BY DEF Contents
  <2>5. ReportTypeOK'
    OBVIOUS
  <2>6. AttemptsInv'
    BY DEF AttemptsInv, Recovering
  <2> QED BY <2>1, <2>2, <2>3, <2>4, <2>5, <2>6
<1>9. ASSUME NEW p \in Procs, UnlinkStale(p) PROVE TypeOK' /\ AttemptsInv'
  <2> USE <1>9 DEF UnlinkStale, Retry, Goto
  <2>1. LockTypeOK'
    BY DEF Ages
  <2>2. ControlTypeOK'
    BY DEF PCs, Outcomes, Inside, Holding, Recovering, Settled
  <2>3. AcquireTypeOK'
    BY DEF AttemptsInv, Recovering
  <2>4. DataTypeOK'
    BY DEF Contents
  <2>5. ReportTypeOK'
    OBVIOUS
  <2>6. AttemptsInv'
    BY DEF AttemptsInv, Recovering
  <2> QED BY <2>1, <2>2, <2>3, <2>4, <2>5, <2>6
<1>10. ASSUME NEW p \in Procs, Read(p) PROVE TypeOK' /\ AttemptsInv'
  <2> USE <1>10 DEF Read, Goto
  <2>1. LockTypeOK'
    BY DEF Ages
  <2>2. ControlTypeOK'
    BY DEF PCs, Outcomes, Inside, Holding, Recovering, Settled
  <2>3. AcquireTypeOK'
    OBVIOUS
  <2>4. DataTypeOK'
    BY DEF Contents
  <2>5. ReportTypeOK'
    OBVIOUS
  <2>6. AttemptsInv'
    BY DEF AttemptsInv, Recovering
  <2> QED BY <2>1, <2>2, <2>3, <2>4, <2>5, <2>6
<1>11. ASSUME NEW p \in Procs, Abandon(p) PROVE TypeOK' /\ AttemptsInv'
  <2> USE <1>11 DEF Abandon, Goto
  <2>1. LockTypeOK'
    BY DEF Ages
  <2>2. ControlTypeOK'
    BY DEF PCs, Outcomes, Inside, Holding, Recovering, Settled
  <2>3. AcquireTypeOK'
    OBVIOUS
  <2>4. DataTypeOK'
    BY DEF Contents
  <2>5. ReportTypeOK'
    OBVIOUS
  <2>6. AttemptsInv'
    BY DEF AttemptsInv, Recovering
  <2> QED BY <2>1, <2>2, <2>3, <2>4, <2>5, <2>6
<1>12. ASSUME NEW p \in Procs, Decide(p) PROVE TypeOK' /\ AttemptsInv'
  <2> USE <1>12 DEF Decide, Goto
  <2>1. LockTypeOK'
    BY DEF Ages
  <2>2. ControlTypeOK'
    BY DEF PCs, Outcomes, Inside, Holding, Recovering, Settled
  <2>3. AcquireTypeOK'
    OBVIOUS
  <2>4. DataTypeOK'
    BY DEF Contents
  <2>5. ReportTypeOK'
    BY DEF Doc!Verdict
  <2>6. AttemptsInv'
    BY DEF AttemptsInv, Recovering
  <2> QED BY <2>1, <2>2, <2>3, <2>4, <2>5, <2>6
<1>13. ASSUME NEW p \in Procs, Capture(p) PROVE TypeOK' /\ AttemptsInv'
  <2> USE <1>13 DEF Capture, Goto
  <2>1. LockTypeOK'
    BY DEF Ages
  <2>2. ControlTypeOK'
    BY DEF PCs, Outcomes, Inside, Holding, Recovering, Settled
  <2>3. AcquireTypeOK'
    OBVIOUS
  <2>4. DataTypeOK'
    BY DEF Contents
  <2>5. ReportTypeOK'
    OBVIOUS
  <2>6. AttemptsInv'
    BY DEF AttemptsInv, Recovering
  <2> QED BY <2>1, <2>2, <2>3, <2>4, <2>5, <2>6
<1>14. ASSUME NEW p \in Procs, Rename(p) PROVE TypeOK' /\ AttemptsInv'
  <2> USE <1>14 DEF Rename, Goto
  <2>1. LockTypeOK'
    BY DEF Ages
  <2>2. ControlTypeOK'
    BY DEF PCs, Outcomes, Inside, Holding, Recovering, Settled
  <2>3. AcquireTypeOK'
    OBVIOUS
  <2>4. DataTypeOK'
    BY DEF Contents, Doc!Consumed, Doc!Verdict
  <2>5. ReportTypeOK'
    OBVIOUS
  <2>6. AttemptsInv'
    BY DEF AttemptsInv, Recovering
  <2> QED BY <2>1, <2>2, <2>3, <2>4, <2>5, <2>6
<1>15. ASSUME NEW p \in Procs, RenameFails(p) PROVE TypeOK' /\ AttemptsInv'
  <2> USE <1>15 DEF RenameFails, Goto
  <2>1. LockTypeOK'
    BY DEF Ages
  <2>2. ControlTypeOK'
    BY DEF PCs, Outcomes, Inside, Holding, Recovering, Settled
  <2>3. AcquireTypeOK'
    OBVIOUS
  <2>4. DataTypeOK'
    BY DEF Contents
  <2>5. ReportTypeOK'
    OBVIOUS
  <2>6. AttemptsInv'
    BY DEF AttemptsInv, Recovering
  <2> QED BY <2>1, <2>2, <2>3, <2>4, <2>5, <2>6
<1>16. ASSUME NEW p \in Procs, Confirm(p) PROVE TypeOK' /\ AttemptsInv'
  <2> USE <1>16 DEF Confirm, Goto
  <2>1. LockTypeOK'
    BY DEF Ages
  <2>2. ControlTypeOK'
    BY DEF PCs, Outcomes, Inside, Holding, Recovering, Settled
  <2>3. AcquireTypeOK'
    OBVIOUS
  <2>4. DataTypeOK'
    BY DEF Contents
  <2>5. ReportTypeOK'
    OBVIOUS
  <2>6. AttemptsInv'
    BY DEF AttemptsInv, Recovering
  <2> QED BY <2>1, <2>2, <2>3, <2>4, <2>5, <2>6
<1>17. ASSUME NEW p \in Procs, Readback(p) PROVE TypeOK' /\ AttemptsInv'
  <2> USE <1>17 DEF Readback, Goto
  <2>1. LockTypeOK'
    BY DEF Ages
  <2>2. ControlTypeOK'
    BY DEF PCs, Outcomes, Inside, Holding, Recovering, Settled
  <2>3. AcquireTypeOK'
    OBVIOUS
  <2>4. DataTypeOK'
    BY DEF Contents
  <2>5. ReportTypeOK'
    OBVIOUS
  <2>6. AttemptsInv'
    BY DEF AttemptsInv, Recovering
  <2> QED BY <2>1, <2>2, <2>3, <2>4, <2>5, <2>6
<1>18. ASSUME NEW p \in Procs, Release(p) PROVE TypeOK' /\ AttemptsInv'
  <2> USE <1>18 DEF Release, Finish, Goto
  <2>1. LockTypeOK'
    BY DEF Ages
  <2>2. ControlTypeOK'
    BY DEF PCs, Outcomes, Inside, Holding, Recovering, Settled, ReportTypeOK
  <2>3. AcquireTypeOK'
    OBVIOUS
  <2>4. DataTypeOK'
    BY DEF Contents
  <2>5. ReportTypeOK'
    OBVIOUS
  <2>6. AttemptsInv'
    BY DEF AttemptsInv, Recovering
  <2> QED BY <2>1, <2>2, <2>3, <2>4, <2>5, <2>6
<1>19. ASSUME NEW p \in Procs, ReleaseFails(p) PROVE TypeOK' /\ AttemptsInv'
  <2> USE <1>19 DEF ReleaseFails, Finish, Goto
  <2>1. LockTypeOK'
    BY DEF Ages
  <2>2. ControlTypeOK'
    BY DEF PCs, Outcomes, Inside, Holding, Recovering, Settled, ReportTypeOK
  <2>3. AcquireTypeOK'
    OBVIOUS
  <2>4. DataTypeOK'
    BY DEF Contents
  <2>5. ReportTypeOK'
    OBVIOUS
  <2>6. AttemptsInv'
    BY DEF AttemptsInv, Recovering
  <2> QED BY <2>1, <2>2, <2>3, <2>4, <2>5, <2>6
<1>20. ASSUME NEW p \in Procs, Crash(p) PROVE TypeOK' /\ AttemptsInv'
  <2> USE <1>20 DEF Crash, Goto
  <2>1. LockTypeOK'
    BY DEF Ages
  <2>2. ControlTypeOK'
    BY DEF PCs, Outcomes, Inside, Holding, Recovering, Settled
  <2>3. AcquireTypeOK'
    OBVIOUS
  <2>4. DataTypeOK'
    BY DEF Contents
  <2>5. ReportTypeOK'
    OBVIOUS
  <2>6. AttemptsInv'
    BY DEF AttemptsInv, Recovering
  <2> QED BY <2>1, <2>2, <2>3, <2>4, <2>5, <2>6
<1>21. ASSUME NEW p \in Procs, Exit(p) PROVE TypeOK' /\ AttemptsInv'
  <2> USE <1>21 DEF Exit
  <2>1. LockTypeOK'
    BY DEF Ages
  <2>2. ControlTypeOK'
    BY DEF PCs, Outcomes, Inside, Holding, Recovering, Settled
  <2>3. AcquireTypeOK'
    OBVIOUS
  <2>4. DataTypeOK'
    BY DEF Contents
  <2>5. ReportTypeOK'
    OBVIOUS
  <2>6. AttemptsInv'
    BY DEF AttemptsInv, Recovering
  <2> QED BY <2>1, <2>2, <2>3, <2>4, <2>5, <2>6
<1>22. ASSUME NEW p \in Procs, RecyclePid(p) PROVE TypeOK' /\ AttemptsInv'
  <2> USE <1>22 DEF RecyclePid
  <2>1. LockTypeOK'
    BY DEF Ages
  <2>2. ControlTypeOK'
    BY DEF PCs, Outcomes, Inside, Holding, Recovering, Settled
  <2>3. AcquireTypeOK'
    OBVIOUS
  <2>4. DataTypeOK'
    BY DEF Contents
  <2>5. ReportTypeOK'
    OBVIOUS
  <2>6. AttemptsInv'
    BY DEF AttemptsInv, Recovering
  <2> QED BY <2>1, <2>2, <2>3, <2>4, <2>5, <2>6
<1>23. ASSUME NEW p \in Procs, GrowOld(p) PROVE TypeOK' /\ AttemptsInv'
  <2> USE <1>23 DEF GrowOld
  <2>1. LockTypeOK'
    BY DEF Ages
  <2>2. ControlTypeOK'
    BY DEF PCs, Outcomes, Inside, Holding, Recovering, Settled
  <2>3. AcquireTypeOK'
    OBVIOUS
  <2>4. DataTypeOK'
    BY DEF Contents
  <2>5. ReportTypeOK'
    OBVIOUS
  <2>6. AttemptsInv'
    BY DEF AttemptsInv, Recovering
  <2> QED BY <2>1, <2>2, <2>3, <2>4, <2>5, <2>6
<1>24. CASE UNCHANGED vars
  BY <1>24 DEF vars, AttemptsInv
<1>25. QED
  BY <1>1, <1>2, <1>3, <1>4, <1>5, <1>6, <1>7, <1>8, <1>9, <1>10, <1>11, <1>12, <1>13, <1>14, <1>15, <1>16, <1>17, <1>18, <1>19, <1>20, <1>21, <1>22, <1>23, <1>24 DEF Next, Step, Environment

\* What the steps below need to know of the types.
Shape == /\ pc \in [Procs -> PCs]
         /\ seen \in [Procs -> Procs \cup {NoLock}]
         /\ age \in [Procs -> Ages]
         /\ lockFile \in Procs \cup {NoLock}

LEMMA SafeStep ==
  ASSUME SoloRecovery, Shape, StaleInv, RecoveryInv, LockOfHolderStays, [Next]_vars
  PROVE  StaleInv' /\ RecoveryInv' /\ LockOfHolderStays'
<1> USE NullsAssumption
    DEF Shape, StaleInv, RecoveryInv, LockOfHolderStays,
        Ages, PCs, Inside, Holding, Recovering, Settled, lockVars, procVars
<1>1. ASSUME NEW p \in Procs, Lookup(p)
  PROVE StaleInv' /\ RecoveryInv' /\ LockOfHolderStays'
  <2> USE <1>1 DEF Lookup, Goto
  <2>1. StaleInv'
    OBVIOUS
  <2>2. RecoveryInv'
    OBVIOUS
  <2>3. LockOfHolderStays'
    OBVIOUS
  <2> QED BY <2>1, <2>2, <2>3
<1>2. ASSUME NEW p \in Procs, Validate(p)
  PROVE StaleInv' /\ RecoveryInv' /\ LockOfHolderStays'
  <2> USE <1>2 DEF Validate, Goto, Finish
  <2>1. StaleInv'
    OBVIOUS
  <2>2. RecoveryInv'
    OBVIOUS
  <2>3. LockOfHolderStays'
    OBVIOUS
  <2> QED BY <2>1, <2>2, <2>3
<1>3. ASSUME NEW p \in Procs, CreateLock(p)
  PROVE StaleInv' /\ RecoveryInv' /\ LockOfHolderStays'
  <2> USE <1>3 DEF CreateLock, Goto
  <2>1. StaleInv'
    OBVIOUS
  <2>2. RecoveryInv'
    OBVIOUS
  <2>3. LockOfHolderStays'
    OBVIOUS
  <2> QED BY <2>1, <2>2, <2>3
<1>4. ASSUME NEW p \in Procs, LockExists(p)
  PROVE StaleInv' /\ RecoveryInv' /\ LockOfHolderStays'
  <2> USE <1>4 DEF LockExists, Goto, Finish
  <2>1. StaleInv'
    OBVIOUS
  <2>2. RecoveryInv'
    OBVIOUS
  <2>3. LockOfHolderStays'
    OBVIOUS
  <2> QED BY <2>1, <2>2, <2>3
<1>5. ASSUME NEW p \in Procs, WriteRecord(p)
  PROVE StaleInv' /\ RecoveryInv' /\ LockOfHolderStays'
  <2> USE <1>5 DEF WriteRecord, Goto
  <2>1. StaleInv'
    OBVIOUS
  <2>2. RecoveryInv'
    OBVIOUS
  <2>3. LockOfHolderStays'
    OBVIOUS
  <2> QED BY <2>1, <2>2, <2>3
<1>6. ASSUME NEW p \in Procs, RecordFails(p)
  PROVE StaleInv' /\ RecoveryInv' /\ LockOfHolderStays'
  <2> USE <1>6 DEF RecordFails, Finish, Goto
  <2>1. StaleInv'
    OBVIOUS
  <2>2. RecoveryInv'
    OBVIOUS
  <2>3. LockOfHolderStays'
    OBVIOUS
  <2> QED BY <2>1, <2>2, <2>3
<1>7. ASSUME NEW p \in Procs, Inspect(p)
  PROVE StaleInv' /\ RecoveryInv' /\ LockOfHolderStays'
  <2> USE <1>7 DEF Inspect, Goto, Finish, Retry, Stale
  <2>1. StaleInv'
    OBVIOUS
  <2>2. RecoveryInv'
    <3>1. lockFile # NoLock /\ Stale(lockFile) => pc[lockFile] \in Settled
      OBVIOUS
    <3>2. CASE lockFile # NoLock /\ Stale(lockFile)
      <4>1. lockFile \in Procs /\ pc[lockFile] \in Settled /\ lockFile # p
        BY <3>1, <3>2
      <4>2. pc' = [pc EXCEPT ![p] = "identity"] /\ seen' = [seen EXCEPT ![p] = lockFile]
        BY <3>2
      <4>3. \A q \in Procs : pc'[q] \in Recovering => q = p
        BY <4>2
      <4> QED BY <4>1, <4>2, <4>3
    <3>3. CASE ~(lockFile # NoLock /\ Stale(lockFile))
      <4>1. pc'[p] \in {"create", "done"} /\ seen' = seen
        BY <3>3
      <4>2. \A q \in Procs : q # p => pc'[q] = pc[q]
        OBVIOUS
      <4>3. \A q \in Procs : pc[q] \in Settled => q # p
        OBVIOUS
      <4> QED BY <4>1, <4>2, <4>3
    <3> QED BY <3>2, <3>3
  <2>3. LockOfHolderStays'
    OBVIOUS
  <2> QED BY <2>1, <2>2, <2>3
<1>8. ASSUME NEW p \in Procs, CheckIdentity(p)
  PROVE StaleInv' /\ RecoveryInv' /\ LockOfHolderStays'
  <2> USE <1>8 DEF CheckIdentity, Goto, Finish
  <2>1. StaleInv'
    OBVIOUS
  <2>2. RecoveryInv'
    OBVIOUS
  <2>3. LockOfHolderStays'
    OBVIOUS
  <2> QED BY <2>1, <2>2, <2>3
<1>9. ASSUME NEW p \in Procs, UnlinkStale(p)
  PROVE StaleInv' /\ RecoveryInv' /\ LockOfHolderStays'
  <2> USE <1>9 DEF UnlinkStale, Retry, Goto
  <2>1. StaleInv'
    OBVIOUS
  <2>2. RecoveryInv'
    OBVIOUS
  <2>3. LockOfHolderStays'
    OBVIOUS
  <2> QED BY <2>1, <2>2, <2>3
<1>10. ASSUME NEW p \in Procs, Read(p)
  PROVE StaleInv' /\ RecoveryInv' /\ LockOfHolderStays'
  <2> USE <1>10 DEF Read, Goto
  <2>1. StaleInv'
    OBVIOUS
  <2>2. RecoveryInv'
    OBVIOUS
  <2>3. LockOfHolderStays'
    OBVIOUS
  <2> QED BY <2>1, <2>2, <2>3
<1>11. ASSUME NEW p \in Procs, Abandon(p)
  PROVE StaleInv' /\ RecoveryInv' /\ LockOfHolderStays'
  <2> USE <1>11 DEF Abandon, Goto
  <2>1. StaleInv'
    OBVIOUS
  <2>2. RecoveryInv'
    OBVIOUS
  <2>3. LockOfHolderStays'
    OBVIOUS
  <2> QED BY <2>1, <2>2, <2>3
<1>12. ASSUME NEW p \in Procs, Decide(p)
  PROVE StaleInv' /\ RecoveryInv' /\ LockOfHolderStays'
  <2> USE <1>12 DEF Decide, Goto
  <2>1. StaleInv'
    OBVIOUS
  <2>2. RecoveryInv'
    OBVIOUS
  <2>3. LockOfHolderStays'
    OBVIOUS
  <2> QED BY <2>1, <2>2, <2>3
<1>13. ASSUME NEW p \in Procs, Capture(p)
  PROVE StaleInv' /\ RecoveryInv' /\ LockOfHolderStays'
  <2> USE <1>13 DEF Capture, Goto
  <2>1. StaleInv'
    OBVIOUS
  <2>2. RecoveryInv'
    OBVIOUS
  <2>3. LockOfHolderStays'
    OBVIOUS
  <2> QED BY <2>1, <2>2, <2>3
<1>14. ASSUME NEW p \in Procs, Rename(p)
  PROVE StaleInv' /\ RecoveryInv' /\ LockOfHolderStays'
  <2> USE <1>14 DEF Rename, Goto
  <2>1. StaleInv'
    OBVIOUS
  <2>2. RecoveryInv'
    OBVIOUS
  <2>3. LockOfHolderStays'
    OBVIOUS
  <2> QED BY <2>1, <2>2, <2>3
<1>15. ASSUME NEW p \in Procs, RenameFails(p)
  PROVE StaleInv' /\ RecoveryInv' /\ LockOfHolderStays'
  <2> USE <1>15 DEF RenameFails, Goto
  <2>1. StaleInv'
    OBVIOUS
  <2>2. RecoveryInv'
    OBVIOUS
  <2>3. LockOfHolderStays'
    OBVIOUS
  <2> QED BY <2>1, <2>2, <2>3
<1>16. ASSUME NEW p \in Procs, Confirm(p)
  PROVE StaleInv' /\ RecoveryInv' /\ LockOfHolderStays'
  <2> USE <1>16 DEF Confirm, Goto
  <2>1. StaleInv'
    OBVIOUS
  <2>2. RecoveryInv'
    OBVIOUS
  <2>3. LockOfHolderStays'
    OBVIOUS
  <2> QED BY <2>1, <2>2, <2>3
<1>17. ASSUME NEW p \in Procs, Readback(p)
  PROVE StaleInv' /\ RecoveryInv' /\ LockOfHolderStays'
  <2> USE <1>17 DEF Readback, Goto
  <2>1. StaleInv'
    OBVIOUS
  <2>2. RecoveryInv'
    OBVIOUS
  <2>3. LockOfHolderStays'
    OBVIOUS
  <2> QED BY <2>1, <2>2, <2>3
<1>18. ASSUME NEW p \in Procs, Release(p)
  PROVE StaleInv' /\ RecoveryInv' /\ LockOfHolderStays'
  <2> USE <1>18 DEF Release, Finish, Goto
  <2>1. StaleInv'
    OBVIOUS
  <2>2. RecoveryInv'
    OBVIOUS
  <2>3. LockOfHolderStays'
    OBVIOUS
  <2> QED BY <2>1, <2>2, <2>3
<1>19. ASSUME NEW p \in Procs, ReleaseFails(p)
  PROVE StaleInv' /\ RecoveryInv' /\ LockOfHolderStays'
  <2> USE <1>19 DEF ReleaseFails, Finish, Goto
  <2>1. StaleInv'
    OBVIOUS
  <2>2. RecoveryInv'
    OBVIOUS
  <2>3. LockOfHolderStays'
    OBVIOUS
  <2> QED BY <2>1, <2>2, <2>3
<1>20. ASSUME NEW p \in Procs, Crash(p)
  PROVE StaleInv' /\ RecoveryInv' /\ LockOfHolderStays'
  <2> USE <1>20 DEF Crash, Goto
  <2>1. StaleInv'
    OBVIOUS
  <2>2. RecoveryInv'
    OBVIOUS
  <2>3. LockOfHolderStays'
    OBVIOUS
  <2> QED BY <2>1, <2>2, <2>3
<1>21. ASSUME NEW p \in Procs, Exit(p)
  PROVE StaleInv' /\ RecoveryInv' /\ LockOfHolderStays'
  <2> USE <1>21 DEF Exit
  <2>1. StaleInv'
    OBVIOUS
  <2>2. RecoveryInv'
    OBVIOUS
  <2>3. LockOfHolderStays'
    OBVIOUS
  <2> QED BY <2>1, <2>2, <2>3
<1>22. ASSUME NEW p \in Procs, RecyclePid(p)
  PROVE StaleInv' /\ RecoveryInv' /\ LockOfHolderStays'
  <2> USE <1>22 DEF RecyclePid
  <2>1. StaleInv'
    OBVIOUS
  <2>2. RecoveryInv'
    OBVIOUS
  <2>3. LockOfHolderStays'
    OBVIOUS
  <2> QED BY <2>1, <2>2, <2>3
<1>23. ASSUME NEW p \in Procs, GrowOld(p)
  PROVE StaleInv' /\ RecoveryInv' /\ LockOfHolderStays'
  <2> USE <1>23 DEF GrowOld
  <2>1. StaleInv'
    OBVIOUS
  <2>2. RecoveryInv'
    OBVIOUS
  <2>3. LockOfHolderStays'
    OBVIOUS
  <2> QED BY <2>1, <2>2, <2>3
<1>24. CASE UNCHANGED vars
  BY <1>24 DEF vars
<1>25. QED
  BY <1>1, <1>2, <1>3, <1>4, <1>5, <1>6, <1>7, <1>8, <1>9, <1>10, <1>11, <1>12, <1>13, <1>14, <1>15, <1>16, <1>17, <1>18, <1>19, <1>20, <1>21, <1>22, <1>23, <1>24 DEF Next, Step, Environment

\* The lock is safe: the inductive invariant LockInv holds in every state.
THEOREM LockSafe ==
  ASSUME SoloRecovery
  PROVE  Spec => []LockInv
<1>1. LockInv /\ [Next]_vars => LockInv'
  <2> SUFFICES ASSUME LockInv, [Next]_vars PROVE LockInv'
    OBVIOUS
  <2>1. TypeOK' /\ AttemptsInv'
    BY TypeStep DEF LockInv
  <2>2. Shape
    BY DEF LockInv, TypeOK, LockTypeOK, ControlTypeOK, AcquireTypeOK, Shape
  <2>3. StaleInv' /\ RecoveryInv' /\ LockOfHolderStays'
    BY <2>2, SafeStep DEF LockInv
  <2> QED BY <2>1, <2>3 DEF LockInv
<1> QED BY <1>1, InitLockInv, PTL DEF Spec

\* Every variable keeps the type its comment gives it.
THEOREM TypeCorrect ==
  ASSUME SoloRecovery
  PROVE  Spec => []TypeOK
<1>1. LockInv => TypeOK
  BY DEF LockInv
<1> QED BY <1>1, LockSafe, PTL

\* recoverStaleLock and the releases never delete the lock of a process that
\* still works under it.
THEOREM HolderKeepsItsLock ==
  ASSUME SoloRecovery
  PROVE  Spec => []LockOfHolderStays
<1>1. LockInv => LockOfHolderStays
  BY DEF LockInv
<1> QED BY <1>1, LockSafe, PTL

\* withExclusiveSecureFile is exclusive: at most one process is between taking
\* the lock and releasing it.
THEOREM Exclusive ==
  ASSUME SoloRecovery
  PROVE  Spec => []MutualExclusion
<1>1. LockInv => MutualExclusion
  BY DEF LockInv, LockOfHolderStays, MutualExclusion
<1> QED BY <1>1, LockSafe, PTL

-----------------------------------------------------------------------------
(* Linearizability.  Until a process renames, the document does not hold   *)
(* its change; between its read and its rename nobody else changes the     *)
(* document; and what it is about to report agrees with the document.      *)

Unpublished == {"start", "validate", "create", "inspect", "record", "read", "decide",
                "capture", "rename"} \cup Recovering

Audit == document.content.audit

FreshInv == \A p \in Procs : pc[p] \in Unpublished
                               => p \notin Audit /\ status[p] = "not-published"

CurrentInv == \A p \in Procs : pc[p] \in {"decide", "capture", "rename"}
                                 => prior[p] = document.content

DecidedInv == \A p \in Procs : pc[p] \in {"capture", "rename"}
                                 => verdict[p] = Doc!Verdict(prior[p])

PriorInv == \A p \in Procs : pc[p] \in {"decide", "capture", "rename", "confirm", "readback"}
                               => p \notin prior[p].audit

ReportInv ==
  \A p \in Procs :
    /\ pc[p] = "confirm"  => p \in Audit /\ status[p] = "not-published"
    /\ pc[p] = "readback" => status[p] = "not-published"
    /\ pc[p] = "release"  => /\ status[p] = "published" => p \in Audit
                             /\ status[p] = "not-published" => p \notin Audit

AnswerInv ==
  \A p \in Procs :
    /\ pc[p] # "done" => outcome[p] = "none"
    /\ outcome[p] = "published" => p \in Audit
    /\ outcome[p] \in {"busy", "failed", "not-published"} => p \notin Audit

LinearInv == FreshInv /\ CurrentInv /\ DecidedInv /\ PriorInv /\ ReportInv /\ AnswerInv

LEMMA InitLinearInv == Init => LinearInv
  BY DEF Init, LinearInv, FreshInv, CurrentInv, DecidedInv, PriorInv, ReportInv,
         AnswerInv, Audit, Doc!NewContent, Recovering

LEMMA LinearStep ==
  ASSUME TypeOK, LockOfHolderStays, LinearInv, [Next]_vars
  PROVE  LinearInv'
<1> USE DEF TypeOK, ControlTypeOK, DataTypeOK, ReportTypeOK, Contents, LinearInv,
            Audit, lockVars, procVars
<1>1. ASSUME NEW p \in Procs, Lookup(p) PROVE LinearInv'
  <2> USE <1>1 DEF Lookup, Goto
  <2>1. FreshInv'
    BY DEF FreshInv, Unpublished, Recovering
  <2>2. CurrentInv'
    BY DEF CurrentInv, LockOfHolderStays, Holding, Inside
  <2>3. DecidedInv'
    BY DEF DecidedInv
  <2>4. PriorInv'
    BY DEF PriorInv
  <2>5. ReportInv'
    BY DEF ReportInv, AnswerInv, FreshInv, Unpublished, Recovering, PriorInv
  <2>6. AnswerInv'
    BY DEF AnswerInv
  <2> QED BY <2>1, <2>2, <2>3, <2>4, <2>5, <2>6
<1>2. ASSUME NEW p \in Procs, Validate(p) PROVE LinearInv'
  <2> USE <1>2 DEF Validate, Goto, Finish
  <2>1. FreshInv'
    BY DEF FreshInv, Unpublished, Recovering
  <2>2. CurrentInv'
    BY DEF CurrentInv, LockOfHolderStays, Holding, Inside
  <2>3. DecidedInv'
    BY DEF DecidedInv
  <2>4. PriorInv'
    BY DEF PriorInv
  <2>5. ReportInv'
    BY DEF ReportInv, AnswerInv, FreshInv, Unpublished, Recovering, PriorInv
  <2>6. AnswerInv'
    BY DEF AnswerInv, FreshInv, Unpublished, Recovering
  <2> QED BY <2>1, <2>2, <2>3, <2>4, <2>5, <2>6
<1>3. ASSUME NEW p \in Procs, CreateLock(p) PROVE LinearInv'
  <2> USE <1>3 DEF CreateLock, Goto
  <2>1. FreshInv'
    BY DEF FreshInv, Unpublished, Recovering
  <2>2. CurrentInv'
    BY DEF CurrentInv, LockOfHolderStays, Holding, Inside
  <2>3. DecidedInv'
    BY DEF DecidedInv
  <2>4. PriorInv'
    BY DEF PriorInv
  <2>5. ReportInv'
    BY DEF ReportInv, AnswerInv, FreshInv, Unpublished, Recovering, PriorInv
  <2>6. AnswerInv'
    BY DEF AnswerInv
  <2> QED BY <2>1, <2>2, <2>3, <2>4, <2>5, <2>6
<1>4. ASSUME NEW p \in Procs, LockExists(p) PROVE LinearInv'
  <2> USE <1>4 DEF LockExists, Goto, Finish
  <2>1. FreshInv'
    BY DEF FreshInv, Unpublished, Recovering
  <2>2. CurrentInv'
    BY DEF CurrentInv, LockOfHolderStays, Holding, Inside
  <2>3. DecidedInv'
    BY DEF DecidedInv
  <2>4. PriorInv'
    BY DEF PriorInv
  <2>5. ReportInv'
    BY DEF ReportInv, AnswerInv, FreshInv, Unpublished, Recovering, PriorInv
  <2>6. AnswerInv'
    BY DEF AnswerInv, FreshInv, Unpublished, Recovering
  <2> QED BY <2>1, <2>2, <2>3, <2>4, <2>5, <2>6
<1>5. ASSUME NEW p \in Procs, WriteRecord(p) PROVE LinearInv'
  <2> USE <1>5 DEF WriteRecord, Goto
  <2>1. FreshInv'
    BY DEF FreshInv, Unpublished, Recovering
  <2>2. CurrentInv'
    BY DEF CurrentInv, LockOfHolderStays, Holding, Inside
  <2>3. DecidedInv'
    BY DEF DecidedInv
  <2>4. PriorInv'
    BY DEF PriorInv
  <2>5. ReportInv'
    BY DEF ReportInv, AnswerInv, FreshInv, Unpublished, Recovering, PriorInv
  <2>6. AnswerInv'
    BY DEF AnswerInv
  <2> QED BY <2>1, <2>2, <2>3, <2>4, <2>5, <2>6
<1>6. ASSUME NEW p \in Procs, RecordFails(p) PROVE LinearInv'
  <2> USE <1>6 DEF RecordFails, Finish, Goto
  <2>1. FreshInv'
    BY DEF FreshInv, Unpublished, Recovering
  <2>2. CurrentInv'
    BY DEF CurrentInv, LockOfHolderStays, Holding, Inside
  <2>3. DecidedInv'
    BY DEF DecidedInv
  <2>4. PriorInv'
    BY DEF PriorInv
  <2>5. ReportInv'
    BY DEF ReportInv, AnswerInv, FreshInv, Unpublished, Recovering, PriorInv
  <2>6. AnswerInv'
    BY DEF AnswerInv, FreshInv, Unpublished, Recovering
  <2> QED BY <2>1, <2>2, <2>3, <2>4, <2>5, <2>6
<1>7. ASSUME NEW p \in Procs, Inspect(p) PROVE LinearInv'
  <2> USE <1>7 DEF Inspect, Goto, Finish, Retry, Stale
  <2>1. FreshInv'
    BY DEF FreshInv, Unpublished, Recovering
  <2>2. CurrentInv'
    BY DEF CurrentInv, LockOfHolderStays, Holding, Inside
  <2>3. DecidedInv'
    BY DEF DecidedInv
  <2>4. PriorInv'
    BY DEF PriorInv
  <2>5. ReportInv'
    BY DEF ReportInv, AnswerInv, FreshInv, Unpublished, Recovering, PriorInv
  <2>6. AnswerInv'
    BY DEF AnswerInv, FreshInv, Unpublished, Recovering
  <2> QED BY <2>1, <2>2, <2>3, <2>4, <2>5, <2>6
<1>8. ASSUME NEW p \in Procs, CheckIdentity(p) PROVE LinearInv'
  <2> USE <1>8 DEF CheckIdentity, Goto, Finish
  <2>1. FreshInv'
    BY DEF FreshInv, Unpublished, Recovering
  <2>2. CurrentInv'
    BY DEF CurrentInv, LockOfHolderStays, Holding, Inside
  <2>3. DecidedInv'
    BY DEF DecidedInv
  <2>4. PriorInv'
    BY DEF PriorInv
  <2>5. ReportInv'
    BY DEF ReportInv, AnswerInv, FreshInv, Unpublished, Recovering, PriorInv
  <2>6. AnswerInv'
    BY DEF AnswerInv, FreshInv, Unpublished, Recovering
  <2> QED BY <2>1, <2>2, <2>3, <2>4, <2>5, <2>6
<1>9. ASSUME NEW p \in Procs, UnlinkStale(p) PROVE LinearInv'
  <2> USE <1>9 DEF UnlinkStale, Retry, Goto
  <2>1. FreshInv'
    BY DEF FreshInv, Unpublished, Recovering
  <2>2. CurrentInv'
    BY DEF CurrentInv, LockOfHolderStays, Holding, Inside
  <2>3. DecidedInv'
    BY DEF DecidedInv
  <2>4. PriorInv'
    BY DEF PriorInv
  <2>5. ReportInv'
    BY DEF ReportInv, AnswerInv, FreshInv, Unpublished, Recovering, PriorInv
  <2>6. AnswerInv'
    BY DEF AnswerInv
  <2> QED BY <2>1, <2>2, <2>3, <2>4, <2>5, <2>6
<1>10. ASSUME NEW p \in Procs, Read(p) PROVE LinearInv'
  <2> USE <1>10 DEF Read, Goto
  <2>1. FreshInv'
    BY DEF FreshInv, Unpublished, Recovering
  <2>2. CurrentInv'
    BY DEF CurrentInv, LockOfHolderStays, Holding, Inside
  <2>3. DecidedInv'
    BY DEF DecidedInv
  <2>4. PriorInv'
    BY DEF PriorInv, FreshInv, Unpublished
  <2>5. ReportInv'
    BY DEF ReportInv, AnswerInv, FreshInv, Unpublished, Recovering, PriorInv
  <2>6. AnswerInv'
    BY DEF AnswerInv
  <2> QED BY <2>1, <2>2, <2>3, <2>4, <2>5, <2>6
<1>11. ASSUME NEW p \in Procs, Abandon(p) PROVE LinearInv'
  <2> USE <1>11 DEF Abandon, Goto
  <2>1. FreshInv'
    BY DEF FreshInv, Unpublished, Recovering
  <2>2. CurrentInv'
    BY DEF CurrentInv, LockOfHolderStays, Holding, Inside
  <2>3. DecidedInv'
    BY DEF DecidedInv
  <2>4. PriorInv'
    BY DEF PriorInv
  <2>5. ReportInv'
    BY DEF ReportInv, AnswerInv, FreshInv, Unpublished, Recovering, PriorInv
  <2>6. AnswerInv'
    BY DEF AnswerInv
  <2> QED BY <2>1, <2>2, <2>3, <2>4, <2>5, <2>6
<1>12. ASSUME NEW p \in Procs, Decide(p) PROVE LinearInv'
  <2> USE <1>12 DEF Decide, Goto
  <2>1. FreshInv'
    BY DEF FreshInv, Unpublished, Recovering
  <2>2. CurrentInv'
    BY DEF CurrentInv, LockOfHolderStays, Holding, Inside
  <2>3. DecidedInv'
    BY DEF DecidedInv, Doc!Verdict
  <2>4. PriorInv'
    BY DEF PriorInv
  <2>5. ReportInv'
    BY DEF ReportInv, AnswerInv, FreshInv, Unpublished, Recovering, PriorInv
  <2>6. AnswerInv'
    BY DEF AnswerInv
  <2> QED BY <2>1, <2>2, <2>3, <2>4, <2>5, <2>6
<1>13. ASSUME NEW p \in Procs, Capture(p) PROVE LinearInv'
  <2> USE <1>13 DEF Capture, Goto
  <2>1. FreshInv'
    BY DEF FreshInv, Unpublished, Recovering
  <2>2. CurrentInv'
    BY DEF CurrentInv, LockOfHolderStays, Holding, Inside
  <2>3. DecidedInv'
    BY DEF DecidedInv
  <2>4. PriorInv'
    BY DEF PriorInv
  <2>5. ReportInv'
    BY DEF ReportInv, AnswerInv, FreshInv, Unpublished, Recovering, PriorInv
  <2>6. AnswerInv'
    BY DEF AnswerInv
  <2> QED BY <2>1, <2>2, <2>3, <2>4, <2>5, <2>6
<1>14. ASSUME NEW p \in Procs, Rename(p) PROVE LinearInv'
  <2> USE <1>14 DEF Rename, Goto
  <2>0. Audit' = Audit \cup {p}
    BY DEF Doc!Consumed, CurrentInv
  <2>1. FreshInv'
    BY <2>0 DEF FreshInv, Unpublished, Recovering
  <2>2. CurrentInv'
    BY DEF CurrentInv, LockOfHolderStays, Holding, Inside, Doc!Consumed
  <2>3. DecidedInv'
    BY <2>0 DEF DecidedInv
  <2>4. PriorInv'
    BY <2>0 DEF PriorInv
  <2>5. ReportInv'
    BY <2>0 DEF ReportInv, AnswerInv, FreshInv, Unpublished, Recovering, PriorInv
  <2>6. AnswerInv'
    BY <2>0 DEF AnswerInv
  <2> QED BY <2>1, <2>2, <2>3, <2>4, <2>5, <2>6
<1>15. ASSUME NEW p \in Procs, RenameFails(p) PROVE LinearInv'
  <2> USE <1>15 DEF RenameFails, Goto
  <2>1. FreshInv'
    BY DEF FreshInv, Unpublished, Recovering
  <2>2. CurrentInv'
    BY DEF CurrentInv, LockOfHolderStays, Holding, Inside
  <2>3. DecidedInv'
    BY DEF DecidedInv
  <2>4. PriorInv'
    BY DEF PriorInv
  <2>5. ReportInv'
    BY DEF ReportInv, AnswerInv, FreshInv, Unpublished, Recovering, PriorInv
  <2>6. AnswerInv'
    BY DEF AnswerInv
  <2> QED BY <2>1, <2>2, <2>3, <2>4, <2>5, <2>6
<1>16. ASSUME NEW p \in Procs, Confirm(p) PROVE LinearInv'
  <2> USE <1>16 DEF Confirm, Goto
  <2>1. FreshInv'
    BY DEF FreshInv, Unpublished, Recovering
  <2>2. CurrentInv'
    BY DEF CurrentInv, LockOfHolderStays, Holding, Inside
  <2>3. DecidedInv'
    BY DEF DecidedInv
  <2>4. PriorInv'
    BY DEF PriorInv
  <2>5. ReportInv'
    BY DEF ReportInv, AnswerInv, FreshInv, Unpublished, Recovering, PriorInv
  <2>6. AnswerInv'
    BY DEF AnswerInv
  <2> QED BY <2>1, <2>2, <2>3, <2>4, <2>5, <2>6
<1>17. ASSUME NEW p \in Procs, Readback(p) PROVE LinearInv'
  <2> USE <1>17 DEF Readback, Goto
  <2>1. FreshInv'
    BY DEF FreshInv, Unpublished, Recovering
  <2>2. CurrentInv'
    BY DEF CurrentInv, LockOfHolderStays, Holding, Inside
  <2>3. DecidedInv'
    BY DEF DecidedInv
  <2>4. PriorInv'
    BY DEF PriorInv
  <2>5. ReportInv'
    BY DEF ReportInv, AnswerInv, FreshInv, Unpublished, Recovering, PriorInv
  <2>6. AnswerInv'
    BY DEF AnswerInv
  <2> QED BY <2>1, <2>2, <2>3, <2>4, <2>5, <2>6
<1>18. ASSUME NEW p \in Procs, Release(p) PROVE LinearInv'
  <2> USE <1>18 DEF Release, Finish, Goto
  <2>1. FreshInv'
    BY DEF FreshInv, Unpublished, Recovering
  <2>2. CurrentInv'
    BY DEF CurrentInv, LockOfHolderStays, Holding, Inside
  <2>3. DecidedInv'
    BY DEF DecidedInv
  <2>4. PriorInv'
    BY DEF PriorInv
  <2>5. ReportInv'
    BY DEF ReportInv, AnswerInv, FreshInv, Unpublished, Recovering, PriorInv
  <2>6. AnswerInv'
    BY DEF AnswerInv, FreshInv, Unpublished, Recovering, ReportInv
  <2> QED BY <2>1, <2>2, <2>3, <2>4, <2>5, <2>6
<1>19. ASSUME NEW p \in Procs, ReleaseFails(p) PROVE LinearInv'
  <2> USE <1>19 DEF ReleaseFails, Finish, Goto
  <2>1. FreshInv'
    BY DEF FreshInv, Unpublished, Recovering
  <2>2. CurrentInv'
    BY DEF CurrentInv, LockOfHolderStays, Holding, Inside
  <2>3. DecidedInv'
    BY DEF DecidedInv
  <2>4. PriorInv'
    BY DEF PriorInv
  <2>5. ReportInv'
    BY DEF ReportInv, AnswerInv, FreshInv, Unpublished, Recovering, PriorInv
  <2>6. AnswerInv'
    BY DEF AnswerInv, FreshInv, Unpublished, Recovering, ReportInv
  <2> QED BY <2>1, <2>2, <2>3, <2>4, <2>5, <2>6
<1>20. ASSUME NEW p \in Procs, Crash(p) PROVE LinearInv'
  <2> USE <1>20 DEF Crash, Goto
  <2>1. FreshInv'
    BY DEF FreshInv, Unpublished, Recovering
  <2>2. CurrentInv'
    BY DEF CurrentInv, LockOfHolderStays, Holding, Inside
  <2>3. DecidedInv'
    BY DEF DecidedInv
  <2>4. PriorInv'
    BY DEF PriorInv
  <2>5. ReportInv'
    BY DEF ReportInv, AnswerInv, FreshInv, Unpublished, Recovering, PriorInv
  <2>6. AnswerInv'
    BY DEF AnswerInv, Settled
  <2> QED BY <2>1, <2>2, <2>3, <2>4, <2>5, <2>6
<1>21. ASSUME NEW p \in Procs, Exit(p) PROVE LinearInv'
  <2> USE <1>21 DEF Exit
  <2>1. FreshInv'
    BY DEF FreshInv, Unpublished, Recovering
  <2>2. CurrentInv'
    BY DEF CurrentInv, LockOfHolderStays, Holding, Inside
  <2>3. DecidedInv'
    BY DEF DecidedInv
  <2>4. PriorInv'
    BY DEF PriorInv
  <2>5. ReportInv'
    BY DEF ReportInv, AnswerInv, FreshInv, Unpublished, Recovering, PriorInv
  <2>6. AnswerInv'
    BY DEF AnswerInv
  <2> QED BY <2>1, <2>2, <2>3, <2>4, <2>5, <2>6
<1>22. ASSUME NEW p \in Procs, RecyclePid(p) PROVE LinearInv'
  <2> USE <1>22 DEF RecyclePid
  <2>1. FreshInv'
    BY DEF FreshInv, Unpublished, Recovering
  <2>2. CurrentInv'
    BY DEF CurrentInv, LockOfHolderStays, Holding, Inside
  <2>3. DecidedInv'
    BY DEF DecidedInv
  <2>4. PriorInv'
    BY DEF PriorInv
  <2>5. ReportInv'
    BY DEF ReportInv, AnswerInv, FreshInv, Unpublished, Recovering, PriorInv
  <2>6. AnswerInv'
    BY DEF AnswerInv
  <2> QED BY <2>1, <2>2, <2>3, <2>4, <2>5, <2>6
<1>23. ASSUME NEW p \in Procs, GrowOld(p) PROVE LinearInv'
  <2> USE <1>23 DEF GrowOld
  <2>1. FreshInv'
    BY DEF FreshInv, Unpublished, Recovering
  <2>2. CurrentInv'
    BY DEF CurrentInv, LockOfHolderStays, Holding, Inside
  <2>3. DecidedInv'
    BY DEF DecidedInv
  <2>4. PriorInv'
    BY DEF PriorInv
  <2>5. ReportInv'
    BY DEF ReportInv, AnswerInv, FreshInv, Unpublished, Recovering, PriorInv
  <2>6. AnswerInv'
    BY DEF AnswerInv
  <2> QED BY <2>1, <2>2, <2>3, <2>4, <2>5, <2>6
<1>24. CASE UNCHANGED vars
  BY <1>24 DEF vars, FreshInv, CurrentInv, DecidedInv, PriorInv, ReportInv, AnswerInv
<1>25. QED
  BY <1>1, <1>2, <1>3, <1>4, <1>5, <1>6, <1>7, <1>8, <1>9, <1>10, <1>11, <1>12, <1>13, <1>14, <1>15, <1>16, <1>17, <1>18, <1>19, <1>20, <1>21, <1>22, <1>23, <1>24 DEF Next, Step, Environment

THEOREM LinearSafe ==
  ASSUME SoloRecovery
  PROVE  Spec => [](LockInv /\ LinearInv)
<1>1. LockInv /\ LinearInv /\ [Next]_vars => LinearInv'
  BY LinearStep DEF LockInv
<1> QED BY <1>1, LockSafe, InitLinearInv, PTL DEF Spec

\* A transition whose caller was told "published" is never overwritten by a
\* later one (transitionProtectedJsonDocumentWithPublicationStatus).
THEOREM PublishedStays ==
  ASSUME SoloRecovery
  PROVE  Spec => []NoLostUpdate
<1>1. LinearInv => NoLostUpdate
  BY DEF LinearInv, AnswerInv, NoLostUpdate, Audit
<1> QED BY <1>1, LinearSafe, PTL

\* A caller that was told "busy", "failed" or "not-published" can rely on it.
THEOREM FailureIsProof ==
  ASSUME SoloRecovery
  PROVE  Spec => []FailureProvesNoWrite
<1>1. LinearInv => FailureProvesNoWrite
  BY DEF LinearInv, AnswerInv, FailureProvesNoWrite, Audit
<1> QED BY <1>1, LinearSafe, PTL

-----------------------------------------------------------------------------
(* Refinement of AtomicDocument: Rename is the abstract Commit, and ending *)
(* an invocation is the abstract Answer.                                   *)

AbstractVerdict == [p \in Procs |-> IF p \in Audit THEN verdict[p] ELSE "none"]

AbstractAnswer == [p \in Procs |->
                     CASE outcome[p] = "published" -> "committed"
                       [] outcome[p] = "uncertain" -> "unknown"
                       [] outcome[p] = "none"      -> "none"
                       [] OTHER                    -> "refused"]

LEMMA InitRefines == Init => Doc!Init
<1> SUFFICES ASSUME Init PROVE Doc!Init
  OBVIOUS
<1>1. document.content = Doc!NewContent
  BY DEF Init
<1>2. AbstractVerdict = [p \in Procs |-> "none"]
  BY <1>1 DEF AbstractVerdict, Audit, Doc!NewContent
<1>3. AbstractAnswer = [p \in Procs |-> "none"]
  BY DEF Init, AbstractAnswer
<1> QED
  BY <1>1, <1>2, <1>3
  DEF Doc!Init, Doc!NoVerdict, Doc!NoAnswer, AbstractVerdict, AbstractAnswer, Audit

\* A step that publishes nothing and answers nobody is invisible.
LEMMA Invisible ==
  ASSUME UNCHANGED <<document, outcome>>,
         \A p \in Procs : p \in Audit => verdict'[p] = verdict[p]
  PROVE  UNCHANGED Doc!vars
<1>1. AbstractVerdict' = AbstractVerdict
  BY DEF AbstractVerdict, Audit
<1>2. AbstractAnswer' = AbstractAnswer
  BY DEF AbstractAnswer
<1> QED BY <1>1, <1>2 DEF Doc!vars, AbstractVerdict, AbstractAnswer, Audit

\* Ending an invocation with a result that agrees with the document.
LEMMA Answering ==
  ASSUME TypeOK, NEW p \in Procs, NEW result \in Outcomes \ {"none"},
         UNCHANGED <<document, verdict>>,
         outcome[p] = "none", outcome' = [outcome EXCEPT ![p] = result],
         result = "published" => p \in Audit,
         result \in {"busy", "failed", "not-published"} => p \notin Audit
  PROVE  Doc!Answer(p)
<1> DEFINE told == CASE result = "published" -> "committed"
                     [] result = "uncertain" -> "unknown"
                     [] OTHER                -> "refused"
<1>1. outcome \in [Procs -> Outcomes]
  BY DEF TypeOK, ControlTypeOK
<1>2. /\ told \in {"committed", "refused", "unknown"}
      /\ told = "committed" => p \in Audit
      /\ told = "refused" => p \notin Audit
  BY DEF Outcomes
<1>3. AbstractAnswer' = [AbstractAnswer EXCEPT ![p] = told]
  <2>1. \A q \in Procs : q # p => outcome'[q] = outcome[q]
    BY <1>1
  <2>2. outcome'[p] = result /\ result # "none"
    BY <1>1
  <2> QED BY <2>1, <2>2 DEF AbstractAnswer
<1>4. AbstractAnswer[p] = "none"
  BY DEF AbstractAnswer
<1>5. UNCHANGED <<document.content, AbstractVerdict>>
  BY DEF AbstractVerdict, Audit
<1> QED
  BY <1>2, <1>3, <1>4, <1>5
  DEF Doc!Answer, Doc!Answers, Doc!NoAnswer, AbstractAnswer, AbstractVerdict, Audit

\* The rename is where the operation takes effect.
LEMMA Committing ==
  ASSUME TypeOK, LinearInv, NEW p \in Procs, Rename(p)
  PROVE  Doc!Commit(p)
<1> USE DEF Rename, procVars
<1>1. /\ p \notin Audit
      /\ document.content = prior[p]
      /\ verdict[p] = Doc!Verdict(document.content)
      /\ outcome[p] = "none"
  BY DEF LinearInv, FreshInv, CurrentInv, DecidedInv, AnswerInv, Unpublished
<1>2. document'.content = Doc!Consumed(document.content, p)
  BY <1>1
<1>3. Audit' = Audit \cup {p}
  BY <1>2 DEF Audit, Doc!Consumed
<1>4. AbstractVerdict' = [AbstractVerdict EXCEPT ![p] = Doc!Verdict(document.content)]
  BY <1>1, <1>3 DEF AbstractVerdict
<1>5. AbstractAnswer' = AbstractAnswer /\ AbstractAnswer[p] = "none"
  BY <1>1 DEF AbstractAnswer
<1> QED
  BY <1>1, <1>2, <1>4, <1>5
  DEF Doc!Commit, Doc!NoAnswer, AbstractAnswer, AbstractVerdict, Audit

LEMMA NextRefines ==
  ASSUME LockInv, LinearInv, [Next]_vars
  PROVE  Doc!Next \/ UNCHANGED Doc!vars
<1> USE DEF LinearInv, AnswerInv, lockVars, procVars
<1>1. TypeOK
  BY DEF LockInv
<1>2. \A p \in Procs : Doc!Answer(p) \/ Doc!Commit(p) => Doc!Next
  BY DEF Doc!Next
<1>3. ASSUME NEW p \in Procs, Lookup(p) PROVE Doc!Next \/ UNCHANGED Doc!vars
  BY <1>3, Invisible DEF Lookup
<1>4. ASSUME NEW p \in Procs, Validate(p) PROVE Doc!Next \/ UNCHANGED Doc!vars
  <2>1. outcome[p] = "none" /\ p \notin Audit
    BY <1>4 DEF Validate, FreshInv, Unpublished, Recovering
  <2>2. CASE Finish(p, "failed")
    BY <1>1, <1>2, <1>4, <2>1, <2>2, Answering DEF Validate, Finish, Outcomes
  <2>3. CASE UNCHANGED outcome
    BY <1>4, <2>3, Invisible DEF Validate
  <2> QED BY <1>4, <2>2, <2>3 DEF Validate
<1>5. ASSUME NEW p \in Procs, CreateLock(p) PROVE Doc!Next \/ UNCHANGED Doc!vars
  BY <1>5, Invisible DEF CreateLock
<1>6. ASSUME NEW p \in Procs, LockExists(p) PROVE Doc!Next \/ UNCHANGED Doc!vars
  <2>1. outcome[p] = "none" /\ p \notin Audit
    BY <1>6 DEF LockExists, FreshInv, Unpublished, Recovering
  <2>2. CASE Finish(p, "busy")
    BY <1>1, <1>2, <1>6, <2>1, <2>2, Answering DEF LockExists, Finish, Outcomes
  <2>3. CASE UNCHANGED outcome
    BY <1>6, <2>3, Invisible DEF LockExists
  <2> QED BY <1>6, <2>2, <2>3 DEF LockExists
<1>7. ASSUME NEW p \in Procs, WriteRecord(p) PROVE Doc!Next \/ UNCHANGED Doc!vars
  BY <1>7, Invisible DEF WriteRecord
<1>8. ASSUME NEW p \in Procs, RecordFails(p) PROVE Doc!Next \/ UNCHANGED Doc!vars
  <2>1. outcome[p] = "none" /\ p \notin Audit
    BY <1>8 DEF RecordFails, FreshInv, Unpublished, Recovering
  <2> QED BY <1>1, <1>2, <1>8, <2>1, Answering DEF RecordFails, Finish, Outcomes
<1>9. ASSUME NEW p \in Procs, Inspect(p) PROVE Doc!Next \/ UNCHANGED Doc!vars
  <2>1. outcome[p] = "none" /\ p \notin Audit
    BY <1>9 DEF Inspect, FreshInv, Unpublished, Recovering
  <2>2. CASE Finish(p, "busy")
    BY <1>1, <1>2, <1>9, <2>1, <2>2, Answering DEF Inspect, Finish, Outcomes
  <2>3. CASE UNCHANGED outcome
    BY <1>9, <2>3, Invisible DEF Inspect
  <2> QED BY <1>9, <2>2, <2>3 DEF Inspect
<1>10. ASSUME NEW p \in Procs, CheckIdentity(p) PROVE Doc!Next \/ UNCHANGED Doc!vars
  <2>1. outcome[p] = "none" /\ p \notin Audit
    BY <1>10 DEF CheckIdentity, FreshInv, Unpublished, Recovering
  <2>2. CASE Finish(p, "busy")
    BY <1>1, <1>2, <1>10, <2>1, <2>2, Answering DEF CheckIdentity, Finish, Outcomes
  <2>3. CASE UNCHANGED outcome
    BY <1>10, <2>3, Invisible DEF CheckIdentity
  <2> QED BY <1>10, <2>2, <2>3 DEF CheckIdentity
<1>11. ASSUME NEW p \in Procs, UnlinkStale(p) PROVE Doc!Next \/ UNCHANGED Doc!vars
  BY <1>11, Invisible DEF UnlinkStale
<1>12. ASSUME NEW p \in Procs, Read(p) PROVE Doc!Next \/ UNCHANGED Doc!vars
  BY <1>12, Invisible DEF Read
<1>13. ASSUME NEW p \in Procs, Abandon(p) PROVE Doc!Next \/ UNCHANGED Doc!vars
  BY <1>13, Invisible DEF Abandon
<1>14. ASSUME NEW p \in Procs, Decide(p) PROVE Doc!Next \/ UNCHANGED Doc!vars
  <2>1. p \notin Audit
    BY <1>14 DEF Decide, FreshInv, Unpublished
  <2>2. \A q \in Procs : q # p => verdict'[q] = verdict[q]
    BY <1>1, <1>14 DEF Decide, TypeOK, ReportTypeOK
  <2> QED BY <1>14, <2>1, <2>2, Invisible DEF Decide
<1>15. ASSUME NEW p \in Procs, Capture(p) PROVE Doc!Next \/ UNCHANGED Doc!vars
  BY <1>15, Invisible DEF Capture
<1>16. ASSUME NEW p \in Procs, Rename(p) PROVE Doc!Next \/ UNCHANGED Doc!vars
  BY <1>1, <1>2, <1>16, Committing
<1>17. ASSUME NEW p \in Procs, RenameFails(p) PROVE Doc!Next \/ UNCHANGED Doc!vars
  BY <1>17, Invisible DEF RenameFails
<1>18. ASSUME NEW p \in Procs, Confirm(p) PROVE Doc!Next \/ UNCHANGED Doc!vars
  BY <1>18, Invisible DEF Confirm
<1>19. ASSUME NEW p \in Procs, Readback(p) PROVE Doc!Next \/ UNCHANGED Doc!vars
  BY <1>19, Invisible DEF Readback
<1>20. ASSUME NEW p \in Procs, Release(p) PROVE Doc!Next \/ UNCHANGED Doc!vars
  <2> DEFINE result == status[p]
  <2>1. /\ outcome[p] = "none"
        /\ result \in Outcomes \ {"none"}
        /\ result = "published" => p \in Audit
        /\ result \in {"busy", "failed", "not-published"} => p \notin Audit
    BY <1>1, <1>20 DEF Release, ReportInv, TypeOK, ReportTypeOK, Outcomes
  <2>2. UNCHANGED <<document, verdict>> /\ outcome' = [outcome EXCEPT ![p] = result]
    BY <1>20 DEF Release, Finish
  <2> QED BY <1>1, <1>2, <2>1, <2>2, Answering
<1>21. ASSUME NEW p \in Procs, ReleaseFails(p) PROVE Doc!Next \/ UNCHANGED Doc!vars
  <2> DEFINE result == IF status[p] = "published" THEN "uncertain" ELSE status[p]
  <2>1. /\ outcome[p] = "none"
        /\ result \in Outcomes \ {"none"}
        /\ result = "published" => p \in Audit
        /\ result \in {"busy", "failed", "not-published"} => p \notin Audit
    BY <1>1, <1>21 DEF ReleaseFails, ReportInv, TypeOK, ReportTypeOK, Outcomes
  <2>2. UNCHANGED <<document, verdict>> /\ outcome' = [outcome EXCEPT ![p] = result]
    BY <1>21 DEF ReleaseFails, Finish
  <2> QED BY <1>1, <1>2, <2>1, <2>2, Answering
<1>22. ASSUME NEW p \in Procs, Crash(p) PROVE Doc!Next \/ UNCHANGED Doc!vars
  BY <1>22, Invisible DEF Crash
<1>23. ASSUME NEW p \in Procs, Exit(p) PROVE Doc!Next \/ UNCHANGED Doc!vars
  BY <1>23, Invisible DEF Exit
<1>24. ASSUME NEW p \in Procs, RecyclePid(p) PROVE Doc!Next \/ UNCHANGED Doc!vars
  BY <1>24, Invisible DEF RecyclePid
<1>25. ASSUME NEW p \in Procs, GrowOld(p) PROVE Doc!Next \/ UNCHANGED Doc!vars
  BY <1>25, Invisible DEF GrowOld
<1>26. CASE UNCHANGED vars
  BY <1>26, Invisible DEF vars
<1> QED
  BY <1>3, <1>4, <1>5, <1>6, <1>7, <1>8, <1>9, <1>10, <1>11, <1>12, <1>13, <1>14, <1>15, <1>16, <1>17, <1>18, <1>19, <1>20, <1>21, <1>22, <1>23, <1>24, <1>25, <1>26 DEF Next, Step, Environment

\* The transitions of all processes together behave as one document that every
\* operation changes in a single step, and every answer agrees with it.
THEOREM Refinement ==
  ASSUME SoloRecovery
  PROVE  Spec => Linearizable
<1>1. LockInv /\ LinearInv /\ [Next]_vars => [Doc!Next]_Doc!vars
  BY NextRefines
<1> QED BY <1>1, InitRefines, LinearSafe, PTL DEF Spec, Linearizable, Doc!Spec
=============================================================================
