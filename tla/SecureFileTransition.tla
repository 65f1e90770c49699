------------------------ MODULE SecureFileTransition ------------------------
(***************************************************************************)
(* One protected-document transition, as every process of the program runs *)
(* it: take the replacement lock file, read the document, let the callback *)
(* compute the next one, rename a temporary file over it, and release.     *)
(* A lock left behind by a process that died is recovered by the next      *)
(* process that finds it.                                                  *)
(*                                                                         *)
(* An element of Procs is one operating-system process that performs one   *)
(* transition (a CLI invocation).  It creates at most one lock file, so    *)
(* the process also names the inode of the lock file it created.           *)
(* POSIX only: the Windows displaced-file protocol is not modelled.        *)
(***************************************************************************)
EXTENDS Naturals, FiniteSets

CONSTANTS Procs,          \* the processes
          MaxUses,        \* the grant's maxUses
          MaxAttempts,    \* MAX_LOCK_ACQUISITION_ATTEMPTS
          MaxFaults,      \* bound: processes that die, or fail to unlink a lock
          SoloRecovery,   \* assumption: no two processes recover a lock at once
          NoLock,         \* the lock path names no file
          Original        \* the inode of the document before any transition

ASSUME MaxUsesAssumption == MaxUses \in Nat
ASSUME MaxAttemptsAssumption == MaxAttempts \in Nat \ {0}
ASSUME MaxFaultsAssumption == MaxFaults \in Nat
ASSUME SoloRecoveryAssumption == SoloRecovery \in BOOLEAN
ASSUME NullsAssumption == NoLock \notin Procs /\ Original \notin Procs

VARIABLES
  lockFile,   \* the inode the lock path names, or NoLock
  recorded,   \* the lock inodes whose owner record is readable
  age,        \* age[p]: how old the lock inode of p is
  live,       \* the pids that process.kill(pid, 0) finds
  document,   \* [ino, content]: the file the document path names
  pc,         \* pc[p]: the next step of p
  attempts,   \* attempts[p]: lock acquisition attempts of p so far
  seen,       \* seen[p]: the lock inode p judged stale
  prior,      \* prior[p]: the content p read under the lock
  expected,   \* expected[p]: the document inode p validated last
  verdict,    \* verdict[p]: what p's callback decided
  status,     \* status[p]: the publication status p will report
  outcome,    \* outcome[p]: what the caller of p was told
  faults      \* the number of faults so far

lockVars == <<lockFile, recorded, age, live>>
procVars == <<attempts, seen, prior, expected, verdict, status>>
vars == <<lockVars, document, pc, procVars, outcome, faults>>

Doc == INSTANCE AtomicDocument
         WITH content <- document.content,
              verdict <- [p \in Procs |-> IF p \in document.content.audit
                                          THEN verdict[p] ELSE "none"],
              answer  <- [p \in Procs |->
                            CASE outcome[p] = "published" -> "committed"
                              [] outcome[p] = "uncertain" -> "unknown"
                              [] outcome[p] = "none"      -> "none"
                              [] OTHER                    -> "refused"]

-----------------------------------------------------------------------------
\* "young": within LOCK_WRITE_GRACE_MS; "grace over": older than that;
\* "ancient": older than LOCK_OWNER_ABSOLUTE_STALE_MS.
Ages == {"young", "grace over", "ancient"}

Outcomes == {"none", "busy", "failed", "published", "not-published", "uncertain"}

Inside    == {"read", "decide", "capture", "rename", "confirm", "readback"}
Holding   == {"record", "release"} \cup Inside
Recovering == {"identity", "unlink"}
Settled   == {"done", "crashed"}
PCs == {"start", "validate", "create", "inspect"} \cup Holding \cup Recovering
         \cup Settled

Init == /\ lockFile = NoLock
        /\ recorded = {}
        /\ age      = [p \in Procs |-> "young"]
        /\ live     = Procs
        /\ document = [ino |-> Original, content |-> Doc!NewContent]
        /\ pc       = [p \in Procs |-> "start"]
        /\ attempts = [p \in Procs |-> 0]
        /\ seen     = [p \in Procs |-> NoLock]
        /\ prior    = [p \in Procs |-> Doc!NewContent]
        /\ expected = [p \in Procs |-> Original]
        /\ verdict  = [p \in Procs |-> "none"]
        /\ status   = [p \in Procs |-> "not-published"]
        /\ outcome  = [p \in Procs |-> "none"]
        /\ faults   = 0

Goto(p, label) == pc' = [pc EXCEPT ![p] = label]

Finish(p, result) == /\ Goto(p, "done")
                     /\ outcome' = [outcome EXCEPT ![p] = result]

-----------------------------------------------------------------------------
(* validateReplacementTarget before the lock is taken: the inode found by  *)
(* the first lstat must still be the one the path names at the end.        *)

Lookup(p) == /\ pc[p] = "start"
             /\ expected' = [expected EXCEPT ![p] = document.ino]
             /\ Goto(p, "validate")
             /\ UNCHANGED <<lockVars, document, attempts, seen, prior, verdict,
                            status, outcome, faults>>

Validate(p) == /\ pc[p] = "validate"
               /\ \/ /\ document.ino = expected[p]
                     /\ Goto(p, "create")
                     /\ UNCHANGED outcome
                  \/ /\ document.ino # expected[p]
                     /\ Finish(p, "failed")
               /\ UNCHANGED <<lockVars, document, procVars, faults>>

-----------------------------------------------------------------------------
(* acquireReplacementLock and createLockFile.                              *)

\* open(O_CREAT | O_EXCL) succeeds: the new lock is this process's inode.
CreateLock(p) == /\ pc[p] = "create"
                 /\ lockFile = NoLock
                 /\ lockFile' = p
                 /\ Goto(p, "record")
                 /\ UNCHANGED <<recorded, age, live, document, procVars, outcome,
                                faults>>

\* Mutants: the last attempt is not recognized; the lock is waited for.
LockExistsUnbounded(p) == /\ pc[p] = "create"
                          /\ lockFile # NoLock
                          /\ Goto(p, "inspect")
                          /\ UNCHANGED <<lockVars, document, procVars, outcome, faults>>
LockExistsWaits(p) == /\ pc[p] = "create"
                      /\ lockFile # NoLock
                      /\ UNCHANGED vars

\* EEXIST: look at the lock, unless this was the last attempt.
LockExists(p) == /\ pc[p] = "create"
                 /\ lockFile # NoLock
                 /\ \/ /\ attempts[p] + 1 < MaxAttempts
                       /\ Goto(p, "inspect")
                       /\ UNCHANGED outcome
                    \/ /\ attempts[p] + 1 >= MaxAttempts
                       /\ Finish(p, "busy")
                 /\ UNCHANGED <<lockVars, document, procVars, faults>>

\* The owner record reaches the lock inode, wherever the path points by now.
WriteRecord(p) == /\ pc[p] = "record"
                  /\ recorded' = recorded \cup {p}
                  /\ Goto(p, "read")
                  /\ UNCHANGED <<lockFile, age, live, document, procVars, outcome,
                                 faults>>

\* Writing the record fails: the path is unlinked, or that fails as well.
RecordFails(p) == /\ pc[p] = "record"
                  /\ \/ /\ lockFile' = NoLock
                        /\ UNCHANGED faults
                     \/ /\ faults < MaxFaults
                        /\ faults' = faults + 1
                        /\ UNCHANGED lockFile
                  /\ Finish(p, "failed")
                  /\ UNCHANGED <<recorded, age, live, document, procVars>>

-----------------------------------------------------------------------------
(* recoverStaleLock.                                                       *)

\* Mutant: a lock without an owner record is stale however young it is.
StaleWithoutGrace(l) == l \in recorded => l \notin live \/ age[l] = "ancient"

Stale(l) == IF l \in recorded THEN l \notin live \/ age[l] = "ancient"
                              ELSE age[l] # "young"

Retry(p) == /\ attempts' = [attempts EXCEPT ![p] = @ + 1]
            /\ Goto(p, "create")

\* open, stat and read of the lock file.  An absent lock means "try again".
Inspect(p) ==
  /\ pc[p] = "inspect"
  /\ SoloRecovery => \A q \in Procs : pc[q] \notin Recovering
  /\ \/ /\ lockFile = NoLock
        /\ Retry(p)
        /\ UNCHANGED <<seen, outcome>>
     \/ /\ lockFile # NoLock
        /\ Stale(lockFile)
        /\ seen' = [seen EXCEPT ![p] = lockFile]
        /\ Goto(p, "identity")
        /\ UNCHANGED <<attempts, outcome>>
     \/ /\ lockFile # NoLock
        /\ ~ Stale(lockFile)
        /\ Finish(p, "busy")
        /\ UNCHANGED <<attempts, seen>>
  /\ UNCHANGED <<lockVars, document, prior, expected, verdict, status, faults>>

\* lstat must still find the inode that was judged; its ENOENT means busy.
CheckIdentity(p) == /\ pc[p] = "identity"
                    /\ \/ /\ lockFile = seen[p]
                          /\ Goto(p, "unlink")
                          /\ UNCHANGED outcome
                       \/ /\ lockFile # seen[p]
                          /\ Finish(p, "busy")
                    /\ UNCHANGED <<lockVars, document, procVars, faults>>

\* unlink removes whatever the path names now; ENOENT counts as recovered.
UnlinkStale(p) == /\ pc[p] = "unlink"
                  /\ lockFile' = NoLock
                  /\ Retry(p)
                  /\ UNCHANGED <<recorded, age, live, document, seen, prior,
                                 expected, verdict, status, outcome, faults>>

-----------------------------------------------------------------------------
(* transitionProtectedJsonDocumentWithPublicationStatus under the lock.    *)

Read(p) == /\ pc[p] = "read"
           /\ prior' = [prior EXCEPT ![p] = document.content]
           /\ Goto(p, "decide")
           /\ UNCHANGED <<lockVars, document, attempts, seen, expected, verdict,
                          status, outcome, faults>>

\* The read or the callback throws: nothing is published.
Abandon(p) == /\ pc[p] \in {"read", "decide"}
              /\ Goto(p, "release")
              /\ UNCHANGED <<lockVars, document, procVars, outcome, faults>>

\* The callback, consumeGrantUse, decides on what was read.
Decide(p) == /\ pc[p] = "decide"
             /\ verdict' = [verdict EXCEPT ![p] = Doc!Verdict(prior[p])]
             /\ Goto(p, "capture")
             /\ UNCHANGED <<lockVars, document, attempts, seen, prior, expected,
                            status, outcome, faults>>

\* replaceSecureFileWhileExclusive validates the target only now: the inode
\* found here, not the one that was read, is the one rename may replace.
Capture(p) == /\ pc[p] = "capture"
              /\ \/ /\ expected' = [expected EXCEPT ![p] = document.ino]
                    /\ Goto(p, "rename")
                 \/ /\ Goto(p, "readback")   \* the temporary file cannot be written
                    /\ UNCHANGED expected
              /\ UNCHANGED <<lockVars, document, attempts, seen, prior, verdict,
                             status, outcome, faults>>

\* verifyPathStillNamesFile, then rename.
Rename(p) == /\ pc[p] = "rename"
             /\ document.ino = expected[p]
             /\ document' = [ino     |-> p,
                             content |-> Doc!Consumed(prior[p], p)]
             /\ Goto(p, "confirm")
             /\ UNCHANGED <<lockVars, procVars, outcome, faults>>

\* Mutant: the error of rename is swallowed.
RenameErrorSwallowed(p) == /\ pc[p] = "rename"
                           /\ status' = [status EXCEPT ![p] = "published"]
                           /\ Goto(p, "release")
                           /\ UNCHANGED <<lockVars, document, attempts, seen, prior,
                                          expected, verdict, outcome, faults>>

\* The path names another file by now, or rename itself fails.
RenameFails(p) == /\ pc[p] = "rename"
                  /\ Goto(p, "readback")
                  /\ UNCHANGED <<lockVars, document, procVars, outcome, faults>>

\* lstat, validateRegularFile and syncDirectory succeed, or one of them fails.
Confirm(p) == /\ pc[p] = "confirm"
              /\ \/ /\ status' = [status EXCEPT ![p] = "published"]
                    /\ Goto(p, "release")
                 \/ /\ Goto(p, "readback")
                    /\ UNCHANGED status
              /\ UNCHANGED <<lockVars, document, attempts, seen, prior, expected,
                             verdict, outcome, faults>>

\* readbackPublication: only the exact prior bytes prove that nothing was
\* published; an unreadable document proves nothing.
Readback(p) == /\ pc[p] = "readback"
               /\ \/ /\ document.content = prior[p]
                     /\ UNCHANGED status
                  \/ status' = [status EXCEPT ![p] = "uncertain"]
               /\ Goto(p, "release")
               /\ UNCHANGED <<lockVars, document, attempts, seen, prior, expected,
                              verdict, outcome, faults>>

\* withExclusiveSecureFile ends: removeIfPresent takes whatever file the lock
\* path names.
Release(p) == /\ pc[p] = "release"
              /\ lockFile' = NoLock
              /\ Finish(p, status[p])
              /\ UNCHANGED <<recorded, age, live, document, procVars, faults>>

-----------------------------------------------------------------------------
(* Faults and time.                                                        *)

\* The lock cannot be unlinked; a publication is then reported as uncertain.
ReleaseFails(p) == /\ pc[p] = "release"
                   /\ faults < MaxFaults
                   /\ faults' = faults + 1
                   /\ Finish(p, IF status[p] = "published" THEN "uncertain"
                                                           ELSE status[p])
                   /\ UNCHANGED <<lockVars, document, procVars>>

\* The process dies: it takes no further step and its pid disappears.
Crash(p) == /\ pc[p] \notin Settled
            /\ faults < MaxFaults
            /\ faults' = faults + 1
            /\ Goto(p, "crashed")
            /\ live' = live \ {p}
            /\ UNCHANGED <<lockFile, recorded, age, document, procVars, outcome>>

\* A finished invocation exits.
Exit(p) == /\ pc[p] = "done"
           /\ p \in live
           /\ live' = live \ {p}
           /\ UNCHANGED <<lockFile, recorded, age, document, pc, procVars, outcome,
                          faults>>

\* The operating system gives the pid of a dead process to an unrelated one.
RecyclePid(p) == /\ pc[p] \in Settled
                 /\ p \notin live
                 /\ live' = live \cup {p}
                 /\ UNCHANGED <<lockFile, recorded, age, document, pc, procVars,
                                outcome, faults>>

\* A lock nobody works under any more grows old.  A running transition is
\* over within the grace period: it waits for the file system only.
GrowOld(p) == /\ pc[p] \in Settled
              /\ lockFile = p
              /\ \/ /\ age[p] = "young"
                    /\ age' = [age EXCEPT ![p] = "grace over"]
                 \/ /\ age[p] = "grace over"
                    /\ age' = [age EXCEPT ![p] = "ancient"]
              /\ UNCHANGED <<lockFile, recorded, live, document, pc, procVars,
                             outcome, faults>>

-----------------------------------------------------------------------------
\* What a running process does next by itself.
Step(p) == \/ Lookup(p) \/ Validate(p)
           \/ CreateLock(p) \/ LockExists(p) \/ WriteRecord(p) \/ RecordFails(p)
           \/ Inspect(p) \/ CheckIdentity(p) \/ UnlinkStale(p)
           \/ Read(p) \/ Abandon(p) \/ Decide(p) \/ Capture(p)
           \/ Rename(p) \/ RenameFails(p) \/ Confirm(p) \/ Readback(p)
           \/ Release(p) \/ ReleaseFails(p)

Environment(p) == Crash(p) \/ Exit(p) \/ RecyclePid(p) \/ GrowOld(p)

Next == \E p \in Procs : Step(p) \/ Environment(p)

Spec == Init /\ [][Next]_vars

\* A process that can take a step takes it, and time passes.
Fairness == \A p \in Procs : WF_vars(Step(p)) /\ WF_vars(GrowOld(p))

FairSpec == Spec /\ Fairness

-----------------------------------------------------------------------------
LockTypeOK == /\ lockFile \in Procs \cup {NoLock}
              /\ recorded \subseteq Procs
              /\ age \in [Procs -> Ages]
              /\ live \subseteq Procs

ControlTypeOK == /\ pc \in [Procs -> PCs]
                 /\ outcome \in [Procs -> Outcomes]
                 /\ faults \in 0 .. MaxFaults

AcquireTypeOK == /\ attempts \in [Procs -> 0 .. (MaxAttempts - 1)]
                 /\ seen \in [Procs -> Procs \cup {NoLock}]

Contents == [used : Nat, audit : SUBSET Procs]
DataTypeOK == /\ document \in [ino : Procs \cup {Original}, content : Contents]
              /\ prior \in [Procs -> Contents]
              /\ expected \in [Procs -> Procs \cup {Original}]

ReportTypeOK == /\ verdict \in [Procs -> {"none", "allowed", "exhausted"}]
                /\ status \in [Procs -> {"published", "not-published", "uncertain"}]

TypeOK == /\ LockTypeOK
          /\ ControlTypeOK
          /\ AcquireTypeOK
          /\ DataTypeOK
          /\ ReportTypeOK

\* Two processes are never both between taking and releasing the lock: what
\* "exclusive" means in withExclusiveSecureFile.
MutualExclusion == \A p, q \in Procs :
                     pc[p] \in Holding /\ pc[q] \in Holding => p = q

\* The lock file a process works under is there and is its own until it
\* releases: recoverStaleLock "never" deletes the lock of a live acquirer.
LockOfHolderStays == \A p \in Procs : pc[p] \in Holding => lockFile = p

\* A transition that was reported as published is part of the document, and
\* stays part of it: no later writer started from an older document.
NoLostUpdate == \A p \in Procs : outcome[p] = "published"
                                   => p \in document.content.audit

\* What the caller is told is never wrong: "not-published", "busy" and a
\* failure before the lock all mean that the document does not hold the change.
FailureProvesNoWrite ==
  \A p \in Procs : outcome[p] \in {"busy", "failed", "not-published"}
                     => p \notin document.content.audit

\* At most maxUses callers are told that they hold a use of the grant, and
\* the use count covers every one of them.
NoDoubleClaim ==
  LET claims == {p \in Procs : outcome[p] = "published" /\ verdict[p] = "allowed"}
  IN  Cardinality(claims) <= document.content.used /\ document.content.used <= MaxUses

\* The transitions are linearizable: the document behaves as if every
\* operation happened in one step, and every answer is consistent with it.
Linearizable == Doc!Spec

\* Every invocation ends, with an answer or by dying.
Settles(p) == <>(pc[p] \in Settled)
EveryTransitionSettles == \A p \in Procs : Settles(p)

\* Once every other process is gone and the lock one of them left is ancient,
\* an operation that starts never answers busy: a crash cannot brick the file.
Alone(p) == /\ pc[p] = "start"
            /\ \A q \in Procs \ {p} : pc[q] \in Settled
            /\ lockFile # NoLock => age[lockFile] = "ancient"
Recovers(p) == Alone(p) ~> (pc[p] \in Settled /\ outcome[p] # "busy")
LeftoverLockIsRecovered == \A p \in Procs : Recovers(p)
=============================================================================
