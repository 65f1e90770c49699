------------------------------- MODULE MCProgress -------------------------------
(***************************************************************************)
(* Progress of the protected file, of the broker, of the supervised child  *)
(* and of the database session: a behaviour is a fair one of the component *)
(* `which` names, the others stay in their initial state.                  *)
(* DatabaseSession's operators keep their names.                           *)
(***************************************************************************)
EXTENDS DatabaseSession, TLC

CONSTANTS p1, p2, NoLock, Original, c1, c2, s1, s2, v1, v2

VARIABLES which,
  \* SecureFileTransition
  fileLock, fileRecorded, age, live, fileDoc, filePc, fileAttempts, fileSeen, filePrior,
  fileExpected, fileVerdict, status, fileOutcome, fileFaults,
  \* AgentBroker
  brokerPc, race, holds, active, waiting, queued, sock, dead, decided, exited, wire,
  child, approvals, audits, uses, session, barrier, toFlush, secrets, recorded,
  brokerFaults,
  \* Executor
  setup, phase, alive, doomed, ended, group, timers, listening, aborted, requested,
  thrown, sweep, plain, result

fileVars == <<fileLock, fileRecorded, age, live, fileDoc, filePc, fileAttempts, fileSeen,
              filePrior, fileExpected, fileVerdict, status, fileOutcome, fileFaults>>
brokerVars == <<brokerPc, race, holds, active, waiting, queued, sock, dead, decided,
                exited, wire, child, approvals, audits, uses, session, barrier, toFlush,
                secrets, recorded, brokerFaults>>
executorVars == <<setup, phase, alive, doomed, ended, group, timers, listening, aborted,
                  requested, thrown, sweep, plain, result>>

-----------------------------------------------------------------------------
\* Two processes, one fault, any recovery.
File == INSTANCE SecureFileTransition WITH
  lockFile <- fileLock, recorded <- fileRecorded, document <- fileDoc, pc <- filePc,
  attempts <- fileAttempts, seen <- fileSeen, prior <- filePrior,
  expected <- fileExpected, verdict <- fileVerdict, outcome <- fileOutcome,
  faults <- fileFaults,
  Procs <- {p1, p2}, MaxUses <- 1, MaxAttempts <- 4, MaxFaults <- 1, SoloRecovery <- FALSE

\* Two requests that need approval, one slot, one state operation that fails.
Broker == INSTANCE AgentBroker WITH
  pc <- brokerPc, faults <- brokerFaults,
  Conns <- {c1, c2}, MaxConcurrent <- 1, MaxQueued <- 1, MaxAudits <- 1, MaxUses <- 1,
  Asks <- [c \in {c1, c2} |-> {"confirm"}],
  Unruly <- {c1}, MaxFaults <- 1

Supervisor == INSTANCE Executor WITH Escapes <- FALSE, Foreign <- FALSE

-----------------------------------------------------------------------------
SuiteInit == /\ which \in {"file", "broker", "executor", "session"}
             /\ File!Init /\ Broker!Init /\ Supervisor!Init /\ Init

InFile(A)    == which = "file" /\ A /\ UNCHANGED <<brokerVars, executorVars, vars>>
InBroker(A)  == which = "broker" /\ A /\ UNCHANGED <<fileVars, executorVars, vars>>
InChild(A)   == which = "executor" /\ A /\ UNCHANGED <<fileVars, brokerVars, vars>>
InSession(A) == which = "session" /\ A /\ UNCHANGED <<fileVars, brokerVars, executorVars>>

SuiteNext == /\ UNCHANGED which
             /\ \/ InFile(File!Next)
                \/ InBroker(Broker!Next)
                \/ InChild(Supervisor!Next)
                \/ InSession(Next)

all == <<vars, fileVars, brokerVars, executorVars>>

\* Two actors of each component: the processes, whose locks grow old, the
\* requests, the supervisor and the system, the sessions.  As `which` is fixed,
\* the conditions imply no more than the components' own fairness.
First  == \/ InFile(File!Step(p1) \/ File!GrowOld(p1))
          \/ InBroker(Broker!Progress(c1))
          \/ InChild(Supervisor!Supervise)
          \/ InSession(Proceeds(s1))
Second == \/ InFile(File!Step(p2) \/ File!GrowOld(p2))
          \/ InBroker(Broker!Progress(c2))
          \/ InChild(Supervisor!Mortality)
          \/ InSession(Proceeds(s2))
Third  == InBroker(Broker!System)

SuiteSpec == /\ SuiteInit /\ [][SuiteNext]_<<which, all>>
             /\ WF_all(First) /\ WF_all(Second) /\ WF_all(Third)

-----------------------------------------------------------------------------
(* The two processes may be exchanged, and the two sessions: what holds for *)
(* the first of them holds for the second.                                  *)

\* SecureFileTransition: every invocation ends, and a lock that was left behind
\* never makes a file unusable.
EveryTransitionSettles == which = "file" => File!Settles(p1) /\ File!Recovers(p1)

\* DatabaseSession: every operation comes to an end without keeping the anchor's
\* lock.
SessionsSettle == SessionSettles(s1)

\* The broker's session ends and every request with it.
Quiesces == Broker!Quiesces

\* A request for termination settles a run.
RequestSettles == Supervisor!RequestSettles
=============================================================================
