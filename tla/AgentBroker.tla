----------------------------- MODULE AgentBroker -----------------------------
(***************************************************************************)
(* The broker of one `kavrix agent run` session.  Each connection carries  *)
(* one request: it waits for an execution slot, is authorized, reserves a  *)
(* use of its permission, and runs one child that receives the secret.     *)
(* Frames to the client, audit events and the session's shutdown are all   *)
(* driven by callbacks that interleave at every await.                     *)
(*                                                                         *)
(* All requests name one permission.  Asks gives the verdicts a request's  *)
(* executable and arguments may get; whether a stored deny policy names    *)
(* the credential is a choice of each reservation.                         *)
(***************************************************************************)
EXTENDS Naturals, FiniteSets, SequencesExt

CONSTANTS Conns,          \* the connections
          MaxConcurrent,  \* limits.maxConcurrentRequests
          MaxQueued,      \* limits.maxQueuedRequests
          MaxAudits,      \* limits.maxPendingAuditOperations
          MaxUses,        \* the permission's maxUses
          Asks,           \* Asks[c]: what evaluating the request of c may yield
          Unruly,         \* bound: the clients that leave or flood mid-request
          MaxFaults       \* bound: sealed-state operations that fail

ASSUME MaxConcurrentAssumption == MaxConcurrent \in Nat \ {0}
ASSUME LimitsAssumption == /\ MaxQueued \in Nat
                           /\ MaxAudits \in Nat
                           /\ MaxUses \in Nat
                           /\ MaxFaults \in Nat
                           /\ Unruly \subseteq Conns
                           /\ Asks \in [Conns -> SUBSET {"deny", "unresolved",
                                                        "confirm", "allow"}]

VARIABLES
  pc,          \* pc[c]: where the request of c is
  race,        \* race[c]: what settled the admission race of c first
  holds,       \* holds[c]: c's grantSlot or admission took a slot (acquired)
  active,      \* runtime.activeRequests
  waiting,     \* runtime.waitingRequests, in arrival order
  queued,      \* runtime.queuedRequests
  sock,        \* sock[c]: the server's end of the socket
  dead,        \* the connections with terminatedHard
  decided,     \* the connections with decisionSent
  exited,      \* the connections with exitSent
  wire,        \* wire[c]: the decision and exit frames written to the client
  child,       \* child[c]: the authorized child process
  approvals,   \* runtime.confirmationQueue, in order
  audits,      \* runtime.auditQueue: the sealed-state operations, in order
  uses,        \* runtime.permissionUses of the permission
  session,     \* the phase of executeAgentRun
  barrier,     \* the requests session.queue stood for when the agent ended
  toFlush,     \* audit operations the cleanup still waits for
  secrets,     \* session.secrets is still filled
  recorded,    \* the audit events that reached the sealed state
  faults

admission == <<race, holds, active, waiting, queued>>
frames    == <<sock, dead, decided, exited, wire>>
closing   == <<session, barrier, toFlush, secrets>>
sealed    == <<audits, recorded, faults>>
vars == <<pc, admission, frames, child, approvals, sealed, uses, closing>>

-----------------------------------------------------------------------------
Working == {"authorize", "approval", "confirmed", "audited", "reserving",
            "refused", "reserved", "running", "reporting", "finish", "failed"}
PCs == {"absent", "idle", "waiting", "done"} \cup Working

Frame == {"allow", "deny", "exit"}
Event == [conn : Conns, act : {"confirmation", "denied", "dropped", "reserve",
                                "allowed", "completed"}]

TypeOK == /\ pc \in [Conns -> PCs]
          /\ race \in [Conns -> {"open", "ready", "timeout", "terminated"}]
          /\ holds \in [Conns -> BOOLEAN]
          /\ active \in 0..MaxConcurrent
          /\ queued \in 0..MaxQueued
          /\ waiting \in Seq(Conns)
          /\ sock \in [Conns -> {"none", "open", "ended", "closed"}]
          /\ dead \subseteq Conns /\ decided \subseteq Conns /\ exited \subseteq Conns
          /\ wire \in [Conns -> Seq(Frame)]
          /\ child \in [Conns -> {"none", "live", "announced", "killed", "gone"}]
          /\ approvals \in Seq(Conns)
          /\ audits \in Seq(Event)
          /\ uses \in 0..MaxUses
          /\ {toFlush, faults} \subseteq Nat
          /\ secrets \in BOOLEAN
          /\ session \in {"running", "draining", "closing", "flushing", "closed"}
          /\ barrier \subseteq Conns
          /\ recorded \subseteq Event

Init == /\ pc = [c \in Conns |-> "absent"]
        /\ race = [c \in Conns |-> "open"]
        /\ holds = [c \in Conns |-> FALSE]
        /\ active = 0 /\ waiting = <<>> /\ queued = 0
        /\ sock = [c \in Conns |-> "none"]
        /\ dead = {} /\ decided = {} /\ exited = {}
        /\ wire = [c \in Conns |-> <<>>]
        /\ child = [c \in Conns |-> "none"]
        /\ approvals = <<>> /\ audits = <<>>
        /\ uses = 0
        /\ session = "running" /\ barrier = {} /\ toFlush = 0 /\ secrets = TRUE
        /\ recorded = {} /\ faults = 0

Goto(c, label) == pc' = [pc EXCEPT ![c] = label]

-----------------------------------------------------------------------------
(* Frames.  sendServerFrame writes nothing once the socket was ended.      *)

Send(c, what) == wire' = [wire EXCEPT ![c] = IF sock[c] = "open" THEN @ \o what
                                             ELSE @]

ExitFrame(c) == IF c \in exited THEN <<>> ELSE <<"exit">>

Enqueue(c, act) == audits' = Append(audits, [conn |-> c, act |-> act])

\* pendingAuditOperations counts recorded events, not reservations.
PendingAudits == Len(SelectSeq(audits, LAMBDA e : e.act # "reserve"))

\* The child the relay knows is sent SIGKILL; a request waiting for a slot
\* is woken.
Kill(c) == child' = [child EXCEPT ![c] = IF @ \in {"live", "announced"}
                                         THEN "killed" ELSE @]
Wake(c) == race' = [race EXCEPT ![c] = IF pc[c] = "waiting" /\ @ = "open"
                                       THEN "terminated" ELSE @]

\* abortConnection, after which the socket is in state `end`.
Abort(c, end) == /\ dead' = dead \cup {c}
                 /\ sock' = [sock EXCEPT ![c] = end]
                 /\ Kill(c)

\* terminateBrokerConnection of an authenticated request.
Terminate(c) == /\ IF c \in decided
                   THEN /\ Send(c, ExitFrame(c))
                        /\ UNCHANGED <<decided, audits>>
                   ELSE /\ Send(c, <<"deny">> \o ExitFrame(c))
                        /\ decided' = decided \cup {c}
                        /\ IF PendingAudits >= MaxAudits THEN UNCHANGED audits
                           ELSE Enqueue(c, "dropped")
                /\ exited' = exited \cup {c}
                /\ Abort(c, "ended")

-----------------------------------------------------------------------------
(* acquireExecutionSlot.                                                   *)

\* release: the first waiter takes the slot over, even one that has just
\* timed out and must hand it on when it resumes.
Release(c) ==
  IF waiting = <<>>
  THEN /\ active' = active - 1
       /\ holds' = [holds EXCEPT ![c] = FALSE]
       /\ UNCHANGED <<race, waiting>>
  ELSE LET next == Head(waiting)
       IN /\ holds' = [holds EXCEPT ![c] = FALSE, ![next] = TRUE]
          /\ race' = [race EXCEPT ![next] = IF @ = "open" THEN "ready" ELSE @]
          /\ waiting' = Tail(waiting)
          /\ UNCHANGED active

\* waitingRequests.splice of the entry of c, if it still has one.
Withdraw(c) ==
  LET entries == {i \in 1 .. Len(waiting) : waiting[i] = c}
  IN IF entries = {} THEN UNCHANGED waiting
     ELSE \E i \in entries : waiting' = RemoveAt(waiting, i)

Connect(c) == /\ pc[c] = "absent"
              /\ session \in {"running", "draining"}
              /\ sock' = [sock EXCEPT ![c] = "open"]
              /\ Goto(c, "idle")
              /\ UNCHANGED <<admission, dead, decided, exited, wire, child,
                             approvals, sealed, uses, closing>>

Admit(c) == /\ active < MaxConcurrent
            /\ active' = active + 1
            /\ holds' = [holds EXCEPT ![c] = TRUE]
            /\ Goto(c, "authorize")
            /\ UNCHANGED <<race, waiting, queued, frames, child, audits>>

Queue(c) == /\ active >= MaxConcurrent /\ queued < MaxQueued
            /\ waiting' = Append(waiting, c)
            /\ queued' = queued + 1
            /\ Goto(c, "waiting")
            /\ UNCHANGED <<race, holds, active, frames, child, audits>>

Busy(c) == /\ active >= MaxConcurrent /\ queued >= MaxQueued
           /\ Goto(c, "done")
           /\ Terminate(c)
           /\ UNCHANGED admission

Request(c) == /\ pc[c] = "idle" /\ sock[c] = "open"
              /\ Admit(c) \/ Queue(c) \/ Busy(c)
              /\ UNCHANGED <<approvals, recorded, faults, uses, closing>>

QueueTimeout(c) == /\ pc[c] = "waiting" /\ race[c] = "open"
                   /\ race' = [race EXCEPT ![c] = "timeout"]
                   /\ UNCHANGED <<pc, holds, active, waiting, queued, frames, child,
                                  approvals, sealed, uses, closing>>

\* Mutant: a waiter that lost the race forgets the slot it was granted.
ResumeLeaking(c) ==
  /\ pc[c] = "waiting" /\ race[c] # "open"
  /\ queued' = queued - 1
  /\ Goto(c, IF race[c] = "ready" /\ c \notin dead THEN "authorize" ELSE "done")
  /\ Withdraw(c)
  /\ UNCHANGED <<race, holds, active, frames, child, audits, approvals,
                 recorded, faults, uses, closing>>

\* The race settled: the slot is kept only if it was won and the connection
\* still stands; a slot granted in the meantime is passed on.
Resume(c) ==
  /\ pc[c] = "waiting" /\ race[c] # "open"
  /\ queued' = queued - 1
  /\ \/ /\ race[c] = "ready" /\ c \notin dead
        /\ Goto(c, "authorize")
        /\ UNCHANGED <<race, holds, active, waiting, frames, child, audits>>
     \/ /\ race[c] # "ready" \/ c \in dead
        /\ Goto(c, "done")
        /\ IF holds[c] THEN Release(c)
           ELSE Withdraw(c) /\ UNCHANGED <<race, holds, active>>
        /\ IF c \in dead THEN UNCHANGED <<frames, child, audits>> ELSE Terminate(c)
  /\ UNCHANGED <<approvals, recorded, faults, uses, closing>>

-----------------------------------------------------------------------------
(* handleAuthorizedExec.                                                   *)

\* deny: framed and audited even when the connection was terminated before.
Deny(c) == /\ decided' = decided \cup {c}
           /\ exited' = exited \cup {c}
           /\ Send(c, <<"deny">> \o ExitFrame(c))
           /\ Enqueue(c, "denied")
           /\ Goto(c, "reporting")

\* The request's own checks: lookup, executable, policy evaluation.
Authorize(c) ==
  /\ pc[c] = "authorize"
  /\ \/ /\ c \in dead
        /\ Goto(c, "finish")
        /\ UNCHANGED <<decided, exited, wire, audits, approvals>>
     \/ /\ "deny" \in Asks[c]
        /\ Deny(c)
        /\ UNCHANGED approvals
     \/ /\ "unresolved" \in Asks[c]         \* an exit frame and no decision
        /\ Send(c, ExitFrame(c))
        /\ exited' = exited \cup {c}
        /\ Goto(c, "finish")
        /\ UNCHANGED <<decided, audits, approvals>>
     \/ /\ "confirm" \in Asks[c]
        /\ approvals' = Append(approvals, c)
        /\ Goto(c, "approval")
        /\ UNCHANGED <<decided, exited, wire, audits>>
     \/ /\ "allow" \in Asks[c]
        /\ Goto(c, "audited")
        /\ UNCHANGED <<decided, exited, wire, audits, approvals>>
  /\ UNCHANGED <<admission, sock, dead, child, recorded, faults, uses, closing>>

\* Mutant: the queue of prompts never gets past an answered one.
AnswerStuck(c) == /\ pc[c] = "approval"
                  /\ approvals # <<>> /\ Head(approvals) = c
                  /\ UNCHANGED approvals
                  /\ Enqueue(c, "confirmation")
                  /\ Goto(c, "reporting")
                  /\ UNCHANGED <<admission, frames, child, recorded, faults,
                                 uses, closing>>

\* The operator answers the prompt of the first request in the queue.
Answer(c) == /\ pc[c] = "approval"
             /\ approvals # <<>> /\ Head(approvals) = c
             /\ approvals' = Tail(approvals)
             /\ Enqueue(c, "confirmation")
             /\ Goto(c, "reporting")
             /\ UNCHANGED <<admission, frames, child, recorded, faults,
                            uses, closing>>

\* The confirmation is recorded: the answer was no, or the request goes on.
Confirmed(c) == /\ pc[c] = "confirmed"
                /\ \/ Deny(c)
                   \/ /\ Goto(c, "audited")
                      /\ UNCHANGED <<decided, exited, wire, audits>>
                /\ UNCHANGED <<admission, sock, dead, child, approvals,
                               recorded, faults, uses, closing>>

\* The injection mapping and the execution window; then the reservation is
\* queued behind every earlier sealed-state operation.
Reserve(c) ==
  /\ pc[c] = "audited"
  /\ \/ /\ ~ secrets
        /\ Deny(c)
     \/ /\ secrets /\ c \in dead
        /\ Goto(c, "finish")
        /\ UNCHANGED <<decided, exited, wire, audits>>
     \/ /\ secrets /\ c \notin dead
        /\ Enqueue(c, "reserve")
        /\ Goto(c, "reserving")
        /\ UNCHANGED <<decided, exited, wire>>
  /\ UNCHANGED <<admission, sock, dead, child, approvals, recorded,
                 faults, uses, closing>>

\* A refused reservation.
Refused(c) == /\ pc[c] = "refused"
              /\ Deny(c)
              /\ UNCHANGED <<admission, sock, dead, child, approvals,
                             recorded, faults, uses, closing>>

\* Mutant: the allowance is framed before the child's spawn is known.
LaunchAnnounced(c) ==
  /\ pc[c] = "reserved" /\ c \notin dead
  /\ decided' = decided \cup {c}
  /\ \/ /\ child' = [child EXCEPT ![c] = "live"]
        /\ Goto(c, "running")
        /\ Send(c, <<"allow">>)
        /\ UNCHANGED exited
     \/ /\ Goto(c, "finish")
        /\ Send(c, <<"allow">> \o ExitFrame(c))
        /\ exited' = exited \cup {c}
        /\ UNCHANGED child
  /\ UNCHANGED <<admission, sock, dead, approvals, sealed, uses, closing>>

\* runSecureCommand: the use is spent whether or not the child starts, and the
\* connection may have been terminated since the last look at terminatedHard.
Launch(c) ==
  /\ pc[c] = "reserved"
  /\ \/ /\ child' = [child EXCEPT ![c] = "live"]
        /\ Goto(c, "running")
        /\ UNCHANGED <<exited, wire>>
     \/ /\ Goto(c, "finish")
        /\ IF c \in dead THEN UNCHANGED <<exited, wire>>
           ELSE /\ Send(c, ExitFrame(c))
                /\ exited' = exited \cup {c}
        /\ UNCHANGED child
  /\ UNCHANGED <<admission, sock, dead, decided, approvals, sealed, uses, closing>>

\* The child's `spawn` event: announceAllow.
Announce(c) ==
  /\ pc[c] = "running" /\ child[c] = "live"
  /\ child' = [child EXCEPT ![c] = "announced"]
  /\ IF c \in dead \cup decided THEN UNCHANGED <<decided, wire, audits>>
     ELSE /\ Send(c, <<"allow">>)
          /\ decided' = decided \cup {c}
          /\ Enqueue(c, "allowed")
  /\ UNCHANGED <<pc, admission, sock, dead, exited, approvals,
                 recorded, faults, uses, closing>>

\* The child closes, by itself, at its time window or killed.
ChildCloses(c) ==
  /\ pc[c] = "running" /\ child[c] \in {"announced", "killed"}
  /\ child' = [child EXCEPT ![c] = "gone"]
  /\ IF c \in dead THEN Goto(c, "finish") /\ UNCHANGED <<exited, wire, audits>>
     ELSE /\ Send(c, ExitFrame(c))
          /\ exited' = exited \cup {c}
          /\ Enqueue(c, "completed")
          /\ Goto(c, "reporting")
  /\ UNCHANGED <<admission, sock, dead, decided, approvals,
                 recorded, faults, uses, closing>>

\* The operation ended: its slot is released; an error also ends the socket.
Finish(c) ==
  /\ pc[c] \in {"finish", "failed"}
  /\ Goto(c, "done")
  /\ Release(c)
  /\ IF pc[c] = "failed"
     THEN Abort(c, IF c \in exited /\ sock[c] # "closed" THEN "ended" ELSE "closed")
     ELSE UNCHANGED <<sock, dead, child>>
  /\ UNCHANGED <<queued, decided, exited, wire, approvals, sealed, uses, closing>>

-----------------------------------------------------------------------------
(* The sealed authorization state, one operation at a time (auditQueue).   *)

\* What the request that awaits the operation does next.
Reach(e, label) == IF e.act \in {"dropped", "allowed"} THEN UNCHANGED pc
                   ELSE Goto(e.conn, label)

Flush == toFlush' = IF toFlush = 0 THEN 0 ELSE toFlush - 1

\* consumeGrantUse of the permission, or a refusal: the counter is used up,
\* or a stored deny policy names the credential.
Reservation(e) == \/ Reach(e, "refused") /\ UNCHANGED uses
                  \/ uses < MaxUses /\ Reach(e, "reserved") /\ uses' = uses + 1

StateOperation ==
  /\ audits # <<>> /\ session # "closed"
  /\ LET e == Head(audits)
     IN /\ IF e.act = "reserve"
           THEN UNCHANGED recorded /\ Reservation(e)
           ELSE /\ recorded' = recorded \cup {e}
                /\ Reach(e, IF e.act = "confirmation" THEN "confirmed" ELSE "finish")
                /\ UNCHANGED uses
  /\ audits' = Tail(audits)
  /\ Flush
  /\ UNCHANGED <<admission, frames, child, approvals, faults,
                 session, barrier, secrets>>

\* The operation fails, as every one does once the key copy is cleared.  An
\* allowance that cannot be recorded ends its connection.
StateFailure ==
  /\ audits # <<>>
  /\ IF session = "closed" THEN UNCHANGED faults
     ELSE faults < MaxFaults /\ faults' = faults + 1
  /\ LET e == Head(audits)
         c == e.conn
     IN /\ Reach(e, "failed")
        /\ IF e.act = "allowed" /\ c \notin dead
           THEN /\ Send(c, ExitFrame(c))
                /\ exited' = exited \cup {c}
                /\ Abort(c, "ended")
                /\ UNCHANGED <<decided>>
           ELSE UNCHANGED <<frames, child>>
  /\ audits' = Tail(audits)
  /\ Flush
  /\ UNCHANGED <<admission, approvals, recorded, uses, session,
                 barrier, secrets>>

-----------------------------------------------------------------------------
(* The connection ends from the outside.                                   *)

\* The relay is flooded, or a stream of the child fails.
Flood(c) == /\ c \in Unruly
            /\ pc[c] \notin {"absent", "idle"} /\ sock[c] = "open" /\ c \notin dead
            /\ Terminate(c)
            /\ Wake(c)
            /\ UNCHANGED <<pc, holds, active, waiting, queued, approvals,
                           recorded, faults, uses, closing>>

\* The socket closes: the client leaves after the exit frame (an unruly one
\* at any time), its first line is no valid request, or the grace ran out.
SocketCloses(c) == /\ sock[c] \in {"open", "ended"}
                   /\ \/ c \in Unruly \cup exited
                      \/ pc[c] \in {"idle", "done"}
                      \/ sock[c] = "ended"
                   /\ IF pc[c] = "idle" THEN Goto(c, "done") ELSE UNCHANGED pc
                   /\ Wake(c)
                   /\ IF c \in dead
                      THEN /\ sock' = [sock EXCEPT ![c] = "closed"]
                           /\ UNCHANGED <<dead, child>>
                      ELSE Abort(c, "closed")
                   /\ UNCHANGED <<holds, active, waiting, queued, decided, exited,
                                  wire, approvals, sealed, uses, closing>>

-----------------------------------------------------------------------------
(* executeAgentRun: the agent ends and the session is torn down.           *)

unbothered == <<pc, admission, frames, child, approvals, sealed, uses>>

\* session.queue is read once: later requests are not in this barrier.
AgentExits == /\ session = "running"
              /\ session' = "draining"
              /\ barrier' = {c \in Conns : pc[c] \notin {"absent", "idle", "done"}}
              /\ UNCHANGED <<unbothered, toFlush, secrets>>

\* server.close: no connection is accepted any more.
CloseServer == /\ session = "draining"
               /\ \A c \in barrier : pc[c] = "done"
               /\ session' = "closing"
               /\ UNCHANGED <<unbothered, barrier, toFlush, secrets>>

\* Mutant: the server's close does not wait for open connections.
ClearAtOnce == /\ session = "closing"
               /\ session' = "flushing"
               /\ secrets' = FALSE
               /\ toFlush' = Len(audits)
               /\ UNCHANGED <<unbothered, barrier>>

\* The last connection is gone: secrets are cleared, then runtime.auditQueue
\* is awaited as it stands.
ClearSecrets == /\ session = "closing"
                /\ \A c \in Conns : sock[c] \in {"none", "closed"}
                /\ session' = "flushing"
                /\ secrets' = FALSE
                /\ toFlush' = Len(audits)
                /\ UNCHANGED <<unbothered, barrier>>

\* state.close: the key copy is zeroed.
CloseState == /\ session = "flushing"
              /\ toFlush = 0
              /\ session' = "closed"
              /\ UNCHANGED <<unbothered, barrier, toFlush, secrets>>

-----------------------------------------------------------------------------
Step(c) == \/ Resume(c) \/ Authorize(c) \/ Confirmed(c) \/ Reserve(c) \/ Refused(c)
           \/ Launch(c) \/ Announce(c) \/ Finish(c)

Next == \/ \E c \in Conns : \/ Connect(c) \/ Request(c)
                            \/ QueueTimeout(c) \/ Answer(c) \/ Step(c)
                            \/ ChildCloses(c) \/ Flood(c) \/ SocketCloses(c)
        \/ StateOperation \/ StateFailure
        \/ AgentExits \/ CloseServer \/ ClearSecrets \/ CloseState

Spec == Init /\ [][Next]_vars

\* The event loop runs what is ready and queue timers fire.  Of the
\* environment it is assumed that the operator answers, children end, and
\* clients leave.  Every request takes finitely many of these steps.
Progress(c) == Step(c) \/ QueueTimeout(c) \/ Answer(c) \/ ChildCloses(c)
                 \/ SocketCloses(c)
System == StateOperation \/ StateFailure \/ CloseServer \/ ClearSecrets \/ CloseState
LiveSpec == /\ Spec
            /\ \A c \in Conns : WF_vars(Progress(c))
            /\ WF_vars(System)

-----------------------------------------------------------------------------
\* Slots are neither lost nor handed out twice: the counter stands for the
\* holders, every holder is still on its way to releasing its slot, and no
\* request waits while a slot is free.
SlotsAccounted ==
  /\ active = Cardinality({c \in Conns : holds[c]}) /\ active <= MaxConcurrent
  /\ \A c \in Conns : holds[c] => pc[c] \notin {"absent", "idle", "done"}
  /\ waiting # <<>> => active = MaxConcurrent
  /\ queued = Cardinality({c \in Conns : pc[c] = "waiting"})

Started == {c \in Conns : child[c] # "none"}

\* Every child that was started had reserved a use, whatever requests ran at
\* the same time.
UsesCoverChildren == /\ Cardinality(Started) <= uses
                     /\ uses <= MaxUses

\* The session's limits hold: on what runs at a time, and on what is ever started.
LimitsHold == SlotsAccounted /\ UsesCoverChildren

InWire(c, f) == \E i \in 1..Len(wire[c]) : wire[c][i] = f

\* The client sees at most one decision, and nothing after the exit frame but
\* the refusal that terminates a connection whose executable did not resolve;
\* if it is told `allow` it has a child that runs, ran or was killed.
FramesAreTrue ==
  \A c \in Conns :
    /\ \A i, j \in 1..Len(wire[c]) :
         wire[c][i] # "exit" /\ wire[c][j] # "exit" => i = j
    /\ \A i \in 1..Len(wire[c]) :
         wire[c][i] = "exit" => i = Len(wire[c]) \/ wire[c][i + 1] = "deny"
    /\ InWire(c, "allow") => child[c] \in {"announced", "killed", "gone"}

\* A verdict that reached its client is in the sealed audit when the request
\* ends, or the connection was torn down.
VerdictsAudited ==
  \A c \in Conns : pc[c] = "done" /\ c \notin dead =>
    /\ InWire(c, "deny")  => [conn |-> c, act |-> "denied"] \in recorded
    /\ InWire(c, "allow") => [conn |-> c, act |-> "allowed"] \in recorded
    /\ InWire(c, "allow") => [conn |-> c, act |-> "completed"] \in recorded

\* What a client is told has happened, and is on record.
AnswersAreTrue == FramesAreTrue /\ VerdictsAudited

\* A child whose connection stands has the session's secrets while it runs:
\* cleanup waits for it.
Running(c) == child[c] \in {"live", "announced"}
SecretsOutliveConnections == \A c \in Conns : Running(c) /\ c \notin dead => secrets

\* No step leaves a running child without its secrets, and the step that tears
\* a connection down kills the child it has.
ChildrenAreCovered ==
  [][SecretsOutliveConnections' /\ \A c \in dead' \ dead : ~Running(c)']_vars

\* Once the agent ended, every request that arrived ends and so does the
\* session, whatever clients, children and the sealed state do.
Quiesces == session = "draining"
              ~> session = "closed" /\ \A c \in Conns : pc[c] \in {"absent", "done"}
=============================================================================
