------------------------------- MODULE Executor -------------------------------
(***************************************************************************)
(* runSecureCommand: one supervised child process and a descendant it may  *)
(* start.  A timeout, an abort signal and the output limit all ask for the *)
(* termination of the tree, first politely, after a grace period by force. *)
(* Both ways of supervising (captured output, streams handed through) and  *)
(* both platforms are modelled; the operating system's processes are the   *)
(* environment.                                                            *)
(***************************************************************************)
EXTENDS Naturals

CONSTANTS Escapes,    \* the descendant may leave the process group
          Foreign     \* the leader may change its user once it runs, so that
                      \* signals to it are refused

VARIABLES
  setup,      \* what stays fixed: platform, output mode, the processes' manners
  phase,      \* idle, validating, supervised or settled
  alive,      \* the processes that run
  doomed,     \* those a signal is about to end
  ended,      \* how the leader ended
  group,      \* the processes in the leader's group
  timers,     \* the timers that are armed
  listening,  \* the abort listener is installed
  aborted,    \* request.signal.aborted
  requested,  \* requestedTermination
  thrown,     \* observerFailed
  sweep,      \* a taskkill sweep is under way (Windows)
  plain,      \* the prepared environment still holds the secret
  result      \* what the promise settled with

processes  == <<alive, doomed, ended, group>>
supervision == <<timers, listening, requested, thrown, sweep>>
vars == <<setup, phase, processes, supervision, aborted, plain, result>>

Process == {"leader", "descendant"}
Reason  == {"timeout", "aborted", "output-limit"}

TypeOK == /\ DOMAIN setup = {"posix", "captured", "limited", "stubborn", "pipe", "foreign"}
          /\ phase \in {"idle", "validating", "supervised", "settled"}
          /\ alive \subseteq Process /\ doomed \subseteq alive /\ group \subseteq Process
          /\ ended \in {"no", "exit", "artifact", "signal"}
          /\ timers \subseteq {"timeout", "grace"}
          /\ {listening, aborted, thrown, sweep, plain} \subseteq BOOLEAN
          /\ requested \in Reason \cup {"none"}
          /\ result \in [why : Reason \cup {"none", "exit", "signal", "rejected"},
                         shape : {"none", "code", "signal"}]

Pending  == [why |-> "none", shape |-> "none"]
Rejected == [why |-> "rejected", shape |-> "none"]

\* pipe: the descendant keeps the output pipe; limited: timeoutMs is given.
Setup == [posix : BOOLEAN, captured : BOOLEAN, limited : BOOLEAN,
          stubborn : SUBSET Process, pipe : BOOLEAN,
          foreign : IF Foreign THEN BOOLEAN ELSE {FALSE}]

Init == /\ setup = [posix |-> TRUE, captured |-> TRUE, limited |-> FALSE,
                    stubborn |-> {}, pipe |-> FALSE, foreign |-> FALSE]
        /\ phase = "idle" /\ ended = "no"
        /\ alive = {} /\ doomed = {} /\ group = {}
        /\ timers = {} /\ listening = FALSE /\ requested = "none" /\ thrown = FALSE
        /\ sweep = FALSE /\ aborted = FALSE /\ plain = FALSE /\ result = Pending

-----------------------------------------------------------------------------
\* Mutant: the rejection path keeps its timers.
SettleArmed(what) == /\ phase' = "settled" /\ result' = what
                     /\ timers' = timers \ {"grace"} /\ listening' = FALSE
                     /\ plain' = FALSE

\* settled, clearLifecycle and environment.clear.
Settle(what) == /\ phase' = "settled" /\ result' = what
                /\ timers' = {} /\ listening' = FALSE
                /\ plain' = FALSE

\* Signals of this user.  A group that has no process left, and the Windows
\* build, leave only the direct child.
Reached(members) == {p \in members \cap alive : p = "leader" => ~ setup.foreign}

\* process.kill(-pid) fails for a group of which no process may be signalled.
GroupKnown == setup.posix /\ Reached(group) # {}

\* The child handle's own kill: a refusal is an `error` event of the child.
DirectRefused == "leader" \in alive /\ setup.foreign /\ ~ GroupKnown

\* requestTreeTermination (POSIX): SIGTERM, which a stubborn process ignores.
Polite == {p \in Reached(group) : p \notin setup.stubborn}

\* forceTreeTermination.
Forced == IF GroupKnown THEN Reached(group) ELSE Reached({"leader"})

\* Mutant: no escalation is scheduled.
TerminateOnce(reason, rest) ==
  IF requested # "none"
  THEN timers' = rest /\ UNCHANGED <<phase, result, listening, plain, requested,
                                     doomed, sweep>>
  ELSE /\ requested' = reason
       /\ doomed' = IF setup.posix THEN doomed \cup Polite ELSE doomed
       /\ sweep' = ~ setup.posix
       /\ timers' = rest
       /\ UNCHANGED <<phase, result, listening, plain>>

\* terminate(reason), with the timers in `rest` still armed.
Terminate(reason, rest) ==
  IF requested # "none"
  THEN timers' = rest /\ UNCHANGED <<phase, result, listening, plain, requested,
                                     doomed, sweep>>
  ELSE /\ requested' = reason
       /\ doomed' = IF setup.posix THEN doomed \cup Polite ELSE doomed
       /\ sweep' = ~ setup.posix
       /\ IF setup.posix /\ DirectRefused
          THEN Settle(Rejected)
          ELSE timers' = rest \cup {"grace"} /\ UNCHANGED <<phase, result, listening, plain>>

-----------------------------------------------------------------------------
\* A request, for a program and a platform with these manners; an aborted one
\* is rejected at once.
Call == /\ phase = "idle"
        /\ setup' \in Setup
        /\ \/ aborted' = TRUE /\ phase' = "settled" /\ result' = Rejected
           \/ phase' = "validating" /\ UNCHANGED <<aborted, result>>
        /\ UNCHANGED <<processes, supervision, plain>>

\* The directory is no directory, the environment is refused, or spawn throws.
Reject == /\ phase = "validating"
          /\ Settle(Rejected)
          /\ UNCHANGED <<setup, processes, requested, thrown, sweep, aborted>>

\* spawnChild, the listeners and timers, and the caller's onSpawn, which may
\* throw; a program that cannot be executed shows later, as an event.
Spawn == /\ phase = "validating" /\ ~ aborted
         /\ phase' = "supervised" /\ plain' = TRUE
         /\ timers' = IF setup.limited THEN {"timeout"} ELSE {}
         /\ listening' = TRUE
         /\ \/ alive' = {} /\ group' = {} /\ doomed' = {} /\ UNCHANGED thrown
            \/ /\ alive' = {"leader"} /\ group' = {"leader"}
               /\ thrown' \in BOOLEAN
               /\ doomed' = IF thrown' THEN {"leader"} ELSE {}
         /\ UNCHANGED <<setup, ended, aborted, requested, sweep, result>>

SpawnError == /\ phase = "supervised" /\ alive = {} /\ ended = "no"
              /\ Settle(Rejected)
              /\ UNCHANGED <<setup, processes, requested, thrown, sweep, aborted>>

\* The signal is aborted; the listener runs in the same turn.
Abort == /\ ~ aborted /\ phase \in {"validating", "supervised"}
         /\ aborted' = TRUE
         /\ IF listening THEN Terminate("aborted", timers)
            ELSE UNCHANGED <<phase, result, timers, listening, plain, requested,
                             doomed, sweep>>
         /\ UNCHANGED <<setup, alive, ended, group, thrown>>

TimeoutFires == /\ "timeout" \in timers
                /\ Terminate("timeout", timers \ {"timeout"})
                /\ UNCHANGED <<setup, alive, ended, group, thrown, aborted>>

OutputLimit == /\ phase = "supervised" /\ setup.captured
               /\ "leader" \in alive \/ (setup.pipe /\ "descendant" \in alive)
               /\ requested = "none"
               /\ Terminate("output-limit", timers)
               /\ UNCHANGED <<setup, alive, ended, group, thrown, aborted>>

\* The grace period is over.
GraceFires == /\ "grace" \in timers
              /\ IF DirectRefused THEN Settle(Rejected) /\ UNCHANGED doomed
                 ELSE /\ timers' = timers \ {"grace"}
                      /\ doomed' = doomed \cup Forced
                      /\ UNCHANGED <<phase, result, listening, plain>>
              /\ UNCHANGED <<setup, alive, ended, group, aborted, requested, thrown,
                             sweep>>

\* attributeRequestedClose: a requested close that shows as the exit code of a
\* terminated Windows process is the requested signal.
Attributed == IF ended = "signal" \/ (ended = "artifact" /\ requested # "none")
              THEN "signal" ELSE "code"

\* `close`: the leader ended and every holder of a captured pipe is gone.
Close == /\ phase = "supervised" /\ ended # "no"
         /\ ~ (setup.captured /\ setup.pipe /\ "descendant" \in alive)
         /\ Settle(IF thrown THEN Rejected
                   ELSE [why |-> IF requested # "none" THEN requested
                                 ELSE IF Attributed = "signal" THEN "signal" ELSE "exit",
                         shape |-> Attributed])
         /\ UNCHANGED <<setup, processes, requested, thrown, sweep, aborted>>

-----------------------------------------------------------------------------
(* The operating system.                                                   *)

\* The leader starts its descendant, which a daemon detaches from the group.
Fork == /\ "leader" \in alive \ doomed /\ "descendant" \notin group
        /\ ended = "no" /\ "descendant" \notin alive
        /\ alive' = alive \cup {"descendant"}
        /\ \/ group' = group \cup {"descendant"}
           \/ Escapes /\ UNCHANGED group
        /\ UNCHANGED <<setup, phase, doomed, ended, supervision, aborted, plain, result>>

\* A process ends, by itself or killed.  Windows reports a process that was
\* terminated from outside as exit code 1.
Dies(p) == /\ p \in alive
           /\ alive' = alive \ {p} /\ doomed' = doomed \ {p}
           /\ ended' = IF p # "leader" THEN ended
                       ELSE IF p \notin doomed THEN "exit"
                       ELSE IF setup.posix THEN "signal" ELSE "artifact"
           /\ UNCHANGED <<setup, phase, group, supervision, aborted, plain, result>>

\* taskkill walks the tree from a leader that still lives, or cannot run.
Sweep == /\ sweep /\ sweep' = FALSE
         /\ \/ doomed' = IF "leader" \in alive THEN doomed \cup Reached(alive) ELSE doomed
            \/ UNCHANGED doomed
         /\ UNCHANGED <<setup, phase, alive, ended, group, timers, listening, requested,
                        thrown, aborted, plain, result>>

-----------------------------------------------------------------------------
Supervise == \/ Reject \/ Spawn \/ SpawnError
             \/ TimeoutFires \/ GraceFires \/ Close

Next == \/ Call \/ Supervise \/ Abort \/ OutputLimit
        \/ Fork \/ Sweep \/ \E p \in Process : Dies(p)

Spec == Init /\ [][Next]_vars

\* The event loop runs what is due and a process that was killed ends; nothing
\* is assumed of a process that was not.
Mortality == Sweep \/ \E p \in doomed : Dies(p)
LiveSpec == /\ Spec
            /\ WF_vars(Supervise)
            /\ WF_vars(Mortality)

-----------------------------------------------------------------------------
\* However a run settles, whichever of its events came first: no timer, listener
\* or secret stays behind; no leader either, unless it is one the user may not
\* signal; and callers observe one shape: a child this run had killed, by whatever
\* mechanism, is reported with the reason and as signalled on either platform.
SettlesCleanly ==
  phase = "settled" =>
    /\ timers = {} /\ ~ listening /\ ~ plain
    /\ setup.foreign \/ "leader" \notin alive
    /\ result.why \in Reason /\ ended \in {"signal", "artifact"} => result.shape = "signal"
    /\ result.why \in {"exit", "signal"} => requested = "none"

\* A request for termination settles the run even if the whole tree ignores
\* SIGTERM, unless the pipe is kept by a process that the signals do not reach.
Requested == /\ requested # "none" /\ ~ setup.foreign
             /\ setup.posix \/ ~ (setup.captured /\ setup.pipe)
RequestSettles == Requested ~> phase = "settled"
=============================================================================
