------------------------------ MODULE MCExecution ------------------------------
(***************************************************************************)
(* The safety of the execution firewall's four components, checked in one  *)
(* run: a behaviour is one of a single component, which `which` names; the *)
(* others stay in their initial state.  The properties are those that      *)
(* Execution_proofs proves, under the same names.                          *)
(***************************************************************************)
EXTENDS Execution_proofs, TLC

CONSTANTS c1, c2, c3, r1, r2, g1, g2, gate, ban

VARIABLE which

executorVars == <<setup, phase, alive, doomed, ended, group, timers, listening, aborted,
                  requested, thrown, sweep, plain, result>>
runVars == <<doc, present, runPc, held, claimed, denier, end, logged, now, changes,
             runFaults>>
policyVars == <<policy, platform, told, stored>>

-----------------------------------------------------------------------------
\* One request that is allowed, one that needs approval, one whose
\* executable does not resolve.
Asked == (c1 :> {"allow", "deny"}) @@ (c2 :> {"confirm"}) @@ (c3 :> {"unresolved"})

\* One run that claims two grants, one that claims a shared one behind a policy
\* with confirmation; another policy denies the credential.
Given  == (r1 :> [grants |-> <<g1, g2>>, policies |-> {}])
            @@ (r2 :> [grants |-> <<g1>>, policies |-> {gate}])
Once   == (g1 :> 1) @@ (g2 :> 1)
Expiry == (g1 :> 0) @@ (g2 :> 1)

\* What the proofs about the runs take for granted.
ASSUME RunConstants == Run!ConstantsFit

-----------------------------------------------------------------------------
(* The policies, invocations and references of the policy engine.          *)

\* Two programs, one of them with a second spelling.
Spellings == {"node", "Node", "git"}
LowerCase == ("node" :> "node") @@ ("Node" :> "node") @@ ("git" :> "git")
Vectors   == {<<>>, <<"push">>, <<"push", "force">>}

AnyOperation == [command |-> "any", args |-> <<>>]
TooLong == 99

\* One credential with a short and a long reference, and another one.
Names   == {"db", "field:db", "other"}
Aliases == ("db" :> {"db", "field:db"}) @@ ("field:db" :> {"db", "field:db"})
             @@ ("other" :> {"other"})

Allowances ==
  [deny : {FALSE}, secret : {"db"}, commands : (SUBSET Spellings) \ {{}},
   operations : {{AnyOperation}, {[command |-> "node", args |-> <<"push">>]},
                 {[command |-> "node", args |-> <<"push">>],
                  [command |-> "git", args |-> <<>>]}},
   hashes : {<<>>, "node" :> "d1", "Node" :> "d1", "git" :> "d2"},
   dirs : {{}, {"src"}}, ttl : {0, 1, 2, TooLong},
   asks : {{}, {"push"}}, always : {FALSE}, reveal : {FALSE}]

Base == [deny |-> FALSE, secret |-> "db", commands |-> {"node"},
         operations |-> {AnyOperation}, hashes |-> <<>>, dirs |-> {}, ttl |-> 0,
         asks |-> {}, always |-> FALSE, reveal |-> FALSE]
Denial(ref, r) == [Base EXCEPT !.deny = TRUE, !.commands = {}, !.secret = ref, !.reveal = r]

\* Entries that differ from the others in confirmation, reveal or reference.
Variants == {[Base EXCEPT !.always = TRUE], [Base EXCEPT !.reveal = TRUE],
             [Base EXCEPT !.secret = "other"]}

\* The window and the directory vary for one command list only.
Sampled == {e \in Allowances :
              e.commands = {"node", "git"} \/ (e.ttl \in {0, TooLong} /\ e.dirs = {})}
Offered == Sampled \cup Variants \cup {Denial("db", FALSE), Denial("db", TRUE)}
Beside   == {Base, [Base EXCEPT !.secret = "other"]}
              \cup {Denial(r, FALSE) : r \in Names} \cup {Denial("db", TRUE)}

\* What the proof about the engine takes for granted.
ASSUME EngineConstants == Engine!ConstantsFit

-----------------------------------------------------------------------------
SuiteInit == /\ which \in {"broker", "executor", "run", "policy"}
             /\ Init /\ Supervisor!Init /\ Run!Init /\ Engine!Init

SuiteNext ==
  /\ UNCHANGED which
  /\ \/ which = "broker" /\ Next /\ UNCHANGED <<executorVars, runVars, policyVars>>
     \/ which = "executor" /\ Supervisor!Next /\ UNCHANGED <<vars, runVars, policyVars>>
     \/ which = "run" /\ Run!Next /\ UNCHANGED <<vars, executorVars, policyVars>>
     \/ which = "policy" /\ Engine!Next /\ UNCHANGED <<vars, executorVars, runVars>>

SuiteSpec == SuiteInit /\ [][SuiteNext]_<<which, vars, executorVars, runVars, policyVars>>
=============================================================================
