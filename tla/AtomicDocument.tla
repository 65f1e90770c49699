--------------------------- MODULE AtomicDocument ---------------------------
(***************************************************************************)
(* What a protected document promises its callers: every operation takes   *)
(* effect at most once, in one indivisible step, on the content its        *)
(* predecessor left, and answers its caller consistently with that step.   *)
(*                                                                         *)
(* The document is the sealed authorization state and the operation is     *)
(* consumeGrantUse: one grant, a limited number of uses, an audit trail    *)
(* that records every verdict, denials included.                           *)
(***************************************************************************)
EXTENDS Naturals

CONSTANTS Procs,      \* the operations, each run by one process
          MaxUses     \* the grant's maxUses

NoVerdict == "none"
Verdicts  == {"allowed", "exhausted"}

\* An empty authorization state holding one unused grant.
NewContent == [used |-> 0, audit |-> {}]

\* The use count is tested against the content just read.
Verdict(content) == IF content.used < MaxUses THEN "allowed" ELSE "exhausted"

\* The next content: a use is counted only when allowed, an audit event is
\* appended either way.
Consumed(content, p) ==
  [used  |-> IF Verdict(content) = "allowed" THEN content.used + 1
                                             ELSE content.used,
   audit |-> content.audit \cup {p}]

NoAnswer == "none"
Answers  == {"committed", "refused", "unknown"}

-----------------------------------------------------------------------------
VARIABLES content,    \* what the document holds
          verdict,    \* verdict[p]: what p's committed operation decided
          answer      \* answer[p]: what p's caller was told

vars == <<content, verdict, answer>>

Init == /\ content = NewContent
        /\ verdict = [p \in Procs |-> NoVerdict]
        /\ answer  = [p \in Procs |-> NoAnswer]

\* The operation of p takes effect.
Commit(p) == /\ p \notin content.audit
             /\ answer[p] = NoAnswer
             /\ content' = Consumed(content, p)
             /\ verdict' = [verdict EXCEPT ![p] = Verdict(content)]
             /\ UNCHANGED answer

\* The caller of p learns what happened.  "unknown" promises nothing.
Answer(p) == /\ answer[p] = NoAnswer
             /\ \E a \in Answers :
                  /\ a = "committed" => p \in content.audit
                  /\ a = "refused"   => p \notin content.audit
                  /\ answer' = [answer EXCEPT ![p] = a]
             /\ UNCHANGED <<content, verdict>>

Next == \E p \in Procs : Commit(p) \/ Answer(p)

Spec == Init /\ [][Next]_vars
=============================================================================
