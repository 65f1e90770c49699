--------------------------- MODULE AtomicContainer ---------------------------
(***************************************************************************)
(* What a database file promises to whoever writes it: the container only  *)
(* grows by whole mutations, each decided once and for all.  A mutation    *)
(* that is reported `ok` is in the container, one that is reported         *)
(* `refused` is not, and one whose report is `unknown` is not decided      *)
(* later behind its caller's back.                                         *)
(***************************************************************************)
CONSTANT Mutations

VARIABLES value,    \* the mutations the container consists of
          report    \* report[m]: what the caller of m was told

Reports == {"none", "ok", "refused", "unknown"}

Init == /\ value = {}
        /\ report = [m \in Mutations |-> "none"]

\* The mutation takes effect; its caller may learn in the same instant that
\* its outcome is not known.
Take(m) == /\ report[m] = "none"
           /\ m \notin value
           /\ value' = value \cup {m}
           /\ \E r \in {"none", "unknown"} : report' = [report EXCEPT ![m] = r]

Reply(m) == /\ report[m] = "none"
            /\ \/ m \in value /\ report' = [report EXCEPT ![m] = "ok"]
               \/ m \notin value /\ report' = [report EXCEPT ![m] = "refused"]
               \/ report' = [report EXCEPT ![m] = "unknown"]
            /\ UNCHANGED value

Next == \E m \in Mutations : Take(m) \/ Reply(m)

Spec == Init /\ [][Next]_<<value, report>>
=============================================================================
