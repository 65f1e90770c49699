------------------------------ MODULE AtomicStore ------------------------------
(***************************************************************************)
(* What a persistence port promises about each of its calls: it takes      *)
(* effect at one instant, as a whole, where its revisions are the current  *)
(* ones, and at most once.  A call that is answered `ok` has taken effect; *)
(* one that is refused, in the sense of DatabaseSession's                  *)
(* isProvenRejectedMutation, never does; of one whose outcome is unknown   *)
(* nothing is said, it may still take effect.                              *)
(***************************************************************************)
EXTENDS EncryptedDatabaseStore, Sequences

VARIABLES store,   \* the database, or Empty
          calls,   \* the mutations that were asked for, in their order
          taken,   \* the calls that took effect
          report   \* call -> what the caller was told

Empty == [database |-> [rev |-> 0, digest |-> 0, catalog |-> {}], heads |-> <<>>,
          exists |-> FALSE]

Effective(s, m) ==
  IF m.kind = "initialize" THEN [Empty EXCEPT !.exists = TRUE]
  ELSE [database |-> StoreApplied(s, m).database, heads |-> StoreApplied(s, m).heads,
        exists |-> TRUE]

Accepted(s, m) == IF m.kind = "initialize" THEN ~ s.exists
                                           ELSE s.exists /\ StoreAccepts(s, m)

Init == store = Empty /\ calls = <<>> /\ taken = {} /\ report = <<>>

Ask == /\ Len(calls') = Len(calls) + 1 /\ SubSeq(calls', 1, Len(calls)) = calls
       /\ report' = Append(report, "none") /\ UNCHANGED <<store, taken>>

Take(k) == /\ k \notin taken /\ report[k] # "refused" /\ Accepted(store, calls[k])
           /\ store' = Effective(store, calls[k]) /\ taken' = taken \cup {k}
           /\ UNCHANGED <<calls, report>>

Tell(k, what) == /\ report[k] = "none"
                 /\ what = "ok" => k \in taken
                 /\ what = "refused" => k \notin taken
                 /\ report' = [report EXCEPT ![k] = what]
                 /\ UNCHANGED <<store, calls, taken>>

Next == \/ Ask
        \/ \E k \in DOMAIN calls :
             Take(k) \/ \E what \in {"ok", "refused", "unknown"} : Tell(k, what)

Spec == Init /\ [][Next]_<<store, calls, taken, report>>
=============================================================================
