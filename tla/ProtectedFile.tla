----------------------------- MODULE ProtectedFile -----------------------------
(***************************************************************************)
(* The operations on one protected file                                    *)
(* (packages/key-files/src/filesystem.ts): writing it, new or over the     *)
(* present one, streaming it, deleting it, and owning it -- a file written *)
(* in place whose publisher keeps the descriptor, and replaces it or       *)
(* empties it again.     The path names an inode; so do the hidden names   *)
(* that the operations use.  Operations of several processes interleave at *)
(* every call; a call may fail, and a process may be killed.               *)
(*                                                                         *)
(* The recovery of a stale lock is SecureFileTransition's; here it is one  *)
(* step.  Operation k makes inode k.                                       *)
(***************************************************************************)
EXTENDS Naturals, FiniteSets, Functions

CONSTANTS Procs,
          Platforms,   \* among "posix" and "win32"
          None,
          MaxStarts,   \* bound: operations
          MaxTrouble   \* bound: calls that fail, and kills

VARIABLES
  platform,
  first,    \* there was a file, inode 0
  at,       \* the inode that each name is a link to, or None
  body,     \* of each inode: "none", "empty", "part" or "whole"
  op,       \* the operation of each process, or its last one
  owned,    \* the publication each process owns
  lock,     \* the replacement lock: its process, "dead" or None
  replaced, \* the inodes that another was renamed over, or that a deletion checked
  started, trouble

vars == <<platform, first, at, body, op, owned, lock, replaced, started, trouble>>

-----------------------------------------------------------------------------
Inodes == 0..MaxStarts
Target == <<"target", 0>>
Names  == {Target} \union ({"tmp", "old", "quarantine"} \X (1..MaxStarts))

Tmp(c) == <<"tmp", c.id>>
Old(c) == <<"old", c.id>>
Quarantine(c) == <<"quarantine", c.id>>

Links(i) == {n \in Names : at[n] = i}

\* A regular file with one link that is not empty.
Regular(i) == i # None /\ Cardinality(Links(i)) = 1 /\ body[i] # "empty"

NoPublication == [inode |-> None, made |-> {}, cleaned |-> FALSE]

Idle(c) == c.pc = "end"
At(p, pc) == op[p].pc = pc

\* What each operation does in order; the steps of Cleaning are taken as well when
\* an earlier one failed.
Steps(kind) ==
  CASE kind = "create"  -> <<"tmp", "link", "untmp", "check", "cleantmp", "end">>
    [] kind = "replace" ->
         IF platform = "posix"
         THEN <<"tmp", "lock", "expect", "place", "check", "unlock", "cleantmp", "end">>
         ELSE <<"tmp", "lock", "expect", "displace", "moved", "place", "check", "undo",
                "recheck", "unlock", "cleantmp", "end">>
    [] kind = "own"     -> <<"open", "fill", "flush", "check", "end">>
    [] kind = "swap"    ->
         IF platform = "posix"
         THEN <<"lock", "verify", "tmp", "again", "place", "transfer", "cleantmp", "unlock", "end">>
         ELSE <<"lock", "verify", "tmp", "again", "displace", "moved", "place", "transfer",
                "dropold", "undo", "cleantmp", "unlock", "end">>
    [] kind = "clean"   -> <<"verify", "truncate", "end">>
    [] kind = "delete"  -> <<"expect", "quarantine", "moved", "drop", "dropagain", "end">>

Cleaning == {"undo", "cleantmp", "unlock", "dropagain", "end"}

\* The first of the steps that is left after that of c.
Following(c, among) ==
  LET s == Steps(c.kind)
      here == CHOOSE k \in DOMAIN s : s[k] = c.pc
      later == {k \in DOMAIN s : k > here /\ s[k] \in among}
  IN s[CHOOSE k \in later : \A j \in later : k <= j]

Cleanup(c) == Following(c, Cleaning)
After(c)   == IF c.code = "ok" THEN Following(c, Range(Steps(c.kind))) ELSE Cleanup(c)

Set(p, c)       == op' = [op EXCEPT ![p] = c]
Goes(p, c)      == Set(p, [c EXCEPT !.pc = After(c)])
Fails(p, code)  == Set(p, [op[p] EXCEPT !.pc = Cleanup(op[p]), !.code = code])

Trouble == trouble < MaxTrouble
\* A call that fails leaves everything as it was.
Fault(p) == /\ Trouble /\ trouble' = trouble + 1 /\ Fails(p, "failed")
            /\ UNCHANGED <<at, body, owned, lock, replaced>>

Same == UNCHANGED <<platform, first, started>>
Well == UNCHANGED trouble

-----------------------------------------------------------------------------
(* Files that are written beside the target and put in its place.          *)

Start(p) ==
  /\ Idle(op[p]) /\ started < MaxStarts
  /\ \E kind \in {"create", "replace", "own", "swap", "clean", "delete"} :
       /\ kind \in {"swap", "clean"} <=> owned[p].inode # None
       /\ Set(p, [kind |-> kind, pc |-> Steps(kind)[1], id |-> started + 1, expects |-> None,
                  placed |-> FALSE, code |-> "ok"])
  /\ started' = started + 1
  /\ UNCHANGED <<platform, first, at, body, owned, lock, replaced, trouble>>

\* writeTemporaryFile removes what it could not finish.
WriteTemporary(p) ==
  /\ At(p, "tmp") /\ Same
  /\ \/ /\ at' = [at EXCEPT ![Tmp(op[p])] = op[p].id]
        /\ body' = [body EXCEPT ![op[p].id] = "whole"]
        /\ Goes(p, op[p]) /\ Well /\ UNCHANGED <<owned, lock, replaced>>
     \/ Fault(p)

Link(p) ==
  /\ At(p, "link") /\ Same /\ UNCHANGED <<body, owned, lock, replaced>>
  /\ IF at[Target] # None
     THEN Fails(p, "exists") /\ Well /\ UNCHANGED at
     ELSE \/ at' = [at EXCEPT ![Target] = op[p].id] /\ Goes(p, [op[p] EXCEPT !.placed = TRUE]) /\ Well
          \/ Fault(p)

RemoveTemporary(p) ==
  /\ op[p].pc \in {"untmp", "cleantmp"} /\ Same
  /\ \/ /\ at' = [at EXCEPT ![Tmp(op[p])] = None] /\ Goes(p, op[p])
        /\ Well /\ UNCHANGED <<body, owned, lock, replaced>>
     \/ at[Tmp(op[p])] # None /\ Fault(p)

\* The file that the path names now is looked at once more, and the directory is
\* flushed; a file written in place must be the one that was written.
Check(p) ==
  /\ op[p].pc \in {"check", "recheck"} /\ Same /\ UNCHANGED <<at, body, owned, lock, replaced>>
  /\ IF at[Target] = None THEN Fails(p, "missing") /\ Well
     ELSE IF ~Regular(at[Target]) \/ (op[p].kind = "own" /\ at[Target] # op[p].id)
     THEN Fails(p, "unsafe") /\ Well
     ELSE \/ Goes(p, op[p]) /\ Well
          \/ Fault(p)

Lock(p) ==
  /\ At(p, "lock") /\ Same /\ UNCHANGED <<at, body, owned, replaced>>
  /\ IF at[Target] = None THEN Fails(p, "missing") /\ Well /\ UNCHANGED lock
     ELSE IF op[p].kind = "swap" /\ ~Regular(at[Target])
     THEN Fails(p, "unsafe") /\ Well /\ UNCHANGED lock
     ELSE IF lock \notin {None, "dead"} THEN Fails(p, "busy") /\ Well /\ UNCHANGED lock
     ELSE lock' = p /\ Goes(p, op[p]) /\ Well

Expect(p) ==
  /\ At(p, "expect") /\ Same /\ Well /\ UNCHANGED <<at, body, owned, lock, replaced>>
  /\ IF at[Target] = None THEN Fails(p, "missing")
     ELSE IF ~Regular(at[Target]) THEN Fails(p, "unsafe")
     ELSE Goes(p, [op[p] EXCEPT !.expects = at[Target]])

\* The target is renamed away: on Windows to replace it, and to delete it.
Displace(p) ==
  /\ op[p].pc \in {"displace", "quarantine"} /\ Same
  /\ LET away == IF At(p, "displace") THEN Old(op[p]) ELSE Quarantine(op[p]) IN
     IF at[Target] = None THEN Fails(p, "missing") /\ Well /\ UNCHANGED <<at, body, owned, lock, replaced>>
     ELSE \/ /\ at' = [at EXCEPT ![away] = at[Target], ![Target] = None]
             /\ Goes(p, op[p]) /\ Well /\ UNCHANGED <<body, owned, lock, replaced>>
          \/ Fault(p)

Away(c) == IF c.kind = "delete" THEN at[Quarantine(c)] ELSE at[Old(c)]

\* What is not the expected file is only put back by an owner's replacement.
Moved(p) ==
  /\ At(p, "moved") /\ Same /\ Well /\ UNCHANGED <<body, owned, lock, replaced>>
  /\ IF Away(op[p]) = op[p].expects THEN Goes(p, op[p]) /\ UNCHANGED at
     ELSE /\ Fails(p, "unsafe")
          /\ at' = IF op[p].kind = "swap"
                   THEN [at EXCEPT ![Target] = Away(op[p]), ![Old(op[p])] = None] ELSE at

\* What a rename over the target takes away was not there for good.
Over == IF at[Target] = None THEN replaced ELSE replaced \union {at[Target]}

Place(p) ==
  /\ At(p, "place") /\ Same
  /\ \/ /\ at' = [at EXCEPT ![Target] = op[p].id, ![Tmp(op[p])] = None]
        /\ replaced' = Over
        /\ Goes(p, [op[p] EXCEPT !.placed = TRUE])
        /\ Well /\ UNCHANGED <<body, owned, lock>>
     \/ Fault(p)

\* Windows: once the new file is in place the displaced one is removed; if it is
\* not, the displaced one is put back, where nothing took its place.
Undo(p) ==
  /\ At(p, "undo") /\ Same
  /\ LET c == op[p]  there == at[Old(c)] # None /\ at[Old(c)] = c.expects
         back == IF c.kind = "swap" THEN owned[p].inode # c.id ELSE at[Target] = None IN
     IF there /\ c.placed /\ c.kind = "replace"
     THEN \/ /\ at' = [at EXCEPT ![Old(c)] = None] /\ replaced' = replaced \union {c.expects}
             /\ Goes(p, c) /\ Well /\ UNCHANGED <<body, owned, lock>>
          \/ Fault(p)
     ELSE IF there /\ c.code # "ok" /\ back
     THEN \/ /\ at' = [at EXCEPT ![Target] = c.expects, ![Old(c)] = None] /\ Goes(p, c)
             /\ Well /\ UNCHANGED <<body, owned, lock, replaced>>
          \/ Fault(p)
     ELSE Goes(p, c) /\ Well /\ UNCHANGED <<at, body, owned, lock, replaced>>

Unlock(p) ==
  /\ At(p, "unlock") /\ Same
  /\ \/ /\ lock' = IF lock = p THEN None ELSE lock
        /\ Goes(p, op[p]) /\ Well /\ UNCHANGED <<at, body, owned, replaced>>
     \/ lock = p /\ Fault(p)

-----------------------------------------------------------------------------
(* Deleting.                                                               *)

\* The file that was checked is unlinked; what took its place is left.
Drop(p) ==
  /\ op[p].pc \in {"drop", "dropagain"} /\ Same
  /\ LET q == Quarantine(op[p]) IN
     IF at[q] # None /\ at[q] = op[p].expects
     THEN \/ /\ at' = [at EXCEPT ![q] = None] /\ replaced' = replaced \union {op[p].expects}
             /\ Goes(p, op[p]) /\ Well /\ UNCHANGED <<body, owned, lock>>
          \/ Fault(p)
     ELSE Goes(p, op[p]) /\ Well /\ UNCHANGED <<at, body, owned, lock, replaced>>

-----------------------------------------------------------------------------
(* Owned files, written in place.                                          *)

OpenOwned(p) ==
  /\ At(p, "open") /\ Same /\ UNCHANGED <<lock, replaced>>
  /\ IF at[Target] # None THEN Fails(p, "exists") /\ Well /\ UNCHANGED <<at, body, owned>>
     ELSE /\ at' = [at EXCEPT ![Target] = op[p].id]
          /\ body' = [body EXCEPT ![op[p].id] = "empty"]
          /\ owned' = [owned EXCEPT ![p] = [inode |-> op[p].id, made |-> {op[p].id}, cleaned |-> FALSE]]
          /\ Goes(p, [op[p] EXCEPT !.placed = TRUE]) /\ Well

Fill(p) ==
  /\ op[p].pc \in {"fill", "flush"} /\ Same
  /\ \/ /\ body' = [body EXCEPT ![op[p].id] = IF At(p, "fill") THEN "part" ELSE "whole"]
        /\ Goes(p, op[p]) /\ Well /\ UNCHANGED <<at, owned, lock, replaced>>
     \/ Fault(p)

\* The path must name the inode whose descriptor is held.
VerifyOwned(p) ==
  /\ op[p].pc \in {"verify", "again"} /\ Same /\ Well /\ UNCHANGED <<at, body, lock, replaced>>
  /\ LET i == owned[p].inode  fine == at[Target] = i /\ Cardinality(Links(i)) = 1 IN
     IF fine THEN Goes(p, [op[p] EXCEPT !.expects = i]) /\ UNCHANGED owned
     ELSE /\ Fails(p, "unsafe")
          /\ owned' = IF op[p].kind = "clean" THEN [owned EXCEPT ![p] = NoPublication] ELSE owned

Truncate(p) ==
  /\ At(p, "truncate") /\ Same
  /\ LET i == owned[p].inode IN
     IF Cardinality(Links(i)) # 1
     THEN /\ Fails(p, "unsafe") /\ owned' = [owned EXCEPT ![p] = NoPublication]
          /\ Well /\ UNCHANGED <<at, body, lock, replaced>>
     ELSE \/ /\ body' = [body EXCEPT ![i] = "empty"]
             /\ owned' = [owned EXCEPT ![p] = [@ EXCEPT !.inode = None, !.cleaned = TRUE]]
             /\ Goes(p, op[p]) /\ Well /\ UNCHANGED <<at, lock, replaced>>
          \/ Fault(p)

\* The new file is verified, and its descriptor becomes the one that is held; the
\* directory is flushed only then.
Transfer(p) ==
  /\ At(p, "transfer") /\ Same /\ UNCHANGED <<at, body, lock, replaced>>
  /\ IF at[Target] # op[p].id \/ ~Regular(at[Target])
     THEN Fails(p, IF at[Target] = None THEN "missing" ELSE "unsafe") /\ Well /\ UNCHANGED owned
     ELSE LET mine == [owned EXCEPT ![p].inode = op[p].id, ![p].made = @ \union {op[p].id}] IN
          \/ Goes(p, op[p]) /\ Well /\ owned' = mine
          \/ Fails(p, "failed") /\ Trouble /\ trouble' = trouble + 1 /\ owned' \in {owned, mine}

DropOld(p) ==
  /\ At(p, "dropold") /\ Same
  /\ \/ /\ at' = [at EXCEPT ![Old(op[p])] = None] /\ replaced' = replaced \union {op[p].expects}
        /\ Goes(p, op[p]) /\ Well /\ UNCHANGED <<body, owned, lock>>
     \/ Fault(p)

Release(p) ==
  /\ Idle(op[p]) /\ owned[p].inode # None
  /\ owned' = [owned EXCEPT ![p] = NoPublication]
  /\ UNCHANGED <<platform, first, at, body, op, lock, replaced, started, trouble>>

-----------------------------------------------------------------------------
Crash(p) ==
  /\ ~Idle(op[p]) /\ Trouble /\ trouble' = trouble + 1
  /\ Set(p, [op[p] EXCEPT !.pc = "end", !.kind = "killed"])
  /\ lock' = IF lock = p THEN "dead" ELSE lock
  /\ owned' = [owned EXCEPT ![p] = NoPublication]
  /\ UNCHANGED <<platform, first, at, body, replaced, started>>

Init ==
  /\ platform \in Platforms
  /\ first \in BOOLEAN
  /\ at = [n \in Names |-> IF n = Target /\ first THEN 0 ELSE None]
  /\ body = [i \in Inodes |-> IF i = 0 THEN "whole" ELSE "none"]
  /\ op = [p \in Procs |-> [kind |-> "none", pc |-> "end", id |-> 0, expects |-> None,
                            placed |-> FALSE, code |-> "ok"]]
  /\ owned = [p \in Procs |-> NoPublication]
  /\ lock = None /\ replaced = {} /\ started = 0 /\ trouble = 0

Next == \E p \in Procs :
  \/ Start(p) \/ WriteTemporary(p) \/ Link(p) \/ RemoveTemporary(p) \/ Check(p) \/ Lock(p)
  \/ Expect(p) \/ Displace(p) \/ Moved(p) \/ Place(p) \/ Undo(p) \/ Unlock(p) \/ Drop(p)
  \/ OpenOwned(p) \/ Fill(p) \/ VerifyOwned(p) \/ Truncate(p) \/ Transfer(p) \/ DropOld(p)
  \/ Release(p) \/ Crash(p)

Spec == Init /\ [][Next]_vars

-----------------------------------------------------------------------------
Done(p, kinds, code) == Idle(op[p]) /\ op[p].kind \in kinds /\ op[p].code = code

\* A file that was reported written stays, under some name and whole, until another
\* is put over it, it is checked and deleted, or its owner empties it; so does the
\* one that was there before.  (On Windows a file created while another command
\* has displaced the target may be lost when that command puts it back.)
WrittenStays ==
  LET Stays(i) == \/ i \in replaced
                  \/ Links(i) # {} /\ body[i] = "whole"
                  \/ Links(i) # {} /\ \E q \in Procs : i \in owned[q].made /\ owned[q].cleaned
  IN /\ first => Stays(0)
     /\ \A p \in Procs :
          Done(p, {"replace", "swap"} \union (IF platform = "posix" THEN {"create", "own"} ELSE {}),
               "ok") => Stays(op[p].id)

\* A failure that callers take for definite left nothing in place.  (On Windows a
\* new file may have been displaced while it was checked, and be put back.)
DefiniteFailures ==
  platform = "posix" =>
    \A p \in Procs : \A code \in {"exists", "missing"} :
      Done(p, {"create", "replace", "own"}, code) => at[Target] # op[p].id

\* An owner that emptied its file left none of what it wrote, but for what another
\* command was deleting at that time, under its hidden name.  (On Windows the file
\* that it displaced stays, if a call failed after it was replaced.)
CleanedIsGone ==
  platform = "posix" =>
    \A p \in Procs : owned[p].cleaned =>
      \A i \in owned[p].made :
        body[i] = "empty" \/ \A n \in Links(i) : n[1] = "quarantine"

FilesAreSafe == WrittenStays /\ DefiniteFailures /\ CleanedIsGone
=============================================================================
