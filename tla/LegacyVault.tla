------------------------------ MODULE LegacyVault ------------------------------
(***************************************************************************)
(* The commands on a vault of the older format                             *)
(* (apps/cli/src/local-vault-cli.ts): one encrypted document, in a file or *)
(* in a MongoDB collection, a portable key file with a revision anchor     *)
(* beside it, and recovery kits.  A command reads the document, unlocks it *)
(* with the key file and the anchor, writes files of its own, then the     *)
(* document, then the anchor; it may fail or be killed anywhere, and the   *)
(* document may be put back to an earlier one.                             *)
(*                                                                         *)
(* A file is held by one command at a time (the protocol of the lock is    *)
(* that of FileEncryptedDatabase, here one step), a collection is shared,  *)
(* and so are the key files of both.  A command draws one number for what  *)
(* it makes: its write, its kit and its key.  Passphrases are left out.    *)
(***************************************************************************)
EXTENDS Naturals, FiniteSets

CONSTANTS Procs,
          Paths,       \* of key files; the anchor of one is beside it
          KitPaths,    \* of recovery kits
          Stores,      \* among "file" and "mongodb"
          None,
          MaxStarts,   \* bound: commands
          MaxTrouble   \* bound: writes that fail or are done and reported failed, kills,
                       \* and times that an earlier document is put back

VARIABLES
  store,
  doc,      \* the document, or None
  past,     \* the documents there were
  keyAt,    \* the key in each key file, or None
  anchorAt, \* what each anchor says, or None
  kitAt,    \* the kit in each recovery file, or None
  lock,     \* of a file: the command that made it, or None
  proc,     \* the command that each process runs, or what it ended with
  acked,    \* the writes acknowledged to the user of each key file
  overwritten, \* a key was copied over another
  destroyed, \* a vault was destroyed
  starts, faults, crashes, restores

vars == <<store, doc, past, keyAt, anchorAt, kitAt, lock, proc, acked,
          overwritten, destroyed, starts, faults, crashes, restores>>

files  == <<keyAt, anchorAt, kitAt>>
ghosts == <<past, acked, overwritten, destroyed>>
counts == <<starts, faults, crashes, restores>>

-----------------------------------------------------------------------------
\* Two documents of one revision differ by a write; so do their digests.
Document(rev, key, active, revoked, saved) ==
  [rev |-> rev, key |-> key, active |-> active, revoked |-> revoked, saved |-> saved]

AnchorOf(d) == [key |-> d.key, of |-> d]

Ended(told, did, slipped) == [pc |-> "idle", told |-> told, did |-> did, slipped |-> slipped]

Running(p) == proc[p].pc # "idle"

At(p, pc) == proc[p].pc = pc

Set(p, r) == proc' = [proc EXCEPT ![p] = r]

Goto(p, pc) == Set(p, [proc[p] EXCEPT !.pc = pc])

\* withStore: the document is written as `tracked` says when the command closes.
Failed(p) == Set(p, [proc[p] EXCEPT !.pc = "close", !.error = TRUE])

Trouble == faults + crashes + restores < MaxTrouble

UseKit(c) == c.cmd = "use"

\* What each command does, in order.  Putting, removing and renaming a name are
\* the same writes; listing, searching and viewing are the same reads.
InitSteps    == <<"keyfile", "open", "store", "anchor", "close">>
WriteSteps   == <<"open", "read", "unlock", "store", "anchor", "close">>
GetSteps     == <<"open", "read", "unlock", "close">>
DoctorSteps  == <<"open", "read", "unlock", "close">>
KitSteps     == <<"open", "read", "unlock", "kitfile", "verify", "store", "anchor", "close">>
RevokeSteps  == <<"open", "read", "unlock", "store", "anchor", "close">>
UseSteps     == <<"open", "read", "authorize", "kitfile", "keyfile", "verify", "store",
                  "anchor", "close">>
CopySteps    == <<"source", "keyfile", "copyanchor", "close">>
RewrapSteps  == <<"source", "keyfile", "close">>
DestroySteps == <<"open", "read", "unlock", "recheck", "store", "rmanchor", "rmkey", "close">>

Steps == [init |-> InitSteps, write |-> WriteSteps, get |-> GetSteps, doctor |-> DoctorSteps,
          kit |-> KitSteps, revoke |-> RevokeSteps, use |-> UseSteps, copy |-> CopySteps,
          rewrap |-> RewrapSteps, destroy |-> DestroySteps]

After(c) == LET s == Steps[c.cmd] IN s[1 + CHOOSE k \in DOMAIN s : s[k] = c.pc]

Next1(p) == [proc[p] EXCEPT !.pc = After(proc[p])]

-----------------------------------------------------------------------------
(* Starting: destinations that are to be made must be vacant.              *)

Commands == DOMAIN Steps

Vacant(c) ==
  /\ c.cmd = "init" => keyAt[c.path] = None /\ anchorAt[c.path] = None
  /\ c.mode = "create" =>
       /\ c.cmd = "kit" => kitAt[c.out] = None
       /\ c.cmd = "copy" => keyAt[c.dest] = None
       /\ UseKit(c) => kitAt[c.out] = None /\ keyAt[c.dest] = None /\ anchorAt[c.dest] = None

Start(p) ==
  /\ ~Running(p) /\ starts < MaxStarts
  /\ \E cmd \in Commands, path, dest \in Paths, mode \in {"create", "replace"},
        in, out \in KitPaths :
       LET c == [pc |-> Steps[cmd][1], cmd |-> cmd, path |-> path, dest |-> dest, mode |-> mode,
                 in |-> in, out |-> out, id |-> starts + 1, doc |-> None, key |-> None,
                 tracked |-> "none", art |-> FALSE, error |-> FALSE, did |-> FALSE,
                 slipped |-> FALSE] IN
       \* arguments that a command does not have are all alike
       /\ cmd \notin {"copy", "use"} => dest = path
       /\ cmd \notin {"copy", "use", "kit"} => mode = IF cmd = "rewrap" THEN "replace" ELSE "create"
       /\ cmd = "copy" => dest # path
       /\ cmd \notin {"use", "revoke"} => in = out
       /\ cmd \notin {"use", "revoke", "kit"} => in = CHOOSE k \in KitPaths : TRUE
       /\ cmd = "use" => in # out
       /\ cmd = "revoke" => out = in
       /\ Vacant(c)
       /\ Set(p, c)
  /\ starts' = starts + 1
  /\ UNCHANGED <<store, doc, lock, faults, crashes, restores, files, ghosts>>

\* The lock of a file whose maker is gone is taken away first.
Open(p) ==
  /\ At(p, "open")
  /\ IF store = "file" /\ lock # None /\ lock # p /\ Running(lock)
     THEN Failed(p) /\ UNCHANGED lock
     ELSE Set(p, Next1(p)) /\ lock' = IF store = "file" THEN p ELSE None
  /\ UNCHANGED <<store, doc, files, ghosts, counts>>

-----------------------------------------------------------------------------
(* Reading and unlocking.                                                  *)

RequireVault(p) ==
  /\ At(p, "read")
  /\ IF doc = None THEN Failed(p) ELSE Set(p, [Next1(p) EXCEPT !.doc = doc])
  /\ UNCHANGED <<store, doc, lock, files, ghosts, counts>>

\* An anchor trusts a document that is later than its own, or the same one.
Trusts(a, d) == a.key = d.key /\ (d.rev > a.of.rev \/ d = a.of)

\* The key file opens the document, and the anchor does not object.  A missing
\* one is accepted by doctor alone (--accept-current).
UnlockVault(p) ==
  /\ At(p, "unlock")
  /\ LET c == proc[p]  a == anchorAt[c.path] IN
     IF /\ keyAt[c.path] = c.doc.key
        /\ IF a = None THEN c.cmd = "doctor" ELSE Trusts(a, c.doc)
        /\ c.cmd = "revoke" =>
             kitAt[c.in] \in c.doc.active /\ Cardinality(c.doc.active) > 1
     THEN IF a # None /\ a.of = c.doc THEN Set(p, Next1(p))
          ELSE Goto(p, IF a = None THEN "initialize" ELSE "advance")
     ELSE Failed(p)
  /\ UNCHANGED <<store, doc, lock, files, ghosts, counts>>

\* A kit opens it, and the anchor is of this very document.
Authorize(p) ==
  /\ At(p, "authorize")
  /\ LET c == proc[p] IN
     IF kitAt[c.in] \in c.doc.active /\ anchorAt[c.path] = AnchorOf(c.doc)
     THEN Set(p, Next1(p)) ELSE Failed(p)
  /\ UNCHANGED <<store, doc, lock, files, ghosts, counts>>

ReadSource(p) ==
  /\ At(p, "source")
  /\ LET c == proc[p] IN
     IF /\ keyAt[c.path] # None
        /\ c.cmd = "copy" => /\ anchorAt[c.path] # None
                             /\ c.mode = "create" => anchorAt[c.dest] = None
     THEN Set(p, [Next1(p) EXCEPT !.key = keyAt[c.path]]) ELSE Failed(p)
  /\ UNCHANGED <<store, doc, lock, files, ghosts, counts>>

-----------------------------------------------------------------------------
(* Writing.                                                                *)

\* What a write of a protected file may end with, given what is there.
Outcomes(there, mode) ==
  IF (there = None) = (mode = "replace") THEN {"refused"}
  ELSE {"ok"} \union (IF Trouble THEN {"lost", "unsure"} ELSE {})

Faulty(outcome) == faults' = faults + IF outcome \in {"lost", "unsure", "slipped"} THEN 1 ELSE 0

Written(outcome) == outcome \in {"ok", "unsure", "slipped"}

\* Mutant: a file whose write failed was not written.
ArtifactTrusted(p, outcome) ==
  LET c == [proc[p] EXCEPT !.did = @ \/ (Written(outcome) /\ proc[p].cmd # "rewrap")] IN
  IF outcome = "ok" THEN Set(p, [c EXCEPT !.pc = After(c), !.art = c.cmd # "rewrap"])
  ELSE Set(p, [c EXCEPT !.pc = "close", !.error = TRUE])

\* A file of the command is there, or may be; rewrapping leaves the key as it is.
Artifact(p, outcome) ==
  LET c == [proc[p] EXCEPT !.did = @ \/ (Written(outcome) /\ proc[p].cmd # "rewrap")] IN
  IF outcome = "ok" THEN Set(p, [c EXCEPT !.pc = After(c), !.art = c.cmd # "rewrap"])
  ELSE Set(p, [c EXCEPT !.pc = "close", !.error = TRUE,
                        !.art = @ \/ (outcome # "refused" /\ c.cmd # "rewrap")])

WriteRecoveryKit(p) ==
  /\ At(p, "kitfile")
  /\ \E outcome \in Outcomes(kitAt[proc[p].out], proc[p].mode) :
       /\ kitAt' = [kitAt EXCEPT ![proc[p].out] = IF Written(outcome) THEN proc[p].id ELSE @]
       /\ Artifact(p, outcome) /\ Faulty(outcome)
  /\ UNCHANGED <<store, doc, keyAt, anchorAt, lock, starts, crashes, restores, ghosts>>

\* The key of a new vault and of a recovered one is new.
WritePortableKey(p) ==
  /\ At(p, "keyfile")
  /\ LET c == proc[p]  key == IF c.key = None THEN c.id ELSE c.key IN
     \E outcome \in Outcomes(keyAt[c.dest], c.mode) :
       /\ keyAt' = [keyAt EXCEPT ![c.dest] = IF Written(outcome) THEN key ELSE @]
       /\ Artifact(p, outcome) /\ Faulty(outcome)
       /\ overwritten' = (overwritten \/ (Written(outcome) /\ c.key \notin {None, keyAt[c.dest]}
                                          /\ keyAt[c.dest] # None))
  /\ UNCHANGED <<store, doc, past, anchorAt, kitAt, lock, acked, destroyed, starts, crashes,
                 restores>>

\* What was written is read again.
VerifyArtifacts(p) ==
  /\ At(p, "verify")
  /\ LET c == proc[p] IN
     IF kitAt[c.out] = c.id /\ (UseKit(c) => keyAt[c.dest] = c.id)
     THEN Set(p, Next1(p)) ELSE Failed(p)
  /\ UNCHANGED <<store, doc, lock, files, ghosts, counts>>

Recheck(p) ==
  /\ At(p, "recheck")
  /\ IF doc = proc[p].doc THEN Set(p, Next1(p)) ELSE Failed(p)
  /\ UNCHANGED <<store, doc, lock, files, ghosts, counts>>

\* The document that a command stores.
Updated(c) ==
  IF c.cmd = "init" THEN Document(0, c.id, {}, {}, {c.id})
  ELSE LET d == [c.doc EXCEPT !.rev = @ + 1, !.saved = @ \union {c.id}] IN
       CASE c.cmd = "write"   -> d
         [] c.cmd = "kit"     -> [d EXCEPT !.active = @ \union {c.id}]
         [] c.cmd = "revoke"  -> [d EXCEPT !.active = @ \ {kitAt[c.in]},
                                           !.revoked = @ \union {kitAt[c.in]}]
         [] c.cmd = "use"     -> [d EXCEPT !.key = c.id, !.active = {c.id}, !.revoked = {}]
         [] c.cmd = "destroy" -> None

\* Stores compare the revision.
Expected(c) == IF c.cmd = "init" THEN doc = None ELSE doc # None /\ doc.rev = c.doc.rev

\* The document of a file is checked once more after it is in place; a check that
\* fails is taken for one that came before.
StoreOutcomes(c) ==
  IF ~Expected(c) THEN {"refused"}
  ELSE {"ok"} \union (IF Trouble THEN {"lost", "unsure"} ELSE {})
              \union (IF Trouble /\ store = "file" /\ c.cmd # "destroy"
                      THEN {"slipped"} ELSE {})

Tracked(outcome) == CASE outcome = "ok" -> "committed"
                      [] outcome \in {"refused", "slipped"} -> "pre-commit"
                      [] OTHER -> "ambiguous"

WriteStore(p) ==
  /\ At(p, "store")
  /\ LET c == proc[p]  next == Updated(c) IN
     \E outcome \in StoreOutcomes(c) :
       /\ doc' = IF Written(outcome) THEN next ELSE doc
       /\ destroyed' = (destroyed \/ (Written(outcome) /\ next = None))
       /\ past' = IF Written(outcome) /\ next # None /\ restores = 0
                  THEN past \union {next} ELSE past
       /\ Set(p, [c EXCEPT
            !.pc = IF outcome = "ok" THEN After(c) ELSE "close",
            !.doc = IF outcome = "ok" /\ c.cmd # "destroy" THEN next ELSE @,
            !.error = outcome # "ok", !.did = @ \/ Written(outcome),
            !.slipped = outcome = "slipped",
            !.tracked = Tracked(outcome)])
       /\ Faulty(outcome)
  /\ UNCHANGED <<store, lock, acked, overwritten, starts, crashes, restores, files>>

\* The anchor follows the document; one that a recovery makes is as its key file.
WriteAnchor(p) ==
  /\ proc[p].pc \in {"anchor", "advance", "initialize"}
  /\ LET c    == proc[p]
         path == IF c.pc = "anchor" /\ UseKit(c) THEN c.dest ELSE c.path
         mode == CASE c.pc = "initialize" -> "create"
                   [] c.pc = "anchor" -> IF c.cmd = "init" \/ UseKit(c) THEN c.mode ELSE "replace"
                   [] OTHER -> "replace"
     IN \E outcome \in Outcomes(anchorAt[path], mode) :
          /\ anchorAt' = [anchorAt EXCEPT ![path] = IF Written(outcome) THEN AnchorOf(c.doc) ELSE @]
          /\ IF outcome # "ok" THEN Failed(p)
             ELSE Goto(p, After(IF c.pc = "anchor" THEN c ELSE [c EXCEPT !.pc = "unlock"]))
          /\ Faulty(outcome)
  /\ UNCHANGED <<store, doc, keyAt, kitAt, lock, starts, crashes, restores, ghosts>>

CopyAnchor(p) ==
  /\ At(p, "copyanchor")
  /\ LET c == proc[p] IN
     \E outcome \in IF anchorAt[c.path] = None THEN {"refused"}
                    ELSE Outcomes(anchorAt[c.dest], c.mode) :
       /\ anchorAt' = [anchorAt EXCEPT ![c.dest] = IF Written(outcome) THEN anchorAt[c.path] ELSE @]
       /\ IF outcome = "ok" /\ keyAt[c.dest] = c.key THEN Set(p, Next1(p)) ELSE Failed(p)
       /\ Faulty(outcome)
  /\ UNCHANGED <<store, doc, keyAt, kitAt, lock, starts, crashes, restores, ghosts>>

\* Both files are deleted, whatever becomes of the first.
RemoveFile(p) ==
  /\ proc[p].pc \in {"rmanchor", "rmkey"}
  /\ LET c == proc[p]  at == IF c.pc = "rmkey" THEN keyAt ELSE anchorAt IN
     \E outcome \in IF at[c.path] = None THEN {"lost"} ELSE Outcomes(at[c.path], "replace") :
       LET gone == IF Written(outcome) THEN [at EXCEPT ![c.path] = None] ELSE at IN
       /\ IF c.pc = "rmkey" THEN keyAt' = gone /\ UNCHANGED anchorAt
                            ELSE anchorAt' = gone /\ UNCHANGED keyAt
       /\ Set(p, [Next1(p) EXCEPT !.error = @ \/ outcome # "ok"])
       /\ IF at[c.path] = None THEN UNCHANGED faults ELSE Faulty(outcome)
  /\ UNCHANGED <<store, doc, kitAt, lock, starts, crashes, restores, ghosts>>

-----------------------------------------------------------------------------
(* Ending.                                                                 *)

\* A failure is definite if the document was not, and no file was, written.
Told(c, closed) ==
  IF ~c.error /\ closed THEN "ok"
  ELSE IF c.tracked \in {"committed", "ambiguous"} \/ c.art THEN "unsure" ELSE "failed"

Close(p) ==
  /\ At(p, "close")
  /\ \E closed \in IF lock = p /\ Trouble THEN {TRUE, FALSE} ELSE {TRUE} :
       LET c == proc[p]  told == Told(c, closed) IN
       /\ Set(p, Ended(told, c.did, c.slipped))
       /\ faults' = faults + IF closed THEN 0 ELSE 1
       /\ acked' = IF told # "ok" \/ c.tracked # "committed" THEN acked
                   ELSE [acked EXCEPT ![c.dest] = @ \union {c.id}]
  /\ lock' = IF lock = p THEN None ELSE lock
  /\ UNCHANGED <<store, doc, past, overwritten, destroyed, starts, crashes, restores, files>>

\* A kill leaves the lock of the file.
Crash(p) ==
  /\ Running(p) /\ Trouble
  /\ Set(p, Ended("killed", FALSE, FALSE)) /\ crashes' = crashes + 1
  /\ UNCHANGED <<store, doc, lock, starts, faults, restores, files, ghosts>>

\* The data file or the collection is put back from a backup.
Restore ==
  /\ restores = 0 /\ Trouble /\ doc # None
  /\ \E d \in past \ {doc} : doc' = d
  /\ restores' = restores + 1 /\ past' = {}
  /\ UNCHANGED <<store, lock, proc, acked, overwritten, destroyed, starts, faults, crashes, files>>

-----------------------------------------------------------------------------
\* Nothing, or a vault with one kit.
Init ==
  /\ store \in Stores
  /\ \E made \in BOOLEAN :
       LET first == Document(1, 0, {0}, {}, {0})
           path  == CHOOSE q \in Paths : TRUE
           kit   == CHOOSE q \in KitPaths : TRUE
       IN /\ doc = IF made THEN first ELSE None
          /\ past = IF made THEN {first} ELSE {}
          /\ keyAt    = [q \in Paths |-> IF made /\ q = path THEN 0 ELSE None]
          /\ anchorAt = [q \in Paths |-> IF made /\ q = path THEN AnchorOf(first) ELSE None]
          /\ kitAt    = [q \in KitPaths |-> IF made /\ q = kit THEN 0 ELSE None]
  /\ lock = None /\ proc = [p \in Procs |-> Ended("ok", FALSE, FALSE)]
  /\ acked = [q \in Paths |-> {}] /\ overwritten = FALSE /\ destroyed = FALSE
  /\ starts = 0 /\ faults = 0 /\ crashes = 0 /\ restores = 0

Next == \/ \E p \in Procs :
             \/ Start(p) \/ Open(p) \/ RequireVault(p) \/ UnlockVault(p) \/ Authorize(p)
             \/ ReadSource(p) \/ WriteRecoveryKit(p) \/ WritePortableKey(p) \/ VerifyArtifacts(p)
             \/ Recheck(p) \/ WriteStore(p) \/ WriteAnchor(p) \/ CopyAnchor(p) \/ RemoveFile(p)
             \/ Close(p) \/ Crash(p)
        \/ Restore

Spec == Init /\ [][Next]_vars

-----------------------------------------------------------------------------
(* Properties.                                                             *)

\* No command, failure, kill or race takes the last way to the key of the vault:
\* a key file holds it, or a kit that is active does.  (Unless the user copied
\* another key over it; two recoveries to the same files of a collection's vault
\* that both overwrite may lose it, see the README.)
AccessIsKept ==
  (doc # None /\ restores = 0 /\ store = "file" /\ ~overwritten) =>
    \/ \E q \in Paths : keyAt[q] = doc.key
    \/ \E q \in KitPaths : kitAt[q] \in doc.active

\* A command that failed, and does not say that it may have committed, wrote no
\* document, key file or kit.  (Not so if the file was in place and its last check
\* failed: `slipped`.)
FailuresAreDefinite ==
  \A p \in Procs : (~Running(p) /\ proc[p].told = "failed" /\ ~proc[p].slipped) => ~proc[p].did

\* Writes that were acknowledged stay, whoever else writes, until a vault is destroyed.
AckedStays ==
  (doc # None /\ restores = 0 /\ ~destroyed) => \A q \in Paths : acked[q] \subseteq doc.saved

\* The alarm that a rollback raises is never false: without one, the store is not
\* behind an anchor, or beside it.  (The anchor of a destroyed vault may outlive it.)
NoFalseAlarm ==
  (doc # None /\ restores = 0 /\ ~destroyed) =>
    \A q \in Paths : (anchorAt[q] # None /\ anchorAt[q].key = doc.key) => Trusts(anchorAt[q], doc)

\* A file that was put back is not written where a later write was acknowledged,
\* as long as there is one key file and no vault was destroyed.  (A collection that
\* two commands write may leave the anchor one write behind; so may a second key file.)
RollbackRefused ==
  \A p \in Procs :
    (/\ Running(p) /\ store = "file" /\ ~destroyed
     /\ proc[p].pc \in {"kitfile", "verify", "recheck", "store"} /\ proc[p].cmd # "init"
     /\ \A q \in Paths \ {proc[p].path} : anchorAt[q] = None) =>
      acked[proc[p].path] \subseteq proc[p].doc.saved

\* The user keeps the vault and what was saved in it, and is told the truth.
VaultIsSafe == /\ AccessIsKept /\ AckedStays
               /\ FailuresAreDefinite /\ NoFalseAlarm /\ RollbackRefused
=============================================================================
