------------------------------ MODULE RecoveryKits ------------------------------
(***************************************************************************)
(* Recovery kits of one database (createRecovery, verifyRecovery,          *)
(* revokeRecovery and useRecovery of apps/cli/src/database-session.ts).    *)
(* The database has one slot for the key of its owner and one for each     *)
(* kit; a key file or kit file opens its slot and has an anchor of its     *)
(* own.  Files are written before the record that makes them count, and    *)
(* are removed only when the store is known to have refused that record.   *)
(* Vaults are left out: an anchor is the revision it trusts.               *)
(***************************************************************************)
EXTENDS Naturals, FiniteSets

CONSTANTS Procs,       \* processes: sessions, and uses of a kit
          Keys, Kits,  \* the key files and kit files that can be drawn
          FirstKey,    \* the key the database was initialized with
          MaxRevision, MaxFaults, MaxCrashes

\* What the proofs assume of the constants.
ConstantsFit == MaxRevision \in Nat /\ FirstKey \in Keys /\ Keys \cap Kits = {}

Tokens == Keys \cup Kits
Absent == MaxRevision + 1   \* the anchor of a file that has none
Free   == "free"

VARIABLES db,      \* the record in the store: [rev, owner, slots]
          files,   \* key files and kit files with their content
          anchor,  \* file -> the revision its anchor trusts
          lock,    \* file -> the process in its anchor's transition
          proc,    \* processes: the operation and the record it read
          drawn,   \* files that were ever begun
          acked,   \* kits whose creation was reported
          faults, crashes

vars == <<db, files, anchor, lock, proc, drawn, acked, faults, crashes>>

Closed == [pc |-> "closed"]
First  == [rev |-> 0, owner |-> FirstKey, slots |-> [r \in Kits |-> "none"]]
Active(doc) == {r \in Kits : doc.slots[r] = "active"}

Init == /\ db = First /\ files = {FirstKey}
        /\ anchor = [f \in Tokens |-> IF f = FirstKey THEN 0 ELSE Absent]
        /\ lock = [f \in Tokens |-> Free] /\ proc = [p \in Procs |-> Closed]
        /\ drawn = {FirstKey} /\ acked = {} /\ faults = 0 /\ crashes = 0

Becomes(p, state) == proc' = [proc EXCEPT ![p] = state]
Session(doc, f)   == [pc |-> "open", doc |-> doc, by |-> f]
Fault == faults < MaxFaults /\ faults' = faults + 1

-----------------------------------------------------------------------------
\* openWithSecret, told in one step (DatabaseSession has its interleavings).
Open(p, k) ==
  /\ proc[p] = Closed /\ k \in files /\ db.owner = k
  /\ lock[k] = Free /\ anchor[k] <= db.rev
  /\ anchor' = [anchor EXCEPT ![k] = db.rev]
  /\ Becomes(p, Session(db, k))
  /\ UNCHANGED <<db, files, lock, drawn, acked, faults, crashes>>

\* An operation is prepared from the record the process holds: it will replace it
\* by `next`, in a transition of the anchor of file `by`, once the file `new` exists.
Prepare(p, doc, by, next, new, pc) ==
  /\ doc.rev < MaxRevision
  /\ Becomes(p, [pc |-> pc, doc |-> doc, by |-> by, new |-> new,
                 next |-> [next EXCEPT !.rev = doc.rev + 1]])

\* Any other change of the catalog by a session.
Rename(p) ==
  /\ proc[p].pc = "open"
  /\ Prepare(p, proc[p].doc, proc[p].by, proc[p].doc, {}, "mutate")
  /\ UNCHANGED <<db, files, anchor, lock, drawn, acked, faults, crashes>>

\* revokeRecovery: the last active slot is kept.
MayRevoke(doc, r) == r \in Active(doc) /\ Cardinality(Active(doc)) > 1

Revoke(p, r) ==
  LET doc == proc[p].doc
  IN /\ proc[p].pc = "open" /\ MayRevoke(doc, r)
     /\ Prepare(p, doc, proc[p].by, [doc EXCEPT !.slots[r] = "revoked"], {}, "mutate")
     /\ UNCHANGED <<db, files, anchor, lock, drawn, acked, faults, crashes>>

\* createRecovery
Create(p, r) ==
  LET doc == proc[p].doc
  IN /\ proc[p].pc = "open" /\ r \in Kits \ drawn /\ drawn' = drawn \cup {r}
     /\ Prepare(p, doc, proc[p].by, [doc EXCEPT !.slots[r] = "active"], {r}, "file")
     /\ UNCHANGED <<db, files, anchor, lock, acked, faults, crashes>>

\* useRecovery: an active slot of the stored record is opened with the kit, whose
\* anchor is brought up to it, and a new key is to take the owner's place.
Use(p, r, k) ==
  /\ proc[p] = Closed /\ r \in files /\ r \in Active(db) /\ k \in Keys \ drawn
  /\ lock[r] = Free /\ anchor[r] <= db.rev
  /\ anchor' = [anchor EXCEPT ![r] = db.rev] /\ drawn' = drawn \cup {k}
  /\ Prepare(p, db, r, [db EXCEPT !.owner = k], {k}, "file")
  /\ UNCHANGED <<db, files, lock, acked, faults, crashes>>

\* verifyRecovery: the slot of the session's record; the kit's anchor catches up.
Verify(p, r) ==
  LET doc == proc[p].doc
  IN /\ proc[p].pc = "open" /\ r \in files /\ r \in Active(doc)
     /\ lock[r] = Free /\ anchor[r] <= doc.rev
     /\ anchor' = [anchor EXCEPT ![r] = doc.rev]
     /\ UNCHANGED <<db, files, lock, proc, drawn, acked, faults, crashes>>

-----------------------------------------------------------------------------
\* Where a process is left: a session goes on, the use of a kit is over.
Returns(p, doc) ==
  Becomes(p, IF proc[p].by \in Keys THEN Session(doc, proc[p].by) ELSE Closed)

\* A failure that proves that nothing was stored: the new file and its anchor are
\* cleaned (cleanupOwned...).
Fail(p) == /\ files' = files \ proc[p].new
           /\ anchor' = [f \in Tokens |-> IF f \in proc[p].new THEN Absent ELSE anchor[f]]
           /\ Returns(p, proc[p].doc)

\* Mutant: it is taken for a failure that proves something.
AmbiguousCleaned(p) == Fail(p)

\* An ambiguous commit: the new file is released as it is; a session is poisoned.
Ambiguous(p) == Becomes(p, Closed) /\ UNCHANGED <<files, anchor>>

\* createOwnedDatabaseRecoveryKitFile, createOwnedDatabaseKeyFile
WriteFile(p) ==
  /\ proc[p].pc = "file"
  /\ \/ /\ files' = files \cup proc[p].new
        /\ Becomes(p, [proc[p] EXCEPT !.pc = "anchor"]) /\ UNCHANGED <<anchor, faults>>
     \/ Fault /\ Fail(p)
  /\ UNCHANGED <<db, lock, drawn, acked, crashes>>

\* createOwnedDatabaseRevisionAnchor
WriteAnchor(p) ==
  /\ proc[p].pc = "anchor"
  /\ \/ /\ anchor' = [f \in Tokens |-> IF f \in proc[p].new THEN proc[p].doc.rev
                                                            ELSE anchor[f]]
        /\ Becomes(p, [proc[p] EXCEPT !.pc = "mutate"]) /\ UNCHANGED <<files, faults>>
     \/ Fault /\ Fail(p)
  /\ UNCHANGED <<db, lock, drawn, acked, crashes>>

\* #databaseMutation and the transition of useRecovery: the anchor is verified and
\* updateDatabase is called under its lock.  The store accepts, or refuses what the
\* anchor or the revision contradicts, or fails without telling which.
Mutate(p) ==
  LET f == proc[p].by  current == proc[p].doc.rev = db.rev
  IN /\ proc[p].pc = "mutate" /\ lock[f] = Free
     /\ \/ /\ anchor[f] <= proc[p].doc.rev /\ current
           /\ db' = proc[p].next /\ lock' = [lock EXCEPT ![f] = p]
           /\ Becomes(p, [proc[p] EXCEPT !.pc = "record"])
           /\ UNCHANGED <<files, anchor, faults>>
        \/ /\ anchor[f] > proc[p].doc.rev \/ ~ current
           /\ Fail(p) /\ UNCHANGED <<db, lock, faults>>
        \/ /\ anchor[f] <= proc[p].doc.rev
           /\ Fault /\ Ambiguous(p) /\ UNCHANGED lock
           /\ db' = db \/ (current /\ db' = proc[p].next)
     /\ UNCHANGED <<drawn, acked, crashes>>

\* The anchor of the transition is replaced.
Record(p) ==
  LET f == proc[p].by
  IN /\ proc[p].pc = "record" /\ lock' = [lock EXCEPT ![f] = Free]
     /\ \/ /\ anchor' = [anchor EXCEPT ![f] = proc[p].next.rev]
           /\ IF proc[p].new = {} THEN Returns(p, proc[p].next)
                                  ELSE Becomes(p, [proc[p] EXCEPT !.pc = "finish"])
           /\ UNCHANGED <<files, faults>>
        \/ Fault /\ Ambiguous(p)
     /\ UNCHANGED <<db, drawn, acked, crashes>>

\* reconcileOwnedAnchor, the last verification and the release of the new file.
Finish(p) ==
  /\ proc[p].pc = "finish"
  /\ \/ /\ anchor' = [f \in Tokens |-> IF f \in proc[p].new THEN proc[p].next.rev
                                                            ELSE anchor[f]]
        /\ acked' = acked \cup (proc[p].new \cap Kits)
        /\ Returns(p, proc[p].next) /\ UNCHANGED <<files, faults>>
     \/ Fault /\ Ambiguous(p) /\ UNCHANGED acked
  /\ UNCHANGED <<db, lock, drawn, crashes>>

\* A process ends, or is killed; the lock it leaves is recovered.
Exit(p) ==
  /\ proc[p] # Closed /\ Becomes(p, Closed)
  /\ lock' = [f \in Tokens |-> IF lock[f] = p THEN Free ELSE lock[f]]
  /\ IF proc[p].pc = "open" THEN UNCHANGED crashes
                            ELSE crashes < MaxCrashes /\ crashes' = crashes + 1
  /\ UNCHANGED <<db, files, anchor, drawn, acked, faults>>

Next == \E p \in Procs :
  \/ Rename(p) \/ WriteFile(p) \/ WriteAnchor(p) \/ Mutate(p) \/ Record(p) \/ Finish(p)
  \/ Exit(p)
  \/ \E k \in Keys : Open(p, k)
  \/ \E r \in Kits : Revoke(p, r) \/ Create(p, r) \/ Verify(p, r) \/ \E k \in Keys : Use(p, r, k)

Spec == Init /\ [][Next]_vars

-----------------------------------------------------------------------------
\* The file opens the database: it has its content, and an anchor that accepts it.
CanOpen(f) == f \in files /\ anchor[f] <= db.rev

\* Whatever fails in the middle of a recovery, the creation of a kit or two
\* concurrent revocations: the owner's slot and every active slot have a file that
\* opens them, a kit whose creation was reported counts until it is revoked, and
\* once there was a kit there is one that works.
NeverLockedOut ==
  /\ \A f \in {db.owner} \cup Active(db) : CanOpen(f)
  /\ \A r \in acked : db.slots[r] # "none"
  /\ (\E r \in Kits : db.slots[r] # "none") => Active(db) # {}
=============================================================================
