------------------------------ MODULE KeyRotation ------------------------------
(***************************************************************************)
(* The authenticated checkpoint of a key rotation (crypto's rotation.ts)   *)
(* with the caller its comments describe: the records are re-encrypted one *)
(* after the other, each replacement is durable and read back before the   *)
(* checkpoint that counts it, and the old key is retired when a completed  *)
(* checkpoint is durable.  The caller is killed and starts over from the   *)
(* checkpoint on disk, where an older one may have been put back, one of   *)
(* another rotation, or one whose content was changed.                     *)
(***************************************************************************)
EXTENDS Naturals, Sequences

CONSTANTS Records,     \* the records, in the order of the rotation
          Rotations,   \* rotations that are performed, 1, 2, ...
          MaxCrashes, MaxSwaps

VARIABLES source,   \* record -> the version of its old envelope
          versions, \* versions written so far
          replaced, \* record -> its replacement, [rotation, source], or None
          disk,     \* the checkpoint that is durable
          written,  \* every checkpoint that was authenticated
          caller,   \* [pc, rotation, records, checkpoint]
          retired,  \* the old key is gone
          crashes, swaps

vars == <<source, versions, replaced, disk, written, caller, retired, crashes, swaps>>

None == [rotation |-> 0]
Idle == [pc |-> "idle"]
All  == {Records[n] : n \in DOMAIN Records}

\* What the proofs assume of the constants.
ConstantsFit == Records \in Seq(All) /\ Rotations \subseteq Nat \ {0}

\* Chosen again, a rotation that failed starts with the records as they are.
SourceRecords == [n \in DOMAIN Records |-> [id |-> Records[n], digest |-> source[Records[n]]]]

Init == /\ source = [r \in All |-> 0] /\ versions = 0
        /\ replaced = [r \in All |-> None]
        /\ disk = None /\ written = {} /\ caller = Idle /\ retired = FALSE
        /\ crashes = 0 /\ swaps = 0

-----------------------------------------------------------------------------
(* The checkpoint.  A tag authenticates the whole payload, so a checkpoint *)
(* that nobody wrote does not verify; a digest stands for what it hashes.  *)

\* createRotationCheckpoint
Created(rotation, records) ==
  [rotation |-> rotation, records |-> records, transcript |-> <<>>, next |-> 1,
   state |-> IF records = <<>> THEN "completed" ELSE "pending"]

\* Mutant: the record set is not compared.
VerifiesRotation(checkpoint, rotation, records) ==
  /\ checkpoint \in written /\ checkpoint.rotation = rotation
  /\ Len(checkpoint.records) = Len(records)

\* verifyRotationCheckpoint
Verifies(checkpoint, rotation, records) ==
  /\ checkpoint \in written
  /\ checkpoint.rotation = rotation
  /\ checkpoint.records = records

\* resumeRotationCheckpoint
Resumed(checkpoint) ==
  IF checkpoint.state = "pending" THEN [checkpoint EXCEPT !.state = "running"] ELSE checkpoint

\* advanceRotationCheckpoint, of the next expected record
Advances(checkpoint, id) == /\ checkpoint.state = "running"
                            /\ checkpoint.records[checkpoint.next].id = id

Advanced(checkpoint, digest) ==
  [checkpoint EXCEPT
     !.transcript = Append(@, [source |-> checkpoint.records[checkpoint.next],
                               replacement |-> digest]),
     !.next = @ + 1,
     !.state = IF checkpoint.next = Len(checkpoint.records) THEN "completed" ELSE "running"]

-----------------------------------------------------------------------------
(* The caller.                                                             *)
Goes(state) == caller' = state
At(pc) == caller.pc = pc

Authenticates(checkpoint) == written' = written \cup {checkpoint}

Begin(rotation) ==
  /\ caller = Idle /\ ~ retired /\ disk = None
  /\ LET checkpoint == Created(rotation, SourceRecords)
     IN Authenticates(checkpoint)
        /\ Goes([pc |-> "save", rotation |-> rotation, records |-> SourceRecords,
                 checkpoint |-> checkpoint])
  /\ UNCHANGED <<source, versions, replaced, disk, retired, crashes, swaps>>

\* After a restart: the checkpoint on disk, the records as they are now.
Restart(rotation) ==
  /\ caller = Idle /\ ~ retired /\ disk # None
  /\ IF Verifies(disk, rotation, SourceRecords)
     THEN Goes([pc |-> "resume", rotation |-> rotation, records |-> SourceRecords,
                checkpoint |-> disk])
     ELSE Goes([pc |-> "refused"])
  /\ UNCHANGED <<source, versions, replaced, disk, written, retired, crashes, swaps>>

Resume ==
  /\ At("resume") /\ Verifies(caller.checkpoint, caller.rotation, caller.records)
  /\ LET checkpoint == Resumed(caller.checkpoint)
     IN /\ Authenticates(checkpoint)
        /\ Goes([caller EXCEPT !.checkpoint = checkpoint,
                               !.pc = IF checkpoint.state = "completed" THEN "retire"
                                      ELSE "replace"])
  /\ UNCHANGED <<source, versions, replaced, disk, retired, crashes, swaps>>

\* The replacement of the next record is durable.
Replace ==
  /\ At("replace")
  /\ LET record == caller.records[caller.checkpoint.next]
     IN replaced' = [replaced EXCEPT ![record.id] =
                       [rotation |-> caller.rotation, source |-> source[record.id]]]
  /\ Goes([caller EXCEPT !.pc = "advance"])
  /\ UNCHANGED <<source, versions, disk, written, retired, crashes, swaps>>

Advance ==
  /\ At("advance") /\ Verifies(caller.checkpoint, caller.rotation, caller.records)
  /\ LET id == caller.records[caller.checkpoint.next].id
         checkpoint == Advanced(caller.checkpoint, replaced[id])
     IN /\ Advances(caller.checkpoint, id) /\ Authenticates(checkpoint)
        /\ Goes([caller EXCEPT !.checkpoint = checkpoint, !.pc = "save"])
  /\ UNCHANGED <<source, versions, replaced, disk, retired, crashes, swaps>>

Save ==
  /\ At("save") /\ disk' = caller.checkpoint
  /\ Goes([caller EXCEPT !.pc = "resume"])
  /\ UNCHANGED <<source, versions, replaced, written, retired, crashes, swaps>>

\* A rotation that is complete is verified once more from the disk.
Retire ==
  /\ At("retire") /\ disk # None
  /\ IF disk.state = "completed" /\ Verifies(disk, caller.rotation, SourceRecords)
     THEN retired' = TRUE ELSE UNCHANGED retired
  /\ Goes(Idle)
  /\ UNCHANGED <<source, versions, replaced, disk, written, crashes, swaps>>

\* A rotation that cannot go on is given up, for one with an identifier of its own.
GiveUp == /\ At("refused") /\ disk' = None /\ Goes(Idle)
          /\ UNCHANGED <<source, versions, replaced, written, retired, crashes, swaps>>

-----------------------------------------------------------------------------
\* A record is written while its rotation rests.
Write(r) == /\ caller = Idle /\ ~ retired /\ versions < Len(Records) /\ versions' = versions + 1
            /\ source' = [source EXCEPT ![r] = versions + 1]
            /\ UNCHANGED <<replaced, disk, written, caller, retired, crashes, swaps>>

Crash == /\ caller # Idle /\ crashes < MaxCrashes /\ crashes' = crashes + 1
         /\ caller' = Idle
         /\ UNCHANGED <<source, versions, replaced, disk, written, retired, swaps>>

\* Another checkpoint is put in place of the one on disk.
Swap == /\ swaps < MaxSwaps /\ swaps' = swaps + 1 /\ ~ retired
        /\ disk' \in written \cup {[c EXCEPT !.state = "completed"] : c \in written}
        /\ UNCHANGED <<source, versions, replaced, written, caller, retired, crashes>>

Next == \/ \E n \in Rotations : Begin(n) \/ Restart(n)
        \/ Resume \/ Replace \/ Advance \/ Save \/ Retire \/ GiveUp \/ Crash \/ Swap
        \/ \E r \in All : Write(r)

Spec == Init /\ [][Next]_vars

-----------------------------------------------------------------------------
\* The old key is retired only when every record, as it is now, has a replacement,
\* whichever checkpoint was found on disk and wherever the caller was killed.
RetiredMeansReplaced ==
  retired => \A r \in All : replaced[r] # None /\ replaced[r].source = source[r]
=============================================================================
