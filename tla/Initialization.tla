----------------------------- MODULE Initialization -----------------------------
(***************************************************************************)
(* `kavrix init`: a profile, a database file, its key file and the key's   *)
(* anchor come into being together (local-database-onboarding.ts and       *)
(* DatabaseSession.initialize), while other commands change the profiles   *)
(* (datastore-profiles.ts, doctor-heal.ts).  The registry is replaced      *)
(* under its lock, so each of its mutations is one step.  A path stands    *)
(* for a data file with its key file; a database is named by a number.     *)
(***************************************************************************)
EXTENDS Naturals

CONSTANTS Procs, Ids, Paths, MaxDatabases, MaxFaults, MaxCrashes, NoProfile, NoOne

ASSUME DatabasesAssumption == MaxDatabases \in Nat
ASSUME ApartAssumption == /\ NoOne \notin Procs
                          /\ NoProfile \notin [path : Paths, db : Nat, vault : BOOLEAN]

VARIABLES profiles,  \* the registry: id -> [path, db, vault]
          current,   \* the selected profile
          data, key, anchor,  \* path -> the database whose content the file has
          lock,      \* path -> the process that has the data file open
          proc,      \* the commands
          drawn,     \* databases begun
          ends,      \* database -> how its command ended
          faults, crashes

vars == <<profiles, current, data, key, anchor, lock, proc, drawn, ends, faults, crashes>>

Databases == 1 .. MaxDatabases
Vacant    == 0                 \* no file; a profile without a database
Tombstone == MaxDatabases + 1  \* the empty file a cleanup leaves
Idle      == [pc |-> "idle"]

Init == /\ profiles = [i \in Ids |-> NoProfile] /\ current = NoProfile
        /\ data = [f \in Paths |-> Vacant] /\ key = data /\ anchor = data
        /\ lock = [f \in Paths |-> NoOne] /\ proc = [p \in Procs |-> Idle]
        /\ drawn = 0 /\ ends = [d \in Databases |-> "none"]
        /\ faults = 0 /\ crashes = 0

registry == <<profiles, current>>
disk     == <<data, key, anchor>>
history  == <<drawn, crashes>>

Becomes(p, state) == proc' = [proc EXCEPT ![p] = state]
Goes(p, pc)       == Becomes(p, [proc[p] EXCEPT !.pc = pc])
Fault == faults < MaxFaults /\ faults' = faults + 1

Unbound(f)       == [path |-> f, db |-> Vacant, vault |-> FALSE]
Publish(i, what) == profiles' = [profiles EXCEPT ![i] = what] /\ UNCHANGED current
Withdraw(ids)    ==
  /\ profiles' = [i \in Ids |-> IF i \in ids THEN NoProfile ELSE profiles[i]]
  /\ current' = IF current \in ids THEN NoProfile ELSE current

IsVacant(f) == data[f] = Vacant /\ key[f] = Vacant /\ anchor[f] = Vacant

-----------------------------------------------------------------------------
(* executeLocalDatabaseOnboarding, up to the creation of the database.     *)

\* validatePreflight.  undo: whether the database may exist, and is to be rolled
\* back; unsure: the failure is an ambiguous commit; phase: what is reported.
Start(p, i, f) ==
  /\ proc[p] = Idle /\ drawn < MaxDatabases /\ drawn' = drawn + 1
  /\ profiles[i] = NoProfile /\ IsVacant(f)
  /\ Becomes(p, [pc |-> "add", id |-> i, path |-> f, db |-> drawn + 1, failed |-> FALSE,
                 undo |-> FALSE, unsure |-> FALSE, phase |-> "profile-added"])
  /\ UNCHANGED <<registry, disk, lock, ends, faults, crashes>>

Ends(p, how) == Becomes(p, Idle) /\ ends' = [ends EXCEPT ![proc[p].db] = how]

\* addForInitialization: a publication that is uncertain ends the command.
AddProfile(p) ==
  LET i == proc[p].id
  IN /\ proc[p].pc = "add"
     /\ \/ /\ profiles[i] = NoProfile /\ Publish(i, Unbound(proc[p].path))
           /\ Goes(p, "validate") /\ UNCHANGED <<ends, faults>>
        \/ profiles[i] # NoProfile /\ Ends(p, "failed") /\ UNCHANGED <<registry, faults>>
        \/ /\ Fault /\ Ends(p, "failed")
           /\ UNCHANGED registry \/ (profiles[i] = NoProfile /\ Publish(i, Unbound(proc[p].path)))
     /\ UNCHANGED <<disk, lock, history>>

\* A failure; what is left to undo is undone first.
Fails(p, undo, pc) == Becomes(p, [proc[p] EXCEPT !.failed = TRUE, !.undo = undo, !.pc = pc])

\* validateArtifactDestinations, a second time
Validate(p) ==
  /\ proc[p].pc = "validate"
  /\ IF IsVacant(proc[p].path) THEN Goes(p, "open") ELSE Fails(p, FALSE, "close")
  /\ UNCHANGED <<registry, disk, lock, ends, faults, history>>

\* FileEncryptedDatabaseStore.open
OpenStore(p) ==
  LET f == proc[p].path
  IN /\ proc[p].pc = "open"
     /\ IF lock[f] = NoOne /\ data[f] # Tombstone
        THEN lock' = [lock EXCEPT ![f] = p] /\ Goes(p, "key")
        ELSE Fails(p, FALSE, "close") /\ UNCHANGED lock
     /\ UNCHANGED <<registry, disk, ends, faults, history>>

\* createOwnedDatabaseKeyFile: create-only; a publication that is uncertain is
\* cleaned like one that was made.
CreateKey(p) ==
  LET f == proc[p].path
  IN /\ proc[p].pc = "key"
     /\ \/ /\ key[f] = Vacant /\ key' = [key EXCEPT ![f] = proc[p].db]
           /\ \/ Goes(p, "create") /\ UNCHANGED faults
              \/ Fault /\ Fails(p, FALSE, "clean")
        \/ key[f] # Vacant /\ Fails(p, FALSE, "close") /\ UNCHANGED <<key, faults>>
     /\ UNCHANGED <<registry, data, anchor, lock, ends, history>>

\* store.createDatabase: accepted, refused with a proof, or unknown.
CreateDatabase(p) ==
  LET f == proc[p].path  accepted == data' = [data EXCEPT ![f] = proc[p].db]
  IN /\ proc[p].pc = "create"
     /\ \/ data[f] = Vacant /\ accepted /\ Goes(p, "anchor") /\ UNCHANGED faults
        \/ data[f] # Vacant /\ Fails(p, FALSE, "clean") /\ UNCHANGED <<data, faults>>
        \/ Fault /\ Fails(p, TRUE, "undo") /\ (accepted \/ UNCHANGED data)
     /\ UNCHANGED <<registry, key, anchor, lock, ends, history>>

\* createOwnedDatabaseRevisionAnchor
CreateAnchor(p) ==
  LET f == proc[p].path
  IN /\ proc[p].pc = "anchor"
     /\ \/ anchor[f] # Vacant /\ Fails(p, TRUE, "undo") /\ UNCHANGED <<anchor, faults>>
        \/ /\ anchor[f] = Vacant /\ anchor' = [anchor EXCEPT ![f] = proc[p].db]
           /\ \/ Goes(p, "bind") /\ UNCHANGED faults
              \/ Fault /\ Fails(p, TRUE, "undo")
     /\ UNCHANGED <<registry, data, key, lock, ends, history>>

-----------------------------------------------------------------------------
\* Mutant: a binding that may have been published is rolled back like the rest.
UnsureCleaned(p) == Becomes(p, [proc[p] EXCEPT !.failed = TRUE, !.undo = FALSE, !.pc = "clean"])

\* An ambiguous commit keeps every artifact.
Unsure(p) == Becomes(p, [proc[p] EXCEPT !.failed = TRUE, !.unsure = TRUE, !.pc = "close"])

\* bindDatabaseIdForInitialization: the profile still is the one that was added.
Bind(p) ==
  LET i == proc[p].id  f == proc[p].path
      bound == Publish(i, [Unbound(f) EXCEPT !.db = proc[p].db])
  IN /\ proc[p].pc = "bind"
     /\ IF profiles[i] = Unbound(f)
        THEN \/ bound /\ Goes(p, "release") /\ UNCHANGED faults
             \/ Fault /\ Unsure(p) /\ (bound \/ UNCHANGED registry)
             \/ Fault /\ Fails(p, TRUE, "undo") /\ UNCHANGED registry
        ELSE Fails(p, TRUE, "undo") /\ UNCHANGED <<registry, faults>>
     /\ UNCHANGED <<disk, lock, ends, history>>

\* releaseOwnedPublications
Release(p) ==
  /\ proc[p].pc = "release"
  /\ \/ /\ Becomes(p, [proc[p] EXCEPT !.phase = "database-initialized", !.pc = "default"])
        /\ UNCHANGED faults
     \/ Fault /\ Unsure(p)
  /\ UNCHANGED <<registry, disk, lock, ends, history>>

\* rollbackDatabase empties the file it created; if it fails, nothing is cleaned.
UndoDatabase(p) ==
  LET emptied == data' = [data EXCEPT ![proc[p].path] = Tombstone]
  IN /\ proc[p].pc = "undo"
     /\ \/ data[proc[p].path] = proc[p].db /\ emptied /\ Goes(p, "clean") /\ UNCHANGED faults
        \/ Unsure(p) /\ data[proc[p].path] # proc[p].db /\ UNCHANGED <<data, faults>>
        \/ Fault /\ Unsure(p) /\ (UNCHANGED data \/ (data[proc[p].path] = proc[p].db /\ emptied))
     /\ UNCHANGED <<registry, key, anchor, lock, ends, history>>

\* The command's own anchor and key file are emptied, or one of them is not.
Emptied(file, p) == [file EXCEPT ![proc[p].path] =
                       IF file[proc[p].path] = proc[p].db THEN Tombstone ELSE @]

CleanFiles(p) ==
  /\ proc[p].pc = "clean" /\ Goes(p, "close")
  /\ \/ anchor' = Emptied(anchor, p) /\ key' = Emptied(key, p) /\ UNCHANGED faults
     \/ Fault /\ anchor' = Emptied(anchor, p) /\ UNCHANGED key
     \/ Fault /\ key' = Emptied(key, p) /\ UNCHANGED anchor
  /\ UNCHANGED <<registry, data, lock, ends, history>>

-----------------------------------------------------------------------------
\* setDefaultVaultId, once a session has created the first vault
SetDefault(p) ==
  LET i == proc[p].id  bound == [Unbound(proc[p].path) EXCEPT !.db = proc[p].db]
  IN /\ proc[p].pc = "default"
     /\ \/ profiles[i] = bound /\ Publish(i, [bound EXCEPT !.vault = TRUE])
           /\ Goes(p, "select") /\ UNCHANGED faults
        \/ profiles[i] # bound /\ Fails(p, FALSE, "close") /\ UNCHANGED <<registry, faults>>
        \/ /\ Fault /\ Fails(p, FALSE, "close")
           /\ \/ UNCHANGED registry
              \/ profiles[i] = bound /\ Publish(i, [bound EXCEPT !.vault = TRUE])
     /\ UNCHANGED <<disk, lock, ends, history>>

\* useExpected
Select(p) ==
  LET i == proc[p].id
      expected == [path |-> proc[p].path, db |-> proc[p].db, vault |-> TRUE]
  IN /\ proc[p].pc = "select"
     /\ \/ profiles[i] = expected /\ current' = i /\ Goes(p, "close") /\ UNCHANGED faults
        \/ /\ profiles[i] # expected /\ Fails(p, FALSE, "close")
           /\ UNCHANGED <<current, faults>>
        \/ /\ Fault /\ Fails(p, FALSE, "close")
           /\ UNCHANGED current \/ (profiles[i] = expected /\ current' = i)
     /\ UNCHANGED <<profiles, disk, lock, ends, history>>

\* The finally block: the store is closed; a failure to close it hides what failed
\* before from isAmbiguousOnboardingFailure.
Close(p) ==
  /\ proc[p].pc = "close"
  /\ lock' = [f \in Paths |-> IF lock[f] = p THEN NoOne ELSE lock[f]]
  /\ \/ /\ UNCHANGED faults
        /\ IF proc[p].failed /\ ~ proc[p].unsure /\ proc[p].phase = "profile-added"
           THEN Goes(p, "rollback") /\ UNCHANGED ends
           ELSE Ends(p, IF ~ proc[p].failed THEN "ready"
                        ELSE IF proc[p].unsure THEN "ambiguous" ELSE proc[p].phase)
     \/ /\ Fault
        /\ IF proc[p].phase = "profile-added"
           THEN Goes(p, "rollback") /\ UNCHANGED ends ELSE Ends(p, proc[p].phase)
  /\ UNCHANGED <<registry, disk, history>>

\* rollbackIncompleteUnboundProfile: the profile is read, then removed.
Failure(p) == IF proc[p].unsure THEN "ambiguous" ELSE "failed"

RollbackRead(p) ==
  LET profile == profiles[proc[p].id]
  IN /\ proc[p].pc = "rollback"
     /\ IF profile # NoProfile /\ profile.db = Vacant
        THEN Goes(p, "withdraw") /\ UNCHANGED ends ELSE Ends(p, Failure(p))
     /\ UNCHANGED <<registry, disk, lock, faults, history>>

RollbackRemove(p) ==
  /\ proc[p].pc = "withdraw" /\ Ends(p, Failure(p))
  /\ \/ Withdraw({proc[p].id}) /\ UNCHANGED faults
     \/ Fault /\ UNCHANGED registry
  /\ UNCHANGED <<disk, lock, history>>

-----------------------------------------------------------------------------
(* Other commands on the registry.                                         *)
Incomplete == {i \in Ids : profiles[i] # NoProfile /\ profiles[i].db = Vacant}

\* runDoctorHeal: the unbound profiles that were listed are removed, unless they
\* are bound in the meantime (removeUnboundProfiles).
HealRead(p) == /\ proc[p] = Idle /\ Incomplete # {}
               /\ Becomes(p, [pc |-> "heal", ids |-> Incomplete])
               /\ UNCHANGED <<registry, disk, lock, ends, faults, history>>

HealRemove(p) == /\ proc[p].pc = "heal" /\ Withdraw(proc[p].ids \cap Incomplete)
                 /\ Becomes(p, Idle) /\ UNCHANGED <<disk, lock, ends, faults, history>>

Remove(i) == /\ profiles[i] # NoProfile /\ Withdraw({i})
             /\ UNCHANGED <<disk, lock, proc, ends, faults, history>>

Use(i) == /\ profiles[i] # NoProfile /\ current' = i
          /\ UNCHANGED <<profiles, disk, lock, proc, ends, faults, history>>

\* A command is killed; the lock it leaves is recovered.
Crash(p) == /\ proc[p] # Idle /\ crashes < MaxCrashes /\ crashes' = crashes + 1
            /\ Becomes(p, Idle)
            /\ lock' = [f \in Paths |-> IF lock[f] = p THEN NoOne ELSE lock[f]]
            /\ UNCHANGED <<registry, disk, drawn, ends, faults>>

Next == \/ \E p \in Procs :
             \/ AddProfile(p) \/ Validate(p) \/ OpenStore(p) \/ CreateKey(p)
             \/ CreateDatabase(p) \/ CreateAnchor(p) \/ Bind(p) \/ Release(p)
             \/ UndoDatabase(p) \/ CleanFiles(p) \/ SetDefault(p) \/ Select(p)
             \/ Close(p) \/ RollbackRead(p) \/ RollbackRemove(p)
             \/ HealRead(p) \/ HealRemove(p) \/ Crash(p)
             \/ \E i \in Ids, f \in Paths : Start(p, i, f)
        \/ \E i \in Ids : Remove(i) \/ Use(i)

Spec == Init /\ [][Next]_vars

-----------------------------------------------------------------------------
\* Whatever fails or is killed, and whatever other commands do to the profiles: a
\* profile that names a database finds its content, its key and its anchor; a
\* database never stays behind without its key; an initialization that failed
\* plainly left neither, and only its own files were emptied.
AllOrNothing ==
  /\ \A i \in Ids : profiles[i] # NoProfile /\ profiles[i].db # Vacant =>
       LET f == profiles[i].path
       IN data[f] = profiles[i].db /\ key[f] = profiles[i].db /\ anchor[f] = profiles[i].db
  /\ \A f \in Paths : data[f] \in Databases => key[f] = data[f]
  /\ \A d \in Databases : ends[d] = "failed" =>
       /\ \A f \in Paths : data[f] # d
       /\ \A i \in Ids : profiles[i] # NoProfile => profiles[i].db # d
=============================================================================
