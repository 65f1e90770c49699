--------------------------- MODULE DatabaseMigration ---------------------------
(***************************************************************************)
(* `kavrix db migrate`: a legacy vault, which is only read, becomes a      *)
(* vault of an encrypted database that exists, or of one the command       *)
(* initializes and then owns until its profile names it                    *)
(* (database-migration.ts, database-migration-command.ts).  Initialization *)
(* and DatabaseSession's mutation are single steps here with each of their *)
(* outcomes; their own modules have what is inside.                        *)
(***************************************************************************)
EXTENDS Naturals, FiniteSets

CONSTANTS Procs, MaxWrites, MaxFaults, MaxCrashes, NoOne

\* What the proofs assume of the constants: a command is not a content of a file.
ConstantsFit == NoOne \notin Procs /\ Procs \cap {"vacant", "emptied", "base"} = {}

VARIABLES mode,      \* whether the destination exists, or is initialized
          source,    \* the legacy vault: revisions of its document and its anchor
          files,     \* the destination: data, key, anchor -> who published it
          vaults,    \* the destination's vaults that were migrated, [by, rev]
          bound,     \* the database the destination's profile names
          lock, proc,
          published, \* commands whose vault has ever been in the destination
          verified,  \* commands that read their vault back
          ends,      \* command -> what it reported
          writes, faults, crashes

vars == <<mode, source, files, vaults, bound, lock, proc, published, verified, ends, writes,
          faults, crashes>>

Idle   == [pc |-> "idle"]
Vacant == "vacant"   \* no file; a profile without a database
Gone   == "emptied"  \* the empty file a cleanup leaves
Base   == "base"     \* the database that existed before
Kinds  == {"data", "key", "anchor"}

Init == /\ mode \in {"existing", "initialize"}
        /\ source = [document |-> 0, anchor |-> 0]
        /\ files = [k \in Kinds |-> IF mode = "existing" THEN Base ELSE Vacant]
        /\ bound = IF mode = "existing" THEN Base ELSE Vacant
        /\ vaults = {} /\ lock = NoOne /\ proc = [p \in Procs |-> Idle]
        /\ published = {} /\ verified = {} /\ ends = [p \in Procs |-> "none"]
        /\ writes = 0 /\ faults = 0 /\ crashes = 0

Fault == faults < MaxFaults /\ faults' = faults + 1

At(p, pc)         == proc[p].pc = pc
Becomes(p, state) == proc' = [proc EXCEPT ![p] = state]
Goes(p, pc)       == Becomes(p, [proc[p] EXCEPT !.pc = pc])

\* What failed decides what is undone and what is reported.
\* Mutant: a publication that is uncertain is taken for one that was not made.
FailsAlike(p, code) == Becomes(p, [proc[p] EXCEPT !.code = IF code = "uncertain" THEN "absent"
                                                           ELSE code, !.pc = "failed"])
Fails(p, code) == Becomes(p, [proc[p] EXCEPT !.code = code, !.pc = "failed"])

destination == <<files, vaults, bound>>
record      == <<published, verified, ends>>

-----------------------------------------------------------------------------
(* The legacy vault.                                                       *)

\* The document, then the profiles and the files are validated.
Start(p) ==
  /\ proc[p] = Idle /\ ends[p] = "none"
  /\ (bound = Vacant) = (mode = "initialize")
  /\ mode = "initialize" => files["key"] = Vacant /\ files["anchor"] = Vacant
  /\ Becomes(p, [pc |-> "source", rev |-> source.document, owns |-> FALSE, vault |-> FALSE,
                 code |-> "none"])
  /\ UNCHANGED <<mode, source, destination, lock, record, writes, faults, crashes>>

\* openLegacyPayload: the anchor has to vouch for that document.
ReadSource(p) ==
  /\ At(p, "source")
  /\ IF source.anchor = proc[p].rev THEN Goes(p, "open") ELSE Fails(p, "authentication")
  /\ UNCHANGED <<mode, source, destination, lock, record, writes, faults, crashes>>

\* The owner of the legacy vault goes on using it.
WriteSource ==
  /\ writes < MaxWrites /\ writes' = writes + 1
  /\ source' = IF source.anchor = source.document THEN [source EXCEPT !.document = @ + 1]
                                                  ELSE [source EXCEPT !.anchor = @ + 1]
  /\ UNCHANGED <<mode, destination, lock, proc, record, faults, crashes>>

-----------------------------------------------------------------------------
(* The destination.                                                        *)
OpenStore(p) ==
  /\ At(p, "open")
  /\ IF lock = NoOne /\ files["data"] # Gone
     THEN lock' = p /\ Goes(p, IF mode = "initialize" THEN "initialize" ELSE "create")
     ELSE Fails(p, "authentication") /\ UNCHANGED lock
  /\ UNCHANGED <<mode, source, destination, record, writes, faults, crashes>>

Published(p, kinds) == [k \in Kinds |-> IF k \in kinds THEN p ELSE files[k]]

\* initializeForMigration; a cleanup that failed leaves files without a database.
Initialize(p) ==
  /\ At(p, "initialize")
  /\ IF \E k \in Kinds : files[k] # Vacant
     THEN Fails(p, "authentication") /\ UNCHANGED <<files, faults>>
     ELSE \/ files' = Published(p, Kinds) /\ UNCHANGED faults
             /\ Becomes(p, [proc[p] EXCEPT !.owns = TRUE, !.pc = "create"])
          \/ /\ Fault /\ Fails(p, "authentication")
             /\ \E kinds \in SUBSET {"key", "anchor"} : files' = Published(p, kinds)
          \/ /\ Fault /\ Fails(p, "unknown")
             /\ \E kinds \in SUBSET Kinds : "key" \in kinds /\ files' = Published(p, kinds)
  /\ UNCHANGED <<mode, source, vaults, bound, lock, record, writes, crashes>>

MyVault(p) == [by |-> p, rev |-> proc[p].rev]
Publishes(p) == vaults' = vaults \cup {MyVault(p)} /\ published' = published \cup {p}

\* DatabaseSession.open, createMigrationVault: done, refused, or unknown
CreateVault(p) ==
  /\ At(p, "create")
  /\ \/ /\ Publishes(p) /\ UNCHANGED faults
        /\ Becomes(p, [proc[p] EXCEPT !.vault = TRUE,
                                      !.pc = IF proc[p].owns THEN "inspect" ELSE "reopen"])
     \/ Fault /\ Fails(p, "conflict") /\ UNCHANGED <<vaults, published>>
     \/ Fault /\ Fails(p, "unknown") /\ (Publishes(p) \/ UNCHANGED <<vaults, published>>)
  /\ UNCHANGED <<mode, source, files, bound, lock, verified, ends, writes, crashes>>

\* A session of its own reads the vault back; others may have the store in between.
Reopen(p) ==
  /\ At(p, "reopen")
  /\ \/ lock' = NoOne /\ Goes(p, "reopened") /\ UNCHANGED faults
     \/ Fault /\ Fails(p, "authentication") /\ UNCHANGED lock
  /\ UNCHANGED <<mode, source, destination, record, writes, crashes>>

Reopened(p) ==
  /\ At(p, "reopened")
  /\ IF lock = NoOne THEN lock' = p /\ Goes(p, "inspect")
                     ELSE Fails(p, "authentication") /\ UNCHANGED lock
  /\ UNCHANGED <<mode, source, destination, record, writes, faults, crashes>>

Inspect(p) ==
  /\ At(p, "inspect")
  /\ IF MyVault(p) \in vaults
     THEN verified' = verified \cup {p} /\ Goes(p, IF proc[p].owns THEN "bind" ELSE "close")
     ELSE Fails(p, "verification") /\ UNCHANGED verified
  /\ UNCHANGED <<mode, source, destination, lock, published, ends, writes, faults, crashes>>

\* publishBinding: bindDatabaseIdForInitialization
Bind(p) ==
  /\ At(p, "bind")
  /\ IF bound # Vacant THEN Fails(p, "absent") /\ UNCHANGED <<bound, faults>>
     ELSE \/ bound' = p /\ Goes(p, "release") /\ UNCHANGED faults
          \/ Fault /\ Fails(p, "absent") /\ UNCHANGED bound
          \/ Fault /\ Fails(p, "uncertain") /\ bound' \in {p, bound}
  /\ UNCHANGED <<mode, source, files, vaults, lock, record, writes, crashes>>

\* commitMigrationInitialization
Release(p) ==
  /\ At(p, "release")
  /\ \/ Becomes(p, [proc[p] EXCEPT !.owns = FALSE, !.pc = "close"]) /\ UNCHANGED faults
     \/ Fault /\ Fails(p, "operation")
  /\ UNCHANGED <<mode, source, destination, lock, record, writes, crashes>>

Unlocked(p) == lock' = IF lock = p THEN NoOne ELSE lock

Ends(p, code) == ends' = [ends EXCEPT ![p] = code] /\ Becomes(p, Idle) /\ Unlocked(p)

Close(p) ==
  /\ At(p, "close")
  /\ \/ Ends(p, "ok") /\ UNCHANGED faults
     \/ Fault /\ Fails(p, "close") /\ UNCHANGED <<ends, lock>>
  /\ UNCHANGED <<mode, source, destination, published, verified, writes, crashes>>

-----------------------------------------------------------------------------
(* The failure.                                                            *)
Unsure(p) == proc[p].code # "absent" /\ (proc[p].vault \/ proc[p].code = "unknown")
Undoes(p) == proc[p].owns /\ ~ Unsure(p)

Keep(p) ==
  /\ At(p, "failed") /\ ~ Undoes(p)
  /\ Ends(p, IF Unsure(p) THEN "ambiguous" ELSE proc[p].code)
  /\ UNCHANGED <<mode, source, destination, published, verified, writes, faults, crashes>>

Emptied(p, kinds) == [k \in Kinds |-> IF k \in kinds /\ files[k] = p THEN Gone ELSE files[k]]

\* rollbackMigrationInitialization: the database, then the anchor and the key
Undo(p) ==
  /\ At(p, "failed") /\ Undoes(p)
  /\ \/ files' = Emptied(p, Kinds) /\ Ends(p, proc[p].code) /\ UNCHANGED faults
     \/ /\ Fault /\ Ends(p, "ambiguous")
        /\ \E kinds \in SUBSET Kinds :
             (kinds # {} => "data" \in kinds) /\ files' = Emptied(p, kinds)
  /\ vaults' = IF files'["data"] = Gone THEN {} ELSE vaults
  /\ UNCHANGED <<mode, source, bound, published, verified, writes, crashes>>

\* The vaults that were migrated are used, and removed, by others.
Remove(v) == /\ mode = "existing" /\ lock = NoOne /\ vaults' = vaults \ {v}
             /\ UNCHANGED <<mode, source, files, bound, lock, proc, record, writes, faults, crashes>>

Crash(p) == /\ proc[p] # Idle /\ crashes < MaxCrashes /\ crashes' = crashes + 1
            /\ Becomes(p, Idle) /\ Unlocked(p) /\ ends' = [ends EXCEPT ![p] = "killed"]
            /\ UNCHANGED <<mode, source, destination, published, verified, writes, faults>>

Next == \/ \E p \in Procs :
             \/ Start(p) \/ ReadSource(p) \/ OpenStore(p) \/ Initialize(p) \/ CreateVault(p)
             \/ Reopen(p) \/ Reopened(p) \/ Inspect(p) \/ Bind(p) \/ Release(p) \/ Close(p)
             \/ Keep(p) \/ Undo(p) \/ Crash(p)
        \/ WriteSource \/ \E v \in vaults : Remove(v)

Spec == Init /\ [][Next]_vars

-----------------------------------------------------------------------------
\* A migration that succeeded read back what the source's anchor vouched for; one that
\* failed with a code of its own, not `ambiguous-commit`, left no vault in any database
\* and no profile that names one; and a profile is never left with a database that was
\* undone, whatever failed after it was bound.
MigrationCodesAreTrue ==
  /\ \A p \in Procs : ends[p] = "ok" => p \in verified
  /\ \A p \in Procs : ends[p] \notin {"none", "ok", "ambiguous", "killed"} =>
       /\ \A v \in vaults : v.by # p
       /\ files["data"] # p /\ bound # p
  /\ bound \in Procs => (\A k \in Kinds : files[k] = bound) /\ \E v \in vaults : v.by = bound
=============================================================================
