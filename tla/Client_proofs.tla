----------------------------- MODULE Client_proofs -----------------------------
(***************************************************************************)
(* Proofs about the command line around a database, whatever calls fail    *)
(* and whatever is killed.  Initialization: for any number of commands,    *)
(* profiles and paths.  RecoveryKits: for any number of processes, keys    *)
(* and kits.  The instances are those that MCClient checks.                *)
(***************************************************************************)
EXTENDS Initialization, FiniteSetTheorems, SequenceTheorems, TLAPS

-----------------------------------------------------------------------------
(* The inductive invariant.                                                *)

Profile == [path : Paths, db : 0 .. MaxDatabases, vault : BOOLEAN]
Content == 0 .. MaxDatabases + 1
PCs     == {"add", "validate", "open", "key", "create", "anchor", "bind", "release", "undo",
            "clean", "default", "select", "close", "rollback", "withdraw"}
Phases  == {"profile-added", "database-initialized"}
Command == [pc : PCs, id : Ids, path : Paths, db : Databases, failed : BOOLEAN,
            undo : BOOLEAN, unsure : BOOLEAN, phase : Phases]
Heal    == [pc : {"heal"}, ids : SUBSET Ids]

TypeOK == /\ profiles \in [Ids -> {NoProfile} \cup Profile]
          /\ data \in [Paths -> Content] /\ key \in [Paths -> Content]
          /\ anchor \in [Paths -> Content]
          /\ lock \in [Paths -> Procs \cup {NoOne}]
          /\ proc \in [Procs -> {Idle} \cup Command \cup Heal]
          /\ drawn \in 0 .. MaxDatabases
          /\ ends \in [Databases -> {"none", "failed", "ready", "ambiguous"} \cup Phases]

Named(i, d)    == profiles[i] # NoProfile /\ profiles[i].db = d
Unnamed(d)     == \A i \in Ids : ~Named(i, d)
Nowhere(d)     == /\ \A g \in Paths : data[g] # d /\ key[g] # d /\ anchor[g] # d
                  /\ Unnamed(d)
Initializes(p) == proc[p].pc \in PCs

\* A database that was not begun is nowhere; each command has one of its own.
DrawnInv ==
  /\ \A d \in Databases : d > drawn => ends[d] = "none" /\ Nowhere(d)
  /\ \A p \in Procs : Initializes(p) => proc[p].db <= drawn /\ ends[proc[p].db] = "none"
  /\ \A p, q \in Procs : Initializes(p) /\ Initializes(q) /\ proc[p].db = proc[q].db => p = q

\* What a profile names is complete, and a database has its key.
FilesInv ==
  /\ \A i \in Ids : profiles[i] # NoProfile /\ profiles[i].db # Vacant =>
       LET f == profiles[i].path
       IN data[f] = profiles[i].db /\ key[f] = profiles[i].db /\ anchor[f] = profiles[i].db
  /\ \A f \in Paths : data[f] \in Databases => key[f] = data[f]

EndsInv == \A d \in Databases : ends[d] = "failed" =>
             (\A f \in Paths : data[f] # d) /\ Unnamed(d)

Locked == {"key", "create", "anchor", "bind", "release", "undo", "clean", "default", "select"}

\* The database of a running command is only where the command puts it.
PlaceInv(p) ==
  LET d == proc[p].db  f == proc[p].path
  IN /\ proc[p].pc \in Locked => lock[f] = p
     /\ \A g \in Paths : data[g] = d \/ key[g] = d \/ anchor[g] = d => g = f
     /\ \A i \in Ids : Named(i, d) => profiles[i].path = f

\* How far the command has got.
StageInv(p) ==
  LET d == proc[p].db  f == proc[p].path  pc == proc[p].pc
  IN /\ pc \in {"add", "validate", "open", "key"} => Nowhere(d)
     /\ pc = "create" => key[f] = d /\ data[f] # d /\ Unnamed(d)
     /\ pc = "anchor" => data[f] = d /\ key[f] = d /\ Unnamed(d)
     /\ pc = "bind" => data[f] = d /\ key[f] = d /\ anchor[f] = d /\ Unnamed(d)
     /\ pc \in {"release", "default", "select"} =>
          data[f] = d /\ key[f] = d /\ anchor[f] = d
     /\ pc = "undo" => Unnamed(d)
     /\ pc = "clean" => data[f] # d /\ Unnamed(d)
     /\ pc \in {"undo", "clean"} => proc[p].failed
     /\ pc \in {"default", "select"} => proc[p].phase = "database-initialized"
     /\ pc \in {"close", "rollback", "withdraw"} /\ proc[p].phase = "profile-added" =>
          /\ proc[p].failed
          /\ ~proc[p].unsure => data[f] # d /\ Unnamed(d)
     /\ pc \in {"rollback", "withdraw"} => proc[p].phase = "profile-added"

IInv == /\ TypeOK /\ DrawnInv /\ FilesInv /\ EndsInv
        /\ \A p \in Procs : Initializes(p) => PlaceInv(p) /\ StageInv(p)

-----------------------------------------------------------------------------
(* A command and its steps.                                                *)

LEMMA IsCommand ==
  ASSUME TypeOK, NEW p \in Procs, Initializes(p)
  PROVE  proc[p] \in Command
BY DEF TypeOK, Initializes, Idle, Heal, PCs

\* The command goes on; the others do not notice.
Moved(p) == /\ proc'[p] \in Command
            /\ proc'[p].db = proc[p].db /\ proc'[p].path = proc[p].path
            /\ proc'[p].id = proc[p].id
            /\ \A q \in Procs : q # p => proc'[q] = proc[q]
            /\ proc' \in [Procs -> {Idle} \cup Command \cup Heal]

LEMMA GoesIs ==
  ASSUME TypeOK, NEW p \in Procs, Initializes(p), NEW pc \in PCs, Goes(p, pc)
  PROVE  /\ Moved(p) /\ proc'[p].pc = pc /\ proc'[p].failed = proc[p].failed
         /\ proc'[p].unsure = proc[p].unsure /\ proc'[p].phase = proc[p].phase
<1>1. proc[p] \in Command
  BY IsCommand
<1>2. proc'[p] = [proc[p] EXCEPT !.pc = pc] /\ \A q \in Procs : q # p => proc'[q] = proc[q]
  BY DEF Goes, Becomes, TypeOK
<1>3. /\ proc'[p] \in Command /\ proc'[p].db = proc[p].db /\ proc'[p].path = proc[p].path
      /\ proc'[p].id = proc[p].id /\ proc'[p].pc = pc /\ proc'[p].failed = proc[p].failed
      /\ proc'[p].unsure = proc[p].unsure /\ proc'[p].phase = proc[p].phase
  BY <1>1, <1>2 DEF Command
<1>4. proc' \in [Procs -> {Idle} \cup Command \cup Heal]
  BY <1>2, <1>3 DEF Goes, Becomes, TypeOK
<1> QED BY <1>2, <1>3, <1>4 DEF Moved

LEMMA FailsIs ==
  ASSUME TypeOK, NEW p \in Procs, Initializes(p), NEW undo \in BOOLEAN, NEW pc \in PCs,
         Fails(p, undo, pc)
  PROVE  /\ Moved(p) /\ proc'[p].pc = pc /\ proc'[p].failed = TRUE
         /\ proc'[p].unsure = proc[p].unsure /\ proc'[p].phase = proc[p].phase
<1>1. proc[p] \in Command
  BY IsCommand
<1>2. /\ proc'[p] = [proc[p] EXCEPT !.failed = TRUE, !.undo = undo, !.pc = pc]
      /\ \A q \in Procs : q # p => proc'[q] = proc[q]
  BY DEF Fails, Becomes, TypeOK
<1>3. /\ proc'[p] \in Command /\ proc'[p].db = proc[p].db /\ proc'[p].path = proc[p].path
      /\ proc'[p].id = proc[p].id /\ proc'[p].pc = pc /\ proc'[p].failed = TRUE
      /\ proc'[p].unsure = proc[p].unsure /\ proc'[p].phase = proc[p].phase
  BY <1>1, <1>2 DEF Command
<1>4. proc' \in [Procs -> {Idle} \cup Command \cup Heal]
  BY <1>2, <1>3 DEF Fails, Becomes, TypeOK
<1> QED BY <1>2, <1>3, <1>4 DEF Moved

LEMMA UnsureIs ==
  ASSUME TypeOK, NEW p \in Procs, Initializes(p), Unsure(p)
  PROVE  /\ Moved(p) /\ proc'[p].pc = "close" /\ proc'[p].failed = TRUE
         /\ proc'[p].unsure = TRUE /\ proc'[p].phase = proc[p].phase
<1>1. proc[p] \in Command
  BY IsCommand
<1>2. /\ proc'[p] = [proc[p] EXCEPT !.failed = TRUE, !.unsure = TRUE, !.pc = "close"]
      /\ \A q \in Procs : q # p => proc'[q] = proc[q]
  BY DEF Unsure, Becomes, TypeOK
<1>3. /\ proc'[p] \in Command /\ proc'[p].db = proc[p].db /\ proc'[p].path = proc[p].path
      /\ proc'[p].id = proc[p].id /\ proc'[p].pc = "close" /\ proc'[p].failed = TRUE
      /\ proc'[p].unsure = TRUE /\ proc'[p].phase = proc[p].phase
  BY <1>1, <1>2 DEF Command, PCs
<1>4. proc' \in [Procs -> {Idle} \cup Command \cup Heal]
  BY <1>2, <1>3 DEF Unsure, Becomes, TypeOK
<1> QED BY <1>2, <1>3, <1>4 DEF Moved

LEMMA ReleaseIs ==
  ASSUME TypeOK, NEW p \in Procs, Initializes(p),
         Becomes(p, [proc[p] EXCEPT !.phase = "database-initialized", !.pc = "default"])
  PROVE  /\ Moved(p) /\ proc'[p].pc = "default" /\ proc'[p].phase = "database-initialized"
<1>1. proc[p] \in Command
  BY IsCommand
<1>2. /\ proc'[p] = [proc[p] EXCEPT !.phase = "database-initialized", !.pc = "default"]
      /\ \A q \in Procs : q # p => proc'[q] = proc[q]
  BY DEF Becomes, TypeOK
<1>3. /\ proc'[p] \in Command /\ proc'[p].db = proc[p].db /\ proc'[p].path = proc[p].path
      /\ proc'[p].id = proc[p].id /\ proc'[p].pc = "default"
      /\ proc'[p].phase = "database-initialized"
  BY <1>1, <1>2 DEF Command, PCs, Phases
<1>4. proc' \in [Procs -> {Idle} \cup Command \cup Heal]
  BY <1>2, <1>3 DEF Becomes, TypeOK
<1> QED BY <1>2, <1>3, <1>4 DEF Moved

\* The command is over, or does not initialize.
Left(p) == /\ ~Initializes(p)' /\ \A q \in Procs : q # p => proc'[q] = proc[q]
           /\ proc' \in [Procs -> {Idle} \cup Command \cup Heal]

LEMMA EndsIs ==
  ASSUME TypeOK, NEW p \in Procs, Initializes(p),
         NEW how \in {"failed", "ready", "ambiguous"} \cup Phases, Ends(p, how)
  PROVE  /\ Left(p) /\ ends' = [ends EXCEPT ![proc[p].db] = how]
         /\ ends' \in [Databases -> {"none", "failed", "ready", "ambiguous"} \cup Phases]
<1>1. proc[p] \in Command /\ proc[p].db \in Databases
  BY IsCommand DEF Command
<1> QED BY <1>1 DEF Ends, Becomes, TypeOK, Left, Initializes, Idle, PCs

-----------------------------------------------------------------------------
(* What a step of one command leaves to the others.                        *)

Untouched(d) ==
  /\ \A g \in Paths : /\ data'[g] = d <=> data[g] = d
                      /\ key'[g] = d <=> key[g] = d
                      /\ anchor'[g] = d <=> anchor[g] = d
  /\ \A i \in Ids : profiles'[i] # NoProfile /\ profiles'[i].db = d =>
                      Named(i, d) /\ profiles'[i].path = profiles[i].path
  /\ ends'[d] = ends[d]

LocksKept(p) == \A q \in Procs, g \in Paths : q # p /\ lock[g] = q => lock'[g] = q

\* A step that concerns the database of p only.
OfCommand(p) == /\ \A e \in Databases : e # proc[p].db => Untouched(e)
                /\ LocksKept(p)
                /\ drawn' = drawn
                /\ (Moved(p) /\ UNCHANGED ends) \/ Left(p)

LEMMA OtherKept ==
  ASSUME TypeOK, NEW q \in Procs, Initializes(q), PlaceInv(q), StageInv(q), proc'[q] = proc[q],
         NEW d \in Databases, proc[q].db = d, Untouched(d),
         \A g \in Paths : lock[g] = q => lock'[g] = q
  PROVE  PlaceInv(q)' /\ StageInv(q)'
<1>1. proc[q] \in Command /\ proc[q].path \in Paths
  BY IsCommand DEF Command
<1>2. PlaceInv(q)'
  BY <1>1 DEF PlaceInv, Untouched, Named
<1>3. Unnamed(d) => Unnamed(d)'
  BY DEF Unnamed, Untouched, Named
<1>4. Nowhere(d) => Nowhere(d)'
  BY <1>3 DEF Nowhere, Untouched
<1>5. StageInv(q)'
  BY <1>1, <1>3, <1>4 DEF StageInv, Untouched
<1> QED BY <1>2, <1>5

LEMMA OfCommandDrawn ==
  ASSUME TypeOK, DrawnInv, NEW p \in Procs, Initializes(p), OfCommand(p)
  PROVE  DrawnInv'
<1>0. proc[p].db \in Databases /\ proc[p].db <= drawn
  BY IsCommand DEF Command, DrawnInv
<1>1. ASSUME NEW d \in Databases, d > drawn
      PROVE  ends'[d] = "none" /\ Nowhere(d)'
  <2>1. d # proc[p].db
    BY <1>0, <1>1, DatabasesAssumption DEF TypeOK, Databases
  <2>2. Untouched(d) /\ Nowhere(d) /\ ends[d] = "none"
    BY <1>1, <2>1 DEF OfCommand, DrawnInv
  <2> QED BY <2>2 DEF Untouched, Nowhere, Unnamed, Named
<1>2. \A q \in Procs : q # p => proc'[q] = proc[q] /\ (Initializes(q)' <=> Initializes(q))
  BY DEF OfCommand, Moved, Left, Initializes
<1>3. Initializes(p)' => proc'[p].db = proc[p].db /\ UNCHANGED ends
  BY DEF OfCommand, Moved, Left
<1>4. ASSUME NEW q \in Procs, Initializes(q)'
      PROVE  proc'[q].db <= drawn' /\ ends'[proc'[q].db] = "none"
  <2>1. CASE q = p
    BY <1>3, <1>4, <2>1 DEF DrawnInv, OfCommand
  <2>2. CASE q # p
    <3>1. proc[q].db \in Databases /\ Initializes(q)
      BY <1>2, <1>4, <2>2, IsCommand DEF Command
    <3>2. proc[q].db # proc[p].db
      BY <2>2, <3>1 DEF DrawnInv
    <3>3. ends'[proc[q].db] = ends[proc[q].db]
      BY <3>1, <3>2 DEF OfCommand, Untouched
    <3> QED BY <1>2, <2>2, <3>1, <3>3 DEF DrawnInv, OfCommand
  <2> QED BY <2>1, <2>2
<1>5. \A q, r \in Procs :
        Initializes(q)' /\ Initializes(r)' /\ proc'[q].db = proc'[r].db => q = r
  BY <1>2, <1>3 DEF DrawnInv
<1>6. drawn' = drawn
  BY DEF OfCommand
<1> QED BY <1>1, <1>4, <1>5, <1>6 DEF DrawnInv

\* What a step of p leaves to prove about p itself.
Kept(p) == /\ Initializes(p)' => PlaceInv(p)' /\ StageInv(p)'
           /\ ends'[proc[p].db] = "failed" =>
                /\ \A f \in Paths : data'[f] # proc[p].db
                /\ \A i \in Ids : profiles'[i] # NoProfile => profiles'[i].db # proc[p].db

CommandsInv == \A p \in Procs : Initializes(p) => PlaceInv(p) /\ StageInv(p)

LEMMA OfCommandKept ==
  ASSUME TypeOK, DrawnInv, EndsInv, CommandsInv, NEW p \in Procs, Initializes(p),
         OfCommand(p), Kept(p)
  PROVE  DrawnInv' /\ EndsInv' /\ CommandsInv'
<1>1. DrawnInv'
  BY OfCommandDrawn
<1>2. ASSUME NEW d \in Databases, ends'[d] = "failed"
      PROVE  (\A f \in Paths : data'[f] # d) /\ Unnamed(d)'
  <2>1. CASE d = proc[p].db
    BY <1>2, <2>1 DEF Kept, Unnamed, Named
  <2>2. CASE d # proc[p].db
    <3>1. Untouched(d)
      BY <2>2 DEF OfCommand
    <3>2. ends[d] = "failed"
      BY <1>2, <3>1 DEF Untouched
    <3> QED BY <3>1, <3>2 DEF EndsInv, Untouched, Unnamed, Named
  <2> QED BY <2>1, <2>2
<1>3. ASSUME NEW q \in Procs, Initializes(q)'
      PROVE  PlaceInv(q)' /\ StageInv(q)'
  <2>1. CASE q = p
    BY <1>3, <2>1 DEF Kept
  <2>2. CASE q # p
    <3>1. proc'[q] = proc[q]
      BY <2>2 DEF OfCommand, Moved, Left
    <3>2. Initializes(q)
      BY <1>3, <3>1 DEF Initializes
    <3>3. PICK d \in Databases : proc[q].db = d
      BY <3>2, IsCommand DEF Command
    <3>4. d # proc[p].db
      BY <2>2, <3>2, <3>3 DEF DrawnInv
    <3>5. Untouched(d)
      BY <3>4 DEF OfCommand
    <3>6. \A g \in Paths : lock[g] = q => lock'[g] = q
      BY <2>2 DEF OfCommand, LocksKept
    <3> QED BY <3>1, <3>2, <3>3, <3>5, <3>6, OtherKept DEF CommandsInv
  <2> QED BY <2>1, <2>2
<1> QED BY <1>1, <1>2, <1>3 DEF EndsInv, CommandsInv

\* A step that concerns no database.
LEMMA OfNobody ==
  ASSUME TypeOK, DrawnInv, EndsInv, CommandsInv, \A e \in Databases : Untouched(e),
         drawn' = drawn,
         \A q \in Procs : Initializes(q)' =>
           proc'[q] = proc[q] /\ \A g \in Paths : lock[g] = q => lock'[g] = q
  PROVE  DrawnInv' /\ EndsInv' /\ CommandsInv'
<1>1. ASSUME NEW q \in Procs, Initializes(q)'
      PROVE  /\ Initializes(q) /\ proc[q].db \in Databases /\ proc'[q] = proc[q]
             /\ PlaceInv(q)' /\ StageInv(q)'
  <2>1. Initializes(q) /\ proc'[q] = proc[q]
    BY <1>1 DEF Initializes
  <2>2. PICK d \in Databases : proc[q].db = d
    BY <2>1, IsCommand DEF Command
  <2>3. PlaceInv(q)' /\ StageInv(q)'
    BY <1>1, <2>1, <2>2, OtherKept DEF CommandsInv
  <2> QED BY <2>1, <2>2, <2>3
<1>2. \A d \in Databases : ends'[d] = ends[d]
  BY DEF Untouched
<1>3. DrawnInv'
  <2>1. \A d \in Databases : d > drawn => ends'[d] = "none" /\ Nowhere(d)'
    BY <1>2 DEF DrawnInv, Untouched, Nowhere, Unnamed, Named
  <2>2. \A q \in Procs : Initializes(q)' => proc'[q].db <= drawn /\ ends'[proc'[q].db] = "none"
    BY <1>1, <1>2 DEF DrawnInv
  <2>3. \A q, r \in Procs :
          Initializes(q)' /\ Initializes(r)' /\ proc'[q].db = proc'[r].db => q = r
    BY <1>1 DEF DrawnInv
  <2> QED BY <2>1, <2>2, <2>3 DEF DrawnInv
<1>4. EndsInv'
  BY <1>2 DEF EndsInv, Untouched, Unnamed, Named
<1> QED BY <1>1, <1>3, <1>4 DEF CommandsInv

-----------------------------------------------------------------------------
(* The steps of a command, one by one.                                     *)

\* Only the end of the database of p may be noted.
OwnEnd(p) == /\ ends' \in [Databases -> {"none", "failed", "ready", "ambiguous"} \cup Phases]
             /\ \A e \in Databases : e # proc[p].db => ends'[e] = ends[e]

LEMMA Quiet ==
  ASSUME TypeOK, FilesInv, NEW p \in Procs, UNCHANGED <<profiles, disk, drawn>>,
         OwnEnd(p), LocksKept(p), (Moved(p) /\ UNCHANGED ends) \/ Left(p),
         lock' \in [Paths -> Procs \cup {NoOne}]
  PROVE  OfCommand(p) /\ FilesInv' /\ TypeOK'
<1> USE DEF disk
<1>1. \A e \in Databases : e # proc[p].db => Untouched(e)
  BY DEF OwnEnd, Untouched, Named
<1>2. FilesInv'
  BY DEF FilesInv
<1>3. TypeOK'
  BY DEF TypeOK, OwnEnd, Moved, Left
<1> QED BY <1>1, <1>2, <1>3 DEF OfCommand

LEMMA MovedEnd ==
  ASSUME TypeOK, NEW p \in Procs, UNCHANGED ends
  PROVE  OwnEnd(p)
BY DEF TypeOK, OwnEnd

LEMMA LeftEnd ==
  ASSUME TypeOK, NEW p \in Procs, Initializes(p),
         NEW how \in {"failed", "ready", "ambiguous"} \cup Phases, Ends(p, how)
  PROVE  OwnEnd(p) /\ Left(p) /\ ends'[proc[p].db] = how
<1>1. proc[p].db \in Databases
  BY IsCommand DEF Command
<1> QED BY <1>1, EndsIs DEF OwnEnd, TypeOK

\* A command that stays where its files and profile are.
LEMMA MovedPlace ==
  ASSUME TypeOK, NEW p \in Procs, Initializes(p), PlaceInv(p), Moved(p),
         UNCHANGED <<profiles, disk>>,
         proc'[p].pc \in Locked => lock'[proc[p].path] = p
  PROVE  PlaceInv(p)'
<1> USE DEF disk
<1> QED BY DEF PlaceInv, Moved, Named

LEMMA NowhereKept ==
  ASSUME NEW d, Nowhere(d), UNCHANGED <<profiles, disk>>
  PROVE  Nowhere(d)'
BY DEF Nowhere, Unnamed, Named, disk

LEMMA UnnamedKept ==
  ASSUME NEW d, Unnamed(d), UNCHANGED profiles
  PROVE  Unnamed(d)'
BY DEF Unnamed, Named

\* The database the command p owns, as a constant of its steps.
OwnDb(p, d) == Initializes(p) /\ proc[p].db = d /\ d \in Databases /\ proc[p].path \in Paths

LEMMA ValidateStep ==
  ASSUME TypeOK, FilesInv, NEW p \in Procs, NEW d, OwnDb(p, d), PlaceInv(p), StageInv(p),
         proc[p].pc \in {"validate", "open"}, Nowhere(d),
         Validate(p) \/ OpenStore(p)
  PROVE  OfCommand(p) /\ Kept(p) /\ FilesInv' /\ TypeOK'
<1> USE DEF OwnDb
<1>1. /\ UNCHANGED <<profiles, disk, ends, drawn>> /\ Moved(p)
      /\ \/ proc'[p].pc \in {"open", "key"}
         \/ proc'[p].pc = "close" /\ proc'[p].failed = TRUE
      /\ lock' = lock \/ (lock' = [lock EXCEPT ![proc[p].path] = p] /\ lock[proc[p].path] = NoOne)
      /\ proc'[p].pc = "key" => lock'[proc[p].path] = p
  BY GoesIs, FailsIs DEF Validate, OpenStore, history, registry, PCs, TypeOK
<1>2. LocksKept(p) /\ lock' \in [Paths -> Procs \cup {NoOne}]
  BY <1>1, ApartAssumption DEF LocksKept, TypeOK
<1>3. PlaceInv(p)'
  BY <1>1, MovedPlace DEF Locked
<1>4. Nowhere(d)' /\ Unnamed(d)' /\ \A g \in Paths : data'[g] # d
  <2>1. Nowhere(d)'
    BY <1>1, NowhereKept
  <2> QED BY <2>1 DEF Nowhere
<1>5. StageInv(p)'
  BY <1>1, <1>4 DEF StageInv, Moved
<1>6. OfCommand(p) /\ FilesInv' /\ TypeOK'
  BY <1>1, <1>2, MovedEnd, Quiet
<1>7. Kept(p)
  BY <1>3, <1>4, <1>5 DEF Kept, Unnamed, Named
<1> QED BY <1>6, <1>7

LEMMA ReleaseStep ==
  ASSUME TypeOK, FilesInv, NEW p \in Procs, NEW d, OwnDb(p, d), PlaceInv(p), StageInv(p),
         ends[d] = "none", Release(p)
  PROVE  OfCommand(p) /\ Kept(p) /\ FilesInv' /\ TypeOK'
<1> USE DEF OwnDb
<1>1. /\ UNCHANGED <<profiles, disk, ends, drawn, lock>> /\ Moved(p)
      /\ \/ proc'[p].pc = "default" /\ proc'[p].phase = "database-initialized"
         \/ proc'[p].pc = "close" /\ proc'[p].failed = TRUE /\ proc'[p].unsure = TRUE
  BY ReleaseIs, UnsureIs DEF Release, history, registry
<1>2. LocksKept(p) /\ lock' \in [Paths -> Procs \cup {NoOne}]
  BY <1>1 DEF LocksKept, TypeOK
<1>3. PlaceInv(p)'
  BY <1>1, MovedPlace DEF Locked, PlaceInv, Release
<1>4. StageInv(p)'
  BY <1>1 DEF StageInv, Moved, Release, disk
<1>6. OfCommand(p) /\ FilesInv' /\ TypeOK'
  BY <1>1, <1>2, MovedEnd, Quiet
<1>7. Kept(p)
  BY <1>1, <1>3, <1>4 DEF Kept
<1> QED BY <1>6, <1>7

LEMMA CloseStep ==
  ASSUME TypeOK, FilesInv, NEW p \in Procs, NEW d, OwnDb(p, d), PlaceInv(p), StageInv(p),
         ends[d] = "none", Close(p)
  PROVE  OfCommand(p) /\ Kept(p) /\ FilesInv' /\ TypeOK'
<1> USE DEF OwnDb
<1>1. /\ UNCHANGED <<profiles, disk, drawn>>
      /\ LocksKept(p) /\ lock' \in [Paths -> Procs \cup {NoOne}]
  BY DEF Close, history, registry, LocksKept, TypeOK
<1>2. CASE Goes(p, "rollback") /\ UNCHANGED ends
  <2>1. Moved(p) /\ proc'[p].pc = "rollback" /\ proc'[p].failed = proc[p].failed
        /\ proc'[p].unsure = proc[p].unsure /\ proc'[p].phase = proc[p].phase
    BY <1>2, GoesIs DEF PCs
  <2>2. PlaceInv(p)'
    BY <1>1, <2>1, MovedPlace DEF Locked
  <2>3. proc[p].phase = "profile-added" /\ proc[p].pc = "close"
    BY <1>2, <2>1, EndsIs DEF Close, Left, Moved, Initializes, Ends, Becomes, Idle, TypeOK
  <2>4. Unnamed(d) => Unnamed(d)'
    BY <1>1, UnnamedKept
  <2>5. StageInv(p)'
    BY <1>1, <2>1, <2>3, <2>4 DEF StageInv, Moved, disk
  <2>6. OfCommand(p) /\ FilesInv' /\ TypeOK'
    BY <1>1, <1>2, <2>1, MovedEnd, Quiet
  <2>7. Kept(p)
    BY <1>2, <2>2, <2>5 DEF Kept
  <2> QED BY <2>6, <2>7
<1>3. CASE \E how \in {"ready", "ambiguous"} \cup Phases : Ends(p, how)
  <2>1. PICK how \in {"ready", "ambiguous"} \cup Phases : Ends(p, how)
    BY <1>3
  <2>2. OwnEnd(p) /\ Left(p) /\ ends'[proc[p].db] = how /\ how # "failed"
    BY <2>1, LeftEnd DEF Phases
  <2>3. OfCommand(p) /\ FilesInv' /\ TypeOK'
    BY <1>1, <2>2, Quiet
  <2> QED BY <2>2, <2>3 DEF Kept, Left
<1>4. \/ Goes(p, "rollback") /\ UNCHANGED ends
      \/ \E how \in {"ready", "ambiguous"} \cup Phases : Ends(p, how)
  <2>1. proc[p].phase \in Phases
    BY IsCommand DEF Command
  <2> QED BY <2>1 DEF Close
<1> QED BY <1>2, <1>3, <1>4

\* A plain failure is reported only of a database that is nowhere to be found.
LEMMA FailureStep ==
  ASSUME TypeOK, FilesInv, NEW p \in Procs, NEW d, OwnDb(p, d),
         Ends(p, Failure(p)), UNCHANGED <<disk, drawn, lock, profiles>>,
         proc[p].unsure \/ (data[proc[p].path] # d /\ Unnamed(d)), PlaceInv(p)
  PROVE  OfCommand(p) /\ Kept(p) /\ FilesInv' /\ TypeOK'
<1> USE DEF OwnDb
<1>1. /\ OwnEnd(p) /\ Left(p)
      /\ ends'[proc[p].db] = IF proc[p].unsure THEN "ambiguous" ELSE "failed"
  BY LeftEnd DEF Failure
<1>2. LocksKept(p) /\ lock' \in [Paths -> Procs \cup {NoOne}]
  BY DEF LocksKept, TypeOK
<1>3. OfCommand(p) /\ FilesInv' /\ TypeOK'
  BY <1>1, <1>2, Quiet
<1>4. Kept(p)
  BY <1>1 DEF Kept, Left, PlaceInv, disk, Unnamed, Named
<1> QED BY <1>3, <1>4

LEMMA RollbackReadStep ==
  ASSUME TypeOK, FilesInv, NEW p \in Procs, NEW d, OwnDb(p, d), PlaceInv(p), StageInv(p),
         ends[d] = "none", RollbackRead(p)
  PROVE  OfCommand(p) /\ Kept(p) /\ FilesInv' /\ TypeOK'
<1> USE DEF OwnDb
<1>1. /\ UNCHANGED <<profiles, disk, drawn, lock>> /\ proc[p].pc = "rollback"
      /\ (Goes(p, "withdraw") /\ UNCHANGED ends) \/ Ends(p, Failure(p))
  BY DEF RollbackRead, history, registry
<1>2. CASE Goes(p, "withdraw") /\ UNCHANGED ends
  <2>1. Moved(p) /\ proc'[p].pc = "withdraw" /\ proc'[p].failed = proc[p].failed
        /\ proc'[p].unsure = proc[p].unsure /\ proc'[p].phase = proc[p].phase
    BY <1>2, GoesIs DEF PCs
  <2>2. PlaceInv(p)'
    BY <1>1, <2>1, MovedPlace DEF Locked
  <2>4. Unnamed(d) => Unnamed(d)'
    BY <1>1, UnnamedKept
  <2>5. StageInv(p)'
    BY <1>1, <2>1, <2>4 DEF StageInv, Moved, disk
  <2>3. LocksKept(p) /\ lock' \in [Paths -> Procs \cup {NoOne}]
    BY <1>1 DEF LocksKept, TypeOK
  <2>6. OfCommand(p) /\ FilesInv' /\ TypeOK'
    BY <1>1, <1>2, <2>1, <2>3, MovedEnd, Quiet
  <2>7. Kept(p)
    BY <1>2, <2>2, <2>5 DEF Kept
  <2> QED BY <2>6, <2>7
<1>3. CASE Ends(p, Failure(p))
  BY <1>1, <1>3, FailureStep DEF StageInv
<1> QED BY <1>1, <1>2, <1>3

-----------------------------------------------------------------------------
(* Steps that publish or withdraw a profile.                               *)

\* A profile of the database d at the path f.
Complete(r, d, f) == r \in Profile /\ r.db = d /\ r.path = f /\ r # NoProfile

LEMMA UnboundIs ==
  ASSUME NEW f \in Paths, NEW d \in Databases
  PROVE  /\ Unbound(f) \in Profile /\ Unbound(f).db = Vacant /\ Unbound(f).path = f
         /\ Complete([Unbound(f) EXCEPT !.db = d], d, f)
         /\ Complete([[Unbound(f) EXCEPT !.db = d] EXCEPT !.vault = TRUE], d, f)
<1>1. 0 \in 0 .. MaxDatabases /\ d \in 0 .. MaxDatabases /\ 0 .. MaxDatabases \subseteq Nat
  BY DatabasesAssumption DEF Databases
<1>2. /\ Unbound(f) \in Profile /\ Unbound(f).db = Vacant /\ Unbound(f).path = f
  BY <1>1 DEF Unbound, Vacant, Profile
<1>3. Profile \subseteq [path : Paths, db : Nat, vault : BOOLEAN]
  BY <1>1 DEF Profile
<1> DEFINE r == [Unbound(f) EXCEPT !.db = d]
           s == [r EXCEPT !.vault = TRUE]
<1>4. r \in Profile /\ r.db = d /\ r.path = f
  BY <1>1, <1>2 DEF Profile
<1> HIDE DEF r
<1>5. s \in Profile /\ s.db = d /\ s.path = f
  BY <1>1, <1>4 DEF Profile
<1> HIDE DEF s
<1>6. Complete(r, d, f) /\ Complete(s, d, f)
  BY <1>3, <1>4, <1>5, ApartAssumption DEF Complete
<1> QED BY <1>2, <1>6 DEF r, s

\* The profile `what` of the command p is published as i: it names no database,
\* or the complete one of p.
Published(p, i, what) ==
  /\ profiles' = [profiles EXCEPT ![i] = what]
  /\ what \in {NoProfile} \cup Profile
  /\ what # NoProfile /\ what.db # Vacant =>
       /\ what.db = proc[p].db /\ what.path = proc[p].path
       /\ data[what.path] = what.db /\ key[what.path] = what.db /\ anchor[what.path] = what.db

LEMMA Registers ==
  ASSUME TypeOK, FilesInv, NEW p \in Procs, NEW i \in Ids, NEW what, Published(p, i, what),
         UNCHANGED <<disk, drawn, lock>>,
         OwnEnd(p), (Moved(p) /\ UNCHANGED ends) \/ Left(p)
  PROVE  /\ OfCommand(p) /\ FilesInv' /\ TypeOK'
         /\ PlaceInv(p) => \A j \in Ids :
              profiles'[j] # NoProfile /\ profiles'[j].db = proc[p].db /\ proc[p].db # Vacant
                => profiles'[j].path = proc[p].path
<1> USE DEF disk
<1>0. \A j \in Ids : profiles'[j] = IF j = i THEN what ELSE profiles[j]
  BY DEF Published, TypeOK
<1>1. \A e \in Databases : e # proc[p].db => Untouched(e)
  BY <1>0, DatabasesAssumption DEF OwnEnd, Untouched, Named, Published, Databases, Vacant
<1>2. FilesInv'
  BY <1>0 DEF FilesInv, Published
<1>3. profiles' \in [Ids -> {NoProfile} \cup Profile]
  BY DEF Published, TypeOK
<1>4. TypeOK'
  BY <1>3 DEF TypeOK, OwnEnd, Moved, Left
<1>5. LocksKept(p)
  BY DEF LocksKept
<1>6. OfCommand(p)
  BY <1>1, <1>5 DEF OfCommand
<1>7. PlaceInv(p) => \A j \in Ids :
        profiles'[j] # NoProfile /\ profiles'[j].db = proc[p].db /\ proc[p].db # Vacant
          => profiles'[j].path = proc[p].path
  BY <1>0 DEF Published, PlaceInv, Named
<1> QED BY <1>2, <1>4, <1>6, <1>7

LEMMA AddProfileStep ==
  ASSUME TypeOK, FilesInv, NEW p \in Procs, NEW d, OwnDb(p, d), PlaceInv(p), StageInv(p),
         ends[d] = "none", AddProfile(p)
  PROVE  OfCommand(p) /\ Kept(p) /\ FilesInv' /\ TypeOK'
<1> USE DEF OwnDb
<1>0. /\ proc[p].pc = "add" /\ Nowhere(d) /\ Unnamed(d) /\ \A g \in Paths : data[g] # d
      /\ UNCHANGED <<disk, drawn, lock>> /\ proc[p].id \in Ids /\ d # Vacant
  BY IsCommand DEF AddProfile, StageInv, Nowhere, history, Command, Databases, Vacant
<1>1. \/ UNCHANGED profiles
      \/ /\ Published(p, proc[p].id, Unbound(proc[p].path))
         /\ profiles' = [profiles EXCEPT ![proc[p].id] = Unbound(proc[p].path)]
  BY UnboundIs DEF AddProfile, Publish, Published, registry
<1>2. Unnamed(d)' /\ Nowhere(d)'
  <2>1. Unbound(proc[p].path).db # d
    BY <1>0, UnboundIs
  <2>2. \A j \in Ids : profiles'[j] = profiles[j] \/ profiles'[j].db # d
    BY <1>1, <2>1 DEF TypeOK
  <2>3. Unnamed(d)'
    BY <1>0, <2>2 DEF Unnamed, Named
  <2> QED BY <1>0, <2>3 DEF Nowhere, disk
<1>3. CASE Goes(p, "validate") /\ UNCHANGED ends
  <2>1. Moved(p) /\ proc'[p].pc = "validate"
    BY <1>3, GoesIs DEF PCs
  <2>2. OfCommand(p) /\ FilesInv' /\ TypeOK'
    <3>1. LocksKept(p) /\ lock' \in [Paths -> Procs \cup {NoOne}] /\ OwnEnd(p)
      BY <1>0, <1>3, MovedEnd DEF LocksKept, TypeOK
    <3>2. CASE UNCHANGED profiles
      BY <1>0, <1>3, <2>1, <3>1, <3>2, Quiet
    <3> QED BY <1>0, <1>1, <1>3, <2>1, <3>1, <3>2, Registers
  <2>3. PlaceInv(p)' /\ StageInv(p)'
    BY <1>0, <1>2, <2>1 DEF PlaceInv, StageInv, Moved, Locked, Nowhere, Unnamed, Named
  <2> QED BY <1>3, <2>2, <2>3 DEF Kept
<1>4. CASE Ends(p, "failed")
  <2>1. OwnEnd(p) /\ Left(p)
    BY <1>4, LeftEnd
  <2>2. OfCommand(p) /\ FilesInv' /\ TypeOK'
    <3>1. LocksKept(p) /\ lock' \in [Paths -> Procs \cup {NoOne}]
      BY <1>0 DEF LocksKept, TypeOK
    <3>2. CASE UNCHANGED profiles
      BY <1>0, <2>1, <3>1, <3>2, Quiet
    <3> QED BY <1>0, <1>1, <2>1, <3>1, <3>2, Registers
  <2> QED BY <1>0, <1>2, <2>1, <2>2 DEF Kept, Left, Unnamed, Named, disk
<1>5. (Goes(p, "validate") /\ UNCHANGED ends) \/ Ends(p, "failed")
  BY DEF AddProfile
<1> QED BY <1>3, <1>4, <1>5

LEMMA BindStep ==
  ASSUME TypeOK, FilesInv, NEW p \in Procs, NEW d, OwnDb(p, d), PlaceInv(p), StageInv(p),
         ends[d] = "none", Bind(p)
  PROVE  OfCommand(p) /\ Kept(p) /\ FilesInv' /\ TypeOK'
<1> USE DEF OwnDb
<1> DEFINE f == proc[p].path
           r == [Unbound(f) EXCEPT !.db = d]
<1>0. /\ proc[p].pc = "bind" /\ data[f] = d /\ key[f] = d /\ anchor[f] = d /\ Unnamed(d)
      /\ UNCHANGED <<disk, drawn, lock, ends>> /\ proc[p].id \in Ids /\ d # Vacant
      /\ lock[f] = p
  BY IsCommand DEF Bind, StageInv, PlaceInv, Locked, history, Command, Databases, Vacant
<1>1. Complete(r, d, f)
  BY UnboundIs
<1>2. \/ UNCHANGED profiles
      \/ profiles' = [profiles EXCEPT ![proc[p].id] = r]
  BY DEF Bind, Publish, registry
<1>3. /\ Moved(p)
      /\ \/ proc'[p].pc = "release"
         \/ proc'[p].pc = "close" /\ proc'[p].failed = TRUE /\ proc'[p].unsure = TRUE
         \/ proc'[p].pc = "undo" /\ proc'[p].failed = TRUE /\ UNCHANGED profiles
  BY GoesIs, UnsureIs, FailsIs DEF Bind, PCs, registry
<1>4. OwnEnd(p) /\ LocksKept(p) /\ lock' \in [Paths -> Procs \cup {NoOne}]
  BY <1>0, MovedEnd DEF LocksKept, TypeOK
<1>5. OfCommand(p) /\ FilesInv' /\ TypeOK' /\ PlaceInv(p)'
  <2>1. CASE UNCHANGED profiles
    <3>1. PlaceInv(p)'
      BY <1>0, <1>3, <2>1, MovedPlace
    <3> QED BY <1>0, <1>3, <1>4, <2>1, <3>1, Quiet
  <2>2. CASE profiles' = [profiles EXCEPT ![proc[p].id] = r]
    <3>1. Published(p, proc[p].id, r)
      BY <1>0, <1>1, <2>2 DEF Published, Complete
    <3> HIDE DEF r
    <3>2. /\ OfCommand(p) /\ FilesInv' /\ TypeOK'
          /\ \A j \in Ids : profiles'[j] # NoProfile /\ profiles'[j].db = d
                             => profiles'[j].path = f
      BY <1>0, <1>3, <1>4, <3>1, Registers
    <3>3. PlaceInv(p)'
      BY <1>0, <1>3, <3>2 DEF PlaceInv, Moved, Named, disk
    <3> QED BY <3>2, <3>3
  <2> QED BY <1>2, <2>1, <2>2
<1>6. UNCHANGED profiles => Unnamed(d)'
  BY <1>0, UnnamedKept
<1>7. StageInv(p)'
  BY <1>0, <1>3, <1>6 DEF StageInv, Moved, disk
<1>8. Kept(p)
  BY <1>0, <1>5, <1>7 DEF Kept
<1> QED BY <1>5, <1>8

LEMMA SetDefaultStep ==
  ASSUME TypeOK, FilesInv, NEW p \in Procs, NEW d, OwnDb(p, d), PlaceInv(p), StageInv(p),
         ends[d] = "none", SetDefault(p) \/ Select(p)
  PROVE  OfCommand(p) /\ Kept(p) /\ FilesInv' /\ TypeOK'
<1> USE DEF OwnDb
<1> DEFINE f == proc[p].path
           r == [[Unbound(f) EXCEPT !.db = d] EXCEPT !.vault = TRUE]
<1>0. /\ proc[p].pc \in {"default", "select"} /\ data[f] = d /\ key[f] = d /\ anchor[f] = d
      /\ UNCHANGED <<disk, drawn, lock, ends>> /\ proc[p].id \in Ids /\ d # Vacant
      /\ lock[f] = p /\ proc[p].phase = "database-initialized"
  <2>1. proc[p].pc \in {"default", "select"} /\ UNCHANGED <<disk, drawn, lock, ends>>
    BY DEF SetDefault, Select, history
  <2>2. /\ data[f] = d /\ key[f] = d /\ anchor[f] = d
        /\ proc[p].phase = "database-initialized" /\ lock[f] = p
    BY <2>1 DEF StageInv, PlaceInv, Locked
  <2>3. proc[p].id \in Ids /\ d # Vacant
    BY IsCommand, DatabasesAssumption DEF Command, Databases, Vacant
  <2> QED BY <2>1, <2>2, <2>3
<1>1. Complete(r, d, f)
  BY UnboundIs
<1>2. \/ UNCHANGED profiles
      \/ profiles' = [profiles EXCEPT ![proc[p].id] = r]
  BY DEF SetDefault, Select, Publish, registry
<1>3. /\ Moved(p) /\ proc'[p].pc \in {"select", "close"}
      /\ proc'[p].phase = "database-initialized"
  BY <1>0, GoesIs, FailsIs DEF SetDefault, Select, PCs
<1>4. OwnEnd(p) /\ LocksKept(p) /\ lock' \in [Paths -> Procs \cup {NoOne}]
  BY <1>0, MovedEnd DEF LocksKept, TypeOK
<1>5. OfCommand(p) /\ FilesInv' /\ TypeOK' /\ PlaceInv(p)'
  <2>1. CASE UNCHANGED profiles
    <3>1. PlaceInv(p)'
      BY <1>0, <1>3, <2>1, MovedPlace
    <3> QED BY <1>0, <1>3, <1>4, <2>1, <3>1, Quiet
  <2>2. CASE profiles' = [profiles EXCEPT ![proc[p].id] = r]
    <3>1. Published(p, proc[p].id, r)
      BY <1>0, <1>1, <2>2 DEF Published, Complete
    <3> HIDE DEF r
    <3>2. /\ OfCommand(p) /\ FilesInv' /\ TypeOK'
          /\ \A j \in Ids : profiles'[j] # NoProfile /\ profiles'[j].db = d
                             => profiles'[j].path = f
      BY <1>0, <1>3, <1>4, <3>1, Registers
    <3>3. PlaceInv(p)'
      BY <1>0, <1>3, <3>2 DEF PlaceInv, Moved, Named, disk
    <3> QED BY <3>2, <3>3
  <2> QED BY <1>2, <2>1, <2>2
<1>7. StageInv(p)'
  BY <1>0, <1>3 DEF StageInv, Moved, disk
<1>8. Kept(p)
  BY <1>0, <1>5, <1>7 DEF Kept
<1> QED BY <1>5, <1>8

\* Profiles are withdrawn and none is published.
Withdrawn == /\ \A j \in Ids : profiles'[j] \in {profiles[j], NoProfile}
             /\ profiles' \in [Ids -> {NoProfile} \cup Profile]

LEMMA WithdrawIs ==
  ASSUME TypeOK, NEW ids, Withdraw(ids)
  PROVE  Withdrawn
BY DEF Withdraw, Withdrawn, TypeOK

LEMMA WithdrawnKeeps ==
  ASSUME TypeOK, FilesInv, Withdrawn, UNCHANGED disk
  PROVE  /\ FilesInv' /\ \A e \in Databases : ends'[e] = ends[e] => Untouched(e)
         /\ \A e \in Databases : Unnamed(e) => Unnamed(e)'
<1>1. FilesInv'
  BY DEF FilesInv, Withdrawn, disk
<1>2. \A e \in Databases : ends'[e] = ends[e] => Untouched(e)
  BY DEF Untouched, Named, Withdrawn, disk
<1>3. \A e \in Databases : Unnamed(e) => Unnamed(e)'
  BY DEF Unnamed, Named, Withdrawn
<1> QED BY <1>1, <1>2, <1>3

LEMMA RollbackRemoveStep ==
  ASSUME TypeOK, FilesInv, NEW p \in Procs, NEW d, OwnDb(p, d), PlaceInv(p), StageInv(p),
         ends[d] = "none", RollbackRemove(p)
  PROVE  OfCommand(p) /\ Kept(p) /\ FilesInv' /\ TypeOK'
<1> USE DEF OwnDb
<1>1. /\ proc[p].pc = "withdraw" /\ Ends(p, Failure(p)) /\ UNCHANGED <<disk, drawn, lock>>
      /\ Withdrawn
  <2>1. Withdraw({proc[p].id}) \/ UNCHANGED profiles
    BY DEF RollbackRemove, registry
  <2>2. UNCHANGED profiles => Withdrawn
    BY DEF Withdrawn, TypeOK
  <2> QED BY <2>1, <2>2, WithdrawIs DEF RollbackRemove, history
<1>2. /\ OwnEnd(p) /\ Left(p)
      /\ ends'[proc[p].db] = IF proc[p].unsure THEN "ambiguous" ELSE "failed"
  BY <1>1, LeftEnd DEF Failure
<1>3. FilesInv' /\ \A e \in Databases : e # d => Untouched(e)
  BY <1>1, <1>2, WithdrawnKeeps DEF OwnEnd
<1>4. OfCommand(p)
  BY <1>1, <1>2, <1>3 DEF OfCommand, LocksKept
<1>5. TypeOK'
  BY <1>1, <1>2 DEF TypeOK, OwnEnd, Left, Withdrawn, disk
<1>6. ~proc[p].unsure => data[proc[p].path] # d /\ Unnamed(d)'
  <2>1. ~proc[p].unsure => data[proc[p].path] # d /\ Unnamed(d)
    BY <1>1 DEF StageInv
  <2> QED BY <1>1, <2>1, WithdrawnKeeps
<1>7. Kept(p)
  BY <1>1, <1>2, <1>6 DEF Kept, Left, PlaceInv, disk, Unnamed, Named
<1> QED BY <1>3, <1>4, <1>5, <1>7

-----------------------------------------------------------------------------
(* Steps that change a file.                                               *)

\* The files of p's path hold what they held, or the database of p, or, where
\* they held that, nothing.
Wrote(p) ==
  /\ \A g \in Paths : g # proc[p].path =>
       data'[g] = data[g] /\ key'[g] = key[g] /\ anchor'[g] = anchor[g]
  /\ LET f == proc[p].path  d == proc[p].db
     IN /\ data'[f] # data[f] => {data[f], data'[f]} \subseteq {d, Vacant, Tombstone}
        /\ key'[f] # key[f] => {key[f], key'[f]} \subseteq {d, Vacant, Tombstone}
        /\ anchor'[f] # anchor[f] => {anchor[f], anchor'[f]} \subseteq {d, Vacant, Tombstone}
  /\ data' \in [Paths -> Content] /\ key' \in [Paths -> Content]
  /\ anchor' \in [Paths -> Content]

LEMMA Writes ==
  ASSUME TypeOK, NEW p \in Procs, NEW d, OwnDb(p, d), Wrote(p), PlaceInv(p),
         UNCHANGED <<profiles, drawn, lock, ends>>, Moved(p)
  PROVE  /\ OfCommand(p) /\ TypeOK'
         /\ (proc'[p].pc \in Locked => lock[proc[p].path] = p) => PlaceInv(p)'
<1> USE DEF OwnDb
<1>1. ASSUME NEW e \in Databases, e # d PROVE Untouched(e)
  <2>1. e # Vacant /\ e # Tombstone
    BY DatabasesAssumption DEF Databases, Vacant, Tombstone
  <2> QED BY <1>1, <2>1 DEF Untouched, Wrote, Named
<1>2. OfCommand(p)
  BY <1>1 DEF OfCommand, LocksKept
<1>3. TypeOK'
  BY DEF TypeOK, Wrote, Moved
<1>4. (proc'[p].pc \in Locked => lock[proc[p].path] = p) => PlaceInv(p)'
  BY DEF PlaceInv, Wrote, Moved, Named
<1> QED BY <1>2, <1>3, <1>4

LEMMA CreateKeyStep ==
  ASSUME TypeOK, FilesInv, NEW p \in Procs, NEW d, OwnDb(p, d), PlaceInv(p), StageInv(p),
         ends[d] = "none", CreateKey(p)
  PROVE  OfCommand(p) /\ Kept(p) /\ FilesInv' /\ TypeOK'
<1> USE DEF OwnDb
<1> DEFINE f == proc[p].path
<1>0. /\ proc[p].pc = "key" /\ Nowhere(d) /\ Unnamed(d) /\ \A g \in Paths : data[g] # d
      /\ lock[f] = p /\ UNCHANGED <<profiles, data, anchor, drawn, lock, ends>>
  BY DEF CreateKey, StageInv, PlaceInv, Locked, Nowhere, registry, history
<1>1. d # Vacant /\ d # Tombstone /\ d \in Content /\ Vacant \notin Databases
  BY DatabasesAssumption DEF Databases, Vacant, Tombstone, Content
<1>2. /\ Moved(p)
      /\ \/ key[f] = Vacant /\ key' = [key EXCEPT ![f] = d] /\ proc'[p].pc = "create"
         \/ key[f] = Vacant /\ key' = [key EXCEPT ![f] = d]
            /\ proc'[p].pc = "clean" /\ proc'[p].failed = TRUE
         \/ key' = key /\ proc'[p].pc = "close" /\ proc'[p].failed = TRUE
  BY GoesIs, FailsIs DEF CreateKey, PCs
<1>3. Wrote(p)
  BY <1>0, <1>1, <1>2 DEF Wrote, TypeOK
<1>4. OfCommand(p) /\ TypeOK' /\ PlaceInv(p)'
  BY <1>0, <1>2, <1>3, Writes
<1>5. FilesInv'
  <2>1. \A g \in Paths : key'[g] = key[g] \/ (g = f /\ key[g] = Vacant)
    BY <1>2 DEF TypeOK
  <2>2. \A i \in Ids : profiles[i] # NoProfile => profiles[i].path \in Paths
    BY DEF TypeOK, Profile
  <2> QED BY <1>0, <1>1, <2>1, <2>2 DEF FilesInv
<1>6. Unnamed(d)'
  BY <1>0, UnnamedKept
<1>7. StageInv(p)'
  BY <1>0, <1>2, <1>6 DEF StageInv, Moved, TypeOK
<1>8. Kept(p)
  BY <1>0, <1>4, <1>7 DEF Kept
<1> QED BY <1>4, <1>5, <1>8

LEMMA CreateDatabaseStep ==
  ASSUME TypeOK, FilesInv, NEW p \in Procs, NEW d, OwnDb(p, d), PlaceInv(p), StageInv(p),
         ends[d] = "none", CreateDatabase(p)
  PROVE  OfCommand(p) /\ Kept(p) /\ FilesInv' /\ TypeOK'
<1> USE DEF OwnDb
<1> DEFINE f == proc[p].path
<1>0. /\ proc[p].pc = "create" /\ key[f] = d /\ data[f] # d /\ Unnamed(d)
      /\ lock[f] = p /\ UNCHANGED <<profiles, key, anchor, drawn, lock, ends>>
  BY DEF CreateDatabase, StageInv, PlaceInv, Locked, registry, history
<1>1. d # Vacant /\ d # Tombstone /\ d \in Content /\ Vacant \notin Databases
  BY DatabasesAssumption DEF Databases, Vacant, Tombstone, Content
<1>2. data[f] \in {Vacant, Tombstone}
  <2>1. data[f] \notin Databases
    BY <1>0 DEF FilesInv
  <2>2. data[f] \in Content
    BY DEF TypeOK
  <2> QED BY <2>1, <2>2, DatabasesAssumption DEF Content, Databases, Vacant, Tombstone
<1>3. \/ Goes(p, "anchor") /\ data' = [data EXCEPT ![f] = d]
      \/ Fails(p, FALSE, "clean") /\ data' = data
      \/ Fails(p, TRUE, "undo") /\ (data' = data \/ data' = [data EXCEPT ![f] = d])
  BY DEF CreateDatabase
<1>4. /\ Moved(p)
      /\ \/ data' = [data EXCEPT ![f] = d] /\ proc'[p].pc = "anchor"
         \/ data' = data /\ proc'[p].pc = "clean" /\ proc'[p].failed = TRUE
         \/ /\ data' = data \/ data' = [data EXCEPT ![f] = d]
            /\ proc'[p].pc = "undo" /\ proc'[p].failed = TRUE
  <2>1. Goes(p, "anchor") => Moved(p) /\ proc'[p].pc = "anchor"
    BY GoesIs DEF PCs
  <2>2. Fails(p, FALSE, "clean") => Moved(p) /\ proc'[p].pc = "clean" /\ proc'[p].failed = TRUE
    BY FailsIs DEF PCs
  <2>3. Fails(p, TRUE, "undo") => Moved(p) /\ proc'[p].pc = "undo" /\ proc'[p].failed = TRUE
    BY FailsIs DEF PCs
  <2> QED BY <1>3, <2>1, <2>2, <2>3
<1>5. data' = data \/ data' = [data EXCEPT ![f] = d]
  BY <1>4
<1>6. Wrote(p)
  BY <1>0, <1>1, <1>2, <1>5 DEF Wrote, TypeOK
<1>7. OfCommand(p) /\ TypeOK' /\ PlaceInv(p)'
  BY <1>0, <1>4, <1>6, Writes
<1>8. FilesInv'
  <2>1. \A g \in Paths : data'[g] = data[g] \/ (g = f /\ data'[g] = d)
    BY <1>5 DEF TypeOK
  <2>2. \A i \in Ids : profiles[i] # NoProfile => profiles[i].path \in Paths
    BY DEF TypeOK, Profile
  <2>3. \A i \in Ids : profiles[i] # NoProfile /\ profiles[i].path = f => profiles[i].db = Vacant
    BY <1>0, <1>1 DEF FilesInv, Unnamed, Named
  <2> QED BY <1>0, <2>1, <2>2, <2>3 DEF FilesInv
<1>9. Unnamed(d)'
  BY <1>0, UnnamedKept
<1>10. StageInv(p)'
  BY <1>0, <1>4, <1>9 DEF StageInv, Moved, TypeOK
<1>11. Kept(p)
  BY <1>0, <1>7, <1>10 DEF Kept
<1> QED BY <1>7, <1>8, <1>11

LEMMA CreateAnchorStep ==
  ASSUME TypeOK, FilesInv, NEW p \in Procs, NEW d, OwnDb(p, d), PlaceInv(p), StageInv(p),
         ends[d] = "none", CreateAnchor(p)
  PROVE  OfCommand(p) /\ Kept(p) /\ FilesInv' /\ TypeOK'
<1> USE DEF OwnDb
<1> DEFINE f == proc[p].path
<1>0. /\ proc[p].pc = "anchor" /\ key[f] = d /\ data[f] = d /\ Unnamed(d)
      /\ lock[f] = p /\ UNCHANGED <<profiles, key, data, drawn, lock, ends>>
  BY DEF CreateAnchor, StageInv, PlaceInv, Locked, registry, history
<1>1. d # Vacant /\ d # Tombstone /\ d \in Content /\ Vacant \notin Databases
  BY DatabasesAssumption DEF Databases, Vacant, Tombstone, Content
<1>2. \/ Goes(p, "bind") /\ anchor[f] = Vacant /\ anchor' = [anchor EXCEPT ![f] = d]
      \/ /\ Fails(p, TRUE, "undo")
         /\ anchor' = anchor \/ (anchor[f] = Vacant /\ anchor' = [anchor EXCEPT ![f] = d])
  BY DEF CreateAnchor
<1>3. /\ Moved(p)
      /\ \/ proc'[p].pc = "bind" /\ anchor' = [anchor EXCEPT ![f] = d]
         \/ proc'[p].pc = "undo" /\ proc'[p].failed = TRUE
  <2>1. Goes(p, "bind") => Moved(p) /\ proc'[p].pc = "bind"
    BY GoesIs DEF PCs
  <2>2. Fails(p, TRUE, "undo") => Moved(p) /\ proc'[p].pc = "undo" /\ proc'[p].failed = TRUE
    BY FailsIs DEF PCs
  <2> QED BY <1>2, <2>1, <2>2
<1>4. anchor' = anchor \/ (anchor[f] = Vacant /\ anchor' = [anchor EXCEPT ![f] = d])
  BY <1>2
<1>5. Wrote(p)
  BY <1>0, <1>1, <1>4 DEF Wrote, TypeOK
<1>6. OfCommand(p) /\ TypeOK' /\ PlaceInv(p)'
  BY <1>0, <1>3, <1>5, Writes
<1>7. FilesInv'
  <2>1. \A g \in Paths : anchor'[g] = anchor[g] \/ (g = f /\ anchor[g] = Vacant)
    BY <1>4 DEF TypeOK
  <2>2. \A i \in Ids : profiles[i] # NoProfile => profiles[i].path \in Paths
    BY DEF TypeOK, Profile
  <2> QED BY <1>0, <1>1, <2>1, <2>2 DEF FilesInv
<1>8. Unnamed(d)'
  BY <1>0, UnnamedKept
<1>9. StageInv(p)'
  BY <1>0, <1>3, <1>8 DEF StageInv, Moved, TypeOK
<1>10. Kept(p)
  BY <1>0, <1>6, <1>9 DEF Kept
<1> QED BY <1>6, <1>7, <1>10

LEMMA UndoDatabaseStep ==
  ASSUME TypeOK, FilesInv, NEW p \in Procs, NEW d, OwnDb(p, d), PlaceInv(p), StageInv(p),
         ends[d] = "none", UndoDatabase(p)
  PROVE  OfCommand(p) /\ Kept(p) /\ FilesInv' /\ TypeOK'
<1> USE DEF OwnDb
<1> DEFINE f == proc[p].path
<1>0. /\ proc[p].pc = "undo" /\ proc[p].failed /\ Unnamed(d)
      /\ lock[f] = p /\ UNCHANGED <<profiles, key, anchor, drawn, lock, ends>>
  BY DEF UndoDatabase, StageInv, PlaceInv, Locked, registry, history
<1>1. d # Vacant /\ d # Tombstone /\ Tombstone \in Content /\ Tombstone \notin Databases
  BY DatabasesAssumption DEF Databases, Vacant, Tombstone, Content
<1>2. /\ data' = data \/ (data[f] = d /\ data' = [data EXCEPT ![f] = Tombstone])
      /\ \/ Goes(p, "clean") /\ data' = [data EXCEPT ![f] = Tombstone]
         \/ Unsure(p)
  BY DEF UndoDatabase
<1>3. /\ Moved(p)
      /\ \/ /\ proc'[p].pc = "clean" /\ data' = [data EXCEPT ![f] = Tombstone]
            /\ proc'[p].failed = proc[p].failed
         \/ proc'[p].pc = "close" /\ proc'[p].failed = TRUE /\ proc'[p].unsure = TRUE
  <2>1. Goes(p, "clean") => /\ Moved(p) /\ proc'[p].pc = "clean"
                            /\ proc'[p].failed = proc[p].failed
    BY GoesIs DEF PCs
  <2>2. Unsure(p) => /\ Moved(p) /\ proc'[p].pc = "close" /\ proc'[p].failed = TRUE
                     /\ proc'[p].unsure = TRUE
    BY UnsureIs
  <2> QED BY <1>2, <2>1, <2>2
<1>4. data' = data \/ (data[f] = d /\ data' = [data EXCEPT ![f] = Tombstone])
  BY <1>2
<1>5. Wrote(p)
  BY <1>0, <1>1, <1>4 DEF Wrote, TypeOK
<1>6. OfCommand(p) /\ TypeOK' /\ PlaceInv(p)'
  BY <1>0, <1>3, <1>5, Writes
<1>7. FilesInv'
  <2>1. \A g \in Paths :
          data'[g] = data[g] \/ (g = f /\ data[g] = d /\ data'[g] = Tombstone)
    BY <1>4 DEF TypeOK
  <2>2. \A i \in Ids : profiles[i] # NoProfile => profiles[i].path \in Paths
    BY DEF TypeOK, Profile
  <2> QED BY <1>0, <1>1, <2>1, <2>2 DEF FilesInv, Unnamed, Named
<1>8. Unnamed(d)'
  BY <1>0, UnnamedKept
<1>9. StageInv(p)'
  BY <1>0, <1>1, <1>3, <1>8 DEF StageInv, Moved, TypeOK
<1>10. Kept(p)
  BY <1>0, <1>6, <1>9 DEF Kept
<1> QED BY <1>6, <1>7, <1>10

LEMMA CleanFilesStep ==
  ASSUME TypeOK, FilesInv, NEW p \in Procs, NEW d, OwnDb(p, d), PlaceInv(p), StageInv(p),
         ends[d] = "none", CleanFiles(p)
  PROVE  OfCommand(p) /\ Kept(p) /\ FilesInv' /\ TypeOK'
<1> USE DEF OwnDb
<1> DEFINE f == proc[p].path
<1>0. /\ proc[p].pc = "clean" /\ proc[p].failed /\ data[f] # d /\ Unnamed(d)
      /\ UNCHANGED <<profiles, data, drawn, lock, ends>>
  BY DEF CleanFiles, StageInv, registry, history
<1>1. d # Vacant /\ d # Tombstone /\ Tombstone \in Content /\ Tombstone \notin Databases
  BY DatabasesAssumption DEF Databases, Vacant, Tombstone, Content
<1>2. Moved(p) /\ proc'[p].pc = "close" /\ proc'[p].failed = proc[p].failed
  BY GoesIs DEF CleanFiles, PCs
<1>3. /\ key' \in [Paths -> Content] /\ anchor' \in [Paths -> Content]
      /\ \A g \in Paths :
           /\ key'[g] = key[g] \/ (g = f /\ key[g] = d /\ key'[g] = Tombstone)
           /\ anchor'[g] = anchor[g] \/ (g = f /\ anchor[g] = d /\ anchor'[g] = Tombstone)
  BY <1>1 DEF CleanFiles, Emptied, TypeOK
<1>4. Wrote(p)
  BY <1>0, <1>1, <1>3 DEF Wrote, TypeOK
<1>5. OfCommand(p) /\ TypeOK' /\ PlaceInv(p)'
  BY <1>0, <1>2, <1>4, Writes DEF Locked
<1>6. FilesInv'
  <2>1. \A i \in Ids : profiles[i] # NoProfile => profiles[i].path \in Paths
    BY DEF TypeOK, Profile
  <2>2. \A i \in Ids : profiles[i] # NoProfile /\ profiles[i].db # Vacant => profiles[i].db # d
    BY <1>0 DEF Unnamed, Named
  <2>3. \A i \in Ids : profiles[i] # NoProfile /\ profiles[i].db # Vacant =>
          LET g == profiles[i].path
          IN data[g] = profiles[i].db /\ key[g] = profiles[i].db /\ anchor[g] = profiles[i].db
    BY DEF FilesInv
  <2>4. \A g \in Paths : data[g] \in Databases => key[g] = data[g]
    BY DEF FilesInv
  <2>5. \A g \in Paths : data'[g] \in Databases => key'[g] = data'[g]
    BY <1>0, <1>3, <2>4
  <2>6. \A i \in Ids : profiles[i] # NoProfile /\ profiles[i].db # Vacant =>
          LET g == profiles[i].path
          IN data'[g] = profiles[i].db /\ key'[g] = profiles[i].db /\ anchor'[g] = profiles[i].db
    BY <1>0, <1>3, <2>1, <2>2, <2>3
  <2> QED BY <1>0, <2>5, <2>6 DEF FilesInv
<1>7. Unnamed(d)'
  BY <1>0, UnnamedKept
<1>8. StageInv(p)'
  BY <1>0, <1>2, <1>7 DEF StageInv, Moved, TypeOK
<1>9. Kept(p)
  BY <1>0, <1>5, <1>8 DEF Kept
<1> QED BY <1>5, <1>6, <1>9

-----------------------------------------------------------------------------
(* The other steps.                                                        *)

LEMMA StartStep ==
  ASSUME TypeOK, DrawnInv, FilesInv, EndsInv, CommandsInv,
         NEW p \in Procs, NEW i \in Ids, NEW f \in Paths, Start(p, i, f)
  PROVE  TypeOK' /\ DrawnInv' /\ FilesInv' /\ EndsInv' /\ CommandsInv'
<1> DEFINE r == [pc |-> "add", id |-> i, path |-> f, db |-> drawn + 1, failed |-> FALSE,
                 undo |-> FALSE, unsure |-> FALSE, phase |-> "profile-added"]
<1>0. /\ UNCHANGED <<profiles, data, key, anchor, lock, ends>>
      /\ drawn < MaxDatabases /\ drawn' = drawn + 1 /\ drawn \in Nat
      /\ proc' = [proc EXCEPT ![p] = r]
  BY DatabasesAssumption DEF Start, Becomes, registry, disk, TypeOK
<1>1. drawn + 1 \in Databases
  BY <1>0, DatabasesAssumption DEF Databases
<1>2. r \in Command
  BY <1>1 DEF Command, PCs, Phases
<1>3. proc'[p] = r /\ \A q \in Procs : q # p => proc'[q] = proc[q]
  BY <1>0 DEF TypeOK
<1>4. r.pc = "add" /\ r.db = drawn + 1 /\ r.path = f
  OBVIOUS
<1> HIDE DEF r
<1>5. TypeOK'
  <2>1. drawn' \in 0 .. MaxDatabases
    BY <1>0, DatabasesAssumption
  <2>2. proc' \in [Procs -> {Idle} \cup Command \cup Heal]
    BY <1>0, <1>2 DEF TypeOK
  <2> QED BY <1>0, <2>1, <2>2 DEF TypeOK
<1>6. /\ Nowhere(drawn + 1) /\ ends[drawn + 1] = "none"
      /\ \A q \in Procs : Initializes(q) => proc[q].db # drawn + 1
  BY <1>0, <1>1, IsCommand DEF DrawnInv, Command, Databases
<1>7. \A q \in Procs : q # p => (Initializes(q)' <=> Initializes(q))
  BY <1>3 DEF Initializes
<1>8. DrawnInv'
  <2>1. \A d \in Databases : d > drawn' => ends'[d] = "none" /\ Nowhere(d)'
    <3> SUFFICES ASSUME NEW d \in Databases, d > drawn' PROVE ends'[d] = "none" /\ Nowhere(d)'
      OBVIOUS
    <3>1. d > drawn
      BY <1>0 DEF Databases
    <3> QED BY <1>0, <3>1 DEF DrawnInv, Nowhere, Unnamed, Named
  <2>2. ASSUME NEW q \in Procs, Initializes(q)'
        PROVE  proc'[q].db <= drawn' /\ ends'[proc'[q].db] = "none"
    <3>1. CASE q = p
      BY <1>0, <1>3, <1>4, <1>6, <3>1
    <3>2. CASE q # p
      <4>1. proc'[q].db \in Databases /\ proc'[q].db <= drawn /\ ends[proc'[q].db] = "none"
        BY <1>3, <1>7, <2>2, <3>2, IsCommand DEF DrawnInv, Command
      <4> QED BY <1>0, <4>1 DEF Databases
    <3> QED BY <3>1, <3>2
  <2>3. \A q, s \in Procs :
          Initializes(q)' /\ Initializes(s)' /\ proc'[q].db = proc'[s].db => q = s
    BY <1>3, <1>4, <1>6, <1>7 DEF DrawnInv
  <2> QED BY <2>1, <2>2, <2>3 DEF DrawnInv
<1>9. FilesInv' /\ EndsInv'
  BY <1>0 DEF FilesInv, EndsInv, Unnamed, Named
<1>10. ASSUME NEW q \in Procs, Initializes(q)' PROVE PlaceInv(q)' /\ StageInv(q)'
  <2>1. CASE q = p
    <3>1. Nowhere(drawn + 1)
      BY <1>6
    <3>2. /\ \A g \in Paths : /\ data'[g] # proc'[p].db /\ key'[g] # proc'[p].db
                              /\ anchor'[g] # proc'[p].db
          /\ \A j \in Ids : profiles'[j] # NoProfile => profiles'[j].db # proc'[p].db
      BY <1>0, <1>3, <1>4, <3>1 DEF Nowhere, Unnamed, Named
    <3>3. proc'[p].pc = "add"
      BY <1>3, <1>4
    <3> QED BY <2>1, <3>2, <3>3 DEF PlaceInv, StageInv, Nowhere, Unnamed, Named, Locked
  <2>2. CASE q # p
    <3>1. Initializes(q) /\ proc'[q] = proc[q] /\ PlaceInv(q) /\ StageInv(q)
      BY <1>3, <1>7, <1>10, <2>2 DEF CommandsInv
    <3>2. PICK d \in Databases : proc[q].db = d
      BY <3>1, IsCommand DEF Command
    <3>3. Untouched(d)
      BY <1>0 DEF Untouched, Named
    <3> QED BY <1>0, <3>1, <3>2, <3>3, OtherKept
  <2> QED BY <2>1, <2>2
<1> QED BY <1>5, <1>8, <1>9, <1>10 DEF CommandsInv

LEMMA OtherCommands ==
  ASSUME TypeOK, DrawnInv, FilesInv, EndsInv, CommandsInv,
         \/ \E p \in Procs : HealRead(p) \/ HealRemove(p) \/ Crash(p)
         \/ \E i \in Ids : Remove(i) \/ Use(i)
  PROVE  TypeOK' /\ DrawnInv' /\ FilesInv' /\ EndsInv' /\ CommandsInv'
<1>1. UNCHANGED <<disk, ends, drawn>> /\ Withdrawn
  <2>1. UNCHANGED profiles => Withdrawn
    BY DEF Withdrawn, TypeOK
  <2> QED BY <2>1, WithdrawIs DEF HealRead, HealRemove, Crash, Remove, Use, registry, history
<1>2. FilesInv' /\ \A e \in Databases : Untouched(e)
  BY <1>1, WithdrawnKeeps
<1> DEFINE Rest ==
      /\ \A q \in Procs : Initializes(q)' =>
           proc'[q] = proc[q] /\ \A g \in Paths : lock[g] = q => lock'[g] = q
      /\ proc' \in [Procs -> {Idle} \cup Command \cup Heal]
      /\ lock' \in [Paths -> Procs \cup {NoOne}]
<1>3. Rest
  <2>1. ASSUME NEW p \in Procs, HealRead(p) \/ HealRemove(p) PROVE Rest
    <3>1. lock' = lock /\ (Becomes(p, Idle) \/ Becomes(p, [pc |-> "heal", ids |-> Incomplete]))
      BY <2>1 DEF HealRead, HealRemove
    <3>2. [pc |-> "heal", ids |-> Incomplete] \in Heal
      BY DEF Heal, Incomplete
    <3> QED BY <3>1, <3>2 DEF Becomes, TypeOK, Initializes, Idle, PCs
  <2>2. ASSUME NEW p \in Procs, Crash(p) PROVE Rest
    BY <2>2 DEF Crash, Becomes, TypeOK, Initializes, Idle, PCs
  <2>3. ASSUME NEW i \in Ids, Remove(i) \/ Use(i) PROVE Rest
    BY <2>3 DEF Remove, Use, TypeOK
  <2> QED BY <2>1, <2>2, <2>3
<1>4. DrawnInv' /\ EndsInv' /\ CommandsInv'
  BY <1>1, <1>2, <1>3, OfNobody
<1>5. TypeOK'
  BY <1>1, <1>3 DEF TypeOK, Withdrawn, disk
<1> QED BY <1>2, <1>4, <1>5

-----------------------------------------------------------------------------
(* The results.                                                            *)

CommandStep(p) ==
  \/ AddProfile(p) \/ Validate(p) \/ OpenStore(p) \/ CreateKey(p)
  \/ CreateDatabase(p) \/ CreateAnchor(p) \/ Bind(p) \/ Release(p)
  \/ UndoDatabase(p) \/ CleanFiles(p) \/ SetDefault(p) \/ Select(p)
  \/ Close(p) \/ RollbackRead(p) \/ RollbackRemove(p)

LEMMA CommandStepIs ==
  ASSUME TypeOK, DrawnInv, FilesInv, EndsInv, CommandsInv, NEW p \in Procs, CommandStep(p)
  PROVE  TypeOK' /\ DrawnInv' /\ FilesInv' /\ EndsInv' /\ CommandsInv'
<1>1. Initializes(p)
  BY DEF CommandStep, AddProfile, Validate, OpenStore, CreateKey, CreateDatabase, CreateAnchor,
         Bind, Release, UndoDatabase, CleanFiles, SetDefault, Select, Close, RollbackRead,
         RollbackRemove, Initializes, PCs
<1>2. PICK d \in Databases : proc[p].db = d /\ proc[p].path \in Paths
  BY <1>1, IsCommand DEF Command
<1>3. OwnDb(p, d) /\ PlaceInv(p) /\ StageInv(p) /\ ends[d] = "none"
  BY <1>1, <1>2 DEF OwnDb, CommandsInv, DrawnInv
<1>4. Validate(p) \/ OpenStore(p) => proc[p].pc \in {"validate", "open"} /\ Nowhere(d)
  BY <1>2, <1>3 DEF Validate, OpenStore, StageInv
<1>5. OfCommand(p) /\ Kept(p) /\ FilesInv' /\ TypeOK'
  BY <1>3, <1>4, AddProfileStep, ValidateStep, CreateKeyStep, CreateDatabaseStep,
     CreateAnchorStep, BindStep, ReleaseStep, UndoDatabaseStep, CleanFilesStep, SetDefaultStep,
     CloseStep, RollbackReadStep, RollbackRemoveStep DEF CommandStep
<1> QED BY <1>1, <1>5, OfCommandKept

LEMMA InitIInv == Init => IInv
<1> SUFFICES ASSUME Init PROVE IInv
  OBVIOUS
<1>1. \A p \in Procs : ~Initializes(p)
  BY DEF Init, Initializes, Idle, PCs
<1>2. TypeOK
  BY DatabasesAssumption DEF Init, TypeOK, Content, Vacant, Databases
<1>3. Vacant \notin Databases
  BY DatabasesAssumption DEF Vacant, Databases
<1> QED BY <1>1, <1>2, <1>3
        DEF Init, IInv, DrawnInv, FilesInv, EndsInv, Nowhere, Unnamed, Named

LEMMA NextIInv == IInv /\ [Next]_vars => IInv'
<1> SUFFICES ASSUME IInv, [Next]_vars PROVE IInv'
  OBVIOUS
<1>1. TypeOK /\ DrawnInv /\ FilesInv /\ EndsInv /\ CommandsInv
  BY DEF IInv, CommandsInv
<1>2. TypeOK' /\ DrawnInv' /\ FilesInv' /\ EndsInv' /\ CommandsInv'
  <2>1. CASE \E p \in Procs : CommandStep(p)
    BY <1>1, <2>1, CommandStepIs
  <2>2. CASE \E p \in Procs, i \in Ids, f \in Paths : Start(p, i, f)
    BY <1>1, <2>2, StartStep
  <2>3. CASE \/ \E p \in Procs : HealRead(p) \/ HealRemove(p) \/ Crash(p)
             \/ \E i \in Ids : Remove(i) \/ Use(i)
    BY <1>1, <2>3, OtherCommands
  <2>4. CASE UNCHANGED vars
    <3>1. \A e \in Databases : Untouched(e)
      BY <2>4 DEF vars, Untouched, Named
    <3>2. DrawnInv' /\ EndsInv' /\ CommandsInv'
      BY <1>1, <2>4, <3>1, OfNobody DEF vars
    <3> QED BY <1>1, <2>4, <3>2 DEF vars, TypeOK, FilesInv
  <2> QED BY <2>1, <2>2, <2>3, <2>4 DEF Next, CommandStep
<1> QED BY <1>2 DEF IInv, CommandsInv

\* The inductive invariant holds in every reachable state.
THEOREM InitializationSafe == Spec => []IInv
BY InitIInv, NextIInv, PTL DEF Spec

\* Whatever fails or is killed, and whatever other commands do to the profiles:
\* a profile that names a database finds its content, its key and its anchor, a
\* database has its key, and an initialization that failed plainly left neither.
THEOREM WholeOrAbsent == Spec => []AllOrNothing
<1>1. IInv => AllOrNothing
  BY DEF IInv, FilesInv, EndsInv, AllOrNothing, Unnamed, Named
<1> QED BY <1>1, InitializationSafe, PTL

-----------------------------------------------------------------------------
(* RecoveryKits: the kits and the key rotations of one database.           *)

CONSTANTS KitKeys, Kits, FirstKey, MaxRevision
VARIABLES db, files, trusts, held, kitProc, begun, acked, kitFaults, kitCrashes

Kit == INSTANCE RecoveryKits WITH
  anchor <- trusts, lock <- held, proc <- kitProc, drawn <- begun,
  faults <- kitFaults, crashes <- kitCrashes, Keys <- KitKeys

\* The owner and every active kit can open the database.
NeverLockedOut == Kit!NeverLockedOut

SlotStates == {"none", "active", "revoked"}
Doc   == [rev : 0 .. MaxRevision, owner : KitKeys, slots : [Kits -> SlotStates]]

\* The files a record speaks of, and those that must open it.
Mentions(d) == {d.owner} \cup {r \in Kits : d.slots[r] # "none"}
Counted(d)  == {d.owner} \cup Kit!Active(d)

\* A record that ever had a kit has one that is active.
Sound(d) == (\E r \in Kits : d.slots[r] # "none") => Kit!Active(d) # {}

\* A record that was the store's.
Past(d) == d \in Doc /\ d.rev <= db.rev /\ (d.rev = db.rev => d = db)

Pre     == {"file", "anchor", "mutate"}
Running == Pre \cup {"record", "finish"}

\* The files that only process p counts on, and all it knows of.
Mine(p) == IF kitProc[p].pc \in Pre THEN kitProc[p].new ELSE {}
All(p)  == IF kitProc[p].pc \in Running THEN Mentions(kitProc[p].doc) \cup kitProc[p].new
           ELSE IF kitProc[p].pc = "open" THEN Mentions(kitProc[p].doc) ELSE {}

ProcInv(p) ==
  LET s == kitProc[p]
  IN /\ s.pc \in Running \cup {"open", "closed"}
     /\ s.pc = "closed" => s = Kit!Closed
     /\ s.pc = "open" => s = [pc |-> "open", doc |-> s.doc, by |-> s.by]
     /\ s.pc \in Running =>
          /\ s = [pc |-> s.pc, doc |-> s.doc, by |-> s.by, new |-> s.new, next |-> s.next]
          /\ s.new \subseteq Kit!Tokens /\ s.new \subseteq begun
          /\ s.next \in Doc /\ s.next.rev = s.doc.rev + 1 /\ Sound(s.next)
          /\ Mentions(s.next) \subseteq Mentions(s.doc) \cup s.new
          /\ Counted(s.next) \subseteq Counted(s.doc) \cup s.new
          /\ \A r \in Kits : s.doc.slots[r] # "none" \/ r \in s.new => s.next.slots[r] # "none"
     /\ s.pc \in Running \cup {"open"} => /\ Past(s.doc) /\ Sound(s.doc)
                                         /\ Mentions(s.doc) \subseteq begun
     /\ s.pc \in Pre => s.new \cap Mentions(db) = {}
     /\ s.pc \in {"anchor", "mutate"} => s.new \subseteq files
     /\ s.pc = "mutate" => \A t \in s.new : trusts[t] # Kit!Absent
     /\ s.pc \in {"record", "finish"} => /\ Past(s.next)
                                        /\ \A r \in s.new \cap Kits : db.slots[r] # "none"

\* What no process can undo.
DbInv ==
  /\ db \in Doc /\ Sound(db) /\ Mentions(db) \subseteq begun
  /\ trusts \in [Kit!Tokens -> 0 .. MaxRevision + 1]
  /\ \A f \in Kit!Tokens : trusts[f] # Kit!Absent => trusts[f] <= db.rev
  /\ \A f \in Counted(db) : f \in files /\ trusts[f] # Kit!Absent
  /\ \A r \in acked : r \in Kits /\ db.slots[r] # "none"

Apart == \A p, q \in Procs : p # q => Mine(p) \cap All(q) = {}

KitInv == /\ kitProc = [p \in Procs |-> kitProc[p]]
          /\ DbInv /\ Apart /\ \A p \in Procs : ProcInv(p)

-----------------------------------------------------------------------------
LEMMA KitInvInit == Kit!ConstantsFit /\ Kit!Init => KitInv
<1> SUFFICES ASSUME Kit!ConstantsFit, Kit!Init PROVE KitInv
  OBVIOUS
<1>1. Kit!First \in Doc /\ Mentions(Kit!First) = {FirstKey} /\ Counted(Kit!First) = {FirstKey}
      /\ Sound(Kit!First)
  BY DEF Kit!ConstantsFit, Kit!First, Doc, SlotStates, Mentions, Counted, Kit!Active, Sound
<1>2. Kit!First.rev = 0
  BY DEF Kit!First
<1>3. DbInv
  BY <1>1, <1>2 DEF Kit!Init, DbInv, Kit!ConstantsFit, Kit!Absent, Kit!Tokens
<1>4. \A p \in Procs : kitProc[p] = Kit!Closed /\ kitProc[p].pc = "closed"
  BY DEF Kit!Init, Kit!Closed
<1>5. Apart /\ \A p \in Procs : ProcInv(p)
  BY <1>4 DEF Apart, Mine, All, ProcInv, Pre, Running
<1> QED BY <1>3, <1>5 DEF KitInv, Kit!Init

\* The store takes what p prepared.
Accepts(p) == /\ kitProc[p].pc = "mutate" /\ kitProc[p].doc.rev = db.rev
/\ db' = kitProc[p].next

\* What a step of p leaves to the others.
Leaves(p) ==
  /\ \A q \in Procs \ {p} : kitProc'[q] = kitProc[q]
  /\ kitProc' = [q \in Procs |-> kitProc'[q]]
  /\ begun \subseteq begun'
  /\ \A t \in Kit!Tokens \ Mine(p) : /\ t \in files => t \in files'
                                     /\ trusts[t] # Kit!Absent => trusts'[t] # Kit!Absent
  /\ Mine(p)' \subseteq Mine(p) \cup (begun' \ begun)
  /\ All(p)' \subseteq All(p) \cup Mentions(db) \cup (begun' \ begun)

\* What was accepted is a record of the history, as all that were before it.
LEMMA Accepted ==
  ASSUME Kit!ConstantsFit, KitInv, NEW p \in Procs, Accepts(p)
  PROVE  /\ db' \in Doc /\ Sound(db') /\ Mentions(db') \subseteq begun
         /\ db'.rev = db.rev + 1
         /\ Mentions(db') \subseteq Mentions(db) \cup kitProc[p].new
         /\ Counted(db') \subseteq Mentions(db')
         /\ \A r \in Kits : db.slots[r] # "none" \/ r \in kitProc[p].new => db'.slots[r] # "none"
         /\ \A d : Past(d) => Past(d)'
<1>1. ProcInv(p) /\ DbInv
  BY DEF KitInv
<1>2. kitProc[p].pc \in Running /\ kitProc[p].pc \in Running \cup {"open"}
      /\ db' = kitProc[p].next
  BY DEF Accepts, Running, Pre
<1>3. Past(kitProc[p].doc) /\ kitProc[p].doc = db
  BY <1>1, <1>2 DEF ProcInv, Past, Accepts
<1>4. /\ db' \in Doc /\ Sound(db') /\ db'.rev = db.rev + 1
      /\ Mentions(db') \subseteq Mentions(db) \cup kitProc[p].new
      /\ \A r \in Kits : db.slots[r] # "none" \/ r \in kitProc[p].new => db'.slots[r] # "none"
      /\ kitProc[p].new \subseteq begun
  BY <1>1, <1>2, <1>3 DEF ProcInv
<1>5. \A d : Past(d) => Past(d)'
  BY <1>4, <1>1 DEF Past, Doc, DbInv
<1>6. Counted(db') \subseteq Mentions(db')
  BY DEF Counted, Mentions, Kit!Active
<1> QED BY <1>1, <1>4, <1>5, <1>6 DEF DbInv

\* The other processes keep what they have.
LEMMA OtherProcs ==
  ASSUME Kit!ConstantsFit, KitInv, NEW p \in Procs, Leaves(p), db' = db \/ Accepts(p),
         NEW q \in Procs, q # p
  PROVE  ProcInv(q)' /\ Mine(q)' = Mine(q) /\ All(q)' = All(q)
<1>1. ProcInv(q) /\ kitProc'[q] = kitProc[q] /\ ProcInv(p) /\ DbInv
  BY DEF KitInv, Leaves
<1>2. Mine(q)' = Mine(q) /\ All(q)' = All(q)
  BY <1>1 DEF Mine, All
<1>3. \A d : Past(d) => Past(d)'
  BY Accepted DEF Past
<1>4. begun \subseteq begun'
  BY DEF Leaves
<1>5. \A r \in Kits : db.slots[r] # "none" => db'.slots[r] # "none"
  BY Accepted
<1>6. kitProc[q].pc \in Pre => kitProc[q].new \cap Mentions(db') = {}
  <2>1. CASE db' = db
    BY <2>1, <1>1 DEF ProcInv
  <2>2. CASE Accepts(p)
    <3>1. kitProc[p].pc \in Pre /\ kitProc[p].pc \in Running
          /\ Mentions(db') \subseteq Mentions(db) \cup kitProc[p].new
      BY <2>2, Accepted DEF Accepts, Pre, Running
    <3>2. kitProc[q].pc \in Pre => kitProc[q].new \cap kitProc[p].new = {}
      BY <3>1 DEF KitInv, Apart, Mine, All
    <3> QED BY <3>1, <3>2, <1>1 DEF ProcInv
  <2> QED BY <2>1, <2>2
<1>7. kitProc[q].pc \in Pre => kitProc[q].new \cap Mine(p) = {}
  BY DEF KitInv, Apart, Mine, All, Pre, Running
<1>8. kitProc[q].pc \in {"anchor", "mutate"} => kitProc[q].new \subseteq files'
  BY <1>1, <1>7 DEF ProcInv, Leaves, Pre, Running
<1>9. kitProc[q].pc = "mutate" => \A t \in kitProc[q].new : trusts'[t] # Kit!Absent
  BY <1>1, <1>7 DEF ProcInv, Leaves, Pre, Running
<1>10. ProcInv(q)'
  BY <1>1, <1>3, <1>4, <1>5, <1>6, <1>8, <1>9 DEF ProcInv, Pre, Running
<1> QED BY <1>2, <1>10

\* One step of p, from what it does to p and to the files.
LEMMA Step ==
  ASSUME Kit!ConstantsFit, KitInv, NEW p \in Procs, Leaves(p), ProcInv(p)',
         \/ db' = db
         \/ Accepts(p) /\ files' = files /\ trusts' = trusts,
         trusts' \in [Kit!Tokens -> 0 .. MaxRevision + 1],
         \A f \in Kit!Tokens : trusts'[f] # Kit!Absent => trusts'[f] <= db'.rev,
         acked' \subseteq acked \cup {r \in Kits : db.slots[r] # "none"}
  PROVE  KitInv'
<1>1. DbInv /\ Apart /\ ProcInv(p)
  BY DEF KitInv
<1>2. \A q \in Procs : q # p => ProcInv(q)' /\ Mine(q)' = Mine(q) /\ All(q)' = All(q)
  BY OtherProcs
<1>3. \A q \in Procs : Mine(q) \subseteq begun /\ Mine(q) \cap Mentions(db) = {}
          /\ All(q) \subseteq begun
  BY DEF KitInv, ProcInv, Mine, All, Pre, Running
<1>4. Apart'
  <2>1. ASSUME NEW q \in Procs, q # p PROVE Mine(q)' \cap All(p)' = {}
               /\ Mine(p)' \cap All(q)' = {}
    BY <2>1, <1>1, <1>2, <1>3 DEF Leaves, Apart
  <2> QED BY <2>1, <1>1, <1>2 DEF Apart
<1>5. \A r \in Kits : db.slots[r] # "none" => db'.slots[r] # "none"
  BY Accepted
<1>6. DbInv'
  <2>1. db' \in Doc /\ Sound(db') /\ Mentions(db') \subseteq begun'
    BY <1>1, Accepted DEF DbInv, Leaves
  <2>2. \A f \in Counted(db') : f \in files' /\ trusts'[f] # Kit!Absent
    <3>1. CASE db' = db
      <4>1. Counted(db) \subseteq Mentions(db) /\ Counted(db) \subseteq Kit!Tokens
        BY <1>1 DEF Counted, Mentions, Kit!Active, DbInv, Doc, Kit!Tokens
      <4> QED BY <3>1, <4>1, <1>1, <1>3 DEF DbInv, Leaves
    <3>2. CASE Accepts(p) /\ files' = files /\ trusts' = trusts
      <4>1. \A f \in kitProc[p].new : f \in files /\ trusts[f] # Kit!Absent
        BY <3>2, <1>1 DEF ProcInv, Accepts
      <4>2. Counted(db') \subseteq Counted(db) \cup kitProc[p].new
        <5>1. /\ kitProc[p].pc \in Running
              /\ kitProc[p].doc = db /\ db' = kitProc[p].next
          BY <3>2, <1>1 DEF ProcInv, Accepts, Running, Pre, Past
        <5> QED BY <5>1, <3>2, <1>1 DEF ProcInv
      <4> QED BY <4>1, <4>2, <3>2, <1>1 DEF DbInv
    <3> QED BY <3>1, <3>2
  <2>3. \A r \in acked' : r \in Kits /\ db'.slots[r] # "none"
    BY <1>1, <1>5 DEF DbInv
  <2> QED BY <2>1, <2>2, <2>3 DEF DbInv
<1> QED BY <1>2, <1>4, <1>6 DEF KitInv, Leaves

\* Only p's operation changed.
LEMMA BecomesOnly ==
  ASSUME KitInv, NEW p \in Procs, NEW s, Kit!Becomes(p, s)
  PROVE  /\ kitProc'[p] = s /\ \A q \in Procs \ {p} : kitProc'[q] = kitProc[q]
         /\ kitProc' = [q \in Procs |-> kitProc'[q]]
BY DEF KitInv, Kit!Becomes

\* An operation is prepared from a record of the history.
LEMMA Prepared ==
  ASSUME Kit!ConstantsFit, KitInv, NEW p \in Procs, NEW doc, NEW by, NEW next, NEW new, NEW pc,
         Kit!Prepare(p, doc, by, next, new, pc), Past(doc), Sound(doc),
             Mentions(doc) \subseteq begun',
         begun \subseteq begun', db' = db, files' = files, acked' = acked,
         new \subseteq begun' \ begun, new \subseteq Kit!Tokens,
         pc = "file" \/ (pc = "mutate" /\ new = {}),
         next \in Doc, Sound(next), next.rev = doc.rev,
         Mentions(next) \subseteq Mentions(doc) \cup new,
         Counted(next) \subseteq Counted(doc) \cup new,
         \A r \in Kits : doc.slots[r] # "none" \/ r \in new => next.slots[r] # "none",
         trusts' \in [Kit!Tokens -> 0 .. MaxRevision + 1],
         \A f \in Kit!Tokens : trusts'[f] # Kit!Absent => trusts'[f] <= db.rev,
         \A f \in Kit!Tokens : trusts[f] # Kit!Absent => trusts'[f] # Kit!Absent,
         Mentions(doc) \subseteq All(p) \cup Mentions(db)
  PROVE  KitInv'
<1> DEFINE s == [pc |-> pc, doc |-> doc, by |-> by, new |-> new,
                 next |-> [next EXCEPT !.rev = doc.rev + 1]]
<1>1. doc.rev < MaxRevision /\ Kit!Becomes(p, s)
  BY DEF Kit!Prepare
<1>2. /\ kitProc'[p] = s /\ \A q \in Procs \ {p} : kitProc'[q] = kitProc[q]
      /\ kitProc' = [q \in Procs |-> kitProc'[q]]
  BY <1>1, BecomesOnly
<1>3. s.next = [rev |-> doc.rev + 1, owner |-> next.owner, slots |-> next.slots]
  BY DEF Doc
<1>4. doc.rev \in Nat /\ doc.rev + 1 \in 0 .. MaxRevision
  BY <1>1 DEF Past, Doc, Kit!ConstantsFit
<1>5. /\ s.next \in Doc /\ s.next.rev = doc.rev + 1
      /\ Sound(s.next) /\ Mentions(s.next) = Mentions(next) /\ Counted(s.next) = Counted(next)
      /\ s.next.slots = next.slots
  BY <1>3, <1>4 DEF Doc, Sound, Mentions, Counted, Kit!Active
<1>6. DbInv /\ Past(doc)'
  BY DEF KitInv, Past
<1>7. new \cap Mentions(db') = {}
  BY <1>6 DEF DbInv
<1>8. s = [pc |-> s.pc, doc |-> s.doc, by |-> s.by, new |-> s.new, next |-> s.next]
      /\ s.pc = pc /\ s.doc = doc /\ s.new = new
  OBVIOUS
<1> HIDE DEF s
<1>9. ProcInv(p)'
  BY <1>2, <1>5, <1>6, <1>7, <1>8 DEF ProcInv, Pre, Running
<1>10. Mine(p)' \subseteq new /\ All(p)' \subseteq Mentions(doc) \cup new
  BY <1>2, <1>8 DEF Mine, All
<1>11. Leaves(p)
  BY <1>2, <1>10 DEF Leaves
<1> QED BY <1>9, <1>11, Step

\* The operation of p is over: a session goes on from a record of the history.
LEMMA Returned ==
  ASSUME Kit!ConstantsFit, KitInv, NEW p \in Procs, NEW doc,
         Kit!Returns(p, doc) \/ Kit!Becomes(p, Kit!Closed), Past(doc)', Sound(doc),
         Mentions(doc) \subseteq begun, begun' = begun,
         Mentions(doc) \subseteq All(p) \cup Mentions(db)
  PROVE  /\ ProcInv(p)' /\ Mine(p)' = {} /\ All(p)' \subseteq All(p) \cup Mentions(db)
         /\ \A q \in Procs \ {p} : kitProc'[q] = kitProc[q]
         /\ kitProc' = [q \in Procs |-> kitProc'[q]]
<1> DEFINE by == kitProc[p].by
<1>1. Kit!Becomes(p, Kit!Session(doc, by)) \/ Kit!Becomes(p, Kit!Closed)
  BY DEF Kit!Returns
<1>2. /\ kitProc'[p] = Kit!Session(doc, by) \/ kitProc'[p] = Kit!Closed
      /\ \A q \in Procs \ {p} : kitProc'[q] = kitProc[q]
      /\ kitProc' = [q \in Procs |-> kitProc'[q]]
  BY <1>1, BecomesOnly
<1>3. CASE kitProc'[p] = Kit!Closed
  <2>1. kitProc'[p].pc = "closed"
    BY <1>3 DEF Kit!Closed
  <2> QED BY <1>2, <1>3, <2>1 DEF ProcInv, Mine, All, Pre, Running
<1>4. CASE kitProc'[p] = Kit!Session(doc, by)
  <2>1. /\ kitProc'[p].pc = "open" /\ kitProc'[p].doc = doc
        /\ kitProc'[p] = [pc |-> "open", doc |-> kitProc'[p].doc, by |-> kitProc'[p].by]
    BY <1>4 DEF Kit!Session
  <2> QED BY <1>2, <2>1 DEF ProcInv, Mine, All, Pre, Running
<1> QED BY <1>2, <1>3, <1>4

LEMMA OpenStep ==
  ASSUME Kit!ConstantsFit, KitInv, NEW p \in Procs, NEW k \in KitKeys, Kit!Open(p, k)
                  PROVE  KitInv'
<1>1. DbInv /\ k \in Kit!Tokens
  BY DEF KitInv, Kit!Tokens
<1>2. /\ db' = db /\ files' = files /\ acked' = acked /\ begun' = begun
      /\ trusts' = [trusts EXCEPT ![k] = db.rev] /\ Kit!Becomes(p, Kit!Session(db, k))
  BY DEF Kit!Open
<1>3. db.rev \in 0 .. MaxRevision /\ db.rev # Kit!Absent
  BY <1>1 DEF DbInv, Doc, Kit!Absent, Kit!ConstantsFit
<1>4. /\ trusts' \in [Kit!Tokens -> 0 .. MaxRevision + 1]
      /\ \A f \in Kit!Tokens : trusts'[f] # Kit!Absent => trusts'[f] <= db.rev
      /\ \A f \in Kit!Tokens : trusts[f] # Kit!Absent => trusts'[f] # Kit!Absent
  BY <1>1, <1>2, <1>3 DEF DbInv, Kit!ConstantsFit
<1>5. /\ kitProc'[p] = Kit!Session(db, k) /\ \A q \in Procs \ {p} : kitProc'[q] = kitProc[q]
      /\ kitProc' = [q \in Procs |-> kitProc'[q]]
  BY <1>2, BecomesOnly
<1>6. /\ kitProc'[p].pc = "open" /\ kitProc'[p].doc = db
      /\ kitProc'[p] = [pc |-> "open", doc |-> kitProc'[p].doc, by |-> kitProc'[p].by]
  BY <1>5 DEF Kit!Session
<1>7. Past(db)' /\ Sound(db) /\ Mentions(db) \subseteq begun'
  BY <1>1, <1>2, <1>3 DEF Past, DbInv
<1>8. ProcInv(p)' /\ Mine(p)' = {} /\ All(p)' = Mentions(db)
  BY <1>2, <1>6, <1>7 DEF ProcInv, Mine, All, Pre, Running
<1>9. Leaves(p)
  BY <1>2, <1>4, <1>5, <1>8 DEF Leaves
<1> QED BY <1>2, <1>4, <1>8, <1>9, Step

LEMMA VerifyStep ==
  ASSUME Kit!ConstantsFit, KitInv, NEW p \in Procs, NEW r \in Kits, Kit!Verify(p, r)
                    PROVE  KitInv'
<1>1. DbInv /\ r \in Kit!Tokens /\ ProcInv(p)
  BY DEF KitInv, Kit!Tokens
<1>2. /\ db' = db /\ files' = files /\ acked' = acked /\ begun' = begun /\ kitProc' = kitProc
      /\ trusts' = [trusts EXCEPT ![r] = kitProc[p].doc.rev]
  BY DEF Kit!Verify
<1>3. kitProc[p].doc.rev \in 0 .. MaxRevision /\ kitProc[p].doc.rev # Kit!Absent
      /\ kitProc[p].doc.rev <= db.rev
  BY <1>1 DEF ProcInv, Past, Doc, Kit!Absent, Kit!ConstantsFit, Kit!Verify
<1>4. /\ trusts' \in [Kit!Tokens -> 0 .. MaxRevision + 1]
      /\ \A f \in Kit!Tokens : trusts'[f] # Kit!Absent => trusts'[f] <= db.rev
      /\ \A f \in Kit!Tokens : trusts[f] # Kit!Absent => trusts'[f] # Kit!Absent
  BY <1>1, <1>2, <1>3 DEF DbInv, Kit!ConstantsFit
<1>5. Leaves(p)
  BY <1>2, <1>4 DEF Leaves, KitInv, Mine, All
<1>6. ProcInv(p)'
  BY <1>1, <1>2 DEF ProcInv, Past, Kit!Verify, Pre, Running
<1> QED BY <1>2, <1>4, <1>5, <1>6, Step

LEMMA SessionStep ==
  ASSUME Kit!ConstantsFit, KitInv, NEW p \in Procs,
         Kit!Rename(p) \/ \E r \in Kits : Kit!Revoke(p, r) \/ Kit!Create(p, r)
  PROVE  KitInv'
<1> DEFINE doc == kitProc[p].doc
<1>1. /\ DbInv /\ kitProc[p].pc = "open" /\ Past(doc) /\ Sound(doc)
             /\ Mentions(doc) \subseteq begun
      /\ Mentions(doc) \subseteq All(p)
  BY DEF KitInv, ProcInv, Kit!Rename, Kit!Revoke, Kit!Create, All, Pre, Running
<1>2. /\ db' = db /\ files' = files /\ acked' = acked /\ trusts' = trusts
      /\ begun \subseteq begun' /\ Mentions(doc) \subseteq begun'
  BY <1>1 DEF Kit!Rename, Kit!Revoke, Kit!Create
<1>3. /\ trusts' \in [Kit!Tokens -> 0 .. MaxRevision + 1]
      /\ \A f \in Kit!Tokens : trusts'[f] # Kit!Absent => trusts'[f] <= db.rev
      /\ \A f \in Kit!Tokens : trusts[f] # Kit!Absent => trusts'[f] # Kit!Absent
  BY <1>1, <1>2 DEF DbInv
<1>4. doc \in Doc
  BY <1>1 DEF Past
<1>5. CASE Kit!Rename(p)
  <2>1. Kit!Prepare(p, doc, kitProc[p].by, doc, {}, "mutate")
    BY <1>5 DEF Kit!Rename
  <2> HIDE DEF doc
  <2> QED BY <2>1, <1>1, <1>2, <1>3, <1>4, Prepared
<1>6. ASSUME NEW r \in Kits, Kit!Revoke(p, r) PROVE KitInv'
  <2> DEFINE next == [doc EXCEPT !.slots[r] = "revoked"]
  <2>1. Kit!Prepare(p, doc, kitProc[p].by, next, {}, "mutate") /\ Kit!MayRevoke(doc, r)
    BY <1>6 DEF Kit!Revoke
  <2>2. /\ next = [rev |-> doc.rev, owner |-> doc.owner,
               slots |-> [doc.slots EXCEPT ![r] = "revoked"]]
        /\ doc.slots \in [Kits -> SlotStates]
    BY <1>4 DEF Doc
  <2>3. next \in Doc /\ next.rev = doc.rev /\ next.owner = doc.owner
        /\ next.slots[r] = "revoked" /\ \A q \in Kits \ {r} : next.slots[q] = doc.slots[q]
    BY <1>4, <2>2 DEF Doc, SlotStates
  <2> HIDE DEF next, doc
  <2>4. doc.slots[r] = "active"
    BY <2>1 DEF Kit!MayRevoke, Kit!Active
  <2>5. Kit!Active(next) = Kit!Active(doc) \ {r}
    BY <2>3 DEF Kit!Active
  <2>6. Kit!Active(next) # {}
    <3>1. Kit!Active(doc) # {r}
      <4>1. Cardinality({r}) = 1
        BY FS_Singleton
      <4>2. Kit!Cardinality(Kit!Active(doc)) = Cardinality(Kit!Active(doc))
        BY DEF Kit!Cardinality, Cardinality
      <4> QED BY <4>1, <4>2, <2>1 DEF Kit!MayRevoke
    <3> QED BY <3>1, <2>1, <2>5 DEF Kit!MayRevoke
  <2>7. Sound(next) /\ Mentions(next) \subseteq Mentions(doc)
        /\ Counted(next) \subseteq Counted(doc)
    BY <2>3, <2>4, <2>5, <2>6 DEF Sound, Mentions, Counted
  <2>8. \A q \in Kits : doc.slots[q] # "none" \/ q \in {} => next.slots[q] # "none"
    BY <2>3
  <2> QED BY <2>1, <2>3, <2>7, <2>8, <1>1, <1>2, <1>3, Prepared
<1>7. ASSUME NEW r \in Kits, Kit!Create(p, r) PROVE KitInv'
  <2> DEFINE next == [doc EXCEPT !.slots[r] = "active"]
  <2>1. Kit!Prepare(p, doc, kitProc[p].by, next, {r}, "file") /\ r \notin begun
        /\ begun' = begun \cup {r}
    BY <1>7 DEF Kit!Create
  <2>2. /\ next = [rev |-> doc.rev, owner |-> doc.owner,
               slots |-> [doc.slots EXCEPT ![r] = "active"]]
        /\ doc.slots \in [Kits -> SlotStates]
    BY <1>4 DEF Doc
  <2>3. next \in Doc /\ next.rev = doc.rev /\ next.owner = doc.owner
        /\ next.slots[r] = "active" /\ \A q \in Kits \ {r} : next.slots[q] = doc.slots[q]
    BY <1>4, <2>2 DEF Doc, SlotStates
  <2> HIDE DEF next, doc
  <2>4. Kit!Active(next) = Kit!Active(doc) \cup {r}
    BY <2>3 DEF Kit!Active
  <2>5. Sound(next) /\ Mentions(next) \subseteq Mentions(doc) \cup {r}
        /\ Counted(next) \subseteq Counted(doc) \cup {r}
    BY <2>3, <2>4 DEF Sound, Mentions, Counted
  <2>6. \A q \in Kits : doc.slots[q] # "none" \/ q \in {r} => next.slots[q] # "none"
    BY <2>3
  <2>7. {r} \subseteq Kit!Tokens /\ {r} \subseteq begun' \ begun
    BY <2>1 DEF Kit!Tokens
  <2> QED BY <2>1, <2>3, <2>5, <2>6, <2>7, <1>1, <1>2, <1>3, Prepared
<1> QED BY <1>5, <1>6, <1>7

LEMMA UseStep ==
  ASSUME Kit!ConstantsFit, KitInv, NEW p \in Procs, NEW r \in Kits, NEW k \in KitKeys,
         Kit!Use(p, r, k)
  PROVE  KitInv'
<1> DEFINE next == [db EXCEPT !.owner = k]
<1>1. DbInv /\ r \in Kit!Tokens /\ k \in Kit!Tokens
  BY DEF KitInv, Kit!Tokens
<1>2. /\ Kit!Prepare(p, db, r, next, {k}, "file") /\ k \notin begun /\ begun' = begun \cup {k}
      /\ db' = db /\ files' = files /\ acked' = acked
      /\ trusts' = [trusts EXCEPT ![r] = db.rev]
  BY DEF Kit!Use
<1>3. db \in Doc /\ db.rev \in 0 .. MaxRevision /\ db.rev # Kit!Absent
  BY <1>1 DEF DbInv, Doc, Kit!Absent, Kit!ConstantsFit
<1>4. /\ trusts' \in [Kit!Tokens -> 0 .. MaxRevision + 1]
      /\ \A f \in Kit!Tokens : trusts'[f] # Kit!Absent => trusts'[f] <= db.rev
      /\ \A f \in Kit!Tokens : trusts[f] # Kit!Absent => trusts'[f] # Kit!Absent
  BY <1>1, <1>2, <1>3 DEF DbInv, Kit!ConstantsFit
<1>5. Past(db) /\ Sound(db) /\ Mentions(db) \subseteq begun
  BY <1>1, <1>3 DEF Past, DbInv
<1>6. next = [rev |-> db.rev, owner |-> k, slots |-> db.slots]
  BY <1>3 DEF Doc
<1>7. next \in Doc /\ next.rev = db.rev /\ next.owner = k /\ next.slots = db.slots
  BY <1>3, <1>6 DEF Doc
<1> HIDE DEF next
<1>8. /\ Sound(next) /\ Mentions(next) \subseteq Mentions(db) \cup {k}
      /\ Counted(next) \subseteq Counted(db) \cup {k}
  BY <1>5, <1>7 DEF Sound, Mentions, Counted, Kit!Active
<1>9. \A q \in Kits : db.slots[q] # "none" \/ q \in {k} => next.slots[q] # "none"
  <2>1. k \notin Mentions(db)
    BY <1>2, <1>5
  <2> QED BY <2>1, <1>7 DEF Mentions, Kit!ConstantsFit
<1> QED BY <1>1, <1>2, <1>3, <1>4, <1>5, <1>7, <1>8, <1>9, Prepared

\* A process in the middle of an operation.
LEMMA InProgress ==
  ASSUME Kit!ConstantsFit, KitInv, NEW p \in Procs, kitProc[p].pc \in Running
  PROVE  LET s == kitProc[p]
         IN /\ DbInv /\ ProcInv(p)
            /\ s = [pc |-> s.pc, doc |-> s.doc, by |-> s.by, new |-> s.new, next |-> s.next]
            /\ s.new \subseteq Kit!Tokens /\ s.new \subseteq begun
            /\ Past(s.doc) /\ Sound(s.doc) /\ Mentions(s.doc) \subseteq begun
            /\ s.next \in Doc /\ Sound(s.next) /\ Mentions(s.next) \subseteq begun
            /\ Mentions(s.doc) \subseteq All(p) /\ Mentions(s.next) \subseteq All(p)
            /\ All(p) = Mentions(s.doc) \cup s.new
            /\ s.doc.rev \in 0 .. MaxRevision /\ s.doc.rev # Kit!Absent /\ s.doc.rev <= db.rev
            /\ s.next.rev \in 0 .. MaxRevision /\ s.next.rev # Kit!Absent
<1>1. DbInv /\ ProcInv(p) /\ All(p) = Mentions(kitProc[p].doc) \cup kitProc[p].new
  BY DEF KitInv, All
<1>2. Past(kitProc[p].doc) /\ kitProc[p].next \in Doc
  BY <1>1 DEF ProcInv
<1>3. \A d \in Doc : d.rev \in 0 .. MaxRevision /\ d.rev # Kit!Absent
  BY DEF Doc, Kit!Absent, Kit!ConstantsFit
<1>4. kitProc[p].doc.rev \in 0 .. MaxRevision /\ kitProc[p].doc.rev # Kit!Absent
      /\ kitProc[p].doc.rev <= db.rev
  BY <1>2, <1>3 DEF Past
<1> QED BY <1>1, <1>2, <1>3, <1>4 DEF ProcInv

\* A failure that proves that nothing was stored takes only p's own files.
LEMMA FailStep ==
  ASSUME Kit!ConstantsFit, KitInv, NEW p \in Procs, kitProc[p].pc \in Pre, Kit!Fail(p),
         db' = db, acked' = acked, begun' = begun
  PROVE  KitInv'
<1>1. kitProc[p].pc \in Running /\ Mine(p) = kitProc[p].new
  BY DEF Pre, Running, Mine
<1>2. DbInv
  BY DEF KitInv
<1>a. PICK doc : doc = kitProc[p].doc
  OBVIOUS
<1>3. Past(doc) /\ Sound(doc) /\ Mentions(doc) \subseteq begun /\ Mentions(doc) \subseteq All(p)
  BY <1>1, <1>a, InProgress
<1>4. Past(doc)'
  BY <1>3 DEF Past
<1>5. Kit!Returns(p, doc) /\ files' = files \ Mine(p)
      /\ trusts' = [f \in Kit!Tokens |-> IF f \in Mine(p) THEN Kit!Absent ELSE trusts[f]]
  BY <1>1, <1>a DEF Kit!Fail
<1>6. /\ ProcInv(p)' /\ Mine(p)' = {} /\ All(p)' \subseteq All(p) \cup Mentions(db)
      /\ \A q \in Procs \ {p} : kitProc'[q] = kitProc[q]
      /\ kitProc' = [q \in Procs |-> kitProc'[q]]
  BY <1>3, <1>4, <1>5, Returned
<1>7. /\ trusts' \in [Kit!Tokens -> 0 .. MaxRevision + 1]
      /\ \A f \in Kit!Tokens : trusts'[f] # Kit!Absent => trusts'[f] <= db.rev
  BY <1>2, <1>5 DEF DbInv, Kit!Absent, Kit!ConstantsFit
<1>8. Leaves(p)
  BY <1>5, <1>6 DEF Leaves
<1> QED BY <1>6, <1>7, <1>8, Step

LEMMA WriteStep ==
  ASSUME Kit!ConstantsFit, KitInv, NEW p \in Procs, Kit!WriteFile(p) \/ Kit!WriteAnchor(p)
  PROVE  KitInv'
<1>1. kitProc[p].pc \in Pre /\ kitProc[p].pc \in Running /\ Mine(p) = kitProc[p].new
  BY DEF Pre, Running, Mine, Kit!WriteFile, Kit!WriteAnchor
<1>2. db' = db /\ acked' = acked /\ begun' = begun
  BY DEF Kit!WriteFile, Kit!WriteAnchor
<1>3. CASE Kit!Fail(p)
  BY <1>1, <1>2, <1>3, FailStep
<1>4. ASSUME NEW pc \in {"anchor", "mutate"}, Kit!Becomes(p, [kitProc[p] EXCEPT !.pc = pc]),
             \/ pc = "anchor" /\ files' = files \cup kitProc[p].new /\ trusts' = trusts
             \/ /\ pc = "mutate" /\ kitProc[p].pc = "anchor" /\ files' = files
                /\ trusts' = [f \in Kit!Tokens |-> IF f \in kitProc[p].new THEN kitProc[p].doc.rev
                                                                          ELSE trusts[f]]
      PROVE  KitInv'
  <2>a. PICK s : s = [kitProc[p] EXCEPT !.pc = pc]
    OBVIOUS
  <2>1. /\ kitProc'[p] = s /\ \A q \in Procs \ {p} : kitProc'[q] = kitProc[q]
        /\ kitProc' = [q \in Procs |-> kitProc'[q]]
    BY <1>4, <2>a, BecomesOnly
  <2>2. DbInv /\ ProcInv(p)
    BY DEF KitInv
  <2>3. kitProc[p] = [pc |-> kitProc[p].pc, doc |-> kitProc[p].doc, by |-> kitProc[p].by,
                      new |-> kitProc[p].new, next |-> kitProc[p].next]
    BY <1>1, <2>2 DEF ProcInv
  <2>4. s = [pc |-> pc, doc |-> kitProc[p].doc, by |-> kitProc[p].by,
             new |-> kitProc[p].new, next |-> kitProc[p].next]
    BY <2>a, <2>3
  <2>5. kitProc[p].doc.rev \in 0 .. MaxRevision /\ kitProc[p].doc.rev # Kit!Absent
        /\ kitProc[p].doc.rev <= db.rev
    BY <1>1, InProgress
  <2>6. /\ trusts' \in [Kit!Tokens -> 0 .. MaxRevision + 1]
        /\ \A f \in Kit!Tokens : trusts'[f] # Kit!Absent => trusts'[f] <= db.rev
        /\ \A f \in Kit!Tokens : trusts[f] # Kit!Absent => trusts'[f] # Kit!Absent
    BY <1>4, <2>2, <2>5 DEF DbInv, Kit!ConstantsFit
  <2>7. files \subseteq files' /\ kitProc[p].new \subseteq files'
    BY <1>4, <2>2 DEF ProcInv
  <2>8. pc = "mutate" => \A t \in kitProc[p].new : trusts'[t] # Kit!Absent
    <3>1. kitProc[p].new \subseteq Kit!Tokens
      BY <1>1, InProgress
    <3> QED BY <3>1, <1>4, <2>5
  <2>9. Mine(p)' = Mine(p) /\ All(p)' = All(p)
    BY <1>1, <1>4, <2>1, <2>4 DEF Mine, All, Pre, Running
  <2>10. ProcInv(p)'
    <3>1. pc \in Running /\ pc \in Pre /\ pc # "closed" /\ pc # "open"
      BY DEF Pre, Running
    <3>2. s.pc = pc /\ s.doc = kitProc[p].doc /\ s.new = kitProc[p].new
          /\ s.next = kitProc[p].next
          /\ s = [pc |-> s.pc, doc |-> s.doc, by |-> s.by, new |-> s.new, next |-> s.next]
      BY <2>4
    <3> QED BY <3>1, <3>2, <1>1, <1>2, <1>4, <2>1, <2>2, <2>7, <2>8 DEF ProcInv, Past, Pre,
                                                                        Running
  <2>11. Leaves(p)
    BY <1>2, <2>1, <2>6, <2>7, <2>9 DEF Leaves
  <2> QED BY <1>2, <2>6, <2>10, <2>11, Step
<1>5. \/ Kit!Fail(p)
      \/ \E pc \in {"anchor", "mutate"} :
           /\ Kit!Becomes(p, [kitProc[p] EXCEPT !.pc = pc])
           /\ \/ pc = "anchor" /\ files' = files \cup kitProc[p].new /\ trusts' = trusts
              \/ /\ pc = "mutate" /\ kitProc[p].pc = "anchor" /\ files' = files
                 /\ trusts' = [f \in Kit!Tokens |-> IF f \in kitProc[p].new THEN kitProc[p].doc.rev
                                                                           ELSE trusts[f]]
  BY DEF Kit!WriteFile, Kit!WriteAnchor
<1> QED BY <1>3, <1>4, <1>5

\* An operation whose outcome is unknown, or that has ended.
LEMMA ClosedStep ==
  ASSUME Kit!ConstantsFit, KitInv, NEW p \in Procs, Kit!Becomes(p, Kit!Closed),
         files' = files, trusts' = trusts, db' = db \/ Accepts(p), acked' = acked, begun' = begun
  PROVE  KitInv'
<1>1. /\ kitProc'[p] = Kit!Closed /\ \A q \in Procs \ {p} : kitProc'[q] = kitProc[q]
      /\ kitProc' = [q \in Procs |-> kitProc'[q]]
  BY BecomesOnly
<1>2. kitProc'[p].pc = "closed"
  BY <1>1 DEF Kit!Closed
<1>3. ProcInv(p)' /\ Mine(p)' = {} /\ All(p)' = {}
  BY <1>1, <1>2 DEF ProcInv, Mine, All, Pre, Running
<1>4. DbInv /\ Leaves(p)
  BY <1>1, <1>3 DEF Leaves, KitInv
<1>5. \A f \in Kit!Tokens : trusts'[f] # Kit!Absent => trusts'[f] <= db'.rev
  <2>1. \A f \in Kit!Tokens : trusts[f] \in Nat /\ db.rev \in Nat
    BY <1>4 DEF DbInv, Doc
  <2>2. db'.rev = db.rev \/ db'.rev = db.rev + 1
    BY Accepted
  <2> QED BY <1>4, <2>1, <2>2 DEF DbInv
<1> QED BY <1>3, <1>4, <1>5, Step DEF DbInv

LEMMA MutateStep ==
  ASSUME Kit!ConstantsFit, KitInv, NEW p \in Procs, Kit!Mutate(p)
  PROVE  KitInv'
<1>1. kitProc[p].pc = "mutate" /\ kitProc[p].pc \in Pre /\ kitProc[p].pc \in Running
      /\ begun' = begun
      /\ acked' = acked
  BY DEF Kit!Mutate, Pre, Running
<1>2. CASE Kit!Fail(p) /\ db' = db
  BY <1>1, <1>2, FailStep
<1>3. CASE Kit!Ambiguous(p) /\ (db' = db \/ Accepts(p))
  BY <1>1, <1>3, ClosedStep DEF Kit!Ambiguous
<1>4. CASE /\ Accepts(p) /\ Kit!Becomes(p, [kitProc[p] EXCEPT !.pc = "record"])
           /\ files' = files /\ trusts' = trusts
  <2>a. PICK s : s = [kitProc[p] EXCEPT !.pc = "record"]
    OBVIOUS
  <2>1. /\ kitProc'[p] = s /\ \A q \in Procs \ {p} : kitProc'[q] = kitProc[q]
        /\ kitProc' = [q \in Procs |-> kitProc'[q]]
    BY <1>4, <2>a, BecomesOnly
  <2>2. DbInv /\ ProcInv(p)
    BY DEF KitInv
  <2>3. kitProc[p] = [pc |-> kitProc[p].pc, doc |-> kitProc[p].doc, by |-> kitProc[p].by,
                      new |-> kitProc[p].new, next |-> kitProc[p].next]
    BY <1>1, <2>2 DEF ProcInv
  <2>4. s = [pc |-> "record", doc |-> kitProc[p].doc, by |-> kitProc[p].by,
             new |-> kitProc[p].new, next |-> kitProc[p].next]
    BY <2>a, <2>3
  <2>b. PICK doc, next : doc = kitProc[p].doc /\ next = kitProc[p].next
    OBVIOUS
  <2>5. /\ Past(doc)' /\ db' = next /\ db'.rev = db.rev + 1
        /\ \A r \in Kits : db.slots[r] # "none" \/ r \in kitProc[p].new => db'.slots[r] # "none"
    BY <1>1, <1>4, <2>2, <2>b, Accepted DEF ProcInv, Accepts
  <2>6. Past(next)'
    BY <2>5, Accepted, <1>4 DEF Past, Doc
  <2>7. Mine(p)' = {} /\ All(p)' = All(p)
    BY <1>1, <2>1, <2>4 DEF Mine, All, Pre, Running
  <2>8. ProcInv(p)'
    <3>1. s.pc = "record" /\ s.doc = doc /\ s.new = kitProc[p].new /\ s.next = next
          /\ s = [pc |-> s.pc, doc |-> s.doc, by |-> s.by, new |-> s.new, next |-> s.next]
      BY <2>4, <2>b
    <3>2. /\ s.new \subseteq Kit!Tokens /\ s.new \subseteq begun'
          /\ s.next \in Doc /\ s.next.rev = s.doc.rev + 1 /\ Sound(s.next)
          /\ Mentions(s.next) \subseteq Mentions(s.doc) \cup s.new
          /\ Counted(s.next) \subseteq Counted(s.doc) \cup s.new
          /\ \A r \in Kits : s.doc.slots[r] # "none" \/ r \in s.new => s.next.slots[r] # "none"
          /\ Sound(s.doc) /\ Mentions(s.doc) \subseteq begun'
      BY <3>1, <2>b, <1>1, <2>2 DEF ProcInv
    <3>3. \A r \in s.new \cap Kits : db'.slots[r] # "none"
      BY <3>1, <2>5
    <3> HIDE DEF Mentions, Counted
    <3> QED BY <3>1, <3>2, <3>3, <2>1, <2>5, <2>6 DEF ProcInv, Pre, Running
  <2>9. Leaves(p)
    BY <1>1, <1>4, <2>1, <2>7 DEF Leaves
  <2>10. \A f \in Kit!Tokens : trusts'[f] # Kit!Absent => trusts'[f] <= db'.rev
    <3>1. \A f \in Kit!Tokens : trusts[f] \in Nat /\ db.rev \in Nat
      BY <2>2 DEF DbInv, Doc
    <3> QED BY <3>1, <1>4, <2>2, <2>5 DEF DbInv
  <2> QED BY <1>1, <1>4, <2>2, <2>8, <2>9, <2>10, Step DEF DbInv
<1> QED BY <1>2, <1>3, <1>4 DEF Kit!Mutate, Accepts

LEMMA RecordStep ==
  ASSUME Kit!ConstantsFit, KitInv, NEW p \in Procs, Kit!Record(p)
  PROVE  KitInv'
<1> DEFINE f == kitProc[p].by
<1>1. kitProc[p].pc = "record" /\ kitProc[p].pc \in Running /\ begun' = begun
      /\ acked' = acked /\ db' = db
      /\ Mine(p) = {}
  BY DEF Kit!Record, Running, Mine, Pre
<1>2. CASE Kit!Ambiguous(p)
  BY <1>1, <1>2, ClosedStep DEF Kit!Ambiguous
<1>3. CASE /\ trusts' = [trusts EXCEPT ![f] = kitProc[p].next.rev] /\ files' = files
           /\ IF kitProc[p].new = {} THEN Kit!Returns(p, kitProc[p].next)
                                     ELSE Kit!Becomes(p, [kitProc[p] EXCEPT !.pc = "finish"])
  <2>1. DbInv /\ ProcInv(p)
    BY DEF KitInv
  <2>a. PICK next : next = kitProc[p].next
    OBVIOUS
  <2>2. Past(next) /\ Sound(next) /\ Mentions(next) \subseteq begun
        /\ Mentions(next) \subseteq All(p)
        /\ next.rev \in 0 .. MaxRevision /\ next.rev # Kit!Absent
    BY <1>1, <2>a, <2>1, InProgress DEF ProcInv
  <2>3. Past(next)' /\ next.rev <= db.rev
    BY <2>2, <1>1 DEF Past
  <2>4. /\ trusts' \in [Kit!Tokens -> 0 .. MaxRevision + 1]
        /\ \A t \in Kit!Tokens : trusts'[t] # Kit!Absent => trusts'[t] <= db.rev
        /\ \A t \in Kit!Tokens : trusts[t] # Kit!Absent => trusts'[t] # Kit!Absent
    <3>1. trusts \in [Kit!Tokens -> 0 .. MaxRevision + 1]
      BY <2>1 DEF DbInv
    <3>2. /\ DOMAIN trusts' = Kit!Tokens /\ trusts' = [t \in Kit!Tokens |-> trusts'[t]]
          /\ \A t \in Kit!Tokens : trusts'[t] = trusts[t] \/ trusts'[t] = next.rev
      BY <1>3, <2>a, <3>1
    <3>3. next.rev \in 0 .. MaxRevision + 1
      BY <2>2 DEF Kit!ConstantsFit
    <3>4. \A t \in Kit!Tokens : trusts'[t] \in 0 .. MaxRevision + 1
      BY <3>1, <3>2, <3>3
    <3> QED BY <3>1, <3>2, <3>3, <3>4, <2>1, <2>2, <2>3 DEF DbInv
  <2>5. CASE kitProc[p].new = {}
    <3>1. Kit!Returns(p, next)
      BY <1>3, <2>5, <2>a
    <3>2. /\ ProcInv(p)' /\ Mine(p)' = {} /\ All(p)' \subseteq All(p) \cup Mentions(db)
          /\ \A q \in Procs \ {p} : kitProc'[q] = kitProc[q]
          /\ kitProc' = [q \in Procs |-> kitProc'[q]]
      BY <3>1, <2>2, <2>3, <1>1, Returned
    <3>3. Leaves(p)
      BY <3>2, <1>1, <1>3, <2>4 DEF Leaves
    <3> QED BY <3>2, <3>3, <1>1, <2>4, Step
  <2>6. CASE kitProc[p].new # {}
    <3>a. PICK s : s = [kitProc[p] EXCEPT !.pc = "finish"]
      OBVIOUS
    <3>1. /\ kitProc'[p] = s /\ \A q \in Procs \ {p} : kitProc'[q] = kitProc[q]
          /\ kitProc' = [q \in Procs |-> kitProc'[q]]
      BY <1>3, <2>6, <3>a, BecomesOnly
    <3>2. kitProc[p] = [pc |-> kitProc[p].pc, doc |-> kitProc[p].doc, by |-> kitProc[p].by,
                        new |-> kitProc[p].new, next |-> kitProc[p].next]
      BY <1>1, <2>1 DEF ProcInv
    <3>3. s = [pc |-> "finish", doc |-> kitProc[p].doc, by |-> kitProc[p].by,
               new |-> kitProc[p].new, next |-> kitProc[p].next]
      BY <3>a, <3>2
    <3>4. Mine(p)' = {} /\ All(p)' = All(p)
      BY <1>1, <3>1, <3>3 DEF Mine, All, Pre, Running
    <3>5. ProcInv(p)'
      <4>1. s.pc = "finish" /\ s.doc = kitProc[p].doc /\ s.new = kitProc[p].new
            /\ s.next = kitProc[p].next
            /\ s = [pc |-> s.pc, doc |-> s.doc, by |-> s.by, new |-> s.new, next |-> s.next]
        BY <3>3
      <4> QED BY <4>1, <3>1, <1>1, <2>1 DEF ProcInv, Past, Pre, Running
    <3>6. Leaves(p)
      BY <3>1, <3>4, <1>1, <1>3, <2>4 DEF Leaves
    <3> QED BY <3>5, <3>6, <1>1, <2>4, Step
  <2> QED BY <2>5, <2>6
<1> QED BY <1>2, <1>3 DEF Kit!Record

LEMMA FinishStep ==
  ASSUME Kit!ConstantsFit, KitInv, NEW p \in Procs, Kit!Finish(p)
  PROVE  KitInv'
<1>1. kitProc[p].pc = "finish" /\ kitProc[p].pc \in Running /\ begun' = begun /\ db' = db
      /\ Mine(p) = {}
  BY DEF Kit!Finish, Running, Mine, Pre
<1>2. CASE Kit!Ambiguous(p) /\ UNCHANGED acked
  BY <1>1, <1>2, ClosedStep DEF Kit!Ambiguous
<1>3. CASE /\ trusts' = [f \in Kit!Tokens |-> IF f \in kitProc[p].new THEN kitProc[p].next.rev
                                                                      ELSE trusts[f]]
           /\ acked' = acked \cup (kitProc[p].new \cap Kits)
           /\ Kit!Returns(p, kitProc[p].next) /\ files' = files
  <2>1. DbInv /\ ProcInv(p)
    BY DEF KitInv
  <2>a. PICK next : next = kitProc[p].next
    OBVIOUS
  <2>2. Past(next) /\ Sound(next) /\ Mentions(next) \subseteq begun
        /\ Mentions(next) \subseteq All(p)
        /\ next.rev \in 0 .. MaxRevision /\ next.rev # Kit!Absent
        /\ \A r \in kitProc[p].new \cap Kits : db.slots[r] # "none"
    BY <1>1, <2>a, <2>1, InProgress DEF ProcInv
  <2>3. Past(next)' /\ next.rev <= db.rev
    BY <2>2, <1>1 DEF Past
  <2>4. /\ trusts' \in [Kit!Tokens -> 0 .. MaxRevision + 1]
        /\ \A t \in Kit!Tokens : trusts'[t] # Kit!Absent => trusts'[t] <= db.rev
        /\ \A t \in Kit!Tokens : trusts[t] # Kit!Absent => trusts'[t] # Kit!Absent
    BY <1>3, <2>1, <2>2, <2>3, <2>a DEF DbInv, Kit!ConstantsFit
  <2>5. Kit!Returns(p, next)
    BY <1>3, <2>a
  <2>6. /\ ProcInv(p)' /\ Mine(p)' = {} /\ All(p)' \subseteq All(p) \cup Mentions(db)
        /\ \A q \in Procs \ {p} : kitProc'[q] = kitProc[q]
        /\ kitProc' = [q \in Procs |-> kitProc'[q]]
    BY <2>2, <2>3, <2>5, <1>1, Returned
  <2>7. Leaves(p)
    BY <2>6, <1>1, <1>3, <2>4 DEF Leaves
  <2>8. acked' \subseteq acked \cup {r \in Kits : db.slots[r] # "none"}
    BY <1>3, <2>2
  <2> QED BY <1>1, <2>4, <2>6, <2>7, <2>8, Step
<1> QED BY <1>2, <1>3 DEF Kit!Finish

LEMMA KitInvStep == ASSUME Kit!ConstantsFit, KitInv, [Kit!Next]_(Kit!vars) PROVE KitInv'
<1>1. CASE UNCHANGED Kit!vars
  BY <1>1 DEF Kit!vars, KitInv, DbInv, Apart, ProcInv, Mine, All, Past
<1>2. ASSUME NEW p \in Procs, Kit!Exit(p) PROVE KitInv'
  BY <1>2, ClosedStep DEF Kit!Exit
<1>3. ASSUME NEW p \in Procs,
             \/ Kit!Rename(p) \/ \E r \in Kits : Kit!Revoke(p, r) \/ Kit!Create(p, r)
      PROVE  KitInv'
  BY <1>3, SessionStep
<1>4. ASSUME NEW p \in Procs, Kit!WriteFile(p) \/ Kit!WriteAnchor(p) PROVE KitInv'
  BY <1>4, WriteStep
<1>5. ASSUME NEW p \in Procs, Kit!Mutate(p) \/ Kit!Record(p) \/ Kit!Finish(p) PROVE KitInv'
  BY <1>5, MutateStep, RecordStep, FinishStep
<1>6. ASSUME NEW p \in Procs, NEW k \in KitKeys, Kit!Open(p, k) PROVE KitInv'
  BY <1>6, OpenStep
<1>7. ASSUME NEW p \in Procs, NEW r \in Kits, Kit!Verify(p, r) PROVE KitInv'
  BY <1>7, VerifyStep
<1>8. ASSUME NEW p \in Procs, NEW r \in Kits, NEW k \in KitKeys, Kit!Use(p, r, k) PROVE KitInv'
  BY <1>8, UseStep
<1> QED BY <1>1, <1>2, <1>3, <1>4, <1>5, <1>6, <1>7, <1>8 DEF Kit!Next

LEMMA KitInvAlways == ASSUME Kit!ConstantsFit PROVE Kit!Spec => []KitInv
<1>1. Kit!Init => KitInv
  BY KitInvInit
<1>2. KitInv /\ [Kit!Next]_(Kit!vars) => KitInv'
  BY KitInvStep
<1> QED BY <1>1, <1>2, PTL DEF Kit!Spec

\* Whoever holds the owner's key or an active kit can open the database.
THEOREM NobodyIsLockedOut == ASSUME Kit!ConstantsFit PROVE Kit!Spec => []NeverLockedOut
<1>1. KitInv => NeverLockedOut
  <2> SUFFICES ASSUME KitInv PROVE Kit!NeverLockedOut
    BY DEF NeverLockedOut
  <2>1. DbInv
    BY DEF KitInv
  <2>2. \A f \in {db.owner} \cup Kit!Active(db) : f \in Kit!Tokens
    BY <2>1 DEF DbInv, Doc, Kit!Tokens, Kit!Active
  <2> QED BY <2>1, <2>2 DEF DbInv, Kit!NeverLockedOut, Kit!CanOpen, Sound, Counted
<1> QED BY <1>1, KitInvAlways, PTL

-----------------------------------------------------------------------------
(* MongoEncryptedDatabase: clients of one server.                          *)

CONSTANTS Clients, Vaults, MaxCalls
VARIABLES replicated, present, conn, store, view, job, late, calls, taken, told, mongoFaults

Port == INSTANCE MongoEncryptedDatabase WITH report <- told, faults <- mongoFaults

\* Every call is an atomic one of AtomicStore.
EveryCallIsAtomic == Port!Implements

DatabaseRecord == [rev : Nat, digest : Nat, catalog : SUBSET Vaults]

IsStore(s) ==
  /\ s = [database |-> s.database, heads |-> s.heads, exists |-> s.exists]
  /\ s.database \in DatabaseRecord /\ Port!IsHeads(s.heads, Vaults) /\ s.exists \in BOOLEAN

MutationFields == [kind : {"initialize", "rename", "create", "update", "delete"},
           database : DatabaseRecord, vault : Vaults \cup {"none"}, head : Port!VaultHead,
               expected : Nat]
Mutation == {m \in MutationFields : m.kind = "create" => m.vault \in Vaults}

ReplyValues == {"none", "ok", "refused", "unknown"}
Holding == {"catalog", "both"}

\* What is known of a call whose command may still take effect: one that holds
\* the catalog still finds what it has read.
Live(j) ==
  /\ j = [at |-> j.at, k |-> j.k, seen |-> j.seen]
  /\ j.k \in 1 .. Len(calls)
  /\ j.at \in {"hello", "sent"} => calls[j.k].kind \in {"initialize", "rename", "update"}
  /\ j.at \in {"begin", "catalog", "both"} => calls[j.k].kind \in {"create", "delete"}
  /\ j.at # "done" => j.k \notin taken
  /\ j.at \in Holding => Port!MatchesDatabase(store, calls[j.k])
  /\ j.at = "both" => Port!VaultAccepts(store, calls[j.k])

Engaged(j) == /\ j.at \in {"hello", "sent", "begin", "catalog", "both", "done"}
              /\ Live(j) /\ told[j.k] = "none"
              /\ j.at = "done" => j.k \in taken

MongoTypes ==
  /\ IsStore(store) /\ (~ store.exists => store = Port!Contract!Empty)
  /\ calls \in Seq(Mutation) /\ told \in Seq(ReplyValues) /\ Len(told) = Len(calls)
  /\ \A k \in taken : k \in 1 .. Len(calls)
  /\ \A c \in Clients : IsStore(view[c])
  /\ view = [c \in Clients |-> view[c]]

JobsSound ==
  /\ job = [c \in Clients |-> job[c]]
  /\ \A c \in Clients : job[c] = Port!Idle \/ Engaged(job[c])
  /\ \A c, d \in Clients : c # d /\ job[c] # Port!Idle /\ job[d] # Port!Idle
         => job[c].k # job[d].k

LateSound ==
  /\ \A j \in late : Live(j) /\ j.at \in {"sent", "both"} /\ told[j.k] = "unknown"
  /\ \A i, j \in late : i.k = j.k => i = j

OneWriter == \A i, j \in Port!Writing : i = j

MongoInv == MongoTypes /\ JobsSound /\ LateSound /\ OneWriter

-----------------------------------------------------------------------------
LEMMA EmptyIsStore == IsStore(Port!Contract!Empty)
<1>1. <<>> \in [{} -> Port!VaultHead] /\ DOMAIN <<>> = {}
  OBVIOUS
<1> QED BY <1>1 DEF IsStore, Port!Contract!Empty, DatabaseRecord, Port!IsHeads

LEMMA MongoInvInit == Port!Init => MongoInv
<1> SUFFICES ASSUME Port!Init PROVE MongoInv
  OBVIOUS
<1>1. /\ store = Port!Contract!Empty /\ calls = <<>> /\ taken = {} /\ told = <<>>
      /\ view = [c \in Clients |-> store] /\ job = [c \in Clients |-> Port!Idle] /\ late = {}
  BY DEF Port!Init, Port!Contract!Init
<1>2. MongoTypes
  BY <1>1, EmptyIsStore, EmptySeq DEF MongoTypes
<1>3. JobsSound /\ LateSound
  BY <1>1 DEF JobsSound, LateSound
<1>4. Port!Writing = {}
  BY <1>1 DEF Port!Writing, Port!Jobs, Port!Idle
<1> QED BY <1>2, <1>3, <1>4 DEF MongoInv, OneWriter

-----------------------------------------------------------------------------
\* A call that goes on keeps what is known of it.
LEMMA StaysLive ==
  ASSUME NEW j, Live(j), MongoTypes, Len(calls) <= Len(calls'), Len(calls') \in Nat,
         \A i \in 1 .. Len(calls) : calls'[i] = calls[i],
         j.k \notin taken' \ taken,
         j.at \in Holding => Port!MatchesDatabase(store', calls[j.k]),
         j.at = "both" => Port!VaultAccepts(store', calls[j.k])
  PROVE  Live(j)'
<1>1. j.k \in 1 .. Len(calls') /\ calls'[j.k] = calls[j.k]
  <2>1. Len(calls) \in Nat /\ j.k \in 1 .. Len(calls)
    BY LenProperties DEF MongoTypes, Live
  <2> QED BY <2>1
<1> QED BY <1>1 DEF Live, Port!MatchesDatabase, Port!VaultAccepts, Port!MatchesVault

\* Only the connections changed, or what a client has read.
LEMMA ConnectionStep ==
  ASSUME MongoInv, UNCHANGED <<Port!contract, job, late>>,
         \/ view' = view
         \/ \E c \in Clients : view' = [view EXCEPT ![c] = store]
  PROVE  MongoInv'
<1>1. store' = store /\ calls' = calls /\ taken' = taken /\ told' = told /\ job' = job
      /\ late' = late
  BY DEF Port!contract
<1>2. MongoTypes'
  BY <1>1 DEF MongoInv, MongoTypes, IsStore
<1>3. JobsSound' /\ LateSound' /\ OneWriter'
  BY <1>1 DEF MongoInv, JobsSound, LateSound, Engaged, Live, Port!MatchesDatabase,
              Port!VaultAccepts,
              Port!MatchesVault, OneWriter, Port!Writing, Port!Jobs
<1> QED BY <1>2, <1>3 DEF MongoInv

\* A reply: the call is over, its command may still be on its way.
LEMMA ReplyStep ==
  ASSUME MongoInv, NEW c \in Clients, job[c] # Port!Idle, NEW what \in {"ok", "refused",
         "unknown"},
         Port!Answers(c, what), UNCHANGED <<store, calls, taken, view>>,
         \/ late' = late
         \/ /\ what = "unknown"
            /\ late' = late \cup ({job[c]} \cap {j \in Port!Jobs : j.at \in {"sent", "both"}})
  PROVE  MongoInv'
<1>a. PICK x : x = job[c]
  OBVIOUS
<1>1. /\ Engaged(x) /\ Live(x) /\ told[x.k] = "none" /\ x.k \in 1 .. Len(told)
      /\ told \in Seq(ReplyValues) /\ MongoTypes
  BY <1>a DEF MongoInv, JobsSound, MongoTypes, Engaged, Live
<1>2. job' = [job EXCEPT ![c] = Port!Idle] /\ told' = [told EXCEPT ![x.k] = what]
  BY <1>a DEF Port!Answers
<1>3. /\ told' \in Seq(ReplyValues) /\ Len(told') = Len(told) /\ told'[x.k] = what
      /\ \A k \in 1 .. Len(told) : k # x.k => told'[k] = told[k]
  <2>1. what \in ReplyValues
    BY DEF ReplyValues
  <2> QED BY <1>1, <1>2, <2>1, ExceptSeq
<1>4. /\ job'[c] = Port!Idle /\ \A d \in Clients \ {c} : job'[d] = job[d]
      /\ job' = [d \in Clients |-> job'[d]]
  BY <1>2 DEF MongoInv, JobsSound
<1>5. \A j : Live(j) => Live(j)'
  BY StaysLive, <1>1, LenProperties DEF Live, Port!MatchesDatabase, Port!VaultAccepts,
                                        Port!MatchesVault
<1>6. MongoTypes'
  BY <1>1, <1>3 DEF MongoTypes
<1>7. ASSUME NEW d \in Clients, d # c, job[d] # Port!Idle PROVE Engaged(job[d])'
  <2>a. PICK y : y = job[d]
    OBVIOUS
  <2>1. Engaged(y) /\ y.k # x.k /\ y.k \in 1 .. Len(told) /\ job'[d] = y
    BY <1>7, <2>a, <1>a, <1>4 DEF MongoInv, JobsSound, MongoTypes, Engaged, Live
  <2>2. Live(y)' /\ told'[y.k] = "none"
    BY <2>1, <1>3, <1>5 DEF Engaged
  <2>3. Engaged(y)'
    BY <2>1, <2>2 DEF Engaged
  <2> QED BY <2>1, <2>3, <2>a DEF Engaged, Live
<1>8. JobsSound'
  BY <1>4, <1>7 DEF MongoInv, JobsSound
<1>9. late' \subseteq late \cup {x} /\ (x \in late' \/ late' = late)
      /\ (x \in late' /\ x \notin late => what = "unknown" /\ x.at \in {"sent", "both"})
  BY <1>a
<1>10. \A j \in late : j.k # x.k /\ j.k \in 1 .. Len(told)
  BY <1>1 DEF MongoInv, LateSound, MongoTypes, Live
<1>11. LateSound'
  <2>1. ASSUME NEW j \in late' PROVE Live(j)' /\ j.at \in {"sent", "both"}
                   /\ told'[j.k] = "unknown"
    <3>1. CASE j \in late
      BY <3>1, <1>3, <1>5, <1>10 DEF MongoInv, LateSound
    <3>2. CASE j \notin late
      BY <3>2, <1>1, <1>3, <1>5, <1>9
    <3> QED BY <3>1, <3>2
  <2>2. \A i, j \in late' : i.k = j.k => i = j
    BY <1>9, <1>10 DEF MongoInv, LateSound
  <2> QED BY <2>1, <2>2 DEF LateSound
<1>12. OneWriter'
  <2>1. Port!Writing' \subseteq Port!Writing
    <3>1. ASSUME NEW j \in Port!Writing' PROVE j \in Port!Writing
      <4>1. j.at \in {"catalog", "both"} /\ (j \in late' \/ \E d \in Clients : j = job'[d])
        BY <3>1 DEF Port!Writing, Port!Jobs
      <4>2. CASE j \in late'
        BY <4>1, <4>2, <1>9, <1>a DEF Port!Writing, Port!Jobs
      <4>3. ASSUME NEW d \in Clients, j = job'[d] PROVE j \in Port!Writing
        <5>1. d # c
          BY <4>1, <4>3, <1>4 DEF Port!Idle
        <5> QED BY <4>1, <4>3, <5>1, <1>4 DEF Port!Writing, Port!Jobs
      <4> QED BY <4>1, <4>2, <4>3
    <3> QED BY <3>1
  <2> QED BY <2>1 DEF MongoInv, OneWriter
<1> QED BY <1>6, <1>8, <1>11, <1>12 DEF MongoInv

\* A call moves on without a word to its caller.
LEMMA MoveStep ==
  ASSUME MongoInv, NEW c \in Clients, job[c] # Port!Idle, NEW n, n # Port!Idle, n.k = job[c].k,
         Engaged(n),
         job' = [job EXCEPT ![c] = n], UNCHANGED <<store, calls, taken, told, late, view>>,
         n.at \in Holding => Port!Writing \subseteq {job[c]}
  PROVE  MongoInv'
<1>1. /\ job'[c] = n /\ \A d \in Clients \ {c} : job'[d] = job[d]
      /\ job' = [d \in Clients |-> job'[d]]
  BY DEF MongoInv, JobsSound
<1>2. \A j : (Live(j) => Live(j)') /\ (Engaged(j) => Engaged(j)')
  BY DEF Engaged, Live, Port!MatchesDatabase, Port!VaultAccepts, Port!MatchesVault
<1>3. MongoTypes' /\ LateSound'
  BY <1>2 DEF MongoInv, MongoTypes, LateSound
<1>4. ASSUME NEW d \in Clients, job'[d] # Port!Idle PROVE Engaged(job[d])'
  <2>a. PICK y : y = job'[d]
    OBVIOUS
  <2>1. Engaged(y)
    BY <2>a, <1>1, <1>4 DEF MongoInv, JobsSound
  <2>2. Engaged(y)'
    BY <2>1, <1>2
  <2> QED BY <2>2, <2>a DEF Engaged, Live
<1>5. JobsSound'
  BY <1>1, <1>4 DEF MongoInv, JobsSound
<1>6. OneWriter'
  <2>1. \A j \in Port!Writing' : (j = n /\ n.at \in Holding) \/ j \in Port!Writing
    BY <1>1 DEF Port!Writing, Port!Jobs, Holding
  <2>2. n.at \in Holding => \A j \in Port!Writing' : j = n
    <3>1. SUFFICES ASSUME n.at \in Holding, NEW j \in Port!Writing', j # n PROVE FALSE
      OBVIOUS
    <3>2. j \in Port!Writing /\ j = job[c]
      BY <2>1, <3>1
    <3>3. j \in late \/ \E d \in Clients \ {c} : j = job[d]
      BY <1>1, <3>1 DEF Port!Writing, Port!Jobs
    <3>4. j # Port!Idle /\ j.at # "idle"
      BY <3>2 DEF Port!Writing, Port!Idle
    <3>5. j \notin late
      BY <3>2, <3>4 DEF MongoInv, JobsSound, LateSound, Engaged
    <3> QED BY <3>2, <3>3, <3>4, <3>5 DEF MongoInv, JobsSound
  <2> QED BY <2>1, <2>2 DEF MongoInv, OneWriter
<1> QED BY <1>3, <1>5, <1>6 DEF MongoInv

LEMMA MutationsTyped ==
  ASSUME NEW s, IsStore(s), NEW m \in Port!Mutations(s), calls \in Seq(Mutation)
  PROVE  m \in Mutation
<1> DEFINE n == Len(calls) + 1
           base == [kind |-> "rename", database |-> Port!NextDatabase(s, s.database.catalog),
                    vault |-> "none", head |-> [rev |-> 0, digest |-> n], expected |-> 0]
           Of(v) == [base EXCEPT !.vault = v, !.expected = s.heads[v].rev,
                                 !.head.rev = s.heads[v].rev + 1]
<1>1. n \in Nat
  BY LenProperties
<1>2. Port!NextDatabase(s, s.database.catalog) \in DatabaseRecord
          /\ s.database.catalog \subseteq Vaults
  BY <1>1 DEF Port!NextDatabase, DatabaseRecord, IsStore
<1>3. base \in Mutation
  BY <1>1, <1>2 DEF Mutation, MutationFields, Port!VaultHead
<1>4. \A v \in DOMAIN s.heads : v \in Vaults /\ s.heads[v].rev \in Nat
  BY DEF IsStore, Port!IsHeads, Port!VaultHead
<1>a. PICK d : d = Port!NextDatabase(s, s.database.catalog)
  OBVIOUS
<1>7. d \in DatabaseRecord /\ d = [rev |-> d.rev, digest |-> d.digest, catalog |-> d.catalog]
  BY <1>a, <1>2 DEF DatabaseRecord
<1>8. base = [kind |-> "rename", database |-> d, vault |-> "none",
              head |-> [rev |-> 0, digest |-> n], expected |-> 0]
  BY <1>a
<1>6. \/ m = [base EXCEPT !.kind = "initialize", !.database.rev = 0]
      \/ m = base
      \/ \E v \in Vaults \ DOMAIN s.heads :
           m = [base EXCEPT !.kind = "create", !.vault = v, !.database.catalog = @ \cup {v}]
      \/ \E v \in DOMAIN s.heads : m = [Of(v) EXCEPT !.kind = "update"]
      \/ \E v \in DOMAIN s.heads : m = [Of(v) EXCEPT !.kind = "delete",
             !.database.catalog = @ \ {v}]
  BY DEF Port!Mutations
<1>9. CASE m = [base EXCEPT !.kind = "initialize", !.database.rev = 0]
  <2>1. m = [kind |-> "initialize", database |-> [d EXCEPT !.rev = 0], vault |-> "none",
             head |-> [rev |-> 0, digest |-> n], expected |-> 0]
    BY <1>8, <1>9
  <2> HIDE DEF base, n
  <2> QED BY <2>1, <1>1, <1>7 DEF Mutation, MutationFields, DatabaseRecord, Port!VaultHead
<1>10. ASSUME NEW v \in Vaults \ DOMAIN s.heads,
              m = [base EXCEPT !.kind = "create", !.vault = v, !.database.catalog = @ \cup {v}]
       PROVE  m \in Mutation
  <2>1. m = [kind |-> "create", database |-> [d EXCEPT !.catalog = @ \cup {v}], vault |-> v,
             head |-> [rev |-> 0, digest |-> n], expected |-> 0]
    BY <1>8, <1>10
  <2> HIDE DEF base, n
  <2> QED BY <2>1, <1>1, <1>7 DEF Mutation, MutationFields, DatabaseRecord, Port!VaultHead
<1>11. ASSUME NEW v \in DOMAIN s.heads
       PROVE  Of(v) = [kind |-> "rename", database |-> d, vault |-> v,
                       head |-> [rev |-> s.heads[v].rev + 1, digest |-> n],
                       expected |-> s.heads[v].rev]
  <2>1. /\ base.kind = "rename" /\ base.database = d /\ base.vault = "none" /\ base.expected = 0
        /\ base.head = [rev |-> 0, digest |-> n]
    BY <1>8
  <2>2. base.head.rev = 0 /\ base.head.digest = n
    BY <2>1
  <2>a. PICK b : b = base
    OBVIOUS
  <2> HIDE DEF base, n
  <2>3. /\ b.head = [rev |-> b.head.rev, digest |-> b.head.digest]
        /\ b = [kind |-> b.kind, database |-> b.database, vault |-> b.vault, head |-> b.head,
                expected |-> b.expected]
    BY <1>8, <2>a, <2>1, <2>2
  <2>4. PICK r : r = s.heads[v].rev
    OBVIOUS
  <2>5. PICK g : g = [b EXCEPT !.vault = v, !.expected = r]
    OBVIOUS
  <2>6. g = [kind |-> b.kind, database |-> b.database, vault |-> v, head |-> b.head,
             expected |-> r]
    BY <2>5, <2>3
  <2>7. PICK h : h = [b.head EXCEPT !.rev = r + 1]
    OBVIOUS
  <2>8. h = [rev |-> r + 1, digest |-> b.head.digest]
    BY <2>7, <2>3
  <2>9. Of(v) = [g EXCEPT !.head = h]
    BY <2>a, <2>4, <2>5, <2>6, <2>7, <2>3
  <2>10. [g EXCEPT !.head = h] = [kind |-> b.kind, database |-> b.database, vault |-> v,
                                  head |-> h, expected |-> r]
    BY <2>6
  <2>11. b.kind = "rename" /\ b.database = d /\ b.head.digest = n
    BY <2>a, <2>1, <2>2
  <2> QED BY <2>4, <2>8, <2>9, <2>10, <2>11, Zenon
<1>12. ASSUME NEW v \in DOMAIN s.heads, m = [Of(v) EXCEPT !.kind = "update"]
       PROVE  m \in Mutation
  <2>1. m = [kind |-> "update", database |-> d, vault |-> v,
             head |-> [rev |-> s.heads[v].rev + 1, digest |-> n], expected |-> s.heads[v].rev]
    BY <1>11, <1>12
  <2> HIDE DEF base, n, Of
  <2> QED BY <2>1, <1>1, <1>4, <1>7 DEF Mutation, MutationFields, Port!VaultHead
<1>13. ASSUME NEW v \in DOMAIN s.heads,
              m = [Of(v) EXCEPT !.kind = "delete", !.database.catalog = @ \ {v}]
       PROVE  m \in Mutation
  <2>1. m = [kind |-> "delete", database |-> [d EXCEPT !.catalog = @ \ {v}], vault |-> v,
             head |-> [rev |-> s.heads[v].rev + 1, digest |-> n], expected |-> s.heads[v].rev]
    BY <1>11, <1>13
  <2>2. [d EXCEPT !.catalog = @ \ {v}] \in DatabaseRecord
    BY <1>7 DEF DatabaseRecord
  <2>3. v \in Vaults /\ s.heads[v].rev \in Nat /\ s.heads[v].rev + 1 \in Nat
    BY <1>4
  <2> HIDE DEF base, n, Of
  <2> QED BY <2>1, <2>2, <2>3, <1>1 DEF Mutation, MutationFields, Port!VaultHead
<1> QED BY <1>3, <1>6, <1>9, <1>10, <1>12, <1>13

\* A client asks for a mutation of what it has read.
LEMMA CallStep ==
  ASSUME MongoInv, NEW c \in Clients, NEW m \in Port!Mutations(view[c]), Port!Call(c, m)
  PROVE  MongoInv'
<1>1. MongoTypes /\ job[c] = Port!Idle /\ IsStore(view[c])
  BY DEF MongoInv, MongoTypes, Port!Call
<1>2. m \in Mutation
  BY <1>1, MutationsTyped DEF MongoTypes
<1>3. Len(calls) \in Nat /\ Len(told) = Len(calls) /\ calls \in Seq(Mutation)
          /\ told \in Seq(ReplyValues)
  BY <1>1, LenProperties DEF MongoTypes
<1>a. PICK n : n = [at |-> Port!Entry(m), k |-> Len(calls) + 1, seen |-> store]
  OBVIOUS
<1>4. /\ calls' = Append(calls, m) /\ told' = Append(told, "none")
      /\ job' = [job EXCEPT ![c] = n] /\ store' = store /\ taken' = taken /\ late' = late
      /\ view' = view
  BY <1>a DEF Port!Call
<1>5. /\ calls' \in Seq(Mutation) /\ Len(calls') = Len(calls) + 1 /\ calls'[Len(calls) + 1] = m
      /\ \A i \in 1 .. Len(calls) : calls'[i] = calls[i]
  BY <1>2, <1>3, <1>4, AppendProperties
<1>6. /\ told' \in Seq(ReplyValues) /\ Len(told') = Len(calls) + 1
      /\ told'[Len(calls) + 1] = "none"
      /\ \A i \in 1 .. Len(calls) : told'[i] = told[i]
  <2>1. "none" \in ReplyValues
    BY DEF ReplyValues
  <2> QED BY <2>1, <1>3, <1>4, AppendProperties
<1>7. MongoTypes'
  BY <1>1, <1>3, <1>4, <1>5, <1>6 DEF MongoTypes
<1>8. Len(calls') \in Nat /\ Len(calls) <= Len(calls')
  BY <1>3, <1>5
<1>9. \A j : Live(j) => Live(j)' /\ told'[j.k] = told[j.k]
  BY <1>1, <1>4, <1>5, <1>6, <1>8, StaysLive DEF Live, Port!MatchesDatabase, Port!VaultAccepts,
                                                 Port!MatchesVault
<1>10. /\ n.at \in {"hello", "sent", "begin"} /\ n.k = Len(calls) + 1
       /\ n = [at |-> n.at, k |-> n.k, seen |-> n.seen]
       /\ n.at \in {"hello", "sent"} => m.kind \in {"initialize", "rename", "update"}
       /\ n.at = "begin" => m.kind \in {"create", "delete"}
  BY <1>2, <1>a DEF Port!Entry, Mutation, MutationFields
<1>11. Engaged(n)'
  <2>1. n.k \notin taken
    BY <1>1, <1>3, <1>10 DEF MongoTypes
  <2> QED BY <2>1, <1>3, <1>4, <1>5, <1>6, <1>10 DEF Engaged, Live, Holding
<1>12. /\ job'[c] = n /\ \A d \in Clients \ {c} : job'[d] = job[d]
       /\ job' = [d \in Clients |-> job'[d]]
  BY <1>4 DEF MongoInv, JobsSound
<1>13. \A d \in Clients \ {c} : job[d] # Port!Idle => job[d].k # n.k
  BY <1>3, <1>10 DEF MongoInv, JobsSound, Engaged, Live
<1>14. ASSUME NEW d \in Clients, job'[d] # Port!Idle PROVE Engaged(job[d])'
  <2>a. PICK y : y = job'[d]
    OBVIOUS
  <2>1. Engaged(y)'
    <3>1. CASE d = c
      BY <3>1, <2>a, <1>11, <1>12
    <3>2. CASE d # c
      <4>1. Engaged(y)
        BY <3>2, <2>a, <1>12, <1>14 DEF MongoInv, JobsSound
      <4> QED BY <4>1, <1>4, <1>9 DEF Engaged
    <3> QED BY <3>1, <3>2
  <2> QED BY <2>1, <2>a DEF Engaged, Live
<1>15. JobsSound'
  BY <1>12, <1>13, <1>14 DEF MongoInv, JobsSound
<1>16. LateSound'
  BY <1>4, <1>9 DEF MongoInv, LateSound
<1>17. OneWriter'
  <2>1. n.at \notin {"catalog", "both"}
    BY <1>10
  <2>2. \A j \in Port!Writing' : j \in Port!Writing
    BY <2>1, <1>4, <1>12 DEF Port!Writing, Port!Jobs
  <2> QED BY <2>2 DEF MongoInv, OneWriter
<1> QED BY <1>7, <1>15, <1>16, <1>17 DEF MongoInv

-----------------------------------------------------------------------------
\* The command of a call takes effect.  What holds the catalog is not disturbed.
Undisturbed(x) ==
  \A j \in Port!Jobs \ {x} : /\ j.at \in Holding => Port!MatchesDatabase(store', calls[j.k])
                             /\ j.at = "both" => Port!VaultAccepts(store', calls[j.k])

\* It takes effect as the contract says.
TakesEffect(m) == Port!Contract!Accepted(store, m) /\ store' = Port!Contract!Effective(store, m)

LEMMA TakeStep ==
  ASSUME MongoInv, NEW x \in Port!Jobs, x # Port!Idle, Live(x), x.at # "done", Port!Takes(x),
         Undisturbed(x),
         IsStore(store'), store'.exists, UNCHANGED <<calls, told, view>>,
         \/ /\ late' = late \ {x} /\ job' = job /\ x \in late
         \/ /\ late' = late
            /\ \E c \in Clients : job[c] = x /\ job' = [job EXCEPT ![c].at = "done"]
  PROVE  MongoInv'
<1>1. MongoTypes /\ x.k \in 1 .. Len(calls) /\ taken' = taken \cup {x.k} /\ Len(calls) \in Nat
  BY LenProperties DEF MongoInv, MongoTypes, Live, Port!Takes
<1>2. MongoTypes'
  BY <1>1 DEF MongoTypes
<1>3. ASSUME NEW j \in Port!Jobs \ {x}, Live(j), j.k # x.k PROVE Live(j)'
  <2>1. calls' = calls
    OBVIOUS
  <2>2. j.at \in Holding => Port!MatchesDatabase(store', calls[j.k])
    BY DEF Undisturbed
  <2>3. j.at = "both" => Port!VaultAccepts(store', calls[j.k])
    BY DEF Undisturbed
  <2>4. j.k \notin taken' \ taken /\ Len(calls) <= Len(calls') /\ Len(calls') \in Nat
    BY <1>1, <1>3, <2>1
  <2> QED BY <1>1, <1>3, <2>1, <2>2, <2>3, <2>4, StaysLive
<1>4. \A i, j \in Port!Jobs : i # Port!Idle /\ j # Port!Idle /\ i # j => i.k # j.k
  BY DEF MongoInv, JobsSound, LateSound, Port!Jobs, Engaged
<1>5. \A j \in late : j # Port!Idle /\ j \in Port!Jobs
  BY DEF MongoInv, LateSound, Port!Idle, Port!Jobs
<1>6. LateSound'
  BY <1>3, <1>4, <1>5 DEF MongoInv, LateSound, JobsSound, Engaged
<1>7. CASE late' = late \ {x} /\ job' = job /\ x \in late
  <2>1. ASSUME NEW d \in Clients, job[d] # Port!Idle PROVE Engaged(job[d])'
    <3>a. PICK y : y = job[d]
      OBVIOUS
    <3>1. Engaged(y) /\ y # Port!Idle /\ y \in Port!Jobs \ {x}
      BY <1>7, <2>1, <3>a DEF MongoInv, JobsSound, LateSound, Engaged, Port!Jobs
    <3>2. Engaged(y)'
      BY <3>1, <1>1, <1>3, <1>4 DEF Engaged
    <3> QED BY <3>2, <3>a, <1>7 DEF Engaged, Live
  <2>2. JobsSound'
    BY <1>7, <2>1 DEF MongoInv, JobsSound
  <2>3. Port!Writing' \subseteq Port!Writing
    BY <1>7 DEF Port!Writing, Port!Jobs
  <2> QED BY <1>2, <1>6, <2>2, <2>3 DEF MongoInv, OneWriter
<1>8. ASSUME NEW c \in Clients, job[c] = x, job' = [job EXCEPT ![c].at = "done"], late' = late
      PROVE  MongoInv'
  <2>a. PICK n : n = [x EXCEPT !.at = "done"]
    OBVIOUS
  <2>1. /\ job'[c] = n /\ \A d \in Clients \ {c} : job'[d] = job[d]
        /\ job' = [d \in Clients |-> job'[d]]
    BY <1>8, <2>a DEF MongoInv, JobsSound
  <2>2. n = [at |-> "done", k |-> x.k, seen |-> x.seen] /\ n # Port!Idle
    BY <2>a DEF Live, Port!Idle
  <2>3. Engaged(n)'
    <3>1. told[x.k] = "none"
      BY <1>8 DEF MongoInv, JobsSound, Engaged
    <3> QED BY <3>1, <1>1, <2>2 DEF Engaged, Live, Holding
  <2>4. ASSUME NEW d \in Clients, job'[d] # Port!Idle PROVE Engaged(job[d])'
    <3>a. PICK y : y = job'[d]
      OBVIOUS
    <3>1. CASE d = c
      BY <3>1, <3>a, <2>1, <2>3 DEF Engaged, Live
    <3>2. CASE d # c
      <4>1. Engaged(y) /\ y # Port!Idle /\ y.k # x.k /\ y \in Port!Jobs \ {x}
        BY <1>8, <2>1, <2>4, <3>a, <3>2 DEF MongoInv, JobsSound, Port!Jobs
      <4>2. Engaged(y)'
        BY <4>1, <1>1, <1>3 DEF Engaged
      <4> QED BY <4>2, <3>a DEF Engaged, Live
    <3> QED BY <3>1, <3>2
  <2>5. JobsSound'
    <3>1. \A d \in Clients : job[d] # Port!Idle => job'[d].k = job[d].k
      BY <1>8, <2>1, <2>2
    <3>2. \A d \in Clients : job'[d] # Port!Idle => job[d] # Port!Idle
      BY <1>8, <2>1
    <3> QED BY <3>1, <3>2, <2>1, <2>4 DEF MongoInv, JobsSound
  <2>6. Port!Writing' \subseteq Port!Writing
    BY <1>8, <2>1, <2>2 DEF Port!Writing, Port!Jobs
  <2> QED BY <1>2, <1>6, <2>5, <2>6 DEF MongoInv, OneWriter
<1> QED BY <1>7, <1>8

LEMMA JobsLive ==
  ASSUME MongoInv, NEW j \in Port!Jobs, j.at # "idle"
  PROVE  Live(j) /\ j # Port!Idle
BY DEF MongoInv, JobsSound, LateSound, Port!Jobs, Engaged, Port!Idle

LEMMA BusyClient ==
  ASSUME MongoInv, NEW c \in Clients, job[c].at # "idle"
  PROVE  job[c] # Port!Idle /\ Engaged(job[c]) /\ job[c] \in Port!Jobs
BY DEF MongoInv, JobsSound, Port!Jobs, Port!Idle

\* The call is told what the contract lets it be told.
LEMMA ReplyMaps ==
  ASSUME MongoInv, NEW c \in Clients, job[c].at # "idle",
         NEW what \in {"ok", "refused", "unknown"}, Port!Answers(c, what),
         UNCHANGED <<store, calls, taken>>,
         what = "ok" => job[c].at = "done", what = "refused" => job[c].at # "done"
  PROVE  Port!Contract!Next
<1>a. PICK x : x = job[c]
  OBVIOUS
<1>1. Engaged(x)
  BY <1>a, BusyClient
<1>2. /\ x.k \in 1 .. Len(calls) /\ told[x.k] = "none"
      /\ what = "ok" => x.k \in taken
      /\ what = "refused" => x.k \notin taken
  BY <1>1, <1>a DEF Engaged, Live
<1>3. x.k \in DOMAIN calls
  BY <1>2, LenProperties DEF MongoInv, MongoTypes
<1>4. told' = [told EXCEPT ![x.k] = what]
  BY <1>a DEF Port!Answers
<1>5. Port!Contract!Tell(x.k, what)
  BY <1>2, <1>4 DEF Port!Contract!Tell
<1> QED BY <1>3, <1>5 DEF Port!Contract!Next

\* A statement or a commit is the step of the contract.
LEMMA TakeMaps ==
  ASSUME MongoInv, NEW x \in Port!Jobs, x.at \in {"sent", "both"}, Port!Takes(x),
         TakesEffect(calls[x.k]),
         UNCHANGED <<calls, told>>
  PROVE  Port!Contract!Next
<1>1. Live(x) /\ x # Port!Idle
  BY JobsLive
<1>2. x.k \in 1 .. Len(calls) /\ x.k \notin taken
  BY <1>1 DEF Live
<1>3. x.k \in DOMAIN calls
  BY <1>2, LenProperties DEF MongoInv, MongoTypes
<1>4. told[x.k] # "refused"
  BY DEF MongoInv, JobsSound, LateSound, Port!Jobs, Engaged, Port!Idle
<1>5. Port!Contract!Take(x.k)
  BY <1>2, <1>4 DEF Port!Contract!Take, TakesEffect, Port!Takes
<1> QED BY <1>3, <1>5 DEF Port!Contract!Next

LEMMA StatementTakes ==
  ASSUME MongoInv, NEW m \in Mutation, Port!Statement(m)
  PROVE  TakesEffect(m) /\ IsStore(store') /\ store'.exists
<1>1. IsStore(store) /\ (~ store.exists => store = Port!Contract!Empty)
  BY DEF MongoInv, MongoTypes
<1>2. CASE m.kind = "initialize" /\ ~ store.exists /\ store' = [store EXCEPT !.exists = TRUE]
  <2>1. store' = [Port!Contract!Empty EXCEPT !.exists = TRUE]
    BY <1>1, <1>2
  <2>2. TakesEffect(m)
    BY <1>2, <2>1 DEF TakesEffect, Port!Contract!Accepted, Port!Contract!Effective
  <2>3. IsStore(store') /\ store'.exists
    BY <1>1, <1>2 DEF IsStore
  <2> QED BY <2>2, <2>3
<1>3. CASE m.kind = "rename" /\ Port!MatchesDatabase(store, m)
           /\ store' = [store EXCEPT !.database = m.database]
  <2>1. store' = [database |-> m.database, heads |-> store.heads, exists |-> TRUE]
    BY <1>1, <1>3 DEF IsStore, Port!MatchesDatabase
  <2>2. m.database \in DatabaseRecord /\ store.database.rev + 1 = m.database.rev
    BY <1>1, <1>3 DEF IsStore, Port!MatchesDatabase, Mutation, MutationFields, DatabaseRecord
  <2>3. TakesEffect(m)
    BY <1>3, <2>1, <2>2 DEF TakesEffect, Port!Contract!Accepted, Port!Contract!Effective,
       Port!Contract!StoreAccepts, Port!Contract!DatabaseCurrent, Port!Contract!StoreApplied,
       Port!Contract!HeadsAfter, Port!MatchesDatabase
  <2>4. IsStore(store') /\ store'.exists
    BY <1>1, <2>1, <2>2 DEF IsStore
  <2> QED BY <2>3, <2>4
<1>4. CASE m.kind = "update" /\ Port!MatchesVault(store, m)
           /\ store' = [store EXCEPT !.heads[m.vault] = m.head]
  <2>1. store.exists
    BY <1>1, <1>4 DEF Port!MatchesVault, Port!Contract!Empty
  <2>2. PICK h : h = [w \in DOMAIN store.heads |-> IF w = m.vault THEN m.head ELSE store.heads[w]]
    OBVIOUS
  <2>3. store' = [database |-> store.database, heads |-> h, exists |-> TRUE]
    <3>1. [store.heads EXCEPT ![m.vault] = m.head] = h
      BY <1>1, <1>4, <2>2 DEF IsStore, Port!IsHeads, Port!MatchesVault
    <3>2. store' = [store EXCEPT !.heads = h]
      BY <3>1, <1>4
    <3> QED BY <3>2, <2>1, <1>1 DEF IsStore
  <2>4. h = Port!Contract!WithHead(store.heads, m.vault, m.head)
    <3>1. DOMAIN store.heads \cup {m.vault} = DOMAIN store.heads
      BY <1>4 DEF Port!MatchesVault
    <3> QED BY <2>2, <3>1 DEF Port!Contract!WithHead
  <2>5. TakesEffect(m)
    BY <1>4, <2>1, <2>3, <2>4 DEF TakesEffect, Port!Contract!Accepted, Port!Contract!Effective,
       Port!Contract!StoreAccepts, Port!Contract!VaultCurrent, Port!Contract!StoreApplied,
       Port!Contract!HeadsAfter, Port!MatchesVault
  <2>6. IsStore(store') /\ store'.exists
    <3>1. h \in [DOMAIN store.heads -> Port!VaultHead] /\ DOMAIN h = DOMAIN store.heads
      BY <1>1, <2>2 DEF IsStore, Port!IsHeads, Mutation, MutationFields
    <3> QED BY <1>1, <2>3, <3>1 DEF IsStore, Port!IsHeads
  <2> QED BY <2>5, <2>6
<1> QED BY <1>2, <1>3, <1>4 DEF Port!Statement

LEMMA CommitTakes ==
  ASSUME MongoInv, NEW m \in Mutation, m.kind \in {"create", "delete"},
         Port!MatchesDatabase(store, m),
         Port!VaultAccepts(store, m), Port!Committed(m)
  PROVE  TakesEffect(m) /\ IsStore(store') /\ store'.exists
<1>1. IsStore(store) /\ store.exists
  BY DEF MongoInv, MongoTypes, Port!MatchesDatabase
<1>2. m.database \in DatabaseRecord /\ store.database.rev + 1 = m.database.rev
  BY <1>1 DEF IsStore, Port!MatchesDatabase, Mutation, MutationFields, DatabaseRecord
<1>a. PICK h : h = Port!HeadsAfter(store.heads, m)
  OBVIOUS
<1>3. store' = [database |-> m.database, heads |-> h, exists |-> TRUE]
  BY <1>1, <1>a DEF Port!Committed, IsStore
<1>4. Port!IsHeads(h, Vaults)
  <2>1. CASE m.kind = "create"
    <3>1. h = [w \in DOMAIN store.heads \cup {m.vault} |->
                 IF w = m.vault THEN m.head ELSE store.heads[w]]
      BY <2>1, <1>a DEF Port!HeadsAfter, Port!WithHead
    <3>2. m.vault \in Vaults /\ m.head \in Port!VaultHead
      BY <2>1 DEF Mutation, MutationFields
    <3> QED BY <3>1, <3>2, <1>1 DEF IsStore, Port!IsHeads
  <2>2. CASE m.kind = "delete"
    <3>1. h = [w \in DOMAIN store.heads \ {m.vault} |-> store.heads[w]]
      BY <2>2, <1>a DEF Port!HeadsAfter, Port!WithoutHead
    <3> QED BY <3>1, <1>1 DEF IsStore, Port!IsHeads
  <2> QED BY <2>1, <2>2
<1>5. h = Port!Contract!HeadsAfter(store.heads, m)
  BY <1>a DEF Port!HeadsAfter, Port!WithHead, Port!WithoutHead, Port!Contract!HeadsAfter,
              Port!Contract!WithHead,
     Port!Contract!WithoutHead
<1>6. Port!Contract!StoreAccepts(store, m)
  BY <1>2 DEF Port!Contract!StoreAccepts, Port!Contract!DatabaseCurrent,
              Port!Contract!VaultCurrent,
     Port!VaultAccepts, Port!MatchesVault
<1>7. TakesEffect(m)
  BY <1>1, <1>3, <1>5, <1>6 DEF TakesEffect, Port!Contract!Accepted, Port!Contract!Effective,
     Port!Contract!StoreApplied
<1>8. IsStore(store') /\ store'.exists
  BY <1>2, <1>3, <1>4 DEF IsStore
<1> QED BY <1>7, <1>8

-----------------------------------------------------------------------------
\* Whoever holds the catalog is not disturbed by a statement that finds it free,
\* or that is of a vault nobody writes.
LEMMA StatementUndisturbed ==
  ASSUME MongoInv, NEW x \in Port!Jobs, x.at = "sent", Port!Unlocked(x),
         Port!Statement(calls[x.k])
  PROVE  Undisturbed(x)
<1>a. PICK m : m = calls[x.k]
  OBVIOUS
<1> SUFFICES ASSUME NEW j \in Port!Jobs \ {x}, j.at \in Holding
             PROVE  /\ Port!MatchesDatabase(store', calls[j.k])
                    /\ j.at = "both" => Port!VaultAccepts(store', calls[j.k])
  BY DEF Undisturbed, Holding
<1>1. j \in Port!Writing /\ j.at # "idle" /\ ~ Port!CatalogFree(x)
  BY DEF Port!Writing, Holding, Port!CatalogFree
<1>2. Live(j) /\ Port!MatchesDatabase(store, calls[j.k])
      /\ (j.at = "both" => Port!VaultAccepts(store, calls[j.k]))
  BY <1>1, JobsLive DEF Live
<1>3. m.kind = "update" /\ Port!VaultFree(m.vault, x)
  BY <1>1, <1>a DEF Port!Unlocked
<1>4. Port!MatchesVault(store, m) /\ store' = [store EXCEPT !.heads[m.vault] = m.head]
  BY <1>3, <1>a DEF Port!Statement
<1>5. IsStore(store)
  BY DEF MongoInv, MongoTypes
<1>6. /\ store'.database = store.database /\ store'.exists = store.exists
      /\ DOMAIN store'.heads = DOMAIN store.heads
      /\ \A v \in DOMAIN store.heads : v # m.vault => store'.heads[v] = store.heads[v]
  BY <1>4, <1>5 DEF IsStore, Port!IsHeads
<1>7. Port!MatchesDatabase(store', calls[j.k])
  BY <1>2, <1>6 DEF Port!MatchesDatabase
<1>8. ASSUME j.at = "both" PROVE Port!VaultAccepts(store', calls[j.k])
  <2>1. calls[j.k].vault # m.vault /\ Port!VaultAccepts(store, calls[j.k])
    BY <1>1, <1>2, <1>3, <1>8 DEF Port!VaultFree
  <2> QED BY <2>1, <1>6 DEF Port!VaultAccepts, Port!MatchesVault
<1> QED BY <1>7, <1>8

LEMMA CommitUndisturbed ==
  ASSUME MongoInv, NEW x \in Port!Jobs, x.at = "both"
  PROVE  Undisturbed(x)
<1> SUFFICES ASSUME NEW j \in Port!Jobs \ {x} PROVE j.at \notin Holding
  BY DEF Undisturbed, Holding
<1> QED BY DEF MongoInv, OneWriter, Port!Writing, Holding

\* A late command that never arrives.
LEMMA DropStep ==
  ASSUME MongoInv, UNCHANGED <<store, calls, taken, told, job, view>>, late' \subseteq late
  PROVE  MongoInv'
<1>1. \A j : (Live(j) => Live(j)') /\ (Engaged(j) => Engaged(j)')
  BY DEF Engaged, Live, Port!MatchesDatabase, Port!VaultAccepts, Port!MatchesVault
<1>2. MongoTypes' /\ LateSound'
  BY <1>1 DEF MongoInv, MongoTypes, LateSound
<1>3. ASSUME NEW d \in Clients, job[d] # Port!Idle PROVE Engaged(job[d])'
  <2>a. PICK y : y = job[d]
    OBVIOUS
  <2>1. Engaged(y)'
    BY <2>a, <1>1, <1>3 DEF MongoInv, JobsSound
  <2> QED BY <2>1, <2>a DEF Engaged, Live
<1>4. JobsSound'
  BY <1>3 DEF MongoInv, JobsSound
<1>5. OneWriter'
  BY DEF MongoInv, OneWriter, Port!Writing, Port!Jobs
<1> QED BY <1>2, <1>4, <1>5 DEF MongoInv

-----------------------------------------------------------------------------
(* The actions: the invariant is kept, and the contract makes its step or  *)
(* stutters.                                                               *)

ContractRests == UNCHANGED Port!contract
Follows == Port!Contract!Next \/ ContractRests

LEMMA ConnectionActions ==
  ASSUME MongoInv, NEW c \in Clients,
         Port!List(c) \/ Port!CreateCollection(c) \/ Port!CreateIndexes(c) \/ Port!Read(c)
  PROVE  MongoInv' /\ Follows
<1>1. UNCHANGED <<Port!contract, job, late>>
      /\ (view' = view \/ view' = [view EXCEPT ![c] = store])
  BY DEF Port!List, Port!CreateCollection, Port!CreateIndexes, Port!Read
<1> QED BY <1>1, ConnectionStep DEF Follows, ContractRests

\* The call of c is at `at` from now on.
LEMMA CallMoves ==
  ASSUME MongoInv, NEW c \in Clients, job[c].at # "idle", NEW at, Port!Moves(c, at),
         UNCHANGED <<store, calls, taken, told, late, view>>,
         \/ at = "sent" /\ job[c].at = "hello"
         \/ at = "begin" /\ job[c].at \in {"catalog", "both"}
         \/ at = "both" /\ job[c].at = "catalog" /\ Port!VaultAccepts(store, calls[job[c].k])
  PROVE  MongoInv' /\ Follows
<1>a. PICK x : x = job[c]
  OBVIOUS
<1>b. PICK n : n = [x EXCEPT !.at = at]
  OBVIOUS
<1>1. Engaged(x) /\ x # Port!Idle /\ x \in Port!Jobs
  BY <1>a, BusyClient
<1>2. n = [at |-> at, k |-> x.k, seen |-> x.seen] /\ n # Port!Idle
  BY <1>1, <1>b DEF Engaged, Live, Port!Idle
<1>3. Engaged(n)
  BY <1>1, <1>2, <1>a DEF Engaged, Live, Holding
<1>4. n.at \in Holding => Port!Writing \subseteq {x}
  BY <1>1, <1>2, <1>a DEF MongoInv, OneWriter, Port!Writing, Holding
<1>5. job' = [job EXCEPT ![c] = n]
  BY <1>a, <1>b DEF Port!Moves
<1>6. MongoInv'
  BY <1>1, <1>2, <1>3, <1>4, <1>5, <1>a, MoveStep
<1> QED BY <1>6 DEF Follows, ContractRests, Port!contract

LEMMA HelloStep == ASSUME MongoInv, NEW c \in Clients, Port!Hello(c) PROVE MongoInv' /\ Follows
<1>1. job[c].at = "hello" /\ UNCHANGED <<store, view, late, calls, taken>>
  BY DEF Port!Hello
<1>2. CASE Port!Moves(c, "sent") /\ told' = told
  BY <1>1, <1>2, CallMoves
<1>3. ASSUME NEW what \in {"refused", "unknown"}, Port!Answers(c, what)
      PROVE  MongoInv' /\ Follows
  BY <1>1, <1>3, BusyClient, ReplyStep, ReplyMaps DEF Follows
<1> QED BY <1>2, <1>3 DEF Port!Hello

LEMMA WriteVaultStep ==
  ASSUME MongoInv, NEW c \in Clients, Port!WriteVault(c)
  PROVE  MongoInv' /\ Follows
<1>a. PICK x : x = job[c]
  OBVIOUS
<1>b. PICK m : m = calls[x.k]
  OBVIOUS
<1>1. x.at = "catalog" /\ UNCHANGED <<store, view, late, calls, taken>>
  BY <1>a DEF Port!WriteVault
<1>2. CASE Port!Moves(c, "begin") /\ told' = told
  BY <1>1, <1>2, <1>a, CallMoves
<1>3. CASE Port!Moves(c, "both") /\ told' = told /\ ~ Port!Changed(x.seen, m.vault)
           /\ Port!VaultAccepts(x.seen, m)
  <2>1. Port!VaultAccepts(store, m)
    BY <1>3 DEF Port!Changed, Port!VaultAccepts, Port!MatchesVault
  <2>2. Port!VaultAccepts(store, calls[job[c].k])
    BY <2>1, <1>a, <1>b
  <2> QED BY <1>1, <1>3, <2>2, <1>a, CallMoves
<1>4. CASE Port!Answers(c, "refused")
  BY <1>1, <1>4, <1>a, BusyClient, ReplyStep, ReplyMaps DEF Follows
<1> QED BY <1>2, <1>3, <1>4, <1>a, <1>b DEF Port!WriteVault

LEMMA WriteCatalogStep ==
  ASSUME MongoInv, NEW c \in Clients, Port!WriteCatalog(c) PROVE MongoInv' /\ Follows
<1>a. PICK x : x = job[c]
  OBVIOUS
<1>b. PICK n : n = [x EXCEPT !.at = "catalog", !.seen = store]
  OBVIOUS
<1>1. x.at = "begin" /\ Port!CatalogFree(x) /\ UNCHANGED <<store, view, late, calls, taken>>
  BY <1>a DEF Port!WriteCatalog
<1>2. Engaged(x) /\ x # Port!Idle
  BY <1>1, <1>a, BusyClient
<1>3. CASE Port!MatchesDatabase(store, calls[x.k]) /\ job' = [job EXCEPT ![c] = n] /\ told' = told
  <2>1. n = [at |-> "catalog", k |-> x.k, seen |-> store] /\ n # Port!Idle
    BY <1>2, <1>b DEF Engaged, Live, Port!Idle
  <2>2. Engaged(n)
    BY <1>1, <1>2, <1>3, <2>1 DEF Engaged, Live, Holding
  <2>3. Port!Writing \subseteq {x}
    BY <1>1 DEF Port!CatalogFree
  <2>4. MongoInv'
    BY <1>1, <1>2, <1>3, <1>a, <2>1, <2>2, <2>3, MoveStep
  <2> QED BY <2>4, <1>1, <1>3 DEF Follows, ContractRests, Port!contract
<1>4. CASE Port!Answers(c, "refused")
  BY <1>1, <1>4, <1>a, BusyClient, ReplyStep, ReplyMaps DEF Follows
<1> QED BY <1>3, <1>4, <1>a, <1>b DEF Port!WriteCatalog

LEMMA ReplyActions ==
  ASSUME MongoInv, NEW c \in Clients, Port!Return(c) \/ Port!Lose(c) \/ Port!Close(c)
  PROVE  MongoInv' /\ Follows
<1>1. CASE Port!Return(c)
  BY <1>1, BusyClient, ReplyStep, ReplyMaps DEF Port!Return, Follows
<1>2. CASE Port!Lose(c)
  BY <1>2, BusyClient, ReplyStep, ReplyMaps DEF Port!Lose, Follows
<1>3. CASE Port!Close(c)
  <2>1. CASE job[c] = Port!Idle
    BY <1>3, <2>1, ConnectionStep DEF Port!Close, Follows, ContractRests, Port!contract
  <2>2. CASE job[c] # Port!Idle
    <3>1. job[c].at # "idle"
      BY <2>2 DEF MongoInv, JobsSound, Engaged
    <3> QED BY <1>3, <2>2, <3>1, ReplyStep, ReplyMaps DEF Port!Close, Follows
  <2> QED BY <2>1, <2>2
<1> QED BY <1>1, <1>2, <1>3

LEMMA AbortStep == ASSUME MongoInv, NEW c \in Clients, Port!Abort(c) PROVE MongoInv' /\ Follows
BY CallMoves DEF Port!Abort

\* The command of x, whose client still waits or has given up, is executed.
LEMMA CommandTaken ==
  ASSUME MongoInv, NEW x \in Port!Jobs, Port!Takes(x), UNCHANGED <<calls, told, view>>,
         \/ x.at = "sent" /\ Port!Unlocked(x) /\ Port!Statement(calls[x.k])
         \/ x.at = "both" /\ Port!Committed(calls[x.k]),
         \/ late' = late \ {x} /\ job' = job /\ x \in late
         \/ /\ late' = late
            /\ \E c \in Clients : job[c] = x /\ job' = [job EXCEPT ![c].at = "done"]
  PROVE  MongoInv' /\ Follows
<1>a. PICK m : m = calls[x.k]
  OBVIOUS
<1>1. Live(x) /\ x # Port!Idle /\ x.at \in {"sent", "both"} /\ x.at # "done"
  BY JobsLive
<1>2. m \in Mutation
  BY <1>1, <1>a DEF Live, MongoInv, MongoTypes
<1>3. TakesEffect(m) /\ IsStore(store') /\ store'.exists /\ Undisturbed(x)
  <2>1. CASE x.at = "sent" /\ Port!Unlocked(x) /\ Port!Statement(calls[x.k])
    BY <2>1, <1>2, <1>a, StatementTakes, StatementUndisturbed
  <2>2. CASE x.at = "both" /\ Port!Committed(calls[x.k])
    <3>1. /\ m.kind \in {"create", "delete"} /\ Port!MatchesDatabase(store, m)
          /\ Port!VaultAccepts(store, m) /\ Port!Committed(m)
      BY <1>1, <1>a, <2>2 DEF Live, Holding
    <3> QED BY <3>1, <2>2, <1>2, CommitTakes, CommitUndisturbed
  <2> QED BY <2>1, <2>2
<1>4. TakesEffect(calls[x.k])
  BY <1>3, <1>a
<1>5. Port!Contract!Next
  BY <1>1, <1>4, TakeMaps
<1>6. MongoInv'
  BY <1>1, <1>3, TakeStep
<1> QED BY <1>5, <1>6 DEF Follows

LEMMA ExecuteStep ==
  ASSUME MongoInv, NEW c \in Clients, Port!Execute(c)
  PROVE  MongoInv' /\ Follows
<1>a. PICK x : x = job[c]
  OBVIOUS
<1>1. /\ x.at = "sent" /\ Port!Unlocked(x) /\ UNCHANGED <<view, late, calls>> /\ x \in Port!Jobs
  BY <1>a DEF Port!Execute, Port!Jobs
<1>2. CASE Port!Statement(calls[x.k]) /\ Port!Takes(x) /\ Port!Moves(c, "done") /\ told' = told
  BY <1>1, <1>2, <1>a, CommandTaken DEF Port!Moves
<1>3. CASE Port!Answers(c, "refused") /\ UNCHANGED <<store, taken>>
  BY <1>1, <1>3, <1>a, BusyClient, ReplyStep, ReplyMaps DEF Follows
<1> QED BY <1>2, <1>3, <1>a DEF Port!Execute

LEMMA CommitStep ==
  ASSUME MongoInv, NEW c \in Clients, Port!Commit(c)
  PROVE  MongoInv' /\ Follows
<1>a. PICK x : x = job[c]
  OBVIOUS
<1>1. /\ x.at = "both" /\ Port!Committed(calls[x.k]) /\ Port!Takes(x) /\ Port!Moves(c, "done")
      /\ UNCHANGED <<view, late, calls, told>> /\ x \in Port!Jobs
  BY <1>a DEF Port!Commit, Port!Jobs
<1> QED BY <1>1, <1>a, CommandTaken DEF Port!Moves

LEMMA ArriveStep == ASSUME MongoInv, NEW j \in late, Port!Arrive(j) PROVE MongoInv' /\ Follows
<1>1. j \in Port!Jobs /\ late' = late \ {j} /\ UNCHANGED <<view, job, calls, told>>
  BY DEF Port!Arrive, Port!Jobs
<1>2. CASE UNCHANGED <<store, taken>>
  BY <1>1, <1>2, DropStep DEF Follows, ContractRests, Port!contract
<1>3. CASE j.at = "sent" /\ Port!Unlocked(j) /\ Port!Statement(calls[j.k]) /\ Port!Takes(j)
  BY <1>1, <1>3, CommandTaken
<1>4. CASE j.at = "both" /\ Port!Committed(calls[j.k]) /\ Port!Takes(j)
  BY <1>1, <1>4, CommandTaken
<1> QED BY <1>2, <1>3, <1>4 DEF Port!Arrive

LEMMA CallMaps ==
  ASSUME MongoInv, NEW c \in Clients, NEW m \in Port!Mutations(view[c]), Port!Call(c, m)
  PROVE  Follows
<1>1. m \in Mutation /\ calls \in Seq(Mutation)
  BY MutationsTyped DEF MongoInv, MongoTypes
<1>2. calls' = Append(calls, m) /\ told' = Append(told, "none") /\ UNCHANGED <<store, taken>>
  BY DEF Port!Call
<1>a. PICK n : n = Len(calls)
  OBVIOUS
<1>3. n \in Nat /\ calls' \in Seq(Mutation) /\ Len(calls') = n + 1
      /\ \A i \in 1 .. n : calls'[i] = calls[i]
  BY <1>1, <1>2, <1>a, AppendProperties, LenProperties
<1>4. SubSeq(calls', 1, n) = calls
  <2>1. /\ SubSeq(calls', 1, n) \in Seq(Mutation) /\ Len(SubSeq(calls', 1, n)) = n
        /\ \A i \in 1 .. n : SubSeq(calls', 1, n)[i] = calls'[i]
    BY <1>3, SubSeqProperties
  <2> QED BY <2>1, <1>1, <1>3, <1>a, SeqEqual
<1>5. Port!Contract!Ask
  BY <1>2, <1>3, <1>4, <1>a DEF Port!Contract!Ask
<1> QED BY <1>5 DEF Follows, Port!Contract!Next

LEMMA StutterStep == ASSUME MongoInv, UNCHANGED Port!vars PROVE MongoInv' /\ Follows
BY DropStep DEF Port!vars, Follows, ContractRests, Port!contract

LEMMA MongoStep == ASSUME MongoInv, [Port!Next]_(Port!vars) PROVE MongoInv' /\ Follows
<1>1. ASSUME NEW c \in Clients, NEW m \in Port!Mutations(view[c]), Port!Call(c, m)
      PROVE  MongoInv' /\ Follows
  BY <1>1, CallStep, CallMaps
<1>2. ASSUME NEW c \in Clients,
             \/ Port!List(c) \/ Port!CreateCollection(c) \/ Port!CreateIndexes(c) \/ Port!Read(c)
             \/ Port!Hello(c) \/ Port!Execute(c) \/ Port!WriteCatalog(c) \/ Port!WriteVault(c)
             \/ Port!Commit(c) \/ Port!Abort(c) \/ Port!Return(c) \/ Port!Lose(c) \/ Port!Close(c)
      PROVE  MongoInv' /\ Follows
  BY <1>2, ConnectionActions, HelloStep, ExecuteStep, WriteCatalogStep, WriteVaultStep,
     CommitStep, AbortStep, ReplyActions
<1>3. ASSUME NEW j \in late, Port!Arrive(j) PROVE MongoInv' /\ Follows
  BY <1>3, ArriveStep
<1>4. CASE UNCHANGED Port!vars
  BY <1>4, StutterStep
<1> QED BY <1>1, <1>2, <1>3, <1>4 DEF Port!Next

\* Whatever replies are lost, whichever commands arrive late and transactions run
\* again, each call is an atomic one of AtomicStore, at most once and never after
\* it was refused.
THEOREM EachCallIsAtomic == Port!Spec => EveryCallIsAtomic
<1>1. Port!Init => MongoInv /\ Port!Contract!Init
  BY MongoInvInit DEF Port!Init
<1>2. MongoInv /\ [Port!Next]_(Port!vars) => MongoInv' /\ [Port!Contract!Next]_<<store, calls,
          taken, told>>
  BY MongoStep DEF Follows, ContractRests, Port!contract
<1> QED BY <1>1, <1>2, PTL DEF Port!Spec, EveryCallIsAtomic, Port!Implements, Port!Contract!Spec

-----------------------------------------------------------------------------
(* SelfUpdate: updates beside others.                                       *)

CONSTANTS Cores, Betas, Stable, Layouts, MaxStarts
VARIABLES tag, package, updates, reports, starts

Releases == [core : Cores, beta : Betas]

Update == INSTANCE SelfUpdate WITH disk <- package, proc <- updates, Versions <- Releases

\* An update only replaces an older package.
UpdatesGoForward == Update!UpdatesGoForward

Packages == Releases \cup {Update!Nothing}
Updating == [pc : {"query", "decide", "install", "verify", "failed"}, running : Releases,
             latest : Packages, check : BOOLEAN, layout : Layouts, alone : BOOLEAN]
Outcomes == [action : {"check", "noop", "refused", "updated", "failed"}, running : Releases,
             latest : Packages, package : Packages, alone : BOOLEAN]

UpdateTypes == /\ tag \in Releases /\ package \in Packages
               /\ updates \in [Procs -> {Update!Idle} \cup Updating]
               /\ reports \subseteq Outcomes /\ starts \in Nat

\* A command installs only a newer version, and until another command installs, the
\* package is the one it found, the one it asked for, or none.
Ahead(c) == c.pc \in {"install", "verify", "failed"} => Update!Older(c.running, c.latest)
Found(c, there) == c.alone => IF c.pc \in {"verify", "failed"}
                                THEN there \in {c.running, c.latest, Update!Nothing}
                                ELSE there = c.running

UpdateInv ==
  /\ UpdateTypes
  /\ \A p \in Procs : updates[p] # Update!Idle => Ahead(updates[p]) /\ Found(updates[p], package)
  /\ Update!UpdatesGoForward

\* A version is not older than itself, nor two versions each than the other.
LEMMA OlderIsAnOrder ==
  ASSUME Update!ConstantsFit
  PROVE  /\ \A a \in Packages : ~ Update!Older(a, a)
         /\ \A a, b \in Packages : Update!Older(a, b) => ~ Update!Older(b, a)
<1> DEFINE V == [core : Nat, beta : Nat]
<1>1. Packages \subseteq V
  BY DEF Update!ConstantsFit, Packages, Update!Nothing
<1>2. \A a \in V : ~ Update!Older(a, a)
  BY DEF Update!Older
<1>3. \A a, b \in V : Update!Older(a, b) => ~ Update!Older(b, a)
  BY DEF Update!Older
<1> HIDE DEF V
<1> QED BY <1>1, <1>2, <1>3


LEMMA UpdateInit == Update!ConstantsFit /\ Update!Init => UpdateInv
BY DEF Update!ConstantsFit, Update!Init, UpdateInv, UpdateTypes, Packages,
       Update!UpdatesGoForward

\* A step that writes one report, on its command's way to Idle.
LEMMA ReportKeeps ==
  ASSUME Update!ConstantsFit, UpdateInv, NEW p \in Procs, NEW action, updates[p] # Update!Idle,
         action \in {"check", "noop", "refused", "updated", "failed"},
         action # "updated" => action = "failed" \/ ~(updates[p].pc \in {"verify", "failed"}),
         action = "updated" => updates[p].pc = "verify" /\ package = updates[p].latest,
         Update!Reports(p, action, package), UNCHANGED <<tag, package, starts>>
  PROVE  UpdateInv'
<1> USE DEF UpdateInv
<1>1. PICK c \in Updating : c = updates[p]
  BY DEF UpdateTypes
<1>2. PICK r : r = [action |-> action, running |-> c.running, latest |-> c.latest,
                    package |-> package, alone |-> c.alone]
  OBVIOUS
<1>3. r \in Outcomes /\ reports' = reports \cup {r}
  BY <1>1, <1>2 DEF Outcomes, Updating, UpdateTypes, Update!Reports
<1>4. updates' = [updates EXCEPT ![p] = Update!Idle]
  BY DEF Update!Reports, Update!Becomes
<1>5. UpdateTypes'
  BY <1>3, <1>4 DEF UpdateTypes
<1>6. \A q \in Procs : updates'[q] # Update!Idle => Ahead(updates'[q])
          /\ Found(updates'[q], package')
  <2> SUFFICES ASSUME NEW q \in Procs, updates'[q] # Update!Idle
               PROVE  Ahead(updates'[q]) /\ Found(updates'[q], package')
    OBVIOUS
  <2>1. updates'[q] = updates[q] /\ updates[q] # Update!Idle
    BY <1>4 DEF UpdateTypes
  <2> QED BY <2>1 DEF Found
<1>7. ASSUME r.alone
      PROVE  /\ r.package # Update!Nothing => ~ Update!Older(r.package, r.running)
             /\ r.action \in {"check", "noop", "refused"} => r.package = r.running
             /\ r.action = "updated" => r.package = r.latest /\ Update!Older(r.running, r.package)
  <2>1. r.alone = c.alone /\ r.package = package /\ r.running = c.running /\ r.latest = c.latest
        /\ r.action = action
    BY <1>2
  <2>2. Ahead(c) /\ Found(c, package)
    BY <1>1
  <2>3. c.running \in Packages /\ c.latest \in Packages
    BY DEF Updating, Packages
  <2>4. CASE c.pc \in {"verify", "failed"}
    BY <2>1, <2>2, <2>3, <2>4, <1>1, <1>7, OlderIsAnOrder DEF Ahead, Found
  <2>5. CASE c.pc \notin {"verify", "failed"}
    BY <2>1, <2>2, <2>3, <2>5, <1>1, <1>7, OlderIsAnOrder DEF Found
  <2> QED BY <2>4, <2>5
<1>8. Update!UpdatesGoForward'
  BY <1>3, <1>7 DEF Update!UpdatesGoForward
<1> QED BY <1>5, <1>6, <1>8 DEF Found

\* A step that only moves one command on, or starts it.
LEMMA MoveKeepsUpdates ==
  ASSUME UpdateInv, NEW p \in Procs, NEW c \in Updating, Update!Becomes(p, c), Ahead(c),
         Found(c, package),
         starts' \in Nat, UNCHANGED <<tag, package, reports>>
  PROVE  UpdateInv'
<1> USE DEF UpdateInv
<1>1. updates' = [updates EXCEPT ![p] = c]
  BY DEF Update!Becomes
<1>2. UpdateTypes'
  BY <1>1 DEF UpdateTypes
<1>3. \A q \in Procs : updates'[q] # Update!Idle => Ahead(updates'[q])
          /\ Found(updates'[q], package')
  <2> SUFFICES ASSUME NEW q \in Procs, updates'[q] # Update!Idle
               PROVE  Ahead(updates'[q]) /\ Found(updates'[q], package')
    OBVIOUS
  <2>1. CASE q = p
    BY <1>1, <2>1 DEF UpdateTypes, Found
  <2>2. CASE q # p
    BY <1>1, <2>2 DEF UpdateTypes, Found
  <2> QED BY <2>1, <2>2
<1> QED BY <1>2, <1>3 DEF Update!UpdatesGoForward, Found

LEMMA UpdateStarts ==
  ASSUME UpdateInv, NEW p \in Procs, NEW check \in BOOLEAN, NEW l \in Layouts,
         Update!Start(p, check, l)
  PROVE  UpdateInv'
<1>1. package \in Releases /\ starts \in Nat
  BY DEF Update!Start, UpdateInv, UpdateTypes, Packages
<1>2. PICK c : c = [pc |-> "query", running |-> package, latest |-> Update!Nothing,
               check |-> check,
                    layout |-> l, alone |-> TRUE]
  OBVIOUS
<1>3. c \in Updating
  BY <1>1, <1>2 DEF Updating, Packages
<1>4. Ahead(c) /\ Found(c, package)
  BY <1>2 DEF Ahead, Found
<1> QED BY <1>1, <1>2, <1>3, <1>4, MoveKeepsUpdates DEF Update!Start

LEMMA QueryKeeps ==
  ASSUME Update!ConstantsFit, UpdateInv, NEW p \in Procs, Update!Query(p)
  PROVE  UpdateInv'
<1>1. updates[p] # Update!Idle
  BY DEF Update!Query, Update!Idle
<1>2. PICK c \in Updating : c = updates[p]
  BY <1>1 DEF UpdateInv, UpdateTypes
<1>3. CASE Update!Becomes(p, [updates[p] EXCEPT !.pc = "decide", !.latest = tag])
               /\ UNCHANGED reports
  <2>1. PICK d : d = [c EXCEPT !.pc = "decide", !.latest = tag]
    OBVIOUS
  <2>2. d \in Updating
    BY <2>1 DEF Updating, UpdateInv, UpdateTypes, Packages
  <2>3. d.pc = "decide" /\ d.running = c.running /\ d.alone = c.alone
    BY <2>1 DEF Updating
  <2>4. c.pc = "query" /\ Found(c, package)
    BY <1>1, <1>2 DEF Update!Query, UpdateInv
  <2>5. Ahead(d) /\ Found(d, package)
    BY <2>3, <2>4 DEF Ahead, Found
  <2> QED BY <1>2, <1>3, <2>1, <2>2, <2>5, MoveKeepsUpdates DEF Update!Query, UpdateInv,
                                                                UpdateTypes
<1>4. CASE Update!Reports(p, "failed", package)
  BY <1>1, <1>4, ReportKeeps DEF Update!Query
<1> QED BY <1>3, <1>4 DEF Update!Query

LEMMA DecideKeeps ==
  ASSUME Update!ConstantsFit, UpdateInv, NEW p \in Procs, Update!Decide(p)
  PROVE  UpdateInv'
<1>1. updates[p] # Update!Idle /\ updates[p].pc = "decide"
  BY DEF Update!Decide, Update!Idle
<1>2. PICK c \in Updating : c = updates[p]
  BY <1>1 DEF UpdateInv, UpdateTypes
<1>3. CASE /\ Update!Older(c.running, c.latest)
           /\ Update!Becomes(p, [c EXCEPT !.pc = "install"]) /\ UNCHANGED reports
  <2>1. PICK d : d = [c EXCEPT !.pc = "install"]
    OBVIOUS
  <2>2. d \in Updating /\ d.pc = "install" /\ d.running = c.running /\ d.alone = c.alone
        /\ d.latest = c.latest
    BY <2>1 DEF Updating
  <2>3. Found(c, package)
    BY <1>1, <1>2 DEF UpdateInv
  <2>4. Ahead(d) /\ Found(d, package)
    BY <1>1, <1>2, <1>3, <2>2, <2>3 DEF Ahead, Found
  <2> QED BY <1>3, <2>1, <2>2, <2>4, MoveKeepsUpdates DEF Update!Decide, UpdateInv, UpdateTypes
<1>4. CASE \E action \in {"check", "noop", "refused"} : Update!Reports(p, action, package)
  BY <1>1, <1>4, ReportKeeps DEF Update!Decide
<1> QED BY <1>2, <1>3, <1>4 DEF Update!Decide, Update!UpdateAvailable

LEMMA InstallKeeps ==
  ASSUME UpdateInv, NEW p \in Procs, Update!Install(p)
  PROVE  UpdateInv'
<1>1. updates[p] # Update!Idle /\ updates[p].pc = "install"
  BY DEF Update!Install, Update!Idle
<1>2. PICK c \in Updating : c = updates[p]
  BY <1>1 DEF UpdateInv, UpdateTypes
<1>3. Update!Older(c.running, c.latest) /\ (c.alone => package = c.running)
  BY <1>1, <1>2 DEF UpdateInv, Ahead, Found
<1>4. PICK pc \in {"verify", "failed"} :
        updates' = [q \in Procs |-> IF updates[q] = Update!Idle THEN Update!Idle
                      ELSE IF q = p THEN [updates[p] EXCEPT !.pc = pc]
                      ELSE [updates[q] EXCEPT !.alone = @ /\ package' = package]]
  BY DEF Update!Install
<1>5. package' \in {package, c.latest, Update!Nothing} /\ package' \in Packages
  BY <1>2 DEF Update!Install, UpdateInv, UpdateTypes, Updating, Packages
<1>6. ASSUME NEW q \in Procs, updates[q] # Update!Idle
      PROVE  updates'[q] \in Updating /\ Ahead(updates'[q]) /\ Found(updates'[q], package')
  <2>1. PICK b \in Updating : b = updates[q]
    BY <1>6 DEF UpdateInv, UpdateTypes
  <2>2. CASE q = p
    <3>1. PICK d : d = [c EXCEPT !.pc = pc]
      OBVIOUS
    <3>2. d = updates'[q]
      BY <1>1, <1>2, <1>4, <2>2, <3>1
    <3>3. d \in Updating /\ d.pc = pc /\ d.running = c.running /\ d.alone = c.alone
          /\ d.latest = c.latest
      BY <3>1 DEF Updating
    <3>4. d.alone => package' \in {d.running, d.latest, Update!Nothing}
      BY <1>3, <1>5, <3>3
    <3> QED BY <1>3, <3>2, <3>3, <3>4 DEF Ahead, Found
  <2>3. CASE q # p
    <3>1. PICK d : d = [b EXCEPT !.alone = @ /\ package' = package]
      OBVIOUS
    <3>2. d = updates'[q]
      BY <1>4, <1>6, <2>1, <2>3, <3>1
    <3>3. d \in Updating /\ d.pc = b.pc /\ d.running = b.running /\ d.latest = b.latest
          /\ (d.alone <=> b.alone /\ package' = package)
      BY <3>1 DEF Updating
    <3>4. Ahead(b) /\ Found(b, package)
      BY <1>6, <2>1 DEF UpdateInv
    <3>5. Ahead(d) /\ (d.alone => package' = package /\ b.alone)
      BY <3>3, <3>4 DEF Ahead
    <3> QED BY <3>2, <3>3, <3>4, <3>5 DEF Found
  <2> QED BY <2>2, <2>3
<1>7. \A q \in Procs : updates[q] = Update!Idle => updates'[q] = Update!Idle
  BY <1>4
<1>8. UpdateTypes'
  <2>1. updates' \in [Procs -> {Update!Idle} \cup Updating]
    <3>1. DOMAIN updates' = Procs /\ \A q \in Procs : updates'[q] \in {Update!Idle} \cup Updating
      BY <1>4, <1>6, <1>7
    <3> QED BY <1>4, <3>1
  <2> QED BY <1>5, <2>1 DEF Update!Install, UpdateInv, UpdateTypes
<1> QED BY <1>6, <1>7, <1>8 DEF Update!Install, UpdateInv, Update!UpdatesGoForward, Found

LEMMA VerifyKeeps ==
  ASSUME Update!ConstantsFit, UpdateInv, NEW p \in Procs, Update!Verify(p)
  PROVE  UpdateInv'
<1>1. updates[p] # Update!Idle
  BY DEF Update!Verify, Update!Idle
<1>2. CASE updates[p].pc = "verify" /\ package = updates[p].latest
               /\ Update!Reports(p, "updated", package)
  BY <1>1, <1>2, ReportKeeps DEF Update!Verify
<1>3. CASE Update!Reports(p, "failed", package)
  BY <1>1, <1>3, ReportKeeps DEF Update!Verify
<1> QED BY <1>2, <1>3 DEF Update!Verify

LEMMA UpdateStep == Update!ConstantsFit /\ UpdateInv /\ [Update!Next]_(Update!vars) => UpdateInv'
<1> SUFFICES ASSUME Update!ConstantsFit, UpdateInv, [Update!Next]_(Update!vars) PROVE UpdateInv'
  OBVIOUS
<1>1. CASE \E p \in Procs : \E check \in BOOLEAN, l \in Layouts : Update!Start(p, check, l)
  BY <1>1, UpdateStarts
<1>2. CASE \E p \in Procs : Update!Query(p)
  BY <1>2, QueryKeeps
<1>3. CASE \E p \in Procs : Update!Decide(p)
  BY <1>3, DecideKeeps
<1>4. CASE \E p \in Procs : Update!Install(p)
  BY <1>4, InstallKeeps
<1>5. CASE \E p \in Procs : Update!Verify(p)
  BY <1>5, VerifyKeeps
<1>6. CASE \E v \in Releases : Update!MoveTag(v)
  BY <1>6 DEF Update!MoveTag, UpdateInv, UpdateTypes, Update!UpdatesGoForward, Found
<1>7. CASE UNCHANGED Update!vars
  BY <1>7 DEF Update!vars, UpdateInv, UpdateTypes, Update!UpdatesGoForward, Found
<1> QED BY <1>1, <1>2, <1>3, <1>4, <1>5, <1>6, <1>7 DEF Update!Next

\* Whatever is tagged, taken back or installed meanwhile, a command that no other
\* update overlaps leaves no older there, and what it calls an update is newer.
THEOREM OnlyForward == ASSUME Update!ConstantsFit PROVE Update!Spec => []UpdatesGoForward
<1>1. UpdateInv => UpdatesGoForward
  BY DEF UpdateInv, UpdatesGoForward
<1> QED BY <1>1, UpdateInit, UpdateStep, PTL DEF Update!Spec

-----------------------------------------------------------------------------
(* KeyRotation: the records of a database, numbered in their order.         *)

CONSTANTS RecordCount, Rotations, MaxSwaps
VARIABLES records, versions, replaced, checkpoint, written, caller, retired, rotationCrashes,
    swaps

Ordered == [n \in 1 .. RecordCount |-> n]

Rotate == INSTANCE KeyRotation WITH
  source <- records, disk <- checkpoint, crashes <- rotationCrashes, Records <- Ordered

OldEnvelope  == [id : Rotate!All, digest : Nat]
Replacement  == {Rotate!None} \cup [rotation : Rotations, source : Nat]
States       == {"pending", "running", "completed"}
Checkpoint   == [rotation : Rotations, records : Seq(OldEnvelope),
                 transcript : Seq([source : OldEnvelope, replacement : Replacement]),
                 next : Nat \ {0}, state : States]
Rotating     == [pc : {"save", "resume", "replace", "advance", "retire"}, rotation : Rotations,
                 records : Seq(OldEnvelope), checkpoint : Checkpoint]

RotationTypes ==
  /\ versions \in Nat /\ records \in [Rotate!All -> 0 .. versions]
  /\ replaced \in [Rotate!All -> Replacement]
  /\ caller \in {Rotate!Idle, [pc |-> "refused"]} \cup Rotating
  /\ written \subseteq Checkpoint

\* Old envelopes of all records in their order, none from the future.
OfAll(envelopes) ==
  /\ Len(envelopes) = Len(Ordered)
  /\ \A n \in 1 .. Len(Ordered) : /\ envelopes[n].id = Ordered[n]
                                  /\ envelopes[n].digest <= versions

\* A record, as it is now, has a replacement.
Fresh(r) == replaced[r] # Rotate!None /\ replaced[r].source = records[r]

\* What a checkpoint that somebody wrote counts: a record it counts was replaced, or
\* was written again and differs from what the checkpoint says of it.
Counts(c) ==
  /\ OfAll(c.records)
  /\ c.next <= Len(Ordered) + 1 /\ (c.state = "completed" <=> c.next = Len(Ordered) + 1)
  /\ \A n \in 1 .. Len(Ordered) :
       n < c.next /\ c.records[n].digest = records[Ordered[n]] => Fresh(Ordered[n])

CallerInv ==
  caller \in Rotating =>
    /\ OfAll(caller.records) /\ caller.checkpoint \in written
    /\ caller.pc \in {"replace", "advance"} => caller.checkpoint.state = "running"
    /\ caller.pc = "advance" => Fresh(Ordered[caller.checkpoint.next])

RotationInv == /\ RotationTypes /\ CallerInv
               /\ \A c \in written : Counts(c)
               /\ retired => caller = Rotate!Idle
               /\ Rotate!RetiredMeansReplaced

LEMMA RecordsHaveNames ==
  ASSUME Rotate!ConstantsFit
  PROVE  /\ Len(Ordered) \in Nat /\ DOMAIN Ordered = 1 .. Len(Ordered)
         /\ \A n \in 1 .. Len(Ordered) : Ordered[n] \in Rotate!All
         /\ \A r \in Rotate!All : \E n \in 1 .. Len(Ordered) : r = Ordered[n]
<1>1. Len(Ordered) \in Nat /\ DOMAIN Ordered = 1 .. Len(Ordered)
  BY DEF Rotate!ConstantsFit
<1> QED BY <1>1 DEF Rotate!All

\* No caller rests while it rotates.
LEMMA RotatingIsBusy == \A c \in Rotating : c # Rotate!Idle /\ c.pc # "refused" /\ c.pc # "idle"
BY DEF Rotating, Rotate!Idle

LEMMA RotationInit == Rotate!ConstantsFit /\ Rotate!Init => RotationInv
<1> SUFFICES ASSUME Rotate!ConstantsFit, Rotate!Init PROVE RotationInv
  OBVIOUS
<1>1. RotationTypes
  BY DEF Rotate!Init, RotationTypes, Replacement
<1>2. CallerInv
  BY RotatingIsBusy DEF Rotate!Init, CallerInv
<1> QED BY <1>1, <1>2 DEF Rotate!Init, RotationInv, Rotate!RetiredMeansReplaced

\* The records as they are now.
LEMMA SourceIsWhole ==
  ASSUME Rotate!ConstantsFit, RotationTypes
  PROVE  /\ Rotate!SourceRecords \in Seq(OldEnvelope) /\ OfAll(Rotate!SourceRecords)
         /\ \A n \in 1 .. Len(Ordered) : Rotate!SourceRecords[n].digest = records[Ordered[n]]
         /\ Rotate!SourceRecords = <<>> <=> Len(Ordered) = 0
<1>1. Rotate!SourceRecords = [n \in 1 .. Len(Ordered) |-> [id |-> Ordered[n],
          digest |-> records[Ordered[n]]]]
  BY RecordsHaveNames DEF Rotate!SourceRecords
<1>2. \A n \in 1 .. Len(Ordered) : records[Ordered[n]] \in 0 .. versions /\ versions \in Nat
  BY RecordsHaveNames DEF RotationTypes
<1>3. Rotate!SourceRecords \in [1 .. Len(Ordered) -> OldEnvelope]
  BY <1>1, <1>2, RecordsHaveNames DEF OldEnvelope
<1>4. Rotate!SourceRecords \in Seq(OldEnvelope) /\ Len(Rotate!SourceRecords) = Len(Ordered)
  BY <1>3, RecordsHaveNames
<1>5. \A n \in 1 .. Len(Ordered) : /\ Rotate!SourceRecords[n].id = Ordered[n]
                                   /\ Rotate!SourceRecords[n].digest = records[Ordered[n]]
  BY <1>1
<1>6. OfAll(Rotate!SourceRecords)
  BY <1>2, <1>4, <1>5 DEF OfAll
<1>7. Rotate!SourceRecords = <<>> <=> Len(Ordered) = 0
  BY <1>4
<1> QED BY <1>4, <1>5, <1>6, <1>7

\* A step that changes neither a record nor a replacement writes at most one
\* checkpoint, and leaves the caller with one that was written.
LEMMA CallerMoves ==
  ASSUME RotationInv, UNCHANGED <<records, versions, replaced, retired>>,
         caller' # caller => ~retired,
         written' \subseteq Checkpoint, \A c \in written' : c \in written \/ Counts(c),
         caller' \in {Rotate!Idle, [pc |-> "refused"]} \cup Rotating,
         CallerInv'
  PROVE  RotationInv'
<1>1. RotationTypes'
  BY DEF RotationInv, RotationTypes
<1>2. \A c \in written' : Counts(c)'
  BY DEF RotationInv, Counts, OfAll, Fresh
<1> QED BY <1>1, <1>2 DEF RotationInv, Rotate!RetiredMeansReplaced

LEMMA BeginKeeps ==
  ASSUME Rotate!ConstantsFit, RotationInv, NEW n \in Rotations, Rotate!Begin(n)
  PROVE  RotationInv'
<1>1. Rotate!SourceRecords \in Seq(OldEnvelope) /\ OfAll(Rotate!SourceRecords)
  BY SourceIsWhole DEF RotationInv
<1>2. PICK c : c = Rotate!Created(n, Rotate!SourceRecords)
  OBVIOUS
<1>3. /\ c \in Checkpoint /\ c.records = Rotate!SourceRecords /\ c.next = 1
      /\ c.state = IF Rotate!SourceRecords = <<>> THEN "completed" ELSE "pending"
  <2>1. <<>> \in Seq([source : OldEnvelope, replacement : Replacement])
    OBVIOUS
  <2> QED BY <1>1, <1>2, <2>1 DEF Rotate!Created, Checkpoint, States
<1>4. Counts(c)
  <2>1. Rotate!SourceRecords = <<>> <=> Len(Ordered) = 0
    BY SourceIsWhole DEF RotationInv
  <2>2. Len(Ordered) \in Nat
    BY RecordsHaveNames
  <2>3. c.next <= Len(Ordered) + 1 /\ (c.state = "completed" <=> c.next = Len(Ordered) + 1)
    BY <1>3, <2>1, <2>2
  <2>4. \A i \in 1 .. Len(Ordered) : ~(i < c.next)
    BY <1>3, <2>2
  <2> QED BY <1>1, <1>3, <2>3, <2>4 DEF Counts
<1>5. PICK k : k = [pc |-> "save", rotation |-> n, records |-> Rotate!SourceRecords,
               checkpoint |-> c]
  OBVIOUS
<1>6. /\ k \in Rotating /\ k.pc = "save" /\ k.records = Rotate!SourceRecords /\ k.checkpoint = c
  BY <1>1, <1>3, <1>5 DEF Rotating
<1>7. caller' = k /\ written' = written \cup {c} /\ ~retired
      /\ UNCHANGED <<records, versions, replaced, retired>>
  BY <1>2, <1>5 DEF Rotate!Begin, Rotate!Goes, Rotate!Authenticates
<1>8. CallerInv'
  BY <1>1, <1>6, <1>7 DEF CallerInv, OfAll
<1> QED BY <1>3, <1>4, <1>6, <1>7, <1>8, CallerMoves DEF RotationInv, RotationTypes

LEMMA RestartKeeps ==
  ASSUME Rotate!ConstantsFit, RotationInv, NEW n \in Rotations, Rotate!Restart(n)
  PROVE  RotationInv'
<1>1. /\ ~retired /\ UNCHANGED <<records, versions, replaced, written, retired>>
  BY DEF Rotate!Restart
<1>2. CASE Rotate!Verifies(checkpoint, n, Rotate!SourceRecords)
  <2>1. PICK k : k = [pc |-> "resume", rotation |-> n, records |-> Rotate!SourceRecords,
                      checkpoint |-> checkpoint]
    OBVIOUS
  <2>2. Rotate!SourceRecords \in Seq(OldEnvelope) /\ OfAll(Rotate!SourceRecords)
    BY SourceIsWhole DEF RotationInv
  <2>3. checkpoint \in written /\ checkpoint \in Checkpoint
    BY <1>2 DEF Rotate!Verifies, RotationInv, RotationTypes
  <2>4. k \in Rotating /\ k.pc = "resume" /\ k.records = Rotate!SourceRecords
            /\ k.checkpoint = checkpoint
    BY <2>1, <2>2, <2>3 DEF Rotating
  <2>5. caller' = k
    BY <1>2, <2>1 DEF Rotate!Restart, Rotate!Goes
  <2>6. CallerInv'
    BY <1>1, <2>2, <2>3, <2>4, <2>5 DEF CallerInv, OfAll
  <2> QED BY <1>1, <2>4, <2>5, <2>6, CallerMoves DEF RotationInv, RotationTypes
<1>3. CASE ~Rotate!Verifies(checkpoint, n, Rotate!SourceRecords)
  <2>1. caller' = [pc |-> "refused"]
    BY <1>3 DEF Rotate!Restart, Rotate!Goes
  <2>2. caller' \notin Rotating
    BY <2>1, RotatingIsBusy
  <2> QED BY <1>1, <2>1, <2>2, CallerMoves DEF RotationInv, RotationTypes, CallerInv
<1> QED BY <1>2, <1>3

\* What the caller is when it is at a place of the rotation.
LEMMA AtIsRotating ==
  ASSUME RotationTypes, NEW pc \in {"save", "resume", "replace", "advance", "retire"},
         Rotate!At(pc)
  PROVE  /\ caller \in Rotating /\ caller.pc = pc /\ caller # Rotate!Idle
         /\ caller.checkpoint \in Checkpoint
BY DEF RotationTypes, Rotate!At, Rotate!Idle, Rotating

LEMMA ResumeKeeps ==
  ASSUME Rotate!ConstantsFit, RotationInv, Rotate!Resume
  PROVE  RotationInv'
<1>1. PICK k \in Rotating : k = caller
  BY AtIsRotating DEF Rotate!Resume, RotationInv
<1>2. PICK c \in Checkpoint : c = k.checkpoint
  BY <1>1 DEF Rotating
<1>3. OfAll(k.records) /\ c \in written /\ Counts(c) /\ ~retired
  BY <1>1, <1>2, RotatingIsBusy DEF RotationInv, CallerInv
<1>4. PICK d : d = Rotate!Resumed(c)
  OBVIOUS
<1>5. /\ d \in Checkpoint /\ d.records = c.records /\ d.next = c.next
      /\ d.state = IF c.state = "pending" THEN "running" ELSE c.state
  BY <1>4 DEF Rotate!Resumed, Checkpoint, States
<1>6. Counts(d) /\ d.state \in {"running", "completed"}
  <2>1. d.state = "completed" <=> c.state = "completed"
    BY <1>5
  <2>2. d.state \in {"running", "completed"}
    BY <1>5 DEF Checkpoint, States
  <2> QED BY <1>3, <1>5, <2>1, <2>2 DEF Counts
<1>7. PICK j : j = [k EXCEPT !.checkpoint = d, !.pc = IF d.state = "completed" THEN "retire"
                                                      ELSE "replace"]
  OBVIOUS
<1>8. /\ j \in Rotating /\ j.records = k.records /\ j.checkpoint = d
      /\ j.pc = IF d.state = "completed" THEN "retire" ELSE "replace"
  BY <1>5, <1>7 DEF Rotating
<1>9. caller' = j /\ written' = written \cup {d}
      /\ UNCHANGED <<records, versions, replaced, retired>>
  BY <1>1, <1>2, <1>4, <1>7 DEF Rotate!Resume, Rotate!Goes, Rotate!Authenticates
<1>10. CallerInv'
  <2>1. d \in written' /\ OfAll(j.records)'
    BY <1>3, <1>8, <1>9 DEF OfAll
  <2>2. j.pc = "replace" => d.state = "running"
    BY <1>6, <1>8
  <2>3. j.pc # "advance"
    BY <1>8
  <2> QED BY <1>8, <1>9, <2>1, <2>2, <2>3 DEF CallerInv
<1> QED BY <1>3, <1>5, <1>6, <1>8, <1>9, <1>10, CallerMoves DEF RotationInv, RotationTypes

LEMMA ReplaceKeeps ==
  ASSUME Rotate!ConstantsFit, RotationInv, Rotate!Replace
  PROVE  RotationInv'
<1>1. PICK k \in Rotating : k = caller
  BY AtIsRotating DEF Rotate!Replace, RotationInv
<1>2. PICK c \in Checkpoint : c = k.checkpoint
  BY <1>1 DEF Rotating
<1>3. /\ OfAll(k.records) /\ c \in written /\ Counts(c) /\ ~retired
      /\ k.pc = "replace" /\ c.state = "running"
  BY <1>1, <1>2, RotatingIsBusy DEF RotationInv, CallerInv, Rotate!Replace, Rotate!At
<1>4. c.next \in 1 .. Len(Ordered)
  <2>1. c.next \in Nat \ {0} /\ c.next <= Len(Ordered) + 1 /\ c.next # Len(Ordered) + 1
    BY <1>3 DEF Checkpoint, Counts
  <2>2. Len(Ordered) \in Nat
    BY RecordsHaveNames
  <2> QED BY <2>1, <2>2
<1>5. PICK r : r = Ordered[c.next]
  OBVIOUS
<1>6. r \in Rotate!All /\ k.records[c.next].id = r
  BY <1>3, <1>4, <1>5, RecordsHaveNames DEF OfAll
<1>7. replaced' = [replaced EXCEPT ![r] = [rotation |-> k.rotation, source |-> records[r]]]
      /\ UNCHANGED <<records, versions, written, retired>>
  BY <1>1, <1>2, <1>6 DEF Rotate!Replace
<1>8. PICK new : new = [rotation |-> k.rotation, source |-> records[r]]
  OBVIOUS
<1>9. new \in Replacement /\ new # Rotate!None /\ new.source = records[r]
  <2>1. k.rotation \in Rotations /\ k.rotation # 0
    BY DEF Rotate!ConstantsFit, Rotating
  <2>2. records[r] \in Nat
    BY <1>6 DEF RotationInv, RotationTypes
  <2>3. new.rotation = k.rotation /\ Rotate!None.rotation = 0
    BY <1>8 DEF Rotate!None
  <2> QED BY <1>8, <2>1, <2>2, <2>3 DEF Replacement
<1>10. replaced' \in [Rotate!All -> Replacement] /\ Fresh(r)' /\ \A q \in Rotate!All : Fresh(q)
           => Fresh(q)'
  BY <1>6, <1>7, <1>8, <1>9 DEF RotationInv, RotationTypes, Fresh
<1>11. PICK j : j = [k EXCEPT !.pc = "advance"]
  OBVIOUS
<1>12. j \in Rotating /\ j.records = k.records /\ j.checkpoint = c /\ j.pc = "advance"
       /\ j = caller'
  BY <1>1, <1>2, <1>11 DEF Rotating, Rotate!Replace, Rotate!Goes
<1>13. CallerInv'
  <2>1. OfAll(j.records)'
    BY <1>3, <1>7, <1>12 DEF OfAll
  <2>2. Fresh(Ordered[c.next])'
    BY <1>5, <1>10
  <2> QED BY <1>3, <1>7, <1>12, <2>1, <2>2 DEF CallerInv
<1>14. \A d \in written' : Counts(d)'
  <2> SUFFICES ASSUME NEW d \in written PROVE Counts(d)'
    BY <1>7
  <2>1. Counts(d)
    BY DEF RotationInv
  <2>2. \A n \in 1 .. Len(Ordered) : Fresh(Ordered[n]) => Fresh(Ordered[n])'
    BY <1>10, RecordsHaveNames
  <2> QED BY <1>7, <2>1, <2>2 DEF Counts, OfAll
<1> QED BY <1>3, <1>7, <1>10, <1>12, <1>13, <1>14 DEF RotationInv, RotationTypes,
                                                      Rotate!RetiredMeansReplaced

LEMMA AdvanceKeeps ==
  ASSUME Rotate!ConstantsFit, RotationInv, Rotate!Advance
  PROVE  RotationInv'
<1>1. PICK k \in Rotating : k = caller
  BY AtIsRotating DEF Rotate!Advance, RotationInv
<1>2. PICK c \in Checkpoint : c = k.checkpoint
  BY <1>1 DEF Rotating
<1>3. /\ OfAll(k.records) /\ c \in written /\ Counts(c) /\ ~retired
      /\ c.state = "running" /\ Fresh(Ordered[c.next])
  BY <1>1, <1>2, RotatingIsBusy DEF RotationInv, CallerInv, Rotate!Advance, Rotate!At
<1>4. c.next \in 1 .. Len(Ordered)
  <2>1. c.next \in Nat \ {0} /\ c.next <= Len(Ordered) + 1 /\ c.next # Len(Ordered) + 1
    BY <1>3 DEF Checkpoint, Counts
  <2>2. Len(Ordered) \in Nat
    BY RecordsHaveNames
  <2> QED BY <2>1, <2>2
<1>5. PICK r : r = Ordered[c.next]
  OBVIOUS
<1>6. r \in Rotate!All /\ k.records[c.next].id = r /\ Len(Ordered) \in Nat
  BY <1>3, <1>4, <1>5, RecordsHaveNames DEF OfAll
<1>7. PICK d : d = Rotate!Advanced(c, replaced[r])
  OBVIOUS
<1>8. /\ d \in Checkpoint /\ d.records = c.records /\ d.next = c.next + 1
      /\ d.state = IF c.next = Len(c.records) THEN "completed" ELSE "running"
  <2>1. c.records \in Seq(OldEnvelope) /\ Len(c.records) = Len(Ordered)
    BY <1>3 DEF Checkpoint, Counts, OfAll
  <2>2. c.records[c.next] \in OldEnvelope
    BY <1>4, <2>1
  <2>3. replaced[r] \in Replacement
    BY <1>6 DEF RotationInv, RotationTypes
  <2>4. PICK t : t = [source |-> c.records[c.next], replacement |-> replaced[r]]
    OBVIOUS
  <2>5. Append(c.transcript, t) \in Seq([source : OldEnvelope, replacement : Replacement])
    BY <2>2, <2>3, <2>4 DEF Checkpoint
  <2>6. d = [c EXCEPT !.transcript = Append(c.transcript, t), !.next = c.next + 1,
                      !.state = IF c.next = Len(c.records) THEN "completed" ELSE "running"]
    BY <1>7, <2>4 DEF Rotate!Advanced
  <2>7. PICK state \in States : state = IF c.next = Len(c.records) THEN "completed"
                                      ELSE "running"
    BY DEF States
  <2>8. c.next + 1 \in Nat \ {0}
    BY <1>4, <1>6
  <2>9. d = [c EXCEPT !.transcript = Append(c.transcript, t), !.next = c.next + 1,
                      !.state = state]
    BY <2>6, <2>7
  <2>10. d \in Checkpoint /\ d.records = c.records /\ d.next = c.next + 1 /\ d.state = state
    BY <2>5, <2>8, <2>9 DEF Checkpoint
  <2> QED BY <2>7, <2>10
<1>9. Counts(d)
  <2>1. OfAll(d.records) /\ Len(c.records) = Len(Ordered)
    BY <1>3, <1>8 DEF Counts, OfAll
  <2>2. d.next <= Len(Ordered) + 1 /\ (d.state = "completed" <=> d.next = Len(Ordered) + 1)
    BY <1>4, <1>6, <1>8, <2>1
  <2>3. ASSUME NEW n \in 1 .. Len(Ordered), n < d.next, d.records[n].digest = records[Ordered[n]]
        PROVE  Fresh(Ordered[n])
    <3>1. CASE n = c.next
      BY <1>3, <3>1
    <3>2. CASE n # c.next
      <4>1. n < c.next
        BY <1>4, <1>8, <2>3, <3>2
      <4> QED BY <1>3, <1>8, <2>3, <4>1 DEF Counts
    <3> QED BY <3>1, <3>2
  <2> QED BY <2>1, <2>2, <2>3 DEF Counts
<1>10. PICK j : j = [k EXCEPT !.checkpoint = d, !.pc = "save"]
  OBVIOUS
<1>11. j \in Rotating /\ j.records = k.records /\ j.checkpoint = d /\ j.pc = "save"
  BY <1>8, <1>10 DEF Rotating
<1>12. caller' = j /\ written' = written \cup {d}
       /\ UNCHANGED <<records, versions, replaced, retired>>
  BY <1>1, <1>2, <1>6, <1>7, <1>10 DEF Rotate!Advance, Rotate!Goes, Rotate!Authenticates
<1>13. CallerInv'
  BY <1>3, <1>11, <1>12 DEF CallerInv, OfAll
<1> QED BY <1>3, <1>8, <1>9, <1>11, <1>12, <1>13, CallerMoves DEF RotationInv, RotationTypes

LEMMA SaveKeeps ==
  ASSUME RotationInv, Rotate!Save
  PROVE  RotationInv'
<1>1. PICK k \in Rotating : k = caller
  BY AtIsRotating DEF Rotate!Save, RotationInv
<1>2. PICK j : j = [k EXCEPT !.pc = "resume"]
  OBVIOUS
<1>3. j \in Rotating /\ j.records = k.records /\ j.checkpoint = k.checkpoint /\ j.pc = "resume"
      /\ j = caller'
  BY <1>1, <1>2 DEF Rotating, Rotate!Save, Rotate!Goes
<1>4. OfAll(k.records) /\ k.checkpoint \in written /\ ~retired
  BY <1>1, RotatingIsBusy DEF RotationInv, CallerInv
<1>5. CallerInv'
  BY <1>3, <1>4 DEF CallerInv, OfAll, Rotate!Save
<1> QED BY <1>3, <1>4, <1>5, CallerMoves DEF Rotate!Save, RotationInv, RotationTypes

\* The key goes on a checkpoint of the records as they are now that counts them all.
LEMMA RetireKeeps ==
  ASSUME Rotate!ConstantsFit, RotationInv, Rotate!Retire
  PROVE  RotationInv'
<1>1. caller' = Rotate!Idle /\ UNCHANGED <<records, versions, replaced, checkpoint, written>>
  BY DEF Rotate!Retire, Rotate!Goes
<1>2. caller \in Rotating /\ ~retired
  BY AtIsRotating, RotatingIsBusy DEF Rotate!Retire, RotationInv
<1>3. ASSUME retired'
      PROVE  \A r \in Rotate!All : Fresh(r)
  <2>1. checkpoint.state = "completed" /\ checkpoint \in written
            /\ checkpoint.records = Rotate!SourceRecords
    BY <1>2, <1>3 DEF Rotate!Retire, Rotate!Verifies
  <2>2. Counts(checkpoint) /\ checkpoint \in Checkpoint
    BY <2>1 DEF RotationInv, RotationTypes
  <2>3. checkpoint.next = Len(Ordered) + 1 /\ Len(Ordered) \in Nat
    BY <2>1, <2>2, RecordsHaveNames DEF Counts
  <2>4. \A n \in 1 .. Len(Ordered) : Fresh(Ordered[n])
    BY <2>1, <2>2, <2>3, SourceIsWhole DEF Counts, RotationInv
  <2> QED BY <2>4, RecordsHaveNames
<1>4. Rotate!RetiredMeansReplaced'
  BY <1>1, <1>3 DEF Rotate!RetiredMeansReplaced, Fresh
<1>5. CallerInv'
  BY <1>1, RotatingIsBusy DEF CallerInv
<1>6. \A c \in written' : Counts(c)'
  BY <1>1 DEF RotationInv, Counts, OfAll, Fresh
<1> QED BY <1>1, <1>4, <1>5, <1>6 DEF RotationInv, RotationTypes

\* What is written while the caller rests is in no checkpoint.
LEMMA WriteKeeps ==
  ASSUME Rotate!ConstantsFit, RotationInv, NEW r \in Rotate!All, Rotate!Write(r)
  PROVE  RotationInv'
<1>1. /\ versions' = versions + 1 /\ records' = [records EXCEPT ![r] = versions + 1]
      /\ ~retired /\ caller = Rotate!Idle /\ UNCHANGED <<replaced, checkpoint, written, caller,
             retired>>
  BY DEF Rotate!Write
<1>2. versions \in Nat /\ records \in [Rotate!All -> 0 .. versions]
  BY DEF RotationInv, RotationTypes
<1>3. records' \in [Rotate!All -> 0 .. versions'] /\ versions' \in Nat
  BY <1>1, <1>2
<1>4. RotationTypes'
  BY <1>1, <1>3 DEF RotationInv, RotationTypes
<1>5. CallerInv'
  BY <1>1, RotatingIsBusy DEF CallerInv
<1>6. ASSUME NEW c \in written
      PROVE  Counts(c)'
  <2>1. Counts(c) /\ c \in Checkpoint
    BY DEF RotationInv, RotationTypes
  <2>2. \A n \in 1 .. Len(Ordered) : c.records[n].digest \in Nat
            /\ c.records[n].digest <= versions
    <3>1. c.records \in Seq(OldEnvelope) /\ Len(c.records) = Len(Ordered)
      BY <2>1 DEF Counts, OfAll, Checkpoint
    <3>2. \A n \in 1 .. Len(Ordered) : c.records[n] \in OldEnvelope
      BY <3>1
    <3> QED BY <2>1, <3>2 DEF Counts, OfAll, OldEnvelope
  <2>3. ASSUME NEW n \in 1 .. Len(Ordered), n < c.next,
               c.records[n].digest = records'[Ordered[n]]
        PROVE  Fresh(Ordered[n])'
    <3>1. Ordered[n] \in Rotate!All /\ Ordered[n] # r
      BY <1>1, <1>2, <2>2, <2>3, RecordsHaveNames
    <3>2. records'[Ordered[n]] = records[Ordered[n]]
      BY <1>1, <1>2, <3>1
    <3>3. Fresh(Ordered[n])
      BY <2>1, <2>3, <3>2 DEF Counts
    <3> QED BY <1>1, <3>2, <3>3 DEF Fresh
  <2>4. OfAll(c.records)'
    BY <1>1, <1>2, <2>1, <2>2 DEF Counts, OfAll
  <2> QED BY <1>1, <2>1, <2>3, <2>4 DEF Counts
<1> QED BY <1>1, <1>4, <1>5, <1>6 DEF RotationInv, Rotate!RetiredMeansReplaced

LEMMA RotationStep == Rotate!ConstantsFit /\ RotationInv /\ [Rotate!Next]_(Rotate!vars)
    => RotationInv'
<1> SUFFICES ASSUME Rotate!ConstantsFit, RotationInv,
                 [Rotate!Next]_(Rotate!vars) PROVE RotationInv'
  OBVIOUS
<1>1. ASSUME UNCHANGED <<records, versions, replaced, written, retired>>, caller' = caller
      PROVE  RotationInv'
  BY <1>1 DEF RotationInv, RotationTypes, CallerInv, Counts, OfAll, Fresh,
              Rotate!RetiredMeansReplaced
<1>2. ASSUME UNCHANGED <<records, versions, replaced, written, retired>>, caller' = Rotate!Idle,
             caller # Rotate!Idle
      PROVE  RotationInv'
  <2>1. CallerInv'
    BY <1>2, RotatingIsBusy DEF CallerInv
  <2> QED BY <1>2, <2>1, CallerMoves DEF RotationInv, RotationTypes
<1>3. CASE \E n \in Rotations : Rotate!Begin(n)
  BY <1>3, BeginKeeps
<1>4. CASE \E n \in Rotations : Rotate!Restart(n)
  BY <1>4, RestartKeeps
<1>5. CASE Rotate!Resume
  BY <1>5, ResumeKeeps
<1>6. CASE Rotate!Replace
  BY <1>6, ReplaceKeeps
<1>7. CASE Rotate!Advance
  BY <1>7, AdvanceKeeps
<1>8. CASE Rotate!Save
  BY <1>8, SaveKeeps
<1>9. CASE Rotate!Retire
  BY <1>9, RetireKeeps
<1>10. CASE Rotate!GiveUp
  BY <1>10, <1>2 DEF Rotate!GiveUp, Rotate!At, Rotate!Goes, Rotate!Idle
<1>11. CASE Rotate!Crash
  BY <1>11, <1>2 DEF Rotate!Crash
<1>12. CASE Rotate!Swap
  BY <1>12, <1>1 DEF Rotate!Swap
<1>13. CASE \E r \in Rotate!All : Rotate!Write(r)
  BY <1>13, WriteKeeps
<1>14. CASE UNCHANGED Rotate!vars
  BY <1>14, <1>1 DEF Rotate!vars
<1> QED BY <1>3, <1>4, <1>5, <1>6, <1>7, <1>8, <1>9, <1>10, <1>11, <1>12, <1>13, <1>14
  DEF Rotate!Next

\* The old key goes when every record, as it is now, has a replacement, whichever
\* checkpoint is found on the disk and wherever the caller is killed.
THEOREM KeyGoesLast ==
  ASSUME Rotate!ConstantsFit
  PROVE  Rotate!Spec => []Rotate!RetiredMeansReplaced
<1>1. RotationInv => Rotate!RetiredMeansReplaced
  BY DEF RotationInv
<1> QED BY <1>1, RotationInit, RotationStep, PTL DEF Rotate!Spec

-----------------------------------------------------------------------------
(* AttachmentStream: attachments that are staged, and one that is read.     *)

CONSTANTS Streams, Payloads, MaxChunks, MaxReads
VARIABLES given, buffer, enc, sink, manifests, dec, reads

Stream == INSTANCE AttachmentStream WITH Contents <- Payloads

Waiting  == [is : {"chunk"}, content : Payloads]
Encoding == [pc : {"start", "reading", "manifest", "committed", "aborted"}, count : Nat,
             pending : {Stream!Nothing} \cup Waiting]
Staged   == [is : {"header"}, stream : Streams]
              \cup [is : {"chunk"}, stream : Streams, index : Nat,
                    content : Payloads \cup {"empty"}, final : BOOLEAN]
Manifests == [stream : Streams, count : Nat, content : Seq(Payloads)]
Decoding == [pc : {"open", "committed", "aborted"}, manifest : Manifests,
             stream : Streams \cup {"none"}, next : Nat, final : BOOLEAN,
             got : Seq(Payloads \cup {"empty"})]

StreamTypes ==
  /\ given \in [Streams -> Seq(Payloads)] /\ buffer \in [Streams -> Payloads]
  /\ enc \in [Streams -> Encoding] /\ sink \in [Streams -> Seq(Staged)]
  /\ manifests \subseteq Manifests /\ dec \in {Stream!None} \cup Decoding

\* The header and n chunks of a stream are staged, none of them the last.
Begun(s, n) == /\ Len(sink[s]) = n + 1
               /\ \A i \in 1 .. n : sink[s][i + 1] = Stream!Chunk(s, i - 1, given[s][i], FALSE)

\* The stream is staged to its end, in as many chunks as its manifest says.
Staging(s) ==
  /\ Len(sink[s]) = Stream!Manifest(s).count + 1
  /\ \A i \in 1 .. Stream!Manifest(s).count :
       sink[s][i + 1] = Stream!Chunk(s, i - 1, IF given[s] = <<>> THEN "empty" ELSE given[s][i],
                                     i = Stream!Manifest(s).count)

\* How far the encryption of a stream has got.
EncodingInv(s) ==
  LET e == enc[s]
  IN /\ Len(given[s]) = e.count
     /\ e.pc = "start" => sink[s] = <<>> /\ e.pending = Stream!Nothing /\ e.count = 0
     /\ e.pc = "reading" =>
          IF e.count = 0 THEN e.pending = Stream!Nothing /\ Begun(s, 0)
          ELSE /\ e.pending # Stream!Nothing /\ e.pending.content = given[s][e.count]
               /\ Begun(s, e.count - 1)
     /\ e.pc \in {"manifest", "committed"} => Staging(s)

StreamInv ==
  /\ StreamTypes
  /\ \A s \in Streams : EncodingInv(s)
  /\ \A m \in manifests : enc[m.stream].pc = "committed" /\ m = Stream!Manifest(m.stream)
  /\ dec # Stream!None => dec.manifest \in manifests
  /\ dec # Stream!None /\ dec.pc = "committed" => Stream!Bytes(dec.got) = dec.manifest.content

LEMMA StreamInit == Stream!Init => StreamInv
<1> SUFFICES ASSUME Stream!Init PROVE StreamInv
  OBVIOUS
<1>1. StreamTypes
  BY DEF Stream!Init, StreamTypes, Encoding
<1>2. ASSUME NEW s \in Streams PROVE EncodingInv(s)
  BY DEF Stream!Init, EncodingInv
<1> QED BY <1>1, <1>2 DEF Stream!Init, StreamInv

\* A step of one encryption that commits no manifest.
LEMMA EncodeKeeps ==
  ASSUME StreamInv, NEW s \in Streams, NEW e \in Encoding, enc[s].pc # "committed",
         Stream!Becomes(s, e),
         given' \in [Streams -> Seq(Payloads)], sink' \in [Streams -> Seq(Staged)],
         \A t \in Streams : t # s => given'[t] = given[t] /\ sink'[t] = sink[t],
         EncodingInv(s)', UNCHANGED <<buffer, manifests, dec>>
  PROVE  StreamInv'
<1>1. enc' = [enc EXCEPT ![s] = e] /\ enc \in [Streams -> Encoding]
  BY DEF Stream!Becomes, StreamInv, StreamTypes
<1>2. StreamTypes'
  BY <1>1 DEF StreamInv, StreamTypes
<1>3. ASSUME NEW t \in Streams, t # s
      PROVE  EncodingInv(t)' /\ Stream!Manifest(t)' = Stream!Manifest(t)
  <2>1. enc'[t] = enc[t] /\ given'[t] = given[t] /\ sink'[t] = sink[t] /\ EncodingInv(t)
    BY <1>1, <1>3 DEF StreamInv
  <2> QED BY <2>1 DEF EncodingInv, Begun, Staging, Stream!Manifest, Stream!Chunk
<1>4. ASSUME NEW m \in manifests'
      PROVE  enc'[m.stream].pc = "committed" /\ m = Stream!Manifest(m.stream)'
  <2>1. m \in manifests /\ m.stream \in Streams /\ m.stream # s
    BY DEF StreamInv, StreamTypes, Manifests
  <2> QED BY <1>1, <1>3, <2>1 DEF StreamInv
<1>5. \A t \in Streams : EncodingInv(t)'
  BY <1>3
<1> QED BY <1>2, <1>4, <1>5 DEF StreamInv

LEMMA EncodingStarts ==
  ASSUME StreamInv, NEW s \in Streams, Stream!Start(s)
  PROVE  StreamInv'
<1>1. PICK d \in Encoding : d = enc[s]
  BY DEF StreamInv, StreamTypes
<1>2. PICK e : e = [d EXCEPT !.pc = "reading"]
  OBVIOUS
<1>3. e \in Encoding /\ e.pc = "reading" /\ e.count = d.count /\ e.pending = d.pending
  BY <1>2 DEF Encoding
<1>4. d.pc = "start" /\ sink[s] = <<>> /\ d.pending = Stream!Nothing /\ d.count = 0
          /\ Len(given[s]) = 0
  BY <1>1 DEF Stream!Start, StreamInv, EncodingInv
<1>5. /\ enc' = [enc EXCEPT ![s] = e]
      /\ sink' = [sink EXCEPT ![s] = Append(sink[s], Stream!Header(s))]
      /\ UNCHANGED <<given, buffer, manifests, dec>>
  BY <1>1, <1>2 DEF Stream!Start, Stream!Becomes, Stream!Stages
<1>6. Stream!Header(s) \in Staged
  BY DEF Stream!Header, Staged
<1>7. sink' \in [Streams -> Seq(Staged)]
  BY <1>5, <1>6 DEF StreamInv, StreamTypes
<1>8. sink'[s] = Append(sink[s], Stream!Header(s)) /\ enc'[s] = e
  BY <1>5 DEF StreamInv, StreamTypes
<1>9. Len(sink'[s]) = 1
  BY <1>4, <1>8
<1>10. EncodingInv(s)'
  BY <1>3, <1>4, <1>5, <1>8, <1>9 DEF EncodingInv, Begun, Stream!Chunk
<1> QED BY <1>1, <1>3, <1>4, <1>5, <1>7, <1>10, EncodeKeeps DEF StreamInv, StreamTypes,
                                                                Stream!Becomes

\* Where an encryption is while it reads.
LEMMA ReadingStage ==
  ASSUME StreamInv, NEW s \in Streams, enc[s].pc = "reading"
  PROVE  /\ enc[s] \in Encoding /\ given[s] \in Seq(Payloads) /\ Len(given[s]) = enc[s].count
         /\ sink[s] \in Seq(Staged) /\ buffer[s] \in Payloads /\ enc[s].count \in Nat
         /\ enc[s].pending = Stream!Nothing <=> enc[s].count = 0
         /\ enc[s].count = 0 => Begun(s, 0)
         /\ enc[s].count # 0 => /\ Stream!Pending(s).content = given[s][enc[s].count]
                                /\ Begun(s, enc[s].count - 1)
BY DEF StreamInv, StreamTypes, EncodingInv, Encoding, Stream!Pending

LEMMA TakeKeeps ==
  ASSUME StreamInv, NEW s \in Streams, Stream!Take(s)
  PROVE  StreamInv'
<1>1. enc[s].pc = "reading"
  BY DEF Stream!Take
<1>2. PICK d \in Encoding : d = enc[s]
  BY <1>1, ReadingStage
<1>3. PICK e : e = [d EXCEPT !.count = d.count + 1,
                             !.pending = [is |-> "chunk", content |-> buffer[s]]]
  OBVIOUS
<1>4. PICK w \in Waiting : w = [is |-> "chunk", content |-> buffer[s]]
  BY <1>1, ReadingStage DEF Waiting
<1>5. /\ e \in Encoding /\ e.pc = "reading" /\ e.count = d.count + 1 /\ e.pending = w
      /\ d.count \in Nat
  <2>1. d.pc = "reading" /\ d.count \in Nat /\ d.count + 1 \in Nat
    BY <1>1, <1>2 DEF Encoding
  <2>2. e = [d EXCEPT !.count = d.count + 1, !.pending = w]
    BY <1>3, <1>4
  <2> QED BY <2>1, <2>2 DEF Encoding
<1>6. w # Stream!Nothing /\ w.content = buffer[s]
  BY <1>4 DEF Waiting, Stream!Nothing
<1>7. /\ enc' = [enc EXCEPT ![s] = e]
      /\ given' = [given EXCEPT ![s] = Append(given[s], buffer[s])]
      /\ UNCHANGED <<buffer, manifests, dec>>
  BY <1>2, <1>3 DEF Stream!Take, Stream!Becomes
<1>8. /\ given' \in [Streams -> Seq(Payloads)] /\ enc'[s] = e
      /\ given'[s] = Append(given[s], buffer[s])
  BY <1>1, <1>7, ReadingStage DEF StreamInv, StreamTypes
<1>9. /\ Len(given'[s]) = d.count + 1 /\ given'[s][d.count + 1] = buffer[s]
      /\ \A i \in 1 .. d.count : given'[s][i] = given[s][i]
  BY <1>1, <1>2, <1>8, ReadingStage
<1>10. CASE d.count = 0
  <2>1. sink' = sink /\ Begun(s, 0)
    BY <1>1, <1>2, <1>10, ReadingStage DEF Stream!Take
  <2>2. Begun(s, 0)'
    BY <2>1 DEF Begun
  <2>3. EncodingInv(s)'
    BY <1>5, <1>6, <1>8, <1>9, <1>10, <2>2 DEF EncodingInv
  <2> QED BY <1>1, <1>5, <1>7, <1>8, <2>1, <2>3, EncodeKeeps DEF StreamInv, StreamTypes,
                                                                 Stream!Becomes
<1>11. CASE d.count # 0
  <2>1. PICK c : c = Stream!Chunk(s, d.count - 1, Stream!Pending(s).content, FALSE)
    OBVIOUS
  <2>2. /\ Stream!Pending(s).content = given[s][d.count] /\ given[s][d.count] \in Payloads
        /\ Begun(s, d.count - 1)
    BY <1>1, <1>2, <1>5, <1>11, ReadingStage
  <2>3. c \in Staged
    BY <1>5, <1>11, <2>1, <2>2 DEF Stream!Chunk, Staged
  <2>4. sink' = [sink EXCEPT ![s] = Append(sink[s], c)]
    BY <1>1, <1>2, <1>11, <2>1, ReadingStage DEF Stream!Take, Stream!Stages
  <2>5. sink' \in [Streams -> Seq(Staged)] /\ sink'[s] = Append(sink[s], c)
    BY <2>3, <2>4 DEF StreamInv, StreamTypes
  <2>6. /\ Len(sink[s]) = d.count /\ Len(sink'[s]) = d.count + 1
        /\ sink'[s][d.count + 1] = c
        /\ \A i \in 1 .. d.count : sink'[s][i] = sink[s][i]
    BY <1>1, <1>5, <1>11, <2>2, <2>5, ReadingStage DEF Begun
  <2>7. Begun(s, d.count)'
    <3>1. ASSUME NEW i \in 1 .. d.count
          PROVE  sink'[s][i + 1] = Stream!Chunk(s, i - 1, given'[s][i], FALSE)
      <4>1. CASE i = d.count
        BY <1>9, <2>1, <2>2, <2>6, <4>1
      <4>2. CASE i # d.count
        <5>1. i \in 1 .. d.count - 1 /\ i + 1 \in 1 .. d.count
          BY <1>5, <4>2
        <5> QED BY <1>9, <2>2, <2>6, <5>1 DEF Begun
      <4> QED BY <4>1, <4>2
    <3> QED BY <2>6, <3>1 DEF Begun, Stream!Chunk
  <2>8. EncodingInv(s)'
    BY <1>5, <1>6, <1>8, <1>9, <2>7 DEF EncodingInv
  <2>9. \A t \in Streams : t # s => given'[t] = given[t] /\ sink'[t] = sink[t]
    BY <1>7, <2>4 DEF StreamInv, StreamTypes
  <2> QED BY <1>1, <1>5, <1>7, <1>8, <2>5, <2>8, <2>9, EncodeKeeps DEF Stream!Becomes
<1> QED BY <1>10, <1>11

LEMMA FinishKeeps ==
  ASSUME StreamInv, NEW s \in Streams, Stream!Finish(s)
  PROVE  StreamInv'
<1>1. enc[s].pc = "reading"
  BY DEF Stream!Finish
<1>2. PICK d \in Encoding : d = enc[s]
  BY <1>1, ReadingStage
<1>3. PICK e : e = [d EXCEPT !.pc = "manifest"]
  OBVIOUS
<1>4. /\ e \in Encoding /\ e.pc = "manifest" /\ e.count = d.count /\ e.pending = d.pending
      /\ d.count \in Nat
  BY <1>1, <1>2, <1>3 DEF Encoding
<1>5. PICK n : n = IF d.count = 0 THEN 1 ELSE d.count
  OBVIOUS
<1>6. PICK last : last = IF d.count = 0 THEN "empty" ELSE given[s][d.count]
  OBVIOUS
<1>7. n \in Nat \ {0} /\ last \in Payloads \cup {"empty"}
  BY <1>1, <1>2, <1>4, <1>5, <1>6, ReadingStage
<1>8. PICK c : c = Stream!Chunk(s, n - 1, last, TRUE)
  OBVIOUS
<1>9. c \in Staged
  BY <1>7, <1>8 DEF Stream!Chunk, Staged
<1>10. sink' = [sink EXCEPT ![s] = Append(sink[s], c)]
  <2>1. d.count = 0 <=> d.pending = Stream!Nothing
    BY <1>1, <1>2, ReadingStage
  <2>2. d.count # 0 => Stream!Pending(s).content = last
    BY <1>1, <1>2, <1>6, ReadingStage
  <2>3. CASE d.count = 0
    <3>1. n - 1 = 0 /\ last = "empty" /\ c = Stream!Chunk(s, 0, "empty", TRUE)
      BY <1>5, <1>6, <1>8, <2>3
    <3>2. Stream!Stages(s, Stream!Chunk(s, 0, "empty", TRUE))
      BY <1>2, <2>1, <2>3 DEF Stream!Finish
    <3> QED BY <3>1, <3>2 DEF Stream!Stages
  <2>4. CASE d.count # 0
    BY <1>2, <1>5, <1>8, <2>1, <2>2, <2>4 DEF Stream!Finish, Stream!Stages
  <2> QED BY <2>3, <2>4
<1>11. enc' = [enc EXCEPT ![s] = e] /\ UNCHANGED <<given, buffer, manifests, dec>>
  BY <1>2, <1>3 DEF Stream!Finish, Stream!Becomes
<1>12. /\ sink' \in [Streams -> Seq(Staged)] /\ sink'[s] = Append(sink[s], c) /\ enc'[s] = e
  BY <1>9, <1>10, <1>11 DEF StreamInv, StreamTypes
<1>13. Begun(s, n - 1) /\ Len(sink[s]) = n
  <2>1. Begun(s, n - 1)
    <3>1. CASE d.count = 0
      <4>1. Begun(s, 0) /\ n - 1 = 0
        BY <1>1, <1>2, <1>5, <3>1, ReadingStage
      <4> QED BY <4>1
    <3>2. CASE d.count # 0
      BY <1>1, <1>2, <1>5, <3>2, ReadingStage
    <3> QED BY <3>1, <3>2
  <2>2. Len(sink[s]) = n - 1 + 1
    BY <2>1 DEF Begun
  <2> QED BY <1>7, <2>1, <2>2
<1>14. /\ Len(sink'[s]) = n + 1 /\ sink'[s][n + 1] = c
       /\ \A i \in 1 .. n : sink'[s][i] = sink[s][i]
  BY <1>1, <1>7, <1>12, <1>13, ReadingStage
<1>15. Stream!Manifest(s)'.count = n
  BY <1>4, <1>5, <1>12 DEF Stream!Manifest
<1>16. ASSUME NEW i \in 1 .. n
       PROVE  sink'[s][i + 1] = Stream!Chunk(s, i - 1,
                  IF given[s] = <<>> THEN "empty" ELSE given[s][i],
                                             i = n)
  <2>1. given[s] = <<>> <=> d.count = 0
    BY <1>1, <1>2, ReadingStage
  <2>2. CASE i = n
    <3>1. last = IF given[s] = <<>> THEN "empty" ELSE given[s][i]
      BY <1>5, <1>6, <2>1, <2>2
    <3>2. (i = n) = TRUE
      BY <2>2
    <3> QED BY <1>8, <1>14, <2>2, <3>1, <3>2
  <2>3. CASE i # n
    <3>1. i \in 1 .. n - 1 /\ i + 1 \in 1 .. n /\ d.count # 0
      BY <1>5, <1>7, <2>3
    <3>2. sink[s][i + 1] = Stream!Chunk(s, i - 1, given[s][i], FALSE)
      BY <1>13, <3>1 DEF Begun
    <3>3. (i = n) = FALSE
      BY <2>3
    <3> QED BY <1>14, <2>1, <3>1, <3>2, <3>3
  <2> QED BY <2>2, <2>3
<1>17. EncodingInv(s)'
  <2>1. Staging(s)'
    BY <1>11, <1>14, <1>15, <1>16 DEF Staging, Stream!Chunk
  <2>2. Len(given'[s]) = e.count
    BY <1>1, <1>2, <1>4, <1>11, ReadingStage
  <2> QED BY <1>4, <1>12, <2>1, <2>2 DEF EncodingInv
<1>18. \A t \in Streams : t # s => given'[t] = given[t] /\ sink'[t] = sink[t]
  BY <1>10, <1>11 DEF StreamInv, StreamTypes
<1> QED BY <1>1, <1>4, <1>11, <1>12, <1>17, <1>18, EncodeKeeps DEF Stream!Becomes, StreamInv,
                                                                   StreamTypes

LEMMA AbortKeeps ==
  ASSUME StreamInv, NEW s \in Streams, Stream!Abort(s)
  PROVE  StreamInv'
<1>1. PICK d \in Encoding : d = enc[s]
  BY DEF StreamInv, StreamTypes
<1>2. PICK e : e = [d EXCEPT !.pc = "aborted"]
  OBVIOUS
<1>3. e \in Encoding /\ e.pc = "aborted" /\ e.count = d.count
  BY <1>2 DEF Encoding
<1>4. enc' = [enc EXCEPT ![s] = e] /\ UNCHANGED <<given, buffer, sink, manifests, dec>>
  BY <1>1, <1>2 DEF Stream!Abort, Stream!Becomes
<1>5. enc'[s] = e /\ Len(given[s]) = d.count
  BY <1>1, <1>4 DEF StreamInv, StreamTypes, EncodingInv
<1>6. EncodingInv(s)'
  BY <1>3, <1>4, <1>5 DEF EncodingInv
<1> QED BY <1>3, <1>4, <1>6, EncodeKeeps DEF Stream!Abort, Stream!Becomes, StreamInv,
                                             StreamTypes

LEMMA CommitKeeps ==
  ASSUME StreamInv, NEW s \in Streams, Stream!Commit(s)
  PROVE  StreamInv'
<1>1. PICK d \in Encoding : d = enc[s]
  BY DEF StreamInv, StreamTypes
<1>2. PICK e : e = [d EXCEPT !.pc = "committed"]
  OBVIOUS
<1>3. e \in Encoding /\ e.pc = "committed" /\ e.count = d.count /\ d.count \in Nat
  BY <1>2 DEF Encoding
<1>4. /\ enc' = [enc EXCEPT ![s] = e] /\ manifests' = manifests \cup {Stream!Manifest(s)}
      /\ UNCHANGED <<given, buffer, sink, dec>>
  BY <1>1, <1>2 DEF Stream!Commit, Stream!Becomes
<1>5. enc'[s] = e /\ d.pc = "manifest"
  BY <1>1, <1>4 DEF StreamInv, StreamTypes, Stream!Commit
<1>6. Stream!Manifest(s)' = Stream!Manifest(s)
  BY <1>1, <1>3, <1>4, <1>5 DEF Stream!Manifest
<1>7. Stream!Manifest(s) \in Manifests
  BY <1>1, <1>3 DEF Stream!Manifest, Manifests, StreamInv, StreamTypes
<1>8. StreamTypes'
  BY <1>3, <1>4, <1>7 DEF StreamInv, StreamTypes
<1>9. ASSUME NEW t \in Streams
      PROVE  EncodingInv(t)' /\ (t # s => Stream!Manifest(t)' = Stream!Manifest(t))
  <2>1. CASE t = s
    <3>1. Len(given[s]) = d.count /\ Staging(s)
      BY <1>1, <1>5 DEF StreamInv, EncodingInv
    <3>2. Staging(s)'
      BY <1>4, <1>6, <3>1 DEF Staging
    <3> QED BY <1>3, <1>4, <1>5, <2>1, <3>1, <3>2 DEF EncodingInv
  <2>2. CASE t # s
    <3>1. enc'[t] = enc[t] /\ EncodingInv(t)
      BY <1>4, <2>2 DEF StreamInv, StreamTypes
    <3>2. Stream!Manifest(t)' = Stream!Manifest(t)
      BY <1>4, <3>1 DEF Stream!Manifest
    <3>3. /\ Staging(t) => Staging(t)'
          /\ \A n \in Nat : Begun(t, n) => Begun(t, n)'
      BY <1>4, <3>2 DEF Staging, Begun, Stream!Chunk
    <3>4. enc[t] \in Encoding
      BY DEF StreamInv, StreamTypes
    <3>5. enc[t].count \in Nat /\ (enc[t].count # 0 => enc[t].count - 1 \in Nat)
      BY <3>4 DEF Encoding
    <3>6. EncodingInv(t)'
      BY <1>4, <3>1, <3>3, <3>5 DEF EncodingInv
    <3> QED BY <3>2, <3>6
  <2> QED BY <2>1, <2>2
<1>10. ASSUME NEW m \in manifests'
       PROVE  enc'[m.stream].pc = "committed" /\ m = Stream!Manifest(m.stream)'
  <2>1. CASE m = Stream!Manifest(s)
    <3>1. m.stream = s
      BY <2>1 DEF Stream!Manifest
    <3> QED BY <1>3, <1>5, <1>6, <2>1, <3>1
  <2>2. CASE m \in manifests
    <3>1. m.stream \in Streams /\ m.stream # s
      BY <1>1, <1>5, <2>2 DEF StreamInv, StreamTypes, Manifests
    <3> QED BY <1>4, <1>9, <2>2, <3>1 DEF StreamInv, StreamTypes
  <2> QED BY <1>4, <2>1, <2>2
<1> QED BY <1>4, <1>8, <1>9, <1>10 DEF StreamInv

\* A step of the decryption.
LEMMA DecodeKeeps ==
  ASSUME StreamInv, dec' \in Decoding, dec'.manifest \in manifests,
         dec'.pc = "committed" => Stream!Bytes(dec'.got) = dec'.manifest.content,
         UNCHANGED <<given, buffer, enc, sink, manifests>>
  PROVE  StreamInv'
<1>1. StreamTypes'
  BY DEF StreamInv, StreamTypes
<1>2. \A s \in Streams : EncodingInv(s)'
  BY DEF StreamInv, EncodingInv, Begun, Staging, Stream!Manifest, Stream!Chunk
<1> QED BY <1>1, <1>2 DEF StreamInv, Stream!Manifest

LEMMA OpenKeeps ==
  ASSUME StreamInv, NEW m \in manifests, Stream!Open(m)
  PROVE  StreamInv'
<1>1. m \in Manifests
  BY DEF StreamInv, StreamTypes
<1>2. PICK d : d = [pc |-> "open", manifest |-> m, stream |-> "none", next |-> 0,
                    final |-> FALSE, got |-> <<>>]
  OBVIOUS
<1>3. d \in Decoding /\ d.manifest = m /\ d.pc = "open" /\ dec' = d
  BY <1>1, <1>2 DEF Decoding, Stream!Open
<1> QED BY <1>3, DecodeKeeps DEF Stream!Open

LEMMA OfferKeeps ==
  ASSUME StreamInv, NEW r \in Stream!Records, Stream!Offer(r)
  PROVE  StreamInv'
<1>1. PICK d \in Decoding : d = dec
  BY DEF Stream!Offer, StreamInv, StreamTypes
<1>2. d.manifest \in manifests /\ r \in Staged
  BY <1>1 DEF Stream!Offer, StreamInv, StreamTypes, Stream!Records
<1>3. CASE dec' = [d EXCEPT !.pc = "aborted", !.got = <<>>]
  <2>1. dec' \in Decoding /\ dec'.manifest = d.manifest /\ dec'.pc = "aborted"
    <3>1. <<>> \in Seq(Payloads \cup {"empty"})
      OBVIOUS
    <3> QED BY <1>3, <3>1 DEF Decoding
  <2> QED BY <1>2, <2>1, DecodeKeeps DEF Stream!Offer
<1>4. CASE r.is = "header" /\ dec' = [d EXCEPT !.stream = r.stream]
  <2>1. r.stream \in Streams
    BY <1>2, <1>4 DEF Staged
  <2>2. dec' \in Decoding /\ dec'.manifest = d.manifest /\ dec'.pc = d.pc
    BY <1>4, <2>1 DEF Decoding
  <2> QED BY <1>1, <1>2, <2>2, DecodeKeeps DEF Stream!Offer
<1>5. CASE /\ r.is # "header"
           /\ dec' = [d EXCEPT !.next = d.next + 1, !.final = r.final,
                               !.got = Append(d.got, r.content)]
  <2>1. r.final \in BOOLEAN /\ r.content \in Payloads \cup {"empty"}
    BY <1>2, <1>5 DEF Staged
  <2>2. d.next + 1 \in Nat /\ Append(d.got, r.content) \in Seq(Payloads \cup {"empty"})
    BY <2>1 DEF Decoding
  <2>3. dec' \in Decoding /\ dec'.manifest = d.manifest /\ dec'.pc = d.pc
    BY <1>5, <2>1, <2>2 DEF Decoding
  <2> QED BY <1>1, <1>2, <2>3, DecodeKeeps DEF Stream!Offer
<1> QED BY <1>1, <1>3, <1>4, <1>5 DEF Stream!Offer, Stream!Fails

LEMMA EndKeeps ==
  ASSUME StreamInv, Stream!End
  PROVE  StreamInv'
<1>1. PICK d \in Decoding : d = dec
  BY DEF Stream!End, StreamInv, StreamTypes
<1>2. d.manifest \in manifests
  BY <1>1 DEF Stream!End, StreamInv
<1>3. CASE dec' = [d EXCEPT !.pc = "aborted", !.got = <<>>]
  <2>1. dec' \in Decoding /\ dec'.manifest = d.manifest /\ dec'.pc = "aborted"
    <3>1. <<>> \in Seq(Payloads \cup {"empty"})
      OBVIOUS
    <3> QED BY <1>3, <3>1 DEF Decoding
  <2> QED BY <1>2, <2>1, DecodeKeeps DEF Stream!End
<1>4. CASE Stream!Bytes(d.got) = d.manifest.content /\ dec' = [d EXCEPT !.pc = "committed"]
  <2>1. dec' \in Decoding /\ dec'.manifest = d.manifest /\ dec'.got = d.got
    BY <1>4 DEF Decoding
  <2> QED BY <1>2, <1>4, <2>1, DecodeKeeps DEF Stream!End
<1> QED BY <1>1, <1>3, <1>4 DEF Stream!End, Stream!Fails, Stream!Complete

LEMMA StreamStep == StreamInv /\ [Stream!Next]_(Stream!vars) => StreamInv'
<1> SUFFICES ASSUME StreamInv, [Stream!Next]_(Stream!vars) PROVE StreamInv'
  OBVIOUS
<1>1. CASE \E s \in Streams : Stream!Start(s)
  BY <1>1, EncodingStarts
<1>2. CASE \E s \in Streams : Stream!Take(s)
  BY <1>2, TakeKeeps
<1>3. CASE \E s \in Streams : Stream!Finish(s)
  BY <1>3, FinishKeeps
<1>4. CASE \E s \in Streams : Stream!Commit(s)
  BY <1>4, CommitKeeps
<1>5. CASE \E s \in Streams : Stream!Abort(s)
  BY <1>5, AbortKeeps
<1>6. CASE \E s \in Streams, what \in Payloads : Stream!Fill(s, what)
  <2>1. StreamTypes'
    BY <1>6 DEF Stream!Fill, StreamInv, StreamTypes
  <2>2. \A s \in Streams : EncodingInv(s)'
    BY <1>6 DEF Stream!Fill, StreamInv, EncodingInv, Begun, Staging, Stream!Manifest,
                Stream!Chunk
  <2> QED BY <1>6, <2>1, <2>2 DEF Stream!Fill, StreamInv, Stream!Manifest
<1>7. CASE \E m \in manifests : Stream!Open(m)
  BY <1>7, OpenKeeps
<1>8. CASE \E r \in Stream!Records : Stream!Offer(r)
  BY <1>8, OfferKeeps
<1>9. CASE Stream!End
  BY <1>9, EndKeeps
<1>10. CASE UNCHANGED Stream!vars
  <2>1. StreamTypes' /\ \A s \in Streams : EncodingInv(s)'
    BY <1>10 DEF Stream!vars, StreamInv, StreamTypes, EncodingInv, Begun, Staging,
                 Stream!Manifest, Stream!Chunk
  <2> QED BY <1>10, <2>1 DEF Stream!vars, StreamInv, Stream!Manifest
<1> QED BY <1>1, <1>2, <1>3, <1>4, <1>5, <1>6, <1>7, <1>8, <1>9, <1>10 DEF Stream!Next

\* The records of a committed attachment are the whole that its producer gave.
LEMMA CommittedIsWhole ==
  ASSUME Stream!ConstantsFit, StreamInv, NEW m \in manifests
  PROVE  LET chunks == Tail(sink[m.stream])
         IN /\ Stream!Bytes([n \in DOMAIN chunks |-> chunks[n].content]) = given[m.stream]
            /\ Len(chunks) = m.count
            /\ \A n \in DOMAIN chunks : chunks[n].final <=> n = m.count
<1>1. PICK s \in Streams : s = m.stream
  BY DEF StreamInv, StreamTypes, Manifests
<1>2. Staging(s) /\ m = Stream!Manifest(s) /\ Len(given[s]) = enc[s].count
  BY <1>1 DEF StreamInv, EncodingInv
<1>3. /\ given[s] \in Seq(Payloads) /\ sink[s] \in Seq(Staged) /\ enc[s].count \in Nat
      /\ m.count = IF enc[s].count = 0 THEN 1 ELSE enc[s].count
  BY <1>2 DEF StreamInv, StreamTypes, Encoding, Stream!Manifest
<1>4. PICK chunks : chunks = Tail(sink[s])
  OBVIOUS
<1>5. m.count \in Nat \ {0} /\ Len(sink[s]) = m.count + 1
  BY <1>2, <1>3 DEF Staging
<1>6. /\ Len(chunks) = m.count /\ DOMAIN chunks = 1 .. m.count
      /\ \A n \in 1 .. m.count : chunks[n] = sink[s][n + 1]
  BY <1>3, <1>4, <1>5
<1>7. ASSUME NEW n \in 1 .. m.count
      PROVE  /\ chunks[n].content = IF given[s] = <<>> THEN "empty" ELSE given[s][n]
             /\ chunks[n].final = (n = m.count)
  <2>1. chunks[n] = Stream!Chunk(s, n - 1, IF given[s] = <<>> THEN "empty" ELSE given[s][n],
                                 n = m.count)
    BY <1>2, <1>6 DEF Staging
  <2> QED BY <2>1 DEF Stream!Chunk
<1>8. PICK got : got = [n \in DOMAIN chunks |-> chunks[n].content]
  OBVIOUS
<1>9. Stream!Bytes(got) = given[s]
  <2>1. CASE enc[s].count = 0
    <3>1. given[s] = <<>> /\ m.count = 1
      BY <1>2, <1>3, <2>1
    <3>2. got = [n \in 1 .. 1 |-> "empty"]
      BY <1>6, <1>7, <1>8, <3>1
    <3>3. got = <<"empty">>
      BY <3>2
    <3> QED BY <3>1, <3>3 DEF Stream!Bytes
  <2>2. CASE enc[s].count # 0
    <3>1. given[s] # <<>> /\ m.count = Len(given[s])
      BY <1>2, <1>3, <2>2
    <3>2. got = [n \in 1 .. Len(given[s]) |-> given[s][n]]
      BY <1>6, <1>7, <1>8, <3>1
    <3>3. got = given[s]
      BY <1>3, <3>2
    <3>4. given[s][1] \in Payloads
      BY <1>2, <1>3, <2>2
    <3>5. given[s] # <<"empty">>
      BY <3>4 DEF Stream!ConstantsFit
    <3> QED BY <3>3, <3>5 DEF Stream!Bytes
  <2> QED BY <2>1, <2>2
<1> QED BY <1>1, <1>4, <1>6, <1>7, <1>8, <1>9

\* A sink that committed has the attachment its producer gave, whatever records were
\* offered; and so have the records of every committed attachment, in their order.
THEOREM WholeStreams ==
  ASSUME Stream!ConstantsFit
  PROVE  Stream!Spec => []Stream!OnlyWholeStreams
<1>1. StreamInv => Stream!OnlyWholeStreams
  <2> SUFFICES ASSUME StreamInv PROVE Stream!OnlyWholeStreams
    OBVIOUS
  <2>1. dec # Stream!None => dec.manifest.content = given[dec.manifest.stream]
    BY DEF StreamInv, Stream!Manifest
  <2>2. dec # Stream!None /\ dec.pc = "committed"
            => Stream!Bytes(dec.got) = given[dec.manifest.stream]
    BY <2>1 DEF StreamInv
  <2> QED BY <2>2, CommittedIsWhole DEF Stream!OnlyWholeStreams
<1> QED BY <1>1, StreamInit, StreamStep, PTL DEF Stream!Spec

\* The old key goes when every record is replaced, and a sink that committed has the
\* attachment, whole.
DataIsWhole == Rotate!RetiredMeansReplaced /\ Stream!OnlyWholeStreams

\* Both, of a rotation and of streams that know nothing of each other.
THEOREM NothingIsCutShort ==
  ASSUME Rotate!ConstantsFit, Stream!ConstantsFit
  PROVE  Rotate!Spec /\ Stream!Spec => []DataIsWhole
<1>1. Rotate!RetiredMeansReplaced /\ Stream!OnlyWholeStreams => DataIsWhole
  BY DEF DataIsWhole
<1> QED BY <1>1, KeyGoesLast, WholeStreams, PTL

-----------------------------------------------------------------------------
(* SessionUnlock: sessions of targets that may share a session file.        *)

CONSTANTS Targets, FileOf, Ttls, MaxSessions, MaxNow
VARIABLES sealed, keychain, session, unlock, ended, revoked, now, unlockFaults

Unlock == INSTANCE SessionUnlock WITH file <- session, proc <- unlock, faults <- unlockFaults

Sealed    == [target : Targets, created : Nat, ttl : Nat]
Numbers   == 1 .. Len(sealed)
Enabling  == [pc : {"unlink", "publish", "store"}, target : Targets, session : Nat]
Removing  == [pc : {"remove"}, target : Targets, enabled : SUBSET Nat]
Reading   == [pc : {"read"}, target : Targets, key : Nat, revoked : SUBSET Nat]
Unlocked  == [pc : {"opened"}, target : Targets, session : Nat, revoked : SUBSET Nat, at : Nat]

UnlockTypes ==
  /\ sealed \in Seq(Sealed) /\ now \in Nat /\ unlockFaults \in {0, 1} /\ unlockFaults <= MaxFaults
  /\ keychain \in [Targets -> Nat] /\ session \in [Unlock!Files -> Nat]
  /\ unlock \in [Procs -> {Unlock!Idle} \cup Enabling \cup Removing \cup Reading \cup Unlocked]
  /\ ended \subseteq Numbers /\ revoked \subseteq ended

\* An account has a key of its own target, of a session that was enabled.
KeychainInv == \A t \in Targets : keychain[t] # Unlock!None =>
                 keychain[t] \in ended /\ sealed[keychain[t]].target = t

\* The file of a target does not have the session, and no copy is put back any more.
FileLost(t, s) == session[FileOf[t]] # s /\ unlockFaults = MaxFaults

\* One half of a revoked session is gone.
RevokedInv == \A s \in revoked : LET t == sealed[s].target
                                 IN keychain[t] # s \/ FileLost(t, s)

\* What an enabling command seals is its own, and not yet enabled.
EnablingInv(c) == c \in Enabling =>
  c.session \in Numbers /\ c.session \notin ended /\ sealed[c.session].target = c.target

\* A revocation removed the key, or that was the fault.
RemovingInv(c) == c \in Removing =>
  /\ c.enabled \subseteq ended /\ \A s \in c.enabled : sealed[s].target = c.target
  /\ (\A s \in c.enabled : keychain[c.target] # s) \/ unlockFaults = MaxFaults

\* A key that was read before the revocation ended opens no file that is left.
ReadingInv(c) == c \in Reading =>
  /\ c.key \in ended /\ sealed[c.key].target = c.target /\ c.revoked \subseteq ended
  /\ c.key \in c.revoked => FileLost(c.target, c.key)

OpenedInv(c) == c \in Unlocked =>
  /\ c.session \in ended
  /\ sealed[c.session].target = c.target
  /\ c.at - sealed[c.session].created <= sealed[c.session].ttl
  /\ c.session \notin c.revoked

CommandInv(c) == EnablingInv(c) /\ RemovingInv(c) /\ ReadingInv(c) /\ OpenedInv(c)

UnlockInv ==
  /\ UnlockTypes /\ KeychainInv /\ RevokedInv
  /\ \A p \in Procs : CommandInv(unlock[p])
  /\ \A p, q \in Procs : unlock[p] \in Enabling /\ unlock[q] \in Enabling
                         /\ unlock[p].session = unlock[q].session => p = q

-----------------------------------------------------------------------------
\* What is sealed stays as it is.
Grows == /\ sealed' \in Seq(Sealed) /\ Len(sealed) <= Len(sealed')
         /\ \A s \in Numbers : sealed'[s] = sealed[s]

\* The kinds of commands are told apart.
LEMMA KindsDiffer ==
  \A c : /\ c \in Enabling => c \notin Removing \cup Reading \cup Unlocked /\ c # Unlock!Idle
         /\ c \in Removing => c \notin Reading \cup Unlocked /\ c # Unlock!Idle
         /\ c \in Reading => c \notin Unlocked /\ c # Unlock!Idle
         /\ c \in Unlocked => c # Unlock!Idle
<1>1. \A c \in Enabling : c.pc \in {"unlink", "publish", "store"}
  BY DEF Enabling
<1>2. \A c \in Removing : c.pc = "remove"
  BY DEF Removing
<1>3. \A c \in Reading : c.pc = "read"
  BY DEF Reading
<1>4. \A c \in Unlocked : c.pc = "opened"
  BY DEF Unlocked
<1>5. Unlock!Idle.pc = "idle"
  BY DEF Unlock!Idle
<1> QED BY <1>1, <1>2, <1>3, <1>4, <1>5

LEMMA IdleIsFine == CommandInv(Unlock!Idle)
BY KindsDiffer DEF CommandInv, EnablingInv, RemovingInv, ReadingInv, OpenedInv

LEMMA FilesAreNamed == \A t \in Targets : FileOf[t] \in Unlock!Files
BY DEF Unlock!Files

LEMMA UnlockInit == Unlock!ConstantsFit /\ Unlock!Init => UnlockInv
<1> SUFFICES ASSUME Unlock!ConstantsFit, Unlock!Init PROVE UnlockInv
  OBVIOUS
<1>1. UnlockTypes
  BY DEF Unlock!ConstantsFit, Unlock!Init, UnlockTypes, Unlock!None
<1>2. \A p \in Procs : unlock[p] = Unlock!Idle
  BY DEF Unlock!Init
<1>3. \A p \in Procs : CommandInv(unlock[p]) /\ unlock[p] \notin Enabling
  BY <1>2, IdleIsFine, KindsDiffer
<1> QED BY <1>1, <1>3 DEF Unlock!Init, UnlockInv, KeychainInv, RevokedInv

\* A command that does not move keeps what it knows, if keys go or come new and the
\* files only get sessions that were not enabled.
LEMMA OthersKeep ==
  ASSUME Unlock!ConstantsFit, UnlockInv,
         NEW c \in {Unlock!Idle} \cup Enabling \cup Removing \cup Reading \cup Unlocked,
         CommandInv(c), Grows, ended \subseteq ended', unlockFaults' \in {unlockFaults,
             MaxFaults},
         ended' = ended \/ (c \in Enabling => c.session \notin ended'),
         \A t \in Targets : keychain'[t] \in {keychain[t], Unlock!None}
             \/ keychain'[t] \notin ended,
         \/ unlockFaults # MaxFaults
         \/ \A t \in Targets : session'[FileOf[t]] \in {session[FileOf[t]], Unlock!None}
                \/ session'[FileOf[t]] \notin ended
  PROVE  CommandInv(c)'
<1>0. /\ ended \subseteq Numbers /\ Unlock!None = 0 /\ Len(sealed) \in Nat /\ Len(sealed') \in Nat
      /\ unlockFaults = MaxFaults => unlockFaults' = MaxFaults
  BY DEF UnlockInv, UnlockTypes, Unlock!None, Grows
<1>1. Numbers \subseteq Numbers' /\ \A s \in ended : sealed'[s] = sealed[s] /\ s # Unlock!None
  BY <1>0 DEF Numbers, Grows
<1>2. EnablingInv(c)'
  BY <1>1 DEF CommandInv, EnablingInv, Enabling, Grows
<1>3. RemovingInv(c)'
  <2> SUFFICES ASSUME c \in Removing PROVE RemovingInv(c)'
    BY DEF RemovingInv
  <2>1. /\ c.enabled \subseteq ended /\ \A s \in c.enabled : sealed[s].target = c.target
        /\ (\A s \in c.enabled : keychain[c.target] # s) \/ unlockFaults = MaxFaults
        /\ c.target \in Targets
    BY DEF CommandInv, RemovingInv, Removing
  <2>2. ASSUME \A s \in c.enabled : keychain[c.target] # s, NEW s \in c.enabled
        PROVE  keychain'[c.target] # s
    BY <1>1, <2>1, <2>2
  <2> QED BY <1>0, <1>1, <2>1, <2>2 DEF RemovingInv
<1>4. ReadingInv(c)'
  <2> SUFFICES ASSUME c \in Reading PROVE ReadingInv(c)'
    BY DEF ReadingInv
  <2>1. /\ c.key \in ended /\ sealed[c.key].target = c.target /\ c.revoked \subseteq ended
        /\ c.key \in c.revoked => FileLost(c.target, c.key)
        /\ c.target \in Targets
    BY DEF CommandInv, ReadingInv, Reading
  <2>2. ASSUME c.key \in c.revoked PROVE FileLost(c.target, c.key)'
    BY <1>0, <1>1, <2>1, <2>2 DEF FileLost
  <2> QED BY <1>1, <2>1, <2>2 DEF ReadingInv
<1>5. OpenedInv(c)'
  BY <1>1 DEF CommandInv, OpenedInv
<1> QED BY <1>2, <1>3, <1>4, <1>5 DEF CommandInv

LEMMA RevokedKeeps ==
  ASSUME Unlock!ConstantsFit, UnlockInv, Grows, revoked' = revoked,
         unlockFaults' \in {unlockFaults, MaxFaults},
         \A t \in Targets : keychain'[t] \in {keychain[t], Unlock!None}
             \/ keychain'[t] \notin ended,
         \/ unlockFaults # MaxFaults
         \/ \A t \in Targets : session'[FileOf[t]] \in {session[FileOf[t]], Unlock!None}
                \/ session'[FileOf[t]] \notin ended
  PROVE  RevokedInv'
<1> SUFFICES ASSUME NEW s \in revoked
             PROVE  (LET t == sealed[s].target IN keychain[t] # s \/ FileLost(t, s))'
  BY DEF RevokedInv
<1>1. s \in ended /\ s \in Numbers /\ s # Unlock!None /\ sealed[s] \in Sealed
  BY DEF UnlockInv, UnlockTypes, Numbers, Unlock!None
<1>2. PICK t \in Targets : t = sealed[s].target /\ t = sealed'[s].target
  BY <1>1 DEF Grows, Sealed
<1>3. keychain[t] # s \/ FileLost(t, s)
  BY <1>2 DEF UnlockInv, RevokedInv
<1>4. keychain[t] # s => keychain'[t] # s
  BY <1>1
<1>5. FileLost(t, s) => FileLost(t, s)'
  BY <1>1 DEF FileLost
<1> QED BY <1>2, <1>3, <1>4, <1>5

\* The step of one command, from what it becomes and what the others see.
LEMMA CommandMoves ==
  ASSUME Unlock!ConstantsFit, UnlockInv, NEW p \in Procs,
         NEW c \in {Unlock!Idle} \cup Enabling \cup Removing \cup Reading \cup Unlocked,
             Unlock!Becomes(p, c),
         UnlockTypes', KeychainInv', RevokedInv', CommandInv(c)', Grows,
         c \in Enabling => IF unlock[p] \in Enabling THEN c.session = unlock[p].session
                           ELSE c.session \notin Numbers,
         ended \subseteq ended', unlockFaults' \in {unlockFaults, MaxFaults},
         \A s \in ended' \ ended : unlock[p] \in Enabling /\ unlock[p].session = s,
         \A t \in Targets : keychain'[t] \in {keychain[t], Unlock!None}
             \/ keychain'[t] \notin ended,
         \/ unlockFaults # MaxFaults
         \/ \A t \in Targets : session'[FileOf[t]] \in {session[FileOf[t]], Unlock!None}
                \/ session'[FileOf[t]] \notin ended
  PROVE  UnlockInv'
<1>1. unlock' = [unlock EXCEPT ![p] = c]
      /\ unlock \in [Procs -> {Unlock!Idle} \cup Enabling \cup Removing \cup Reading \cup Unlocked]
  BY DEF Unlock!Becomes, UnlockInv, UnlockTypes
<1>2. ASSUME NEW q \in Procs, q # p PROVE CommandInv(unlock[q])'
  <2>1. PICK d : d = unlock[q]
    OBVIOUS
  <2>2. CommandInv(d)
            /\ d \in {Unlock!Idle} \cup Enabling \cup Removing \cup Reading \cup Unlocked
    BY <1>1, <2>1 DEF UnlockInv
  <2>3. d \in Enabling => d.session \notin ended'
    BY <1>1, <1>2, <2>1, <2>2 DEF UnlockInv, CommandInv, EnablingInv
  <2>4. CommandInv(d)'
    BY <2>2, <2>3, OthersKeep
  <2>5. unlock'[q] = d
    BY <1>1, <1>2, <2>1
  <2> QED BY <2>4, <2>5
<1>3. CommandInv(unlock[p])'
  BY <1>1
<1>4. ASSUME NEW q \in Procs, NEW r \in Procs, unlock'[q] \in Enabling, unlock'[r] \in Enabling,
             unlock'[q].session = unlock'[r].session
      PROVE  q = r
  <2>1. \A q1 \in Procs : unlock[q1] \in Enabling => unlock[q1].session \in Numbers
    BY DEF UnlockInv, CommandInv, EnablingInv
  <2> QED BY <1>1, <1>4, <2>1 DEF UnlockInv
<1>5. \A q \in Procs : CommandInv(unlock[q])'
  BY <1>2, <1>3
<1> QED BY <1>4, <1>5 DEF UnlockInv

-----------------------------------------------------------------------------
\* Where a command is.
LEMMA AtPlace ==
  ASSUME UnlockTypes, NEW p \in Procs
  PROVE  /\ unlock[p].pc \in {"unlink", "publish", "store"} => unlock[p] \in Enabling
         /\ unlock[p].pc = "remove" => unlock[p] \in Removing
         /\ unlock[p].pc = "read" => unlock[p] \in Reading
         /\ unlock[p].pc = "opened" => unlock[p] \in Unlocked
<1>1. unlock[p] \in {Unlock!Idle} \cup Enabling \cup Removing \cup Reading \cup Unlocked
  BY DEF UnlockTypes
<1> QED BY <1>1 DEF Unlock!Idle, Enabling, Removing, Reading, Unlocked

LEMMA SealedStays == ASSUME UnlockTypes, sealed' = sealed PROVE Grows
BY DEF UnlockTypes, Grows

LEMMA EnableKeeps ==
  ASSUME Unlock!ConstantsFit, UnlockInv, NEW p \in Procs, NEW t \in Targets, NEW ttl \in Ttls,
         Unlock!BeginEnable(p, t, ttl)
  PROVE  UnlockInv'
<1>1. PICK s : s = [target |-> t, created |-> now, ttl |-> ttl]
  OBVIOUS
<1>2. s \in Sealed /\ s.target = t
  BY <1>1 DEF Unlock!ConstantsFit, Sealed, UnlockInv, UnlockTypes
<1>3. sealed' = Append(sealed, s) /\ UNCHANGED <<keychain, session, ended, revoked, now,
          unlockFaults>>
  BY <1>1 DEF Unlock!BeginEnable
<1>4. /\ sealed' \in Seq(Sealed) /\ Len(sealed') = Len(sealed) + 1 /\ Len(sealed) \in Nat
      /\ sealed'[Len(sealed) + 1] = s /\ \A i \in Numbers : sealed'[i] = sealed[i]
  BY <1>2, <1>3 DEF UnlockInv, UnlockTypes, Numbers
<1>5. Grows /\ Numbers \subseteq Numbers' /\ Len(sealed) + 1 \notin Numbers
  BY <1>4 DEF Grows, Numbers
<1>6. PICK c : c = [pc |-> "unlink", target |-> t, session |-> Len(sealed) + 1]
  OBVIOUS
<1>7. /\ c \in Enabling /\ c.session = Len(sealed) + 1 /\ c.target = t
      /\ Unlock!Becomes(p, c)
  BY <1>4, <1>6 DEF Enabling, Unlock!BeginEnable
<1>8. UnlockTypes'
  <2>1. unlock' \in [Procs -> {Unlock!Idle} \cup Enabling \cup Removing \cup Reading \cup Unlocked]
    BY <1>7 DEF Unlock!Becomes, UnlockInv, UnlockTypes
  <2> QED BY <1>3, <1>4, <1>5, <2>1 DEF UnlockInv, UnlockTypes
<1>9. KeychainInv'
  BY <1>3, <1>4 DEF UnlockInv, UnlockTypes, KeychainInv
<1>10. RevokedInv'
  BY <1>3, <1>5, RevokedKeeps
<1>11. CommandInv(c)'
  <2>1. ended \subseteq Numbers
    BY DEF UnlockInv, UnlockTypes
  <2>2. EnablingInv(c)'
    BY <1>2, <1>3, <1>4, <1>5, <1>7, <2>1 DEF EnablingInv, Numbers
  <2> QED BY <1>7, <2>2, KindsDiffer DEF CommandInv, RemovingInv, ReadingInv, OpenedInv
<1>12. unlock[p] \notin Enabling
  BY KindsDiffer DEF Unlock!BeginEnable
<1> QED BY <1>3, <1>5, <1>7, <1>8, <1>9, <1>10, <1>11, <1>12, CommandMoves

\* A step of an enabling command that stores no key.
LEMMA EnablingMoves ==
  ASSUME Unlock!ConstantsFit, UnlockInv, NEW p \in Procs, unlock[p] \in Enabling, NEW c,
         \/ c \in Enabling /\ c.session = unlock[p].session /\ c.target = unlock[p].target
         \/ c = Unlock!Idle,
         Unlock!Becomes(p, c), session' \in [Unlock!Files -> Nat],
         \A t \in Targets : session'[FileOf[t]] \in {session[FileOf[t]], Unlock!None,
             unlock[p].session},
         UNCHANGED <<sealed, keychain, ended, revoked, now, unlockFaults>>
  PROVE  UnlockInv'
<1>1. /\ unlock[p].session \in Numbers /\ unlock[p].session \notin ended
      /\ sealed[unlock[p].session].target = unlock[p].target
  BY DEF UnlockInv, CommandInv, EnablingInv
<1>2. Grows
  BY SealedStays DEF UnlockInv
<1>3. c \in {Unlock!Idle} \cup Enabling \cup Removing \cup Reading \cup Unlocked
  OBVIOUS
<1>4. UnlockTypes'
  <2>1. unlock' \in [Procs -> {Unlock!Idle} \cup Enabling \cup Removing \cup Reading \cup Unlocked]
    BY <1>3 DEF Unlock!Becomes, UnlockInv, UnlockTypes
  <2> QED BY <2>1 DEF UnlockInv, UnlockTypes, Numbers
<1>5. KeychainInv'
  BY DEF UnlockInv, KeychainInv
<1>6. RevokedInv'
  BY <1>1, <1>2, RevokedKeeps
<1>7. CommandInv(c)'
  <2>1. CASE c \in Enabling
    <3>1. EnablingInv(c)'
      BY <1>1, KindsDiffer, <2>1 DEF EnablingInv, Numbers
    <3> QED BY <2>1, <3>1, KindsDiffer DEF CommandInv, RemovingInv, ReadingInv, OpenedInv
  <2>2. CASE c = Unlock!Idle
    BY <2>2, KindsDiffer DEF CommandInv, EnablingInv, RemovingInv, ReadingInv, OpenedInv
  <2> QED BY <2>1, <2>2
<1> QED BY <1>1, <1>2, <1>3, <1>4, <1>5, <1>6, <1>7, KindsDiffer, CommandMoves

LEMMA ClearKeeps ==
  ASSUME Unlock!ConstantsFit, UnlockInv, NEW p \in Procs, Unlock!ClearFile(p)
  PROVE  UnlockInv'
<1>1. PICK d \in Enabling : d = unlock[p]
  BY AtPlace DEF Unlock!ClearFile, UnlockInv
<1>2. PICK c : c = [d EXCEPT !.pc = "publish"]
  OBVIOUS
<1>3. c \in Enabling /\ c.session = d.session /\ c.target = d.target /\ Unlock!Becomes(p, c)
  BY <1>1, <1>2 DEF Enabling, Unlock!ClearFile
<1>4. session' = [session EXCEPT ![FileOf[d.target]] = Unlock!None]
          /\ session \in [Unlock!Files -> Nat]
  BY <1>1 DEF Unlock!ClearFile, UnlockInv, UnlockTypes
<1>5. /\ session' \in [Unlock!Files -> Nat]
      /\ \A t \in Targets : session'[FileOf[t]] \in {session[FileOf[t]], Unlock!None}
  BY <1>4, FilesAreNamed DEF Unlock!None
<1> QED BY <1>1, <1>3, <1>5, EnablingMoves DEF Unlock!ClearFile

LEMMA PublishKeeps ==
  ASSUME Unlock!ConstantsFit, UnlockInv, NEW p \in Procs, Unlock!PublishFile(p)
  PROVE  UnlockInv'
<1>1. PICK d \in Enabling : d = unlock[p]
  BY AtPlace DEF Unlock!PublishFile, UnlockInv
<1>2. CASE /\ session' = [session EXCEPT ![FileOf[d.target]] = d.session]
           /\ Unlock!Becomes(p, [d EXCEPT !.pc = "store"])
  <2>1. PICK c : c = [d EXCEPT !.pc = "store"]
    OBVIOUS
  <2>2. c \in Enabling /\ c.session = d.session /\ c.target = d.target /\ Unlock!Becomes(p, c)
    BY <1>2, <2>1 DEF Enabling
  <2>3. session \in [Unlock!Files -> Nat] /\ d.session \in Nat
    BY DEF UnlockInv, UnlockTypes, Enabling
  <2>4. /\ session' \in [Unlock!Files -> Nat]
        /\ \A t \in Targets : session'[FileOf[t]] \in {session[FileOf[t]], d.session}
    BY <1>2, <2>3, FilesAreNamed
  <2> QED BY <1>1, <2>2, <2>4, EnablingMoves DEF Unlock!PublishFile
<1>3. CASE Unlock!Becomes(p, Unlock!Idle) /\ UNCHANGED session
  BY <1>1, <1>3, EnablingMoves DEF Unlock!PublishFile, UnlockInv, UnlockTypes
<1> QED BY <1>1, <1>2, <1>3 DEF Unlock!PublishFile

\* A command that ends.
LEMMA IdleFinally == CommandInv(Unlock!Idle)'
BY KindsDiffer DEF CommandInv, EnablingInv, RemovingInv, ReadingInv, OpenedInv

LEMMA StoreKeeps ==
  ASSUME Unlock!ConstantsFit, UnlockInv, NEW p \in Procs, Unlock!StoreKey(p)
  PROVE  UnlockInv'
<1>1. PICK d \in Enabling : d = unlock[p]
  BY AtPlace DEF Unlock!StoreKey, UnlockInv
<1>2. Unlock!Becomes(p, Unlock!Idle) /\ UNCHANGED <<sealed, session, revoked, now>>
  BY DEF Unlock!StoreKey
<1>3. CASE UNCHANGED <<keychain, ended, unlockFaults>>
  BY <1>1, <1>2, <1>3, EnablingMoves DEF UnlockInv, UnlockTypes
<1>4. CASE /\ ended' = ended \cup {d.session} /\ unlockFaults' \in {unlockFaults,
                  unlockFaults + 1} /\ unlockFaults' <= MaxFaults
           /\ keychain' \in {keychain, [keychain EXCEPT ![d.target] = d.session]}
  <2>1. /\ d.session \in Numbers /\ d.session \notin ended /\ d.session \in Nat
        /\ sealed[d.session].target = d.target /\ d.target \in Targets
    BY <1>1 DEF UnlockInv, CommandInv, EnablingInv, Enabling
  <2>2. Grows
    BY <1>2, SealedStays DEF UnlockInv
  <2>3. keychain \in [Targets -> Nat]
    BY DEF UnlockInv, UnlockTypes
  <2>4. unlockFaults' \in {0, 1} /\ unlockFaults' \in {unlockFaults, MaxFaults}
    BY <1>4 DEF Unlock!ConstantsFit, UnlockInv, UnlockTypes
  <2>5. UnlockTypes'
    <3>1. unlock' \in [Procs -> {Unlock!Idle} \cup Enabling \cup Removing \cup Reading \cup Unlocked]
      BY <1>2 DEF Unlock!Becomes, UnlockInv, UnlockTypes
    <3>2. keychain' \in [Targets -> Nat]
      BY <1>4, <2>1, <2>3
    <3> QED BY <1>2, <1>4, <2>1, <2>4, <3>1, <3>2 DEF UnlockInv, UnlockTypes, Numbers
  <2>6. \A t \in Targets : keychain'[t] = keychain[t] \/ (t = d.target
            /\ keychain'[t] = d.session)
    BY <1>4, <2>3
  <2>7. KeychainInv'
    BY <1>2, <1>4, <2>1, <2>6 DEF UnlockInv, KeychainInv
  <2>8. \A t \in Targets : keychain'[t] \in {keychain[t], Unlock!None}
            \/ keychain'[t] \notin ended
    BY <2>1, <2>6
  <2>9. RevokedInv'
    BY <1>2, <2>2, <2>4, <2>8, RevokedKeeps
  <2> QED BY <1>1, <1>2, <1>4, <2>2, <2>4, <2>5, <2>7, <2>8, <2>9, KindsDiffer, IdleFinally,
             CommandMoves
<1>5. unlockFaults \in Nat /\ MaxFaults \in Nat /\ unlockFaults <= MaxFaults
  BY DEF Unlock!ConstantsFit, UnlockInv, UnlockTypes
<1>6. CASE keychain' = [keychain EXCEPT ![d.target] = d.session]
               /\ ended' = ended \cup {d.session}
           /\ UNCHANGED unlockFaults
  BY <1>4, <1>5, <1>6
<1>7. CASE Unlock!Fault /\ ended' = ended \cup {d.session} /\ UNCHANGED keychain
  BY <1>4, <1>5, <1>7 DEF Unlock!Fault
<1> QED BY <1>1, <1>3, <1>6, <1>7 DEF Unlock!StoreKey

LEMMA RemoveKeyKeeps ==
  ASSUME Unlock!ConstantsFit, UnlockInv, NEW p \in Procs, NEW t \in Targets,
         Unlock!RemoveKey(p, t)
  PROVE  UnlockInv'
<1>1. PICK c : c = [pc |-> "remove", target |-> t,
               enabled |-> {s \in ended : sealed[s].target = t}]
  OBVIOUS
<1>2. ended \subseteq Nat /\ unlockFaults \in Nat /\ MaxFaults \in {0, 1}
          /\ unlockFaults <= MaxFaults
  BY DEF Unlock!ConstantsFit, UnlockInv, UnlockTypes, Numbers
<1>3. /\ c \in Removing /\ c.enabled = {s \in ended : sealed[s].target = t} /\ c.target = t
      /\ Unlock!Becomes(p, c) /\ UNCHANGED <<sealed, session, ended, revoked, now>>
  BY <1>1, <1>2 DEF Removing, Unlock!RemoveKey
<1>4. Grows /\ keychain \in [Targets -> Nat]
  BY <1>3, SealedStays DEF UnlockInv, UnlockTypes
<1>5. \/ keychain' = [keychain EXCEPT ![t] = Unlock!None] /\ unlockFaults' = unlockFaults
      \/ unlockFaults' = MaxFaults /\ keychain' = keychain
  BY <1>2 DEF Unlock!RemoveKey, Unlock!Fault
<1>6. /\ unlockFaults' \in {unlockFaults, MaxFaults} /\ keychain' \in [Targets -> Nat]
      /\ \A u \in Targets : keychain'[u] \in {keychain[u], Unlock!None}
  BY <1>4, <1>5 DEF Unlock!None
<1>7. UnlockTypes'
  <2>1. unlock' \in [Procs -> {Unlock!Idle} \cup Enabling \cup Removing \cup Reading \cup Unlocked]
    BY <1>3 DEF Unlock!Becomes, UnlockInv, UnlockTypes
  <2> QED BY <1>2, <1>3, <1>6, <2>1 DEF UnlockInv, UnlockTypes, Numbers
<1>8. KeychainInv' /\ RevokedInv'
  BY <1>3, <1>4, <1>6, RevokedKeeps DEF UnlockInv, KeychainInv
<1>9. CommandInv(c)'
  <2>1. (\A s \in c.enabled : keychain'[c.target] # s) \/ unlockFaults' = MaxFaults
    <3>1. CASE keychain' = [keychain EXCEPT ![t] = Unlock!None]
      <4>1. keychain'[t] = Unlock!None /\ Unlock!None \notin ended
        BY <1>4, <3>1 DEF UnlockInv, UnlockTypes, Numbers, Unlock!None
      <4> QED BY <1>3, <4>1
    <3> QED BY <1>5, <3>1
  <2>2. RemovingInv(c)'
    BY <1>3, <2>1 DEF RemovingInv
  <2> QED BY <1>3, <2>2, KindsDiffer DEF CommandInv, EnablingInv, ReadingInv, OpenedInv
<1> QED BY <1>3, <1>4, <1>6, <1>7, <1>8, <1>9, KindsDiffer, CommandMoves

\* Another half of what the command revokes is gone, or the key went before.
LEMMA RemoveFileKeeps ==
  ASSUME Unlock!ConstantsFit, UnlockInv, NEW p \in Procs, Unlock!RemoveFile(p)
  PROVE  UnlockInv'
<1>1. PICK d \in Removing : d = unlock[p]
  BY AtPlace DEF Unlock!RemoveFile, UnlockInv
<1>2. /\ Unlock!Becomes(p, Unlock!Idle) /\ revoked' = revoked \cup d.enabled
      /\ UNCHANGED <<sealed, keychain, ended, now>>
  BY <1>1 DEF Unlock!RemoveFile
<1>3. /\ d.enabled \subseteq ended /\ \A s \in d.enabled : sealed[s].target = d.target
      /\ (\A s \in d.enabled : keychain[d.target] # s) \/ unlockFaults = MaxFaults
      /\ d.target \in Targets
  BY <1>1 DEF UnlockInv, CommandInv, RemovingInv, Removing
<1>4. /\ unlockFaults \in Nat /\ MaxFaults \in {0, 1} /\ unlockFaults <= MaxFaults
             /\ session \in [Unlock!Files -> Nat]
      /\ ended \subseteq Numbers /\ Unlock!None \notin ended /\ revoked \subseteq ended
  BY DEF Unlock!ConstantsFit, UnlockInv, UnlockTypes, Numbers, Unlock!None
<1>5. \/ session' = [session EXCEPT ![FileOf[d.target]] = Unlock!None]
             /\ unlockFaults' = unlockFaults
      \/ unlockFaults # MaxFaults /\ unlockFaults' = MaxFaults /\ session' = session
  BY <1>1, <1>4 DEF Unlock!RemoveFile, Unlock!Fault
<1>6. Grows
  BY <1>2, SealedStays DEF UnlockInv
<1>7. /\ unlockFaults' \in {unlockFaults, MaxFaults} /\ session' \in [Unlock!Files -> Nat]
      /\ \A t \in Targets : session'[FileOf[t]] \in {session[FileOf[t]], Unlock!None}
  BY <1>4, <1>5, FilesAreNamed DEF Unlock!None
<1>8. UnlockTypes'
  <2>1. unlock' \in [Procs -> {Unlock!Idle} \cup Enabling \cup Removing \cup Reading \cup Unlocked]
    BY <1>2 DEF Unlock!Becomes, UnlockInv, UnlockTypes
  <2>2. unlockFaults' \in {0, 1} /\ unlockFaults' <= MaxFaults
    BY <1>4, <1>7
  <2>3. revoked' \subseteq ended /\ ended' = ended /\ Numbers' = Numbers
    BY <1>2, <1>3, <1>4 DEF Numbers
  <2> QED BY <1>2, <1>7, <2>1, <2>2, <2>3 DEF UnlockInv, UnlockTypes
<1>9. RevokedInv'
  <2> SUFFICES ASSUME NEW s \in revoked'
               PROVE  (LET t == sealed[s].target IN keychain[t] # s \/ FileLost(t, s))'
    BY DEF RevokedInv
  <2>1. PICK t : t = sealed[s].target
    OBVIOUS
  <2>2. CASE s \in d.enabled
    <3>1. t = d.target
      BY <1>3, <2>1, <2>2
    <3>2. CASE keychain[t] = s
      <4>1. unlockFaults = MaxFaults
        BY <1>3, <2>2, <3>1, <3>2
      <4>2. session'[FileOf[t]] = Unlock!None /\ unlockFaults' = MaxFaults /\ s # Unlock!None
        BY <1>3, <1>4, <1>5, <2>2, <3>1, <4>1, FilesAreNamed
      <4> QED BY <1>2, <2>1, <4>2 DEF FileLost
    <3> QED BY <1>2, <2>1, <3>2
  <2>3. CASE s \in revoked
    <3>1. keychain[t] # s \/ FileLost(t, s)
      BY <2>1, <2>3 DEF UnlockInv, RevokedInv
    <3>2. s # Unlock!None /\ s \in Numbers /\ sealed[s] \in Sealed
      BY <1>4, <2>3 DEF UnlockInv, UnlockTypes, Numbers
    <3>3. t \in Targets
      BY <2>1, <3>2 DEF Sealed
    <3> QED BY <1>2, <1>5, <1>7, <2>1, <3>1, <3>2, <3>3 DEF FileLost
  <2> QED BY <1>2, <2>2, <2>3
<1>10. KeychainInv'
  BY <1>2 DEF UnlockInv, KeychainInv
<1> QED BY <1>1, <1>2, <1>6, <1>7, <1>8, <1>9, <1>10, KindsDiffer, IdleFinally, CommandMoves

LEMMA LoadKeeps ==
  ASSUME Unlock!ConstantsFit, UnlockInv, NEW p \in Procs, NEW t \in Targets, Unlock!LoadKey(p,
         t)
  PROVE  UnlockInv'
<1>1. PICK c : c = [pc |-> "read", target |-> t, key |-> keychain[t], revoked |-> revoked]
  OBVIOUS
<1>2. /\ keychain[t] \in Nat /\ revoked \subseteq ended /\ ended \subseteq Nat
  BY DEF UnlockInv, UnlockTypes, Numbers
<1>3. /\ c \in Reading /\ c.target = t /\ c.key = keychain[t] /\ c.revoked = revoked
      /\ Unlock!Becomes(p, c) /\ UNCHANGED <<sealed, keychain, session, ended, revoked, now,
             unlockFaults>>
  BY <1>1, <1>2 DEF Reading, Unlock!LoadKey
<1>4. c.key \in ended /\ sealed[c.key].target = t
  BY <1>3 DEF Unlock!LoadKey, UnlockInv, KeychainInv
<1>5. c.key \in revoked => FileLost(t, c.key)
  BY <1>3, <1>4 DEF UnlockInv, RevokedInv
<1>6. UnlockTypes'
  <2>1. unlock' \in [Procs -> {Unlock!Idle} \cup Enabling \cup Removing \cup Reading \cup Unlocked]
    BY <1>3 DEF Unlock!Becomes, UnlockInv, UnlockTypes
  <2> QED BY <1>3, <2>1 DEF UnlockInv, UnlockTypes, Numbers
<1>7. KeychainInv' /\ RevokedInv'
  BY <1>3 DEF UnlockInv, KeychainInv, RevokedInv, FileLost
<1>8. CommandInv(c)'
  <2>1. ReadingInv(c)'
    BY <1>2, <1>3, <1>4, <1>5 DEF ReadingInv, FileLost
  <2> QED BY <1>3, <2>1, KindsDiffer DEF CommandInv, EnablingInv, RemovingInv, OpenedInv
<1> QED BY <1>3, <1>6, <1>7, <1>8, KindsDiffer, SealedStays, CommandMoves DEF UnlockInv

\* A step of a command that only reads, or forgets.
LEMMA ReadMoves ==
  ASSUME Unlock!ConstantsFit, UnlockInv, NEW p \in Procs,
         NEW c \in {Unlock!Idle} \cup Unlocked, Unlock!Becomes(p, c),
         OpenedInv(c), UNCHANGED <<sealed, keychain, session, ended, revoked, now, unlockFaults>>
  PROVE  UnlockInv'
<1>1. UnlockTypes'
  <2>1. unlock' \in [Procs -> {Unlock!Idle} \cup Enabling \cup Removing \cup Reading \cup Unlocked]
    BY DEF Unlock!Becomes, UnlockInv, UnlockTypes
  <2> QED BY <2>1 DEF UnlockInv, UnlockTypes, Numbers
<1>2. KeychainInv' /\ RevokedInv'
  BY DEF UnlockInv, KeychainInv, RevokedInv, FileLost
<1>3. CommandInv(c)'
  <2>1. OpenedInv(c)'
    BY DEF OpenedInv
  <2> QED BY <2>1, KindsDiffer DEF CommandInv, EnablingInv, RemovingInv, ReadingInv
<1> QED BY <1>1, <1>2, <1>3, KindsDiffer, SealedStays, CommandMoves DEF UnlockInv

LEMMA OpenFileKeeps ==
  ASSUME Unlock!ConstantsFit, UnlockInv, NEW p \in Procs, Unlock!OpenFile(p)
  PROVE  UnlockInv'
<1>1. PICK d \in Reading : d = unlock[p]
  BY AtPlace DEF Unlock!OpenFile, UnlockInv
<1>2. PICK s : s = session[FileOf[d.target]]
  OBVIOUS
<1>3. CASE /\ ~ Unlock!Expired(s) /\ Unlock!Opens(s, d.key, d.target)
           /\ Unlock!Becomes(p, [pc |-> "opened", target |-> d.target, session |-> s,
                                 revoked |-> d.revoked, at |-> now])
  <2>1. PICK c : c = [pc |-> "opened", target |-> d.target, session |-> s,
                      revoked |-> d.revoked, at |-> now]
    OBVIOUS
  <2>2. s = d.key /\ s \in Nat /\ now \in Nat
    BY <1>3 DEF Unlock!Opens, Reading, UnlockInv, UnlockTypes
  <2>3. /\ c \in Unlocked /\ c.session = s /\ c.target = d.target /\ c.revoked = d.revoked
        /\ c.at = now
    BY <2>1, <2>2 DEF Unlocked, Reading
  <2>4. /\ d.key \in ended /\ sealed[d.key].target = d.target
        /\ d.key \in d.revoked => FileLost(d.target, d.key)
    BY <1>1 DEF UnlockInv, CommandInv, ReadingInv
  <2>5. s \notin d.revoked
    BY <1>2, <2>2, <2>4 DEF FileLost
  <2>6. now - sealed[s].created <= sealed[s].ttl
    <3>1. sealed[s] \in Sealed
      BY <2>2, <2>4 DEF UnlockInv, UnlockTypes, Numbers
    <3>2. sealed[s].created \in Nat /\ sealed[s].ttl \in Nat
      BY <3>1 DEF Sealed
    <3> QED BY <1>3, <2>2, <3>2 DEF Unlock!Expired
  <2>7. OpenedInv(c)
    BY <2>2, <2>3, <2>4, <2>5, <2>6 DEF OpenedInv
  <2> QED BY <1>3, <2>1, <2>3, <2>7, ReadMoves DEF Unlock!OpenFile
<1>4. CASE Unlock!Becomes(p, Unlock!Idle)
  BY <1>4, ReadMoves, KindsDiffer DEF Unlock!OpenFile, OpenedInv
<1> QED BY <1>1, <1>2, <1>3, <1>4 DEF Unlock!OpenFile

LEMMA ForgetKeeps ==
  ASSUME Unlock!ConstantsFit, UnlockInv, NEW p \in Procs, Unlock!Forget(p)
  PROVE  UnlockInv'
BY ReadMoves, KindsDiffer DEF Unlock!Forget, OpenedInv

\* What no command does: a copy is put back, or time passes.
LEMMA WorldKeeps ==
  ASSUME Unlock!ConstantsFit, UnlockInv, now' \in Nat, session' \in [Unlock!Files -> Nat],
         \/ session' = session /\ unlockFaults' = unlockFaults
         \/ Unlock!Fault,
         UNCHANGED <<sealed, keychain, unlock, ended, revoked>>
  PROVE  UnlockInv'
<1>1. /\ unlockFaults \in Nat /\ MaxFaults \in {0, 1} /\ unlockFaults <= MaxFaults
      /\ unlock \in [Procs -> {Unlock!Idle} \cup Enabling \cup Removing \cup Reading \cup Unlocked]
  BY DEF Unlock!ConstantsFit, UnlockInv, UnlockTypes
<1>2. /\ unlockFaults' \in {unlockFaults, MaxFaults} /\ unlockFaults' \in {0, 1}
             /\ unlockFaults' <= MaxFaults
      /\ unlockFaults # MaxFaults \/ session' = session
  BY <1>1 DEF Unlock!Fault
<1>3. Grows
  BY SealedStays DEF UnlockInv
<1>4. UnlockTypes' /\ KeychainInv'
  BY <1>2 DEF UnlockInv, UnlockTypes, KeychainInv, Numbers
<1>5. RevokedInv'
  BY <1>2, <1>3, RevokedKeeps
<1>6. ASSUME NEW q \in Procs PROVE CommandInv(unlock[q])'
  <2>1. PICK d : d = unlock[q]
    OBVIOUS
  <2>2. CommandInv(d)
            /\ d \in {Unlock!Idle} \cup Enabling \cup Removing \cup Reading \cup Unlocked
    BY <1>1, <2>1 DEF UnlockInv
  <2>3. CommandInv(d)'
    BY <1>2, <1>3, <2>2, OthersKeep
  <2>4. unlock'[q] = d
    BY <2>1
  <2> QED BY <2>3, <2>4
<1> QED BY <1>4, <1>5, <1>6 DEF UnlockInv

LEMMA UnlockStep == Unlock!ConstantsFit /\ UnlockInv /\ [Unlock!Next]_(Unlock!vars) => UnlockInv'
<1> SUFFICES ASSUME Unlock!ConstantsFit, UnlockInv, [Unlock!Next]_(Unlock!vars) PROVE UnlockInv'
  OBVIOUS
<1>1. session \in [Unlock!Files -> Nat] /\ now \in Nat /\ sealed \in Seq(Sealed)
  BY DEF UnlockInv, UnlockTypes
<1>2. CASE \E p \in Procs : Unlock!ClearFile(p) \/ Unlock!PublishFile(p) \/ Unlock!StoreKey(p)
  BY <1>2, ClearKeeps, PublishKeeps, StoreKeeps
<1>3. CASE \E p \in Procs : Unlock!RemoveFile(p) \/ Unlock!OpenFile(p) \/ Unlock!Forget(p)
  BY <1>3, RemoveFileKeeps, OpenFileKeeps, ForgetKeeps
<1>4. CASE \E p \in Procs, t \in Targets : Unlock!RemoveKey(p, t) \/ Unlock!LoadKey(p, t)
  BY <1>4, RemoveKeyKeeps, LoadKeeps
<1>5. CASE \E p \in Procs, t \in Targets : \E ttl \in Ttls : Unlock!BeginEnable(p, t, ttl)
  BY <1>5, EnableKeeps
<1>6. CASE \E s \in 1 .. Len(sealed) : Unlock!PutBack(s)
  <2>1. PICK s \in 1 .. Len(sealed) : Unlock!PutBack(s)
    BY <1>6
  <2>2. s \in Nat
    BY <1>1
  <2>3. session' \in [Unlock!Files -> Nat]
    BY <1>1, <2>1, <2>2 DEF Unlock!PutBack
  <2> QED BY <1>1, <2>1, <2>3, WorldKeeps DEF Unlock!PutBack
<1>7. CASE Unlock!Tick
  BY <1>1, <1>7, WorldKeeps DEF Unlock!Tick
<1>8. CASE UNCHANGED Unlock!vars
  BY <1>1, <1>8, WorldKeeps DEF Unlock!vars
<1> QED BY <1>2, <1>3, <1>4, <1>5, <1>6, <1>7, <1>8 DEF Unlock!Next

\* With one fault, no unlock returns a passphrase of another profile, one that has
\* expired, or one that was revoked before the unlock began.
THEOREM RevokedForGood ==
  ASSUME Unlock!ConstantsFit
  PROVE  Unlock!Spec => []Unlock!RevokedStaysRevoked
<1>1. UnlockInv => Unlock!RevokedStaysRevoked
  BY AtPlace DEF UnlockInv, CommandInv, OpenedInv, Unlock!RevokedStaysRevoked
<1> QED BY <1>1, UnlockInit, UnlockStep, PTL DEF Unlock!Spec

-----------------------------------------------------------------------------
(* TerminalSession: what the backend of the terminal interface keeps.       *)

CONSTANTS Profiles, Mongo, Known, MaxActions, MaxElsewhere
VARIABLES entries, databases, selected, passphrases, mem, overdue, lifetime, opened, act, actions,
  elsewhere

Backend == INSTANCE TerminalSession WITH
  profiles <- entries, bound <- databases, current <- selected, stored <- passphrases,
  keys <- opened, None <- NoProfile

Memory     == [pass : Backend!Or(Profiles), url : Backend!Or(Profiles),
    names : Backend!Or(Profiles),
               rows : Backend!Or(Profiles), vault : Backend!Or(Profiles)]
ReusedKeys == [of : Backend!Or(Profiles), timer : BOOLEAN, busy : BOOLEAN]
Operations == Backend!Keyed \cup Backend!ByChild \cup Backend!Sessions \cup Backend!Managing \cup {"unlock", "lock"}
Places     == {"refused", "lock", "profile", "native", "command", "session", "open", "add",
               "use-profile", "remove-profile", "running", "use", "init", "vault", "ready",
                   "undo"}
UnderWay   == [op : Operations, arg : Backend!Or(Profiles), at : Places,
    target : Backend!Or(Profiles),
               copied : Backend!Or(Profiles)]

BackendTypes ==
  /\ entries \subseteq Profiles /\ selected \in Backend!Or(Profiles)
  /\ mem \in Memory /\ opened \in ReusedKeys /\ act \in {Backend!Idle} \cup UnderWay
  /\ act.op = "create-profile" => act.arg \in Profiles

\* At any moment the names and the keys are those of the passphrase in memory.
HeldInv == /\ mem.names # NoProfile => mem.names = mem.pass
           /\ opened.of # NoProfile => opened.of = mem.pass

BackendInv == BackendTypes /\ HeldInv /\ Backend!UnattendedIsTimed

LEMMA NothingIsHeld ==
  /\ Backend!Empty \in Memory /\ Backend!Empty.pass = NoProfile /\ Backend!Empty.names = NoProfile
  /\ Backend!NoKeys \in ReusedKeys /\ Backend!NoKeys.of = NoProfile
  /\ \A a \in UnderWay : a # Backend!Idle
BY DEF Backend!Empty, Backend!NoKeys, Memory, ReusedKeys, Backend!Or, UnderWay, Backend!Idle,
       Places

LEMMA LockedHoldsNothing ==
  ASSUME mem \in Memory
  PROVE  Backend!Locked \in Memory /\ Backend!Locked.pass = NoProfile
             /\ Backend!Locked.names = NoProfile
BY DEF Backend!Locked, Backend!Empty, Memory, Backend!Or

LEMMA BackendInit == Backend!ConstantsFit /\ Backend!Init => BackendInv
<1> SUFFICES ASSUME Backend!ConstantsFit, Backend!Init PROVE BackendInv
  OBVIOUS
<1>1. BackendTypes
  BY NothingIsHeld DEF Backend!ConstantsFit, Backend!Init, BackendTypes, Backend!Or,
                       Backend!Idle
<1> QED BY <1>1, NothingIsHeld DEF Backend!Init, BackendInv, HeldInv, Backend!UnattendedIsTimed

\* An action goes on, or an idle backend starts one: nothing is asked of the timers.
LEMMA GoesOn ==
  ASSUME NEW m \in Memory, NEW k \in ReusedKeys, NEW a \in UnderWay,
         mem' = m, opened' = k, act' = a,
         m.names # NoProfile => m.names = m.pass, k.of # NoProfile => k.of = m.pass,
         a.op = "create-profile" => a.arg \in Profiles,
         entries' \subseteq Profiles, selected' \in Backend!Or(Profiles)
  PROVE  BackendInv'
BY NothingIsHeld DEF BackendInv, BackendTypes, HeldInv, Backend!UnattendedIsTimed

\* The finally of an action.
LEMMA Finishes ==
  ASSUME NEW m \in Memory, NEW k \in Backend!Or(Profiles), Backend!Finish(m, k),
         m.names # NoProfile => m.names = m.pass, k # NoProfile => k = m.pass,
         entries' \subseteq Profiles, selected' \in Backend!Or(Profiles)
  PROVE  BackendInv'
<1>1. PICK j : j = [of |-> k, timer |-> k # NoProfile, busy |-> FALSE]
  OBVIOUS
<1>2. j \in ReusedKeys /\ j.of = k /\ (k # NoProfile => j.timer)
  BY <1>1 DEF ReusedKeys
<1>3. mem' = m /\ opened' = j /\ act' = Backend!Idle /\ lifetime' = (m.pass # NoProfile)
  BY <1>1 DEF Backend!Finish
<1>4. Backend!Idle.op = "idle"
  BY DEF Backend!Idle
<1> QED BY <1>2, <1>3, <1>4 DEF BackendInv, BackendTypes, HeldInv, Backend!UnattendedIsTimed

\* A lock, at the end of an action or under it.
LEMMA Locks ==
  ASSUME BackendInv, act' \in {act, Backend!Idle}, Backend!Lock \/ Backend!Forget,
         entries' \subseteq Profiles, selected' \in Backend!Or(Profiles)
  PROVE  BackendInv'
<1>1. mem' \in Memory /\ mem'.pass = NoProfile /\ mem'.names = NoProfile
  BY LockedHoldsNothing, NothingIsHeld DEF Backend!Lock, Backend!Forget, BackendInv,
                                           BackendTypes
<1>2. opened' = Backend!NoKeys
  BY DEF Backend!Lock, Backend!Forget
<1>3. Backend!Idle.op # "create-profile"
  BY DEF Backend!Idle
<1> QED BY <1>1, <1>2, <1>3, NothingIsHeld DEF BackendInv, BackendTypes, HeldInv,
                                               Backend!UnattendedIsTimed

\* What an action that is somewhere is.
LEMMA ActsSomewhere ==
  ASSUME BackendInv, act.at # "end"
  PROVE  /\ act \in UnderWay /\ act.target \in Backend!Or(Profiles)
                /\ act.arg \in Backend!Or(Profiles)
         /\ act.op = "create-profile" => act.arg \in Profiles
         /\ \A at \in Places : [act EXCEPT !.at = at] \in UnderWay
         /\ \A at \in Places : /\ [act EXCEPT !.at = at].op = act.op
                               /\ [act EXCEPT !.at = at].arg = act.arg
BY DEF BackendInv, BackendTypes, Backend!Idle, UnderWay

LEMMA ActionBegins ==
  ASSUME BackendInv, NEW op \in Operations, NEW arg \in Backend!Or(Profiles), Backend!Begin(op,
         arg),
         op = "create-profile" => arg \in Profiles
  PROVE  BackendInv'
<1>1. PICK m : m = IF overdue THEN Backend!Locked ELSE mem
  OBVIOUS
<1>2. PICK k : k = IF overdue THEN Backend!NoKeys ELSE opened
  OBVIOUS
<1>3. PICK at \in Places : at = CASE op \in Backend!Keyed /\ m.pass = NoProfile   -> "refused"
                                  [] op \in Backend!ByChild /\ m.pass = NoProfile -> "refused"
                                  [] op = "session-enable" /\ m.pass = NoProfile -> "refused"
                                  [] op = "lock" -> "lock"
                                  [] OTHER       -> "profile"
  BY DEF Places
<1>4. m \in Memory /\ k \in ReusedKeys /\ HeldInv
  BY <1>1, <1>2, LockedHoldsNothing, NothingIsHeld DEF BackendInv, BackendTypes
<1>5. /\ m.names # NoProfile => m.names = m.pass
      /\ k.of # NoProfile => k.of = m.pass
  BY <1>1, <1>2, <1>4, LockedHoldsNothing, NothingIsHeld DEF HeldInv, BackendInv, BackendTypes
<1>6. PICK a : a = [op |-> op, arg |-> arg, target |-> NoProfile, copied |-> m.pass, at |-> at]
  OBVIOUS
<1>7. a \in UnderWay /\ a.op = op /\ a.arg = arg
  BY <1>4, <1>6 DEF UnderWay, Backend!Or, Memory
<1>8. mem' = m /\ opened' = k /\ act' = a /\ UNCHANGED <<entries, selected>>
  BY <1>1, <1>2, <1>3, <1>6 DEF Backend!Begin
<1> QED BY <1>4, <1>5, <1>7, <1>8, GoesOn DEF BackendInv, BackendTypes

\* The memory and the keys stay while an action moves.
LEMMA Moves ==
  ASSUME BackendInv, NEW a \in UnderWay, act' = a,
         a.op = "create-profile" => a.arg \in Profiles,
         mem' = mem, opened' = opened \/ opened' = Backend!NoKeys, entries' \subseteq Profiles,
         selected' \in Backend!Or(Profiles)
  PROVE  BackendInv'
<1>1. opened' \in ReusedKeys /\ (opened'.of # NoProfile => opened'.of = mem.pass)
  BY NothingIsHeld DEF BackendInv, BackendTypes, HeldInv
<1> QED BY <1>1, GoesOn DEF BackendInv, BackendTypes, HeldInv

LEMMA ReadProfileKeeps == ASSUME BackendInv, Backend!ReadProfile PROVE BackendInv'
<1>1. act.at # "end"
  BY DEF Backend!ReadProfile
<1>2. PICK at \in Places : at = CASE act.op \in Backend!Keyed    -> "native"
                [] act.op \in Backend!ByChild  -> "command"
                [] act.op \in Backend!Sessions -> IF selected = NoProfile THEN "refused" ELSE "session"
                [] act.op = "unlock"   -> "open"
                [] act.op = "create-profile" -> "add"
                [] OTHER               -> act.op
  <2>1. act.op \in Operations
    BY <1>1, ActsSomewhere DEF UnderWay
  <2> QED BY <2>1 DEF Places, Operations, Backend!Keyed, Backend!ByChild, Backend!Sessions,
                      Backend!Managing
<1>3. PICK a : a = [act EXCEPT !.target = selected, !.at = at]
  OBVIOUS
<1>4. a \in UnderWay /\ a.op = act.op /\ a.arg = act.arg
  BY <1>1, <1>3, ActsSomewhere DEF UnderWay, BackendInv, BackendTypes
<1>5. act' = a /\ UNCHANGED <<mem, opened, entries, selected>>
  BY <1>2, <1>3 DEF Backend!ReadProfile
<1> QED BY <1>4, <1>5, Moves DEF BackendInv, BackendTypes

LEMMA RefuseKeeps == ASSUME BackendInv, Backend!Refuse \/ Backend!LockAction PROVE BackendInv'
<1>1. CASE Backend!Refuse
  BY <1>1, Finishes DEF Backend!Refuse, BackendInv, BackendTypes, HeldInv, ReusedKeys
<1>2. CASE Backend!LockAction
  BY <1>2, Locks DEF Backend!LockAction, Backend!FinishLocked, BackendInv, BackendTypes
<1> QED BY <1>1, <1>2

LEMMA NativeBeginKeeps == ASSUME BackendInv, Backend!NativeBegin PROVE BackendInv'
<1>1. PICK k : k = [opened EXCEPT !.timer = FALSE, !.busy = TRUE]
  OBVIOUS
<1>2. k \in ReusedKeys /\ k.of = opened.of
  BY <1>1 DEF BackendInv, BackendTypes, ReusedKeys
<1>3. PICK a : a = [act EXCEPT !.at = "running"]
  OBVIOUS
<1>4. a \in UnderWay /\ (a.op = "create-profile" => a.arg \in Profiles)
  BY <1>3, ActsSomewhere DEF Backend!NativeBegin, Places
<1> QED BY <1>1, <1>2, <1>3, <1>4, GoesOn DEF Backend!NativeBegin, Backend!Goto, BackendInv,
                                              BackendTypes, HeldInv

\* Rows or names of the profile that the passphrase opens.
LEMMA ShownOfOpened ==
  ASSUME BackendInv, NEW t \in Backend!Or(Profiles)
  PROVE  /\ [mem EXCEPT !.rows = t] \in Memory
         /\ [mem EXCEPT !.rows = t].pass = mem.pass /\ [mem EXCEPT !.rows = t].names = mem.names
         /\ [mem EXCEPT !.names = t] \in Memory
         /\ [mem EXCEPT !.names = t].pass = mem.pass /\ [mem EXCEPT !.names = t].names = t
BY DEF BackendInv, BackendTypes, Memory

LEMMA NativeEndKeeps ==
  ASSUME BackendInv, NEW ok \in BOOLEAN, Backend!NativeEnd(ok)
  PROVE  BackendInv'
<1>1. act.target \in Backend!Or(Profiles) /\ UNCHANGED <<entries, selected>>
  BY ActsSomewhere DEF Backend!NativeEnd
<1>2. CASE ok
  <2>1. mem.pass = act.target /\ (mem.names # NoProfile => mem.names = mem.pass)
    BY <1>2 DEF Backend!NativeEnd, Backend!CanOpen, BackendInv, HeldInv
  <2>2. PICK m : m = IF act.op = "reveal" THEN mem
                     ELSE IF act.op = "browse" THEN [mem EXCEPT !.rows = act.target]
                     ELSE [mem EXCEPT !.names = act.target]
    OBVIOUS
  <2>3. m \in Memory /\ m.pass = act.target /\ (m.names # NoProfile => m.names = m.pass)
    BY <1>1, <2>1, <2>2, ShownOfOpened DEF BackendInv, BackendTypes
  <2>4. Backend!Finish(m, act.target)
    BY <1>2, <2>2 DEF Backend!NativeEnd
  <2> QED BY <1>1, <2>3, <2>4, Finishes DEF BackendInv, BackendTypes
<1>3. CASE ~ok
  BY <1>1, <1>3, Locks DEF Backend!NativeEnd, Backend!FinishLocked, BackendInv, BackendTypes
<1> QED BY <1>2, <1>3

LEMMA LegacyCommandKeeps ==
  ASSUME BackendInv, NEW ok \in BOOLEAN, Backend!LegacyCommand(ok)
  PROVE  BackendInv'
<1>1. act.target \in Backend!Or(Profiles) /\ UNCHANGED <<entries, selected>>
          /\ NoProfile \in Backend!Or(Profiles)
  BY ActsSomewhere DEF Backend!LegacyCommand, Backend!Or
<1>2. /\ ok => mem.pass = act.target
      /\ mem.names # NoProfile => mem.names = mem.pass
  BY DEF Backend!LegacyCommand, Backend!CanOpen, BackendInv, HeldInv
<1>3. PICK m : m = IF act.op = "browse" THEN [mem EXCEPT !.rows = IF ok THEN act.target ELSE NoProfile]
                   ELSE IF ~ok \/ act.op = "reveal" THEN mem
                   ELSE [mem EXCEPT !.names = act.target]
  OBVIOUS
<1>4. m \in Memory /\ (m.names # NoProfile => m.names = m.pass)
  <2>1. CASE act.op = "browse"
    BY <1>1, <1>2, <1>3, <2>1, ShownOfOpened
  <2>2. CASE act.op # "browse" /\ (~ok \/ act.op = "reveal")
    BY <1>2, <1>3, <2>2 DEF BackendInv, BackendTypes
  <2>3. CASE act.op # "browse" /\ ok /\ act.op # "reveal"
    BY <1>1, <1>2, <1>3, <2>3, ShownOfOpened
  <2> QED BY <2>1, <2>2, <2>3
<1>5. Backend!Finish(m, NoProfile)
  BY <1>3 DEF Backend!LegacyCommand
<1> QED BY <1>1, <1>4, <1>5, Finishes DEF BackendInv, BackendTypes

LEMMA CommandEndKeeps ==
  ASSUME BackendInv, NEW ok \in BOOLEAN, Backend!CommandEnd(ok)
  PROVE  BackendInv'
<1>1. /\ act.target \in Backend!Or(Profiles) /\ UNCHANGED <<entries, selected>>
             /\ NoProfile \in Backend!Or(Profiles)
      /\ act.at # "end" /\ act \in UnderWay
  BY ActsSomewhere DEF Backend!CommandEnd, Backend!Or
<1>2. mem.names # NoProfile => mem.names = mem.pass
  BY DEF BackendInv, HeldInv
<1>3. CASE Backend!Finish(mem, NoProfile)
  BY <1>1, <1>2, <1>3, Finishes DEF BackendInv, BackendTypes
<1>4. CASE Backend!Finish([mem EXCEPT !.rows = act.target], NoProfile)
  BY <1>1, <1>2, <1>4, Finishes, ShownOfOpened DEF BackendInv, BackendTypes
<1>5. PICK refused : refused = [act EXCEPT !.at = "refused"]
  OBVIOUS
<1>6. refused \in UnderWay /\ (refused.op = "create-profile" => refused.arg \in Profiles)
  BY <1>1, <1>5, ActsSomewhere DEF Places
<1>7. CASE /\ IF mem.pass = NoProfile THEN Backend!Goto("refused")
              ELSE act' = [act EXCEPT !.op = "use-vault", !.copied = mem.pass, !.at = "profile"]
           /\ opened' = Backend!NoKeys /\ mem' = mem
  <2>1. PICK a : a = [act EXCEPT !.op = "use-vault", !.copied = mem.pass, !.at = "profile"]
    OBVIOUS
  <2>2. a \in UnderWay /\ a.op = "use-vault"
    BY <1>1, <2>1 DEF UnderWay, Operations, Backend!ByChild, Places, BackendInv, BackendTypes,
                      Memory
  <2> QED BY <1>1, <1>5, <1>6, <1>7, <2>1, <2>2, Moves DEF Backend!Goto, BackendInv,
                                                           BackendTypes
<1>8. CASE /\ mem' = [mem EXCEPT !.vault = act.target, !.names = NoProfile, !.rows = NoProfile]
           /\ IF mem.pass = NoProfile THEN Backend!Goto("refused")
              ELSE act' = [act EXCEPT !.op = "refresh", !.at = "profile"]
           /\ opened' = Backend!NoKeys
  <2>1. PICK a : a = [act EXCEPT !.op = "refresh", !.at = "profile"]
    OBVIOUS
  <2>2. a \in UnderWay /\ a.op = "refresh"
    BY <1>1, <2>1 DEF UnderWay, Operations, Backend!Keyed, Places
  <2>3. mem' \in Memory /\ mem'.names = NoProfile
    BY <1>1, <1>8 DEF BackendInv, BackendTypes, Memory
  <2>4. act' \in {refused, a}
    BY <1>5, <1>8, <2>1 DEF Backend!Goto
  <2> QED BY <1>1, <1>6, <1>8, <2>2, <2>3, <2>4, NothingIsHeld, GoesOn DEF BackendInv,
                                                                           BackendTypes
<1>9. CASE ~ok
  BY <1>3, <1>9 DEF Backend!CommandEnd
<1>10. CASE ok /\ act.op = "doctor"
  BY <1>4, <1>10 DEF Backend!CommandEnd
<1>11. CASE ok /\ act.op = "create-vault"
  BY <1>7, <1>11 DEF Backend!CommandEnd
<1>12. CASE ok /\ act.op \notin {"doctor", "create-vault"}
  BY <1>8, <1>12 DEF Backend!CommandEnd
<1> QED BY <1>9, <1>10, <1>11, <1>12

\* What an unlock that worked leaves.
LEMMA OpenedHolds ==
  ASSUME BackendInv, NEW p \in Backend!Or(Profiles)
  PROVE  Backend!Opened(p) \in Memory /\ Backend!Opened(p).pass = p /\ Backend!Opened(p).names = p
BY DEF Backend!Opened, BackendInv, BackendTypes, Memory

LEMMA UnlockKeeps ==
  ASSUME BackendInv, NEW pass, NEW ok \in BOOLEAN, act.target \in Backend!Or(Profiles),
         Backend!Unlock(pass, act.target, ok, Backend!Opened(act.target)), UNCHANGED <<entries,
             selected>>
  PROVE  BackendInv'
<1>1. CASE ok
  <2>1. PICK k \in Backend!Or(Profiles) : k = IF act.target \in databases THEN act.target ELSE NoProfile
    BY DEF Backend!Or
  <2>2. Backend!Finish(Backend!Opened(act.target), k) /\ (k # NoProfile => k = act.target)
    BY <1>1, <2>1 DEF Backend!Unlock
  <2> QED BY <2>2, OpenedHolds, Finishes DEF BackendInv, BackendTypes
<1>2. CASE ~ok
  BY <1>2, Locks DEF Backend!Unlock, Backend!FinishLocked, BackendInv, BackendTypes
<1> QED BY <1>1, <1>2

LEMMA UnlockEndKeeps ==
  ASSUME BackendInv, NEW ok \in BOOLEAN, Backend!UnlockEnd(ok)
  PROVE  BackendInv'
BY ActsSomewhere, UnlockKeeps DEF Backend!UnlockEnd

LEMMA StaysAsItIs ==
  ASSUME BackendInv, Backend!Finish(mem, opened.of) \/ Backend!Finish(mem, NoProfile),
         entries' \subseteq Profiles,
         selected' \in Backend!Or(Profiles)
  PROVE  BackendInv'
<1>1. opened.of \in Backend!Or(Profiles) /\ NoProfile \in Backend!Or(Profiles)
  BY DEF BackendInv, BackendTypes, ReusedKeys, Backend!Or
<1> QED BY <1>1, Finishes DEF BackendInv, BackendTypes, HeldInv

LEMMA SessionEndKeeps ==
  ASSUME BackendInv, NEW ok \in BOOLEAN, Backend!SessionEnd(ok)
  PROVE  BackendInv'
<1>1. act.target \in Backend!Or(Profiles) /\ UNCHANGED <<entries, selected>>
  BY ActsSomewhere DEF Backend!SessionEnd
<1>2. CASE Backend!Unlock(passphrases[act.target], act.target, ok, Backend!Opened(act.target))
  BY <1>1, <1>2, UnlockKeeps
<1>3. CASE Backend!Finish(mem, opened.of)
  BY <1>1, <1>3, StaysAsItIs DEF BackendInv, BackendTypes
<1> QED BY <1>2, <1>3 DEF Backend!SessionEnd

LEMMA UseProfileKeeps == ASSUME BackendInv, Backend!UseProfile PROVE BackendInv'
<1>1. act.arg \in Backend!Or(Profiles) /\ entries' = entries
  BY ActsSomewhere DEF Backend!UseProfile
<1>2. CASE selected' = act.arg /\ act' = Backend!Idle /\ Backend!Forget
  BY <1>1, <1>2, Locks DEF BackendInv, BackendTypes
<1>3. CASE Backend!Finish(mem, opened.of) /\ UNCHANGED selected
  BY <1>1, <1>3, StaysAsItIs DEF BackendInv, BackendTypes
<1> QED BY <1>2, <1>3 DEF Backend!UseProfile

LEMMA RemovalKeepsTypes ==
  ASSUME BackendInv, NEW p, Backend!Removed(p) \/ UNCHANGED Backend!registry
  PROVE  entries' \subseteq Profiles /\ selected' \in Backend!Or(Profiles)
BY DEF Backend!Removed, Backend!registry, BackendInv, BackendTypes, Backend!Or

LEMMA RemoveProfileKeeps ==
  ASSUME BackendInv, NEW ok \in BOOLEAN, Backend!RemoveProfile(ok)
  PROVE  BackendInv'
<1>1. entries' \subseteq Profiles /\ selected' \in Backend!Or(Profiles)
  BY RemovalKeepsTypes DEF Backend!RemoveProfile
<1>2. CASE act' = Backend!Idle /\ Backend!Forget
  BY <1>1, <1>2, Locks
<1>3. CASE Backend!Finish(mem, NoProfile)
  BY <1>1, <1>3, StaysAsItIs
<1> QED BY <1>2, <1>3 DEF Backend!RemoveProfile

LEMMA CreateStepKeeps ==
  ASSUME BackendInv, NEW ok \in BOOLEAN, Backend!CreateStep(ok)
  PROVE  BackendInv'
<1>1. act.arg \in Profiles /\ act.at # "end" /\ mem' = mem /\ opened' = Backend!NoKeys
  BY ActsSomewhere DEF Backend!CreateStep
<1>2. entries \subseteq Profiles /\ selected \in Backend!Or(Profiles)
  BY DEF BackendInv, BackendTypes
<1>3. ASSUME NEW at \in Places, Backend!Goto(at), entries' \in {entries, entries \cup {act.arg}},
             selected' \in {selected, act.arg}
      PROVE  BackendInv'
  <2>1. PICK a : a = [act EXCEPT !.at = at]
    OBVIOUS
  <2>2. a \in UnderWay /\ a.arg \in Profiles
    BY <1>1, <2>1, ActsSomewhere
  <2>3. act' = a
    BY <1>3, <2>1 DEF Backend!Goto
  <2> QED BY <1>1, <1>2, <1>3, <2>2, <2>3, Moves DEF Backend!Or
<1>4. CASE ok /\ act.at = "add" /\ act.arg \notin entries
  BY <1>3, <1>4 DEF Backend!CreateStep, Places
<1>5. CASE ok /\ act.at = "use"
  BY <1>3, <1>5 DEF Backend!CreateStep, Places
<1>6. CASE ok /\ act.at = "init"
  BY <1>3, <1>6 DEF Backend!CreateStep, Places
<1>7. CASE ok /\ act.at = "vault"
  BY <1>3, <1>7 DEF Backend!CreateStep, Places, Backend!registry
<1>8. CASE ~ok \/ (act.at = "add" /\ act.arg \in entries)
  <2>1. UNCHANGED Backend!registry /\ Backend!Goto(IF act.at = "add" THEN "refused" ELSE "undo")
    BY <1>8 DEF Backend!CreateStep
  <2>2. PICK at \in Places : at = IF act.at = "add" THEN "refused" ELSE "undo"
    BY DEF Places
  <2> QED BY <1>3, <2>1, <2>2 DEF Backend!registry
<1>9. act.at \in {"add", "use", "init", "vault"}
  BY DEF Backend!CreateStep
<1> QED BY <1>4, <1>5, <1>6, <1>7, <1>8, <1>9

LEMMA CreateReadyKeeps ==
  ASSUME BackendInv, NEW ok \in BOOLEAN, Backend!CreateReady(ok)
  PROVE  BackendInv'
<1>1. act.arg \in Backend!Or(Profiles) /\ UNCHANGED <<entries, selected>> /\ act.at # "end"
  BY ActsSomewhere DEF Backend!CreateReady
<1>2. mem \in Memory /\ entries \subseteq Profiles /\ selected \in Backend!Or(Profiles)
          /\ NoProfile \in Backend!Or(Profiles)
  BY DEF BackendInv, BackendTypes, Backend!Or
<1>3. PICK m : m = [mem EXCEPT !.vault = act.arg, !.rows = NoProfile, !.url = NoProfile]
  OBVIOUS
<1>4. PICK u : u = IF act.arg \in Mongo THEN act.arg ELSE NoProfile
  OBVIOUS
<1>5. PICK unlocked : unlocked = [m EXCEPT !.pass = act.arg, !.names = act.arg, !.url = u]
  OBVIOUS
<1>6. m \in Memory /\ u \in Backend!Or(Profiles)
  BY <1>1, <1>2, <1>3, <1>4 DEF Memory
<1>7. unlocked \in Memory /\ unlocked.pass = act.arg /\ unlocked.names = act.arg
  BY <1>1, <1>5, <1>6 DEF Memory
<1>8. CASE Backend!Finish(unlocked, act.arg)
  BY <1>1, <1>2, <1>7, <1>8, Finishes
<1>9. CASE /\ mem' = unlocked /\ opened' = [of |-> act.arg, timer |-> TRUE, busy |-> FALSE]
           /\ act' = [Backend!Idle EXCEPT !.op = "doctor", !.at = "profile", !.copied = act.arg]
  <2>1. PICK k : k = [of |-> act.arg, timer |-> TRUE, busy |-> FALSE]
    OBVIOUS
  <2>2. k \in ReusedKeys /\ k.of = act.arg
    BY <1>1, <2>1 DEF ReusedKeys
  <2>3. PICK a : a = [Backend!Idle EXCEPT !.op = "doctor", !.at = "profile", !.copied = act.arg]
    OBVIOUS
  <2>4. a \in UnderWay /\ a.op = "doctor"
    BY <1>1, <1>2, <2>3 DEF Backend!Idle, UnderWay, Operations, Backend!ByChild, Places
  <2> QED BY <1>1, <1>2, <1>7, <1>9, <2>1, <2>2, <2>3, <2>4, GoesOn
<1>10. CASE /\ mem' = [Backend!Empty EXCEPT !.vault = act.arg] /\ opened' = Backend!NoKeys
                   /\ Backend!Goto("undo")
  <2>1. mem' \in Memory /\ mem'.names = NoProfile
    BY <1>1, <1>2, <1>10 DEF Backend!Empty, Memory
  <2>2. act' \in UnderWay /\ (act'.op = "create-profile" => act'.arg \in Profiles)
    BY <1>1, <1>10, ActsSomewhere DEF Backend!Goto, Places
  <2> QED BY <1>1, <1>2, <1>10, <2>1, <2>2, NothingIsHeld, GoesOn
<1> QED BY <1>3, <1>4, <1>5, <1>8, <1>9, <1>10 DEF Backend!CreateReady

LEMMA CreateUndoKeeps ==
  ASSUME BackendInv, NEW ok \in BOOLEAN, Backend!CreateUndo(ok)
  PROVE  BackendInv'
<1>1. entries' \subseteq Profiles /\ selected' \in Backend!Or(Profiles)
  BY RemovalKeepsTypes DEF Backend!CreateUndo
<1>2. PICK m : m = IF act.arg \in Mongo THEN [mem EXCEPT !.url = NoProfile] ELSE mem
  OBVIOUS
<1>3. m \in Memory /\ m.pass = mem.pass /\ m.names = mem.names
          /\ NoProfile \in Backend!Or(Profiles)
  BY <1>2 DEF BackendInv, BackendTypes, Memory, Backend!Or
<1>4. Backend!Finish(m, NoProfile)
  BY <1>2 DEF Backend!CreateUndo
<1> QED BY <1>1, <1>3, <1>4, Finishes DEF BackendInv, HeldInv

LEMMA BackendStep == Backend!ConstantsFit /\ BackendInv /\ [Backend!Next]_(Backend!vars)
    => BackendInv'
<1> SUFFICES ASSUME BackendInv, [Backend!Next]_(Backend!vars) PROVE BackendInv'
  OBVIOUS
<1>1. entries \subseteq Profiles /\ selected \in Backend!Or(Profiles)
  BY DEF BackendInv, BackendTypes
<1>2. CASE \E op \in Backend!Keyed \cup Backend!ByChild \cup Backend!Sessions \cup {"lock"} : Backend!Begin(op, NoProfile)
  BY <1>2, ActionBegins DEF Operations, Backend!Keyed, Backend!ByChild, Backend!Sessions,
                            Backend!Or
<1>3. CASE \E op \in Backend!Managing \cup {"unlock"}, p \in Profiles : Backend!Begin(op, p)
  BY <1>3, ActionBegins DEF Operations, Backend!Or
<1>4. CASE Backend!Refuse \/ Backend!LockAction \/ Backend!ReadProfile \/ Backend!NativeBegin
               \/ Backend!UseProfile
  BY <1>4, RefuseKeeps, ReadProfileKeeps, NativeBeginKeeps, UseProfileKeeps
<1>5. CASE \E ok \in BOOLEAN : Backend!NativeEnd(ok) \/ Backend!LegacyCommand(ok)
               \/ Backend!CommandEnd(ok) \/ Backend!UnlockEnd(ok)
  BY <1>5, NativeEndKeeps, LegacyCommandKeeps, CommandEndKeeps, UnlockEndKeeps
<1>6. CASE \E ok \in BOOLEAN : Backend!SessionEnd(ok) \/ Backend!RemoveProfile(ok)
               \/ Backend!CreateStep(ok)
  BY <1>6, SessionEndKeeps, RemoveProfileKeeps, CreateStepKeeps
<1>7. CASE \E ok \in BOOLEAN : Backend!CreateReady(ok) \/ Backend!CreateUndo(ok)
  BY <1>7, CreateReadyKeeps, CreateUndoKeeps
<1>8. CASE Backend!LifetimeFires \/ Backend!KeysFire
  BY <1>1, <1>8, Locks DEF Backend!LifetimeFires, Backend!KeysFire
<1>9. CASE Backend!TimePasses
  BY <1>9 DEF Backend!TimePasses, BackendInv, BackendTypes, HeldInv, Backend!UnattendedIsTimed
<1>10. CASE Backend!Elsewhere
  <2>1. selected' \in Backend!Or(Profiles)
    BY <1>1, <1>10 DEF Backend!Elsewhere, Backend!Or
  <2> QED BY <1>10, <2>1 DEF Backend!Elsewhere, BackendInv, BackendTypes, HeldInv,
                             Backend!UnattendedIsTimed
<1>11. CASE UNCHANGED Backend!vars
  BY <1>11 DEF Backend!vars, BackendInv, BackendTypes, HeldInv, Backend!UnattendedIsTimed
<1> QED BY <1>2, <1>3, <1>4, <1>5, <1>6, <1>7, <1>8, <1>9, <1>10, <1>11 DEF Backend!Next

\* Whatever fails, expires or is selected elsewhere, what stays unlocked between two
\* actions is timed, and the names shown are of the passphrase in memory.
THEOREM UnattendedSecretsAreTimed ==
  ASSUME Backend!ConstantsFit
  PROVE  Backend!Spec => []Backend!SecretsAreTimed
<1>1. BackendInv => Backend!SecretsAreTimed
  BY DEF BackendInv, HeldInv, Backend!SecretsAreTimed, Backend!UnattendedIsTimed,
         Backend!ShownIsHeld
<1> QED BY <1>1, BackendInit, BackendStep, PTL DEF Backend!Spec

\* No unlock outlives its revocation, its time or its password, and what is shown is of
\* what is unlocked.
SecretsAreTimed == Unlock!RevokedStaysRevoked /\ Backend!SecretsAreTimed

\* Both, of sessions of the command line and of a terminal interface.
THEOREM NoUnlockOutlivesItsTime ==
  ASSUME Unlock!ConstantsFit, Backend!ConstantsFit
  PROVE  Unlock!Spec /\ Backend!Spec => []SecretsAreTimed
<1>1. Unlock!RevokedStaysRevoked /\ Backend!SecretsAreTimed => SecretsAreTimed
  BY DEF SecretsAreTimed
<1> QED BY <1>1, RevokedForGood, UnattendedSecretsAreTimed, PTL

-----------------------------------------------------------------------------
(* DatabaseMigration: migrations of a legacy vault to one destination.      *)

CONSTANTS MigrationFaults, MaxWrites
VARIABLES mode, legacy, target, vaults, bound, targetLock, migrations, published, verified, codes,
  writes, migrationFaults, migrationCrashes

Migrate == INSTANCE DatabaseMigration WITH
  source <- legacy, files <- target, lock <- targetLock, proc <- migrations, ends <- codes,
  faults <- migrationFaults, crashes <- migrationCrashes, MaxFaults <- MigrationFaults

\* What a migration reports is true of its destination.
MigrationCodesAreTrue == Migrate!MigrationCodesAreTrue

MigrationPCs == {"source", "open", "initialize", "create", "reopen", "reopened", "inspect",
                    "bind",
                 "release", "close", "failed"}
Codes     == {"none", "authentication", "conflict", "unknown", "verification", "absent",
    "uncertain",
              "operation", "close"}
Migrating == [pc : MigrationPCs, rev : Nat, owns : BOOLEAN, vault : BOOLEAN, code : Codes]
Migrated  == [by : Procs, rev : Nat]
OwnCode(code) == code \notin {"none", "ok", "ambiguous", "killed"}

MigrationTypes ==
  /\ migrations \in [Procs -> {Migrate!Idle} \cup Migrating]
         /\ legacy \in [{"document", "anchor"} -> Nat]
  /\ mode \in {"existing", "initialize"}
  /\ target \in [Migrate!Kinds -> {Migrate!Vacant, Migrate!Gone, Migrate!Base} \cup Procs]
  /\ vaults \subseteq Migrated /\ \A v \in vaults : v.by \in published
  /\ bound \in {Migrate!Vacant, Migrate!Base} \cup Procs /\ (mode = "existing"
         => bound = Migrate!Base)
  /\ published \subseteq Procs /\ verified \subseteq Procs
  /\ DOMAIN codes = Procs

HasVault(p) == \E v \in vaults : v.by = p

\* A command that owns the destination has its lock, its files and its vault.
DestinationInv(p, c) == c.owns =>
  /\ mode = "initialize" /\ targetLock = p
  /\ \A k \in Migrate!Kinds : target[k] = p
  /\ c.vault => HasVault(p)

\* How far a command is.
HowFarInv(p, c) ==
  /\ codes[p] = "none"
  /\ (c.pc = "failed") = (c.code # "none")
  /\ c.pc \in {"initialize", "create", "reopen", "inspect", "bind", "release", "close"}
         => targetLock = p
  /\ c.pc = "initialize" => mode = "initialize"
  /\ c.pc \in {"source", "open", "initialize", "reopen", "reopened"} => ~c.owns
  /\ c.pc \in {"source", "open", "initialize", "create"} => ~c.vault
  /\ c.pc \in {"reopen", "reopened", "inspect", "bind", "release", "close"} => c.vault
  /\ c.pc \in {"bind", "release"} => c.owns
  /\ c.pc \in {"bind", "release", "close"} => p \in verified
  /\ c.code \in {"verification", "absent", "uncertain", "operation", "close"} => c.vault
  /\ c.code = "absent" => c.owns

\* What a command without a vault has not left, and when a profile names its database.
TraceInv(p, c) ==
  /\ ~c.vault /\ c.code # "unknown" =>
       p \notin published /\ (c.owns \/ target["data"] # p)
  /\ bound = p => /\ c.vault /\ c.pc \in {"release", "close", "failed"}
                  /\ c.pc = "failed" => c.code \in {"uncertain", "operation", "close"}

LeftNothing(p) == /\ \A v \in vaults : v.by # p
              /\ target["data"] # p /\ bound # p

\* A command that has not begun left nothing, nor did one that ended with its own code.
MigratingInv(p) ==
  /\ migrations[p] # Migrate!Idle => DestinationInv(p, migrations[p])
         /\ HowFarInv(p, migrations[p]) /\ TraceInv(p, migrations[p])
  /\ migrations[p] = Migrate!Idle /\ codes[p] = "none" => LeftNothing(p) /\ p \notin published
  /\ OwnCode(codes[p]) => LeftNothing(p)
  /\ codes[p] = "ok" => p \in verified

\* A profile names a database that has its files and its vault.
BoundInv == bound \in Procs => (\A k \in Migrate!Kinds : target[k] = bound) /\ HasVault(bound)

MigrationInv == MigrationTypes /\ BoundInv /\ \A p \in Procs : MigratingInv(p)

LEMMA IdleIsNotMigrating == \A c \in Migrating : c # Migrate!Idle
BY DEF Migrating, Migrate!Idle, MigrationPCs

LEMMA MigrationInit == Migrate!ConstantsFit /\ Migrate!Init => MigrationInv
<1> SUFFICES ASSUME Migrate!ConstantsFit, Migrate!Init PROVE MigrationInv
  OBVIOUS
<1>1. MigrationTypes
  BY DEF Migrate!Init, MigrationTypes, Migrate!Kinds, Migrate!Vacant, Migrate!Base, Migrate!Gone
<1>2. ASSUME NEW p \in Procs PROVE MigratingInv(p)
  BY <1>2 DEF Migrate!ConstantsFit, Migrate!Init, MigratingInv, LeftNothing, OwnCode,
              Migrate!Vacant, Migrate!Base, Migrate!Kinds
<1> QED BY <1>1, <1>2 DEF Migrate!ConstantsFit, Migrate!Init, MigrationInv, BoundInv,
                          Migrate!Vacant, Migrate!Base

\* What a step of one command, of the source's owner or of others leaves of command q.
LEMMA MigrationsStay ==
  ASSUME MigrationInv, NEW q \in Procs, migrations'[q] = migrations[q], codes'[q] = codes[q],
         mode' = mode,
         targetLock = q => targetLock' = q,
         \A k \in Migrate!Kinds : target'[k] = q <=> target[k] = q,
         \A v \in vaults' : v.by = q => v \in vaults,
         mode = "initialize" /\ targetLock = q => \A v \in vaults : v.by = q => v \in vaults',
         bound' = q => bound = q,
         q \in published' => q \in published, verified \subseteq verified'
  PROVE  MigratingInv(q)'
<1>1. MigratingInv(q) /\ "data" \in Migrate!Kinds
  BY DEF MigrationInv, Migrate!Kinds
<1>2. LeftNothing(q) => LeftNothing(q)'
  BY <1>1 DEF LeftNothing
<1>3. CASE migrations[q] # Migrate!Idle
  <2> DEFINE c == migrations[q]
  <2>1. DestinationInv(q, c) => DestinationInv(q, c)'
    BY DEF DestinationInv, HasVault
  <2>2. HowFarInv(q, c) => HowFarInv(q, c)'
    BY DEF HowFarInv
  <2>3. TraceInv(q, c) => TraceInv(q, c)'
    BY <1>1 DEF TraceInv
  <2>4. DestinationInv(q, migrations[q])' /\ HowFarInv(q, migrations[q])'
            /\ TraceInv(q, migrations[q])'
    BY <1>1, <1>3, <2>1, <2>2, <2>3 DEF MigratingInv
  <2> QED BY <1>1, <1>2, <1>3, <2>4 DEF MigratingInv
<1>4. CASE migrations[q] = Migrate!Idle
  BY <1>1, <1>2, <1>4 DEF MigratingInv
<1> QED BY <1>3, <1>4

\* A command that moves while it leaves the destination and its lock alone.
LEMMA MigrationMoves ==
  ASSUME MigrationInv, NEW p \in Procs, NEW d \in Migrating, Migrate!Becomes(p, d),
         UNCHANGED <<mode, legacy, Migrate!destination, targetLock, published, codes>>,
         verified \subseteq verified', verified' \subseteq verified \cup {p},
         DestinationInv(p, d), HowFarInv(p, d)', TraceInv(p, d)
  PROVE  MigrationInv'
<1>1. migrations' = [migrations EXCEPT ![p] = d] /\ d # Migrate!Idle /\ migrations'[p] = d
  BY IdleIsNotMigrating DEF Migrate!Becomes, MigrationInv, MigrationTypes
<1>2. UNCHANGED <<target, vaults, bound>>
  BY DEF Migrate!destination
<1>3. MigrationTypes' /\ BoundInv'
  BY <1>1, <1>2 DEF MigrationInv, MigrationTypes, BoundInv, HasVault
<1>4. ASSUME NEW q \in Procs, q # p PROVE MigratingInv(q)'
  <2>1. migrations'[q] = migrations[q]
    BY <1>1, <1>4 DEF MigrationInv, MigrationTypes
  <2> QED BY <1>2, <2>1, MigrationsStay
<1>5. DestinationInv(p, d)' /\ TraceInv(p, d)'
  BY <1>2 DEF DestinationInv, TraceInv, HasVault
<1>6. codes'[p] = "none"
  BY DEF HowFarInv
<1>7. MigratingInv(p)'
  BY <1>1, <1>5, <1>6 DEF MigratingInv, OwnCode
<1> QED BY <1>3, <1>4, <1>7 DEF MigrationInv

\* The command at a step.
LEMMA MigrationRuns ==
  ASSUME MigrationInv, NEW p \in Procs, migrations[p] # Migrate!Idle
  PROVE  /\ migrations[p] \in Migrating
         /\ DestinationInv(p, migrations[p]) /\ HowFarInv(p, migrations[p])
                /\ TraceInv(p, migrations[p])
BY DEF MigrationInv, MigrationTypes, MigratingInv

LEMMA AtRuns ==
  ASSUME NEW p, NEW pc \in MigrationPCs, Migrate!At(p, pc)
  PROVE  migrations[p] # Migrate!Idle
BY DEF Migrate!At, MigrationPCs, Migrate!Idle

\* A failure, of a command with the code that it fails with.
LEMMA FailureMoves ==
  ASSUME MigrationInv, NEW p \in Procs, migrations[p] # Migrate!Idle,
         migrations[p].pc # "failed",
         NEW code \in Codes \ {"none"}, Migrate!Fails(p, code),
         UNCHANGED <<mode, legacy, Migrate!destination, targetLock, Migrate!record>>,
         code \in {"verification", "absent", "uncertain", "operation", "close"}
             => migrations[p].vault,
         code = "absent" => migrations[p].owns,
         bound = p => code \in {"uncertain", "operation", "close"}
  PROVE  MigrationInv'
<1> DEFINE c == migrations[p]
<1>1. c \in Migrating /\ DestinationInv(p, c) /\ HowFarInv(p, c) /\ TraceInv(p, c)
  BY MigrationRuns
<1>2. PICK d : d = [c EXCEPT !.code = code, !.pc = "failed"]
  OBVIOUS
<1>3. /\ d \in Migrating /\ d.pc = "failed" /\ d.code = code
      /\ d.owns = c.owns /\ d.vault = c.vault
  BY <1>1, <1>2 DEF Migrating, MigrationPCs, Codes
<1>4. UNCHANGED <<published, verified, codes>> /\ Migrate!Becomes(p, d)
  BY <1>2 DEF Migrate!record, Migrate!Fails
<1>5. DestinationInv(p, d)
  BY <1>1, <1>3 DEF DestinationInv
<1>6. HowFarInv(p, d)'
  BY <1>1, <1>3, <1>4 DEF HowFarInv, Codes
<1>7. TraceInv(p, d)
  BY <1>1, <1>3 DEF TraceInv, HowFarInv
<1> QED BY <1>3, <1>4, <1>5, <1>6, <1>7, MigrationMoves

LEMMA StartKeeps ==
  ASSUME Migrate!ConstantsFit, MigrationInv, NEW p \in Procs, Migrate!Start(p)
  PROVE  MigrationInv'
<1>1. PICK d : d = [pc |-> "source", rev |-> legacy.document, owns |-> FALSE, vault |-> FALSE,
                    code |-> "none"]
  OBVIOUS
<1>2. d \in Migrating
  BY <1>1 DEF Migrating, MigrationPCs, Codes, MigrationInv, MigrationTypes
<1>3. /\ d.pc = "source" /\ d.owns = FALSE /\ d.vault = FALSE /\ d.code = "none"
      /\ codes[p] = "none" /\ LeftNothing(p) /\ p \notin published
  BY <1>1 DEF Migrate!Start, MigrationInv, MigratingInv
<1>4. Migrate!Becomes(p, d) /\ UNCHANGED <<mode, legacy, Migrate!destination, targetLock,
          published, verified, codes>>
  BY <1>1 DEF Migrate!Start, Migrate!record
<1>5. DestinationInv(p, d) /\ TraceInv(p, d)
  BY <1>3 DEF DestinationInv, TraceInv, LeftNothing
<1>6. HowFarInv(p, d)'
  BY <1>3, <1>4 DEF HowFarInv
<1> QED BY <1>2, <1>4, <1>5, <1>6, MigrationMoves

\* A command that only goes on to the next point.
LEMMA MigrationGoesOn ==
  ASSUME MigrationInv, NEW p \in Procs, migrations[p] # Migrate!Idle, NEW pc \in MigrationPCs,
         Migrate!Goes(p, pc),
         UNCHANGED <<mode, legacy, Migrate!destination, targetLock, published, codes>>,
         verified \subseteq verified', verified' \subseteq verified \cup {p},
         migrations[p].pc # "failed", pc # "failed", bound # p,
         pc \in {"initialize", "create", "reopen", "inspect", "bind", "release", "close"}
             => targetLock = p,
         pc \notin {"source", "initialize"},
         pc \in {"open", "create"} => migrations[p].pc \in {"source"},
         pc = "create" => ~migrations[p].vault,
         pc \in {"reopen", "reopened", "inspect", "bind", "release", "close"}
             => migrations[p].vault,
         pc \in {"bind", "release"} => migrations[p].owns,
         pc \notin {"reopen", "reopened"},
         pc \in {"bind", "release", "close"} => p \in verified'
  PROVE  MigrationInv'
<1> DEFINE c == migrations[p]
<1>1. c \in Migrating /\ DestinationInv(p, c) /\ HowFarInv(p, c) /\ TraceInv(p, c)
  BY MigrationRuns
<1>2. PICK d : d = [c EXCEPT !.pc = pc]
  OBVIOUS
<1>3. /\ d \in Migrating /\ d.pc = pc /\ d.code = c.code
      /\ d.owns = c.owns /\ d.vault = c.vault
  BY <1>1, <1>2 DEF Migrating
<1>4. Migrate!Becomes(p, d)
  BY <1>2 DEF Migrate!Goes
<1>5. DestinationInv(p, d)
  BY <1>1, <1>3 DEF DestinationInv
<1>6. HowFarInv(p, d)'
  BY <1>1, <1>3, <1>4 DEF HowFarInv
<1>7. TraceInv(p, d)
  BY <1>1, <1>3 DEF TraceInv, HowFarInv
<1> QED BY <1>3, <1>4, <1>5, <1>6, <1>7, MigrationMoves

LEMMA ReadSourceKeeps ==
  ASSUME MigrationInv, NEW p \in Procs, Migrate!ReadSource(p)
  PROVE  MigrationInv'
<1>1. /\ migrations[p] # Migrate!Idle /\ migrations[p].pc = "source"
             /\ {"open", "source"} \subseteq MigrationPCs
      /\ "authentication" \in Codes \ {"none"}
  BY AtRuns DEF Migrate!ReadSource, Migrate!At, MigrationPCs, Codes
<1>2. bound # p
  BY <1>1, MigrationRuns DEF TraceInv
<1>3. UNCHANGED <<mode, legacy, Migrate!destination, targetLock, Migrate!record, published,
          verified, codes>>
  BY DEF Migrate!ReadSource, Migrate!record
<1>4. CASE Migrate!Goes(p, "open")
  BY <1>1, <1>2, <1>3, <1>4, MigrationGoesOn
<1>5. CASE Migrate!Fails(p, "authentication")
  BY <1>1, <1>2, <1>3, <1>5, FailureMoves
<1> QED BY <1>4, <1>5 DEF Migrate!ReadSource

-----------------------------------------------------------------------------
\* A step of command p leaves the other commands what they have.
Alone(p) ==
  /\ mode' = mode /\ verified \subseteq verified'
  /\ \A q \in Procs \ {p} :
       /\ migrations'[q] = migrations[q] /\ codes'[q] = codes[q] /\ (targetLock = q
              => targetLock' = q)
       /\ \A k \in Migrate!Kinds : target'[k] = q <=> target[k] = q
       /\ \A v \in vaults' : v.by = q => v \in vaults
       /\ mode = "initialize" /\ targetLock = q => \A v \in vaults : v.by = q => v \in vaults'
       /\ bound' = q => bound = q
       /\ q \in published' => q \in published

LEMMA AloneSteps ==
  ASSUME MigrationInv, NEW p \in Procs, Alone(p), MigrationTypes', BoundInv', MigratingInv(p)'
  PROVE  MigrationInv'
<1>1. ASSUME NEW q \in Procs, q # p PROVE MigratingInv(q)'
  BY <1>1, MigrationsStay DEF Alone
<1> QED BY <1>1 DEF MigrationInv

\* A command that changes what it shares with the others.
LEMMA MigrationSteps ==
  ASSUME MigrationInv, NEW p \in Procs, NEW d \in Migrating, Migrate!Becomes(p, d), Alone(p),
         MigrationTypes', BoundInv', DestinationInv(p, d)', HowFarInv(p, d)', TraceInv(p, d)'
  PROVE  MigrationInv'
<1>1. migrations'[p] = d /\ d # Migrate!Idle /\ codes'[p] = "none"
  BY IdleIsNotMigrating DEF Migrate!Becomes, HowFarInv, MigrationInv, MigrationTypes
<1>2. MigratingInv(p)'
  BY <1>1 DEF MigratingInv, OwnCode
<1> QED BY <1>2, AloneSteps

LEMMA StaysOfOthers ==
  ASSUME MigrationInv, NEW p \in Procs, NEW d, Migrate!Becomes(p, d) PROVE
  /\ migrations' = [migrations EXCEPT ![p] = d]
  /\ \A q \in Procs \ {p} : migrations'[q] = migrations[q]
  /\ d \in Migrating \cup {Migrate!Idle}
         => migrations' \in [Procs -> {Migrate!Idle} \cup Migrating]
BY DEF Migrate!Becomes, MigrationInv, MigrationTypes

\* The lock is taken when it is free, and given up by its holder.
LEMMA LockMoves ==
  ASSUME Migrate!ConstantsFit, MigrationInv, NEW p \in Procs, migrations[p] # Migrate!Idle,
         NEW pc \in MigrationPCs,
         Migrate!Goes(p, pc), UNCHANGED <<mode, legacy, Migrate!destination, Migrate!record>>,
         \/ /\ targetLock = NoOne /\ targetLock' = p
            /\ \/ migrations[p].pc = "open" /\ pc = "create"
               \/ migrations[p].pc = "open" /\ pc = "initialize" /\ mode = "initialize"
               \/ migrations[p].pc = "reopened" /\ pc = "inspect"
         \/ migrations[p].pc = "reopen" /\ pc = "reopened" /\ targetLock = p
                /\ targetLock' = NoOne /\ ~migrations[p].owns
  PROVE  MigrationInv'
<1> DEFINE c == migrations[p]
<1>1. c \in Migrating /\ DestinationInv(p, c) /\ HowFarInv(p, c) /\ TraceInv(p, c)
  BY MigrationRuns
<1>2. PICK d : d = [c EXCEPT !.pc = pc]
  OBVIOUS
<1>3. /\ d \in Migrating /\ d.pc = pc /\ d.code = c.code
      /\ d.owns = c.owns /\ d.vault = c.vault
  BY <1>1, <1>2 DEF Migrating
<1>4. Migrate!Becomes(p, d) /\ UNCHANGED <<target, vaults, bound, published, verified, codes>>
  BY <1>2 DEF Migrate!Goes, Migrate!destination, Migrate!record
<1>5. ~c.owns
  BY <1>1 DEF DestinationInv, Migrate!ConstantsFit
<1>6. DestinationInv(p, d)'
  BY <1>3, <1>5 DEF DestinationInv
<1>7. HowFarInv(p, d)'
  BY <1>1, <1>3, <1>4 DEF HowFarInv
<1>8. TraceInv(p, d)'
  BY <1>1, <1>3, <1>4 DEF TraceInv, HowFarInv
<1>9. Alone(p)
  BY <1>4, StaysOfOthers DEF Alone, Migrate!ConstantsFit
<1>10. MigrationTypes' /\ BoundInv'
  BY <1>3, <1>4, StaysOfOthers DEF MigrationInv, MigrationTypes, BoundInv, HasVault
<1> QED BY <1>3, <1>4, <1>6, <1>7, <1>8, <1>9, <1>10, MigrationSteps

LEMMA OpenDestination ==
  ASSUME Migrate!ConstantsFit, MigrationInv, NEW p \in Procs, Migrate!OpenStore(p)
  PROVE  MigrationInv'
<1>1. /\ migrations[p] # Migrate!Idle /\ migrations[p].pc = "open"
             /\ {"initialize", "create"} \subseteq MigrationPCs
      /\ "authentication" \in Codes \ {"none"}
  BY AtRuns DEF Migrate!OpenStore, Migrate!At, MigrationPCs, Codes
<1>2. bound # p
  BY <1>1, MigrationRuns DEF TraceInv
<1>3. UNCHANGED <<mode, legacy, Migrate!destination, Migrate!record>>
  BY DEF Migrate!OpenStore
<1>4. CASE targetLock = NoOne /\ target["data"] # Migrate!Gone
  BY <1>1, <1>3, <1>4, LockMoves DEF Migrate!OpenStore
<1>5. CASE ~(targetLock = NoOne /\ target["data"] # Migrate!Gone)
  BY <1>1, <1>2, <1>3, <1>5, FailureMoves DEF Migrate!OpenStore
<1> QED BY <1>4, <1>5

LEMMA ReopenKeeps ==
  ASSUME Migrate!ConstantsFit, MigrationInv, NEW p \in Procs,
         Migrate!Reopen(p) \/ Migrate!Reopened(p)
  PROVE  MigrationInv'
<1>1. /\ migrations[p] # Migrate!Idle /\ {"reopen", "reopened", "inspect"} \subseteq MigrationPCs
      /\ migrations[p].pc \in {"reopen", "reopened"} /\ "authentication" \in Codes \ {"none"}
  BY AtRuns DEF Migrate!Reopen, Migrate!Reopened, Migrate!At, MigrationPCs, Codes
<1>2. bound # p /\ (migrations[p].pc = "reopen" => targetLock = p /\ ~migrations[p].owns)
  BY <1>1, MigrationRuns DEF TraceInv, HowFarInv
<1>3. UNCHANGED <<mode, legacy, Migrate!destination, Migrate!record>>
  BY DEF Migrate!Reopen, Migrate!Reopened
<1>4. CASE Migrate!Fails(p, "authentication") /\ UNCHANGED targetLock
  BY <1>1, <1>2, <1>3, <1>4, FailureMoves
<1>5. CASE Migrate!Reopened(p) /\ targetLock = NoOne
  BY <1>1, <1>3, <1>5, LockMoves DEF Migrate!Reopened, Migrate!At
<1>6. CASE Migrate!Reopen(p) /\ targetLock' = NoOne /\ Migrate!Goes(p, "reopened")
  BY <1>1, <1>2, <1>3, <1>6, LockMoves DEF Migrate!Reopen, Migrate!At
<1> QED BY <1>4, <1>5, <1>6 DEF Migrate!Reopen, Migrate!Reopened

LEMMA InspectKeeps ==
  ASSUME MigrationInv, NEW p \in Procs, Migrate!Inspect(p)
  PROVE  MigrationInv'
<1>1. /\ migrations[p] # Migrate!Idle /\ migrations[p].pc = "inspect"
             /\ {"bind", "close"} \subseteq MigrationPCs
      /\ "verification" \in Codes \ {"none"}
  BY AtRuns DEF Migrate!Inspect, Migrate!At, MigrationPCs, Codes
<1>2. bound # p /\ targetLock = p /\ migrations[p].vault
  BY <1>1, MigrationRuns DEF TraceInv, HowFarInv
<1>3. UNCHANGED <<mode, legacy, Migrate!destination, targetLock, published, codes>>
  BY DEF Migrate!Inspect
<1>4. CASE Migrate!MyVault(p) \in vaults
  <2>1. PICK pc \in {"bind", "close"} : pc = IF migrations[p].owns THEN "bind" ELSE "close"
    OBVIOUS
  <2>2. Migrate!Goes(p, pc) /\ verified' = verified \cup {p} /\ (pc = "bind"
            => migrations[p].owns)
    BY <1>4, <2>1 DEF Migrate!Inspect
  <2> QED BY <1>1, <1>2, <1>3, <2>2, MigrationGoesOn
<1>5. CASE Migrate!MyVault(p) \notin vaults
  BY <1>1, <1>2, <1>3, <1>5, FailureMoves DEF Migrate!Inspect, Migrate!record
<1> QED BY <1>4, <1>5

LEMMA InitializeDestination ==
  ASSUME Migrate!ConstantsFit, MigrationInv, NEW p \in Procs, Migrate!Initialize(p)
  PROVE  MigrationInv'
<1> DEFINE c == migrations[p]
<1>1. /\ c # Migrate!Idle /\ c.pc = "initialize" /\ {"create", "failed"} \subseteq MigrationPCs
      /\ {"authentication", "unknown"} \subseteq Codes \ {"none"} /\ "data" \in Migrate!Kinds
  BY AtRuns DEF Migrate!Initialize, Migrate!At, MigrationPCs, Codes, Migrate!Kinds
<1>2. c \in Migrating /\ DestinationInv(p, c) /\ HowFarInv(p, c) /\ TraceInv(p, c)
  BY <1>1, MigrationRuns
<1>3. /\ bound # p /\ targetLock = p /\ mode = "initialize" /\ ~c.owns /\ ~c.vault
             /\ c.code = "none"
      /\ p \notin published
  BY <1>1, <1>2 DEF TraceInv, HowFarInv, Codes
<1>4. UNCHANGED <<mode, legacy, vaults, bound, targetLock, published, verified, codes>>
  BY DEF Migrate!Initialize, Migrate!record
<1>5. CASE \E k \in Migrate!Kinds : target[k] # Migrate!Vacant
  BY <1>1, <1>3, <1>4, <1>5, FailureMoves DEF Migrate!Initialize, Migrate!destination,
                                              Migrate!record
<1>6. CASE \A k \in Migrate!Kinds : target[k] = Migrate!Vacant
  <2>1. bound \notin Procs /\ Migrate!Vacant \notin Procs
    BY <1>1, <1>6 DEF MigrationInv, BoundInv, Migrate!ConstantsFit, Migrate!Vacant
  <2>2. PICK kinds \in SUBSET Migrate!Kinds, d \in {[c EXCEPT !.owns = TRUE, !.pc = "create"],
                                                    [c EXCEPT !.code = "authentication",
                                                        !.pc = "failed"],
                                                    [c EXCEPT !.code = "unknown",
                                                        !.pc = "failed"]} :
          /\ Migrate!Becomes(p, d) /\ target' = Migrate!Published(p, kinds)
          /\ d.pc = "create" => kinds = Migrate!Kinds
          /\ d.pc = "failed" /\ d.code = "authentication" => "data" \notin kinds
    <3>1. CASE target' = Migrate!Published(p, Migrate!Kinds)
                   /\ Migrate!Becomes(p, [c EXCEPT !.owns = TRUE, !.pc = "create"])
      <4>1. [c EXCEPT !.owns = TRUE, !.pc = "create"].pc = "create"
        BY <1>2 DEF Migrating
      <4> QED BY <3>1, <4>1
    <3>2. CASE /\ Migrate!Fails(p, "authentication")
               /\ \E kinds \in SUBSET {"key", "anchor"} : target' = Migrate!Published(p, kinds)
      <4>1. PICK kinds \in SUBSET {"key", "anchor"} : target' = Migrate!Published(p, kinds)
        BY <3>2
      <4>2. [c EXCEPT !.code = "authentication", !.pc = "failed"].pc = "failed"
        BY <1>2 DEF Migrating
      <4>3. kinds \in SUBSET Migrate!Kinds /\ "data" \notin kinds
        BY DEF Migrate!Kinds
      <4> QED BY <3>2, <4>1, <4>2, <4>3 DEF Migrate!Fails
    <3>3. CASE /\ Migrate!Fails(p, "unknown")
               /\ \E kinds \in SUBSET Migrate!Kinds : "key" \in kinds
                      /\ target' = Migrate!Published(p, kinds)
      <4>1. /\ [c EXCEPT !.code = "unknown", !.pc = "failed"].pc = "failed"
            /\ [c EXCEPT !.code = "unknown", !.pc = "failed"].code = "unknown"
        BY <1>2 DEF Migrating
      <4> QED BY <3>3, <4>1 DEF Migrate!Fails
    <3> QED BY <1>6, <3>1, <3>2, <3>3 DEF Migrate!Initialize
  <2>3. /\ d \in Migrating /\ d.vault = FALSE /\ d.pc \in {"create", "failed"}
        /\ d.code \in {"none", "authentication", "unknown"}
        /\ d.owns = (d.pc = "create") /\ (d.pc # "failed" => d.code = "none")
        /\ d.pc = "failed" => d.code # "none"
    <3>1. CASE d = [c EXCEPT !.owns = TRUE, !.pc = "create"]
      BY <1>1, <1>2, <1>3, <3>1 DEF Migrating
    <3>2. CASE d = [c EXCEPT !.code = "authentication", !.pc = "failed"]
      BY <1>1, <1>2, <1>3, <3>2 DEF Migrating
    <3>3. CASE d = [c EXCEPT !.code = "unknown", !.pc = "failed"]
      BY <1>1, <1>2, <1>3, <3>3 DEF Migrating
    <3> QED BY <3>1, <3>2, <3>3
  <2>4. /\ target' \in [Migrate!Kinds -> {Migrate!Vacant, Migrate!Gone, Migrate!Base} \cup Procs]
        /\ \A k \in Migrate!Kinds : target'[k] = IF k \in kinds THEN p ELSE Migrate!Vacant
    BY <1>6, <2>2 DEF Migrate!Published, MigrationInv, MigrationTypes
  <2>5. DestinationInv(p, d)'
    BY <1>3, <1>4, <2>2, <2>3, <2>4 DEF DestinationInv
  <2>6. HowFarInv(p, d)'
    BY <1>2, <1>3, <1>4, <2>3 DEF HowFarInv
  <2>7. TraceInv(p, d)'
    BY <1>1, <1>3, <1>4, <2>1, <2>2, <2>3, <2>4 DEF TraceInv
  <2>8. Alone(p)
    BY <1>4, <1>6, <2>1, <2>2, <2>4, StaysOfOthers DEF Alone
  <2>9. MigrationTypes' /\ BoundInv'
    BY <1>4, <2>1, <2>2, <2>3, <2>4, StaysOfOthers DEF MigrationInv, MigrationTypes, BoundInv
  <2> QED BY <2>2, <2>3, <2>5, <2>6, <2>7, <2>8, <2>9, MigrationSteps
<1> QED BY <1>5, <1>6

LEMMA CreateVaultKeeps ==
  ASSUME Migrate!ConstantsFit, MigrationInv, NEW p \in Procs, Migrate!CreateVault(p)
  PROVE  MigrationInv'
<1> DEFINE c == migrations[p]
<1>1. c # Migrate!Idle /\ c.pc = "create"
  BY AtRuns DEF Migrate!CreateVault, Migrate!At, MigrationPCs
<1>2. c \in Migrating /\ DestinationInv(p, c) /\ HowFarInv(p, c) /\ TraceInv(p, c)
  BY <1>1, MigrationRuns
<1>3. bound # p /\ targetLock = p /\ ~c.vault /\ c.code = "none"
  BY <1>1, <1>2 DEF TraceInv, HowFarInv
<1>4. UNCHANGED <<mode, legacy, target, bound, targetLock, verified, codes>>
  BY DEF Migrate!CreateVault
<1>5. CASE Migrate!Fails(p, "conflict") /\ UNCHANGED <<vaults, published>>
  BY <1>1, <1>3, <1>4, <1>5, FailureMoves DEF Migrate!destination, Migrate!record, Codes
<1>6. CASE Migrate!Fails(p, "unknown") /\ UNCHANGED <<vaults, published>>
  BY <1>1, <1>3, <1>4, <1>6, FailureMoves DEF Migrate!destination, Migrate!record, Codes
<1>7. ASSUME Migrate!Publishes(p), NEW d \in Migrating, Migrate!Becomes(p, d), d.owns = c.owns,
             \/ d.vault /\ d.code = "none" /\ d.pc = IF c.owns THEN "inspect" ELSE "reopen"
             \/ ~d.vault /\ d.code = "unknown" /\ d.pc = "failed"
      PROVE  MigrationInv'
  <2>1. PICK v : v = Migrate!MyVault(p)
    OBVIOUS
  <2>2. v \in Migrated /\ v.by = p /\ vaults' = vaults \cup {v} /\ published' = published \cup {p}
    BY <1>2, <1>7, <2>1 DEF Migrate!MyVault, Migrated, Migrating, Migrate!Publishes
  <2>3. DestinationInv(p, d)'
    BY <1>2, <1>4, <1>7, <2>2 DEF DestinationInv, HasVault
  <2>4. HowFarInv(p, d)'
    BY <1>2, <1>3, <1>4, <1>7 DEF HowFarInv
  <2>5. TraceInv(p, d)'
    BY <1>3, <1>4, <1>7 DEF TraceInv
  <2>6. Alone(p)
    BY <1>4, <1>7, <2>2, StaysOfOthers DEF Alone
  <2>7. MigrationTypes' /\ BoundInv'
    BY <1>4, <1>7, <2>2, StaysOfOthers DEF MigrationInv, MigrationTypes, BoundInv, HasVault
  <2> QED BY <1>7, <2>3, <2>4, <2>5, <2>6, <2>7, MigrationSteps
<1>8. CASE /\ Migrate!Publishes(p)
           /\ Migrate!Becomes(p, [c EXCEPT !.vault = TRUE,
                  !.pc = IF c.owns THEN "inspect" ELSE "reopen"])
  <2>1. PICK pc \in MigrationPCs : pc = IF c.owns THEN "inspect" ELSE "reopen"
    BY DEF MigrationPCs
  <2>2. PICK d : d = [c EXCEPT !.vault = TRUE, !.pc = pc]
    OBVIOUS
  <2>3. d \in Migrating /\ d.owns = c.owns /\ d.vault /\ d.code = "none" /\ d.pc = pc
    BY <1>2, <1>3, <2>2 DEF Migrating
  <2> QED BY <1>7, <1>8, <2>1, <2>2, <2>3
<1>9. CASE Migrate!Fails(p, "unknown") /\ Migrate!Publishes(p)
  <2>1. PICK d : d = [c EXCEPT !.code = "unknown", !.pc = "failed"]
    OBVIOUS
  <2>2. /\ d \in Migrating /\ d.owns = c.owns /\ ~d.vault /\ d.code = "unknown" /\ d.pc = "failed"
    BY <1>2, <1>3, <2>1 DEF Migrating, MigrationPCs, Codes
  <2> QED BY <1>7, <1>9, <2>1, <2>2 DEF Migrate!Fails
<1> QED BY <1>5, <1>6, <1>8, <1>9 DEF Migrate!CreateVault

LEMMA BindKeeps ==
  ASSUME Migrate!ConstantsFit, MigrationInv, NEW p \in Procs, Migrate!Bind(p)
  PROVE  MigrationInv'
<1> DEFINE c == migrations[p]
<1>1. c # Migrate!Idle /\ c.pc = "bind"
  BY AtRuns DEF Migrate!Bind, Migrate!At, MigrationPCs
<1>2. c \in Migrating /\ DestinationInv(p, c) /\ HowFarInv(p, c) /\ TraceInv(p, c)
  BY <1>1, MigrationRuns
<1>3. /\ bound # p /\ targetLock = p /\ c.vault /\ c.owns /\ c.code = "none" /\ p \in verified
      /\ mode = "initialize" /\ HasVault(p) /\ \A k \in Migrate!Kinds : target[k] = p
  BY <1>1, <1>2 DEF TraceInv, HowFarInv, DestinationInv
<1>4. UNCHANGED <<mode, legacy, target, vaults, targetLock, published, verified, codes>>
  BY DEF Migrate!Bind, Migrate!record
<1>5. CASE UNCHANGED bound /\ (Migrate!Fails(p, "absent") \/ Migrate!Fails(p, "uncertain"))
  BY <1>1, <1>3, <1>4, <1>5, FailureMoves DEF Migrate!destination, Migrate!record, Codes
<1>6. ASSUME bound' = p, NEW d \in Migrating, Migrate!Becomes(p, d), d.owns = c.owns, d.vault,
             \/ d.code = "none" /\ d.pc = "release"
             \/ d.code = "uncertain" /\ d.pc = "failed"
      PROVE  MigrationInv'
  <2>1. DestinationInv(p, d)'
    BY <1>3, <1>4, <1>6 DEF DestinationInv, HasVault
  <2>2. HowFarInv(p, d)'
    BY <1>2, <1>3, <1>4, <1>6 DEF HowFarInv
  <2>3. TraceInv(p, d)'
    BY <1>3, <1>4, <1>6 DEF TraceInv
  <2>4. Alone(p)
    BY <1>4, <1>6, StaysOfOthers DEF Alone
  <2>5. MigrationTypes' /\ BoundInv'
    BY <1>3, <1>4, <1>6, StaysOfOthers DEF MigrationInv, MigrationTypes, BoundInv, HasVault
  <2> QED BY <1>6, <2>1, <2>2, <2>3, <2>4, <2>5, MigrationSteps
<1>7. CASE bound' = p /\ Migrate!Goes(p, "release")
  <2>1. PICK d : d = [c EXCEPT !.pc = "release"]
    OBVIOUS
  <2>2. d \in Migrating /\ d.owns = c.owns /\ d.vault /\ d.code = "none" /\ d.pc = "release"
    BY <1>2, <1>3, <2>1 DEF Migrating, MigrationPCs
  <2> QED BY <1>6, <1>7, <2>1, <2>2 DEF Migrate!Goes
<1>8. CASE bound' = p /\ Migrate!Fails(p, "uncertain")
  <2>1. PICK d : d = [c EXCEPT !.code = "uncertain", !.pc = "failed"]
    OBVIOUS
  <2>2. d \in Migrating /\ d.owns = c.owns /\ d.vault /\ d.code = "uncertain" /\ d.pc = "failed"
    BY <1>2, <1>3, <2>1 DEF Migrating, MigrationPCs, Codes
  <2> QED BY <1>6, <1>8, <2>1, <2>2 DEF Migrate!Fails
<1> QED BY <1>5, <1>7, <1>8 DEF Migrate!Bind

LEMMA ReleaseKeeps ==
  ASSUME MigrationInv, NEW p \in Procs, Migrate!Release(p)
  PROVE  MigrationInv'
<1> DEFINE c == migrations[p]
<1>1. c # Migrate!Idle /\ c.pc = "release"
  BY AtRuns DEF Migrate!Release, Migrate!At, MigrationPCs
<1>2. c \in Migrating /\ DestinationInv(p, c) /\ HowFarInv(p, c) /\ TraceInv(p, c)
  BY <1>1, MigrationRuns
<1>3. targetLock = p /\ c.vault /\ c.code = "none" /\ p \in verified
  BY <1>1, <1>2 DEF HowFarInv
<1>4. UNCHANGED <<mode, legacy, Migrate!destination, targetLock, published, verified, codes>>
  BY DEF Migrate!Release, Migrate!record
<1>5. CASE Migrate!Fails(p, "operation")
  BY <1>1, <1>3, <1>4, <1>5, FailureMoves DEF Migrate!record, Codes
<1>6. CASE Migrate!Becomes(p, [c EXCEPT !.owns = FALSE, !.pc = "close"])
  <2>1. PICK d : d = [c EXCEPT !.owns = FALSE, !.pc = "close"]
    OBVIOUS
  <2>2. d \in Migrating /\ ~d.owns /\ d.vault /\ d.code = "none" /\ d.pc = "close"
    BY <1>2, <1>3, <2>1 DEF Migrating, MigrationPCs
  <2>3. DestinationInv(p, d) /\ TraceInv(p, d)
    BY <2>2 DEF DestinationInv, TraceInv
  <2>4. HowFarInv(p, d)'
    BY <1>2, <1>3, <1>4, <2>2 DEF HowFarInv
  <2> QED BY <1>4, <1>6, <2>1, <2>2, <2>3, <2>4, MigrationMoves
<1> QED BY <1>5, <1>6 DEF Migrate!Release

-----------------------------------------------------------------------------
\* A command that ends, with whatever it reports or killed.
LEMMA MigrationEndStays ==
  ASSUME MigrationInv, NEW p \in Procs, NEW code, code # "none", Migrate!Ends(p, code)
  PROVE  /\ migrations' \in [Procs -> {Migrate!Idle} \cup Migrating] /\ DOMAIN codes' = Procs
         /\ migrations'[p] = Migrate!Idle /\ codes'[p] = code
         /\ \A q \in Procs \ {p} : /\ migrations'[q] = migrations[q] /\ codes'[q] = codes[q]
                                   /\ targetLock = q => targetLock' = q
BY DEF Migrate!Ends, Migrate!Becomes, Migrate!Unlocked, MigrationInv, MigrationTypes

LEMMA MigrationEnds ==
  ASSUME MigrationInv, NEW p \in Procs, NEW code, code # "none", Migrate!Ends(p, code),
         UNCHANGED <<mode, legacy, Migrate!destination, published, verified>>,
         OwnCode(code) => LeftNothing(p), code = "ok" => p \in verified
  PROVE  MigrationInv'
<1>1. UNCHANGED <<target, vaults, bound>>
  BY DEF Migrate!destination
<1>2. Alone(p)
  BY <1>1, MigrationEndStays DEF Alone
<1>3. MigrationTypes' /\ BoundInv'
  BY <1>1, MigrationEndStays DEF MigrationInv, MigrationTypes, BoundInv, HasVault
<1>4. LeftNothing(p) => LeftNothing(p)'
  BY <1>1 DEF LeftNothing
<1>5. MigratingInv(p)'
  BY <1>4, MigrationEndStays DEF MigratingInv
<1> QED BY <1>2, <1>3, <1>5, AloneSteps

LEMMA CloseDestination ==
  ASSUME MigrationInv, NEW p \in Procs, Migrate!Close(p)
  PROVE  MigrationInv'
<1>1. migrations[p] # Migrate!Idle /\ migrations[p].pc = "close"
  BY AtRuns DEF Migrate!Close, Migrate!At, MigrationPCs
<1>2. p \in verified /\ migrations[p].vault
  BY <1>1, MigrationRuns DEF HowFarInv
<1>3. UNCHANGED <<mode, legacy, Migrate!destination, published, verified>>
  BY DEF Migrate!Close
<1>4. CASE Migrate!Ends(p, "ok")
  BY <1>2, <1>3, <1>4, MigrationEnds DEF OwnCode
<1>5. CASE Migrate!Fails(p, "close") /\ UNCHANGED <<codes, targetLock>>
  BY <1>1, <1>2, <1>3, <1>5, FailureMoves DEF Codes, Migrate!record
<1> QED BY <1>4, <1>5 DEF Migrate!Close

\* A failure that is not reported as ambiguous left no vault.
LEMMA CertainFailure ==
  ASSUME MigrationInv, NEW p \in Procs, Migrate!At(p, "failed"), ~Migrate!Unsure(p)
  PROVE  /\ bound # p
         /\ migrations[p].owns => \A k \in Migrate!Kinds : target[k] = p
         /\ migrations[p].owns => mode = "initialize"
         /\ ~migrations[p].owns => LeftNothing(p)
<1>1. migrations[p] # Migrate!Idle
  BY AtRuns DEF Migrate!At, MigrationPCs
<1>2. DestinationInv(p, migrations[p]) /\ HowFarInv(p, migrations[p])
          /\ TraceInv(p, migrations[p])
  BY <1>1, MigrationRuns
<1>3. \A v \in vaults : v.by \in published
  BY DEF MigrationInv, MigrationTypes
<1> QED BY <1>2, <1>3 DEF DestinationInv, HowFarInv, TraceInv, Migrate!Unsure, Migrate!At,
                          LeftNothing

LEMMA KeepKeeps ==
  ASSUME MigrationInv, NEW p \in Procs, Migrate!Keep(p)
  PROVE  MigrationInv'
<1>1. migrations[p] # Migrate!Idle /\ Migrate!At(p, "failed")
  BY AtRuns DEF Migrate!Keep, MigrationPCs
<1>2. UNCHANGED <<mode, legacy, Migrate!destination, published, verified>>
  BY DEF Migrate!Keep
<1>3. CASE Migrate!Unsure(p)
  BY <1>2, <1>3, MigrationEnds DEF Migrate!Keep, OwnCode
<1>4. CASE ~Migrate!Unsure(p)
  <2>1. migrations[p].code \in Codes /\ LeftNothing(p)
    BY <1>1, <1>4, MigrationRuns, CertainFailure DEF Migrate!Keep, Migrate!Undoes, Migrating
  <2>2. CASE migrations[p].code = "none"
    <3>1. FALSE
      BY <1>1, <2>2, MigrationRuns DEF HowFarInv, Migrate!At
    <3> QED BY <3>1
  <2>3. CASE migrations[p].code # "none"
    BY <1>2, <1>4, <2>1, <2>3, MigrationEnds DEF Migrate!Keep, Codes
  <2> QED BY <2>2, <2>3
<1> QED BY <1>3, <1>4

LEMMA MigrationCrash ==
  ASSUME MigrationInv, NEW p \in Procs, Migrate!Crash(p)
  PROVE  MigrationInv'
<1>1. Migrate!Ends(p, "killed")
  BY DEF Migrate!Crash, Migrate!Ends
<1>2. UNCHANGED <<mode, legacy, Migrate!destination, published, verified>>
  BY DEF Migrate!Crash
<1> QED BY <1>1, <1>2, MigrationEnds DEF OwnCode

LEMMA UndoKeeps ==
  ASSUME Migrate!ConstantsFit, MigrationInv, NEW p \in Procs, Migrate!Undo(p)
  PROVE  MigrationInv'
<1>1. Migrate!At(p, "failed") /\ ~Migrate!Unsure(p) /\ migrations[p].owns
          /\ migrations[p] # Migrate!Idle
  BY AtRuns DEF Migrate!Undo, Migrate!Undoes, MigrationPCs
<1>2. /\ bound # p /\ mode = "initialize" /\ \A k \in Migrate!Kinds : target[k] = p
      /\ targetLock = p /\ migrations[p].code \in Codes \ {"none"}
  BY <1>1, MigrationRuns, CertainFailure DEF DestinationInv, HowFarInv, Migrate!At, Migrating
<1>3. UNCHANGED <<mode, legacy, bound, published, verified>>
  BY DEF Migrate!Undo
<1>4. bound \notin Procs
  BY <1>2 DEF MigrationInv, BoundInv, Migrate!Kinds
<1>5. PICK kinds \in SUBSET Migrate!Kinds, code \in {migrations[p].code, "ambiguous"} :
        /\ target' = Migrate!Emptied(p, kinds) /\ Migrate!Ends(p, code)
        /\ code # "ambiguous" => kinds = Migrate!Kinds
  <2>1. CASE target' = Migrate!Emptied(p, Migrate!Kinds) /\ Migrate!Ends(p, migrations[p].code)
    BY <2>1
  <2>2. CASE Migrate!Ends(p, "ambiguous")
                 /\ \E kinds \in SUBSET Migrate!Kinds : target' = Migrate!Emptied(p, kinds)
    BY <2>2
  <2> QED BY <2>1, <2>2 DEF Migrate!Undo
<1>6. code # "none" /\ code \notin {"ok", "killed"}
  BY <1>2 DEF Codes
<1>7. /\ target' \in [Migrate!Kinds -> {Migrate!Vacant, Migrate!Gone, Migrate!Base} \cup Procs]
      /\ \A k \in Migrate!Kinds : target'[k] = IF k \in kinds THEN Migrate!Gone ELSE target[k]
      /\ Migrate!Gone \notin Procs /\ "data" \in Migrate!Kinds
  BY <1>2, <1>5 DEF Migrate!Emptied, MigrationInv, MigrationTypes, Migrate!ConstantsFit,
                    Migrate!Gone, Migrate!Kinds
<1>8. vaults' = IF target'["data"] = Migrate!Gone THEN {} ELSE vaults
  BY DEF Migrate!Undo
<1>9. Alone(p)
  BY <1>2, <1>3, <1>5, <1>6, <1>7, <1>8, MigrationEndStays DEF Alone
<1>10. MigrationTypes' /\ BoundInv'
  BY <1>3, <1>4, <1>5, <1>6, <1>7, <1>8, MigrationEndStays DEF MigrationInv, MigrationTypes,
                                                               BoundInv
<1>11. code # "ambiguous" => LeftNothing(p)'
  BY <1>2, <1>3, <1>5, <1>7, <1>8 DEF LeftNothing
<1>12. MigratingInv(p)'
  BY <1>5, <1>6, <1>11, MigrationEndStays DEF MigratingInv, OwnCode
<1> QED BY <1>9, <1>10, <1>12, AloneSteps

\* The owner of the source, and those who use the vaults.
LEMMA WriteSourceKeeps == ASSUME MigrationInv, Migrate!WriteSource PROVE MigrationInv'
<1>1. UNCHANGED <<mode, target, vaults, bound, targetLock, migrations, published, verified,
          codes>>
  BY DEF Migrate!WriteSource, Migrate!destination, Migrate!record
<1>2. legacy' \in [{"document", "anchor"} -> Nat]
  BY DEF Migrate!WriteSource, MigrationInv, MigrationTypes
<1>3. MigrationTypes' /\ BoundInv'
  BY <1>1, <1>2 DEF MigrationInv, MigrationTypes, BoundInv, HasVault
<1>4. ASSUME NEW q \in Procs PROVE MigratingInv(q)'
  BY <1>1, MigrationsStay
<1> QED BY <1>3, <1>4 DEF MigrationInv

LEMMA RemoveKeeps ==
  ASSUME Migrate!ConstantsFit, MigrationInv, NEW v \in vaults, Migrate!Remove(v)
  PROVE  MigrationInv'
<1>1. UNCHANGED <<mode, legacy, target, bound, targetLock, migrations, published, verified,
          codes>>
  BY DEF Migrate!Remove, Migrate!record
<1>2. mode = "existing" /\ vaults' \subseteq vaults
  BY DEF Migrate!Remove
<1>3. MigrationTypes' /\ BoundInv'
  BY <1>1, <1>2 DEF MigrationInv, MigrationTypes, BoundInv, Migrate!ConstantsFit, Migrate!Base
<1>4. ASSUME NEW q \in Procs PROVE MigratingInv(q)'
  BY <1>1, <1>2, MigrationsStay
<1> QED BY <1>3, <1>4 DEF MigrationInv

LEMMA MigrationStep == Migrate!ConstantsFit /\ MigrationInv /\ [Migrate!Next]_(Migrate!vars)
    => MigrationInv'
<1> SUFFICES ASSUME Migrate!ConstantsFit, MigrationInv,
                 [Migrate!Next]_(Migrate!vars) PROVE MigrationInv'
  OBVIOUS
<1>1. CASE \E p \in Procs : Migrate!Start(p) \/ Migrate!ReadSource(p) \/ Migrate!OpenStore(p)
               \/ Migrate!Initialize(p)
  BY <1>1, StartKeeps, ReadSourceKeeps, OpenDestination, InitializeDestination
<1>2. CASE \E p \in Procs : Migrate!CreateVault(p) \/ Migrate!Reopen(p) \/ Migrate!Reopened(p)
               \/ Migrate!Inspect(p)
  BY <1>2, CreateVaultKeeps, ReopenKeeps, InspectKeeps
<1>3. CASE \E p \in Procs : Migrate!Bind(p) \/ Migrate!Release(p) \/ Migrate!Close(p)
  BY <1>3, BindKeeps, ReleaseKeeps, CloseDestination
<1>4. CASE \E p \in Procs : Migrate!Keep(p) \/ Migrate!Undo(p) \/ Migrate!Crash(p)
  BY <1>4, KeepKeeps, UndoKeeps, MigrationCrash
<1>5. CASE Migrate!WriteSource \/ \E v \in vaults : Migrate!Remove(v)
  BY <1>5, WriteSourceKeeps, RemoveKeeps
<1>6. CASE UNCHANGED Migrate!vars
  <2>1. UNCHANGED <<mode, legacy, target, vaults, bound, targetLock, migrations, published,
            verified, codes>>
    BY <1>6 DEF Migrate!vars
  <2>2. MigrationTypes' /\ BoundInv'
    BY <2>1 DEF MigrationInv, MigrationTypes, BoundInv, HasVault
  <2>3. ASSUME NEW q \in Procs PROVE MigratingInv(q)'
    BY <2>1, MigrationsStay
  <2> QED BY <2>2, <2>3 DEF MigrationInv
<1> QED BY <1>1, <1>2, <1>3, <1>4, <1>5, <1>6 DEF Migrate!Next

\* Whatever fails, is killed or overlaps, a migration's code is true of its destination.
THEOREM CodesAreTrue ==
  ASSUME Migrate!ConstantsFit
  PROVE  Migrate!Spec => []MigrationCodesAreTrue
<1>1. MigrationInv => MigrationCodesAreTrue
  BY DEF MigrationInv, MigratingInv, BoundInv, HasVault, OwnCode, LeftNothing,
         MigrationCodesAreTrue, Migrate!MigrationCodesAreTrue
<1> QED BY <1>1, MigrationInit, MigrationStep, PTL DEF Migrate!Spec
=============================================================================
