---------------------------- MODULE StructuredVault ----------------------------
(***************************************************************************)
(* The plaintext of one vault of a database: project contexts, services    *)
(* and credential items with typed fields and notes, edited by the         *)
(* structured commands of apps/cli/src/structured-vault-impl.ts, and seen  *)
(* by the flat commands as a map from names to values: the items of the    *)
(* default service (structured-vault-projection.ts).  A vault written by   *)
(* an old release is such a map, and is upgraded by the first write.       *)
(* Every update of an item keeps the item before it as a snapshot, which   *)
(* can be restored (item-snapshots.ts).  An update is one mutation of a    *)
(* session (DatabaseSession), so updates follow one another here.          *)
(*                                                                         *)
(* An operation is the set of vaults it may lead to; one that is refused   *)
(* leads nowhere.  An identity is new within its vault.  Left out are      *)
(* what no command writes: template fields, attachments, related items.    *)
(***************************************************************************)
EXTENDS Naturals, Sequences, FiniteSets
LOCAL INSTANCE FiniteSetsExt
LOCAL INSTANCE Functions

CONSTANTS Contexts, Services, Titles, NoteTitles, \* names that a user gives
          FlatNames,      \* titles that are names of flat credentials too
          Inherited,      \* titles that every JavaScript object has a value for
          FieldNames,
          Keys,           \* field names that are stable keys; "value" is one
          Values, Ids,    \* identities of items, not 0
          LegacyVaults,   \* maps from names to values
          Retained,       \* snapshots kept of an item
          Marks,          \* what a command may say of sensitivity: none, sensitive, public
          MaxRevision,    \* bound: updates of the items there are
          MaxEntries,     \* bound: contexts, services and items
          None

VARIABLE vault

Default == 0   \* the identity of the default context and of its default service

Types == {"password", "text"}

-----------------------------------------------------------------------------
(* What the schemas admit.                                                 *)

Unique(S, Of(_)) == \A x, y \in S : Of(x) = Of(y) => x = y

\* Keys are those of one field, archived ones included.
WellFormedItem(i) ==
  /\ Unique(i.fields, LAMBDA f : f.key) /\ Unique(i.archived, LAMBDA f : f.key)
  /\ {f.key : f \in i.fields} \cap {f.key : f \in i.archived} = {}
  /\ \A f \in i.fields : f.type = "password" => f.sensitive

SnapshotsAreBound(v) ==
  /\ \A s \in Range(v.snapshots) : \E i \in v.items : i.id = s.id /\ i.service = s.service
  /\ \A i \in v.items :
       Cardinality({k \in DOMAIN v.snapshots : v.snapshots[k].id = i.id}) =< Retained

NamesAreUnique(v) ==
  /\ Unique(v.contexts, LAMBDA c : c.id) /\ Unique(v.contexts, LAMBDA c : c.name)
  /\ Unique(v.services, LAMBDA s : s.id)
  /\ Unique(v.services, LAMBDA s : <<s.context, s.name>>)
  /\ Unique(v.items, LAMBDA i : i.id) /\ Unique(v.items, LAMBDA i : <<i.service, i.title>>)

ReferencesResolve(v) ==
  /\ \A s \in v.services : \E c \in v.contexts : c.id = s.context
  /\ \A i \in v.items : \E s \in v.services : s.id = i.service

WellFormed(v) == /\ NamesAreUnique(v) /\ ReferencesResolve(v) /\ SnapshotsAreBound(v)
                 /\ \A i \in v.items : WellFormedItem(i)

Parsed(vs) == {v \in vs : WellFormed(v)}

-----------------------------------------------------------------------------
(* Contexts, services and items.                                           *)

NewId(S) == LET used == {x.id : x \in S} IN
            IF Ids \subseteq used THEN {} ELSE {CHOOSE n \in Ids : n \notin used}

\* What a name stands for: one context, a service of it, an item of that.
ResolveContext(v, name)    == {c \in v.contexts : c.name = name}
ResolveService(v, c, name) == {s \in v.services : s.context = c.id /\ s.name = name}
ResolveItem(v, s, title)   == {i \in v.items : i.service = s.id /\ i.title = title}

Replaced(S, x, y) == (S \ {x}) \union {y}

CreateContext(v, name) ==
  Parsed({[v EXCEPT !.contexts = @ \union {[id |-> n, name |-> name]}] : n \in NewId(v.contexts)})

RenameContext(v, c, name) ==
  IF c.id = Default THEN {}
  ELSE Parsed({[v EXCEPT !.contexts = Replaced(@, c, [c EXCEPT !.name = name])]})

RemoveContext(v, c) ==
  IF c.id = Default \/ \E s \in v.services : s.context = c.id THEN {}
  ELSE Parsed({[v EXCEPT !.contexts = @ \ {c}]})

CreateService(v, c, name) ==
  Parsed({[v EXCEPT !.services = @ \union {[id |-> n, context |-> c.id, name |-> name]}] :
            n \in NewId(v.services)})

RenameService(v, s, name) ==
  IF s.id = Default THEN {}
  ELSE Parsed({[v EXCEPT !.services = Replaced(@, s, [s EXCEPT !.name = name])]})

RemoveService(v, s) ==
  IF s.id = Default \/ \E i \in v.items : i.service = s.id THEN {}
  ELSE Parsed({[v EXCEPT !.services = @ \ {s}]})

\* The field that flat commands read and write.
ValueField(value) == [key |-> "value", label |-> "Value", type |-> "password",
                      sensitive |-> TRUE, value |-> value]

NewItem(n, s, title, fields) ==
  [id |-> n, service |-> s, title |-> title, fields |-> fields, archived |-> {},
   notes |-> {}, revision |-> 0]

\* An item of the default service is made with an empty value field.
CreateItem(v, s, title) ==
  Parsed({[v EXCEPT !.items = @ \union
             {NewItem(n, s.id, title, IF s.id = Default THEN {ValueField(None)} ELSE {})}] :
            n \in NewId(v.items)})

\* An item that is replaced by its next revision.
Revised(v, i, j) == Parsed({[v EXCEPT !.items = Replaced(@, i, [j EXCEPT !.revision = @ + 1])]})

RenameItem(v, i, title) == Revised(v, i, [i EXCEPT !.title = title])

\* An item goes with its snapshots.
RemoveItem(v, i) ==
  Parsed({[v EXCEPT !.items = @ \ {i}, !.snapshots = SelectSeq(@, LAMBDA s : s.id # i.id)]})

-----------------------------------------------------------------------------
(* Fields and notes.                                                       *)

ResolveField(i, name) == {f \in i.fields : name \in {f.key, f.label}}

\* A name that is no stable key gets a key of its own.
StableKey(i, name) == IF name \in Keys THEN name ELSE <<name, Cardinality(i.archived)>>

CreateFieldDefinition(i, name, type, mark) ==
  IF mark = "public" /\ type = "password" THEN {}
  ELSE {[key |-> StableKey(i, name), label |-> name, type |-> type,
         sensitive |-> mark # "public" /\ (mark = "sensitive" \/ type = "password"),
         value |-> None]}

\* Neither its type nor its sensitivity changes in place.
UpdateExistingDefinition(f, type, mark) ==
  IF /\ f.type = type
     /\ mark # "none" => f.sensitive = (mark = "sensitive" \/ (mark # "public" /\ f.sensitive))
  THEN {f} ELSE {}

SetField(v, i, name, type, mark, value) ==
  LET existing == ResolveField(i, name)
      next == IF existing = {} THEN CreateFieldDefinition(i, name, type, mark)
              ELSE UNION {UpdateExistingDefinition(f, type, mark) : f \in existing}
  IN UNION {Revised(v, i, [i EXCEPT !.fields = (@ \ existing) \union {[f EXCEPT !.value = value]}]) :
              f \in next}

\* Mutant: the field of the flat commands is removed like any other.
RemoveAnyField(v, i, name) ==
  UNION {Revised(v, i, [i EXCEPT !.fields = @ \ {f}, !.archived = @ \union {f}]) :
           f \in ResolveField(i, name)}

\* A removed field is archived with its value.
RemoveField(v, i, name) ==
  UNION {Revised(v, i, [i EXCEPT !.fields = @ \ {f}, !.archived = @ \union {f}]) :
           f \in {f \in ResolveField(i, name) : ~(i.service = Default /\ f.key = "value")}}

AddNote(v, i, title, content) ==
  IF \E n \in i.notes : n.title = title /\ ~n.archived THEN {}
  ELSE Revised(v, i, [i EXCEPT !.notes = @ \union
                        {[id |-> Cardinality(i.notes), title |-> title, content |-> content,
                          archived |-> FALSE]}])

RemoveNote(v, i, n) ==
  IF n.archived THEN {}
  ELSE Revised(v, i, [i EXCEPT !.notes = Replaced(@, n, [n EXCEPT !.archived = TRUE])])

-----------------------------------------------------------------------------
(* Snapshots.                                                              *)

\* Mutant: the first snapshots of an item are kept.
RetainFirst(all) ==
  SelectSeq([k \in DOMAIN all |-> k],
            LAMBDA k : Cardinality({m \in 1..k : all[m].id = all[k].id}) =< Retained)

\* Of the snapshots of one item, those that were taken last.
Retain(all) ==
  SelectSeq([k \in DOMAIN all |-> k],
            LAMBDA k : Cardinality({m \in k..Len(all) : all[m].id = all[k].id}) =< Retained)

\* The items of a vault that a mutation changed, each as it was, and the earlier
\* snapshots of items there are.  Nothing is recorded when the vault was flat.
RecordItemSnapshots(before, after) ==
  IF before.kind = "flat" THEN after
  ELSE LET kept    == SelectSeq(after.snapshots, LAMBDA s : \E i \in after.items : i.id = s.id)
           changed == {i \in before.items : \E j \in after.items : j.id = i.id /\ j # i}
           all     == kept \o CHOOSE s \in [1..Cardinality(changed) -> changed] : Range(s) = changed
           chosen  == Retain(all)
       IN [after EXCEPT !.snapshots = [k \in DOMAIN chosen |-> all[chosen[k]]]]

\* The content of a snapshot becomes the next revision of its item.
RestoreItemSnapshot(v, i, s) ==
  IF s.id # i.id \/ s.service # i.service THEN {}
  ELSE Parsed({[v EXCEPT !.items = Replaced(@, i,
                 [s EXCEPT !.title = i.title, !.revision = i.revision + 1])]})

-----------------------------------------------------------------------------
(* The flat view.                                                          *)

\* The value that flat commands see of an item; there is none if the field for
\* it is not as the projection makes it.
CanonicalValue(i) ==
  {f.value : f \in {f \in i.fields : f.key = "value" /\ f.type = "password" /\ f.sensitive}}

DefaultItems(v) == {i \in v.items : i.service = Default}

\* Building the map fails at an item without a value, and at a name for which an
\* object that has no such entry has a value all the same.
Projects(v) == \A i \in DefaultItems(v) : /\ Cardinality(CanonicalValue(i)) = 1
                                          /\ i.title \notin Inherited

ProjectFlat(v) ==
  [t \in {i.title : i \in DefaultItems(v)} |->
     CHOOSE x \in UNION {CanonicalValue(i) : i \in {i \in DefaultItems(v) : i.title = t}} : TRUE]

FlatOf(v) == IF v.kind = "flat" THEN v.records ELSE ProjectFlat(v)

CreateEmpty == [kind |-> "structured", contexts |-> {[id |-> Default, name |-> "Default project"]},
                services |-> {[id |-> Default, context |-> Default, name |-> "Default service"]},
                items |-> {}, snapshots |-> <<>>]

\* Items are made one after the other.
RECURSIVE AddDefaultItems(_, _)
AddDefaultItems(v, records) ==
  IF DOMAIN records = {} THEN {v}
  ELSE LET name == CHOOSE name \in DOMAIN records : TRUE
           rest == [t \in DOMAIN records \ {name} |-> records[t]] IN
       UNION {AddDefaultItems(w, rest) :
                w \in Parsed({[v EXCEPT !.items = @ \union
                                 {NewItem(n, Default, name, {ValueField(records[name])})}] :
                                n \in NewId(v.items)})}

UpgradeLegacy(v) == IF v.kind = "flat" THEN AddDefaultItems(CreateEmpty, v.records) ELSE {v}

RenameDefaultItem(v, from, to) ==
  UNION {RenameItem(v, i, to) : i \in {i \in DefaultItems(v) : i.title = from}}

RECURSIVE OverwriteDefaultItems(_, _, _)
OverwriteDefaultItems(v, names, next) ==
  IF names = {} THEN {v}
  ELSE LET name == CHOOSE name \in names : TRUE
           items == {i \in DefaultItems(v) : i.title = name}
       IN UNION {UNION {OverwriteDefaultItems(w, names \ {name}, next) :
                   w \in Revised(v, i, [i EXCEPT !.fields =
                     {IF f.key = "value" THEN [f EXCEPT !.value = next[name]] ELSE f : f \in @}])} :
                   i \in items}

RECURSIVE RemoveDefaultItems(_, _)
RemoveDefaultItems(v, names) ==
  IF names = {} THEN {v}
  ELSE LET name == CHOOSE name \in names : TRUE IN
       UNION {UNION {RemoveDefaultItems(w, names \ {name}) : w \in RemoveItem(v, i)} :
                i \in {i \in DefaultItems(v) : i.title = name}}

\* A flat transition to `next`, where the records of `written` were written now
\* and the others carried over.  Comparing maps, a name that is inherited counts
\* as there before: it is neither added nor removed, and overwritten in vain.
ApplyFlat(v, next, written) ==
  LET current == ProjectFlat(v)
      removed == DOMAIN current \ (DOMAIN next \union Inherited)
      added   == DOMAIN next \ (DOMAIN current \union Inherited)
      changed == {n \in DOMAIN next \ added : n \in written \/ n \notin DOMAIN current}
      Renamed == {w \in UNION {RenameDefaultItem(v, a, b) : a \in removed, b \in added} :
                    /\ Cardinality(removed) = 1 /\ Cardinality(added) = 1
                    /\ added \cap written = {}}
      Added   == IF removed # {} /\ added # {} THEN Renamed
                 ELSE AddDefaultItems(v, [n \in added |-> next[n]])
  IN IF ~Projects(v) THEN {}
     ELSE UNION {UNION {IF added = {} THEN RemoveDefaultItems(y, removed) ELSE {y} :
                          y \in OverwriteDefaultItems(w, changed, next)} : w \in Added}

-----------------------------------------------------------------------------
(* Commands.                                                               *)

Bounded(v) == v.kind = "structured" =>
                /\ MapThenSumSet(LAMBDA i : i.revision, v.items) =< MaxRevision
                /\ Cardinality(v.contexts \union v.services \union v.items) =< MaxEntries

StoreUpdated(w) == vault' = RecordItemSnapshots(vault, w) /\ Bounded(vault')

UpdateStructuredVault(Results(_)) ==
  \E v \in UpgradeLegacy(vault) : \E w \in Results(v) : StoreUpdated(w)

\* A legacy vault is upgraded, and its snapshots are those of the upgraded one.
UpdateVault(next, written) ==
  \E v \in UpgradeLegacy(vault) : \E w \in ApplyFlat(v, next, written) :
    vault' = RecordItemSnapshots(v, w) /\ Bounded(vault')

ContextCreate == \E name \in Contexts :
  UpdateStructuredVault(LAMBDA v : CreateContext(v, name))

ContextRename == \E from, to \in Contexts \union {"Default project"} :
  UpdateStructuredVault(LAMBDA v : UNION {RenameContext(v, c, to) : c \in ResolveContext(v, from)})

ContextRemove == \E name \in Contexts \union {"Default project"} :
  UpdateStructuredVault(LAMBDA v : UNION {RemoveContext(v, c) : c \in ResolveContext(v, name)})

ServiceCreate == \E context \in Contexts, name \in Services :
  UpdateStructuredVault(LAMBDA v :
    UNION {CreateService(v, c, name) : c \in ResolveContext(v, context)})

ServicesNamed(v, name) == UNION {ResolveService(v, c, name) : c \in v.contexts}

ServiceRename == \E from, to \in Services \union {"Default service"} :
  UpdateStructuredVault(LAMBDA v : UNION {RenameService(v, s, to) : s \in ServicesNamed(v, from)})

ServiceRemove == \E name \in Services \union {"Default service"} :
  UpdateStructuredVault(LAMBDA v : UNION {RemoveService(v, s) : s \in ServicesNamed(v, name)})

ItemsNamed(v, title) == UNION {ResolveItem(v, s, title) : s \in v.services}

ItemCreate == \E service \in Services \union {"Default service"}, title \in Titles :
  UpdateStructuredVault(LAMBDA v :
    UNION {CreateItem(v, s, title) : s \in ServicesNamed(v, service)})

ItemRename == \E from, to \in Titles :
  UpdateStructuredVault(LAMBDA v : UNION {RenameItem(v, i, to) : i \in ItemsNamed(v, from)})

ItemRemove == \E title \in Titles :
  UpdateStructuredVault(LAMBDA v : UNION {RemoveItem(v, i) : i \in ItemsNamed(v, title)})

FieldSet == \E title \in Titles, name \in FieldNames, type \in Types, mark \in Marks, x \in Values :
  UpdateStructuredVault(LAMBDA v :
    UNION {SetField(v, i, name, type, mark, x) : i \in ItemsNamed(v, title)})

FieldRemove == \E title \in Titles, name \in FieldNames :
  UpdateStructuredVault(LAMBDA v : UNION {RemoveField(v, i, name) : i \in ItemsNamed(v, title)})

NoteAdd == \E title \in Titles, note \in NoteTitles, x \in Values :
  UpdateStructuredVault(LAMBDA v : UNION {AddNote(v, i, note, x) : i \in ItemsNamed(v, title)})

NoteRemove == \E title \in Titles :
  UpdateStructuredVault(LAMBDA v :
    UNION {UNION {RemoveNote(v, i, n) : n \in i.notes} : i \in ItemsNamed(v, title)})

CredentialHistoryRestore == \E title \in Titles :
  UpdateStructuredVault(LAMBDA v :
    UNION {UNION {RestoreItemSnapshot(v, i, s) : s \in Range(v.snapshots)} :
             i \in ItemsNamed(v, title)})

\* The maps that a flat command may ask for: one credential put, renamed or removed.
FlatChanges(flat) ==
  {[next |-> [n \in DOMAIN flat \union {name} |-> IF n = name THEN x ELSE flat[n]],
    written |-> {name}] : name \in FlatNames, x \in Values}
  \union
  {[next |-> [n \in (DOMAIN flat \ {from}) \union {to} |-> flat[IF n = to THEN from ELSE n]],
    written |-> {}] : from \in DOMAIN flat \cap FlatNames, to \in FlatNames \ DOMAIN flat}
  \union
  {[next |-> [n \in DOMAIN flat \ {name} |-> flat[n]], written |-> {}] :
     name \in DOMAIN flat \cap FlatNames}

FlatCommand ==
  /\ vault.kind = "structured" => Projects(vault)
  /\ \E change \in FlatChanges(FlatOf(vault)) : UpdateVault(change.next, change.written)

Init == \/ vault = CreateEmpty
        \/ \E records \in LegacyVaults : vault = [kind |-> "flat", records |-> records]

Next == \/ ContextCreate \/ ContextRename \/ ContextRemove
        \/ ServiceCreate \/ ServiceRename \/ ServiceRemove
        \/ ItemCreate \/ ItemRename \/ ItemRemove
        \/ FieldSet \/ FieldRemove \/ NoteAdd \/ NoteRemove
        \/ CredentialHistoryRestore \/ FlatCommand

Spec == Init /\ [][Next]_vault

-----------------------------------------------------------------------------
(* Properties.                                                             *)

TypeOK == vault.kind \in {"flat", "structured"} /\ (vault.kind = "structured" => WellFormed(vault))

\* Whatever structured commands did, a flat command is carried out, and what it
\* asked for is what flat commands then see: no item, field or snapshot gets in
\* the way.  (Not so once a title is inherited.)
FlatCommandsWork ==
  \A v \in UpgradeLegacy(vault) :
    (\A i \in DefaultItems(v) : i.title \notin Inherited) =>
      /\ Projects(v)
      /\ \A change \in FlatChanges(FlatOf(v)) :
           (Cardinality(v.items) < Cardinality(Ids) /\ change.written \cap Inherited = {}
              /\ DOMAIN change.next \cap Inherited = {}) =>
             LET after == ApplyFlat(v, change.next, change.written)
             IN after # {} /\ \A w \in after : ProjectFlat(w) = change.next

\* Every snapshot that is listed can be restored, and gives back the fields and
\* notes that the item had.
VersionsRestore ==
  vault.kind = "structured" =>
    \A s \in Range(vault.snapshots) : \E i \in vault.items :
      \E w \in RestoreItemSnapshot(vault, i, s) :
        \E j \in w.items : j.id = s.id /\ j.fields = s.fields /\ j.notes = s.notes

\* An item is changed only along with a snapshot of what it was.
EditsAreKept ==
  [][vault.kind = "structured" =>
       \A i \in vault.items : \A j \in vault'.items :
         (j.id = i.id /\ j # i /\ j.revision > i.revision) => i \in Range(vault'.snapshots)]_vault
=============================================================================
