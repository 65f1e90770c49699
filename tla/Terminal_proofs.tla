---------------------------- MODULE Terminal_proofs ----------------------------
(***************************************************************************)
(* Proofs about what the operator decides at the terminal, whatever is     *)
(* answered late, fails or expires.  TuiState: for any groups and items,   *)
(* any number of requests and edits.  AppRouter: for any targets and any   *)
(* number of calls.  Onboarding: for any settings.  The instances are      *)
(* those that MCClient checks.                                             *)
(***************************************************************************)
EXTENDS Integers, Sequences, TLAPS

-----------------------------------------------------------------------------
(* TuiState: the vault browser, whose requests are answered late.           *)

CONSTANTS Groups, ItemsOf, ElementLayouts, FirstLayout, ConfirmedFields, MaxRequests, MaxEdits
VARIABLES ui, requests, items, edits, kept, saved, asked

Tui == INSTANCE TuiState WITH
  calls <- requests, store <- items,
  Layouts <- ElementLayouts, First <- FirstLayout, Confirm <- ConfirmedFields

UiFields   == {"screen", "groups", "items", "group", "item", "field", "element", "overlay",
               "grants", "draft", "dirty", "editor", "conflict", "confirming", "pending", "next"}
CallFields == {"id", "kind", "arg", "live", "result"}

\* An item as it was at one time, and as the browser may have seen it.
Revision == [kind : {"item"}, id : Tui!Items, rev : Nat,
                elements : ElementLayouts \cup {FirstLayout},
             edits : SUBSET (1 .. edits)]
Seen(v) == /\ v \in Revision /\ v.rev <= items[v.id].rev
           /\ v.rev = items[v.id].rev => v.edits = items[v.id].edits

\* An edit that reached the store and was not overruled is still there.
StoreInv ==
  /\ edits \in Nat /\ kept \subseteq 1 .. edits /\ saved \subseteq 1 .. edits
  /\ items \in [Tui!Items -> Revision] /\ \A i \in Tui!Items : items[i].id = i
  /\ kept \cap saved \subseteq UNION {items[i].edits : i \in DOMAIN items}

\* A save that the store would accept drops no edit that is kept, be it aborted or not.
SaveInv(c) ==
  /\ c.arg.item \in Tui!Items /\ c.arg.draft \in Revision /\ c.arg.draft.id = c.arg.item
  /\ c.arg.expected \in Nat /\ c.arg.expected <= items[c.arg.item].rev
  /\ items[c.arg.item].rev = c.arg.expected =>
       items[c.arg.item].edits \cap kept \subseteq c.arg.draft.edits

\* A result tells what the store held then.
ResultInv(c) ==
  /\ c.result.is = "saved" => /\ Seen(c.result.item) /\ c.result.item.id = c.arg.item
                              /\ c.arg.draft.edits \subseteq saved
  /\ c.result.is = "conflict" => Seen(c.result.remote) /\ c.result.remote.id = c.arg.item
  /\ c.result.is = "items" => \A n \in DOMAIN c.result.items : Seen(c.result.items[n])

RequestInv(c) ==
  /\ DOMAIN c = CallFields /\ c.live \in BOOLEAN
  /\ c.kind = "save" => SaveInv(c) /\ c.result.is \in {"waiting", "failed", "saved", "conflict"}
  /\ c.kind = "items" => c.arg.group \in DOMAIN ItemsOf
  /\ c.result.is = "items" => c.kind = "items"
  /\ c.result.is = "waiting" => c.result = Tui!Waiting
  /\ ResultInv(c)

\* A call that is not aborted is the one that is pending.
CallsInv ==
  \A c \in requests : /\ RequestInv(c)
                      /\ c.live => /\ ui.pending = [kind |-> c.kind, id |-> c.id, arg |-> c.arg]
                                   /\ \A d \in requests : d.live => d = c
                      /\ ~c.live => c.kind = "save"

\* What is on the screen.
ViewInv(u) ==
  /\ DOMAIN u = UiFields /\ u.group \in Nat /\ u.groups \in {<<>>, Groups}
  /\ u.screen # "browser" => u.groups = <<>>
  /\ u.groups = <<>> => u.items = <<>> /\ u.draft = Tui!Nothing /\ u.grants = {} /\ u.group = 1

\* The draft began as the item that is selected.
DraftInv(u) ==
  /\ \A n \in DOMAIN u.items : Seen(u.items[n])
  /\ u.dirty \in BOOLEAN /\ u.dirty => u.draft # Tui!Nothing
  /\ u.draft # Tui!Nothing => /\ u.draft \in Revision /\ u.item \in DOMAIN u.items
                              /\ u.items[u.item].id = u.draft.id
                              /\ u.items[u.item].edits \subseteq u.draft.edits
                              /\ \A g \in u.grants : ~u.dirty /\ g.item = u.draft.id
  /\ u.draft = Tui!Nothing => u.grants = {}

\* What an overlay is about stays as it is while it is open.
OverlayInv(u) ==
  /\ u.overlay = "editor" => u.pending = Tui!Nothing /\ u.draft # Tui!Nothing /\ u.grants = {}
  /\ u.overlay = "conflict" => /\ u.pending = Tui!Nothing /\ u.dirty /\ u.conflict.local = u.draft
                               /\ Seen(u.conflict.remote) /\ u.conflict.remote.id = u.draft.id
  /\ u.overlay = "confirm" => /\ ~u.dirty /\ u.draft # Tui!Nothing
                              /\ u.confirming.kind \in {"reveal", "copy"}

\* So does what a request is about, until it is answered.
AwaitedInv(u, may) ==
  /\ u.pending.kind = "save" => /\ u.dirty /\ u.pending.arg.draft = u.draft
                                /\ u.pending.arg.item = u.draft.id
  /\ u.pending.kind \notin {"nothing", "save"} => ~u.dirty
  /\ u.pending.kind = "groups" => u.groups = <<>>
  /\ u.pending.kind = "items" => /\ u.groups # <<>> /\ u.items = <<>>
                                 /\ u.draft = Tui!Nothing /\ u.grants = {}
  /\ u.pending.kind = "reveal" => Tui!Grant(u.pending.arg) \in may
  /\ u.grants \subseteq may

UiInv(u, may) == ViewInv(u) /\ DraftInv(u) /\ OverlayInv(u) /\ AwaitedInv(u, may)

TuiInv == StoreInv /\ CallsInv /\ UiInv(ui, asked) /\ Tui!EditsAreKept

-----------------------------------------------------------------------------
(* What is not the user interface.                                         *)
LEMMA NothingIs == Tui!Nothing.kind = "nothing" /\ \A v \in Revision : v # Tui!Nothing
BY DEF Tui!Nothing, Revision

LEMMA SeenHolds ==
  ASSUME StoreInv, NEW i \in Tui!Items
  PROVE  Seen(items[i])
<1>1. items[i] \in Revision /\ items[i].id = i
  BY DEF StoreInv
<1>2. items[i].rev \in Nat
  BY <1>1 DEF Revision
<1> QED BY <1>1, <1>2 DEF Seen

\* What was seen stays seen where the store does not move.
LEMMA SeenStays ==
  ASSUME NEW v, Seen(v), UNCHANGED <<items, edits>>
  PROVE  Seen(v)'
BY DEF Seen, Revision

\* Calls, where the store does not move and what is kept does not grow.
LEMMA CallStays ==
  ASSUME NEW c, RequestInv(c), UNCHANGED <<items, edits, saved>>, kept' \subseteq kept
  PROVE  RequestInv(c)'
<1>1. \A v : Seen(v) => Seen(v)'
  BY SeenStays
<1>2. SaveInv(c) => SaveInv(c)'
  BY DEF SaveInv, Revision
<1>3. ResultInv(c)'
  BY <1>1 DEF RequestInv, ResultInv
<1> QED BY <1>2, <1>3 DEF RequestInv

LEMMA CallsStay ==
  ASSUME CallsInv, UNCHANGED <<requests, items, edits, saved>>, kept' \subseteq kept,
         ui'.pending = ui.pending
  PROVE  CallsInv'
BY CallStays DEF CallsInv

LEMMA AbortedInv ==
  ASSUME CallsInv, NEW d \in Tui!Aborted
  PROVE  RequestInv(d) /\ ~d.live /\ d.kind = "save"
<1>1. PICK c \in requests : c.kind = "save" /\ d = [c EXCEPT !.live = FALSE]
  BY DEF Tui!Aborted
<1>2. RequestInv(c)
  BY DEF CallsInv
<1>3. /\ DOMAIN d = CallFields /\ d.live = FALSE /\ d.kind = c.kind /\ d.arg = c.arg
      /\ d.result = c.result
  BY <1>1, <1>2 DEF RequestInv, CallFields
<1>4. SaveInv(c) => SaveInv(d)
  BY <1>3 DEF SaveInv
<1>5. ResultInv(d)
  BY <1>2, <1>3 DEF RequestInv, ResultInv
<1> QED BY <1>1, <1>2, <1>3, <1>4, <1>5 DEF RequestInv

LEMMA CallsAbort ==
  ASSUME CallsInv, requests' = Tui!Aborted, UNCHANGED <<items, edits, saved>>,
         kept' \subseteq kept
  PROVE  CallsInv'
BY AbortedInv, CallStays DEF CallsInv

\* A request: an older one is aborted.
LEMMA CallsRequest ==
  ASSUME CallsInv, NEW u, NEW kind, NEW arg, Tui!Requests(u, kind, arg), DOMAIN u = UiFields,
         UNCHANGED <<items, edits, saved>>, kept' \subseteq kept,
         kind = "items" => arg.group \in DOMAIN ItemsOf,
         kind = "save" => \A c : c.arg = arg => SaveInv(c)'
  PROVE  CallsInv'
<1>1. PICK new : new = [id |-> u.next, kind |-> kind, arg |-> arg, live |-> TRUE,
               result |-> Tui!Waiting]
  OBVIOUS
<1>2. /\ DOMAIN new = CallFields /\ new.id = u.next /\ new.kind = kind /\ new.arg = arg
      /\ new.live = TRUE /\ new.result = Tui!Waiting /\ new.result.is = "waiting"
  BY <1>1 DEF CallFields, Tui!Waiting
<1>3. RequestInv(new)'
  BY <1>2 DEF RequestInv, ResultInv
<1>4. ui'.pending = [kind |-> kind, id |-> u.next, arg |-> arg]
  BY DEF Tui!Requests, UiFields
<1>5. requests' = Tui!Aborted \cup {new}
  BY <1>1 DEF Tui!Requests
<1> QED BY <1>2, <1>3, <1>4, <1>5, AbortedInv, CallStays DEF CallsInv

LEMMA StoreStays ==
  ASSUME StoreInv, UNCHANGED <<items, edits, saved>>, kept' \subseteq kept
  PROVE  StoreInv'
<1>1. Revision' = Revision
  BY DEF Revision
<1> QED BY <1>1 DEF StoreInv

\* What the interface shows stays true where the store does not move.
LEMMA UiStays ==
  ASSUME NEW u, NEW may, UiInv(u, may), UNCHANGED <<items, edits>>, ui' = u, asked' = may
  PROVE  UiInv(ui, asked)'
<1>1. \A v : Seen(v) => Seen(v)'
  BY SeenStays
<1>2. Revision' = Revision
  BY DEF Revision
<1>3. DraftInv(ui)'
  BY <1>1, <1>2 DEF UiInv, DraftInv
<1>4. OverlayInv(ui)'
  BY <1>1 DEF UiInv, OverlayInv
<1>5. ViewInv(ui)' /\ AwaitedInv(ui, asked)'
  BY DEF UiInv, ViewInv, AwaitedInv, Tui!Grant
<1> QED BY <1>3, <1>4, <1>5 DEF UiInv

\* A step of the interface that leaves the edits alone.
LEMMA Displays ==
  ASSUME TuiInv, NEW u, ui' = u, NEW may, asked' = may, UNCHANGED Tui!history, UiInv(u, may),
         CallsInv',
         (u.dirty = ui.dirty /\ u.draft = ui.draft) \/ (~u.dirty /\ ~ui.dirty)
  PROVE  TuiInv'
<1>1. StoreInv' /\ UiInv(ui, asked)'
  BY StoreStays, UiStays DEF TuiInv, Tui!history
<1>2. Tui!EditsAreKept'
  BY DEF TuiInv, Tui!EditsAreKept, Tui!history
<1> QED BY <1>1, <1>2 DEF TuiInv

-----------------------------------------------------------------------------
(* Keys.                                                                   *)

LEMMA MoveFieldKeeps ==
  ASSUME TuiInv, NEW by, Tui!MoveField(by)
  PROVE  TuiInv'
<1>1. PICK u, may : u = ui' /\ may = asked'
  OBVIOUS
<1>2. /\ DOMAIN u = UiFields /\ u.screen = ui.screen /\ u.groups = ui.groups
      /\ u.items = ui.items /\ u.group = ui.group /\ u.item = ui.item
      /\ u.overlay = ui.overlay /\ u.grants = ui.grants /\ u.draft = ui.draft
      /\ u.dirty = ui.dirty /\ u.conflict = ui.conflict /\ u.confirming = ui.confirming
      /\ u.pending = ui.pending
      /\ UNCHANGED requests
      /\ may = asked /\ UNCHANGED Tui!history
  BY <1>1 DEF TuiInv, UiInv, ViewInv, UiFields, Tui!MoveField, Tui!Becomes
<1>3. ViewInv(u) /\ DraftInv(u)
  BY <1>2, NothingIs DEF TuiInv, UiInv, ViewInv, DraftInv, OverlayInv, AwaitedInv
<1>4. OverlayInv(u) /\ AwaitedInv(u, may)
  BY <1>2, NothingIs DEF TuiInv, UiInv, ViewInv, DraftInv, OverlayInv, AwaitedInv
<1>5. CallsInv'
  BY <1>1, <1>2, CallsStay DEF TuiInv, Tui!history, Tui!Becomes
<1> QED BY <1>1, <1>2, <1>3, <1>4, <1>5, Displays DEF UiInv


LEMMA OpenOverlayKeeps ==
  ASSUME TuiInv, NEW o, Tui!OpenOverlay(o)
  PROVE  TuiInv'
<1>1. PICK u, may : u = ui' /\ may = asked'
  OBVIOUS
<1>2. /\ DOMAIN u = UiFields /\ u.screen = ui.screen /\ u.groups = ui.groups
      /\ u.items = ui.items /\ u.group = ui.group /\ u.item = ui.item /\ u.overlay = o
      /\ u.grants = ui.grants /\ u.draft = ui.draft /\ u.dirty = ui.dirty
      /\ u.conflict = ui.conflict /\ u.confirming = ui.confirming
      /\ u.pending = ui.pending
      /\ o \in {"panel", "search"}
      /\ ui.screen = "browser"
      /\ UNCHANGED requests
      /\ may = asked /\ UNCHANGED Tui!history
  BY <1>1 DEF TuiInv, UiInv, ViewInv, UiFields, Tui!OpenOverlay, Tui!Becomes, Tui!Browsing
<1>3. ViewInv(u) /\ DraftInv(u)
  BY <1>2, NothingIs DEF TuiInv, UiInv, ViewInv, DraftInv, OverlayInv, AwaitedInv
<1>4. OverlayInv(u) /\ AwaitedInv(u, may)
  BY <1>2, NothingIs DEF TuiInv, UiInv, ViewInv, DraftInv, OverlayInv, AwaitedInv
<1>5. CallsInv'
  BY <1>1, <1>2, CallsStay DEF TuiInv, Tui!history, Tui!Becomes
<1> QED BY <1>1, <1>2, <1>3, <1>4, <1>5, Displays DEF UiInv


LEMMA DismissKeeps ==
  ASSUME TuiInv, Tui!Dismiss
  PROVE  TuiInv'
<1>1. PICK u, may : u = ui' /\ may = asked'
  OBVIOUS
<1>2. /\ DOMAIN u = UiFields /\ u.screen = ui.screen /\ u.groups = ui.groups
      /\ u.items = ui.items /\ u.group = ui.group /\ u.item = ui.item
      /\ u.overlay = "none" /\ u.grants = ui.grants /\ u.draft = ui.draft
      /\ u.dirty = ui.dirty /\ u.conflict = ui.conflict /\ u.confirming = Tui!Nothing
      /\ u.pending = ui.pending
      /\ UNCHANGED requests
      /\ may = asked /\ UNCHANGED Tui!history
  BY <1>1 DEF TuiInv, UiInv, ViewInv, UiFields, Tui!Dismiss, Tui!Becomes, Tui!NoOverlay
<1>3. ViewInv(u) /\ DraftInv(u)
  BY <1>2, NothingIs DEF TuiInv, UiInv, ViewInv, DraftInv, OverlayInv, AwaitedInv
<1>4. OverlayInv(u) /\ AwaitedInv(u, may)
  BY <1>2, NothingIs DEF TuiInv, UiInv, ViewInv, DraftInv, OverlayInv, AwaitedInv
<1>5. CallsInv'
  BY <1>1, <1>2, CallsStay DEF TuiInv, Tui!history, Tui!Becomes
<1> QED BY <1>1, <1>2, <1>3, <1>4, <1>5, Displays DEF UiInv


LEMMA OpenEditorKeeps ==
  ASSUME TuiInv, Tui!OpenEditor
  PROVE  TuiInv'
<1>1. PICK u, may : u = ui' /\ may = asked'
  OBVIOUS
<1>2. /\ DOMAIN u = UiFields /\ u.screen = ui.screen /\ u.groups = ui.groups
      /\ u.items = ui.items /\ u.group = ui.group /\ u.item = ui.item
      /\ u.overlay = "editor" /\ u.grants = {} /\ u.draft = ui.draft
      /\ u.dirty = ui.dirty /\ u.conflict = ui.conflict /\ u.confirming = ui.confirming
      /\ u.pending = ui.pending
      /\ ui.draft # Tui!Nothing /\ ui.pending = Tui!Nothing
      /\ UNCHANGED requests
      /\ may = {} /\ UNCHANGED Tui!history
  BY <1>1 DEF TuiInv, UiInv, ViewInv, UiFields, Tui!OpenEditor, Tui!Becomes, Tui!Editing
<1>3. ViewInv(u) /\ DraftInv(u)
  BY <1>2, NothingIs DEF TuiInv, UiInv, ViewInv, DraftInv, OverlayInv, AwaitedInv
<1>4. OverlayInv(u) /\ AwaitedInv(u, may)
  BY <1>2, NothingIs DEF TuiInv, UiInv, ViewInv, DraftInv, OverlayInv, AwaitedInv
<1>5. CallsInv'
  BY <1>1, <1>2, CallsStay DEF TuiInv, Tui!history, Tui!Becomes
<1> QED BY <1>1, <1>2, <1>3, <1>4, <1>5, Displays DEF UiInv


LEMMA AskLockKeeps ==
  ASSUME TuiInv, Tui!AskLock
  PROVE  TuiInv'
<1>1. PICK u, may : u = ui' /\ may = asked'
  OBVIOUS
<1>2. /\ DOMAIN u = UiFields /\ u.screen = ui.screen /\ u.groups = ui.groups
      /\ u.items = ui.items /\ u.group = ui.group /\ u.item = ui.item
      /\ u.overlay = "confirm-lock" /\ u.grants = ui.grants /\ u.draft = ui.draft
      /\ u.dirty = ui.dirty /\ u.conflict = ui.conflict /\ u.confirming = ui.confirming
      /\ u.pending = ui.pending
      /\ UNCHANGED requests
      /\ may = asked /\ UNCHANGED Tui!history
  BY <1>1 DEF TuiInv, UiInv, ViewInv, UiFields, Tui!AskLock, Tui!Becomes
<1>3. ViewInv(u) /\ DraftInv(u)
  BY <1>2, NothingIs DEF TuiInv, UiInv, ViewInv, DraftInv, OverlayInv, AwaitedInv
<1>4. OverlayInv(u) /\ AwaitedInv(u, may)
  BY <1>2, NothingIs DEF TuiInv, UiInv, ViewInv, DraftInv, OverlayInv, AwaitedInv
<1>5. CallsInv'
  BY <1>1, <1>2, CallsStay DEF TuiInv, Tui!history, Tui!Becomes
<1> QED BY <1>1, <1>2, <1>3, <1>4, <1>5, Displays DEF UiInv


LEMMA ExpiryKeeps ==
  ASSUME TuiInv, NEW g, Tui!Expire(g)
  PROVE  TuiInv'
<1>1. PICK u, may : u = ui' /\ may = asked'
  OBVIOUS
<1>2. /\ DOMAIN u = UiFields /\ u.screen = ui.screen /\ u.groups = ui.groups
      /\ u.items = ui.items /\ u.group = ui.group /\ u.item = ui.item
      /\ u.overlay = ui.overlay /\ u.grants = ui.grants \ {g} /\ u.draft = ui.draft
      /\ u.dirty = ui.dirty /\ u.conflict = ui.conflict /\ u.confirming = ui.confirming
      /\ u.pending = ui.pending
      /\ UNCHANGED requests
      /\ may = asked /\ UNCHANGED Tui!history
  BY <1>1 DEF TuiInv, UiInv, ViewInv, UiFields, Tui!Expire, Tui!Becomes
<1>3. ViewInv(u) /\ DraftInv(u)
  BY <1>2, NothingIs DEF TuiInv, UiInv, ViewInv, DraftInv, OverlayInv, AwaitedInv
<1>4. OverlayInv(u) /\ AwaitedInv(u, may)
  BY <1>2, NothingIs DEF TuiInv, UiInv, ViewInv, DraftInv, OverlayInv, AwaitedInv
<1>5. CallsInv'
  BY <1>1, <1>2, CallsStay DEF TuiInv, Tui!history, Tui!Becomes
<1> QED BY <1>1, <1>2, <1>3, <1>4, <1>5, Displays DEF UiInv

\* An item is selected: a reveal that is pending is aborted.
LEMMA MoveItemKeeps ==
  ASSUME TuiInv, NEW i \in DOMAIN ui.items, Tui!MoveItem(i)
  PROVE  TuiInv'
<1>1. PICK u, may, w : /\ u = ui' /\ may = asked'
                       /\ w = [Tui!Unselected(Tui!NoOverlay) EXCEPT !.item = i,
                              !.draft = ui.items[i]]
  OBVIOUS
<1>2. /\ DOMAIN w = UiFields /\ w.screen = ui.screen /\ w.groups = ui.groups
      /\ w.items = ui.items /\ w.group = ui.group /\ w.item = i /\ w.overlay = "none"
      /\ w.grants = {} /\ w.draft = ui.items[i] /\ w.dirty = FALSE
      /\ w.conflict = Tui!Nothing /\ w.confirming = Tui!Nothing /\ w.pending = ui.pending
  BY <1>1 DEF TuiInv, UiInv, ViewInv, UiFields, Tui!Unselected, Tui!NoOverlay
<1>3. ui.screen = "browser" /\ ~ui.dirty /\ may = {} /\ UNCHANGED Tui!history
  BY <1>1 DEF Tui!MoveItem, Tui!SelectItem, Tui!Browsing
<1>4. Tui!AbortsReveal(w)
  BY <1>1 DEF Tui!MoveItem, Tui!SelectItem
<1>5. /\ DOMAIN u = UiFields /\ u.screen = w.screen /\ u.groups = w.groups
      /\ u.items = w.items /\ u.group = w.group /\ u.item = w.item
      /\ u.overlay = w.overlay /\ u.grants = w.grants /\ u.draft = w.draft
      /\ u.dirty = w.dirty /\ u.conflict = w.conflict /\ u.confirming = w.confirming
      /\ u.pending = IF ui.pending.kind = "reveal" THEN Tui!Nothing ELSE ui.pending
  BY <1>1, <1>2, <1>4 DEF Tui!AbortsReveal, Tui!Becomes, UiFields
<1>6. Seen(ui.items[i]) /\ ui.items[i] \in Revision
  BY DEF TuiInv, UiInv, DraftInv, Seen
<1>7. ViewInv(u) /\ DraftInv(u)
  BY <1>2, <1>3, <1>5, <1>6, NothingIs DEF TuiInv, UiInv, ViewInv, DraftInv
<1>8. OverlayInv(u) /\ AwaitedInv(u, may)
  BY <1>2, <1>3, <1>5, NothingIs DEF TuiInv, UiInv, OverlayInv, DraftInv, AwaitedInv
<1>9. CallsInv'
  <2>1. CASE ui.pending.kind = "reveal"
    BY <1>3, <1>4, <2>1, CallsAbort DEF TuiInv, Tui!history, Tui!AbortsReveal
  <2>2. CASE ui.pending.kind # "reveal"
    BY <1>1, <1>2, <1>3, <1>4, <1>5, <2>2, CallsStay DEF TuiInv, Tui!history, Tui!AbortsReveal,
                                                         Tui!Becomes
  <2> QED BY <2>1, <2>2
<1> QED BY <1>1, <1>2, <1>3, <1>5, <1>7, <1>8, <1>9, Displays DEF UiInv

LEMMA MoveElementKeeps ==
  ASSUME TuiInv, NEW by, Tui!MoveElement(by)
  PROVE  TuiInv'
<1>1. PICK n, w : w = [ui EXCEPT !.element = n] /\ (Tui!AbortsReveal(w) \/ Tui!Becomes(w))
  BY DEF Tui!MoveElement
<1>2. /\ DOMAIN w = UiFields /\ w.screen = ui.screen /\ w.groups = ui.groups
      /\ w.items = ui.items /\ w.group = ui.group /\ w.item = ui.item
      /\ w.overlay = ui.overlay /\ w.grants = ui.grants /\ w.draft = ui.draft
      /\ w.dirty = ui.dirty /\ w.conflict = ui.conflict /\ w.confirming = ui.confirming
      /\ w.pending = ui.pending
  BY <1>1 DEF TuiInv, UiInv, ViewInv, UiFields
<1>3. PICK u, may : u = ui' /\ may = asked'
  OBVIOUS
<1>4. may = asked /\ UNCHANGED Tui!history
  BY <1>3 DEF Tui!MoveElement
<1>5. /\ DOMAIN u = UiFields /\ u.screen = ui.screen /\ u.groups = ui.groups
      /\ u.items = ui.items /\ u.group = ui.group /\ u.item = ui.item
      /\ u.overlay = ui.overlay /\ u.grants = ui.grants /\ u.draft = ui.draft
      /\ u.dirty = ui.dirty /\ u.conflict = ui.conflict /\ u.confirming = ui.confirming
      /\ \/ u.pending = ui.pending /\ UNCHANGED requests
         \/ u.pending = Tui!Nothing /\ requests' = Tui!Aborted
  BY <1>1, <1>2, <1>3 DEF Tui!AbortsReveal, Tui!Becomes, UiFields
<1>6. ViewInv(u) /\ DraftInv(u)
  BY <1>5, NothingIs DEF TuiInv, UiInv, ViewInv, DraftInv
<1>7. OverlayInv(u) /\ AwaitedInv(u, may)
  BY <1>4, <1>5, NothingIs DEF TuiInv, UiInv, OverlayInv, DraftInv, AwaitedInv
<1>8. CallsInv'
  BY <1>3, <1>4, <1>5, CallsStay, CallsAbort DEF TuiInv, Tui!history
<1> QED BY <1>3, <1>4, <1>5, <1>6, <1>7, <1>8, Displays DEF UiInv

LEMMA LoadingKeeps ==
  ASSUME TuiInv, Tui!Start
  PROVE  TuiInv'
<1>1. PICK u, may, w, arg : /\ u = ui' /\ may = asked' /\ w = ui
                            /\ arg = Tui!Nothing
  OBVIOUS
<1>2. /\ DOMAIN w = UiFields /\ w.screen = ui.screen /\ w.groups = ui.groups
      /\ w.items = ui.items /\ w.group = ui.group /\ w.item = ui.item
      /\ w.overlay = ui.overlay /\ w.grants = ui.grants /\ w.draft = ui.draft
      /\ w.dirty = ui.dirty /\ w.conflict = ui.conflict /\ w.confirming = ui.confirming
      /\ w.pending = ui.pending
  BY <1>1 DEF TuiInv, UiInv, ViewInv, UiFields
<1>3. /\ Tui!Requests(w, "groups", arg) /\ may = asked /\ UNCHANGED Tui!history
      /\ ui.screen = "loading" /\ ui.pending = Tui!Nothing
  BY <1>1 DEF Tui!Start
<1>4. /\ DOMAIN u = UiFields /\ u.screen = w.screen /\ u.groups = w.groups
      /\ u.items = w.items /\ u.group = w.group /\ u.item = w.item
      /\ u.overlay = w.overlay /\ u.grants = w.grants /\ u.draft = w.draft
      /\ u.dirty = w.dirty /\ u.conflict = w.conflict /\ u.confirming = w.confirming
      /\ u.pending = [kind |-> "groups", id |-> w.next, arg |-> arg]
  BY <1>1, <1>2, <1>3 DEF Tui!Requests, UiFields
<1>8. /\ ui.groups = <<>> /\ ui.draft = Tui!Nothing /\ ui.grants = {} /\ ~ui.dirty
      /\ ui.overlay \notin {"editor", "conflict", "confirm"}
  BY <1>3 DEF TuiInv, UiInv, ViewInv, DraftInv, OverlayInv
<1>5. ViewInv(u) /\ DraftInv(u)
  BY <1>2, <1>3, <1>4, <1>8, NothingIs DEF TuiInv, UiInv, ViewInv, DraftInv, OverlayInv,
                                           AwaitedInv
<1>6. OverlayInv(u) /\ AwaitedInv(u, may)
  BY <1>1, <1>2, <1>3, <1>4, <1>8, NothingIs DEF TuiInv, UiInv, ViewInv, DraftInv, OverlayInv,
                                          AwaitedInv
<1>7. CallsInv'
  BY <1>2, <1>3, CallsRequest DEF TuiInv, Tui!history
<1> QED BY <1>1, <1>2, <1>3, <1>4, <1>5, <1>6, <1>7, Displays DEF UiInv

LEMMA MoveGroupKeeps ==
  ASSUME TuiInv, Tui!ConstantsFit, NEW by \in {-1, 1}, Tui!MoveGroup(by)
  PROVE  TuiInv'
<1>1. PICK u, may, w, arg : /\ u = ui' /\ may = asked'
               /\ w = [Tui!Unselected(ui) EXCEPT !.group = Tui!Clamp(ui.group + by,
                      Len(ui.groups)),
                                        !.items = <<>>, !.item = 1, !.draft = Tui!Nothing]
                            /\ arg = [group |-> ui.groups[Tui!Clamp(ui.group + by,
                                   Len(ui.groups))]]
  OBVIOUS
<1>2. /\ DOMAIN w = UiFields /\ w.screen = ui.screen /\ w.groups = ui.groups
      /\ w.items = <<>> /\ w.group = Tui!Clamp(ui.group + by, Len(ui.groups)) /\ w.item = 1
      /\ w.overlay = ui.overlay /\ w.grants = {} /\ w.draft = Tui!Nothing /\ w.dirty = FALSE
      /\ w.conflict = Tui!Nothing /\ w.confirming = Tui!Nothing /\ w.pending = ui.pending
  BY <1>1 DEF TuiInv, UiInv, ViewInv, UiFields, Tui!Unselected
<1>3. /\ Tui!Requests(w, "items", arg) /\ may = {} /\ UNCHANGED Tui!history
      /\ Tui!Browsing("none") /\ ~ui.dirty
      /\ Tui!Clamp(ui.group + by, Len(ui.groups)) # ui.group
  BY <1>1 DEF Tui!MoveGroup, Tui!Unselected
<1>4. /\ DOMAIN u = UiFields /\ u.screen = w.screen /\ u.groups = w.groups
      /\ u.items = w.items /\ u.group = w.group /\ u.item = w.item
      /\ u.overlay = w.overlay /\ u.grants = w.grants /\ u.draft = w.draft
      /\ u.dirty = w.dirty /\ u.conflict = w.conflict /\ u.confirming = w.confirming
      /\ u.pending = [kind |-> "items", id |-> w.next, arg |-> arg]
  BY <1>1, <1>2, <1>3 DEF Tui!Requests, UiFields
<1>8. /\ Tui!Clamp(ui.group + by, Len(ui.groups)) \in DOMAIN Groups
      /\ ui.groups = Groups /\ Groups # <<>>
  <2>1. ui.group \in Nat /\ ui.groups \in Seq(DOMAIN ItemsOf)
    <3>1. <<>> \in Seq(DOMAIN ItemsOf)
      OBVIOUS
    <3> QED BY <3>1 DEF TuiInv, UiInv, ViewInv, Tui!ConstantsFit
  <2>2. ui.groups # <<>>
    BY <1>3 DEF TuiInv, UiInv, ViewInv, Tui!Clamp
  <2>3. Tui!Clamp(ui.group + by, Len(ui.groups)) \in DOMAIN ui.groups
    BY <2>1, <2>2 DEF Tui!Clamp
  <2> QED BY <2>2, <2>3 DEF TuiInv, UiInv, ViewInv
<1>5. ViewInv(u) /\ DraftInv(u)
  BY <1>2, <1>3, <1>4, <1>8, NothingIs DEF TuiInv, UiInv, ViewInv, DraftInv, OverlayInv,
                                           AwaitedInv
<1>6. OverlayInv(u) /\ AwaitedInv(u, may)
  BY <1>1, <1>2, <1>3, <1>4, <1>8, NothingIs DEF TuiInv, UiInv, ViewInv, DraftInv, OverlayInv,
                                          AwaitedInv, Tui!Browsing
<1>7. CallsInv'
  <2>1. arg.group \in DOMAIN ItemsOf
    BY <1>1, <1>8 DEF Tui!ConstantsFit
  <2> QED BY <1>2, <1>3, <2>1, CallsRequest DEF TuiInv, Tui!history
<1> QED BY <1>1, <1>2, <1>3, <1>4, <1>5, <1>6, <1>7, Displays DEF UiInv

LEMMA SaveDraftKeeps ==
  ASSUME TuiInv, Tui!SaveDraft
  PROVE  TuiInv'
<1>1. PICK u, may, w, arg : /\ u = ui' /\ may = asked' /\ w = ui
                            /\ arg = [item |-> ui.items[ui.item].id, draft |-> ui.draft,
                                          expected |-> ui.items[ui.item].rev]
  OBVIOUS
<1>2. /\ DOMAIN w = UiFields /\ w.screen = ui.screen /\ w.groups = ui.groups
      /\ w.items = ui.items /\ w.group = ui.group /\ w.item = ui.item
      /\ w.overlay = ui.overlay /\ w.grants = ui.grants /\ w.draft = ui.draft
      /\ w.dirty = ui.dirty /\ w.conflict = ui.conflict /\ w.confirming = ui.confirming
      /\ w.pending = ui.pending
  BY <1>1 DEF TuiInv, UiInv, ViewInv, UiFields
<1>3. /\ Tui!Requests(w, "save", arg) /\ may = asked /\ UNCHANGED Tui!history
      /\ Tui!Browsing("none") /\ ui.dirty
  BY <1>1 DEF Tui!SaveDraft
<1>4. /\ DOMAIN u = UiFields /\ u.screen = w.screen /\ u.groups = w.groups
      /\ u.items = w.items /\ u.group = w.group /\ u.item = w.item
      /\ u.overlay = w.overlay /\ u.grants = w.grants /\ u.draft = w.draft
      /\ u.dirty = w.dirty /\ u.conflict = w.conflict /\ u.confirming = w.confirming
      /\ u.pending = [kind |-> "save", id |-> w.next, arg |-> arg]
  BY <1>1, <1>2, <1>3 DEF Tui!Requests, UiFields
<1>5. ViewInv(u) /\ DraftInv(u)
  BY <1>2, <1>3, <1>4, NothingIs DEF TuiInv, UiInv, ViewInv, DraftInv, OverlayInv, AwaitedInv
<1>6. OverlayInv(u) /\ AwaitedInv(u, may)
  BY <1>1, <1>2, <1>3, <1>4, NothingIs DEF TuiInv, UiInv, ViewInv, DraftInv, OverlayInv,
                                          AwaitedInv, Tui!Browsing
<1>7. CallsInv'
  <2>1. /\ arg.item \in Tui!Items /\ arg.draft \in Revision /\ arg.draft.id = arg.item
        /\ arg.expected \in Nat /\ arg.expected <= items[arg.item].rev
        /\ items[arg.item].rev = arg.expected => items[arg.item].edits \subseteq arg.draft.edits
    <3>1. /\ arg.item = ui.items[ui.item].id /\ arg.draft = ui.draft
          /\ arg.expected = ui.items[ui.item].rev
      BY <1>1
    <3> QED BY <1>3, <3>1 DEF TuiInv, UiInv, DraftInv, Seen, Revision
  <2>2. \A c : c.arg = arg => SaveInv(c)'
    BY <1>3, <2>1 DEF SaveInv, Revision, Tui!history
  <2> QED BY <1>2, <1>3, <2>2, CallsRequest DEF TuiInv, Tui!history
<1> QED BY <1>1, <1>2, <1>3, <1>4, <1>5, <1>6, <1>7, Displays DEF UiInv

\* A reveal or a copy is asked for.
LEMMA AsksKeeps ==
  ASSUME TuiInv, NEW w, NEW c, Tui!Asks(w, c), UNCHANGED Tui!history,
         ui.draft # Tui!Nothing, ~ui.dirty, c.kind \in {"reveal", "copy"}, w.overlay = "none",
         DOMAIN w = UiFields, w.screen = ui.screen, w.groups = ui.groups, w.items = ui.items,
         w.group = ui.group, w.item = ui.item, w.grants = ui.grants, w.draft = ui.draft,
         w.dirty = ui.dirty, w.conflict = ui.conflict, w.pending = ui.pending
  PROVE  TuiInv'
<1>1. PICK u, may : u = ui' /\ may = asked'
  OBVIOUS
<1>2. Tui!Requests(w, c.kind, c)
          /\ may = IF c.kind = "reveal" THEN asked \cup {Tui!Grant(c)} ELSE asked
  BY <1>1 DEF Tui!Asks
<1>3. /\ DOMAIN u = UiFields /\ u.screen = w.screen /\ u.groups = w.groups
      /\ u.items = w.items /\ u.group = w.group /\ u.item = w.item
      /\ u.overlay = w.overlay /\ u.grants = w.grants /\ u.draft = w.draft
      /\ u.dirty = w.dirty /\ u.conflict = w.conflict
      /\ u.pending = [kind |-> c.kind, id |-> w.next, arg |-> c]
  BY <1>1, <1>2 DEF Tui!Requests, UiFields
<1>4. ViewInv(u) /\ DraftInv(u)
  BY <1>3, NothingIs DEF TuiInv, UiInv, ViewInv, DraftInv
<1>5. OverlayInv(u) /\ AwaitedInv(u, may)
  BY <1>2, <1>3 DEF TuiInv, UiInv, OverlayInv, AwaitedInv
<1>6. CallsInv'
  BY <1>2, CallsRequest DEF TuiInv, Tui!history
<1> QED BY <1>1, <1>3, <1>4, <1>5, <1>6, Displays DEF UiInv

LEMMA ChooseKeeps ==
  ASSUME TuiInv, NEW kind, Tui!Choose(kind)
  PROVE  TuiInv'
<1>1. PICK u, may, w, c : /\ u = ui' /\ may = asked' /\ c = Tui!Chosen(kind) /\ w = ui
  OBVIOUS
<1>2. /\ ui.draft # Tui!Nothing /\ ~ui.dirty /\ kind \in {"reveal", "copy"}
             /\ UNCHANGED Tui!history
      /\ c.kind = kind /\ ui.overlay = "none"
  BY <1>1 DEF Tui!Choose, Tui!Browsing, Tui!Chosen
<1>3. CASE Tui!Asks(ui, Tui!Chosen(kind))
  BY <1>1, <1>2, <1>3, AsksKeeps DEF TuiInv, UiInv, ViewInv
<1>4. CASE /\ Tui!Becomes([ui EXCEPT !.overlay = "confirm", !.confirming = Tui!Chosen(kind)])
           /\ UNCHANGED asked
  <2>1. /\ DOMAIN u = UiFields /\ u.screen = ui.screen /\ u.groups = ui.groups
        /\ u.items = ui.items /\ u.group = ui.group /\ u.item = ui.item
        /\ u.overlay = "confirm" /\ u.grants = ui.grants /\ u.draft = ui.draft
        /\ u.dirty = ui.dirty /\ u.conflict = ui.conflict /\ u.confirming = c
        /\ u.pending = ui.pending
        /\ may = asked /\ UNCHANGED requests
    BY <1>1, <1>4 DEF TuiInv, UiInv, ViewInv, UiFields, Tui!Becomes
  <2>2. ViewInv(u) /\ DraftInv(u)
    BY <2>1, NothingIs DEF TuiInv, UiInv, ViewInv, DraftInv
  <2>3. OverlayInv(u) /\ AwaitedInv(u, may)
    BY <1>2, <2>1 DEF TuiInv, UiInv, OverlayInv, AwaitedInv
  <2>4. CallsInv'
    BY <1>1, <1>2, <2>1, CallsStay DEF TuiInv, Tui!history
  <2> QED BY <1>1, <1>2, <2>1, <2>2, <2>3, <2>4, Displays DEF UiInv
<1> QED BY <1>3, <1>4 DEF Tui!Choose

LEMMA ConfirmedKeeps ==
  ASSUME TuiInv, Tui!Confirmed
  PROVE  TuiInv'
<1>1. PICK u, may, w, c : u = ui' /\ may = asked' /\ c = ui.confirming /\ w = Tui!NoOverlay
  OBVIOUS
<1>2. /\ DOMAIN w = UiFields /\ w.screen = ui.screen /\ w.groups = ui.groups
      /\ w.items = ui.items /\ w.group = ui.group /\ w.item = ui.item
      /\ w.overlay = "none" /\ w.grants = ui.grants /\ w.draft = ui.draft
      /\ w.dirty = ui.dirty /\ w.conflict = ui.conflict /\ w.confirming = Tui!Nothing
      /\ w.pending = ui.pending
  BY <1>1 DEF TuiInv, UiInv, ViewInv, UiFields, Tui!NoOverlay
<1>3. /\ ui.draft # Tui!Nothing /\ ~ui.dirty /\ c.kind \in {"reveal", "copy"}
             /\ UNCHANGED Tui!history
  BY <1>1 DEF Tui!Confirmed, Tui!Browsing, TuiInv, UiInv, OverlayInv
<1>4. CASE Tui!Asks(w, c)
  BY <1>2, <1>3, <1>4, AsksKeeps
<1>5. CASE Tui!Becomes(w) /\ UNCHANGED asked
  <2>1. u = w /\ may = asked /\ UNCHANGED requests
    BY <1>1, <1>5 DEF Tui!Becomes
  <2>2. ViewInv(u) /\ DraftInv(u)
    BY <1>2, <2>1, NothingIs DEF TuiInv, UiInv, ViewInv, DraftInv
  <2>3. OverlayInv(u) /\ AwaitedInv(u, may)
    BY <1>2, <2>1 DEF TuiInv, UiInv, OverlayInv, AwaitedInv
  <2>4. CallsInv'
    BY <1>1, <1>2, <1>3, <2>1, CallsStay DEF TuiInv, Tui!history
  <2> QED BY <1>1, <1>2, <1>3, <2>1, <2>2, <2>3, <2>4, Displays DEF UiInv
<1> QED BY <1>1, <1>4, <1>5 DEF Tui!Confirmed

-----------------------------------------------------------------------------
(* Steps that change the edits.                                            *)
\* An item that changes has a new revision: what was seen is then old, and what
\* expects it as it was is refused.
LEMMA StoreMoves ==
  ASSUME StoreInv, edits' \in {edits, edits + 1}, saved \subseteq saved',
         kept' \subseteq kept \cup {edits + 1},
         items' \in [Tui!Items -> Revision'],
         \A i \in Tui!Items : /\ items'[i].id = i
                              /\ items'[i] = items[i] \/ items'[i].rev = items[i].rev + 1
  PROVE  /\ Revision \subseteq Revision'
         /\ \A v : Seen(v) => Seen(v)'
         /\ \A c : RequestInv(c) => RequestInv(c)'
<1>1. \A v \in Revision : v \in Revision'
  BY DEF Revision, StoreInv
<1>2. \A i \in Tui!Items : /\ items[i].rev \in Nat /\ items'[i].rev \in Nat
                           /\ edits + 1 \notin items[i].edits
  BY DEF StoreInv, Revision
<1>3. ASSUME NEW v, Seen(v)
      PROVE  Seen(v)'
  <2>1. v.id \in Tui!Items /\ v.rev \in Nat
    BY <1>3 DEF Seen, Revision
  <2> QED BY <1>1, <1>2, <1>3, <2>1 DEF Seen
<1>4. ASSUME NEW c, SaveInv(c)
      PROVE  SaveInv(c)'
  BY <1>1, <1>2, <1>4 DEF SaveInv
<1>5. ASSUME NEW c, ResultInv(c)
      PROVE  ResultInv(c)'
  BY <1>3, <1>5 DEF ResultInv
<1> QED BY <1>1, <1>3, <1>4, <1>5 DEF RequestInv

\* The operator commits an edit of the draft.
LEMMA CommitEditorKeeps ==
  ASSUME TuiInv, NEW l \in ElementLayouts, NEW n, Tui!CommitEditor(l, n)
  PROVE  TuiInv'
<1>1. /\ edits' = edits + 1 /\ kept' = kept \cup {edits'} /\ ui.overlay = "editor"
      /\ UNCHANGED <<items, saved, asked, requests>>
  BY DEF Tui!CommitEditor, Tui!Browsing, Tui!Becomes
<1>2. PICK u, may, e : u = ui' /\ may = asked /\ e = edits'
  OBVIOUS
<1>3. PICK d : d = [ui.draft EXCEPT !.elements = l, !.edits = @ \cup {e}]
  OBVIOUS
<1>4. ui.draft \in Revision /\ ui.draft # Tui!Nothing /\ ui.pending = Tui!Nothing
          /\ ui.grants = {}
  BY <1>1 DEF TuiInv, UiInv, OverlayInv, DraftInv
<1>5. d \in Revision' /\ d.id = ui.draft.id /\ d.edits = ui.draft.edits \cup {e}
  <2>1. /\ d.id = ui.draft.id /\ d.edits = ui.draft.edits \cup {e}
        /\ d = [kind |-> ui.draft.kind, id |-> ui.draft.id, rev |-> ui.draft.rev,
                elements |-> l, edits |-> ui.draft.edits \cup {e}]
    BY <1>3, <1>4 DEF Revision
  <2>2. e = edits + 1 /\ edits' = e /\ edits \in Nat
    BY <1>1, <1>2 DEF TuiInv, StoreInv
  <2>3. ui.draft.edits \cup {e} \in SUBSET (1 .. e)
    BY <1>4, <2>2 DEF Revision
  <2> QED BY <1>4, <2>1, <2>2, <2>3 DEF Revision
<1>6. /\ DOMAIN u = UiFields /\ u.screen = ui.screen /\ u.groups = ui.groups
      /\ u.items = ui.items /\ u.group = ui.group /\ u.item = ui.item
      /\ u.overlay = "none" /\ u.grants = ui.grants /\ u.draft = d /\ u.dirty = TRUE
      /\ u.conflict = ui.conflict /\ u.confirming = Tui!Nothing /\ u.pending = ui.pending
  BY <1>2, <1>3 DEF TuiInv, UiInv, ViewInv, UiFields, Tui!CommitEditor, Tui!Becomes,
                    Tui!NoOverlay, Tui!Edited
<1>7. /\ Revision \subseteq Revision' /\ \A v : Seen(v) => Seen(v)'
      /\ \A c : RequestInv(c) => RequestInv(c)'
  <2>1. items' \in [Tui!Items -> Revision']
    BY <1>1 DEF TuiInv, StoreInv, Revision
  <2> QED BY <1>1, <2>1, StoreMoves DEF TuiInv, StoreInv
<1>8. StoreInv'
  BY <1>1, <1>7 DEF TuiInv, StoreInv
<1>9. CallsInv'
  BY <1>1, <1>2, <1>6, <1>7 DEF TuiInv, CallsInv
<1>10. ViewInv(u)
  BY <1>4, <1>6 DEF TuiInv, UiInv, ViewInv
<1>11. DraftInv(ui)'
  <2>1. d.edits \subseteq 1 .. edits' /\ d # Tui!Nothing
    BY <1>1, <1>5 DEF Revision, Tui!Nothing
  <2> QED BY <1>2, <1>4, <1>5, <1>6, <1>7, <2>1 DEF TuiInv, UiInv, DraftInv
<1>12. OverlayInv(ui)' /\ AwaitedInv(ui, asked)'
  BY <1>1, <1>2, <1>4, <1>6 DEF TuiInv, UiInv, OverlayInv, AwaitedInv, Tui!Nothing, Tui!Grant
<1>13. Tui!EditsAreKept'
  <2>1. kept \subseteq (UNION {items[i].edits : i \in DOMAIN items}) \cup ui.draft.edits
    BY DEF TuiInv, Tui!EditsAreKept
  <2>2. ui'.draft = d /\ ui'.dirty = TRUE
    BY <1>2, <1>6
  <2> QED BY <1>1, <1>2, <1>5, <2>1, <2>2 DEF Tui!EditsAreKept
<1> QED BY <1>2, <1>8, <1>9, <1>10, <1>11, <1>12, <1>13 DEF TuiInv, UiInv, ViewInv

\* The remote revision is accepted.
LEMMA AcceptRemoteKeeps ==
  ASSUME TuiInv, Tui!AcceptRemote
  PROVE  TuiInv'
<1>1. /\ asked' = {} /\ kept' = kept \cap saved /\ ui.overlay = "conflict"
      /\ UNCHANGED <<items, edits, saved, requests>>
  BY DEF Tui!AcceptRemote, Tui!Browsing, Tui!Becomes
<1>2. PICK u, may, r : u = ui' /\ may = asked' /\ r = ui.conflict.remote
  OBVIOUS
<1>3. /\ ui.pending = Tui!Nothing /\ ui.dirty /\ Seen(r) /\ r \in Revision /\ r.id = ui.draft.id
      /\ ui.draft # Tui!Nothing
  BY <1>1, <1>2 DEF TuiInv, UiInv, OverlayInv, DraftInv, Seen
<1>4. /\ DOMAIN u = UiFields /\ u.screen = ui.screen /\ u.groups = ui.groups
      /\ u.items = [ui.items EXCEPT ![ui.item] = r] /\ u.group = ui.group
      /\ u.item = ui.item /\ u.overlay = "none" /\ u.grants = {} /\ u.draft = r
      /\ u.dirty = FALSE /\ u.conflict = Tui!Nothing /\ u.confirming = Tui!Nothing
      /\ u.pending = ui.pending
  BY <1>2 DEF TuiInv, UiInv, ViewInv, UiFields, Tui!AcceptRemote, Tui!Becomes, Tui!NoOverlay
<1>5. ViewInv(u)
  BY <1>3, <1>4 DEF TuiInv, UiInv, ViewInv
<1>6. DraftInv(u)
  BY <1>3, <1>4 DEF TuiInv, UiInv, DraftInv
<1>7. OverlayInv(u) /\ AwaitedInv(u, may)
  BY <1>1, <1>2, <1>3, <1>4 DEF OverlayInv, AwaitedInv, Tui!Nothing
<1>8. StoreInv' /\ UiInv(ui, asked)'
  BY <1>1, <1>2, <1>5, <1>6, <1>7, StoreStays, UiStays DEF TuiInv, UiInv
<1>9. CallsInv'
  BY <1>1, <1>2, <1>4, CallsStay DEF TuiInv
<1>10. Tui!EditsAreKept'
  BY <1>1 DEF TuiInv, StoreInv, Tui!EditsAreKept
<1> QED BY <1>8, <1>9, <1>10 DEF TuiInv

\* The local revision is kept, and saved over the remote one.
LEMMA KeepLocalKeeps ==
  ASSUME TuiInv, Tui!KeepLocal
  PROVE  TuiInv'
<1>1. PICK u, may, r, w, arg :
        /\ u = ui' /\ may = asked /\ r = ui.conflict.remote /\ w = Tui!NoOverlay
        /\ arg = [item |-> r.id, draft |-> ui.conflict.local, expected |-> r.rev]
  OBVIOUS
<1>2. /\ kept' = kept \ (r.edits \ ui.conflict.local.edits) /\ ui.overlay = "conflict"
      /\ UNCHANGED <<items, edits, saved, asked>> /\ Tui!Requests(w, "save", arg)
  BY <1>1 DEF Tui!KeepLocal, Tui!Browsing
<1>3. /\ ui.pending = Tui!Nothing /\ ui.dirty /\ Seen(r) /\ r.id = ui.draft.id
      /\ ui.draft # Tui!Nothing /\ ui.draft \in Revision /\ ui.conflict.local = ui.draft
  BY <1>1, <1>2 DEF TuiInv, UiInv, OverlayInv, DraftInv
<1>4. /\ DOMAIN w = UiFields /\ w.screen = ui.screen /\ w.groups = ui.groups
      /\ w.items = ui.items /\ w.group = ui.group /\ w.item = ui.item
      /\ w.overlay = "none" /\ w.grants = ui.grants /\ w.draft = ui.draft
      /\ w.dirty = ui.dirty /\ w.conflict = ui.conflict /\ w.confirming = Tui!Nothing
      /\ w.pending = ui.pending
  BY <1>1 DEF TuiInv, UiInv, ViewInv, UiFields, Tui!NoOverlay
<1>5. /\ DOMAIN u = UiFields /\ u.screen = w.screen /\ u.groups = w.groups
      /\ u.items = w.items /\ u.group = w.group /\ u.item = w.item
      /\ u.overlay = w.overlay /\ u.grants = w.grants /\ u.draft = w.draft
      /\ u.dirty = w.dirty /\ u.conflict = w.conflict /\ u.confirming = w.confirming
      /\ u.pending = [kind |-> "save", id |-> w.next, arg |-> arg]
  BY <1>1, <1>2, <1>4 DEF Tui!Requests, UiFields
<1>6. ViewInv(u) /\ DraftInv(u)
  BY <1>4, <1>5 DEF TuiInv, UiInv, ViewInv, DraftInv
<1>7. arg.item = r.id /\ arg.draft = ui.draft /\ arg.expected = r.rev
  BY <1>1, <1>3
<1>8. OverlayInv(u) /\ AwaitedInv(u, may)
  BY <1>1, <1>3, <1>4, <1>5, <1>7 DEF TuiInv, UiInv, OverlayInv, AwaitedInv
<1>9. \A c : c.arg = arg => SaveInv(c)'
  BY <1>2, <1>3, <1>7 DEF SaveInv, Seen, Revision
<1>10. CallsInv'
  BY <1>2, <1>4, <1>9, CallsRequest DEF TuiInv
<1>11. StoreInv' /\ UiInv(ui, asked)'
  BY <1>1, <1>2, <1>6, <1>8, StoreStays, UiStays DEF TuiInv, UiInv
<1>12. Tui!EditsAreKept'
  BY <1>1, <1>2, <1>4, <1>5 DEF TuiInv, Tui!EditsAreKept
<1> QED BY <1>10, <1>11, <1>12 DEF TuiInv

LEMMA LockKeeps ==
  ASSUME TuiInv, Tui!Lock
  PROVE  TuiInv'
<1>1. PICK u, w, arg : u = ui' /\ w = Tui!Cleared("loading", ui.next) /\ arg = Tui!Nothing
  OBVIOUS
<1>2. /\ asked' = {} /\ kept' = kept \cap saved /\ UNCHANGED <<items, edits, saved>>
      /\ Tui!Requests(w, "lock", arg)
  BY <1>1 DEF Tui!Lock, Tui!Discards
<1>3. /\ DOMAIN w = UiFields /\ w.screen = "loading" /\ w.groups = <<>> /\ w.items = <<>>
      /\ w.group = 1 /\ w.overlay = "none" /\ w.grants = {} /\ w.draft = Tui!Nothing
      /\ w.dirty = FALSE
  BY <1>1 DEF Tui!Cleared, UiFields
<1>4. /\ DOMAIN u = UiFields /\ u.screen = "loading" /\ u.groups = <<>> /\ u.items = <<>>
      /\ u.group = 1 /\ u.overlay = "none" /\ u.grants = {} /\ u.draft = Tui!Nothing
      /\ u.dirty = FALSE /\ u.pending = [kind |-> "lock", id |-> w.next, arg |-> arg]
  BY <1>1, <1>2, <1>3 DEF Tui!Requests, UiFields
<1>5. UiInv(u, {})
  BY <1>4 DEF UiInv, ViewInv, DraftInv, OverlayInv, AwaitedInv
<1>6. CallsInv'
  BY <1>2, <1>3, CallsRequest DEF TuiInv
<1>7. PICK may : may = asked'
  OBVIOUS
<1>8. StoreInv' /\ UiInv(ui, asked)'
  BY <1>1, <1>2, <1>5, <1>7, StoreStays, UiStays DEF TuiInv
<1>9. Tui!EditsAreKept'
  BY <1>2 DEF TuiInv, StoreInv, Tui!EditsAreKept
<1> QED BY <1>6, <1>8, <1>9 DEF TuiInv

-----------------------------------------------------------------------------
(* The store.                                                              *)
\* What is not on the screen moves on: what was seen stays seen.
LEMMA UiStands ==
  ASSUME TuiInv, Revision \subseteq Revision', \A v : Seen(v) => Seen(v)',
         UNCHANGED <<ui, asked>>
  PROVE  UiInv(ui, asked)'
<1>1. DraftInv(ui)'
  BY DEF TuiInv, UiInv, DraftInv
<1>2. OverlayInv(ui)'
  BY DEF TuiInv, UiInv, OverlayInv
<1>3. ViewInv(ui)' /\ AwaitedInv(ui, asked)'
  BY DEF TuiInv, UiInv, ViewInv, AwaitedInv, Tui!Grant
<1> QED BY <1>1, <1>2, <1>3 DEF UiInv

\* A call that was not aborted has its answer.
LEMMA AnswersKeep ==
  ASSUME TuiInv, NEW c \in requests, NEW r, Tui!Answers(c, r), UNCHANGED ui,
         \A d : RequestInv(d) => RequestInv(d)',
         \A d : DOMAIN d = CallFields /\ d.live = TRUE /\ d.kind = c.kind /\ d.arg = c.arg
                /\ d.result = r => RequestInv(d)'
  PROVE  CallsInv'
<1>1. CASE ~c.live
  BY <1>1 DEF Tui!Answers, TuiInv, CallsInv
<1>2. CASE c.live
  <2>1. PICK d : d = [c EXCEPT !.result = r]
    OBVIOUS
  <2>2. /\ DOMAIN d = CallFields /\ d.live = TRUE /\ d.kind = c.kind /\ d.arg = c.arg
        /\ d.result = r /\ d.id = c.id
    BY <1>2, <2>1 DEF TuiInv, CallsInv, RequestInv, CallFields
  <2>3. RequestInv(d)' /\ requests' = (requests \ {c}) \cup {d}
    BY <1>2, <2>1, <2>2 DEF Tui!Answers
  <2> QED BY <1>2, <2>2, <2>3 DEF TuiInv, CallsInv
<1> QED BY <1>1, <1>2

\* Another device commits an edit.
LEMMA RemoteKeeps ==
  ASSUME TuiInv, NEW i \in DOMAIN items, NEW l \in ElementLayouts, Tui!Remote(i, l)
  PROVE  TuiInv'
<1>1. /\ edits' = edits + 1 /\ kept' = kept \cup {edits'} /\ saved' = saved \cup {edits'}
      /\ UNCHANGED <<ui, requests, asked>>
  BY DEF Tui!Remote
<1>2. PICK e, it : e = edits' /\ it = [items[i] EXCEPT !.rev = @ + 1, !.elements = l,
                                                      !.edits = @ \cup {edits'}]
  OBVIOUS
<1>3. items' = [items EXCEPT ![i] = it]
  BY <1>2 DEF Tui!Remote
<1>4. items[i] \in Revision /\ items[i].id = i /\ i \in Tui!Items /\ edits \in Nat
  BY DEF TuiInv, StoreInv
<1>5. /\ it.id = i /\ it.edits = items[i].edits \cup {e} /\ it.rev = items[i].rev + 1
      /\ it = [kind |-> items[i].kind, id |-> i, rev |-> items[i].rev + 1, elements |-> l,
               edits |-> items[i].edits \cup {e}]
  BY <1>2, <1>4 DEF Revision
<1>6. it \in Revision'
  <2>1. items[i].edits \cup {e} \in SUBSET (1 .. edits')
    BY <1>1, <1>2, <1>4 DEF Revision
  <2> QED BY <1>4, <1>5, <2>1 DEF Revision
<1>7. /\ items' \in [Tui!Items -> Revision']
      /\ \A j \in Tui!Items : /\ items'[j].id = j
                              /\ items'[j] = items[j] \/ items'[j].rev = items[j].rev + 1
                              /\ items[j].edits \subseteq items'[j].edits
  <2>1. \A v \in Revision : v \in Revision'
    BY <1>1, <1>4 DEF Revision
  <2> QED BY <1>3, <1>4, <1>5, <1>6, <2>1 DEF TuiInv, StoreInv
<1>8. /\ Revision \subseteq Revision' /\ \A v : Seen(v) => Seen(v)'
      /\ \A c : RequestInv(c) => RequestInv(c)'
  BY <1>1, <1>7, StoreMoves DEF TuiInv
<1>9. (UNION {items[j].edits : j \in DOMAIN items}) \cup {e}
        \subseteq UNION {items'[j].edits : j \in DOMAIN items'}
  BY <1>3, <1>4, <1>5, <1>7 DEF TuiInv, StoreInv
<1>10. StoreInv' /\ Tui!EditsAreKept'
  BY <1>1, <1>2, <1>7, <1>9 DEF TuiInv, StoreInv, Tui!EditsAreKept
<1>11. CallsInv'
  BY <1>1, <1>8 DEF TuiInv, CallsInv
<1> QED BY <1>1, <1>8, <1>10, <1>11, UiStands DEF TuiInv

\* A save that is accepted.
LEMMA SavedKeeps ==
  ASSUME TuiInv, NEW c \in requests, UNCHANGED <<ui, edits, kept, asked>>,
         c.kind = "save", items[c.arg.item].rev = c.arg.expected,
         items' = [items EXCEPT ![c.arg.item] = [c.arg.draft EXCEPT !.rev = c.arg.expected + 1]],
         saved' = saved \cup c.arg.draft.edits,
         Tui!Answers(c, [is |-> "saved", item |-> items'[c.arg.item]])
  PROVE  TuiInv'
<1>1. PICK i, d, it : /\ i = c.arg.item /\ d = c.arg.draft
                      /\ it = [d EXCEPT !.rev = c.arg.expected + 1]
  OBVIOUS
<1>2. /\ SaveInv(c) /\ i \in Tui!Items /\ d \in Revision /\ d.id = i /\ c.arg.expected \in Nat
      /\ items[i].edits \cap kept \subseteq d.edits /\ edits \in Nat
  BY <1>1 DEF TuiInv, CallsInv, RequestInv, SaveInv, StoreInv
<1>3. /\ it.id = i /\ it.edits = d.edits /\ it.rev = items[i].rev + 1
      /\ it = [kind |-> d.kind, id |-> i, rev |-> c.arg.expected + 1, elements |-> d.elements,
               edits |-> d.edits]
  BY <1>1, <1>2 DEF Revision
<1>4. Revision' = Revision
  BY DEF Revision
<1>5. it \in Revision'
  BY <1>2, <1>3, <1>4 DEF Revision
<1>6. /\ items' \in [Tui!Items -> Revision'] /\ items'[i] = it
      /\ \A j \in Tui!Items : /\ items'[j].id = j
                              /\ items'[j] = items[j] \/ items'[j].rev = items[j].rev + 1
                              /\ items[j].edits \cap kept \subseteq items'[j].edits
  BY <1>1, <1>2, <1>3, <1>4, <1>5 DEF TuiInv, StoreInv
<1>7. /\ \A v : Seen(v) => Seen(v)'
      /\ \A k : RequestInv(k) => RequestInv(k)'
  BY <1>2, <1>6, StoreMoves DEF TuiInv, StoreInv
<1>8. PICK r : r = [is |-> "saved", item |-> items'[i]]
  OBVIOUS
<1>9. ASSUME NEW k, DOMAIN k = CallFields, k.live = TRUE, k.kind = c.kind, k.arg = c.arg,
             k.result = r
      PROVE  RequestInv(k)'
  <2>1. SaveInv(k)
    BY <1>2, <1>9 DEF SaveInv
  <2>2. SaveInv(k)'
    BY <1>2, <1>6, <1>9, <2>1 DEF SaveInv, TuiInv, StoreInv, Revision
  <2>3. Seen(it)'
    BY <1>2, <1>3, <1>5, <1>6 DEF Seen, Revision, TuiInv, StoreInv
  <2>4. k.result.is = "saved" /\ k.result.item = it
    BY <1>6, <1>8, <1>9
  <2>5. ResultInv(k)'
    BY <1>1, <1>3, <1>9, <2>3, <2>4 DEF ResultInv
  <2> QED BY <1>9, <2>2, <2>4, <2>5 DEF RequestInv
<1>10. CallsInv'
  BY <1>1, <1>7, <1>8, <1>9, AnswersKeep
<1>11. kept \cap (UNION {items[j].edits : j \in DOMAIN items})
         \subseteq UNION {items'[j].edits : j \in DOMAIN items'}
  BY <1>6 DEF TuiInv, StoreInv
<1>12. d.edits \subseteq UNION {items'[j].edits : j \in DOMAIN items'}
  BY <1>2, <1>3, <1>6
<1>13. StoreInv'
  BY <1>1, <1>2, <1>4, <1>6, <1>11, <1>12 DEF TuiInv, StoreInv, Revision
<1>14. Tui!EditsAreKept'
  BY <1>11 DEF TuiInv, Tui!EditsAreKept
<1> QED BY <1>4, <1>7, <1>10, <1>13, <1>14, UiStands DEF TuiInv

\* Every other answer.
LEMMA AnsweredKeeps ==
  ASSUME TuiInv, NEW c \in requests, NEW r, Tui!Answers(c, r), UNCHANGED <<ui, Tui!history,
         asked>>,
         r.is \in {"conflict", "items", "done", "failed"},
         c.kind = "save" => r.is \in {"conflict", "failed"},
         r.is = "items" => c.kind = "items" /\ \A n \in DOMAIN r.items : Seen(r.items[n]),
         r.is = "conflict" => Seen(r.remote) /\ r.remote.id = c.arg.item
  PROVE  TuiInv'
<1>1. /\ \A d : RequestInv(d) => RequestInv(d)'
      /\ \A v : Seen(v) => Seen(v)' /\ Revision' = Revision
  BY CallStays, SeenStays DEF Tui!history, Revision
<1>2. ASSUME NEW d, DOMAIN d = CallFields, d.live = TRUE, d.kind = c.kind, d.arg = c.arg,
             d.result = r
      PROVE  RequestInv(d)'
  <2>1. SaveInv(c) => SaveInv(d)'
    BY <1>2 DEF SaveInv, Tui!history, Revision
  <2>2. ResultInv(d)'
    BY <1>1, <1>2 DEF ResultInv
  <2> QED BY <1>2, <2>1, <2>2 DEF TuiInv, CallsInv, RequestInv
<1>3. CallsInv'
  BY <1>1, <1>2, AnswersKeep
<1>4. StoreInv'
  BY StoreStays DEF TuiInv, Tui!history
<1>5. Tui!EditsAreKept'
  BY DEF TuiInv, Tui!EditsAreKept, Tui!history
<1>6. UiInv(ui, asked)'
  <2>1. \A v \in Revision : v \in Revision'
    BY DEF Revision, Tui!history
  <2> QED BY <1>1, <2>1, UiStands
<1> QED BY <1>3, <1>4, <1>5, <1>6 DEF TuiInv

LEMMA ServeKeeps ==
  ASSUME TuiInv, NEW c \in requests, Tui!Serve(c)
  PROVE  TuiInv'
<1>1. UNCHANGED <<ui, edits, kept, asked>>
  BY DEF Tui!Serve
<1>2. CASE /\ c.kind = "save" /\ items[c.arg.item].rev = c.arg.expected
           /\ items' = [items EXCEPT ![c.arg.item] =
                          [c.arg.draft EXCEPT !.rev = c.arg.expected + 1]]
           /\ saved' = saved \cup c.arg.draft.edits
           /\ Tui!Answers(c, [is |-> "saved", item |-> items'[c.arg.item]])
  BY <1>1, <1>2, SavedKeeps
<1>3. CASE /\ c.kind = "save" /\ Tui!Answers(c, [is |-> "conflict", remote |-> items[c.arg.item]])
           /\ UNCHANGED <<items, saved>>
  <2>1. PICK r : r = [is |-> "conflict", remote |-> items[c.arg.item]]
    OBVIOUS
  <2>2. Seen(r.remote) /\ r.remote.id = c.arg.item
    BY <1>3, <2>1, SeenHolds DEF TuiInv, CallsInv, RequestInv, SaveInv, StoreInv
  <2> QED BY <1>1, <1>3, <2>1, <2>2, AnsweredKeeps DEF Tui!history
<1>4. CASE /\ c.kind = "items" /\ UNCHANGED <<items, saved>>
           /\ Tui!Answers(c, [is |-> "items", items |-> [n \in DOMAIN ItemsOf[c.arg.group] |->
                                                           items[ItemsOf[c.arg.group][n]]]])
  <2>1. PICK r : r = [is |-> "items", items |-> [n \in DOMAIN ItemsOf[c.arg.group] |->
                                                   items[ItemsOf[c.arg.group][n]]]]
    OBVIOUS
  <2>2. ASSUME NEW n \in DOMAIN r.items
        PROVE  Seen(r.items[n])
    <3>1. c.arg.group \in DOMAIN ItemsOf
      BY <1>4 DEF TuiInv, CallsInv, RequestInv
    <3>2. ItemsOf[c.arg.group][n] \in Tui!Items /\ r.items[n] = items[ItemsOf[c.arg.group][n]]
      BY <2>1, <2>2, <3>1 DEF Tui!Items
    <3> QED BY <3>2, SeenHolds DEF TuiInv
  <2> QED BY <1>1, <1>4, <2>1, <2>2, AnsweredKeeps DEF Tui!history
<1>5. CASE /\ c.kind \notin {"save", "items"} /\ Tui!Answers(c, [is |-> "done"])
           /\ UNCHANGED <<items, saved>>
  <2>1. PICK r : r = [is |-> "done"]
    OBVIOUS
  <2> QED BY <1>1, <1>5, <2>1, AnsweredKeeps DEF Tui!history
<1>6. CASE Tui!Answers(c, [is |-> "failed"]) /\ UNCHANGED <<items, saved>>
  <2>1. PICK r : r = [is |-> "failed"]
    OBVIOUS
  <2> QED BY <1>1, <1>6, <2>1, AnsweredKeeps DEF Tui!history
<1> QED BY <1>2, <1>3, <1>4, <1>5, <1>6 DEF Tui!Serve

-----------------------------------------------------------------------------
(* Results.                                                                *)
\* The call that is answered was the only one that is not aborted.
LEMMA CallsDone ==
  ASSUME TuiInv, NEW c \in requests, c.live, requests' = requests \ {c}, UNCHANGED Tui!history
  PROVE  CallsInv'
BY CallStays DEF TuiInv, CallsInv, Tui!history

LEMMA PendingIs ==
  ASSUME TuiInv, NEW c \in requests, c.live
  PROVE  /\ ui.pending.kind = c.kind /\ ui.pending.arg = c.arg /\ RequestInv(c)
         /\ DOMAIN ui = UiFields
<1>1. ui.pending = [kind |-> c.kind, id |-> c.id, arg |-> c.arg] /\ RequestInv(c)
  BY DEF TuiInv, CallsInv
<1>2. ui.pending.kind = c.kind /\ ui.pending.arg = c.arg
  BY <1>1
<1> QED BY <1>1, <1>2 DEF TuiInv, UiInv, ViewInv

LEMMA FailedKeeps ==
  ASSUME TuiInv, NEW c \in requests, c.live, requests' = requests \ {c},
         UNCHANGED <<Tui!history, asked>>,
         ui' = [Tui!Settled EXCEPT !.screen = IF ui.groups = <<>> THEN "error" ELSE "browser"]
  PROVE  TuiInv'
<1>1. PICK u, may : u = ui' /\ may = asked
  OBVIOUS
<1>2. /\ DOMAIN u = UiFields
      /\ u.screen = IF ui.groups = <<>> THEN "error" ELSE "browser"
      /\ u.groups = ui.groups /\ u.items = ui.items /\ u.group = ui.group
      /\ u.item = ui.item /\ u.overlay = ui.overlay /\ u.grants = ui.grants
      /\ u.draft = ui.draft /\ u.dirty = ui.dirty /\ u.conflict = ui.conflict
      /\ u.confirming = ui.confirming /\ u.pending = Tui!Nothing
  BY <1>1, PendingIs DEF UiFields, Tui!Settled
<1>3. ViewInv(u) /\ DraftInv(u)
  BY <1>2 DEF TuiInv, UiInv, ViewInv, DraftInv
<1>4. OverlayInv(u) /\ AwaitedInv(u, may)
  BY <1>1, <1>2, NothingIs DEF TuiInv, UiInv, OverlayInv, AwaitedInv
<1> QED BY <1>1, <1>2, <1>3, <1>4, CallsDone, Displays DEF UiInv

LEMMA GroupsKeep ==
  ASSUME Tui!ConstantsFit, TuiInv, NEW c \in requests, c.live, c.kind = "groups",
         Tui!Deliver(c),
         c.result.is # "failed"
  PROVE  TuiInv'
<1>1. c.result.is \notin {"items", "failed"}
  BY DEF TuiInv, CallsInv, RequestInv
<1>2. PICK u, may, w, arg :
        /\ u = ui' /\ may = asked /\ arg = [group |-> Groups[1]]
        /\ w = [Tui!Settled EXCEPT !.screen = "browser", !.groups = Groups, !.group = 1]
  OBVIOUS
<1>3. /\ DOMAIN w = UiFields /\ w.screen = "browser" /\ w.groups = Groups
      /\ w.items = ui.items /\ w.group = 1 /\ w.item = ui.item /\ w.overlay = ui.overlay
      /\ w.grants = ui.grants /\ w.draft = ui.draft /\ w.dirty = ui.dirty
      /\ w.conflict = ui.conflict /\ w.confirming = ui.confirming /\ w.pending = Tui!Nothing
  BY <1>2, PendingIs DEF UiFields, Tui!Settled
<1>4. /\ UNCHANGED <<Tui!history, asked>>
      /\ IF Groups = <<>> THEN u = w /\ requests' = requests \ {c} ELSE Tui!Requests(w, "items",
             arg)
  BY <1>1, <1>2 DEF Tui!Deliver
<1>5. /\ ui.groups = <<>> /\ ui.items = <<>> /\ ui.draft = Tui!Nothing /\ ui.grants = {}
             /\ ~ui.dirty
      /\ ui.overlay \notin {"editor", "conflict", "confirm"}
  BY PendingIs DEF TuiInv, UiInv, ViewInv, DraftInv, OverlayInv, AwaitedInv
<1>6. CASE Groups = <<>>
  <2>1. u = w
    BY <1>4, <1>6
  <2>2. ViewInv(u) /\ DraftInv(u)
    BY <1>3, <1>5, <1>6, <2>1, NothingIs DEF ViewInv, DraftInv
  <2>3. OverlayInv(u) /\ AwaitedInv(u, may)
    BY <1>2, <1>3, <1>5, <1>6, <2>1, NothingIs DEF OverlayInv, AwaitedInv
  <2> QED BY <1>2, <1>3, <1>4, <1>5, <1>6, <2>1, <2>2, <2>3, CallsDone, Displays DEF UiInv
<1>7. CASE Groups # <<>>
  <2>0. Tui!Requests(w, "items", arg)
    BY <1>4, <1>7
  <2>1. /\ DOMAIN u = UiFields /\ u.screen = w.screen /\ u.groups = w.groups
        /\ u.items = w.items /\ u.group = w.group /\ u.item = w.item
        /\ u.overlay = w.overlay /\ u.grants = w.grants /\ u.draft = w.draft
        /\ u.dirty = w.dirty /\ u.conflict = w.conflict /\ u.confirming = w.confirming
        /\ u.pending = [kind |-> "items", id |-> w.next, arg |-> arg]
    BY <1>2, <1>3, <2>0 DEF Tui!Requests, UiFields
  <2>2. UiInv(u, may)
    BY <1>2, <1>3, <1>5, <1>7, <2>1, NothingIs DEF UiInv, ViewInv, DraftInv, OverlayInv,
                                                   AwaitedInv,
         TuiInv
  <2>3. Groups[1] \in DOMAIN ItemsOf
    BY <1>7 DEF Tui!ConstantsFit
  <2>4. CallsInv'
    <3>1. arg.group \in DOMAIN ItemsOf
      BY <1>2, <2>3
    <3> QED BY <1>3, <1>4, <2>0, <3>1, CallsRequest DEF TuiInv, Tui!history
  <2> QED BY <1>2, <1>3, <1>4, <1>5, <2>1, <2>2, <2>4, Displays
<1> QED BY <1>6, <1>7

LEMMA ItemsKeep ==
  ASSUME TuiInv, NEW c \in requests, c.live, c.result.is = "items", Tui!Deliver(c)
  PROVE  TuiInv'
<1>1. /\ c.kind = "items" /\ \A n \in DOMAIN c.result.items : Seen(c.result.items[n])
  BY DEF TuiInv, CallsInv, RequestInv, ResultInv
<1>2. PICK u, may, first : u = ui' /\ may = asked /\ first = Tui!FirstOf(c.result.items)
  OBVIOUS
<1>3. /\ UNCHANGED <<Tui!history, asked>> /\ requests' = requests \ {c}
      /\ u = [Tui!Settled EXCEPT !.items = c.result.items, !.item = 1, !.field = 1, !.element = 1,
                                 !.dirty = FALSE, !.draft = first]
  BY <1>1, <1>2 DEF Tui!Deliver
<1>4. /\ DOMAIN u = UiFields /\ u.screen = ui.screen /\ u.groups = ui.groups
      /\ u.items = c.result.items /\ u.group = ui.group /\ u.item = 1
      /\ u.overlay = ui.overlay /\ u.grants = ui.grants /\ u.draft = first
      /\ u.dirty = FALSE /\ u.conflict = ui.conflict /\ u.confirming = ui.confirming
      /\ u.pending = Tui!Nothing
  BY <1>3, PendingIs DEF UiFields, Tui!Settled
<1>5. /\ ui.items = <<>> /\ ui.draft = Tui!Nothing /\ ui.grants = {} /\ ~ui.dirty
      /\ ui.overlay \notin {"editor", "conflict", "confirm"} /\ ui.groups # <<>>
  BY <1>1, PendingIs DEF TuiInv, UiInv, ViewInv, DraftInv, OverlayInv, AwaitedInv
<1>6. first # Tui!Nothing => 1 \in DOMAIN c.result.items /\ first = c.result.items[1]
  BY <1>2 DEF Tui!FirstOf
<1>7. ViewInv(u) /\ OverlayInv(u)
  BY <1>4, <1>5 DEF TuiInv, UiInv, ViewInv, OverlayInv
<1>8. DraftInv(u)
  BY <1>1, <1>4, <1>5, <1>6 DEF DraftInv, Seen
<1>9. AwaitedInv(u, may)
  BY <1>2, <1>4, <1>5, NothingIs DEF AwaitedInv
<1> QED BY <1>2, <1>3, <1>4, <1>5, <1>7, <1>8, <1>9, CallsDone, Displays DEF UiInv

\* A save is answered: its draft is the one on the screen still.
LEMMA SaveFinishedKeeps ==
  ASSUME TuiInv, NEW c \in requests, c.live, c.kind = "save", c.result.is \in {"saved",
         "conflict"},
         requests' = requests \ {c}, UNCHANGED <<Tui!history, asked>>, ui' = Tui!SaveFinished(c,
             c.result)
  PROVE  TuiInv'
<1>1. PICK u, may, r : u = ui' /\ may = asked /\ r = c.result
  OBVIOUS
<1>2. /\ ui.dirty /\ ui.draft # Tui!Nothing /\ ui.draft = c.arg.draft /\ ui.draft.id = c.arg.item
      /\ ui.grants = {} /\ DOMAIN ui = UiFields
  BY PendingIs DEF TuiInv, UiInv, DraftInv, AwaitedInv
<1>3. CallsInv' /\ StoreInv'
  BY CallsDone, StoreStays DEF TuiInv, Tui!history
<1>4. CASE r.is = "conflict"
  <2>1. PICK k : k = [kind |-> "conflict", local |-> c.arg.draft, remote |-> r.remote]
    OBVIOUS
  <2>2. /\ DOMAIN u = UiFields /\ u.screen = ui.screen /\ u.groups = ui.groups
        /\ u.items = ui.items /\ u.group = ui.group /\ u.item = ui.item
        /\ u.overlay = "conflict" /\ u.grants = ui.grants /\ u.draft = ui.draft
        /\ u.dirty = ui.dirty /\ u.conflict = k /\ u.confirming = ui.confirming
        /\ u.pending = Tui!Nothing
    BY <1>1, <1>2, <1>4, <2>1 DEF Tui!SaveFinished, Tui!Settled, UiFields
  <2>3. k.local = ui.draft /\ Seen(k.remote) /\ k.remote.id = ui.draft.id
    BY <1>1, <1>2, <1>4, <2>1, PendingIs DEF RequestInv, ResultInv
  <2>4. UiInv(u, may)
    BY <1>1, <1>2, <2>2, <2>3, NothingIs DEF TuiInv, UiInv, ViewInv, DraftInv, OverlayInv,
         AwaitedInv
  <2> QED BY <1>1, <1>3, <2>2, <2>4, Displays
<1>5. CASE r.is = "saved"
  <2>1. Seen(r.item) /\ r.item \in Revision /\ r.item.id = ui.draft.id
            /\ ui.draft.edits \subseteq saved
    BY <1>1, <1>2, <1>5, PendingIs DEF RequestInv, ResultInv, Seen
  <2>2. /\ DOMAIN u = UiFields /\ u.screen = ui.screen /\ u.groups = ui.groups
        /\ u.items = [ui.items EXCEPT ![ui.item] = r.item] /\ u.group = ui.group
        /\ u.item = ui.item /\ u.overlay = "none" /\ u.grants = ui.grants
        /\ u.draft = r.item /\ u.dirty = FALSE /\ u.conflict = Tui!Nothing
        /\ u.confirming = ui.confirming /\ u.pending = Tui!Nothing
    BY <1>1, <1>2, <1>5 DEF Tui!SaveFinished, Tui!Settled, UiFields
  <2>3. ViewInv(u) /\ OverlayInv(u)
    BY <1>2, <2>2 DEF TuiInv, UiInv, ViewInv, OverlayInv
  <2>4. DraftInv(u)
    BY <1>2, <2>1, <2>2 DEF TuiInv, UiInv, DraftInv
  <2>5. AwaitedInv(u, may)
    BY <1>1, <1>2, <2>2, NothingIs DEF AwaitedInv
  <2>6. UiInv(ui, asked)'
    BY <1>1, <2>3, <2>4, <2>5, UiStays DEF UiInv, Tui!history
  <2>7. kept \subseteq UNION {items[i].edits : i \in DOMAIN items}
    BY <1>2, <2>1 DEF TuiInv, StoreInv, Tui!EditsAreKept
  <2>8. Tui!EditsAreKept'
    BY <2>7 DEF Tui!EditsAreKept, Tui!history
  <2> QED BY <1>3, <2>6, <2>8 DEF TuiInv
<1> QED BY <1>1, <1>4, <1>5

LEMMA RevealKeeps ==
  ASSUME TuiInv, NEW c \in requests, c.live, c.kind = "reveal", requests' = requests \ {c},
         UNCHANGED <<Tui!history, asked>>, ui' = Tui!RevealAuthorized(c.arg)
  PROVE  TuiInv'
<1>1. PICK u, may : u = ui' /\ may = asked
  OBVIOUS
<1>2. CASE u = ui
  BY <1>1, <1>2, CallsDone, Displays DEF TuiInv
<1>3. CASE /\ ui.draft # Tui!Nothing /\ ui.draft.id = c.arg.item /\ ~ui.dirty
           /\ u = [Tui!Settled EXCEPT !.grants = @ \cup {Tui!Grant(c.arg)}]
  <2>1. /\ DOMAIN u = UiFields /\ u.screen = ui.screen /\ u.groups = ui.groups
        /\ u.items = ui.items /\ u.group = ui.group /\ u.item = ui.item
        /\ u.overlay = ui.overlay /\ u.grants = ui.grants \cup {Tui!Grant(c.arg)}
        /\ u.draft = ui.draft /\ u.dirty = ui.dirty /\ u.conflict = ui.conflict
        /\ u.confirming = ui.confirming /\ u.pending = Tui!Nothing
    BY <1>3, PendingIs DEF Tui!Settled, UiFields
  <2>2. Tui!Grant(c.arg).item = c.arg.item /\ Tui!Grant(c.arg) \in asked
            /\ ui.pending # Tui!Nothing
    BY PendingIs, NothingIs DEF TuiInv, UiInv, AwaitedInv, Tui!Grant
  <2>3. ViewInv(u) /\ DraftInv(u)
    BY <1>3, <2>1, <2>2 DEF TuiInv, UiInv, ViewInv, DraftInv
  <2>4. OverlayInv(u)
    BY <1>3, <2>1, <2>2 DEF TuiInv, UiInv, OverlayInv
  <2>5. AwaitedInv(u, may)
    BY <1>1, <1>3, <2>1, <2>2, NothingIs DEF TuiInv, UiInv, AwaitedInv
  <2> QED BY <1>1, <2>1, <2>3, <2>4, <2>5, CallsDone, Displays DEF UiInv
<1> QED BY <1>1, <1>2, <1>3 DEF Tui!RevealAuthorized

LEMMA DoneKeeps ==
  ASSUME TuiInv, NEW c \in requests, c.live, requests' = requests \ {c},
         UNCHANGED <<Tui!history, asked>>,
         \/ ui' = Tui!Settled
         \/ c.kind = "lock" /\ ui' = Tui!Cleared("locked", ui.next)
  PROVE  TuiInv'
<1>1. PICK u, may : u = ui' /\ may = asked
  OBVIOUS
<1>2. CASE u = Tui!Settled
  <2>1. /\ DOMAIN u = UiFields /\ u.screen = ui.screen /\ u.groups = ui.groups
        /\ u.items = ui.items /\ u.group = ui.group /\ u.item = ui.item
        /\ u.overlay = ui.overlay /\ u.grants = ui.grants /\ u.draft = ui.draft
        /\ u.dirty = ui.dirty /\ u.conflict = ui.conflict
        /\ u.confirming = ui.confirming /\ u.pending = Tui!Nothing
    BY <1>2, PendingIs DEF Tui!Settled, UiFields
  <2>2. UiInv(u, may)
    BY <1>1, <2>1, NothingIs DEF TuiInv, UiInv, ViewInv, DraftInv, OverlayInv, AwaitedInv
  <2> QED BY <1>1, <2>1, <2>2, CallsDone, Displays
<1>3. CASE c.kind = "lock" /\ u = Tui!Cleared("locked", ui.next)
  <2>1. /\ DOMAIN u = UiFields /\ u.screen = "locked" /\ u.groups = <<>> /\ u.items = <<>>
        /\ u.group = 1 /\ u.overlay = "none" /\ u.grants = {} /\ u.draft = Tui!Nothing
        /\ u.dirty = FALSE /\ u.pending = Tui!Nothing
    BY <1>3 DEF Tui!Cleared, UiFields
  <2>2. ~ui.dirty
    BY <1>3, PendingIs DEF TuiInv, UiInv, AwaitedInv
  <2>3. UiInv(u, may)
    BY <2>1, NothingIs DEF UiInv, ViewInv, DraftInv, OverlayInv, AwaitedInv
  <2> QED BY <1>1, <2>1, <2>2, <2>3, CallsDone, Displays
<1> QED BY <1>1, <1>2, <1>3

LEMMA DeliverKeeps ==
  ASSUME Tui!ConstantsFit, TuiInv, NEW c \in requests, Tui!Deliver(c)
  PROVE  TuiInv'
<1>1. c.live /\ UNCHANGED <<Tui!history, asked>>
  BY DEF Tui!Deliver, TuiInv, CallsInv, RequestInv
<1>2. CASE c.result.is = "items"
  BY <1>1, <1>2, ItemsKeep
<1>3. CASE c.result.is # "failed" /\ c.kind = "groups"
  BY <1>1, <1>3, GroupsKeep
<1>4. CASE /\ c.result.is # "failed" /\ c.kind = "save" /\ requests' = requests \ {c}
           /\ ui' = Tui!SaveFinished(c, c.result)
  <2>1. c.result.is \in {"saved", "conflict"}
    BY <1>4 DEF Tui!Deliver, TuiInv, CallsInv, RequestInv
  <2> QED BY <1>1, <1>4, <2>1, SaveFinishedKeeps
<1> QED BY <1>1, <1>2, <1>3, <1>4, FailedKeeps, RevealKeeps, DoneKeeps DEF Tui!Deliver

-----------------------------------------------------------------------------
LEMMA TuiInit == Tui!ConstantsFit /\ Tui!Init => TuiInv
<1> SUFFICES ASSUME Tui!ConstantsFit, Tui!Init PROVE TuiInv
  OBVIOUS
<1>1. /\ DOMAIN ui = UiFields /\ ui.screen = "loading" /\ ui.groups = <<>> /\ ui.items = <<>>
      /\ ui.group = 1 /\ ui.overlay = "none" /\ ui.grants = {} /\ ui.draft = Tui!Nothing
      /\ ui.dirty = FALSE /\ ui.pending = Tui!Nothing
  BY DEF Tui!Init, Tui!Cleared, UiFields
<1>2. UiInv(ui, asked)
  BY <1>1, NothingIs DEF UiInv, ViewInv, DraftInv, OverlayInv, AwaitedInv
<1>3. StoreInv
  BY DEF Tui!Init, StoreInv, Revision
<1>4. CallsInv /\ Tui!EditsAreKept
  BY DEF Tui!Init, CallsInv, Tui!EditsAreKept
<1> QED BY <1>2, <1>3, <1>4 DEF TuiInv

LEMMA TuiNext == Tui!ConstantsFit /\ TuiInv /\ [Tui!Next]_(Tui!vars) => TuiInv'
<1> SUFFICES ASSUME Tui!ConstantsFit, TuiInv, [Tui!Next]_(Tui!vars) PROVE TuiInv'
  OBVIOUS
<1>1. CASE UNCHANGED Tui!vars
  <2>1. StoreInv' /\ CallsInv'
    BY <1>1, StoreStays, CallsStay DEF TuiInv, Tui!vars
  <2>2. PICK u, may : u = ui' /\ may = asked'
    OBVIOUS
  <2>3. UiInv(ui, asked)'
    BY <1>1, <2>2, UiStays DEF TuiInv, Tui!vars
  <2>4. Tui!EditsAreKept'
    BY <1>1 DEF TuiInv, Tui!vars, Tui!EditsAreKept
  <2> QED BY <2>1, <2>3, <2>4 DEF TuiInv
<1>2. CASE Tui!Next
  BY <1>2, LoadingKeeps, MoveGroupKeeps, MoveFieldKeeps, MoveElementKeeps, MoveItemKeeps,
     OpenOverlayKeeps, DismissKeeps, OpenEditorKeeps, SaveDraftKeeps, AcceptRemoteKeeps,
     KeepLocalKeeps, CommitEditorKeeps, RemoteKeeps, ChooseKeeps, ConfirmedKeeps, LockKeeps,
     AskLockKeeps, ExpiryKeeps, ServeKeeps, DeliverKeeps DEF Tui!Next
<1> QED BY <1>1, <1>2

LEMMA TuiDecides == TuiInv => Tui!OperatorDecides
<1> SUFFICES ASSUME TuiInv PROVE Tui!OperatorDecides
  OBVIOUS
<1>1. Tui!RevealsAreAsked
  BY DEF TuiInv, UiInv, DraftInv, AwaitedInv, Tui!RevealsAreAsked
<1> QED BY <1>1 DEF TuiInv, Tui!OperatorDecides

\* Every edit that was committed is in the store or in the draft, and what is shown
\* was asked for, until the operator decides otherwise.
THEOREM TuiIsSafe == ASSUME Tui!ConstantsFit PROVE Tui!Spec => []Tui!OperatorDecides
<1>1. Tui!Spec => []TuiInv
  BY TuiInit, TuiNext, PTL DEF Tui!Spec
<1> QED BY <1>1, TuiDecides, PTL

-----------------------------------------------------------------------------
(* AppRouter: the screens of the terminal interface and what they confirm.  *)

CONSTANTS ScreenTargets, NoName, MaxScreenCalls
VARIABLES screen, call, unlocked, named, screenCalls

Router == INSTANCE AppRouter WITH
  ui <- screen, shown <- named, calls <- screenCalls,
  Targets <- ScreenTargets, None <- NoName, MaxCalls <- MaxScreenCalls

Naming    == {"remove", "remove-profile", "recovery-revoke", "revoke-last", "policy-remove",
             "grant-revoke"}
ScreenOverlays == Naming \cup {"none", "palette", "form", "detail", "lock", "session-revoke",
                      "reveal"}
FormNames == {"unlock", "unlock_mongo", "put", "rename", "create_vault", "create_file",
              "create_mongodb", "recovery_create", "recovery_verify", "policy_create",
              "grant_create", "agent", "preview_run"}
ScreenNames    == ScreenTargets \cup {NoName}
ScreenPages    == [screen : Router!Screens, overlay : ScreenOverlays,
    form : [of : FormNames \cup {"none"}, at : Nat],
             typed : BOOLEAN, kept : SUBSET Router!Kept, name : ScreenNames, asks : ScreenNames,
                 revealed : ScreenNames,
             value : ScreenNames, unlocked : BOOLEAN, session : BOOLEAN, quit : BOOLEAN]

\* What a form keeps was asked for in an earlier step of it.
FormInv(u) ==
  /\ u.overlay # "form" => u.form = Router!NoForm /\ ~u.typed /\ u.kept = {}
  /\ u.overlay = "form" =>
       /\ u.form.of \in FormNames /\ u.form.at \in 1 .. Len(Router!Forms[u.form.of])
       /\ \A s \in u.kept : \E i \in 1 .. (u.form.at - 1) : Router!Forms[u.form.of][i] = s

\* The target that an open question is about is the one it names.
QuestionInv(u, sh) ==
  /\ u.overlay \in Naming => u.name = sh /\ sh # NoName
  /\ u.overlay = "reveal" => u.asks = sh /\ sh # NoName
  /\ u.overlay = "form" /\ u.form.of = "rename" => u.name = sh /\ sh # NoName

\* What is on the toward, and what may come to it.
SceneInv(u, open) ==
  ~u.quit => /\ u.unlocked = open
             /\ u.value # NoName => u.screen = "credentials" /\ open /\ u.revealed = u.value

RouterTypes == screen \in ScreenPages /\ unlocked \in BOOLEAN /\ named \in ScreenNames
                   /\ call.arg \in ScreenNames

\* While a call is under way no question is open, and it reveals what was asked for.
ScreenCallInv ==
  /\ call # Router!Idle /\ ~screen.quit => screen.overlay = "none"
  /\ call.type = "reveal" => screen.asks \in {NoName, call.arg}
  /\ Router!ConfirmedIsDone

RouterInv == /\ RouterTypes /\ FormInv(screen) /\ QuestionInv(screen, named)
                    /\ SceneInv(screen, unlocked)
             /\ ScreenCallInv

LEMMA RouterInit == Router!ConstantsFit /\ Router!Init => RouterInv
<1> SUFFICES ASSUME Router!ConstantsFit, Router!Init PROVE RouterInv
  OBVIOUS
<1>1. screen \in ScreenPages
  BY DEF Router!Init, Router!Initial, Router!NoForm, ScreenPages, Router!Screens,
         ScreenOverlays, ScreenNames, Router!Kept
<1>2. /\ screen.overlay = "none" /\ screen.form = Router!NoForm /\ ~screen.typed
             /\ screen.kept = {} /\ screen.asks = NoName
      /\ screen.value = NoName /\ screen.unlocked = FALSE /\ call.type = "none"
             /\ call.arg = NoName
      /\ call = Router!Idle /\ unlocked = FALSE /\ named = NoName
  BY DEF Router!Init, Router!Initial, Router!Idle
<1> QED BY <1>1, <1>2 DEF RouterInv, RouterTypes, FormInv, QuestionInv, SceneInv, ScreenCallInv,
       Router!ConfirmedIsDone, Router!Destructive, Naming, ScreenNames

\* A key changes the page, and maybe what is asked.
LEMMA ShownPage ==
  ASSUME RouterInv, NEW u \in ScreenPages, NEW about \in ScreenNames, screen' = u,
         named' = about,
         UNCHANGED <<call, unlocked>>,
         call = Router!Idle \/ (about = named /\ u.asks \in {NoName, screen.asks}
                                /\ (u.quit \/ u.overlay = screen.overlay)),
         screen.quit => u.quit,
         FormInv(u), QuestionInv(u, about), SceneInv(u, unlocked)
  PROVE  RouterInv'
<1>1. Router!Idle.type = "none" /\ Router!Idle.arg = NoName
  BY DEF Router!Idle
<1>2. ScreenCallInv'
  BY <1>1 DEF RouterInv, ScreenCallInv, Router!ConfirmedIsDone, Router!Destructive
<1> QED BY <1>2 DEF RouterInv, RouterTypes

\* A key calls the backend, from a page without a question.
LEMMA Calls ==
  ASSUME RouterInv, NEW u \in ScreenPages, NEW type, NEW arg \in ScreenNames, Router!Effect(u,
         type, arg),
         u.overlay = "none", FormInv(u), SceneInv(u, unlocked),
         type = "reveal" => u.asks \in {NoName, arg},
         type \in Router!Destructive => arg = named /\ named # NoName
  PROVE  RouterInv'
<1>1. /\ screen' = u /\ UNCHANGED <<unlocked, named>>
      /\ call'.type = type /\ call'.arg = arg
  BY DEF Router!Effect
<1>2. QuestionInv(u, named)
  BY DEF QuestionInv, Naming
<1>3. ScreenCallInv'
  BY <1>1 DEF ScreenCallInv, Router!ConfirmedIsDone
<1> QED BY <1>1, <1>2, <1>3 DEF RouterInv, RouterTypes

\* ScreenPages that a key leads to.
LEMMA ClosedIs ==
  ASSUME RouterInv, screen.overlay # "form"
  PROVE  /\ Router!Closed(screen) \in ScreenPages /\ Router!Closed(screen).overlay = "none"
         /\ FormInv(Router!Closed(screen)) /\ SceneInv(Router!Closed(screen), unlocked)
         /\ Router!Closed(screen).asks = screen.asks
<1>1. PICK u : u = Router!Closed(screen)
  OBVIOUS
<1>2. /\ u \in ScreenPages /\ u.overlay = "none" /\ u.form = screen.form /\ u.typed = screen.typed
      /\ u.kept = screen.kept /\ u.quit = screen.quit /\ u.value = screen.value
             /\ u.revealed = screen.revealed
      /\ u.screen = screen.screen /\ u.unlocked = screen.unlocked /\ u.asks = screen.asks
  BY <1>1 DEF Router!Closed, RouterInv, RouterTypes, ScreenPages, ScreenOverlays
<1> QED BY <1>1, <1>2 DEF RouterInv, FormInv, SceneInv

LEMMA HiddenIs ==
  ASSUME NEW u \in ScreenPages, NEW open, FormInv(u), u.unlocked = open \/ u.quit
  PROVE  /\ Router!Hidden(u) \in ScreenPages /\ Router!Hidden(u).overlay = u.overlay
                /\ Router!Hidden(u).asks = NoName
         /\ FormInv(Router!Hidden(u)) /\ SceneInv(Router!Hidden(u), open)
         /\ Router!Hidden(u).quit = u.quit /\ Router!Hidden(u).name = u.name
                /\ Router!Hidden(u).form = u.form
         /\ Router!Hidden(u).unlocked = u.unlocked
<1>1. PICK h : h = Router!Hidden(u)
  OBVIOUS
<1>2. /\ h \in ScreenPages /\ h.overlay = u.overlay /\ h.form = u.form /\ h.typed = u.typed
      /\ h.kept = u.kept /\ h.quit = u.quit /\ h.value = NoName /\ h.asks = NoName
      /\ h.name = u.name /\ h.unlocked = u.unlocked
  BY <1>1 DEF Router!Hidden, ScreenPages, ScreenNames
<1> QED BY <1>1, <1>2 DEF FormInv, SceneInv

LEMMA DismissedIs ==
  ASSUME NEW u \in ScreenPages
  PROVE  /\ Router!Dismissed(u) \in ScreenPages /\ Router!Dismissed(u).overlay = "none"
                /\ FormInv(Router!Dismissed(u))
         /\ \A open : SceneInv(u, open) => SceneInv(Router!Dismissed(u), open)
         /\ Router!Dismissed(u).asks = u.asks /\ Router!Dismissed(u).quit = u.quit
         /\ Router!Dismissed(u).screen = u.screen /\ Router!Dismissed(u).value = u.value
         /\ Router!Dismissed(u).unlocked = u.unlocked
<1>1. PICK d : d = Router!Dismissed(u)
  OBVIOUS
<1>2. /\ d \in ScreenPages /\ d.overlay = "none" /\ d.form = Router!NoForm /\ ~d.typed
             /\ d.kept = {}
      /\ d.asks = u.asks /\ d.quit = u.quit /\ d.screen = u.screen /\ d.value = u.value
      /\ d.unlocked = u.unlocked /\ d.revealed = u.revealed
  BY <1>1 DEF Router!Dismissed, ScreenPages, ScreenNames, Router!NoForm, ScreenOverlays
<1> QED BY <1>1, <1>2 DEF FormInv, SceneInv

LEMMA EnterKeeps ==
  ASSUME RouterInv, NEW toward \in Router!Screens, Router!Enter(toward)
  PROVE  RouterInv'
<1>1. call = Router!Idle /\ ~screen.quit /\ screen.overlay \in {"none", "palette"}
  BY DEF Router!Enter, Router!Commands, Router!Ready
<1>2. PICK h : h = Router!Hidden(Router!Closed(screen))
  OBVIOUS
<1>3. Router!Closed(screen).unlocked = unlocked
  BY <1>1, ClosedIs DEF SceneInv, Router!Closed, RouterInv, RouterTypes, ScreenPages
<1>4. /\ h \in ScreenPages /\ h.overlay = "none" /\ h.asks = NoName /\ FormInv(h)
             /\ SceneInv(h, unlocked)
      /\ h.value = NoName
  BY <1>1, <1>2, <1>3, ClosedIs, HiddenIs DEF Router!Hidden, ScreenPages
<1>5. PICK e : e = Router!Entered(toward)
  OBVIOUS
<1>6. /\ e \in ScreenPages /\ e.overlay = "none" /\ e.asks = NoName /\ FormInv(e)
             /\ SceneInv(e, unlocked)
  <2>1. e = [h EXCEPT !.screen = toward]
    BY <1>2, <1>5 DEF Router!Entered
  <2>2. /\ e \in ScreenPages /\ e.overlay = h.overlay /\ e.form = h.form /\ e.typed = h.typed
        /\ e.kept = h.kept /\ e.quit = h.quit /\ e.value = h.value /\ e.asks = h.asks
        /\ e.unlocked = h.unlocked
    BY <1>4, <2>1 DEF ScreenPages
  <2> QED BY <1>4, <2>2 DEF FormInv, SceneInv
<1>7. CASE Router!Show(e)
  <2>1. QuestionInv(e, named) /\ named \in ScreenNames
    BY <1>6 DEF QuestionInv, Naming, RouterInv, RouterTypes
  <2> QED BY <1>1, <1>6, <1>7, <2>1, ShownPage DEF Router!Show
<1>8. CASE Router!Effect(e, toward, NoName) /\ toward \in {"doctor", "recovery", "policy",
               "browse"}
  BY <1>6, <1>8, Calls DEF Router!Destructive, ScreenNames
<1> QED BY <1>5, <1>7, <1>8 DEF Router!Enter

LEMMA EscapeKeeps == ASSUME RouterInv, Router!Escape PROVE RouterInv'
<1>1. screen \in ScreenPages /\ named \in ScreenNames /\ ~screen.quit /\ screen.overlay = "none"
          /\ screen.unlocked = unlocked
  BY DEF Router!Escape, RouterInv, RouterTypes, SceneInv
<1>2. CASE Router!Show(Router!Hidden(screen))
  <2>1. PICK h : h = Router!Hidden(screen)
    OBVIOUS
  <2>2. /\ h \in ScreenPages /\ h.overlay = "none" /\ h.asks = NoName /\ FormInv(h)
        /\ SceneInv(h, unlocked)
    BY <1>1, <2>1, HiddenIs DEF RouterInv
  <2>3. QuestionInv(h, named)
    BY <2>2 DEF QuestionInv, Naming
  <2> QED BY <1>1, <1>2, <2>1, <2>2, <2>3, ShownPage DEF Router!Show
<1>3. CASE ~(screen.revealed # NoName /\ screen.screen = "credentials")
               /\ Router!Show([screen EXCEPT !.screen = "home"])
  <2>1. PICK h : h = [screen EXCEPT !.screen = "home"]
    OBVIOUS
  <2>2. /\ h \in ScreenPages /\ h.overlay = screen.overlay /\ h.form = screen.form
               /\ h.typed = screen.typed
        /\ h.kept = screen.kept /\ h.quit = screen.quit /\ h.value = screen.value
               /\ h.asks = screen.asks
        /\ h.unlocked = screen.unlocked
    BY <1>1, <2>1 DEF ScreenPages, Router!Screens
  <2>3. screen.value = NoName
    BY <1>1, <1>3 DEF RouterInv, SceneInv
  <2>4. FormInv(h) /\ SceneInv(h, unlocked) /\ QuestionInv(h, named)
    BY <1>1, <2>2, <2>3 DEF RouterInv, FormInv, SceneInv, QuestionInv, Naming
  <2> QED BY <1>1, <1>3, <2>1, <2>2, <2>4, ShownPage DEF Router!Show
<1> QED BY <1>2, <1>3 DEF Router!Escape

\* What is shown stays, and so does the form or its absence.
LEMMA StaysShown ==
  ASSUME NEW v \in ScreenPages, NEW u \in ScreenPages, NEW open, SceneInv(v, open),
         u.quit = v.quit, u.value = v.value, u.revealed = v.revealed, u.screen = v.screen,
         u.unlocked = v.unlocked
  PROVE  SceneInv(u, open)
BY DEF SceneInv

LEMMA StaysFilled ==
  ASSUME NEW v \in ScreenPages, NEW u \in ScreenPages, FormInv(v), u.form = v.form,
         u.typed = v.typed,
         u.kept = v.kept, u.overlay = v.overlay \/ (u.overlay # "form" /\ v.overlay # "form")
  PROVE  FormInv(u)
BY DEF FormInv

\* A page whose question names `about`.
LEMMA Questions ==
  ASSUME RouterInv, Router!Ready, screen.overlay # "form", NEW u \in ScreenPages,
         NEW about \in ScreenNames,
         screen' = u, named' = about, UNCHANGED <<call, unlocked>>,
         u.overlay # "form", u.form = screen.form, u.typed = screen.typed, u.kept = screen.kept,
         u.quit = screen.quit, u.value = screen.value, u.revealed = screen.revealed,
             u.screen = screen.screen,
         u.unlocked = screen.unlocked, QuestionInv(u, about)
  PROVE  RouterInv'
<1>1. FormInv(u) /\ SceneInv(u, unlocked)
  BY StaysShown, StaysFilled DEF RouterInv, RouterTypes
<1> QED BY <1>1, ShownPage DEF Router!Ready

LEMMA LeaveKeeps == ASSUME RouterInv, Router!Quit PROVE RouterInv'
<1>1. PICK u : u = [screen EXCEPT !.quit = TRUE]
  OBVIOUS
<1>2. /\ u \in ScreenPages /\ u.quit /\ u.form = screen.form /\ u.typed = screen.typed
             /\ u.kept = screen.kept
      /\ u.overlay = screen.overlay /\ u.name = screen.name /\ u.asks = screen.asks
             /\ named \in ScreenNames
  BY <1>1 DEF RouterInv, RouterTypes, ScreenPages
<1>3. FormInv(u) /\ QuestionInv(u, named) /\ SceneInv(u, unlocked)
  BY <1>2, StaysFilled DEF RouterInv, RouterTypes, QuestionInv, SceneInv
<1> QED BY <1>1, <1>2, <1>3, ShownPage DEF Router!Quit, Router!Show

\* A form opens empty.
LEMMA OpenedIs ==
  ASSUME RouterInv, Router!Commands, NEW f \in FormNames
  PROVE  /\ Router!Opened(screen, f) \in ScreenPages /\ Router!Opened(screen, f).overlay = "form"
         /\ FormInv(Router!Opened(screen, f)) /\ SceneInv(Router!Opened(screen, f), unlocked)
         /\ Router!Opened(screen, f).form.of = f
<1>1. PICK u : u = Router!Opened(screen, f)
  OBVIOUS
<1>2. /\ u \in ScreenPages /\ u.overlay = "form" /\ u.form = [of |-> f, at |-> 1] /\ u.kept = {}
      /\ u.quit = screen.quit /\ u.value = screen.value /\ u.revealed = screen.revealed
      /\ u.screen = screen.screen /\ u.unlocked = screen.unlocked
  BY <1>1 DEF Router!Opened, RouterInv, RouterTypes, ScreenPages, ScreenOverlays
<1>3. 1 \in 1 .. Len(Router!Forms[f])
  BY DEF Router!Forms, FormNames
<1>4. SceneInv(u, unlocked)
  BY <1>2, StaysShown DEF RouterInv, RouterTypes
<1> QED BY <1>1, <1>2, <1>3, <1>4 DEF FormInv

LEMMA FormsNamed == \A f \in Router!FormsOf(screen.screen) : f \in FormNames /\ f # "rename"
BY DEF Router!FormsOf, FormNames

LEMMA OpenFormKeeps == ASSUME RouterInv, Router!OpenForm PROVE RouterInv'
<1>1. PICK f \in Router!FormsOf(screen.screen) : Router!Show([Router!Opened(screen,
               f) EXCEPT !.name = NoName])
  BY DEF Router!OpenForm
<1>2. f \in FormNames /\ f # "rename" /\ Router!Commands /\ call = Router!Idle /\ ~screen.quit
  BY <1>1, FormsNamed DEF Router!OpenForm, Router!Commands, Router!Ready
<1>3. PICK o : o = Router!Opened(screen, f)
  OBVIOUS
<1>4. /\ o \in ScreenPages /\ o.overlay = "form" /\ o.form.of = f /\ FormInv(o)
      /\ SceneInv(o, unlocked)
  BY <1>2, <1>3, OpenedIs
<1>5. PICK u : u = [o EXCEPT !.name = NoName]
  OBVIOUS
<1>6. /\ u \in ScreenPages /\ u.overlay = "form" /\ u.form = o.form /\ u.typed = o.typed
      /\ u.kept = o.kept /\ u.quit = o.quit /\ u.value = o.value /\ u.revealed = o.revealed
      /\ u.screen = o.screen /\ u.unlocked = o.unlocked
  BY <1>4, <1>5 DEF ScreenPages, ScreenNames
<1>7. FormInv(u) /\ SceneInv(u, unlocked) /\ QuestionInv(u, named)
  BY <1>2, <1>4, <1>6, StaysShown, StaysFilled DEF QuestionInv, Naming
<1> QED BY <1>1, <1>2, <1>3, <1>5, <1>6, <1>7, ShownPage DEF Router!Show, RouterInv, RouterTypes

LEMMA OpenRenameKeeps ==
  ASSUME Router!ConstantsFit, RouterInv, NEW t \in ScreenTargets, Router!OpenRename(t)
  PROVE  RouterInv'
<1>1. Router!Commands /\ call = Router!Idle /\ ~screen.quit /\ t \in ScreenNames /\ t # NoName
          /\ "rename" \in FormNames
  BY DEF Router!OpenRename, Router!Commands, Router!Ready, ScreenNames, Router!ConstantsFit,
         FormNames
<1>2. PICK o : o = Router!Opened(screen, "rename")
  OBVIOUS
<1>3. /\ o \in ScreenPages /\ o.overlay = "form" /\ o.form.of = "rename" /\ FormInv(o)
      /\ SceneInv(o, unlocked)
  BY <1>1, <1>2, OpenedIs
<1>4. PICK u : u = [o EXCEPT !.name = t]
  OBVIOUS
<1>5. /\ u \in ScreenPages /\ u.overlay = "form" /\ u.form = o.form /\ u.typed = o.typed
      /\ u.kept = o.kept /\ u.quit = o.quit /\ u.value = o.value /\ u.revealed = o.revealed
      /\ u.screen = o.screen /\ u.unlocked = o.unlocked /\ u.name = t
  BY <1>1, <1>3, <1>4 DEF ScreenPages
<1>6. FormInv(u) /\ SceneInv(u, unlocked) /\ QuestionInv(u, t)
  BY <1>1, <1>3, <1>5, StaysShown, StaysFilled DEF QuestionInv, Naming
<1> QED BY <1>1, <1>2, <1>4, <1>5, <1>6, ShownPage DEF Router!OpenRename, Router!Ask

LEMMA UnlockIntentKeeps ==
  ASSUME RouterInv, NEW passphrase \in BOOLEAN, NEW mongo \in BOOLEAN,
         Router!UnlockIntent(passphrase, mongo)
  PROVE  RouterInv'
<1>1. Router!Commands /\ call = Router!Idle /\ ~screen.quit /\ screen.overlay # "form"
  BY DEF Router!UnlockIntent, Router!Commands, Router!Ready
<1>2. CASE Router!Effect(Router!Closed(screen), "session-unlock", NoName)
  BY <1>1, <1>2, ClosedIs, Calls DEF Router!Destructive, ScreenNames
<1>3. CASE Router!Show(Router!Opened(screen, IF mongo THEN "unlock_mongo" ELSE "unlock"))
  <2>1. PICK f \in FormNames : f = (IF mongo THEN "unlock_mongo" ELSE "unlock") /\ f # "rename"
    BY DEF FormNames
  <2>2. PICK o : o = Router!Opened(screen, f)
    OBVIOUS
  <2>3. /\ o \in ScreenPages /\ o.overlay = "form" /\ o.form.of = f /\ FormInv(o)
        /\ SceneInv(o, unlocked)
    BY <1>1, <2>2, OpenedIs
  <2>4. QuestionInv(o, named) /\ named \in ScreenNames
    BY <2>1, <2>3 DEF QuestionInv, Naming, RouterInv, RouterTypes
  <2> QED BY <1>1, <1>3, <2>1, <2>2, <2>3, <2>4, ShownPage DEF Router!Show
<1> QED BY <1>2, <1>3 DEF Router!UnlockIntent

LEMMA FillKeeps == ASSUME RouterInv, Router!Type PROVE RouterInv'
<1>1. PICK typed \in BOOLEAN : Router!Show([screen EXCEPT !.typed = typed])
  BY DEF Router!Type
<1>2. PICK u : u = [screen EXCEPT !.typed = typed]
  OBVIOUS
<1>3. /\ u \in ScreenPages /\ u.overlay = "form" /\ u.overlay = screen.overlay
             /\ u.form = screen.form
      /\ u.kept = screen.kept /\ u.quit = screen.quit /\ u.value = screen.value
             /\ u.revealed = screen.revealed
      /\ u.screen = screen.screen /\ u.unlocked = screen.unlocked /\ u.name = screen.name
      /\ u.asks = screen.asks /\ named \in ScreenNames
  BY <1>2 DEF Router!Type, RouterInv, RouterTypes, ScreenPages
<1>4. FormInv(u) /\ SceneInv(u, unlocked) /\ QuestionInv(u, named)
  BY <1>3, StaysShown DEF FormInv, RouterInv, RouterTypes, QuestionInv, Naming
<1> QED BY <1>1, <1>2, <1>3, <1>4, ShownPage DEF Router!Show, Router!Type, Router!Ready

LEMMA CancelFormKeeps == ASSUME RouterInv, Router!CancelForm PROVE RouterInv'
<1>1. PICK d : d = Router!Dismissed(screen)
  OBVIOUS
<1>2. /\ d \in ScreenPages /\ d.overlay = "none" /\ FormInv(d) /\ SceneInv(d, unlocked)
      /\ named \in ScreenNames
  BY <1>1, DismissedIs DEF RouterInv, RouterTypes
<1>3. QuestionInv(d, named)
  BY <1>2 DEF QuestionInv, Naming
<1> QED BY <1>1, <1>2, <1>3, ShownPage DEF Router!CancelForm, Router!Show, Router!Ready

-----------------------------------------------------------------------------
\* A passphrase is confirmed after it was asked for, which is after the address.
LEMMA FormsAre ==
  /\ \A f \in FormNames : Len(Router!Forms[f]) \in Nat
  /\ \A f \in FormNames : \A n \in 1 .. Len(Router!Forms[f]) :
       Router!Forms[f][n] = "confirm" => \E j \in 1 .. n : Router!Forms[f][j] = "pass"
  /\ \A f \in FormNames : \A i, j \in 1 .. Len(Router!Forms[f]) :
       Router!Forms[f][i] = "url" /\ Router!Forms[f][j] = "pass" => i < j
<1>1. ASSUME NEW f \in FormNames PROVE
        /\ Len(Router!Forms[f]) \in Nat
        /\ \A n \in 1 .. Len(Router!Forms[f]) :
             Router!Forms[f][n] = "confirm" => \E j \in 1 .. n : Router!Forms[f][j] = "pass"
        /\ \A i, j \in 1 .. Len(Router!Forms[f]) : Router!Forms[f][i] = "url"
               /\ Router!Forms[f][j] = "pass" => i < j
  <2>1. CASE f = "create_file"
    <3>1. Router!Forms[f] = <<"id", "data", "key", "pass", "confirm">>
      BY <2>1 DEF Router!Forms
    <3>2. Len(Router!Forms[f]) = 5 /\ Router!Forms[f][4] = "pass"
      BY <3>1
    <3> QED BY <3>1, <3>2
  <2>2. CASE f = "create_mongodb"
    <3>1. Router!Forms[f] = <<"id", "database", "key", "url", "pass", "confirm">>
      BY <2>2 DEF Router!Forms
    <3>2. /\ Len(Router!Forms[f]) = 6 /\ Router!Forms[f][1] = "id"
                 /\ Router!Forms[f][2] = "database"
          /\ Router!Forms[f][3] = "key" /\ Router!Forms[f][4] = "url"
                 /\ Router!Forms[f][5] = "pass"
          /\ Router!Forms[f][6] = "confirm"
      BY <3>1
    <3> QED BY <3>2
  <2>3. CASE f = "recovery_create"
    <3>1. Router!Forms[f] = <<"file", "pass", "confirm">>
      BY <2>3 DEF Router!Forms
    <3>2. Len(Router!Forms[f]) = 3 /\ Router!Forms[f][2] = "pass"
      BY <3>1
    <3> QED BY <3>1, <3>2
  <2>4. CASE f = "unlock_mongo"
    <3>1. Router!Forms[f] = <<"url", "pass">>
      BY <2>4 DEF Router!Forms
    <3> QED BY <3>1
  <2>5. CASE f = "unlock"
    <3>1. Router!Forms[f] = <<"pass">>
      BY <2>5 DEF Router!Forms
    <3> QED BY <3>1
  <2>6. CASE f = "put"
    <3>1. Router!Forms[f] = <<"name", "value">>
      BY <2>6 DEF Router!Forms
    <3> QED BY <3>1
  <2>7. CASE f = "rename"
    <3>1. Router!Forms[f] = <<"name">>
      BY <2>7 DEF Router!Forms
    <3> QED BY <3>1
  <2>8. CASE f = "create_vault"
    <3>1. Router!Forms[f] = <<"label">>
      BY <2>8 DEF Router!Forms
    <3> QED BY <3>1
  <2>9. CASE f = "recovery_verify"
    <3>1. Router!Forms[f] = <<"file", "value">>
      BY <2>9 DEF Router!Forms
    <3> QED BY <3>1
  <2>10. CASE f = "policy_create"
    <3>1. Router!Forms[f] = <<"id", "secret", "command">>
      BY <2>10 DEF Router!Forms
    <3> QED BY <3>1
  <2>11. CASE f = "grant_create"
    <3>1. Router!Forms[f] = <<"secret", "command", "ttl">>
      BY <2>11 DEF Router!Forms
    <3> QED BY <3>1
  <2>12. CASE f = "agent"
    <3>1. Router!Forms[f] = <<"agent", "config">>
      BY <2>12 DEF Router!Forms
    <3> QED BY <3>1
  <2>13. CASE f = "preview_run"
    <3>1. Router!Forms[f] = <<"names">>
      BY <2>13 DEF Router!Forms
    <3> QED BY <3>1
  <2> QED BY <2>1, <2>2, <2>3, <2>4, <2>5, <2>6, <2>7, <2>8, <2>9, <2>10, <2>11, <2>12, <2>13
    DEF FormNames
<1> QED BY <1>1

LEMMA SubmitKeeps ==
  ASSUME RouterInv, NEW matches \in BOOLEAN, Router!Submit(matches)
  PROVE  RouterInv'
<1> DEFINE f == screen.form.of  at == screen.form.at
<1>1. /\ call = Router!Idle /\ ~screen.quit /\ screen.overlay = "form" /\ screen \in ScreenPages
             /\ named \in ScreenNames
      /\ f \in FormNames /\ at \in 1 .. Len(Router!Forms[f]) /\ Len(Router!Forms[f]) \in Nat
      /\ screen.form = [of |-> f, at |-> at]
  BY FormsAre DEF Router!Submit, Router!Ready, RouterInv, RouterTypes, FormInv, ScreenPages
<1>2. /\ \A s \in screen.kept : \E i \in 1 .. (at - 1) : Router!Forms[f][i] = s
      /\ screen.kept \subseteq Router!Kept
      /\ f = "rename" => screen.name = named /\ named # NoName
  BY <1>1 DEF RouterInv, FormInv, QuestionInv, ScreenPages
<1>3. ASSUME NEW n \in 1 .. Len(Router!Forms[f]), NEW typed \in BOOLEAN,
                 NEW past \in SUBSET Router!Kept,
             \A s \in past : \E i \in 1 .. (n - 1) : Router!Forms[f][i] = s,
             Router!Show([screen EXCEPT !.form.at = n, !.typed = typed, !.kept = past])
      PROVE  RouterInv'
  <2>1. PICK u : u = [screen EXCEPT !.form.at = n, !.typed = typed, !.kept = past]
    OBVIOUS
  <2>2. u.form = [of |-> f, at |-> n]
    BY <1>1, <2>1 DEF ScreenPages
  <2>3. /\ u \in ScreenPages /\ u.overlay = "form" /\ u.form.of = f /\ u.form.at = n
        /\ u.kept = past /\ u.quit = screen.quit /\ u.value = screen.value
               /\ u.revealed = screen.revealed
        /\ u.screen = screen.screen /\ u.unlocked = screen.unlocked /\ u.name = screen.name
    <3>1. PICK form : form = [of |-> f, at |-> n]
      OBVIOUS
    <3>2. form \in [of : FormNames \cup {"none"}, at : Nat] /\ form.of = f /\ form.at = n
      BY <1>1, <1>3, <3>1
    <3>3. [screen.form EXCEPT !.at = n] = form
      BY <1>1, <1>3, <3>1 DEF ScreenPages
    <3>4. u = [screen EXCEPT !.form = form, !.typed = typed, !.kept = past]
      BY <2>1, <3>3
    <3> QED BY <1>1, <1>3, <3>2, <3>4 DEF ScreenPages
  <2>4. FormInv(u) /\ SceneInv(u, unlocked) /\ QuestionInv(u, named)
    BY <1>1, <1>2, <1>3, <2>3, StaysShown DEF FormInv, RouterInv, QuestionInv, Naming
  <2> QED BY <1>1, <1>3, <2>1, <2>3, <2>4, ShownPage DEF Router!Show
<1>4. CASE Router!Step = "confirm" /\ ~matches
  <2>1. PICK n : n = Router!Back(at)
    OBVIOUS
  <2>2. n \in 1 .. at /\ Router!Forms[f][n] = "pass"
    <3>1. \E j \in 1 .. at : Router!Forms[f][j] = "pass"
      BY <1>1, <1>4, FormsAre DEF Router!Step
    <3> QED BY <2>1, <3>1 DEF Router!Back
  <2>3. n \in 1 .. Len(Router!Forms[f])
    BY <1>1, <2>2
  <2>4. \A s \in screen.kept \ {"pass"} : \E i \in 1 .. (n - 1) : Router!Forms[f][i] = s
    <3>1. ASSUME NEW s \in screen.kept \ {"pass"} PROVE \E i \in 1 .. (n - 1) : Router!Forms[f][i] = s
      <4>1. PICK i \in 1 .. (at - 1) : Router!Forms[f][i] = "url" /\ s = "url"
        BY <1>2, <3>1 DEF Router!Kept
      <4>2. i \in 1 .. Len(Router!Forms[f])
        BY <1>1, <4>1
      <4>3. i < n
        BY <1>1, <2>2, <2>3, <4>1, <4>2, FormsAre
      <4> QED BY <2>3, <4>1, <4>2, <4>3
    <3> QED BY <3>1
  <2>5. Router!Show([screen EXCEPT !.form.at = n, !.typed = FALSE,
            !.kept = screen.kept \ {"pass"}])
    BY <1>4, <2>1 DEF Router!Submit
  <2>6. screen.kept \ {"pass"} \in SUBSET Router!Kept
    BY <1>2
  <2> QED BY <1>3, <2>3, <2>4, <2>5, <2>6
<1>5. CASE ~(Router!Step = "confirm" /\ ~matches) /\ at = Len(Router!Forms[f])
  <2>1. PICK d : d = Router!Dismissed(screen)
    OBVIOUS
  <2>2. /\ d \in ScreenPages /\ d.overlay = "none" /\ FormInv(d) /\ SceneInv(d, unlocked)
    BY <1>1, <2>1, DismissedIs DEF RouterInv
  <2>3. Router!Effect(d, f, screen.name) /\ screen.name \in ScreenNames
    BY <1>1, <1>5, <2>1 DEF Router!Submit, ScreenPages
  <2>4. f # "reveal" /\ (f \in Router!Destructive => f = "rename")
    BY <1>1 DEF FormNames, Router!Destructive
  <2> QED BY <1>2, <2>2, <2>3, <2>4, Calls
<1>6. CASE ~(Router!Step = "confirm" /\ ~matches) /\ at # Len(Router!Forms[f])
  <2>1. PICK past : past = screen.kept \cup ({Router!Step} \cap Router!Kept)
    OBVIOUS
  <2> DEFINE typed == Router!Forms[f][at + 1] \in Router!Prefilled
  <2>2. typed \in BOOLEAN
    OBVIOUS
  <2> HIDE DEF typed
  <2>3. PICK n : n = at + 1
    OBVIOUS
  <2>4. n \in 1 .. Len(Router!Forms[f]) /\ past \in SUBSET Router!Kept /\ at \in 1 .. (n - 1)
    BY <1>1, <1>2, <1>6, <2>1, <2>3
  <2>5. \A s \in past : \E i \in 1 .. (n - 1) : Router!Forms[f][i] = s
    <3>1. ASSUME NEW s \in screen.kept PROVE \E i \in 1 .. (n - 1) : Router!Forms[f][i] = s
      <4>1. PICK i \in 1 .. (at - 1) : Router!Forms[f][i] = s
        BY <1>2, <3>1
      <4> QED BY <1>1, <2>3, <4>1
    <3> QED BY <2>1, <2>4, <3>1 DEF Router!Step
  <2>6. Router!Show([screen EXCEPT !.form.at = n, !.typed = typed, !.kept = past])
    BY <1>6, <2>1, <2>3 DEF Router!Submit, typed
  <2> QED BY <1>3, <2>2, <2>4, <2>5, <2>6
<1> QED BY <1>4, <1>5, <1>6

LEMMA OpenConfirmKeeps ==
  ASSUME Router!ConstantsFit, RouterInv, NEW t \in ScreenTargets, Router!OpenConfirm(t)
  PROVE  RouterInv'
<1>1. /\ Router!Ready /\ screen.overlay # "form" /\ screen \in ScreenPages /\ t \in ScreenNames
             /\ t # NoName /\ NoName \in ScreenNames
  BY DEF Router!OpenConfirm, Router!Commands, ScreenNames, Router!ConstantsFit, RouterInv,
         RouterTypes
<1>2. ASSUME NEW c \in Naming, Router!Ask([screen EXCEPT !.overlay = c, !.name = t], t)
      PROVE  RouterInv'
  <2>1. PICK u : u = [screen EXCEPT !.overlay = c, !.name = t]
    OBVIOUS
  <2>2. /\ u \in ScreenPages /\ u.overlay \in Naming /\ u.form = screen.form
               /\ u.typed = screen.typed
        /\ u.kept = screen.kept /\ u.quit = screen.quit /\ u.value = screen.value
        /\ u.revealed = screen.revealed /\ u.screen = screen.screen
               /\ u.unlocked = screen.unlocked
        /\ u.name = t
    BY <1>1, <2>1 DEF ScreenPages, ScreenOverlays
  <2>3. QuestionInv(u, t) /\ u.overlay # "form"
    BY <1>1, <2>2 DEF QuestionInv, Naming
  <2> QED BY <1>1, <1>2, <2>1, <2>2, <2>3, Questions DEF Router!Ask
<1>3. ASSUME NEW o \in {"session-revoke", "lock"}, Router!Ask([screen EXCEPT !.overlay = o],
                 NoName)
      PROVE  RouterInv'
  <2>1. PICK u : u = [screen EXCEPT !.overlay = o]
    OBVIOUS
  <2>2. /\ u \in ScreenPages /\ u.overlay = o /\ u.form = screen.form /\ u.typed = screen.typed
        /\ u.kept = screen.kept /\ u.quit = screen.quit /\ u.value = screen.value
        /\ u.revealed = screen.revealed /\ u.screen = screen.screen
               /\ u.unlocked = screen.unlocked
    BY <1>1, <2>1 DEF ScreenPages, ScreenOverlays
  <2>3. QuestionInv(u, NoName) /\ u.overlay # "form"
    BY <1>1, <2>2 DEF QuestionInv, Naming
  <2> QED BY <1>1, <1>3, <2>1, <2>2, <2>3, Questions DEF Router!Ask
<1>4. Router!Confirms(screen.screen) \subseteq Naming
  BY DEF Router!Confirms, Naming
<1> QED BY <1>2, <1>3, <1>4 DEF Router!OpenConfirm

LEMMA OpenDetailKeeps ==
  ASSUME Router!ConstantsFit, RouterInv, NEW t \in ScreenTargets,
         Router!OpenDetail(t) \/ Router!OpenReveal(t)
  PROVE  RouterInv'
<1>1. /\ Router!Ready /\ screen.overlay # "form" /\ screen \in ScreenPages /\ t \in ScreenNames
             /\ t # NoName /\ named \in ScreenNames
  BY DEF Router!OpenDetail, Router!OpenReveal, Router!Commands, ScreenNames,
         Router!ConstantsFit, RouterInv, RouterTypes
<1>2. CASE Router!OpenDetail(t)
  <2>1. PICK u : u = [screen EXCEPT !.overlay = "detail", !.name = t]
    OBVIOUS
  <2>2. /\ u \in ScreenPages /\ u.overlay = "detail" /\ u.form = screen.form
               /\ u.typed = screen.typed
        /\ u.kept = screen.kept /\ u.quit = screen.quit /\ u.value = screen.value
        /\ u.revealed = screen.revealed /\ u.screen = screen.screen
               /\ u.unlocked = screen.unlocked
    BY <1>1, <2>1 DEF ScreenPages, ScreenOverlays
  <2>3. QuestionInv(u, named) /\ u.overlay # "form"
    BY <2>2 DEF QuestionInv, Naming
  <2> QED BY <1>1, <1>2, <2>1, <2>2, <2>3, Questions DEF Router!OpenDetail, Router!Show
<1>3. CASE Router!OpenReveal(t)
  <2>1. PICK u : u = [screen EXCEPT !.overlay = "reveal", !.asks = t]
    OBVIOUS
  <2>2. /\ u \in ScreenPages /\ u.overlay = "reveal" /\ u.form = screen.form
               /\ u.typed = screen.typed
        /\ u.kept = screen.kept /\ u.quit = screen.quit /\ u.value = screen.value
        /\ u.revealed = screen.revealed /\ u.screen = screen.screen
               /\ u.unlocked = screen.unlocked
        /\ u.asks = t
    BY <1>1, <2>1 DEF ScreenPages, ScreenOverlays
  <2>3. QuestionInv(u, t) /\ u.overlay # "form"
    BY <1>1, <2>2 DEF QuestionInv, Naming
  <2> QED BY <1>1, <1>3, <2>1, <2>2, <2>3, Questions DEF Router!OpenReveal, Router!Ask
<1> QED BY <1>2, <1>3

LEMMA CopyKeeps == ASSUME RouterInv, NEW t \in ScreenTargets, Router!Copy(t) PROVE RouterInv'
<1>1. screen.overlay # "form" /\ Router!Effect(Router!Closed(screen), "copy", t)
          /\ t \in ScreenNames
  BY DEF Router!Copy, Router!Commands, ScreenNames
<1> QED BY <1>1, ClosedIs, Calls DEF Router!Destructive

LEMMA ActivateKeeps ==
  ASSUME RouterInv, NEW t \in ScreenTargets, Router!Activate(t)
  PROVE  RouterInv'
<1>1. screen.overlay # "form" /\ t \in ScreenNames /\ NoName \in ScreenNames
  BY DEF Router!Activate, Router!Commands, ScreenNames
<1>2. PICK type \in {"refresh", "use-profile", "use-vault", "session-enable", "doctor",
               "recovery",
                     "policy", "browse"},
                         arg \in ScreenNames : Router!Effect(Router!Closed(screen), type, arg)
  BY <1>1 DEF Router!Activate
<1> QED BY <1>1, <1>2, ClosedIs, Calls DEF Router!Destructive

LEMMA YesKeeps == ASSUME RouterInv, Router!Yes PROVE RouterInv'
<1>1. screen \in ScreenPages /\ ~screen.quit /\ QuestionInv(screen, named)
          /\ NoName \in ScreenNames /\ screen.unlocked = unlocked
  BY DEF Router!Yes, Router!Ready, RouterInv, RouterTypes, ScreenNames, SceneInv
<1>2. screen.asks \in ScreenNames /\ screen.name \in ScreenNames
  BY <1>1 DEF ScreenPages
<1>3. CASE screen.overlay = "reveal"
  <2>1. Router!Effect(Router!Closed(screen), "reveal", screen.asks) /\ screen.asks = named
            /\ named # NoName
    BY <1>1, <1>3 DEF Router!Yes, QuestionInv
  <2> QED BY <1>2, <1>3, <2>1, ClosedIs, Calls
<1>4. CASE screen.overlay = "lock"
  <2>1. PICK c : c = Router!Closed(screen)
    OBVIOUS
  <2>2. c \in ScreenPages /\ c.overlay = "none" /\ FormInv(c) /\ c.unlocked = unlocked
    BY <1>1, <1>4, <2>1, ClosedIs DEF Router!Closed, ScreenPages
  <2>3. PICK h : h = Router!Hidden(c)
    OBVIOUS
  <2>4. h \in ScreenPages /\ h.overlay = "none" /\ FormInv(h) /\ SceneInv(h, unlocked)
    BY <2>2, <2>3, HiddenIs
  <2>5. Router!Effect(h, "lock", NoName)
    BY <1>4, <2>1, <2>3 DEF Router!Yes
  <2> QED BY <1>1, <2>4, <2>5, Calls DEF Router!Destructive
<1>5. CASE screen.overlay = "session-revoke"
  <2>1. Router!Effect(Router!Closed(screen), "session-revoke", NoName)
    BY <1>5 DEF Router!Yes
  <2> QED BY <1>1, <1>5, <2>1, ClosedIs, Calls DEF Router!Destructive
<1>6. CASE screen.overlay \in {"remove", "remove-profile", "recovery-revoke", "policy-remove",
                               "grant-revoke"}
  <2>1. PICK c : c = Router!Closed(screen)
    OBVIOUS
  <2>2. c \in ScreenPages /\ c.overlay = "none" /\ FormInv(c) /\ SceneInv(c, unlocked)
    BY <1>6, <2>1, ClosedIs
  <2>3. PICK u : u = [c EXCEPT !.name = NoName]
    OBVIOUS
  <2>4. /\ u \in ScreenPages /\ u.overlay = "none" /\ u.form = c.form /\ u.typed = c.typed
        /\ u.kept = c.kept /\ u.quit = c.quit /\ u.value = c.value /\ u.revealed = c.revealed
        /\ u.screen = c.screen /\ u.unlocked = c.unlocked
    BY <1>1, <2>2, <2>3 DEF ScreenPages
  <2>5. FormInv(u) /\ SceneInv(u, unlocked)
    BY <2>2, <2>4, StaysShown, StaysFilled
  <2>6. Router!Effect(u, screen.overlay, screen.name) /\ screen.overlay # "reveal"
    BY <1>6, <2>1, <2>3 DEF Router!Yes
  <2>7. screen.name = named /\ named # NoName
    BY <1>1, <1>6 DEF QuestionInv, Naming
  <2> QED BY <1>2, <2>4, <2>5, <2>6, <2>7, Calls
<1> QED BY <1>3, <1>4, <1>5, <1>6 DEF Router!Yes

LEMMA NoKeeps == ASSUME RouterInv, Router!No \/ Router!OpenPalette PROVE RouterInv'
<1>1. /\ Router!Ready /\ screen \in ScreenPages /\ named \in ScreenNames
             /\ screen.overlay # "form" /\ NoName \in ScreenNames
      /\ screen.name \in ScreenNames /\ screen.asks \in ScreenNames
  BY DEF Router!No, Router!OpenPalette, RouterInv, RouterTypes, ScreenNames, ScreenPages
<1>2. CASE Router!No
  <2>1. PICK name \in ScreenNames : name = IF screen.overlay \in {"detail", "lock",
                 "palette"} THEN screen.name
                                     ELSE NoName
    BY <1>1
  <2>2. PICK asks \in ScreenNames : asks = IF screen.overlay = "reveal" THEN NoName ELSE screen.asks
    BY <1>1
  <2>3. PICK c : c = Router!Closed(screen)
    OBVIOUS
  <2>4. c \in ScreenPages /\ c.name = screen.name /\ c.asks = screen.asks
            /\ c = [screen EXCEPT !.overlay = "none"]
    BY <1>1, <2>3, ClosedIs DEF Router!Closed, ScreenPages
  <2>5. PICK u : u = [c EXCEPT !.name = name, !.asks = asks]
    OBVIOUS
  <2>6. Router!Show(u)
    BY <1>2, <2>1, <2>2, <2>3, <2>4, <2>5 DEF Router!No
  <2>7. /\ u \in ScreenPages /\ u.overlay = "none" /\ u.form = screen.form
               /\ u.typed = screen.typed
        /\ u.kept = screen.kept /\ u.quit = screen.quit /\ u.value = screen.value
        /\ u.revealed = screen.revealed /\ u.screen = screen.screen
               /\ u.unlocked = screen.unlocked
    BY <1>1, <2>4, <2>5 DEF ScreenPages
  <2>8. QuestionInv(u, named) /\ u.overlay # "form"
    BY <2>7 DEF QuestionInv, Naming
  <2> QED BY <1>1, <2>6, <2>7, <2>8, Questions DEF Router!Show
<1>3. CASE Router!OpenPalette
  <2>1. PICK u : u = [screen EXCEPT !.overlay = "palette"]
    OBVIOUS
  <2>2. /\ u \in ScreenPages /\ u.overlay = "palette" /\ u.form = screen.form
               /\ u.typed = screen.typed
        /\ u.kept = screen.kept /\ u.quit = screen.quit /\ u.value = screen.value
        /\ u.revealed = screen.revealed /\ u.screen = screen.screen
               /\ u.unlocked = screen.unlocked
    BY <1>1, <2>1 DEF ScreenPages, ScreenOverlays
  <2>3. QuestionInv(u, named) /\ u.overlay # "form"
    BY <2>2 DEF QuestionInv, Naming
  <2> QED BY <1>1, <1>3, <2>1, <2>2, <2>3, Questions DEF Router!OpenPalette, Router!Show
<1> QED BY <1>2, <1>3

LEMMA TickKeeps == ASSUME RouterInv, Router!Tick PROVE RouterInv'
<1>1. screen \in ScreenPages /\ named \in ScreenNames /\ ~screen.quit /\ NoName \in ScreenNames
  BY DEF Router!Tick, RouterInv, RouterTypes, ScreenNames
<1>2. PICK u : u = [screen EXCEPT !.revealed = NoName, !.value = NoName]
  OBVIOUS
<1>3. /\ u \in ScreenPages /\ u.overlay = screen.overlay /\ u.form = screen.form
             /\ u.typed = screen.typed
      /\ u.kept = screen.kept /\ u.quit = screen.quit /\ u.value = NoName /\ u.asks = screen.asks
      /\ u.unlocked = screen.unlocked /\ u.name = screen.name
  BY <1>1, <1>2 DEF ScreenPages
<1>4. FormInv(u) /\ SceneInv(u, unlocked) /\ QuestionInv(u, named)
  BY <1>1, <1>3, StaysFilled DEF RouterInv, SceneInv, QuestionInv
<1> QED BY <1>1, <1>2, <1>3, <1>4, ShownPage DEF Router!Tick, Router!Show

-----------------------------------------------------------------------------
\* What a snapshot of the backend leaves on the page.
LEMMA AdoptIs ==
  ASSUME NEW b \in ScreenPages, NEW open \in BOOLEAN, FormInv(b), ~b.quit,
         b.value # NoName => b.screen = "credentials" /\ b.revealed = b.value
  PROVE  /\ Router!Adopt(b, open) \in ScreenPages /\ FormInv(Router!Adopt(b, open))
                /\ SceneInv(Router!Adopt(b, open), open)
         /\ Router!Adopt(b, open).asks \in {NoName, b.asks}
         /\ b.overlay = "none" \/ (b.unlocked /\ ~open) => Router!Adopt(b, open).overlay = "none"
<1>1. PICK v : v = IF b.unlocked /\ ~open THEN Router!Dismissed(b) ELSE b
  OBVIOUS
<1>2. /\ v \in ScreenPages /\ FormInv(v) /\ v.asks = b.asks /\ v.quit = b.quit
             /\ v.screen = b.screen
      /\ v.value = b.value /\ v.unlocked = b.unlocked
      /\ b.overlay = "none" \/ (b.unlocked /\ ~open) => v.overlay = "none"
      /\ open => v.revealed = b.revealed
  BY <1>1, DismissedIs
<1>3. PICK w : w = IF open THEN v ELSE Router!Hidden(v)
  OBVIOUS
<1>4. /\ w \in ScreenPages /\ FormInv(w) /\ w.asks \in {NoName, b.asks} /\ ~w.quit
      /\ w.overlay = v.overlay
      /\ w.value # NoName => open /\ w.screen = "credentials" /\ w.revealed = w.value
  <2>1. CASE open
    BY <1>2, <1>3, <2>1
  <2>2. CASE ~open
    <3>1. /\ w \in ScreenPages /\ w.overlay = v.overlay /\ w.form = v.form /\ w.typed = v.typed
          /\ w.kept = v.kept /\ w.quit = v.quit /\ w.value = NoName /\ w.asks = NoName
      BY <1>2, <1>3, <2>2 DEF Router!Hidden, ScreenPages, ScreenNames
    <3> QED BY <1>2, <3>1, StaysFilled
  <2> QED BY <2>1, <2>2
<1>5. PICK a : a = [w EXCEPT !.unlocked = open]
  OBVIOUS
<1>6. a = Router!Adopt(b, open)
  BY <1>1, <1>3, <1>5 DEF Router!Adopt
<1>7. /\ a \in ScreenPages /\ a.overlay = w.overlay /\ a.form = w.form /\ a.typed = w.typed
      /\ a.kept = w.kept /\ a.quit = w.quit /\ a.value = w.value /\ a.asks = w.asks
      /\ a.revealed = w.revealed /\ a.screen = w.screen /\ a.unlocked = open
  BY <1>4, <1>5 DEF ScreenPages
<1>8. FormInv(a) /\ SceneInv(a, open)
  BY <1>4, <1>7, StaysFilled DEF SceneInv
<1> QED BY <1>2, <1>4, <1>6, <1>7, <1>8

LEMMA SessionEnds == ASSUME RouterInv, Router!Expire PROVE RouterInv'
<1>1. /\ screen \in ScreenPages /\ unlocked /\ unlocked' = FALSE /\ UNCHANGED <<call, named>>
      /\ named \in ScreenNames /\ call.arg \in ScreenNames /\ FormInv(screen)
  BY DEF Router!Expire, RouterInv, RouterTypes
<1>2. CASE screen.quit
  <2>1. screen' = screen /\ SceneInv(screen, FALSE)
    BY <1>2 DEF Router!Expire, SceneInv
  <2>2. ScreenCallInv'
    BY <1>1, <2>1 DEF RouterInv, ScreenCallInv, Router!ConfirmedIsDone
  <2> QED BY <1>1, <2>1, <2>2 DEF RouterInv, RouterTypes
<1>3. CASE ~screen.quit
  <2>1. PICK a : a = Router!Adopt(screen, FALSE)
    OBVIOUS
  <2>2. /\ screen.unlocked
        /\ screen.value # NoName => screen.screen = "credentials"
               /\ screen.revealed = screen.value
    BY <1>1, <1>3 DEF RouterInv, SceneInv
  <2>3. /\ a \in ScreenPages /\ FormInv(a) /\ SceneInv(a, FALSE)
               /\ a.asks \in {NoName, screen.asks}
        /\ a.overlay = "none"
    BY <1>1, <1>3, <2>1, <2>2, AdoptIs
  <2>4. screen' = a /\ QuestionInv(a, named)
    BY <1>3, <2>1, <2>3 DEF Router!Expire, QuestionInv, Naming
  <2>5. ScreenCallInv'
    BY <1>1, <2>3, <2>4 DEF RouterInv, ScreenCallInv, Router!ConfirmedIsDone
  <2> QED BY <1>1, <2>3, <2>4, <2>5 DEF RouterInv, RouterTypes
<1> QED BY <1>2, <1>3

\* A value that comes back is shown under the name it was asked for.
LEMMA RevealedIs ==
  ASSUME RouterInv, NEW open \in BOOLEAN, ~screen.quit, call.type = "reveal"
  PROVE  LET r == Router!Revealed(screen, open)
         IN /\ r \in ScreenPages /\ FormInv(r) /\ ~r.quit /\ r.overlay = screen.overlay
            /\ r.unlocked = screen.unlocked
            /\ r.value # NoName => r.screen = "credentials" /\ r.revealed = r.value
<1>1. /\ screen \in ScreenPages /\ FormInv(screen) /\ NoName \in ScreenNames
             /\ call.arg \in ScreenNames
      /\ screen.asks \in {NoName, call.arg}
      /\ screen.value # NoName => screen.screen = "credentials" /\ screen.revealed = screen.value
  BY DEF RouterInv, RouterTypes, SceneInv, ScreenCallInv, ScreenNames
<1>2. PICK r : r = Router!Revealed(screen, open)
  OBVIOUS
<1>3. CASE screen.asks # NoName /\ screen.screen = "credentials" /\ open
  <2>1. r = [screen EXCEPT !.revealed = screen.asks, !.value = call.arg, !.asks = NoName]
    BY <1>2, <1>3 DEF Router!Revealed
  <2>2. /\ r \in ScreenPages /\ r.overlay = screen.overlay /\ r.form = screen.form
               /\ r.typed = screen.typed
        /\ r.kept = screen.kept /\ r.quit = screen.quit /\ r.value = call.arg
               /\ r.revealed = screen.asks
        /\ r.screen = screen.screen /\ r.unlocked = screen.unlocked
    BY <1>1, <2>1 DEF ScreenPages
  <2> QED BY <1>1, <1>2, <1>3, <2>2, StaysFilled
<1>4. CASE ~(screen.asks # NoName /\ screen.screen = "credentials" /\ open)
  <2>1. r = [screen EXCEPT !.asks = NoName]
    BY <1>2, <1>4 DEF Router!Revealed
  <2>2. /\ r \in ScreenPages /\ r.overlay = screen.overlay /\ r.form = screen.form
               /\ r.typed = screen.typed
        /\ r.kept = screen.kept /\ r.quit = screen.quit /\ r.value = screen.value
        /\ r.revealed = screen.revealed /\ r.screen = screen.screen
               /\ r.unlocked = screen.unlocked
    BY <1>1, <2>1 DEF ScreenPages
  <2> QED BY <1>1, <1>2, <2>2, StaysFilled
<1> QED BY <1>3, <1>4

LEMMA ReturnKeeps == ASSUME RouterInv, NEW ok \in BOOLEAN, Router!Return(ok) PROVE RouterInv'
<1>1. PICK open \in BOOLEAN, allowed \in BOOLEAN :
        /\ unlocked' = open
        /\ screen' = IF screen.quit THEN screen
                     ELSE [Router!Adopt(IF ok /\ call.type = "reveal"
                         /\ unlocked THEN Router!Revealed(screen, open)
                                        ELSE screen, open) EXCEPT !.session = allowed]
  <2>1. Router!Leaves(ok) \subseteq BOOLEAN
    BY DEF Router!Leaves, RouterInv, RouterTypes
  <2> QED BY <2>1 DEF Router!Return
<1>2. /\ screen \in ScreenPages /\ named \in ScreenNames /\ FormInv(screen) /\ call # Router!Idle
             /\ call' = Router!Idle
      /\ named' = named /\ NoName \in ScreenNames
  BY DEF Router!Return, RouterInv, RouterTypes, ScreenNames
<1>3. ASSUME NEW u \in ScreenPages, screen' = u, FormInv(u), SceneInv(u, open), QuestionInv(u,
                 named)
      PROVE  RouterInv'
  <2>1. call'.type = "none" /\ call'.arg = NoName
    BY <1>2 DEF Router!Idle
  <2>2. ScreenCallInv'
    BY <1>2, <2>1 DEF ScreenCallInv, Router!ConfirmedIsDone, Router!Destructive
  <2> QED BY <1>1, <1>2, <1>3, <2>1, <2>2 DEF RouterInv, RouterTypes
<1>4. CASE screen.quit
  <2>1. SceneInv(screen, open) /\ QuestionInv(screen, named)
    BY <1>4 DEF SceneInv, RouterInv
  <2> QED BY <1>1, <1>2, <1>3, <1>4, <2>1
<1>5. CASE ~screen.quit
  <2>1. PICK b : b = IF ok /\ call.type = "reveal" /\ unlocked THEN Router!Revealed(screen,
                 open) ELSE screen
    OBVIOUS
  <2>2. screen.overlay = "none" /\ (screen.value # NoName => screen.screen = "credentials"
            /\ screen.revealed = screen.value)
    BY <1>2, <1>5 DEF RouterInv, ScreenCallInv, SceneInv
  <2>3. /\ b \in ScreenPages /\ FormInv(b) /\ ~b.quit /\ b.overlay = "none"
        /\ b.value # NoName => b.screen = "credentials" /\ b.revealed = b.value
    BY <1>2, <1>5, <2>1, <2>2, RevealedIs
  <2>4. PICK a : a = Router!Adopt(b, open)
    OBVIOUS
  <2>5. a \in ScreenPages /\ FormInv(a) /\ SceneInv(a, open) /\ a.overlay = "none"
    BY <2>3, <2>4, AdoptIs
  <2>6. PICK u : u = [a EXCEPT !.session = allowed]
    OBVIOUS
  <2>7. /\ u \in ScreenPages /\ u.overlay = "none" /\ u.form = a.form /\ u.typed = a.typed
        /\ u.kept = a.kept /\ u.quit = a.quit /\ u.value = a.value /\ u.revealed = a.revealed
        /\ u.screen = a.screen /\ u.unlocked = a.unlocked
    BY <2>5, <2>6 DEF ScreenPages
  <2>8. FormInv(u) /\ SceneInv(u, open) /\ QuestionInv(u, named)
    BY <2>5, <2>7, StaysShown, StaysFilled DEF QuestionInv, Naming
  <2> QED BY <1>1, <1>3, <1>5, <2>1, <2>4, <2>6, <2>7, <2>8
<1> QED BY <1>4, <1>5

LEMMA RouterStep == Router!ConstantsFit /\ RouterInv /\ [Router!Next]_(Router!vars) => RouterInv'
<1> SUFFICES ASSUME Router!ConstantsFit, RouterInv, [Router!Next]_(Router!vars) PROVE RouterInv'
  OBVIOUS
<1>1. CASE Router!Escape \/ Router!Quit \/ Router!OpenForm \/ Router!Type \/ Router!CancelForm
               \/ Router!Yes \/ Router!No \/ Router!OpenPalette
  BY <1>1, EscapeKeeps, LeaveKeeps, OpenFormKeeps, FillKeeps, CancelFormKeeps, YesKeeps, NoKeeps
<1>2. CASE Router!Expire \/ Router!Tick \/ \E s \in Router!Screens : Router!Enter(s)
  BY <1>2, SessionEnds, TickKeeps, EnterKeeps
<1>3. CASE \E t \in ScreenTargets : Router!OpenRename(t) \/ Router!OpenConfirm(t)
               \/ Router!OpenDetail(t) \/ Router!OpenReveal(t)
  BY <1>3, OpenRenameKeeps, OpenConfirmKeeps, OpenDetailKeeps
<1>4. CASE \E t \in ScreenTargets : Router!Copy(t) \/ Router!Activate(t)
  BY <1>4, CopyKeeps, ActivateKeeps
<1>5. CASE \E a, b \in BOOLEAN : Router!UnlockIntent(a, b)
  BY <1>5, UnlockIntentKeeps
<1>6. CASE \E ok \in BOOLEAN : Router!Submit(ok) \/ Router!Return(ok)
  BY <1>6, SubmitKeeps, ReturnKeeps
<1>7. CASE UNCHANGED Router!vars
  BY <1>7 DEF Router!vars, RouterInv, RouterTypes, ScreenCallInv, Router!ConfirmedIsDone
<1> QED BY <1>1, <1>2, <1>3, <1>4, <1>5, <1>6, <1>7 DEF Router!Next

\* Whatever is pressed while the backend works or locks itself, a plaintext stays under its
\* name, a form forgets, and what is confirmed is done to what was named.
THEOREM SecretsAreGuarded ==
  ASSUME Router!ConstantsFit
  PROVE  Router!Spec => []Router!RouterGuardsSecrets
<1>1. RouterInv => Router!RouterGuardsSecrets
  BY DEF RouterInv, FormInv, SceneInv, ScreenCallInv, Router!RouterGuardsSecrets,
         Router!RevealStaysInPlace, Router!FormsForget
<1> QED BY <1>1, RouterInit, RouterStep, PTL DEF Router!Spec

-----------------------------------------------------------------------------
(* Onboarding: the wizard that sets a profile up.                           *)

CONSTANTS SetupPaths, SetupDatabases, SetupUrls, SetupPassphrases
VARIABLES wizard, known, twice, sent, made, setup

Wizard == INSTANCE Onboarding WITH
  ui <- wizard, result <- setup,
  Paths <- SetupPaths, Databases <- SetupDatabases, Urls <- SetupUrls,
  Passphrases <- SetupPassphrases, None <- NoName

PageFields == {"step", "storage", "query", "set", "editing", "verified", "pending", "view",
               "completed", "profile", "quit"}
FileSteps  == {"id", "data", "key", "pass", "confirm", "rec", "rec-confirm", "kit"}
MongoSteps == {"id", "database", "key", "url", "pass", "confirm", "rec", "rec-confirm", "kit"}
Endings       == {"creating", "enable-session", "error", "success"}

\* The page of the wizard that the operator is on.
PageTypes(u) ==
  /\ DOMAIN u = PageFields /\ DOMAIN u.set = Wizard!Fields
  /\ u.editing \in BOOLEAN /\ u.verified \in BOOLEAN /\ u.quit \in BOOLEAN
  /\ u.step \in {"welcome", "storage", "review"} \cup FileSteps \cup MongoSteps \cup Endings
  /\ u.storage \in {"none", "file", "mongodb"}
  /\ u.storage = "none" => u.step \in {"welcome", "storage"}
  /\ u.step = "welcome" => u.storage = "none"
  /\ u.storage = "file" => u.step \notin {"database", "url"}
  /\ u.storage = "mongodb" => u.step # "data"
  /\ u.editing => u.step \in {"id", "data", "database", "key", "kit"}

\* What the backend is asked for follows from the page.
AskedInv(u) ==
  /\ u.pending \in {"none", "check", "test", "folders", "repair", "create", "enable"}
  /\ u.pending = "check" => u.step \in Wizard!PathSteps
  /\ u.pending = "test" => u.step \in {"url", "review"} /\ u.storage = "mongodb"
  /\ u.pending \in {"folders", "repair"} \/ u.view # "none" => u.step \in Wizard!PathSteps
  /\ u.pending = "create" <=> u.step = "creating"
  /\ u.pending = "enable" => u.step = "enable-session"

\* A setting that is edited has passed the review, as all of them.
Stage(u) == IF u.editing THEN "review" ELSE u.step

\* What a stage stands on was checked, or typed twice.
CheckedInv(u, k, t) ==
  /\ Stage(u) = "review" => u.set.kit \in k.paths
  /\ Stage(u) \in {"kit", "review"} => u.set.rec = t.rec
  /\ Stage(u) \in {"rec-confirm", "kit", "review"} => u.set.rec # NoName
  /\ Stage(u) \in {"rec", "rec-confirm", "kit", "review"} => u.set.pass = t.pass
  /\ Stage(u) \in {"confirm", "rec", "rec-confirm", "kit", "review"} => u.set.pass # NoName
  /\ Stage(u) \in {"url", "pass", "confirm", "rec", "rec-confirm", "kit", "review"} =>
       u.set.key \in k.paths
  /\ u.storage = "file" /\ Stage(u) \in {"key", "pass", "confirm", "rec", "rec-confirm", "kit",
         "review"} =>
       u.set.data \in k.paths
  /\ u.verified /\ Stage(u) = "url" => k.server = <<u.query, u.set.database>>
  /\ /\ u.verified /\ u.storage = "mongodb"
     /\ Stage(u) \in {"pass", "confirm", "rec", "rec-confirm", "kit", "review"}
     => k.server = <<u.set.url, u.set.database>>

\* A secret is kept by the stages after its step.
SecretInv(u) ==
  /\ u.set.pass # NoName => Stage(u) \in {"confirm", "rec", "rec-confirm", "kit", "review"}
  /\ u.set.rec # NoName => Stage(u) \in {"rec-confirm", "kit", "review"}
  /\ u.set.url # NoName => /\ u.storage = "mongodb"
                           /\ Stage(u) \in {"pass", "confirm", "rec", "rec-confirm", "kit",
                                  "review"}

PageInv(u, k, t) == PageTypes(u) /\ AskedInv(u) /\ CheckedInv(u, k, t) /\ SecretInv(u)

WizardInv ==
  /\ PageInv(wizard, known, twice) /\ Wizard!CreatesWhatWasChecked
  /\ DOMAIN known = {"paths", "server"} /\ DOMAIN twice = {"pass", "rec"}

-----------------------------------------------------------------------------
(* The chain of inputs.                                                    *)
LEMMA FilePositions ==
  ASSUME wizard.storage = "file"
  PROVE  /\ Wizard!Chain[wizard.storage] = <<"id", "data", "key", "pass", "confirm", "rec",
                "rec-confirm", "kit">>
         /\ Wizard!Position("id") = 1 /\ Wizard!Position("data") = 2 /\ Wizard!Position("key") = 3
         /\ Wizard!Position("pass") = 4 /\ Wizard!Position("confirm") = 5
                /\ Wizard!Position("rec") = 6
         /\ Wizard!Position("rec-confirm") = 7 /\ Wizard!Position("kit") = 8
<1>1. PICK c : c = Wizard!Chain[wizard.storage]
  OBVIOUS
<1>2. /\ c = <<"id", "data", "key", "pass", "confirm", "rec", "rec-confirm", "kit">>
      /\ DOMAIN c = 1 .. 8 /\ c[1] = "id" /\ c[2] = "data" /\ c[3] = "key" /\ c[4] = "pass"
      /\ c[5] = "confirm" /\ c[6] = "rec" /\ c[7] = "rec-confirm" /\ c[8] = "kit"
  BY <1>1 DEF Wizard!Chain
<1>3. \A s : Wizard!Position(s) = CHOOSE i \in 1 .. 8 : c[i] = s
  BY <1>1, <1>2 DEF Wizard!Position
<1>4. \A i \in 1 .. 8 : i \in {1, 2, 3, 4, 5, 6, 7, 8}
  OBVIOUS
<1>5. Wizard!Position("id") = 1 /\ Wizard!Position("data") = 2 /\ Wizard!Position("key") = 3
          /\ Wizard!Position("pass") = 4
  BY <1>2, <1>3, <1>4
<1>6. /\ Wizard!Position("confirm") = 5 /\ Wizard!Position("rec") = 6
             /\ Wizard!Position("rec-confirm") = 7
      /\ Wizard!Position("kit") = 8
  BY <1>2, <1>3, <1>4
<1> QED BY <1>1, <1>2, <1>5, <1>6

LEMMA MongoPositions ==
  ASSUME wizard.storage = "mongodb"
  PROVE  /\ Wizard!Chain[wizard.storage] = <<"id", "database", "key", "url", "pass", "confirm",
                "rec",
                                             "rec-confirm", "kit">>
         /\ Wizard!Position("id") = 1 /\ Wizard!Position("database") = 2
                /\ Wizard!Position("key") = 3
         /\ Wizard!Position("url") = 4 /\ Wizard!Position("pass") = 5
                /\ Wizard!Position("confirm") = 6
         /\ Wizard!Position("rec") = 7 /\ Wizard!Position("rec-confirm") = 8
                /\ Wizard!Position("kit") = 9
<1>1. PICK c : c = Wizard!Chain[wizard.storage]
  OBVIOUS
<1>2. /\ c = <<"id", "database", "key", "url", "pass", "confirm", "rec", "rec-confirm", "kit">>
      /\ DOMAIN c = 1 .. 9 /\ c[1] = "id" /\ c[2] = "database" /\ c[3] = "key" /\ c[4] = "url"
      /\ c[5] = "pass" /\ c[6] = "confirm" /\ c[7] = "rec" /\ c[8] = "rec-confirm" /\ c[9] = "kit"
  BY <1>1 DEF Wizard!Chain
<1>3. \A s : Wizard!Position(s) = CHOOSE i \in 1 .. 9 : c[i] = s
  BY <1>1, <1>2 DEF Wizard!Position
<1>4. \A i \in 1 .. 9 : i \in {1, 2, 3, 4, 5, 6, 7, 8, 9}
  OBVIOUS
<1>5. /\ Wizard!Position("id") = 1 /\ Wizard!Position("database") = 2
             /\ Wizard!Position("key") = 3
      /\ Wizard!Position("url") = 4
  BY <1>2, <1>3, <1>4
<1>6. /\ Wizard!Position("pass") = 5 /\ Wizard!Position("confirm") = 6
             /\ Wizard!Position("rec") = 7
      /\ Wizard!Position("rec-confirm") = 8 /\ Wizard!Position("kit") = 9
  BY <1>2, <1>3, <1>4
<1> QED BY <1>1, <1>2, <1>5, <1>6

\* Each input with the one after it, and the one before it.
LEMMA FileChain ==
  ASSUME wizard.storage = "file"
  PROVE  /\ Wizard!Following("id") = "data" /\ Wizard!Following("data") = "key"
                /\ Wizard!Following("key") = "pass"
         /\ Wizard!Following("pass") = "confirm" /\ Wizard!Following("confirm") = "rec"
         /\ Wizard!Following("rec") = "rec-confirm" /\ Wizard!Following("rec-confirm") = "kit"
         /\ Wizard!Following("kit") = "review"
         /\ \A s \in FileSteps \ {"id"} :
              Wizard!Following(Wizard!Chain[wizard.storage][Wizard!Position(s) - 1]) = s
              /\ Wizard!Chain[wizard.storage][Wizard!Position(s) - 1] \in FileSteps \ {"kit"}
BY FilePositions DEF Wizard!Following, FileSteps

LEMMA MongoChain ==
  ASSUME wizard.storage = "mongodb"
  PROVE  /\ Wizard!Following("id") = "database" /\ Wizard!Following("database") = "key"
         /\ Wizard!Following("key") = "url" /\ Wizard!Following("url") = "pass"
         /\ Wizard!Following("pass") = "confirm" /\ Wizard!Following("confirm") = "rec"
         /\ Wizard!Following("rec") = "rec-confirm" /\ Wizard!Following("rec-confirm") = "kit"
         /\ Wizard!Following("kit") = "review"
         /\ \A s \in MongoSteps \ {"id"} :
              Wizard!Following(Wizard!Chain[wizard.storage][Wizard!Position(s) - 1]) = s
              /\ Wizard!Chain[wizard.storage][Wizard!Position(s) - 1] \in MongoSteps \ {"kit"}
BY MongoPositions DEF Wizard!Following, MongoSteps

LEMMA SecretsWait ==
  ASSUME WizardInv
  PROVE  Wizard!SecretsWaitForCreate
<1>1. ASSUME NEW s \in Wizard!Secrets, wizard.set[s] # NoName, wizard.step # "review",
                 ~wizard.editing
      PROVE  wizard.step \in Wizard!Inputs /\ Wizard!Position(s) < Wizard!Position(wizard.step)
  <2>1. /\ wizard.step \in {"pass", "confirm", "rec", "rec-confirm", "kit"}
        /\ s = "pass" => wizard.step # "pass"
        /\ s = "rec" => wizard.step \in {"rec-confirm", "kit"}
        /\ s = "url" => wizard.storage = "mongodb"
        /\ s \in {"pass", "rec", "url"}
    BY <1>1 DEF Wizard!Secrets, WizardInv, PageInv, SecretInv, Stage
  <2>2. wizard.storage \in {"file", "mongodb"}
    BY <2>1 DEF WizardInv, PageInv, PageTypes
  <2>3. wizard.step \in Wizard!Inputs
    BY <2>1 DEF Wizard!Inputs, Wizard!PathSteps, Wizard!Secrets
  <2>4. CASE wizard.storage = "file"
    BY <2>1, <2>3, <2>4, FilePositions
  <2>5. CASE wizard.storage = "mongodb"
    BY <2>1, <2>3, <2>5, MongoPositions
  <2> QED BY <2>2, <2>4, <2>5
<1> QED BY <1>1 DEF Wizard!SecretsWaitForCreate

-----------------------------------------------------------------------------
(* Pages.                                                                  *)
LEMMA ShowsKeeps ==
  ASSUME WizardInv, NEW u, wizard' = u, UNCHANGED <<known, twice, sent, made>>,
         PageInv(u, known, twice), u.pending # "create"
  PROVE  WizardInv'
<1>1. PageInv(wizard, known, twice)'
  BY DEF PageInv, PageTypes, AskedInv, CheckedInv, SecretInv, Stage
<1>2. Wizard!CreatesWhatWasChecked'
  BY DEF Wizard!CreatesWhatWasChecked
<1> QED BY <1>1, <1>2 DEF WizardInv

\* The next input follows, when what it stands on was checked.
LEMMA ProceedKeeps ==
  ASSUME NEW u, NEW k, NEW t, NEW w, w = Wizard!Proceed(u), PageTypes(u), ~u.editing,
         u.storage = wizard.storage, u.pending = "none", u.step \in FileSteps \cup MongoSteps,
         PageTypes(u), CheckedInv(u, k, t),
         u.step = "kit" => u.set.kit \in k.paths,
         u.step = "rec-confirm" => u.set.rec = t.rec,
         u.step = "rec" => u.set.rec # NoName,
         u.step = "confirm" => u.set.pass = t.pass,
         u.step = "pass" => u.set.pass # NoName,
         u.step = "key" => u.set.key \in k.paths,
         u.step = "data" => u.set.data \in k.paths,
         u.step = "url" => u.verified /\ k.server = <<u.set.url, u.set.database>>,
         u.set.pass # NoName => u.step \in {"pass", "confirm", "rec", "rec-confirm", "kit"},
         u.set.rec # NoName => u.step \in {"rec", "rec-confirm", "kit"},
         u.set.url # NoName => /\ u.storage = "mongodb"
                               /\ u.step \in {"url", "pass", "confirm", "rec", "rec-confirm",
                                      "kit"}
  PROVE  PageInv(w, k, t) /\ w.pending = "none"
<1>1. PICK step : step = Wizard!Following(u.step)
  OBVIOUS
<1>2. /\ DOMAIN w = PageFields /\ w.step = step /\ w.storage = u.storage /\ w.set = u.set
      /\ w.editing = u.editing /\ w.pending = "none" /\ w.view = "none" /\ w.quit = u.quit
      /\ w.verified = IF step = "url" THEN FALSE ELSE u.verified
  <2>1. PICK v, query : v = Wizard!At(u, step) /\ w = [v EXCEPT !.query = query]
    BY <1>1 DEF Wizard!Proceed
  <2>2. /\ DOMAIN v = PageFields /\ v.step = step /\ v.storage = u.storage /\ v.set = u.set
        /\ v.editing = u.editing /\ v.pending = u.pending /\ v.view = "none" /\ v.quit = u.quit
        /\ v.verified = IF step = "url" THEN FALSE ELSE u.verified
    BY <2>1 DEF Wizard!At, PageTypes, PageFields
  <2> QED BY <2>1, <2>2 DEF PageFields
<1>3. u.storage \in {"file", "mongodb"}
  BY DEF PageTypes, FileSteps, MongoSteps
<1>4. CASE u.storage = "file"
  <2>1. \/ u.step = "id" /\ step = "data"
        \/ u.step = "data" /\ step = "key"
        \/ u.step = "key" /\ step = "pass"
        \/ u.step = "pass" /\ step = "confirm"
        \/ u.step = "confirm" /\ step = "rec"
        \/ u.step = "rec" /\ step = "rec-confirm"
        \/ u.step = "rec-confirm" /\ step = "kit"
        \/ u.step = "kit" /\ step = "review"
    BY <1>1, <1>4, FileChain DEF PageTypes, FileSteps, MongoSteps
  <2>2. PageTypes(w)
    BY <1>2, <1>4, <2>1 DEF PageTypes, FileSteps
  <2>3. AskedInv(w)
    BY <1>2, <2>1 DEF AskedInv
  <2>4. CheckedInv(w, k, t)
    BY <1>2, <1>4, <2>1 DEF CheckedInv, Stage
  <2>5. SecretInv(w)
    BY <1>2, <1>4, <2>1 DEF SecretInv, Stage
  <2> QED BY <1>2, <2>2, <2>3, <2>4, <2>5 DEF PageInv
<1>5. CASE u.storage = "mongodb"
  <2>1. \/ u.step = "id" /\ step = "database"
        \/ u.step = "database" /\ step = "key"
        \/ u.step = "key" /\ step = "url"
        \/ u.step = "url" /\ step = "pass"
        \/ u.step = "pass" /\ step = "confirm"
        \/ u.step = "confirm" /\ step = "rec"
        \/ u.step = "rec" /\ step = "rec-confirm"
        \/ u.step = "rec-confirm" /\ step = "kit"
        \/ u.step = "kit" /\ step = "review"
    BY <1>1, <1>5, MongoChain DEF PageTypes, FileSteps, MongoSteps
  <2>2. PageTypes(w)
    BY <1>2, <1>5, <2>1 DEF PageTypes, MongoSteps
  <2>3. AskedInv(w)
    BY <1>2, <2>1 DEF AskedInv
  <2>4. CheckedInv(w, k, t)
    BY <1>2, <1>5, <2>1 DEF CheckedInv, Stage
  <2>5. SecretInv(w)
    BY <1>2, <1>5, <2>1 DEF SecretInv, Stage
  <2> QED BY <1>2, <2>2, <2>3, <2>4, <2>5 DEF PageInv
<1> QED BY <1>3, <1>4, <1>5

\* A setting is committed, with the value that was typed or checked.
LEMMA CommittedKeeps ==
  ASSUME NEW u, NEW k, NEW t, NEW w, w = Wizard!Committed(u), PageInv(u, k, t),
         u.storage = wizard.storage,
         u.pending = "none", u.step \in Wizard!Inputs \ {"id", "confirm", "rec-confirm"},
         u.step \in Wizard!PathSteps => u.query \in k.paths,
         u.step \in {"pass", "rec"} => u.query # NoName,
         u.step = "url" => u.verified
  PROVE  PageInv(w, k, t) /\ w.pending = "none"
<1>1. PICK set : set = [u.set EXCEPT ![u.step] = u.query]
  OBVIOUS
<1>2. u.step \in {"data", "key", "kit", "pass", "rec", "url", "database"}
  BY DEF Wizard!Inputs, Wizard!PathSteps, Wizard!Secrets
<1>3. /\ DOMAIN set = Wizard!Fields /\ set[u.step] = u.query
      /\ \A f \in Wizard!Fields \ {u.step} : set[f] = u.set[f]
  BY <1>1, <1>2 DEF PageInv, PageTypes, Wizard!Fields
<1>4. CASE u.editing
  <2>1. PICK v : v = [u EXCEPT !.set = set]
    OBVIOUS
  <2>2. /\ DOMAIN v = PageFields /\ v.step = u.step /\ v.storage = u.storage /\ v.set = set
        /\ v.editing = u.editing /\ v.pending = "none" /\ v.verified = u.verified
               /\ v.quit = u.quit
    BY <2>1 DEF PageInv, PageTypes, PageFields
  <2>3. PageTypes(v)
    BY <1>3, <2>2 DEF PageInv, PageTypes
  <2>4. w = [Wizard!At(v, "review") EXCEPT !.query = NoName, !.editing = FALSE,
                                           !.verified = IF u.step = "database" THEN FALSE ELSE @]
    BY <1>1, <1>2, <1>4, <2>1 DEF Wizard!Committed, Wizard!Edited
  <2>5. /\ DOMAIN w = PageFields /\ w.step = "review" /\ w.storage = u.storage /\ w.set = set
        /\ w.editing = FALSE /\ w.pending = "none" /\ w.view = "none" /\ w.quit = u.quit
        /\ w.verified = IF u.step = "database" THEN FALSE ELSE u.verified
    <3>1. PICK x : x = Wizard!At(v, "review")
      OBVIOUS
    <3>2. /\ DOMAIN x = PageFields /\ x.step = "review" /\ x.storage = u.storage /\ x.set = set
          /\ x.pending = "none" /\ x.view = "none" /\ x.quit = u.quit /\ x.verified = u.verified
      BY <2>2, <2>3, <3>1 DEF Wizard!At, PageTypes, PageFields
    <3> QED BY <2>4, <3>1, <3>2 DEF PageFields
  <2>6. PageTypes(w) /\ AskedInv(w)
    BY <1>3, <1>4, <2>5 DEF PageInv, PageTypes, AskedInv
  <2>7. u.step \in {"data", "key", "kit", "database"}
    BY <1>4 DEF PageInv, PageTypes, Wizard!PathSteps
  <2>8. CheckedInv(w, k, t) /\ SecretInv(w)
    BY <1>3, <1>4, <2>5, <2>7 DEF PageInv, CheckedInv, SecretInv, Stage, Wizard!Fields,
                                  Wizard!PathSteps
  <2> QED BY <2>5, <2>6, <2>8 DEF PageInv
<1>5. CASE ~u.editing
  <2>1. PICK v : v = [u EXCEPT !.set = set]
    OBVIOUS
  <2>2. /\ DOMAIN v = PageFields /\ v.step = u.step /\ v.storage = u.storage /\ v.set = set
        /\ v.editing = u.editing /\ v.pending = "none" /\ v.verified = u.verified
        /\ v.quit = u.quit /\ v.query = u.query
    BY <2>1 DEF PageInv, PageTypes, PageFields
  <2>3. PageTypes(v) /\ w = Wizard!Proceed(v)
    BY <1>1, <1>3, <1>5, <2>1, <2>2 DEF PageInv, PageTypes, Wizard!Committed
  <2>4. CheckedInv(v, k, t)
    BY <1>2, <1>3, <1>5, <2>2 DEF PageInv, CheckedInv, Stage, Wizard!Fields, Wizard!PathSteps
  <2>5. u.step \in FileSteps \cup MongoSteps
    BY <1>2 DEF FileSteps, MongoSteps
  <2>6. /\ u.step = "kit" => set.kit \in k.paths
        /\ u.step = "rec" => set.rec # NoName
        /\ u.step = "pass" => set.pass # NoName
        /\ u.step = "key" => set.key \in k.paths
        /\ u.step = "data" => set.data \in k.paths
        /\ u.step = "url" => u.verified /\ k.server = <<set.url, set.database>>
    BY <1>2, <1>3, <1>5 DEF Wizard!PathSteps, Wizard!Fields, PageInv, CheckedInv, Stage
  <2>7. /\ set.pass # NoName => u.step \in {"pass", "confirm", "rec", "rec-confirm", "kit"}
        /\ set.rec # NoName => u.step \in {"rec", "rec-confirm", "kit"}
        /\ set.url # NoName => /\ u.storage = "mongodb"
                               /\ u.step \in {"url", "pass", "confirm", "rec", "rec-confirm",
                                      "kit"}
    BY <1>2, <1>3, <1>5 DEF Wizard!Fields, PageInv, PageTypes, SecretInv, Stage
  <2> QED BY <1>2, <1>5, <2>2, <2>3, <2>4, <2>5, <2>6, <2>7, ProceedKeeps
<1> QED BY <1>4, <1>5 DEF PageInv, PageTypes

-----------------------------------------------------------------------------
(* Keys.                                                                   *)
LEMMA TypingKeeps ==
  ASSUME WizardInv, Wizard!Type
  PROVE  WizardInv'
<1>1. PICK u : u = wizard'
  OBVIOUS
<1>2. /\ DOMAIN u = PageFields /\ u.step = wizard.step /\ u.storage = wizard.storage
      /\ u.set = wizard.set /\ u.editing = wizard.editing
      /\ u.verified = IF wizard.step = "url" THEN FALSE ELSE wizard.verified
      /\ u.pending = wizard.pending /\ u.view = wizard.view /\ u.quit = wizard.quit
      /\ wizard.step \in Wizard!Inputs /\ wizard.pending = "none" /\ wizard.view = "none"
      /\ UNCHANGED <<known, twice, sent, made>>
  BY <1>1 DEF WizardInv, PageInv, PageTypes, PageFields, Wizard!Type, Wizard!Show, Wizard!Keys,
              Wizard!Ready
<1>3. PageTypes(u)
  BY <1>2 DEF WizardInv, PageInv, PageTypes, Wizard!PathSteps, Wizard!Secrets, Wizard!Inputs,
              FileSteps, MongoSteps, Endings
<1>4. AskedInv(u) /\ u.pending # "create"
  BY <1>2 DEF WizardInv, PageInv, PageTypes, AskedInv, Wizard!PathSteps, Wizard!Secrets,
              Wizard!Inputs, FileSteps, MongoSteps, Endings
<1>5. CheckedInv(u, known, twice) /\ SecretInv(u)
  BY <1>2 DEF WizardInv, PageInv, PageTypes, CheckedInv, SecretInv, Stage, Wizard!PathSteps,
              Wizard!Secrets, Wizard!Inputs, FileSteps, MongoSteps, Endings
<1> QED BY <1>1, <1>2, <1>3, <1>4, <1>5, ShowsKeeps DEF PageInv

LEMMA EraseKeeps ==
  ASSUME WizardInv, Wizard!Erase
  PROVE  WizardInv'
<1>1. PICK u : u = wizard'
  OBVIOUS
<1>2. /\ DOMAIN u = PageFields /\ u.step = wizard.step /\ u.storage = wizard.storage
      /\ u.set = wizard.set /\ u.editing = wizard.editing /\ u.verified = FALSE
      /\ u.pending = wizard.pending /\ u.view = wizard.view /\ u.quit = wizard.quit
      /\ wizard.step \in Wizard!Inputs /\ wizard.pending = "none" /\ wizard.view = "none"
      /\ UNCHANGED <<known, twice, sent, made>>
  BY <1>1 DEF WizardInv, PageInv, PageTypes, PageFields, Wizard!Erase, Wizard!Show,
              Wizard!Keys, Wizard!Ready
<1>3. PageTypes(u)
  BY <1>2 DEF WizardInv, PageInv, PageTypes, Wizard!PathSteps, Wizard!Secrets, Wizard!Inputs,
              FileSteps, MongoSteps, Endings
<1>4. AskedInv(u) /\ u.pending # "create"
  BY <1>2 DEF WizardInv, PageInv, PageTypes, AskedInv, Wizard!PathSteps, Wizard!Secrets,
              Wizard!Inputs, FileSteps, MongoSteps, Endings
<1>5. CheckedInv(u, known, twice) /\ SecretInv(u)
  BY <1>2 DEF WizardInv, PageInv, PageTypes, CheckedInv, SecretInv, Stage, Wizard!PathSteps,
              Wizard!Secrets, Wizard!Inputs, FileSteps, MongoSteps, Endings
<1> QED BY <1>1, <1>2, <1>3, <1>4, <1>5, ShowsKeeps DEF PageInv

LEMMA ChooseWelcomeKeeps ==
  ASSUME WizardInv, Wizard!Choose, wizard.step = "welcome"
  PROVE  WizardInv'
<1>1. PICK u : u = wizard'
  OBVIOUS
<1>2. /\ DOMAIN u = PageFields /\ u.step = "storage" /\ u.storage = wizard.storage
      /\ u.query = wizard.query /\ u.set = wizard.set /\ u.editing = wizard.editing
      /\ u.verified = wizard.verified /\ u.pending = wizard.pending /\ u.view = "none"
      /\ u.quit = wizard.quit
      /\ wizard.pending = "none"
      /\ UNCHANGED <<known, twice, sent, made>>
  BY <1>1 DEF WizardInv, PageInv, PageTypes, PageFields, Wizard!Choose, Wizard!Show,
              Wizard!Keys, Wizard!Ready, Wizard!At
<1>3. PageTypes(u)
  BY <1>2 DEF WizardInv, PageInv, PageTypes, Wizard!PathSteps, Wizard!Secrets, Wizard!Inputs,
              FileSteps, MongoSteps, Endings
<1>4. AskedInv(u) /\ u.pending # "create"
  BY <1>2 DEF WizardInv, PageInv, PageTypes, AskedInv, Wizard!PathSteps, Wizard!Secrets,
              Wizard!Inputs, FileSteps, MongoSteps, Endings
<1>5. CheckedInv(u, known, twice) /\ SecretInv(u)
  BY <1>2 DEF WizardInv, PageInv, PageTypes, CheckedInv, SecretInv, Stage, Wizard!PathSteps,
              Wizard!Secrets, Wizard!Inputs, FileSteps, MongoSteps, Endings
<1> QED BY <1>1, <1>2, <1>3, <1>4, <1>5, ShowsKeeps DEF PageInv

LEMMA ChooseStorageKeeps ==
  ASSUME WizardInv, Wizard!Choose, wizard.step = "storage"
  PROVE  WizardInv'
<1>1. PICK u : u = wizard'
  OBVIOUS
<1>2. /\ DOMAIN u = PageFields /\ u.step = "id" /\ u.set = wizard.set
      /\ u.editing = wizard.editing /\ u.verified = wizard.verified /\ u.pending = wizard.pending
      /\ u.view = "none" /\ u.quit = wizard.quit
      /\ wizard.pending = "none" /\ u.storage \in {"file", "mongodb"}
      /\ UNCHANGED <<known, twice, sent, made>>
  BY <1>1 DEF WizardInv, PageInv, PageTypes, PageFields, Wizard!Choose, Wizard!Show,
              Wizard!Keys, Wizard!Ready, Wizard!At
<1>3. PageTypes(u)
  BY <1>2 DEF WizardInv, PageInv, PageTypes, Wizard!PathSteps, Wizard!Secrets, Wizard!Inputs,
              FileSteps, MongoSteps, Endings
<1>4. AskedInv(u) /\ u.pending # "create"
  BY <1>2 DEF WizardInv, PageInv, PageTypes, AskedInv, Wizard!PathSteps, Wizard!Secrets,
              Wizard!Inputs, FileSteps, MongoSteps, Endings
<1>5. CheckedInv(u, known, twice) /\ SecretInv(u)
  BY <1>2 DEF WizardInv, PageInv, PageTypes, CheckedInv, SecretInv, Stage, Wizard!PathSteps,
              Wizard!Secrets, Wizard!Inputs, FileSteps, MongoSteps, Endings
<1> QED BY <1>1, <1>2, <1>3, <1>4, <1>5, ShowsKeeps DEF PageInv

LEMMA CancelKeeps ==
  ASSUME WizardInv, Wizard!Quit
  PROVE  WizardInv'
<1>1. PICK u : u = wizard'
  OBVIOUS
<1>2. /\ DOMAIN u = PageFields /\ u.step = wizard.step /\ u.storage = wizard.storage
      /\ u.query = wizard.query /\ u.set = wizard.set /\ u.editing = wizard.editing
      /\ u.verified = wizard.verified /\ u.pending = wizard.pending /\ u.view = wizard.view
      /\ u.quit = TRUE
      /\ wizard.pending = "none"
      /\ UNCHANGED <<known, twice, sent, made>>
  BY <1>1 DEF WizardInv, PageInv, PageTypes, PageFields, Wizard!Quit, Wizard!Ready
<1>3. PageTypes(u)
  BY <1>2 DEF WizardInv, PageInv, PageTypes, Wizard!PathSteps, Wizard!Secrets, Wizard!Inputs,
              FileSteps, MongoSteps, Endings
<1>4. AskedInv(u) /\ u.pending # "create"
  BY <1>2 DEF WizardInv, PageInv, PageTypes, AskedInv, Wizard!PathSteps, Wizard!Secrets,
              Wizard!Inputs, FileSteps, MongoSteps, Endings
<1>5. CheckedInv(u, known, twice) /\ SecretInv(u)
  BY <1>2 DEF WizardInv, PageInv, PageTypes, CheckedInv, SecretInv, Stage, Wizard!PathSteps,
              Wizard!Secrets, Wizard!Inputs, FileSteps, MongoSteps, Endings
<1> QED BY <1>1, <1>2, <1>3, <1>4, <1>5, ShowsKeeps DEF PageInv

LEMMA RetryKeeps ==
  ASSUME WizardInv, Wizard!Retry
  PROVE  WizardInv'
<1>1. PICK u : u = wizard'
  OBVIOUS
<1>2. /\ DOMAIN u = PageFields /\ u.step = IF wizard.storage = "file" THEN "data" ELSE "key"
      /\ u.storage = wizard.storage /\ u.set = wizard.set /\ u.editing = wizard.editing
      /\ u.verified = wizard.verified /\ u.pending = wizard.pending /\ u.view = "none"
      /\ u.quit = wizard.quit
      /\ wizard.pending = "none" /\ wizard.step = "error"
      /\ UNCHANGED <<known, twice, sent, made>>
  BY <1>1 DEF WizardInv, PageInv, PageTypes, PageFields, Wizard!Retry, Wizard!Keys,
              Wizard!Ready, Wizard!At, Wizard!Show
<1>3. PageTypes(u)
  BY <1>2 DEF WizardInv, PageInv, PageTypes, Wizard!PathSteps, Wizard!Secrets, Wizard!Inputs,
              FileSteps, MongoSteps, Endings
<1>4. AskedInv(u) /\ u.pending # "create"
  BY <1>2 DEF WizardInv, PageInv, PageTypes, AskedInv, Wizard!PathSteps, Wizard!Secrets,
              Wizard!Inputs, FileSteps, MongoSteps, Endings
<1>5. CheckedInv(u, known, twice) /\ SecretInv(u)
  BY <1>2 DEF WizardInv, PageInv, PageTypes, CheckedInv, SecretInv, Stage, Wizard!PathSteps,
              Wizard!Secrets, Wizard!Inputs, FileSteps, MongoSteps, Endings
<1> QED BY <1>1, <1>2, <1>3, <1>4, <1>5, ShowsKeeps DEF PageInv

\* The secrets leave the page.
LEMMA WipedIs ==
  ASSUME NEW u, PageTypes(u), NEW w, w = Wizard!Wiped(u)
  PROVE  /\ /\ DOMAIN w = PageFields /\ w.step = u.step /\ w.storage = u.storage
         /\ w.editing = u.editing /\ w.verified = u.verified /\ w.pending = u.pending
         /\ w.view = u.view /\ w.quit = u.quit
         /\ DOMAIN w.set = Wizard!Fields /\ w.set.pass = NoName /\ w.set.rec = NoName
                /\ w.set.url = NoName
         /\ \A f \in Wizard!Fields \ Wizard!Secrets : w.set[f] = u.set[f]
<1>1. PICK set : set = [u.set EXCEPT !.pass = NoName, !.rec = NoName, !.url = NoName]
  OBVIOUS
<1>2. /\ DOMAIN set = Wizard!Fields /\ set.pass = NoName /\ set.rec = NoName /\ set.url = NoName
      /\ \A f \in Wizard!Fields \ Wizard!Secrets : set[f] = u.set[f]
  BY <1>1 DEF PageTypes, Wizard!Fields, Wizard!Secrets
<1>3. w = [u EXCEPT !.set = set, !.query = NoName]
  BY <1>1 DEF Wizard!Wiped
<1> QED BY <1>2, <1>3 DEF PageTypes, PageFields

LEMMA EnablingKeeps ==
  ASSUME WizardInv, Wizard!Enable
  PROVE  WizardInv'
<1>1. PICK u, v : u = wizard' /\ v = Wizard!Wiped(wizard)
  OBVIOUS
<1>2. wizard.step = "enable-session" /\ wizard.pending = "none"
          /\ UNCHANGED <<known, twice, sent, made>>
  BY DEF Wizard!Enable, Wizard!Keys, Wizard!Ready, Wizard!Asks, Wizard!Show
<1>3. /\ DOMAIN v = PageFields /\ v.step = wizard.step /\ v.storage = wizard.storage
      /\ v.editing = wizard.editing /\ v.verified = wizard.verified /\ v.pending = wizard.pending
      /\ v.view = wizard.view /\ v.quit = wizard.quit
      /\ DOMAIN v.set = Wizard!Fields /\ v.set.pass = NoName /\ v.set.rec = NoName
             /\ v.set.url = NoName
  BY <1>1, WipedIs DEF WizardInv, PageInv
<1>4. CASE u = [wizard EXCEPT !.pending = "enable"]
  <2>1. /\ DOMAIN u = PageFields /\ u.step = wizard.step /\ u.storage = wizard.storage
        /\ u.query = wizard.query /\ u.set = wizard.set /\ u.editing = wizard.editing
        /\ u.verified = wizard.verified /\ u.pending = "enable" /\ u.view = wizard.view
        /\ u.quit = wizard.quit
    BY <1>4 DEF WizardInv, PageInv, PageTypes, PageFields
  <2>2. PageTypes(u)
    BY <1>2, <2>1 DEF WizardInv, PageInv, PageTypes, Wizard!PathSteps
  <2>3. AskedInv(u) /\ u.pending # "create"
    BY <1>2, <2>1 DEF WizardInv, PageInv, PageTypes, AskedInv, Wizard!PathSteps
  <2>4. CheckedInv(u, known, twice) /\ SecretInv(u)
    BY <1>2, <2>1 DEF WizardInv, PageInv, PageTypes, CheckedInv, SecretInv, Stage,
                      Wizard!PathSteps
  <2> QED BY <1>1, <1>2, <2>2, <2>3, <2>4, ShowsKeeps DEF PageInv
<1>5. CASE u = [Wizard!At(v, "success") EXCEPT !.completed = TRUE]
  <2>1. /\ DOMAIN u = PageFields /\ u.step = "success" /\ u.storage = v.storage
        /\ u.set = v.set /\ u.editing = v.editing /\ u.verified = v.verified
        /\ u.pending = v.pending /\ u.view = "none" /\ u.quit = v.quit
    BY <1>3, <1>5 DEF Wizard!At, PageFields
  <2>2. PageTypes(u)
    BY <1>2, <1>3, <2>1 DEF WizardInv, PageInv, PageTypes, Wizard!PathSteps, FileSteps,
                            MongoSteps, Endings
  <2>3. AskedInv(u) /\ u.pending # "create"
    BY <1>2, <1>3, <2>1 DEF WizardInv, PageInv, PageTypes, AskedInv, Wizard!PathSteps,
                            FileSteps, MongoSteps, Endings
  <2>4. CheckedInv(u, known, twice) /\ SecretInv(u)
    BY <1>2, <1>3, <2>1 DEF WizardInv, PageInv, PageTypes, CheckedInv, SecretInv, Stage,
                            Wizard!PathSteps, FileSteps, MongoSteps, Endings
  <2> QED BY <1>1, <1>2, <2>2, <2>3, <2>4, ShowsKeeps DEF PageInv
<1> QED BY <1>1, <1>4, <1>5 DEF Wizard!Enable, Wizard!Asks, Wizard!Show

\* The secrets leave with the call that creates the profile.
LEMMA CreateKeeps ==
  ASSUME WizardInv, Wizard!Create
  PROVE  WizardInv'
<1>1. PICK u, v : u = wizard' /\ v = Wizard!Wiped(wizard)
  OBVIOUS
<1>2. wizard.step = "review" /\ wizard.pending = "none" /\ UNCHANGED <<known, twice, made>>
          /\ ~wizard.editing
  BY DEF Wizard!Create, Wizard!Keys, Wizard!Ready, Wizard!Asks, Wizard!Show, WizardInv,
         PageInv, PageTypes
<1>3. /\ DOMAIN v = PageFields /\ v.step = wizard.step /\ v.storage = wizard.storage
      /\ v.editing = wizard.editing /\ v.verified = wizard.verified /\ v.pending = wizard.pending
      /\ v.view = wizard.view /\ v.quit = wizard.quit
      /\ DOMAIN v.set = Wizard!Fields /\ v.set.pass = NoName /\ v.set.rec = NoName
             /\ v.set.url = NoName
  BY <1>1, WipedIs DEF WizardInv, PageInv
<1>4. CASE wizard.storage = "mongodb" /\ ~wizard.verified
  <2>1. /\ DOMAIN u = PageFields /\ u.step = wizard.step /\ u.storage = wizard.storage
        /\ u.query = wizard.query /\ u.set = wizard.set /\ u.editing = wizard.editing
        /\ u.verified = wizard.verified /\ u.pending = "test" /\ u.view = wizard.view
        /\ u.quit = wizard.quit
        /\ UNCHANGED sent
    BY <1>1, <1>4 DEF WizardInv, PageInv, PageTypes, PageFields, Wizard!Create, Wizard!Asks,
                      Wizard!Show
  <2>2. PageTypes(u)
    BY <1>2, <1>4, <2>1 DEF WizardInv, PageInv, PageTypes, Wizard!PathSteps
  <2>3. AskedInv(u) /\ u.pending # "create"
    BY <1>2, <1>4, <2>1 DEF WizardInv, PageInv, PageTypes, AskedInv, Wizard!PathSteps
  <2>4. CheckedInv(u, known, twice) /\ SecretInv(u)
    BY <1>2, <1>4, <2>1 DEF WizardInv, PageInv, PageTypes, CheckedInv, SecretInv, Stage,
                            Wizard!PathSteps
  <2> QED BY <1>1, <1>2, <2>1, <2>2, <2>3, <2>4, ShowsKeeps DEF PageInv
<1>5. CASE ~(wizard.storage = "mongodb" /\ ~wizard.verified)
  <2>1. sent' = wizard.set /\ u = [Wizard!At(v, "creating") EXCEPT !.pending = "create"]
    BY <1>1, <1>5 DEF Wizard!Create
  <2>2. /\ DOMAIN u = PageFields /\ u.step = "creating" /\ u.storage = v.storage
        /\ u.query = v.query /\ u.set = v.set /\ u.editing = v.editing
        /\ u.verified = v.verified /\ u.pending = "create" /\ u.view = "none"
        /\ u.quit = v.quit
    BY <1>3, <2>1 DEF Wizard!At, PageFields
  <2>3. PageTypes(u)
    BY <1>2, <1>3, <2>2 DEF WizardInv, PageInv, PageTypes, FileSteps, MongoSteps, Endings
  <2>4. AskedInv(u)
    BY <1>2, <1>3, <2>2 DEF WizardInv, PageInv, AskedInv, Wizard!PathSteps
  <2>5. CheckedInv(u, known, twice) /\ SecretInv(u)
    BY <1>2, <1>3, <2>2 DEF WizardInv, PageInv, CheckedInv, SecretInv, Stage
  <2>6. PageInv(wizard, known, twice)'
    BY <1>1, <1>2, <2>3, <2>4, <2>5 DEF PageInv, PageTypes, AskedInv, CheckedInv, SecretInv,
                                        Stage
  <2>7. /\ wizard.set.key \in known.paths /\ wizard.set.kit \in known.paths
        /\ wizard.set.pass = twice.pass /\ wizard.set.rec = twice.rec /\ wizard.set.pass # NoName
        /\ wizard.set.rec # NoName
        /\ wizard.storage = "file" => wizard.set.data \in known.paths
        /\ wizard.storage = "mongodb" => known.server = <<wizard.set.url, wizard.set.database>>
    BY <1>2, <1>5 DEF WizardInv, PageInv, CheckedInv, Stage
  <2>8. wizard'.storage = wizard.storage
    BY <1>1, <1>3, <2>2
  <2>9. Wizard!CreatesWhatWasChecked'
    BY <1>2, <2>1, <2>7, <2>8 DEF Wizard!CreatesWhatWasChecked
  <2> QED BY <1>2, <2>6, <2>9 DEF WizardInv
<1> QED BY <1>4, <1>5

LEMMA ReviewKeeps ==
  ASSUME WizardInv, Wizard!Review
  PROVE  WizardInv'
<1>1. PICK u : u = wizard'
  OBVIOUS
<1>2. /\ wizard.step = "review" /\ wizard.pending = "none" /\ ~wizard.editing
      /\ UNCHANGED <<known, twice, sent, made>>
  BY DEF Wizard!Review, Wizard!Keys, Wizard!Ready, Wizard!Asks, Wizard!Show, WizardInv,
         PageInv, PageTypes
<1>3. CASE u = [Wizard!At(wizard, "kit") EXCEPT !.query = wizard.set.kit]
  <2>1. /\ DOMAIN u = PageFields /\ u.step = "kit" /\ u.storage = wizard.storage
        /\ u.set = wizard.set /\ u.editing = wizard.editing /\ u.verified = wizard.verified
        /\ u.pending = wizard.pending /\ u.view = "none" /\ u.quit = wizard.quit
    BY <1>3 DEF Wizard!At, WizardInv, PageInv, PageTypes, PageFields
  <2>2. PageTypes(u)
    BY <1>2, <2>1 DEF WizardInv, PageInv, PageTypes, Wizard!PathSteps, FileSteps, MongoSteps
  <2>3. AskedInv(u) /\ u.pending # "create"
    BY <1>2, <2>1 DEF WizardInv, PageInv, PageTypes, AskedInv, Wizard!PathSteps, FileSteps,
                      MongoSteps
  <2>4. CheckedInv(u, known, twice) /\ SecretInv(u)
    BY <1>2, <2>1 DEF WizardInv, PageInv, PageTypes, CheckedInv, SecretInv, Stage,
                      Wizard!PathSteps, FileSteps, MongoSteps
  <2> QED BY <1>1, <1>2, <2>2, <2>3, <2>4, ShowsKeeps DEF PageInv
<1>4. ASSUME NEW step \in {"id", "data", "database", "key", "kit"},
             NEW i \in DOMAIN Wizard!Chain[wizard.storage],
                 Wizard!Chain[wizard.storage][i] = step,
             u = [Wizard!At(wizard, step) EXCEPT !.editing = TRUE,
                                                 !.query = IF step = "id" THEN NoName ELSE wizard.set[step]]
      PROVE  WizardInv'
  <2>1. /\ DOMAIN u = PageFields /\ u.step = step /\ u.storage = wizard.storage
        /\ u.set = wizard.set /\ u.editing = TRUE /\ u.verified = wizard.verified
        /\ u.pending = wizard.pending /\ u.view = "none" /\ u.quit = wizard.quit
    BY <1>4 DEF Wizard!At, WizardInv, PageInv, PageTypes, PageFields
  <2>2. wizard.storage = "file" => step # "database"
    BY <1>4, FilePositions
  <2>3. wizard.storage = "mongodb" => step # "data"
    BY <1>4, MongoPositions
  <2>4. wizard.storage \in {"file", "mongodb"}
    BY <1>2 DEF WizardInv, PageInv, PageTypes
  <2>5. PageTypes(u)
    BY <1>2, <1>4, <2>1, <2>2, <2>3, <2>4 DEF WizardInv, PageInv, PageTypes, Wizard!PathSteps,
                                              FileSteps, MongoSteps
  <2>6. AskedInv(u) /\ u.pending # "create"
    BY <1>2, <1>4, <2>1, <2>2, <2>3, <2>4 DEF WizardInv, PageInv, PageTypes, AskedInv,
                                              Wizard!PathSteps, FileSteps, MongoSteps
  <2>7. CheckedInv(u, known, twice) /\ SecretInv(u)
    BY <1>2, <1>4, <2>1, <2>2, <2>3, <2>4 DEF WizardInv, PageInv, PageTypes, CheckedInv,
                                              SecretInv, Stage, Wizard!PathSteps, FileSteps,
                                              MongoSteps
  <2> QED BY <1>1, <1>2, <2>5, <2>6, <2>7, ShowsKeeps DEF PageInv
<1> QED BY <1>1, <1>3, <1>4 DEF Wizard!Review, Wizard!Show

LEMMA ToolKeeps ==
  ASSUME WizardInv, Wizard!Tool
  PROVE  WizardInv'
<1>1. PICK u : u = wizard'
  OBVIOUS
<1>2. wizard.pending = "none" /\ UNCHANGED <<known, twice, sent, made>>
  BY DEF Wizard!Tool, Wizard!Keys, Wizard!Ready, Wizard!Asks, Wizard!Show
<1>3. ASSUME NEW what \in {"test", "folders", "repair"}, u = [wizard EXCEPT !.pending = what],
             what = "test" => wizard.step = "url", what # "test"
                 => wizard.step \in Wizard!PathSteps
      PROVE  WizardInv'
  <2>1. /\ DOMAIN u = PageFields /\ u.step = wizard.step /\ u.storage = wizard.storage
        /\ u.query = wizard.query /\ u.set = wizard.set /\ u.editing = wizard.editing
        /\ u.verified = wizard.verified /\ u.pending = what /\ u.view = wizard.view
        /\ u.quit = wizard.quit
    BY <1>3 DEF WizardInv, PageInv, PageTypes, PageFields
  <2>2. PageTypes(u)
    BY <1>2, <1>3, <2>1 DEF WizardInv, PageInv, PageTypes, Wizard!PathSteps
  <2>3. AskedInv(u) /\ u.pending # "create"
    BY <1>2, <1>3, <2>1 DEF WizardInv, PageInv, PageTypes, AskedInv, Wizard!PathSteps
  <2>4. CheckedInv(u, known, twice) /\ SecretInv(u)
    BY <1>2, <1>3, <2>1 DEF WizardInv, PageInv, PageTypes, CheckedInv, SecretInv, Stage,
                            Wizard!PathSteps
  <2> QED BY <1>1, <1>2, <2>2, <2>3, <2>4, ShowsKeeps DEF PageInv
<1>4. ASSUME NEW p, wizard.view = "folders", u = [wizard EXCEPT !.query = p, !.view = "none"]
      PROVE  WizardInv'
  <2>1. /\ DOMAIN u = PageFields /\ u.step = wizard.step /\ u.storage = wizard.storage
        /\ u.query = p /\ u.set = wizard.set /\ u.editing = wizard.editing
        /\ u.verified = wizard.verified /\ u.pending = wizard.pending /\ u.view = "none"
        /\ u.quit = wizard.quit
        /\ wizard.step \in Wizard!PathSteps
    BY <1>4 DEF WizardInv, PageInv, PageTypes, AskedInv, PageFields
  <2>2. PageTypes(u)
    BY <1>2, <1>4, <2>1 DEF WizardInv, PageInv, PageTypes, Wizard!PathSteps
  <2>3. AskedInv(u) /\ u.pending # "create"
    BY <1>2, <1>4, <2>1 DEF WizardInv, PageInv, PageTypes, AskedInv, Wizard!PathSteps
  <2>4. CheckedInv(u, known, twice) /\ SecretInv(u)
    BY <1>2, <1>4, <2>1 DEF WizardInv, PageInv, PageTypes, CheckedInv, SecretInv, Stage,
                            Wizard!PathSteps
  <2> QED BY <1>1, <1>2, <2>2, <2>3, <2>4, ShowsKeeps DEF PageInv
<1>5. ASSUME u = [wizard EXCEPT !.view = "none"]
      PROVE  WizardInv'
  <2>1. /\ DOMAIN u = PageFields /\ u.step = wizard.step /\ u.storage = wizard.storage
        /\ u.query = wizard.query /\ u.set = wizard.set /\ u.editing = wizard.editing
        /\ u.verified = wizard.verified /\ u.pending = wizard.pending /\ u.view = "none"
        /\ u.quit = wizard.quit
    BY <1>5 DEF WizardInv, PageInv, PageTypes, PageFields
  <2>2. PageTypes(u)
    BY <1>2, <2>1 DEF WizardInv, PageInv, PageTypes, Wizard!PathSteps
  <2>3. AskedInv(u) /\ u.pending # "create"
    BY <1>2, <2>1 DEF WizardInv, PageInv, PageTypes, AskedInv, Wizard!PathSteps
  <2>4. CheckedInv(u, known, twice) /\ SecretInv(u)
    BY <1>2, <2>1 DEF WizardInv, PageInv, PageTypes, CheckedInv, SecretInv, Stage,
                      Wizard!PathSteps
  <2> QED BY <1>1, <1>2, <2>2, <2>3, <2>4, ShowsKeeps DEF PageInv
<1>6. CASE Wizard!Keys({"url"}) /\ wizard.query # NoName /\ Wizard!Asks(wizard, "test")
  BY <1>1, <1>3, <1>6 DEF Wizard!Keys, Wizard!Asks, Wizard!Show
<1>7. CASE Wizard!Keys(Wizard!PathSteps) /\ \E what \in {"folders",
               "repair"} : Wizard!Asks(wizard, what)
  BY <1>1, <1>3, <1>7 DEF Wizard!Keys, Wizard!Asks, Wizard!Show
<1>8. CASE Wizard!Ready /\ wizard.view \in {"folders", "repair"}
               /\ Wizard!Asks(wizard, wizard.view)
  <2>1. PICK what : what = wizard.view
    OBVIOUS
  <2>2. wizard.step \in Wizard!PathSteps
    BY <1>8 DEF WizardInv, PageInv, AskedInv
  <2> QED BY <1>1, <1>3, <1>8, <2>1, <2>2 DEF Wizard!Asks, Wizard!Show
<1> QED BY <1>1, <1>4, <1>5, <1>6, <1>7, <1>8 DEF Wizard!Tool, Wizard!Show

-----------------------------------------------------------------------------
(* Steps of the chain.                                                     *)
LEMMA MovesKeeps ==
  ASSUME WizardInv, NEW u, NEW k, NEW t, wizard' = u, known' = k, twice' = t,
         PageInv(u, k, t), u.pending # "create",
         DOMAIN k = {"paths", "server"}, DOMAIN t = {"pass", "rec"}
  PROVE  WizardInv'
<1>1. PageInv(wizard, known, twice)'
  BY DEF PageInv, PageTypes, AskedInv, CheckedInv, SecretInv, Stage
<1>2. Wizard!CreatesWhatWasChecked'
  BY DEF Wizard!CreatesWhatWasChecked
<1> QED BY <1>1, <1>2 DEF WizardInv

LEMMA CommittingKeeps ==
  ASSUME WizardInv, Wizard!Commit
  PROVE  WizardInv'
<1>1. PICK u, k, t, x : u = wizard' /\ k = known /\ t = twice /\ x = wizard
  OBVIOUS
<1>2. /\ x.pending = "none" /\ x.view = "none" /\ x.step \in Wizard!Inputs /\ PageInv(x, k, t)
      /\ DOMAIN k = {"paths", "server"} /\ DOMAIN t = {"pass", "rec"}
      /\ UNCHANGED <<known, twice, sent, made>>
  <2>1. PageInv(x, k, t)
    BY <1>1 DEF WizardInv
  <2> QED BY <1>1, <2>1 DEF Wizard!Commit, Wizard!Keys, Wizard!Ready, Wizard!Asks, Wizard!Show,
                            WizardInv
<1>3. ASSUME u.pending = "none", PageInv(u, k, t)
      PROVE  WizardInv'
  BY <1>1, <1>2, <1>3, MovesKeeps
<1>4. ASSUME x.step = "id", x.editing, u = Wizard!Edited(x)
      PROVE  WizardInv'
  <2>1. /\ DOMAIN u = PageFields /\ u.step = "review" /\ u.storage = x.storage
        /\ u.query = NoName /\ u.set = x.set /\ u.editing = FALSE /\ u.verified = x.verified
        /\ u.pending = x.pending /\ u.view = "none" /\ u.quit = x.quit
    <3>1. PICK y : y = [x EXCEPT !.set = @]
      OBVIOUS
    <3>2. /\ DOMAIN y = PageFields /\ y.step = x.step /\ y.storage = x.storage
          /\ y.query = x.query /\ y.set = x.set /\ y.editing = x.editing
          /\ y.verified = x.verified /\ y.pending = x.pending /\ y.view = x.view
          /\ y.quit = x.quit
      BY <1>2, <3>1 DEF PageInv, PageTypes, PageFields
    <3>3. u = [Wizard!At(y, "review") EXCEPT !.query = NoName, !.editing = FALSE]
      <4>1. u = [Wizard!At(y, "review") EXCEPT !.query = NoName, !.editing = FALSE,
                !.verified = @]
        BY <1>4, <3>1 DEF Wizard!Edited
      <4> QED BY <3>2, <4>1 DEF Wizard!At, PageFields
    <3> QED BY <3>2, <3>3 DEF Wizard!At, PageFields
  <2>2. PageTypes(u) /\ AskedInv(u)
    BY <1>2, <1>4, <2>1 DEF PageInv, PageTypes, AskedInv, Wizard!PathSteps
  <2>3. CheckedInv(u, k, t) /\ SecretInv(u)
    BY <1>2, <1>4, <2>1 DEF PageInv, CheckedInv, SecretInv, Stage
  <2> QED BY <1>2, <1>3, <2>1, <2>2, <2>3 DEF PageInv
<1>5. ASSUME x.step = "id", ~x.editing, u = Wizard!Proceed(x)
      PROVE  WizardInv'
  <2>1. /\ PageTypes(x) /\ CheckedInv(x, k, t) /\ x.step \in FileSteps \cup MongoSteps
        /\ x.set.pass = NoName /\ x.set.rec = NoName /\ x.set.url = NoName
    BY <1>2, <1>5 DEF PageInv, SecretInv, Stage, FileSteps
  <2>2. PageInv(u, k, t) /\ u.pending = "none"
    BY <1>1, <1>2, <1>5, <2>1, ProceedKeeps
  <2> QED BY <1>3, <2>2
<1>6. ASSUME NEW text, x.step \in Wizard!PathSteps,
                 u = [[x EXCEPT !.query = text] EXCEPT !.pending = "check"]
      PROVE  WizardInv'
  <2>1. /\ DOMAIN u = PageFields /\ u.step = x.step /\ u.storage = x.storage
        /\ u.query = text /\ u.set = x.set /\ u.editing = x.editing
        /\ u.verified = x.verified /\ u.pending = "check" /\ u.view = x.view
        /\ u.quit = x.quit
    BY <1>2, <1>6 DEF PageInv, PageTypes, PageFields
  <2>2. PageTypes(u) /\ AskedInv(u)
    BY <1>2, <1>6, <2>1 DEF PageInv, PageTypes, AskedInv
  <2>3. CheckedInv(u, k, t) /\ SecretInv(u)
    BY <1>2, <1>6, <2>1 DEF PageInv, CheckedInv, SecretInv, Stage, Wizard!PathSteps
  <2> QED BY <1>1, <1>2, <2>1, <2>2, <2>3, MovesKeeps DEF PageInv
<1>7. ASSUME x.step = "url", u = [x EXCEPT !.pending = "test"]
      PROVE  WizardInv'
  <2>1. /\ DOMAIN u = PageFields /\ u.step = x.step /\ u.storage = x.storage
        /\ u.query = x.query /\ u.set = x.set /\ u.editing = x.editing
        /\ u.verified = x.verified /\ u.pending = "test" /\ u.view = x.view
        /\ u.quit = x.quit
    BY <1>2, <1>7 DEF PageInv, PageTypes, PageFields
  <2>2. PageTypes(u) /\ AskedInv(u)
    BY <1>2, <1>7, <2>1 DEF PageInv, PageTypes, AskedInv
  <2>3. CheckedInv(u, k, t) /\ SecretInv(u)
    BY <1>2, <1>7, <2>1 DEF PageInv, CheckedInv, SecretInv, Stage
  <2> QED BY <1>1, <1>2, <2>1, <2>2, <2>3, MovesKeeps DEF PageInv
<1>8. ASSUME NEW y, PageInv(y, k, t), y.storage = x.storage, y.pending = "none",
             y.step \in {"database", "pass", "rec", "url"},
             y.step \in {"pass", "rec"} => y.query # NoName, y.step = "url" => y.verified,
             u = Wizard!Committed(y)
      PROVE  WizardInv'
  <2>1. y.step \in Wizard!Inputs \ {"id", "confirm", "rec-confirm"}
            /\ y.step \notin Wizard!PathSteps
    BY <1>8 DEF Wizard!Inputs, Wizard!PathSteps, Wizard!Secrets
  <2>2. PageInv(u, k, t) /\ u.pending = "none"
    BY <1>1, <1>8, <2>1, CommittedKeeps
  <2> QED BY <1>3, <2>2
<1>9. CASE wizard.step = "id"
               /\ Wizard!Show(IF wizard.editing THEN Wizard!Edited(wizard) ELSE Wizard!Proceed(wizard))
  BY <1>1, <1>4, <1>5, <1>9 DEF Wizard!Show
<1>10. CASE wizard.step \in Wizard!PathSteps /\ Wizard!Asks([wizard EXCEPT !.query = Wizard!Text],
                "check")
  <2>1. PICK text : text = Wizard!Text
    OBVIOUS
  <2> QED BY <1>1, <1>6, <1>10, <2>1 DEF Wizard!Asks, Wizard!Show
<1>11. CASE wizard.step = "database"
                /\ Wizard!Show(Wizard!Committed([wizard EXCEPT !.query = Wizard!Text]))
  <2>1. PICK y, text : text = Wizard!Text /\ y = [x EXCEPT !.query = text]
    OBVIOUS
  <2>2. /\ DOMAIN y = PageFields /\ y.step = x.step /\ y.storage = x.storage
        /\ y.query = text /\ y.set = x.set /\ y.editing = x.editing
        /\ y.verified = x.verified /\ y.pending = x.pending /\ y.view = x.view
        /\ y.quit = x.quit
    BY <1>2, <2>1 DEF PageInv, PageTypes, PageFields
  <2>3. PageTypes(y) /\ AskedInv(y)
    BY <1>2, <2>2 DEF PageInv, PageTypes, AskedInv
  <2>4. CheckedInv(y, k, t) /\ SecretInv(y)
    BY <1>1, <1>2, <1>11, <2>2 DEF PageInv, CheckedInv, SecretInv, Stage
  <2>5. y.storage = x.storage /\ y.pending = "none" /\ y.step = "database"
            /\ u = Wizard!Committed(y)
    BY <1>1, <1>2, <1>11, <2>1, <2>2 DEF Wizard!Show
  <2> QED BY <1>8, <2>3, <2>4, <2>5 DEF PageInv
<1>12. CASE wizard.step \in {"pass", "rec"} /\ wizard.query # NoName
                /\ Wizard!Show(Wizard!Committed(wizard))
  BY <1>1, <1>2, <1>8, <1>12 DEF Wizard!Show
<1>13. CASE wizard.step = "url"
                /\ IF wizard.verified THEN Wizard!Show(Wizard!Committed(wizard)) ELSE Wizard!Asks(wizard, "test")
  <2>1. CASE wizard.verified
    BY <1>1, <1>2, <1>8, <1>13, <2>1 DEF Wizard!Show
  <2>2. CASE ~wizard.verified
    BY <1>1, <1>7, <1>13, <2>2 DEF Wizard!Asks, Wizard!Show
  <2> QED BY <2>1, <2>2
<1> QED BY <1>9, <1>10, <1>11, <1>12, <1>13 DEF Wizard!Commit

\* A confirmation that agrees goes on; one that does not takes the passphrase back.
LEMMA ConfirmKeeps ==
  ASSUME WizardInv, Wizard!Confirm
  PROVE  WizardInv'
<1>1. PICK u, k, t, x, of : /\ u = wizard' /\ k = known /\ t = twice' /\ x = wizard
                            /\ of = IF wizard.step = "confirm" THEN "pass" ELSE "rec"
  OBVIOUS
<1>2. /\ x.pending = "none" /\ x.step \in {"confirm", "rec-confirm"} /\ ~x.editing
      /\ DOMAIN k = {"paths", "server"} /\ DOMAIN t = {"pass", "rec"} /\ t[of] = x.query
      /\ \A f \in {"pass", "rec"} \ {of} : t[f] = twice[f]
      /\ known' = k
  BY <1>1 DEF Wizard!Confirm, Wizard!Keys, Wizard!Ready, WizardInv, PageInv, PageTypes
<1>3. PageTypes(x) /\ AskedInv(x) /\ SecretInv(x) /\ CheckedInv(x, k, t)
  <2>1. PageTypes(x) /\ AskedInv(x) /\ SecretInv(x)
    BY <1>1 DEF WizardInv, PageInv
  <2>2. CheckedInv(x, k, twice)
    BY <1>1 DEF WizardInv, PageInv, CheckedInv, Stage
  <2> QED BY <1>1, <1>2, <2>1, <2>2 DEF CheckedInv, Stage
<1>4. CASE x.query = x.set[of]
  <2>1. u = Wizard!Proceed(x)
    BY <1>1, <1>4 DEF Wizard!Confirm
  <2>2. /\ x.step = "confirm" => x.set.pass = t.pass
        /\ x.step = "rec-confirm" => x.set.rec = t.rec
    BY <1>1, <1>2, <1>4
  <2>3. x.step \in FileSteps \cup MongoSteps
    BY <1>2 DEF FileSteps
  <2>4. PageInv(u, k, t) /\ u.pending = "none"
    BY <1>1, <1>2, <1>3, <2>1, <2>2, <2>3, ProceedKeeps DEF SecretInv, Stage
  <2> QED BY <1>1, <1>2, <2>4, MovesKeeps
<1>5. CASE x.query # x.set[of]
  <2>1. PICK set : set = [x.set EXCEPT ![of] = NoName]
    OBVIOUS
  <2>2. /\ DOMAIN set = Wizard!Fields /\ set[of] = NoName
               /\ \A f \in Wizard!Fields \ {of} : set[f] = x.set[f]
    BY <1>1, <1>3, <2>1 DEF PageTypes, Wizard!Fields
  <2>3. u = [Wizard!At(x, of) EXCEPT !.set = set, !.query = NoName]
    <3>1. u = [Wizard!At(x, of) EXCEPT !.set = [@ EXCEPT ![of] = NoName], !.query = NoName]
      BY <1>1, <1>5 DEF Wizard!Confirm
    <3>2. Wizard!At(x, of).set = x.set
      BY <1>3 DEF Wizard!At, PageTypes, PageFields
    <3> QED BY <2>1, <3>1, <3>2
  <2>4. /\ DOMAIN u = PageFields /\ u.step = of /\ u.storage = x.storage /\ u.query = NoName
        /\ u.set = set /\ u.editing = x.editing /\ u.verified = x.verified
        /\ u.pending = x.pending /\ u.view = "none" /\ u.quit = x.quit
    BY <1>1, <1>3, <2>3 DEF Wizard!At, PageTypes, PageFields
  <2>5. PageTypes(u) /\ AskedInv(u)
    BY <1>1, <1>2, <1>3, <2>2, <2>4 DEF PageTypes, AskedInv, FileSteps, Wizard!PathSteps
  <2>6. CheckedInv(u, k, t) /\ SecretInv(u)
    BY <1>1, <1>2, <1>3, <2>2, <2>4 DEF CheckedInv, SecretInv, Stage, Wizard!Fields
  <2> QED BY <1>1, <1>2, <2>4, <2>5, <2>6, MovesKeeps DEF PageInv
<1> QED BY <1>4, <1>5

\* The step before: what the one that is left had asked for is forgotten.
LEMMA StepBackKeeps ==
  ASSUME WizardInv, Wizard!StepBack
  PROVE  WizardInv'
<1>1. PICK u : u = wizard'
  OBVIOUS
<1>2. /\ wizard.pending = "none" /\ wizard.view = "none" /\ wizard.step \in Wizard!Inputs
             /\ PageInv(wizard, known, twice)
      /\ UNCHANGED <<known, twice, sent, made>>
  BY DEF Wizard!StepBack, Wizard!Keys, Wizard!Ready, Wizard!Show, WizardInv
<1>3. CASE wizard.editing
  <2>1. u = [Wizard!At(wizard, "review") EXCEPT !.query = NoName, !.editing = FALSE]
    BY <1>1, <1>3 DEF Wizard!StepBack, Wizard!Show
  <2>2. /\ DOMAIN u = PageFields /\ u.step = "review" /\ u.storage = wizard.storage
        /\ u.query = NoName /\ u.set = wizard.set /\ u.editing = FALSE
        /\ u.verified = wizard.verified /\ u.pending = wizard.pending /\ u.view = "none"
        /\ u.quit = wizard.quit
    BY <1>2, <2>1 DEF Wizard!At, PageInv, PageTypes, PageFields
  <2>3. PageTypes(u)
    BY <1>2, <1>3, <2>2 DEF WizardInv, PageInv, PageTypes, Wizard!PathSteps
  <2>4. AskedInv(u) /\ u.pending # "create"
    BY <1>2, <1>3, <2>2 DEF WizardInv, PageInv, PageTypes, AskedInv, Wizard!PathSteps
  <2>5. CheckedInv(u, known, twice) /\ SecretInv(u)
    BY <1>2, <1>3, <2>2 DEF WizardInv, PageInv, PageTypes, CheckedInv, SecretInv, Stage,
                            Wizard!PathSteps
  <2> QED BY <1>1, <1>2, <2>3, <2>4, <2>5, ShowsKeeps DEF PageInv
<1>4. CASE ~wizard.editing
  <2>1. PICK before, set : /\ before = IF wizard.step = "id" THEN "storage"
                                       ELSE Wizard!Chain[wizard.storage][Wizard!Position(wizard.step) - 1]
                           /\ set = [f \in Wizard!Fields |-> IF f \in Wizard!Clears THEN NoName ELSE wizard.set[f]]
    OBVIOUS
  <2>2. PICK query : u = [Wizard!At(wizard, before) EXCEPT !.set = set, !.query = query]
    <3>1. Wizard!At(wizard, before).set = wizard.set
      BY <1>2 DEF Wizard!At, PageInv, PageTypes, PageFields
    <3> QED BY <1>1, <1>4, <2>1, <3>1 DEF Wizard!StepBack, Wizard!Show
  <2>3. /\ DOMAIN u = PageFields /\ u.step = before /\ u.storage = wizard.storage
        /\ u.set = set /\ u.editing = wizard.editing
        /\ u.verified = IF before = "url" THEN FALSE ELSE wizard.verified
        /\ u.pending = wizard.pending /\ u.view = "none" /\ u.quit = wizard.quit
    BY <1>2, <2>2 DEF Wizard!At, PageInv, PageTypes, PageFields
  <2>4. DOMAIN set = Wizard!Fields
            /\ \A f \in Wizard!Fields : set[f] = IF f \in Wizard!Clears THEN NoName ELSE wizard.set[f]
    BY <2>1
  <2>5. wizard.step = "id" => Wizard!Clears = Wizard!Fields
    BY DEF Wizard!Clears
  <2>6. CASE wizard.step = "id"
    <3>1. before = "storage" /\ set.pass = NoName /\ set.rec = NoName /\ set.url = NoName
      BY <2>1, <2>4, <2>5, <2>6 DEF Wizard!Fields
    <3>2. PageTypes(u)
      BY <1>2, <1>4, <2>3, <2>4, <2>6, <3>1 DEF WizardInv, PageInv, PageTypes, Wizard!PathSteps
    <3>3. AskedInv(u) /\ u.pending # "create"
      BY <1>2, <1>4, <2>3, <2>4, <2>6, <3>1 DEF WizardInv, PageInv, PageTypes, AskedInv,
                                                Wizard!PathSteps
    <3>4. CheckedInv(u, known, twice) /\ SecretInv(u)
      BY <1>2, <1>4, <2>3, <2>4, <2>6, <3>1 DEF WizardInv, PageInv, PageTypes, CheckedInv,
                                                SecretInv, Stage, Wizard!PathSteps
    <3> QED BY <1>1, <1>2, <3>2, <3>3, <3>4, ShowsKeeps DEF PageInv
  <2>7. CASE wizard.step # "id" /\ wizard.storage = "file"
    <3>1. \/ wizard.step = "data" /\ before = "id" /\ Wizard!Clears = {"data"}
          \/ wizard.step = "key" /\ before = "data" /\ Wizard!Clears = {"key"}
          \/ wizard.step = "pass" /\ before = "key" /\ Wizard!Clears = {"pass"}
          \/ wizard.step = "confirm" /\ before = "pass" /\ Wizard!Clears = {"pass"}
          \/ wizard.step = "rec" /\ before = "confirm" /\ Wizard!Clears = {"rec"}
          \/ wizard.step = "rec-confirm" /\ before = "rec" /\ Wizard!Clears = {"rec"}
          \/ wizard.step = "kit" /\ before = "rec-confirm" /\ Wizard!Clears = {"kit"}
      <4>1. wizard.step \in FileSteps \ {"id"}
        BY <1>2, <2>7 DEF PageInv, PageTypes, FileSteps, MongoSteps, Wizard!Inputs,
                          Wizard!PathSteps, Wizard!Secrets
      <4> QED BY <2>1, <2>7, <4>1, FilePositions DEF Wizard!Clears, FileSteps
    <3>2. PageTypes(u)
      BY <1>2, <1>4, <2>3, <2>4, <2>7, <3>1 DEF WizardInv, PageInv, PageTypes,
                                                Wizard!PathSteps, Wizard!Fields, FileSteps
    <3>3. AskedInv(u) /\ u.pending # "create"
      BY <1>2, <1>4, <2>3, <2>4, <2>7, <3>1 DEF WizardInv, PageInv, PageTypes, AskedInv,
                                                Wizard!PathSteps, Wizard!Fields, FileSteps
    <3>4. CheckedInv(u, known, twice) /\ SecretInv(u)
      BY <1>2, <1>4, <2>3, <2>4, <2>7, <3>1 DEF WizardInv, PageInv, PageTypes, CheckedInv,
                                                SecretInv, Stage, Wizard!PathSteps,
                                                Wizard!Fields, FileSteps
    <3> QED BY <1>1, <1>2, <3>2, <3>3, <3>4, ShowsKeeps DEF PageInv
  <2>8. CASE wizard.step # "id" /\ wizard.storage = "mongodb"
    <3>1. \/ wizard.step = "database" /\ before = "id" /\ Wizard!Clears = {"database"}
          \/ wizard.step = "key" /\ before = "database" /\ Wizard!Clears = {"key"}
          \/ wizard.step = "url" /\ before = "key" /\ Wizard!Clears = {"url"}
          \/ wizard.step = "pass" /\ before = "url" /\ Wizard!Clears = {"pass", "url"}
          \/ wizard.step = "confirm" /\ before = "pass" /\ Wizard!Clears = {"pass"}
          \/ wizard.step = "rec" /\ before = "confirm" /\ Wizard!Clears = {"rec"}
          \/ wizard.step = "rec-confirm" /\ before = "rec" /\ Wizard!Clears = {"rec"}
          \/ wizard.step = "kit" /\ before = "rec-confirm" /\ Wizard!Clears = {"kit"}
      <4>1. wizard.step \in MongoSteps \ {"id"}
        BY <1>2, <2>8 DEF PageInv, PageTypes, FileSteps, MongoSteps, Wizard!Inputs,
                          Wizard!PathSteps, Wizard!Secrets
      <4> QED BY <2>1, <2>8, <4>1, MongoPositions DEF Wizard!Clears, MongoSteps
    <3>2. PageTypes(u)
      BY <1>2, <1>4, <2>3, <2>4, <2>8, <3>1 DEF WizardInv, PageInv, PageTypes,
                                                Wizard!PathSteps, Wizard!Fields, MongoSteps
    <3>3. AskedInv(u) /\ u.pending # "create"
      BY <1>2, <1>4, <2>3, <2>4, <2>8, <3>1 DEF WizardInv, PageInv, PageTypes, AskedInv,
                                                Wizard!PathSteps, Wizard!Fields, MongoSteps
    <3>4. CheckedInv(u, known, twice) /\ SecretInv(u)
      BY <1>2, <1>4, <2>3, <2>4, <2>8, <3>1 DEF WizardInv, PageInv, PageTypes, CheckedInv,
                                                SecretInv, Stage, Wizard!PathSteps,
                                                Wizard!Fields, MongoSteps
    <3> QED BY <1>1, <1>2, <3>2, <3>3, <3>4, ShowsKeeps DEF PageInv
  <2> QED BY <1>2, <2>6, <2>7, <2>8 DEF PageInv, PageTypes, Wizard!Inputs, Wizard!PathSteps,
                                        Wizard!Secrets
<1> QED BY <1>2, <1>3, <1>4 DEF PageInv, PageTypes

-----------------------------------------------------------------------------
(* Answers of the backend.                                                 *)
LEMMA AnswerCheckKeeps ==
  ASSUME WizardInv, NEW ok \in BOOLEAN, Wizard!AnswerCheck(ok)
  PROVE  WizardInv'
<1>1. PICK u, k, t, x : u = wizard' /\ k = known' /\ t = twice
               /\ x = [wizard EXCEPT !.pending = "none"]
  OBVIOUS
<1>2. /\ DOMAIN x = PageFields /\ x.step = wizard.step /\ x.storage = wizard.storage
      /\ x.query = wizard.query /\ x.set = wizard.set /\ x.editing = wizard.editing
      /\ x.verified = wizard.verified /\ x.pending = "none" /\ x.view = wizard.view
      /\ x.quit = wizard.quit
      /\ wizard.step \in Wizard!PathSteps
  BY <1>1 DEF Wizard!AnswerCheck, WizardInv, PageInv, PageTypes, AskedInv, PageFields
<1>3. /\ DOMAIN k = {"paths", "server"} /\ DOMAIN t = {"pass", "rec"} /\ twice' = t
      /\ k.server = known.server /\ known.paths \subseteq k.paths
      /\ ok => wizard.query \in k.paths
  BY <1>1 DEF Wizard!AnswerCheck, WizardInv
<1>4. PageTypes(x)
  BY <1>2 DEF WizardInv, PageInv, PageTypes
<1>5. AskedInv(x)
  BY <1>2 DEF WizardInv, PageInv, AskedInv, Wizard!PathSteps
<1>6. CheckedInv(x, k, t) /\ SecretInv(x)
  <2>1. CheckedInv(wizard, known, t) /\ SecretInv(wizard)
    BY <1>1 DEF WizardInv, PageInv
  <2>2. CheckedInv(x, k, t)
    BY <1>2, <1>3, <2>1 DEF CheckedInv, Stage
  <2> QED BY <1>2, <2>1, <2>2 DEF SecretInv, Stage
<1>7. CASE ok
  <2>1. u = Wizard!Committed(x)
    BY <1>1, <1>7 DEF Wizard!AnswerCheck
  <2>2. x.step \in Wizard!Inputs \ {"id", "confirm", "rec-confirm"}
            /\ x.step \notin {"pass", "rec", "url"}
    BY <1>2 DEF Wizard!Inputs, Wizard!PathSteps
  <2>3. x.query \in k.paths /\ x.storage = wizard.storage /\ x.pending = "none"
    BY <1>2, <1>3, <1>7
  <2>4. PageInv(u, k, t) /\ u.pending = "none"
    BY <1>4, <1>5, <1>6, <2>1, <2>2, <2>3, CommittedKeeps DEF PageInv
  <2> QED BY <1>1, <1>3, <2>4, MovesKeeps
<1>8. CASE ~ok
  BY <1>1, <1>2, <1>3, <1>4, <1>5, <1>6, <1>8, MovesKeeps DEF Wizard!AnswerCheck, PageInv
<1> QED BY <1>7, <1>8

LEMMA AnswerToolKeeps ==
  ASSUME WizardInv, NEW ok \in BOOLEAN, Wizard!AnswerTool(ok)
  PROVE  WizardInv'
<1>1. PICK u, k, t : u = wizard' /\ k = known' /\ t = twice
  OBVIOUS
<1>2. twice' = t /\ DOMAIN t = {"pass", "rec"} /\ PageInv(wizard, known, t)
          /\ DOMAIN known = {"paths", "server"}
  BY <1>1 DEF Wizard!AnswerTool, WizardInv
<1>3. CASE wizard.pending = "test"
  <2>1. /\ DOMAIN u = PageFields /\ u.step = wizard.step /\ u.storage = wizard.storage
        /\ u.query = wizard.query /\ u.set = wizard.set /\ u.editing = wizard.editing
        /\ u.verified = ok /\ u.pending = "none" /\ u.view = wizard.view /\ u.quit = wizard.quit
    BY <1>1, <1>2, <1>3 DEF Wizard!AnswerTool, PageInv, PageTypes, PageFields
  <2>2. /\ DOMAIN k = {"paths", "server"} /\ k.paths = known.paths
        /\ ok => k.server = <<IF wizard.step = "url" THEN wizard.query ELSE wizard.set.url,
               wizard.set.database>>
    BY <1>1, <1>2, <1>3 DEF Wizard!AnswerTool
  <2>3. wizard.step \in {"url", "review"} /\ ~wizard.editing
    BY <1>2, <1>3 DEF PageInv, PageTypes, AskedInv
  <2>4. PageTypes(u) /\ AskedInv(u)
    BY <1>2, <1>3, <2>1, <2>3 DEF PageInv, PageTypes, AskedInv, Wizard!PathSteps
  <2>5. CheckedInv(u, k, t) /\ SecretInv(u)
    BY <1>2, <2>1, <2>2, <2>3 DEF PageInv, CheckedInv, SecretInv, Stage
  <2> QED BY <1>1, <1>2, <2>1, <2>2, <2>4, <2>5, MovesKeeps DEF PageInv
<1>4. CASE wizard.pending # "test"
  <2>1. PICK show \in {wizard.pending,
                 "none"} : u = [[wizard EXCEPT !.pending = "none"] EXCEPT !.view = show]
    BY <1>1, <1>4 DEF Wizard!AnswerTool
  <2>2. /\ DOMAIN u = PageFields /\ u.step = wizard.step /\ u.storage = wizard.storage
        /\ u.query = wizard.query /\ u.set = wizard.set /\ u.editing = wizard.editing
        /\ u.verified = wizard.verified /\ u.pending = "none" /\ u.view = show
        /\ u.quit = wizard.quit
        /\ k = known /\ wizard.step \in Wizard!PathSteps
    BY <1>1, <1>2, <1>4, <2>1 DEF Wizard!AnswerTool, PageInv, PageTypes, AskedInv, PageFields
  <2>3. PageTypes(u) /\ AskedInv(u)
    BY <1>2, <2>2 DEF PageInv, PageTypes, AskedInv, Wizard!PathSteps
  <2>4. CheckedInv(u, k, t) /\ SecretInv(u)
    BY <1>2, <2>2 DEF PageInv, CheckedInv, SecretInv, Stage
  <2> QED BY <1>1, <1>2, <2>2, <2>3, <2>4, MovesKeeps DEF PageInv
<1> QED BY <1>3, <1>4

LEMMA AnswerCreateKeeps ==
  ASSUME WizardInv, NEW ok \in BOOLEAN, Wizard!AnswerCreate(ok)
  PROVE  WizardInv'
<1>1. PICK u, v, k, t, step :
        /\ u = wizard' /\ v = Wizard!Wiped(wizard) /\ k = known
               /\ t = [pass |-> NoName, rec |-> NoName]
        /\ step = IF ok THEN "enable-session" ELSE "error"
  OBVIOUS
<1>2. /\ twice' = t /\ known' = k /\ DOMAIN k = {"paths", "server"} /\ DOMAIN t = {"pass", "rec"}
      /\ wizard.step = "creating" /\ u = [Wizard!At(v, step) EXCEPT !.pending = "none"]
  BY <1>1 DEF Wizard!AnswerCreate, WizardInv, PageInv, AskedInv
<1>3. /\ DOMAIN v = PageFields /\ v.step = wizard.step /\ v.storage = wizard.storage
      /\ v.editing = wizard.editing /\ v.verified = wizard.verified /\ v.pending = wizard.pending
      /\ v.view = wizard.view /\ v.quit = wizard.quit
      /\ DOMAIN v.set = Wizard!Fields /\ v.set.pass = NoName /\ v.set.rec = NoName
             /\ v.set.url = NoName
  BY <1>1, WipedIs DEF WizardInv, PageInv
<1>4. /\ DOMAIN u = PageFields /\ u.step = step /\ u.storage = v.storage
      /\ u.query = v.query /\ u.set = v.set /\ u.editing = v.editing /\ u.pending = "none"
      /\ u.view = "none" /\ u.quit = v.quit
      /\ u.verified = wizard.verified /\ step \in {"enable-session", "error"}
  BY <1>1, <1>2, <1>3 DEF Wizard!At, PageFields
<1>5. PageTypes(u) /\ AskedInv(u)
  BY <1>2, <1>3, <1>4 DEF WizardInv, PageInv, PageTypes, AskedInv, Wizard!PathSteps, Endings
<1>6. CheckedInv(u, k, t) /\ SecretInv(u)
  BY <1>2, <1>3, <1>4 DEF WizardInv, PageInv, PageTypes, CheckedInv, SecretInv, Stage
<1> QED BY <1>1, <1>2, <1>4, <1>5, <1>6, MovesKeeps DEF PageInv

LEMMA AnswerEnableKeeps ==
  ASSUME WizardInv, Wizard!AnswerEnable
  PROVE  WizardInv'
<1>1. PICK u, v : u = wizard' /\ v = Wizard!Wiped(wizard)
  OBVIOUS
<1>2. /\ UNCHANGED <<known, twice, sent, made>> /\ wizard.step = "enable-session"
      /\ u = [Wizard!At(v, "success") EXCEPT !.pending = "none", !.completed = TRUE,
             !.profile = TRUE]
  BY <1>1 DEF Wizard!AnswerEnable, WizardInv, PageInv, AskedInv
<1>3. /\ DOMAIN v = PageFields /\ v.step = wizard.step /\ v.storage = wizard.storage
      /\ v.editing = wizard.editing /\ v.verified = wizard.verified /\ v.pending = wizard.pending
      /\ v.view = wizard.view /\ v.quit = wizard.quit
      /\ DOMAIN v.set = Wizard!Fields /\ v.set.pass = NoName /\ v.set.rec = NoName
             /\ v.set.url = NoName
  BY <1>1, WipedIs DEF WizardInv, PageInv
<1>4. /\ DOMAIN u = PageFields /\ u.step = "success" /\ u.storage = v.storage
      /\ u.query = v.query /\ u.set = v.set /\ u.editing = v.editing
      /\ u.verified = v.verified /\ u.pending = "none" /\ u.view = "none"
      /\ u.quit = v.quit
  BY <1>2, <1>3 DEF Wizard!At, PageFields
<1>5. PageTypes(u) /\ AskedInv(u)
  BY <1>2, <1>3, <1>4 DEF WizardInv, PageInv, PageTypes, AskedInv, Wizard!PathSteps, Endings
<1>6. CheckedInv(u, known, twice) /\ SecretInv(u)
  BY <1>2, <1>3, <1>4 DEF WizardInv, PageInv, PageTypes, CheckedInv, SecretInv, Stage
<1> QED BY <1>1, <1>2, <1>4, <1>5, <1>6, ShowsKeeps DEF PageInv

-----------------------------------------------------------------------------
LEMMA WizardInit == Wizard!Init => WizardInv
<1> SUFFICES ASSUME Wizard!Init PROVE WizardInv
  OBVIOUS
<1>1. /\ DOMAIN wizard = PageFields /\ wizard.step = "welcome" /\ wizard.storage = "none"
             /\ wizard.set = Wizard!Blank
      /\ wizard.editing = FALSE /\ wizard.verified = FALSE /\ wizard.pending = "none"
             /\ wizard.view = "none"
      /\ wizard.quit = FALSE
  BY DEF Wizard!Init, Wizard!Initial, PageFields
<1>2. DOMAIN Wizard!Blank = Wizard!Fields /\ Wizard!Blank.pass = NoName
          /\ Wizard!Blank.rec = NoName /\ Wizard!Blank.url = NoName
  BY DEF Wizard!Blank, Wizard!Fields
<1>3. PageInv(wizard, known, twice)
  BY <1>1, <1>2 DEF PageInv, PageTypes, AskedInv, CheckedInv, SecretInv, Stage
<1> QED BY <1>1, <1>3 DEF Wizard!Init, WizardInv, Wizard!CreatesWhatWasChecked

LEMMA WizardNext == WizardInv /\ [Wizard!Next]_(Wizard!vars) => WizardInv'
<1> SUFFICES ASSUME WizardInv, [Wizard!Next]_(Wizard!vars) PROVE WizardInv'
  OBVIOUS
<1>1. CASE UNCHANGED Wizard!vars
  <2>1. PageInv(wizard, known, twice)'
    BY <1>1 DEF Wizard!vars, WizardInv, PageInv, PageTypes, AskedInv, CheckedInv, SecretInv,
                Stage
  <2> QED BY <1>1, <2>1 DEF Wizard!vars, WizardInv, Wizard!CreatesWhatWasChecked
<1>2. CASE Wizard!Choose
  <2>1. wizard.step \in {"welcome", "storage"}
    BY <1>2 DEF Wizard!Choose, Wizard!Keys
  <2> QED BY <1>2, <2>1, ChooseWelcomeKeeps, ChooseStorageKeeps
<1>3. CASE Wizard!Next
  BY <1>2, <1>3, TypingKeeps, EraseKeeps, CommittingKeeps, ConfirmKeeps, ToolKeeps, StepBackKeeps,
     ReviewKeeps, CreateKeeps, EnablingKeeps, RetryKeeps, CancelKeeps, AnswerEnableKeeps,
     AnswerCheckKeeps, AnswerToolKeeps, AnswerCreateKeeps DEF Wizard!Next
<1> QED BY <1>1, <1>3

\* A profile is created from what was checked, and a secret is kept only while it
\* is needed.
THEOREM OnboardingIsFaithful == Wizard!Spec => []Wizard!OnboardingKeepsFaith
<1>1. Wizard!Spec => []WizardInv
  BY WizardInit, WizardNext, PTL DEF Wizard!Spec
<1>2. WizardInv => Wizard!OnboardingKeepsFaith
  BY SecretsWait DEF WizardInv, Wizard!OnboardingKeepsFaith
<1> QED BY <1>1, <1>2, PTL

-----------------------------------------------------------------------------
\* TuiState, AppRouter, Onboarding: edits, confirmations and settings are those
\* the operator decided.
OperatorDecides == /\ Tui!OperatorDecides
                   /\ Router!RouterGuardsSecrets
                   /\ Wizard!OnboardingKeepsFaith

\* However late an answer comes and whenever the backend locks itself, what the operator
\* typed, chose and confirmed is what is stored, shown, removed and set up.
THEOREM NothingBehindTheOperator ==
  ASSUME Tui!ConstantsFit, Router!ConstantsFit
  PROVE  Tui!Spec /\ Router!Spec /\ Wizard!Spec => []OperatorDecides
<1>1. Tui!OperatorDecides /\ Router!RouterGuardsSecrets /\ Wizard!OnboardingKeepsFaith
        => OperatorDecides
  BY DEF OperatorDecides
<1> QED BY <1>1, TuiIsSafe, SecretsAreGuarded, OnboardingIsFaithful, PTL
=============================================================================
