-------------------------------- MODULE TuiState --------------------------------
(***************************************************************************)
(* The reducer of the vault browser (packages/tui/src/state.ts) with the   *)
(* shell that runs its effects (components.tsx): one request is active at  *)
(* a time, a newer one aborts it, and a save that was aborted may still    *)
(* reach the store, which other devices write as well.  An item has one    *)
(* single and one repeatable field; of its content only the order of the   *)
(* elements and the edits it has taken up are told.                        *)
(***************************************************************************)
EXTENDS Integers, Sequences

CONSTANTS Groups,   \* the groups, in their order
          ItemsOf,  \* group -> its items, in their order
          Layouts, First, \* elements of a repeatable field in their order, at first
          Confirm,  \* fields that are revealed and copied after a confirmation
          MaxRequests, MaxEdits

ConstantsFit == Groups \in Seq(DOMAIN ItemsOf)

Fields == <<"single", "repeatable">>
Items  == UNION {{ItemsOf[g][n] : n \in DOMAIN ItemsOf[g]} : g \in DOMAIN ItemsOf}

VARIABLES ui,     \* TuiState
          calls,  \* use cases that run, [id, kind, arg, live, result]
          store,  \* item -> the item as it is stored
          edits,  \* edits committed so far
          kept,   \* edits that were neither discarded nor overruled
          saved,  \* edits that reached the store
          asked   \* what may be revealed since it was last hidden

vars    == <<ui, calls, store, edits, kept, saved, asked>>
history == <<store, edits, kept, saved>>

Nothing  == [kind |-> "nothing"]
NoTarget == [index |-> 0, element |-> "none"]
Waiting  == [is |-> "waiting"]

Clamp(i, n) == IF i < 1 \/ n < 1 THEN 1 ELSE IF i > n THEN n ELSE i

\* createInitialTuiState, clearForLock
Cleared(screen, next) ==
  [screen |-> screen, groups |-> <<>>, items |-> <<>>, group |-> 1, item |-> 1, field |-> 1,
   element |-> 1, overlay |-> "none", grants |-> {}, draft |-> Nothing, dirty |-> FALSE,
   editor |-> "none", conflict |-> Nothing, confirming |-> Nothing, pending |-> Nothing,
   next |-> next]

Init == /\ ui = Cleared("loading", 1) /\ calls = {}
        /\ store = [i \in Items |-> [kind |-> "item", id |-> i, rev |-> 0, elements |-> First,
                                     edits |-> {}]]
        /\ edits = 0 /\ kept = {} /\ saved = {} /\ asked = {}

-----------------------------------------------------------------------------
(* runEffect, request.                                                     *)
Aborted == {[c EXCEPT !.live = FALSE] : c \in {d \in calls : d.kind = "save"}}

Becomes(u) == ui' = u /\ UNCHANGED calls

Requests(u, kind, arg) ==
  /\ u.next <= MaxRequests
  /\ ui' = [u EXCEPT !.pending = [kind |-> kind, id |-> u.next, arg |-> arg], !.next = @ + 1]
  /\ calls' = Aborted \cup {[id |-> u.next, kind |-> kind, arg |-> arg, live |-> TRUE,
                             result |-> Waiting]}

\* A reveal that is pending is aborted with the selection it was for.
AbortsReveal(u) ==
  IF ui.pending.kind = "reveal" THEN ui' = [u EXCEPT !.pending = Nothing] /\ calls' = Aborted
                                ELSE Becomes(u)

Start == /\ ui.screen = "loading" /\ ui.pending = Nothing
         /\ Requests(ui, "groups", Nothing) /\ UNCHANGED <<history, asked>>

Browsing(overlay) == ui.screen = "browser" /\ ui.overlay = overlay
NoOverlay == [ui EXCEPT !.overlay = "none", !.confirming = Nothing]
\* Mutant: a request is pending, and may replace the draft when it is answered.
EditingAnytime == ui.draft # Nothing
Editing   == ui.draft # Nothing /\ ui.pending = Nothing

\* selectedActionTarget
Target(field) ==
  LET n == Clamp(ui.element, Len(ui.draft.elements))
  IN IF field = "single" \/ ui.draft.elements = <<>> THEN NoTarget
     ELSE [index |-> n, element |-> ui.draft.elements[n]]

-----------------------------------------------------------------------------
(* Keys: the selection.                                                    *)
Unselected(u) == [u EXCEPT !.field = 1, !.element = 1, !.dirty = FALSE, !.editor = "none",
                           !.conflict = Nothing, !.confirming = Nothing, !.grants = {}]

MoveGroup(by) ==
  LET g == Clamp(ui.group + by, Len(ui.groups))
  IN /\ Browsing("none") /\ ~ ui.dirty /\ g # ui.group /\ asked' = {}
     /\ Requests([Unselected(ui) EXCEPT !.group = g, !.items = <<>>, !.item = 1,
                                        !.draft = Nothing],
                 "items", [group |-> ui.groups[g]])
     /\ UNCHANGED history

\* selectItem; dirty drafts stay selected
SelectItem(i) == /\ i # ui.item /\ ~ ui.dirty /\ asked' = {}
                 /\ AbortsReveal([Unselected(NoOverlay) EXCEPT !.item = i, !.draft = ui.items[i]])

\* The search picks the first item that matches.
MoveItem(i) == /\ Browsing("none") \/ Browsing("search")
               /\ SelectItem(i) /\ UNCHANGED history

MoveField(by) == /\ Browsing("none")
                 /\ Becomes([ui EXCEPT !.field = Clamp(@ + by, Len(Fields)), !.element = 1])
                 /\ UNCHANGED <<history, asked>>

MoveElement(by) ==
  LET n == Clamp(Target(Fields[ui.field]).index + by, Len(ui.draft.elements))
      moved == [ui EXCEPT !.element = n]
  IN /\ Browsing("none") /\ ui.draft # Nothing /\ Target(Fields[ui.field]) # NoTarget
     /\ IF n # ui.element THEN AbortsReveal(moved) ELSE Becomes(moved)
     /\ UNCHANGED <<history, asked>>

-----------------------------------------------------------------------------
(* Keys: overlays, the editor and saving.                                  *)
OpenOverlay(overlay) == /\ Browsing("none") /\ overlay \in {"panel", "search"}
                        /\ Becomes([ui EXCEPT !.overlay = overlay])
                        /\ UNCHANGED <<history, asked>>

\* Escape, or `n`; the conflict asks for a decision
Dismiss == /\ ui.screen = "browser" /\ ui.overlay \notin {"none", "conflict"}
           /\ Becomes([NoOverlay EXCEPT !.editor = "none"]) /\ UNCHANGED <<history, asked>>

OpenEditor == /\ Browsing("none") /\ Editing /\ asked' = {}
              /\ Becomes([ui EXCEPT !.overlay = "editor", !.editor = Fields[ui.field],
                                    !.grants = {}])
              /\ UNCHANGED history

\* repeatableEditorKey: elements are added, removed and reordered, one is selected.
Typed(layout, n) == IF ui.editor = "single" THEN layout = ui.draft.elements /\ n = ui.element
                                            ELSE n = Clamp(n, Len(layout))

\* updateDraftValue
Edited(draft, layout) == [draft EXCEPT !.elements = layout, !.edits = @ \cup {edits'}]

CommitEditor(layout, n) ==
  /\ Browsing("editor") /\ edits < MaxEdits /\ edits' = edits + 1
  /\ kept' = kept \cup {edits'} /\ Typed(layout, n)
  /\ Becomes([NoOverlay EXCEPT !.draft = Edited(ui.draft, layout), !.dirty = TRUE,
                               !.editor = "none", !.element = n])
  /\ UNCHANGED <<store, saved, asked>>

SaveDraft == /\ Browsing("none") /\ ui.dirty
             /\ Requests(ui, "save", [item |-> ui.items[ui.item].id, draft |-> ui.draft,
                                      expected |-> ui.items[ui.item].rev])
             /\ UNCHANGED <<history, asked>>

\* conflictKey: the remote revision, which the operator has seen, or the local one
AcceptRemote ==
  /\ Browsing("conflict") /\ asked' = {}
  /\ kept' = kept \cap saved
  /\ Becomes([NoOverlay EXCEPT !.items[ui.item] = ui.conflict.remote, !.dirty = FALSE,
                               !.draft = ui.conflict.remote, !.conflict = Nothing,
                               !.grants = {}])
  /\ UNCHANGED <<store, edits, saved>>

KeepLocal ==
  /\ Browsing("conflict")
  /\ kept' = kept \ (ui.conflict.remote.edits \ ui.conflict.local.edits)
  /\ Requests(NoOverlay, "save", [item |-> ui.conflict.remote.id, draft |-> ui.conflict.local,
                                  expected |-> ui.conflict.remote.rev])
  /\ UNCHANGED <<store, edits, saved, asked>>

-----------------------------------------------------------------------------
(* Keys: revealing, copying and locking.                                   *)
Chosen(kind) == [kind |-> kind, item |-> ui.draft.id, field |-> Fields[ui.field],
                 target |-> Target(Fields[ui.field])]
Grant(c) == [item |-> c.item, field |-> c.field, element |-> c.target.element]

Asks(u, c) == /\ Requests(u, c.kind, c)
              /\ asked' = IF c.kind = "reveal" THEN asked \cup {Grant(c)} ELSE asked

\* revealSelectedField, copySelectedField
Choose(kind) ==
  /\ Browsing("none") /\ ui.draft # Nothing /\ ~ ui.dirty /\ kind \in {"reveal", "copy"}
  /\ IF Fields[ui.field] \in Confirm
     THEN /\ Becomes([ui EXCEPT !.overlay = "confirm", !.confirming = Chosen(kind)])
          /\ UNCHANGED asked
     ELSE Asks(ui, Chosen(kind))
  /\ UNCHANGED history

\* confirmedReveal, confirmedCopy: the selection has to be the one that was asked for
Confirmed ==
  LET c == ui.confirming
  IN /\ Browsing("confirm")
     /\ IF c.target \in {NoTarget, Target(c.field)} THEN Asks(NoOverlay, c)
        ELSE Becomes(NoOverlay) /\ UNCHANGED asked
     /\ UNCHANGED history

\* expireReveals
Expire(g) == /\ Becomes([ui EXCEPT !.grants = @ \ {g}]) /\ UNCHANGED <<history, asked>>

Discards == asked' = {} /\ kept' = kept \cap saved /\ UNCHANGED <<store, edits, saved>>

\* Ctrl-C at once, anywhere; `l` where nothing is dirty, or after a confirmation
Lock == /\ Requests(Cleared("loading", ui.next), "lock", Nothing) /\ Discards
AskLock == /\ Browsing("none") /\ ui.dirty /\ Becomes([ui EXCEPT !.overlay = "confirm-lock"])
           /\ UNCHANGED <<history, asked>>

-----------------------------------------------------------------------------
(* The use cases.  A save is accepted where the revision is the expected.  *)
Answers(c, result) ==
  calls' = (calls \ {c}) \cup (IF c.live THEN {[c EXCEPT !.result = result]} ELSE {})

Serve(c) ==
  /\ c.result = Waiting /\ UNCHANGED <<ui, edits, kept, asked>>
  /\ \/ /\ c.kind = "save" /\ store[c.arg.item].rev = c.arg.expected
        /\ store' = [store EXCEPT ![c.arg.item] =
                       [c.arg.draft EXCEPT !.rev = c.arg.expected + 1]]
        /\ saved' = saved \cup c.arg.draft.edits
        /\ Answers(c, [is |-> "saved", item |-> store'[c.arg.item]])
     \/ /\ c.kind = "save" /\ store[c.arg.item].rev # c.arg.expected
        /\ Answers(c, [is |-> "conflict", remote |-> store[c.arg.item]])
        /\ UNCHANGED <<store, saved>>
     \/ /\ c.kind = "items" /\ UNCHANGED <<store, saved>>
        /\ Answers(c, [is |-> "items", items |-> [n \in DOMAIN ItemsOf[c.arg.group] |->
                                                    store[ItemsOf[c.arg.group][n]]]])
     \/ /\ c.kind \notin {"save", "items"} /\ Answers(c, [is |-> "done"])
        /\ UNCHANGED <<store, saved>>
     \/ Answers(c, [is |-> "failed"]) /\ UNCHANGED <<store, saved>>

\* Another device commits an edit of its own.
Remote(i, layout) ==
  /\ edits < MaxEdits /\ edits' = edits + 1
  /\ kept' = kept \cup {edits'} /\ saved' = saved \cup {edits'}
  /\ store' = [store EXCEPT ![i] = [store[i] EXCEPT !.rev = @ + 1, !.elements = layout,
                                                    !.edits = @ \cup {edits'}]]
  /\ UNCHANGED <<ui, calls, asked>>

-----------------------------------------------------------------------------
(* Results, of the active request only.                                    *)
Settled == [ui EXCEPT !.pending = Nothing]

\* revealTargetStillSelected
StillSelected(c) == \/ c.target = NoTarget
                    \/ ui.element = c.target.index /\ Target(c.field) = c.target

RevealAuthorized(c) ==
  IF /\ ui.draft # Nothing /\ ui.draft.id = c.item /\ ui.items[ui.item].id = c.item
     /\ ~ ui.dirty /\ StillSelected(c)
  THEN [Settled EXCEPT !.grants = @ \cup {Grant(c)}] ELSE ui

SaveFinished(c, r) ==
  IF r.is = "conflict"
  THEN [Settled EXCEPT !.overlay = "conflict",
                       !.conflict = [kind |-> "conflict", local |-> c.arg.draft,
                                     remote |-> r.remote]]
  ELSE [Settled EXCEPT !.items[ui.item] = r.item, !.draft = r.item, !.dirty = FALSE,
                       !.conflict = Nothing, !.overlay = "none"]

FirstOf(items) == IF 1 \in DOMAIN items THEN items[1] ELSE Nothing

Deliver(c) ==
  LET r == c.result
      first == [Settled EXCEPT !.screen = "browser", !.groups = Groups, !.group = 1]
      done == calls' = calls \ {c}
  IN /\ c.live /\ r # Waiting /\ ui.pending # Nothing /\ ui.pending.id = c.id
     /\ \/ /\ r.is = "failed" /\ done
           /\ ui' = [Settled EXCEPT !.screen = IF ui.groups = <<>> THEN "error" ELSE "browser"]
        \/ /\ r.is # "failed" /\ c.kind = "groups"
           /\ IF Groups = <<>> THEN ui' = first /\ done
              ELSE Requests(first, "items", [group |-> Groups[1]])
        \/ /\ r.is = "items" /\ done
           /\ ui' = [Settled EXCEPT !.items = r.items, !.item = 1, !.field = 1, !.element = 1,
                                    !.dirty = FALSE, !.draft = FirstOf(r.items)]
        \/ r.is # "failed" /\ c.kind = "save" /\ done /\ ui' = SaveFinished(c, r)
        \/ r.is = "done" /\ c.kind = "copy" /\ done /\ ui' = Settled
        \/ r.is = "done" /\ c.kind = "reveal" /\ done /\ ui' = RevealAuthorized(c.arg)
        \/ r.is = "done" /\ c.kind = "lock" /\ done /\ ui' = Cleared("locked", ui.next)
     /\ UNCHANGED <<history, asked>>

Next ==
  \/ Start
  \/ \E by \in {-1, 1} : MoveGroup(by) \/ MoveField(by) \/ MoveElement(by)
  \/ \E i \in DOMAIN ui.items : MoveItem(i)
  \/ \E o \in {"panel", "search"} : OpenOverlay(o)
  \/ Dismiss \/ OpenEditor \/ SaveDraft \/ AcceptRemote \/ KeepLocal
  \/ \E l \in Layouts : \/ \E n \in 1 .. 2 : CommitEditor(l, n)
                        \/ \E i \in DOMAIN store : Remote(i, l)
  \/ \E kind \in {"reveal", "copy"} : Choose(kind)
  \/ Confirmed \/ Lock \/ AskLock
  \/ \E g \in ui.grants : Expire(g)
  \/ \E c \in calls : Serve(c) \/ Deliver(c)

Spec == Init /\ [][Next]_vars

-----------------------------------------------------------------------------
\* An edit that was committed, here or on another device, is in the store or in the
\* draft that waits to be saved, until the operator who sees both discards or
\* overrules it, or locks: no late answer, aborted save or reload drops it.
EditsAreKept ==
  kept \subseteq (UNION {store[i].edits : i \in DOMAIN store})
                 \cup (IF ui.dirty THEN ui.draft.edits ELSE {})

\* What is shown was asked for, and confirmed where its field demands it, since it
\* was last hidden; it belongs to the item on the screen, which has no unsaved edit.
RevealsAreAsked ==
  /\ ui.grants \subseteq asked
  /\ \A g \in ui.grants : ~ ui.dirty /\ ui.draft # Nothing /\ g.item = ui.draft.id

\* Nothing is lost and nothing is shown but by a decision of the operator.
OperatorDecides == EditsAreKept /\ RevealsAreAsked
=============================================================================
