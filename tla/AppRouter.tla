------------------------------- MODULE AppRouter -------------------------------
(***************************************************************************)
(* The router of the terminal application (packages/tui/src/app/router.ts) *)
(* in its shell (app.tsx): screens, confirmations, forms that are filled   *)
(* in step by step, and one backend call at a time.  The backend locks     *)
(* itself when its session expires and says so at once, at any moment.  Of *)
(* a form only its steps and whether something was typed are told; lists,  *)
(* filters, cursors, themes and messages are left out.  The palette runs a *)
(* command as the key of that command would.                               *)
(***************************************************************************)
EXTENDS Naturals, Sequences

CONSTANTS Targets, \* names of credentials, profiles, slots, policies and grants
          None, MaxCalls

\* What the proofs assume of the constants.
ConstantsFit == None \notin Targets

VARIABLES ui,       \* AppRouterState
          call,     \* the backend action under way, which makes the shell busy
          unlocked, \* whether the backend holds a passphrase
          shown,    \* the target the open confirmation names
          calls

vars == <<ui, call, unlocked, shown, calls>>

Screens == {"home", "profiles", "vaults", "credentials", "session", "doctor", "recovery", "run",
            "policy", "agent", "browse", "help"}

\* The forms, by what they end in, and the steps that are masked.
Forms == [unlock          |-> <<"pass">>,
          unlock_mongo    |-> <<"url", "pass">>,
          put             |-> <<"name", "value">>,
          rename          |-> <<"name">>,
          create_vault    |-> <<"label">>,
          create_file     |-> <<"id", "data", "key", "pass", "confirm">>,
          create_mongodb  |-> <<"id", "database", "key", "url", "pass", "confirm">>,
          recovery_create |-> <<"file", "pass", "confirm">>,
          recovery_verify |-> <<"file", "value">>,
          policy_create   |-> <<"id", "secret", "command">>,
          grant_create    |-> <<"secret", "command", "ttl">>,
          agent           |-> <<"agent", "config">>,
          preview_run     |-> <<"names">>]
Masked    == {"pass", "confirm", "url", "value"}
Kept      == {"pass", "url"}                    \* pendingPassphrase, pendingMongoUrl
Prefilled == {"data", "key", "database", "ttl"} \* a default that Enter accepts
Optional  == {"config", "names"}                \* may be left empty

NoForm  == [of |-> "none", at |-> 0]
Idle    == [type |-> "none", arg |-> None]
Initial == [screen |-> "home", overlay |-> "none", form |-> NoForm, typed |-> FALSE, kept |-> {},
            name |-> None, asks |-> None, revealed |-> None, value |-> None,
            unlocked |-> FALSE, session |-> FALSE, quit |-> FALSE]

Init == ui = Initial /\ call = Idle /\ unlocked = FALSE /\ shown = None /\ calls = 0

Step == Forms[ui.form.of][ui.form.at]

-----------------------------------------------------------------------------
(* What a key may do.  The shell drops every key but those that leave while *)
(* a call is under way (dispatch).                                         *)
Ready     == call = Idle /\ ~ui.quit
Commands  == Ready /\ ui.overlay \in {"none", "palette"}
Closed(u) == [u EXCEPT !.overlay = "none"]

Show(u)       == ui' = u /\ UNCHANGED <<call, unlocked, shown, calls>>
Ask(u, about) == ui' = u /\ shown' = about /\ UNCHANGED <<call, unlocked, calls>>
Effect(u, type, arg) ==
  /\ calls < MaxCalls /\ calls' = calls + 1
  /\ ui' = u /\ call' = [type |-> type, arg |-> arg] /\ UNCHANGED <<unlocked, shown>>

Hidden(u) == [u EXCEPT !.revealed = None, !.value = None, !.asks = None]

\* enterScreen: digits, Tab, the Home menu, a click, `?`.
Entered(screen) == [Hidden(Closed(ui)) EXCEPT !.screen = screen]
Enter(screen) ==
  /\ Commands /\ screen # ui.screen
  /\ IF screen \in {"doctor", "recovery", "policy", "browse"}
     THEN Effect(Entered(screen), screen, None)
     ELSE Show(Entered(screen))

\* Escape without an overlay, busy or not: it clears what is revealed, then
\* goes home.
Escape ==
  /\ ~ui.quit /\ ui.overlay = "none"
  /\ \/ ui.revealed # None /\ ui.screen = "credentials" /\ Show(Hidden(ui))
     \/ /\ ~(ui.revealed # None /\ ui.screen = "credentials")
        /\ ui.screen # "home" /\ Show([ui EXCEPT !.screen = "home"])

Quit == ~ui.quit /\ Show([ui EXCEPT !.quit = TRUE])

-----------------------------------------------------------------------------
(* Forms.                                                                  *)
Opened(u, form) == [u EXCEPT !.overlay = "form", !.form = [of |-> form, at |-> 1],
                             !.typed = FALSE, !.kept = {}]
Dismissed(u) == [u EXCEPT !.overlay = "none", !.form = NoForm, !.typed = FALSE, !.kept = {},
                          !.name = None]

FormsOf(screen) ==
  CASE screen = "profiles"    -> {"create_file", "create_mongodb"}
    [] screen = "vaults"      -> IF ui.unlocked THEN {"create_vault"} ELSE {}
    [] screen = "credentials" -> {"put"}
    [] screen = "recovery"    -> {"recovery_create", "recovery_verify"}
    [] screen = "policy"      -> {"policy_create", "grant_create"}
    [] screen = "agent"       -> {"agent"}
    [] screen = "run"         -> {"preview_run"}
    [] OTHER                  -> {}

OpenForm == Commands /\ \E f \in FormsOf(ui.screen) : Show([Opened(ui, f) EXCEPT !.name = None])

OpenRename(t) == /\ Commands /\ ui.screen = "credentials"
                 /\ Ask([Opened(ui, "rename") EXCEPT !.name = t], t)

\* unlockIntent: an enabled session unlocks at once, a MongoDB profile asks for
\* its URL first.
UnlockIntent(passphrase, mongo) ==
  /\ Commands
  /\ IF ~passphrase /\ ui.session /\ ~mongo
     THEN Effect(Closed(ui), "session-unlock", None)
     ELSE Show(Opened(ui, IF mongo THEN "unlock_mongo" ELSE "unlock"))

Type == /\ Ready /\ ui.overlay = "form" /\ \E typed \in BOOLEAN : Show([ui EXCEPT !.typed = typed])

\* overlayKey, Enter: an empty field stays, a confirmation that differs goes
\* back to the passphrase, the last step calls the backend and forgets.
Back(i) == CHOOSE j \in 1..i : Forms[ui.form.of][j] = "pass"

Submit(matches) ==
  /\ Ready /\ ui.overlay = "form" /\ (ui.typed \/ Step \in Optional \cup Prefilled)
  /\ LET last == ui.form.at = Len(Forms[ui.form.of])
         next == ui.form.at + 1
     IN IF Step = "confirm" /\ ~matches
        THEN Show([ui EXCEPT !.form.at = Back(ui.form.at), !.typed = FALSE, !.kept = @ \ {"pass"}])
        ELSE IF last THEN Effect(Dismissed(ui), ui.form.of, ui.name)
        ELSE Show([ui EXCEPT !.form.at = next, !.kept = @ \cup ({Step} \cap Kept),
                             !.typed = Forms[ui.form.of][next] \in Prefilled])

CancelForm == Ready /\ ui.overlay = "form" /\ Show(Dismissed(ui))

-----------------------------------------------------------------------------
(* Confirmations.  pendingName is shared by those about a name.            *)
Confirms(screen) ==
  CASE screen = "credentials" -> {"remove"}
    [] screen = "profiles"    -> {"remove-profile"}
    [] screen = "recovery"    -> {"recovery-revoke", "revoke-last"}
    [] screen = "policy"      -> {"policy-remove", "grant-revoke"}
    [] OTHER                  -> {}

OpenConfirm(t) ==
  /\ Commands
  /\ \/ \E c \in Confirms(ui.screen) : Ask([ui EXCEPT !.overlay = c, !.name = t], t)
     \/ /\ ui.screen = "session" /\ ui.session
        /\ Ask([ui EXCEPT !.overlay = "session-revoke"], None)
     \/ Ask([ui EXCEPT !.overlay = "lock"], None)

OpenDetail(t) == /\ Commands /\ ui.screen = "credentials"
                 /\ Show([ui EXCEPT !.overlay = "detail", !.name = t])

OpenReveal(t) ==
  /\ \/ Commands /\ ui.screen = "credentials"
     \/ Ready /\ ui.overlay = "detail" /\ t = ui.name
  /\ Ask([ui EXCEPT !.overlay = "reveal", !.asks = t], t)

Copy(t) == /\ \/ Commands /\ ui.screen = "credentials"
              \/ Ready /\ ui.overlay = "detail" /\ t = ui.name
           /\ Effect(Closed(ui), "copy", t)

Yes ==
  /\ Ready
  /\ CASE ui.overlay = "reveal" -> Effect(Closed(ui), "reveal", ui.asks)
       [] ui.overlay = "lock"   -> Effect(Hidden(Closed(ui)), "lock", None)
       [] ui.overlay = "session-revoke" -> Effect(Closed(ui), "session-revoke", None)
       [] ui.overlay \in {"remove", "remove-profile", "recovery-revoke", "policy-remove",
                          "grant-revoke"} ->
            Effect([Closed(ui) EXCEPT !.name = None], ui.overlay, ui.name)
       [] OTHER -> FALSE

No == /\ Ready /\ ui.overlay \notin {"none", "form"}
      /\ Show([Closed(ui) EXCEPT !.name = IF ui.overlay \in {"detail", "lock", "palette"} THEN @
                                          ELSE None,
                                 !.asks = IF ui.overlay = "reveal" THEN None ELSE @])

OpenPalette == Ready /\ ui.overlay = "none" /\ Show([ui EXCEPT !.overlay = "palette"])

\* The calls a screen makes without a question: activateSelection, r, d, n.
Activate(t) ==
  /\ Commands
  /\ CASE ui.screen = "home"     -> Effect(Closed(ui), "refresh", None)
       [] ui.screen = "profiles" -> Effect(Closed(ui), "use-profile", t)
       [] ui.screen = "vaults"   -> Effect(Closed(ui), "use-vault", t)
       [] ui.screen = "session"  -> /\ ui.unlocked
                                    /\ Effect(Closed(ui), "session-enable", None)
       [] ui.screen \in {"doctor", "recovery", "policy", "browse"} ->
            Effect(Closed(ui), ui.screen, None)
       [] OTHER -> FALSE

-----------------------------------------------------------------------------
(* backend-result, from the call or pushed by the backend; tick.           *)
\* normalizeSnapshotState, and what a lock closes.
Adopt(u, open) ==
  LET locked == u.unlocked /\ ~open
      v == IF locked THEN Dismissed(u) ELSE u
  IN  [IF open THEN v ELSE Hidden(v) EXCEPT !.unlocked = open]

\* Mutant: the value is shown wherever the operator went meanwhile.
RevealedAnywhere(u, open) ==
  IF u.asks # None /\ open
  THEN [u EXCEPT !.revealed = u.asks, !.value = call.arg, !.asks = None]
  ELSE [u EXCEPT !.asks = None]

Revealed(u, open) ==
  IF u.asks # None /\ u.screen = "credentials" /\ open
  THEN [u EXCEPT !.revealed = u.asks, !.value = call.arg, !.asks = None]
  ELSE [u EXCEPT !.asks = None]

\* What a call leaves of the session in the backend.
Leaves(ok) ==
  CASE call.type \in {"lock", "use-profile"} -> {FALSE}
    [] call.type \in {"unlock", "unlock_mongo", "session-unlock", "create_file",
                      "create_mongodb"}      -> {ok}
    [] OTHER -> IF ok THEN {unlocked} ELSE {unlocked, FALSE}

Return(ok) ==
  /\ call # Idle
  /\ \E open \in Leaves(ok), session \in BOOLEAN :
       /\ unlocked' = open
       /\ ui' = IF ui.quit THEN ui
                ELSE [Adopt(IF ok /\ call.type = "reveal" /\ unlocked THEN Revealed(ui, open)
                            ELSE ui, open) EXCEPT !.session = session]
  /\ call' = Idle
  /\ UNCHANGED <<shown, calls>>

\* The session expires; the listener of the shell adopts the locked snapshot.
Expire == /\ unlocked /\ unlocked' = FALSE
          /\ ui' = IF ui.quit THEN ui ELSE Adopt(ui, FALSE)
          /\ UNCHANGED <<call, shown, calls>>

Tick == /\ ui.revealed # None /\ ~ui.quit
        /\ Show([ui EXCEPT !.revealed = None, !.value = None])

Next ==
  \/ Escape \/ Quit \/ OpenForm \/ Type \/ CancelForm \/ Yes \/ No \/ OpenPalette
  \/ Expire \/ Tick
  \/ \E s \in Screens : Enter(s)
  \/ \E t \in Targets : \/ OpenRename(t) \/ OpenConfirm(t) \/ OpenDetail(t) \/ OpenReveal(t)
                        \/ Copy(t) \/ Activate(t)
  \/ \E a, b \in BOOLEAN : UnlockIntent(a, b)
  \/ \E ok \in BOOLEAN : Submit(ok) \/ Return(ok)

Spec == Init /\ [][Next]_vars

-----------------------------------------------------------------------------
(* Properties.                                                             *)
\* A plaintext is on the screen only while the backend is unlocked, on the
\* credentials screen, under the name it belongs to, whatever is pressed while
\* it is fetched and whenever the session expires.
RevealStaysInPlace ==
  ui.value # None /\ ~ui.quit =>
    ui.screen = "credentials" /\ unlocked /\ ui.revealed = ui.value

\* What was typed into a masked field, and the secrets a form keeps from step to
\* step, exist only while that form is open.
FormsForget ==
  /\ ui.overlay # "form" => ui.form = NoForm /\ ~ui.typed /\ ui.kept = {}
  /\ ui.overlay = "form" =>
       \A s \in ui.kept : \E i \in 1..(ui.form.at - 1) : Forms[ui.form.of][i] = s

\* What cannot be undone is done to the target that the confirmation named.
Destructive == {"remove", "remove-profile", "recovery-revoke", "policy-remove", "grant-revoke",
                "reveal", "rename"}
ConfirmedIsDone == call.type \in Destructive => call.arg = shown /\ shown # None

RouterGuardsSecrets == RevealStaysInPlace /\ FormsForget /\ ConfirmedIsDone
=============================================================================
