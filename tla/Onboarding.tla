------------------------------ MODULE Onboarding ------------------------------
(***************************************************************************)
(* The setup wizard that `kavrix` and `kavrix init` open on a terminal:    *)
(* packages/tui/src/app/onboarding-router.ts in its shell,                 *)
(* onboarding-app.tsx.  It walks a chain of inputs, checks each            *)
(* destination and the MongoDB address with the backend as it goes, lets   *)
(* the operator edit the public settings once more, creates the profile    *)
(* and offers to keep its session.  What a field may hold is a small set;  *)
(* the profile id, cursors, messages and layout are left out.              *)
(***************************************************************************)
EXTENDS Naturals, Sequences

CONSTANTS Paths, Databases, Urls, Passphrases, None

VARIABLES ui,     \* OnboardingState
          known,  \* what the backend found: destinations, and the address and database it reached
          twice,  \* what was typed last at the confirmation of each passphrase
          sent,   \* the settings of the create-*-profile under way
          made,   \* whether a profile was created
          result  \* what waitUntilExit resolves to

vars == <<ui, known, twice, sent, made, result>>

Chain == [file    |-> <<"id", "data", "key", "pass", "confirm", "rec", "rec-confirm", "kit">>,
          mongodb |-> <<"id", "database", "key", "url", "pass", "confirm", "rec", "rec-confirm",
                        "kit">>]
PathSteps == {"data", "key", "kit"}
Secrets   == {"pass", "rec", "url"}
Inputs    == PathSteps \cup Secrets \cup {"id", "database", "confirm", "rec-confirm"}

Values(step) ==
  CASE step \in PathSteps  -> Paths
    [] step = "database"   -> Databases
    [] step = "url"        -> Urls
    [] step = "id"         -> {None}
    [] OTHER               -> Passphrases

Fields == {"data", "key", "kit", "database", "url", "pass", "rec"}
Blank  == [f \in Fields |-> None]

Initial == [step |-> "welcome", storage |-> "none", query |-> None, set |-> Blank,
            editing |-> FALSE, verified |-> FALSE, pending |-> "none", view |-> "none",
            completed |-> FALSE, profile |-> FALSE, quit |-> FALSE]

Init == /\ ui = Initial /\ made = FALSE /\ result = "none"
        /\ known = [paths |-> {}, server |-> None]
        /\ twice = [pass |-> None, rec |-> None] /\ sent = Blank

-----------------------------------------------------------------------------
\* Keys are dropped while the backend works, so that a profile is never
\* abandoned half made.
Ready   == ui.pending = "none" /\ ~ui.quit
Keys(s) == Ready /\ ui.view = "none" /\ ui.step \in s

\* transitionOnboarding: a new step drops what belongs to the one before, and
\* the address of MongoDB is always tested again.
At(u, step) == [u EXCEPT !.step = step, !.view = "none",
                         !.verified = IF step = "url" THEN FALSE ELSE @]
Show(u)        == ui' = u /\ UNCHANGED <<known, twice, sent, made, result>>
Asks(u, what)  == Show([u EXCEPT !.pending = what])

Default(step) == CHOOSE v \in Values(step) : TRUE
Offered(step) == CASE step \in Secrets \cup {"confirm", "rec-confirm", "id"} -> None
                   [] ui.set[step] # None -> ui.set[step]
                   [] OTHER -> Default(step)

Position(step) == CHOOSE i \in DOMAIN Chain[ui.storage] : Chain[ui.storage][i] = step
Following(step) == IF step = "kit" THEN "review" ELSE Chain[ui.storage][Position(step) + 1]

Proceed(u) == LET step == Following(u.step)
              IN  [At(u, step) EXCEPT !.query = IF step = "review" THEN None ELSE Offered(step)]

Wiped(u) == [u EXCEPT !.set = [@ EXCEPT !.pass = None, !.rec = None, !.url = None],
                      !.query = None]

-----------------------------------------------------------------------------
(* Keys.                                                                   *)
Type == \E text \in Values(ui.step) :
          /\ Keys(Inputs)
          /\ Show([ui EXCEPT !.query = text,
                             !.verified = IF ui.step = "url" THEN FALSE ELSE @])

Erase == Keys(Inputs) /\ Show([ui EXCEPT !.query = None, !.verified = FALSE])

Choose == /\ Keys({"welcome", "storage"})
          /\ IF ui.step = "welcome" THEN Show(At(ui, "storage"))
             ELSE \E storage \in {"file", "mongodb"} :
                    Show([At(ui, "id") EXCEPT !.storage = storage, !.query = None])

\* commitInput of a public setting or a secret; commitReviewEdit when it is one
\* that the review asked for again.
Text == IF ui.query = None /\ ui.step \notin Secrets /\ ~ui.editing THEN Default(ui.step)
        ELSE ui.query

\* Mutant: an edit of the database name keeps the test of the address.
EditedVerified(u) ==
  [At([u EXCEPT !.set = IF u.step = "id" THEN @ ELSE [@ EXCEPT ![u.step] = u.query]], "review")
     EXCEPT !.query = None, !.editing = FALSE]

Edited(u) ==
  [At([u EXCEPT !.set = IF u.step = "id" THEN @ ELSE [@ EXCEPT ![u.step] = u.query]], "review")
     EXCEPT !.query = None, !.editing = FALSE,
            !.verified = IF u.step = "database" THEN FALSE ELSE @]

Committed(u) == IF u.editing THEN Edited(u)
                ELSE Proceed([u EXCEPT !.set = [@ EXCEPT ![u.step] = u.query]])

Commit ==
  /\ Keys(Inputs)
  /\ \/ ui.step = "id" /\ Show(IF ui.editing THEN Edited(ui) ELSE Proceed(ui))
     \/ /\ ui.step \in PathSteps /\ Text # None
        /\ Asks([ui EXCEPT !.query = Text], "check")
     \/ /\ ui.step = "database" /\ Text # None
        /\ Show(Committed([ui EXCEPT !.query = Text]))
     \/ /\ ui.step \in {"pass", "rec"} /\ ui.query # None
        /\ Show(Committed(ui))
     \/ /\ ui.step = "url" /\ ui.query # None
        /\ IF ui.verified THEN Show(Committed(ui)) ELSE Asks(ui, "test")

\* A confirmation that differs takes the passphrase back.
Confirm ==
  /\ Keys({"confirm", "rec-confirm"})
  /\ LET of == IF ui.step = "confirm" THEN "pass" ELSE "rec"
     IN  /\ ui' = IF ui.query = ui.set[of] THEN Proceed(ui)
                  ELSE [At(ui, of) EXCEPT !.set = [@ EXCEPT ![of] = None], !.query = None]
         /\ twice' = [twice EXCEPT ![of] = ui.query]
  /\ UNCHANGED <<known, sent, made, result>>

\* Ctrl+T, Ctrl+R, Ctrl+B and what their views accept: a folder becomes the
\* directory of the path.
Tool ==
  \/ /\ Keys({"url"}) /\ ui.query # None /\ Asks(ui, "test")
  \/ Keys(PathSteps) /\ \E what \in {"folders", "repair"} : Asks(ui, what)
  \/ Ready /\ ui.view \in {"folders", "repair"} /\ Asks(ui, ui.view)
  \/ /\ Ready /\ ui.view = "folders"
     /\ \E p \in Paths : Show([ui EXCEPT !.query = p, !.view = "none"])
  \/ Ready /\ ui.view # "none" /\ Show([ui EXCEPT !.view = "none"])

\* stepBack: what the step asked for is forgotten.
Clears == CASE ui.step = "id"          -> Fields
            [] ui.step = "confirm"     -> {"pass"}
            [] ui.step = "rec-confirm" -> {"rec"}
            [] ui.step = "pass" /\ ui.storage = "mongodb" -> {"pass", "url"}
            [] OTHER                   -> {ui.step}

StepBack ==
  /\ Keys(Inputs)
  /\ LET before == IF ui.step = "id" THEN "storage"
                   ELSE Chain[ui.storage][Position(ui.step) - 1]
     IN Show(IF ui.editing THEN [At(ui, "review") EXCEPT !.query = None, !.editing = FALSE]
             ELSE [At(ui, before) EXCEPT
                     !.set = [f \in Fields |-> IF f \in Clears THEN None ELSE @[f]],
                     !.query = IF before = "storage" THEN None ELSE Offered(before)])

Review ==
  /\ Keys({"review"})
  /\ \/ Show([At(ui, "kit") EXCEPT !.query = ui.set.kit])
     \/ \E step \in {"id", "data", "database", "key", "kit"} :
          /\ \E i \in DOMAIN Chain[ui.storage] : Chain[ui.storage][i] = step
          /\ Show([At(ui, step) EXCEPT !.editing = TRUE,
                                       !.query = IF step = "id" THEN None ELSE ui.set[step]])

\* createReviewedProfile: the address is tested once more when it must be; the
\* secrets leave with the call.
Create ==
  /\ Keys({"review"})
  /\ IF ui.storage = "mongodb" /\ ~ui.verified THEN Asks(ui, "test")
     ELSE /\ ui' = [At(Wiped(ui), "creating") EXCEPT !.pending = "create"]
          /\ sent' = ui.set
          /\ UNCHANGED <<known, twice, made, result>>

\* The step after the profile exists: Enter keeps its session, Escape skips.
Enable == /\ Keys({"enable-session"})
          /\ \/ Asks(ui, "enable")
             \/ Show([At(Wiped(ui), "success") EXCEPT !.completed = TRUE])

Retry == /\ Keys({"error"})
         /\ LET step == IF ui.storage = "file" THEN "data" ELSE "key"
            IN  Show([At(ui, step) EXCEPT !.query = ui.set[step]])

\* finish: what the command is told.
Quit ==
  /\ Ready
  /\ ui' = [ui EXCEPT !.quit = TRUE]
  /\ result' = CASE ui.completed /\ ui.profile -> "completed"
                 [] ui.step = "error"          -> "failed"
                 [] OTHER                      -> "cancelled"
  /\ UNCHANGED <<known, twice, sent, made>>

-----------------------------------------------------------------------------
(* backend-result.                                                         *)
AnswerCheck(ok) ==
  /\ ui.pending = "check"
  /\ LET ready == [ui EXCEPT !.pending = "none"]
     IN  ui' = IF ok THEN Committed(ready) ELSE ready
  /\ known' = IF ok THEN [known EXCEPT !.paths = @ \cup {ui.query}] ELSE known
  /\ UNCHANGED <<twice, sent, made, result>>

AnswerTool(ok) ==
  /\ ui.pending \in {"test", "folders", "repair"}
  /\ LET ready == [ui EXCEPT !.pending = "none"]
         url == IF ui.step = "url" THEN ui.query ELSE ui.set.url
     IN  IF ui.pending = "test"
         THEN /\ ui' = [ready EXCEPT !.verified = ok]
              /\ known' = IF ok THEN [known EXCEPT !.server = <<url, ui.set.database>>] ELSE known
         ELSE /\ \E view \in IF ok THEN {ui.pending, "none"} ELSE {"none"} :
                   ui' = [ready EXCEPT !.view = view]
              /\ UNCHANGED known
  /\ UNCHANGED <<twice, sent, made, result>>

AnswerCreate(ok) ==
  /\ ui.pending = "create"
  /\ ui' = [At(Wiped(ui), IF ok THEN "enable-session" ELSE "error") EXCEPT !.pending = "none"]
  /\ made' = (made \/ ok)
  /\ sent' = Blank /\ twice' = [pass |-> None, rec |-> None]
  /\ UNCHANGED <<known, result>>

AnswerEnable ==
  /\ ui.pending = "enable"
  /\ ui' = [At(Wiped(ui), "success") EXCEPT !.pending = "none", !.completed = TRUE,
                                            !.profile = TRUE]
  /\ UNCHANGED <<known, twice, sent, made, result>>

Next ==
  \/ Type \/ Erase \/ Choose \/ Commit \/ Confirm \/ Tool \/ StepBack \/ Review \/ Create
  \/ Enable \/ Retry \/ Quit \/ AnswerEnable
  \/ \E ok \in BOOLEAN : AnswerCheck(ok) \/ AnswerTool(ok) \/ AnswerCreate(ok)

Spec == Init /\ [][Next]_vars

-----------------------------------------------------------------------------
(* Properties.                                                             *)
\* A profile is created with destinations that the backend accepted, with
\* passphrases that were typed twice, and on MongoDB at the address and in the
\* database that it reached, through every way back, edit and retry.
CreatesWhatWasChecked ==
  ui.pending = "create" =>
    /\ {sent[f] : f \in {"key", "kit"}} \subseteq known.paths
    /\ ui.storage = "file" => sent.data \in known.paths
    /\ sent.pass = twice.pass /\ sent.rec = twice.rec /\ None \notin {sent.pass, sent.rec}
    /\ ui.storage = "mongodb" => known.server = <<sent.url, sent.database>>

\* A secret is kept only between the step that asks for it and the creation.
SecretsWaitForCreate ==
  \A s \in Secrets : ui.set[s] # None =>
    \/ ui.step = "review" \/ ui.editing
    \/ ui.step \in Inputs /\ Position(s) < Position(ui.step)

OnboardingKeepsFaith == CreatesWhatWasChecked /\ SecretsWaitForCreate

\* A setup that ends as cancelled created nothing, as the command then says
\* (init-onboarding.ts, InitOnboardingCancelledError).
CancelledMadeNothing == result = "cancelled" => ~made
=============================================================================
