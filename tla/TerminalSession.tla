---------------------------- MODULE TerminalSession ----------------------------
(***************************************************************************)
(* The backend of the terminal interface (apps/cli/src/tui-session.ts and  *)
(* tui-vault-session.ts): what it keeps in memory between two actions of   *)
(* the operator, and the timers that take it away.  Actions run one after  *)
(* the other; an action awaits the profile registry, a subprocess of the   *)
(* CLI (Command) or an operation on reusable keys (Native), and at each of *)
(* these awaits the timer of the keys may fire and other processes may     *)
(* select another profile.  A passphrase is told by the profile it opens;  *)
(* notices, the theme, setup tools and the rendered rows are left out.     *)
(***************************************************************************)
EXTENDS Naturals

CONSTANTS Profiles, Mongo,   \* profiles, and those that live on MongoDB
          Known,             \* profiles registered and initialized at first
          None, MaxActions, MaxElsewhere

\* What the proofs assume of the constants.
ConstantsFit == Known \subseteq Profiles

VARIABLES
  profiles, bound, \* registered profiles; those with a database (databaseId)
  current,         \* the selected profile in the registry
  stored,          \* profile -> the passphrase its session unlock keeps
  mem,             \* #passphrase, #databaseUrl, #credentialNames, rows, #vaultId:
                   \* the profile each of them belongs to
  overdue,         \* the absolute lifetime since the unlock is over
  lifetime,        \* #lifetimeTimer is armed
  keys,            \* TuiVaultSession: the profile of its keys, its timer, in flight
  act,             \* the action under way
  actions, elsewhere

registry == <<profiles, bound, current>>
vars == <<profiles, bound, current, stored, mem, overdue, lifetime, keys, act, actions, elsewhere>>

Or(S) == S \cup {None}
Empty  == [pass |-> None, url |-> None, names |-> None, rows |-> None, vault |-> None]
NoKeys == [of |-> None, timer |-> FALSE, busy |-> FALSE]
Idle   == [op |-> "idle", arg |-> None, at |-> "end", target |-> None, copied |-> None]

Init ==
  /\ profiles = Known /\ bound = Known /\ current \in Or(Known)
  /\ stored = [p \in Profiles |-> None]
  /\ mem = Empty /\ overdue = FALSE /\ lifetime = FALSE /\ keys = NoKeys
  /\ act = Idle /\ actions = 0 /\ elsewhere = 0

\* #lock: everything secret and everything derived from it; the vault override
\* stays.
Locked == [Empty EXCEPT !.vault = mem.vault]
Lock == mem' = Locked /\ overdue' = FALSE /\ lifetime' = FALSE /\ keys' = NoKeys

\* #useProfile, #removeProfile: a lock that drops the override too.
Forget == mem' = Empty /\ overdue' = FALSE /\ lifetime' = FALSE /\ keys' = NoKeys

\* The finally of dispatch, #armLifetime and touch: what is left unlocked is
\* timed.
Finish(m, k) ==
  /\ act' = Idle
  /\ mem' = m
  /\ lifetime' = (m.pass # None)
  /\ keys' = [of |-> k, timer |-> k # None, busy |-> FALSE]
  /\ UNCHANGED overdue

FinishLocked == act' = Idle /\ Lock

Goto(at) == act' = [act EXCEPT !.at = at]

-----------------------------------------------------------------------------
(* dispatch: the timer is stopped and an overdue session is locked first.  *)
Keyed    == {"refresh", "reveal", "put", "browse"}
ByChild  == {"doctor", "use-vault", "create-vault"}
Sessions == {"session-unlock", "session-enable", "session-revoke"}
Managing == {"use-profile", "remove-profile", "create-profile"}

Begin(op, arg) ==
  /\ act = Idle /\ actions < MaxActions
  /\ actions' = actions + 1
  /\ lifetime' = FALSE
  /\ LET m == IF overdue THEN Locked ELSE mem
         k == IF overdue THEN NoKeys ELSE keys
     IN  /\ mem' = m /\ keys' = k
         /\ act' = [op |-> op, arg |-> arg, target |-> None, copied |-> m.pass,
                    at |-> CASE op \in Keyed /\ m.pass = None   -> "refused"
                             [] op \in ByChild /\ m.pass = None -> "refused"
                             [] op = "session-enable" /\ m.pass = None -> "refused"
                             [] op = "lock" -> "lock"
                             [] OTHER       -> "profile"]
  /\ overdue' = FALSE
  /\ UNCHANGED <<profiles, bound, current, stored, elsewhere>>

\* Mutant: the refusal returns before the finally that arms the timer.
RefuseEarly == /\ act.at = "refused" /\ act' = Idle
               /\ UNCHANGED <<profiles, bound, current, stored, mem, overdue, lifetime, keys, actions,
                              elsewhere>>

Refuse == /\ act.at = "refused"
          /\ Finish(mem, keys.of)
          /\ UNCHANGED <<profiles, bound, current, stored, actions, elsewhere>>

LockAction == /\ act.at = "lock"
              /\ FinishLocked
              /\ UNCHANGED <<profiles, bound, current, stored, actions, elsewhere>>

\* #currentProfile and the argument lists: the selection as it is read, once
\* per action.
ReadProfile ==
  /\ act.at = "profile"
  /\ act' = [act EXCEPT !.target = current,
       !.at = CASE act.op \in Keyed    -> "native"
                [] act.op \in ByChild  -> "command"
                [] act.op \in Sessions -> IF current = None THEN "refused" ELSE "session"
                [] act.op = "unlock"   -> "open"
                [] act.op = "create-profile" -> "add"
                [] OTHER               -> act.op]
  /\ UNCHANGED <<profiles, bound, current, stored, mem, overdue, lifetime, keys, actions, elsewhere>>

-----------------------------------------------------------------------------
(* TuiVaultSession.run.  The passphrase it is given is the buffer that a   *)
(* lock zeroizes.  Keys are reused only for the profile they were opened   *)
(* for; whatever fails, the keys are cleared and the caller locks.         *)
CanOpen(pass, url, p) == pass = p /\ (p \in Mongo => url = p)

NativeBegin ==
  /\ act.at = "native" /\ act.target \in bound
  /\ keys' = [keys EXCEPT !.timer = FALSE, !.busy = TRUE]
  /\ Goto("running")
  /\ UNCHANGED <<profiles, bound, current, stored, mem, overdue, lifetime, actions, elsewhere>>

NativeEnd(ok) ==
  /\ act.at = "running"
  /\ ok => /\ keys.of \in {None, act.target}
           /\ CanOpen(mem.pass, mem.url, act.target)
  /\ IF ok
     THEN Finish(IF act.op = "reveal" THEN mem
                 ELSE IF act.op = "browse" THEN [mem EXCEPT !.rows = act.target]
                 ELSE [mem EXCEPT !.names = act.target], act.target)
     ELSE FinishLocked
  /\ UNCHANGED <<profiles, bound, current, stored, actions, elsewhere>>

\* A profile without a database is served by the legacy commands: the keys are
\* closed, and a failure locks nothing.
LegacyCommand(ok) ==
  /\ act.at = "native" /\ act.target \notin bound
  /\ ok => act.target # None /\ CanOpen(mem.pass, mem.url, act.target)
  /\ Finish(IF act.op = "browse" THEN [mem EXCEPT !.rows = IF ok THEN act.target ELSE None]
            ELSE IF ~ok \/ act.op = "reveal" THEN mem
            ELSE [mem EXCEPT !.names = act.target], None)
  /\ UNCHANGED <<profiles, bound, current, stored, actions, elsewhere>>

\* #runTextCommand of an administrative command, with the copy of the
\* passphrase taken when the action began.  use-vault goes on with the list of
\* the vault it selected, create-vault with use-vault.
CommandEnd(ok) ==
  /\ act.at = "command"
  /\ ok => act.target # None /\ CanOpen(act.copied, mem.url, act.target)
  /\ CASE ~ok                         -> Finish(mem, None)
       [] ok /\ act.op = "doctor"       -> Finish([mem EXCEPT !.rows = act.target], None)
       [] ok /\ act.op = "create-vault" ->
            /\ IF mem.pass = None THEN Goto("refused")
               ELSE act' = [act EXCEPT !.op = "use-vault", !.copied = mem.pass, !.at = "profile"]
            /\ keys' = NoKeys /\ UNCHANGED <<mem, overdue, lifetime>>
       [] OTHER ->    \* use-vault
            /\ mem' = [mem EXCEPT !.vault = act.target, !.names = None, !.rows = None]
            /\ IF mem.pass = None THEN Goto("refused")
               ELSE act' = [act EXCEPT !.op = "refresh", !.at = "profile"]
            /\ keys' = NoKeys /\ UNCHANGED <<overdue, lifetime>>
  /\ UNCHANGED <<profiles, bound, current, stored, actions, elsewhere>>

-----------------------------------------------------------------------------
(* #unlock: the keys are opened anew with what was typed; a failure locks. *)
Opened(p) == [mem EXCEPT !.pass = p, !.url = IF p \in Mongo THEN p ELSE @, !.names = p]

Unlock(pass, target, ok, m) ==
  /\ ok => target # None /\ pass = target
  /\ IF ok THEN Finish(m, IF target \in bound THEN target ELSE None)
           ELSE FinishLocked

UnlockEnd(ok) ==
  /\ act.at = "open"
  /\ Unlock(act.arg, act.target, ok, Opened(act.target))
  /\ UNCHANGED <<profiles, bound, current, stored, actions, elsewhere>>

\* #unlockWithSession: no URL is kept, so that a MongoDB profile does not open
\* unless one is still in memory; #sessionEnable; #sessionRevoke.
SessionEnd(ok) ==
  /\ act.at = "session"
  /\ \/ /\ act.op = "session-unlock"
        /\ \/ stored[act.target] = None /\ Finish(mem, keys.of)
           \/ /\ stored[act.target] # None
              /\ ok => CanOpen(stored[act.target], IF act.target \in Mongo THEN mem.url ELSE None,
                               act.target)
              /\ Unlock(stored[act.target], act.target, ok, Opened(act.target))
        /\ UNCHANGED stored
     \/ /\ act.op = "session-enable"
        /\ stored' = IF ok /\ mem.pass # None
                     THEN [stored EXCEPT ![act.target] = mem.pass] ELSE stored
        /\ Finish(mem, keys.of)
     \/ /\ act.op = "session-revoke"
        /\ stored' = IF ok THEN [stored EXCEPT ![act.target] = None] ELSE stored
        /\ Finish(mem, keys.of)
  /\ UNCHANGED <<profiles, bound, current, actions, elsewhere>>

-----------------------------------------------------------------------------
(* Profiles.                                                               *)
UseProfile ==
  /\ act.at = "use-profile"
  /\ IF act.arg \in profiles
     THEN current' = act.arg /\ act' = Idle /\ Forget
     ELSE Finish(mem, keys.of) /\ UNCHANGED current
  /\ UNCHANGED <<profiles, bound, stored, actions, elsewhere>>

Removed(p) == /\ profiles' = profiles \ {p} /\ bound' = bound \ {p}
              /\ current' = IF current = p THEN None ELSE current

RemoveProfile(ok) ==
  /\ act.at = "remove-profile"
  /\ IF ok /\ act.arg \in profiles
     THEN /\ Removed(act.arg)
          /\ IF act.target = act.arg THEN act' = Idle /\ Forget ELSE Finish(mem, None)
     ELSE Finish(mem, None) /\ UNCHANGED registry
  /\ UNCHANGED <<stored, actions, elsewhere>>

\* #createFileProfile, #createMongodbProfile: the commands of the guided
\* sequence, each closing the keys.
CreateStep(ok) ==
  /\ act.op = "create-profile" /\ act.at \in {"add", "use", "init", "vault"}
  /\ CASE ok /\ act.at = "add" /\ act.arg \notin profiles ->
            profiles' = profiles \cup {act.arg} /\ Goto("use") /\ UNCHANGED <<bound, current>>
       [] ok /\ act.at = "use"   -> current' = act.arg /\ Goto("init") /\ UNCHANGED <<profiles, bound>>
       [] ok /\ act.at = "init"  -> bound' = bound \cup {act.arg} /\ Goto("vault")
                                    /\ UNCHANGED <<profiles, current>>
       [] ok /\ act.at = "vault" -> Goto("ready") /\ UNCHANGED registry
       [] OTHER -> UNCHANGED registry
                   /\ Goto(IF act.at = "add" THEN "refused" ELSE "undo")
  /\ keys' = NoKeys
  /\ UNCHANGED <<stored, mem, overdue, lifetime, actions, elsewhere>>

\* The vault is there: the rows of the profile before are dropped, and its
\* database is unlocked with the passphrase of the form.  The commands of a
\* recovery kit may follow: like doctor they are a command and its report.
CreateReady(ok) ==
  /\ act.at = "ready"
  /\ ok => current = act.arg
  /\ LET m == [mem EXCEPT !.vault = act.arg, !.rows = None, !.url = None]
         opened == [m EXCEPT !.pass = act.arg, !.names = act.arg,
                             !.url = IF act.arg \in Mongo THEN act.arg ELSE None]
     IN IF ok
        THEN \/ Finish(opened, act.arg)
             \/ /\ mem' = opened /\ UNCHANGED <<overdue, lifetime>>
                /\ keys' = [of |-> act.arg, timer |-> TRUE, busy |-> FALSE]
                /\ act' = [Idle EXCEPT !.op = "doctor", !.at = "profile", !.copied = act.arg]
        ELSE /\ mem' = [Empty EXCEPT !.vault = act.arg]
             /\ overdue' = FALSE /\ lifetime' = FALSE /\ keys' = NoKeys
             /\ Goto("undo")
  /\ UNCHANGED <<profiles, bound, current, stored, actions, elsewhere>>

\* #bestEffortRemoveProfile: a partial profile is removed if possible.  What
\* the profile before left in memory stays, but for the URL of MongoDB.
CreateUndo(ok) ==
  /\ act.at = "undo"
  /\ IF ok THEN Removed(act.arg) ELSE UNCHANGED registry
  /\ Finish(IF act.arg \in Mongo THEN [mem EXCEPT !.url = None] ELSE mem, None)
  /\ UNCHANGED <<stored, actions, elsewhere>>

-----------------------------------------------------------------------------
(* Timers, and other processes.                                            *)
\* #expireLifetime.
LifetimeFires == /\ lifetime /\ Lock
                 /\ UNCHANGED <<profiles, bound, current, stored, act, actions, elsewhere>>

\* TuiVaultSession#expire, with the callback that locks, at any await.
KeysFire == /\ keys.timer /\ ~keys.busy /\ Lock
            /\ UNCHANGED <<profiles, bound, current, stored, act, actions, elsewhere>>

TimePasses == /\ mem.pass # None /\ ~overdue /\ overdue' = TRUE
              /\ UNCHANGED <<profiles, bound, current, stored, mem, lifetime, keys, act, actions,
                             elsewhere>>

Elsewhere == /\ elsewhere < MaxElsewhere /\ elsewhere' = elsewhere + 1
             /\ current' \in Or(profiles) \ {current}
             /\ UNCHANGED <<profiles, bound, stored, mem, overdue, lifetime, keys, act, actions>>

Next ==
  \/ \E op \in Keyed \cup ByChild \cup Sessions \cup {"lock"} : Begin(op, None)
  \/ \E op \in Managing \cup {"unlock"}, p \in Profiles : Begin(op, p)
  \/ Refuse \/ LockAction \/ ReadProfile \/ NativeBegin \/ UseProfile
  \/ \E ok \in BOOLEAN :
       \/ NativeEnd(ok) \/ LegacyCommand(ok) \/ CommandEnd(ok) \/ UnlockEnd(ok)
       \/ SessionEnd(ok) \/ RemoveProfile(ok) \/ CreateStep(ok) \/ CreateReady(ok)
       \/ CreateUndo(ok)
  \/ LifetimeFires \/ KeysFire \/ TimePasses \/ Elsewhere

Spec == Init /\ [][Next]_vars

-----------------------------------------------------------------------------
(* Properties.                                                             *)
\* Whenever no action runs, a passphrase in memory and keys that can be used
\* again have a timer that will take them away, whatever failed, expired or was
\* selected elsewhere.
UnattendedIsTimed ==
  act = Idle => /\ mem.pass # None => lifetime
                /\ keys.of # None => keys.timer /\ mem.pass = keys.of

\* The names shown are of the vault whose passphrase is in memory: none after a
\* lock, and never those of a profile that was left.
ShownIsHeld == act = Idle /\ mem.names # None => mem.names = mem.pass

SecretsAreTimed == UnattendedIsTimed /\ ShownIsHeld

\* docs/architecture.md: "profile changes, expiry, failures, and exit clear the
\* session".  What this interface does to the selection leaves no passphrase of
\* another profile in memory.
ProfileChangesClear ==
  act = Idle /\ elsewhere = 0 /\ mem.pass # None => mem.pass = current
=============================================================================
