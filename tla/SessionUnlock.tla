----------------------------- MODULE SessionUnlock -----------------------------
(***************************************************************************)
(* `kavrix session enable | revoke` and the unlocks with `--session`       *)
(* (apps/cli/src/session-unlock.ts): the passphrase is sealed with a fresh *)
(* key; the sealed file lies beside the key file, which all profiles with  *)
(* that key file share, and the key is kept by the operating system under  *)
(* an account of its own for each profile.  Commands are processes of      *)
(* their own and interleave between these calls.  A session is named by    *)
(* its number in `sealed`; its key opens its own sealed file and no other. *)
(***************************************************************************)
EXTENDS Naturals, Sequences

CONSTANTS Targets,  \* profiles with their database
          FileOf,   \* the session file of each target, <keyFile>.session
          Procs,    \* commands that may run at a time
          Ttls,     \* lifetimes an operator asks for
          MaxSessions, MaxNow, MaxFaults

\* What the proofs assume of the constants.  Two faults bring a session back: one
\* keeps its key from being removed, the other puts its file back.
ConstantsFit == Ttls \subseteq Nat /\ MaxFaults \in {0, 1}

Files == {FileOf[t] : t \in Targets}
None  == 0
Idle  == [pc |-> "idle"]

VARIABLES sealed,    \* per session its target, creation and lifetime
          keychain,  \* account -> the session whose wrapping key it holds
          file,      \* file -> the session that is sealed in it
          proc,      \* the commands: what they do and what they have read
          ended,     \* sessions whose enabling was reported
          revoked,   \* sessions that were enabled when their revocation began
          now, faults

vars == <<sealed, keychain, file, proc, ended, revoked, now, faults>>

Init == /\ sealed = <<>> /\ keychain = [t \in Targets |-> None]
        /\ file = [f \in Files |-> None] /\ proc = [p \in Procs |-> Idle]
        /\ ended = {} /\ revoked = {} /\ now = 0 /\ faults = 0

Becomes(p, state) == proc' = [proc EXCEPT ![p] = state]
Fault == faults < MaxFaults /\ faults' = faults + 1

-----------------------------------------------------------------------------
(* enableSessionUnlock: a destination that exists is refused, so a session *)
(* that has expired is only replaced after it is revoked.                  *)
BeginEnable(p, t, ttl) ==
  /\ proc[p] = Idle /\ Len(sealed) < MaxSessions /\ file[FileOf[t]] = None
  /\ sealed' = Append(sealed, [target |-> t, created |-> now, ttl |-> ttl])
  /\ Becomes(p, [pc |-> "unlink", target |-> t, session |-> Len(sealed) + 1])
  /\ UNCHANGED <<keychain, file, ended, revoked, now, faults>>

\* Another command may have published its file since the validation.
ClearFile(p) ==
  /\ proc[p].pc = "unlink"
  /\ file' = [file EXCEPT ![FileOf[proc[p].target]] = None]
  /\ Becomes(p, [proc[p] EXCEPT !.pc = "publish"])
  /\ UNCHANGED <<sealed, keychain, ended, revoked, now, faults>>

\* writeProtectedJsonDocument(..., 'create')
PublishFile(p) ==
  LET f == FileOf[proc[p].target]
  IN /\ proc[p].pc = "publish"
     /\ \/ /\ file[f] = None
           /\ file' = [file EXCEPT ![f] = proc[p].session]
           /\ Becomes(p, [proc[p] EXCEPT !.pc = "store"])
        \/ file[f] # None /\ Becomes(p, Idle) /\ UNCHANGED file
     /\ UNCHANGED <<sealed, keychain, ended, revoked, now, faults>>

\* port.store: the key is stored, or the command fails and leaves the file, or
\* (Windows, exit status 1) nothing is stored and nobody is told.
StoreKey(p) ==
  LET s == proc[p].session
  IN /\ proc[p].pc = "store" /\ Becomes(p, Idle)
     /\ \/ /\ keychain' = [keychain EXCEPT ![proc[p].target] = s]
           /\ ended' = ended \cup {s} /\ UNCHANGED faults
        \/ UNCHANGED <<keychain, ended, faults>>
        \/ Fault /\ ended' = ended \cup {s} /\ UNCHANGED keychain
     /\ UNCHANGED <<sealed, file, revoked, now>>

-----------------------------------------------------------------------------
\* Mutant: the key stays where it is.
RemoveKeyLeft(p, t) ==
  /\ proc[p] = Idle
  /\ Becomes(p, [pc |-> "remove", target |-> t,
                 enabled |-> {s \in ended : sealed[s].target = t}])
  /\ UNCHANGED <<sealed, keychain, file, ended, revoked, now, faults>>

\* revokeSessionUnlock: the key first; a failed removal ends the command, except
\* where its exit status reads as "not found".
RemoveKey(p, t) ==
  /\ proc[p] = Idle
  /\ Becomes(p, [pc |-> "remove", target |-> t,
                 enabled |-> {s \in ended : sealed[s].target = t}])
  /\ \/ keychain' = [keychain EXCEPT ![t] = None] /\ UNCHANGED faults
     \/ Fault /\ UNCHANGED keychain
  /\ UNCHANGED <<sealed, file, ended, revoked, now>>

\* Then the file, whose removal may fail unnoticed; it may be another profile's.
RemoveFile(p) ==
  /\ proc[p].pc = "remove" /\ Becomes(p, Idle)
  /\ revoked' = revoked \cup proc[p].enabled
  /\ \/ file' = [file EXCEPT ![FileOf[proc[p].target]] = None] /\ UNCHANGED faults
     \/ Fault /\ UNCHANGED file
  /\ UNCHANGED <<sealed, keychain, ended, now>>

-----------------------------------------------------------------------------
(* resolveSessionUnlock: an account without a key means no session.        *)
LoadKey(p, t) ==
  /\ proc[p] = Idle /\ keychain[t] # None
  /\ Becomes(p, [pc |-> "read", target |-> t, key |-> keychain[t], revoked |-> revoked])
  /\ UNCHANGED <<sealed, keychain, file, ended, revoked, now, faults>>

Expired(s) == now > sealed[s].created + sealed[s].ttl

\* openSessionUnlock: the key and the associated data both have to fit.
Opens(s, key, t) == s = key /\ sealed[s].target = t

OpenFile(p) ==
  LET s == file[FileOf[proc[p].target]]
  IN /\ proc[p].pc = "read"
     /\ IF s # None /\ ~ Expired(s) /\ Opens(s, proc[p].key, proc[p].target)
        THEN Becomes(p, [pc |-> "opened", target |-> proc[p].target, session |-> s,
                         revoked |-> proc[p].revoked, at |-> now])
        ELSE Becomes(p, Idle)
     /\ UNCHANGED <<sealed, keychain, file, ended, revoked, now, faults>>

Forget(p) == /\ proc[p].pc = "opened" /\ Becomes(p, Idle)
             /\ UNCHANGED <<sealed, keychain, file, ended, revoked, now, faults>>

-----------------------------------------------------------------------------
\* A copy of a session file is put back beside the key file.
PutBack(s) == /\ Fault /\ s \in ended
              /\ file' = [file EXCEPT ![FileOf[sealed[s].target]] = s]
              /\ UNCHANGED <<sealed, keychain, proc, ended, revoked, now>>

Tick == /\ now < MaxNow /\ now' = now + 1
        /\ UNCHANGED <<sealed, keychain, file, proc, ended, revoked, faults>>

Next == \/ \E p \in Procs :
             \/ ClearFile(p) \/ PublishFile(p) \/ StoreKey(p)
             \/ RemoveFile(p) \/ OpenFile(p) \/ Forget(p)
             \/ \E t \in Targets : \/ RemoveKey(p, t) \/ LoadKey(p, t)
                                   \/ \E ttl \in Ttls : BeginEnable(p, t, ttl)
        \/ \E s \in 1 .. Len(sealed) : PutBack(s)
        \/ Tick

Spec == Init /\ [][Next]_vars

-----------------------------------------------------------------------------
\* An unlock with --session returns the passphrase that was enabled for this very
\* profile and database, within its lifetime, and never one that was revoked
\* before the unlock began: one half that stays behind, or comes back, is useless
\* even when the other profiles of the key file enable theirs in between.
RevokedStaysRevoked ==
  \A p \in Procs : proc[p].pc = "opened" =>
    LET s == proc[p].session
    IN /\ sealed[s].target = proc[p].target
       /\ proc[p].at - sealed[s].created <= sealed[s].ttl
       /\ s \notin proc[p].revoked
=============================================================================
