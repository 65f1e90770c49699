------------------------------- MODULE SelfUpdate -------------------------------
(***************************************************************************)
(* `kavrix update [--check]` (apps/cli/src/self-update-impl.ts): what the  *)
(* npm dist-tag names is compared with the running version, npm is asked   *)
(* to install exactly that, and the installed version is read again.  The  *)
(* tag moves, npm may do less than it reports, and other commands install  *)
(* other versions meanwhile.                                               *)
(***************************************************************************)
EXTENDS Naturals

CONSTANTS Procs,
          Versions,  \* releases, [core, beta]: the number of a beta, or Stable
          Stable, Layouts, MaxStarts

VARIABLES tag,     \* what the dist-tag names
          disk,    \* the version in the global package, or Nothing
          proc,    \* the commands
          reports, \* of the commands that ended
          starts   \* commands started

vars == <<tag, disk, proc, reports, starts>>

\* A core is the rank of three numbers, from 1 on.
ConstantsFit == Stable \in Nat /\ Versions \subseteq [core : Nat \ {0}, beta : Nat]

Nothing == [core |-> 0, beta |-> Stable]
Idle    == [pc |-> "idle"]

\* comparePublishedVersions < 0; the three numbers of a core count as one.
Older(a, b) == \/ a.core < b.core
               \/ /\ a.core = b.core /\ a.beta # Stable
                  /\ b.beta = Stable \/ a.beta < b.beta

Init == /\ tag \in Versions /\ disk \in Versions
        /\ proc = [p \in Procs |-> Idle] /\ reports = {} /\ starts = 0

Becomes(p, state) == proc' = [proc EXCEPT ![p] = state]

\* The one report of a command, with the package as the command leaves it.
Reports(p, action, package) ==
  /\ Becomes(p, Idle)
  /\ reports' = reports \cup {[action |-> action, running |-> proc[p].running,
                               latest |-> proc[p].latest, package |-> package,
                               alone |-> proc[p].alone]}

-----------------------------------------------------------------------------
\* The version a command runs is compiled into it.
Start(p, check, layout) ==
  /\ proc[p] = Idle /\ disk # Nothing /\ starts < MaxStarts /\ starts' = starts + 1
  /\ Becomes(p, [pc |-> "query", running |-> disk, latest |-> Nothing, check |-> check,
                 layout |-> layout, alone |-> TRUE])
  /\ UNCHANGED <<tag, disk, reports>>

\* fetchNpmDistTagVersion; a failed query is reported like any other failure.
Query(p) ==
  /\ proc[p].pc = "query"
  /\ \/ Becomes(p, [proc[p] EXCEPT !.pc = "decide", !.latest = tag]) /\ UNCHANGED reports
     \/ Reports(p, "failed", disk)
  /\ UNCHANGED <<tag, disk, starts>>

\* Mutant: whatever is tagged is installed.
UpdateAvailableAny(running, latest) == running # latest

\* Only an older package is replaced.
UpdateAvailable(running, latest) == Older(running, latest)

\* An unsupported layout is told first, even to a command that is up to date.
Decide(p) ==
  LET done(action) == Reports(p, IF proc[p].check THEN "check" ELSE action, disk)
  IN /\ proc[p].pc = "decide"
     /\ IF proc[p].layout # "npm-global" THEN done("refused")
        ELSE IF ~ UpdateAvailable(proc[p].running, proc[p].latest) THEN done("noop")
        ELSE IF proc[p].check THEN done("check")
        ELSE Becomes(p, [proc[p] EXCEPT !.pc = "install"]) /\ UNCHANGED reports
     /\ UNCHANGED <<tag, disk, starts>>

\* runGlobalNpmInstall: npm installs the version, removes the old one, or changes
\* nothing here (another prefix); its status need not tell which.
Install(p) ==
  LET after(pc) == [q \in Procs |-> IF proc[q] = Idle THEN Idle
                      ELSE IF q = p THEN [proc[p] EXCEPT !.pc = pc]
                      ELSE [proc[q] EXCEPT !.alone = @ /\ disk' = disk]]
  IN /\ proc[p].pc = "install" /\ disk' \in {disk, proc[p].latest, Nothing}
     /\ proc' \in {after("verify"), after("failed")}
     /\ UNCHANGED <<tag, reports, starts>>

\* The installed version is read where the command's launcher points to now.
Verify(p) ==
  /\ \/ proc[p].pc = "failed" /\ Reports(p, "failed", disk)
     \/ /\ proc[p].pc = "verify"
        /\ Reports(p, IF disk = proc[p].latest THEN "updated" ELSE "failed", disk)
  /\ UNCHANGED <<tag, disk, starts>>

\* A release is tagged, or the tag is taken back.
MoveTag(v) == tag # v /\ tag' = v /\ UNCHANGED <<disk, proc, reports, starts>>

Next == \/ \E p \in Procs : \/ Query(p) \/ Decide(p) \/ Install(p) \/ Verify(p)
                            \/ \E check \in BOOLEAN, l \in Layouts : Start(p, check, l)
        \/ \E v \in Versions : MoveTag(v)

Spec == Init /\ [][Next]_vars

-----------------------------------------------------------------------------
\* Tags are taken back and betas and stable releases mix, but a command that no
\* other update overlaps never leaves an older package than it found, changes it
\* only when it says so, and what it calls an update is newer and in place.
UpdatesGoForward ==
  \A r \in reports : r.alone =>
    /\ r.package # Nothing => ~ Older(r.package, r.running)
    /\ r.action \in {"check", "noop", "refused"} => r.package = r.running
    /\ r.action = "updated" => r.package = r.latest /\ Older(r.running, r.package)
=============================================================================
