----------------------------- MODULE PolicyEngine -----------------------------
(***************************************************************************)
(* The decision procedure of permission entries and what is told about it: *)
(* the evaluation a run performs, the explanation and the check of a       *)
(* stored policy, the lint, the semantic diff, the suggestions, and the    *)
(* reveal policy.  A question is asked about one stored policy, with       *)
(* another one stored beside it, and is answered for every context.        *)
(***************************************************************************)
EXTENDS Naturals, Sequences

CONSTANTS Commands,     \* spellings of command names, as policies hold them
          Lower,        \* Lower[c]: the lower case of a spelling
          Arguments,    \* argument vectors
          Digests, Directories,
          References,   \* spellings of credential references
          SameField,    \* SameField[r]: the references that name r's field
          Unlimited,    \* what `operations` holds when they are not restricted
          Unrepresentable, \* a duration above MAX_POLICY_DURATION_MS; no ttl is 0
          Entries,      \* the definitions that are proposed
          Others        \* the policies that may be stored beside them

\* Entries are of commands, operations and references there are: an operation of one
\* is not what stands for all, "any" is no argument, and a reference names its field.
ConstantsFit ==
  /\ Lower \in [Commands -> Commands]
  /\ \A c \in Commands : Lower[Lower[c]] = Lower[c]
  /\ Unlimited \notin [command : Commands, args : Arguments]
  /\ \A e \in Entries :
       /\ DOMAIN e = {"deny", "secret", "commands", "operations", "hashes", "dirs", "ttl",
                      "asks", "always", "reveal"}
       /\ e = [f \in DOMAIN e |-> e[f]]
       /\ e.deny \in BOOLEAN /\ e.always \in BOOLEAN
       /\ e.commands \subseteq Commands /\ "any" \notin e.asks
       /\ e.operations = {Unlimited} \/ e.operations \subseteq [command : Commands,
                                                               args : Arguments]
       /\ e.secret \in References
  /\ \A r \in References : r \in SameField[r]

VARIABLES policy,   \* the policy that is asked about
          platform,
          told,     \* the answers, one per context
          stored    \* the policy is stored

vars == <<policy, platform, told, stored>>

\* resolveExecutable lowers the name on Windows; `dirs` are the directories the
\* working directory is inside of.
Context == {x \in [name : Commands, sha : Digests, args : Arguments,
                   dirs : SUBSET Directories] :
              platform = "win32" => Lower[x.name] = x.name}

-----------------------------------------------------------------------------
(* Permission entries.                                                     *)

NoPins == [c \in {} |-> "pin"]

\* permissionEntrySchema.  `operations` is {Unlimited} or a set of [command, args],
\* `hashes` maps the pinned commands, `dirs` is empty or one directory, `asks`
\* the first arguments that need confirmation, `always` any of them.
WellFormed(e) ==
  /\ e.deny => e = [e EXCEPT !.commands = {}, !.operations = {Unlimited}, !.hashes = NoPins,
                              !.dirs = {}, !.ttl = 0, !.asks = {}, !.always = FALSE]
  /\ ~ e.deny => e.commands # {}
  /\ DOMAIN e.hashes \subseteq e.commands
  /\ \A o \in e.operations \ {Unlimited} : o.command \in e.commands

-----------------------------------------------------------------------------
(* engine.ts.                                                              *)

SameCommand(a, b) == IF platform = "win32" THEN Lower[a] = Lower[b] ELSE a = b

OperationAllowed(e, x) ==
  \/ e.operations = {Unlimited}
  \/ \E o \in e.operations : SameCommand(o.command, x.name) /\ o.args = x.args

HashMatches(e, x) == x.name \in DOMAIN e.hashes => e.hashes[x.name] = x.sha

\* matchesWorkingDirectory of the directory the policy names.
Inside(e, x) == e.dirs \subseteq x.dirs

RequiresConfirmation(e, x) == e.always \/ (x.args # <<>> /\ Head(x.args) \in e.asks)

\* evaluatePermission, then executionWindowMs.
Evaluate(e, x) ==
  IF e.deny THEN "policy-denied"
  ELSE IF ~ \E c \in e.commands : SameCommand(c, x.name) THEN "command-not-allowed"
  ELSE IF ~ OperationAllowed(e, x) THEN "operation-not-allowed"
  ELSE IF ~ HashMatches(e, x) THEN "hash-mismatch"
  ELSE IF ~ Inside(e, x) THEN "working-directory-mismatch"
  ELSE IF e.ttl = Unrepresentable THEN "invalid"
  ELSE IF RequiresConfirmation(e, x) THEN "confirm" ELSE "allow"

Denied(o, references) == {e \in {policy, o} : e.deny /\ e.secret \in references}

\* authorizeAndSpawn: any stored deny of the credential, however its reference
\* is spelled, comes first.
Run(o, x) == IF Denied(o, SameField[policy.secret]) # {} THEN "policy-denied"
             ELSE Evaluate(policy, x)

\* evaluateReveal of the policies that cover the credential.
Reveal(covering) == \A e \in covering : e.reveal

\* Outcomes from the strictest on: the deny reasons and an invalid window count
\* as one.
Strictness(verdict) == CASE verdict = "allow" -> 0 [] verdict = "confirm" -> 1 [] OTHER -> 2

-----------------------------------------------------------------------------
(* policy-analysis.ts.                                                     *)

\* Mutant: the window is looked at after the confirmation.
ExplainWindowLast(o, x) ==
  LET e == Evaluate([policy EXCEPT !.ttl = 0], x)
  IN IF Denied(o, {policy.secret}) # {} THEN "policy-denied"
     ELSE IF e = "allow" /\ policy.ttl = Unrepresentable THEN "invalid" ELSE e

\* explainPolicyEvaluation: the rules in its own order; a deny is looked up by
\* the reference as it is spelled.
Explain(o, x) ==
  IF Denied(o, {policy.secret}) # {} THEN "policy-denied"
  ELSE IF ~ \E c \in policy.commands : SameCommand(c, x.name) THEN "command-not-allowed"
  ELSE IF policy.operations # {Unlimited} /\ ~ OperationAllowed(policy, x)
       THEN "operation-not-allowed"
  ELSE IF x.name \in DOMAIN policy.hashes /\ policy.hashes[x.name] # x.sha
       THEN "hash-mismatch"
  ELSE IF policy.dirs # {} /\ ~ Inside(policy, x) THEN "working-directory-mismatch"
  ELSE IF policy.ttl = Unrepresentable THEN "invalid"
  ELSE IF RequiresConfirmation(policy, x) THEN "confirm" ELSE "allow"

\* The error findings of lintAuthorizationState that call the policy void.
LintErrors(o) ==
  {f \in {"credential-covered-by-deny", "invalid-execution-window"} :
     /\ ~ policy.deny
     /\ IF f = "invalid-execution-window" THEN policy.ttl = Unrepresentable
        ELSE o.deny /\ o.secret = policy.secret}

\* canonicalEntry, in the fields that diffImpact tells apart.
Canonical(c) == IF platform = "win32" THEN Lower[c] ELSE c
CommandsOf(e) == {Canonical(c) : c \in e.commands}
OperationsOf(e) == IF e.operations = {Unlimited} THEN e.operations
                   ELSE {[o EXCEPT !.command = Canonical(@)] : o \in e.operations}

\* diffImpact of one field: neither direction is `changes`.
Impact(before, after, tighter(_, _)) ==
  CASE before = after         -> {}
    [] before # after /\ tighter(before, after) -> {"tightens"}
    [] before # after /\ tighter(after, before) -> {"widens"}
    [] OTHER                  -> {"changes"}

FewerCommands(a, b)   == b \subseteq a
FewerOperations(a, b) == a = {Unlimited} \/ (b # {Unlimited} /\ b \subseteq a)
ShorterWindow(a, b)   == Unrepresentable \notin {a, b} /\ (a = 0 \/ (b # 0 /\ b < a))
Added(a, b)           == a = {}

\* Pins are compared by their presence only.
FirstPins(a, b) == a = NoPins

\* diffPolicyDefinition(policy, p): the impacts of the changes.
Diff(p) ==
  UNION {Impact(CommandsOf(policy), CommandsOf(p), FewerCommands),
         Impact(OperationsOf(policy), OperationsOf(p), FewerOperations),
         Impact(policy.hashes, p.hashes, FirstPins),
         Impact(policy.dirs, p.dirs, Added),
         Impact(policy.ttl, p.ttl, ShorterWindow),
         Impact(policy.asks \cup {a \in {"any"} : policy.always},
                p.asks \cup {a \in {"any"} : p.always}, Added),
         Impact(policy.deny, p.deny, LAMBDA a, b : b),
         Impact(policy.reveal, p.reveal, LAMBDA a, b : a),
         IF policy.secret = p.secret THEN {} ELSE {"changes"}}

\* suggestPolicyTightenings: the commands the retained audit observed are kept.
Kept(observed) == {c \in policy.commands : \E o \in observed : SameCommand(c, o)}

Suggested(observed) ==
  [policy EXCEPT
     !.commands = Kept(observed),
     !.operations = {o \in @ : o = Unlimited \/ o.command \in Kept(observed)},
     !.hashes = [c \in DOMAIN @ \cap Kept(observed) |-> policy.hashes[c]]]

Suggests(observed) == /\ ~ policy.deny
                      /\ Kept(observed) \notin {{}, policy.commands}
                      /\ Suggested(observed).operations # {}

-----------------------------------------------------------------------------
Init == /\ policy = CHOOSE e \in Entries : WellFormed(e)
        /\ platform = "posix"
        /\ told = {} /\ stored = FALSE

\* `policy create`.
Create == /\ ~ stored /\ stored' = TRUE
          /\ policy' \in Entries /\ WellFormed(policy')
          /\ platform' \in {"posix", "win32"}
          /\ UNCHANGED told

Ask(answers) == /\ stored /\ told = {}
                /\ told' = answers
                /\ UNCHANGED <<policy, platform, stored>>

\* `run --policy` and `policy explain` (or `policy check`) of one invocation.
Authorize == \E o \in Others :
  Ask({[run |-> Run(o, x), explain |-> Explain(o, x),
        literal |-> Denied(o, SameField[policy.secret]) = Denied(o, {policy.secret})] :
       x \in Context})

\* `policy lint`.
Lint == \E o \in Others :
  Ask({[lint |-> LintErrors(o), run |-> Run(o, x)] : x \in Context})

\* `policy diff`: the impacts, and the evaluations under both definitions.
Compare == \E p \in Entries :
  /\ WellFormed(p)
  /\ Ask({[diff |-> Diff(p), before |-> Strictness(Evaluate(policy, x)),
           after |-> Strictness(Evaluate(p, x))] : x \in Context})

\* `policy suggest`: the evaluations before and after taking the suggestion.
Suggest == \E observed \in SUBSET Commands :
  /\ stored /\ Suggests(observed)
  /\ Ask({[suggested |-> Strictness(Evaluate(Suggested(observed), x)),
           before |-> Strictness(Evaluate(policy, x))] : x \in Context})

\* enforceRevealPolicy: the policies stored for any spelling of the reference.
Show == \E o \in Others, ref \in References :
  LET covering == {e \in {policy, o} : e.secret \in SameField[ref]}
  IN Ask({[reveal |-> Reveal(covering), denied |-> \E e \in covering : e.deny]})

Next == Create \/ Authorize \/ Lint \/ Compare \/ Suggest \/ Show

Spec == Init /\ [][Next]_vars

-----------------------------------------------------------------------------
Answers(field) == {a \in told : field \in DOMAIN a}

\* The explanation of a policy and the run decide alike, rule by rule, in every
\* context, as long as a stored deny spells its reference as the policy does.
ExplainMirrorsRun == \A a \in Answers("explain") : a.literal => a.run = a.explain

\* ... and whatever the spelling.
ExplainMirrorsEveryRun == \A a \in Answers("explain") : a.run = a.explain

\* What the lint reports as an error can never be allowed; a definition that only
\* tightens allows nothing new, one that only widens forbids nothing new, and one
\* the diff calls unchanged decides the same; and a suggestion, taken as it is,
\* allows nothing that was not allowed.
AnalysesAreSound ==
  /\ \A a \in Answers("lint") : a.lint # {} => Strictness(a.run) = 2
  /\ \A a \in Answers("diff") :
       /\ a.diff \subseteq {"tightens"} => a.before <= a.after
       /\ a.diff \subseteq {"widens"}   => a.after <= a.before
  /\ \A a \in Answers("suggested") : a.before <= a.suggested

\* What is told about a policy agrees with what it does.
ToldIsTrue == ExplainMirrorsRun /\ AnalysesAreSound

\* A deny entry blocks the printing of its credential unconditionally.
DenyBlocksReveal == \A a \in Answers("reveal") : a.denied => ~ a.reveal
=============================================================================
