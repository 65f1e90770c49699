------------------------------ MODULE RunCommand ------------------------------
(***************************************************************************)
(* `kavrix run`: concurrent invocations authorize themselves against the   *)
(* sealed authorization state and start a child.  Each reads the document  *)
(* twice, may wait for its operator, claims its grant uses one transition  *)
(* at a time, and audits what it did.  Meanwhile policies are stored and   *)
(* removed, grants issued and revoked, and time passes.                    *)
(***************************************************************************)
EXTENDS Naturals, Sequences, FiniteSets

CONSTANTS Grants, Policies,
          MaxUses,      \* MaxUses[g]: the grant's maxUses
          ExpiresAt,    \* ExpiresAt[g]: the last moment g can be used
          RingSize,     \* MAX_AUDIT_RING
          Runs,
          Wanted,       \* Wanted[r]: the grants and policies r was given
          Project,      \* the policies the project file defines
          Denying,      \* the policies whose definition is `deny`
          Confirming,   \* those that require confirmation
          MaxChanges,   \* bound: changes by other commands
          MaxNow,       \* bound: the clock
          MaxFaults     \* bound: transitions that fail

-----------------------------------------------------------------------------
(* The sealed document of one database's policies, grants and audit ring,  *)
(* as the transitions of class AuthorizationState make it: each operator   *)
(* is the document one locked transition publishes.  All policies and      *)
(* grants are about one credential.                                        *)

Outcomes == {"allowed", "revoked", "expired", "exhausted", "not-found"}

Grant == [used : Nat, revoked : BOOLEAN]
Empty == [policies |-> {}, grants |-> [g \in {} |-> {}], audit |-> <<>>]

\* Mutant: events are numbered by their place in the ring.
NumberedByPlace(audit, who, act) ==
  LET next == Append(audit, [seq |-> Len(audit) + 1, who |-> who, act |-> act])
  IN IF Len(next) > RingSize THEN Tail(next) ELSE next

\* appendAudit.
Audited(audit, who, act) ==
  LET seq  == IF audit = <<>> THEN 1 ELSE audit[Len(audit)].seq + 1
      next == Append(audit, [seq |-> seq, who |-> who, act |-> act])
  IN IF Len(next) > RingSize THEN Tail(next) ELSE next

RecordEvent(d, who, act) == [d EXCEPT !.audit = Audited(@, who, act)]

PutPolicy(d, p) ==
  [RecordEvent(d, "operator", "policy-created") EXCEPT !.policies = @ \cup {p}]
RemovePolicy(d, p) ==
  [RecordEvent(d, "operator", "policy-removed") EXCEPT !.policies = @ \ {p}]

Stored(d) == DOMAIN d.grants

PutGrant(d, g) ==
  [RecordEvent(d, "operator", "grant-created") EXCEPT
     !.grants = [h \in Stored(d) \cup {g} |->
                  IF h = g THEN [used |-> 0, revoked |-> FALSE] ELSE d.grants[h]]]
RevokeGrant(d, g) ==
  [RecordEvent(d, "operator", "grant-revoked") EXCEPT !.grants[g].revoked = TRUE]

\* The checks consumeGrantUse and evaluateGrantUse make, in their order.
Usable(d, g, at) == IF g \notin Stored(d) THEN "not-found"
                    ELSE IF d.grants[g].revoked THEN "revoked"
                    ELSE IF at > ExpiresAt[g] THEN "expired"
                    ELSE IF d.grants[g].used >= MaxUses[g] THEN "exhausted"
                    ELSE "allowed"

\* consumeGrantUse: the use, or its refusal, is audited in the same document.
Consumed(d, g, who, at) ==
  LET outcome == Usable(d, g, at)
      next    == RecordEvent(d, who, IF outcome = "allowed" THEN "allowed" ELSE "denied")
  IN IF outcome = "allowed" THEN [next EXCEPT !.grants[g].used = @ + 1] ELSE next

-----------------------------------------------------------------------------
VARIABLES doc,       \* the document
          present,   \* its file exists
          pc, held,  \* held[r]: the document r resolved its grants in
          claimed,   \* claimed[r]: the grants r has reserved a use of
          denier,    \* denier[r]: the deny policies stored ever since r began
          end,       \* end[r]: how r ended
          logged,    \* how many events were ever audited, and of which run
          now, changes, faults

run    == <<pc, held, claimed, end>>
world  == <<now, changes>>
vars == <<doc, present, run, denier, logged, world, faults>>

TypeOK == /\ doc.policies \subseteq Policies /\ Stored(doc) \subseteq Grants
          /\ Len(doc.audit) <= RingSize /\ present \in BOOLEAN
          /\ pc \in [Runs -> {"start", "create", "resolved", "denying", "asking",
                              "answered", "planning", "claiming", "allowing",
                              "spawning", "running", "done"}]
          /\ claimed \in [Runs -> Seq(Grants)]
          /\ denier \in [Runs -> SUBSET Denying]
          /\ end \in [Runs -> {"none", "invalid", "failed", "denied", "refused",
                               "unconfirmed", "unstarted", "ran"}]
          /\ {now, changes, faults} \subseteq Nat

None == [r \in Runs |-> 0]

\* What the schemas guarantee of the constants.
ConstantsFit == /\ RingSize \in Nat \ {0}
                /\ \A g \in Grants : MaxUses[g] \in Nat
                /\ \A r \in Runs : Wanted[r].grants \in Seq(Grants)

Init == /\ doc = Empty /\ present = FALSE
        /\ pc = [r \in Runs |-> "start"]
        /\ held = [r \in Runs |-> Empty]
        /\ claimed = [r \in Runs |-> <<>>]
        /\ denier = [r \in Runs |-> {}]
        /\ end = [r \in Runs |-> "none"]
        /\ logged = [all |-> 0, allowed |-> None, denied |-> None]
        /\ now = 0 /\ changes = 0 /\ faults = 0

Goto(r, label) == pc' = [pc EXCEPT ![r] = label] /\ UNCHANGED end
End(r, how)    == pc' = [pc EXCEPT ![r] = "done"] /\ end' = [end EXCEPT ![r] = how]

\* The events a transition added, counted by their subject.
Count(next, act, of) ==
  LET new == {e \in {next.audit[i] : i \in DOMAIN next.audit} :
                \A i \in DOMAIN doc.audit : e # doc.audit[i]}
  IN [r \in Runs |-> of[r] + IF \E e \in new : e.who = r /\ e.act = act THEN 1 ELSE 0]

Publish(next) ==
  /\ doc' = next /\ UNCHANGED present
  /\ logged' = [all     |-> logged.all + IF next.audit = doc.audit THEN 0 ELSE 1,
                allowed |-> Count(next, "allowed", logged.allowed),
                denied  |-> Count(next, "denied", logged.denied)]

-----------------------------------------------------------------------------
(* AuthorizationState.open.                                                *)

\* executeRun: the first read resolves the grants; an absent file is created.
Open(r) ==
  /\ pc[r] = "start"
  /\ IF ~ present THEN Goto(r, "create") /\ UNCHANGED <<held, denier>>
     ELSE /\ held' = [held EXCEPT ![r] = [Empty EXCEPT !.grants = doc.grants]]
          /\ denier' = [denier EXCEPT ![r] = doc.policies \cap Denying]
          /\ IF \A i \in DOMAIN Wanted[r].grants : Wanted[r].grants[i] \in Stored(doc)
             THEN Goto(r, "resolved") ELSE End(r, "invalid")
  /\ UNCHANGED <<doc, present, claimed, logged, world, faults>>

\* initializeAuthorizationStateFile: a file that came into being meanwhile is
\* an error, not a document to read.
Create(r) ==
  /\ pc[r] = "create"
  /\ IF ~ present THEN doc' = Empty /\ present' = TRUE /\ Goto(r, "start")
     ELSE End(r, "failed") /\ UNCHANGED <<doc, present>>
  /\ UNCHANGED <<held, claimed, denier, logged, world, faults>>

-----------------------------------------------------------------------------
(* authorizeAndSpawn.                                                      *)

GrantsUsable(r) == \A i \in DOMAIN Wanted[r].grants :
                     Usable(held[r], Wanted[r].grants[i], now) = "allowed"

\* The second read.  Policies are looked up there, grants are evaluated as the
\* first read resolved them; the executable may fit none of them.
Authorize(r) ==
  /\ pc[r] = "resolved"
  /\ \/ /\ ~ Wanted[r].policies \subseteq doc.policies \cup Project
        /\ End(r, "invalid")
     \/ /\ Wanted[r].policies \subseteq doc.policies \cup Project
        /\ Goto(r, "denying")
     \/ /\ Wanted[r].policies \subseteq doc.policies \cup Project
        /\ doc.policies \cap Denying = {}
        /\ GrantsUsable(r)
        /\ Goto(r, IF Wanted[r].policies \cap Confirming # {} THEN "asking" ELSE "planning")
  /\ UNCHANGED <<doc, present, held, claimed, denier, logged, world, faults>>

\* denyExecution.
RecordDenial(r) == /\ pc[r] = "denying"
                   /\ Publish(RecordEvent(doc, r, "denied"))
                   /\ End(r, "denied")
                   /\ UNCHANGED <<held, claimed, denier, world, faults>>

Answer(r) == /\ pc[r] = "asking"
             /\ Goto(r, "answered")
             /\ UNCHANGED <<doc, present, held, claimed, denier, logged, world, faults>>

RecordAnswer(r) == /\ pc[r] = "answered"
                   /\ \E act \in {"granted", "declined"} :
                        /\ Publish(RecordEvent(doc, r, act))
                        /\ IF act = "granted" THEN Goto(r, "planning")
                           ELSE End(r, "unconfirmed")
                   /\ UNCHANGED <<held, claimed, denier, world, faults>>

\* buildInjections: a missing or empty credential ends the run here.
Plan(r) == /\ pc[r] = "planning"
           /\ \/ Goto(r, "claiming")
              \/ End(r, "invalid")
           /\ UNCHANGED <<doc, present, held, claimed, denier, logged, world, faults>>

\* Mutant: the use is counted on the record resolved at the start.
ClaimHeld(r) ==
  /\ pc[r] = "claiming" /\ Len(claimed[r]) < Len(Wanted[r].grants)
  /\ LET g == Wanted[r].grants[Len(claimed[r]) + 1]
     IN /\ Publish([Consumed([held[r] EXCEPT !.audit = doc.audit], g, r, now)
                      EXCEPT !.policies = doc.policies])
        /\ IF Usable(held[r], g, now) = "allowed"
           THEN claimed' = [claimed EXCEPT ![r] = Append(@, g)] /\ Goto(r, "claiming")
           ELSE End(r, "refused") /\ UNCHANGED claimed
  /\ UNCHANGED <<held, denier, world, faults>>

\* consumeGrantUse of the next grant.
Claim(r) ==
  /\ pc[r] = "claiming" /\ Len(claimed[r]) < Len(Wanted[r].grants)
  /\ LET g == Wanted[r].grants[Len(claimed[r]) + 1]
     IN /\ Publish(Consumed(doc, g, r, now))
        /\ IF Usable(doc, g, now) = "allowed"
           THEN claimed' = [claimed EXCEPT ![r] = Append(@, g)] /\ Goto(r, "claiming")
           ELSE End(r, "refused") /\ UNCHANGED claimed
  /\ UNCHANGED <<held, denier, world, faults>>

\* Every use is claimed; a run with policies records its allowance first.
Claimed(r) == /\ pc[r] = "claiming" /\ Len(claimed[r]) = Len(Wanted[r].grants)
              /\ Goto(r, IF Wanted[r].policies = {} THEN "spawning" ELSE "allowing")
              /\ UNCHANGED <<doc, present, held, claimed, denier, logged, world, faults>>

RecordAllowance(r) == /\ pc[r] = "allowing"
                      /\ Publish(RecordEvent(doc, r, "allowed"))
                      /\ Goto(r, "spawning")
                      /\ UNCHANGED <<held, claimed, denier, world, faults>>

Spawn(r) == /\ pc[r] = "spawning"
            /\ Goto(r, "running") \/ End(r, "unstarted")
            /\ UNCHANGED <<doc, present, held, claimed, denier, logged, world, faults>>

Complete(r) == /\ pc[r] = "running"
               /\ Publish(RecordEvent(doc, r, "completed"))
               /\ End(r, "ran")
               /\ UNCHANGED <<held, claimed, denier, world, faults>>

\* A transition fails before it publishes: what was decided stands, except
\* that no run goes on without its claim or its allowance.
Fault(r) == /\ faults < MaxFaults /\ faults' = faults + 1
            /\ \/ pc[r] = "denying"  /\ End(r, "denied")
               \/ pc[r] = "running"  /\ End(r, "ran")
               \/ pc[r] \in {"answered", "allowing"} /\ End(r, "failed")
               \/ /\ pc[r] = "claiming" /\ Len(claimed[r]) < Len(Wanted[r].grants)
                  /\ End(r, "failed")
            /\ UNCHANGED <<doc, present, held, claimed, denier, logged, world>>

-----------------------------------------------------------------------------
(* Other commands, and time.                                               *)

Change == /\ present /\ changes < MaxChanges /\ changes' = changes + 1
          /\ \/ \E p \in Policies \ doc.policies :
                  Publish(PutPolicy(doc, p)) /\ UNCHANGED denier
             \/ \E p \in doc.policies :
                  /\ Publish(RemovePolicy(doc, p))
                  /\ denier' = [r \in Runs |-> denier[r] \ {p}]
             \/ \E g \in Grants \ Stored(doc) :
                  Publish(PutGrant(doc, g)) /\ UNCHANGED denier
             \/ \E g \in Stored(doc) :
                  /\ ~ doc.grants[g].revoked
                  /\ Publish(RevokeGrant(doc, g)) /\ UNCHANGED denier
          /\ UNCHANGED <<run, now, faults>>

Tick == /\ now < MaxNow /\ now' = now + 1
        /\ UNCHANGED <<doc, present, run, denier, logged, changes, faults>>

Next == \/ \E r \in Runs : \/ Open(r) \/ Create(r) \/ Authorize(r) \/ RecordDenial(r)
                           \/ Answer(r) \/ RecordAnswer(r) \/ Plan(r) \/ Claim(r)
                           \/ Claimed(r) \/ RecordAllowance(r) \/ Spawn(r)
                           \/ Complete(r) \/ Fault(r)
        \/ Change \/ Tick

Spec == Init /\ [][Next]_vars

-----------------------------------------------------------------------------
Spawned(r) == pc[r] = "running" \/ end[r] = "ran"

\* The uses of g that runs have claimed, by their place.
ClaimsOf(g) ==
  UNION {{<<r, i>> : i \in {j \in DOMAIN claimed[r] : claimed[r][j] = g}} : r \in Runs}

\* Concurrent runs never claim more uses of a grant than it has, the document
\* counts each claim exactly once, and a run that ends before it comes to claim
\* burns no use.
UsesAreClaims ==
  /\ \A r \in Runs : end[r] \in {"invalid", "denied", "unconfirmed"} => claimed[r] = <<>>
  /\ present => \A g \in Stored(doc) : /\ doc.grants[g].used <= MaxUses[g]
                                        /\ doc.grants[g].used = Cardinality(ClaimsOf(g))

\* Every use is traceable: a child that runs was preceded by an audited
\* allowance for each grant and for its policies, and a claim that was refused
\* left exactly one denial.
VerdictsTraced ==
  \A r \in Runs :
    /\ Spawned(r) => logged.allowed[r] = Len(Wanted[r].grants)
                                           + IF Wanted[r].policies = {} THEN 0 ELSE 1
    /\ end[r] = "refused" => logged.denied[r] = 1
    /\ logged.denied[r] > 0 => ~ Spawned(r)

\* A deny policy that was stored before the run began, and stayed, blocks it,
\* whether or not the run selected it.
DenyBlocks == \A r \in Runs : Spawned(r) => denier[r] = {}

\* What a run does was allowed, is counted and is on record.
RunsAreAuthorized == UsesAreClaims /\ VerdictsTraced /\ DenyBlocks

\* The ring holds the last events, numbered without a gap or a repetition,
\* however many runs and commands recorded them.
AuditIsTail == present =>
  /\ Len(doc.audit) = IF logged.all < RingSize THEN logged.all ELSE RingSize
  /\ \A i \in DOMAIN doc.audit :
       doc.audit[i].seq = logged.all - Len(doc.audit) + i
=============================================================================
