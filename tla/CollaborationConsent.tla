--------------------------- MODULE CollaborationConsent ---------------------------
(***************************************************************************)
(* What the members of a collaborative vault consent to, as the schemas    *)
(* and signatures of packages/schemas and packages/crypto define it: an    *)
(* approval of an administrative request by a second owner, a transfer of  *)
(* ownership that its recipient accepts, and the destruction of a vault.   *)
(* What is signed is a fixed core; the record around it (its state, its    *)
(* times, the consent it collected) is unsigned and travels through a      *)
(* server, so a reader may be given any record that can be put together of *)
(* what was signed.  A signature holds for the domain, the device and the  *)
(* value it was made with; a digest is the value it digests.  The reader,  *)
(* which calls every verification there is, is not part of the code.       *)
(***************************************************************************)
EXTENDS Naturals, FiniteSets

CONSTANTS Devices,     \* devices of owners
          Askers,      \* those that ask for something
          PrincipalOf, \* whose they are
          Heads,       \* heads of the vault that devices may have seen
          Actions,     \* digests of action parameters
          Lifetime, MaxSigned, MaxNow,
          None

\* A lifetime is a duration.
ConstantsFit == Lifetime \in Nat

VARIABLES signed,      \* the statements signed so far
          clock,
          accepted     \* the record that the reader verified last

consentVars == <<signed, clock, accepted>>

Signs(domain, d, value) == signed' = signed \union {[domain |-> domain, by |-> d, of |-> value]}
Verifies(domain, d, value) == [domain |-> domain, by |-> d, of |-> value] \in signed
Values(domain) == {s.of : s \in {s \in signed : s.domain = domain}}

Terminal == {"expired", "cancelled", "conflicted"}

-----------------------------------------------------------------------------
(* Approval requests.                                                      *)

Policies == {"none", "one-additional-owner"}
RequestStates == {"pending", "quorum-reached", "consumed"} \union Terminal

\* The core of a request: what an owner asks to do, where, and until when.
RequestCore(d, head, action, policy) ==
  [requester |-> d, head |-> head, action |-> action, policy |-> policy,
   expires |-> clock + Lifetime]

\* Approval evidence repeats the request that it is for.
EvidenceFor(core, d) == [request |-> core, head |-> core.head,
                         requester |-> PrincipalOf[core.requester], approver |-> d]

WellFormedEvidence(e) == e.requester # PrincipalOf[e.approver]

\* Mutant: evidence is compared with the place of a request, not with its digest.
BindsPlace(e, core) == /\ e.head = core.head
                       /\ e.requester = PrincipalOf[core.requester]

BindsRequest(e, core) == /\ e.request = core
                         /\ e.head = core.head
                         /\ e.requester = PrincipalOf[core.requester]

WellFormedRequest(r) ==
  /\ \A e, f \in r.approvals : e.approver = f.approver => e = f
  /\ \A e \in r.approvals : WellFormedEvidence(e) /\ BindsRequest(e, r.core)
  /\ r.core.policy = "none" => r.approvals = {}
  /\ r.core.policy = "one-additional-owner" /\ r.state \in {"quorum-reached", "consumed"}
       => Cardinality(r.approvals) = 1
  /\ (r.state \in Terminal \union {"consumed"}) <=> (r.resolved # None)
  /\ r.state = "expired" => r.resolved >= r.core.expires

VerifyRequest(r) == /\ WellFormedRequest(r)
                    /\ Verifies("request", r.core.requester, r.core)
                    /\ \A e \in r.approvals : Verifies("evidence", e.approver, e)

-----------------------------------------------------------------------------
(* Ownership transfers.                                                    *)

TransferStates == {"intent-created", "initiator-signed", "recipient-accepted", "published"}
                    \union Terminal

TransferCore(d, to, head) ==
  [initiator |-> d, recipient |-> to, head |-> head, created |-> clock,
   expires |-> clock + Lifetime]

AcceptanceOf(core, at) == [intent |-> core, recipient |-> core.recipient, at |-> at]

BindsIntent(a, core) == a.intent = core /\ a.recipient = core.recipient

WellFormedTransfer(t) ==
  /\ PrincipalOf[t.core.initiator] # PrincipalOf[t.core.recipient]
  /\ t.acceptance # None => /\ BindsIntent(t.acceptance, t.core)
                            /\ t.acceptance.at \in t.core.created..t.core.expires
  /\ (t.state \in Terminal) <=> (t.terminal # None)
  /\ t.state = "intent-created" => ~t.signed /\ t.acceptance = None
  /\ t.state \in {"initiator-signed", "recipient-accepted", "published"} => t.signed
  /\ t.state \in {"recipient-accepted", "published"} => t.acceptance # None
  /\ t.state = "expired" => t.terminal >= t.core.expires

VerifyTransfer(t) ==
  /\ WellFormedTransfer(t)
  /\ t.signed /\ Verifies("intent", t.core.initiator, t.core)
  /\ t.acceptance # None => Verifies("acceptance", t.acceptance.recipient, t.acceptance)

-----------------------------------------------------------------------------
(* Destruction, and the outcomes of operations.                            *)

\* The terminal core of a vault, and what commits to it: the mutation whose
\* payload it is, the owner's transition, and the receipt of the outcome.
DestructionCore(d, head, action) == [actor |-> d, prior |-> head, action |-> action]

MutationOf(core) == [kind |-> "destroy-vault", writer |-> core.actor, previous |-> core.prior,
                     payload |-> core]

\* The digest of an outcome covers all of it but the receipt.
OutcomeOf(mutation, retained) ==
  [kind |-> mutation.kind, actor |-> mutation.writer, prior |-> mutation.previous,
   head |-> mutation, state |-> "committed", retained |-> retained]

ReceiptOf(outcome) == [kind |-> outcome.kind, actor |-> outcome.actor, prior |-> outcome.prior,
                       head |-> outcome.head, outcome |-> outcome]

\* A committed outcome carries a receipt of exactly it; no other outcome has one.
WellFormedOutcome(o) ==
  /\ (o.body.state = "committed") <=> (o.receipt # None)
  /\ o.receipt # None => /\ o.receipt.kind = o.body.kind /\ o.receipt.actor = o.body.actor
                         /\ o.receipt.prior = o.body.prior /\ o.receipt.head = o.body.head
                         /\ o.receipt.outcome = o.digest

VerifyCommittedOutcome(o) == /\ WellFormedOutcome(o)
                             /\ o.body.state = "committed"
                             /\ o.digest = o.body
                             /\ Verifies("receipt", o.receipt.actor, o.receipt)

\* What a destroyed vault leaves: core, link, transition and receipt are of one
\* operation of one actor.
WellFormedTombstone(t) ==
  /\ t.link.kind = "destroy-vault"
  /\ t.link.previous = t.core.prior
  /\ t.link.payload = t.payload
  /\ t.link.writer = t.core.actor
  /\ t.transition = [by |-> t.core.actor, of |-> t.link]
  /\ t.receipt.kind = "destroy-vault"
  /\ t.receipt.actor = t.core.actor
  /\ t.receipt.prior = t.core.prior
  /\ t.receipt.head = t.link
  /\ t.receipt.outcome = t.outcome

VerifyTombstone(t) == /\ WellFormedTombstone(t)
                      /\ t.payload = t.core
                      /\ Verifies("link", t.core.actor, t.link)
                      /\ Verifies("receipt", t.receipt.actor, t.receipt)

-----------------------------------------------------------------------------
(* Actions: devices sign, time passes, the reader is given a record.       *)

SignRequest(d) == \E head \in Heads, action \in Actions, policy \in Policies :
  Signs("request", d, RequestCore(d, head, action, policy))

\* An owner approves a request that verifies; its own one is not signed.
ApproveRequest(d) == \E core \in Values("request") :
  /\ WellFormedEvidence(EvidenceFor(core, d))
  /\ Signs("evidence", d, EvidenceFor(core, d))

SignIntent(d) == \E to \in Devices, head \in Heads :
  /\ PrincipalOf[d] # PrincipalOf[to]
  /\ Signs("intent", d, TransferCore(d, to, head))

AcceptTransfer(d) == \E core \in Values("intent") :
  /\ core.recipient = d
  /\ Signs("acceptance", d, AcceptanceOf(core, clock))

SignDestruction(d) == \E head \in Heads, action \in Actions :
  Signs("link", d, MutationOf(DestructionCore(d, head, action)))

SignReceipt(d) == \E m \in Values("link"), retained \in {1, 2} :
  /\ m.writer = d
  /\ Signs("receipt", d, ReceiptOf(OutcomeOf(m, retained)))

Sign == /\ Cardinality(signed) < MaxSigned
        /\ \/ \E d \in Askers  : SignRequest(d) \/ SignIntent(d) \/ SignDestruction(d)
           \/ \E d \in Devices : ApproveRequest(d) \/ AcceptTransfer(d) \/ SignReceipt(d)
        /\ UNCHANGED <<clock, accepted>>

Tick == clock < MaxNow /\ clock' = clock + 1 /\ UNCHANGED <<signed, accepted>>

Accepts(record) == accepted' = record /\ UNCHANGED <<signed, clock>>

Times == {None} \union 0..clock

ReadRequest ==
  \E core \in Values("request"), state \in RequestStates, resolved \in Times,
     approvals \in SUBSET Values("evidence") :
    LET r == [type |-> "request", core |-> core, state |-> state, resolved |-> resolved,
              approvals |-> approvals] IN
    VerifyRequest(r) /\ Accepts(r)

ReadTransfer ==
  \E core \in Values("intent"), state \in TransferStates, terminal \in Times,
     acceptance \in {None} \union Values("acceptance"), isSigned \in BOOLEAN :
    LET t == [type |-> "transfer", core |-> core, state |-> state, terminal |-> terminal,
              acceptance |-> acceptance, signed |-> isSigned] IN
    VerifyTransfer(t) /\ Accepts(t)

ReadOutcome ==
  \E m \in Values("link"), retained \in {1, 2}, receipt \in {None} \union Values("receipt"),
     state \in {"committed", "conflicted", "rejected"} :
    LET body == [OutcomeOf(m, retained) EXCEPT !.state = state]
        o == [type |-> "outcome", body |-> body, receipt |-> receipt,
              digest |-> IF receipt = None THEN body ELSE receipt.outcome] IN
    VerifyCommittedOutcome(o) /\ Accepts(o)

ReadTombstone ==
  \E d \in Devices, head \in Heads, action \in Actions, m \in Values("link"),
     receipt \in Values("receipt") :
    LET t == [type |-> "tombstone", core |-> DestructionCore(d, head, action), link |-> m,
              payload |-> m.payload, transition |-> [by |-> m.writer, of |-> m],
              receipt |-> receipt, outcome |-> receipt.outcome] IN
    VerifyTombstone(t) /\ Accepts(t)

Init == signed = {} /\ clock = 0 /\ accepted = None

Next == Sign \/ Tick \/ ReadRequest \/ ReadTransfer \/ ReadOutcome \/ ReadTombstone

Spec == Init /\ [][Next]_consentVars

-----------------------------------------------------------------------------
(* Properties.                                                             *)

\* A record that a reader verified says nothing that was not agreed to: at the
\* quorum of one additional owner, a device of another principal approved this
\* very request; an accepted transfer was accepted by its recipient within its
\* lifetime and is that of its initiator; a committed outcome and a destroyed
\* vault are those that their writer signed the receipt of.  Nothing expired
\* before its time.
ConsentIsReal ==
  accepted # None =>
    LET a == accepted IN
    CASE a.type = "request" ->
           /\ Verifies("request", a.core.requester, a.core)
           /\ a.core.policy = "one-additional-owner" /\ a.state \in {"quorum-reached", "consumed"}
                => \E d \in Devices : /\ PrincipalOf[d] # PrincipalOf[a.core.requester]
                                      /\ Verifies("evidence", d, EvidenceFor(a.core, d))
           /\ a.state = "expired" => clock >= a.core.expires
      [] a.type = "transfer" ->
           /\ Verifies("intent", a.core.initiator, a.core)
           /\ a.state \in {"recipient-accepted", "published"}
                => \E at \in a.core.created..a.core.expires :
                     Verifies("acceptance", a.core.recipient, AcceptanceOf(a.core, at))
           /\ a.state = "expired" => clock >= a.core.expires
      [] a.type = "outcome" ->
           Verifies("receipt", a.body.actor, ReceiptOf(a.body))
      [] a.type = "tombstone" ->
           /\ Verifies("link", a.core.actor, MutationOf(a.core))
           /\ \E retained \in {1, 2} :
                Verifies("receipt", a.core.actor, ReceiptOf(OutcomeOf(MutationOf(a.core), retained)))
=============================================================================
