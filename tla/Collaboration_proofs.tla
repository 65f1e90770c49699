-------------------------- MODULE Collaboration_proofs --------------------------
(***************************************************************************)
(* Proofs about collaborative vaults.  The store, for any number of        *)
(* operations and devices and any bounds: the links of a vault are one     *)
(* chain that ends in its document, every applied operation has one        *)
(* answer, and a denied device writes nothing.  The files of devices, for  *)
(* any operations, devices, processes and bounds: a journal keeps the      *)
(* bytes it was written with and agrees with what was published, and an    *)
(* anchor never goes back; machines that migrate a vault agree with it;    *)
(* and a device has one pair of keys.  The instances are those that        *)
(* MCCollaboration checks.                                                 *)
(***************************************************************************)
EXTENDS CollaborativeVaultStore, FiniteSetTheorems, TLAPS

-----------------------------------------------------------------------------
(* CollaborativeVaultStore: the inductive invariant.                        *)

Chain == Seq(SUBSET Devices)

Document == [rev : Nat \ {0}, head : Ops, auth : Ops, chain : Chain]

Link == [op : Ops, writer : Devices, chain : Chain, rev : Nat \ {0},
         prev : Ops \cup {None}, prevAuth : Ops \cup {None}, auth : Ops,
         witness : BOOLEAN]

\* A migration is prepared while there is no registry, and starts the first.
Preparation == [kind : {"begin", "genesis"}, writer : Devices, base : Nat, chain : {<<{}>>}]

Publication == [kind : {"write", "admin", "destroy"}, writer : Devices,
                base : Document, chain : Chain]

\* A registry request continues a registry that exists.
Registration == [kind : {"registry"}, writer : {None}, base : Chain,
                 chain : {c \in Chain : Len(c) > 1}]

Request == Preparation \cup Publication \cup Registration

TypeOK ==
  /\ db \in [registry : [chain : Chain, fence : Ops \cup {None}],
             legacy : [state : {"vault", "prepared", "active"}, rev : Nat,
                       op : Ops \cup {None}],
             vault : Document \cup {None}, grave : Ops \cup {None},
             links : SUBSET Link, outcomes : SUBSET Ops, tombs : SUBSET Ops,
             checks : SUBSET [at : Nat, prev : Nat]]
  /\ req \in [Ops -> Request \cup {None}]
  /\ DOMAIN view = Ops

\* The links L are one chain: revisions are numbered without gaps, each link
\* names its predecessor and the authorization state it found, and every
\* authorization state has a witness.
Follows(l, k) == l.rev = k.rev + 1 /\ l.prev = k.op /\ l.prevAuth = k.auth

Witnesses(k, l) == k.witness /\ k.auth = l.auth /\ k.rev <= l.rev

Chained(L) ==
  /\ IsFiniteSet(L) /\ L \subseteq Link
  /\ \A l \in L, k \in L : l.rev = k.rev => l = k
  /\ {l.rev : l \in L} = 1..Cardinality(L)
  /\ \A l \in L : l.rev > 1 => \E k \in L : Follows(l, k)
  /\ \A l \in L : \E k \in L : Witnesses(k, l)

\* The last link is the one that wrote the document or destroyed it.
TipInv ==
  /\ db.vault # None =>
       /\ db.grave = None
       /\ \E l \in db.links : /\ l.rev = Cardinality(db.links) /\ l.rev = db.vault.rev
                              /\ l.op = db.vault.head /\ l.auth = db.vault.auth
  /\ db.vault = None /\ db.links # {} =>
       \E l \in db.links : l.rev = Cardinality(db.links) /\ l.op = db.grave
  /\ db.links = {} => db.vault = None /\ db.grave = None

\* A vault is active once it has links, and has a registry only then.
LegacyInv ==
  /\ db.legacy.state = "active" <=> db.links # {}
  /\ db.legacy.state # "active" => db.registry.chain = <<>>
  /\ \A l \in db.links : l.rev = 1 => l.op = db.legacy.op

\* Every applied operation has one record, and none that is open was applied.
RecordInv ==
  /\ db.outcomes \cap db.tombs = {}
  /\ db.outcomes \cup db.tombs = Committed
  /\ \A o \in Ops : view[o] # None => req[o] # None /\ o \notin Committed

ChecksInv == \A k \in db.checks : /\ k.prev < k.at
                                  /\ k.prev # 0 => \E j \in db.checks : j.at = k.prev

IInv == TypeOK /\ Chained(db.links) /\ TipInv /\ LegacyInv /\ RecordInv /\ ChecksInv

-----------------------------------------------------------------------------
(* Chains.                                                                 *)

LEMMA ChainRevs ==
  ASSUME NEW L, Chained(L)
  PROVE  /\ Cardinality(L) \in Nat
         /\ \A l \in L : l.rev \in 1..Cardinality(L)
         /\ \A r \in 1..Cardinality(L) : \E l \in L : l.rev = r
         /\ L = {} <=> Cardinality(L) = 0
<1>1. Cardinality(L) \in Nat
  BY FS_CardinalityType DEF Chained
<1>2. L = {} <=> Cardinality(L) = 0
  BY FS_EmptySet DEF Chained
<1>3. \A l \in L : l.rev \in 1..Cardinality(L)
  BY DEF Chained
<1>4. \A r \in 1..Cardinality(L) : r \in {l.rev : l \in L}
  BY DEF Chained
<1> QED BY <1>1, <1>2, <1>3, <1>4

\* One more link on top: of the next revision, following the last one unless it
\* is the first, and with a witness.
LEMMA ChainGrows ==
  ASSUME NEW L, Chained(L), NEW x \in Link,
         x.rev = Cardinality(L) + 1,
         x.rev > 1 => \E k \in L : Follows(x, k),
         \/ x.witness
         \/ \E k \in L : Witnesses(k, x)
  PROVE  Chained(L \cup {x}) /\ Cardinality(L \cup {x}) = Cardinality(L) + 1
<1> DEFINE M == L \cup {x}
<1>1. Cardinality(L) \in Nat /\ \A l \in L : l.rev \in 1..Cardinality(L)
  BY ChainRevs
<1>2. x \notin L
  BY <1>1
<1>3. IsFiniteSet(M) /\ Cardinality(M) = Cardinality(L) + 1
  BY <1>2, FS_AddElement DEF Chained
<1>4. \A l \in M, k \in M : l.rev = k.rev => l = k
  BY <1>1 DEF Chained
<1>5. {l.rev : l \in M} = 1..Cardinality(M)
  <2>1. {l.rev : l \in M} = {l.rev : l \in L} \cup {x.rev}
    OBVIOUS
  <2>2. {l.rev : l \in L} = 1..Cardinality(L)
    BY DEF Chained
  <2>3. (1..Cardinality(L)) \cup {Cardinality(L) + 1} = 1..(Cardinality(L) + 1)
    BY <1>1
  <2> QED BY <1>3, <2>1, <2>2, <2>3
<1>6. \A l \in M : l.rev > 1 => \E k \in M : Follows(l, k)
  BY DEF Chained
<1>7. x.witness => Witnesses(x, x)
  <2>1. x.rev <= x.rev
    BY <1>1
  <2> QED BY <2>1 DEF Witnesses
<1>8. \A l \in M : \E k \in M : Witnesses(k, l)
  BY <1>7 DEF Chained
<1>9. M \subseteq Link
  BY DEF Chained
<1> HIDE DEF M
<1>10. Chained(M)
  BY <1>3, <1>4, <1>5, <1>6, <1>8, <1>9 DEF Chained
<1> QED BY <1>3, <1>10 DEF M

\* From any link on, every revision has a link that continues the one before,
\* and the state that the next link found has a witness by then.
LEMMA ChainContinues ==
  ASSUME NEW L, Chained(L), NEW l \in L, NEW r \in (l.rev + 1)..Cardinality(L)
  PROVE  \E m \in L, k \in L :
           /\ m.rev = r /\ l.rev < m.rev /\ k.rev = r - 1 /\ Follows(m, k)
           /\ r = l.rev + 1 => k = l
           /\ r # l.rev + 1 => l.rev < k.rev
<1>1. /\ Cardinality(L) \in Nat /\ \A a \in L : a.rev \in 1..Cardinality(L)
      /\ \A n \in 1..Cardinality(L) : \E a \in L : a.rev = n
  BY ChainRevs
<1>2. l.rev \in Nat /\ r \in Nat /\ r \in 1..Cardinality(L) /\ l.rev < r /\ r > 1
  BY <1>1
<1>3. PICK m \in L : m.rev = r
  BY <1>1, <1>2
<1>4. PICK k \in L : Follows(m, k)
  BY <1>2, <1>3 DEF Chained
<1>5. k.rev \in Nat /\ k.rev = r - 1
  BY <1>1, <1>2, <1>3, <1>4 DEF Follows
<1>6. r = l.rev + 1 => k = l
  BY <1>2, <1>5 DEF Chained
<1>7. r # l.rev + 1 => l.rev < k.rev
  BY <1>2, <1>5
<1> QED BY <1>2, <1>3, <1>4, <1>5, <1>6, <1>7

-----------------------------------------------------------------------------
(* What the invariant says of a store at rest.                             *)

\* The invariant of the links lets every stretch of the chain be proved.
LEMMA StretchesAreProvable ==
  ASSUME Chained(db.links), NEW tip,
         \E l \in db.links : l.rev = Cardinality(db.links) /\ l.op = tip,
         NEW a \in db.links, a.rev < Cardinality(db.links)
  PROVE  Provable(a.rev, a.op, Cardinality(db.links), tip)
<1> DEFINE n == Cardinality(db.links)
<1>1. n \in Nat /\ \A l \in db.links : l.rev \in 1..n
  BY ChainRevs
<1>2. ASSUME NEW r \in (a.rev + 1)..n
      PROVE  \E l \in LinksOf(a.rev, n) :
               /\ l.rev = r
               /\ IF r = a.rev + 1 THEN l.prev = a.op /\ HasWitness(l.prevAuth, a.rev)
                  ELSE \E k \in LinksOf(a.rev, n) : k.rev = r - 1 /\ l.prev = k.op
  <2>1. PICK m \in db.links, k \in db.links :
           /\ m.rev = r /\ a.rev < m.rev /\ k.rev = r - 1 /\ Follows(m, k)
           /\ r = a.rev + 1 => k = a
           /\ r # a.rev + 1 => a.rev < k.rev
    BY <1>2, ChainContinues
  <2>2. m \in LinksOf(a.rev, n) /\ m.rev = r /\ m.prev = k.op /\ m.prevAuth = k.auth
    BY <1>1, <1>2, <2>1 DEF LinksOf, Follows
  <2>3. CASE r = a.rev + 1
    <3>1. \E w \in db.links : Witnesses(w, a)
      BY DEF Chained
    <3>2. HasWitness(a.auth, a.rev)
      BY <3>1 DEF HasWitness, Witnesses
    <3> QED BY <2>1, <2>2, <2>3, <3>2
  <2>4. CASE r # a.rev + 1
    <3>1. k \in LinksOf(a.rev, n)
      BY <1>1, <2>1, <2>4 DEF LinksOf
    <3> QED BY <2>1, <2>2, <2>4, <3>1
  <2> QED BY <2>3, <2>4
<1>3. \E l \in LinksOf(a.rev, n) : l.rev = n /\ l.op = tip
  BY <1>1 DEF LinksOf
<1> QED BY <1>2, <1>3 DEF Provable

LEMMA Coherent == IInv => StoreIsCoherent
<1> SUFFICES ASSUME IInv PROVE StoreIsCoherent
  OBVIOUS
<1> DEFINE n == Cardinality(db.links)
           tip == IF db.vault # None THEN db.vault.head ELSE db.grave
<1>1. Chained(db.links) /\ TipInv /\ LegacyInv /\ ChecksInv
  BY DEF IInv
<1>2. n \in Nat /\ (db.links = {} <=> n = 0) /\ \A l \in db.links : l.rev \in 1..n
  BY <1>1, ChainRevs
<1>3. {l.rev : l \in db.links} = 1..n
  BY <1>1 DEF Chained
<1>4. db.links # {} => \E l \in db.links : l.rev = n /\ l.op = tip
  BY <1>1 DEF TipInv
<1>5. db.vault # None => db.grave = None /\ db.vault.rev = n
  BY <1>1 DEF TipInv
<1>6. n > 0 <=> db.legacy.state = "active"
  BY <1>1, <1>2 DEF LegacyInv
<1>7. \A l \in db.links : l.rev < n => Provable(l.rev, l.op, n, tip)
  BY <1>1, <1>4, StretchesAreProvable
<1>8. \A l \in db.links : l.rev = 1 => l.op = db.legacy.op
  BY <1>1 DEF LegacyInv
<1>9. \A k \in db.checks : /\ k.prev < k.at
                           /\ k.prev # 0 => \E j \in db.checks : j.at = k.prev
  BY <1>1 DEF ChecksInv
<1> HIDE DEF n, tip
<1>10. StoreIsCoherent
  <2>1. n = Cardinality(db.links) /\ tip = IF db.vault # None THEN db.vault.head ELSE db.grave
    BY DEF n, tip
  <2> QED BY <1>3, <1>5, <1>6, <1>7, <1>8, <1>9, <2>1 DEF StoreIsCoherent
<1> QED BY <1>10

LEMMA Answered == IInv => EveryCommitIsAnswered
<1> SUFFICES ASSUME IInv PROVE EveryCommitIsAnswered
  OBVIOUS
<1>1. db.outcomes \cap db.tombs = {} /\ db.outcomes \cup db.tombs = Committed
  BY DEF IInv, RecordInv
<1>2. "outcome" # None /\ "tombstone" # None
  BY ApartAssumption
<1> QED BY <1>1, <1>2 DEF EveryCommitIsAnswered, Outcome

-----------------------------------------------------------------------------
(* Steps that change no collection.                                        *)

LEMMA PrepareKept ==
  ASSUME IInv, NEW o \in Ops, NEW r \in Request, Prepare(o, r)
  PROVE  IInv'
<1>1. TypeOK'
  BY DEF IInv, TypeOK, Prepare
<1>2. RecordInv'
  BY DEF IInv, RecordInv, Prepare, Committed, TypeOK
<1> QED BY <1>1, <1>2 DEF IInv, Prepare, TipInv, LegacyInv, ChecksInv

LEMMA RequestsAreMade ==
  ASSUME IInv, NEW o \in Ops,
         \/ \E d \in Devices : PrepareGenesis(o, d)
         \/ \E kind \in Kinds, d \in Devices : PreparePublication(o, kind, d)
         \/ \E d \in Devices : PrepareRegistry(o, {d})
  PROVE  IInv'
<1>1. /\ db.vault \in Document \cup {None} /\ db.registry.chain \in Chain
      /\ db.legacy.rev \in Nat
      /\ db.legacy.state # "active" => db.registry.chain = <<>>
  BY DEF IInv, TypeOK, LegacyInv
<1>2. ASSUME NEW d \in Devices, PrepareGenesis(o, d) PROVE IInv'
  <2>1. db.registry.chain = <<>>
    BY <1>1, <1>2 DEF PrepareGenesis
  <2>2. [kind |-> "begin", writer |-> d, base |-> db.legacy.rev, chain |-> <<{}>>] \in Request
    BY <1>1 DEF Request, Preparation
  <2> QED BY <1>2, <2>1, <2>2, PrepareKept DEF PrepareGenesis
<1>3. ASSUME NEW kind \in Kinds, NEW d \in Devices, PreparePublication(o, kind, d) PROVE IInv'
  <2>1. [kind |-> kind, writer |-> d, base |-> db.vault, chain |-> db.registry.chain]
          \in Request
    BY <1>1, <1>3 DEF Request, Publication, PreparePublication
  <2> QED BY <1>3, <2>1, PrepareKept DEF PreparePublication
<1>4. ASSUME NEW d \in Devices, PrepareRegistry(o, {d}) PROVE IInv'
  <2> DEFINE old == db.registry.chain
             next == Append(old, Last(old) \cup {d})
  <2>1. old \in Chain /\ old # <<>>
    BY <1>1, <1>4 DEF PrepareRegistry
  <2>2. Len(old) \in Nat /\ Len(old) > 0 /\ Last(old) \in SUBSET Devices
    BY <2>1 DEF Chain, Last
  <2>3. next \in Chain /\ Len(next) > 1
    BY <2>1, <2>2 DEF Chain
  <2>4. [kind |-> "registry", writer |-> None, base |-> old, chain |-> next] \in Request
    BY <2>1, <2>3 DEF Request, Registration
  <2> QED BY <1>4, <2>4, PrepareKept DEF PrepareRegistry
<1> QED BY <1>2, <1>3, <1>4

LEMMA SessionsKept ==
  ASSUME IInv, NEW o \in Ops, Open(o) \/ Abort(o)
  PROVE  IInv'
<1>1. RecordInv'
  <2>1. \A p \in Ops : view'[p] # None => req[p] # None /\ p \notin Committed
    BY DEF IInv, RecordInv, TypeOK, Open, Abort, Recorded
  <2> QED BY <2>1 DEF IInv, RecordInv, Open, Abort, Committed
<1> QED BY <1>1 DEF IInv, TypeOK, Open, Abort, TipInv, LegacyInv, ChecksInv

-----------------------------------------------------------------------------
(* Steps that add no link.                                                 *)

LEMMA Maintained ==
  ASSUME IInv, LegacyWrite \/ \E o \in Ops : Compact(o)
  PROVE  IInv'
<1>1. CASE LegacyWrite
  <2>1. /\ db'.links = db.links /\ db'.vault = db.vault /\ db'.grave = db.grave
        /\ db'.checks = db.checks /\ db'.outcomes = db.outcomes /\ db'.tombs = db.tombs
        /\ db'.registry = db.registry /\ db'.legacy.state = db.legacy.state
        /\ db'.legacy.op = db.legacy.op
    BY <1>1 DEF LegacyWrite, IInv, TypeOK
  <2>2. TypeOK'
    BY <1>1 DEF LegacyWrite, IInv, TypeOK
  <2> QED BY <1>1, <2>1, <2>2
          DEF LegacyWrite, IInv, TipInv, LegacyInv, RecordInv, ChecksInv, Committed
<1>2. ASSUME NEW o \in Ops, Compact(o) PROVE IInv'
  <2>1. /\ db'.links = db.links /\ db'.vault = db.vault /\ db'.grave = db.grave
        /\ db'.checks = db.checks /\ db'.outcomes = db.outcomes \ {o}
        /\ db'.tombs = db.tombs \cup {o} /\ o \in db.outcomes
        /\ db'.registry = db.registry /\ db'.legacy = db.legacy
    BY <1>2 DEF Compact, IInv, TypeOK
  <2>2. TypeOK'
    BY <1>2 DEF Compact, IInv, TypeOK
  <2>3. RecordInv'
    <3>1. Committed' = Committed /\ view' = view /\ req' = req
      BY <1>2, <2>1 DEF Compact, Committed
    <3>2. db'.outcomes \cap db'.tombs = {} /\ db'.outcomes \cup db'.tombs = Committed
      BY <2>1 DEF IInv, RecordInv
    <3> QED BY <3>1, <3>2 DEF IInv, RecordInv
  <2> QED BY <2>1, <2>2, <2>3 DEF IInv, TipInv, LegacyInv, ChecksInv
<1> QED BY <1>1, <1>2

LEMMA CheckpointKept ==
  ASSUME IInv, NEW at \in Nat \ {0}, NEW prev \in Nat, Checkpoint(at, prev)
  PROVE  IInv'
<1>1. /\ db'.links = db.links /\ db'.vault = db.vault /\ db'.grave = db.grave
      /\ db'.checks = db.checks \cup {[at |-> at, prev |-> prev]}
      /\ db'.outcomes = db.outcomes /\ db'.tombs = db.tombs
      /\ db'.registry = db.registry /\ db'.legacy = db.legacy
  BY DEF Checkpoint, IInv, TypeOK
<1>2. TypeOK'
  BY DEF Checkpoint, IInv, TypeOK
<1>3. RecordInv'
  BY <1>1 DEF Checkpoint, IInv, RecordInv, Committed
<1>4. ChecksInv'
  <2>1. prev < at /\ (prev # 0 => \E j \in db.checks : j.at = prev)
    BY DEF Checkpoint
  <2> QED BY <1>1, <2>1 DEF IInv, ChecksInv
<1> QED BY <1>1, <1>2, <1>3, <1>4 DEF IInv, TipInv, LegacyInv

-----------------------------------------------------------------------------
(* The steps of a transaction.                                             *)

\* What a commit reads of the documents it finds unchanged.
LEMMA FreshIs ==
  ASSUME NEW o \in Ops, NEW docs, Fresh(o, docs), NEW d \in docs
  PROVE  db[d] = view[o][d]
BY DEF Fresh

\* The link x is added for o, which gets its outcome; its transaction is over.
Adds(o, x) == /\ db'.links = db.links \cup {x}
              /\ db'.outcomes = db.outcomes \cup {o}
              /\ db'.tombs = db.tombs /\ db'.checks = db.checks
              /\ req' = req /\ view' = [view EXCEPT ![o] = None]

\* A link of the next revision extends the chain and gets one record.
LEMMA LinkAdded ==
  ASSUME IInv, NEW o \in Ops, view[o] # None, NEW x \in Link, x.op = o, Adds(o, x),
         x.rev = Cardinality(db.links) + 1,
         x.rev > 1 => \E k \in db.links : Follows(x, k),
         \/ x.witness
         \/ \E k \in db.links : Witnesses(k, x)
  PROVE  /\ Chained(db.links)' /\ RecordInv' /\ ChecksInv'
         /\ Cardinality(db'.links) = x.rev
<1>1. Chained(db.links \cup {x}) /\ Cardinality(db.links \cup {x}) = Cardinality(db.links) + 1
  <2>1. Chained(db.links)
    BY DEF IInv
  <2> QED BY <2>1, ChainGrows
<1>2. Chained(db'.links) /\ Cardinality(db'.links) = x.rev
  BY <1>1 DEF Adds
<1>3. o \notin Committed /\ o \notin db.outcomes /\ o \notin db.tombs
  BY DEF IInv, RecordInv
<1>4. Committed' = Committed \cup {o}
  BY DEF Adds, Committed
<1>5. \A p \in Ops : view'[p] # None => req'[p] # None /\ p \notin Committed'
  BY <1>4 DEF Adds, IInv, TypeOK, RecordInv
<1>6. RecordInv'
  <2>1. db'.outcomes \cap db'.tombs = {} /\ db'.outcomes \cup db'.tombs = Committed'
    BY <1>3, <1>4 DEF Adds, IInv, RecordInv
  <2> QED BY <1>5, <2>1 DEF RecordInv
<1>7. ChecksInv'
  BY DEF Adds, IInv, ChecksInv
<1> QED BY <1>2, <1>6, <1>7

\* The link and the document of a publication prepared against the live document.
LEMMA PublicationIs ==
  ASSUME IInv, NEW o \in Ops, req[o] \in Publication, db.vault = req[o].base
  PROVE  /\ LinkOf(o) \in Link /\ DocumentOf(o) \in Document /\ LinkOf(o).op = o
         /\ LinkOf(o).chain = req[o].chain /\ LinkOf(o).writer = req[o].writer
         /\ LinkOf(o).rev = Cardinality(db.links) + 1
         /\ DocumentOf(o).rev = LinkOf(o).rev /\ DocumentOf(o).head = o
         /\ DocumentOf(o).auth = LinkOf(o).auth
         /\ db.vault # None /\ db.grave = None /\ db.links # {}
         /\ \E k \in db.links : Follows(LinkOf(o), k)
         /\ \/ LinkOf(o).witness
            \/ \E k \in db.links : Witnesses(k, LinkOf(o))
<1> DEFINE r == req[o]
<1>1. /\ r.kind \in {"write", "admin", "destroy"} /\ r.writer \in Devices
      /\ r.base \in Document /\ r.chain \in Chain
  BY DEF Publication
<1>2. db.vault # None
  BY <1>1, ApartAssumption DEF Document, Chain
<1>3. PICK k \in db.links : /\ k.rev = Cardinality(db.links) /\ k.rev = db.vault.rev
                            /\ k.op = db.vault.head /\ k.auth = db.vault.auth
  BY <1>2 DEF IInv, TipInv
<1>4. r.base.rev \in Nat \ {0} /\ r.base.head \in Ops /\ r.base.auth \in Ops
  BY <1>1 DEF Document
<1>5. LinkOf(o) = [op |-> o, writer |-> r.writer, chain |-> r.chain,
                   rev |-> r.base.rev + 1, prev |-> r.base.head, prevAuth |-> r.base.auth,
                   auth |-> IF r.kind = "admin" THEN o ELSE r.base.auth,
                   witness |-> r.kind # "write"]
  BY <1>1 DEF LinkOf
<1> HIDE DEF r
<1>6. LinkOf(o) \in Link
  BY <1>1, <1>4, <1>5 DEF Link
<1>7. DocumentOf(o) = [rev |-> LinkOf(o).rev, head |-> o, auth |-> LinkOf(o).auth,
                       chain |-> LinkOf(o).chain]
  BY DEF DocumentOf
<1>8. DocumentOf(o) \in Document
  BY <1>6, <1>7 DEF Link, Document
<1>9. Follows(LinkOf(o), k)
  BY <1>3, <1>5 DEF Follows, r
<1>10. LinkOf(o).witness \/ \E w \in db.links : Witnesses(w, LinkOf(o))
  <2>1. CASE r.kind # "write"
    <3>1. LinkOf(o).witness = (r.kind # "write")
      BY <1>5
    <3>2. (r.kind # "write") = TRUE
      BY <2>1
    <3> QED BY <3>1, <3>2, Zenon
  <2>2. CASE r.kind = "write"
    <3>1. PICK w \in db.links : Witnesses(w, k)
      BY DEF IInv, Chained
    <3>2. LinkOf(o).auth = k.auth /\ LinkOf(o).rev = k.rev + 1
      BY <1>3, <1>5, <2>2 DEF r
    <3>3. w.rev \in Nat /\ k.rev \in Nat
      BY DEF IInv, Chained, Link
    <3>4. Witnesses(w, LinkOf(o))
      BY <3>1, <3>2, <3>3 DEF Witnesses
    <3> QED BY <3>4
  <2> QED BY <2>1, <2>2
<1>11. db.grave = None
  BY <1>2 DEF IInv, TipInv
<1>12. LinkOf(o).rev = Cardinality(db.links) + 1
  BY <1>3, <1>5 DEF r
<1> QED BY <1>2, <1>3, <1>5, <1>6, <1>7, <1>8, <1>9, <1>10, <1>11, <1>12 DEF r

\* publishDatabaseDeviceRegistry and the two halves of a migration's begin.
LEMMA RegistryPublished ==
  ASSUME IInv, NEW o \in Ops, view[o] # None, PublishRegistry(o), UNCHANGED req, Close(o)
  PROVE  IInv'
<1>1. req[o] \in Registration
  BY DEF IInv, TypeOK, RecordInv, PublishRegistry, Request, Preparation, Publication
<1>2. req[o].chain \in Chain /\ Len(req[o].chain) > 1
  BY <1>1 DEF Registration
<1>3. /\ db'.links = db.links /\ db'.vault = db.vault /\ db'.grave = db.grave
      /\ db'.checks = db.checks /\ db'.outcomes = db.outcomes /\ db'.tombs = db.tombs
      /\ db'.legacy = db.legacy /\ db'.registry = [chain |-> req[o].chain, fence |-> None]
  BY DEF PublishRegistry, IInv, TypeOK
<1>4. TypeOK'
  BY <1>2 DEF PublishRegistry, Close, IInv, TypeOK
<1>5. db.legacy.state = "active"
  <2>1. db["registry"] = view[o]["registry"]
    BY FreshIs DEF PublishRegistry
  <2>2. RegistryFits(db.registry.chain, req[o].chain)
    BY <2>1 DEF PublishRegistry
  <2>3. db.registry.chain # <<>>
    <3>1. Len(req[o].chain) # 1
      <4>1. \A c \in Chain : Len(c) \in Nat
        BY DEF Chain
      <4>2. \A n \in Nat : n > 1 => n # 1
        OBVIOUS
      <4>3. Len(req[o].chain) \in Nat
        BY <1>2, <4>1
      <4> QED BY <1>2, <4>2, <4>3
    <3> QED BY <2>2, <3>1 DEF RegistryFits
  <2> QED BY <2>3 DEF IInv, LegacyInv
<1>6. RecordInv'
  <2>1. Committed' = Committed
    BY <1>3 DEF Committed
  <2>2. \A p \in Ops : view'[p] # None => view[p] # None
    BY DEF Close, IInv, TypeOK
  <2> QED BY <1>3, <2>1, <2>2 DEF IInv, RecordInv
<1>7. LegacyInv'
  BY <1>3, <1>5 DEF IInv, LegacyInv
<1> QED BY <1>3, <1>4, <1>6, <1>7 DEF IInv, TipInv, ChecksInv

LEMMA MigrationBegun ==
  ASSUME IInv, NEW o \in Ops, view[o] # None, Begin(o) \/ Begun(o),
         req' = [req EXCEPT ![o].kind = "genesis"], Close(o)
  PROVE  IInv'
<1>1. req[o] \in Preparation
  BY DEF IInv, TypeOK, RecordInv, Begin, Begun, Request, Registration, Publication
<1>2. req' \in [Ops -> Request \cup {None}]
  <2>1. [req[o] EXCEPT !.kind = "genesis"] \in Preparation
    BY <1>1 DEF Preparation
  <2> QED BY <2>1 DEF IInv, TypeOK, Request
<1>3. /\ db'.links = db.links /\ db'.vault = db.vault /\ db'.grave = db.grave
      /\ db'.checks = db.checks /\ db'.outcomes = db.outcomes /\ db'.tombs = db.tombs
      /\ db'.registry = db.registry
      /\ \/ db'.legacy = db.legacy
         \/ db.legacy.state = "vault" /\ db'.legacy.state = "prepared"
  <2>1. CASE Begun(o)
    <3>1. db' = db
      BY <2>1 DEF Begun
    <3> QED BY <3>1
  <2>2. CASE Begin(o)
    <3>1. db["legacy"] = view[o]["legacy"]
      BY <2>2, FreshIs DEF Begin
    <3>2. db.legacy.state = "vault"
      BY <2>2, <3>1 DEF Begin
    <3> QED BY <2>2, <3>2 DEF Begin, Legacy, IInv, TypeOK
  <2> QED BY <2>1, <2>2
<1>4. TypeOK'
  <2>1. req[o].base \in Nat
    BY <1>1 DEF Preparation
  <2> QED BY <1>2, <2>1 DEF Begin, Begun, Legacy, Close, IInv, TypeOK
<1>5. RecordInv'
  <2>1. Committed' = Committed
    BY <1>3 DEF Committed
  <2>2. \A p \in Ops : view'[p] # None => view[p] # None /\ req'[p] = req[p]
    BY DEF Close, IInv, TypeOK
  <2> QED BY <1>3, <2>1, <2>2 DEF IInv, RecordInv
<1>6. LegacyInv'
  BY <1>3 DEF IInv, LegacyInv
<1> QED BY <1>3, <1>4, <1>5, <1>6 DEF IInv, TipInv, ChecksInv

\* A write, a change of members and a destruction.
LEMMA VaultPublished ==
  ASSUME IInv, NEW o \in Ops, view[o] # None, Publish(o) \/ Destroy(o), UNCHANGED req, Close(o)
  PROVE  /\ IInv'
         /\ db'.links = db.links \cup {LinkOf(o)}
         /\ LinkOf(o).chain = db'.registry.chain
         /\ LinkOf(o).writer \notin Last(db'.registry.chain)
<1>1. req[o] \in Publication
  BY DEF IInv, TypeOK, RecordInv, Publish, Destroy, Request, Registration, Preparation
<1>2. db["registry"] = view[o]["registry"] /\ db["vault"] = view[o]["vault"]
  BY FreshIs DEF Publish, Destroy
<1>3. /\ db.vault = req[o].base /\ db.registry.chain = req[o].chain
      /\ req[o].writer \notin Last(db.registry.chain)
  BY <1>2 DEF Publish, Destroy, PriorMatches, RegistryAllows
<1> DEFINE x == LinkOf(o)
<1>4. /\ x \in Link /\ DocumentOf(o) \in Document /\ x.op = o
      /\ x.chain = req[o].chain /\ x.writer = req[o].writer
      /\ x.rev = Cardinality(db.links) + 1
      /\ DocumentOf(o).rev = x.rev /\ DocumentOf(o).head = o /\ DocumentOf(o).auth = x.auth
      /\ db.vault # None /\ db.grave = None /\ db.links # {}
      /\ \E k \in db.links : Follows(x, k)
      /\ x.witness \/ \E k \in db.links : Witnesses(k, x)
  BY <1>1, <1>3, PublicationIs
<1> HIDE DEF x
<1>5. /\ db'.registry.chain = db.registry.chain /\ db'.legacy = db.legacy
      /\ \/ db'.vault = DocumentOf(o) /\ db'.grave = None
         \/ db'.vault = None /\ db'.grave = o
  <2>1. CASE Publish(o)
    BY <1>4, <2>1 DEF Publish, IInv, TypeOK
  <2>2. CASE Destroy(o)
    BY <1>4, <2>2 DEF Destroy, IInv, TypeOK
  <2> QED BY <2>1, <2>2
<1>6. Adds(o, x)
  BY DEF Publish, Destroy, Close, Adds, IInv, TypeOK, x
<1>7. /\ Chained(db.links)' /\ RecordInv' /\ ChecksInv'
      /\ Cardinality(db'.links) = x.rev
  BY <1>4, <1>6, LinkAdded
<1>8. TypeOK'
  <2>1. db.links \cup {x} \in SUBSET Link /\ db.outcomes \cup {o} \in SUBSET Ops
    BY <1>4 DEF IInv, TypeOK
  <2>2. CASE Publish(o)
    BY <1>4, <2>1, <2>2 DEF Publish, Close, IInv, TypeOK, x
  <2>3. CASE Destroy(o)
    BY <1>4, <2>1, <2>3 DEF Destroy, Close, IInv, TypeOK, x
  <2> QED BY <2>2, <2>3
<1>9. DocumentOf(o) # None
  BY <1>4, ApartAssumption DEF Document, Chain
<1>10. TipInv'
  BY <1>4, <1>5, <1>6, <1>7, <1>9 DEF Adds, TipInv
<1>11. LegacyInv'
  <2>1. x.rev # 1
    <3>1. Cardinality(db.links) \in Nat /\ Cardinality(db.links) # 0
      BY <1>4, ChainRevs DEF IInv
    <3> QED BY <1>4, <3>1
  <2> QED BY <1>4, <1>5, <1>6, <2>1 DEF Adds, IInv, LegacyInv
<1> QED BY <1>3, <1>4, <1>5, <1>6, <1>7, <1>8, <1>10, <1>11 DEF IInv, Adds, x

\* The genesis of a migrated vault.
LEMMA VaultActivated ==
  ASSUME IInv, NEW o \in Ops, view[o] # None, Activate(o), UNCHANGED req, Close(o)
  PROVE  /\ IInv'
         /\ db'.links = db.links \cup {LinkOf(o)}
         /\ LinkOf(o).chain = db'.registry.chain
         /\ LinkOf(o).writer \notin Last(db'.registry.chain)
<1> DEFINE r == req[o]
           x == LinkOf(o)
<1>1. r \in Preparation /\ r.kind = "genesis"
  BY DEF IInv, TypeOK, RecordInv, Activate, Request, Registration, Publication
<1>2. r.writer \in Devices /\ r.base \in Nat /\ r.chain = <<{}>> /\ r.chain \in Chain
  <2>1. r.writer \in Devices /\ r.base \in Nat /\ r.chain = <<{}>>
    BY <1>1 DEF Preparation
  <2>2. <<{}>> \in Chain
    BY DEF Chain
  <2> HIDE DEF r
  <2> QED BY <2>1, <2>2
<1>3. db["legacy"] = view[o]["legacy"]
  BY FreshIs DEF Activate
<1>4. db.legacy.state = "prepared" /\ db.legacy.op = o
  BY <1>3 DEF Activate, Legacy
<1>5. db.links = {} /\ db.vault = None /\ db.grave = None
  BY <1>4 DEF IInv, LegacyInv, TipInv
<1>6. x = [op |-> o, writer |-> r.writer, chain |-> r.chain, rev |-> 1, prev |-> None,
           prevAuth |-> None, auth |-> o, witness |-> r.kind # "write"]
  BY <1>1 DEF LinkOf
<1>7. x \in Link
  BY <1>2, <1>6 DEF Link
<1>8. DocumentOf(o) = [rev |-> x.rev, head |-> o, auth |-> x.auth, chain |-> x.chain]
  BY DEF DocumentOf
<1> HIDE DEF x
<1>9. DocumentOf(o) \in Document
  BY <1>7, <1>8 DEF Link, Document
<1>10. x.witness
  <2>1. x.witness = (r.kind # "write")
    BY <1>6
  <2>2. (r.kind # "write") = TRUE
    BY <1>1
  <2> QED BY <2>1, <2>2, Zenon
<1>11. Adds(o, x)
  BY DEF Activate, Close, Adds, IInv, TypeOK, x
<1>12. /\ db'.vault = DocumentOf(o) /\ db'.grave = None /\ db'.legacy.state = "active"
       /\ db'.legacy.op = o /\ db'.registry.chain = <<{}>> /\ db'.links = {x}
  BY <1>2, <1>4, <1>5 DEF Activate, IInv, TypeOK, x
<1>13. Cardinality(db.links) = 0
  BY <1>5, FS_EmptySet
<1>14. /\ Chained(db.links)' /\ RecordInv' /\ ChecksInv'
       /\ Cardinality(db'.links) = x.rev
  BY <1>6, <1>7, <1>10, <1>11, <1>13, LinkAdded
<1>15. TypeOK'
  <2>1. db.links \cup {x} \in SUBSET Link /\ db.outcomes \cup {o} \in SUBSET Ops
    BY <1>7 DEF IInv, TypeOK
  <2>2. /\ db.legacy.rev \in Nat /\ db.legacy.op \in Ops \cup {None}
        /\ [chain |-> r.chain, fence |-> IF view[o].registry.chain = r.chain THEN o ELSE None]
             \in [chain : Chain, fence : Ops \cup {None}]
    BY <1>2 DEF IInv, TypeOK
  <2>3. db' = [db EXCEPT !.registry = [chain |-> r.chain,
                                       fence |-> IF view[o].registry.chain = r.chain
                                                   THEN o ELSE None],
                         !.vault = DocumentOf(o), !.legacy.state = "active",
                         !.links = @ \cup {x}, !.outcomes = @ \cup {o}]
    BY DEF Activate, x
  <2>4. req' = req /\ DOMAIN view' = Ops
    BY DEF Close, IInv, TypeOK
  <2> HIDE DEF r
  <2> QED BY <1>9, <2>1, <2>2, <2>3, <2>4 DEF IInv, TypeOK
<1>16. DocumentOf(o) # None
  BY <1>9, ApartAssumption DEF Document, Chain
<1>17. TipInv'
  BY <1>6, <1>8, <1>12, <1>14, <1>16 DEF TipInv
<1>18. LegacyInv'
  BY <1>6, <1>12 DEF LegacyInv
<1>19. Last(db'.registry.chain) = {}
  BY <1>12 DEF Last
<1> QED BY <1>2, <1>5, <1>6, <1>12, <1>14, <1>15, <1>17, <1>18, <1>19 DEF IInv, x

-----------------------------------------------------------------------------
(* The theorems.                                                           *)

\* The inductive invariant is one, and every step that adds a link adds one that
\* the current registry allows.
LEMMA NextIInv ==
  ASSUME IInv, [Next]_vars
  PROVE  /\ IInv'
         /\ \A l \in db'.links \ db.links : /\ l.chain = db'.registry.chain
                                            /\ l.writer \notin Last(db'.registry.chain)
<1> DEFINE Allowed == \A l \in db'.links \ db.links :
                        /\ l.chain = db'.registry.chain
                        /\ l.writer \notin Last(db'.registry.chain)
<1>1. ASSUME NEW o \in Ops,
             \/ \E d \in Devices : PrepareGenesis(o, d)
             \/ \E kind \in Kinds, d \in Devices : PreparePublication(o, kind, d)
             \/ \E d \in Devices : PrepareRegistry(o, {d})
      PROVE  IInv' /\ Allowed
  BY <1>1, RequestsAreMade
     DEF PrepareGenesis, PreparePublication, PrepareRegistry, Prepare
<1>2. ASSUME NEW o \in Ops, Open(o) \/ Abort(o) PROVE IInv' /\ Allowed
  BY <1>2, SessionsKept DEF Open, Abort
<1>3. ASSUME LegacyWrite \/ \E o \in Ops : Compact(o) PROVE IInv' /\ Allowed
  <2>1. db'.links = db.links
    BY <1>3 DEF LegacyWrite, Compact, IInv, TypeOK
  <2> QED BY <1>3, <2>1, Maintained
<1>4. ASSUME NEW at \in 1..Cardinality(Ops), NEW prev \in 0..Cardinality(Ops),
             Checkpoint(at, prev)
      PROVE  IInv' /\ Allowed
  <2>1. db'.links = db.links
    BY <1>4 DEF Checkpoint, IInv, TypeOK
  <2>2. at \in Nat \ {0} /\ prev \in Nat
    OBVIOUS
  <2> QED BY <1>4, <2>1, <2>2, CheckpointKept
<1>5. ASSUME NEW o \in Ops, Commit(o) PROVE IInv' /\ Allowed
  <2>1. view[o] # None /\ Close(o)
    BY <1>5 DEF Commit
  <2>2. CASE PublishRegistry(o) /\ UNCHANGED req
    <3>1. db'.links = db.links
      BY <2>2 DEF PublishRegistry, IInv, TypeOK
    <3> QED BY <2>1, <2>2, <3>1, RegistryPublished
  <2>3. CASE (Begin(o) \/ Begun(o)) /\ req' = [req EXCEPT ![o].kind = "genesis"]
    <3>1. db'.links = db.links
      BY <2>3 DEF Begin, Begun, IInv, TypeOK
    <3> QED BY <2>1, <2>3, <3>1, MigrationBegun
  <2>4. CASE (Publish(o) \/ Destroy(o)) /\ UNCHANGED req
    BY <2>1, <2>4, VaultPublished
  <2>5. CASE Activate(o) /\ UNCHANGED req
    BY <2>1, <2>5, VaultActivated
  <2> QED BY <1>5, <2>2, <2>3, <2>4, <2>5 DEF Commit
<1>6. CASE UNCHANGED vars
  BY <1>6 DEF vars, IInv, TypeOK, TipInv, LegacyInv, RecordInv, ChecksInv, Committed
<1> QED BY <1>1, <1>2, <1>3, <1>4, <1>5, <1>6 DEF Next

LEMMA InitIInv == Init => IInv
<1> SUFFICES ASSUME Init PROVE IInv
  OBVIOUS
<1>1. TypeOK
  BY DEF Init, TypeOK, Legacy, Chain
<1>2. Chained({})
  <2>1. IsFiniteSet({}) /\ Cardinality({}) = 0
    BY FS_EmptySet
  <2> QED BY <2>1 DEF Chained
<1> QED BY <1>1, <1>2
        DEF Init, IInv, Legacy, TipInv, LegacyInv, RecordInv, ChecksInv, Committed

\* The inductive invariant holds in every reachable state.
THEOREM StoreSafe == Spec => []IInv
<1>1. IInv /\ [Next]_vars => IInv'
  BY NextIInv
<1> QED BY <1>1, InitIInv, PTL DEF Spec

\* Whatever is published, retried, aborted, compacted or destroyed: the links
\* are one chain that can be proved from anywhere on it and ends in the document
\* or its destruction, and an operation has exactly one answer once applied.
THEOREM AnsweredTruly == Spec => []StoreAnswersTruly
<1>1. IInv => StoreAnswersTruly
  BY Coherent, Answered DEF StoreAnswersTruly
<1> QED BY <1>1, StoreSafe, PTL

\* What is written is written under the registry of that moment, by a device
\* that it does not deny, however old the snapshot of the transaction is.
THEOREM DenialsHold == Spec => DeniedDevicesWriteNothing
<1> DEFINE A == \A l \in db'.links \ db.links :
                  /\ l.chain = db'.registry.chain
                  /\ l.writer \notin Last(db'.registry.chain)
<1>1. IInv /\ [Next]_vars => [A]_vars
  BY NextIInv
<1> QED BY <1>1, StoreSafe, PTL DEF Spec, DeniedDevicesWriteNothing

-----------------------------------------------------------------------------
(* CollaborationDevice: what devices keep beside a vault.                  *)

CONSTANTS JournalOps, Recipients, Authority, Writers, OpKinds, Variants, MaxRestores, MaxRevision
VARIABLES store, restores, journal, tomb, proc, anchor, gone, published

Device == INSTANCE CollaborationDevice WITH
  Ops <- JournalOps, Devices <- Recipients, Procs <- Writers, Kinds <- OpKinds

\* CollaborationDevice: journals keep the bytes, anchors never go back.
JournalsKeepTheBytes == Device!JournalsKeepTheBytes
AnchorsNeverGoBack   == Device!AnchorsNeverGoBack

\* The documents there ever were, and those that a process or a journal holds.
Past == published \cup {Device!Genesis}
Held == published \cup {proc[p].cand : p \in {q \in Writers : proc[q] # None}}
                  \cup {journal[o].cand : o \in {q \in JournalOps : journal[q] # None}}
                  \cup {tomb[o].cand : o \in {q \in JournalOps : tomb[q] # None}}

FileOf(x) == IF Device!Destroys(x) THEN tomb ELSE journal
Kept(x)   == FileOf(x)[x.id[1]] # None /\ FileOf(x)[x.id[1]].cand = x
Sealed(x) == \E o \in JournalOps, d \in Recipients, v \in Variants, base \in Past :
               \E kind \in OpKinds[o] : x = Device!Candidate(o, d, v, kind, base)

FilesInv ==
  /\ journal = [o \in JournalOps |-> journal[o]] /\ tomb = [o \in JournalOps |-> tomb[o]]
  /\ \A o \in JournalOps :
       /\ journal[o] # None => journal[o].cand.id[1] = o /\ ~Device!Destroys(journal[o].cand)
       /\ tomb[o] # None => tomb[o].cand.id[1] = o /\ Device!Destroys(tomb[o].cand)

ProcInv ==
  /\ proc = [p \in Writers |-> proc[p]]
  /\ \A p \in Writers : Device!At(p, "journaled") => Kept(proc[p].cand)

\* Whoever holds a document of an operation, it is sealed as an operation of
\* that one kind, and a published one is the one kept.
HeldInv ==
  /\ Past \subseteq Device!Documents
  /\ \A x \in Held : Sealed(x)
  /\ \A x, y \in Held : x.id[1] = y.id[1] => (Device!Destroys(x) <=> Device!Destroys(y))
  /\ \A x \in published : Kept(x)

\* What the store shows was published, and so was what tells of the outcome.
StoreInv ==
  /\ store = [tip |-> store.tip, done |-> store.done, grave |-> store.grave]
  /\ store.tip # None => store.tip \in Past
  /\ store.done \subseteq published
  /\ store.grave # None => store.grave \in published /\ Device!Destroys(store.grave)

ToldInv ==
  /\ \A o \in JournalOps : /\ journal[o] # None /\ journal[o].state = "committed"
                                => journal[o].cand \in published
                           /\ tomb[o] # None /\ tomb[o].state = "committed"
                                => tomb[o].cand \in published
  /\ gone = [d \in Recipients |-> gone[d]]
  /\ \A d \in Recipients : gone[d] # None => gone[d] \in published /\ Device!Destroys(gone[d])

TrustInv == /\ anchor = [f \in Device!Files |-> anchor[f]]
            /\ \A f \in Device!Files : anchor[f] # None => anchor[f] \in Past

JournalInv == FilesInv /\ ProcInv /\ HeldInv /\ StoreInv /\ ToldInv /\ TrustInv

LEMMA GenesisIsDocument == Device!Genesis \in Device!Documents
BY DEF Device!Genesis, Device!Documents, Device!Ids, Device!Mutations, Device!Counters

\* A candidate is a document of its operation.
LEMMA CandidateIsDocument ==
  ASSUME Device!ConstantsApart, NEW o \in JournalOps, NEW d \in Recipients, NEW v \in Variants,
         NEW kind \in OpKinds[o], NEW base \in Device!Documents
  PROVE  /\ Device!Candidate(o, d, v, kind, base) \in Device!Documents
         /\ Device!Candidate(o, d, v, kind, base).id = <<o, v>>
         /\ Device!Candidate(o, d, v, kind, base).device = d
         /\ Device!Candidate(o, d, v, kind, base).kind = kind
<1> DEFINE x == Device!Candidate(o, d, v, kind, base)
<1>1. /\ base.id \in Device!Ids /\ base.past \subseteq Device!Ids /\ base.rev \in Nat
      /\ base.num \in [Device!Counters -> Nat] /\ base.by \in [Device!Counters -> Device!Ids]
             /\ base.auth \in Device!Ids
  BY DEF Device!Documents
<1>2. <<o, v>> \in Device!Ids /\ kind \in Device!Mutations
  BY DEF Device!Ids, Device!ConstantsApart
<1>3. /\ x.id = <<o, v>> /\ x.device = d /\ x.kind = kind
      /\ x = [id |-> x.id, device |-> x.device, kind |-> x.kind, prev |-> x.prev,
              past |-> x.past, rev |-> x.rev, num |-> x.num, by |-> x.by, auth |-> x.auth]
      /\ x.prev = base.id /\ x.past = base.past \cup {base.id} /\ x.rev = base.rev + 1
  BY DEF Device!Candidate
<1>4. x.num \in [Device!Counters -> Nat]
  BY <1>1 DEF Device!Candidate
<1>5. x.by \in [Device!Counters -> Device!Ids]
  BY <1>1, <1>2 DEF Device!Candidate
<1>6. x.auth \in Device!Ids
  BY <1>1, <1>2 DEF Device!Candidate
<1> QED BY <1>1, <1>2, <1>3, <1>4, <1>5, <1>6 DEF Device!Documents

LEMMA SealedIsDocument ==
  ASSUME Device!ConstantsApart, HeldInv, NEW x, Sealed(x)
  PROVE  x \in Device!Documents /\ x # None /\ x.id[1] \in JournalOps /\ x.device \in Recipients
<1>1. PICK o \in JournalOps, d \in Recipients, v \in Variants, base \in Past :
        \E kind \in OpKinds[o] : x = Device!Candidate(o, d, v, kind, base)
  BY DEF Sealed
<1>2. PICK kind \in OpKinds[o] : x = Device!Candidate(o, d, v, kind, base)
  BY <1>1
<1>3. base \in Device!Documents
  BY DEF HeldInv
<1> QED BY <1>2, <1>3, CandidateIsDocument DEF Device!ConstantsApart

\* Two published documents of one operation, or of one identity, are one.
LEMMA PublishedOnce ==
  ASSUME Device!ConstantsApart, JournalInv
  PROVE  /\ \A x \in published, y \in Held : Kept(y) /\ x.id[1] = y.id[1] => x = y
         /\ \A x, y \in Past : x.id = y.id => x = y
<1> USE DEF JournalInv
<1>1. ASSUME NEW x \in published, NEW y \in Held, Kept(y), x.id[1] = y.id[1]
      PROVE  x = y
  <2>1. Kept(x) /\ x \in Held
    BY DEF HeldInv, Held
  <2>2. Device!Destroys(x) <=> Device!Destroys(y)
    BY <1>1, <2>1 DEF HeldInv
  <2> QED BY <1>1, <2>1, <2>2 DEF Kept, FileOf
<1>2. \A x \in published : x.id[1] # Device!Genesis.id[1]
  BY SealedIsDocument DEF HeldInv, Held, Device!Genesis, Device!ConstantsApart
<1>3. \A x \in published : x \in Held /\ Kept(x)
  BY DEF HeldInv, Held
<1> QED BY <1>1, <1>2, <1>3 DEF Past

LEMMA JournalInit == Device!ConstantsApart /\ Device!Init => JournalInv
<1> SUFFICES ASSUME Device!ConstantsApart, Device!Init PROVE JournalInv
  OBVIOUS
<1>1. published = {} /\ Held = {} /\ Past = {Device!Genesis}
  BY DEF Device!Init, Held, Past
<1> QED BY <1>1, GenesisIsDocument
        DEF Device!Init, JournalInv, FilesInv, ProcInv, HeldInv, StoreInv, ToldInv, TrustInv,
            Device!At

\* What a step does to HeldInv that publishes nothing and draws no document.
LEMMA HeldFrame ==
  ASSUME HeldInv, published' = published, Held' \subseteq Held,
         \A x \in published : Kept(x) => Kept(x)'
  PROVE  HeldInv'
<1>1. \A x : Sealed(x) => Sealed(x)'
  BY DEF Sealed, Past
<1>2. Past' = Past
  BY DEF Past
<1>3. \A x : Device!Destroys(x)' <=> Device!Destroys(x)
  BY DEF Device!Destroys
<1> QED BY <1>1, <1>2, <1>3 DEF HeldInv

\* A step that leaves the journals alone and works on documents that are held.
LEMMA JournalFrame ==
  ASSUME JournalInv, UNCHANGED <<journal, tomb, published>>,
         proc' = [p \in Writers |-> proc'[p]],
         \A p \in Writers : proc'[p] # None =>
           /\ proc'[p].cand \in Held
           /\ proc'[p].at = "journaled" => Kept(proc'[p].cand)
  PROVE  FilesInv' /\ ProcInv' /\ HeldInv'
<1> USE DEF JournalInv
<1>1. FilesInv'
  BY DEF FilesInv, Device!Destroys
<1>2. \A x : Kept(x)' <=> Kept(x)
  BY DEF Kept, FileOf, Device!Destroys
<1>3. ProcInv'
  BY <1>2 DEF ProcInv, Device!At
<1>4. Held' \subseteq Held
  BY DEF Held
<1> QED BY <1>1, <1>2, <1>3, <1>4, HeldFrame

\* A step that changes no process, no journal and no device's destruction.
LEMMA StoreFrame ==
  ASSUME JournalInv, UNCHANGED <<journal, tomb, proc, gone, published>>
  PROVE  FilesInv' /\ ProcInv' /\ HeldInv' /\ ToldInv'
<1>1. \A p \in Writers : proc'[p] # None =>
        /\ proc'[p].cand \in Held
        /\ proc'[p].at = "journaled" => Kept(proc'[p].cand)
  BY DEF Held, JournalInv, ProcInv, Device!At
<1>2. FilesInv' /\ ProcInv' /\ HeldInv'
  BY <1>1, JournalFrame DEF JournalInv, ProcInv
<1> QED BY <1>2 DEF JournalInv, ToldInv, Device!Destroys

\* A process that is stopped or takes up the document of a journal.
LEMMA ProcFrame ==
  ASSUME JournalInv, NEW p \in Writers, NEW o \in JournalOps,
         UNCHANGED <<store, journal, tomb, anchor, gone, published>>,
         \/ Device!Stop(p)
         \/ journal[o] # None /\ Device!Step(p, journal[o].cand, "journaled")
         \/ tomb[o] # None /\ Device!Step(p, tomb[o].cand, "journaled")
  PROVE  JournalInv'
<1> USE DEF JournalInv
<1>1. ASSUME NEW q \in Writers, proc'[q] # None
      PROVE  /\ proc'[q].cand \in Held
             /\ proc'[q].at = "journaled" => Kept(proc'[q].cand)
  <2>1. CASE proc'[q] = proc[q]
    BY <1>1, <2>1 DEF Held, ProcInv, Device!At
  <2>2. CASE q = p /\ journal[o] # None /\ Device!Step(p, journal[o].cand, "journaled")
    <3>1. proc'[q].cand = journal[o].cand
      BY <2>2 DEF Device!Step, ProcInv
    <3> QED BY <2>2, <3>1 DEF Held, Kept, FileOf, FilesInv
  <2>3. CASE q = p /\ tomb[o] # None /\ Device!Step(p, tomb[o].cand, "journaled")
    <3>1. proc'[q].cand = tomb[o].cand
      BY <2>3 DEF Device!Step, ProcInv
    <3> QED BY <2>3, <3>1 DEF Held, Kept, FileOf, FilesInv
  <2> QED BY <1>1, <2>1, <2>2, <2>3 DEF Device!Stop, Device!Step, ProcInv
<1>2. proc' = [q \in Writers |-> proc'[q]]
  BY DEF Device!Stop, Device!Step, ProcInv
<1>3. FilesInv' /\ ProcInv' /\ HeldInv'
  BY <1>1, <1>2, JournalFrame
<1>4. StoreInv' /\ ToldInv' /\ TrustInv'
  BY DEF StoreInv, ToldInv, TrustInv, Past, Device!Destroys
<1> QED BY <1>3, <1>4

\* A journal is created, or committed, with the document it keeps.
LEMMA KeepStep ==
  ASSUME Device!ConstantsApart, JournalInv, NEW p \in Writers, proc[p] # None,
         NEW state \in {"prepared", "committed"},
         ~Device!Destroys(proc[p].cand),
         LET cand == proc[p].cand  o == cand.id[1]
         IN /\ journal[o] = None \/ (journal[o] # None /\ journal[o].cand = cand)
            /\ Device!Keep(o, Device!Record(state, cand))
            /\ Device!Step(p, cand, "journaled") \/ Device!Stop(p)
            /\ state = "committed" => cand \in published,
         UNCHANGED <<store, tomb, anchor, gone, published>>
  PROVE  JournalInv'
<1> USE DEF JournalInv
<1> DEFINE cand == proc[p].cand
           o == cand.id[1]
<1>1. cand \in Held /\ cand \in Device!Documents /\ o \in JournalOps
  BY SealedIsDocument DEF Held, HeldInv
<1>2. Device!Record(state, cand) # None /\ Device!Record(state, cand).cand = cand
          /\ Device!Record(state, cand).state = state
  BY <1>1 DEF Device!Record, Device!ConstantsApart
<1>3. /\ journal'[o] = Device!Record(state, cand)
      /\ \A q \in JournalOps \ {o} : journal'[q] = journal[q]
      /\ journal' = [q \in JournalOps |-> journal'[q]]
  BY <1>1 DEF Device!Keep, FilesInv
<1>4. FilesInv'
  BY <1>1, <1>2, <1>3 DEF FilesInv, Device!Destroys
<1>5. \A x : (x.id[1] \in JournalOps /\ Kept(x)) => Kept(x)'
  BY <1>1, <1>2, <1>3 DEF Kept, FileOf, Device!Destroys
<1>6. \A x \in Held : x.id[1] \in JournalOps
  BY SealedIsDocument DEF HeldInv
<1>7. \A x : x = cand => Kept(x)'
  BY <1>1, <1>2, <1>3 DEF Kept, FileOf, Device!Destroys
<1>8. /\ proc' = [q \in Writers |-> proc'[q]]
      /\ \A q \in Writers : \/ proc'[q] = proc[q]
                            \/ q = p /\ (proc'[q] = None \/ proc'[q].cand = cand)
  BY DEF ProcInv, Device!Step, Device!Stop
<1>9. ProcInv'
  <2>1. ASSUME NEW q \in Writers, Device!At(q, "journaled")', NEW x, x = proc'[q].cand
        PROVE  Kept(x)'
    <3>1. CASE proc'[q] = proc[q]
      <4>1. Device!At(q, "journaled") /\ proc[q] # None
        BY <2>1, <3>1 DEF Device!At
      <4>2. Kept(proc[q].cand) /\ proc[q].cand \in Held
        BY <4>1 DEF ProcInv, Held
      <4> QED BY <2>1, <3>1, <4>2, <1>5, <1>6
    <3>2. CASE proc'[q] # proc[q]
      BY <2>1, <3>2, <1>7, <1>8 DEF Device!At
    <3> QED BY <3>1, <3>2
  <2> QED BY <2>1, <1>8 DEF ProcInv, Device!At
<1>10. Held' \subseteq Held
  BY <1>1, <1>2, <1>3, <1>8 DEF Held
<1>11. HeldInv'
  BY <1>5, <1>6, <1>10, HeldFrame DEF Held
<1>12. ToldInv'
  BY <1>1, <1>2, <1>3 DEF ToldInv, Device!Destroys
<1>13. StoreInv' /\ TrustInv'
  BY DEF StoreInv, TrustInv, Past, Device!Destroys
<1> QED BY <1>4, <1>9, <1>11, <1>12, <1>13

\* The same of a destruction's journal.
LEMMA EntombStep ==
  ASSUME Device!ConstantsApart, JournalInv, NEW p \in Writers, proc[p] # None,
         NEW state \in {"prepared", "committed"},
         Device!Destroys(proc[p].cand),
         LET cand == proc[p].cand  o == cand.id[1]
         IN /\ tomb[o] = None \/ (tomb[o] # None /\ tomb[o].cand = cand)
            /\ Device!Entomb(o, Device!Record(state, cand))
            /\ Device!Step(p, cand, "journaled") \/ Device!Stop(p)
            /\ state = "committed" => cand \in published,
         UNCHANGED <<store, journal, anchor, gone, published>>
  PROVE  JournalInv'
<1> USE DEF JournalInv
<1> DEFINE cand == proc[p].cand
           o == cand.id[1]
<1>1. cand \in Held /\ cand \in Device!Documents /\ o \in JournalOps
  BY SealedIsDocument DEF Held, HeldInv
<1>2. Device!Record(state, cand) # None /\ Device!Record(state, cand).cand = cand
          /\ Device!Record(state, cand).state = state
  BY <1>1 DEF Device!Record, Device!ConstantsApart
<1>3. /\ tomb'[o] = Device!Record(state, cand)
      /\ \A q \in JournalOps \ {o} : tomb'[q] = tomb[q]
      /\ tomb' = [q \in JournalOps |-> tomb'[q]]
  BY <1>1 DEF Device!Entomb, FilesInv
<1>4. FilesInv'
  BY <1>1, <1>2, <1>3 DEF FilesInv, Device!Destroys
<1>5. \A x : (x.id[1] \in JournalOps /\ Kept(x)) => Kept(x)'
  BY <1>1, <1>2, <1>3 DEF Kept, FileOf, Device!Destroys
<1>6. \A x \in Held : x.id[1] \in JournalOps
  BY SealedIsDocument DEF HeldInv
<1>7. \A x : x = cand => Kept(x)'
  BY <1>1, <1>2, <1>3 DEF Kept, FileOf, Device!Destroys
<1>8. /\ proc' = [q \in Writers |-> proc'[q]]
      /\ \A q \in Writers : \/ proc'[q] = proc[q]
                            \/ q = p /\ (proc'[q] = None \/ proc'[q].cand = cand)
  BY DEF ProcInv, Device!Step, Device!Stop
<1>9. ProcInv'
  <2>1. ASSUME NEW q \in Writers, Device!At(q, "journaled")', NEW x, x = proc'[q].cand
        PROVE  Kept(x)'
    <3>1. CASE proc'[q] = proc[q]
      <4>1. Device!At(q, "journaled") /\ proc[q] # None
        BY <2>1, <3>1 DEF Device!At
      <4>2. Kept(proc[q].cand) /\ proc[q].cand \in Held
        BY <4>1 DEF ProcInv, Held
      <4> QED BY <2>1, <3>1, <4>2, <1>5, <1>6
    <3>2. CASE proc'[q] # proc[q]
      BY <2>1, <3>2, <1>7, <1>8 DEF Device!At
    <3> QED BY <3>1, <3>2
  <2> QED BY <2>1, <1>8 DEF ProcInv, Device!At
<1>10. Held' \subseteq Held
  BY <1>1, <1>2, <1>3, <1>8 DEF Held
<1>11. HeldInv'
  BY <1>5, <1>6, <1>10, HeldFrame DEF Held
<1>12. ToldInv'
  BY <1>1, <1>2, <1>3 DEF ToldInv, Device!Destroys
<1>13. StoreInv' /\ TrustInv'
  BY DEF StoreInv, TrustInv, Past, Device!Destroys
<1> QED BY <1>4, <1>9, <1>11, <1>12, <1>13

\* A document of a journal is published.
LEMMA PublishStep ==
  ASSUME Device!ConstantsApart, JournalInv, NEW p \in Writers, Device!At(p, "journaled"),
         published' = published \cup {proc[p].cand},
         UNCHANGED <<journal, tomb, proc, gone>>
  PROVE  FilesInv' /\ ProcInv' /\ HeldInv' /\ ToldInv' /\ proc[p].cand \in published'
<1> USE DEF JournalInv
<1> DEFINE cand == proc[p].cand
<1>1. cand \in Held /\ cand \in Device!Documents /\ Kept(cand)
  BY SealedIsDocument DEF Held, HeldInv, ProcInv, Device!At
<1>2. \A x : Kept(x)' <=> Kept(x)
  BY DEF Kept, FileOf, Device!Destroys
<1>3. FilesInv' /\ ProcInv' /\ ToldInv'
  BY <1>2 DEF FilesInv, ProcInv, ToldInv, Device!At, Device!Destroys
<1>4. Held' = Held
  BY <1>1 DEF Held
<1>5. \A x : Sealed(x) => Sealed(x)'
  BY DEF Sealed, Past
<1>6. \A x : Device!Destroys(x)' <=> Device!Destroys(x)
  BY DEF Device!Destroys
<1>7. HeldInv'
  BY <1>1, <1>2, <1>4, <1>5, <1>6 DEF HeldInv, Past
<1> QED BY <1>3, <1>7

\* A document is sealed of an operation that nobody else holds as another kind.
LEMMA PrepareStep ==
  ASSUME Device!ConstantsApart, JournalInv,
         NEW p \in Writers, NEW o \in JournalOps, NEW d \in Recipients, NEW v \in Variants,
         NEW kind \in OpKinds[o], NEW proved, Device!Prepare(p, o, d, v, kind, proved)
  PROVE  JournalInv'
<1> USE DEF JournalInv
<1> DEFINE x == Device!Candidate(o, d, v, kind, store.tip)
<1>1. store.tip \in Past /\ store.tip \in Device!Documents
  BY DEF Device!Prepare, StoreInv, HeldInv
<1>2. Sealed(x) /\ x \in Device!Documents /\ x.id[1] = o /\ x.kind = kind
  BY <1>1, CandidateIsDocument DEF Sealed
<1>3. /\ proc' = [q \in Writers |-> proc'[q]]
      /\ \A q \in Writers \ {p} : proc'[q] = proc[q]
      /\ proc'[p].cand = x /\ proc'[p].at = "prepared"
  BY DEF Device!Prepare, Device!Step, ProcInv
<1>4. UNCHANGED <<store, journal, tomb, anchor, gone, published>>
  BY DEF Device!Prepare, Device!journals
<1>5. FilesInv' /\ StoreInv' /\ ToldInv' /\ TrustInv'
  BY <1>4 DEF FilesInv, StoreInv, ToldInv, TrustInv, Past, Device!Destroys
<1>6. \A y : (Kept(y)' <=> Kept(y)) /\ (Sealed(y)' <=> Sealed(y)) /\ (Device!Destroys(y)'
          <=> Device!Destroys(y))
  BY <1>4 DEF Kept, FileOf, Sealed, Past, Device!Destroys
<1>7. ProcInv'
  BY <1>3, <1>6 DEF ProcInv, Device!At
<1>8. Held' \subseteq Held \cup {x}
  BY <1>3, <1>4 DEF Held
<1>9. \A y \in Held : y.id[1] = o => (Device!Destroys(y) <=> Device!Destroys(x))
  <2>1. \A y \in Held : y.id[1] = o => y \in Device!Claims(o)
    BY DEF Held, Device!Claims, Device!Prepare, FilesInv
  <2> QED BY <1>2, <2>1 DEF Device!Prepare, Device!Destroys
<1>10. HeldInv'
  <2>1. \A y, z \in Held \cup {x} : y.id[1] = z.id[1] => (Device!Destroys(y)
            <=> Device!Destroys(z))
    BY <1>2, <1>9 DEF HeldInv
  <2> QED BY <1>2, <1>4, <1>6, <1>8, <2>1 DEF HeldInv, Past
<1> QED BY <1>5, <1>7, <1>10

LEMMA JournalStep == Device!ConstantsApart /\ JournalInv /\ [Device!Next]_(Device!vars)
    => JournalInv'
<1> SUFFICES ASSUME Device!ConstantsApart, JournalInv,
                 [Device!Next]_(Device!vars) PROVE JournalInv'
  OBVIOUS
<1> USE DEF JournalInv, Device!journals
<1>1. ASSUME NEW f \in Device!Files, NEW proved, Device!Enroll(f) \/ Device!Advance(f, proved)
      PROVE  JournalInv'
  <2>1. TrustInv'
    BY <1>1 DEF Device!Enroll, Device!Advance, Device!Trust, TrustInv, StoreInv, Past
  <2>2. StoreInv'
    BY <1>1 DEF Device!Enroll, Device!Advance, StoreInv, Past, Device!Destroys
  <2> QED BY <1>1, <2>1, <2>2, StoreFrame DEF Device!Enroll, Device!Advance
<1>2. ASSUME NEW p \in Writers, NEW o \in JournalOps, Device!Resume(p, o)
                 \/ Device!ResumeDestruction(p, o)
      PROVE  JournalInv'
  BY <1>2, ProcFrame DEF Device!Resume, Device!ResumeDestruction
<1>3. ASSUME NEW p \in Writers, NEW o \in JournalOps, NEW d \in Recipients, NEW v \in Variants,
             NEW kind \in OpKinds[o], NEW proved \in BOOLEAN, Device!Prepare(p, o, d, v, kind,
                 proved)
      PROVE  JournalInv'
  BY <1>3, PrepareStep
<1>4. ASSUME NEW p \in Writers, Device!Create(p) PROVE JournalInv'
  <2> DEFINE cand == proc[p].cand
             o == cand.id[1]
  <2>1. proc[p] # None /\ cand \in Held /\ o \in JournalOps
    BY <1>4, SealedIsDocument DEF Device!Create, Device!At, Held, HeldInv
  <2>2. CASE journal[o] = None
    BY <1>4, <2>1, <2>2, KeepStep DEF Device!Create
  <2>3. CASE journal[o] # None
    <3>1. \/ Device!Stop(p)
          \/ journal[o].cand = cand /\ Device!Step(p, cand, "journaled")
      BY <1>4, <2>3 DEF Device!Create, Device!SameRequest
    <3> QED BY <1>4, <2>1, <2>3, <3>1, ProcFrame DEF Device!Create
  <2> QED BY <2>2, <2>3
<1>5. ASSUME NEW p \in Writers, Device!CreateDestruction(p) PROVE JournalInv'
  <2> DEFINE cand == proc[p].cand
             o == cand.id[1]
  <2>1. proc[p] # None /\ cand \in Held /\ o \in JournalOps
    BY <1>5, SealedIsDocument DEF Device!CreateDestruction, Device!At, Held, HeldInv
  <2>2. CASE tomb[o] = None
    BY <1>5, <2>1, <2>2, EntombStep DEF Device!CreateDestruction
  <2>3. CASE tomb[o] # None
    <3>1. \/ Device!Stop(p)
          \/ tomb[o].cand = cand /\ Device!Step(p, cand, "journaled")
      BY <1>5, <2>3 DEF Device!CreateDestruction, Device!SameArtifacts
    <3> QED BY <1>5, <2>1, <2>3, <3>1, ProcFrame DEF Device!CreateDestruction
  <2> QED BY <2>2, <2>3
<1>6. ASSUME NEW p \in Writers, Device!Reconcile(p) PROVE JournalInv'
  <2> DEFINE cand == proc[p].cand
             o == cand.id[1]
  <2>1. proc[p] # None /\ cand \in Held /\ o \in JournalOps /\ Kept(cand)
            /\ ~Device!Destroys(cand)
    BY <1>6, SealedIsDocument DEF Device!Reconcile, Device!At, Held, HeldInv, ProcInv
  <2>2. CASE Device!Committed(cand)
    <3>1. cand \in published /\ journal[o] # None /\ journal[o].cand = cand
      BY <2>1, <2>2 DEF Device!Committed, StoreInv, Kept, FileOf
    <3> QED BY <1>6, <2>1, <2>2, <3>1, KeepStep DEF Device!Reconcile
  <2>3. CASE ~Device!Committed(cand)
    BY <1>6, <2>1, <2>3, ProcFrame DEF Device!Reconcile
  <2> QED BY <2>2, <2>3
<1>7. ASSUME NEW p \in Writers, Device!ReconcileDestruction(p) PROVE JournalInv'
  <2> DEFINE cand == proc[p].cand
             o == cand.id[1]
  <2>1. /\ proc[p] # None /\ cand \in Held /\ o \in JournalOps /\ Kept(cand)
               /\ Device!Destroys(cand)
        /\ cand # None
    BY <1>7, SealedIsDocument DEF Device!ReconcileDestruction, Device!At, Held, HeldInv, ProcInv
  <2>2. CASE Device!Destroyed(cand)
    <3>1. cand \in published /\ tomb[o] # None /\ tomb[o].cand = cand
      BY <2>1, <2>2 DEF Device!Destroyed, StoreInv, Kept, FileOf
    <3> QED BY <1>7, <2>1, <2>2, <3>1, EntombStep DEF Device!ReconcileDestruction
  <2>3. CASE ~Device!Destroyed(cand)
    BY <1>7, <2>1, <2>3, ProcFrame DEF Device!ReconcileDestruction
  <2> QED BY <2>2, <2>3
<1>8. ASSUME NEW p \in Writers, NEW anchoring, Device!Publish(p, anchoring) PROVE JournalInv'
  <2> USE <1>8 DEF Device!Publish
  <2>1. FilesInv' /\ ProcInv' /\ HeldInv' /\ ToldInv' /\ proc[p].cand \in published'
    BY PublishStep
  <2>2. StoreInv'
    <3>1. /\ store'.tip = proc[p].cand /\ store'.done = store.done \cup {proc[p].cand}
          /\ store'.grave = store.grave
      OBVIOUS
    <3> QED BY <2>1, <3>1 DEF StoreInv, Past, Device!Destroys
  <2>3. TrustInv'
    BY <2>1 DEF TrustInv, Device!Trust, Past
  <2> QED BY <2>1, <2>2, <2>3
<1>9. ASSUME NEW p \in Writers, Device!Destroy(p) PROVE JournalInv'
  <2> USE <1>9 DEF Device!Destroy
  <2>1. FilesInv' /\ ProcInv' /\ HeldInv' /\ ToldInv' /\ proc[p].cand \in published'
    BY PublishStep
  <2>2. StoreInv'
    BY <2>1 DEF StoreInv, Past, Device!Destroys
  <2>3. TrustInv'
    BY <2>1 DEF TrustInv, Past
  <2> QED BY <2>1, <2>2, <2>3
<1>10. ASSUME NEW p \in Writers, Device!Crash(p) PROVE JournalInv'
  <2>1. \A q \in Writers : proc'[q] # None => proc'[q] = proc[q]
    BY <1>10 DEF Device!Crash, Device!Stop, ProcInv
  <2>2. \A q \in Writers : proc'[q] # None =>
          /\ proc'[q].cand \in Held
          /\ proc'[q].at = "journaled" => Kept(proc'[q].cand)
    BY <2>1 DEF Held, ProcInv, Device!At
  <2>3. FilesInv' /\ ProcInv' /\ HeldInv'
    BY <1>10, <2>2, JournalFrame DEF Device!Crash, Device!Stop, ProcInv
  <2> QED BY <1>10, <2>3 DEF Device!Crash, StoreInv, ToldInv, TrustInv, Past, Device!Destroys
<1>11. ASSUME NEW d \in Recipients, Device!Bury(d) PROVE JournalInv'
  <2> USE <1>11 DEF Device!Bury
  <2>1. \A q \in Writers : proc'[q] # None =>
          /\ proc'[q].cand \in Held
          /\ proc'[q].at = "journaled" => Kept(proc'[q].cand)
    BY DEF Held, ProcInv, Device!At
  <2>2. FilesInv' /\ ProcInv' /\ HeldInv'
    BY <2>1, JournalFrame DEF ProcInv
  <2>3. \A stone \in Device!Tombstones(d) \ {None} : stone \in published /\ Device!Destroys(stone)
    BY DEF Device!Tombstones, StoreInv, ToldInv, FilesInv
  <2>4. ToldInv'
    BY <2>3 DEF ToldInv, Device!Destroys
  <2> QED BY <2>2, <2>4 DEF StoreInv, TrustInv, Past, Device!Destroys
<1>12. ASSUME NEW doc \in store.done \cup {Device!Genesis}, Device!Restore(doc)
       PROVE  JournalInv'
  <2> USE <1>12 DEF Device!Restore
  <2>1. FilesInv' /\ ProcInv' /\ HeldInv' /\ ToldInv'
    BY StoreFrame
  <2>2. StoreInv' /\ TrustInv'
    BY DEF StoreInv, TrustInv, Past
  <2> QED BY <2>1, <2>2
<1>13. CASE UNCHANGED Device!vars
  <2> USE <1>13 DEF Device!vars
  <2>1. FilesInv' /\ ProcInv' /\ HeldInv' /\ ToldInv'
    BY StoreFrame
  <2> QED BY <2>1 DEF StoreInv, TrustInv, Past, Device!Destroys
<1> QED BY <1>1, <1>2, <1>3, <1>4, <1>5, <1>6, <1>7, <1>8, <1>9, <1>10, <1>11, <1>12, <1>13
     DEF Device!Next

\* However often processes crash and prepare an operation again, one document of
\* it is published, the one its journal keeps, and what says that an operation is
\* committed, or the vault destroyed, tells of a publication.
THEOREM JournalsAreKept ==
  ASSUME Device!ConstantsApart
  PROVE  Device!Spec => []JournalsKeepTheBytes
<1>1. JournalInv => JournalsKeepTheBytes
  BY DEF JournalInv, HeldInv, ToldInv, Kept, FileOf, JournalsKeepTheBytes,
         Device!JournalsKeepTheBytes
<1> QED BY <1>1, JournalInit, JournalStep, PTL DEF Device!Spec

-----------------------------------------------------------------------------
IdsOf == {x.id : x \in Past}

\* What an anchor compares of a document and one that follows it.
Older(a, x) == /\ x.rev > a.rev
               /\ Device!Monotonic(a, x)
               /\ Device!Advanced(a, x) <=> x.auth # a.auth

\* Every document follows those of its history; as long as the store was never
\* put back, that is what every file trusts.
LineageInv ==
  /\ \A x \in Past : x.past \subseteq IdsOf /\ x.auth \in IdsOf
  /\ \A a, x \in Past : a.id \in x.past => Older(a, x)
  /\ restores \in Nat
  /\ restores = 0 => \A f \in Device!Files : anchor[f] # None /\ store.tip # None =>
                                               Device!Descends(anchor[f], store.tip)

LEMMA LineageInit == Device!ConstantsApart /\ Device!Init => LineageInv
<1> SUFFICES ASSUME Device!ConstantsApart, Device!Init PROVE LineageInv
  OBVIOUS
<1>1. Past = {Device!Genesis} /\ restores = 0 /\ \A f \in Device!Files : anchor[f] = None
  BY DEF Device!Init, Past
<1>2. IdsOf = {Device!Genesis.id} /\ Device!Genesis.past = {}
          /\ Device!Genesis.auth = Device!Genesis.id
  BY <1>1 DEF IdsOf, Device!Genesis
<1> QED BY <1>1, <1>2 DEF LineageInv

\* A candidate follows the history of the document it was sealed on.
LEMMA CandidateFollows ==
  ASSUME Device!ConstantsApart, JournalInv, LineageInv,
         NEW o \in JournalOps, NEW d \in Recipients, NEW v \in Variants, NEW kind \in OpKinds[o],
         NEW base \in Past, Device!Candidate(o, d, v, kind, base).id \notin IdsOf,
         NEW a \in Past, a.id \in Device!Candidate(o, d, v, kind, base).past
  PROVE  Older(a, Device!Candidate(o, d, v, kind, base))
<1> DEFINE x == Device!Candidate(o, d, v, kind, base)
           moved == Device!Moves(kind)
<1>1. /\ a \in Device!Documents /\ base \in Device!Documents
      /\ moved \subseteq Device!Counters
  BY DEF JournalInv, HeldInv, Device!Moves, Device!Counters
<1>2. /\ \A c \in Device!Counters : /\ a.num[c] \in Nat /\ base.num[c] \in Nat
                                    /\ x.num[c] = base.num[c] + (IF c \in moved THEN 1 ELSE 0)
                                    /\ c \notin moved => x.by[c] = base.by[c]
      /\ a.rev \in Nat /\ base.rev \in Nat /\ x.rev = base.rev + 1
      /\ x.auth = IF moved = {} THEN base.auth ELSE x.id
      /\ x.past = base.past \cup {base.id}
  BY <1>1 DEF Device!Documents, Device!Candidate
<1>3. base.auth \in IdsOf /\ a.auth \in IdsOf /\ x.id \notin IdsOf
  BY DEF LineageInv
<1>4. CASE a.id = base.id
  <2>1. a = base
    BY <1>4, PublishedOnce
  <2>2. Device!Monotonic(a, x)
    BY <1>2, <2>1 DEF Device!Monotonic
  <2>3. Device!Advanced(a, x) <=> moved # {}
    BY <1>1, <1>2, <2>1 DEF Device!Advanced
  <2>4. x.auth # a.auth <=> moved # {}
    BY <1>2, <1>3, <2>1
  <2> QED BY <1>2, <2>1, <2>2, <2>3, <2>4 DEF Older
<1>5. CASE a.id \in base.past
  <2>1. Older(a, base)
    BY <1>5 DEF LineageInv
  <2>2. /\ base.rev > a.rev
        /\ \A c \in Device!Counters : /\ base.num[c] >= a.num[c]
                                      /\ c # "key" /\ base.num[c] = a.num[c]
                                             => base.by[c] = a.by[c]
        /\ (\E c \in Device!Counters : base.num[c] > a.num[c]) <=> base.auth # a.auth
    BY <2>1 DEF Older, Device!Monotonic, Device!Advanced
  <2>3. Device!Monotonic(a, x)
    BY <1>2, <2>2 DEF Device!Monotonic
  <2>4. CASE moved = {}
    <3>1. Device!Advanced(a, x) <=> Device!Advanced(a, base)
      BY <1>2, <2>4 DEF Device!Advanced
    <3> QED BY <1>2, <2>1, <2>2, <2>3, <2>4, <3>1 DEF Older
  <2>5. CASE moved # {}
    <3>1. PICK c \in Device!Counters : c \in moved
      BY <1>1, <2>5
    <3>2. x.num[c] > a.num[c]
      BY <1>2, <2>2, <3>1
    <3>3. Device!Advanced(a, x)
      BY <3>2 DEF Device!Advanced
    <3>4. x.auth # a.auth
      BY <1>2, <1>3, <2>5
    <3> QED BY <1>2, <2>2, <2>3, <3>3, <3>4 DEF Older
  <2> QED BY <2>4, <2>5
<1> QED BY <1>2, <1>4, <1>5

\* A document that is published is an old one, or one of a new identity.
LEMMA PublishedAnew ==
  ASSUME Device!ConstantsApart, JournalInv, NEW p \in Writers, Device!At(p, "journaled")
  PROVE  /\ proc[p].cand \in Held /\ Kept(proc[p].cand) /\ Sealed(proc[p].cand)
         /\ proc[p].cand \in published \/ proc[p].cand.id \notin IdsOf
<1> USE DEF JournalInv
<1>1. proc[p].cand \in Held /\ Kept(proc[p].cand) /\ Sealed(proc[p].cand)
  BY DEF Held, HeldInv, ProcInv, Device!At
<1>2. ASSUME NEW y \in Past, y.id = proc[p].cand.id PROVE proc[p].cand \in published
  <2>1. proc[p].cand.id[1] \in JournalOps
    BY <1>1, SealedIsDocument
  <2>2. y # Device!Genesis
    BY <1>2, <2>1 DEF Device!Genesis, Device!ConstantsApart
  <2>3. y \in published
    BY <2>2 DEF Past
  <2> QED BY <1>1, <1>2, <2>3, PublishedOnce
<1> QED BY <1>1, <1>2 DEF IdsOf

\* The history after a publication.
LEMMA LineagePublish ==
  ASSUME Device!ConstantsApart, JournalInv, LineageInv, NEW p \in Writers, Device!At(p,
         "journaled"),
         published' = published \cup {proc[p].cand}
  PROVE  /\ \A x \in Past' : x.past \subseteq IdsOf' /\ x.auth \in IdsOf'
         /\ \A a, x \in Past' : a.id \in x.past => Older(a, x)
<1> DEFINE cand == proc[p].cand
<1>1. Past' = Past \cup {cand}
  BY DEF Past
<1>2. IdsOf' = IdsOf \cup {cand.id}
  BY <1>1 DEF IdsOf
<1>3. CASE cand \in published
  BY <1>1, <1>2, <1>3 DEF LineageInv, Past
<1>4. CASE cand \notin published
  <2>1. Sealed(cand) /\ cand.id \notin IdsOf
    BY <1>4, PublishedAnew
  <2>2. PICK o \in JournalOps, d \in Recipients, v \in Variants, base \in Past :
          \E kind \in OpKinds[o] : cand = Device!Candidate(o, d, v, kind, base)
    BY <2>1 DEF Sealed
  <2>3. PICK kind \in OpKinds[o] : cand = Device!Candidate(o, d, v, kind, base)
    BY <2>2
  <2>4. /\ cand.past = base.past \cup {base.id}
        /\ cand.auth = base.auth \/ cand.auth = cand.id
    BY <2>3 DEF Device!Candidate
  <2>5. cand.past \subseteq IdsOf /\ cand.auth \in IdsOf'
    BY <1>2, <2>4 DEF LineageInv, IdsOf
  <2>6. \A a \in Past : a.id \in cand.past => Older(a, cand)
    BY <2>1, <2>3, CandidateFollows
  <2>7. \A x \in Past' : cand.id \notin x.past
    BY <1>1, <2>1, <2>5 DEF LineageInv
  <2> QED BY <1>1, <1>2, <2>5, <2>6, <2>7 DEF LineageInv
<1> QED BY <1>3, <1>4

LEMMA LineageStep ==
  Device!ConstantsApart /\ JournalInv /\ LineageInv /\ [Device!Next]_(Device!vars) => LineageInv'
<1> SUFFICES ASSUME Device!ConstantsApart, JournalInv, LineageInv,
                 [Device!Next]_(Device!vars) PROVE LineageInv'
  OBVIOUS
<1> USE DEF Device!journals
<1>1. ASSUME UNCHANGED <<published, restores, anchor, store>> PROVE LineageInv'
  <2>1. Past' = Past /\ IdsOf' = IdsOf
    BY <1>1 DEF Past, IdsOf
  <2> QED BY <1>1, <2>1 DEF LineageInv
<1>2. ASSUME NEW f \in Device!Files, NEW proved, Device!Enroll(f) \/ Device!Advance(f, proved)
      PROVE  LineageInv'
  <2>1. UNCHANGED <<published, restores, store>> /\ Device!Trust(f, store.tip)
    BY <1>2 DEF Device!Enroll, Device!Advance
  <2>2. Past' = Past /\ IdsOf' = IdsOf
    BY <2>1 DEF Past, IdsOf
  <2>3. \A g \in Device!Files : anchor'[g] = anchor[g] \/ anchor'[g] = store.tip
    BY <2>1 DEF Device!Trust, JournalInv, TrustInv
  <2> QED BY <2>1, <2>2, <2>3 DEF LineageInv, Device!Descends
<1>3. ASSUME NEW p \in Writers, NEW anchoring, Device!Publish(p, anchoring) PROVE LineageInv'
  <2> DEFINE cand == proc[p].cand
  <2>0. anchor' = anchor \/ anchor' = [anchor EXCEPT ![cand.device] = cand]
    <3>1. (anchor' = anchor) \/ Device!Trust(cand.device, cand)
      BY <1>3 DEF Device!Publish
    <3> QED BY <3>1 DEF Device!Trust
  <2>1. /\ Device!At(p, "journaled") /\ published' = published \cup {cand} /\ restores' = restores
        /\ store'.tip = cand /\ store.tip # None /\ store.tip.id = cand.prev
    BY <1>3 DEF Device!Publish, Device!Applies
  <2>2. /\ \A x \in Past' : x.past \subseteq IdsOf' /\ x.auth \in IdsOf'
        /\ \A a, x \in Past' : a.id \in x.past => Older(a, x)
    BY <2>1, LineagePublish
  <2>3. cand.past = store.tip.past \cup {store.tip.id}
    <3>1. PICK o \in JournalOps, d \in Recipients, v \in Variants, base \in Past :
            \E kind \in OpKinds[o] : cand = Device!Candidate(o, d, v, kind, base)
      BY <2>1, PublishedAnew DEF Sealed
    <3>2. cand.prev = base.id /\ cand.past = base.past \cup {base.id}
      BY <3>1 DEF Device!Candidate
    <3>3. store.tip = base
      BY <2>1, <3>2, PublishedOnce DEF JournalInv, StoreInv
    <3> QED BY <3>2, <3>3
  <2>4. \A f \in Device!Files : anchor'[f] = anchor[f] \/ anchor'[f] = cand
    BY <2>0 DEF JournalInv, TrustInv
  <2>5. restores' = 0 => \A f \in Device!Files : anchor'[f] # None
            => Device!Descends(anchor'[f], cand)
    <3> SUFFICES ASSUME restores = 0, NEW f \in Device!Files, anchor'[f] # None
                 PROVE  Device!Descends(anchor'[f], cand)
      BY <2>1
    <3>1. CASE anchor'[f] = cand
      BY <3>1 DEF Device!Descends
    <3>2. CASE anchor'[f] = anchor[f]
      <4>1. Device!Descends(anchor[f], store.tip)
        BY <2>1, <3>2 DEF LineageInv
      <4> QED BY <2>3, <3>2, <4>1 DEF Device!Descends
    <3> QED BY <2>4, <3>1, <3>2
  <2> QED BY <2>1, <2>2, <2>5 DEF LineageInv, Device!Descends
<1>4. ASSUME NEW p \in Writers, Device!Destroy(p) PROVE LineageInv'
  <2>1. /\ Device!At(p, "journaled") /\ published' = published \cup {proc[p].cand}
        /\ restores' = restores /\ store'.tip = None
    BY <1>4 DEF Device!Destroy
  <2> QED BY <2>1, LineagePublish DEF LineageInv
<1>5. ASSUME NEW doc, Device!Restore(doc) PROVE LineageInv'
  <2>1. Past' = Past /\ IdsOf' = IdsOf
    BY <1>5 DEF Device!Restore, Past, IdsOf
  <2>2. restores' \in Nat /\ restores' # 0
    BY <1>5 DEF Device!Restore, LineageInv
  <2> QED BY <2>1, <2>2 DEF LineageInv
<1>6. CASE UNCHANGED Device!vars
  BY <1>1, <1>6 DEF Device!vars
<1> QED BY <1>1, <1>2, <1>3, <1>4, <1>5, <1>6
     DEF Device!Next, Device!Resume, Device!ResumeDestruction, Device!Prepare, Device!Create,
         Device!CreateDestruction, Device!Reconcile,
         Device!ReconcileDestruction, Device!Crash, Device!Bury

\* What a file accepts is what it trusts, or a later document.
LEMMA AcceptedIsLater ==
  ASSUME Device!ConstantsApart, JournalInv, NEW a \in Past, NEW x \in Past, NEW proved,
         Device!Accepts(a, x, proved)
  PROVE  x = a \/ (x.rev > a.rev /\ \A c \in Device!Counters : x.num[c] >= a.num[c])
<1>1. a.rev \in Nat /\ x.rev \in Nat
  BY DEF JournalInv, HeldInv, Device!Documents
<1>2. x.rev = a.rev => x = a
  BY PublishedOnce DEF Device!Accepts, Device!SameRevisionSameHead
<1> QED BY <1>1, <1>2 DEF Device!Accepts, Device!Monotonic

\* What follows a trusted document is accepted when it is proved.
LEMMA DescendantAccepted ==
  ASSUME Device!ConstantsApart, JournalInv, LineageInv, NEW a \in Past, NEW x \in Past,
         Device!Descends(a, x)
  PROVE  Device!Accepts(a, x, TRUE)
<1>1. /\ a.rev \in Nat /\ x.rev \in Nat
      /\ \A c \in Device!Counters : a.num[c] \in Nat /\ x.num[c] \in Nat
  BY DEF JournalInv, HeldInv, Device!Documents
<1>2. CASE x.id = a.id
  <2>1. x = a
    BY <1>2, PublishedOnce
  <2> QED BY <1>1, <2>1 DEF Device!Accepts, Device!Monotonic, Device!SameRevisionSameHead,
                            Device!Advanced, Device!Descends
<1>3. CASE a.id \in x.past
  <2>1. Older(a, x)
    BY <1>3 DEF LineageInv
  <2>2. x.id # a.id
    BY <1>1, <2>1, PublishedOnce DEF Older
  <2> QED BY <1>1, <1>3, <2>1, <2>2 DEF Device!Accepts, Device!SameRevisionSameHead,
                                        Device!Descends, Older
<1> QED BY <1>2, <1>3 DEF Device!Descends

\* No file ever trusts less than it did, whatever store it is shown, and a store
\* that was never put back is always accepted (verifyRecipientRollbackAnchor).
THEOREM AnchorsNeverReturn ==
  ASSUME Device!ConstantsApart
  PROVE  Device!Spec => AnchorsNeverGoBack
<1> DEFINE Forward(f) ==
      anchor[f] # None =>
         \/ anchor'[f] = anchor[f]
         \/ /\ anchor'[f].rev > anchor[f].rev
            /\ \A c \in Device!Counters : anchor'[f].num[c] >= anchor[f].num[c]
<1>1. JournalInv /\ [Device!Next]_(Device!vars)
          => [\A f \in Device!Files : Forward(f)]_(Device!vars)
  <2> SUFFICES ASSUME JournalInv, Device!Next PROVE \A f \in Device!Files : Forward(f)
    OBVIOUS
  <2>1. CASE UNCHANGED anchor
    BY <2>1
  <2>2. ASSUME NEW g \in Device!Files, NEW proved, Device!Enroll(g) \/ Device!Advance(g, proved)
        PROVE  \A f \in Device!Files : Forward(f)
    <3>1. \A f \in Device!Files : anchor'[f] = anchor[f] \/ (f = g /\ anchor'[f] = store.tip)
      BY <2>2 DEF Device!Enroll, Device!Advance, Device!Trust, JournalInv, TrustInv
    <3>2. anchor[g] # None => Device!Accepts(anchor[g], store.tip, proved) /\ store.tip # None
      BY <2>2 DEF Device!Enroll, Device!Advance
    <3>3. anchor[g] # None => anchor[g] \in Past /\ store.tip \in Past
      BY <3>2 DEF JournalInv, TrustInv, StoreInv
    <3> QED BY <3>1, <3>2, <3>3, AcceptedIsLater
  <2>3. ASSUME NEW p \in Writers, NEW anchoring, Device!Publish(p, anchoring), anchor' # anchor
        PROVE  \A f \in Device!Files : Forward(f)
    <3> DEFINE cand == proc[p].cand
               g == cand.device
    <3>1. /\ Device!At(p, "journaled") /\ store.tip # None
          /\ anchor[g] # None /\ Device!Accepts(anchor[g], store.tip, FALSE)
          /\ Device!Accepts(store.tip, cand, FALSE) /\ Device!Trust(g, cand)
      BY <2>3 DEF Device!Publish, Device!Applies
    <3>2. cand \in Device!Documents /\ (cand \in published \/ cand.id \notin IdsOf)
              /\ g \in Device!Files
      BY <3>1, PublishedAnew, SealedIsDocument DEF JournalInv, Device!Files
    <3>3. anchor[g] \in Past /\ store.tip \in Past
      BY <3>1, <3>2 DEF JournalInv, TrustInv, StoreInv
    <3>4. \/ store.tip = anchor[g]
          \/ /\ store.tip.rev > anchor[g].rev
             /\ \A c \in Device!Counters : store.tip.num[c] >= anchor[g].num[c]
      BY <3>1, <3>3, AcceptedIsLater
    <3>5. \/ cand = store.tip
          \/ cand.rev > store.tip.rev
                 /\ \A c \in Device!Counters : cand.num[c] >= store.tip.num[c]
      <4>1. CASE cand \in published
        BY <3>1, <3>3, <4>1, AcceptedIsLater DEF Past
      <4>2. CASE cand.id \notin IdsOf
        <5>1. cand.rev \in Nat /\ store.tip.rev \in Nat /\ cand.id # store.tip.id
          BY <3>2, <3>3, <4>2 DEF JournalInv, HeldInv, Device!Documents, IdsOf
        <5> QED BY <3>1, <5>1 DEF Device!Accepts, Device!SameRevisionSameHead, Device!Monotonic
      <4> QED BY <3>2, <4>1, <4>2
    <3>6. /\ anchor[g].rev \in Nat /\ store.tip.rev \in Nat /\ cand.rev \in Nat
          /\ \A c \in Device!Counters : /\ anchor[g].num[c] \in Nat /\ store.tip.num[c] \in Nat
                                        /\ cand.num[c] \in Nat
      BY <3>2, <3>3 DEF JournalInv, HeldInv, Device!Documents
    <3>7. \/ cand = anchor[g]
          \/ cand.rev > anchor[g].rev
                 /\ \A c \in Device!Counters : cand.num[c] >= anchor[g].num[c]
      BY <3>4, <3>5, <3>6
    <3>8. \A f \in Device!Files : anchor'[f] = anchor[f] \/ (f = g /\ anchor'[f] = cand)
      BY <3>1 DEF Device!Trust, JournalInv, TrustInv
    <3> QED BY <3>7, <3>8
  <2> QED BY <2>1, <2>2, <2>3
       DEF Device!Next, Device!Resume, Device!ResumeDestruction, Device!Prepare, Device!Create,
           Device!CreateDestruction, Device!Reconcile,
           Device!ReconcileDestruction, Device!Crash, Device!Bury, Device!Destroy, Device!Restore
<1>2. JournalInv /\ LineageInv =>
        \A f \in Device!Files : anchor[f] # None /\ store.tip # None =>
           /\ Device!Descends(anchor[f], store.tip) => Device!Accepts(anchor[f], store.tip, TRUE)
           /\ restores = 0 => Device!Descends(anchor[f], store.tip)
  BY DescendantAccepted DEF JournalInv, TrustInv, StoreInv, LineageInv
<1> QED BY <1>1, <1>2, JournalInit, JournalStep, LineageInit, LineageStep, PTL
        DEF Device!Spec, AnchorsNeverGoBack, Device!AnchorsNeverGoBack

-----------------------------------------------------------------------------
(* CollaborationMigration: machines that migrate one vault.                *)

CONSTANTS Machines, MaxMigrated
VARIABLES marker, outcome, revision, bundles, running, recipient, authorized

Migration == INSTANCE CollaborationMigration WITH
  journal <- bundles, authority <- authorized, MaxRevision <- MaxMigrated

Anchored == [genesis : Migration!Bundles, rev : Nat]

MigrationTypes ==
  /\ marker \in [state : {"prepared", "active"}, bundle : Migration!Bundles] \cup {None}
  /\ outcome \in Migration!Bundles \cup {None} /\ revision \in Nat
  /\ bundles \in [Machines -> [state : Migration!States, bundle : Migration!Bundles] \cup {None}]
  /\ running \in [Machines -> [bundle : Migration!Bundles, at : {"sealed",
         "journaled"}] \cup {None}]
  /\ recipient \in [Machines -> Anchored \cup {None}]
  /\ authorized \in [Machines -> Anchored \cup {None}]

\* The marker is active once the genesis it names was committed.
MarkerInv ==
  /\ outcome # None <=> (marker # None /\ marker.state = "active")
  /\ outcome # None => outcome = marker.bundle /\ revision >= 1
  /\ marker # None => \E m \in Machines : bundles[m] # None
                                          /\ bundles[m].bundle = marker.bundle

\* A process that has its journal works on the bundle in it, and an anchor is of a
\* journal that was published.
Published(m) == bundles[m] # None /\ bundles[m].state \in {"published", "anchored", "active"}
MachineInv(m) ==
  /\ Migration!Holds(m) => bundles[m] # None /\ bundles[m].bundle = running[m].bundle
  /\ Published(m) => outcome = bundles[m].bundle
  /\ bundles[m] # None /\ bundles[m].state = "failed" => outcome \notin {None, bundles[m].bundle}
  /\ bundles[m] # None /\ bundles[m].state \in {"anchored", "active"} =>
       recipient[m] # None /\ authorized[m] # None
  /\ recipient[m] # None => /\ Published(m) /\ recipient[m].genesis = bundles[m].bundle
                            /\ recipient[m].rev <= revision
  /\ authorized[m] # None => Published(m) /\ authorized[m].genesis = bundles[m].bundle

MigratedInv == /\ MigrationTypes /\ MarkerInv
               /\ \A m \in Machines : MachineInv(m)

-----------------------------------------------------------------------------
LEMMA MigratedInit == ASSUME Migration!Init PROVE MigratedInv
BY DEF Migration!Init, MigratedInv, MigrationTypes, MarkerInv, MachineInv, Migration!Holds,
       Published

\* What a machine does alone: with its process, its journal that keeps its bundle,
\* and its anchors.
LEMMA MachineStays ==
  ASSUME MigratedInv, NEW m \in Machines, NEW n \in Machines, n # m,
         UNCHANGED Migration!stores,
         \A k \in Machines \ {m} : /\ bundles'[k] = bundles[k] /\ running'[k] = running[k]
                                   /\ recipient'[k] = recipient[k]
                                          /\ authorized'[k] = authorized[k]
  PROVE  MachineInv(n)'
BY DEF MigratedInv, MachineInv, Migration!Holds, Published, Migration!stores

LEMMA MigratedStep ==
  ASSUME Migration!ConstantsApart, MigratedInv, [Migration!Next]_(Migration!vars)
  PROVE  MigratedInv'
<1> USE DEF MigratedInv
<1>1. CASE UNCHANGED Migration!vars
  BY <1>1 DEF Migration!vars, MigrationTypes, MarkerInv, MachineInv, Migration!Holds, Published
<1>2. CASE Migration!Write
  <2>1. UNCHANGED <<marker, outcome, bundles, running, recipient, authorized>>
    BY <1>2 DEF Migration!Write, Migration!anchors
  <2>2. revision' = revision + 1
    BY <1>2 DEF Migration!Write
  <2>3. MigrationTypes' /\ MarkerInv'
    BY <2>1, <2>2 DEF MigrationTypes, MarkerInv
  <2>4. ASSUME NEW m \in Machines PROVE MachineInv(m)'
    BY <2>1, <2>2 DEF MachineInv, Migration!Holds, Published, MigrationTypes, Anchored
  <2> QED BY <2>3, <2>4
<1>3. ASSUME NEW m \in Machines, NEW b,
             (b \in Migration!Bundles /\ Migration!Seal(m, b)) \/ Migration!Create(m)
                 \/ Migration!Resume(m) \/ Migration!Crash(m)
      PROVE  MigratedInv'
  <2>1. /\ UNCHANGED <<Migration!stores, Migration!anchors>>
        /\ running' = [running EXCEPT ![m] = running'[m]]
        /\ bundles' = [bundles EXCEPT ![m] = bundles'[m]]
        /\ bundles[m] # None => bundles'[m] = bundles[m]
        /\ bundles'[m] # None =>
             \/ bundles'[m] = bundles[m]
             \/ /\ bundles[m] = None
                /\ bundles'[m].state = "prepared"
        /\ bundles'[m] \in [state : Migration!States, bundle : Migration!Bundles] \cup {None}
        /\ running'[m] \in [bundle : Migration!Bundles, at : {"sealed", "journaled"}] \cup {None}
    <3>1. CASE b \in Migration!Bundles /\ Migration!Seal(m, b)
      BY <3>1 DEF Migration!Seal, MigrationTypes, Migration!Run
    <3>2. CASE Migration!Create(m)
      <4>1. running[m].bundle \in Migration!Bundles
        BY <3>2 DEF Migration!Create, MigrationTypes
      <4> QED BY <3>2, <4>1 DEF Migration!Create, MigrationTypes, Migration!Run,
                                Migration!Stop, Migration!Keep, Migration!Record,
                                Migration!States, Migration!stores,
                                Migration!anchors
    <3>3. CASE Migration!Resume(m)
      <4>1. bundles[m].bundle \in Migration!Bundles
        BY <3>3 DEF Migration!Resume, Migration!Found, MigrationTypes
      <4> QED BY <3>3, <4>1 DEF Migration!Resume, MigrationTypes, Migration!Run
    <3>4. CASE Migration!Crash(m)
      BY <3>4 DEF Migration!Crash, MigrationTypes, Migration!Stop
    <3> QED BY <1>3, <3>1, <3>2, <3>3, <3>4
  <2>2. running'[m] # None /\ running'[m].at = "journaled" =>
          bundles'[m] # None /\ bundles'[m].bundle = running'[m].bundle
    BY <1>3 DEF Migration!Seal, Migration!Create, Migration!Resume, Migration!Crash,
                MigrationTypes, Migration!Run, Migration!Stop, Migration!Keep,
                Migration!Record, Migration!States,
                MachineInv, Migration!Holds, Migration!SameBundle, Migration!Found,
                    Migration!ConstantsApart
  <2>3. MigrationTypes'
    BY <2>1 DEF MigrationTypes, Migration!stores, Migration!anchors
  <2>4. MarkerInv'
    BY <2>1 DEF MarkerInv, MigrationTypes, Migration!stores, Migration!anchors
  <2>5. MachineInv(m)'
    BY <2>1, <2>2 DEF MachineInv, MigrationTypes, Migration!stores, Migration!anchors,
                      Migration!Holds, Published
  <2>6. ASSUME NEW n \in Machines, n # m PROVE MachineInv(n)'
    BY <2>1, <2>6, MachineStays DEF MigrationTypes, Migration!anchors
  <2> QED BY <2>3, <2>4, <2>5, <2>6
<1>4. ASSUME NEW m \in Machines, Migration!Begin(m) PROVE MigratedInv'
  <2>1. bundles[m] # None /\ bundles[m].bundle = running[m].bundle /\ outcome = None
    BY <1>4 DEF Migration!Begin, MachineInv, MarkerInv
  <2>2. /\ marker' = [state |-> "prepared", bundle |-> running[m].bundle]
        /\ running[m].bundle \in Migration!Bundles
    BY <1>4 DEF Migration!Begin, Migration!MarkerOf, Migration!Holds, MigrationTypes
  <2>3. MigrationTypes' /\ MarkerInv'
    BY <1>4, <2>1, <2>2 DEF Migration!Begin, MigrationTypes, MarkerInv,
                            Migration!ConstantsApart, Migration!anchors
  <2>4. ASSUME NEW n \in Machines PROVE MachineInv(n)'
    BY <1>4 DEF Migration!Begin, MachineInv, Migration!Holds, Published, Migration!anchors
  <2> QED BY <2>3, <2>4
<1>5. ASSUME NEW m \in Machines, Migration!Activate(m) PROVE MigratedInv'
  <2>1. /\ marker' = [state |-> "active", bundle |-> running[m].bundle]
        /\ marker = [state |-> "prepared", bundle |-> running[m].bundle]
        /\ running[m].bundle \in Migration!Bundles /\ marker # None
    BY <1>5 DEF Migration!Activate, Migration!MarkerOf, Migration!Holds, MigrationTypes,
                Migration!ConstantsApart, Migration!States
  <2>2. outcome = None
    BY <2>1 DEF MarkerInv
  <2>3. MigrationTypes' /\ MarkerInv'
    BY <1>5, <2>1, <2>2 DEF Migration!Activate, MigrationTypes, MarkerInv,
                            Migration!ConstantsApart, Migration!anchors, Migration!States
  <2>4. ASSUME NEW n \in Machines PROVE MachineInv(n)'
    <3>1. bundles[n] # None => bundles[n].state = "prepared"
              /\ bundles[n].bundle \in Migration!Bundles
      BY <2>2 DEF MachineInv, MigrationTypes, Published, Migration!States,
                  Migration!ConstantsApart
    <3>2. MachineInv(n) /\ UNCHANGED <<bundles, running, recipient, authorized>>
      BY <1>5 DEF Migration!Activate, Migration!anchors
    <3>3. recipient[n] = None /\ authorized[n] = None
      BY <3>1, <3>2 DEF MachineInv, Published
    <3> QED BY <3>1, <3>2, <3>3 DEF MachineInv, Published, Migration!Holds
  <2> QED BY <2>3, <2>4
<1>6. ASSUME NEW m \in Machines, Migration!Reconcile(m) \/ Migration!MarkAnchored(m)
                 \/ Migration!MarkActive(m)
      PROVE  MigratedInv'
  <2>1. PICK state \in {"published", "failed", "anchored", "active"} :
          /\ Migration!Holds(m) /\ Migration!Stage(m, state)
          /\ state = "published" => outcome = bundles[m].bundle /\ bundles[m].state = "prepared"
          /\ state = "failed" => outcome \notin {None, bundles[m].bundle}
                 /\ bundles[m].state = "prepared"
          /\ state \in {"anchored", "active"} =>
               /\ bundles[m].state \in {"published", "anchored"}
               /\ recipient[m] # None /\ authorized[m] # None
    BY <1>6 DEF Migration!Reconcile, Migration!MarkAnchored, Migration!MarkActive,
                Migration!Decided, MachineInv, MigrationTypes,
                Migration!ConstantsApart, Published, Anchored
  <2>2. bundles[m] # None /\ bundles[m] \in [state : Migration!States, bundle : Migration!Bundles]
    BY <2>1 DEF MachineInv, MigrationTypes
  <2>3. PICK j : j = [state |-> state, bundle |-> bundles[m].bundle]
    OBVIOUS
  <2>4. /\ j.state = state /\ j.bundle = bundles[m].bundle /\ j # None
        /\ j \in [state : Migration!States, bundle : Migration!Bundles]
        /\ bundles' = [bundles EXCEPT ![m] = j] /\ bundles'[m] = j
        /\ UNCHANGED <<Migration!stores, running, Migration!anchors>>
    BY <2>1, <2>2, <2>3 DEF Migration!Stage, Migration!Keep, Migration!Record,
                            Migration!States, Migration!ConstantsApart, MigrationTypes
  <2>5. MigrationTypes'
    BY <2>4 DEF MigrationTypes, Migration!stores, Migration!anchors
  <2>6. MarkerInv'
    BY <2>2, <2>4 DEF MigrationTypes, MarkerInv, Migration!stores
  <2>7. MachineInv(m)'
    BY <2>1, <2>2, <2>4 DEF MachineInv, MigrationTypes, Migration!stores, Migration!anchors,
                            Migration!Holds, Published
  <2>8. ASSUME NEW n \in Machines, n # m PROVE MachineInv(n)'
    BY <2>4, <2>8, MachineStays DEF MigrationTypes, Migration!anchors
  <2> QED BY <2>5, <2>6, <2>7, <2>8
<1>7. ASSUME NEW m \in Machines, Migration!AnchorRecipient(m) \/ Migration!AnchorAuthority(m)
                 \/ Migration!Follow(m)
      PROVE  MigratedInv'
  <2>1. /\ UNCHANGED <<Migration!stores, bundles, running>>
        /\ recipient' = [recipient EXCEPT ![m] = recipient'[m]]
        /\ authorized' = [authorized EXCEPT ![m] = authorized'[m]]
    BY <1>7 DEF Migration!AnchorRecipient, Migration!AnchorAuthority, Migration!Follow,
                MigrationTypes
  <2>2. Published(m) /\ outcome = bundles[m].bundle /\ revision >= 1
            /\ bundles[m].bundle \in Migration!Bundles
    BY <1>7 DEF Migration!AnchorRecipient, Migration!AnchorAuthority, Migration!Follow,
                MachineInv, MarkerInv, Published, Migration!Holds,
                MigrationTypes, Migration!ConstantsApart
  <2>3. /\ recipient'[m] \in Anchored \cup {None}
        /\ recipient[m] # None => recipient'[m] # None
        /\ recipient'[m] # None => /\ recipient'[m].genesis = bundles[m].bundle
                                   /\ recipient'[m].rev <= revision
    <3>1. CASE Migration!AnchorRecipient(m)
      BY <2>2, <3>1 DEF Migration!AnchorRecipient, MigrationTypes, Anchored
    <3>2. CASE Migration!AnchorAuthority(m)
      BY <2>2, <3>2 DEF Migration!AnchorAuthority, MigrationTypes, Anchored, MachineInv
    <3>3. CASE Migration!Follow(m)
      <4>1. PICK r : r = [recipient[m] EXCEPT !.rev = @ + 1]
        OBVIOUS
      <4>2. recipient'[m] = r
        BY <3>3, <4>1 DEF Migration!Follow, MigrationTypes
      <4>3. recipient[m] \in Anchored /\ recipient[m].genesis = bundles[m].bundle
        BY <3>3 DEF Migration!Follow, MigrationTypes, MachineInv
      <4>4. r \in Anchored /\ r.genesis = recipient[m].genesis /\ r.rev = recipient[m].rev + 1
        BY <4>1, <4>3 DEF Anchored
      <4>5. r # None
        BY <4>4 DEF Migration!ConstantsApart, Anchored
      <4> QED BY <3>3, <4>2, <4>3, <4>4, <4>5 DEF Migration!Follow, MigrationTypes, Anchored
    <3> QED BY <1>7, <3>1, <3>2, <3>3
  <2>4. /\ authorized'[m] \in Anchored \cup {None}
        /\ authorized[m] # None => authorized'[m] # None
        /\ authorized'[m] # None => authorized'[m].genesis = bundles[m].bundle
    BY <1>7, <2>2 DEF Migration!AnchorRecipient, Migration!AnchorAuthority, Migration!Follow,
                      MigrationTypes, Anchored, MachineInv,
                      Migration!ConstantsApart
  <2>5. MigrationTypes'
    BY <2>1, <2>3, <2>4 DEF MigrationTypes, Migration!stores
  <2>6. MarkerInv'
    BY <2>1 DEF MarkerInv, Migration!stores
  <2>7. MachineInv(m)'
    BY <2>1, <2>2, <2>3, <2>4 DEF MachineInv, Migration!stores, Migration!Holds, Published
  <2>8. ASSUME NEW n \in Machines, n # m PROVE MachineInv(n)'
    BY <2>1, <2>8, MachineStays DEF MigrationTypes
  <2> QED BY <2>5, <2>6, <2>7, <2>8
<1>8. CASE Migration!Next
  BY <1>2, <1>3, <1>4, <1>5, <1>6, <1>7, <1>8 DEF Migration!Next
<1> QED BY <1>1, <1>8

\* Whichever machines run a migration and wherever they stop: a fenced vault can be finished
\* with, one bundle is published, and what is anchored has both anchors on it.
THEOREM MigrationsDoAgree ==
  ASSUME Migration!ConstantsApart
  PROVE  Migration!Spec => []Migration!MigrationsAgree
<1>1. MigratedInv => Migration!MigrationsAgree
  BY DEF MigratedInv, MarkerInv, MachineInv, Published, Migration!MigrationsAgree
<1> QED BY <1>1, MigratedInit, MigratedStep, PTL DEF Migration!Spec

-----------------------------------------------------------------------------
(* CollaborationIdentity: the devices of one principal.                    *)

CONSTANTS DeviceIds, Paths, Expiries, Never, MaxDevices, MaxGeneration, MaxNow
VARIABLES root, file, lock, exports, now

Identity == INSTANCE CollaborationIdentity

\* The certificates a root has listed and that are active at this time.
InUse == {c \in {root.devices[i] : i \in DeviceIds} \ {None} : Identity!Usable(c)}

RootInv ==
  /\ root \in [gen : Nat, devices : [DeviceIds -> Identity!Certificates \cup {None}]]
         /\ now \in Nat
  /\ \A i \in DeviceIds : root.devices[i] # None => root.devices[i].id = i

\* A device file has the keys that were drawn with it.
FileInv ==
  /\ file \in [Paths -> Identity!Certificates \cup {None}]
  /\ \A p \in Paths : file[p] # None => file[p].keys = p
  /\ lock \in [path : Paths, cert : Identity!Certificates] \cup {None}

\* What was exported of a device has the keys that the root lists it with, and an export
\* of this generation only leaves out what has expired.
ExportInv(e) ==
  /\ e.gen \in Nat /\ e.gen <= root.gen
  /\ \A c \in e.devices : /\ c \in Identity!Certificates /\ root.devices[c.id] # None
                          /\ root.devices[c.id].keys = c.keys
  /\ e.gen = root.gen => /\ InUse \subseteq e.devices
                         /\ \A c \in e.devices : c = root.devices[c.id] /\ c.state = "active"

OneListPerGeneration ==
  \A e, f \in exports : e.gen = f.gen =>
    e.devices \subseteq f.devices \/ f.devices \subseteq e.devices

IdentityInv == /\ RootInv /\ FileInv /\ OneListPerGeneration
               /\ \A e \in exports : ExportInv(e)

-----------------------------------------------------------------------------
LEMMA IdentityInit == ASSUME Identity!ConstantsFit, Identity!Init PROVE IdentityInv
<1>1. PICK d : d = [i \in DeviceIds |-> None]
  OBVIOUS
<1>2. root = [gen |-> 1, devices |-> d] /\ d \in [DeviceIds -> Identity!Certificates \cup {None}]
  BY <1>1 DEF Identity!Init, Identity!Metadata
<1>3. RootInv
  BY <1>1, <1>2 DEF Identity!Init, RootInv
<1> QED BY <1>3 DEF Identity!Init, IdentityInv, FileInv, OneListPerGeneration

\* What is exported now is what is in use.
LEMMA ExportsWhatIsInUse ==
  ASSUME Identity!ConstantsFit, RootInv, NEW e \in Identity!Exported(root)
  PROVE  /\ e.devices = InUse /\ ExportInv(e)
<1>1. e.gen = root.gen /\ e.devices = InUse
  BY DEF Identity!Exported, InUse
<1>2. ASSUME NEW c \in InUse
      PROVE  c \in Identity!Certificates /\ c = root.devices[c.id] /\ c # None
                 /\ c.state = "active"
  <2>1. PICK i \in DeviceIds : c = root.devices[i] /\ c # None
    BY <1>2 DEF InUse
  <2> QED BY <1>2, <2>1 DEF RootInv, InUse, Identity!Usable
<1> QED BY <1>1, <1>2 DEF ExportInv, RootInv

\* An export of the root as it is agrees with the others of its generation.
LEMMA ExportingKeeps ==
  ASSUME Identity!ConstantsFit, IdentityInv, UNCHANGED <<root, now>>,
         exports' \subseteq exports \cup Identity!Exported(root)
  PROVE  /\ RootInv' /\ OneListPerGeneration'
         /\ \A e \in exports' : ExportInv(e)'
<1>1. RootInv' /\ InUse' = InUse
  BY DEF IdentityInv, RootInv, InUse, Identity!Usable
<1>2. ASSUME NEW e \in exports' PROVE ExportInv(e) /\ ExportInv(e)'
  <2>1. ExportInv(e)
    BY <1>2, ExportsWhatIsInUse DEF IdentityInv
  <2> QED BY <1>1, <2>1 DEF ExportInv
<1>3. ASSUME NEW e \in exports', NEW f \in exports', e.gen = f.gen
      PROVE  e.devices \subseteq f.devices \/ f.devices \subseteq e.devices
  <2>1. ASSUME NEW x \in Identity!Exported(root), NEW y \in exports', x.gen = y.gen
        PROVE  x.devices \subseteq y.devices
    <3>1. x.gen = root.gen
      BY <2>1 DEF Identity!Exported
    <3>2. x.devices = InUse
      BY <2>1, ExportsWhatIsInUse DEF IdentityInv
    <3> QED BY <1>2, <2>1, <3>1, <3>2 DEF ExportInv
  <2> QED BY <1>3, <2>1 DEF IdentityInv, OneListPerGeneration
<1> QED BY <1>1, <1>2, <1>3 DEF OneListPerGeneration

\* A new generation keeps the keys that a device is listed with.
LEMMA GenerationKeeps ==
  ASSUME Identity!ConstantsFit, IdentityInv, NEW cert \in Identity!Certificates,
         root' = Identity!With(cert), now' = now,
         root.devices[cert.id] # None => root.devices[cert.id].keys = cert.keys,
         exports' = exports \cup Identity!Exported(root')
  PROVE  /\ RootInv' /\ OneListPerGeneration'
         /\ \A e \in exports' : ExportInv(e)'
<1>1. PICK r, d : r = root' /\ d = [root.devices EXCEPT ![cert.id] = cert]
  OBVIOUS
<1>2. r = [gen |-> root.gen + 1, devices |-> d]
  BY <1>1 DEF Identity!With, Identity!Metadata
<1>3. /\ r.gen = root.gen + 1 /\ r.devices = d
      /\ d \in [DeviceIds -> Identity!Certificates \cup {None}] /\ cert.id \in DeviceIds
             /\ cert # None
      /\ d[cert.id] = cert /\ \A i \in DeviceIds \ {cert.id} : d[i] = root.devices[i]
  BY <1>1, <1>2 DEF IdentityInv, RootInv, Identity!Certificates, Identity!ConstantsFit
<1>4. RootInv'
  BY <1>1, <1>2, <1>3 DEF IdentityInv, RootInv
<1>5. \A i \in DeviceIds : root.devices[i] # None => d[i] # None
          /\ d[i].keys = root.devices[i].keys
  BY <1>3
<1>6. ASSUME NEW e \in Identity!Exported(root') PROVE ExportInv(e)' /\ e.gen = root'.gen
  <2>2. e.gen = root'.gen /\ e.devices = InUse'
    BY <1>6 DEF Identity!Exported, InUse, Identity!Usable
  <2>3. ASSUME NEW c \in InUse'
        PROVE  c \in Identity!Certificates /\ c = d[c.id] /\ c # None /\ c.state = "active"
    <3>1. PICK i \in DeviceIds : c = d[i] /\ c # None
      BY <1>1, <1>3, <2>3 DEF InUse
    <3> QED BY <1>1, <1>3, <1>4, <2>3, <3>1 DEF RootInv, InUse, Identity!Usable
  <2> QED BY <1>1, <1>3, <1>4, <2>2, <2>3 DEF ExportInv, RootInv
<1>7. ASSUME NEW e \in exports PROVE ExportInv(e)' /\ e.gen # root'.gen
  <2>1. ExportInv(e)
    BY <1>7 DEF IdentityInv
  <2>2. e.gen \in Nat /\ e.gen <= root.gen /\ root.gen \in Nat
    BY <2>1 DEF ExportInv, IdentityInv, RootInv
  <2>3. e.gen <= root'.gen /\ e.gen # root'.gen
    BY <1>1, <1>3, <2>2
  <2>4. ASSUME NEW c \in e.devices
        PROVE  c \in Identity!Certificates /\ root'.devices[c.id] # None
                   /\ root'.devices[c.id].keys = c.keys
    BY <1>1, <1>3, <1>5, <2>1 DEF ExportInv, Identity!Certificates
  <2> QED BY <2>2, <2>3, <2>4 DEF ExportInv
<1>8. ASSUME NEW e \in exports', NEW f \in exports', e.gen = f.gen
      PROVE  e.devices \subseteq f.devices \/ f.devices \subseteq e.devices
  <2>1. CASE e \in exports /\ f \in exports
    BY <1>8, <2>1 DEF IdentityInv, OneListPerGeneration
  <2>2. CASE e \in Identity!Exported(root') /\ f \in Identity!Exported(root')
    BY <2>2 DEF Identity!Exported
  <2> QED BY <1>6, <1>7, <1>8, <2>1, <2>2
<1> QED BY <1>4, <1>6, <1>7, <1>8 DEF OneListPerGeneration

LEMMA IdentityStep ==
  ASSUME Identity!ConstantsFit, IdentityInv, [Identity!Next]_(Identity!vars)
  PROVE  IdentityInv'
<1>1. CASE UNCHANGED Identity!vars
  BY <1>1, ExportingKeeps DEF Identity!vars, IdentityInv, FileInv
<1>2. ASSUME NEW i \in DeviceIds, NEW p \in Paths, NEW expires \in Expiries \cup {Never},
             Identity!Certify(i, p, expires)
      PROVE  IdentityInv'
  <2>1. UNCHANGED <<root, exports, now>> /\ lock' = [path |-> p, cert |-> file'[p]]
    BY <1>2 DEF Identity!Certify, Identity!Hold
  <2>2. CASE file[p] # None
    <3>1. file' = file /\ file[p] \in Identity!Certificates
      BY <1>2, <2>2 DEF Identity!Certify, Identity!Opened, IdentityInv, FileInv
    <3> QED BY <2>1, <3>1, ExportingKeeps DEF IdentityInv, FileInv
  <2>3. CASE file[p] = None
    <3>1. PICK c : c = Identity!Certificate(i, p, expires)
      OBVIOUS
    <3>2. c \in Identity!Certificates /\ c.keys = p
      BY <3>1 DEF Identity!Certificate, Identity!Certificates
    <3>3. file' = [file EXCEPT ![p] = c]
      BY <1>2, <2>3, <3>1 DEF Identity!Certify, Identity!Opened, Identity!Seal
    <3>4. FileInv'
      BY <2>1, <3>2, <3>3 DEF IdentityInv, FileInv
    <3> QED BY <2>1, <3>4, ExportingKeeps DEF IdentityInv
  <2> QED BY <2>2, <2>3
<1>3. CASE Identity!Finish
  <2>1. lock.cert \in Identity!Certificates /\ UNCHANGED <<file, now>> /\ lock' = None
    BY <1>3 DEF Identity!Finish, IdentityInv, FileInv
  <2>2. FileInv'
    BY <2>1 DEF IdentityInv, FileInv
  <2>3. CASE root.devices[lock.cert.id] # None
    <3>1. root' = root /\ exports' = exports \cup Identity!Exported(root)
      BY <1>3, <2>3 DEF Identity!Finish, Identity!Record
    <3> QED BY <2>1, <2>2, <3>1, ExportingKeeps DEF IdentityInv
  <2>4. CASE root.devices[lock.cert.id] = None
    <3>1. root' = Identity!With(lock.cert) /\ exports' = exports \cup Identity!Exported(root')
      BY <1>3, <2>4 DEF Identity!Finish, Identity!Record
    <3> QED BY <2>1, <2>2, <2>4, <3>1, GenerationKeeps DEF IdentityInv
  <2> QED BY <2>3, <2>4
<1>4. CASE Identity!Stop
  <2>1. FileInv'
    BY <1>4 DEF Identity!Stop, IdentityInv, FileInv
  <2> QED BY <1>4, <2>1, ExportingKeeps DEF Identity!Stop, IdentityInv
<1>5. CASE Identity!Export
  <2>1. FileInv'
    BY <1>5 DEF Identity!Export, IdentityInv, FileInv
  <2> QED BY <1>5, <2>1, ExportingKeeps DEF Identity!Export, IdentityInv
<1>6. CASE Identity!Tick
  <2>1. now' = now + 1 /\ UNCHANGED <<root, file, lock, exports>>
    BY <1>6 DEF Identity!Tick
  <2>2. RootInv' /\ FileInv' /\ OneListPerGeneration'
    BY <2>1 DEF IdentityInv, RootInv, FileInv, OneListPerGeneration
  <2>3. InUse' \subseteq InUse
    <3>1. ASSUME NEW c \in InUse' PROVE c \in InUse
      <4>1. PICK i \in DeviceIds : c = root.devices[i] /\ c # None
        BY <2>1, <3>1 DEF InUse
      <4>2. c.expires # Never => c.expires \in Nat
        BY <4>1 DEF IdentityInv, RootInv, Identity!Certificates, Identity!ConstantsFit
      <4>3. c.state = "active" /\ (c.expires # Never => now + 1 < c.expires)
        BY <2>1, <3>1 DEF InUse, Identity!Usable
      <4> QED BY <4>1, <4>2, <4>3 DEF InUse, Identity!Usable, IdentityInv, RootInv
    <3> QED BY <3>1
  <2>4. ASSUME NEW e \in exports PROVE ExportInv(e)'
    BY <2>1, <2>3 DEF IdentityInv, ExportInv
  <2> QED BY <2>1, <2>2, <2>4 DEF IdentityInv
<1>7. ASSUME NEW i \in DeviceIds, Identity!Revoke(i) PROVE IdentityInv'
  <2>1. PICK o, c : /\ o = root.devices[i] /\ c = [o EXCEPT !.gen = @ + 1, !.state = "revoked"]
                    /\ c = [root.devices[i] EXCEPT !.gen = @ + 1, !.state = "revoked"]
    OBVIOUS
  <2>2. root.devices[i] \in Identity!Certificates /\ root.devices[i] # None
            /\ root.devices[i].id = i
    BY <1>7 DEF Identity!Revoke, Identity!Listed, IdentityInv, RootInv
  <2>3. c \in Identity!Certificates /\ c.id = i /\ c.keys = root.devices[i].keys
    <3>1. o \in Identity!Certificates /\ o.id = i
      BY <2>1, <2>2
    <3>2. c = [id |-> o.id, keys |-> o.keys, gen |-> o.gen + 1, state |-> "revoked",
               expires |-> o.expires]
      BY <2>1, <3>1 DEF Identity!Certificates
    <3>3. /\ o.id \in DeviceIds /\ o.keys \in Paths /\ o.gen + 1 \in Nat
          /\ o.expires \in Expiries \cup {Never}
      BY <3>1 DEF Identity!Certificates
    <3> QED BY <2>1, <3>1, <3>2, <3>3 DEF Identity!Certificates
  <2>4. root' = Identity!With(c) /\ exports' = exports \cup Identity!Exported(root')
            /\ UNCHANGED <<file, lock, now>>
    BY <1>7, <2>1 DEF Identity!Revoke
  <2> QED BY <2>3, <2>4, GenerationKeeps DEF IdentityInv, FileInv
<1>8. CASE Identity!Next
  BY <1>2, <1>3, <1>4, <1>5, <1>6, <1>7, <1>8 DEF Identity!Next
<1> QED BY <1>1, <1>8

\* Whatever is interrupted and repeated under other paths: a device has one pair of keys, a
\* generation one list, and a revoked device is not opened by its generation or a later one.
THEOREM KeysAreOne ==
  ASSUME Identity!ConstantsFit
  PROVE  Identity!Spec => []Identity!OneKeyPerDevice
<1>1. ASSUME IdentityInv PROVE Identity!OneKeyPerDevice
  <2>1. ASSUME NEW e \in exports, NEW f \in exports, NEW p \in Paths, NEW q \in Paths,
               Identity!Opens(p, e, 1), Identity!Opens(q, f, 1), file[p].id = file[q].id
        PROVE  p = q
    <3>1. /\ file[p] # None /\ file[p] \in e.devices /\ file[p].keys = p
          /\ file[q] # None /\ file[q] \in f.devices /\ file[q].keys = q
      BY <1>1, <2>1 DEF Identity!Opens, Identity!Opened, IdentityInv, FileInv
    <3> QED BY <1>1, <2>1, <3>1 DEF IdentityInv, ExportInv
  <2>2. ASSUME NEW i \in Identity!Listed, NEW e \in exports, NEW p \in Paths,
               root.devices[i].state = "revoked", e.gen = root.gen, Identity!Opens(p, e, 1),
                   file[p].id = i
        PROVE  FALSE
    <3>1. file[p] \in e.devices
      BY <2>2 DEF Identity!Opens, Identity!Opened
    <3> QED BY <1>1, <2>2, <3>1 DEF IdentityInv, ExportInv
  <2> QED BY <1>1, <2>1, <2>2 DEF Identity!OneKeyPerDevice, IdentityInv, OneListPerGeneration
<1> QED BY <1>1, IdentityInit, IdentityStep, PTL DEF Identity!Spec

-----------------------------------------------------------------------------
\* CollaborationMigration, CollaborationIdentity: journals and anchors agree with
\* the store; a device has one pair of keys, and none once it is revoked.
FilesAgree == Migration!MigrationsAgree /\ Identity!OneKeyPerDevice

\* Both, of any number of machines, devices, paths and generations.
THEOREM FilesDoAgree ==
  ASSUME Migration!ConstantsApart, Identity!ConstantsFit
  PROVE  Migration!Spec /\ Identity!Spec => []FilesAgree
<1>1. Migration!MigrationsAgree /\ Identity!OneKeyPerDevice => FilesAgree
  BY DEF FilesAgree
<1> QED BY <1>1, MigrationsDoAgree, KeysAreOne, PTL

-----------------------------------------------------------------------------
(* CollaborationChain: what a device that follows a vault verifies.        *)

CONSTANTS ChangeOps, ChangeKinds, AuthStates, FirstState, MaxEpoch, MaxDecisions, MaxFollowed,
          MaxCheckpoints
VARIABLES decided, chains, checkpoints

Follower == INSTANCE CollaborationChain WITH
  view <- chains, Operations <- ChangeOps, Kinds <- ChangeKinds, States <- AuthStates,
  MaxRevision <- MaxFollowed

\* The places a vault has been in: each after a first one is reached from another by the
\* link that is its head, and a place has one authorization state.
Place(head, number, state) == [head |-> head, revision |-> number, state |-> state]

Reaches(from, to) ==
  /\ from.head = to.head.previous /\ from.revision = to.revision - 1
  /\ to.state = IF to.head.kind = "ordinary-write" THEN from.state ELSE to.head.after.state

History(H) ==
  /\ \A x \in H : /\ x.revision \in Nat \ {0}
                  /\ x.revision = 1 => x.state = FirstState
                  /\ x.revision # 1 => \E y \in H : Reaches(y, x)
  /\ \A x \in H, y \in H : x.head = y.head /\ x.revision = y.revision => x.state = y.state

\* Of the entries before one that show an authorization state there is a last one.
HasLast(v, i) == Follower!Shown(v, i) # {} => \E j \in Follower!Shown(v,
                     i) : \A k \in Follower!Shown(v, i) : k =< j

\* A view is where its entries lead from its base.
ViewInv(v, H) ==
  /\ v = [head |-> v.head, revision |-> v.revision, tuple |-> v.tuple, base |-> v.base,
          entries |-> v.entries]
  /\ v.entries \in Seq({v.entries[i] : i \in DOMAIN v.entries})
  /\ Place(v.head, v.revision, v.tuple.state) \in H
  /\ \A i \in 1..(Len(v.entries) + 1) : HasLast(v, i)
  /\ v.head = Follower!HeadBefore(v, Len(v.entries) + 1)
  /\ v.tuple.state = Follower!StateBefore(v, Len(v.entries) + 1)

\* What a view follows was decided (ChangesAreAuthorized, of one view).
IsAuthorized(v, i, D) ==
  v.entries[i].witness # None =>
    \E t \in D :
      /\ t.previous = Follower!HeadBefore(v, i)
      /\ t.before.state = Follower!StateBefore(v, i)
      /\ t.after = v.entries[i].witness.tuple
      /\ t.kind = v.entries[i].link.commitment.kind
      /\ (t.signer = Authority) => t.kind = "recover-owner"

ChainInv ==
  /\ DOMAIN chains = Devices /\ chains = [d \in Devices |-> chains[d]]
  /\ \A d \in Devices : \A i \in DOMAIN chains[d].entries : IsAuthorized(chains[d], i, decided)
  /\ \E H : /\ History(H)
            /\ \A d \in Devices     : ViewInv(chains[d], H)
            /\ \A t \in decided     : Place(t.previous, t.before.revision, t.before.state) \in H
            /\ \A k \in checkpoints : Place(k.head, k.tuple.revision, k.shown.state) \in H


-----------------------------------------------------------------------------
\* The state before an entry is told by the entries before it.
LEMMA StateStays ==
  ASSUME NEW v, NEW w, NEW i \in Nat, w.base = v.base, HasLast(v, i),
         \A j \in 1..(i - 1) : w.entries[j] = v.entries[j]
  PROVE  Follower!StateBefore(w, i) = Follower!StateBefore(v, i) /\ HasLast(w, i)
<1> DEFINE shown == Follower!Shown(v, i)
           last  == Follower!LastOf(shown)
<1>1. shown = Follower!Shown(w, i) /\ shown \subseteq 1..(i - 1)
  BY DEF Follower!Shown
<1>2. shown # {} => last \in shown
  <2> HIDE DEF shown
  <2> QED BY DEF HasLast, Follower!LastOf, shown
<1>3. shown # {} => w.entries[last] = v.entries[last]
  <2> HIDE DEF shown, last
  <2> QED BY <1>1, <1>2
<1>4. HasLast(w, i)
  BY <1>1 DEF HasLast
<1>5. /\ Follower!StateBefore(v,
             i) = IF shown = {} THEN v.base.state ELSE v.entries[last].witness.tuple.state
      /\ Follower!StateBefore(w,
             i) = IF shown = {} THEN w.base.state ELSE w.entries[last].witness.tuple.state
  BY <1>1 DEF Follower!StateBefore
<1> HIDE DEF last, shown
<1> QED BY <1>3, <1>4, <1>5

\* ... and that after an entry which shows one is the one it shows.
LEMMA StateShown ==
  ASSUME NEW v, NEW i \in Nat \ {0}, HasLast(v, i)
  PROVE  /\ HasLast(v, i + 1)
         /\ Follower!StateBefore(v, i + 1) = IF v.entries[i].witness # None
                                             THEN v.entries[i].witness.tuple.state
                                             ELSE Follower!StateBefore(v, i)
<1> DEFINE shown == Follower!Shown(v, i + 1)
<1>1. CASE v.entries[i].witness # None
  <2>1. i \in shown /\ \A k \in shown : k \in Int /\ k =< i
    BY <1>1 DEF Follower!Shown
  <2> HIDE DEF shown
  <2>2. Follower!LastOf(shown) \in shown /\ \A k \in shown : k =< Follower!LastOf(shown)
    BY <2>1 DEF Follower!LastOf
  <2>3. Follower!LastOf(shown) = i
    <3> DEFINE last == Follower!LastOf(shown)
    <3>1. last \in Int /\ last =< i /\ i =< last
      BY <2>1, <2>2
    <3> HIDE DEF last
    <3>2. last = i
      BY <3>1
    <3> QED BY <3>2 DEF last
  <2> QED BY <1>1, <2>1, <2>3 DEF HasLast, Follower!StateBefore, shown
<1>2. CASE v.entries[i].witness = None
  <2>1. shown = Follower!Shown(v, i)
    BY <1>2 DEF Follower!Shown
  <2> QED BY <1>2, <2>1 DEF HasLast, Follower!StateBefore
<1> QED BY <1>1, <1>2

-----------------------------------------------------------------------------
(* One entry.                                                              *)

\* A view after an entry that verified.
Follow(v, e) ==
  [head |-> e.link.head, revision |-> e.link.commitment.after.revision,
   tuple |-> IF e.witness # None THEN e.witness.tuple ELSE v.tuple,
   base |-> v.base, entries |-> Append(v.entries, e)]

\* What verification ensures of the entry after a view.
Verified(v, e, D) ==
  /\ Follower!WellFormedEntry(e)
  /\ e.link.transition # None => Follower!VerifyTransition(e.link.transition)
                                 /\ e.link.transition \in D
  /\ e.link.commitment.before.revision = v.revision
  /\ e.link.commitment.after.revision = v.revision + 1
  /\ e.link.commitment.previous = v.head

\* The place it leads to.
PlaceAfter(v, e) == Place(e.link.head, v.revision + 1, Follow(v, e).tuple.state)

LEMMA HistoryGrows ==
  ASSUME NEW H, History(H), NEW from \in H, NEW to,
         to.revision = from.revision + 1, Reaches(from, to)
  PROVE  History(H \union {to})
<1>1. from.revision \in Nat \ {0} /\ to.revision \in Nat \ {0} /\ to.revision # 1
  BY DEF History
<1>2. ASSUME NEW x \in H, x.head = to.head, x.revision = to.revision
      PROVE  x.state = to.state
  <2>1. PICK y \in H : Reaches(y, x)
    BY <1>1, <1>2 DEF History
  <2>2. y.head = from.head /\ y.revision = from.revision
    BY <1>2, <2>1 DEF Reaches
  <2>3. y.state = from.state
    BY <2>2 DEF History
  <2> QED BY <1>2, <2>1, <2>3 DEF Reaches
<1>3. ASSUME NEW x \in H \union {to}
      PROVE  /\ x.revision \in Nat \ {0}
             /\ x.revision = 1 => x.state = FirstState
             /\ x.revision # 1 => \E y \in H \union {to} : Reaches(y, x)
  BY <1>1 DEF History
<1>4. ASSUME NEW x \in H \union {to}, NEW y \in H \union {to},
             x.head = y.head, x.revision = y.revision
      PROVE  x.state = y.state
  BY <1>2, <1>4 DEF History
<1> QED BY <1>3, <1>4 DEF History

LEMMA HistoryIncludes ==
  ASSUME NEW v, NEW H, NEW G, H \subseteq G, ViewInv(v, H)
  PROVE  ViewInv(v, G)
BY DEF ViewInv

\* What an entry shows was decided, for its place and the state before it.
LEMMA FollowsDecided ==
  ASSUME NEW v, NEW e, NEW D, NEW H, History(H), ViewInv(v, H), Verified(v, e, D),
         \A t \in D : Place(t.previous, t.before.revision, t.before.state) \in H,
         e.witness # None
  PROVE  /\ e.link.transition \in D
         /\ e.link.transition.previous = v.head
         /\ e.link.transition.before.state = v.tuple.state
         /\ e.link.transition.after = e.witness.tuple
         /\ e.link.transition.kind = e.link.commitment.kind
         /\ (e.link.transition.signer = Authority) => e.link.transition.kind = "recover-owner"
<1> DEFINE t == e.link.transition
           c == e.link.commitment
<1>1. t # None /\ Follower!BindsCommitment(c, t) /\ Follower!WellFormedTransition(t)
          /\ e.witness.tuple = c.after
  BY DEF Verified, Follower!WellFormedEntry, Follower!WellFormedLink
<1>2. t \in D /\ t.previous = v.head /\ t.before.revision = v.revision
  BY <1>1 DEF Verified, Follower!BindsCommitment
<1>3. Place(t.previous, t.before.revision, t.before.state).state = v.tuple.state
  <2> DEFINE x == Place(t.previous, t.before.revision, t.before.state)
             y == Place(v.head, v.revision, v.tuple.state)
  <2>1. x \in H /\ y \in H
    BY <1>2 DEF ViewInv
  <2>2. x.head = y.head /\ x.revision = y.revision /\ y.state = v.tuple.state
    BY <1>2 DEF Place
  <2> HIDE DEF x, y
  <2>3. x.state = y.state
    BY <2>1, <2>2 DEF History
  <2> QED BY <2>2, <2>3 DEF x
<1> QED BY <1>1, <1>2, <1>3 DEF Place, Follower!BindsCommitment, Follower!WellFormedTransition

LEMMA FollowKeeps ==
  ASSUME NEW v, NEW e, NEW D, NEW H, History(H), ViewInv(v, H), Verified(v, e, D),
         \A t \in D : Place(t.previous, t.before.revision, t.before.state) \in H,
         \A i \in DOMAIN v.entries : IsAuthorized(v, i, D)
  PROVE  LET w == Follow(v, e)
             G == H \union {PlaceAfter(v, e)}
         IN /\ History(G) /\ ViewInv(w, G)
            /\ \A i \in DOMAIN w.entries : IsAuthorized(w, i, D)
<1> DEFINE w == Follow(v, e)
           G == H \union {PlaceAfter(v, e)}
           n == Len(v.entries)
           c == e.link.commitment
<1>1. /\ n \in Nat /\ DOMAIN v.entries = 1..n
      /\ DOMAIN w.entries = 1..(n + 1) /\ Len(w.entries) = n + 1
      /\ w.entries[n + 1] = e /\ \A i \in 1..n : w.entries[i] = v.entries[i]
      /\ w.entries \in Seq({w.entries[i] : i \in DOMAIN w.entries})
  <2>1. n \in Nat /\ DOMAIN v.entries = 1..n
    BY DEF ViewInv
  <2>2. /\ DOMAIN w.entries = 1..(n + 1) /\ Len(w.entries) = n + 1
        /\ w.entries[n + 1] = e /\ \A i \in 1..n : w.entries[i] = v.entries[i]
    BY DEF ViewInv, Follow
  <2>3. w.entries \in Seq({v.entries[i] : i \in DOMAIN v.entries} \union {e})
    BY DEF ViewInv, Follow
  <2> HIDE DEF w, n
  <2>4. w.entries \in [1..(n + 1) -> {w.entries[i] : i \in DOMAIN w.entries}]
    BY <2>1, <2>2, <2>3
  <2>5. n + 1 \in Nat
    BY <2>1
  <2> DEFINE S == {w.entries[i] : i \in DOMAIN w.entries}
  <2> HIDE DEF S
  <2>6. w.entries \in Seq(S)
    BY <2>4, <2>5 DEF S
  <2> QED BY <2>1, <2>2, <2>6 DEF S
<1>2. /\ w.base = v.base /\ w.head = e.link.head /\ w.revision = v.revision + 1
      /\ w.tuple = IF e.witness # None THEN e.witness.tuple ELSE v.tuple
      /\ w = [head |-> w.head, revision |-> w.revision, tuple |-> w.tuple, base |-> w.base,
              entries |-> w.entries]
  BY DEF Follow, Verified
<1>3. History(G) /\ Place(w.head, w.revision, w.tuple.state) \in G
  <2> DEFINE from == Place(v.head, v.revision, v.tuple.state)
             to   == PlaceAfter(v, e)
  <2>1. from \in H
    BY DEF ViewInv
  <2>2. e.link.head = c /\ c.previous = v.head
        /\ ((e.witness = None) <=> (c.kind = "ordinary-write"))
        /\ (e.witness # None => e.witness.tuple = c.after)
    BY DEF Verified, Follower!WellFormedEntry, Follower!WellFormedLink
  <2>3. /\ from.head = v.head /\ from.revision = v.revision /\ from.state = v.tuple.state
        /\ to.head = c /\ to.revision = v.revision + 1 /\ to.state = w.tuple.state
        /\ to = Place(w.head, w.revision, w.tuple.state)
    BY <1>2, <2>2 DEF Place, PlaceAfter
  <2>4. v.revision \in Nat
    BY <2>1, <2>3 DEF History
  <2> HIDE DEF from, to, w
  <2>5. Reaches(from, to)
    BY <1>2, <2>2, <2>3, <2>4 DEF Reaches
  <2>6. History(H \union {to})
    BY <2>1, <2>3, <2>5, HistoryGrows
  <2> QED BY <2>3, <2>6 DEF to
<1>4. \A i \in 1..(n + 1) : HasLast(v, i) /\ Follower!HeadBefore(w, i) = Follower!HeadBefore(v, i)
                            /\ HasLast(w, i) /\ Follower!StateBefore(w,
                                   i) = Follower!StateBefore(v, i)
  <2> SUFFICES ASSUME NEW i \in 1..(n + 1)
               PROVE  HasLast(v, i) /\ Follower!HeadBefore(w, i) = Follower!HeadBefore(v, i)
                      /\ HasLast(w, i) /\ Follower!StateBefore(w, i) = Follower!StateBefore(v, i)
    OBVIOUS
  <2>1. HasLast(v, i)
    BY DEF ViewInv
  <2> HIDE DEF w, n
  <2>2. i \in Nat /\ n \in Nat /\ \A j \in 1..(i - 1) : w.entries[j] = v.entries[j]
    <3>1. n \in Nat /\ i \in Nat /\ i =< n + 1
      BY <1>1
    <3>2. ASSUME NEW j \in 1..(i - 1) PROVE j \in 1..n
      BY <3>1
    <3> QED BY <1>1, <3>1, <3>2
  <2>3. Follower!HeadBefore(w, i) = Follower!HeadBefore(v, i)
    BY <1>1, <1>2, <2>2 DEF Follower!HeadBefore
  <2>4. HasLast(w, i) /\ Follower!StateBefore(w, i) = Follower!StateBefore(v, i)
    <3>1. w.base = v.base
      BY <1>2
    <3> QED BY <2>1, <2>2, <3>1, StateStays
  <2> QED BY <2>1, <2>3, <2>4
<1>5. HasLast(w, n + 2) /\ w.head = Follower!HeadBefore(w, n + 2)
      /\ w.tuple.state = Follower!StateBefore(w, n + 2)
  <2>1. v.tuple.state = Follower!StateBefore(v, n + 1)
    BY DEF ViewInv
  <2> HIDE DEF w, n
  <2>2. /\ n + 1 \in Nat \ {0} /\ n + 1 \in 1..(n + 1)
        /\ n + 2 = (n + 1) + 1 /\ (n + 2) - 1 = n + 1 /\ n + 2 # 1
    BY <1>1
  <2>6. HasLast(w, n + 1)
    BY <1>4, <2>2
  <2>3. HasLast(w, (n + 1) + 1)
        /\ Follower!StateBefore(w, (n + 1) + 1) = IF w.entries[n + 1].witness # None
                                                  THEN w.entries[n + 1].witness.tuple.state
                                                  ELSE Follower!StateBefore(w, n + 1)
    BY <2>2, <2>6, StateShown
  <2>4. Follower!StateBefore(w, n + 1) = v.tuple.state
    BY <1>1, <1>4, <2>1
  <2>5. w.head = Follower!HeadBefore(w, n + 2)
    BY <1>1, <1>2, <2>2 DEF Follower!HeadBefore
  <2> QED BY <1>1, <1>2, <2>2, <2>3, <2>4, <2>5
<1>6. ViewInv(w, G)
  <2> HIDE DEF w, n, G
  <2>2. Len(w.entries) + 1 = n + 2 /\ \A i \in 1..(n + 2) : i \in 1..(n + 1) \/ i = n + 2
    BY <1>1
  <2>1. \A i \in 1..(Len(w.entries) + 1) : HasLast(w, i)
    BY <1>4, <1>5, <2>2
  <2> QED BY <1>1, <1>2, <1>3, <1>5, <2>1, <2>2 DEF ViewInv
<1>7. ASSUME NEW i \in DOMAIN w.entries PROVE IsAuthorized(w, i, D)
  <2>1. CASE i \in 1..n
    <3> HIDE DEF w, n
    <3> QED BY <1>1, <1>4, <2>1 DEF IsAuthorized
  <2>2. CASE i = n + 1
    <3>1. v.head = Follower!HeadBefore(v, n + 1) /\ v.tuple.state = Follower!StateBefore(v, n + 1)
      BY DEF ViewInv
    <3>2. w.entries[i] = e
      BY <1>1, <2>2
    <3> HIDE DEF w, n
    <3> QED BY <1>1, <1>4, <2>2, <3>1, <3>2, FollowsDecided DEF IsAuthorized
  <2> QED BY <1>1, <2>1, <2>2
<1> QED BY <1>3, <1>6, <1>7

-----------------------------------------------------------------------------
LEMMA ChainInit == ASSUME Follower!Init PROVE ChainInv
<1> DEFINE H == {Place(None, 1, FirstState)}
<1>1. History(H)
  BY DEF History, Place
<1>2. ASSUME NEW d \in Devices PROVE ViewInv(chains[d], H) /\ chains[d].entries = <<>>
  <2> DEFINE v == chains[d]
  <2>1. /\ v.head = None /\ v.revision = 1 /\ v.tuple.state = FirstState /\ v.entries = <<>>
        /\ v.base.head = None /\ v.base.state = FirstState
        /\ v = [head |-> v.head, revision |-> v.revision, tuple |-> v.tuple, base |-> v.base,
                entries |-> v.entries]
    BY DEF Follower!Init, Follower!Tuple
  <2> HIDE DEF v
  <2>2. ViewInv(v, H)
    BY <2>1 DEF ViewInv, HasLast, Follower!HeadBefore, Follower!StateBefore, Follower!Shown
  <2> QED BY <2>1, <2>2 DEF v
<1>3. DOMAIN chains = Devices /\ chains = [d \in Devices |-> chains[d]]
  BY DEF Follower!Init
<1>4. decided = {} /\ checkpoints = {}
  BY DEF Follower!Init
<1> HIDE DEF H
<1> QED BY <1>1, <1>2, <1>3, <1>4 DEF ChainInv

\* A view is changed: of one device, along with the places it has been in.
LEMMA ViewChanges ==
  ASSUME ChainInv, NEW H, NEW G, H \subseteq G, History(G),
         \A d \in Devices     : ViewInv(chains[d], H),
         \A t \in decided     : Place(t.previous, t.before.revision, t.before.state) \in H,
         \A k \in checkpoints : Place(k.head, k.tuple.revision, k.shown.state) \in H,
         NEW d \in Devices, NEW w, chains' = [chains EXCEPT ![d] = w],
         ViewInv(w, G), \A i \in DOMAIN w.entries : IsAuthorized(w, i, decided),
         UNCHANGED <<decided, checkpoints>>
  PROVE  ChainInv'
<1>1. ASSUME NEW g \in Devices
      PROVE  /\ ViewInv(chains'[g], G)
             /\ \A i \in DOMAIN chains'[g].entries : IsAuthorized(chains'[g], i, decided)
  <2>1. ViewInv(chains[g], G)
    BY HistoryIncludes
  <2>2. chains'[g] = chains[g] \/ chains'[g] = w
    BY DEF ChainInv
  <2> QED BY <2>1, <2>2 DEF ChainInv
<1>2. DOMAIN chains' = Devices /\ chains' = [g \in Devices |-> chains'[g]]
  BY DEF ChainInv
<1>3. (\A g \in Devices : \A i \in DOMAIN chains[g].entries : IsAuthorized(chains[g], i,
          decided))'
  BY <1>1
<1>4. (\A g \in Devices : ViewInv(chains[g], G))'
  BY <1>1
<1>5. /\ (\A t \in decided : Place(t.previous, t.before.revision, t.before.state) \in G)'
      /\ (\A k \in checkpoints : Place(k.head, k.tuple.revision, k.shown.state) \in G)'
  OBVIOUS
<1> QED BY <1>2, <1>3, <1>4, <1>5 DEF ChainInv

LEMMA ChainStep == ASSUME ChainInv, [Follower!Next]_(Follower!chainVars) PROVE ChainInv'
<1>0. PICK H : /\ History(H)
               /\ \A d \in Devices     : ViewInv(chains[d], H)
               /\ \A t \in decided     : Place(t.previous, t.before.revision,
                      t.before.state) \in H
               /\ \A k \in checkpoints : Place(k.head, k.tuple.revision, k.shown.state) \in H
  BY DEF ChainInv
\* What is signed is signed at a place that was reached.
<1>1. ASSUME UNCHANGED chains, decided \subseteq decided', checkpoints \subseteq checkpoints',
             \A t \in decided' : Place(t.previous, t.before.revision, t.before.state) \in H,
             \A k \in checkpoints' : Place(k.head, k.tuple.revision, k.shown.state) \in H
      PROVE  ChainInv'
  <2>1. (\A d \in Devices : \A i \in DOMAIN chains[d].entries : IsAuthorized(chains[d], i,
            decided))'
    <3>1. \A d \in Devices : \A i \in DOMAIN chains[d].entries : IsAuthorized(chains[d], i,
              decided')
      BY <1>1 DEF ChainInv, IsAuthorized
    <3> QED BY <1>1, <3>1
  <2>2. (\A d \in Devices : ViewInv(chains[d], H))'
    BY <1>0, <1>1
  <2>3. (DOMAIN chains = Devices /\ chains = [d \in Devices |-> chains[d]])'
    BY <1>1 DEF ChainInv
  <2>4. /\ (\A t \in decided : Place(t.previous, t.before.revision, t.before.state) \in H)'
        /\ (\A k \in checkpoints : Place(k.head, k.tuple.revision, k.shown.state) \in H)'
    BY <1>1
  <2> QED BY <1>0, <2>1, <2>2, <2>3, <2>4 DEF ChainInv
<1>2. ASSUME NEW d \in Devices, Follower!SignTransition(d) PROVE ChainInv'
  <2>1. \E t : /\ decided' = decided \union {t}
               /\ t.previous = chains[d].head /\ t.before = Follower!Trusted(d)
    <3>1. PICK signer \in {d, Authority}, kind \in ChangeKinds, evidence \in Follower!Evidence,
               op \in ChangeOps, epoch \in 1..MaxEpoch, state \in AuthStates :
            decided' = decided \union
              {[signer |-> signer, epoch |-> chains[d].tuple.epoch, kind |-> kind,
                evidence |-> evidence, operation |-> op, previous |-> chains[d].head,
                before |-> Follower!Trusted(d),
                after |-> Follower!Tuple(chains[d].revision + 1, epoch, state)]}
      BY <1>2 DEF Follower!SignTransition
    <3> DEFINE t == [signer |-> signer, epoch |-> chains[d].tuple.epoch, kind |-> kind,
                     evidence |-> evidence, operation |-> op, previous |-> chains[d].head,
                     before |-> Follower!Trusted(d),
                     after |-> Follower!Tuple(chains[d].revision + 1, epoch, state)]
    <3>2. t.previous = chains[d].head /\ t.before = Follower!Trusted(d)
      OBVIOUS
    <3>3. decided' = decided \union {t}
      BY <3>1
    <3> HIDE DEF t
    <3> QED BY <3>2, <3>3
  <2>2. PICK t : /\ decided' = decided \union {t}
                 /\ t.previous = chains[d].head /\ t.before = Follower!Trusted(d)
    BY <2>1
  <2>3. Place(t.previous, t.before.revision, t.before.state) \in H
    <3>1. ViewInv(chains[d], H)
      BY <1>0
    <3>2. t.before.revision = chains[d].revision /\ t.before.state = chains[d].tuple.state
      BY <2>2 DEF Follower!Trusted, Follower!Tuple
    <3> QED BY <2>2, <3>1, <3>2 DEF ViewInv
  <2>4. UNCHANGED <<chains, checkpoints>>
    BY <1>2 DEF Follower!SignTransition
  <2> QED BY <1>0, <1>1, <2>2, <2>3, <2>4
<1>3. ASSUME NEW d \in Devices, Follower!SignCheckpoint(d) PROVE ChainInv'
  <2>1. \E k : /\ checkpoints' = checkpoints \union {k} /\ k.head = chains[d].head
               /\ k.tuple = Follower!Trusted(d) /\ k.shown = chains[d].tuple
    <3>1. PICK compacted : checkpoints' = checkpoints \union
            {[tuple |-> Follower!Trusted(d), shown |-> chains[d].tuple, head |-> chains[d].head,
              compacted |-> compacted]}
      BY <1>3 DEF Follower!SignCheckpoint
    <3> DEFINE k == [tuple |-> Follower!Trusted(d), shown |-> chains[d].tuple,
            head |-> chains[d].head,
                     compacted |-> compacted]
    <3>2. k.head = chains[d].head /\ k.tuple = Follower!Trusted(d) /\ k.shown = chains[d].tuple
      OBVIOUS
    <3>3. checkpoints' = checkpoints \union {k}
      BY <3>1
    <3> HIDE DEF k
    <3> QED BY <3>2, <3>3
  <2>2. PICK k : /\ checkpoints' = checkpoints \union {k} /\ k.head = chains[d].head
                 /\ k.tuple = Follower!Trusted(d) /\ k.shown = chains[d].tuple
    BY <2>1
  <2>3. Place(k.head, k.tuple.revision, k.shown.state) \in H
    <3>1. ViewInv(chains[d], H)
      BY <1>0
    <3>2. k.tuple.revision = chains[d].revision
      BY <2>2 DEF Follower!Trusted, Follower!Tuple
    <3> QED BY <2>2, <3>1, <3>2 DEF ViewInv
  <2>4. UNCHANGED <<chains, decided>>
    BY <1>3 DEF Follower!SignCheckpoint
  <2> QED BY <1>0, <1>1, <2>2, <2>3, <2>4
<1>4. ASSUME NEW d \in Devices, Follower!VerifyFromCheckpoint(d) PROVE ChainInv'
  <2>1. PICK k \in checkpoints :
          chains' = [chains EXCEPT ![d] = [head |-> k.head, revision |-> k.tuple.revision,
                                           tuple |-> k.shown, entries |-> <<>>,
                                           base |-> [head |-> k.head, state |-> k.shown.state]]]
    BY <1>4 DEF Follower!VerifyFromCheckpoint
  <2> DEFINE w == [head |-> k.head, revision |-> k.tuple.revision,
                   tuple |-> k.shown, entries |-> <<>>,
                   base |-> [head |-> k.head, state |-> k.shown.state]]
  <2>2. Place(k.head, k.tuple.revision, k.shown.state) \in H
    BY <1>0
  <2>3. /\ w.head = k.head /\ w.revision = k.tuple.revision /\ w.tuple = k.shown
        /\ w.entries = <<>> /\ w.base.head = k.head /\ w.base.state = k.shown.state
        /\ w = [head |-> w.head, revision |-> w.revision, tuple |-> w.tuple, base |-> w.base,
                entries |-> w.entries]
    OBVIOUS
  <2>4. chains' = [chains EXCEPT ![d] = w]
    BY <2>1
  <2> HIDE DEF w
  <2>5. ViewInv(w, H)
    BY <2>2, <2>3 DEF ViewInv, HasLast, Follower!HeadBefore, Follower!StateBefore,
                      Follower!Shown
  <2>6. UNCHANGED <<decided, checkpoints>>
    BY <1>4 DEF Follower!VerifyFromCheckpoint
  <2>7. \A i \in DOMAIN w.entries : IsAuthorized(w, i, decided)
    BY <2>3
  <2> QED BY <1>0, <2>4, <2>5, <2>6, <2>7, ViewChanges
<1>5. ASSUME NEW d \in Devices, Follower!VerifyProof(d) PROVE ChainInv'
  <2>0. PICK first \in Follower!Entries(chains[d].head, chains[d].revision) :
          \/ Follower!Follows(d, <<first>>)
          \/ \E second \in Follower!Entries(first.link.head, chains[d].revision + 1) :
               Follower!Follows(d, <<first, second>>)
    BY <1>5 DEF Follower!VerifyProof
  <2>1. \E entries : /\ entries = <<first>> \/ (\E second : entries = <<first, second>>)
                     /\ Follower!Follows(d, entries)
    BY <2>0
  <2>9. PICK entries : /\ entries = <<first>> \/ (\E second : entries = <<first, second>>)
                       /\ Follower!Follows(d, entries)
    BY <2>1
  <2> DEFINE v       == chains[d]
             proof   == [from |-> [head |-> v.head, revision |-> v.revision],
                         start |-> v.tuple, entries |-> entries]
             last    == entries[Len(entries)]
             f       == Follow(v, first)
             G       == H \union {PlaceAfter(v, first)}
  <2>10. /\ Follower!WellFormedProof(proof)
         /\ \A i \in DOMAIN entries : entries[i].link.transition # None
                                        => Follower!VerifyTransition(entries[i].link.transition)
         /\ chains' = [chains EXCEPT
              ![d] = [head |-> last.link.head,
                      revision |-> last.link.commitment.after.revision,
                      tuple |-> CASE last.witness # None -> last.witness.tuple
                                  [] last.witness = None /\ entries[1].witness # None
                                       -> entries[1].witness.tuple
                                  [] OTHER -> @.tuple,
                      base |-> @.base, entries |-> @.entries \o entries]]
    BY <2>9 DEF Follower!Follows
  <2>2. Follower!WellFormedProof(proof) /\ 1 \in DOMAIN entries /\ entries[1] = first
    BY <2>9, <2>10
  <2>3. Verified(v, first, decided)
    <3>1. /\ proof.entries = entries /\ proof.from.head = v.head
          /\ proof.from.revision = v.revision
      OBVIOUS
    <3>2. first.link.transition # None => Follower!VerifyTransition(first.link.transition)
      BY <2>2, <2>10
    <3> HIDE DEF proof
    <3>3. /\ Follower!WellFormedEntry(first)
          /\ first.link.commitment.before.revision = v.revision
          /\ first.link.commitment.after.revision = v.revision + 1
          /\ first.link.commitment.previous = v.head
      BY <2>2, <3>1 DEF Follower!WellFormedProof
    <3> QED BY <3>2, <3>3 DEF Verified, Follower!VerifyTransition
  <2>4. /\ History(G) /\ ViewInv(f, G)
        /\ \A i \in DOMAIN f.entries : IsAuthorized(f, i, decided)
    BY <1>0, <2>3, FollowKeeps DEF ChainInv
  <2>5. v = [head |-> v.head, revision |-> v.revision, tuple |-> v.tuple, base |-> v.base,
             entries |-> v.entries] /\ v.entries \in Seq({v.entries[i] : i \in DOMAIN v.entries})
    BY <1>0 DEF ViewInv
  <2>6. UNCHANGED <<decided, checkpoints>>
    BY <1>5 DEF Follower!VerifyProof
  <2>7. CASE entries = <<first>>
    <3>0. entries = <<first>> /\ last = first /\ entries[1] = first
      BY <2>7
    <3>3. f = [head |-> last.link.head, revision |-> last.link.commitment.after.revision,
               tuple |-> CASE last.witness # None -> last.witness.tuple
                           [] last.witness = None /\ entries[1].witness # None
                                -> entries[1].witness.tuple
                           [] OTHER -> v.tuple,
               base |-> v.base, entries |-> v.entries \o entries]
      <4>1. v.entries \o <<first>> = Append(v.entries, first)
        BY <2>5
      <4> HIDE DEF v, last
      <4> QED BY <3>0, <4>1 DEF Follow
    <3>1. chains' = [chains EXCEPT ![d] = f]
      <4> HIDE DEF f
      <4> QED BY <2>10, <3>3
    <3> HIDE DEF f, G
    <3>2. H \subseteq G
      BY DEF G
    <3> QED BY <1>0, <2>4, <2>6, <3>1, <3>2, ViewChanges
  <2>8. ASSUME NEW second, entries = <<first, second>> PROVE ChainInv'
    <3> DEFINE s == Follow(f, second)
               I == G \union {PlaceAfter(f, second)}
    <3>1. entries = <<first, second>> /\ 2 \in DOMAIN entries /\ entries[2] = second
      BY <2>8
    <3>2. f.head = first.link.head /\ f.revision = first.link.commitment.after.revision
          /\ f.base = v.base /\ f.entries = Append(v.entries, first)
          /\ f.tuple = IF first.witness # None THEN first.witness.tuple ELSE v.tuple
      BY DEF Follow
    <3>3. Verified(f, second, decided)
      <4>1. proof.entries = entries /\ proof.entries[1] = first /\ proof.entries[2] = second
            /\ 2 \in DOMAIN proof.entries
        BY <3>1
      <4>2. second.link.transition # None => Follower!VerifyTransition(second.link.transition)
        BY <2>10, <3>1
      <4> HIDE DEF proof, f
      <4>3. /\ Follower!WellFormedEntry(second)
            /\ second.link.commitment.before.revision = first.link.commitment.after.revision
            /\ second.link.commitment.after.revision = first.link.commitment.after.revision + 1
            /\ second.link.commitment.previous = first.link.head
        BY <2>2, <4>1 DEF Follower!WellFormedProof
      <4> QED BY <3>2, <4>2, <4>3 DEF Verified, Follower!VerifyTransition
    <3> HIDE DEF f, G
    <3>4. \A t \in decided : Place(t.previous, t.before.revision, t.before.state) \in G
      BY <1>0 DEF G
    <3>5. /\ History(I) /\ ViewInv(s, I)
          /\ \A i \in DOMAIN s.entries : IsAuthorized(s, i, decided)
      BY <2>4, <3>3, <3>4, FollowKeeps
    <3>6. chains' = [chains EXCEPT ![d] = s]
      <4>1. v.entries \o <<first, second>> = Append(Append(v.entries, first), second)
        BY <2>5
      <4> HIDE DEF v
      <4>2. s = [head |-> second.link.head, revision |-> second.link.commitment.after.revision,
                 tuple |-> CASE second.witness # None -> second.witness.tuple
                             [] second.witness = None /\ first.witness # None
                                  -> first.witness.tuple
                             [] OTHER -> v.tuple,
                 base |-> v.base, entries |-> v.entries \o <<first, second>>]
        BY <3>2, <4>1 DEF Follow
      <4> HIDE DEF s
      <4>3. last = second /\ entries[1] = first
        BY <3>1
      <4> HIDE DEF last
      <4> QED BY <2>8, <2>10, <4>2, <4>3 DEF v
    <3>7. H \subseteq I
      BY DEF G
    <3> HIDE DEF s, I
    <3> QED BY <1>0, <2>6, <3>5, <3>6, <3>7, ViewChanges
  <2> QED BY <2>7, <2>8, <2>9
<1>6. CASE UNCHANGED Follower!chainVars
  BY <1>0, <1>1, <1>6 DEF Follower!chainVars
<1> QED BY <1>2, <1>3, <1>4, <1>5, <1>6 DEF Follower!Next

\* Whatever links members sign, for any devices and lengths: every change of the authorization
\* state that a device follows was decided for exactly that place and state.
THEOREM ChangesWereAuthorized == Follower!Spec => []Follower!ChangesAreAuthorized
<1>1. ChainInv => Follower!ChangesAreAuthorized
  BY DEF ChainInv, Follower!ChangesAreAuthorized, IsAuthorized
<1> QED BY <1>1, ChainInit, ChainStep, PTL DEF Follower!Spec

-----------------------------------------------------------------------------
(* CollaborationDocument: what a reader of a document opens.               *)

CONSTANTS Owners, Contents, MaxEdition, MaxPublished, MaxMixed
VARIABLES documents, opened

Reader == INSTANCE CollaborationDocument WITH
  published <- documents, MaxRevision <- MaxEdition

\* A publication is of a well-formed state, in which the envelopes can be counted.
PublicationInv(v) ==
  /\ DOMAIN v = {"kind", "origin", "revision", "previous", "writer", "state", "content"}
  /\ v = [x \in DOMAIN v |-> v[x]]
  /\ Reader!WellFormedState(v.state) /\ IsFiniteSet(v.state.envelopes)
  /\ v.state.active \subseteq Devices

DocumentInv == (\A v \in documents : PublicationInv(v)) /\ Reader!OpenedWasPublished

LEMMA DocumentInit == ASSUME Reader!Init PROVE DocumentInv
BY DEF Reader!Init, DocumentInv, Reader!OpenedWasPublished

\* Exactly the active devices find an envelope in a well-formed state.
LEMMA ActiveHasEnvelope ==
  ASSUME NEW v, PublicationInv(v), NEW d \in Devices
  PROVE  d \in v.state.active <=> \E e \in v.state.envelopes : e.device = d
<1> DEFINE mine == {e \in v.state.envelopes : e.device = d}
<1>1. Cardinality(mine) = IF d \in v.state.active THEN 1 ELSE 0
  <2>1. Reader!Cardinality(mine) = IF d \in v.state.active THEN 1 ELSE 0
    BY DEF PublicationInv, Reader!WellFormedState
  <2> HIDE DEF mine
  <2>2. Reader!Cardinality(mine) = Cardinality(mine)
    BY DEF Reader!Cardinality, Cardinality
  <2> QED BY <2>1, <2>2
<1>2. IsFiniteSet(mine)
  BY FS_Subset DEF PublicationInv
<1>3. Cardinality(mine) = 0 <=> mine = {}
  BY <1>2, FS_EmptySet
<1> HIDE DEF mine
<1>4. d \in v.state.active <=> mine # {}
  BY <1>1, <1>3
<1> QED BY <1>4 DEF mine

LEMMA DocumentPublished ==
  ASSUME Reader!OwnersAreDevices, DocumentInv, Reader!Publish
  PROVE  DocumentInv'
<1>1. PICK new : documents' = documents \union {new} /\ PublicationInv(new)
  <2>1. CASE \E d \in Owners, content \in Contents : Reader!Genesis(d, content)
    <3>1. PICK d \in Owners, content \in Contents : Reader!Genesis(d, content)
      BY <2>1
    <3> DEFINE key   == <<1, d>>
               state == [serial |-> 1, epoch |-> 1, key |-> key, active |-> {d}, sealedBy |-> d,
                         envelopes |-> {[device |-> d, epoch |-> 1, key |-> key]}]
               new == [kind |-> "genesis-migration", origin |-> d, revision |-> 1,
                       previous |-> None, writer |-> d, state |-> state, content |-> content]
    <3>2. Reader!WellFormedState(state) /\ documents' = documents \union {new}
      BY <3>1 DEF Reader!Genesis
    <3>3. IsFiniteSet(state.envelopes) /\ state.active \subseteq Devices
      BY FS_Singleton DEF Reader!OwnersAreDevices
    <3> HIDE DEF state
    <3>4. PublicationInv(new)
      BY <3>2, <3>3 DEF PublicationInv
    <3> QED BY <3>2, <3>4
  <2>2. ASSUME NEW v \in documents, NEW d \in Devices, NEW content \in Contents,
               Reader!Write(v, d, content)
        PROVE  \E new : documents' = documents \union {new} /\ PublicationInv(new)
    <3> DEFINE new == [v EXCEPT !.kind = "ordinary-write", !.revision = @ + 1,
                                !.previous = Reader!Commitment(v), !.writer = d,
                                    !.content = content]
    <3>1. documents' = documents \union {new}
      BY <2>2 DEF Reader!Write
    <3>2. PublicationInv(v)
      BY DEF DocumentInv
    <3>3. PublicationInv(new)
      BY <3>2 DEF PublicationInv
    <3> QED BY <3>1, <3>3
  <2>3. ASSUME NEW v \in documents, NEW d \in Devices, Reader!Administer(v, d)
        PROVE  \E new : documents' = documents \union {new} /\ PublicationInv(new)
    <3>1. PICK active \in SUBSET Devices, rotates \in BOOLEAN, stale \in BOOLEAN :
            LET epoch == v.state.epoch + IF rotates THEN 1 ELSE 0
                key   == IF rotates THEN <<epoch, d>> ELSE v.state.key
                made  == {[device |-> e, epoch |-> epoch, key |-> key] : e \in active}
                state == [serial |-> v.state.serial + 1, epoch |-> epoch, key |-> key,
                          active |-> active, sealedBy |-> d,
                          envelopes |-> IF stale THEN v.state.envelopes ELSE made]
            IN /\ <<active, rotates>> # <<v.state.active, FALSE>>
               /\ Reader!WellFormedState(state)
               /\ documents' = documents \union
                    {[v EXCEPT !.kind = "administrative", !.revision = @ + 1, !.writer = d,
                               !.previous = Reader!Commitment(v), !.state = state]}
      BY <2>3 DEF Reader!Administer
    <3> DEFINE epoch == v.state.epoch + IF rotates THEN 1 ELSE 0
               key   == IF rotates THEN <<epoch, d>> ELSE v.state.key
               made  == {[device |-> e, epoch |-> epoch, key |-> key] : e \in active}
               state == [serial |-> v.state.serial + 1, epoch |-> epoch, key |-> key,
                         active |-> active, sealedBy |-> d,
                         envelopes |-> IF stale THEN v.state.envelopes ELSE made]
               new == [v EXCEPT !.kind = "administrative", !.revision = @ + 1, !.writer = d,
                                !.previous = Reader!Commitment(v), !.state = state]
    <3>2. Reader!WellFormedState(state) /\ documents' = documents \union {new}
      BY <3>1
    <3>3. PublicationInv(v)
      BY DEF DocumentInv
    <3>4. IsFiniteSet(made)
      <4>1. IsFiniteSet(active)
        <5>1. IsFiniteSet(Devices)
          BY DEF Reader!OwnersAreDevices, Reader!IsFiniteSet, IsFiniteSet
        <5> QED BY <5>1, FS_Subset
      <4> HIDE DEF epoch, key
      <4> DEFINE f == [e \in active |-> [device |-> e, epoch |-> epoch, key |-> key]]
      <4>2. f \in Surjection(active, made)
        BY DEF Surjection
      <4> QED BY <4>1, <4>2, FS_Surjection
    <3>5. IsFiniteSet(state.envelopes) /\ state.active \subseteq Devices
      BY <3>3, <3>4 DEF PublicationInv
    <3> HIDE DEF state
    <3>6. PublicationInv(new)
      BY <3>2, <3>3, <3>5 DEF PublicationInv
    <3> QED BY <3>2, <3>6
  <2> QED BY <2>1, <2>2, <2>3 DEF Reader!Publish
<1>2. \A v \in documents' : PublicationInv(v)
  BY <1>1 DEF DocumentInv
<1>3. (\A v \in documents : PublicationInv(v))'
  BY <1>2 DEF PublicationInv, Reader!WellFormedState
<1>4. Reader!OpenedWasPublished'
  <2>1. documents \subseteq documents' /\ UNCHANGED opened
    BY <1>1 DEF Reader!Publish
  <2> QED BY <2>1 DEF DocumentInv, Reader!OpenedWasPublished, Reader!Commitment, Reader!TupleOf,
          Reader!Payload, Reader!Manifest,
                      Reader!Record, Reader!Delegation
<1> QED BY <1>3, <1>4 DEF DocumentInv

\* Of a document that verifies, the link tells the publication: everything that its writer
\* commits to comes from there or is the same.
LEMMA ReadIsPublished ==
  ASSUME Reader!OwnersAreDevices, DocumentInv, Reader!Read
  PROVE  Reader!OpenedWasPublished'
<1>1. PICK v \in documents, w \in documents : \E other \in SUBSET Reader!Parts :
        LET doc == Reader!Document([p \in Reader!Parts |-> IF p \in other THEN w ELSE v])
        IN /\ Reader!WellFormedDocument(doc) /\ Reader!DigestsMatch(doc)
            /\ Reader!WellFormedManifest(doc)
           /\ \E reader \in Devices \union {"authority"} :
                /\ Reader!Opens(doc, reader)
                /\ opened' = [reader |-> reader, document |-> doc]
  BY DEF Reader!Read
<1>2. PICK other \in SUBSET Reader!Parts :
        LET doc == Reader!Document([p \in Reader!Parts |-> IF p \in other THEN w ELSE v])
        IN /\ Reader!WellFormedDocument(doc) /\ Reader!DigestsMatch(doc)
            /\ Reader!WellFormedManifest(doc)
           /\ \E reader \in Devices \union {"authority"} :
                /\ Reader!Opens(doc, reader)
                /\ opened' = [reader |-> reader, document |-> doc]
  BY <1>1
<1> DEFINE o   == [p \in Reader!Parts |-> IF p \in other THEN w ELSE v]
           doc == Reader!Document(o)
           u   == o["link"]
           by  == o["records"]
<1>3. PICK reader \in Devices \union {"authority"} :
             Reader!Opens(doc, reader) /\ opened' = [reader |-> reader, document |-> doc]
  BY <1>2
<1>4. Reader!WellFormedDocument(doc) /\ Reader!DigestsMatch(doc)
  BY <1>2
<1>5. u \in documents /\ by \in documents
  BY DEF Reader!Parts
<1>6. PublicationInv(u) /\ PublicationInv(by)
  BY <1>5 DEF DocumentInv
<1> HIDE DEF o
<1>7. /\ doc.link = Reader!Commitment(u)
      /\ doc.records = {Reader!Record(by, e) : e \in by.state.envelopes}
  BY DEF Reader!Document
<1>8. doc.delegation = [origin |-> doc.delegation.origin]
  BY DEF Reader!Document, Reader!Delegation
<1> HIDE DEF doc
<1>9. doc.tuple = Reader!TupleOf(u)
  BY <1>4, <1>7 DEF Reader!WellFormedDocument, Reader!LinkBinds, Reader!Commitment
<1>10. doc.payload = Reader!Payload(u) /\ doc.manifest = Reader!Manifest(u)
           /\ doc.digests.manifest = Reader!Manifest(u)
  BY <1>4, <1>7 DEF Reader!WellFormedDocument, Reader!LinkBinds, Reader!DigestsMatch,
                    Reader!Commitment
<1>11. doc.delegation = Reader!Delegation(u)
  BY <1>4, <1>7, <1>8 DEF Reader!WellFormedDocument, Reader!LinkBinds, Reader!DigestsMatch,
                          Reader!Commitment, Reader!Delegation
<1>12. by.state = u.state /\ Reader!Manifest(by) = Reader!Manifest(u) /\ by.writer = u.writer
  <2>1. PICK e \in by.state.envelopes : TRUE
    <3>1. by.state.sealedBy \in Devices /\ by.state.sealedBy \in by.state.active
      BY <1>6 DEF PublicationInv, Reader!WellFormedState
    <3> QED BY <1>6, <3>1, ActiveHasEnvelope
  <2>2. Reader!Record(by, e) \in doc.records
    BY <1>7
  <2> QED BY <1>4, <1>7, <1>9, <1>10, <2>2
          DEF Reader!WellFormedDocument, Reader!RecordsBind, Reader!Record, Reader!TupleOf,
              Reader!Commitment
<1>13. doc.records = {Reader!Record(u, e) : e \in u.state.envelopes}
  BY <1>7, <1>12 DEF Reader!Record
<1>14. reader \in u.state.active \union {"authority"}
  <2>1. CASE reader = "authority"
    BY <2>1
  <2>2. CASE reader # "authority"
    <3>1. PICK r \in doc.records : r.device = reader
      BY <1>3, <2>2 DEF Reader!Opens, Reader!KeysOfDevice
    <3>2. \E e \in u.state.envelopes : e.device = reader
      BY <1>13, <3>1 DEF Reader!Record
    <3> QED BY <1>6, <2>2, <3>2, ActiveHasEnvelope
  <2> QED BY <2>1, <2>2
<1>15. opened'.document = doc /\ opened'.reader = reader /\ UNCHANGED documents
  BY <1>3 DEF Reader!Read
<1>16. \E x \in documents' :
         /\ doc.link = Reader!Commitment(x) /\ doc.tuple = Reader!TupleOf(x)
         /\ doc.payload = Reader!Payload(x) /\ doc.manifest = Reader!Manifest(x)
         /\ doc.records = {Reader!Record(x, e) : e \in x.state.envelopes}
         /\ doc.delegation = Reader!Delegation(x)
         /\ reader \in x.state.active \union {"authority"}
  BY <1>5, <1>7, <1>9, <1>10, <1>11, <1>13, <1>14, <1>15
<1> QED BY <1>15, <1>16 DEF Reader!OpenedWasPublished

LEMMA DocumentStep ==
  ASSUME Reader!OwnersAreDevices, DocumentInv, [Reader!Next]_(Reader!documentVars)
  PROVE  DocumentInv'
<1>1. CASE Reader!Publish
  BY <1>1, DocumentPublished
<1>2. ASSUME UNCHANGED documents PROVE (\A v \in documents : PublicationInv(v))'
  BY <1>2 DEF DocumentInv, PublicationInv, Reader!WellFormedState
<1>3. CASE Reader!Read
  BY <1>2, <1>3, ReadIsPublished DEF Reader!Read, DocumentInv
<1>4. CASE UNCHANGED Reader!documentVars
  BY <1>2, <1>4 DEF Reader!documentVars, DocumentInv, Reader!OpenedWasPublished
<1> QED BY <1>1, <1>3, <1>4 DEF Reader!Next

\* Whatever parts of two publications a server puts together: a reader opens one publication,
\* whole, and is among those it was published for.
THEOREM DocumentsAreWhole == ASSUME Reader!OwnersAreDevices PROVE Reader!Spec
    => []Reader!OpenedWasPublished
<1>1. DocumentInv => Reader!OpenedWasPublished
  BY DEF DocumentInv
<1> QED BY <1>1, DocumentInit, DocumentStep, PTL DEF Reader!Spec

-----------------------------------------------------------------------------
(* CollaborationConsent: what the members agree to.                        *)

CONSTANTS Signers, Askers, PrincipalOf, Heads, Actions, Lifetime, MaxSigned, MaxToday
VARIABLES statements, today, record

Consent == INSTANCE CollaborationConsent WITH
  signed <- statements, clock <- today, accepted <- record,
  Devices <- Signers, MaxNow <- MaxToday

\* What has been signed: requests and intents with their lifetime, evidence and
\* acceptances that repeat what they are for, and receipts of what the same
\* device signed.
StatementInv(s) ==
  /\ s.domain = "request" => s.of.requester = s.by /\ s.of.expires \in Nat
  /\ s.domain = "evidence" => s.by \in Signers /\ s.of = Consent!EvidenceFor(s.of.request, s.by)
  /\ s.domain = "intent" => s.of.initiator = s.by /\ s.of.expires \in Nat
  /\ s.domain = "acceptance" => s.of = Consent!AcceptanceOf(s.of.intent, s.of.at)
  /\ s.domain = "link" => s.of = Consent!MutationOf(s.of.payload)
  /\ s.domain = "receipt" =>
       \E m : \E retained \in {1, 2} : s.of = Consent!ReceiptOf(Consent!OutcomeOf(m, retained))

Records == {"request", "transfer", "outcome", "tombstone"}

ConsentInv ==
  /\ \A s \in statements : StatementInv(s)
  /\ today \in Nat
  /\ record # None => record.type \in Records
  /\ Consent!ConsentIsReal

LEMMA ConsentInit == ASSUME Consent!Init PROVE ConsentInv
BY DEF Consent!Init, ConsentInv, Consent!ConsentIsReal

\* What was real stays so: statements are only added, and time only passes.
LEMMA RealStays ==
  ASSUME ConsentInv, statements \subseteq statements', today' \in Nat, today =< today',
         UNCHANGED record
  PROVE  Consent!ConsentIsReal'
<1>1. ASSUME NEW domain, NEW d, NEW value, Consent!Verifies(domain, d, value)
      PROVE  Consent!Verifies(domain, d, value)'
  BY <1>1 DEF Consent!Verifies
<1>2. ASSUME record # None PROVE Consent!ConsentIsReal'
  <2>1. ASSUME NEW domain, domain \in {"request", "intent"}, NEW d, NEW value,
               Consent!Verifies(domain, d, value), today >= value.expires
        PROVE  today' >= value.expires
    <3>1. value.expires \in Nat
      BY <2>1 DEF ConsentInv, StatementInv, Consent!Verifies
    <3> QED BY <2>1, <3>1 DEF ConsentInv
  <2>2. CASE record.type = "request"
    BY <1>1, <1>2, <2>1, <2>2 DEF ConsentInv, Consent!ConsentIsReal
  <2>3. CASE record.type = "transfer"
    BY <1>1, <1>2, <2>1, <2>3 DEF ConsentInv, Consent!ConsentIsReal
  <2>4. CASE record.type = "outcome"
    BY <1>1, <1>2, <2>4 DEF ConsentInv, Consent!ConsentIsReal
  <2>5. CASE record.type = "tombstone"
    BY <1>1, <1>2, <2>5 DEF ConsentInv, Consent!ConsentIsReal
  <2> QED BY <1>2, <2>2, <2>3, <2>4, <2>5 DEF ConsentInv, Records
<1> QED BY <1>2 DEF Consent!ConsentIsReal

\* Whatever device signs, it signs statements of these shapes.
LEMMA ConsentSigned ==
  ASSUME Consent!ConstantsFit, ConsentInv, Consent!Sign
  PROVE  ConsentInv'
<1>1. PICK domain, d, value : Consent!Signs(domain, d, value)
                              /\ StatementInv([domain |-> domain, by |-> d, of |-> value])
  <2>1. CASE \E d \in Askers : Consent!SignRequest(d) \/ Consent!SignIntent(d)
                 \/ Consent!SignDestruction(d)
    <3>1. PICK d \in Askers : Consent!SignRequest(d) \/ Consent!SignIntent(d)
                   \/ Consent!SignDestruction(d)
      BY <2>1
    <3>2. CASE Consent!SignRequest(d)
      <4>1. PICK head \in Heads, action \in Actions, policy \in Consent!Policies :
                   Consent!Signs("request", d, Consent!RequestCore(d, head, action, policy))
        BY <3>2 DEF Consent!SignRequest
      <4> QED BY <4>1 DEF StatementInv, Consent!RequestCore, ConsentInv, Consent!ConstantsFit
    <3>3. CASE Consent!SignIntent(d)
      <4>1. PICK to \in Signers, head \in Heads : Consent!Signs("intent", d,
                     Consent!TransferCore(d, to, head))
        BY <3>3 DEF Consent!SignIntent
      <4> QED BY <4>1 DEF StatementInv, Consent!TransferCore, ConsentInv, Consent!ConstantsFit
    <3>4. CASE Consent!SignDestruction(d)
      <4>1. PICK head \in Heads, action \in Actions :
                   Consent!Signs("link", d, Consent!MutationOf(Consent!DestructionCore(d, head,
                       action)))
        BY <3>4 DEF Consent!SignDestruction
      <4> QED BY <4>1 DEF StatementInv, Consent!MutationOf
    <3> QED BY <3>1, <3>2, <3>3, <3>4
  <2>2. CASE \E d \in Signers : Consent!ApproveRequest(d) \/ Consent!AcceptTransfer(d)
                 \/ Consent!SignReceipt(d)
    <3>1. PICK d \in Signers : Consent!ApproveRequest(d) \/ Consent!AcceptTransfer(d)
                   \/ Consent!SignReceipt(d)
      BY <2>2
    <3>2. CASE Consent!ApproveRequest(d)
      <4>1. PICK core \in Consent!Values("request") : Consent!Signs("evidence", d,
                     Consent!EvidenceFor(core, d))
        BY <3>2 DEF Consent!ApproveRequest
      <4> QED BY <4>1 DEF StatementInv, Consent!EvidenceFor
    <3>3. CASE Consent!AcceptTransfer(d)
      <4>1. PICK core \in Consent!Values("intent") : Consent!Signs("acceptance", d,
                     Consent!AcceptanceOf(core, today))
        BY <3>3 DEF Consent!AcceptTransfer
      <4> QED BY <4>1 DEF StatementInv, Consent!AcceptanceOf
    <3>4. CASE Consent!SignReceipt(d)
      <4>1. PICK m \in Consent!Values("link"), retained \in {1, 2} :
                   Consent!Signs("receipt", d, Consent!ReceiptOf(Consent!OutcomeOf(m, retained)))
        BY <3>4 DEF Consent!SignReceipt
      <4> QED BY <4>1 DEF StatementInv
    <3> QED BY <3>1, <3>2, <3>3, <3>4
  <2> QED BY <2>1, <2>2 DEF Consent!Sign
<1>2. \A s \in statements' : StatementInv(s)
  BY <1>1 DEF Consent!Signs, ConsentInv
<1>3. (\A s \in statements : StatementInv(s))'
  BY <1>2 DEF StatementInv, Consent!EvidenceFor, Consent!AcceptanceOf, Consent!MutationOf,
              Consent!ReceiptOf, Consent!OutcomeOf
<1>4. statements \subseteq statements' /\ UNCHANGED <<today, record>>
  BY <1>1 DEF Consent!Signs, Consent!Sign
<1> QED BY <1>3, <1>4, RealStays DEF ConsentInv

\* A record that a reader accepts is real.
LEMMA RequestIsReal ==
  ASSUME ConsentInv, Consent!ReadRequest
  PROVE  Consent!ConsentIsReal'
<1>1. PICK core \in Consent!Values("request"), state \in Consent!RequestStates,
               resolved \in Consent!Times,
           approvals \in SUBSET Consent!Values("evidence") :
        LET r == [type |-> "request", core |-> core, state |-> state,
                  resolved |-> resolved, approvals |-> approvals]
        IN Consent!VerifyRequest(r) /\ Consent!Accepts(r)
  BY DEF Consent!ReadRequest
<1> DEFINE r == [type |-> "request", core |-> core, state |-> state,
                 resolved |-> resolved, approvals |-> approvals]
<1>2. Consent!VerifyRequest(r) /\ Consent!Accepts(r)
  BY <1>1
<1>3. Consent!Verifies("request", core.requester, core) /\ core.expires \in Nat
  BY <1>2 DEF Consent!VerifyRequest, ConsentInv, StatementInv, Consent!Verifies
<1>4. ASSUME core.policy = "one-additional-owner", state \in {"quorum-reached", "consumed"}
      PROVE  \E d \in Signers : PrincipalOf[d] # PrincipalOf[core.requester]
                                /\ Consent!Verifies("evidence", d, Consent!EvidenceFor(core, d))
  <2>1. Cardinality(approvals) = 1
    <3>1. Consent!Cardinality(approvals) = 1
      BY <1>2, <1>4 DEF Consent!VerifyRequest, Consent!WellFormedRequest
    <3> QED BY <3>1 DEF Consent!Cardinality, Cardinality
  <2>2. PICK e \in approvals : TRUE
    BY <2>1, FS_EmptySet
  <2>3. /\ Consent!WellFormedEvidence(e) /\ Consent!BindsRequest(e, core)
        /\ Consent!Verifies("evidence", e.approver, e)
    BY <1>2, <2>2 DEF Consent!VerifyRequest, Consent!WellFormedRequest
  <2>4. e.approver \in Signers /\ e = Consent!EvidenceFor(e.request, e.approver)
    BY <2>3 DEF Consent!Verifies, ConsentInv, StatementInv
  <2> QED BY <2>3, <2>4 DEF Consent!BindsRequest, Consent!WellFormedEvidence
<1>5. state = "expired" => today >= core.expires
  <2>1. state = "expired" => resolved # None /\ resolved >= core.expires
    BY <1>2 DEF Consent!VerifyRequest, Consent!WellFormedRequest, Consent!Terminal
  <2> QED BY <1>3, <2>1 DEF Consent!Times, ConsentInv
<1>6. record' = r /\ UNCHANGED <<statements, today>>
  BY <1>2 DEF Consent!Accepts
<1> HIDE DEF r
<1>7. r.type = "request" /\ r.core = core /\ r.state = state
  BY DEF r
<1> QED BY <1>3, <1>4, <1>5, <1>6, <1>7 DEF Consent!ConsentIsReal, Consent!Verifies,
        Consent!EvidenceFor

LEMMA TransferIsReal ==
  ASSUME ConsentInv, Consent!ReadTransfer
  PROVE  Consent!ConsentIsReal'
<1>1. PICK core \in Consent!Values("intent"), state \in Consent!TransferStates,
               terminal \in Consent!Times,
           acceptance \in {None} \union Consent!Values("acceptance"), isSigned \in BOOLEAN :
        LET t == [type |-> "transfer", core |-> core, state |-> state, terminal |-> terminal,
                  acceptance |-> acceptance, signed |-> isSigned]
        IN Consent!VerifyTransfer(t) /\ Consent!Accepts(t)
  BY DEF Consent!ReadTransfer
<1> DEFINE t == [type |-> "transfer", core |-> core, state |-> state, terminal |-> terminal,
                 acceptance |-> acceptance, signed |-> isSigned]
<1>2. Consent!VerifyTransfer(t) /\ Consent!Accepts(t)
  BY <1>1
<1>3. Consent!Verifies("intent", core.initiator, core) /\ core.expires \in Nat
  BY <1>2 DEF Consent!VerifyTransfer, ConsentInv, StatementInv, Consent!Verifies
<1>4. ASSUME state \in {"recipient-accepted", "published"}
      PROVE  \E at \in core.created..core.expires :
                Consent!Verifies("acceptance", core.recipient, Consent!AcceptanceOf(core, at))
  <2>1. /\ acceptance # None /\ Consent!BindsIntent(acceptance, core)
        /\ acceptance.at \in core.created..core.expires
        /\ Consent!Verifies("acceptance", acceptance.recipient, acceptance)
    BY <1>2, <1>4 DEF Consent!VerifyTransfer, Consent!WellFormedTransfer
  <2>2. acceptance = Consent!AcceptanceOf(acceptance.intent, acceptance.at)
    BY <2>1 DEF Consent!Verifies, ConsentInv, StatementInv
  <2> QED BY <2>1, <2>2 DEF Consent!BindsIntent
<1>5. state = "expired" => today >= core.expires
  <2>1. state = "expired" => terminal # None /\ terminal >= core.expires
    BY <1>2 DEF Consent!VerifyTransfer, Consent!WellFormedTransfer, Consent!Terminal
  <2> QED BY <1>3, <2>1 DEF Consent!Times, ConsentInv
<1>6. record' = t /\ UNCHANGED <<statements, today>>
  BY <1>2 DEF Consent!Accepts
<1> HIDE DEF t
<1>7. t.type = "transfer" /\ t.core = core /\ t.state = state
  BY DEF t
<1> QED BY <1>3, <1>4, <1>5, <1>6, <1>7 DEF Consent!ConsentIsReal, Consent!Verifies,
        Consent!AcceptanceOf

LEMMA OutcomeIsReal ==
  ASSUME ConsentInv, Consent!ReadOutcome
  PROVE  Consent!ConsentIsReal'
<1>1. PICK m \in Consent!Values("link"), retained \in {1, 2},
           receipt \in {None} \union Consent!Values("receipt"),
           state \in {"committed", "conflicted", "rejected"} :
        LET body == [Consent!OutcomeOf(m, retained) EXCEPT !.state = state]
            o == [type |-> "outcome", body |-> body, receipt |-> receipt,
                  digest |-> IF receipt = None THEN body ELSE receipt.outcome]
        IN Consent!VerifyCommittedOutcome(o) /\ Consent!Accepts(o)
  BY DEF Consent!ReadOutcome
<1> DEFINE body == [Consent!OutcomeOf(m, retained) EXCEPT !.state = state]
           o == [type |-> "outcome", body |-> body, receipt |-> receipt,
                 digest |-> IF receipt = None THEN body ELSE receipt.outcome]
<1>2. Consent!VerifyCommittedOutcome(o) /\ Consent!Accepts(o)
  BY <1>1
<1>3. /\ receipt # None /\ receipt.outcome = body /\ receipt.actor = body.actor
      /\ Consent!Verifies("receipt", receipt.actor, receipt)
  BY <1>2 DEF Consent!VerifyCommittedOutcome, Consent!WellFormedOutcome
<1>4. \E made : receipt = Consent!ReceiptOf(made)
  BY <1>3 DEF Consent!Verifies, ConsentInv, StatementInv
<1> HIDE DEF body
<1>5. receipt = Consent!ReceiptOf(body)
  BY <1>3, <1>4 DEF Consent!ReceiptOf
<1>6. record' = o /\ UNCHANGED <<statements, today>>
  BY <1>2 DEF Consent!Accepts
<1>7. o.type = "outcome" /\ o.body = body
  OBVIOUS
<1> HIDE DEF o
<1> QED BY <1>3, <1>4, <1>5, <1>6, <1>7 DEF Consent!ConsentIsReal, Consent!Verifies

LEMMA TombstoneIsReal ==
  ASSUME ConsentInv, Consent!ReadTombstone
  PROVE  Consent!ConsentIsReal'
<1>1. PICK d \in Signers, head \in Heads, action \in Actions, m \in Consent!Values("link"),
           receipt \in Consent!Values("receipt") :
        LET t == [type |-> "tombstone", core |-> Consent!DestructionCore(d, head, action),
            link |-> m,
                  payload |-> m.payload, transition |-> [by |-> m.writer, of |-> m],
                  receipt |-> receipt, outcome |-> receipt.outcome]
        IN Consent!VerifyTombstone(t) /\ Consent!Accepts(t)
  BY DEF Consent!ReadTombstone
<1> DEFINE core == Consent!DestructionCore(d, head, action)
           t == [type |-> "tombstone", core |-> core, link |-> m,
                 payload |-> m.payload, transition |-> [by |-> m.writer, of |-> m],
                 receipt |-> receipt, outcome |-> receipt.outcome]
<1>2. Consent!VerifyTombstone(t) /\ Consent!Accepts(t)
  BY <1>1
<1>3. /\ m.payload = core /\ receipt.actor = core.actor /\ receipt.head = m
      /\ Consent!Verifies("link", core.actor, m) /\ Consent!Verifies("receipt", core.actor,
             receipt)
  BY <1>2 DEF Consent!VerifyTombstone, Consent!WellFormedTombstone
<1>4. m = Consent!MutationOf(core)
  BY <1>3 DEF Consent!Verifies, ConsentInv, StatementInv
<1>5. PICK n : \E kept \in {1, 2} : receipt = Consent!ReceiptOf(Consent!OutcomeOf(n, kept))
  BY <1>3 DEF Consent!Verifies, ConsentInv, StatementInv
<1>6. \E kept \in {1, 2} : receipt = Consent!ReceiptOf(Consent!OutcomeOf(m, kept))
  BY <1>3, <1>5 DEF Consent!ReceiptOf, Consent!OutcomeOf
<1>7. record' = t /\ UNCHANGED <<statements, today>>
  BY <1>2 DEF Consent!Accepts
<1>8. t.type = "tombstone" /\ t.core = core
  OBVIOUS
<1> HIDE DEF t, core
<1> QED BY <1>3, <1>4, <1>6, <1>7, <1>8
        DEF Consent!ConsentIsReal, Consent!Verifies

LEMMA ConsentStep ==
  ASSUME Consent!ConstantsFit, ConsentInv, [Consent!Next]_(Consent!consentVars)
  PROVE  ConsentInv'
<1>1. CASE Consent!Sign
  BY <1>1, ConsentSigned
<1>2. ASSUME UNCHANGED statements PROVE (\A s \in statements : StatementInv(s))'
  BY <1>2 DEF ConsentInv, StatementInv, Consent!EvidenceFor, Consent!AcceptanceOf,
              Consent!MutationOf, Consent!ReceiptOf,
              Consent!OutcomeOf
<1>3. CASE Consent!Tick
  <2>1. today' \in Nat /\ today =< today' /\ UNCHANGED <<statements, record>>
    BY <1>3 DEF Consent!Tick, ConsentInv
  <2> QED BY <1>2, <2>1, RealStays DEF ConsentInv
<1>4. CASE UNCHANGED Consent!consentVars
  <2>1. today' \in Nat /\ today =< today' /\ UNCHANGED <<statements, record>>
    BY <1>4 DEF Consent!consentVars, ConsentInv
  <2> QED BY <1>2, <2>1, RealStays DEF ConsentInv
<1>5. CASE Consent!ReadRequest \/ Consent!ReadTransfer \/ Consent!ReadOutcome
               \/ Consent!ReadTombstone
  <2>1. UNCHANGED <<statements, today>>
    BY <1>5 DEF Consent!ReadRequest, Consent!ReadTransfer, Consent!ReadOutcome,
                Consent!ReadTombstone, Consent!Accepts
  <2>2. record'.type \in Records
    <3>1. CASE Consent!ReadRequest
      BY <3>1 DEF Consent!ReadRequest, Consent!Accepts, Records
    <3>2. CASE Consent!ReadTransfer
      BY <3>2 DEF Consent!ReadTransfer, Consent!Accepts, Records
    <3>3. CASE Consent!ReadOutcome
      BY <3>3 DEF Consent!ReadOutcome, Consent!Accepts, Records
    <3>4. CASE Consent!ReadTombstone
      BY <3>4 DEF Consent!ReadTombstone, Consent!Accepts, Records
    <3> QED BY <1>5, <3>1, <3>2, <3>3, <3>4
  <2> QED BY <1>2, <1>5, <2>1, <2>2, RequestIsReal, TransferIsReal, OutcomeIsReal, TombstoneIsReal
          DEF ConsentInv
<1> QED BY <1>1, <1>3, <1>4, <1>5 DEF Consent!Next

\* Whoever signs what, and whatever is put together of it: a record that a reader verified
\* says nothing that was not agreed to, and nothing expired before its time.
THEOREM ConsentsAreReal == ASSUME Consent!ConstantsFit PROVE Consent!Spec
    => []Consent!ConsentIsReal
<1>1. ConsentInv => Consent!ConsentIsReal
  BY DEF ConsentInv
<1> QED BY <1>1, ConsentInit, ConsentStep, PTL DEF Consent!Spec

-----------------------------------------------------------------------------
\* CollaborationChain, CollaborationDocument, CollaborationConsent: what a reader
\* accepts was signed as it is, where it is, by whom it says.
OnlyWhatWasSigned == /\ Follower!ChangesAreAuthorized
                     /\ Reader!OpenedWasPublished
                     /\ Consent!ConsentIsReal

\* All three, of any number of devices, statements, links and documents.
THEOREM AcceptedWasSigned ==
  ASSUME Reader!OwnersAreDevices, Consent!ConstantsFit
  PROVE  Follower!Spec /\ Reader!Spec /\ Consent!Spec => []OnlyWhatWasSigned
<1>1. Follower!ChangesAreAuthorized /\ Reader!OpenedWasPublished /\ Consent!ConsentIsReal
        => OnlyWhatWasSigned
  BY DEF OnlyWhatWasSigned
<1> QED BY <1>1, ChangesWereAuthorized, DocumentsAreWhole, ConsentsAreReal, PTL
=============================================================================
