------------------------ MODULE DatabaseSession_proofs ------------------------
(***************************************************************************)
(* Proofs about DatabaseSession, for every set of sessions, devices and    *)
(* vaults and every bound, and about the anchors and the store's mutations *)
(* it is made of.                                                          *)
(***************************************************************************)
EXTENDS DatabaseSession, FiniteSetTheorems, TLAPS

-----------------------------------------------------------------------------
(* Anchors and mutations of the store.                                     *)

\* A mutation whose vault head follows the head it expects to replace.
WellFormed(m, Known) ==
  /\ m.kind \in Kinds
  /\ m.database.rev \in Nat /\ m.database.digest \in Nat
  /\ m.vault \in Known
  /\ m.head \in VaultHead /\ m.expected \in Nat
  /\ m.kind = "update" => m.head.rev = m.expected + 1

IsRecordOf(st, Known) == /\ st.database.rev \in Nat
                          /\ st.database.digest \in Nat
                          /\ IsHeads(st.heads, Known)

LEMMA HeadsAreRecords ==
  ASSUME NEW h \in VaultHead, NEW k \in VaultHead, h.rev = k.rev, h.digest = k.digest
  PROVE  h = k
BY DEF VaultHead

\* An anchor verifies against itself.
LEMMA VerifiesReflexive ==
  ASSUME NEW a, IsAnchor(a, Vaults)
  PROVE  Verifies(a, a) /\ VerifiesExactly(a, a)
BY DEF IsAnchor, IsHeads, VaultHead, Verifies, VerifiesExactly, NotOlder

\* Two anchors that each verify against the other are one: a fork of the
\* database is never verified in both directions.
THEOREM ForksAreDetected ==
  ASSUME NEW a, NEW b,
         IsAnchor(a, Vaults), IsAnchor(b, Vaults),
         Verifies(a, b), Verifies(b, a)
  PROVE  a = b
<1> USE DEF IsAnchor, IsHeads, VaultHead, Verifies, NotOlder
<1>1. a.rev = b.rev /\ a.digest = b.digest
  OBVIOUS
<1>2. DOMAIN a.heads = DOMAIN b.heads
  BY <1>1
<1>3. ASSUME NEW v \in DOMAIN a.heads
      PROVE  a.heads[v] = b.heads[v]
  <2>1. a.heads[v] \in VaultHead /\ b.heads[v] \in VaultHead
    BY <1>2
  <2>2. /\ NotOlder(a.heads[v], b.heads[v])
        /\ NotOlder(b.heads[v], a.heads[v])
    BY ONLY <1>2, <1>3, Verifies(a, b), Verifies(b, a) DEF Verifies
  <2>3. a.heads[v].rev = b.heads[v].rev /\ a.heads[v].digest = b.heads[v].digest
    BY ONLY <2>1, <2>2 DEF VaultHead, NotOlder
  <2> QED BY ONLY <2>1, <2>3, HeadsAreRecords
<1>4. a.heads = b.heads
  BY <1>2, <1>3
<1> QED BY <1>1, <1>4

\* An anchor that verifies against the store still does after any mutation
\* the store accepts, unless the mutation creates a vault the anchor knows.
LEMMA MutationKeepsAnchors ==
  ASSUME NEW st, NEW m, NEW a,
         IsRecordOf(st, Vaults), WellFormed(m, Vaults), IsAnchor(a, Vaults),
         StoreAccepts(st, m),
         m.kind = "create" => m.vault \notin DOMAIN a.heads,
         Verifies(a, StoreAnchor(st))
  PROVE  Verifies(a, StoreAnchor(StoreApplied(st, m)))
<1> USE DEF IsRecordOf, WellFormed, IsAnchor, IsHeads, VaultHead, Verifies, NotOlder,
            StoreAnchor, AnchorFromVaults, StoreApplied, HeadsAfter, StoreAccepts,
            DatabaseCurrent, VaultCurrent, WithHead, WithoutHead
<1>1. CASE m.kind = "rename"
  BY <1>1
<1>2. CASE m.kind = "create"
  BY <1>2
<1>3. CASE m.kind = "update"
  BY <1>3
<1>4. CASE m.kind = "delete"
  BY <1>4
<1> QED BY <1>1, <1>2, <1>3, <1>4 DEF Kinds

\* The anchor published after a mutation verifies against every anchor that
\* verified exactly against the state the mutation was computed from.
LEMMA NextVerifies ==
  ASSUME NEW st, NEW m, NEW x, NEW before,
         IsRecordOf(st, Vaults), WellFormed(m, Vaults),
         IsAnchor(x, Vaults), IsAnchor(before, Vaults),
         StoreAccepts(st, m),
         Verifies(before, StoreAnchor(st)),
         m.kind # "update" => m.database.rev = before.rev + 1,
         m.kind = "create" => m.vault \notin DOMAIN before.heads,
         VerifiesExactly(x, before)
  PROVE  Verifies(x, AnchorAfter(before, m))
<1> USE DEF IsRecordOf, WellFormed, IsAnchor, IsHeads, VaultHead, Verifies, NotOlder,
            VerifiesExactly, StoreAnchor, AnchorFromVaults, StoreAccepts,
            VaultCurrent, WithHead, WithoutHead, AnchorAfter, AnchorWithDatabase,
            AnchorWithCreatedVault, AnchorWithUpdatedVault, AnchorWithoutVault
<1>1. CASE m.kind = "rename"
  BY <1>1
<1>2. CASE m.kind = "create"
  BY <1>2
<1>3. CASE m.kind = "update"
  BY <1>3
<1>4. CASE m.kind = "delete"
  BY <1>4
<1> QED BY <1>1, <1>2, <1>3, <1>4 DEF Kinds

\* It verifies against the store that accepted the mutation.
LEMMA NextIsBehind ==
  ASSUME NEW st, NEW m, NEW before,
         IsRecordOf(st, Vaults), WellFormed(m, Vaults), IsAnchor(before, Vaults),
         StoreAccepts(st, m),
         Verifies(before, StoreAnchor(st)),
         m.kind # "update" => m.database.rev = before.rev + 1
  PROVE  Verifies(AnchorAfter(before, m), StoreAnchor(StoreApplied(st, m)))
<1> USE DEF IsRecordOf, WellFormed, IsAnchor, IsHeads, VaultHead, Verifies, NotOlder,
            StoreAnchor, AnchorFromVaults, StoreApplied, HeadsAfter, StoreAccepts,
            DatabaseCurrent, VaultCurrent, WithHead, WithoutHead, AnchorAfter,
            AnchorWithDatabase, AnchorWithCreatedVault, AnchorWithUpdatedVault,
            AnchorWithoutVault
<1>1. CASE m.kind = "rename"
  BY <1>1
<1>2. CASE m.kind = "create"
  BY <1>2
<1>3. CASE m.kind = "update"
  BY <1>3
<1>4. CASE m.kind = "delete"
  BY <1>4
<1> QED BY <1>1, <1>2, <1>3, <1>4 DEF Kinds

\* It is an anchor, over the vaults that were there and the mutation's own.
LEMMA NextIsAnchor ==
  ASSUME NEW m, NEW before,
         WellFormed(m, Vaults), IsAnchor(before, Vaults)
  PROVE  /\ IsAnchor(AnchorAfter(before, m), Vaults)
         /\ DOMAIN AnchorAfter(before, m).heads \subseteq
              DOMAIN before.heads \cup {m.vault}
         /\ m.kind # "create" /\ m.kind # "update" =>
              DOMAIN AnchorAfter(before, m).heads \subseteq DOMAIN before.heads
<1> USE DEF WellFormed, IsAnchor, IsHeads, VaultHead, AnchorFromVaults, WithHead,
            WithoutHead, AnchorAfter, AnchorWithDatabase, AnchorWithCreatedVault,
            AnchorWithUpdatedVault, AnchorWithoutVault
<1>1. CASE m.kind = "rename"
  BY <1>1
<1>2. CASE m.kind = "create"
  BY <1>2
<1>3. CASE m.kind = "update"
  BY <1>3
<1>4. CASE m.kind = "delete"
  BY <1>4
<1> QED BY <1>1, <1>2, <1>3, <1>4 DEF Kinds

-----------------------------------------------------------------------------
(* Types.                                                                  *)

RequestsWellFormed == \A s \in Sessions : WellFormed(pending[s], Vaults)

TypeInv == TypeOK /\ RequestsWellFormed

LEMMA FirstStoreType ==
  /\ IsStore(FirstStore)
  /\ IsAnchor(StoreAnchor(FirstStore), Vaults)
  /\ NoMutation \in Mutations
  /\ WellFormed(NoMutation, Vaults)
<1>1. Cardinality(FirstVaults) \in Nat
  BY VaultsAssumption, FS_CardinalityType, FS_Subset
<1>2. AnyVault \in Vaults
  BY VaultsAssumption DEF AnyVault
<1> QED
  BY <1>1, <1>2, VaultsAssumption
  DEF FirstStore, IsStore, IsHeads, VaultHead, Databases, IsAnchor, StoreAnchor,
      AnchorFromVaults, NoMutation, Mutation, Mutations, Kinds, NoHead, WellFormed

LEMMA AppliedIsStore ==
  ASSUME NEW st, IsStore(st), NEW m \in Mutations
  PROVE  IsStore(StoreApplied(st, m))
<1> USE DEF IsStore, IsHeads, Mutations, VaultHead, StoreApplied, HeadsAfter,
            WithHead, WithoutHead
<1>1. CASE m.kind = "rename"
  BY <1>1
<1>2. CASE m.kind \in {"create", "update"}
  BY <1>2
<1>3. CASE m.kind = "delete"
  BY <1>3
<1> QED BY <1>1, <1>2, <1>3 DEF Kinds

LEMMA ObservedIsAnchor ==
  ASSUME NEW st, IsStore(st), NEW db \in Databases
  PROVE  IsAnchor(AnchorFromVaults(db, st.heads), Vaults)
BY DEF IsStore, IsAnchor, AnchorFromVaults, Databases

LEMMA StoreIsRecord ==
  ASSUME NEW st, IsStore(st)
  PROVE  IsRecordOf(st, Vaults) /\ IsAnchor(StoreAnchor(st), Vaults)
BY DEF IsStore, IsAnchor, StoreAnchor, AnchorFromVaults, Databases, IsRecordOf

LEMMA NextAnchorType ==
  ASSUME TypeInv, NEW s \in Sessions
  PROVE  IsAnchor(NextAnchor(s), Vaults)
BY NextIsAnchor
DEF TypeInv, TypeOK, AnchorTypeOK, AnchorsIn, RequestsWellFormed, NextAnchor

LEMMA InitType == Init => TypeInv
<1> SUFFICES ASSUME Init PROVE TypeInv
  OBVIOUS
<1> USE FirstStoreType, NoSessionAssumption, VaultsAssumption DEF Init
<1>1. StoreTypeOK
  BY DEF StoreTypeOK
<1>2. AnchorTypeOK
  BY DEF AnchorTypeOK, AnchorsIn
<1>3. SessionTypeOK
  BY DEF SessionTypeOK, Phases, Answers, AllModes, FirstStore, IsStore
<1>4. RequestTypeOK
  BY DEF RequestTypeOK
<1>5. RequestsWellFormed
  BY DEF RequestsWellFormed
<1> QED BY <1>1, <1>2, <1>3, <1>4, <1>5 DEF TypeInv, TypeOK

\* No step leaves the types.
LEMMA TypeStep ==
  ASSUME StoreTypeOK, AnchorTypeOK, SessionTypeOK, RequestTypeOK,
         RequestsWellFormed, [Next]_vars
  PROVE  /\ StoreTypeOK' /\ AnchorTypeOK' /\ SessionTypeOK'
         /\ RequestTypeOK' /\ RequestsWellFormed'
<1> USE DevicesAssumption DEF budget, control
<1>1. ASSUME NEW s \in Sessions, OpenRead(s)
      PROVE  /\ StoreTypeOK' /\ AnchorTypeOK' /\ SessionTypeOK'
             /\ RequestTypeOK' /\ RequestsWellFormed'
  <2> USE <1>1 DEF OpenRead, Goes
  <2>1. StoreTypeOK' /\ AnchorTypeOK' /\ RequestTypeOK' /\ RequestsWellFormed'
    BY DEF StoreTypeOK, AnchorTypeOK, AnchorsIn, RequestTypeOK,
           RequestsWellFormed
  <2>2. SessionTypeOK'
    BY ChoicesAssumption DEF StoreTypeOK, SessionTypeOK, Phases, Answers, IsStore
  <2> QED BY <2>1, <2>2
<1>2. ASSUME NEW s \in Sessions, OpenList(s)
      PROVE  /\ StoreTypeOK' /\ AnchorTypeOK' /\ SessionTypeOK'
             /\ RequestTypeOK' /\ RequestsWellFormed'
  <2> USE <1>2 DEF OpenList, Goes, CatalogMatches
  <2>1. StoreTypeOK' /\ SessionTypeOK' /\ RequestTypeOK' /\ RequestsWellFormed'
    BY DEF StoreTypeOK, SessionTypeOK, Phases, Answers, RequestTypeOK,
           RequestsWellFormed
  <2>2. AnchorTypeOK'
    BY ObservedIsAnchor DEF StoreTypeOK, AnchorTypeOK, AnchorsIn, SessionTypeOK
  <2> QED BY <2>1, <2>2
<1>3. ASSUME NEW s \in Sessions, OpenCompare(s)
      PROVE  /\ StoreTypeOK' /\ AnchorTypeOK' /\ SessionTypeOK'
             /\ RequestTypeOK' /\ RequestsWellFormed'
  BY <1>3 DEF OpenCompare, Goes, AnchorOf, StoreTypeOK, AnchorTypeOK,
          AnchorsIn, SessionTypeOK, Phases, Answers, RequestTypeOK,
          RequestsWellFormed
<1>4. ASSUME NEW s \in Sessions, AcceptRead(s)
      PROVE  /\ StoreTypeOK' /\ AnchorTypeOK' /\ SessionTypeOK'
             /\ RequestTypeOK' /\ RequestsWellFormed'
  BY <1>4 DEF AcceptRead, Goes, AnchorOf, StoreTypeOK, AnchorTypeOK,
          AnchorsIn, SessionTypeOK, Phases, Answers, RequestTypeOK,
          RequestsWellFormed
<1>5. ASSUME NEW s \in Sessions, AcceptWrite(s)
      PROVE  /\ StoreTypeOK' /\ AnchorTypeOK' /\ SessionTypeOK'
             /\ RequestTypeOK' /\ RequestsWellFormed'
  BY <1>5 DEF AcceptWrite, Goes, LockOf, StoreTypeOK, AnchorTypeOK,
          AnchorsIn, SessionTypeOK, Phases, Answers, RequestTypeOK,
          RequestsWellFormed
<1>6. ASSUME NEW s \in Sessions, AcceptConfirm(s)
      PROVE  /\ StoreTypeOK' /\ AnchorTypeOK' /\ SessionTypeOK'
             /\ RequestTypeOK' /\ RequestsWellFormed'
  BY <1>6 DEF AcceptConfirm, Goes, AnchorOf, StoreTypeOK, AnchorTypeOK,
          AnchorsIn, SessionTypeOK, Phases, Answers, RequestTypeOK,
          RequestsWellFormed
<1>7. ASSUME NEW s \in Sessions, Close(s)
      PROVE  /\ StoreTypeOK' /\ AnchorTypeOK' /\ SessionTypeOK'
             /\ RequestTypeOK' /\ RequestsWellFormed'
  BY <1>7 DEF Close, Goes, StoreTypeOK, AnchorTypeOK, AnchorsIn,
          SessionTypeOK, Phases, Answers, RequestTypeOK, RequestsWellFormed
<1>8. ASSUME NEW s \in Sessions, PrepareRename(s)
      PROVE  /\ StoreTypeOK' /\ AnchorTypeOK' /\ SessionTypeOK'
             /\ RequestTypeOK' /\ RequestsWellFormed'
  <2> USE <1>8 DEF PrepareRename, Prepared, Rename, NextDatabase, Mutation,
          Goes
  <2>1. StoreTypeOK' /\ AnchorTypeOK' /\ SessionTypeOK'
    BY DEF StoreTypeOK, AnchorTypeOK, AnchorsIn, SessionTypeOK, Phases,
           Answers
  <2>2. RequestTypeOK'
    BY VaultsAssumption
    DEF StoreTypeOK, SessionTypeOK, RequestTypeOK, RequestsWellFormed, IsStore,
        IsHeads, VaultHead, Databases, Mutations, Kinds, WellFormed, NoHead, AnyVault
  <2>3. RequestsWellFormed'
    BY VaultsAssumption
    DEF StoreTypeOK, SessionTypeOK, RequestTypeOK, RequestsWellFormed, IsStore,
        IsHeads, VaultHead, Databases, Mutations, Kinds, WellFormed, NoHead, AnyVault
  <2> QED BY <2>1, <2>2, <2>3
<1>9. ASSUME NEW s \in Sessions, PrepareCreate(s)
      PROVE  /\ StoreTypeOK' /\ AnchorTypeOK' /\ SessionTypeOK'
             /\ RequestTypeOK' /\ RequestsWellFormed'
  <2> USE <1>9 DEF PrepareCreate, Prepared, Create, NextDatabase, Mutation,
          Goes
  <2>1. StoreTypeOK' /\ AnchorTypeOK' /\ SessionTypeOK'
    BY DEF StoreTypeOK, AnchorTypeOK, AnchorsIn, SessionTypeOK, Phases,
           Answers
  <2>2. RequestTypeOK'
    BY VaultsAssumption
    DEF StoreTypeOK, SessionTypeOK, RequestTypeOK, RequestsWellFormed, IsStore,
        IsHeads, VaultHead, Databases, Mutations, Kinds, WellFormed, NoHead, AnyVault
  <2>3. RequestsWellFormed'
    BY VaultsAssumption
    DEF StoreTypeOK, SessionTypeOK, RequestTypeOK, RequestsWellFormed, IsStore,
        IsHeads, VaultHead, Databases, Mutations, Kinds, WellFormed, NoHead, AnyVault
  <2> QED BY <2>1, <2>2, <2>3
<1>10. ASSUME NEW s \in Sessions, PrepareUpdate(s)
      PROVE  /\ StoreTypeOK' /\ AnchorTypeOK' /\ SessionTypeOK'
             /\ RequestTypeOK' /\ RequestsWellFormed'
  <2> USE <1>10 DEF PrepareUpdate, Prepared, Update, Current, Mutation, Goes
  <2>1. StoreTypeOK' /\ AnchorTypeOK' /\ SessionTypeOK'
    BY DEF StoreTypeOK, AnchorTypeOK, AnchorsIn, SessionTypeOK, Phases,
           Answers
  <2>2. RequestTypeOK'
    BY VaultsAssumption
    DEF StoreTypeOK, SessionTypeOK, RequestTypeOK, RequestsWellFormed, IsStore,
        IsHeads, VaultHead, Databases, Mutations, Kinds, WellFormed, NoHead, AnyVault
  <2>3. RequestsWellFormed'
    BY VaultsAssumption
    DEF StoreTypeOK, SessionTypeOK, RequestTypeOK, RequestsWellFormed, IsStore,
        IsHeads, VaultHead, Databases, Mutations, Kinds, WellFormed, NoHead, AnyVault
  <2> QED BY <2>1, <2>2, <2>3
<1>11. ASSUME NEW s \in Sessions, PrepareDelete(s)
      PROVE  /\ StoreTypeOK' /\ AnchorTypeOK' /\ SessionTypeOK'
             /\ RequestTypeOK' /\ RequestsWellFormed'
  <2> USE <1>11 DEF PrepareDelete, Prepared, Delete, NextDatabase, Current,
          Mutation, Goes
  <2>1. StoreTypeOK' /\ AnchorTypeOK' /\ SessionTypeOK'
    BY DEF StoreTypeOK, AnchorTypeOK, AnchorsIn, SessionTypeOK, Phases,
           Answers
  <2>2. RequestTypeOK'
    BY VaultsAssumption
    DEF StoreTypeOK, SessionTypeOK, RequestTypeOK, RequestsWellFormed, IsStore,
        IsHeads, VaultHead, Databases, Mutations, Kinds, WellFormed, NoHead, AnyVault
  <2>3. RequestsWellFormed'
    BY VaultsAssumption
    DEF StoreTypeOK, SessionTypeOK, RequestTypeOK, RequestsWellFormed, IsStore,
        IsHeads, VaultHead, Databases, Mutations, Kinds, WellFormed, NoHead, AnyVault
  <2> QED BY <2>1, <2>2, <2>3
<1>12. ASSUME NEW s \in Sessions, Observe(s)
      PROVE  /\ StoreTypeOK' /\ AnchorTypeOK' /\ SessionTypeOK'
             /\ RequestTypeOK' /\ RequestsWellFormed'
  <2> USE <1>12 DEF Observe, Goes
  <2>1. StoreTypeOK' /\ SessionTypeOK' /\ RequestTypeOK' /\ RequestsWellFormed'
    BY DEF StoreTypeOK, SessionTypeOK, Phases, Answers, RequestTypeOK,
           RequestsWellFormed
  <2>2. AnchorTypeOK'
    BY ObservedIsAnchor DEF StoreTypeOK, AnchorTypeOK, AnchorsIn, SessionTypeOK
  <2> QED BY <2>1, <2>2
<1>13. ASSUME NEW s \in Sessions, EnterTransition(s)
      PROVE  /\ StoreTypeOK' /\ AnchorTypeOK' /\ SessionTypeOK'
             /\ RequestTypeOK' /\ RequestsWellFormed'
  BY <1>13 DEF EnterTransition, Goes, AnchorOf, LockOf, StoreTypeOK,
          AnchorTypeOK, AnchorsIn, SessionTypeOK, Phases, Answers,
          RequestTypeOK, RequestsWellFormed
<1>14. ASSUME NEW s \in Sessions, LockTimeout(s)
      PROVE  /\ StoreTypeOK' /\ AnchorTypeOK' /\ SessionTypeOK'
             /\ RequestTypeOK' /\ RequestsWellFormed'
  BY <1>14 DEF LockTimeout, Goes, LockOf, StoreTypeOK, AnchorTypeOK,
          AnchorsIn, SessionTypeOK, Phases, Answers, RequestTypeOK,
          RequestsWellFormed
<1>15. ASSUME NEW s \in Sessions, StoreAccept(s)
      PROVE  /\ StoreTypeOK' /\ AnchorTypeOK' /\ SessionTypeOK'
             /\ RequestTypeOK' /\ RequestsWellFormed'
  <2> USE <1>15 DEF StoreAccept, Goes, Publishes
  <2>1. AnchorTypeOK' /\ SessionTypeOK' /\ RequestsWellFormed'
    BY DEF AnchorTypeOK, AnchorsIn, SessionTypeOK, Phases, Answers,
           RequestsWellFormed
  <2>2. StoreTypeOK'
    BY AppliedIsStore DEF StoreTypeOK, RequestTypeOK
  <2>3. RequestTypeOK'
    BY DEF RequestTypeOK, Mutations
  <2> QED BY <2>1, <2>2, <2>3
<1>16. ASSUME NEW s \in Sessions, StoreReject(s)
      PROVE  /\ StoreTypeOK' /\ AnchorTypeOK' /\ SessionTypeOK'
             /\ RequestTypeOK' /\ RequestsWellFormed'
  BY <1>16 DEF StoreReject, Goes, Unlock, StoreTypeOK, AnchorTypeOK,
          AnchorsIn, SessionTypeOK, Phases, Answers, RequestTypeOK,
          RequestsWellFormed
<1>17. ASSUME NEW s \in Sessions, StoreFail(s)
      PROVE  /\ StoreTypeOK' /\ AnchorTypeOK' /\ SessionTypeOK'
             /\ RequestTypeOK' /\ RequestsWellFormed'
  <2> USE <1>17 DEF StoreFail, Goes, Unlock, Publishes
  <2>1. AnchorTypeOK' /\ SessionTypeOK' /\ RequestsWellFormed'
    BY DEF AnchorTypeOK, AnchorsIn, SessionTypeOK, Phases, Answers,
           RequestsWellFormed
  <2>2. StoreTypeOK'
    BY AppliedIsStore DEF StoreTypeOK, RequestTypeOK
  <2>3. RequestTypeOK'
    <3>1. pending[s].stamp \in Nat
      BY DEF RequestTypeOK, Mutations
    <3>2. accepted' \subseteq Nat
      BY <3>1 DEF RequestTypeOK
    <3> QED BY <3>2 DEF RequestTypeOK
  <2> QED BY <2>1, <2>2, <2>3
<1>18. ASSUME NEW s \in Sessions, PublishAnchor(s)
      PROVE  /\ StoreTypeOK' /\ AnchorTypeOK' /\ SessionTypeOK'
             /\ RequestTypeOK' /\ RequestsWellFormed'
  <2> USE <1>18 DEF PublishAnchor, Goes, Unlock, AnchorOf
  <2>1. StoreTypeOK' /\ RequestTypeOK' /\ RequestsWellFormed'
    BY DEF StoreTypeOK, RequestTypeOK, RequestsWellFormed
  <2>2. AnchorTypeOK'
    <3>1. IsAnchor(NextAnchor(s), Vaults)
      BY NextAnchorType DEF TypeInv, TypeOK
    <3> QED BY <3>1 DEF AnchorTypeOK, AnchorsIn
  <2>3. SessionTypeOK'
    BY DEF SessionTypeOK, RequestTypeOK, Mutations, Phases, Answers
  <2> QED BY <2>1, <2>2, <2>3
<1>19. ASSUME NEW s \in Sessions, PublishRefused(s)
      PROVE  /\ StoreTypeOK' /\ AnchorTypeOK' /\ SessionTypeOK'
             /\ RequestTypeOK' /\ RequestsWellFormed'
  BY <1>19 DEF PublishRefused, Goes, Unlock, AnchorOf, StoreTypeOK,
          AnchorTypeOK, AnchorsIn, SessionTypeOK, Phases, Answers,
          RequestTypeOK, RequestsWellFormed
<1>20. ASSUME NEW s \in Sessions, PublishFail(s)
      PROVE  /\ StoreTypeOK' /\ AnchorTypeOK' /\ SessionTypeOK'
             /\ RequestTypeOK' /\ RequestsWellFormed'
  <2> USE <1>20 DEF PublishFail, Goes, Unlock, AnchorOf
  <2>1. StoreTypeOK' /\ SessionTypeOK' /\ RequestTypeOK' /\ RequestsWellFormed'
    BY DEF StoreTypeOK, SessionTypeOK, Phases, Answers, RequestTypeOK,
           RequestsWellFormed
  <2>2. AnchorTypeOK'
    <3>1. IsAnchor(NextAnchor(s), Vaults)
      BY NextAnchorType DEF TypeInv, TypeOK
    <3> QED BY <3>1 DEF AnchorTypeOK, AnchorsIn
  <2> QED BY <2>1, <2>2
<1>21. ASSUME NEW s \in Sessions, RecheckRead(s)
      PROVE  /\ StoreTypeOK' /\ AnchorTypeOK' /\ SessionTypeOK'
             /\ RequestTypeOK' /\ RequestsWellFormed'
  BY <1>21 DEF RecheckRead, Goes, StoreTypeOK, AnchorTypeOK, AnchorsIn,
          SessionTypeOK, Phases, Answers, RequestTypeOK, RequestsWellFormed
<1>22. ASSUME NEW s \in Sessions, RecheckList(s)
      PROVE  /\ StoreTypeOK' /\ AnchorTypeOK' /\ SessionTypeOK'
             /\ RequestTypeOK' /\ RequestsWellFormed'
  <2> USE <1>22 DEF RecheckList, Goes, CatalogMatches
  <2>1. StoreTypeOK' /\ SessionTypeOK' /\ RequestTypeOK' /\ RequestsWellFormed'
    BY DEF StoreTypeOK, SessionTypeOK, Phases, Answers, RequestTypeOK,
           RequestsWellFormed
  <2>2. AnchorTypeOK'
    BY ObservedIsAnchor DEF StoreTypeOK, AnchorTypeOK, AnchorsIn, SessionTypeOK
  <2> QED BY <2>1, <2>2
<1>23. ASSUME NEW s \in Sessions, RecheckCompare(s)
      PROVE  /\ StoreTypeOK' /\ AnchorTypeOK' /\ SessionTypeOK'
             /\ RequestTypeOK' /\ RequestsWellFormed'
  BY <1>23 DEF RecheckCompare, Goes, AnchorOf, StoreTypeOK, AnchorTypeOK,
          AnchorsIn, SessionTypeOK, Phases, Answers, RequestTypeOK,
          RequestsWellFormed
<1>24. ASSUME NEW s \in Sessions, Crash(s)
      PROVE  /\ StoreTypeOK' /\ AnchorTypeOK' /\ SessionTypeOK'
             /\ RequestTypeOK' /\ RequestsWellFormed'
  BY <1>24 DEF Crash, Goes, LockOf, Unlock, StoreTypeOK, AnchorTypeOK,
          AnchorsIn, SessionTypeOK, Phases, Answers, RequestTypeOK,
          RequestsWellFormed
<1>25. CASE Backup
  BY <1>25 DEF Backup, AnchorTypeOK, AnchorsIn, Answers, Phases,
          RequestTypeOK, RequestsWellFormed, SessionTypeOK, StoreTypeOK
<1>26. CASE Restore
  BY <1>26 DEF Restore, AnchorTypeOK, AnchorsIn, Answers, Phases,
          RequestTypeOK, RequestsWellFormed, SessionTypeOK, StoreTypeOK
<1>27. CASE UNCHANGED vars
  BY <1>27 DEF vars, AnchorTypeOK, AnchorsIn, Answers, Phases, RequestTypeOK,
          RequestsWellFormed, SessionTypeOK, StoreTypeOK
<1> QED BY <1>1, <1>2, <1>3, <1>4, <1>5, <1>6, <1>7, <1>8, <1>9, <1>10,
           <1>11, <1>12, <1>13, <1>14, <1>15, <1>16, <1>17, <1>18, <1>19,
           <1>20, <1>21, <1>22, <1>23, <1>24, <1>25, <1>26, <1>27
     DEF Next, Opening, Preparing, Mutating, Rechecking

-----------------------------------------------------------------------------
(* What a session in the middle of a mutation knows.                       *)

Working == {"prepared", "observed", "locked"}

\* A lock is held exactly by the session inside that device's transition.
LockInv ==
  /\ \A s \in Sessions : pc[s] \in {"locked", "stored"} <=> LockOf(s) = s
  /\ \A d \in Devices : \A s \in Sessions : lock[d] = s => DeviceOf[s] = d

\* Requests are numbered apart, and one in progress was not accepted yet.
StampInv ==
  /\ \A n \in accepted : n <= clock
  /\ \A s \in Sessions : pending[s].stamp <= clock
  /\ \A s \in Sessions : pc[s] \in Working =>
       pending[s].stamp > 0 /\ pending[s].stamp \notin accepted
  /\ \A s, t \in Sessions :
       s # t /\ pending[s].stamp = pending[t].stamp => pending[s].stamp = 0

\* A request in progress was computed from the record the session holds.
RequestInv ==
  \A s \in Sessions : pc[s] \in Working =>
    /\ pending[s].kind = "update" => pending[s].database = cached[s]
    /\ pending[s].kind # "update" => pending[s].database.rev = cached[s].rev + 1
    /\ pending[s].kind = "rename" =>
         pending[s].database.catalog = cached[s].catalog
    /\ pending[s].kind = "create" =>
         pending[s].database.catalog = cached[s].catalog \cup {pending[s].vault}
    /\ pending[s].kind = "delete" =>
         pending[s].database.catalog = cached[s].catalog \ {pending[s].vault}

\* Once observed, `before` carries that record; once locked, it was verified.
BeforeInv ==
  \A s \in Sessions :
    /\ pc[s] \in {"observed", "locked"} =>
         seen[s].rev = cached[s].rev /\ seen[s].digest = cached[s].digest
    /\ pc[s] = "locked" => VerifiesExactly(AnchorOf(s), seen[s])

\* No step disturbs them.
LEMMA ControlStep ==
  ASSUME StoreTypeOK, AnchorTypeOK, SessionTypeOK, RequestTypeOK,
         LockInv, StampInv, FailureProvesNoWrite, RequestInv, BeforeInv, [Next]_vars
  PROVE  /\ LockInv' /\ StampInv' /\ FailureProvesNoWrite'
         /\ RequestInv' /\ BeforeInv'
<1> USE DevicesAssumption, NoSessionAssumption DEF control, budget
<1>1. ASSUME NEW s \in Sessions, OpenRead(s)
      PROVE  /\ LockInv' /\ StampInv' /\ FailureProvesNoWrite'
             /\ RequestInv' /\ BeforeInv'
  <2> USE <1>1 DEF OpenRead, Goes
  <2>1. LockInv'
    BY DEF LockInv, LockOf, SessionTypeOK
  <2>2. StampInv'
    BY DEF StampInv, Working, RequestTypeOK, SessionTypeOK, Mutations
  <2>3. FailureProvesNoWrite'
    BY DEF FailureProvesNoWrite, StampInv, Working, RequestTypeOK,
           SessionTypeOK
  <2>4. RequestInv'
    BY DEF RequestInv, Working, RequestTypeOK, SessionTypeOK, Mutations
  <2>5. BeforeInv'
    BY DEF BeforeInv, AnchorOf, AnchorTypeOK, AnchorsIn, SessionTypeOK,
           AnchorFromVaults
  <2> QED BY <2>1, <2>2, <2>3, <2>4, <2>5
<1>2. ASSUME NEW s \in Sessions, OpenList(s)
      PROVE  /\ LockInv' /\ StampInv' /\ FailureProvesNoWrite'
             /\ RequestInv' /\ BeforeInv'
  <2> USE <1>2 DEF OpenList, Goes, CatalogMatches
  <2>1. LockInv' /\ StampInv' /\ FailureProvesNoWrite' /\ RequestInv'
    BY DEF LockInv, LockOf, SessionTypeOK, StampInv, Working, RequestTypeOK,
           Mutations, FailureProvesNoWrite, RequestInv
  <2>2. BeforeInv'
    BY DEF BeforeInv, AnchorOf, AnchorTypeOK, AnchorsIn, SessionTypeOK, AnchorFromVaults
  <2> QED BY <2>1, <2>2
<1>3. ASSUME NEW s \in Sessions, OpenCompare(s)
      PROVE  /\ LockInv' /\ StampInv' /\ FailureProvesNoWrite'
             /\ RequestInv' /\ BeforeInv'
  <2> USE <1>3 DEF OpenCompare, Goes, AnchorOf
  <2>1. LockInv'
    BY DEF LockInv, LockOf, SessionTypeOK
  <2>2. StampInv'
    BY DEF StampInv, Working, RequestTypeOK, SessionTypeOK, Mutations
  <2>3. FailureProvesNoWrite'
    BY DEF FailureProvesNoWrite, StampInv, Working, RequestTypeOK,
           SessionTypeOK
  <2>4. RequestInv'
    BY DEF RequestInv, Working, RequestTypeOK, SessionTypeOK, Mutations
  <2>5. BeforeInv'
    BY DEF BeforeInv, AnchorOf, AnchorTypeOK, AnchorsIn, SessionTypeOK,
           AnchorFromVaults
  <2> QED BY <2>1, <2>2, <2>3, <2>4, <2>5
<1>4. ASSUME NEW s \in Sessions, AcceptRead(s)
      PROVE  /\ LockInv' /\ StampInv' /\ FailureProvesNoWrite'
             /\ RequestInv' /\ BeforeInv'
  <2> USE <1>4 DEF AcceptRead, Goes, AnchorOf
  <2>1. LockInv'
    BY DEF LockInv, LockOf, SessionTypeOK
  <2>2. StampInv'
    BY DEF StampInv, Working, RequestTypeOK, SessionTypeOK, Mutations
  <2>3. FailureProvesNoWrite'
    BY DEF FailureProvesNoWrite, StampInv, Working, RequestTypeOK,
           SessionTypeOK
  <2>4. RequestInv'
    BY DEF RequestInv, Working, RequestTypeOK, SessionTypeOK, Mutations
  <2>5. BeforeInv'
    BY DEF BeforeInv, AnchorOf, AnchorTypeOK, AnchorsIn, SessionTypeOK,
           AnchorFromVaults
  <2> QED BY <2>1, <2>2, <2>3, <2>4, <2>5
<1>5. ASSUME NEW s \in Sessions, AcceptWrite(s)
      PROVE  /\ LockInv' /\ StampInv' /\ FailureProvesNoWrite'
             /\ RequestInv' /\ BeforeInv'
  <2> USE <1>5 DEF AcceptWrite, Goes, LockOf
  <2>1. LockInv' /\ StampInv' /\ FailureProvesNoWrite' /\ RequestInv'
    BY DEF LockInv, LockOf, SessionTypeOK, StampInv, Working, RequestTypeOK,
           Mutations, FailureProvesNoWrite, RequestInv
  <2>2. BeforeInv'
    <3>1. ASSUME NEW t \in Sessions, pc'[t] = "locked"
          PROVE  t # s /\ pc[t] = "locked" /\ DeviceOf[t] # DeviceOf[s]
      BY <3>1 DEF LockInv, LockOf, SessionTypeOK
    <3>2. \A t \in Sessions : pc'[t] = "locked" => AnchorOf(t)' = AnchorOf(t)
      BY <3>1 DEF AnchorOf, AnchorTypeOK, AnchorsIn
    <3>3. ASSUME NEW t \in Sessions
          PROVE  /\ pc'[t] \in {"observed", "locked"} =>
                      seen'[t].rev = cached'[t].rev /\ seen'[t].digest = cached'[t].digest
                 /\ pc'[t] = "locked" => VerifiesExactly(AnchorOf(t)', seen'[t])
      BY <3>1, <3>2 DEF BeforeInv, SessionTypeOK
    <3> QED BY <3>3 DEF BeforeInv, AnchorOf
  <2> QED BY <2>1, <2>2
<1>6. ASSUME NEW s \in Sessions, AcceptConfirm(s)
      PROVE  /\ LockInv' /\ StampInv' /\ FailureProvesNoWrite'
             /\ RequestInv' /\ BeforeInv'
  <2> USE <1>6 DEF AcceptConfirm, Goes, AnchorOf
  <2>1. LockInv'
    BY DEF LockInv, LockOf, SessionTypeOK
  <2>2. StampInv'
    BY DEF StampInv, Working, RequestTypeOK, SessionTypeOK, Mutations
  <2>3. FailureProvesNoWrite'
    BY DEF FailureProvesNoWrite, StampInv, Working, RequestTypeOK,
           SessionTypeOK
  <2>4. RequestInv'
    BY DEF RequestInv, Working, RequestTypeOK, SessionTypeOK, Mutations
  <2>5. BeforeInv'
    BY DEF BeforeInv, AnchorOf, AnchorTypeOK, AnchorsIn, SessionTypeOK,
           AnchorFromVaults
  <2> QED BY <2>1, <2>2, <2>3, <2>4, <2>5
<1>7. ASSUME NEW s \in Sessions, Close(s)
      PROVE  /\ LockInv' /\ StampInv' /\ FailureProvesNoWrite'
             /\ RequestInv' /\ BeforeInv'
  <2> USE <1>7 DEF Close, Goes
  <2>1. LockInv'
    BY DEF LockInv, LockOf, SessionTypeOK
  <2>2. StampInv'
    BY DEF StampInv, Working, RequestTypeOK, SessionTypeOK, Mutations
  <2>3. FailureProvesNoWrite'
    BY DEF FailureProvesNoWrite, StampInv, Working, RequestTypeOK,
           SessionTypeOK
  <2>4. RequestInv'
    BY DEF RequestInv, Working, RequestTypeOK, SessionTypeOK, Mutations
  <2>5. BeforeInv'
    BY DEF BeforeInv, AnchorOf, AnchorTypeOK, AnchorsIn, SessionTypeOK,
           AnchorFromVaults
  <2> QED BY <2>1, <2>2, <2>3, <2>4, <2>5
<1>8. ASSUME NEW s \in Sessions, PrepareRename(s)
      PROVE  /\ LockInv' /\ StampInv' /\ FailureProvesNoWrite'
             /\ RequestInv' /\ BeforeInv'
  <2> USE <1>8 DEF PrepareRename, Prepared, Rename, NextDatabase, Mutation,
          Goes
  <2>1. LockInv'
    BY DEF LockInv, LockOf, SessionTypeOK
  <2>2. StampInv'
    BY DEF StampInv, Working, RequestTypeOK, SessionTypeOK, Mutations
  <2>3. FailureProvesNoWrite'
    BY DEF FailureProvesNoWrite, StampInv, Working, RequestTypeOK,
           SessionTypeOK
  <2>4. RequestInv'
    BY DEF RequestInv, Working, RequestTypeOK, SessionTypeOK, Mutations
  <2>5. BeforeInv'
    BY DEF BeforeInv, AnchorOf, AnchorTypeOK, AnchorsIn, SessionTypeOK,
           AnchorFromVaults
  <2> QED BY <2>1, <2>2, <2>3, <2>4, <2>5
<1>9. ASSUME NEW s \in Sessions, PrepareCreate(s)
      PROVE  /\ LockInv' /\ StampInv' /\ FailureProvesNoWrite'
             /\ RequestInv' /\ BeforeInv'
  <2> USE <1>9 DEF PrepareCreate, Prepared, Create, NextDatabase, Mutation,
          Goes
  <2>1. LockInv'
    BY DEF LockInv, LockOf, SessionTypeOK
  <2>2. StampInv'
    BY DEF StampInv, Working, RequestTypeOK, SessionTypeOK, Mutations
  <2>3. FailureProvesNoWrite'
    BY DEF FailureProvesNoWrite, StampInv, Working, RequestTypeOK,
           SessionTypeOK
  <2>4. RequestInv'
    BY DEF RequestInv, Working, RequestTypeOK, SessionTypeOK, Mutations
  <2>5. BeforeInv'
    BY DEF BeforeInv, AnchorOf, AnchorTypeOK, AnchorsIn, SessionTypeOK,
           AnchorFromVaults
  <2> QED BY <2>1, <2>2, <2>3, <2>4, <2>5
<1>10. ASSUME NEW s \in Sessions, PrepareUpdate(s)
      PROVE  /\ LockInv' /\ StampInv' /\ FailureProvesNoWrite'
             /\ RequestInv' /\ BeforeInv'
  <2> USE <1>10 DEF PrepareUpdate, Prepared, Update, Current, Mutation, Goes
  <2>1. LockInv'
    BY DEF LockInv, LockOf, SessionTypeOK
  <2>2. StampInv'
    BY DEF StampInv, Working, RequestTypeOK, SessionTypeOK, Mutations
  <2>3. FailureProvesNoWrite'
    BY DEF FailureProvesNoWrite, StampInv, Working, RequestTypeOK,
           SessionTypeOK
  <2>4. RequestInv'
    BY DEF RequestInv, Working, RequestTypeOK, SessionTypeOK, Mutations
  <2>5. BeforeInv'
    BY DEF BeforeInv, AnchorOf, AnchorTypeOK, AnchorsIn, SessionTypeOK,
           AnchorFromVaults
  <2> QED BY <2>1, <2>2, <2>3, <2>4, <2>5
<1>11. ASSUME NEW s \in Sessions, PrepareDelete(s)
      PROVE  /\ LockInv' /\ StampInv' /\ FailureProvesNoWrite'
             /\ RequestInv' /\ BeforeInv'
  <2> USE <1>11 DEF PrepareDelete, Prepared, Delete, NextDatabase, Current,
          Mutation, Goes
  <2>1. LockInv'
    BY DEF LockInv, LockOf, SessionTypeOK
  <2>2. StampInv'
    BY DEF StampInv, Working, RequestTypeOK, SessionTypeOK, Mutations
  <2>3. FailureProvesNoWrite'
    BY DEF FailureProvesNoWrite, StampInv, Working, RequestTypeOK,
           SessionTypeOK
  <2>4. RequestInv'
    BY DEF RequestInv, Working, RequestTypeOK, SessionTypeOK, Mutations
  <2>5. BeforeInv'
    BY DEF BeforeInv, AnchorOf, AnchorTypeOK, AnchorsIn, SessionTypeOK,
           AnchorFromVaults
  <2> QED BY <2>1, <2>2, <2>3, <2>4, <2>5
<1>12. ASSUME NEW s \in Sessions, Observe(s)
      PROVE  /\ LockInv' /\ StampInv' /\ FailureProvesNoWrite'
             /\ RequestInv' /\ BeforeInv'
  <2> USE <1>12 DEF Observe, Goes
  <2>1. LockInv' /\ StampInv' /\ FailureProvesNoWrite' /\ RequestInv'
    BY DEF LockInv, LockOf, SessionTypeOK, StampInv, Working, RequestTypeOK,
           Mutations, FailureProvesNoWrite, RequestInv
  <2>2. BeforeInv'
    BY DEF BeforeInv, AnchorOf, AnchorTypeOK, AnchorsIn, SessionTypeOK, AnchorFromVaults
  <2> QED BY <2>1, <2>2
<1>13. ASSUME NEW s \in Sessions, EnterTransition(s)
      PROVE  /\ LockInv' /\ StampInv' /\ FailureProvesNoWrite'
             /\ RequestInv' /\ BeforeInv'
  <2> USE <1>13 DEF EnterTransition, Goes, AnchorOf, LockOf
  <2>1. LockInv'
    BY DEF LockInv, LockOf, SessionTypeOK
  <2>2. StampInv'
    BY DEF StampInv, Working, RequestTypeOK, SessionTypeOK, Mutations
  <2>3. FailureProvesNoWrite'
    BY DEF FailureProvesNoWrite, StampInv, Working, RequestTypeOK,
           SessionTypeOK
  <2>4. RequestInv'
    BY DEF RequestInv, Working, RequestTypeOK, SessionTypeOK, Mutations
  <2>5. BeforeInv'
    BY DEF BeforeInv, AnchorOf, AnchorTypeOK, AnchorsIn, SessionTypeOK,
           AnchorFromVaults
  <2> QED BY <2>1, <2>2, <2>3, <2>4, <2>5
<1>14. ASSUME NEW s \in Sessions, LockTimeout(s)
      PROVE  /\ LockInv' /\ StampInv' /\ FailureProvesNoWrite'
             /\ RequestInv' /\ BeforeInv'
  <2> USE <1>14 DEF LockTimeout, Goes, LockOf
  <2>1. LockInv'
    BY DEF LockInv, LockOf, SessionTypeOK
  <2>2. StampInv'
    BY DEF StampInv, Working, RequestTypeOK, SessionTypeOK, Mutations
  <2>3. FailureProvesNoWrite'
    BY DEF FailureProvesNoWrite, StampInv, Working, RequestTypeOK,
           SessionTypeOK
  <2>4. RequestInv'
    BY DEF RequestInv, Working, RequestTypeOK, SessionTypeOK, Mutations
  <2>5. BeforeInv'
    BY DEF BeforeInv, AnchorOf, AnchorTypeOK, AnchorsIn, SessionTypeOK,
           AnchorFromVaults
  <2> QED BY <2>1, <2>2, <2>3, <2>4, <2>5
<1>15. ASSUME NEW s \in Sessions, StoreAccept(s)
      PROVE  /\ LockInv' /\ StampInv' /\ FailureProvesNoWrite'
             /\ RequestInv' /\ BeforeInv'
  <2> USE <1>15 DEF StoreAccept, Goes, Publishes
  <2>1. LockInv'
    BY DEF LockInv, LockOf, SessionTypeOK
  <2>2. StampInv'
    BY DEF StampInv, Working, RequestTypeOK, SessionTypeOK, Mutations
  <2>3. FailureProvesNoWrite'
    BY DEF FailureProvesNoWrite, StampInv, Working, RequestTypeOK,
           SessionTypeOK
  <2>4. RequestInv'
    BY DEF RequestInv, Working, SessionTypeOK
  <2>5. BeforeInv'
    BY DEF BeforeInv, AnchorOf, AnchorTypeOK, AnchorsIn, SessionTypeOK,
           AnchorFromVaults
  <2> QED BY <2>1, <2>2, <2>3, <2>4, <2>5
<1>16. ASSUME NEW s \in Sessions, StoreReject(s)
      PROVE  /\ LockInv' /\ StampInv' /\ FailureProvesNoWrite'
             /\ RequestInv' /\ BeforeInv'
  <2> USE <1>16 DEF StoreReject, Goes, Unlock
  <2>1. LockInv'
    BY DEF LockInv, LockOf, SessionTypeOK
  <2>2. StampInv'
    BY DEF StampInv, Working, RequestTypeOK, SessionTypeOK, Mutations
  <2>3. FailureProvesNoWrite'
    BY DEF FailureProvesNoWrite, StampInv, Working, RequestTypeOK,
           SessionTypeOK
  <2>4. RequestInv'
    BY DEF RequestInv, Working, RequestTypeOK, SessionTypeOK, Mutations
  <2>5. BeforeInv'
    BY DEF BeforeInv, AnchorOf, AnchorTypeOK, AnchorsIn, SessionTypeOK,
           AnchorFromVaults
  <2> QED BY <2>1, <2>2, <2>3, <2>4, <2>5
<1>17. ASSUME NEW s \in Sessions, StoreFail(s)
      PROVE  /\ LockInv' /\ StampInv' /\ FailureProvesNoWrite'
             /\ RequestInv' /\ BeforeInv'
  <2> USE <1>17 DEF StoreFail, Goes, Unlock, Publishes
  <2>1. LockInv'
    BY DEF LockInv, LockOf, SessionTypeOK
  <2>2. StampInv'
    <3>1. /\ pending[s].stamp \in Nat /\ pending[s].stamp <= clock
          /\ \A n \in accepted' : n <= clock
      BY DEF StampInv, RequestTypeOK, Mutations
    <3>2. ASSUME NEW t \in Sessions, pc'[t] \in Working
          PROVE  pending[t].stamp > 0 /\ pending[t].stamp \notin accepted'
      BY <3>2 DEF StampInv, Working, RequestTypeOK, SessionTypeOK, Mutations
    <3> QED BY <3>1, <3>2 DEF StampInv
  <2>3. FailureProvesNoWrite'
    BY DEF FailureProvesNoWrite, StampInv, Working, RequestTypeOK,
           SessionTypeOK
  <2>4. RequestInv'
    BY DEF RequestInv, Working, SessionTypeOK
  <2>5. BeforeInv'
    BY DEF BeforeInv, AnchorOf, AnchorTypeOK, AnchorsIn, SessionTypeOK,
           AnchorFromVaults
  <2> QED BY <2>1, <2>2, <2>3, <2>4, <2>5
<1>18. ASSUME NEW s \in Sessions, PublishAnchor(s)
      PROVE  /\ LockInv' /\ StampInv' /\ FailureProvesNoWrite'
             /\ RequestInv' /\ BeforeInv'
  <2> USE <1>18 DEF PublishAnchor, Goes, Unlock, AnchorOf
  <2>1. LockInv' /\ StampInv' /\ FailureProvesNoWrite' /\ RequestInv'
    BY DEF LockInv, LockOf, SessionTypeOK, StampInv, Working, RequestTypeOK,
           Mutations, FailureProvesNoWrite, RequestInv
  <2>2. BeforeInv'
    <3>1. ASSUME NEW t \in Sessions, pc'[t] = "locked"
          PROVE  t # s /\ pc[t] = "locked" /\ DeviceOf[t] # DeviceOf[s]
      BY <3>1 DEF LockInv, LockOf, SessionTypeOK
    <3>2. \A t \in Sessions : pc'[t] = "locked" => AnchorOf(t)' = AnchorOf(t)
      BY <3>1 DEF AnchorOf, AnchorTypeOK, AnchorsIn
    <3>3. ASSUME NEW t \in Sessions
          PROVE  /\ pc'[t] \in {"observed", "locked"} =>
                      seen'[t].rev = cached'[t].rev /\ seen'[t].digest = cached'[t].digest
                 /\ pc'[t] = "locked" => VerifiesExactly(AnchorOf(t)', seen'[t])
      BY <3>1, <3>2 DEF BeforeInv, SessionTypeOK
    <3> QED BY <3>3 DEF BeforeInv, AnchorOf
  <2> QED BY <2>1, <2>2
<1>19. ASSUME NEW s \in Sessions, PublishRefused(s)
      PROVE  /\ LockInv' /\ StampInv' /\ FailureProvesNoWrite'
             /\ RequestInv' /\ BeforeInv'
  <2> USE <1>19 DEF PublishRefused, Goes, Unlock, AnchorOf
  <2>1. LockInv'
    BY DEF LockInv, LockOf, SessionTypeOK
  <2>2. StampInv'
    BY DEF StampInv, Working, RequestTypeOK, SessionTypeOK, Mutations
  <2>3. FailureProvesNoWrite'
    BY DEF FailureProvesNoWrite, StampInv, Working, RequestTypeOK,
           SessionTypeOK
  <2>4. RequestInv'
    BY DEF RequestInv, Working, RequestTypeOK, SessionTypeOK, Mutations
  <2>5. BeforeInv'
    BY DEF BeforeInv, AnchorOf, AnchorTypeOK, AnchorsIn, SessionTypeOK,
           AnchorFromVaults
  <2> QED BY <2>1, <2>2, <2>3, <2>4, <2>5
<1>20. ASSUME NEW s \in Sessions, PublishFail(s)
      PROVE  /\ LockInv' /\ StampInv' /\ FailureProvesNoWrite'
             /\ RequestInv' /\ BeforeInv'
  <2> USE <1>20 DEF PublishFail, Goes, Unlock, AnchorOf
  <2>1. LockInv' /\ StampInv' /\ FailureProvesNoWrite' /\ RequestInv'
    BY DEF LockInv, LockOf, SessionTypeOK, StampInv, Working, RequestTypeOK,
           Mutations, FailureProvesNoWrite, RequestInv
  <2>2. BeforeInv'
    <3>1. ASSUME NEW t \in Sessions, pc'[t] = "locked"
          PROVE  t # s /\ pc[t] = "locked" /\ DeviceOf[t] # DeviceOf[s]
      BY <3>1 DEF LockInv, LockOf, SessionTypeOK
    <3>2. \A t \in Sessions : pc'[t] = "locked" => AnchorOf(t)' = AnchorOf(t)
      BY <3>1 DEF AnchorOf, AnchorTypeOK, AnchorsIn
    <3>3. ASSUME NEW t \in Sessions
          PROVE  /\ pc'[t] \in {"observed", "locked"} =>
                      seen'[t].rev = cached'[t].rev /\ seen'[t].digest = cached'[t].digest
                 /\ pc'[t] = "locked" => VerifiesExactly(AnchorOf(t)', seen'[t])
      BY <3>1, <3>2 DEF BeforeInv, SessionTypeOK
    <3> QED BY <3>3 DEF BeforeInv, AnchorOf
  <2> QED BY <2>1, <2>2
<1>21. ASSUME NEW s \in Sessions, RecheckRead(s)
      PROVE  /\ LockInv' /\ StampInv' /\ FailureProvesNoWrite'
             /\ RequestInv' /\ BeforeInv'
  <2> USE <1>21 DEF RecheckRead, Goes
  <2>1. LockInv'
    BY DEF LockInv, LockOf, SessionTypeOK
  <2>2. StampInv'
    BY DEF StampInv, Working, RequestTypeOK, SessionTypeOK, Mutations
  <2>3. FailureProvesNoWrite'
    BY DEF FailureProvesNoWrite, StampInv, Working, RequestTypeOK,
           SessionTypeOK
  <2>4. RequestInv'
    BY DEF RequestInv, Working, RequestTypeOK, SessionTypeOK, Mutations
  <2>5. BeforeInv'
    BY DEF BeforeInv, AnchorOf, AnchorTypeOK, AnchorsIn, SessionTypeOK,
           AnchorFromVaults
  <2> QED BY <2>1, <2>2, <2>3, <2>4, <2>5
<1>22. ASSUME NEW s \in Sessions, RecheckList(s)
      PROVE  /\ LockInv' /\ StampInv' /\ FailureProvesNoWrite'
             /\ RequestInv' /\ BeforeInv'
  <2> USE <1>22 DEF RecheckList, Goes, CatalogMatches
  <2>1. LockInv' /\ StampInv' /\ FailureProvesNoWrite' /\ RequestInv'
    BY DEF LockInv, LockOf, SessionTypeOK, StampInv, Working, RequestTypeOK,
           Mutations, FailureProvesNoWrite, RequestInv
  <2>2. BeforeInv'
    BY DEF BeforeInv, AnchorOf, AnchorTypeOK, AnchorsIn, SessionTypeOK, AnchorFromVaults
  <2> QED BY <2>1, <2>2
<1>23. ASSUME NEW s \in Sessions, RecheckCompare(s)
      PROVE  /\ LockInv' /\ StampInv' /\ FailureProvesNoWrite'
             /\ RequestInv' /\ BeforeInv'
  <2> USE <1>23 DEF RecheckCompare, Goes, AnchorOf
  <2>1. LockInv'
    BY DEF LockInv, LockOf, SessionTypeOK
  <2>2. StampInv'
    BY DEF StampInv, Working, RequestTypeOK, SessionTypeOK, Mutations
  <2>3. FailureProvesNoWrite'
    BY DEF FailureProvesNoWrite, StampInv, Working, RequestTypeOK,
           SessionTypeOK
  <2>4. RequestInv'
    BY DEF RequestInv, Working, RequestTypeOK, SessionTypeOK, Mutations
  <2>5. BeforeInv'
    BY DEF BeforeInv, AnchorOf, AnchorTypeOK, AnchorsIn, SessionTypeOK,
           AnchorFromVaults
  <2> QED BY <2>1, <2>2, <2>3, <2>4, <2>5
<1>24. ASSUME NEW s \in Sessions, Crash(s)
      PROVE  /\ LockInv' /\ StampInv' /\ FailureProvesNoWrite'
             /\ RequestInv' /\ BeforeInv'
  <2> USE <1>24 DEF Crash, Goes, LockOf, Unlock
  <2>1. LockInv'
    BY DEF LockInv, LockOf, SessionTypeOK
  <2>2. StampInv'
    BY DEF StampInv, Working, RequestTypeOK, SessionTypeOK, Mutations
  <2>3. FailureProvesNoWrite'
    BY DEF FailureProvesNoWrite, StampInv, Working, RequestTypeOK,
           SessionTypeOK
  <2>4. RequestInv'
    BY DEF RequestInv, Working, RequestTypeOK, SessionTypeOK, Mutations
  <2>5. BeforeInv'
    BY DEF BeforeInv, AnchorOf, AnchorTypeOK, AnchorsIn, SessionTypeOK,
           AnchorFromVaults
  <2> QED BY <2>1, <2>2, <2>3, <2>4, <2>5
<1>25. CASE Backup
  BY <1>25 DEF Backup, AnchorFromVaults, AnchorOf, AnchorTypeOK, AnchorsIn,
          BeforeInv, FailureProvesNoWrite, LockInv, LockOf, Mutations,
          RequestInv, RequestTypeOK, SessionTypeOK, StampInv, Working
<1>26. CASE Restore
  BY <1>26 DEF Restore, AnchorFromVaults, AnchorOf, AnchorTypeOK, AnchorsIn,
          BeforeInv, FailureProvesNoWrite, LockInv, LockOf, Mutations,
          RequestInv, RequestTypeOK, SessionTypeOK, StampInv, Working
<1>27. CASE UNCHANGED vars
  BY <1>27 DEF vars, AnchorFromVaults, AnchorOf, AnchorTypeOK, AnchorsIn,
          BeforeInv, FailureProvesNoWrite, LockInv, LockOf, Mutations,
          RequestInv, RequestTypeOK, SessionTypeOK, StampInv, Working
<1> QED BY <1>1, <1>2, <1>3, <1>4, <1>5, <1>6, <1>7, <1>8, <1>9, <1>10,
           <1>11, <1>12, <1>13, <1>14, <1>15, <1>16, <1>17, <1>18, <1>19,
           <1>20, <1>21, <1>22, <1>23, <1>24, <1>25, <1>26, <1>27
     DEF Next, Opening, Preparing, Mutating, Rechecking

LEMMA InitControl ==
  Init => LockInv /\ StampInv /\ FailureProvesNoWrite /\ RequestInv /\ BeforeInv
<1> SUFFICES ASSUME Init
             PROVE  LockInv /\ StampInv /\ FailureProvesNoWrite /\ RequestInv
                      /\ BeforeInv
  OBVIOUS
<1> USE NoSessionAssumption, DevicesAssumption DEF Init
<1>1. LockInv
  BY DEF LockInv, LockOf
<1>2. StampInv
  BY DEF StampInv, Working, NoMutation, Mutation
<1>3. FailureProvesNoWrite
  BY DEF FailureProvesNoWrite
<1>4. RequestInv /\ BeforeInv
  BY DEF RequestInv, BeforeInv, Working
<1> QED BY <1>1, <1>2, <1>3, <1>4

-----------------------------------------------------------------------------
(* Vault identifiers are drawn once.  Before the store has accepted a       *)
(* createVault, no record and no other request mentions its vault.          *)

BornInv ==
  /\ DOMAIN store.heads \subseteq born /\ DOMAIN backup.heads \subseteq born
  /\ \A t \in Sessions : DOMAIN seen[t].heads \subseteq born
  /\ \A d \in Devices : DOMAIN anchor[d].heads \subseteq born
  /\ \A d \in Devices : \A a \in acked[d] : DOMAIN a.heads \subseteq born
  /\ \A t \in Sessions : pending[t].kind \in {"create", "update"} =>
                           pending[t].vault \in born

Creating(s) == pc[s] \in Working /\ pending[s].kind = "create"

FreshInv ==
  \A s \in Sessions : Creating(s) =>
    LET v == pending[s].vault IN
      /\ v \notin DOMAIN store.heads /\ v \notin DOMAIN backup.heads
      /\ \A t \in Sessions : v \notin DOMAIN seen[t].heads
      /\ \A d \in Devices : v \notin DOMAIN anchor[d].heads
      /\ \A d \in Devices : \A a \in acked[d] : v \notin DOMAIN a.heads
      /\ \A t \in Sessions \ {s} :
           pending[t].kind \in {"create", "update"} => pending[t].vault # v

LEMMA InitBorn == Init => BornInv /\ FreshInv
<1> SUFFICES ASSUME Init PROVE BornInv /\ FreshInv
  OBVIOUS
<1>1. /\ DOMAIN FirstStore.heads = FirstVaults
      /\ DOMAIN StoreAnchor(FirstStore).heads = FirstVaults
      /\ NoMutation.kind = "rename"
  BY DEF FirstStore, StoreAnchor, AnchorFromVaults, NoMutation, Mutation
<1> QED BY <1>1 DEF Init, BornInv, FreshInv, Creating, Working

\* Where the vaults of a changed store and of a next anchor come from.
LEMMA AppliedVaults ==
  ASSUME NEW st, NEW m \in Mutations
  PROVE  /\ m.kind \in {"create", "update"} =>
              DOMAIN StoreApplied(st, m).heads = DOMAIN st.heads \cup {m.vault}
         /\ m.kind \notin {"create", "update"} =>
              DOMAIN StoreApplied(st, m).heads \subseteq DOMAIN st.heads
BY DEF Mutations, Kinds, StoreApplied, HeadsAfter, WithHead, WithoutHead

LEMMA NextVaults ==
  ASSUME TypeInv, NEW s \in Sessions
  PROVE  \A v \in DOMAIN NextAnchor(s).heads :
           \/ v \in DOMAIN seen[s].heads
           \/ pending[s].kind \in {"create", "update"} /\ v = pending[s].vault
<1>1. WellFormed(pending[s], Vaults) /\ IsAnchor(seen[s], Vaults)
  BY DEF TypeInv, TypeOK, AnchorTypeOK, AnchorsIn, RequestsWellFormed
<1> QED BY <1>1, NextIsAnchor DEF NextAnchor

\* No step disturbs it.
LEMMA BornStep ==
  ASSUME StoreTypeOK, AnchorTypeOK, SessionTypeOK, RequestTypeOK, RequestsWellFormed,
         BornInv, FreshInv, [Next]_vars
  PROVE  BornInv' /\ FreshInv'
<1> USE DevicesAssumption DEF control, budget
<1>1. ASSUME NEW s \in Sessions, OpenRead(s)
      PROVE  BornInv' /\ FreshInv'
  BY <1>1 DEF OpenRead, Goes, BornInv, RequestTypeOK, SessionTypeOK,
          AnchorTypeOK, AnchorsIn, Mutations, FreshInv, Creating, Working
<1>2. ASSUME NEW s \in Sessions, OpenList(s)
      PROVE  BornInv' /\ FreshInv'
  <2> USE <1>2 DEF OpenList, Goes, CatalogMatches
  <2>1. BornInv'
    <3>1. \A t \in Sessions : seen'[t] = seen[t] \/ DOMAIN seen'[t].heads = DOMAIN store.heads
      BY DEF AnchorTypeOK, AnchorsIn, AnchorFromVaults
    <3> QED BY <3>1 DEF BornInv, RequestTypeOK, SessionTypeOK, AnchorTypeOK, AnchorsIn, Mutations
  <2>2. FreshInv'
    <3>1. \A c \in Sessions : Creating(c)' =>
            Creating(c) /\ pending'[c] = pending[c]
      BY DEF Creating, Working, SessionTypeOK
    <3>2. \A t \in Sessions :
            seen'[t] = seen[t] \/ DOMAIN seen'[t].heads = DOMAIN store.heads
      BY DEF AnchorTypeOK, AnchorsIn, AnchorFromVaults
    <3>3. \A d \in Devices : acked'[d] \subseteq acked[d]
      BY DEF AnchorTypeOK, AnchorsIn
    <3>4. UNCHANGED <<store, backup, anchor, pending>>
      OBVIOUS
    <3> QED BY ONLY <3>1, <3>2, <3>3, <3>4, FreshInv DEF FreshInv
  <2> QED BY <2>1, <2>2
<1>3. ASSUME NEW s \in Sessions, OpenCompare(s)
      PROVE  BornInv' /\ FreshInv'
  <2> USE <1>3 DEF OpenCompare, Goes, AnchorOf
  <2>1. BornInv'
    BY DEF BornInv, RequestTypeOK, SessionTypeOK, AnchorTypeOK, AnchorsIn,
           Mutations
  <2>2. FreshInv'
    BY DEF FreshInv, BornInv, Creating, Working, RequestTypeOK,
           SessionTypeOK, AnchorTypeOK, AnchorsIn, Mutations
  <2> QED BY <2>1, <2>2
<1>4. ASSUME NEW s \in Sessions, AcceptRead(s)
      PROVE  BornInv' /\ FreshInv'
  BY <1>4 DEF AcceptRead, Goes, AnchorOf, BornInv, RequestTypeOK,
          SessionTypeOK, AnchorTypeOK, AnchorsIn, Mutations, FreshInv,
          Creating, Working
<1>5. ASSUME NEW s \in Sessions, AcceptWrite(s)
      PROVE  BornInv' /\ FreshInv'
  BY <1>5 DEF AcceptWrite, Goes, LockOf, BornInv, RequestTypeOK,
          SessionTypeOK, AnchorTypeOK, AnchorsIn, Mutations, FreshInv,
          Creating, Working
<1>6. ASSUME NEW s \in Sessions, AcceptConfirm(s)
      PROVE  BornInv' /\ FreshInv'
  <2> USE <1>6 DEF AcceptConfirm, Goes, AnchorOf
  <2>1. BornInv'
    BY DEF BornInv, RequestTypeOK, SessionTypeOK, AnchorTypeOK, AnchorsIn,
           Mutations
  <2>2. FreshInv'
    BY DEF FreshInv, BornInv, Creating, Working, RequestTypeOK,
           SessionTypeOK, AnchorTypeOK, AnchorsIn, Mutations
  <2> QED BY <2>1, <2>2
<1>7. ASSUME NEW s \in Sessions, Close(s)
      PROVE  BornInv' /\ FreshInv'
  BY <1>7 DEF Close, Goes, BornInv, RequestTypeOK, SessionTypeOK,
          AnchorTypeOK, AnchorsIn, Mutations, FreshInv, Creating, Working
<1>8. ASSUME NEW s \in Sessions, PrepareRename(s)
      PROVE  BornInv' /\ FreshInv'
  BY <1>8 DEF PrepareRename, Prepared, Rename, NextDatabase, Mutation, Goes,
          BornInv, RequestTypeOK, SessionTypeOK, AnchorTypeOK, AnchorsIn,
          Mutations, FreshInv, Creating, Working
<1>9. ASSUME NEW s \in Sessions, PrepareCreate(s)
      PROVE  BornInv' /\ FreshInv'
  BY <1>9 DEF PrepareCreate, Prepared, Create, NextDatabase, Mutation, Goes,
          BornInv, RequestTypeOK, SessionTypeOK, AnchorTypeOK, AnchorsIn,
          Mutations, FreshInv, Creating, Working
<1>10. ASSUME NEW s \in Sessions, PrepareUpdate(s)
      PROVE  BornInv' /\ FreshInv'
  BY <1>10 DEF PrepareUpdate, Prepared, Update, Current, Mutation, Goes,
          BornInv, RequestTypeOK, SessionTypeOK, AnchorTypeOK, AnchorsIn,
          Mutations, FreshInv, Creating, Working
<1>11. ASSUME NEW s \in Sessions, PrepareDelete(s)
      PROVE  BornInv' /\ FreshInv'
  BY <1>11 DEF PrepareDelete, Prepared, Delete, NextDatabase, Current,
          Mutation, Goes, BornInv, RequestTypeOK, SessionTypeOK,
          AnchorTypeOK, AnchorsIn, Mutations, FreshInv, Creating, Working
<1>12. ASSUME NEW s \in Sessions, Observe(s)
      PROVE  BornInv' /\ FreshInv'
  <2> USE <1>12 DEF Observe, Goes
  <2>1. BornInv'
    <3>1. \A t \in Sessions : seen'[t] = seen[t] \/ DOMAIN seen'[t].heads = DOMAIN store.heads
      BY DEF AnchorTypeOK, AnchorsIn, AnchorFromVaults
    <3> QED BY <3>1 DEF BornInv, RequestTypeOK, SessionTypeOK, AnchorTypeOK, AnchorsIn, Mutations
  <2>2. FreshInv'
    <3>1. \A t \in Sessions : seen'[t] = seen[t] \/ DOMAIN seen'[t].heads = DOMAIN store.heads
      BY DEF AnchorTypeOK, AnchorsIn, AnchorFromVaults
    <3> QED BY <3>1 DEF FreshInv, BornInv, Creating, Working, RequestTypeOK, SessionTypeOK, AnchorTypeOK, AnchorsIn, Mutations
  <2> QED BY <2>1, <2>2
<1>13. ASSUME NEW s \in Sessions, EnterTransition(s)
      PROVE  BornInv' /\ FreshInv'
  BY <1>13 DEF EnterTransition, Goes, AnchorOf, LockOf, BornInv,
          RequestTypeOK, SessionTypeOK, AnchorTypeOK, AnchorsIn, Mutations,
          FreshInv, Creating, Working
<1>14. ASSUME NEW s \in Sessions, LockTimeout(s)
      PROVE  BornInv' /\ FreshInv'
  BY <1>14 DEF LockTimeout, Goes, LockOf, BornInv, RequestTypeOK,
          SessionTypeOK, AnchorTypeOK, AnchorsIn, Mutations, FreshInv,
          Creating, Working
<1>15. ASSUME NEW s \in Sessions, StoreAccept(s)
      PROVE  BornInv' /\ FreshInv'
  <2> USE <1>15 DEF StoreAccept, Goes, Publishes
  <2>1. BornInv'
    <3>1. \A v \in DOMAIN store'.heads :
            \/ v \in DOMAIN store.heads
            \/ pending[s].kind \in {"create", "update"} /\ v = pending[s].vault
      BY AppliedVaults DEF RequestTypeOK
    <3> HIDE <1>15 DEF Publishes
    <3> QED BY <1>15, <3>1 DEF BornInv, RequestTypeOK, SessionTypeOK, AnchorTypeOK, AnchorsIn, Mutations
  <2>2. FreshInv'
    <3>1. \A v \in DOMAIN store'.heads :
            \/ v \in DOMAIN store.heads
            \/ pending[s].kind \in {"create", "update"} /\ v = pending[s].vault
      BY AppliedVaults DEF RequestTypeOK
    <3> HIDE <1>15 DEF Publishes
    <3> QED BY <1>15, <3>1 DEF FreshInv, BornInv, Creating, Working, RequestTypeOK, SessionTypeOK, AnchorTypeOK, AnchorsIn, Mutations
  <2> QED BY <2>1, <2>2
<1>16. ASSUME NEW s \in Sessions, StoreReject(s)
      PROVE  BornInv' /\ FreshInv'
  BY <1>16 DEF StoreReject, Goes, Unlock, BornInv, RequestTypeOK,
          SessionTypeOK, AnchorTypeOK, AnchorsIn, Mutations, FreshInv,
          Creating, Working
<1>17. ASSUME NEW s \in Sessions, StoreFail(s)
      PROVE  BornInv' /\ FreshInv'
  <2> USE <1>17 DEF StoreFail, Goes, Unlock, Publishes
  <2>1. BornInv'
    <3>1. \A v \in DOMAIN store'.heads :
            \/ v \in DOMAIN store.heads
            \/ pending[s].kind \in {"create", "update"} /\ v = pending[s].vault
      BY AppliedVaults DEF RequestTypeOK
    <3> HIDE <1>17 DEF Publishes
    <3> QED BY <1>17, <3>1 DEF BornInv, RequestTypeOK, SessionTypeOK, AnchorTypeOK, AnchorsIn, Mutations
  <2>2. FreshInv'
    <3>1. \A v \in DOMAIN store'.heads :
            \/ v \in DOMAIN store.heads
            \/ pending[s].kind \in {"create", "update"} /\ v = pending[s].vault
      BY AppliedVaults DEF RequestTypeOK
    <3> HIDE <1>17 DEF Publishes
    <3> QED BY <1>17, <3>1 DEF FreshInv, BornInv, Creating, Working, RequestTypeOK, SessionTypeOK, AnchorTypeOK, AnchorsIn, Mutations
  <2> QED BY <2>1, <2>2
<1>18. ASSUME NEW s \in Sessions, PublishAnchor(s)
      PROVE  BornInv' /\ FreshInv'
  <2> USE <1>18 DEF PublishAnchor, Goes, Unlock, AnchorOf
  <2>1. BornInv'
    <3>1. \A v \in DOMAIN NextAnchor(s).heads :
            \/ v \in DOMAIN seen[s].heads
            \/ pending[s].kind \in {"create", "update"} /\ v = pending[s].vault
      BY NextVaults DEF TypeInv, TypeOK
    <3> QED BY <3>1 DEF BornInv, RequestTypeOK, SessionTypeOK, AnchorTypeOK, AnchorsIn, Mutations
  <2>2. FreshInv'
    <3>1. \A c \in Sessions : Creating(c)' =>
            Creating(c) /\ c # s /\ pending'[c] = pending[c]
      BY DEF Creating, Working, SessionTypeOK
    <3>2. \A c \in Sessions : Creating(c) /\ c # s =>
            pending[c].vault \notin DOMAIN NextAnchor(s).heads
      BY NextVaults DEF TypeInv, TypeOK, FreshInv
    <3>3. /\ \A d \in Devices : anchor'[d] \in {anchor[d], NextAnchor(s)}
          /\ \A d \in Devices : acked'[d] \subseteq acked[d] \cup {NextAnchor(s)}
      BY DEF AnchorTypeOK, AnchorsIn
    <3>4. UNCHANGED <<store, backup, seen, pending>>
      OBVIOUS
    <3> QED BY ONLY <3>1, <3>2, <3>3, <3>4, FreshInv DEF FreshInv
  <2> QED BY <2>1, <2>2
<1>19. ASSUME NEW s \in Sessions, PublishRefused(s)
      PROVE  BornInv' /\ FreshInv'
  BY <1>19 DEF PublishRefused, Goes, Unlock, AnchorOf, BornInv,
          RequestTypeOK, SessionTypeOK, AnchorTypeOK, AnchorsIn, Mutations,
          FreshInv, Creating, Working
<1>20. ASSUME NEW s \in Sessions, PublishFail(s)
      PROVE  BornInv' /\ FreshInv'
  <2> USE <1>20 DEF PublishFail, Goes, Unlock, AnchorOf
  <2>1. BornInv'
    <3>1. \A v \in DOMAIN NextAnchor(s).heads :
            \/ v \in DOMAIN seen[s].heads
            \/ pending[s].kind \in {"create", "update"} /\ v = pending[s].vault
      BY NextVaults DEF TypeInv, TypeOK
    <3> QED BY <3>1 DEF BornInv, RequestTypeOK, SessionTypeOK, AnchorTypeOK, AnchorsIn, Mutations
  <2>2. FreshInv'
    <3>1. \A c \in Sessions : Creating(c)' =>
            Creating(c) /\ c # s /\ pending'[c] = pending[c]
      BY DEF Creating, Working, SessionTypeOK
    <3>2. \A c \in Sessions : Creating(c) /\ c # s =>
            pending[c].vault \notin DOMAIN NextAnchor(s).heads
      BY NextVaults DEF TypeInv, TypeOK, FreshInv
    <3>3. /\ \A d \in Devices : anchor'[d] \in {anchor[d], NextAnchor(s)}
          /\ \A d \in Devices : acked'[d] \subseteq acked[d] \cup {NextAnchor(s)}
      BY DEF AnchorTypeOK, AnchorsIn
    <3>4. UNCHANGED <<store, backup, seen, pending>>
      OBVIOUS
    <3> QED BY ONLY <3>1, <3>2, <3>3, <3>4, FreshInv DEF FreshInv
  <2> QED BY <2>1, <2>2
<1>21. ASSUME NEW s \in Sessions, RecheckRead(s)
      PROVE  BornInv' /\ FreshInv'
  <2> USE <1>21 DEF RecheckRead, Goes
  <2>1. BornInv'
    BY DEF BornInv, RequestTypeOK, SessionTypeOK, AnchorTypeOK, AnchorsIn,
           Mutations
  <2>2. FreshInv'
    BY DEF FreshInv, BornInv, Creating, Working, RequestTypeOK,
           SessionTypeOK, AnchorTypeOK, AnchorsIn, Mutations
  <2> QED BY <2>1, <2>2
<1>22. ASSUME NEW s \in Sessions, RecheckList(s)
      PROVE  BornInv' /\ FreshInv'
  <2> USE <1>22 DEF RecheckList, Goes, CatalogMatches
  <2>1. BornInv'
    <3>1. \A t \in Sessions : seen'[t] = seen[t] \/ DOMAIN seen'[t].heads = DOMAIN store.heads
      BY DEF AnchorTypeOK, AnchorsIn, AnchorFromVaults
    <3> QED BY <3>1 DEF BornInv, RequestTypeOK, SessionTypeOK, AnchorTypeOK, AnchorsIn, Mutations
  <2>2. FreshInv'
    <3>1. \A t \in Sessions : seen'[t] = seen[t] \/ DOMAIN seen'[t].heads = DOMAIN store.heads
      BY DEF AnchorTypeOK, AnchorsIn, AnchorFromVaults
    <3> QED BY <3>1 DEF FreshInv, BornInv, Creating, Working, RequestTypeOK, SessionTypeOK, AnchorTypeOK, AnchorsIn, Mutations
  <2> QED BY <2>1, <2>2
<1>23. ASSUME NEW s \in Sessions, RecheckCompare(s)
      PROVE  BornInv' /\ FreshInv'
  <2> USE <1>23 DEF RecheckCompare, Goes, AnchorOf
  <2>1. BornInv'
    BY DEF BornInv, RequestTypeOK, SessionTypeOK, AnchorTypeOK, AnchorsIn,
           Mutations
  <2>2. FreshInv'
    BY DEF FreshInv, BornInv, Creating, Working, RequestTypeOK,
           SessionTypeOK, AnchorTypeOK, AnchorsIn, Mutations
  <2> QED BY <2>1, <2>2
<1>24. ASSUME NEW s \in Sessions, Crash(s)
      PROVE  BornInv' /\ FreshInv'
  BY <1>24 DEF Crash, Goes, LockOf, Unlock, BornInv, RequestTypeOK,
          SessionTypeOK, AnchorTypeOK, AnchorsIn, Mutations, FreshInv,
          Creating, Working
<1>25. CASE Backup
  BY <1>25 DEF Backup, AnchorTypeOK, AnchorsIn, BornInv, Creating, FreshInv,
          Mutations, RequestTypeOK, SessionTypeOK, Working
<1>26. CASE Restore
  BY <1>26 DEF Restore, AnchorTypeOK, AnchorsIn, BornInv, Creating, FreshInv,
          Mutations, RequestTypeOK, SessionTypeOK, Working
<1>27. CASE UNCHANGED vars
  BY <1>27 DEF vars, AnchorTypeOK, AnchorsIn, BornInv, Creating, FreshInv,
          Mutations, RequestTypeOK, SessionTypeOK, Working
<1> QED BY <1>1, <1>2, <1>3, <1>4, <1>5, <1>6, <1>7, <1>8, <1>9, <1>10,
           <1>11, <1>12, <1>13, <1>14, <1>15, <1>16, <1>17, <1>18, <1>19,
           <1>20, <1>21, <1>22, <1>23, <1>24, <1>25, <1>26, <1>27
     DEF Next, Opening, Preparing, Mutating, Rechecking

-----------------------------------------------------------------------------
(* The lineage: without a restore the store only moves forward, and every  *)
(* record held anywhere is one the store held, or is about to hold.        *)

\* The record a session holds is the store's current one or an older one.
Follows(db, current) == db.rev <= current.rev
                        /\ (db.rev = current.rev => db = current)

CachedFollows == \A s \in Sessions : Follows(cached[s], store.database)

SeenBehind == \A s \in Sessions : Verifies(seen[s], StoreAnchor(store))

AnchorsBehind == \A d \in Devices : Verifies(anchor[d], StoreAnchor(store))

AckedBehind == \A d \in Devices : \A a \in acked[d] :
                 Verifies(a, StoreAnchor(store))

CatalogIsDomain == store.database.catalog = DOMAIN store.heads

\* An accepted mutation that is not anchored yet.
Landed(s) ==
  /\ Follows(pending[s].database, store.database)
  /\ Verifies(NextAnchor(s), StoreAnchor(store))
  /\ LateVerification(s)

StoredLanded == \A s \in Sessions : pc[s] = "stored" => Landed(s)

Invariants == /\ StoreTypeOK /\ AnchorTypeOK /\ SessionTypeOK /\ RequestTypeOK
              /\ RequestsWellFormed
              /\ LockInv /\ RequestInv /\ BeforeInv /\ BornInv /\ FreshInv

Lineage == /\ CachedFollows /\ SeenBehind /\ AnchorsBehind /\ AckedBehind
           /\ CatalogIsDomain /\ StoredLanded

\* A state observed from a record that follows the store's is behind it.
LEMMA ObservedBehind ==
  ASSUME NEW db, IsStore(store), Follows(db, store.database)
  PROVE  Verifies(AnchorFromVaults(db, store.heads), StoreAnchor(store))
BY DEF IsStore, IsHeads, VaultHead, Databases, Follows, Verifies, NotOlder,
       AnchorFromVaults, StoreAnchor

\* The store accepts the request of the session that holds the lock.
LEMMA StoreStep ==
  ASSUME Invariants, Lineage,
         NEW s \in Sessions, pc[s] = "locked", Accepts(s),
         store' = StoreApplied(store, pending[s]),
         UNCHANGED <<anchor, cached, seen, pending>>,
         \A d \in Devices : acked'[d] = acked[d]
  PROVE  /\ CachedFollows' /\ SeenBehind' /\ AnchorsBehind' /\ AckedBehind'
         /\ CatalogIsDomain'
         /\ \A t \in Sessions : pc[t] = "stored" => Landed(t)'
         /\ Landed(s)'
<1> DEFINE m == pending[s]
           Behind(a) == Verifies(a, StoreAnchor(store'))
<1>1. /\ IsRecordOf(store, Vaults) /\ WellFormed(m, Vaults)
      /\ StoreAccepts(store, m) /\ m \in Mutations
      /\ IsAnchor(seen[s], Vaults) /\ IsAnchor(AnchorOf(s), Vaults)
      /\ StoreAnchor(store)' = StoreAnchor(store')
  BY StoreIsRecord, DevicesAssumption
  DEF Invariants, StoreTypeOK, AnchorTypeOK, AnchorsIn, RequestTypeOK,
      RequestsWellFormed, Accepts, AnchorOf
<1>2. /\ m.kind = "update" => m.database = cached[s]
      /\ m.kind # "update" => m.database.rev = cached[s].rev + 1
      /\ seen[s].rev = cached[s].rev
      /\ VerifiesExactly(AnchorOf(s), seen[s])
  BY DEF Invariants, RequestInv, BeforeInv, Working
<1>3. m.kind = "create" =>
        /\ \A t \in Sessions : m.vault \notin DOMAIN seen[t].heads
        /\ \A d \in Devices : m.vault \notin DOMAIN anchor[d].heads
        /\ \A d \in Devices : \A a \in acked[d] : m.vault \notin DOMAIN a.heads
        /\ \A t \in Sessions \ {s} :
             pending[t].kind \in {"create", "update"} => pending[t].vault # m.vault
  BY DEF Invariants, FreshInv, Creating, Working
<1>4. ASSUME NEW a, IsAnchor(a, Vaults), Verifies(a, StoreAnchor(store)),
             m.kind = "create" => m.vault \notin DOMAIN a.heads
      PROVE  Behind(a)
  BY <1>1, <1>4, MutationKeepsAnchors
<1>5. SeenBehind' /\ AnchorsBehind' /\ AckedBehind'
  <2>1. \A t \in Sessions : Behind(seen[t])
    BY <1>3, <1>4 DEF Invariants, AnchorTypeOK, AnchorsIn, Lineage, SeenBehind
  <2>2. \A d \in Devices : Behind(anchor[d])
    BY <1>3, <1>4 DEF Invariants, AnchorTypeOK, AnchorsIn, Lineage, AnchorsBehind
  <2>3. \A d \in Devices : \A a \in acked[d] : Behind(a)
    BY <1>3, <1>4 DEF Invariants, AnchorTypeOK, Lineage, AckedBehind
  <2> QED
    BY <1>1, <2>1, <2>2, <2>3 DEF SeenBehind, AnchorsBehind, AckedBehind
<1>6. \/ m.kind = "update" /\ store'.database = store.database
      \/ /\ m.kind # "update" /\ store'.database = m.database
         /\ m.database.rev = store.database.rev + 1
  BY <1>1 DEF StoreAccepts, StoreApplied, DatabaseCurrent
<1>7. ASSUME NEW db \in Databases, Follows(db, store.database)
      PROVE  Follows(db, store'.database)
  BY <1>1, <1>6, <1>7 DEF Follows, IsRecordOf, Databases
<1>8. CachedFollows'
  BY <1>7 DEF Invariants, SessionTypeOK, Lineage, CachedFollows
<1>9. CatalogIsDomain'
  <2>1. Follows(cached[s], store.database)
    BY DEF Lineage, CachedFollows
  <2>2. m.kind # "update" => cached[s] = store.database
    <3>1. cached[s].rev \in Nat /\ store.database.rev \in Nat
      BY <1>1 DEF Invariants, SessionTypeOK, Databases, IsRecordOf
    <3>2. m.kind # "update" => cached[s].rev = store.database.rev
      BY <1>2, <1>6, <3>1
    <3> QED BY <2>1, <3>2 DEF Follows
  <2>3. /\ m.kind = "rename" => m.database.catalog = cached[s].catalog
        /\ m.kind = "create" =>
             m.database.catalog = cached[s].catalog \cup {m.vault}
        /\ m.kind = "delete" =>
             m.database.catalog = cached[s].catalog \ {m.vault}
    BY DEF Invariants, RequestInv, Working
  <2>4. /\ m.kind = "rename" => DOMAIN store'.heads = DOMAIN store.heads
        /\ m.kind = "create" =>
             DOMAIN store'.heads = DOMAIN store.heads \cup {m.vault}
        /\ m.kind = "update" => DOMAIN store'.heads = DOMAIN store.heads
        /\ m.kind = "delete" =>
             DOMAIN store'.heads = DOMAIN store.heads \ {m.vault}
    BY <1>1 DEF StoreApplied, HeadsAfter, WithHead, WithoutHead, StoreAccepts,
                VaultCurrent
  <2>5. store.database.catalog = DOMAIN store.heads
    BY DEF Lineage, CatalogIsDomain
  <2>6. m.kind \in {"rename", "create", "update", "delete"}
    BY <1>1 DEF Mutations, Kinds
  <2> QED
    BY <1>6, <2>2, <2>3, <2>4, <2>5, <2>6 DEF CatalogIsDomain
<1>10. ASSUME NEW t \in Sessions, pc[t] = "stored"
       PROVE  Landed(t)'
  <2>1. t # s /\ Landed(t)
    BY <1>10 DEF Lineage, StoredLanded
  <2>2. IsAnchor(NextAnchor(t), Vaults)
    BY NextAnchorType DEF Invariants, TypeInv, TypeOK
  <2>3. m.kind = "create" => m.vault \notin DOMAIN NextAnchor(t).heads
    BY <1>3, <2>1, NextVaults DEF Invariants, TypeInv, TypeOK
  <2>4. Behind(NextAnchor(t))
    BY <1>4, <2>1, <2>2, <2>3 DEF Landed
  <2>5. Follows(pending[t].database, store'.database)
    BY <1>7, <2>1 DEF Landed, Invariants, RequestTypeOK, Mutations
  <2> QED
    BY <1>1, <2>1, <2>4, <2>5 DEF Landed, LateVerification, NextAnchor, AnchorOf
<1>11. Landed(s)'
  <2>1. Verifies(seen[s], StoreAnchor(store))
    BY DEF Lineage, SeenBehind
  <2>2. Behind(NextAnchor(s))
    BY <1>1, <1>2, <2>1, NextIsBehind DEF NextAnchor
  <2>3. Verifies(AnchorOf(s), NextAnchor(s))
    BY <1>1, <1>2, <1>3, <2>1, NextVerifies DEF NextAnchor
  <2>4. VerifiesExactly(seen[s], seen[s])
    BY <1>1, VerifiesReflexive
  <2>5. Verifies(seen[s], NextAnchor(s))
    BY <1>1, <1>2, <1>3, <2>1, <2>4, NextVerifies DEF NextAnchor
  <2>6. Follows(m.database, store'.database)
    <3>1. Follows(cached[s], store'.database)
      BY <1>8 DEF CachedFollows
    <3>2. m.database.rev \in Nat
      BY <1>1 DEF WellFormed
    <3> QED BY <1>2, <1>6, <3>1, <3>2 DEF Follows
  <2> QED
    BY <1>1, <2>2, <2>3, <2>5, <2>6
    DEF Landed, LateVerification, NextAnchor, AnchorOf
<1> QED BY <1>5, <1>8, <1>9, <1>10, <1>11

LEMMA InitLineage == Init => Lineage
<1> SUFFICES ASSUME Init PROVE Lineage
  OBVIOUS
<1>1. Verifies(StoreAnchor(FirstStore), StoreAnchor(FirstStore))
  BY FirstStoreType, VerifiesReflexive
<1>2. FirstStore.database.catalog = DOMAIN FirstStore.heads
  BY DEF FirstStore
<1>3. Follows(FirstStore.database, FirstStore.database)
  BY FirstStoreType DEF Follows, IsStore, Databases
<1> QED
  BY <1>1, <1>2, <1>3
  DEF Init, Lineage, CachedFollows, SeenBehind, AnchorsBehind, AckedBehind,
      CatalogIsDomain, StoredLanded

\* No step but a restore disturbs it.
LEMMA LineageStep ==
  ASSUME Invariants, Lineage, NeverRestored, NeverRestored', [Next]_vars
  PROVE  /\ CachedFollows' /\ SeenBehind' /\ AnchorsBehind'
         /\ AckedBehind' /\ CatalogIsDomain' /\ StoredLanded'
<1> USE DevicesAssumption DEF control, budget, Invariants, Lineage
<1>1. ASSUME NEW s \in Sessions, OpenRead(s)
      PROVE  /\ CachedFollows' /\ SeenBehind' /\ AnchorsBehind'
             /\ AckedBehind' /\ CatalogIsDomain' /\ StoredLanded'
  <2> USE <1>1 DEF OpenRead, Goes
  <2>1. SeenBehind' /\ AnchorsBehind' /\ AckedBehind' /\ CatalogIsDomain' /\ StoredLanded'
    BY DEF SeenBehind, AnchorTypeOK, AnchorsIn, AnchorsBehind, AckedBehind,
           CatalogIsDomain, StoredLanded, Landed, LateVerification,
           NextAnchor, AnchorOf, SessionTypeOK
  <2>2. CachedFollows'
    <3>1. Follows(store.database, store.database)
      BY DEF Follows, StoreTypeOK, IsStore, Databases
    <3> QED BY <3>1 DEF CachedFollows, SessionTypeOK
  <2> QED BY <2>1, <2>2
<1>2. ASSUME NEW s \in Sessions, OpenList(s)
      PROVE  /\ CachedFollows' /\ SeenBehind' /\ AnchorsBehind'
             /\ AckedBehind' /\ CatalogIsDomain' /\ StoredLanded'
  <2> USE <1>2 DEF OpenList, Goes, CatalogMatches
  <2>1. CachedFollows' /\ AnchorsBehind' /\ CatalogIsDomain'
    BY DEF CachedFollows, SessionTypeOK, AnchorsBehind, AnchorTypeOK,
           AnchorsIn, CatalogIsDomain
  <2>2. SeenBehind'
    BY ObservedBehind DEF SeenBehind, CachedFollows, AnchorTypeOK, AnchorsIn, StoreTypeOK
  <2>3. AckedBehind'
    <3>1. \A d \in Devices : acked'[d] \subseteq acked[d]
      BY DEF AnchorTypeOK, AnchorsIn
    <3> QED BY <3>1 DEF AckedBehind
  <2>4. StoredLanded'
    <3>1. \A t \in Sessions : pc'[t] = "stored" =>
            pc[t] = "stored" /\ seen'[t] = seen[t]
      BY DEF SessionTypeOK, AnchorTypeOK, AnchorsIn
    <3>2. UNCHANGED <<store, anchor, pending>>
      OBVIOUS
    <3> QED BY ONLY <3>1, <3>2, StoredLanded
            DEF StoredLanded, Landed, LateVerification, NextAnchor, AnchorOf
  <2> QED BY <2>1, <2>2, <2>3, <2>4
<1>3. ASSUME NEW s \in Sessions, OpenCompare(s)
      PROVE  /\ CachedFollows' /\ SeenBehind' /\ AnchorsBehind'
             /\ AckedBehind' /\ CatalogIsDomain' /\ StoredLanded'
  BY <1>3 DEF OpenCompare, Goes, AnchorOf, CachedFollows, SessionTypeOK,
          SeenBehind, AnchorTypeOK, AnchorsIn, AnchorsBehind, AckedBehind,
          CatalogIsDomain, StoredLanded, Landed, LateVerification, NextAnchor
<1>4. ASSUME NEW s \in Sessions, AcceptRead(s)
      PROVE  /\ CachedFollows' /\ SeenBehind' /\ AnchorsBehind'
             /\ AckedBehind' /\ CatalogIsDomain' /\ StoredLanded'
  BY <1>4 DEF AcceptRead, Goes, AnchorOf, CachedFollows, SessionTypeOK,
          SeenBehind, AnchorTypeOK, AnchorsIn, AnchorsBehind, AckedBehind,
          CatalogIsDomain, StoredLanded, Landed, LateVerification, NextAnchor
<1>5. ASSUME NEW s \in Sessions, AcceptWrite(s)
      PROVE  /\ CachedFollows' /\ SeenBehind' /\ AnchorsBehind'
             /\ AckedBehind' /\ CatalogIsDomain' /\ StoredLanded'
  <2> USE <1>5 DEF AcceptWrite, Goes, LockOf
  <2>1. CachedFollows' /\ SeenBehind' /\ AckedBehind' /\ CatalogIsDomain'
    BY DEF CachedFollows, SessionTypeOK, SeenBehind, AnchorTypeOK, AnchorsIn,
           AckedBehind, CatalogIsDomain
  <2>2. AnchorsBehind'
    <3>1. \A d \in Devices : anchor'[d] \in {anchor[d], seen[s]}
      BY DEF AnchorTypeOK, AnchorsIn
    <3> QED BY <3>1 DEF AnchorsBehind, SeenBehind
  <2>3. StoredLanded'
    <3>1. ASSUME NEW t \in Sessions, pc'[t] = "stored"
          PROVE  pc[t] = "stored" /\ DeviceOf[t] # DeviceOf[s]
      BY <3>1, NoSessionAssumption DEF LockInv, LockOf, SessionTypeOK
    <3>2. \A t \in Sessions : pc'[t] = "stored" => AnchorOf(t)' = AnchorOf(t)
      BY <3>1 DEF AnchorOf, AnchorTypeOK, AnchorsIn
    <3> QED BY <3>1, <3>2 DEF StoredLanded, Landed, LateVerification, NextAnchor
  <2> QED BY <2>1, <2>2, <2>3
<1>6. ASSUME NEW s \in Sessions, AcceptConfirm(s)
      PROVE  /\ CachedFollows' /\ SeenBehind' /\ AnchorsBehind'
             /\ AckedBehind' /\ CatalogIsDomain' /\ StoredLanded'
  BY <1>6 DEF AcceptConfirm, Goes, AnchorOf, CachedFollows, SessionTypeOK,
          SeenBehind, AnchorTypeOK, AnchorsIn, AnchorsBehind, AckedBehind,
          CatalogIsDomain, StoredLanded, Landed, LateVerification, NextAnchor
<1>7. ASSUME NEW s \in Sessions, Close(s)
      PROVE  /\ CachedFollows' /\ SeenBehind' /\ AnchorsBehind'
             /\ AckedBehind' /\ CatalogIsDomain' /\ StoredLanded'
  BY <1>7 DEF Close, Goes, CachedFollows, SessionTypeOK, SeenBehind,
          AnchorTypeOK, AnchorsIn, AnchorsBehind, AckedBehind,
          CatalogIsDomain, StoredLanded, Landed, LateVerification,
          NextAnchor, AnchorOf
<1>8. ASSUME NEW s \in Sessions, PrepareRename(s)
      PROVE  /\ CachedFollows' /\ SeenBehind' /\ AnchorsBehind'
             /\ AckedBehind' /\ CatalogIsDomain' /\ StoredLanded'
  <2> USE <1>8 DEF PrepareRename, Prepared, Rename, NextDatabase, Mutation,
          Goes
  <2>1. CachedFollows'
    BY DEF CachedFollows, SessionTypeOK
  <2>2. SeenBehind'
    BY DEF SeenBehind, AnchorTypeOK, AnchorsIn
  <2>3. AnchorsBehind'
    BY DEF AnchorsBehind, AnchorTypeOK, AnchorsIn
  <2>4. AckedBehind'
    BY DEF AckedBehind, AnchorTypeOK, AnchorsIn
  <2>5. CatalogIsDomain'
    BY DEF CatalogIsDomain
  <2>6. StoredLanded'
    BY DEF StoredLanded, Landed, LateVerification, NextAnchor, AnchorOf,
           SessionTypeOK
  <2> QED BY <2>1, <2>2, <2>3, <2>4, <2>5, <2>6
<1>9. ASSUME NEW s \in Sessions, PrepareCreate(s)
      PROVE  /\ CachedFollows' /\ SeenBehind' /\ AnchorsBehind'
             /\ AckedBehind' /\ CatalogIsDomain' /\ StoredLanded'
  <2> USE <1>9 DEF PrepareCreate, Prepared, Create, NextDatabase, Mutation,
          Goes
  <2>1. CachedFollows'
    BY DEF CachedFollows, SessionTypeOK
  <2>2. SeenBehind'
    BY DEF SeenBehind, AnchorTypeOK, AnchorsIn
  <2>3. AnchorsBehind'
    BY DEF AnchorsBehind, AnchorTypeOK, AnchorsIn
  <2>4. AckedBehind'
    BY DEF AckedBehind, AnchorTypeOK, AnchorsIn
  <2>5. CatalogIsDomain'
    BY DEF CatalogIsDomain
  <2>6. StoredLanded'
    BY DEF StoredLanded, Landed, LateVerification, NextAnchor, AnchorOf,
           SessionTypeOK
  <2> QED BY <2>1, <2>2, <2>3, <2>4, <2>5, <2>6
<1>10. ASSUME NEW s \in Sessions, PrepareUpdate(s)
      PROVE  /\ CachedFollows' /\ SeenBehind' /\ AnchorsBehind'
             /\ AckedBehind' /\ CatalogIsDomain' /\ StoredLanded'
  <2> USE <1>10 DEF PrepareUpdate, Prepared, Update, Current, Mutation, Goes
  <2>1. CachedFollows'
    BY DEF CachedFollows, SessionTypeOK
  <2>2. SeenBehind'
    BY DEF SeenBehind, AnchorTypeOK, AnchorsIn
  <2>3. AnchorsBehind'
    BY DEF AnchorsBehind, AnchorTypeOK, AnchorsIn
  <2>4. AckedBehind'
    BY DEF AckedBehind, AnchorTypeOK, AnchorsIn
  <2>5. CatalogIsDomain'
    BY DEF CatalogIsDomain
  <2>6. StoredLanded'
    BY DEF StoredLanded, Landed, LateVerification, NextAnchor, AnchorOf,
           SessionTypeOK
  <2> QED BY <2>1, <2>2, <2>3, <2>4, <2>5, <2>6
<1>11. ASSUME NEW s \in Sessions, PrepareDelete(s)
      PROVE  /\ CachedFollows' /\ SeenBehind' /\ AnchorsBehind'
             /\ AckedBehind' /\ CatalogIsDomain' /\ StoredLanded'
  <2> USE <1>11 DEF PrepareDelete, Prepared, Delete, NextDatabase, Current,
          Mutation, Goes
  <2>1. CachedFollows'
    BY DEF CachedFollows, SessionTypeOK
  <2>2. SeenBehind'
    BY DEF SeenBehind, AnchorTypeOK, AnchorsIn
  <2>3. AnchorsBehind'
    BY DEF AnchorsBehind, AnchorTypeOK, AnchorsIn
  <2>4. AckedBehind'
    BY DEF AckedBehind, AnchorTypeOK, AnchorsIn
  <2>5. CatalogIsDomain'
    BY DEF CatalogIsDomain
  <2>6. StoredLanded'
    BY DEF StoredLanded, Landed, LateVerification, NextAnchor, AnchorOf,
           SessionTypeOK
  <2> QED BY <2>1, <2>2, <2>3, <2>4, <2>5, <2>6
<1>12. ASSUME NEW s \in Sessions, Observe(s)
      PROVE  /\ CachedFollows' /\ SeenBehind' /\ AnchorsBehind'
             /\ AckedBehind' /\ CatalogIsDomain' /\ StoredLanded'
  <2> USE <1>12 DEF Observe, Goes
  <2>1. CachedFollows' /\ AnchorsBehind' /\ AckedBehind' /\ CatalogIsDomain' /\ StoredLanded'
    BY DEF CachedFollows, SessionTypeOK, AnchorsBehind, AnchorTypeOK,
           AnchorsIn, AckedBehind, CatalogIsDomain, StoredLanded, Landed,
           LateVerification, NextAnchor, AnchorOf
  <2>2. SeenBehind'
    BY ObservedBehind DEF SeenBehind, CachedFollows, AnchorTypeOK, AnchorsIn, StoreTypeOK
  <2> QED BY <2>1, <2>2
<1>13. ASSUME NEW s \in Sessions, EnterTransition(s)
      PROVE  /\ CachedFollows' /\ SeenBehind' /\ AnchorsBehind'
             /\ AckedBehind' /\ CatalogIsDomain' /\ StoredLanded'
  BY <1>13 DEF EnterTransition, Goes, AnchorOf, LockOf, CachedFollows,
          SessionTypeOK, SeenBehind, AnchorTypeOK, AnchorsIn, AnchorsBehind,
          AckedBehind, CatalogIsDomain, StoredLanded, Landed,
          LateVerification, NextAnchor
<1>14. ASSUME NEW s \in Sessions, LockTimeout(s)
      PROVE  /\ CachedFollows' /\ SeenBehind' /\ AnchorsBehind'
             /\ AckedBehind' /\ CatalogIsDomain' /\ StoredLanded'
  BY <1>14 DEF LockTimeout, Goes, LockOf, CachedFollows, SessionTypeOK,
          SeenBehind, AnchorTypeOK, AnchorsIn, AnchorsBehind, AckedBehind,
          CatalogIsDomain, StoredLanded, Landed, LateVerification,
          NextAnchor, AnchorOf
<1>15. ASSUME NEW s \in Sessions, StoreAccept(s)
      PROVE  /\ CachedFollows' /\ SeenBehind' /\ AnchorsBehind'
             /\ AckedBehind' /\ CatalogIsDomain' /\ StoredLanded'
  <2> USE <1>15 DEF StoreAccept, Goes, Publishes
  <2>1. CachedFollows'
    <3>1. /\ CachedFollows' /\ SeenBehind' /\ AnchorsBehind' /\ AckedBehind'
          /\ CatalogIsDomain'
          /\ \A t \in Sessions : pc[t] = "stored" => Landed(t)'
          /\ Landed(s)'
      BY ONLY Invariants, Lineage, <1>15, StoreStep DEF StoreAccept, Goes, Publishes
    <3> QED BY <3>1 DEF StoredLanded, SessionTypeOK
  <2>2. SeenBehind'
    <3>1. /\ CachedFollows' /\ SeenBehind' /\ AnchorsBehind' /\ AckedBehind'
          /\ CatalogIsDomain'
          /\ \A t \in Sessions : pc[t] = "stored" => Landed(t)'
          /\ Landed(s)'
      BY ONLY Invariants, Lineage, <1>15, StoreStep DEF StoreAccept, Goes, Publishes
    <3> QED BY <3>1 DEF StoredLanded, SessionTypeOK
  <2>3. AnchorsBehind'
    <3>1. /\ CachedFollows' /\ SeenBehind' /\ AnchorsBehind' /\ AckedBehind'
          /\ CatalogIsDomain'
          /\ \A t \in Sessions : pc[t] = "stored" => Landed(t)'
          /\ Landed(s)'
      BY ONLY Invariants, Lineage, <1>15, StoreStep DEF StoreAccept, Goes, Publishes
    <3> QED BY <3>1 DEF StoredLanded, SessionTypeOK
  <2>4. AckedBehind'
    <3>1. /\ CachedFollows' /\ SeenBehind' /\ AnchorsBehind' /\ AckedBehind'
          /\ CatalogIsDomain'
          /\ \A t \in Sessions : pc[t] = "stored" => Landed(t)'
          /\ Landed(s)'
      BY ONLY Invariants, Lineage, <1>15, StoreStep DEF StoreAccept, Goes, Publishes
    <3> QED BY <3>1 DEF StoredLanded, SessionTypeOK
  <2>5. CatalogIsDomain'
    <3>1. /\ CachedFollows' /\ SeenBehind' /\ AnchorsBehind' /\ AckedBehind'
          /\ CatalogIsDomain'
          /\ \A t \in Sessions : pc[t] = "stored" => Landed(t)'
          /\ Landed(s)'
      BY ONLY Invariants, Lineage, <1>15, StoreStep DEF StoreAccept, Goes, Publishes
    <3> QED BY <3>1 DEF StoredLanded, SessionTypeOK
  <2>6. StoredLanded'
    <3>1. /\ CachedFollows' /\ SeenBehind' /\ AnchorsBehind' /\ AckedBehind'
          /\ CatalogIsDomain'
          /\ \A t \in Sessions : pc[t] = "stored" => Landed(t)'
          /\ Landed(s)'
      BY ONLY Invariants, Lineage, <1>15, StoreStep DEF StoreAccept, Goes, Publishes
    <3> QED BY <3>1 DEF StoredLanded, SessionTypeOK
  <2> QED BY <2>1, <2>2, <2>3, <2>4, <2>5, <2>6
<1>16. ASSUME NEW s \in Sessions, StoreReject(s)
      PROVE  /\ CachedFollows' /\ SeenBehind' /\ AnchorsBehind'
             /\ AckedBehind' /\ CatalogIsDomain' /\ StoredLanded'
  BY <1>16 DEF StoreReject, Goes, Unlock, CachedFollows, SessionTypeOK,
          SeenBehind, AnchorTypeOK, AnchorsIn, AnchorsBehind, AckedBehind,
          CatalogIsDomain, StoredLanded, Landed, LateVerification,
          NextAnchor, AnchorOf
<1>17. ASSUME NEW s \in Sessions, StoreFail(s)
      PROVE  /\ CachedFollows' /\ SeenBehind' /\ AnchorsBehind'
             /\ AckedBehind' /\ CatalogIsDomain' /\ StoredLanded'
  <2> USE <1>17 DEF StoreFail, Goes, Unlock, Publishes
  <2>1. CachedFollows'
    <3>1. CASE UNCHANGED store
      BY <3>1 DEF CachedFollows, SessionTypeOK
    <3>2. CASE Accepts(s) /\ Publishes(s)
      <4>1. /\ CachedFollows' /\ SeenBehind' /\ AnchorsBehind' /\ AckedBehind'
            /\ CatalogIsDomain'
            /\ \A t \in Sessions : pc[t] = "stored" => Landed(t)'
        BY ONLY Invariants, Lineage, <1>17, <3>2, StoreStep
        DEF StoreFail, Goes, Publishes
      <4> QED BY <4>1 DEF StoredLanded, SessionTypeOK
    <3> QED BY <3>1, <3>2
  <2>2. SeenBehind'
    <3>1. CASE UNCHANGED store
      BY <3>1 DEF SeenBehind, AnchorTypeOK, AnchorsIn
    <3>2. CASE Accepts(s) /\ Publishes(s)
      <4>1. /\ CachedFollows' /\ SeenBehind' /\ AnchorsBehind' /\ AckedBehind'
            /\ CatalogIsDomain'
            /\ \A t \in Sessions : pc[t] = "stored" => Landed(t)'
        BY ONLY Invariants, Lineage, <1>17, <3>2, StoreStep
        DEF StoreFail, Goes, Publishes
      <4> QED BY <4>1 DEF StoredLanded, SessionTypeOK
    <3> QED BY <3>1, <3>2
  <2>3. AnchorsBehind'
    <3>1. CASE UNCHANGED store
      BY <3>1 DEF AnchorsBehind, AnchorTypeOK, AnchorsIn
    <3>2. CASE Accepts(s) /\ Publishes(s)
      <4>1. /\ CachedFollows' /\ SeenBehind' /\ AnchorsBehind' /\ AckedBehind'
            /\ CatalogIsDomain'
            /\ \A t \in Sessions : pc[t] = "stored" => Landed(t)'
        BY ONLY Invariants, Lineage, <1>17, <3>2, StoreStep
        DEF StoreFail, Goes, Publishes
      <4> QED BY <4>1 DEF StoredLanded, SessionTypeOK
    <3> QED BY <3>1, <3>2
  <2>4. AckedBehind'
    <3>1. CASE UNCHANGED store
      BY <3>1 DEF AckedBehind, AnchorTypeOK, AnchorsIn
    <3>2. CASE Accepts(s) /\ Publishes(s)
      <4>1. /\ CachedFollows' /\ SeenBehind' /\ AnchorsBehind' /\ AckedBehind'
            /\ CatalogIsDomain'
            /\ \A t \in Sessions : pc[t] = "stored" => Landed(t)'
        BY ONLY Invariants, Lineage, <1>17, <3>2, StoreStep
        DEF StoreFail, Goes, Publishes
      <4> QED BY <4>1 DEF StoredLanded, SessionTypeOK
    <3> QED BY <3>1, <3>2
  <2>5. CatalogIsDomain'
    <3>1. CASE UNCHANGED store
      BY <3>1 DEF CatalogIsDomain
    <3>2. CASE Accepts(s) /\ Publishes(s)
      <4>1. /\ CachedFollows' /\ SeenBehind' /\ AnchorsBehind' /\ AckedBehind'
            /\ CatalogIsDomain'
            /\ \A t \in Sessions : pc[t] = "stored" => Landed(t)'
        BY ONLY Invariants, Lineage, <1>17, <3>2, StoreStep
        DEF StoreFail, Goes, Publishes
      <4> QED BY <4>1 DEF StoredLanded, SessionTypeOK
    <3> QED BY <3>1, <3>2
  <2>6. StoredLanded'
    <3>1. CASE UNCHANGED store
      BY <3>1 DEF StoredLanded, Landed, LateVerification, NextAnchor, AnchorOf, SessionTypeOK
    <3>2. CASE Accepts(s) /\ Publishes(s)
      <4>1. /\ CachedFollows' /\ SeenBehind' /\ AnchorsBehind' /\ AckedBehind'
            /\ CatalogIsDomain'
            /\ \A t \in Sessions : pc[t] = "stored" => Landed(t)'
        BY ONLY Invariants, Lineage, <1>17, <3>2, StoreStep
        DEF StoreFail, Goes, Publishes
      <4> QED BY <4>1 DEF StoredLanded, SessionTypeOK
    <3> QED BY <3>1, <3>2
  <2> QED BY <2>1, <2>2, <2>3, <2>4, <2>5, <2>6
<1>18. ASSUME NEW s \in Sessions, PublishAnchor(s)
      PROVE  /\ CachedFollows' /\ SeenBehind' /\ AnchorsBehind'
             /\ AckedBehind' /\ CatalogIsDomain' /\ StoredLanded'
  <2> USE <1>18 DEF PublishAnchor, Goes, Unlock, AnchorOf
  <2>1. SeenBehind' /\ CatalogIsDomain'
    BY DEF SeenBehind, AnchorTypeOK, AnchorsIn, CatalogIsDomain
  <2>2. CachedFollows'
    <3>1. Landed(s)
      BY DEF StoredLanded
    <3> QED BY <3>1 DEF Landed, CachedFollows, SessionTypeOK
  <2>3. AnchorsBehind'
    <3>1. Landed(s)
      BY DEF StoredLanded
    <3> QED BY <3>1 DEF Landed, AnchorsBehind, AnchorTypeOK, AnchorsIn
  <2>4. AckedBehind'
    <3>1. Landed(s)
      BY DEF StoredLanded
    <3> QED BY <3>1 DEF Landed, AckedBehind, AnchorTypeOK, AnchorsIn
  <2>5. StoredLanded'
    <3>1. ASSUME NEW t \in Sessions, pc'[t] = "stored"
          PROVE  pc[t] = "stored" /\ DeviceOf[t] # DeviceOf[s]
      BY <3>1, NoSessionAssumption DEF LockInv, LockOf, SessionTypeOK
    <3>2. \A t \in Sessions : pc'[t] = "stored" => AnchorOf(t)' = AnchorOf(t)
      BY <3>1 DEF AnchorOf, AnchorTypeOK, AnchorsIn
    <3>3. UNCHANGED <<store, seen, pending>>
      OBVIOUS
    <3> HIDE <1>18
    <3> QED BY <3>1, <3>2, <3>3 DEF StoredLanded, Landed, LateVerification, NextAnchor
  <2> QED BY <2>1, <2>2, <2>3, <2>4, <2>5
<1>19. ASSUME NEW s \in Sessions, PublishRefused(s)
      PROVE  /\ CachedFollows' /\ SeenBehind' /\ AnchorsBehind'
             /\ AckedBehind' /\ CatalogIsDomain' /\ StoredLanded'
  BY <1>19 DEF PublishRefused, Goes, Unlock, AnchorOf, CachedFollows,
          SessionTypeOK, SeenBehind, AnchorTypeOK, AnchorsIn, AnchorsBehind,
          AckedBehind, CatalogIsDomain, StoredLanded, Landed,
          LateVerification, NextAnchor
<1>20. ASSUME NEW s \in Sessions, PublishFail(s)
      PROVE  /\ CachedFollows' /\ SeenBehind' /\ AnchorsBehind'
             /\ AckedBehind' /\ CatalogIsDomain' /\ StoredLanded'
  <2> USE <1>20 DEF PublishFail, Goes, Unlock, AnchorOf
  <2>1. SeenBehind' /\ CatalogIsDomain'
    BY DEF SeenBehind, AnchorTypeOK, AnchorsIn, CatalogIsDomain
  <2>2. CachedFollows'
    <3>1. Landed(s)
      BY DEF StoredLanded
    <3> QED BY <3>1 DEF Landed, CachedFollows, SessionTypeOK
  <2>3. AnchorsBehind'
    <3>1. Landed(s)
      BY DEF StoredLanded
    <3> QED BY <3>1 DEF Landed, AnchorsBehind, AnchorTypeOK, AnchorsIn
  <2>4. AckedBehind'
    <3>1. Landed(s)
      BY DEF StoredLanded
    <3> QED BY <3>1 DEF Landed, AckedBehind, AnchorTypeOK, AnchorsIn
  <2>5. StoredLanded'
    <3>1. ASSUME NEW t \in Sessions, pc'[t] = "stored"
          PROVE  pc[t] = "stored" /\ DeviceOf[t] # DeviceOf[s]
      BY <3>1, NoSessionAssumption DEF LockInv, LockOf, SessionTypeOK
    <3>2. \A t \in Sessions : pc'[t] = "stored" => AnchorOf(t)' = AnchorOf(t)
      BY <3>1 DEF AnchorOf, AnchorTypeOK, AnchorsIn
    <3>3. UNCHANGED <<store, seen, pending>>
      OBVIOUS
    <3> HIDE <1>20
    <3> QED BY <3>1, <3>2, <3>3 DEF StoredLanded, Landed, LateVerification, NextAnchor
  <2> QED BY <2>1, <2>2, <2>3, <2>4, <2>5
<1>21. ASSUME NEW s \in Sessions, RecheckRead(s)
      PROVE  /\ CachedFollows' /\ SeenBehind' /\ AnchorsBehind'
             /\ AckedBehind' /\ CatalogIsDomain' /\ StoredLanded'
  BY <1>21 DEF RecheckRead, Goes, CachedFollows, SessionTypeOK, SeenBehind,
          AnchorTypeOK, AnchorsIn, AnchorsBehind, AckedBehind,
          CatalogIsDomain, StoredLanded, Landed, LateVerification,
          NextAnchor, AnchorOf
<1>22. ASSUME NEW s \in Sessions, RecheckList(s)
      PROVE  /\ CachedFollows' /\ SeenBehind' /\ AnchorsBehind'
             /\ AckedBehind' /\ CatalogIsDomain' /\ StoredLanded'
  <2> USE <1>22 DEF RecheckList, Goes, CatalogMatches
  <2>1. CachedFollows' /\ AnchorsBehind' /\ AckedBehind' /\ CatalogIsDomain'
    BY DEF CachedFollows, SessionTypeOK, AnchorsBehind, AnchorTypeOK,
           AnchorsIn, AckedBehind, CatalogIsDomain
  <2>2. SeenBehind'
    BY ObservedBehind DEF SeenBehind, CachedFollows, AnchorTypeOK, AnchorsIn, StoreTypeOK
  <2>3. StoredLanded'
    <3>1. \A t \in Sessions : pc'[t] = "stored" =>
            pc[t] = "stored" /\ seen'[t] = seen[t]
      BY DEF SessionTypeOK, AnchorTypeOK, AnchorsIn
    <3>2. UNCHANGED <<store, anchor, pending>>
      OBVIOUS
    <3> QED BY ONLY <3>1, <3>2, StoredLanded
            DEF StoredLanded, Landed, LateVerification, NextAnchor, AnchorOf
  <2> QED BY <2>1, <2>2, <2>3
<1>23. ASSUME NEW s \in Sessions, RecheckCompare(s)
      PROVE  /\ CachedFollows' /\ SeenBehind' /\ AnchorsBehind'
             /\ AckedBehind' /\ CatalogIsDomain' /\ StoredLanded'
  BY <1>23 DEF RecheckCompare, Goes, AnchorOf, CachedFollows, SessionTypeOK,
          SeenBehind, AnchorTypeOK, AnchorsIn, AnchorsBehind, AckedBehind,
          CatalogIsDomain, StoredLanded, Landed, LateVerification, NextAnchor
<1>24. ASSUME NEW s \in Sessions, Crash(s)
      PROVE  /\ CachedFollows' /\ SeenBehind' /\ AnchorsBehind'
             /\ AckedBehind' /\ CatalogIsDomain' /\ StoredLanded'
  BY <1>24 DEF Crash, Goes, LockOf, Unlock, CachedFollows, SessionTypeOK,
          SeenBehind, AnchorTypeOK, AnchorsIn, AnchorsBehind, AckedBehind,
          CatalogIsDomain, StoredLanded, Landed, LateVerification,
          NextAnchor, AnchorOf
<1>25. CASE Backup
  BY <1>25 DEF Backup, AckedBehind, AnchorOf, AnchorTypeOK, AnchorsBehind,
          AnchorsIn, CachedFollows, CatalogIsDomain, Landed,
          LateVerification, NextAnchor, SeenBehind, SessionTypeOK,
          StoredLanded
<1>26. CASE Restore
  BY <1>26 DEF Restore, NeverRestored, RequestTypeOK
<1>27. CASE UNCHANGED vars
  BY <1>27 DEF vars, AckedBehind, AnchorOf, AnchorTypeOK, AnchorsBehind,
          AnchorsIn, CachedFollows, CatalogIsDomain, Landed,
          LateVerification, NextAnchor, SeenBehind, SessionTypeOK,
          StoredLanded
<1> QED BY <1>1, <1>2, <1>3, <1>4, <1>5, <1>6, <1>7, <1>8, <1>9, <1>10,
           <1>11, <1>12, <1>13, <1>14, <1>15, <1>16, <1>17, <1>18, <1>19,
           <1>20, <1>21, <1>22, <1>23, <1>24, <1>25, <1>26, <1>27
     DEF Next, Opening, Preparing, Mutating, Rechecking

LEMMA RestoresGrow ==
  ASSUME RequestTypeOK, [Next]_vars, NeverRestored'
  PROVE  NeverRestored
<1> USE DEF RequestTypeOK, NeverRestored, budget
<1>1. ASSUME NEW s \in Sessions, Opening(s) PROVE NeverRestored
  BY <1>1 DEF Opening, OpenRead, OpenList, OpenCompare, AcceptRead, AcceptWrite,
              AcceptConfirm
<1>2. ASSUME NEW s \in Sessions, Preparing(s) PROVE NeverRestored
  BY <1>2 DEF Preparing, PrepareRename, PrepareCreate, PrepareUpdate,
              PrepareDelete, Prepared
<1>3. ASSUME NEW s \in Sessions, Mutating(s) PROVE NeverRestored
  BY <1>3 DEF Mutating, Observe, EnterTransition, LockTimeout, StoreAccept,
              StoreReject, StoreFail, PublishAnchor, PublishRefused, PublishFail
<1>4. ASSUME NEW s \in Sessions, Rechecking(s) \/ Close(s) \/ Crash(s)
      PROVE  NeverRestored
  BY <1>4 DEF Rechecking, RecheckRead, RecheckList, RecheckCompare, Close, Crash
<1>5. CASE Backup \/ Restore
  BY <1>5 DEF Backup, Restore
<1>6. CASE UNCHANGED vars
  BY <1>6 DEF vars
<1> QED BY <1>1, <1>2, <1>3, <1>4, <1>5, <1>6 DEF Next

-----------------------------------------------------------------------------
(* The theorems.                                                           *)

\* The inductive invariant.
Inductive == /\ Invariants
             /\ StampInv
             /\ FailureProvesNoWrite
             /\ NeverRestored => Lineage

LEMMA InductiveHolds == Spec => []Inductive
<1>1. Init => Inductive
  BY InitType, InitControl, InitBorn, InitLineage
  DEF Inductive, Invariants, TypeInv, TypeOK
<1>2. Inductive /\ [Next]_vars => Inductive'
  <2> SUFFICES ASSUME Inductive, [Next]_vars PROVE Inductive'
    OBVIOUS
  <2>1. Invariants'
    BY TypeStep, ControlStep, BornStep DEF Inductive, Invariants
  <2>2. StampInv' /\ FailureProvesNoWrite'
    BY ControlStep DEF Inductive, Invariants
  <2>3. NeverRestored' => Lineage'
    BY RestoresGrow, LineageStep DEF Inductive, Invariants, Lineage
  <2> QED BY <2>1, <2>2, <2>3 DEF Inductive
<1> QED BY <1>1, <1>2, PTL DEF Spec

\* Every session, request, anchor and store is always of its type.
THEOREM TypeCorrect == Spec => []TypeOK
<1>1. Inductive => TypeOK
  BY DEF Inductive, Invariants, TypeOK
<1> QED BY <1>1, InductiveHolds, PTL

\* A mutation whose failure is not reported as ambiguous was never written,
\* whatever failed, crashed, raced or was restored (isProvenRejectedMutation).
THEOREM FailureIsHonest == Spec => []FailureProvesNoWrite
<1>1. Inductive => FailureProvesNoWrite
  BY DEF Inductive
<1> QED BY <1>1, InductiveHolds, PTL

\* Without a restore, whatever any session of any device was told is done is
\* in the store or was superseded by a later revision.
THEOREM AcknowledgedSurvives == Spec => []AckedSurvives
<1>1. Inductive => AckedSurvives
  BY DEF Inductive, Lineage, AckedBehind, AckedSurvives
<1> QED BY <1>1, InductiveHolds, PTL

\* Without a restore no device's anchor is ahead of the store or beside it.
THEOREM AnchorsFollowStore == Spec => []AnchorBehindStore
<1>1. Inductive => AnchorBehindStore
  BY DEF Inductive, Lineage, AnchorsBehind, AnchorBehindStore
<1> QED BY <1>1, InductiveHolds, PTL

\* Without a restore the catalog names exactly the stored vaults.
THEOREM CatalogAgrees == Spec => []CatalogNamesVaults
<1>1. Inductive => CatalogNamesVaults
  BY DEF Inductive, Lineage, CatalogIsDomain, CatalogNamesVaults
<1> QED BY <1>1, InductiveHolds, PTL

\* Without a restore the verification of the next anchor, made when the store
\* has already accepted, cannot fail.
THEOREM AcceptedIsAnchored == Spec => []LateVerificationPasses
<1>1. Inductive => LateVerificationPasses
  BY DEF Inductive, Lineage, StoredLanded, Landed, LateVerificationPasses
<1> QED BY <1>1, InductiveHolds, PTL

-----------------------------------------------------------------------------
(* What anchors remember, whatever is restored.                            *)

\* What a lock holder has verified has the vaults of the anchor; a vault it has
\* created was never acknowledged on its device.
HolderInv ==
  \A s \in Sessions : pc[s] = "stored" =>
    /\ DOMAIN AnchorOf(s).heads = DOMAIN seen[s].heads
    /\ pending[s].kind = "create" =>
         \A a \in acked[DeviceOf[s]] : pending[s].vault \notin DOMAIN a.heads

\* Nothing is acknowledged while a state that was read is being accepted.
AcceptInv ==
  \A s \in Sessions :
    /\ mode[s] = "accept" => "accept" \in Modes
    /\ pc[s] = "accepting" => mode[s] = "accept"
    /\ pc[s] \in {"comparing", "accepting"} /\ mode[s] = "accept"
         => acked[DeviceOf[s]] = {}

Remembers == AnchorRemembers /\ HolderInv /\ AcceptInv

\* A state that the anchor verifies, or that was acknowledged before, is not
\* lost from the next anchor.
LEMMA NextRemembers ==
  ASSUME Invariants, Remembers, UpdatesAreListed,
         NEW s \in Sessions, pc[s] = "stored", LateVerification(s),
         NEW a \in acked[DeviceOf[s]]
  PROVE  Verifies(a, NextAnchor(s))
<1> DEFINE A == AnchorOf(s)
           n == NextAnchor(s)
<1>1. /\ IsAnchor(a, Vaults) /\ IsAnchor(A, Vaults) /\ IsAnchor(n, Vaults)
  <2>1. TypeInv
    BY DEF Invariants, TypeInv, TypeOK
  <2>2. IsAnchor(n, Vaults)
    BY <2>1, NextAnchorType
  <2> QED BY <2>2, DevicesAssumption DEF Invariants, AnchorTypeOK, AnchorsIn, AnchorOf
<1>2. Verifies(a, A) /\ Verifies(A, n)
  BY DevicesAssumption DEF Remembers, AnchorRemembers, AnchorOf, LateVerification
<1>3. \A v \in DOMAIN a.heads : v \notin DOMAIN A.heads => v \notin DOMAIN n.heads
  <2> SUFFICES ASSUME NEW v \in DOMAIN a.heads, v \notin DOMAIN A.heads,
                      v \in DOMAIN n.heads
               PROVE  FALSE
    OBVIOUS
  <2>1. v \notin DOMAIN seen[s].heads
    BY DEF Remembers, HolderInv
  <2>2. pending[s].kind \in {"create", "update"} /\ v = pending[s].vault
    BY <2>1, NextVaults DEF Invariants, TypeInv, TypeOK
  <2>3. pending[s].kind # "create"
    BY <2>2 DEF Remembers, HolderInv
  <2> QED BY <2>1, <2>2, <2>3 DEF UpdatesAreListed
<1>4. NotOlder(a, n) /\ (A.rev > a.rev => n.rev > a.rev)
  BY <1>1, <1>2 DEF Verifies, NotOlder, IsAnchor
<1>5. ASSUME NEW v \in DOMAIN a.heads
      PROVE  IF v \in DOMAIN n.heads THEN NotOlder(a.heads[v], n.heads[v])
                                     ELSE n.rev > a.rev
  <2>1. CASE v \in DOMAIN A.heads /\ v \in DOMAIN n.heads
    <3>1. /\ a.heads[v] \in VaultHead /\ A.heads[v] \in VaultHead
          /\ n.heads[v] \in VaultHead
      BY <1>1, <2>1 DEF IsAnchor, IsHeads
    <3>2. NotOlder(a.heads[v], A.heads[v]) /\ NotOlder(A.heads[v], n.heads[v])
      BY <1>2, <2>1 DEF Verifies
    <3> QED BY <2>1, <3>1, <3>2 DEF NotOlder, VaultHead
  <2>2. CASE v \in DOMAIN A.heads /\ v \notin DOMAIN n.heads
    <3>1. n.rev > A.rev /\ A.rev >= a.rev
      BY <1>2, <2>2 DEF Verifies, NotOlder
    <3> QED BY <1>1, <2>2, <3>1 DEF IsAnchor
  <2>3. CASE v \notin DOMAIN A.heads
    <3>1. A.rev > a.rev
      BY <1>2, <2>3 DEF Verifies
    <3> QED BY <1>3, <1>4, <2>3, <3>1
  <2> QED BY <2>1, <2>2, <2>3
<1> QED BY <1>4, <1>5 DEF Verifies

\* A step of a session that leaves the anchors and what was acknowledged alone
\* and does not store, read or accept a state.
LEMMA RemembersFrame ==
  ASSUME Remembers, SessionTypeOK, NEW s \in Sessions,
         anchor' = anchor, acked' = acked,
         \A t \in Sessions \ {s} : /\ pc'[t] = pc[t] /\ mode'[t] = mode[t]
                                   /\ seen'[t] = seen[t] /\ pending'[t] = pending[t],
         pc'[s] \notin {"stored", "accepting", "comparing"},
         mode'[s] = "accept" => "accept" \in Modes
  PROVE  Remembers'
<1>1. AnchorRemembers'
  BY DEF Remembers, AnchorRemembers
<1>2. HolderInv'
  BY DEF Remembers, HolderInv, AnchorOf
<1>3. AcceptInv'
  BY DEF Remembers, AcceptInv
<1> QED BY <1>1, <1>2, <1>3 DEF Remembers

\* No step disturbs it.
LEMMA RemembersStep ==
  ASSUME Invariants, Remembers, UpdatesAreListed, AcceptsAlone, [Next]_vars
  PROVE  Remembers'
<1> USE DEF Invariants, SessionTypeOK, AnchorTypeOK, AnchorsIn, control, budget
<1>0. \A s \in Sessions : mode[s] = "accept" => "accept" \in Modes
  BY DEF Remembers, AcceptInv
<1>1. ASSUME NEW s \in Sessions, OpenRead(s) PROVE Remembers'
  BY <1>0, <1>1, RemembersFrame DEF OpenRead, Goes
<1>2. ASSUME NEW s \in Sessions, OpenCompare(s) PROVE Remembers'
  BY <1>0, <1>2, RemembersFrame DEF OpenCompare, Goes
<1>3. ASSUME NEW s \in Sessions, AcceptConfirm(s) PROVE Remembers'
  BY <1>0, <1>3, RemembersFrame DEF AcceptConfirm, Goes
<1>4. ASSUME NEW s \in Sessions, PrepareRename(s) PROVE Remembers'
  BY <1>0, <1>4, RemembersFrame DEF PrepareRename, Prepared, Goes
<1>5. ASSUME NEW s \in Sessions, PrepareCreate(s) PROVE Remembers'
  BY <1>0, <1>5, RemembersFrame DEF PrepareCreate, Prepared, Goes
<1>6. ASSUME NEW s \in Sessions, PrepareUpdate(s) PROVE Remembers'
  BY <1>0, <1>6, RemembersFrame DEF PrepareUpdate, Prepared, Goes
<1>7. ASSUME NEW s \in Sessions, PrepareDelete(s) PROVE Remembers'
  BY <1>0, <1>7, RemembersFrame DEF PrepareDelete, Prepared, Goes
<1>8. ASSUME NEW s \in Sessions, Observe(s) PROVE Remembers'
  BY <1>0, <1>8, RemembersFrame DEF Observe, Goes
<1>9. ASSUME NEW s \in Sessions, EnterTransition(s) PROVE Remembers'
  BY <1>0, <1>9, RemembersFrame DEF EnterTransition, Goes
<1>10. ASSUME NEW s \in Sessions, LockTimeout(s) PROVE Remembers'
  BY <1>0, <1>10, RemembersFrame DEF LockTimeout, Goes
<1>11. ASSUME NEW s \in Sessions, StoreReject(s) PROVE Remembers'
  BY <1>0, <1>11, RemembersFrame DEF StoreReject, Goes
<1>12. ASSUME NEW s \in Sessions, StoreFail(s) PROVE Remembers'
  BY <1>0, <1>12, RemembersFrame DEF StoreFail, Goes
<1>13. ASSUME NEW s \in Sessions, PublishRefused(s) PROVE Remembers'
  BY <1>0, <1>13, RemembersFrame DEF PublishRefused, Goes
<1>14. ASSUME NEW s \in Sessions, RecheckRead(s) PROVE Remembers'
  BY <1>0, <1>14, RemembersFrame DEF RecheckRead, Goes
<1>15. ASSUME NEW s \in Sessions, RecheckList(s) PROVE Remembers'
  BY <1>0, <1>15, RemembersFrame DEF RecheckList, Goes
<1>16. ASSUME NEW s \in Sessions, RecheckCompare(s) PROVE Remembers'
  BY <1>0, <1>16, RemembersFrame DEF RecheckCompare, Goes
<1>17. ASSUME NEW s \in Sessions, Close(s) PROVE Remembers'
  BY <1>0, <1>17, RemembersFrame DEF Close, Goes
<1>18. ASSUME NEW s \in Sessions, Crash(s) PROVE Remembers'
  BY <1>0, <1>18, RemembersFrame DEF Crash, Goes
<1>19. ASSUME NEW s \in Sessions, OpenList(s) PROVE Remembers'
  <2> USE <1>19 DEF OpenList, Goes
  <2>1. \A d \in Devices : acked'[d] \subseteq acked[d]
    OBVIOUS
  <2>2. AnchorRemembers'
    BY <2>1 DEF Remembers, AnchorRemembers
  <2>3. \A t \in Sessions : pc'[t] = "stored" => t # s /\ pc[t] = "stored"
    OBVIOUS
  <2>4. HolderInv'
    BY <2>1, <2>3, DevicesAssumption DEF Remembers, HolderInv, AnchorOf
  <2>5. AcceptInv'
    <3>1. ASSUME NEW t \in Sessions, pc'[t] \in {"comparing", "accepting"},
                 mode'[t] = "accept"
          PROVE  acked'[DeviceOf[t]] = {}
      <4>1. CASE t = s
        BY <3>1, <4>1, DevicesAssumption
      <4>2. CASE t # s
        BY <2>1, <3>1, <4>2, DevicesAssumption DEF Remembers, AcceptInv
      <4> QED BY <4>1, <4>2
    <3> QED BY <3>1 DEF Remembers, AcceptInv
  <2> QED BY <2>2, <2>4, <2>5 DEF Remembers
<1>20. ASSUME NEW s \in Sessions, AcceptRead(s) PROVE Remembers'
  <2> USE <1>20 DEF AcceptRead, Goes
  <2>1. AnchorRemembers'
    BY DEF Remembers, AnchorRemembers
  <2>2. HolderInv'
    BY DEF Remembers, HolderInv, AnchorOf
  <2>3. AcceptInv'
    BY DEF Remembers, AcceptInv
  <2> QED BY <2>1, <2>2, <2>3 DEF Remembers
<1>21. ASSUME NEW s \in Sessions, AcceptWrite(s) PROVE Remembers'
  <2> USE <1>21 DEF AcceptWrite, Goes
  <2>1. acked[DeviceOf[s]] = {}
    BY DEF Remembers, AcceptInv
  <2>2. AnchorRemembers'
    BY <2>1 DEF Remembers, AnchorRemembers
  <2>3. ASSUME NEW t \in Sessions, pc'[t] = "stored"
        PROVE  pc[t] = "stored" /\ DeviceOf[t] # DeviceOf[s]
    <3>1. pc[t] = "stored"
      BY <2>3
    <3>2. LockOf(t) = t
      BY <3>1 DEF LockInv
    <3> QED BY <3>1, <3>2, NoSessionAssumption DEF LockOf
  <2>4. HolderInv'
    BY <2>3, DevicesAssumption DEF Remembers, HolderInv, AnchorOf
  <2>5. AcceptInv'
    BY DEF Remembers, AcceptInv
  <2> QED BY <2>2, <2>4, <2>5 DEF Remembers
<1>22. ASSUME NEW s \in Sessions, StoreAccept(s) PROVE Remembers'
  <2> USE <1>22 DEF StoreAccept, Goes
  <2>1. AnchorRemembers'
    BY DEF Remembers, AnchorRemembers
  <2>2. DOMAIN AnchorOf(s).heads = DOMAIN seen[s].heads
    BY DEF BeforeInv, VerifiesExactly
  <2>3. pending[s].kind = "create" =>
          \A a \in acked[DeviceOf[s]] : pending[s].vault \notin DOMAIN a.heads
    BY DevicesAssumption DEF FreshInv, Creating, Working
  <2>4. HolderInv'
    BY <2>2, <2>3 DEF Remembers, HolderInv, AnchorOf
  <2>5. AcceptInv'
    BY DEF Remembers, AcceptInv
  <2> QED BY <2>1, <2>4, <2>5 DEF Remembers
<1>23. ASSUME NEW s \in Sessions, PublishAnchor(s) PROVE Remembers'
  <2> USE <1>23 DEF PublishAnchor, Goes
  <2> DEFINE d == DeviceOf[s]
             n == NextAnchor(s)
  <2>1. pc[s] = "stored" /\ d \in Devices
    BY DevicesAssumption
  <2>2. Verifies(n, n)
    BY NextAnchorType, VerifiesReflexive DEF TypeInv, TypeOK
  <2>3. anchor'[d] = n /\ acked'[d] = acked[d] \cup {n}
    BY <2>1
  <2>4. \A e \in Devices \ {d} : anchor'[e] = anchor[e] /\ acked'[e] = acked[e]
    OBVIOUS
  <2>5. AnchorRemembers'
    BY <2>1, <2>2, <2>3, <2>4, NextRemembers DEF Remembers, AnchorRemembers
  <2>6. \A t \in Sessions : pc'[t] = "stored" => pc[t] = "stored" /\ DeviceOf[t] # d
    BY <2>1 DEF LockInv, LockOf
  <2>7. HolderInv'
    BY <2>4, <2>6, DevicesAssumption DEF Remembers, HolderInv, AnchorOf
  <2>8. ASSUME NEW t \in Sessions, pc'[t] \in {"comparing", "accepting"},
               mode'[t] = "accept"
        PROVE  acked'[DeviceOf[t]] = {}
    <3>1. t # s /\ pc[t] \in {"comparing", "accepting"} /\ mode[t] = "accept"
      BY <2>8
    <3>2. DeviceOf[t] # d
      BY <3>1, <1>0 DEF AcceptsAlone
    <3> QED BY <2>4, <3>1, <3>2, DevicesAssumption DEF Remembers, AcceptInv
  <2>9. AcceptInv'
    BY <2>8 DEF Remembers, AcceptInv
  <2> QED BY <2>5, <2>7, <2>9 DEF Remembers
<1>24. ASSUME NEW s \in Sessions, PublishFail(s) PROVE Remembers'
  <2> USE <1>24 DEF PublishFail, Goes
  <2>1. CASE UNCHANGED anchor
    BY <1>0, <2>1, RemembersFrame
  <2>2. CASE anchor' = [anchor EXCEPT ![DeviceOf[s]] = NextAnchor(s)]
    <3>1. pc[s] = "stored" /\ DeviceOf[s] \in Devices
      BY DevicesAssumption
    <3>2. AnchorRemembers'
      BY <2>2, <3>1, NextRemembers DEF Remembers, AnchorRemembers
    <3>3. \A t \in Sessions : pc'[t] = "stored" => pc[t] = "stored" /\ DeviceOf[t] # DeviceOf[s]
      BY <3>1 DEF LockInv, LockOf
    <3>4. HolderInv'
      BY <2>2, <3>3, DevicesAssumption DEF Remembers, HolderInv, AnchorOf
    <3>5. AcceptInv'
      BY DEF Remembers, AcceptInv
    <3> QED BY <3>2, <3>4, <3>5 DEF Remembers
  <2> QED BY <2>1, <2>2
<1>25. CASE Backup \/ Restore \/ UNCHANGED vars
  <2> USE <1>25 DEF Backup, Restore, vars
  <2>1. UNCHANGED <<anchor, acked, pc, mode, seen, pending>>
    OBVIOUS
  <2> QED BY <2>1 DEF Remembers, AnchorRemembers, HolderInv, AcceptInv, AnchorOf
<1> QED BY <1>1, <1>2, <1>3, <1>4, <1>5, <1>6, <1>7, <1>8, <1>9, <1>10, <1>11, <1>12, <1>13, <1>14, <1>15, <1>16, <1>17, <1>18, <1>19, <1>20, <1>21, <1>22, <1>23, <1>24, <1>25
     DEF Next, Opening, Preparing, Mutating, Rechecking

LEMMA InitRemembers == Init => Remembers
BY DevicesAssumption DEF Init, Remembers, AnchorRemembers, HolderInv, AcceptInv

\* Whatever is restored, the anchor of a device never forgets what was
\* acknowledged on it (transitionDatabaseRevisionAnchor).
THEOREM AnchorsRemember ==
  ASSUME AcceptsAlone
  PROVE  Spec /\ []UpdatesAreListed => []AnchorRemembers
<1>1. Inductive /\ UpdatesAreListed /\ Remembers /\ [Next]_vars => Remembers'
  BY RemembersStep DEF Inductive
<1>2. Remembers => AnchorRemembers
  BY DEF Remembers
<1> QED BY <1>1, <1>2, InitRemembers, InductiveHolds, PTL DEF Spec

\* An open or a recheck compares the anchor for equality: what it accepts is
\* therefore never older than what was acknowledged (reconcileAnchor).
THEOREM RollbacksAreRefused ==
  ASSUME AcceptsAlone
  PROVE  Spec /\ []UpdatesAreListed => RollbackRefused
<1> DEFINE Compared(s) ==
      pc'[s] = "idle" /\ (pc[s] = "rechecking" \/ (pc[s] = "comparing" /\ mode[s] = "plain"))
        => \A a \in acked[DeviceOf[s]] : Verifies(a, seen[s])
<1>1. Inductive /\ AnchorRemembers /\ [Next]_vars => [\A s \in Sessions : Compared(s)]_vars
  <2> SUFFICES ASSUME Inductive, AnchorRemembers, Next, NEW s \in Sessions,
                      pc'[s] = "idle",
                      pc[s] = "rechecking" \/ (pc[s] = "comparing" /\ mode[s] = "plain")
               PROVE  AnchorOf(s) = seen[s]
    BY DevicesAssumption DEF AnchorRemembers, AnchorOf
  <2> USE DEF Inductive, Invariants, SessionTypeOK, Goes, control
  <2>1. ASSUME NEW t \in Sessions, Opening(t) PROVE AnchorOf(s) = seen[s]
    BY <2>1 DEF Opening, OpenRead, OpenList, OpenCompare, AcceptRead, AcceptWrite,
                AcceptConfirm
  <2>2. ASSUME NEW t \in Sessions, Preparing(t) PROVE AnchorOf(s) = seen[s]
    BY <2>2 DEF Preparing, PrepareRename, PrepareCreate, PrepareUpdate,
                PrepareDelete, Prepared
  <2>3. ASSUME NEW t \in Sessions, Mutating(t) PROVE AnchorOf(s) = seen[s]
    BY <2>3 DEF Mutating, Observe, EnterTransition, LockTimeout, StoreAccept,
                StoreReject, StoreFail, PublishAnchor, PublishRefused, PublishFail
  <2>4. ASSUME NEW t \in Sessions, Rechecking(t) \/ Close(t) \/ Crash(t)
        PROVE  AnchorOf(s) = seen[s]
    BY <2>4 DEF Rechecking, RecheckRead, RecheckList, RecheckCompare, Close, Crash
  <2>5. CASE Backup \/ Restore
    BY <2>5 DEF Backup, Restore
  <2> QED BY <2>1, <2>2, <2>3, <2>4, <2>5 DEF Next
<1>2. Spec /\ []UpdatesAreListed => []AnchorRemembers
  BY AnchorsRemember
<1> QED BY <1>1, <1>2, InductiveHolds, PTL DEF Spec, RollbackRefused

-----------------------------------------------------------------------------
(* Without a restore the second hypothesis holds.                          *)

\* A vault that was not listed when the state to update was observed is not in
\* the store either: only a create of another vault can add one.
ListedInv ==
  \A s \in Sessions : pending[s].kind = "update" =>
    /\ pc[s] = "stored" => pending[s].vault \in DOMAIN seen[s].heads
    /\ pc[s] \in {"observed", "locked"} /\ pending[s].vault \in DOMAIN store.heads =>
         pending[s].vault \in DOMAIN seen[s].heads

\* A step of a session that leaves the store alone and ends outside of a
\* transition.
LEMMA ListedFrame ==
  ASSUME ListedInv, NEW s \in Sessions, store' = store,
         \A t \in Sessions \ {s} : /\ pc'[t] = pc[t] /\ seen'[t] = seen[t]
                                   /\ pending'[t] = pending[t],
         pc'[s] \notin {"observed", "locked", "stored"}
  PROVE  ListedInv'
BY DEF ListedInv

\* A request that the store applies adds no vault that another request updates,
\* and only a listed vault is updated.
LEMMA ListedApplied ==
  ASSUME Invariants, ListedInv, NEW s \in Sessions, pc[s] = "locked", Accepts(s),
         store' = StoreApplied(store, pending[s]),
         UNCHANGED <<seen, pending>>,
         \A t \in Sessions \ {s} : pc'[t] = pc[t],
         pc'[s] \in {"stored", "closed"}
  PROVE  ListedInv'
<1>1. pending[s].kind = "update" => pending[s].vault \in DOMAIN store.heads
  BY DEF Accepts, StoreAccepts, VaultCurrent
<1>2. ASSUME NEW t \in Sessions \ {s}, pending[t].kind = "update",
             pc[t] \in {"observed", "locked"},
             pending[t].vault \in DOMAIN store'.heads
      PROVE  pending[t].vault \in DOMAIN store.heads
  <2>1. pending[s] \in Mutations
    BY DEF Invariants, RequestTypeOK
  <2>2. CASE pending[s].kind = "create"
    <3>1. pending[t].vault # pending[s].vault
      BY <1>2, <2>2 DEF Invariants, FreshInv, Creating, Working
    <3> QED BY <1>2, <2>1, <2>2, <3>1, AppliedVaults
  <2>3. CASE pending[s].kind # "create"
    BY <1>1, <1>2, <2>1, <2>3, AppliedVaults
  <2> QED BY <2>2, <2>3
<1>3. ASSUME NEW t \in Sessions \ {s}, pending[t].kind = "update"
      PROVE  /\ pc'[t] = "stored" => pending[t].vault \in DOMAIN seen[t].heads
             /\ pc'[t] \in {"observed", "locked"} /\ pending[t].vault \in DOMAIN store'.heads =>
                  pending[t].vault \in DOMAIN seen[t].heads
  BY <1>2, <1>3 DEF ListedInv
<1>4. pending[s].kind = "update" => pending[s].vault \in DOMAIN seen[s].heads
  BY <1>1 DEF ListedInv
<1> QED BY <1>3, <1>4 DEF ListedInv

\* Only a restore disturbs it.
LEMMA ListedStep ==
  ASSUME Invariants, ListedInv, [Next]_vars, NeverRestored'
  PROVE  ListedInv'
<1> USE DEF Invariants, SessionTypeOK, RequestTypeOK, AnchorTypeOK, AnchorsIn, control, budget
<1>1. ASSUME NEW s \in Sessions, OpenRead(s) PROVE ListedInv'
  BY <1>1, ListedFrame DEF OpenRead, Goes
<1>2. ASSUME NEW s \in Sessions, OpenList(s) PROVE ListedInv'
  BY <1>2, ListedFrame DEF OpenList, Goes
<1>3. ASSUME NEW s \in Sessions, OpenCompare(s) PROVE ListedInv'
  BY <1>3, ListedFrame DEF OpenCompare, Goes
<1>4. ASSUME NEW s \in Sessions, AcceptRead(s) PROVE ListedInv'
  BY <1>4, ListedFrame DEF AcceptRead, Goes
<1>5. ASSUME NEW s \in Sessions, AcceptWrite(s) PROVE ListedInv'
  BY <1>5, ListedFrame DEF AcceptWrite, Goes
<1>6. ASSUME NEW s \in Sessions, AcceptConfirm(s) PROVE ListedInv'
  BY <1>6, ListedFrame DEF AcceptConfirm, Goes
<1>7. ASSUME NEW s \in Sessions, Close(s) PROVE ListedInv'
  BY <1>7, ListedFrame DEF Close, Goes
<1>8. ASSUME NEW s \in Sessions, PrepareRename(s) PROVE ListedInv'
  BY <1>8, ListedFrame DEF PrepareRename, Prepared, Goes
<1>9. ASSUME NEW s \in Sessions, PrepareCreate(s) PROVE ListedInv'
  BY <1>9, ListedFrame DEF PrepareCreate, Prepared, Goes
<1>10. ASSUME NEW s \in Sessions, PrepareUpdate(s) PROVE ListedInv'
  BY <1>10, ListedFrame DEF PrepareUpdate, Prepared, Goes
<1>11. ASSUME NEW s \in Sessions, PrepareDelete(s) PROVE ListedInv'
  BY <1>11, ListedFrame DEF PrepareDelete, Prepared, Goes
<1>12. ASSUME NEW s \in Sessions, LockTimeout(s) PROVE ListedInv'
  BY <1>12, ListedFrame DEF LockTimeout, Goes
<1>13. ASSUME NEW s \in Sessions, StoreReject(s) PROVE ListedInv'
  BY <1>13, ListedFrame DEF StoreReject, Goes
<1>14. ASSUME NEW s \in Sessions, PublishAnchor(s) PROVE ListedInv'
  BY <1>14, ListedFrame DEF PublishAnchor, Goes
<1>15. ASSUME NEW s \in Sessions, PublishRefused(s) PROVE ListedInv'
  BY <1>15, ListedFrame DEF PublishRefused, Goes
<1>16. ASSUME NEW s \in Sessions, PublishFail(s) PROVE ListedInv'
  BY <1>16, ListedFrame DEF PublishFail, Goes
<1>17. ASSUME NEW s \in Sessions, RecheckRead(s) PROVE ListedInv'
  BY <1>17, ListedFrame DEF RecheckRead, Goes
<1>18. ASSUME NEW s \in Sessions, RecheckList(s) PROVE ListedInv'
  BY <1>18, ListedFrame DEF RecheckList, Goes
<1>19. ASSUME NEW s \in Sessions, RecheckCompare(s) PROVE ListedInv'
  BY <1>19, ListedFrame DEF RecheckCompare, Goes
<1>20. ASSUME NEW s \in Sessions, Crash(s) PROVE ListedInv'
  BY <1>20, ListedFrame DEF Crash, Goes
<1>21. ASSUME NEW s \in Sessions, Observe(s) PROVE ListedInv'
  <2> USE <1>21 DEF Observe, Goes
  <2>1. DOMAIN seen'[s].heads = DOMAIN store.heads
    BY DEF AnchorFromVaults
  <2> QED BY <2>1 DEF ListedInv
<1>22. ASSUME NEW s \in Sessions, EnterTransition(s) PROVE ListedInv'
  BY <1>22 DEF EnterTransition, Goes, ListedInv
<1>23. ASSUME NEW s \in Sessions, StoreAccept(s) PROVE ListedInv'
  BY <1>23, ListedApplied DEF StoreAccept, Goes, Publishes
<1>24. ASSUME NEW s \in Sessions, StoreFail(s) PROVE ListedInv'
  <2>1. CASE Accepts(s) /\ Publishes(s)
    BY <1>24, <2>1, ListedApplied DEF StoreFail, Goes, Publishes
  <2>2. CASE UNCHANGED <<store, accepted>>
    BY <1>24, <2>2, ListedFrame DEF StoreFail, Goes
  <2> QED BY <1>24, <2>1, <2>2 DEF StoreFail
<1>25. CASE Backup \/ UNCHANGED vars
  <2>1. UNCHANGED <<store, pc, seen, pending>>
    BY <1>25 DEF Backup, vars
  <2> QED BY <2>1 DEF ListedInv
<1>26. CASE Restore
  BY <1>26 DEF Restore, NeverRestored
<1> QED BY <1>1, <1>2, <1>3, <1>4, <1>5, <1>6, <1>7, <1>8, <1>9, <1>10, <1>11, <1>12, <1>13, <1>14, <1>15, <1>16, <1>17, <1>18, <1>19, <1>20, <1>21, <1>22, <1>23, <1>24, <1>25, <1>26
     DEF Next, Opening, Preparing, Mutating, Rechecking

\* Without a restore only listed vaults are updated (updateVault).
THEOREM ListedWithoutRestore == Spec => [](NeverRestored => UpdatesAreListed)
<1> DEFINE I == NeverRestored => ListedInv
<1>1. Init => I
  BY DEF Init, ListedInv
<1>2. Inductive /\ I /\ [Next]_vars => I'
  BY RestoresGrow, ListedStep DEF Inductive, Invariants
<1>3. I => (NeverRestored => UpdatesAreListed)
  BY DEF ListedInv, UpdatesAreListed
<1> QED BY <1>1, <1>2, <1>3, InductiveHolds, PTL DEF Spec

-----------------------------------------------------------------------------
(* One key file, and nothing fails.                                        *)

\* What AnchorMatchesStore assumes.
Steady == /\ \A s, t \in Sessions : DeviceOf[s] = DeviceOf[t]
          /\ Modes = {"plain"}
          /\ faults + crashes + restores = 0

\* The anchor is the state of the store, except between the answer of the store
\* and the replacement of the anchor, when the next anchor is.
SteadyInv ==
  \A s \in Sessions :
    /\ mode[s] = "plain" /\ pc[s] \notin {"accepting", "confirming"}
    /\ LockOf(s) = NoSession \/ pc[s] = "locked" => AnchorOf(s) = StoreAnchor(store)
    /\ pc[s] = "stored" => NextAnchor(s) = StoreAnchor(store)

\* An anchor computed from the store's state is that of the mutated store.
LEMMA NextIsStore ==
  ASSUME NEW st, NEW m, m.kind \in Kinds
  PROVE  AnchorAfter(StoreAnchor(st), m) = StoreAnchor(StoreApplied(st, m))
<1> USE DEF AnchorAfter, StoreAnchor, StoreApplied, HeadsAfter, AnchorFromVaults,
            AnchorWithDatabase, AnchorWithCreatedVault, AnchorWithUpdatedVault,
            AnchorWithoutVault
<1>1. CASE m.kind = "rename"
  BY <1>1
<1>2. CASE m.kind = "create"
  BY <1>2
<1>3. CASE m.kind = "update"
  BY <1>3
<1>4. CASE m.kind = "delete"
  BY <1>4
<1> QED BY <1>1, <1>2, <1>3, <1>4 DEF Kinds

\* A step of a session that leaves store, anchors and locks alone and ends
\* outside of a transition.
LEMMA SteadyFrame ==
  ASSUME SteadyInv, NEW s \in Sessions,
         UNCHANGED <<store, anchor, lock>>, mode'[s] = "plain",
         \A t \in Sessions \ {s} : /\ pc'[t] = pc[t] /\ mode'[t] = mode[t]
                                   /\ seen'[t] = seen[t] /\ pending'[t] = pending[t],
         pc'[s] \notin {"accepting", "confirming", "locked", "stored"}
  PROVE  SteadyInv'
BY DEF SteadyInv, LockOf, AnchorOf, NextAnchor

\* What has gone wrong is never taken back.
LEMMA BudgetsGrow ==
  ASSUME RequestTypeOK, [Next]_vars, Steady'
  PROVE  Steady
<1> USE DEF RequestTypeOK, Steady, budget
<1>1. ASSUME NEW s \in Sessions, Opening(s) PROVE Steady
  BY <1>1 DEF Opening, OpenRead, OpenList, OpenCompare, AcceptRead, AcceptWrite,
              AcceptConfirm
<1>2. ASSUME NEW s \in Sessions, Preparing(s) PROVE Steady
  BY <1>2 DEF Preparing, PrepareRename, PrepareCreate, PrepareUpdate,
              PrepareDelete, Prepared
<1>3. ASSUME NEW s \in Sessions, Mutating(s) PROVE Steady
  <2>1. \/ UNCHANGED budget
        \/ faults' = faults + 1 /\ UNCHANGED <<crashes, restores>>
    BY <1>3 DEF Mutating, Observe, EnterTransition, LockTimeout, StoreAccept,
                StoreReject, StoreFail, PublishAnchor, PublishRefused, PublishFail
  <2> QED BY <2>1
<1>4. ASSUME NEW s \in Sessions, Rechecking(s) \/ Close(s) \/ Crash(s)
      PROVE  Steady
  BY <1>4 DEF Rechecking, RecheckRead, RecheckList, RecheckCompare, Close, Crash
<1>5. CASE Backup \/ Restore
  BY <1>5 DEF Backup, Restore
<1>6. CASE UNCHANGED vars
  BY <1>6 DEF vars
<1> QED BY <1>1, <1>2, <1>3, <1>4, <1>5, <1>6 DEF Next

\* Without faults every step keeps the anchor at the store.
LEMMA SteadyStep ==
  ASSUME Invariants, Lineage, Steady, SteadyInv, [Next]_vars, Steady'
  PROVE  SteadyInv'
<1> USE DEF Invariants, SessionTypeOK, AnchorTypeOK, AnchorsIn, control, budget
<1>0. /\ faults \in Nat /\ crashes \in Nat /\ restores \in Nat
      /\ faults = 0 /\ crashes = 0 /\ restores = 0
      /\ faults' + crashes' + restores' = 0
  BY DEF RequestTypeOK, Steady
<1>a. \A s, t \in Sessions : DeviceOf[s] = DeviceOf[t]
  BY DEF Steady
<1>b. \A s \in Sessions : mode[s] = "plain" /\ pc[s] \notin {"accepting", "confirming"}
  BY DEF SteadyInv
<1>1. ASSUME NEW s \in Sessions, OpenRead(s) PROVE SteadyInv'
  BY <1>b, <1>1, SteadyFrame DEF OpenRead, Goes, Steady
<1>2. ASSUME NEW s \in Sessions, OpenList(s) PROVE SteadyInv'
  BY <1>b, <1>2, SteadyFrame DEF OpenList, Goes
<1>3. ASSUME NEW s \in Sessions, OpenCompare(s) PROVE SteadyInv'
  BY <1>b, <1>3, SteadyFrame DEF OpenCompare, Goes
<1>4. ASSUME NEW s \in Sessions, Close(s) PROVE SteadyInv'
  BY <1>b, <1>4, SteadyFrame DEF Close, Goes
<1>5. ASSUME NEW s \in Sessions, PrepareRename(s) PROVE SteadyInv'
  BY <1>b, <1>5, SteadyFrame DEF PrepareRename, Prepared, Goes
<1>6. ASSUME NEW s \in Sessions, PrepareCreate(s) PROVE SteadyInv'
  BY <1>b, <1>6, SteadyFrame DEF PrepareCreate, Prepared, Goes
<1>7. ASSUME NEW s \in Sessions, PrepareUpdate(s) PROVE SteadyInv'
  BY <1>b, <1>7, SteadyFrame DEF PrepareUpdate, Prepared, Goes
<1>8. ASSUME NEW s \in Sessions, PrepareDelete(s) PROVE SteadyInv'
  BY <1>b, <1>8, SteadyFrame DEF PrepareDelete, Prepared, Goes
<1>9. ASSUME NEW s \in Sessions, Observe(s) PROVE SteadyInv'
  BY <1>b, <1>9, SteadyFrame DEF Observe, Goes
<1>10. ASSUME NEW s \in Sessions, LockTimeout(s) PROVE SteadyInv'
  BY <1>b, <1>10, SteadyFrame DEF LockTimeout, Goes
<1>11. ASSUME NEW s \in Sessions, RecheckRead(s) PROVE SteadyInv'
  BY <1>b, <1>11, SteadyFrame DEF RecheckRead, Goes
<1>12. ASSUME NEW s \in Sessions, RecheckList(s) PROVE SteadyInv'
  BY <1>b, <1>12, SteadyFrame DEF RecheckList, Goes
<1>13. ASSUME NEW s \in Sessions, RecheckCompare(s) PROVE SteadyInv'
  BY <1>b, <1>13, SteadyFrame DEF RecheckCompare, Goes
<1>14. ASSUME NEW s \in Sessions, AcceptRead(s) \/ AcceptWrite(s) \/ AcceptConfirm(s)
      PROVE  FALSE
  BY <1>b, <1>14 DEF AcceptRead, AcceptWrite, AcceptConfirm, Goes
<1>15. ASSUME NEW s \in Sessions, StoreFail(s) \/ PublishFail(s) \/ Crash(s)
      PROVE  FALSE
  BY <1>0, <1>15 DEF StoreFail, PublishFail, Crash
<1>16. ASSUME NEW s \in Sessions, PublishRefused(s)
      PROVE  FALSE
  BY <1>16 DEF PublishRefused, Goes, Lineage, StoredLanded, Landed
<1>17. ASSUME NEW s \in Sessions, EnterTransition(s) PROVE SteadyInv'
  <2>1. CASE VerifiesExactly(AnchorOf(s), seen[s])
    <3>1. AnchorOf(s) = StoreAnchor(store)
      BY <1>17 DEF EnterTransition, SteadyInv
    <3>2. UNCHANGED <<store, anchor, mode, seen, pending>>
      BY <1>17 DEF EnterTransition
    <3>3. \A t \in Sessions : /\ AnchorOf(t)' = AnchorOf(t)
                              /\ NextAnchor(t)' = NextAnchor(t)
                              /\ StoreAnchor(store)' = StoreAnchor(store)
      BY <3>2 DEF AnchorOf, NextAnchor, StoreAnchor
    <3>4. \A t \in Sessions : LockOf(t)' = NoSession => LockOf(t) = NoSession
      <4>1. LockOf(s) = NoSession
        BY <1>17 DEF EnterTransition
      <4> QED BY <1>a, <4>1 DEF LockOf
    <3>5. pc' = [pc EXCEPT ![s] = "locked"]
      BY <1>17, <2>1 DEF EnterTransition, Goes
    <3>6. \A t \in Sessions : pc'[t] = pc[t] \/ (t = s /\ pc'[t] = "locked")
      BY <3>5
    <3> QED BY <3>1, <3>2, <3>3, <3>4, <3>6 DEF SteadyInv
  <2>2. CASE ~VerifiesExactly(AnchorOf(s), seen[s])
    BY <1>b, <1>17, <2>2, SteadyFrame DEF EnterTransition, Goes
  <2> QED BY <2>1, <2>2
<1>18. ASSUME NEW s \in Sessions, StoreAccept(s) PROVE SteadyInv'
  <2> USE <1>18 DEF StoreAccept, Goes, Publishes
  <2>1. AnchorOf(s) = StoreAnchor(store) /\ VerifiesExactly(AnchorOf(s), seen[s])
    BY DEF SteadyInv, BeforeInv
  <2>2. seen[s] = StoreAnchor(store)
    <3>1. Verifies(seen[s], StoreAnchor(store)) /\ Verifies(StoreAnchor(store), seen[s])
      BY <2>1 DEF Lineage, SeenBehind, VerifiesExactly
    <3>2. IsAnchor(seen[s], Vaults) /\ IsAnchor(StoreAnchor(store), Vaults)
      BY <2>1, DevicesAssumption DEF AnchorOf
    <3> QED BY <3>1, <3>2, ForksAreDetected
  <2>3. pending[s].kind \in Kinds
    BY DEF RequestTypeOK, Mutations
  <2>4. AnchorAfter(seen[s], pending[s]) = StoreAnchor(StoreApplied(store, pending[s]))
    BY <2>2, <2>3, NextIsStore
  <2>5. store' = StoreApplied(store, pending[s]) /\ NextAnchor(s)' = AnchorAfter(seen[s], pending[s])
    BY DEF NextAnchor
  <2>6. StoreAnchor(store)' = StoreAnchor(StoreApplied(store, pending[s]))
    BY <2>5 DEF StoreAnchor
  <2>7. \A t \in Sessions : /\ LockOf(t)' = s
                            /\ pc'[t] \in {"locked", "stored"} => t = s
    <3>1. LockOf(s) = s
      BY DEF LockInv
    <3>2. \A t \in Sessions : LockOf(t) = s
      BY <1>a, <3>1 DEF LockOf
    <3>3. \A t \in Sessions : pc[t] \in {"locked", "stored"} => t = s
      BY <3>2 DEF LockInv
    <3> QED BY <3>2, <3>3 DEF LockOf
  <2>8. \A t \in Sessions : mode'[t] = "plain" /\ pc'[t] \notin {"accepting", "confirming"}
    BY <1>b
  <2> QED BY <2>4, <2>5, <2>6, <2>7, <2>8, NoSessionAssumption DEF SteadyInv
<1>19. ASSUME NEW s \in Sessions, StoreReject(s) PROVE SteadyInv'
  <2> USE <1>19 DEF StoreReject, Goes, Unlock
  <2>1. AnchorOf(s) = StoreAnchor(store)
    BY DEF SteadyInv
  <2>2. \A t \in Sessions : AnchorOf(t)' = StoreAnchor(store)'
    BY <1>a, <2>1 DEF AnchorOf, StoreAnchor
  <2>3. \A t \in Sessions : pc'[t] = "stored" => pc[t] = "stored" /\ NextAnchor(t)' = NextAnchor(t)
    BY DEF NextAnchor
  <2>4. \A t \in Sessions : mode'[t] = "plain" /\ pc'[t] \notin {"accepting", "confirming"}
    BY <1>b
  <2>5. StoreAnchor(store)' = StoreAnchor(store)
    BY DEF StoreAnchor
  <2> QED BY <2>2, <2>3, <2>4, <2>5 DEF SteadyInv
<1>20. ASSUME NEW s \in Sessions, PublishAnchor(s) PROVE SteadyInv'
  <2> USE <1>20 DEF PublishAnchor, Goes, Unlock
  <2>1. NextAnchor(s) = StoreAnchor(store)
    BY DEF SteadyInv
  <2>2. anchor'[DeviceOf[s]] = StoreAnchor(store)
    BY <2>1, DevicesAssumption
  <2>3. \A t \in Sessions : AnchorOf(t)' = StoreAnchor(store)'
    BY <1>a, <2>2 DEF AnchorOf, StoreAnchor
  <2>4. \A t \in Sessions : pc'[t] = "stored" => pc[t] = "stored" /\ NextAnchor(t)' = NextAnchor(t)
    BY DEF NextAnchor
  <2>5. \A t \in Sessions : mode'[t] = "plain" /\ pc'[t] \notin {"accepting", "confirming"}
    BY <1>b
  <2>6. StoreAnchor(store)' = StoreAnchor(store)
    BY DEF StoreAnchor
  <2> QED BY <2>3, <2>4, <2>5, <2>6 DEF SteadyInv
<1>21. CASE Backup \/ UNCHANGED vars
  <2>1. UNCHANGED <<store, anchor, lock, pc, mode, seen, pending>>
    BY <1>21 DEF Backup, vars
  <2> QED BY <2>1 DEF SteadyInv, LockOf, AnchorOf, NextAnchor
<1>22. CASE Restore
  BY <1>0, <1>22 DEF Restore
<1> QED BY <1>1, <1>2, <1>3, <1>4, <1>5, <1>6, <1>7, <1>8, <1>9, <1>10, <1>11, <1>12, <1>13, <1>14, <1>15, <1>16, <1>17, <1>18, <1>19, <1>20, <1>21, <1>22
     DEF Next, Opening, Preparing, Mutating, Rechecking

\* With one key file, no fault, crash, restore or acceptance, the anchor is the
\* store's state whenever no transition runs, so the next open passes
\* (reconcileAnchor, transitionDatabaseRevisionAnchor).
THEOREM AnchorIsStore == Spec => []AnchorMatchesStore
<1> DEFINE I == Steady => SteadyInv
<1>1. Init => I
  BY DevicesAssumption DEF Init, SteadyInv, LockOf, AnchorOf
<1>2. Inductive /\ I /\ [Next]_vars => I'
  <2> SUFFICES ASSUME Inductive, I, [Next]_vars, Steady' PROVE SteadyInv'
    OBVIOUS
  <2>1. Steady
    BY BudgetsGrow DEF Inductive, Invariants
  <2>2. Lineage
    BY <2>1 DEF Inductive, Invariants, Steady, NeverRestored, RequestTypeOK
  <2> QED BY <2>1, <2>2, SteadyStep DEF Inductive
<1>3. I => AnchorMatchesStore
  BY DEF Steady, SteadyInv, AnchorMatchesStore
<1> QED BY <1>1, <1>2, <1>3, InductiveHolds, PTL DEF Spec
=============================================================================
