------------------------- MODULE GroupManagersProofs -------------------------
(***************************************************************************)
(* Proofs about the managers of GroupManagers composed with the SKDCs, for *)
(* any number of clusters, UAVs and versions.                              *)
(***************************************************************************)
EXTENDS GroupManagers, SkdcAppProofs, FiniteSetTheorems

\* The weight of a slave key: one for a member and, in the groups that were filled with
\* UAV numbers, the one it has from the parameters.
WeightOf(c, i) == (IF i \in group[c] THEN 1 ELSE 0) + (IF c = 0 THEN 0 ELSE 1)

TokenInv ==
    \A c \in Cluster, i \in Slot :
        /\ groupVersion[c] >= 1
        /\ exponent[c][i] = WeightOf(c, i)
        /\ groupVersion[c] = 1 => i \in modulus[c] /\ (i \in group[c] <=> c = 0)
        /\ groupVersion[c] > 1 => (i \in modulus[c] <=> i \in group[c])

\* The inductive invariant: the SKDCs' keys are those of the TekManager, and the tokens are
\* made of the groups.
ManagersInv == ManagersTypeOK /\ SkdcHasManagerTek /\ TokenInv

-----------------------------------------------------------------------------
(* Indices are finitely many, so a group has a size and a handover a slot. *)

\* Slots and UAV numbers are finitely many, so that every group is finite.
LEMMA IndexFinite == IsFiniteSet(Index)
  <1> DEFINE f == [p \in Cluster \X Slot |-> UavId(p[1], p[2])]
  <1>1. IsFiniteSet(Cluster) /\ IsFiniteSet(Slot)
    BY NumClustersAssumption, UavsPerClusterAssumption, FS_Interval DEF Cluster, Slot
  <1>2. IsFiniteSet(Cluster \X Slot)
    BY <1>1, FS_Product
  <1>3. f \in Surjection(Cluster \X Slot, Uav)
    <2>1. \A u \in Uav : \E p \in Cluster \X Slot : f[p] = u
      <3> SUFFICES ASSUME NEW c \in Cluster, NEW i \in Slot
                   PROVE  \E p \in Cluster \X Slot : f[p] = UavId(c, i)
        BY DEF Uav
      <3>1. <<c, i>> \in Cluster \X Slot /\ f[<<c, i>>] = UavId(c, i)
        OBVIOUS
      <3> QED BY <3>1
    <2>2. f \in [Cluster \X Slot -> Uav]
      BY DEF Uav
    <2> QED BY <2>1, <2>2 DEF Surjection
  <1>4. IsFiniteSet(Uav)
    BY <1>2, <1>3, FS_Surjection
  <1> QED BY <1>1, <1>4, FS_Union DEF Index

\* The slot that a handover gives, the size of the group wrapped, is one of the cluster's.
LEMMA NewIndexType ==
  ASSUME ManagersTypeOK, NEW c \in Cluster
  PROVE  NewIndex(c) \in Slot
  <1>1. IsFiniteSet(group[c])
    BY IndexFinite, FS_Subset DEF ManagersTypeOK
  <1>2. Cardinality(group[c]) \in Nat
    BY <1>1, FS_CardinalityType
  <1> QED
    BY <1>2, UavsPerClusterAssumption DEF NewIndex, Slot

-----------------------------------------------------------------------------
(* The parts of operations keep the types and the agreement on TEKs.       *)

GroupTypes ==
    /\ group'        \in [Cluster -> SUBSET Index]
    /\ groupVersion' \in [Cluster -> Nat]
    /\ exponent'     \in [Cluster -> [Slot -> Int]]
    /\ modulus'      \in [Cluster -> SUBSET Slot]

\* A change of groups keeps types and tokens: slot i leaves the groups gone, j joins those in came.
LEMMA ChangeGroupsType ==
  ASSUME ManagersInv, NEW gone, NEW came, NEW i \in Slot, NEW j \in Slot,
         gone \intersect came = {}, ChangeGroups(gone, i, came, j)
  PROVE  GroupTypes /\ TokenInv'
  <1>1. i \in Index /\ j \in Index
    BY DEF Index
  <1>2. GroupTypes
    <2>1. group' \in [Cluster -> SUBSET Index] /\ groupVersion' \in [Cluster -> Nat]
      BY <1>1 DEF ManagersInv, ManagersTypeOK, ChangeGroups
    <2>2. exponent' \in [Cluster -> [Slot -> Int]] /\ modulus' \in [Cluster -> SUBSET Slot]
      BY DEF ManagersInv, ManagersTypeOK, ChangeGroups
    <2> QED BY <2>1, <2>2 DEF GroupTypes
  <1>3. ASSUME NEW c \in Cluster, NEW k \in Slot
        PROVE  /\ groupVersion'[c] >= 1
               /\ exponent'[c][k] = WeightOf(c, k)'
               /\ groupVersion'[c] = 1 => k \in modulus'[c] /\ (k \in group'[c] <=> c = 0)
               /\ groupVersion'[c] > 1 => (k \in modulus'[c] <=> k \in group'[c])
    <2>0. /\ groupVersion[c] \in Nat /\ groupVersion[c] >= 1
          /\ exponent[c] \in [Slot -> Int] /\ exponent[c][k] = WeightOf(c, k)
          /\ groupVersion[c] = 1 => k \in modulus[c] /\ (k \in group[c] <=> c = 0)
          /\ groupVersion[c] > 1 => (k \in modulus[c] <=> k \in group[c])
      BY <1>3 DEF ManagersInv, ManagersTypeOK, TokenInv
    <2>1. CASE c \in gone /\ i \in group[c]
      <3>1. /\ group'[c] = group[c] \ {i} /\ groupVersion'[c] = groupVersion[c] + 1
            /\ exponent'[c] = [exponent[c] EXCEPT ![i] = exponent[c][i] - 1]
            /\ modulus'[c] = group'[c] \intersect Slot
        BY <2>1 DEF ChangeGroups, Touched
      <3> QED BY <1>3, <2>0, <2>1, <3>1 DEF WeightOf
    <2>2. CASE c \in came /\ j \notin group[c]
      <3>1. /\ group'[c] = group[c] \union {j} /\ groupVersion'[c] = groupVersion[c] + 1
            /\ exponent'[c] = [exponent[c] EXCEPT ![j] = exponent[c][j] + 1]
            /\ modulus'[c] = group'[c] \intersect Slot
        BY <2>2 DEF ChangeGroups, Touched
      <3> QED BY <1>3, <2>0, <2>2, <3>1 DEF WeightOf
    <2>3. CASE c \notin Touched(gone, i, came, j)
      <3>1. /\ group'[c] = group[c] /\ groupVersion'[c] = groupVersion[c]
            /\ exponent'[c] = exponent[c] /\ modulus'[c] = modulus[c]
        BY <2>3 DEF ChangeGroups, Touched
      <3> QED BY <2>0, <3>1 DEF WeightOf
    <2> QED BY <2>1, <2>2, <2>3 DEF Touched
  <1> QED BY <1>2, <1>3 DEF TokenInv

\* Operations that leave the groups alone leave their tokens alone.
LEMMA GroupsUnchanged ==
  ASSUME ManagersInv, UNCHANGED groupVars
  PROVE  GroupTypes /\ TokenInv'
  BY DEF ManagersInv, ManagersTypeOK, groupVars, GroupTypes, TokenInv, WeightOf

\* n rotations of the TEKs of the clusters in C keep the types.
LEMMA RotateType ==
  ASSUME ManagersTypeOK, NEW C \in SUBSET Cluster, NEW n \in Nat, Rotate(C, n)
  PROVE  mgrTek' \in [Cluster -> Tek] /\ mgrVersion' \in [Cluster -> Version]
  <1>1. \A c \in C : mgrVersion[c] + n \in Version
    BY MaxVersionAssumption DEF ManagersTypeOK, Rotate, Version
  <1>2. \A c \in C : <<"manager", c, mgrVersion[c] + n>> \in Tek
    BY <1>1 DEF Tek
  <1> QED BY <1>1, <1>2 DEF ManagersTypeOK, Rotate

\* UpdateTek at the SKDCs whose TEKs were rotated restores the agreement with the TekManager.
LEMMA DistributeInv ==
  ASSUME ManagersInv, NEW C \in SUBSET Cluster, Distribute(C),
         mgrTek' \in [Cluster -> Tek],
         \A c \in Cluster \ C : mgrTek'[c] = mgrTek[c]
  PROVE  SkdcTypeOK' /\ SkdcHasManagerTek'
  <1>1. air' \in SUBSET MtkPacket
    BY DEF ManagersInv, ManagersTypeOK, SkdcTypeOK, Distribute
  <1>2. currentTek' \in [Cluster -> Tek] /\ hmacKey' \in [Cluster -> Tek]
    BY DEF ManagersInv, ManagersTypeOK, SkdcTypeOK, Distribute
  <1>3. SkdcTypeOK'
    BY <1>1, <1>2 DEF ManagersInv, ManagersTypeOK, SkdcTypeOK, Distribute, ledgerVars
  <1>4. SkdcHasManagerTek'
    BY DEF ManagersInv, SkdcHasManagerTek, Distribute
  <1> QED BY <1>3, <1>4

-----------------------------------------------------------------------------
(* Every operation keeps the invariant.                                    *)

\* The managers and the SKDCs start with the TEKs of the parameters.
LEMMA ManagersInitial == ManagersInit => ManagersInv
  <1> SUFFICES ASSUME ManagersInit PROVE ManagersInv
    OBVIOUS
  <1>1. SkdcTypeOK
    BY InitialTypes DEF ManagersInit
  <1>2. \A c \in Cluster : ParamsTek(c) \in Tek /\ 1 \in Version
    BY MaxVersionAssumption DEF ParamsTek, Tek, Version
  <1>3. \A c \in Cluster : {UavId(c, i) : i \in Slot} \in SUBSET Index
    BY DEF Index, Uav
  <1>4. \A u \in Uav : Home(u) \in Cluster
    BY HomeType
  <1>5. ManagersTypeOK
    BY <1>1, <1>2, <1>3, <1>4 DEF ManagersInit, ManagersTypeOK
  <1>6. SkdcHasManagerTek
    BY DEF ManagersInit, SkdcInit, InitializeState, SkdcHasManagerTek
  <1>7. ASSUME NEW c \in Cluster, NEW i \in Slot
        PROVE  i \in group[c] <=> c = 0
    <2>1. i \in group[c] <=> \E k \in Slot : UavId(c, k) = i
      BY DEF ManagersInit
    <2>2. UavId(0, i) = i /\ UavsPerCluster \in Nat
      BY UavsPerClusterAssumption DEF UavId, Slot
    <2>3. ASSUME c # 0, NEW k \in Slot PROVE UavId(c, k) # i
      <3>1. c \in Nat /\ c >= 1 /\ k \in Nat /\ i \in Nat /\ i < UavsPerCluster
        BY <1>7, <2>3, NumClustersAssumption, UavsPerClusterAssumption DEF Cluster, Slot
      <3>2. c * UavsPerCluster >= UavsPerCluster
        BY <2>2, <3>1
      <3>3. c * UavsPerCluster \in Nat
        BY <2>2, <3>1
      <3> QED BY <2>2, <3>1, <3>2, <3>3 DEF UavId
    <2> QED BY <2>1, <2>2, <2>3
  <1>8. TokenInv
    BY <1>7 DEF ManagersInit, TokenInv, WeightOf
  <1> QED BY <1>5, <1>6, <1>8 DEF ManagersInv

\* The SKDC events of main.cc touch neither TEKs nor groups.
LEMMA SkdcEventInv == ManagersInv /\ SkdcEvent => ManagersInv'
  <1> SUFFICES ASSUME ManagersInv, SkdcEvent PROVE ManagersInv'
    OBVIOUS
  <1>1. SkdcNext /\ UNCHANGED managerVars /\ UNCHANGED tekVars
    BY DEF SkdcEvent, SkdcNext, InitialBroadcast, ReceiveFromKdc, Fade
  <1>2. SkdcTypeOK'
    BY <1>1, TypePreserved DEF ManagersInv, ManagersTypeOK
  <1> QED BY <1>1, <1>2
      DEF ManagersInv, ManagersTypeOK, SkdcHasManagerTek, managerVars, groupVars,
          mgrTekVars, tekVars, TokenInv, WeightOf

\* A join keeps the invariant.
LEMMA ManagerJoinInv ==
  ASSUME ManagersInv, NEW c \in Cluster, NEW i \in Slot, ManagerJoin(c, i)
  PROVE  ManagersInv'
  <1>1. {c} \in SUBSET Cluster /\ {} \intersect {c} = {}
    OBVIOUS
  <1>2. GroupTypes /\ TokenInv'
    BY <1>1, ChangeGroupsType DEF ManagerJoin
  <1>3. mgrTek' = mgrTek /\ mgrVersion' = mgrVersion /\ serving' = serving /\ revoked' = revoked
    BY DEF ManagerJoin, mgrTekVars
  <1>4. SkdcTypeOK' /\ SkdcHasManagerTek'
    BY <1>1, <1>3, DistributeInv DEF ManagerJoin, ManagersInv, ManagersTypeOK
  <1> QED BY <1>2, <1>3, <1>4 DEF ManagersInv, ManagersTypeOK, GroupTypes

\* A leave, a revocation included, keeps the invariant.
LEMMA LeaveInv ==
  ASSUME ManagersInv, NEW c \in Cluster, NEW i \in Slot, Leave(c, i),
         serving' \in [Uav -> Cluster], revoked' \in SUBSET Uav
  PROVE  ManagersInv'
  <1>1. {c} \in SUBSET Cluster /\ {c} \intersect {} = {}
    OBVIOUS
  <1>2. GroupTypes /\ TokenInv'
    BY <1>1, ChangeGroupsType DEF Leave
  <1>3. mgrTek' \in [Cluster -> Tek] /\ mgrVersion' \in [Cluster -> Version]
    BY <1>1, RotateType DEF Leave, ManagersInv
  <1>4. \A d \in Cluster \ {c} : mgrTek'[d] = mgrTek[d]
    BY DEF Leave, Rotate
  <1>5. SkdcTypeOK' /\ SkdcHasManagerTek'
    BY <1>1, <1>3, <1>4, DistributeInv DEF Leave
  <1> QED BY <1>2, <1>3, <1>5 DEF ManagersInv, ManagersTypeOK, GroupTypes

\* A rekey of any clusters keeps the invariant.
LEMMA ManagerRekeyInv ==
  ASSUME ManagersInv, NEW C \in SUBSET Cluster, ManagerRekey(C)
  PROVE  ManagersInv'
  <1>1. mgrTek' \in [Cluster -> Tek] /\ mgrVersion' \in [Cluster -> Version]
    BY RotateType DEF ManagerRekey, ManagersInv
  <1>2. \A d \in Cluster \ C : mgrTek'[d] = mgrTek[d]
    BY DEF ManagerRekey, Rotate
  <1>3. SkdcTypeOK' /\ SkdcHasManagerTek'
    BY <1>1, <1>2, DistributeInv DEF ManagerRekey
  <1>4. GroupTypes /\ TokenInv'
    BY GroupsUnchanged DEF ManagerRekey
  <1> QED BY <1>1, <1>3, <1>4 DEF ManagerRekey, ManagersInv, ManagersTypeOK, GroupTypes

\* A handover keeps the invariant, whichever of its leave and join go through.
LEMMA ProcessHandoverInv ==
  ASSUME ManagersInv, NEW u \in Uav, NEW c \in Cluster, NEW d \in Cluster,
         ProcessHandover(u, c, d), serving' \in [Uav -> Cluster]
  PROVE  ManagersInv'
  <1> DEFINE i    == HomeSlot(u)
             left == IF i \in group[c] THEN {c} ELSE {}
  <1>1. /\ ChangeGroups(left, i, {d}, NewIndex(d))
        /\ Rotate(left, 2)
        /\ Distribute(left \union {d})
        /\ revoked' = revoked
    BY DEF ProcessHandover
  <1>2. left \in SUBSET Cluster /\ left \union {d} \in SUBSET Cluster /\ left \intersect {d} = {}
    BY DEF ProcessHandover
  <1>3. i \in Slot /\ NewIndex(d) \in Slot
    BY HomeType, NewIndexType DEF ManagersInv
  <1> HIDE DEF i, left
  <1>4. GroupTypes /\ TokenInv'
    BY <1>1, <1>2, <1>3, ChangeGroupsType
  <1>5. mgrTek' \in [Cluster -> Tek] /\ mgrVersion' \in [Cluster -> Version]
    BY <1>1, <1>2, RotateType DEF ManagersInv
  <1>6. \A e \in Cluster \ (left \union {d}) : mgrTek'[e] = mgrTek[e]
    BY <1>1 DEF Rotate
  <1>7. SkdcTypeOK' /\ SkdcHasManagerTek'
    BY <1>1, <1>2, <1>5, <1>6, DistributeInv
  <1> QED BY <1>1, <1>4, <1>5, <1>7 DEF ManagersInv, ManagersTypeOK, GroupTypes

\* Every step keeps the invariant.
LEMMA ManagersStep == ManagersInv /\ [ManagersNext]_allVars => ManagersInv'
  <1> SUFFICES ASSUME ManagersInv, [ManagersNext]_allVars PROVE ManagersInv'
    OBVIOUS
  <1>1. CASE UNCHANGED allVars
    BY <1>1 DEF ManagersInv, ManagersTypeOK, SkdcTypeOK, SkdcHasManagerTek, allVars,
                skdcVars, tekVars, ledgerVars, managerVars, groupVars, mgrTekVars,
                TokenInv, WeightOf
  <1>2. CASE SkdcEvent
    BY <1>2, SkdcEventInv
  <1>3. ASSUME NEW c \in Cluster, NEW i \in Slot, ManagerJoin(c, i) PROVE ManagersInv'
    BY <1>3, ManagerJoinInv
  <1>4. ASSUME NEW c \in Cluster, NEW i \in Slot, ManagerLeave(c, i) PROVE ManagersInv'
    <2>1. Leave(c, i) /\ serving' = serving /\ revoked' = revoked
      BY <1>4 DEF ManagerLeave
    <2> QED BY <2>1, LeaveInv DEF ManagersInv, ManagersTypeOK
  <1>5. ASSUME NEW u \in Uav, HandleCompromise(u, Home(u), HomeSlot(u)) PROVE ManagersInv'
    <2>1. /\ Leave(Home(u), HomeSlot(u))
          /\ serving' = serving
          /\ revoked' = revoked \union {u}
      BY <1>5 DEF HandleCompromise
    <2>2. Home(u) \in Cluster /\ HomeSlot(u) \in Slot
      BY HomeType
    <2> QED BY <2>1, <2>2, LeaveInv DEF ManagersInv, ManagersTypeOK
  <1>6. ASSUME NEW C \in SUBSET Cluster, ManagerRekey(C) PROVE ManagersInv'
    BY <1>6, ManagerRekeyInv
  <1>7. ASSUME NEW u \in Uav, NEW d \in Cluster, AutoHandover(u, d) PROVE ManagersInv'
    <2>1. serving[u] \in Cluster /\ serving' \in [Uav -> Cluster]
      BY <1>7 DEF AutoHandover, ManagersInv, ManagersTypeOK
    <2> QED BY <1>7, <2>1, ProcessHandoverInv DEF AutoHandover
  <1>8. ASSUME NEW u \in Uav, NEW d \in Cluster, ScheduledHandover(u, d) PROVE ManagersInv'
    <2>1. Home(u) \in Cluster /\ serving' \in [Uav -> Cluster]
      BY <1>8, HomeType DEF ScheduledHandover, ManagersInv, ManagersTypeOK
    <2> QED BY <1>8, <2>1, ProcessHandoverInv DEF ScheduledHandover
  <1>9. \A c \in Cluster : {c} \in SUBSET Cluster
    OBVIOUS
  <1> QED BY <1>1, <1>2, <1>3, <1>4, <1>5, <1>6, <1>7, <1>8, <1>9 DEF ManagersNext

\* The managers' variables and the SKDCs' keep their types whatever the managers do.
THEOREM ManagersTypeCorrect == ManagersSpec => []ManagersTypeOK
  <1>1. ManagersInv => ManagersTypeOK
    BY DEF ManagersInv
  <1> QED BY <1>1, ManagersInitial, ManagersStep, PTL DEF ManagersSpec

\* However joins, leaves, revocations, rekeys and handovers follow each other, each
\* SKDC has the TEK of the TekManager.
THEOREM SkdcFollowsTekManager == ManagersSpec => []SkdcHasManagerTek
  <1>1. ManagersInv => SkdcHasManagerTek
    BY DEF ManagersInv
  <1> QED BY <1>1, ManagersInitial, ManagersStep, PTL DEF ManagersSpec

\* What a token opens for, from its exponent and modulus.
LEMMA TokenOpens ==
  ASSUME ManagersInv, NEW c \in Cluster, NEW i \in Slot
  PROVE  OpensToken(c, i) <=> IF c = 0 THEN i \in group[c] ELSE groupVersion[c] = 1
  <1>1. /\ groupVersion[c] \in Nat /\ groupVersion[c] >= 1
        /\ exponent[c][i] = WeightOf(c, i)
        /\ groupVersion[c] = 1 => i \in modulus[c] /\ (i \in group[c] <=> c = 0)
        /\ groupVersion[c] > 1 => (i \in modulus[c] <=> i \in group[c])
    BY DEF ManagersInv, ManagersTypeOK, TokenInv
  <1> QED BY <1>1 DEF OpensToken, WeightOf

\* The token of cluster 0 opens for exactly its members after any history of joins, leaves,
\* revocations and handovers.
THEOREM FirstTokenFollowsGroup == ManagersSpec => []FirstTokenOpensForMembers
  <1>1. 0 \in Cluster
    BY NumClustersAssumption DEF Cluster
  <1>2. ManagersInv => FirstTokenOpensForMembers
    BY <1>1, TokenOpens DEF FirstTokenOpensForMembers
  <1> QED BY <1>2, ManagersInitial, ManagersStep, PTL DEF ManagersSpec

\* How far EachSlaveInGroupDecrypts fails: the first join or leave of the group of any other
\* cluster makes its token one that no slave key opens, and no later event repairs it.
OtherTokensClosed ==
    \A c \in Cluster \ {0} : groupVersion[c] > 1 => \A i \in Slot : ~ OpensToken(c, i)

THEOREM OtherTokensOpenForNobody == ManagersSpec => []OtherTokensClosed
  <1>1. ManagersInv => OtherTokensClosed
    BY TokenOpens DEF OtherTokensClosed, ManagersInv, ManagersTypeOK
  <1> QED BY <1>1, ManagersInitial, ManagersStep, PTL DEF ManagersSpec

-----------------------------------------------------------------------------
(* The token of the first cluster within the scheme of CrtManager.         *)

\* One change of groups is a join or a leave of one slave key in the token of cluster 0, or
\* leaves that token alone.
LEMMA ChangeIsTokenStep ==
  ASSUME ManagersInv, NEW gone, NEW came, NEW i \in Slot, NEW j \in Slot,
         gone \intersect came = {}, ChangeGroups(gone, i, came, j)
  PROVE  [FirstToken!WeightNext]_(FirstToken!weightVars)
  <1>1. 0 \in Cluster
    BY NumClustersAssumption DEF Cluster
  <1>2. /\ groupVersion[0] \in Nat /\ modulus[0] \subseteq Slot
        /\ \A k \in Slot : k \in modulus[0] <=> k \in group[0]
    BY <1>1 DEF ManagersInv, ManagersTypeOK, TokenInv
  <1>3. group[0] \intersect Slot = modulus[0]
    BY <1>2
  <1>4. CASE 0 \in gone /\ i \in group[0]
    <2>1. /\ exponent'[0] = [exponent[0] EXCEPT ![i] = @ - 1]
          /\ modulus'[0] = (group[0] \ {i}) \intersect Slot
      BY <1>1, <1>4 DEF ChangeGroups, Touched
    <2>2. modulus'[0] = modulus[0] \ {i}
      BY <1>3, <2>1
    <2> QED BY <2>1, <2>2 DEF FirstToken!WeightNext, FirstToken!Leave
  <1>5. CASE 0 \in came /\ j \notin group[0]
    <2>1. /\ exponent'[0] = [exponent[0] EXCEPT ![j] = @ + 1]
          /\ modulus'[0] = (group[0] \union {j}) \intersect Slot
      BY <1>1, <1>5 DEF ChangeGroups, Touched
    <2>2. modulus'[0] = modulus[0] \union {j}
      BY <1>3, <2>1
    <2> QED BY <2>1, <2>2 DEF FirstToken!WeightNext, FirstToken!Join
  <1>6. CASE 0 \notin Touched(gone, i, came, j)
    <2>1. exponent'[0] = exponent[0] /\ modulus'[0] = modulus[0]
      BY <1>1, <1>6 DEF ChangeGroups
    <2> QED BY <2>1 DEF FirstToken!weightVars
  <1> QED BY <1>4, <1>5, <1>6 DEF Touched

\* The token of the first cluster, through all joins, leaves, revocations and handovers of
\* the managers, implements TokenWeights, which CrtManager's arithmetic implements: a step
\* never counts two slaves, nor one twice (FirstTokenImplementsWeights).
THEOREM FirstTokenRefinement == ManagersSpec => FirstTokenImplementsWeights
  <1>1. ManagersInit => FirstToken!WeightInit
    <2>1. 0 \in Cluster
      BY NumClustersAssumption DEF Cluster
    <2> QED BY <2>1 DEF ManagersInit, FirstToken!WeightInit
  <1>2. ManagersInv /\ [ManagersNext]_allVars => [FirstToken!WeightNext]_(FirstToken!weightVars)
    <2> SUFFICES ASSUME ManagersInv, [ManagersNext]_allVars
                 PROVE  [FirstToken!WeightNext]_(FirstToken!weightVars)
      OBVIOUS
    <2>1. CASE UNCHANGED groupVars
      BY <2>1 DEF groupVars, FirstToken!weightVars
    <2>2. ASSUME NEW c \in Cluster, NEW i \in Slot, ManagerJoin(c, i) \/ Leave(c, i)
          PROVE  [FirstToken!WeightNext]_(FirstToken!weightVars)
      <3>1. {} \intersect {c} = {} /\ {c} \intersect {} = {}
        OBVIOUS
      <3> QED BY <2>2, <3>1, ChangeIsTokenStep DEF ManagerJoin, Leave
    <2>3. ASSUME NEW u \in Uav, NEW b \in Cluster, NEW d \in Cluster, ProcessHandover(u, b, d)
          PROVE  [FirstToken!WeightNext]_(FirstToken!weightVars)
      <3> DEFINE i    == HomeSlot(u)
                 left == IF i \in group[b] THEN {b} ELSE {}
      <3>1. ChangeGroups(left, i, {d}, NewIndex(d)) /\ left \intersect {d} = {}
        BY <2>3 DEF ProcessHandover
      <3>2. i \in Slot /\ NewIndex(d) \in Slot
        BY HomeType, NewIndexType DEF ManagersInv
      <3> HIDE DEF i, left
      <3> QED BY <3>1, <3>2, ChangeIsTokenStep
    <2>4. ASSUME NEW u \in Uav, NEW d \in Cluster, AutoHandover(u, d) \/ ScheduledHandover(u, d)
          PROVE  [FirstToken!WeightNext]_(FirstToken!weightVars)
      <3>1. serving[u] \in Cluster /\ Home(u) \in Cluster
        BY HomeType DEF ManagersInv, ManagersTypeOK
      <3> QED BY <2>3, <2>4, <3>1 DEF AutoHandover, ScheduledHandover
    <2>5. ASSUME NEW u \in Uav, HandleCompromise(u, Home(u), HomeSlot(u))
          PROVE  [FirstToken!WeightNext]_(FirstToken!weightVars)
      BY <2>2, <2>5, HomeType DEF HandleCompromise
    <2>6. ASSUME NEW c \in Cluster, NEW i \in Slot, ManagerLeave(c, i)
          PROVE  [FirstToken!WeightNext]_(FirstToken!weightVars)
      BY <2>2, <2>6 DEF ManagerLeave
    <2>7. CASE UNCHANGED allVars \/ SkdcEvent \/ \E C \in SUBSET Cluster : ManagerRekey(C)
      <3>1. UNCHANGED groupVars
        BY <2>7 DEF allVars, managerVars, SkdcEvent, ManagerRekey
      <3> QED BY <2>1, <3>1
    <2>8. \A c \in Cluster : {c} \in SUBSET Cluster
      OBVIOUS
    <2> QED BY <2>2, <2>4, <2>5, <2>6, <2>7, <2>8 DEF ManagersNext
  <1> QED
    BY <1>1, <1>2, ManagersInitial, ManagersStep, PTL
    DEF ManagersSpec, FirstTokenImplementsWeights, FirstToken!WeightSpec

-----------------------------------------------------------------------------
(* Forward secrecy of leaves.                                              *)

\* Whatever takes a member out of group c has rotated the TEK of c.
LEMMA RotatedTek ==
  ASSUME ManagersInv, NEW C \in SUBSET Cluster, NEW D \in SUBSET Cluster, NEW n \in Nat \ {0},
         Rotate(C, n), Distribute(D), NEW c \in C, c \in D
  PROVE  currentTek'[c] \in {<<"manager", c, v>> : v \in mgrVersion[c] + 1 .. MaxVersion}
  <1>1. currentTek'[c] = <<"manager", c, mgrVersion[c] + n>>
    BY DEF Rotate, Distribute
  <1>2. mgrVersion[c] + n \in mgrVersion[c] + 1 .. MaxVersion
    BY MaxVersionAssumption DEF Rotate, ManagersInv, ManagersTypeOK, Version
  <1> QED BY <1>1, <1>2

\* A leave, by any operation, gives the SKDC of that cluster, in the same event, a TEK
\* numbered above all that the TekManager has had for it.
THEOREM LeavesRenewTek == ManagersSpec => LeaveRenewsTek
  <1> DEFINE Renewed(c) == group[c] \ group'[c] # {} =>
                 currentTek'[c] \in {<<"manager", c, v>> : v \in mgrVersion[c] + 1 .. MaxVersion}
  <1>1. ManagersInv /\ [ManagersNext]_allVars => [\A c \in Cluster : Renewed(c)]_allVars
    <2> SUFFICES ASSUME ManagersInv, ManagersNext, NEW c \in Cluster,
                        group[c] \ group'[c] # {}
                 PROVE  currentTek'[c] \in
                          {<<"manager", c, v>> : v \in mgrVersion[c] + 1 .. MaxVersion}
      OBVIOUS
    <2>1. ASSUME NEW d \in Cluster, NEW i, Leave(d, i)
          PROVE  Renewed(c)
      <3>1. c = d
        BY <2>1 DEF Leave, ChangeGroups
      <3> QED BY <2>1, <3>1, RotatedTek DEF Leave
    <2>2. ASSUME NEW u \in Uav, NEW b \in Cluster, NEW d \in Cluster, ProcessHandover(u, b, d)
          PROVE  Renewed(c)
      <3> DEFINE i    == HomeSlot(u)
                 left == IF i \in group[b] THEN {b} ELSE {}
      <3>1. /\ ChangeGroups(left, i, {d}, NewIndex(d))
            /\ Rotate(left, 2)
            /\ Distribute(left \union {d})
        BY <2>2 DEF ProcessHandover
      <3>2. left \in SUBSET Cluster
        OBVIOUS
      <3> HIDE DEF i, left
      <3>3. c \in left
        BY <3>1 DEF ChangeGroups
      <3> QED BY <3>1, <3>2, <3>3, RotatedTek
    <2>3. CASE SkdcEvent
      BY <2>3 DEF SkdcEvent, managerVars, groupVars
    <2>4. ASSUME NEW d \in Cluster, NEW i \in Slot, ManagerJoin(d, i) PROVE Renewed(c)
      BY <2>4 DEF ManagerJoin, ChangeGroups
    <2>5. ASSUME NEW d \in Cluster, NEW i \in Slot, ManagerLeave(d, i) PROVE Renewed(c)
      BY <2>5, <2>1 DEF ManagerLeave
    <2>6. ASSUME NEW u \in Uav, HandleCompromise(u, Home(u), HomeSlot(u)) PROVE Renewed(c)
      BY <2>6, <2>1, HomeType DEF HandleCompromise
    <2>7. ASSUME NEW C, ManagerRekey(C) PROVE Renewed(c)
      BY <2>7 DEF ManagerRekey, groupVars
    <2>8. ASSUME NEW u \in Uav, NEW d \in Cluster, AutoHandover(u, d) PROVE Renewed(c)
      BY <2>8, <2>2 DEF AutoHandover, ManagersInv, ManagersTypeOK
    <2>9. ASSUME NEW u \in Uav, NEW d \in Cluster, ScheduledHandover(u, d) PROVE Renewed(c)
      BY <2>9, <2>2, HomeType DEF ScheduledHandover
    <2> QED BY <2>3, <2>4, <2>5, <2>6, <2>7, <2>8, <2>9 DEF ManagersNext
  <1> QED BY <1>1, ManagersInitial, ManagersStep, PTL DEF ManagersSpec, LeaveRenewsTek
=============================================================================
