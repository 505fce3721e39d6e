---------------------------- MODULE GroupManagers ----------------------------
(***************************************************************************)
(* The managers that main.cc drives: multicast groups                      *)
(* (apps/uav-multicast-manager.cc), TEKs (apps/uav-tek-manager.cc), MT_K   *)
(* distribution (apps/uav-mtk-distribution.cc), the join, leave, rekey and *)
(* handover managers and the compromise detector, composed with the SKDCs. *)
(*                                                                         *)
(* They act on an SKDC only through UpdateTek.  A group holds the indices  *)
(* of its members: Initialize fills it with the numbers of the UAVs, every *)
(* later operation uses slots.  Its token MT_K is kept as the weights of   *)
(* the slave keys in the exponent and the slots whose moduli it is for, to *)
(* which CrtManager.tla reduces the arithmetic.  The managers' histories   *)
(* and counters have no effect and are left out.                           *)
(***************************************************************************)
EXTENDS SkdcApp

VARIABLES
    group,         \* [Cluster -> SUBSET Index]: m_groups[c].members
    groupVersion,  \* [Cluster -> Nat]: m_groups[c].version, which numbers its MT_K
    exponent,      \* [Cluster -> [Slot -> Int]]: m_groups[c].e_mk, the weight of each slave key
    modulus,       \* [Cluster -> SUBSET Slot]: m_groups[c].n_group, the slots it is made of
    mgrTek,        \* [Cluster -> Tek]: m_teks[c].tek
    mgrVersion,    \* [Cluster -> Version]: m_teks[c].version
    serving,       \* [Uav -> Cluster]: g_uav_current_cluster
    revoked        \* m_revoked of the compromise detector

groupVars   == <<group, groupVersion, exponent, modulus>>
mgrTekVars  == <<mgrTek, mgrVersion>>
managerVars == <<groupVars, mgrTekVars, serving, revoked>>
allVars     == <<skdcVars, managerVars>>

Index == Uav \union Slot

ManagersInit ==
    /\ SkdcInit
    /\ group        = [c \in Cluster |-> {UavId(c, i) : i \in Slot}]
    /\ groupVersion = [c \in Cluster |-> 1]
    /\ exponent     = [c \in Cluster |-> [i \in Slot |-> 1]]
    /\ modulus      = [c \in Cluster |-> Slot]
    /\ mgrTek       = [c \in Cluster |-> ParamsTek(c)]
    /\ mgrVersion   = [c \in Cluster |-> 1]
    /\ serving      = [u \in Uav |-> Home(u)]
    /\ revoked      = {}

-----------------------------------------------------------------------------
(* Parts of operations.  Each takes the set of clusters it acts on, as a   *)
(* handover and a global rekey act on several in one event.                *)

\* Clusters whose RemoveMember of index i or AddMember of index j finds something to do.
Touched(gone, i, came, j) ==
    {c \in gone : i \in group[c]} \union {c \in came : j \notin group[c]}

\* Fault variant: the exponent is updated although nothing is removed or added.
ChangeGroupsUnguarded(gone, i, came, j) ==
    LET touched == Touched(gone, i, came, j) IN
    /\ group' = [c \in Cluster |->
         IF c \in gone THEN group[c] \ {i} ELSE IF c \in came THEN group[c] \union {j} ELSE group[c]]
    /\ groupVersion' = [c \in Cluster |->
         IF c \in touched THEN groupVersion[c] + 1 ELSE groupVersion[c]]
    /\ exponent' = [c \in Cluster |->
         IF c \in gone THEN [exponent[c] EXCEPT ![i] = @ - 1]
         ELSE IF c \in came THEN [exponent[c] EXCEPT ![j] = @ + 1]
         ELSE exponent[c]]
    /\ modulus' = [c \in Cluster |->
         IF c \in touched THEN group'[c] \intersect Slot ELSE modulus[c]]

\* Fault variant: the exponent follows the group and the modulus does not.
ChangeGroupsOldModulus(gone, i, came, j) ==
    LET touched == Touched(gone, i, came, j) IN
    /\ group' = [c \in Cluster |->
         IF c \in gone THEN group[c] \ {i} ELSE IF c \in came THEN group[c] \union {j} ELSE group[c]]
    /\ groupVersion' = [c \in Cluster |->
         IF c \in touched THEN groupVersion[c] + 1 ELSE groupVersion[c]]
    /\ exponent' = [c \in Cluster |->
         IF c \in touched \intersect gone THEN [exponent[c] EXCEPT ![i] = @ - 1]
         ELSE IF c \in touched THEN [exponent[c] EXCEPT ![j] = @ + 1]
         ELSE exponent[c]]
    /\ UNCHANGED modulus

\* RemoveMember of index i from the groups in gone, with LeKeyUpdate, and AddMember of
\* index j to those in came, with JoKeyUpdate; each does nothing when there is nothing to
\* do.  The new moduli are those of the members that are slots of slave keys.
ChangeGroups(gone, i, came, j) ==
    LET touched == Touched(gone, i, came, j) IN
    /\ group' = [c \in Cluster |->
         IF c \in gone THEN group[c] \ {i} ELSE IF c \in came THEN group[c] \union {j} ELSE group[c]]
    /\ groupVersion' = [c \in Cluster |->
         IF c \in touched THEN groupVersion[c] + 1 ELSE groupVersion[c]]
    /\ exponent' = [c \in Cluster |->
         IF c \in touched \intersect gone THEN [exponent[c] EXCEPT ![i] = @ - 1]
         ELSE IF c \in touched THEN [exponent[c] EXCEPT ![j] = @ + 1]
         ELSE exponent[c]]
    /\ modulus' = [c \in Cluster |->
         IF c \in touched THEN group'[c] \intersect Slot ELSE modulus[c]]

\* n successive rotations (or one RekeyManager update) in each cluster of C: only
\* the last TEK remains, and the version counts them all.
Rotate(C, n) ==
    /\ \A c \in C : mgrVersion[c] + n <= MaxVersion
    /\ mgrVersion' = [c \in Cluster |-> IF c \in C THEN mgrVersion[c] + n ELSE mgrVersion[c]]
    /\ mgrTek' = [c \in Cluster |->
         IF c \in C THEN <<"manager", c, mgrVersion[c] + n>> ELSE mgrTek[c]]

\* Fault variant: the SKDCs get the TEK from before the rotation.
DistributeOld(C) ==
    /\ currentTek' = [c \in Cluster |-> IF c \in C THEN mgrTek[c] ELSE currentTek[c]]
    /\ hmacKey'    = [c \in Cluster |-> IF c \in C THEN mgrTek[c] ELSE hmacKey[c]]
    /\ air' = air \union {p \in MtkPacket :
                p.cluster \in C /\ skdcUp[p.cluster] /\ p.version = rekeyVersion[p.cluster]}
    /\ UNCHANGED <<skdcUp, startPending, rekeyVersion, members, pendingHo, ledgerVars>>

\* MtkDistributionManager::BroadcastMtk for each cluster of C, which is UpdateTek of its
\* SKDC with the manager's TEK.
Distribute(C) ==
    /\ currentTek' = [c \in Cluster |-> IF c \in C THEN mgrTek'[c] ELSE currentTek[c]]
    /\ hmacKey'    = [c \in Cluster |-> IF c \in C THEN mgrTek'[c] ELSE hmacKey[c]]
    /\ air' = air \union {p \in MtkPacket :
                p.cluster \in C /\ skdcUp[p.cluster] /\ p.version = rekeyVersion[p.cluster]}
    /\ UNCHANGED <<skdcUp, startPending, rekeyVersion, members, pendingHo, ledgerVars>>

-----------------------------------------------------------------------------
(* Operations.                                                             *)

\* JoinEventManager::ProcessJoin: the authentication always succeeds, and a join that
\* adds nobody still distributes.
ManagerJoin(c, i) ==
    /\ ChangeGroups({}, i, {c}, i)
    /\ UNCHANGED <<mgrTekVars, serving, revoked>>
    /\ Distribute({c})

\* Fault variant: the member is removed but the TEK stays.
LeaveWithoutRotation(c, i) ==
    /\ ChangeGroups({c}, i, {}, i)
    /\ UNCHANGED mgrTekVars
    /\ Distribute({c})

\* The successful part of DoLeave, which rotates, and of OnMemberLeft, which rotates
\* again and distributes.
Leave(c, i) ==
    /\ ChangeGroups({c}, i, {}, i)
    /\ Rotate({c}, 2)
    /\ Distribute({c})

\* LeaveEventManager::ProcessLeave; without such a member nothing happens.
ManagerLeave(c, i) ==
    /\ i \in group[c]
    /\ Leave(c, i)
    /\ UNCHANGED <<serving, revoked>>

\* CompromiseDetector::HandleCompromise with ForceRevoke, which goes on even when the
\* index is not in the group.
HandleCompromise(u, c, i) ==
    /\ u \notin revoked
    /\ revoked' = revoked \union {u}
    /\ Leave(c, i)
    /\ UNCHANGED serving

\* RekeyManager::TriggerRekey; for every cluster, GlobalRekey.
ManagerRekey(C) ==
    /\ Rotate(C, 1)
    /\ Distribute(C)
    /\ UNCHANGED <<groupVars, serving, revoked>>

\* Fault variant: the size is not wrapped.
NewIndexUnwrapped(c) == Cardinality(group[c])

\* The slot that a handover gives: the size of the group, wrapped.
NewIndex(c) == Cardinality(group[c]) % UavsPerCluster

\* HandoverManager::ProcessHandover from cluster c to d: leave, then join even when
\* the leave has failed.
ProcessHandover(u, c, d) ==
    LET i    == HomeSlot(u)
        left == IF i \in group[c] THEN {c} ELSE {}
    IN  /\ c # d
        /\ ChangeGroups(left, i, {d}, NewIndex(d))
        /\ Rotate(left, 2)
        /\ Distribute(left \union {d})
        /\ UNCHANGED revoked

\* One UAV of AutoHandoverCheck, nearest to d: its cluster is noted only when the
\* handover succeeded, so a failed one is tried again by the next check.
AutoHandover(u, d) ==
    /\ ProcessHandover(u, serving[u], d)
    /\ serving' = IF HomeSlot(u) \in group[serving[u]]
                    THEN [serving EXCEPT ![u] = d] ELSE serving

\* ScheduledHandover does not note the new cluster.
ScheduledHandover(u, d) ==
    /\ ProcessHandover(u, Home(u), d)
    /\ UNCHANGED serving

\* The SKDCs' own events in main.cc, where nobody calls their rekey operations.
SkdcEvent ==
    /\ \/ \E c \in Cluster : InitialBroadcast(c) \/ ReceiveFromKdc(c)
       \/ \E p \in MtkPacket : Fade(p)
    /\ UNCHANGED managerVars

ManagersNext ==
    \/ SkdcEvent
    \/ \E c \in Cluster, i \in Slot : ManagerJoin(c, i) \/ ManagerLeave(c, i)
    \/ \E u \in Uav : HandleCompromise(u, Home(u), HomeSlot(u))
    \/ \E c \in Cluster : ManagerRekey({c})
    \/ ManagerRekey(Cluster)
    \/ \E u \in Uav, d \in Cluster : AutoHandover(u, d) \/ ScheduledHandover(u, d)

ManagersSpec == ManagersInit /\ [][ManagersNext]_allVars

-----------------------------------------------------------------------------
(* Properties.                                                             *)

\* The managers' variables keep the types of the C++ members they stand for.
ManagersTypeOK ==
    /\ SkdcTypeOK
    /\ group        \in [Cluster -> SUBSET Index]
    /\ groupVersion \in [Cluster -> Nat]
    /\ exponent     \in [Cluster -> [Slot -> Int]]
    /\ modulus      \in [Cluster -> SUBSET Slot]
    /\ mgrTek       \in [Cluster -> Tek]
    /\ mgrVersion   \in [Cluster -> Version]
    /\ serving      \in [Uav -> Cluster]
    /\ revoked      \in SUBSET Uav

\* Whatever joins, leaves, revocations, rekeys and handovers do, across clusters and in
\* one event, each SKDC has the TEK that the TekManager holds for its cluster.
SkdcHasManagerTek ==
    \A c \in Cluster : currentTek[c] = mgrTek[c] /\ hmacKey[c] = mgrTek[c]

\* Forward secrecy: when a member leaves a group, by any operation, the SKDC of that
\* cluster has a TEK in the same event that it never had before.
LeaveRenewsTek ==
    [][\A c \in Cluster : group[c] \ group'[c] # {} =>
         currentTek'[c] \in {<<"manager", c, v>> : v \in mgrVersion[c] + 1 .. MaxVersion}]_allVars

\* The slave key of slot i recovers the TEK from the token of cluster c.
OpensToken(c, i) == i \in modulus[c] /\ exponent[c][i] = 1

\* The token of cluster 0 opens for the members of its group and for nobody else, through all
\* joins, leaves, revocations and handovers, refused and repeated ones included.
FirstTokenOpensForMembers == \A i \in Slot : OpensToken(0, i) <=> i \in group[0]

\* "Each slave in group decrypts": in every cluster, whoever is in the group, under the number
\* of its UAV or under its slot, has a slave key that opens the group's token.
EachSlaveInGroupDecrypts ==
    \A c \in Cluster : \A m \in group[c] : OpensToken(c, m % UavsPerCluster)

\* The managers keep the token of cluster 0 within what TokenWeights allows, as CrtManager
\* keeps a token of real numbers: every operation, the handover with its leave and its join
\* included, counts one slave key once more or once less, together with the modulus, or none.
FirstToken == INSTANCE TokenWeights
                  WITH Slaves <- Slot, weight <- exponent[0], users <- modulus[0]

FirstTokenImplementsWeights == FirstToken!WeightSpec

\* "Handover = Leave old cluster + Join new cluster": a handover of a UAV from the cluster
\* it is served by takes one member out of one group and puts one into the other.
HandoverMovesOneMember ==
    [][\A u \in Uav, d \in Cluster : AutoHandover(u, d) =>
         /\ Cardinality(group'[serving[u]]) = Cardinality(group[serving[u]]) - 1
         /\ Cardinality(group'[d]) = Cardinality(group[d]) + 1]_allVars
=============================================================================
