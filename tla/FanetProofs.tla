----------------------------- MODULE FanetProofs -----------------------------
(***************************************************************************)
(* Proofs about the UAVs of UavApp, about their composition with the SKDCs *)
(* and the KDC in Fanet, and about the receipts that FanetReceipts records *)
(* for it: for any number of clusters and UAVs and with loss, delay and    *)
(* reordering of every packet.                                             *)
(***************************************************************************)
EXTENDS FanetReceipts, SkdcAppProofs

-----------------------------------------------------------------------------
(* The UAVs alone, for any packets in any order.                           *)

\* The UAV goes on encrypting and authenticating with the keys of its first cluster.
UavKeepsHomeKeys ==
    \A u \in Uav : uavTek[u] = ParamsTek(Home(u)) /\ uavHmac[u] = ParamsTek(Home(u))

\* The three parts support each other only through the types: the slave key and
\* the keys taken over by DecryptMtk are names built from clusters and slots.
UavInv == UavTypeOK /\ UavKeepsHomeKeys /\ ValidTekHasClusterKey

\* DecryptMtk as its callers use it, on an MT_K of the UAV's own cluster: the
\* search among other clusters is dead, and the TEK becomes valid only when the
\* slave key is of that cluster.
LEMMA DecryptOwnCluster ==
  ASSUME UavTypeOK, NEW u \in Uav, DecryptMtk(u, uavCluster[u])
  PROVE  /\ UNCHANGED <<uavCluster, uavIndex, slaveKey, uavTek, uavHmac>>
         /\ tekValid' \in [Uav -> BOOLEAN]
         /\ \A w \in Uav : tekValid'[w] => tekValid[w] \/ slaveKey[w][1] = uavCluster[w]
  <1>1. ~OtherKeyOpens(u, uavCluster[u])
    BY DEF OtherKeyOpens
  <1>2. UNCHANGED <<uavCluster, uavIndex, slaveKey, uavTek, uavHmac>>
    BY <1>1 DEF DecryptMtk, UavTypeOK
  <1>3. tekValid' = [tekValid EXCEPT ![u] = @ \/ OwnKeyOpens(u, uavCluster[u])]
    BY <1>1 DEF DecryptMtk, Decrypts
  <1>4. OwnKeyOpens(u, uavCluster[u]) \in BOOLEAN
    BY DEF OwnKeyOpens
  <1>5. tekValid' \in [Uav -> BOOLEAN]
    BY <1>3, <1>4 DEF UavTypeOK
  <1>6. ASSUME NEW w \in Uav, tekValid'[w]
        PROVE  tekValid[w] \/ slaveKey[w][1] = uavCluster[w]
    BY <1>3, <1>6 DEF UavTypeOK, OwnKeyOpens
  <1> QED BY <1>2, <1>5, <1>6

\* The UAVs start with the keys of their first cluster.
LEMMA UavInitInv == UavInit => UavInv
  <1> SUFFICES ASSUME UavInit PROVE UavInv
    OBVIOUS
  <1>1. UavTypeOK
    <2>1. 0 \in 0 .. MaxVersion /\ 0 \in 0 .. MaxDataSeq
      BY MaxVersionAssumption, MaxDataSeqAssumption
    <2> QED BY <2>1, HomeType, ParamsTekType DEF UavInit, UavTypeOK, SlaveKey
  <1>2. UavKeepsHomeKeys /\ ValidTekHasClusterKey
    BY DEF UavInit, UavKeepsHomeKeys, ValidTekHasClusterKey
  <1> QED BY <1>1, <1>2 DEF UavInv

\* Every operation of a UAV keeps the invariant.
LEMMA UavInvPreserved == UavInv /\ [UavNext]_uavVars => UavInv'
  <1> SUFFICES ASSUME UavInv, [UavNext]_uavVars PROVE UavInv'
    OBVIOUS
  <1> USE DEF UavInv
  <1>1. ASSUME NEW u \in Uav, NEW p \in MtkPacket, ProcessMtkPacket(u, p) PROVE UavInv'
    <2>1. DecryptMtk(u, uavCluster[u])
      BY <1>1 DEF ProcessMtkPacket, AcceptsMtk
    <2>2. uavVersion' \in [Uav -> 0 .. MaxVersion]
      BY <1>1 DEF ProcessMtkPacket, UavTypeOK, MtkPacket, Version
    <2>3. UavTypeOK'
      BY <1>1, <2>1, <2>2, DecryptOwnCluster DEF ProcessMtkPacket, UavTypeOK
    <2> QED BY <2>1, <2>3, DecryptOwnCluster DEF UavKeepsHomeKeys, ValidTekHasClusterKey
  <1>2. ASSUME NEW u \in Uav, NEW p \in MtkPacket, NEW k \in Tek, ProcessRekeyPacket(u, p, k)
        PROVE  UavInv'
    <2>1. DecryptMtk(u, uavCluster[u])
      BY <1>2 DEF ProcessRekeyPacket
    <2>2. UavTypeOK'
      BY <1>2, <2>1, DecryptOwnCluster DEF ProcessRekeyPacket, UavTypeOK
    <2> QED BY <2>1, <2>2, DecryptOwnCluster DEF UavKeepsHomeKeys, ValidTekHasClusterKey
  <1>3. ASSUME NEW u \in Uav, NEW c \in Cluster, NEW i \in Slot, NEW key \in SlaveKey,
               ReceiveJoinAccept(u, c, i, key)
        PROVE  UavInv'
    <2>1. UavTypeOK'
      BY <1>3 DEF ReceiveJoinAccept, UavTypeOK
    <2>2. ValidTekHasClusterKey'
      BY <1>3 DEF ReceiveJoinAccept, UavTypeOK, ValidTekHasClusterKey
    <2> QED BY <1>3, <2>1, <2>2 DEF ReceiveJoinAccept, UavKeepsHomeKeys
  <1>4. ASSUME NEW u \in Uav, SendTelemetry(u) PROVE UavInv'
    <2>1. dataSeq' \in [Uav -> 0 .. MaxDataSeq]
      BY <1>4, MaxDataSeqAssumption DEF SendTelemetry, UavTypeOK
    <2> QED BY <1>4, <2>1 DEF SendTelemetry, keyVars, UavTypeOK, UavKeepsHomeKeys,
                              ValidTekHasClusterKey
  <1>5. ASSUME NEW u \in Uav, StopUav(u) PROVE UavInv'
    BY <1>5 DEF StopUav, keyVars, UavTypeOK, UavKeepsHomeKeys, ValidTekHasClusterKey
  <1>6. CASE UNCHANGED uavVars
    BY <1>6 DEF uavVars, keyVars, UavTypeOK, UavKeepsHomeKeys, ValidTekHasClusterKey
  <1> QED BY <1>1, <1>2, <1>3, <1>4, <1>5, <1>6 DEF UavNext

-----------------------------------------------------------------------------
(* Theorems about the UAVs alone.                                          *)

\* The inductive invariant holds in every reachable state of the UAVs.
THEOREM UavInvariant == UavSpec => []UavInv
  BY UavInitInv, UavInvPreserved, PTL DEF UavSpec

\* The state of the UAVs is always of its type.
THEOREM UavTypeCorrect == UavSpec => []UavTypeOK
  <1>1. UavInv => UavTypeOK
    BY DEF UavInv
  <1> QED BY UavInvariant, <1>1, PTL

\* How far TekRefreshed and SyncedUavHasClusterTek fail: whatever packets a UAV receives,
\* it encrypts with the TEK of its first cluster for ever, since the key search of
\* DecryptMtk, the only code that replaces the TEK, is dead.
THEOREM HomeKeysForever == UavSpec => []UavKeepsHomeKeys
  <1>1. UavInv => UavKeepsHomeKeys
    BY DEF UavInv
  <1> QED BY UavInvariant, <1>1, PTL

\* A UAV never counts its TEK as valid under a slave key of another cluster.
THEOREM ValidTekKey == UavSpec => []ValidTekHasClusterKey
  <1>1. UavInv => ValidTekHasClusterKey
    BY DEF UavInv
  <1> QED BY UavInvariant, <1>1, PTL

-----------------------------------------------------------------------------
(* The composition.                                                        *)

\* Each UAV holds the slave key of the cluster and slot it believes to have.
KeyFitsPlace == \A u \in Uav : slaveKey[u] = <<uavCluster[u], uavIndex[u]>>

\* Types, but for the kinds of packets: FanetData has packets of two more.
WellFormed == SkdcTypeOK /\ UavTypeOK /\ \A m \in net : PacketOK(m)

\* The inductive invariant.  OrphanOnlyByLoss and PendingOnlyByLoss need the form of
\* the packets; AcceptedMtkDecrypts needs KeyFitsPlace, which needs the keys that
\* SLAVE_FWD and JOIN_ACCEPT carry.
FanetInv == WellFormed /\ KeyFitsPlace /\ OrphanOnlyByLoss /\ PendingOnlyByLoss

-----------------------------------------------------------------------------
(* Packets.                                                                *)

\* The slot of a UAV in any cluster, its number modulo the cluster size.
LEMMA SlotOfUav == \A u \in Uav : u % UavsPerCluster \in Slot
  BY HomeType DEF HomeSlot

-----------------------------------------------------------------------------
(* The SKDCs within the composition.                                       *)

\* Seen from the SKDCs, every step of the composition is one of theirs.
LEMMA FanetStepIsSkdcStep ==
  ASSUME WellFormed, [FanetNext]_fanetVars
  PROVE  [SkdcNext]_skdcVars
  <1>1. CASE PeriodicSync
    BY <1>1 DEF PeriodicSync
  <1>2. ASSUME NEW c \in Cluster, SkdcInitialBroadcast(c) \/ CallTriggerRekey(c)
        PROVE  [SkdcNext]_skdcVars
    BY <1>2 DEF SkdcInitialBroadcast, CallTriggerRekey, SkdcNext
  <1>3. ASSUME NEW c \in Cluster, NEW v \in Version, SkdcTimeout(c, v)
        PROVE  [SkdcNext]_skdcVars
    BY <1>3 DEF SkdcTimeout, SkdcNext
  <1>4. ASSUME NEW u \in Uav, NEW p \in MtkPacket, DeliverMtk(u, p)
        PROVE  [SkdcNext]_skdcVars
    <2>1. Home(u) \in Cluster /\ p.version \in Version
      BY HomeType DEF MtkPacket
    <2>2. OnUavRekeyAck(Home(u), u, p.version) \/ UNCHANGED skdcVars
      BY <1>4 DEF DeliverMtk
    <2> QED BY <2>1, <2>2 DEF SkdcNext
  <1>5. ASSUME NEW p \in MtkPacket, MtkFades(p) PROVE [SkdcNext]_skdcVars
    BY <1>5 DEF MtkFades, SkdcNext
  <1>6. ASSUME NEW u \in Uav, NEW c \in Cluster, NotifyHandover(u, c)
        PROVE  [SkdcNext]_skdcVars
    BY <1>6 DEF NotifyHandover
  <1>7. ASSUME NEW m \in net,
               \/ DeliverControl(m) \/ ReceiveHandoverNotify(m) \/ DeliverSlaveFwd(m)
               \/ DeliverJoinAccept(m) \/ DeliverKeyAck(m) \/ Lose(m)
        PROVE  [SkdcNext]_skdcVars
    <2>1. m.cluster \in Cluster /\ (m.kind \in HandoverKind => m.uav \in Uav)
      BY DEF WellFormed, PacketOK, HandoverKind
    <2>2. CASE DeliverControl(m)
      BY <2>1, <2>2 DEF DeliverControl, SkdcNext
    <2>3. CASE ReceiveHandoverNotify(m) \/ DeliverJoinAccept(m) \/ Lose(m)
      BY <2>3 DEF ReceiveHandoverNotify, DeliverJoinAccept, Lose
    <2>4. CASE DeliverSlaveFwd(m)
      BY <2>1, <2>4 DEF DeliverSlaveFwd, SkdcNext, HandoverKind
    <2>5. CASE DeliverKeyAck(m)
      BY <2>1, <2>5 DEF DeliverKeyAck, SkdcNext, HandoverKind
    <2> QED BY <1>7, <2>2, <2>3, <2>4, <2>5
  <1>8. CASE UNCHANGED fanetVars
    BY <1>8 DEF fanetVars
  <1> QED BY <1>1, <1>2, <1>3, <1>4, <1>5, <1>6, <1>7, <1>8 DEF FanetNext, HandoverNext

-----------------------------------------------------------------------------
(* The UAVs within the composition.                                        *)

\* Seen from the UAVs, a step delivers an MT_K, installs the key of a JOIN_ACCEPT or
\* changes nothing.
LEMMA FanetUavSteps ==
  ASSUME WellFormed, [FanetNext]_fanetVars
  PROVE  \/ UNCHANGED uavVars
         \/ \E u \in Uav, p \in MtkPacket : DeliverMtk(u, p)
         \/ \E m \in net : DeliverJoinAccept(m)
  BY DEF FanetNext, HandoverNext, fanetVars, PeriodicSync, SkdcInitialBroadcast, CallTriggerRekey,
         SkdcTimeout, MtkFades, NotifyHandover, DeliverControl, ReceiveHandoverNotify,
         DeliverSlaveFwd, DeliverKeyAck, Lose

\* A step keeps the UAVs' types and the agreement of key, cluster and slot.
LEMMA FanetUavPart ==
  ASSUME FanetInv, [FanetNext]_fanetVars
  PROVE  UavTypeOK' /\ KeyFitsPlace'
  <1>1. CASE UNCHANGED uavVars
    BY <1>1 DEF FanetInv, WellFormed, uavVars, keyVars, UavTypeOK, KeyFitsPlace
  <1>2. ASSUME NEW u \in Uav, NEW p \in MtkPacket, DeliverMtk(u, p)
        PROVE  UavTypeOK' /\ KeyFitsPlace'
    <2>1. ProcessMtkPacket(u, p) /\ DecryptMtk(u, uavCluster[u])
      BY <1>2 DEF DeliverMtk, ProcessMtkPacket, AcceptsMtk
    <2>2. uavVersion' \in [Uav -> 0 .. MaxVersion]
      BY <2>1 DEF ProcessMtkPacket, FanetInv, WellFormed, UavTypeOK, MtkPacket, Version
    <2>3. UavTypeOK'
      BY <2>1, <2>2, DecryptOwnCluster
      DEF ProcessMtkPacket, FanetInv, WellFormed, UavTypeOK
    <2> QED BY <2>1, <2>3, DecryptOwnCluster DEF FanetInv, WellFormed, KeyFitsPlace
  <1>3. ASSUME NEW m \in net, DeliverJoinAccept(m) PROVE UavTypeOK' /\ KeyFitsPlace'
    <2>1. /\ m.uav \in Uav /\ m.cluster \in Cluster /\ m.index \in Slot
          /\ m.key = <<m.cluster, m.index>> /\ m.key \in SlaveKey
      BY <1>3 DEF DeliverJoinAccept, FanetInv, WellFormed, PacketOK, HandoverKind, SlaveKey
    <2>2. ReceiveJoinAccept(m.uav, m.cluster, m.index, m.key)
      BY <1>3 DEF DeliverJoinAccept
    <2> QED BY <2>1, <2>2 DEF ReceiveJoinAccept, FanetInv, WellFormed, UavTypeOK,
                              KeyFitsPlace
  <1> QED BY <1>1, <1>2, <1>3, FanetUavSteps DEF FanetInv

-----------------------------------------------------------------------------
(* The network.                                                            *)

\* Every step keeps what packets in flight carry.
LEMMA FanetNetPart ==
  ASSUME FanetInv, [FanetNext]_fanetVars
  PROVE  \A m \in net' : PacketOK(m)
  <1>1. CASE UNCHANGED net
    BY <1>1 DEF FanetInv, WellFormed
  <1>2. CASE PeriodicSync
    <2>1. \A m \in ControlPackets : PacketOK(m)
      BY DEF ControlPackets, PacketOK, HandoverKind
    <2> QED BY <1>2, <2>1 DEF PeriodicSync, FanetInv, WellFormed
  <1>3. ASSUME NEW u \in Uav, NEW c \in Cluster, NotifyHandover(u, c)
        PROVE  \A m \in net' : PacketOK(m)
    <2>1. PacketOK(Notify(u, c))
      BY DEF PacketOK, HandoverKind, Notify
    <2> QED BY <1>3, <2>1 DEF NotifyHandover, FanetInv, WellFormed
  <1>4. ASSUME NEW m \in net, DeliverControl(m) \/ DeliverKeyAck(m) \/ Lose(m)
        PROVE  \A n \in net' : PacketOK(n)
    BY <1>4 DEF DeliverControl, DeliverKeyAck, Lose, FanetInv, WellFormed
  <1>5. ASSUME NEW m \in net, ReceiveHandoverNotify(m) PROVE \A n \in net' : PacketOK(n)
    <2>1. PacketOK(ForwardSlaveKey(m.uav, m.cluster))
      <3>1. m.uav \in Uav /\ m.cluster \in Cluster
        BY <1>5 DEF ReceiveHandoverNotify, FanetInv, WellFormed, PacketOK, HandoverKind
      <3> QED BY <3>1, SlotOfUav DEF PacketOK, HandoverKind, ForwardSlaveKey
    <2> QED BY <1>5, <2>1 DEF ReceiveHandoverNotify, FanetInv, WellFormed
  <1>6. ASSUME NEW m \in net, DeliverSlaveFwd(m) PROVE \A n \in net' : PacketOK(n)
    <2>1. PacketOK(JoinAccept(m.uav, m.cluster, m.index, m.key))
      BY <1>6 DEF DeliverSlaveFwd, FanetInv, WellFormed, PacketOK, HandoverKind, JoinAccept
    <2> QED BY <1>6, <2>1 DEF DeliverSlaveFwd, FanetInv, WellFormed
  <1>7. ASSUME NEW m \in net, DeliverJoinAccept(m) PROVE \A n \in net' : PacketOK(n)
    <2>1. PacketOK(KeyAck(m.uav, m.cluster, m.index))
      BY <1>7 DEF DeliverJoinAccept, FanetInv, WellFormed, PacketOK, HandoverKind, KeyAck
    <2> QED BY <1>7, <2>1 DEF DeliverJoinAccept, FanetInv, WellFormed
  <1> QED
    BY <1>1, <1>2, <1>3, <1>4, <1>5, <1>6, <1>7
    DEF FanetNext, HandoverNext, fanetVars, SkdcInitialBroadcast, CallTriggerRekey, SkdcTimeout,
        DeliverMtk, MtkFades

-----------------------------------------------------------------------------
(* Handover bookkeeping.                                                   *)

\* A step that moves no UAV, forgets no member and no KEY_ACK makes no orphan.
LEMMA NoNewOrphan ==
  ASSUME FanetInv, UNCHANGED uavCluster,
         \A c \in Cluster : members[c] \subseteq members'[c],
         \A m \in net \union lost : m.kind = "KEY_ACK" => m \in net' \union lost'
  PROVE  OrphanOnlyByLoss'
  <1> SUFFICES ASSUME NEW u \in Uav, u \notin members'[uavCluster[u]]
               PROVE  \E i \in Slot : KeyAck(u, uavCluster[u], i) \in net' \union lost'
    BY DEF OrphanOnlyByLoss
  <1>1. uavCluster[u] \in Cluster
    BY DEF FanetInv, WellFormed, UavTypeOK
  <1>2. PICK i \in Slot : KeyAck(u, uavCluster[u], i) \in net \union lost
    BY <1>1 DEF FanetInv, OrphanOnlyByLoss
  <1>3. KeyAck(u, uavCluster[u], i).kind = "KEY_ACK"
    BY DEF KeyAck
  <1> QED BY <1>2, <1>3

\* A step that adds no pending handover and loses track of no JOIN_ACCEPT or KEY_ACK
\* leaves no entry behind.
LEMMA NoNewPending ==
  ASSUME FanetInv, \A c \in Cluster : pendingHo'[c] \subseteq pendingHo[c],
         \A m \in net \union lost :
            m.kind \in {"JOIN_ACCEPT", "KEY_ACK"} => m \in net' \union lost'
  PROVE  PendingOnlyByLoss'
  <1> SUFFICES ASSUME NEW c \in Cluster, NEW u \in pendingHo'[c]
               PROVE  \E m \in net' \union lost' : /\ m.kind \in {"JOIN_ACCEPT", "KEY_ACK"}
                                                   /\ m.uav = u /\ m.cluster = c
    BY DEF PendingOnlyByLoss
  <1>1. PICK m \in net \union lost : /\ m.kind \in {"JOIN_ACCEPT", "KEY_ACK"}
                                     /\ m.uav = u /\ m.cluster = c
    BY DEF FanetInv, PendingOnlyByLoss
  <1> QED BY <1>1

\* The steps that are not part of the handover protocol.
LEMMA OtherStepsKeepHandovers ==
  ASSUME FanetInv,
         \/ PeriodicSync
         \/ \E c \in Cluster : SkdcInitialBroadcast(c) \/ CallTriggerRekey(c)
         \/ \E c \in Cluster, v \in Version : SkdcTimeout(c, v)
         \/ \E u \in Uav, p \in MtkPacket : DeliverMtk(u, p)
         \/ \E p \in MtkPacket : MtkFades(p)
         \/ \E u \in Uav, c \in Cluster : NotifyHandover(u, c)
         \/ \E m \in net : DeliverControl(m)
         \/ \E m \in net : ReceiveHandoverNotify(m)
         \/ \E m \in net : Lose(m)
         \/ UNCHANGED fanetVars
  PROVE  /\ UNCHANGED <<uavCluster, members, pendingHo>>
         /\ \A m \in net \union lost :
              m.kind \in {"JOIN_ACCEPT", "KEY_ACK"} => m \in net' \union lost'
  <1>1. CASE PeriodicSync
    BY <1>1 DEF PeriodicSync, skdcVars, uavVars, keyVars
  <1>2. ASSUME NEW c \in Cluster, SkdcInitialBroadcast(c) \/ CallTriggerRekey(c)
        PROVE  UNCHANGED <<uavCluster, members, pendingHo, net, lost>>
    BY <1>2 DEF SkdcInitialBroadcast, CallTriggerRekey, InitialBroadcast, TriggerRekey,
                uavVars, keyVars
  <1>3. ASSUME NEW c \in Cluster, NEW v \in Version, SkdcTimeout(c, v)
        PROVE  UNCHANGED <<uavCluster, members, pendingHo, net, lost>>
    BY <1>3 DEF SkdcTimeout, RekeyTimeout, uavVars, keyVars
  <1>4. ASSUME NEW u \in Uav, NEW p \in MtkPacket, DeliverMtk(u, p)
        PROVE  UNCHANGED <<uavCluster, members, pendingHo, net, lost>>
    <2>1. DecryptMtk(u, uavCluster[u])
      BY <1>4 DEF DeliverMtk, ProcessMtkPacket, AcceptsMtk
    <2>2. UNCHANGED uavCluster
      BY <2>1, DecryptOwnCluster DEF FanetInv, WellFormed
    <2>3. OnUavRekeyAck(Home(u), u, p.version) \/ UNCHANGED skdcVars
      BY <1>4 DEF DeliverMtk
    <2>4. UNCHANGED <<members, pendingHo>>
      BY <2>3 DEF OnUavRekeyAck, skdcVars
    <2> QED BY <1>4, <2>2, <2>4 DEF DeliverMtk
  <1>5. ASSUME NEW p \in MtkPacket, MtkFades(p)
        PROVE  UNCHANGED <<uavCluster, members, pendingHo, net, lost>>
    BY <1>5 DEF MtkFades, Fade, uavVars, keyVars
  <1>6. ASSUME NEW u \in Uav, NEW c \in Cluster, NotifyHandover(u, c)
        PROVE  UNCHANGED <<uavCluster, members, pendingHo, lost>> /\ net \subseteq net'
    BY <1>6 DEF NotifyHandover, skdcVars, uavVars, keyVars
  <1>7. ASSUME NEW m \in net, DeliverControl(m) \/ ReceiveHandoverNotify(m)
        PROVE  /\ UNCHANGED <<uavCluster, members, pendingHo, lost>>
               /\ net \ {m} \subseteq net' /\ m.kind \in {"CONTROL", "NOTIFY"}
    BY <1>7 DEF DeliverControl, ReceiveHandoverNotify, ReceiveFromKdc, skdcVars, uavVars,
                keyVars
  <1>8. ASSUME NEW m \in net, Lose(m)
        PROVE  /\ UNCHANGED <<uavCluster, members, pendingHo>>
               /\ net \union lost \subseteq net' \union lost'
    BY <1>8 DEF Lose, skdcVars, uavVars, keyVars
  <1>9. CASE UNCHANGED fanetVars
    BY <1>9 DEF fanetVars, skdcVars, uavVars, keyVars
  <1> QED BY <1>1, <1>2, <1>3, <1>4, <1>5, <1>6, <1>7, <1>8, <1>9 DEF PeriodicSync

\* Every step keeps the two properties about lost handover packets.
LEMMA FanetHandoverPart ==
  ASSUME FanetInv, [FanetNext]_fanetVars
  PROVE  OrphanOnlyByLoss' /\ PendingOnlyByLoss'
  <1>1. ASSUME NEW m \in net, DeliverSlaveFwd(m)
        PROVE  OrphanOnlyByLoss' /\ PendingOnlyByLoss'
    <2>1. /\ m.kind = "SLAVE_FWD"
          /\ pendingHo' = [pendingHo EXCEPT ![m.cluster] = @ \union {m.uav}]
          /\ UNCHANGED <<uavCluster, members, lost>>
          /\ net' = (net \ {m}) \union {JoinAccept(m.uav, m.cluster, m.index, m.key)}
      BY <1>1 DEF DeliverSlaveFwd, ReceiveSlaveKeyFwd, uavVars, keyVars
    <2>2. OrphanOnlyByLoss'
      BY <2>1, NoNewOrphan
    <2>3. ASSUME NEW c \in Cluster, NEW u \in pendingHo'[c]
          PROVE  \E n \in net' \union lost' : /\ n.kind \in {"JOIN_ACCEPT", "KEY_ACK"}
                                              /\ n.uav = u /\ n.cluster = c
      <3>1. CASE c = m.cluster /\ u = m.uav
        <4> DEFINE ja == JoinAccept(m.uav, m.cluster, m.index, m.key)
        <4>1. ja \in net' \union lost'
          BY <2>1
        <4>2. ja.kind = "JOIN_ACCEPT" /\ ja.uav = m.uav /\ ja.cluster = m.cluster
          BY DEF JoinAccept
        <4> HIDE DEF ja
        <4> QED BY <3>1, <4>1, <4>2
      <3>2. CASE ~(c = m.cluster /\ u = m.uav)
        <4>1. u \in pendingHo[c]
          BY <2>1, <2>3, <3>2 DEF FanetInv, WellFormed, SkdcTypeOK
        <4>2. PICK n \in net \union lost : /\ n.kind \in {"JOIN_ACCEPT", "KEY_ACK"}
                                           /\ n.uav = u /\ n.cluster = c
          BY <4>1 DEF FanetInv, PendingOnlyByLoss
        <4> QED BY <2>1, <4>2
      <3> QED BY <3>1, <3>2
    <2>4. PendingOnlyByLoss'
      BY <2>3 DEF PendingOnlyByLoss
    <2> QED BY <2>2, <2>4
  <1>2. ASSUME NEW m \in net, DeliverJoinAccept(m)
        PROVE  OrphanOnlyByLoss' /\ PendingOnlyByLoss'
    <2> DEFINE ack == KeyAck(m.uav, m.cluster, m.index)
    <2>1. /\ m.kind = "JOIN_ACCEPT" /\ m.uav \in Uav /\ m.index \in Slot
          /\ uavCluster' = [uavCluster EXCEPT ![m.uav] = m.cluster]
          /\ UNCHANGED <<members, pendingHo, lost>>
          /\ net' = (net \ {m}) \union {ack}
      BY <1>2 DEF DeliverJoinAccept, ReceiveJoinAccept, skdcVars, FanetInv, WellFormed,
                  PacketOK, HandoverKind
    <2>2. /\ ack.kind = "KEY_ACK" /\ ack.uav = m.uav /\ ack.cluster = m.cluster
      BY DEF KeyAck
    <2>3. ASSUME NEW u \in Uav, u \notin members'[uavCluster'[u]]
          PROVE  \E i \in Slot : KeyAck(u, uavCluster'[u], i) \in net' \union lost'
      <3>1. CASE u = m.uav
        BY <2>1, <3>1 DEF FanetInv, WellFormed, UavTypeOK
      <3>2. CASE u # m.uav
        <4>1. uavCluster'[u] = uavCluster[u]
          BY <2>1, <3>2 DEF FanetInv, WellFormed, UavTypeOK
        <4>2. PICK i \in Slot : KeyAck(u, uavCluster[u], i) \in net \union lost
          BY <2>1, <2>3, <4>1 DEF FanetInv, OrphanOnlyByLoss
        <4>3. KeyAck(u, uavCluster[u], i).kind = "KEY_ACK"
          BY DEF KeyAck
        <4> QED BY <2>1, <4>1, <4>2, <4>3
      <3> QED BY <3>1, <3>2
    <2>4. ASSUME NEW c \in Cluster, NEW u \in pendingHo'[c]
          PROVE  \E n \in net' \union lost' : /\ n.kind \in {"JOIN_ACCEPT", "KEY_ACK"}
                                              /\ n.uav = u /\ n.cluster = c
      <3>1. PICK n \in net \union lost : /\ n.kind \in {"JOIN_ACCEPT", "KEY_ACK"}
                                         /\ n.uav = u /\ n.cluster = c
        BY <2>1, <2>4 DEF FanetInv, PendingOnlyByLoss
      <3>2. CASE n = m
        <4>1. ack \in net' \union lost'
          BY <2>1
        <4> HIDE DEF ack
        <4> QED BY <2>2, <3>1, <3>2, <4>1
      <3>3. CASE n # m
        BY <2>1, <3>1, <3>3
      <3> QED BY <3>2, <3>3
    <2>5. OrphanOnlyByLoss'
      BY <2>3 DEF OrphanOnlyByLoss
    <2>6. PendingOnlyByLoss'
      BY <2>4 DEF PendingOnlyByLoss
    <2> QED BY <2>5, <2>6
  <1>3. ASSUME NEW m \in net, DeliverKeyAck(m)
        PROVE  OrphanOnlyByLoss' /\ PendingOnlyByLoss'
    <2>1. /\ m.kind = "KEY_ACK" /\ m.cluster \in Cluster
          /\ m = KeyAck(m.uav, m.cluster, m.index)
          /\ members'   = [members EXCEPT ![m.cluster] = @ \union {m.uav}]
          /\ pendingHo' = [pendingHo EXCEPT ![m.cluster] = @ \ {m.uav}]
          /\ net' = net \ {m}
          /\ UNCHANGED <<uavCluster, lost>>
      BY <1>3 DEF DeliverKeyAck, ReceiveKeyAck, JoinCore, uavVars, keyVars, FanetInv,
                  WellFormed, PacketOK, HandoverKind
    <2>2. ASSUME NEW u \in Uav, u \notin members'[uavCluster'[u]]
          PROVE  \E i \in Slot : KeyAck(u, uavCluster'[u], i) \in net' \union lost'
      <3>1. uavCluster[u] \in Cluster /\ u \notin members[uavCluster[u]]
        BY <2>1, <2>2 DEF FanetInv, WellFormed, UavTypeOK, SkdcTypeOK
      <3>2. PICK i \in Slot : KeyAck(u, uavCluster[u], i) \in net \union lost
        BY <3>1 DEF FanetInv, OrphanOnlyByLoss
      <3>3. ~(u = m.uav /\ uavCluster[u] = m.cluster)
        BY <2>1, <2>2 DEF FanetInv, WellFormed, SkdcTypeOK
      <3>4. KeyAck(u, uavCluster[u], i) # m
        BY <3>3 DEF KeyAck
      <3> QED BY <2>1, <3>2, <3>4
    <2>3. ASSUME NEW c \in Cluster, NEW u \in pendingHo'[c]
          PROVE  \E n \in net' \union lost' : /\ n.kind \in {"JOIN_ACCEPT", "KEY_ACK"}
                                              /\ n.uav = u /\ n.cluster = c
      <3>1. u \in pendingHo[c] /\ ~(u = m.uav /\ c = m.cluster)
        BY <2>1, <2>3 DEF FanetInv, WellFormed, SkdcTypeOK
      <3>2. PICK n \in net \union lost : /\ n.kind \in {"JOIN_ACCEPT", "KEY_ACK"}
                                         /\ n.uav = u /\ n.cluster = c
        BY <3>1 DEF FanetInv, PendingOnlyByLoss
      <3> QED BY <2>1, <3>1, <3>2
    <2>4. OrphanOnlyByLoss'
      BY <2>2 DEF OrphanOnlyByLoss
    <2>5. PendingOnlyByLoss'
      BY <2>3 DEF PendingOnlyByLoss
    <2> QED BY <2>4, <2>5
  <1>4. CASE UNCHANGED <<uavCluster, members, pendingHo>>
             /\ \A m \in net \union lost :
                  m.kind \in {"JOIN_ACCEPT", "KEY_ACK"} => m \in net' \union lost'
    BY <1>4, NoNewOrphan, NoNewPending
  <1> QED BY <1>1, <1>2, <1>3, <1>4, OtherStepsKeepHandovers DEF FanetNext, HandoverNext

-----------------------------------------------------------------------------
(* Theorems.                                                               *)

\* The invariant holds initially.
LEMMA FanetInitial == FanetInit => FanetInv
  <1> SUFFICES ASSUME FanetInit PROVE FanetInv
    OBVIOUS
  <1>1. SkdcTypeOK /\ UavTypeOK
    BY InitialTypes, UavInitInv DEF FanetInit, UavInv
  <1>2. KeyFitsPlace
    BY DEF FanetInit, UavInit, KeyFitsPlace
  <1>3. ASSUME NEW u \in Uav PROVE u \in members[uavCluster[u]]
    <2>1. PICK c \in Cluster, i \in Slot : u = UavId(c, i)
      BY DEF Uav
    <2>2. uavCluster[u] = c
      BY <2>1, HomeOfUavId DEF FanetInit, UavInit
    <2>3. members[c] = {UavId(c, j) : j \in Slot}
      BY DEF FanetInit, SkdcInit, InitializeState
    <2> QED BY <2>1, <2>2, <2>3
  <1>4. OrphanOnlyByLoss
    BY <1>3 DEF OrphanOnlyByLoss
  <1>5. PendingOnlyByLoss /\ \A m \in net : PacketOK(m)
    BY DEF FanetInit, SkdcInit, PendingOnlyByLoss
  <1> QED BY <1>1, <1>2, <1>4, <1>5 DEF FanetInv, WellFormed

\* Every step keeps it.
LEMMA FanetStep == FanetInv /\ [FanetNext]_fanetVars => FanetInv'
  <1> SUFFICES ASSUME FanetInv, [FanetNext]_fanetVars PROVE FanetInv'
    OBVIOUS
  <1>1. SkdcTypeOK'
    BY FanetStepIsSkdcStep, TypePreserved DEF FanetInv, WellFormed
  <1>2. UavTypeOK' /\ KeyFitsPlace'
    BY FanetUavPart
  <1>3. (\A m \in net : PacketOK(m))'
    BY FanetNetPart DEF PacketOK, HandoverKind
  <1>4. OrphanOnlyByLoss' /\ PendingOnlyByLoss'
    BY FanetHandoverPart
  <1> QED BY <1>1, <1>2, <1>3, <1>4 DEF FanetInv, WellFormed

\* The inductive invariant holds in every reachable state of the composition.
THEOREM FanetInvariant == FanetSpec => []FanetInv
  BY FanetInitial, FanetStep, PTL DEF FanetSpec

\* Types and packets are always well formed.
THEOREM FanetTypeCorrect == FanetSpec => []FanetTypeOK
  <1> DEFINE Kinds == \A m \in net : m.kind \in HandoverKind \union {"CONTROL"}
  <1>1. FanetInit => Kinds
    BY DEF FanetInit
  <1>2. Kinds /\ [FanetNext]_fanetVars => Kinds'
    <2> SUFFICES ASSUME Kinds, [FanetNext]_fanetVars PROVE Kinds'
      OBVIOUS
    <2> USE DEF HandoverKind
    <2>1. ASSUME NEW m \in net,
                 \/ DeliverControl(m) \/ ReceiveHandoverNotify(m) \/ DeliverSlaveFwd(m)
                 \/ DeliverJoinAccept(m) \/ DeliverKeyAck(m) \/ Lose(m)
          PROVE  Kinds'
      BY <2>1 DEF DeliverControl, ReceiveHandoverNotify, DeliverSlaveFwd, DeliverJoinAccept,
                  DeliverKeyAck, Lose, ForwardSlaveKey, JoinAccept, KeyAck
    <2>2. CASE PeriodicSync
      BY <2>2 DEF PeriodicSync, ControlPackets
    <2>3. ASSUME NEW u \in Uav, NEW c \in Cluster, NotifyHandover(u, c) PROVE Kinds'
      BY <2>3 DEF NotifyHandover, Notify
    <2>4. CASE UNCHANGED net
      BY <2>4
    <2> QED
      BY <2>1, <2>2, <2>3, <2>4
      DEF FanetNext, HandoverNext, fanetVars, SkdcInitialBroadcast, CallTriggerRekey, SkdcTimeout,
          DeliverMtk, MtkFades
  <1>3. FanetInv /\ Kinds => FanetTypeOK
    BY DEF FanetInv, WellFormed, FanetTypeOK
  <1> QED BY <1>1, <1>2, <1>3, FanetInvariant, PTL DEF FanetSpec

\* However packets are lost, delayed and reordered, a UAV is unknown to its SKDC only
\* while its KEY_ACK is in flight or because it was lost.
THEOREM OrphansAreLosses == FanetSpec => []OrphanOnlyByLoss
  <1>1. FanetInv => OrphanOnlyByLoss
    BY DEF FanetInv
  <1> QED BY FanetInvariant, <1>1, PTL

\* A handover is pending at an SKDC only while its JOIN_ACCEPT or KEY_ACK is in flight, or
\* because one was lost.
THEOREM PendingsAreLosses == FanetSpec => []PendingOnlyByLoss
  <1>1. FanetInv => PendingOnlyByLoss
    BY DEF FanetInv
  <1> QED BY FanetInvariant, <1>1, PTL

\* A step that advances a UAV's version leaves it with a valid TEK.
LEMMA AcceptedDecrypts ==
  ASSUME FanetInv, [FanetNext]_fanetVars
  PROVE  \A u \in Uav : uavVersion'[u] # uavVersion[u] => tekValid'[u]
  <1> DEFINE Good == \A u \in Uav : uavVersion'[u] # uavVersion[u] => tekValid'[u]
  <1>1. CASE UNCHANGED uavVars
    BY <1>1 DEF uavVars
  <1>2. ASSUME NEW w \in Uav, NEW p \in MtkPacket, DeliverMtk(w, p) PROVE Good
    <2>1. /\ ProcessMtkPacket(w, p) /\ p.cluster = uavCluster[w]
          /\ DecryptMtk(w, uavCluster[w])
      BY <1>2 DEF DeliverMtk, ProcessMtkPacket, AcceptsMtk
    <2>2. OwnKeyOpens(w, uavCluster[w])
      BY DEF FanetInv, KeyFitsPlace, OwnKeyOpens
    <2>3. tekValid'[w]
      BY <2>1, <2>2 DEF DecryptMtk, Decrypts, FanetInv, WellFormed, UavTypeOK
    <2>4. uavVersion' = [uavVersion EXCEPT ![w] = p.version]
      BY <2>1 DEF ProcessMtkPacket
    <2> QED BY <2>3, <2>4 DEF FanetInv, WellFormed, UavTypeOK
  <1>3. ASSUME NEW m \in net, DeliverJoinAccept(m) PROVE Good
    BY <1>3 DEF DeliverJoinAccept, ReceiveJoinAccept
  <1> QED BY <1>1, <1>2, <1>3, FanetUavSteps DEF FanetInv

\* No MT_K is ever consumed in vain: whenever a UAV's version advances, it could
\* decrypt the MT_K that advanced it.
THEOREM MtkNeverWasted == FanetSpec => AcceptedMtkDecrypts
  <1> DEFINE Good == \A u \in Uav : uavVersion'[u] # uavVersion[u] => tekValid'[u]
  <1>1. FanetInv /\ [FanetNext]_fanetVars => [Good]_fanetVars
    BY AcceptedDecrypts
  <1> QED BY <1>1, FanetInvariant, PTL DEF FanetSpec, AcceptedMtkDecrypts

\* A UAV takes its slot along: ForwardSlaveKey computes it from the UAV number alone.
SlotInv ==
    /\ \A u \in Uav : uavIndex[u] = HomeSlot(u)
    /\ \A m \in net : m.kind \in {"SLAVE_FWD", "JOIN_ACCEPT"} => m.index = HomeSlot(m.uav)

\* Every step keeps slave keys at the slot of their UAV.
LEMMA SlotStep ==
  ASSUME FanetInv, SlotInv, [FanetNext]_fanetVars
  PROVE  SlotInv'
  <1>1. \A u \in Uav : uavIndex'[u] = HomeSlot(u)
    <2>1. CASE UNCHANGED uavVars
      BY <2>1 DEF uavVars, keyVars, SlotInv
    <2>2. ASSUME NEW w \in Uav, NEW p \in MtkPacket, DeliverMtk(w, p)
          PROVE  UNCHANGED uavIndex
      BY <2>2 DEF DeliverMtk, ProcessMtkPacket, DecryptMtk
    <2>3. ASSUME NEW m \in net, DeliverJoinAccept(m)
          PROVE  \A u \in Uav : uavIndex'[u] = HomeSlot(u)
      <3>1. /\ m.index = HomeSlot(m.uav) /\ uavIndex' = [uavIndex EXCEPT ![m.uav] = m.index]
            /\ uavIndex \in [Uav -> Slot]
        BY <2>3 DEF DeliverJoinAccept, ReceiveJoinAccept, SlotInv, FanetInv, WellFormed,
                    UavTypeOK
      <3> QED BY <3>1 DEF SlotInv
    <2> QED BY <2>1, <2>2, <2>3, FanetUavSteps DEF SlotInv, FanetInv
  <1> DEFINE Kept(n) == n.kind \in {"SLAVE_FWD", "JOIN_ACCEPT"} => n.index = HomeSlot(n.uav)
  <1>2. \A n \in net' : Kept(n)
    <2>0. \A n \in net : Kept(n)
      BY DEF SlotInv
    <2>1. CASE PeriodicSync
      BY <2>0, <2>1 DEF PeriodicSync, ControlPackets
    <2>2. ASSUME NEW u \in Uav, NEW c \in Cluster, NotifyHandover(u, c)
          PROVE  \A n \in net' : Kept(n)
      BY <2>0, <2>2 DEF NotifyHandover, Notify
    <2>3. ASSUME NEW m \in net, DeliverControl(m) \/ DeliverKeyAck(m) \/ Lose(m)
          PROVE  net' \subseteq net
      BY <2>3 DEF DeliverControl, DeliverKeyAck, Lose
    <2>4. ASSUME NEW m \in net, ReceiveHandoverNotify(m) PROVE \A n \in net' : Kept(n)
      <3>1. Kept(ForwardSlaveKey(m.uav, m.cluster))
        BY DEF ForwardSlaveKey, HomeSlot
      <3> QED BY <2>0, <2>4, <3>1 DEF ReceiveHandoverNotify
    <2>5. ASSUME NEW m \in net, DeliverSlaveFwd(m) PROVE \A n \in net' : Kept(n)
      <3>1. Kept(JoinAccept(m.uav, m.cluster, m.index, m.key))
        BY <2>0, <2>5 DEF DeliverSlaveFwd, JoinAccept
      <3> QED BY <2>0, <2>5, <3>1 DEF DeliverSlaveFwd
    <2>6. ASSUME NEW m \in net, DeliverJoinAccept(m) PROVE \A n \in net' : Kept(n)
      <3>1. Kept(KeyAck(m.uav, m.cluster, m.index))
        BY DEF KeyAck
      <3> QED BY <2>0, <2>6, <3>1 DEF DeliverJoinAccept
    <2>7. CASE UNCHANGED net
      BY <2>0, <2>7
    <2> QED
      BY <2>0, <2>1, <2>2, <2>3, <2>4, <2>5, <2>6, <2>7
      DEF FanetNext, HandoverNext, fanetVars, SkdcInitialBroadcast, CallTriggerRekey, SkdcTimeout,
          DeliverMtk, MtkFades
  <1>3. (\A m \in net : Kept(m))'
    BY <1>2
  <1> QED BY <1>1, <1>3 DEF SlotInv

\* Two UAVs that started in the same cluster never hold the same slave key, wherever and in
\* whatever order they move: the slot that ForwardSlaveKey computes is shared only by UAVs
\* of different origin.
KeySharedOnlyAcrossHomes ==
    \A u, w \in Uav : (u # w /\ slaveKey[u] = slaveKey[w]) => Home(u) # Home(w)

\* Slave keys are shared only by UAVs of different origin, for any number of handovers.
THEOREM KeysSharedAcrossHomes == FanetSpec => []KeySharedOnlyAcrossHomes
  <1>1. FanetInit => SlotInv
    BY DEF FanetInit, UavInit, SlotInv
  <1>2. FanetInv /\ SlotInv /\ [FanetNext]_fanetVars => SlotInv'
    BY SlotStep
  <1>3. FanetInv /\ SlotInv => KeySharedOnlyAcrossHomes
    <2> SUFFICES ASSUME FanetInv, SlotInv, NEW u \in Uav, NEW w \in Uav,
                        slaveKey[u] = slaveKey[w], Home(u) = Home(w)
                 PROVE  u = w
      BY DEF KeySharedOnlyAcrossHomes
    <2>1. PICK c \in Cluster, i \in Slot : u = UavId(c, i)
      BY DEF Uav
    <2>2. PICK d \in Cluster, j \in Slot : w = UavId(d, j)
      BY DEF Uav
    <2>3. HomeSlot(u) = HomeSlot(w)
      BY DEF FanetInv, KeyFitsPlace, SlotInv
    <2> QED BY <2>1, <2>2, <2>3, HomeOfUavId
  <1> QED BY <1>1, <1>2, <1>3, FanetInvariant, PTL DEF FanetSpec

\* The composition implements the open specification of the SKDCs, so what is
\* proved of them alone holds in it.
THEOREM FanetImplementsSkdc == FanetSpec => SkdcSpec
  <1>1. FanetInit => SkdcInit
    BY DEF FanetInit
  <1>2. FanetInv /\ [FanetNext]_fanetVars => [SkdcNext]_skdcVars
    BY FanetStepIsSkdcStep DEF FanetInv
  <1> QED BY <1>1, <1>2, FanetInvariant, PTL DEF FanetSpec, SkdcSpec

\* In the whole system, too, each rekey is reported exactly once.
THEOREM FanetRekeysReportedOnce == FanetSpec => []EveryRekeyReportedOnce
  BY FanetImplementsSkdc, RekeysReportedOnce, PTL

\* Seen from the UAVs, every step of the composition is one of theirs.
LEMMA FanetStepIsUavStep ==
  ASSUME FanetInv, [FanetNext]_fanetVars
  PROVE  [UavNext]_uavVars
  <1>1. ASSUME NEW u \in Uav, NEW p \in MtkPacket, DeliverMtk(u, p) PROVE UavNext
    BY <1>1 DEF DeliverMtk, UavNext
  <1>2. ASSUME NEW m \in net, DeliverJoinAccept(m) PROVE UavNext
    <2>1. /\ m.uav \in Uav /\ m.cluster \in Cluster /\ m.index \in Slot
          /\ m.key = <<m.cluster, m.index>> /\ m.key \in SlaveKey
      BY <1>2 DEF DeliverJoinAccept, FanetInv, WellFormed, PacketOK, HandoverKind, SlaveKey
    <2> QED BY <1>2, <2>1 DEF DeliverJoinAccept, UavNext
  <1> QED BY <1>1, <1>2, FanetUavSteps DEF FanetInv

\* The composition implements the open specification of the UAVs as well.
THEOREM FanetImplementsUav == FanetSpec => UavSpec
  <1>1. FanetInit => UavInit
    BY DEF FanetInit
  <1>2. FanetInv /\ [FanetNext]_fanetVars => [UavNext]_uavVars
    BY FanetStepIsUavStep
  <1> QED BY <1>1, <1>2, FanetInvariant, PTL DEF FanetSpec, UavSpec

\* In the whole system, too, no UAV ever leaves the keys of its first cluster, whichever
\* rekeys and handovers there are.
THEOREM FanetHomeKeysForever == FanetSpec => []UavKeepsHomeKeys
  BY FanetImplementsUav, HomeKeysForever, PTL

-----------------------------------------------------------------------------
(* The rows of the latency CSV and what the UAVs received.                 *)

\* Every acknowledgement an SKDC counts is of a UAV that started in its cluster and has
\* accepted an MT_K of that version, if perhaps that of another cluster.
AckHeard ==
    \A c \in Cluster : \A a \in ackMap[c] :
        Home(a[2]) = c /\ \E d \in Cluster : <<a[2], d, a[1]>> \in heard

\* A row OK of the latency CSV needs as many receipts of exactly that version as the cluster
\* has members, each by another UAV that started in the cluster: with any number of
\* handovers, though the UAVs counted need not be the members.
OkRowCountsReceipts ==
    [][\A c \in Cluster, v \in Version :
         RowWritten(c, v, "OK")
           => \E S \in SUBSET {u \in Uav : Home(u) = c} :
                 /\ Cardinality(S) >= Cardinality(members[c])
                 /\ \A u \in S : \E d \in Cluster : <<u, d, v>> \in heard']_receiptVars

\* What a delivery adds to the acknowledgements, it also adds to the receipts.
LEMMA DeliveredIsHeard ==
  ASSUME FanetInv, ReceiptsNext, NEW u \in Uav, NEW p \in MtkPacket, DeliverMtk(u, p)
  PROVE  <<u, uavCluster[u], p.version>> \in heard' /\ uavCluster[u] \in Cluster
  <1>1. /\ uavVersion' = [uavVersion EXCEPT ![u] = p.version] /\ p.version > uavVersion[u]
        /\ p.version \in Nat
    BY DEF DeliverMtk, ProcessMtkPacket, AcceptsMtk, MtkPacket, Version
  <1>2. uavVersion \in [Uav -> 0 .. MaxVersion] /\ uavCluster \in [Uav -> Cluster]
    BY DEF FanetInv, WellFormed, UavTypeOK
  <1>3. uavVersion'[u] = p.version /\ uavVersion'[u] # uavVersion[u]
    BY <1>1, <1>2, MaxVersionAssumption
  <1>4. <<u, uavCluster[u], p.version>> \in Receipts
    BY <1>3 DEF Receipts
  <1> QED BY <1>2, <1>4 DEF ReceiptsNext

\* The acknowledgements and rows that a step can add: only a delivery acknowledges, and
\* only a delivery that completes the count writes OK.
LEMMA AckSteps ==
  ASSUME FanetInv, [FanetNext]_fanetVars, NEW c \in Cluster
  PROVE  /\ \A a \in ackMap'[c] :
              \/ a \in ackMap[c]
              \/ \E u \in Uav, p \in MtkPacket :
                    DeliverMtk(u, p) /\ c = Home(u) /\ a = <<p.version, u>>
         /\ \A v \in Version : RowWritten(c, v, "OK") =>
              \E u \in Uav, p \in MtkPacket :
                 /\ DeliverMtk(u, p) /\ c = Home(u) /\ v = p.version
                 /\ Cardinality(AckedBy(c, v) \union {u}) >= Cardinality(members[c])
  <1> DEFINE NewAck(a) == \E u \in Uav, p \in MtkPacket :
                             DeliverMtk(u, p) /\ c = Home(u) /\ a = <<p.version, u>>
             Counted(v) == \E u \in Uav, p \in MtkPacket :
                 /\ DeliverMtk(u, p) /\ c = Home(u) /\ v = p.version
                 /\ Cardinality(AckedBy(c, v) \union {u}) >= Cardinality(members[c])
             Goal == /\ \A a \in ackMap'[c] : a \in ackMap[c] \/ NewAck(a)
                     /\ \A v \in Version : RowWritten(c, v, "OK") => Counted(v)
  <1>0. SkdcTypeOK
    BY DEF FanetInv, WellFormed
  <1>1. CASE UNCHANGED <<ackMap, latencyRows>>
    BY <1>1 DEF RowWritten
  <1>2. ASSUME NEW d \in Cluster, RekeyCore(d) PROVE Goal
    <2>1. ackMap'[c] \subseteq ackMap[c] /\ UNCHANGED latencyRows
      BY <1>0, <1>2 DEF RekeyCore, SkdcTypeOK
    <2> QED BY <2>1 DEF RowWritten
  <1>3. ASSUME NEW d \in Cluster, NEW w \in Version, SkdcTimeout(d, w) PROVE Goal
    <2>1. CloseRekey(d, w, ackMap[d], "TIMEOUT") \/ UNCHANGED <<ackMap, latencyRows>>
      BY <1>3 DEF SkdcTimeout, RekeyTimeout
    <2>2. CASE CloseRekey(d, w, ackMap[d], "TIMEOUT")
      <3>1. ackMap'[c] \subseteq ackMap[c]
        BY <1>0, <2>2 DEF CloseRekey, SkdcTypeOK
      <3>2. ASSUME NEW v \in Version, latencyRows'[c][v] # latencyRows[c][v]
            PROVE  latencyRows'[c][v] # <<"OK">>
        <4>1. latencyRows' = [latencyRows EXCEPT ![d][w] = Append(@, "TIMEOUT")]
          BY <2>2 DEF CloseRekey
        <4>2. latencyRows'[c][v] = Append(latencyRows[c][v], "TIMEOUT")
          BY <1>0, <3>2, <4>1 DEF SkdcTypeOK
        <4>3. latencyRows[c][v] \in Seq(Status) /\ "TIMEOUT" \in Status
          BY <1>0 DEF SkdcTypeOK, Status
        <4>4. ASSUME NEW q \in Seq(Status), q = <<"OK">> PROVE q[Len(q)] # "TIMEOUT"
          BY <4>4
        <4>5. /\ Append(latencyRows[c][v], "TIMEOUT") \in Seq(Status)
              /\ Append(latencyRows[c][v], "TIMEOUT")[Len(Append(latencyRows[c][v], "TIMEOUT"))]
                   = "TIMEOUT"
          BY <4>3
        <4> QED BY <4>2, <4>4, <4>5
      <3> QED BY <3>1, <3>2 DEF RowWritten
    <2> QED BY <1>1, <2>1, <2>2
  <1>4. ASSUME NEW u \in Uav, NEW p \in MtkPacket, DeliverMtk(u, p) PROVE Goal
    <2> DEFINE h == Home(u)
               v == p.version
               acks == ackMap[h] \union {<<v, u>>}
    <2>1. h \in Cluster /\ v \in Version
      BY HomeType DEF MtkPacket
    <2>2. \/ UNCHANGED <<ackMap, latencyRows>>
          \/ /\ Cardinality(AckedBy(h, v) \union {u}) >= Cardinality(members[h])
             /\ CloseRekey(h, v, acks, "OK")
          \/ ackMap' = [ackMap EXCEPT ![h] = acks] /\ UNCHANGED latencyRows
      <3>1. OnUavRekeyAck(h, u, v) \/ UNCHANGED skdcVars
        BY <1>4 DEF DeliverMtk
      <3> QED BY <3>1 DEF OnUavRekeyAck, skdcVars, ledgerVars
    <2>3. ASSUME ackMap'[c] \subseteq (IF c = h THEN acks ELSE ackMap[c])
          PROVE  \A a \in ackMap'[c] : a \in ackMap[c] \/ NewAck(a)
      <3> SUFFICES ASSUME NEW a \in ackMap'[c], a \notin ackMap[c] PROVE NewAck(a)
        OBVIOUS
      <3>1. c = Home(u) /\ a = <<p.version, u>>
        BY <2>3
      <3> QED BY <1>4, <3>1
    <2>4. CASE CloseRekey(h, v, acks, "OK")
                /\ Cardinality(AckedBy(h, v) \union {u}) >= Cardinality(members[h])
      <3>1. ackMap'[c] \subseteq (IF c = h THEN acks ELSE ackMap[c])
        BY <1>0, <2>1, <2>4 DEF CloseRekey, SkdcTypeOK
      <3>2. ASSUME NEW w \in Version, latencyRows'[c][w] # latencyRows[c][w]
            PROVE  c = h /\ w = v
        BY <1>0, <2>1, <2>4, <3>2 DEF CloseRekey, SkdcTypeOK
      <3>3. ASSUME NEW w \in Version, RowWritten(c, w, "OK") PROVE Counted(w)
        <4>1. c = Home(u) /\ w = p.version
          BY <3>2, <3>3 DEF RowWritten
        <4> QED BY <1>4, <2>4, <4>1
      <3> QED BY <2>3, <3>1, <3>3
    <2>5. CASE ackMap' = [ackMap EXCEPT ![h] = acks] /\ UNCHANGED latencyRows
      <3>1. ackMap'[c] \subseteq (IF c = h THEN acks ELSE ackMap[c])
        BY <1>0, <2>1, <2>5 DEF SkdcTypeOK
      <3> QED BY <2>3, <2>5, <3>1 DEF RowWritten
    <2> QED BY <1>1, <2>2, <2>4, <2>5
  <1>5. ASSUME NEW m \in net, DeliverKeyAck(m) PROVE Goal
    <2>1. m.cluster \in Cluster /\ RekeyCore(m.cluster)
      BY <1>5 DEF DeliverKeyAck, ReceiveKeyAck, JoinCore, FanetInv, WellFormed, PacketOK, HandoverKind
    <2> QED BY <1>2, <2>1
  <1>6. ASSUME NEW d \in Cluster, CallTriggerRekey(d) PROVE Goal
    BY <1>2, <1>6 DEF CallTriggerRekey, TriggerRekey
  <1>7. \/ UNCHANGED <<ackMap, latencyRows>>
        \/ \E d \in Cluster : CallTriggerRekey(d)
        \/ \E d \in Cluster, w \in Version : SkdcTimeout(d, w)
        \/ \E u \in Uav, p \in MtkPacket : DeliverMtk(u, p)
        \/ \E m \in net : DeliverKeyAck(m)
    BY DEF FanetNext, HandoverNext, fanetVars, PeriodicSync, SkdcInitialBroadcast, InitialBroadcast,
           MtkFades, Fade, NotifyHandover, DeliverControl, ReceiveFromKdc,
           ReceiveHandoverNotify, DeliverSlaveFwd, ReceiveSlaveKeyFwd, DeliverJoinAccept,
           Lose, skdcVars, ledgerVars
  <1> QED BY <1>1, <1>3, <1>4, <1>5, <1>6, <1>7

\* The history variable restricts nothing.
LEMMA ReceiptsImplementFanet == ReceiptsSpec => FanetSpec
  <1>1. ReceiptsInit => FanetInit
    BY DEF ReceiptsInit
  <1>2. [ReceiptsNext]_receiptVars => [FanetNext]_fanetVars
    BY DEF ReceiptsNext, receiptVars
  <1> QED BY <1>1, <1>2, PTL DEF ReceiptsSpec, FanetSpec

\* Every step keeps the acknowledgements within the receipts.
LEMMA AckHeardStep ==
  ASSUME FanetInv, AckHeard, [ReceiptsNext]_receiptVars
  PROVE  AckHeard'
  <1>1. CASE UNCHANGED receiptVars
    BY <1>1 DEF receiptVars, fanetVars, skdcVars, ledgerVars, AckHeard
  <1>2. CASE ReceiptsNext
    <2> SUFFICES ASSUME NEW c \in Cluster, NEW a \in ackMap'[c]
                 PROVE  Home(a[2]) = c /\ \E d \in Cluster : <<a[2], d, a[1]>> \in heard'
      BY DEF AckHeard
    <2>1. CASE a \in ackMap[c]
      BY <1>2, <2>1 DEF AckHeard, ReceiptsNext
    <2>2. ASSUME NEW u \in Uav, NEW p \in MtkPacket, DeliverMtk(u, p), c = Home(u),
                 a = <<p.version, u>>
          PROVE  Home(a[2]) = c /\ \E d \in Cluster : <<a[2], d, a[1]>> \in heard'
      BY <1>2, <2>2, DeliveredIsHeard
    <2>3. FanetNext
      BY <1>2 DEF ReceiptsNext
    <2> QED BY <2>1, <2>2, <2>3, AckSteps
  <1> QED BY <1>1, <1>2

\* No SKDC counts an acknowledgement of an MT_K that its UAV has not accepted.
THEOREM AcksAreHeard == ReceiptsSpec => []AckHeard
  <1>1. ReceiptsInit => AckHeard
    BY DEF ReceiptsInit, FanetInit, SkdcInit, AckHeard
  <1>2. FanetInv /\ AckHeard /\ [ReceiptsNext]_receiptVars => AckHeard'
    BY AckHeardStep
  <1> QED BY <1>1, <1>2, ReceiptsImplementFanet, FanetInvariant, PTL DEF ReceiptsSpec

\* The receipts behind a row OK: those counted before, and the one that completes them.
LEMMA OkRowReceipts ==
  ASSUME FanetInv, AckHeard, [ReceiptsNext]_receiptVars, NEW c \in Cluster, NEW v \in Version,
         RowWritten(c, v, "OK")
  PROVE  \E S \in SUBSET {u \in Uav : Home(u) = c} :
            /\ Cardinality(S) >= Cardinality(members[c])
            /\ \A u \in S : \E d \in Cluster : <<u, d, v>> \in heard'
  <1>1. ReceiptsNext
    BY DEF RowWritten, receiptVars, fanetVars, skdcVars, ledgerVars
  <1>2. FanetNext
    BY <1>1 DEF ReceiptsNext
  <1>3. PICK u \in Uav, p \in MtkPacket :
           /\ DeliverMtk(u, p) /\ c = Home(u) /\ v = p.version
           /\ Cardinality(AckedBy(c, v) \union {u}) >= Cardinality(members[c])
    BY <1>2, AckSteps
  <1> DEFINE S == AckedBy(c, v) \union {u}
  <1>4. ASSUME NEW w \in AckedBy(c, v)
        PROVE  w \in Uav /\ Home(w) = c /\ \E d \in Cluster : <<w, d, v>> \in heard'
    <2>1. w \in Uav /\ <<v, w>> \in ackMap[c]
      BY DEF AckedBy
    <2> QED BY <1>1, <2>1 DEF AckHeard, ReceiptsNext
  <1>5. \E d \in Cluster : <<u, d, v>> \in heard'
    BY <1>1, <1>3, DeliveredIsHeard
  <1>6. S \in SUBSET {w \in Uav : Home(w) = c}
    BY <1>3, <1>4
  <1> QED BY <1>3, <1>4, <1>5, <1>6

\* With any number of handovers and losses, a row OK stands for as many receipts of its
\* version as the cluster has members.
THEOREM OkRowsCountReceipts == ReceiptsSpec => OkRowCountsReceipts
  <1> DEFINE Good == \A c \in Cluster, v \in Version :
                        RowWritten(c, v, "OK")
                          => \E S \in SUBSET {u \in Uav : Home(u) = c} :
                                /\ Cardinality(S) >= Cardinality(members[c])
                                /\ \A u \in S : \E d \in Cluster : <<u, d, v>> \in heard'
  <1>1. FanetInv /\ AckHeard /\ [ReceiptsNext]_receiptVars => [Good]_receiptVars
    BY OkRowReceipts
  <1> QED
    BY <1>1, AcksAreHeard, ReceiptsImplementFanet, FanetInvariant, PTL
    DEF ReceiptsSpec, OkRowCountsReceipts

\* Where nothing is handed over, every UAV stays and hears its own cluster only.
AtHome ==
    /\ handovers = 0
    /\ \A m \in net : m.kind = "CONTROL"
    /\ uavCluster = [u \in Uav |-> Home(u)]
    /\ members = [c \in Cluster |-> {UavId(c, i) : i \in Slot}]
    /\ \A h \in heard : h[2] = Home(h[1])

\* Without handovers every step leaves the UAVs in their first clusters.
LEMMA AtHomeStep ==
  ASSUME MaxHandovers = 0, FanetInv, AtHome, [ReceiptsNext]_receiptVars
  PROVE  AtHome'
  <1>1. CASE UNCHANGED receiptVars
    BY <1>1 DEF receiptVars, fanetVars, envVars, skdcVars, uavVars, keyVars, AtHome
  <1>2. CASE ReceiptsNext
    <2>0. FanetNext /\ heard' = heard \union Receipts
      BY <1>2 DEF ReceiptsNext
    <2>1. /\ UNCHANGED <<uavCluster, members>>
          /\ UNCHANGED <<handovers, net>> \/ PeriodicSync \/ \E m \in net : DeliverControl(m)
      <3>1. ASSUME NEW u \in Uav, NEW c \in Cluster PROVE ~NotifyHandover(u, c)
        BY DEF NotifyHandover, AtHome
      <3>2. ASSUME NEW m \in net
            PROVE  ~(\/ ReceiveHandoverNotify(m) \/ DeliverSlaveFwd(m) \/ DeliverJoinAccept(m)
                     \/ DeliverKeyAck(m) \/ Lose(m))
        BY DEF ReceiveHandoverNotify, DeliverSlaveFwd, DeliverJoinAccept, DeliverKeyAck, Lose,
               AtHome
      <3>3. \/ PeriodicSync
            \/ \E c \in Cluster : SkdcInitialBroadcast(c) \/ CallTriggerRekey(c)
            \/ \E c \in Cluster, v \in Version : SkdcTimeout(c, v)
            \/ \E u \in Uav, p \in MtkPacket : DeliverMtk(u, p)
            \/ \E p \in MtkPacket : MtkFades(p)
            \/ \E m \in net : DeliverControl(m)
        BY <2>0, <3>1, <3>2 DEF FanetNext, HandoverNext
      <3>4. UNCHANGED <<uavCluster, members>>
        BY <3>3, OtherStepsKeepHandovers
      <3> QED
        BY <3>3, <3>4 DEF SkdcInitialBroadcast, CallTriggerRekey, SkdcTimeout, DeliverMtk,
                          MtkFades, envVars
    <2>2. handovers' = 0 /\ \A m \in net' : m.kind = "CONTROL"
      BY <2>1 DEF AtHome, PeriodicSync, DeliverControl, ControlPackets, envVars
    <2>3. \A h \in Receipts : h[2] = Home(h[1])
      BY DEF Receipts, AtHome
    <2> QED BY <2>0, <2>1, <2>2, <2>3 DEF AtHome
  <1> QED BY <1>1, <1>2

\* Without handovers, a row OK means that every member has received the MT_K of that rekey.
THEOREM OkRowsMeanReceived ==
  ASSUME MaxHandovers = 0
  PROVE  ReceiptsSpec => OkRowMeansReceived
  <1> DEFINE Good == \A c \in Cluster, v \in Version :
                        RowWritten(c, v, "OK")
                          => \A u \in members[c] :
                                \E w \in v .. MaxVersion : <<u, c, w>> \in heard'
  <1>1. ReceiptsInit => AtHome
    BY DEF ReceiptsInit, FanetInit, UavInit, SkdcInit, InitializeState, AtHome
  <1>2. FanetInv /\ AtHome /\ [ReceiptsNext]_receiptVars => AtHome'
    BY AtHomeStep
  <1>3. FanetInv /\ AckHeard /\ AtHome /\ AtHome' /\ [ReceiptsNext]_receiptVars
          => [Good]_receiptVars
    <2> SUFFICES ASSUME FanetInv, AckHeard, AtHome, AtHome', [ReceiptsNext]_receiptVars,
                        NEW c \in Cluster, NEW v \in Version, RowWritten(c, v, "OK"),
                        NEW u \in members[c]
                 PROVE  \E w \in v .. MaxVersion : <<u, c, w>> \in heard'
      OBVIOUS
    <2> DEFINE own == {w \in Uav : Home(w) = c}
    <2>1. PICK S \in SUBSET own : /\ Cardinality(S) >= Cardinality(members[c])
                                  /\ \A w \in S : \E d \in Cluster : <<w, d, v>> \in heard'
      BY OkRowReceipts
    <2>2. members[c] = own
      <3>1. members[c] = {UavId(c, i) : i \in Slot}
        BY DEF AtHome
      <3>2. \A d \in Cluster, i \in Slot : Home(UavId(d, i)) = d
        BY HomeOfUavId
      <3> QED BY <3>1, <3>2 DEF Uav
    <2>3. S = own
      <3>1. IsFiniteSet(own)
        BY UavFinite, FS_Subset
      <3>2. IsFiniteSet(S) /\ Cardinality(S) <= Cardinality(own)
        BY <3>1, FS_Subset
      <3>3. Cardinality(S) \in Nat /\ Cardinality(own) \in Nat
        BY <3>1, <3>2, FS_CardinalityType
      <3> QED BY <2>1, <2>2, <3>1, <3>2, <3>3, FS_Subset
    <2>4. PICK d \in Cluster : <<u, d, v>> \in heard'
      BY <2>1, <2>2, <2>3
    <2>5. d = c
      BY <2>2, <2>4 DEF AtHome
    <2>6. v \in v .. MaxVersion
      BY MaxVersionAssumption DEF Version
    <2> QED BY <2>4, <2>5, <2>6
  <1> QED
    BY <1>1, <1>2, <1>3, AcksAreHeard, ReceiptsImplementFanet, FanetInvariant, PTL
    DEF ReceiptsSpec, OkRowMeansReceived
=============================================================================
