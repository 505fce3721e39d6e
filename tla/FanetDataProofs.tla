--------------------------- MODULE FanetDataProofs ---------------------------
(***************************************************************************)
(* Proofs about the telemetry path, for any number of UAVs and versions,   *)
(* with loss, delay and reordering of every packet.                        *)
(***************************************************************************)
EXTENDS FanetData, FanetProofs

\* How far TelemetryReachesLog fails: every row of kdc_telemetry.csv is blank, and a forward
\* made after a rekey of the SKDC (of version above 1) adds no row at all.
KdcLogsOnlyBlanks == \A row \in kdcLog : row[2] = Nothing

RekeyedForwardsNotLogged ==
    [][\A m \in net \ net' :
          (m.kind = "FORWARD" /\ m.made > 1) => UNCHANGED kdcLog]_fanetVars

\* What telemetry packets carry in flight.
DataPacketOK(m) ==
    /\ m.cluster \in Cluster
    /\ m.kind = "DATA" => m.aad # m.header
    /\ m.kind = "FORWARD" => m.payload = Nothing /\ (m.made > 1 => m.tek[1] = "skdc")

\* The TEK of an SKDC that has rekeyed is its own, and the KDC never has such a TEK.
TeksApart ==
    /\ rekeyVersion \in [Cluster -> Nat]
    /\ DOMAIN currentTek = Cluster /\ DOMAIN kdcTek = Cluster
    /\ \A c \in Cluster : rekeyVersion[c] > 1 => currentTek[c][1] = "skdc"
    /\ \A c \in Cluster : kdcTek[c][1] # "skdc"

DataInv ==
    /\ TeksApart
    /\ uavCluster \in [Uav -> Cluster]
    /\ \A m \in net : DataPacketOK(m)
    /\ KdcLogsOnlyBlanks

-----------------------------------------------------------------------------

\* A TriggerRekey of an SKDC gives it a TEK of its own.
LEMMA RekeyKeepsTeksApart ==
  ASSUME TeksApart, NEW c \in Cluster, RekeyCore(c), UNCHANGED kdcTek
  PROVE  TeksApart'
  <1>1. /\ rekeyVersion' = [rekeyVersion EXCEPT ![c] = rekeyVersion[c] + 1]
        /\ currentTek' = [currentTek EXCEPT ![c] = <<"skdc", c, rekeyVersion[c] + 1>>]
    BY DEF RekeyCore
  <1> QED BY <1>1 DEF TeksApart

\* The steps of Fanet that leave the SKDCs' TEKs and the UAVs' clusters alone.
LEMMA QuietSteps ==
  ASSUME DataInv,
         \/ PeriodicSync
         \/ \E c \in Cluster : SkdcInitialBroadcast(c)
         \/ \E c \in Cluster, v \in Version : SkdcTimeout(c, v)
         \/ \E p \in MtkPacket : MtkFades(p)
         \/ \E u \in Uav, c \in Cluster : NotifyHandover(u, c)
         \/ \E m \in net : \/ DeliverControl(m) \/ ReceiveHandoverNotify(m)
                           \/ DeliverSlaveFwd(m) \/ Lose(m)
  PROVE  /\ UNCHANGED <<rekeyVersion, currentTek, kdcVars, uavCluster>>
         /\ \A n \in net' : n \in net \/ DataPacketOK(n)
  <1> DEFINE Quiet == UNCHANGED <<rekeyVersion, currentTek, kdcVars, uavCluster>>
  <1>1. CASE PeriodicSync
    <2>1. \A m \in ControlPackets : DataPacketOK(m)
      BY DEF ControlPackets, DataPacketOK
    <2> QED BY <1>1, <2>1 DEF PeriodicSync, skdcVars, tekVars, uavVars, keyVars
  <1>2. ASSUME NEW c \in Cluster, SkdcInitialBroadcast(c) PROVE Quiet /\ UNCHANGED net
    BY <1>2 DEF SkdcInitialBroadcast, InitialBroadcast, tekVars, uavVars, keyVars
  <1>3. ASSUME NEW c \in Cluster, NEW v \in Version, SkdcTimeout(c, v)
        PROVE  Quiet /\ UNCHANGED net
    BY <1>3 DEF SkdcTimeout, RekeyTimeout, tekVars, uavVars, keyVars
  <1>4. ASSUME NEW p \in MtkPacket, MtkFades(p) PROVE Quiet /\ UNCHANGED net
    BY <1>4 DEF MtkFades, Fade, tekVars, uavVars, keyVars
  <1>5. ASSUME NEW u \in Uav, NEW c \in Cluster, NotifyHandover(u, c)
        PROVE  Quiet /\ \A n \in net' : n \in net \/ DataPacketOK(n)
    <2>1. DataPacketOK(Notify(u, c))
      BY DEF Notify, DataPacketOK
    <2> QED BY <1>5, <2>1 DEF NotifyHandover, skdcVars, tekVars, uavVars, keyVars
  <1>6. ASSUME NEW m \in net, DeliverControl(m) PROVE Quiet /\ net' \subseteq net
    BY <1>6 DEF DeliverControl, ReceiveFromKdc, tekVars, uavVars, keyVars
  <1>7. ASSUME NEW m \in net, Lose(m) PROVE Quiet /\ net' \subseteq net
    BY <1>7 DEF Lose, skdcVars, tekVars, uavVars, keyVars
  <1>8. ASSUME NEW m \in net, ReceiveHandoverNotify(m)
        PROVE  Quiet /\ \A n \in net' : n \in net \/ DataPacketOK(n)
    <2>1. DataPacketOK(ForwardSlaveKey(m.uav, m.cluster))
      BY DEF DataInv, ForwardSlaveKey, DataPacketOK
    <2> QED BY <1>8, <2>1 DEF ReceiveHandoverNotify, skdcVars, tekVars, uavVars, keyVars
  <1>9. ASSUME NEW m \in net, DeliverSlaveFwd(m)
        PROVE  Quiet /\ \A n \in net' : n \in net \/ DataPacketOK(n)
    <2>1. DataPacketOK(JoinAccept(m.uav, m.cluster, m.index, m.key))
      BY DEF DataInv, JoinAccept, DataPacketOK
    <2> QED BY <1>9, <2>1 DEF DeliverSlaveFwd, ReceiveSlaveKeyFwd, tekVars, uavVars, keyVars
  <1> QED BY <1>1, <1>2, <1>3, <1>4, <1>5, <1>6, <1>7, <1>8, <1>9

\* What the steps of Fanet do to TEKs, versions, clusters and packets.
LEMMA FanetStepParts ==
  ASSUME DataInv, FanetNext
  PROVE  /\ UNCHANGED kdcVars
         /\ TeksApart'
         /\ uavCluster' \in [Uav -> Cluster]
         /\ \A n \in net' : n \in net \/ DataPacketOK(n)
  <1> DEFINE Goal == /\ UNCHANGED kdcVars
                     /\ TeksApart'
                     /\ uavCluster' \in [Uav -> Cluster]
                     /\ \A n \in net' : n \in net \/ DataPacketOK(n)
  <1>0. TeksApart /\ uavCluster \in [Uav -> Cluster] /\ \A m \in net : m.cluster \in Cluster
    BY DEF DataInv, DataPacketOK
  <1>u. UNCHANGED <<rekeyVersion, currentTek, kdcTek>> => TeksApart'
    BY <1>0 DEF TeksApart
  <1>1. ASSUME NEW c \in Cluster, CallTriggerRekey(c) PROVE Goal
    <2>1. RekeyCore(c) /\ UNCHANGED <<kdcVars, uavCluster, net>>
      BY <1>1 DEF CallTriggerRekey, TriggerRekey, uavVars, keyVars
    <2> QED BY <1>0, <2>1, RekeyKeepsTeksApart DEF kdcVars
  <1>2. ASSUME NEW m \in net, DeliverKeyAck(m) PROVE Goal
    <2>1. RekeyCore(m.cluster) /\ UNCHANGED <<kdcVars, uavCluster>> /\ net' \subseteq net
      BY <1>2 DEF DeliverKeyAck, ReceiveKeyAck, JoinCore, uavVars, keyVars
    <2>2. TeksApart'
      BY <1>0, <2>1, RekeyKeepsTeksApart DEF kdcVars
    <2> QED BY <1>0, <2>1, <2>2
  <1>3. ASSUME NEW u \in Uav, NEW p \in MtkPacket, DeliverMtk(u, p) PROVE Goal
    <2>1. p.cluster \in Cluster
      BY DEF MtkPacket
    <2>2. uavCluster' \in [Uav -> Cluster] /\ UNCHANGED <<kdcVars, net>>
      BY <1>0, <1>3, <2>1 DEF DeliverMtk, ProcessMtkPacket, DecryptMtk
    <2>3. OnUavRekeyAck(Home(u), u, p.version) \/ UNCHANGED skdcVars
      BY <1>3 DEF DeliverMtk
    <2>4. UNCHANGED <<rekeyVersion, currentTek>>
      BY <2>3 DEF OnUavRekeyAck, skdcVars, tekVars
    <2> QED BY <1>u, <2>2, <2>4 DEF kdcVars
  <1>4. ASSUME NEW m \in net, DeliverJoinAccept(m) PROVE Goal
    <2>1. DataPacketOK(KeyAck(m.uav, m.cluster, m.index))
      BY <1>0 DEF KeyAck, DataPacketOK
    <2>2. /\ net' = (net \ {m}) \union {KeyAck(m.uav, m.cluster, m.index)}
          /\ uavCluster' = [uavCluster EXCEPT ![m.uav] = m.cluster]
          /\ UNCHANGED <<rekeyVersion, currentTek, kdcVars>>
      BY <1>4 DEF DeliverJoinAccept, ReceiveJoinAccept, skdcVars, tekVars
    <2>3. uavCluster' \in [Uav -> Cluster]
      BY <1>0, <2>2
    <2> QED BY <1>u, <2>1, <2>2, <2>3 DEF kdcVars
  <1>5. CASE /\ UNCHANGED <<rekeyVersion, currentTek, kdcVars, uavCluster>>
             /\ \A n \in net' : n \in net \/ DataPacketOK(n)
    BY <1>0, <1>u, <1>5 DEF kdcVars
  <1> QED BY <1>1, <1>2, <1>3, <1>4, <1>5, QuietSteps DEF FanetNext, HandoverNext

\* The steps of telemetry and of the KDC's rekey.  A UAV authenticates its cluster,
\* which is less than the word that the SKDC reads in its place.
LEMMA DataStepParts ==
  ASSUME DataInv, NumClusters <= HeaderWords[1],
         \/ \E u \in Uav : UavSendTelemetry(u)
         \/ \E c \in Cluster : CallKdcTriggerRekey(c)
         \/ \E m \in net : ReceiveDataFromUav(m) \/ KdcReceiveTelemetry(m)
  PROVE  DataInv'
  <1>0. /\ TeksApart /\ uavCluster \in [Uav -> Cluster] /\ KdcLogsOnlyBlanks
        /\ \A m \in net : DataPacketOK(m)
    BY DEF DataInv
  <1>1. ASSUME NEW u \in Uav, UavSendTelemetry(u) PROVE DataInv'
    <2>1. /\ net' = net \union {DataPacket(u, uavCluster[u], dataSeq[u] + 1)}
          /\ UNCHANGED <<rekeyVersion, currentTek, kdcVars, uavCluster>>
      BY <1>1 DEF UavSendTelemetry, SendTelemetry, skdcVars, tekVars, keyVars
    <2>2. DataPacketOK(DataPacket(u, uavCluster[u], dataSeq[u] + 1))
      <3>1. uavCluster[u] \in Cluster /\ uavCluster[u] # HeaderWords[1]
        BY <1>0, NumClustersAssumption DEF Cluster, HeaderWords
      <3>2. <<uavCluster[u], u>> # HeaderWords
        BY <3>1 DEF HeaderWords
      <3> QED BY <3>1, <3>2 DEF DataPacket, DataPacketOK
    <2>3. TeksApart' /\ KdcLogsOnlyBlanks' /\ uavCluster' \in [Uav -> Cluster]
      BY <1>0, <2>1 DEF TeksApart, KdcLogsOnlyBlanks, kdcVars
    <2>4. (\A m \in net : DataPacketOK(m))'
      BY <1>0, <2>1, <2>2 DEF DataPacketOK
    <2> QED BY <2>3, <2>4 DEF DataInv
  <1>2. ASSUME NEW c \in Cluster, CallKdcTriggerRekey(c) PROVE DataInv'
    <2>1. /\ net' = net \union {m \in ControlPackets : m.cluster = c}
          /\ kdcTek' = [kdcTek EXCEPT ![c] = <<"kdc", c, kdcVersion[c] + 1>>]
          /\ UNCHANGED <<rekeyVersion, currentTek, kdcLog, uavCluster>>
      BY <1>2 DEF CallKdcTriggerRekey, KdcTriggerRekey, skdcVars, tekVars, uavVars, keyVars
    <2>2. \A m \in ControlPackets : DataPacketOK(m)
      BY DEF ControlPackets, DataPacketOK
    <2>3. TeksApart'
      BY <1>0, <2>1 DEF TeksApart
    <2>4. KdcLogsOnlyBlanks' /\ uavCluster' \in [Uav -> Cluster]
      BY <1>0, <2>1 DEF KdcLogsOnlyBlanks
    <2>5. (\A m \in net : DataPacketOK(m))'
      BY <1>0, <2>1, <2>2 DEF DataPacketOK
    <2> QED BY <2>3, <2>4, <2>5 DEF DataInv
  <1>3. ASSUME NEW m \in net, ReceiveDataFromUav(m) PROVE DataInv'
    <2>1. /\ m.kind = "DATA" /\ m.cluster \in Cluster /\ ~SkdcDecrypts(m)
          /\ UNCHANGED <<rekeyVersion, currentTek, kdcVars, uavCluster>>
      BY <1>0, <1>3 DEF ReceiveDataFromUav, DataPacketOK, SkdcDecrypts, skdcVars, tekVars,
                        uavVars, keyVars
    <2>2. net' \subseteq net \union {Forward(m.cluster, Nothing)}
      BY <1>3, <2>1 DEF ReceiveDataFromUav
    <2>3. DataPacketOK(Forward(m.cluster, Nothing))
      BY <1>0, <2>1 DEF DataPacketOK, Forward, TeksApart
    <2>4. TeksApart' /\ KdcLogsOnlyBlanks' /\ uavCluster' \in [Uav -> Cluster]
      BY <1>0, <2>1 DEF TeksApart, KdcLogsOnlyBlanks, kdcVars
    <2>5. (\A n \in net : DataPacketOK(n))'
      BY <1>0, <2>2, <2>3 DEF DataPacketOK
    <2> QED BY <2>4, <2>5 DEF DataInv
  <1>4. ASSUME NEW m \in net, KdcReceiveTelemetry(m) PROVE DataInv'
    <2>1. /\ net' = net \ {m} /\ m.payload = Nothing
          /\ kdcLog' \subseteq kdcLog \union {<<m.cluster, m.payload>>}
          /\ UNCHANGED <<rekeyVersion, currentTek, kdcTek, uavCluster>>
      BY <1>0, <1>4 DEF KdcReceiveTelemetry, ReceiveTelemetryFromSkdc, DataPacketOK,
                        skdcVars, tekVars, uavVars, keyVars
    <2>2. TeksApart' /\ uavCluster' \in [Uav -> Cluster]
      BY <1>0, <2>1 DEF TeksApart
    <2>3. KdcLogsOnlyBlanks'
      BY <1>0, <2>1 DEF KdcLogsOnlyBlanks
    <2>4. (\A n \in net : DataPacketOK(n))'
      BY <1>0, <2>1 DEF DataPacketOK
    <2> QED BY <2>2, <2>3, <2>4 DEF DataInv
  <1> QED BY <1>1, <1>2, <1>3, <1>4

-----------------------------------------------------------------------------
(* Theorems.                                                               *)

\* The inductive invariant holds in every reachable state, as long as there are no
\* more clusters than the first header word counts.
THEOREM DataInvariant ==
  ASSUME NumClusters <= HeaderWords[1]
  PROVE  DataSpec => []DataInv
  <1>1. FanetInit => DataInv
    <2> SUFFICES ASSUME FanetInit PROVE DataInv
      OBVIOUS
    <2>1. TeksApart
      BY DEF FanetInit, SkdcInit, InitializeState, KdcInit, TeksApart, ParamsTek
    <2>2. uavCluster \in [Uav -> Cluster]
      BY HomeType DEF FanetInit, UavInit
    <2> QED BY <2>1, <2>2 DEF FanetInit, KdcInit, DataInv, KdcLogsOnlyBlanks
  <1>2. DataInv /\ [DataNext]_fanetVars => DataInv'
    <2> SUFFICES ASSUME DataInv, [DataNext]_fanetVars PROVE DataInv'
      OBVIOUS
    <2>1. CASE FanetNext
      <3>1. KdcLogsOnlyBlanks'
        BY <2>1, FanetStepParts DEF DataInv, KdcLogsOnlyBlanks, kdcVars
      <3>2. (\A m \in net : DataPacketOK(m))'
        BY <2>1, FanetStepParts DEF DataInv, DataPacketOK
      <3> QED BY <2>1, <3>1, <3>2, FanetStepParts DEF DataInv
    <2>2. CASE UNCHANGED fanetVars
      BY <2>2 DEF fanetVars, skdcVars, tekVars, kdcVars, uavVars, keyVars, DataInv,
                  TeksApart, KdcLogsOnlyBlanks, DataPacketOK
    <2> QED BY <2>1, <2>2, DataStepParts DEF DataNext
  <1> QED BY <1>1, <1>2, PTL DEF DataSpec

\* No telemetry ever reaches the KDC's log: every row is blank, since what fails the
\* HMAC check is forwarded empty and what passes it fails the decryption.
THEOREM OnlyBlanksLogged ==
  ASSUME NumClusters <= HeaderWords[1]
  PROVE  DataSpec => []KdcLogsOnlyBlanks
  <1>1. DataInv => KdcLogsOnlyBlanks
    BY DEF DataInv
  <1> QED BY <1>1, DataInvariant, PTL

\* A forward made under a TEK of the SKDC's own is not logged, since the KDC never has
\* that TEK, whichever rekeys of either side come first.
THEOREM RekeyedForwardsDropped ==
  ASSUME NumClusters <= HeaderWords[1]
  PROVE  DataSpec => RekeyedForwardsNotLogged
  <1> DEFINE Good == \A m \in net \ net' :
                        (m.kind = "FORWARD" /\ m.made > 1) => UNCHANGED kdcLog
  <1>1. DataInv /\ [DataNext]_fanetVars => [Good]_fanetVars
    <2> SUFFICES ASSUME DataInv, [DataNext]_fanetVars PROVE Good
      OBVIOUS
    <2>1. CASE FanetNext
      BY <2>1, FanetStepParts DEF kdcVars
    <2>2. CASE UNCHANGED fanetVars
      BY <2>2 DEF fanetVars
    <2>3. ASSUME NEW u \in Uav, UavSendTelemetry(u) PROVE Good
      BY <2>3 DEF UavSendTelemetry, kdcVars
    <2>4. ASSUME NEW c \in Cluster, CallKdcTriggerRekey(c) PROVE Good
      BY <2>4 DEF CallKdcTriggerRekey, KdcTriggerRekey
    <2>5. ASSUME NEW m \in net, ReceiveDataFromUav(m) PROVE Good
      BY <2>5 DEF ReceiveDataFromUav, kdcVars
    <2>6. ASSUME NEW m \in net, KdcReceiveTelemetry(m) PROVE Good
      <3>1. net' = net \ {m}
        BY <2>6 DEF KdcReceiveTelemetry
      <3>2. m.kind = "FORWARD" /\ m.made > 1 => UNCHANGED kdcLog
        <4>1. m.made > 1 => m.tek # kdcTek[m.cluster]
          BY <2>6 DEF KdcReceiveTelemetry, DataInv, DataPacketOK, TeksApart
        <4> QED BY <2>6, <4>1 DEF KdcReceiveTelemetry, ReceiveTelemetryFromSkdc
      <3> QED BY <3>1, <3>2
    <2> QED BY <2>1, <2>2, <2>3, <2>4, <2>5, <2>6 DEF DataNext
  <1> QED BY <1>1, DataInvariant, PTL DEF DataSpec, RekeyedForwardsNotLogged

-----------------------------------------------------------------------------
(* What telemetry leaves alone.  None of this depends on the number of     *)
(* clusters or on what the header words are.                               *)

\* The steps that FanetData adds: they touch no SKDC, of the UAVs only the data sequence,
\* and of the packets only telemetry and the KDC's control packets.
LEMMA DataSteps ==
  ASSUME FanetInv, DataNext, ~ FanetNext
  PROVE  /\ UNCHANGED <<skdcVars, lost, keyVars, uavVersion>>
         /\ UNCHANGED uavVars \/ \E u \in Uav : SendTelemetry(u)
         /\ \A m \in net : m.kind \in HandoverKind => m \in net'
         /\ \A m \in net' : m \in net \/ (PacketOK(m) /\ m.kind \notin HandoverKind)
  <1> USE DEF HandoverKind
  <1>0. \A m \in net : m.cluster \in Cluster
    BY DEF FanetInv, WellFormed, PacketOK
  <1>1. ASSUME NEW u \in Uav, UavSendTelemetry(u)
        PROVE  /\ UNCHANGED <<skdcVars, lost, keyVars, uavVersion>> /\ SendTelemetry(u)
               /\ net' = net \union {DataPacket(u, uavCluster[u], dataSeq[u] + 1)}
    BY <1>1 DEF UavSendTelemetry, SendTelemetry
  <1>2. ASSUME NEW u \in Uav
        PROVE  /\ PacketOK(DataPacket(u, uavCluster[u], dataSeq[u] + 1))
               /\ DataPacket(u, uavCluster[u], dataSeq[u] + 1).kind = "DATA"
    BY DEF DataPacket, PacketOK, FanetInv, WellFormed, UavTypeOK
  <1>3. \A m \in ControlPackets : PacketOK(m) /\ m.kind = "CONTROL"
    BY DEF ControlPackets, PacketOK
  <1>4. ASSUME NEW c \in Cluster, NEW x
        PROVE  PacketOK(Forward(c, x)) /\ Forward(c, x).kind = "FORWARD"
    BY DEF Forward, PacketOK
  <1>5. ASSUME NEW c \in Cluster, CallKdcTriggerRekey(c)
        PROVE  /\ UNCHANGED <<skdcVars, lost, uavVars>>
               /\ net' = net \union {m \in ControlPackets : m.cluster = c}
    BY <1>5 DEF CallKdcTriggerRekey
  <1>6. ASSUME NEW m \in net, ReceiveDataFromUav(m)
        PROVE  /\ UNCHANGED <<skdcVars, lost, uavVars>> /\ m.kind = "DATA"
               /\ net \ {m} \subseteq net'
               /\ \A n \in net' : n \in net \/ \E x : n = Forward(m.cluster, x)
    BY <1>6 DEF ReceiveDataFromUav
  <1>7. ASSUME NEW m \in net, KdcReceiveTelemetry(m)
        PROVE  UNCHANGED <<skdcVars, lost, uavVars>> /\ m.kind = "FORWARD" /\ net' = net \ {m}
    BY <1>7 DEF KdcReceiveTelemetry
  <1> DEFINE Goal == /\ UNCHANGED <<skdcVars, lost, keyVars, uavVersion>>
                     /\ UNCHANGED uavVars \/ \E u \in Uav : SendTelemetry(u)
                     /\ \A m \in net : m.kind \in HandoverKind => m \in net'
                     /\ \A m \in net' : m \in net \/ (PacketOK(m) /\ m.kind \notin HandoverKind)
  <1>8. UNCHANGED uavVars => UNCHANGED <<keyVars, uavVersion>>
    BY DEF uavVars
  <1>9. ASSUME NEW u \in Uav, UavSendTelemetry(u) PROVE Goal
    BY <1>1, <1>2, <1>9
  <1>10. ASSUME NEW c \in Cluster, CallKdcTriggerRekey(c) PROVE Goal
    BY <1>3, <1>5, <1>8, <1>10
  <1>11. ASSUME NEW m \in net, ReceiveDataFromUav(m) PROVE Goal
    BY <1>0, <1>4, <1>6, <1>8, <1>11
  <1>12. ASSUME NEW m \in net, KdcReceiveTelemetry(m) PROVE Goal
    BY <1>7, <1>8, <1>12
  <1> QED BY <1>9, <1>10, <1>11, <1>12 DEF DataNext

\* The invariant of Fanet, with telemetry under way.
LEMMA DataStepKeepsFanetInv == FanetInv /\ [DataNext]_fanetVars => FanetInv'
  <1> SUFFICES ASSUME FanetInv, DataNext, ~ FanetNext PROVE FanetInv'
    BY FanetStep
  <1>1. /\ UNCHANGED <<skdcVars, lost, keyVars, uavVersion>>
        /\ UNCHANGED uavVars \/ \E u \in Uav : SendTelemetry(u)
        /\ \A m \in net : m.kind \in HandoverKind => m \in net'
        /\ \A m \in net' : m \in net \/ (PacketOK(m) /\ m.kind \notin HandoverKind)
    BY DataSteps
  <1>2. UNCHANGED <<uavCluster, slaveKey, uavIndex, members, pendingHo>>
    BY <1>1 DEF keyVars, skdcVars
  <1>3. SkdcTypeOK'
    BY <1>1, TypePreserved DEF FanetInv, WellFormed
  <1>4. UavTypeOK'
    <2>1. CASE UNCHANGED uavVars
      BY <2>1 DEF FanetInv, WellFormed, UavTypeOK, uavVars, keyVars
    <2>2. ASSUME NEW u \in Uav, SendTelemetry(u) PROVE UavTypeOK'
      BY <1>1, <2>2, MaxDataSeqAssumption DEF SendTelemetry, FanetInv, WellFormed, UavTypeOK, keyVars
    <2> QED BY <1>1, <2>1, <2>2
  <1>5. (\A m \in net : PacketOK(m))'
    BY <1>1 DEF FanetInv, WellFormed, PacketOK
  <1>6. KeyFitsPlace'
    BY <1>2 DEF FanetInv, KeyFitsPlace
  <1>7. OrphanOnlyByLoss'
    BY <1>1, <1>2, NoNewOrphan DEF HandoverKind
  <1>8. PendingOnlyByLoss'
    BY <1>1, <1>2, NoNewPending DEF HandoverKind
  <1> QED BY <1>3, <1>4, <1>5, <1>6, <1>7, <1>8 DEF FanetInv, WellFormed

\* Telemetry and the KDC's own rekeys take nothing from the handover bookkeeping: also with
\* them a UAV is unknown to its SKDC, or a handover pending there, only by a lost packet.
THEOREM DataKeepsHandovers == DataSpec => [](OrphanOnlyByLoss /\ PendingOnlyByLoss)
  <1>1. FanetInv => OrphanOnlyByLoss /\ PendingOnlyByLoss
    BY DEF FanetInv
  <1> QED BY <1>1, FanetInitial, DataStepKeepsFanetInv, PTL DEF DataSpec

\* Nor is an MT_K consumed in vain by a UAV that also sends telemetry.
THEOREM DataMtkNeverWasted == DataSpec => AcceptedMtkDecrypts
  <1> DEFINE Good == \A u \in Uav : uavVersion'[u] # uavVersion[u] => tekValid'[u]
  <1>1. FanetInv /\ [DataNext]_fanetVars => [Good]_fanetVars
    <2> SUFFICES ASSUME FanetInv, DataNext, ~ FanetNext PROVE Good
      BY AcceptedDecrypts
    <2>1. UNCHANGED uavVersion
      BY DataSteps
    <2> QED BY <2>1
  <1> QED
    BY <1>1, FanetInitial, DataStepKeepsFanetInv, PTL DEF DataSpec, AcceptedMtkDecrypts

\* The whole system, telemetry included, implements the open specification of the SKDCs.
THEOREM DataImplementsSkdc == DataSpec => SkdcSpec
  <1>1. FanetInit => SkdcInit
    BY DEF FanetInit
  <1>2. FanetInv /\ [DataNext]_fanetVars => [SkdcNext]_skdcVars
    <2> SUFFICES ASSUME FanetInv, DataNext, ~ FanetNext PROVE [SkdcNext]_skdcVars
      BY FanetStepIsSkdcStep DEF FanetInv
    <2> QED BY DataSteps
  <1> QED BY <1>1, <1>2, FanetInitial, DataStepKeepsFanetInv, PTL DEF DataSpec, SkdcSpec

\* It implements that of the UAVs, whose SendTelemetry Fanet alone leaves out.
THEOREM DataImplementsUav == DataSpec => UavSpec
  <1>1. FanetInit => UavInit
    BY DEF FanetInit
  <1>2. FanetInv /\ [DataNext]_fanetVars => [UavNext]_uavVars
    <2> SUFFICES ASSUME FanetInv, DataNext, ~ FanetNext PROVE [UavNext]_uavVars
      BY FanetStepIsUavStep
    <2>1. UNCHANGED uavVars \/ \E u \in Uav : SendTelemetry(u)
      BY DataSteps
    <2> QED BY <2>1 DEF UavNext
  <1> QED BY <1>1, <1>2, FanetInitial, DataStepKeepsFanetInv, PTL DEF DataSpec, UavSpec

\* So in the whole system each rekey is reported exactly once, whatever telemetry and rekeys
\* of the KDC come between.
THEOREM DataRekeysReportedOnce == DataSpec => []EveryRekeyReportedOnce
  BY DataImplementsSkdc, RekeysReportedOnce, PTL
=============================================================================
