-------------------------------- MODULE Fanet --------------------------------
(***************************************************************************)
(* The KDC, the SKDCs and the UAVs composed over an unreliable network:    *)
(* MT_K broadcasts, rekeys and their acknowledgements, and the four-packet *)
(* handover NOTIFY -> SLAVE_FWD -> JOIN_ACCEPT -> KEY_ACK that             *)
(* crypto/uav-handover-protocol.h defines.                                 *)
(*                                                                         *)
(* Each step is one event of the simulator: a timer or the delivery of one *)
(* packet, together with everything its handler does.  A UAV acknowledges  *)
(* an MT_K by a direct call on the SKDC application of its first cluster,  *)
(* inside the same event.                                                  *)
(***************************************************************************)
EXTENDS SkdcApp, UavApp, KdcApp

CONSTANTS
    MaxRekeys,     \* bound on calls of an application's TriggerRekey from outside
    MaxHandovers,  \* bound on NOTIFY packets
    Lossy          \* whether the network may lose unicast packets

ASSUME FanetAssumption ==
    /\ MaxRekeys \in Nat /\ MaxHandovers \in Nat /\ Lossy \in BOOLEAN
    /\ MaxVersion > MaxRekeys + MaxHandovers

VARIABLES
    net,       \* unicast packets in flight
    lost,      \* packets lost (history)
    rekeys,    \* calls of TriggerRekey so far
    handovers  \* NOTIFY packets so far

envVars   == <<rekeys, handovers>>
fanetVars == <<skdcVars, uavVars, kdcVars, net, lost, envVars>>

\* The packets of the handover protocol and the KDC's control packet.
Notify(u, c) == [kind |-> "NOTIFY", uav |-> u, cluster |-> c]
JoinAccept(u, c, i, key) ==
    [kind |-> "JOIN_ACCEPT", uav |-> u, cluster |-> c, index |-> i, key |-> key]
KeyAck(u, c, i) == [kind |-> "KEY_ACK", uav |-> u, cluster |-> c, index |-> i]

FanetInit ==
    /\ SkdcInit /\ UavInit /\ KdcInit
    /\ net = {} /\ lost = {}
    /\ rekeys = 0 /\ handovers = 0

-----------------------------------------------------------------------------
(* Broadcasts and rekeys.                                                  *)

SkdcInitialBroadcast(c) ==
    /\ InitialBroadcast(c)
    /\ UNCHANGED <<uavVars, kdcVars, net, lost, envVars>>

PeriodicSync ==
    /\ net' = net \union ControlPackets
    /\ UNCHANGED <<skdcVars, uavVars, kdcVars, lost, envVars>>

DeliverControl(m) ==
    /\ m.kind = "CONTROL"
    /\ ReceiveFromKdc(m.cluster)
    /\ net' = net \ {m}
    /\ UNCHANGED <<uavVars, kdcVars, lost, envVars>>

\* Someone calls the public operation TriggerRekey of an SKDC.
CallTriggerRekey(c) ==
    /\ rekeys < MaxRekeys
    /\ TriggerRekey(c)
    /\ rekeys' = rekeys + 1
    /\ UNCHANGED <<uavVars, kdcVars, net, lost, handovers>>

SkdcTimeout(c, v) ==
    /\ RekeyTimeout(c, v)
    /\ UNCHANGED <<uavVars, kdcVars, net, lost, envVars>>

\* A broadcast reaches each UAV, in any order with others, or fades first.
DeliverMtk(u, p) ==
    /\ p \in air
    /\ ProcessMtkPacket(u, p)
    /\ IF Decrypts(u, p.cluster)
         THEN OnUavRekeyAck(Home(u), u, p.version)
         ELSE UNCHANGED skdcVars
    /\ UNCHANGED <<kdcVars, net, lost, envVars>>

MtkFades(p) ==
    /\ Fade(p)
    /\ UNCHANGED <<uavVars, kdcVars, net, lost, envVars>>

-----------------------------------------------------------------------------
(* Handover.                                                               *)

\* The old SKDC announces that u moves to c.
NotifyHandover(u, c) ==
    /\ handovers < MaxHandovers
    /\ c # uavCluster[u]
    /\ handovers' = handovers + 1
    /\ net' = net \union {Notify(u, c)}
    /\ UNCHANGED <<skdcVars, uavVars, kdcVars, lost, rekeys>>

ReceiveHandoverNotify(m) ==
    /\ m.kind = "NOTIFY"
    /\ net' = (net \ {m}) \union {ForwardSlaveKey(m.uav, m.cluster)}
    /\ UNCHANGED <<skdcVars, uavVars, kdcVars, lost, envVars>>

DeliverSlaveFwd(m) ==
    /\ m.kind = "SLAVE_FWD"
    /\ ReceiveSlaveKeyFwd(m.cluster, m.uav)
    /\ net' = (net \ {m}) \union {JoinAccept(m.uav, m.cluster, m.index, m.key)}
    /\ UNCHANGED <<uavVars, kdcVars, lost, envVars>>

DeliverJoinAccept(m) ==
    /\ m.kind = "JOIN_ACCEPT"
    /\ ReceiveJoinAccept(m.uav, m.cluster, m.index, m.key)
    /\ net' = (net \ {m}) \union {KeyAck(m.uav, m.cluster, m.index)}
    /\ UNCHANGED <<skdcVars, kdcVars, lost, envVars>>

DeliverKeyAck(m) ==
    /\ m.kind = "KEY_ACK"
    /\ ReceiveKeyAck(m.cluster, m.uav)
    /\ net' = net \ {m}
    /\ UNCHANGED <<uavVars, kdcVars, lost, envVars>>

\* Losing a control packet would be no different from a sync that never ran.
Lose(m) ==
    /\ Lossy
    /\ m.kind # "CONTROL"
    /\ net'  = net \ {m}
    /\ lost' = lost \union {m}
    /\ UNCHANGED <<skdcVars, uavVars, kdcVars, envVars>>

\* All that happens by itself: the only rekeys are those of the joins that end a handover.
HandoverNext ==
    \/ PeriodicSync
    \/ \E c \in Cluster : SkdcInitialBroadcast(c)
    \/ \E c \in Cluster, v \in Version : SkdcTimeout(c, v)
    \/ \E u \in Uav, p \in MtkPacket : DeliverMtk(u, p)
    \/ \E p \in MtkPacket : MtkFades(p)
    \/ \E u \in Uav, c \in Cluster : NotifyHandover(u, c)
    \/ \E m \in net :
          \/ DeliverControl(m)
          \/ ReceiveHandoverNotify(m)
          \/ DeliverSlaveFwd(m)
          \/ DeliverJoinAccept(m)
          \/ DeliverKeyAck(m)
          \/ Lose(m)

FanetNext == HandoverNext \/ \E c \in Cluster : CallTriggerRekey(c)

FanetSpec == FanetInit /\ [][FanetNext]_fanetVars

DeliverHandoverPacket(m) ==
    ReceiveHandoverNotify(m) \/ DeliverSlaveFwd(m) \/ DeliverJoinAccept(m) \/ DeliverKeyAck(m)

\* Every packet of a handover is delivered, unless it is lost.
HandoverFairness ==
    \A u \in Uav, c \in Cluster :
        WF_fanetVars(\E m \in net : /\ m.kind # "CONTROL" /\ m.uav = u /\ m.cluster = c
                                    /\ DeliverHandoverPacket(m))

\* The KDC's sync repeats every 30 s and reaches the SKDCs, timers run, and a UAV in
\* range does not miss the current MT_K of its cluster forever, though it may miss
\* any one broadcast of it.
RekeyFairness ==
    /\ WF_fanetVars(PeriodicSync)
    /\ \A c \in Cluster :
          WF_fanetVars(\E m \in net : m.cluster = c /\ DeliverControl(m))
    /\ \A c \in Cluster, v \in Version : WF_fanetVars(SkdcTimeout(c, v))
    /\ \A u \in Uav, p \in MtkPacket :
          SF_fanetVars(p.version = rekeyVersion[p.cluster] /\ DeliverMtk(u, p))

FanetHandoverSpec == FanetInit /\ [][HandoverNext]_fanetVars /\ HandoverFairness
FanetFairSpec     == FanetSpec /\ HandoverFairness /\ RekeyFairness

-----------------------------------------------------------------------------
(* Properties.                                                             *)

\* The packets of a handover, in the order in which they are sent.
HandoverKind == {"NOTIFY", "SLAVE_FWD", "JOIN_ACCEPT", "KEY_ACK"}

\* Packets in flight carry existing clusters and UAVs, and a slave key of the
\* cluster and slot that the packet names.
PacketOK(m) ==
    /\ m.cluster \in Cluster
    /\ m.kind \in HandoverKind => m.uav \in Uav
    /\ m.kind \in {"SLAVE_FWD", "JOIN_ACCEPT"} =>
          m.index \in Slot /\ m.key = <<m.cluster, m.index>>
    /\ m.kind = "KEY_ACK" => m.index \in Slot /\ m = KeyAck(m.uav, m.cluster, m.index)

\* Every component has its type, and every packet in flight is well formed.
FanetTypeOK ==
    /\ SkdcTypeOK /\ UavTypeOK
    /\ \A m \in net : m.kind \in HandoverKind \union {"CONTROL"} /\ PacketOK(m)

\* Every MT_K a UAV accepts is one it can decrypt: the version, which advances
\* before the decryption, never runs ahead of the key material, whatever handover
\* packets, old broadcasts and losses come between.
AcceptedMtkDecrypts ==
    [][\A u \in Uav : uavVersion'[u] # uavVersion[u] => tekValid'[u]]_fanetVars

\* The UAVs of a cluster that its SKDC does not know of, though they have installed
\* its slave key, have their KEY_ACK still to come, or it was lost.
OrphanOnlyByLoss ==
    \A u \in Uav : LET c == uavCluster[u] IN
        u \notin members[c] => \E i \in Slot : KeyAck(u, c, i) \in net \union lost

\* A pending handover at an SKDC has its JOIN_ACCEPT or KEY_ACK in flight, or it lost
\* one: an entry of m_pending_ho is not left behind by reordering alone.
PendingOnlyByLoss ==
    \A c \in Cluster : \A u \in pendingHo[c] :
        \E m \in net \union lost : m.kind \in {"JOIN_ACCEPT", "KEY_ACK"}
                                   /\ m.uav = u /\ m.cluster = c

\* A UAV that has reached the SKDC's version with a valid TEK has the SKDC's TEK: that
\* is what receiving and decrypting MT_K is for.
SyncedUavHasClusterTek ==
    \A u \in Uav : LET c == uavCluster[u] IN
        (tekValid[u] /\ uavVersion[u] = rekeyVersion[c]) => uavTek[u] = currentTek[c]

\* The TEK that a handover invalidates is refreshed by an MT_K of the new cluster.
TekRefreshed == \A u \in Uav : ~tekValid[u] ~> tekValid[u]

\* Every rekey, and each rebroadcast that repairs a lost one, brings all members of the
\* cluster to the new version: no member is left behind for good.
MembersCatchUp ==
    \A c \in Cluster, v \in Version : \A u \in Uav :
        (rekeyVersion[c] >= v /\ u \in members[c]) ~> (uavVersion[u] >= v)

\* Every handover that was announced completes, with the UAV a member of the new
\* cluster, unless a packet of that handover is lost.
HandoverCompletes ==
    \A u \in Uav, c \in Cluster :
        (Notify(u, c) \in net)
          ~> (u \in members[c] \/ \E m \in lost : m.uav = u /\ m.cluster = c)
=============================================================================
