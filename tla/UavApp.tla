-------------------------------- MODULE UavApp --------------------------------
(***************************************************************************)
(* The UAV application (apps/uav-uav-app.cc): its identity and slave key,  *)
(* the MT_K version it has reached, the validity of its TEK, and the       *)
(* telemetry it may send.                                                  *)
(*                                                                         *)
(* The module is an open component: UavNext delivers any MT_K, REKEY and   *)
(* JOIN_ACCEPT packet at any time.  The calls a handler makes on other     *)
(* components (the acknowledgement to the home SKDC, KEY_ACK, the data     *)
(* packet) are outputs that Fanet connects.                                *)
(***************************************************************************)
EXTENDS FanetBase

CONSTANT MaxDataSeq   \* bound on data_seq

ASSUME MaxDataSeqAssumption == MaxDataSeq \in Nat

VARIABLES
    uavUp,       \* [Uav -> BOOLEAN]: the sockets are open
    uavCluster,  \* [Uav -> Cluster]: m_cluster_id
    uavIndex,    \* [Uav -> Slot]: m_uav_index
    slaveKey,    \* [Uav -> SlaveKey]: d_i, n_i, e_i
    uavVersion,  \* [Uav -> 0 .. MaxVersion]: rekey_version
    tekValid,    \* [Uav -> BOOLEAN]: tek_valid
    uavTek,      \* [Uav -> Tek]: current_tek
    uavHmac,     \* [Uav -> Tek]: hmac_key
    dataSeq      \* [Uav -> 0 .. MaxDataSeq]: data_seq

keyVars == <<uavCluster, uavIndex, slaveKey, tekValid, uavTek, uavHmac>>
uavVars == <<uavUp, keyVars, uavVersion, dataSeq>>

-----------------------------------------------------------------------------

\* SetUavId as main.cc calls it, then InitializeSlaveKey with the parameters loaded.
UavInit ==
    /\ uavUp      = [u \in Uav |-> TRUE]
    /\ uavCluster = [u \in Uav |-> Home(u)]
    /\ uavIndex   = [u \in Uav |-> HomeSlot(u)]
    /\ slaveKey   = [u \in Uav |-> <<Home(u), HomeSlot(u)>>]
    /\ uavVersion = [u \in Uav |-> 0]
    /\ tekValid   = [u \in Uav |-> TRUE]
    /\ uavTek     = [u \in Uav |-> ParamsTek(Home(u))]
    /\ uavHmac    = [u \in Uav |-> ParamsTek(Home(u))]
    /\ dataSeq    = [u \in Uav |-> 0]

\* The slave key opens the MT_K of cluster c, and the result is compared with the
\* TEK that the parameters give for the cluster the UAV believes it is in.
OwnKeyOpens(u, c) == slaveKey[u][1] = c /\ uavCluster[u] = c

\* Otherwise DecryptMtk tries the slave keys of every other cluster.
OtherKeyOpens(u, c) == ~OwnKeyOpens(u, c) /\ uavCluster[u] # c

\* Whether DecryptMtk returns true.
Decrypts(u, c) == OwnKeyOpens(u, c) \/ OtherKeyOpens(u, c)

\* DecryptMtk on the MT_K of cluster c.  With its own key the UAV only marks its
\* TEK valid; with another cluster's it takes over that cluster's key and TEK.
DecryptMtk(u, c) ==
    LET moves == OtherKeyOpens(u, c) IN
    /\ tekValid'   = [tekValid EXCEPT ![u] = @ \/ Decrypts(u, c)]
    /\ uavCluster' = [uavCluster EXCEPT ![u] = IF moves THEN c ELSE @]
    /\ slaveKey'   = [slaveKey EXCEPT ![u] = IF moves THEN <<c, uavIndex[u]>> ELSE @]
    /\ uavTek'     = [uavTek EXCEPT ![u] = IF moves THEN ParamsTek(c) ELSE @]
    /\ uavHmac'    = [uavHmac EXCEPT ![u] = IF moves THEN ParamsTek(c) ELSE @]
    /\ UNCHANGED uavIndex

\* ProcessMtkPacket goes on only for its own cluster and a newer version.
AcceptsMtk(u, p) == p.cluster = uavCluster[u] /\ p.version > uavVersion[u]

\* The version advances before, and whether or not, MT_K can be decrypted.
ProcessMtkPacket(u, p) ==
    /\ uavUp[u]
    /\ AcceptsMtk(u, p)
    /\ uavVersion' = [uavVersion EXCEPT ![u] = p.version]
    /\ DecryptMtk(u, p.cluster)
    /\ UNCHANGED <<uavUp, dataSeq>>

\* A REKEY packet, authenticated with HMAC key k, is checked against the cluster but
\* leaves rekey_version alone.
ProcessRekeyPacket(u, p, k) ==
    /\ uavUp[u]
    /\ k = uavHmac[u]
    /\ p.cluster = uavCluster[u]
    /\ DecryptMtk(u, p.cluster)
    /\ UNCHANGED <<uavUp, uavVersion, dataSeq>>

\* ReceiveJoinAccept and UpdateSlaveKey: key, cluster and slot change together and
\* the TEK becomes invalid; its version, the TEK and the HMAC key stay.
ReceiveJoinAccept(u, c, i, key) ==
    /\ uavUp[u]
    /\ slaveKey'   = [slaveKey EXCEPT ![u] = key]
    /\ uavCluster' = [uavCluster EXCEPT ![u] = c]
    /\ uavIndex'   = [uavIndex EXCEPT ![u] = i]
    /\ tekValid'   = [tekValid EXCEPT ![u] = FALSE]
    /\ UNCHANGED <<uavUp, uavVersion, uavTek, uavHmac, dataSeq>>

\* SendTelemetry and SendData: nothing is sent while the TEK is not valid.
SendTelemetry(u) ==
    /\ uavUp[u] /\ tekValid[u]
    /\ dataSeq[u] < MaxDataSeq
    /\ dataSeq' = [dataSeq EXCEPT ![u] = @ + 1]
    /\ UNCHANGED <<uavUp, keyVars, uavVersion>>

StopUav(u) ==
    /\ uavUp[u]
    /\ uavUp' = [uavUp EXCEPT ![u] = FALSE]
    /\ UNCHANGED <<keyVars, uavVersion, dataSeq>>

UavNext ==
    \E u \in Uav :
        \/ \E p \in MtkPacket : ProcessMtkPacket(u, p)
        \/ \E p \in MtkPacket, k \in Tek : ProcessRekeyPacket(u, p, k)
        \/ \E c \in Cluster, i \in Slot, key \in SlaveKey : ReceiveJoinAccept(u, c, i, key)
        \/ SendTelemetry(u)
        \/ StopUav(u)

UavSpec == UavInit /\ [][UavNext]_uavVars

-----------------------------------------------------------------------------
(* Properties.                                                             *)

\* Every variable of the UAVs keeps the type of the C++ member it stands for.
UavTypeOK ==
    /\ uavUp      \in [Uav -> BOOLEAN]
    /\ uavCluster \in [Uav -> Cluster]
    /\ uavIndex   \in [Uav -> Slot]
    /\ slaveKey   \in [Uav -> SlaveKey]
    /\ uavVersion \in [Uav -> 0 .. MaxVersion]
    /\ tekValid   \in [Uav -> BOOLEAN]
    /\ uavTek     \in [Uav -> Tek]
    /\ uavHmac    \in [Uav -> Tek]
    /\ dataSeq    \in [Uav -> 0 .. MaxDataSeq]

\* A UAV whose TEK is marked valid holds a slave key of the cluster it believes
\* to be in, even when a JOIN_ACCEPT carried a key of another cluster and MT_K
\* and REKEY packets follow it in any order.
ValidTekHasClusterKey ==
    \A u \in Uav : tekValid[u] => slaveKey[u][1] = uavCluster[u]
=============================================================================
