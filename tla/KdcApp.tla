-------------------------------- MODULE KdcApp --------------------------------
(***************************************************************************)
(* The key distribution centre (apps/uav-kdc-app.cc): its own TEK and      *)
(* version per cluster, the slave key it forwards for a handover, and the  *)
(* telemetry it logs.  Fanet connects its outputs to the network.          *)
(***************************************************************************)
EXTENDS FanetBase

VARIABLES
    kdcVersion,  \* [Cluster -> Version]: KdcClusterState::rekey_version
    kdcTek,      \* [Cluster -> Tek]: KdcClusterState::current_tek
    kdcLog       \* rows of kdc_telemetry.csv, as <<cluster, payload>>

kdcVars == <<kdcVersion, kdcTek, kdcLog>>

\* InitializeClusters with the parameters loaded.
KdcInit ==
    /\ kdcVersion = [c \in Cluster |-> 1]
    /\ kdcTek     = [c \in Cluster |-> ParamsTek(c)]
    /\ kdcLog     = {}

\* SendControlPacket for each cluster: SendTekToAllSkdcs, run at start and by PeriodicSync.
ControlPackets == {[kind |-> "CONTROL", cluster |-> c] : c \in Cluster}

\* A rekey at the KDC changes only its own copy of the TEK.
KdcTriggerRekey(c) ==
    /\ kdcVersion[c] < MaxVersion
    /\ kdcVersion' = [kdcVersion EXCEPT ![c] = @ + 1]
    /\ kdcTek'     = [kdcTek EXCEPT ![c] = <<"kdc", c, kdcVersion[c] + 1>>]
    /\ UNCHANGED kdcLog

\* Fault variant: the slave key is looked up in the cluster the UAV came from.
ForwardSlaveKeyOfHome(u, c) ==
    [kind |-> "SLAVE_FWD", uav |-> u, cluster |-> c, index |-> u % UavsPerCluster,
     key |-> <<Home(u), u % UavsPerCluster>>]

\* Fault variant: the global UAV number is used as the slot.
ForwardSlaveKeyGlobalIndex(u, c) ==
    [kind |-> "SLAVE_FWD", uav |-> u, cluster |-> c, index |-> u, key |-> <<c, u>>]

\* ForwardSlaveKey: the slot in the new cluster is the UAV number modulo its size,
\* whoever holds that slot already.
ForwardSlaveKey(u, c) ==
    [kind |-> "SLAVE_FWD", uav |-> u, cluster |-> c, index |-> u % UavsPerCluster,
     key |-> <<c, u % UavsPerCluster>>]

\* ReceiveTelemetryFromSkdc: HMAC and AES-GCM are both checked with the KDC's TEK; a
\* packet that fails is dropped, and what was decrypted is logged as it is.
ReceiveTelemetryFromSkdc(c, tek, hmac, payload) ==
    /\ kdcLog' = IF hmac = kdcTek[c] /\ tek = kdcTek[c]
                   THEN kdcLog \union {<<c, payload>>}
                   ELSE kdcLog
    /\ UNCHANGED <<kdcVersion, kdcTek>>
=============================================================================
