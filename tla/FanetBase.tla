------------------------------ MODULE FanetBase ------------------------------
(***************************************************************************)
(* Identities and key material shared by the KDC, the SKDCs and the UAVs.  *)
(*                                                                         *)
(* A TEK is named by who made it, for which cluster, and its number there: *)
(* two TEKs are equal exactly when their names are.  An HMAC key is named  *)
(* by the TEK that KeyFromAesKey derived it from.  A slave key d_i is      *)
(* named by its cluster and its slot in crypto_params.json.                *)
(***************************************************************************)
EXTENDS Integers

CONSTANTS
    NumClusters,    \* clusters, each with its SKDC (3 in the program)
    UavsPerCluster, \* slave keys per cluster (6 in the program)
    MaxVersion      \* bound on rekey_version

ASSUME NumClustersAssumption    == NumClusters \in Nat \ {0}
ASSUME UavsPerClusterAssumption == UavsPerCluster \in Nat \ {0}
ASSUME MaxVersionAssumption     == MaxVersion \in Nat \ {0}

Cluster == 0 .. NumClusters - 1
Slot    == 0 .. UavsPerCluster - 1
Version == 1 .. MaxVersion

\* main.cc numbers the UAVs cluster by cluster: UAV i starts in i / 6 with slot i % 6.
UavId(c, i) == c * UavsPerCluster + i
Uav         == {UavId(c, i) : c \in Cluster, i \in Slot}
Home(u)     == u \div UavsPerCluster
HomeSlot(u) == u % UavsPerCluster

\* TEKs: from crypto_params.json, an SKDC's TriggerRekey, the TekManager, the KDC.
Tek == {"params", "skdc", "manager", "kdc"} \X Cluster \X Version
ParamsTek(c) == <<"params", c, 1>>

\* What the TekManager may hold for cluster c: its first TEK is that of the parameters.
ManagerTek(c) == {ParamsTek(c)} \union {<<"manager", c, v>> : v \in Version}

SlaveKey == Cluster \X Slot

\* An MT_K broadcast.  MT_K of cluster c is opened by exactly the slave keys of c.
MtkPacket == [cluster : Cluster, version : Version]
=============================================================================
