---------------------------- MODULE FanetReceipts ----------------------------
(***************************************************************************)
(* Fanet with a history variable that records which MT_K each UAV has      *)
(* taken in, to compare the rows of the latency CSV with what the UAVs     *)
(* really received.                                                        *)
(***************************************************************************)
EXTENDS Fanet

VARIABLE heard  \* <<u, c, v>>: u has accepted MT_K of cluster c, version v

receiptVars == <<fanetVars, heard>>

\* What the UAVs take in during one step.
Receipts ==
    {<<u, uavCluster[u], uavVersion'[u]>> : u \in {w \in Uav : uavVersion'[w] # uavVersion[w]}}

ReceiptsInit == FanetInit /\ heard = {}
ReceiptsNext == FanetNext /\ heard' = heard \union Receipts
ReceiptsSpec == ReceiptsInit /\ [][ReceiptsNext]_receiptVars

ReceiptsFairSpec == ReceiptsSpec /\ RekeyFairness

-----------------------------------------------------------------------------
(* Properties.                                                             *)

RowWritten(c, v, status) ==
    latencyRows'[c][v] # latencyRows[c][v] /\ latencyRows'[c][v] = <<status>>

\* A row OK of the latency CSV is written when every member of the cluster has
\* received the MT_K of that rekey, or of a later one, from this SKDC.
OkRowMeansReceived ==
    [][\A c \in Cluster, v \in Version :
         RowWritten(c, v, "OK")
           => \A u \in members[c] : \E w \in v .. MaxVersion : <<u, c, w>> \in heard']_receiptVars
=============================================================================
