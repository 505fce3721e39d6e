------------------------------ MODULE FanetData ------------------------------
(***************************************************************************)
(* The telemetry path on top of Fanet: UAV -> SKDC (port 9100) -> KDC      *)
(* (port 9300).  A data packet is modelled by the keys it was made with,   *)
(* the associated data that AES-GCM authenticates, and its payload.        *)
(***************************************************************************)
EXTENDS Fanet

\* The 16-bit words at offsets 2 and 4 of a serialised BaseHeader: protocol
\* version 1 and packet type 5, then flags 0x0D and priority 1.
HeaderWords == <<1 * 256 + 5, 13 * 256 + 1>>

\* DataPacket::Build authenticates the cluster and the UAV number.
DataPacket(u, c, s) ==
    [kind |-> "DATA", uav |-> u, cluster |-> c, tek |-> uavTek[u], hmac |-> uavHmac[u],
     aad |-> <<c, u>>, header |-> HeaderWords, payload |-> <<u, s>>]

\* What an SKDC forwards to the KDC, under its own keys; made is history, the
\* version of the SKDC at that moment.
Forward(c, payload) ==
    [kind |-> "FORWARD", cluster |-> c, tek |-> currentTek[c], hmac |-> hmacKey[c],
     payload |-> payload, made |-> rekeyVersion[c]]

\* The empty plaintext.
Nothing == <<>>

UavSendTelemetry(u) ==
    /\ SendTelemetry(u)
    /\ net' = net \union {DataPacket(u, uavCluster[u], dataSeq[u] + 1)}
    /\ UNCHANGED <<skdcVars, kdcVars, lost, envVars>>

\* An SKDC's decryption takes the associated data from the header bytes 2 to 5.
SkdcDecrypts(m) == m.tek = currentTek[m.cluster] /\ m.header = m.aad

\* ReceiveDataFromUav: a packet that fails the HMAC check skips the decryption and is
\* forwarded with what has been decrypted so far, which is nothing; one that fails
\* the decryption is dropped.
ReceiveDataFromUav(m) ==
    LET c == m.cluster IN
    /\ m.kind = "DATA"
    /\ skdcUp[c]
    /\ net' = (net \ {m}) \union
                (IF m.hmac # hmacKey[c] THEN {Forward(c, Nothing)}
                 ELSE IF SkdcDecrypts(m) THEN {Forward(c, m.payload)}
                 ELSE {})
    /\ UNCHANGED <<skdcVars, uavVars, kdcVars, lost, envVars>>

KdcReceiveTelemetry(m) ==
    /\ m.kind = "FORWARD"
    /\ ReceiveTelemetryFromSkdc(m.cluster, m.tek, m.hmac, m.payload)
    /\ net' = net \ {m}
    /\ UNCHANGED <<skdcVars, uavVars, lost, envVars>>

\* Someone calls the public operation TriggerRekey of the KDC, which also sends its
\* control packet.
CallKdcTriggerRekey(c) ==
    /\ rekeys < MaxRekeys
    /\ KdcTriggerRekey(c)
    /\ net' = net \union {m \in ControlPackets : m.cluster = c}
    /\ rekeys' = rekeys + 1
    /\ UNCHANGED <<skdcVars, uavVars, lost, handovers>>

DataNext ==
    \/ FanetNext
    \/ \E u \in Uav : UavSendTelemetry(u)
    \/ \E c \in Cluster : CallKdcTriggerRekey(c)
    \/ \E m \in net : ReceiveDataFromUav(m) \/ KdcReceiveTelemetry(m)

DataSpec == FanetInit /\ [][DataNext]_fanetVars

-----------------------------------------------------------------------------
(* Properties.                                                             *)

\* The pipeline that the comments of the two receivers promise: the SKDC decrypts what a
\* UAV of its cluster sends and forwards the plaintext, and the KDC, which "decrypts using
\* cluster TEK, logs plaintext, writes to telemetry CSV", logs what it is forwarded.
TelemetryReachesLog ==
    [][/\ \A m \in net : ReceiveDataFromUav(m) =>
             \E f \in net' : f.kind = "FORWARD" /\ f.payload = m.payload
       /\ \A m \in net : KdcReceiveTelemetry(m) =>
             <<m.cluster, m.payload>> \in kdcLog']_fanetVars
=============================================================================
