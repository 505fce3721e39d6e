------------------------------- MODULE SkdcApp -------------------------------
(***************************************************************************)
(* The sub key distribution centres (apps/uav-skdc-app.cc), one per        *)
(* cluster: membership, the MT_K broadcast, the rekey trigger, the         *)
(* acknowledgement ledger of each rekey with its 5 s timeout, the pending  *)
(* handovers.                                                              *)
(*                                                                         *)
(* The module is an open component: SkdcNext lets every public operation   *)
(* and every socket callback of the class run in any order and with any    *)
(* argument, so what is proved of SkdcSpec holds whatever the KDC, the     *)
(* UAVs and the managers do.  Fanet composes it with them.                 *)
(* MT_K itself never changes after InitializeState, so a broadcast is its  *)
(* cluster and version.                                                    *)
(***************************************************************************)
EXTENDS FanetBase, Sequences, FiniteSets

VARIABLES
    skdcUp,         \* [Cluster -> BOOLEAN]: the sockets are open
    startPending,   \* clusters whose initial broadcast event has not run
    rekeyVersion,   \* [Cluster -> Version]: SkdcState::rekey_version
    currentTek,     \* [Cluster -> Tek]: SkdcState::current_tek
    hmacKey,        \* [Cluster -> Tek]: SkdcState::hmac_key
    members,        \* [Cluster -> SUBSET Uav]: SkdcState::members
    pendingHo,      \* [Cluster -> SUBSET Uav]: keys of m_pending_ho
    sendTimes,      \* [Cluster -> SUBSET Version]: keys of m_rekey_send_times
    ackMap,         \* [Cluster -> SUBSET (Version \X Uav)]: m_rekey_ack_map
    timers,         \* [Cluster -> SUBSET Version]: scheduled 5 s timeouts
    latencyRows,    \* [Cluster -> [Version -> Seq(Status)]]: rows of the CSV
    air             \* MT_K broadcasts a receiver may still hear

ledgerVars == <<sendTimes, ackMap, timers, latencyRows>>
tekVars    == <<currentTek, hmacKey>>
skdcVars   == <<skdcUp, startPending, rekeyVersion, tekVars, members, pendingHo,
                ledgerVars, air>>

Status == {"OK", "TIMEOUT"}

-----------------------------------------------------------------------------
(* State after StartApplication: InitializeState ran with the parameters   *)
(* loaded and ScheduleInitialBroadcast put its event in the queue.         *)

InitializeState ==
    /\ rekeyVersion = [c \in Cluster |-> 1]
    /\ currentTek   = [c \in Cluster |-> ParamsTek(c)]
    /\ hmacKey      = [c \in Cluster |-> ParamsTek(c)]
    /\ members      = [c \in Cluster |-> {UavId(c, i) : i \in Slot}]

SkdcInit ==
    /\ InitializeState
    /\ skdcUp       = [c \in Cluster |-> TRUE]
    /\ startPending = Cluster
    /\ pendingHo    = [c \in Cluster |-> {}]
    /\ sendTimes    = [c \in Cluster |-> {}]
    /\ ackMap       = [c \in Cluster |-> {}]
    /\ timers       = [c \in Cluster |-> {}]
    /\ latencyRows  = [c \in Cluster |-> [v \in Version |-> <<>>]]
    /\ air          = {}

-----------------------------------------------------------------------------
(* Parts of handlers.                                                      *)

\* Fault variant: the packet carries the version after the current one.
BroadcastMtkNextVersion(c, v) ==
    air' = IF skdcUp[c] THEN air \union {[cluster |-> c, version |-> v + 1]} ELSE air

\* BroadcastMtk of version v: nothing is sent once the WiFi socket is closed.
BroadcastMtk(c, v) ==
    air' = IF skdcUp[c] THEN air \union {[cluster |-> c, version |-> v]} ELSE air

\* The UAVs whose acknowledgement of version v has been counted.
AckedBy(c, v) == {u \in Uav : <<v, u>> \in ackMap[c]}

\* Fault variants: one of the two erasures is forgotten.
CloseRekeyKeepsSendTime(c, v, acks, status) ==
    /\ latencyRows' = [latencyRows EXCEPT ![c][v] = Append(@, status)]
    /\ ackMap'      = [ackMap EXCEPT ![c] = {a \in acks : a[1] # v}]
    /\ UNCHANGED sendTimes

CloseRekeyKeepsAcks(c, v, acks, status) ==
    /\ latencyRows' = [latencyRows EXCEPT ![c][v] = Append(@, status)]
    /\ sendTimes'   = [sendTimes EXCEPT ![c] = @ \ {v}]
    /\ ackMap'      = [ackMap EXCEPT ![c] = acks]

\* WriteRekeyLatencyCsv and the two erasures that follow it.
CloseRekey(c, v, acks, status) ==
    /\ latencyRows' = [latencyRows EXCEPT ![c][v] = Append(@, status)]
    /\ sendTimes'   = [sendTimes EXCEPT ![c] = @ \ {v}]
    /\ ackMap'      = [ackMap EXCEPT ![c] = {a \in acks : a[1] # v}]

\* Fault variant: the timeout of the new version is never scheduled.
RekeyCoreWithoutTimer(c) ==
    LET v == rekeyVersion[c] + 1 IN
    /\ rekeyVersion[c] < MaxVersion
    /\ rekeyVersion' = [rekeyVersion EXCEPT ![c] = v]
    /\ currentTek'   = [currentTek EXCEPT ![c] = <<"skdc", c, v>>]
    /\ sendTimes'    = [sendTimes EXCEPT ![c] = @ \union {v}]
    /\ ackMap'       = [ackMap EXCEPT ![c] = {a \in @ : a[1] # v}]
    /\ BroadcastMtk(c, v)
    /\ UNCHANGED <<skdcUp, startPending, hmacKey, timers, latencyRows>>

\* TriggerRekey changes the TEK but neither MT_K nor the HMAC key.
RekeyCore(c) ==
    LET v == rekeyVersion[c] + 1 IN
    /\ rekeyVersion[c] < MaxVersion
    /\ rekeyVersion' = [rekeyVersion EXCEPT ![c] = v]
    /\ currentTek'   = [currentTek EXCEPT ![c] = <<"skdc", c, v>>]
    /\ sendTimes'    = [sendTimes EXCEPT ![c] = @ \union {v}]
    /\ ackMap'       = [ackMap EXCEPT ![c] = {a \in @ : a[1] # v}]
    /\ timers'       = [timers EXCEPT ![c] = @ \union {v}]
    /\ BroadcastMtk(c, v)
    /\ UNCHANGED <<skdcUp, startPending, hmacKey, latencyRows>>

\* ProcessJoin also serves ReceiveKeyAck, which first drops the pending entry.
JoinCore(c, u) ==
    /\ members' = [members EXCEPT ![c] = @ \union {u}]
    /\ RekeyCore(c)

-----------------------------------------------------------------------------
(* Operations and callbacks.                                               *)

InitialBroadcast(c) ==
    /\ c \in startPending
    /\ startPending' = startPending \ {c}
    /\ BroadcastMtk(c, rekeyVersion[c])
    /\ UNCHANGED <<skdcUp, rekeyVersion, tekVars, members, pendingHo, ledgerVars>>

TriggerRekey(c) ==
    /\ RekeyCore(c)
    /\ UNCHANGED <<members, pendingHo>>

ProcessJoin(c, u) ==
    /\ JoinCore(c, u)
    /\ UNCHANGED pendingHo

ProcessLeave(c, u) ==
    /\ members' = [members EXCEPT ![c] = @ \ {u}]
    /\ RekeyCore(c)
    /\ UNCHANGED pendingHo

\* Fault variant: the control packet is read but nothing is sent again.
ReceiveFromKdcSilent(c) ==
    /\ skdcUp[c]
    /\ UNCHANGED skdcVars

\* A control packet from the KDC only provokes a rebroadcast: its TEK is not read.
ReceiveFromKdc(c) ==
    /\ skdcUp[c]
    /\ BroadcastMtk(c, rekeyVersion[c])
    /\ UNCHANGED <<skdcUp, startPending, rekeyVersion, tekVars, members, pendingHo,
                   ledgerVars>>

\* The new TEK is announced under the old version number.
UpdateTek(c, tek) ==
    /\ currentTek' = [currentTek EXCEPT ![c] = tek]
    /\ hmacKey'    = [hmacKey EXCEPT ![c] = tek]
    /\ BroadcastMtk(c, rekeyVersion[c])
    /\ UNCHANGED <<skdcUp, startPending, rekeyVersion, members, pendingHo, ledgerVars>>

ReceiveSlaveKeyFwd(c, u) ==
    /\ skdcUp[c]
    /\ pendingHo' = [pendingHo EXCEPT ![c] = @ \union {u}]
    /\ UNCHANGED <<skdcUp, startPending, rekeyVersion, tekVars, members, ledgerVars, air>>

\* Fault variants: the rekey of the join without the member, or without the erasure.
ReceiveKeyAckForgetsMember(c, u) ==
    /\ skdcUp[c]
    /\ pendingHo' = [pendingHo EXCEPT ![c] = @ \ {u}]
    /\ RekeyCore(c)
    /\ UNCHANGED members

ReceiveKeyAckKeepsPending(c, u) ==
    /\ skdcUp[c]
    /\ JoinCore(c, u)
    /\ UNCHANGED pendingHo

\* The acknowledgement is not matched against m_pending_ho.
ReceiveKeyAck(c, u) ==
    /\ skdcUp[c]
    /\ pendingHo' = [pendingHo EXCEPT ![c] = @ \ {u}]
    /\ JoinCore(c, u)

\* Fault variant: the early return on a version that is not open is dropped.
OnUavRekeyAckUnguarded(c, u, v) ==
    LET acks == ackMap[c] \union {<<v, u>>} IN
    /\ IF Cardinality(AckedBy(c, v) \union {u}) >= Cardinality(members[c])
         THEN CloseRekey(c, v, acks, "OK")
         ELSE /\ ackMap' = [ackMap EXCEPT ![c] = acks]
              /\ UNCHANGED <<latencyRows, sendTimes>>
    /\ UNCHANGED <<skdcUp, startPending, rekeyVersion, tekVars, members, pendingHo,
                   timers, air>>

\* Fault variant: the count of acknowledgements is one short of the members.
OnUavRekeyAckOneShort(c, u, v) ==
    LET acks == ackMap[c] \union {<<v, u>>} IN
    /\ IF v \notin sendTimes[c]
         THEN UNCHANGED <<latencyRows, sendTimes, ackMap>>
         ELSE IF Cardinality(AckedBy(c, v) \union {u}) + 1 >= Cardinality(members[c])
           THEN CloseRekey(c, v, acks, "OK")
           ELSE /\ ackMap' = [ackMap EXCEPT ![c] = acks]
                /\ UNCHANGED <<latencyRows, sendTimes>>
    /\ UNCHANGED <<skdcUp, startPending, rekeyVersion, tekVars, members, pendingHo,
                   timers, air>>

\* Fault variant: the rekey waits for more acknowledgements than there are members.
OnUavRekeyAckOneOver(c, u, v) ==
    LET acks == ackMap[c] \union {<<v, u>>} IN
    /\ IF v \notin sendTimes[c]
         THEN UNCHANGED <<latencyRows, sendTimes, ackMap>>
         ELSE IF Cardinality(AckedBy(c, v) \union {u}) > Cardinality(members[c])
           THEN CloseRekey(c, v, acks, "OK")
           ELSE /\ ackMap' = [ackMap EXCEPT ![c] = acks]
                /\ UNCHANGED <<latencyRows, sendTimes>>
    /\ UNCHANGED <<skdcUp, startPending, rekeyVersion, tekVars, members, pendingHo,
                   timers, air>>

\* Called by a UAV application directly, whatever its cluster and membership.
OnUavRekeyAck(c, u, v) ==
    LET acks == ackMap[c] \union {<<v, u>>} IN
    /\ IF v \notin sendTimes[c]
         THEN UNCHANGED <<latencyRows, sendTimes, ackMap>>
         ELSE IF Cardinality(AckedBy(c, v) \union {u}) >= Cardinality(members[c])
           THEN CloseRekey(c, v, acks, "OK")
           ELSE /\ ackMap' = [ackMap EXCEPT ![c] = acks]
                /\ UNCHANGED <<latencyRows, sendTimes>>
    /\ UNCHANGED <<skdcUp, startPending, rekeyVersion, tekVars, members, pendingHo,
                   timers, air>>

\* Fault variant: the timeout gives up on a version that some UAV has acknowledged.
RekeyTimeoutSkipsAcked(c, v) ==
    /\ v \in timers[c]
    /\ \A w \in timers[c] : v <= w
    /\ timers' = [timers EXCEPT ![c] = @ \ {v}]
    /\ IF v \in sendTimes[c] /\ AckedBy(c, v) = {}
         THEN CloseRekey(c, v, ackMap[c], "TIMEOUT")
         ELSE UNCHANGED <<latencyRows, sendTimes, ackMap>>
    /\ UNCHANGED <<skdcUp, startPending, rekeyVersion, tekVars, members, pendingHo, air>>

\* Timeouts of one SKDC run in the order in which they were scheduled.
RekeyTimeout(c, v) ==
    /\ v \in timers[c]
    /\ \A w \in timers[c] : v <= w
    /\ timers' = [timers EXCEPT ![c] = @ \ {v}]
    /\ IF v \in sendTimes[c]
         THEN CloseRekey(c, v, ackMap[c], "TIMEOUT")
         ELSE UNCHANGED <<latencyRows, sendTimes, ackMap>>
    /\ UNCHANGED <<skdcUp, startPending, rekeyVersion, tekVars, members, pendingHo, air>>

\* Closing the sockets cancels no scheduled event.
StopSkdc(c) ==
    /\ skdcUp[c]
    /\ skdcUp' = [skdcUp EXCEPT ![c] = FALSE]
    /\ UNCHANGED <<startPending, rekeyVersion, tekVars, members, pendingHo, ledgerVars, air>>

\* The channel: a broadcast is gone; who has not heard it never will.
Fade(p) ==
    /\ p \in air
    /\ air' = air \ {p}
    /\ UNCHANGED <<skdcUp, startPending, rekeyVersion, tekVars, members, pendingHo, ledgerVars>>

SkdcNext ==
    \/ \E p \in MtkPacket : Fade(p)
    \/ \E c \in Cluster :
        \/ InitialBroadcast(c)
        \/ TriggerRekey(c)
        \/ ReceiveFromKdc(c)
        \/ StopSkdc(c)
        \/ \E tek \in ManagerTek(c) : UpdateTek(c, tek)
        \/ \E v \in Version : RekeyTimeout(c, v)
        \/ \E u \in Uav :
              \/ ProcessJoin(c, u)
              \/ ProcessLeave(c, u)
              \/ ReceiveSlaveKeyFwd(c, u)
              \/ ReceiveKeyAck(c, u)
              \/ \E v \in Version : OnUavRekeyAck(c, u, v)

\* The simulator runs every scheduled event, so a timeout cannot be put off forever.
TimersFire == \A c \in Cluster, v \in Version : WF_skdcVars(RekeyTimeout(c, v))

SkdcSpec     == SkdcInit /\ [][SkdcNext]_skdcVars
SkdcFairSpec == SkdcSpec /\ TimersFire

-----------------------------------------------------------------------------
(* Properties.                                                             *)

\* Every variable of the SKDCs keeps the type of the C++ member it stands for.
SkdcTypeOK ==
    /\ skdcUp       \in [Cluster -> BOOLEAN]
    /\ startPending \in SUBSET Cluster
    /\ rekeyVersion \in [Cluster -> Version]
    /\ currentTek   \in [Cluster -> Tek]
    /\ hmacKey      \in [Cluster -> Tek]
    /\ members      \in [Cluster -> SUBSET Uav]
    /\ pendingHo    \in [Cluster -> SUBSET Uav]
    /\ sendTimes    \in [Cluster -> SUBSET Version]
    /\ ackMap       \in [Cluster -> SUBSET (Version \X Uav)]
    /\ timers       \in [Cluster -> SUBSET Version]
    /\ latencyRows  \in [Cluster -> [Version -> Seq(Status)]]
    /\ air          \in SUBSET MtkPacket

\* Only versions that a rekey has produced are open or have a timeout pending:
\* version 1, which InitializeState sets, is never measured.
OnlyRekeysAreMeasured ==
    \A c \in Cluster : \A v \in sendTimes[c] \union timers[c] : v \in 2 .. rekeyVersion[c]

\* Every rekey writes exactly one row of the latency CSV, OK or TIMEOUT, and it
\* does so when it stops being open: however late acknowledgements, the timeout
\* lambda and further rekeys interleave, no row is lost and none is written twice.
EveryRekeyReportedOnce ==
    \A c \in Cluster, v \in Version :
        Len(latencyRows[c][v]) =
            IF v \in 2 .. rekeyVersion[c] /\ v \notin sendTimes[c] THEN 1 ELSE 0

\* An open rekey always has its timeout still in the event queue, so it cannot
\* stay open forever when acknowledgements are lost.
OpenRekeyHasTimer == \A c \in Cluster : sendTimes[c] \subseteq timers[c]

\* m_rekey_ack_map holds acknowledgements of open rekeys only: operator[] never
\* revives the entry of a version that was already reported.
NoStrayAcks == \A c \in Cluster : \A a \in ackMap[c] : a[1] \in sendTimes[c]

\* Version v is open though as many UAVs have acknowledged it as the cluster has members.
AckedButOpen(c, v) ==
    v \in sendTimes[c] /\ Cardinality(AckedBy(c, v)) >= Cardinality(members[c])

\* A rekey that has all its acknowledgements is left to its timeout only by a leave, which
\* lowers the number of members without looking at the open rekeys, or in a cluster that
\* has no members: neither joins nor further rekeys nor the order of acknowledgements do it.
AckedRekeyWaitsOnlyByLeave ==
    [][\A c \in Cluster, v \in Version :
         (~AckedButOpen(c, v) /\ AckedButOpen(c, v)')
           => (~(members[c] \subseteq members'[c]) \/ members'[c] = {})]_skdcVars

\* The rekey ledger of each SKDC implements the abstract one: versions open in
\* order, and each open version is closed once, with OK or with TIMEOUT.
Stage(c, v) ==
    IF v \in sendTimes[c] THEN "open"
    ELSE IF Len(latencyRows[c][v]) = 1 THEN latencyRows[c][v][1]
    ELSE IF latencyRows[c][v] = <<>> THEN "unused" ELSE "corrupt"

Ledger == INSTANCE RekeyLedger
    WITH latest <- rekeyVersion,
         stage  <- [c \in Cluster |-> [v \in Version |-> Stage(c, v)]]

\* Refinement of the abstract ledger, safety part.
ImplementsLedger == Ledger!Spec

\* Every rekey is eventually reported, the abstract ledger's liveness: under the
\* simulator's guarantee that a scheduled timeout runs.
EveryRekeyEventuallyReported ==
    \A c \in Cluster, v \in Version : (v \in sendTimes[c]) ~> (v \notin sendTimes[c])
=============================================================================
