---------------------------- MODULE SkdcAppProofs ----------------------------
(***************************************************************************)
(* Proofs about the SKDCs of SkdcApp, for any number of clusters, UAVs and *)
(* versions and for any order of calls.                                    *)
(***************************************************************************)
EXTENDS SkdcApp, FiniteSetTheorems, TLAPS

\* The inductive invariant: the ledger facts need each other.  A row is written
\* when a version leaves sendTimes, so "one row" needs "only rekeys are open",
\* and "no stray acks" survives CloseRekey because sendTimes loses one version.
SkdcInv ==
    /\ SkdcTypeOK
    /\ OnlyRekeysAreMeasured
    /\ EveryRekeyReportedOnce
    /\ OpenRekeyHasTimer
    /\ NoStrayAcks

-----------------------------------------------------------------------------
(* Identities and key names.                                               *)

\* The numbering of main.cc is undone by division: UAV c * 6 + i starts in
\* cluster c with slot i.
LEMMA HomeOfUavId ==
  ASSUME NEW c \in Cluster, NEW i \in Slot
  PROVE  Home(UavId(c, i)) = c /\ HomeSlot(UavId(c, i)) = i
  <1> DEFINE n == UavsPerCluster
             x == c * n + i
             q == x \div n
             r == x % n
  <1>1. n \in Nat \ {0} /\ c \in Int /\ i \in 0 .. n - 1 /\ x \in Int
    BY NumClustersAssumption, UavsPerClusterAssumption DEF Cluster, Slot
  <1>2. x = n * q + r /\ r \in 0 .. n - 1 /\ q \in Int
    BY <1>1
  <1> HIDE DEF n, q, r
  <1>3. c * n + i = n * q + r
    BY <1>2
  <1>4. ~(q <= c - 1)
    <2> SUFFICES ASSUME q <= c - 1 PROVE FALSE
      OBVIOUS
    <2>1. n * q <= n * (c - 1)
      BY <1>1, <1>2
    <2>2. n * (c - 1) = c * n - n
      BY <1>1
    <2> QED BY <1>1, <1>2, <1>3, <2>1, <2>2
  <1>5. ~(q >= c + 1)
    <2> SUFFICES ASSUME q >= c + 1 PROVE FALSE
      OBVIOUS
    <2>1. n * q >= n * (c + 1)
      BY <1>1, <1>2
    <2>2. n * (c + 1) = c * n + n
      BY <1>1
    <2> QED BY <1>1, <1>2, <1>3, <2>1, <2>2
  <1>6. q = c
    BY <1>1, <1>2, <1>4, <1>5
  <1>7. r = i
    BY <1>1, <1>2, <1>3, <1>6
  <1> QED BY <1>6, <1>7 DEF Home, HomeSlot, UavId, n, q, r

\* A UAV starts in a cluster, with a slot of it.
LEMMA HomeType == \A u \in Uav : Home(u) \in Cluster /\ HomeSlot(u) \in Slot
  BY HomeOfUavId DEF Uav

\* The TEKs of the parameters file and of the TekManager are TEKs.
LEMMA ParamsTekType == \A c \in Cluster : ParamsTek(c) \in Tek
  BY MaxVersionAssumption DEF ParamsTek, Tek, Version

\* The TEKs that UpdateTek may bring are TEKs.
LEMMA ManagerTekType == \A c \in Cluster : ManagerTek(c) \subseteq Tek
  BY MaxVersionAssumption DEF ManagerTek, ParamsTek, Tek, Version

-----------------------------------------------------------------------------

\* Types after InitializeState.
LEMMA InitialTypes == SkdcInit => SkdcTypeOK
  <1>1. ASSUME SkdcInit, NEW c \in Cluster
        PROVE  /\ 1 \in Version
               /\ ParamsTek(c) \in Tek
               /\ {UavId(c, i) : i \in Slot} \subseteq Uav
    BY MaxVersionAssumption DEF Version, ParamsTek, Tek, Uav
  <1> QED
    BY <1>1 DEF SkdcInit, InitializeState, SkdcTypeOK

\* SkdcApp starts in the inductive invariant.
LEMMA InitialInv == SkdcInit => SkdcInv
  <1> SUFFICES ASSUME SkdcInit PROVE SkdcInv
    OBVIOUS
  <1>1. SkdcTypeOK
    BY InitialTypes
  <1>2. OnlyRekeysAreMeasured /\ OpenRekeyHasTimer /\ NoStrayAcks
    BY DEF SkdcInit, OnlyRekeysAreMeasured, OpenRekeyHasTimer, NoStrayAcks
  <1>3. EveryRekeyReportedOnce
    <2> SUFFICES ASSUME NEW c \in Cluster, NEW v \in Version
                 PROVE  /\ latencyRows[c][v] = <<>>
                        /\ ~(v \in 2 .. rekeyVersion[c])
      BY DEF EveryRekeyReportedOnce
    <2> QED BY DEF SkdcInit, InitializeState
  <1> QED BY <1>1, <1>2, <1>3 DEF SkdcInv

-----------------------------------------------------------------------------
(* Every step keeps the types.                                             *)

\* BroadcastMtk puts an MT_K packet on the air.
LEMMA BroadcastMtkType ==
  ASSUME SkdcTypeOK, NEW c \in Cluster, NEW v \in Version, BroadcastMtk(c, v)
  PROVE  air' \in SUBSET MtkPacket
  BY DEF SkdcTypeOK, BroadcastMtk, MtkPacket

\* The part that TriggerRekey, ProcessJoin and ProcessLeave share keeps the types.
LEMMA RekeyCoreType ==
  ASSUME SkdcTypeOK, NEW c \in Cluster, RekeyCore(c)
  PROVE  /\ rekeyVersion' \in [Cluster -> Version]
         /\ currentTek'   \in [Cluster -> Tek]
         /\ sendTimes'    \in [Cluster -> SUBSET Version]
         /\ ackMap'       \in [Cluster -> SUBSET (Version \X Uav)]
         /\ timers'       \in [Cluster -> SUBSET Version]
         /\ air'          \in SUBSET MtkPacket
         /\ UNCHANGED <<skdcUp, startPending, hmacKey, latencyRows>>
  <1> DEFINE v == rekeyVersion[c] + 1
  <1>1. v \in Version
    BY MaxVersionAssumption DEF SkdcTypeOK, RekeyCore, Version
  <1>2. <<"skdc", c, v>> \in Tek
    BY <1>1 DEF Tek
  <1>3. air' \in SUBSET MtkPacket
    BY <1>1, BroadcastMtkType DEF RekeyCore
  <1> HIDE DEF v
  <1>4. /\ rekeyVersion' = [rekeyVersion EXCEPT ![c] = v]
        /\ currentTek'   = [currentTek EXCEPT ![c] = <<"skdc", c, v>>]
        /\ sendTimes'    = [sendTimes EXCEPT ![c] = @ \union {v}]
        /\ ackMap'       = [ackMap EXCEPT ![c] = {a \in @ : a[1] # v}]
        /\ timers'       = [timers EXCEPT ![c] = @ \union {v}]
        /\ UNCHANGED <<skdcUp, startPending, hmacKey, latencyRows>>
    BY DEF RekeyCore, v
  <1> QED BY <1>1, <1>2, <1>3, <1>4 DEF SkdcTypeOK

\* Closing a rekey, by the last acknowledgement or by its timeout, keeps the types.
LEMMA CloseRekeyType ==
  ASSUME SkdcTypeOK, NEW c \in Cluster, NEW v \in Version,
         NEW acks \in SUBSET (Version \X Uav), NEW s \in Status,
         CloseRekey(c, v, acks, s)
  PROVE  /\ latencyRows' \in [Cluster -> [Version -> Seq(Status)]]
         /\ sendTimes'   \in [Cluster -> SUBSET Version]
         /\ ackMap'      \in [Cluster -> SUBSET (Version \X Uav)]
  <1>1. Append(latencyRows[c][v], s) \in Seq(Status)
    BY DEF SkdcTypeOK
  <1>2. latencyRows' \in [Cluster -> [Version -> Seq(Status)]]
    BY <1>1 DEF SkdcTypeOK, CloseRekey
  <1> QED BY <1>2 DEF SkdcTypeOK, CloseRekey

\* Every operation of the SKDC keeps the types.
LEMMA TypePreserved == SkdcTypeOK /\ [SkdcNext]_skdcVars => SkdcTypeOK'
  <1> SUFFICES ASSUME SkdcTypeOK, [SkdcNext]_skdcVars PROVE SkdcTypeOK'
    OBVIOUS
  <1>1. CASE UNCHANGED skdcVars
    BY <1>1 DEF skdcVars, tekVars, ledgerVars, SkdcTypeOK
  <1>2. ASSUME NEW c \in Cluster, InitialBroadcast(c) PROVE SkdcTypeOK'
    <2>1. air' \in SUBSET MtkPacket
      BY <1>2, BroadcastMtkType DEF InitialBroadcast, SkdcTypeOK
    <2> QED BY <1>2, <2>1 DEF InitialBroadcast, SkdcTypeOK, tekVars, ledgerVars
  <1>3. ASSUME NEW c \in Cluster, TriggerRekey(c) PROVE SkdcTypeOK'
    BY <1>3, RekeyCoreType DEF TriggerRekey, SkdcTypeOK
  <1>4. ASSUME NEW c \in Cluster, ReceiveFromKdc(c) PROVE SkdcTypeOK'
    <2>1. air' \in SUBSET MtkPacket
      BY <1>4, BroadcastMtkType DEF ReceiveFromKdc, SkdcTypeOK
    <2> QED BY <1>4, <2>1 DEF ReceiveFromKdc, SkdcTypeOK, tekVars, ledgerVars
  <1>5. ASSUME NEW c \in Cluster, StopSkdc(c) PROVE SkdcTypeOK'
    BY <1>5 DEF StopSkdc, SkdcTypeOK, tekVars, ledgerVars
  <1>6. ASSUME NEW c \in Cluster, NEW tek \in ManagerTek(c), UpdateTek(c, tek)
        PROVE  SkdcTypeOK'
    <2>0. tek \in Tek
      BY ManagerTekType
    <2>1. air' \in SUBSET MtkPacket
      BY <1>6, BroadcastMtkType DEF UpdateTek, SkdcTypeOK
    <2> QED BY <1>6, <2>0, <2>1 DEF UpdateTek, SkdcTypeOK, ledgerVars
  <1>7. ASSUME NEW c \in Cluster, NEW v \in Version, RekeyTimeout(c, v) PROVE SkdcTypeOK'
    <2>1. /\ latencyRows' \in [Cluster -> [Version -> Seq(Status)]]
          /\ sendTimes'   \in [Cluster -> SUBSET Version]
          /\ ackMap'      \in [Cluster -> SUBSET (Version \X Uav)]
      <3>1. CASE CloseRekey(c, v, ackMap[c], "TIMEOUT")
        <4>1. ackMap[c] \in SUBSET (Version \X Uav) /\ "TIMEOUT" \in Status
          BY DEF SkdcTypeOK, Status
        <4> QED BY <3>1, <4>1, CloseRekeyType
      <3>2. CASE UNCHANGED <<latencyRows, sendTimes, ackMap>>
        BY <3>2 DEF SkdcTypeOK
      <3> QED BY <1>7, <3>1, <3>2 DEF RekeyTimeout
    <2>2. timers' \in [Cluster -> SUBSET Version]
      BY <1>7 DEF RekeyTimeout, SkdcTypeOK
    <2> QED BY <1>7, <2>1, <2>2 DEF RekeyTimeout, SkdcTypeOK, tekVars
  <1>8. ASSUME NEW c \in Cluster, NEW u \in Uav, ProcessJoin(c, u) PROVE SkdcTypeOK'
    BY <1>8, RekeyCoreType DEF ProcessJoin, JoinCore, SkdcTypeOK
  <1>9. ASSUME NEW c \in Cluster, NEW u \in Uav, ProcessLeave(c, u) PROVE SkdcTypeOK'
    BY <1>9, RekeyCoreType DEF ProcessLeave, SkdcTypeOK
  <1>10. ASSUME NEW c \in Cluster, NEW u \in Uav, ReceiveSlaveKeyFwd(c, u)
         PROVE  SkdcTypeOK'
    BY <1>10 DEF ReceiveSlaveKeyFwd, SkdcTypeOK, tekVars, ledgerVars
  <1>11. ASSUME NEW c \in Cluster, NEW u \in Uav, ReceiveKeyAck(c, u) PROVE SkdcTypeOK'
    BY <1>11, RekeyCoreType DEF ReceiveKeyAck, JoinCore, SkdcTypeOK
  <1>12. ASSUME NEW c \in Cluster, NEW u \in Uav, NEW v \in Version, OnUavRekeyAck(c, u, v)
         PROVE  SkdcTypeOK'
    <2> DEFINE acks == ackMap[c] \union {<<v, u>>}
    <2>1. acks \in SUBSET (Version \X Uav) /\ "OK" \in Status
      BY DEF SkdcTypeOK, Status
    <2>2. /\ latencyRows' \in [Cluster -> [Version -> Seq(Status)]]
          /\ sendTimes'   \in [Cluster -> SUBSET Version]
          /\ ackMap'      \in [Cluster -> SUBSET (Version \X Uav)]
      <3>1. CASE CloseRekey(c, v, acks, "OK")
        BY <2>1, <3>1, CloseRekeyType
      <3>2. CASE UNCHANGED <<latencyRows, sendTimes, ackMap>>
        BY <3>2 DEF SkdcTypeOK
      <3>3. CASE ackMap' = [ackMap EXCEPT ![c] = acks] /\ UNCHANGED <<latencyRows, sendTimes>>
        BY <2>1, <3>3 DEF SkdcTypeOK
      <3> QED BY <1>12, <3>1, <3>2, <3>3 DEF OnUavRekeyAck
    <2> QED BY <1>12, <2>2 DEF OnUavRekeyAck, SkdcTypeOK, tekVars
  <1>13. ASSUME NEW p \in MtkPacket, Fade(p) PROVE SkdcTypeOK'
    BY <1>13 DEF Fade, SkdcTypeOK, tekVars, ledgerVars
  <1> QED
    BY <1>1, <1>2, <1>3, <1>4, <1>5, <1>6, <1>7, <1>8, <1>9, <1>10, <1>11, <1>12, <1>13
    DEF SkdcNext

-----------------------------------------------------------------------------
(* Every step keeps the ledger in order.  For the ledger there are only    *)
(* three kinds of steps: a rekey, an acknowledgement and a timeout.        *)

Ledgers == OnlyRekeysAreMeasured /\ EveryRekeyReportedOnce /\ OpenRekeyHasTimer /\ NoStrayAcks

\* The steps of the SKDC that touch the latency bookkeeping.
LEMMA LedgerSteps ==
  ASSUME SkdcNext
  PROVE  \/ UNCHANGED <<rekeyVersion, ledgerVars>>
         \/ \E c \in Cluster : RekeyCore(c)
         \/ \E c \in Cluster, v \in Version : RekeyTimeout(c, v)
         \/ \E c \in Cluster, u \in Uav, v \in Version : OnUavRekeyAck(c, u, v)
  BY DEF SkdcNext, InitialBroadcast, TriggerRekey, ReceiveFromKdc, StopSkdc, UpdateTek,
         ProcessJoin, ProcessLeave, ReceiveSlaveKeyFwd, ReceiveKeyAck, JoinCore, Fade,
         ledgerVars

\* A rekey opens a version that had neither a row nor an acknowledgement.
LEMMA RekeyCoreLedgers ==
  ASSUME SkdcInv, NEW c \in Cluster, RekeyCore(c)
  PROVE  Ledgers'
  <1> DEFINE n == rekeyVersion[c] + 1
  <1>1. /\ n \in Version
        /\ rekeyVersion[c] \in Version
        /\ rekeyVersion' = [rekeyVersion EXCEPT ![c] = n]
        /\ sendTimes'    = [sendTimes EXCEPT ![c] = @ \union {n}]
        /\ ackMap'       = [ackMap EXCEPT ![c] = {a \in @ : a[1] # n}]
        /\ timers'       = [timers EXCEPT ![c] = @ \union {n}]
        /\ latencyRows'  = latencyRows
    BY MaxVersionAssumption DEF SkdcInv, SkdcTypeOK, RekeyCore, Version
  <1>2. n \notin sendTimes[c]
    BY <1>1 DEF SkdcInv, OnlyRekeysAreMeasured, Version
  <1>3. OnlyRekeysAreMeasured'
    BY <1>1 DEF SkdcInv, SkdcTypeOK, OnlyRekeysAreMeasured, Version
  <1>4. EveryRekeyReportedOnce'
    <2> SUFFICES ASSUME NEW d \in Cluster, NEW v \in Version
                 PROVE  (Len(latencyRows[d][v]) =
                           IF v \in 2 .. rekeyVersion[d] /\ v \notin sendTimes[d]
                             THEN 1 ELSE 0)'
      BY DEF EveryRekeyReportedOnce
    <2>1. rekeyVersion[d] \in Nat /\ v \in Nat
      BY DEF SkdcInv, SkdcTypeOK, Version
    <2>2. (v \in 2 .. rekeyVersion[d] /\ v \notin sendTimes[d])'
            <=> (v \in 2 .. rekeyVersion[d] /\ v \notin sendTimes[d])
      <3>1. CASE d = c
        BY <1>1, <1>2, <2>1, <3>1 DEF SkdcInv, SkdcTypeOK, Version
      <3>2. CASE d # c
        BY <1>1, <3>2 DEF SkdcInv, SkdcTypeOK
      <3> QED BY <3>1, <3>2
    <2> QED BY <1>1, <2>2 DEF SkdcInv, EveryRekeyReportedOnce
  <1>5. OpenRekeyHasTimer'
    BY <1>1 DEF SkdcInv, SkdcTypeOK, OpenRekeyHasTimer
  <1>6. NoStrayAcks'
    BY <1>1 DEF SkdcInv, SkdcTypeOK, NoStrayAcks
  <1> QED BY <1>3, <1>4, <1>5, <1>6 DEF Ledgers

\* Closing an open version moves it from sendTimes to the rows, with its acks.
LEMMA CloseRekeyLedgers ==
  ASSUME SkdcInv, NEW c \in Cluster, NEW v \in sendTimes[c], NEW s \in Status,
         NEW acks \in SUBSET (Version \X Uav),
         \A a \in acks : a[1] \in sendTimes[c],
         CloseRekey(c, v, acks, s), UNCHANGED rekeyVersion,
         timers' \in {timers, [timers EXCEPT ![c] = @ \ {v}]}
  PROVE  Ledgers'
  <1>1. v \in Version /\ v \in 2 .. rekeyVersion[c]
    BY DEF SkdcInv, SkdcTypeOK, OnlyRekeysAreMeasured
  <1>2. /\ latencyRows' = [latencyRows EXCEPT ![c][v] = Append(@, s)]
        /\ sendTimes'   = [sendTimes EXCEPT ![c] = @ \ {v}]
        /\ ackMap'      = [ackMap EXCEPT ![c] = {a \in acks : a[1] # v}]
    BY DEF CloseRekey
  <1>3. OnlyRekeysAreMeasured'
    BY <1>2 DEF SkdcInv, SkdcTypeOK, OnlyRekeysAreMeasured
  <1>4. EveryRekeyReportedOnce'
    <2> SUFFICES ASSUME NEW d \in Cluster, NEW w \in Version
                 PROVE  Len(latencyRows'[d][w]) =
                          IF w \in 2 .. rekeyVersion'[d] /\ w \notin sendTimes'[d]
                            THEN 1 ELSE 0
      BY DEF EveryRekeyReportedOnce
    <2>1. CASE d = c /\ w = v
      <3>1. latencyRows[c][v] \in Seq(Status) /\ Len(latencyRows[c][v]) = 0
        BY <1>1 DEF SkdcInv, SkdcTypeOK, EveryRekeyReportedOnce
      <3>2. latencyRows'[c][v] = Append(latencyRows[c][v], s)
        BY <1>1, <1>2 DEF SkdcInv, SkdcTypeOK
      <3>3. Len(latencyRows'[c][v]) = 1
        BY <3>1, <3>2
      <3> QED BY <1>1, <1>2, <2>1, <3>3 DEF SkdcInv, SkdcTypeOK
    <2>2. CASE ~(d = c /\ w = v)
      <3>1. latencyRows'[d][w] = latencyRows[d][w]
        BY <1>1, <1>2, <2>2 DEF SkdcInv, SkdcTypeOK
      <3>2. (w \in sendTimes'[d]) <=> (w \in sendTimes[d])
        BY <1>2, <2>2 DEF SkdcInv, SkdcTypeOK
      <3> QED BY <3>1, <3>2 DEF SkdcInv, EveryRekeyReportedOnce
    <2> QED BY <2>1, <2>2
  <1>5. OpenRekeyHasTimer'
    BY <1>2 DEF SkdcInv, SkdcTypeOK, OpenRekeyHasTimer
  <1>6. NoStrayAcks'
    BY <1>2 DEF SkdcInv, SkdcTypeOK, NoStrayAcks
  <1> QED BY <1>3, <1>4, <1>5, <1>6 DEF Ledgers

\* Every operation keeps the relations between open rekeys, timers, acknowledgements and rows.
LEMMA LedgersPreserved == SkdcInv /\ [SkdcNext]_skdcVars => Ledgers'
  <1> SUFFICES ASSUME SkdcInv, [SkdcNext]_skdcVars PROVE Ledgers'
    OBVIOUS
  <1>1. CASE UNCHANGED <<rekeyVersion, ledgerVars>>
    BY <1>1 DEF SkdcInv, Ledgers, ledgerVars, OnlyRekeysAreMeasured,
                EveryRekeyReportedOnce, OpenRekeyHasTimer, NoStrayAcks
  <1>2. ASSUME NEW c \in Cluster, RekeyCore(c) PROVE Ledgers'
    BY <1>2, RekeyCoreLedgers
  <1>3. ASSUME NEW c \in Cluster, NEW v \in Version, RekeyTimeout(c, v) PROVE Ledgers'
    <2>1. timers' = [timers EXCEPT ![c] = @ \ {v}] /\ UNCHANGED rekeyVersion
      BY <1>3 DEF RekeyTimeout
    <2>2. CASE v \in sendTimes[c]
      <3>1. CloseRekey(c, v, ackMap[c], "TIMEOUT")
        BY <1>3, <2>2 DEF RekeyTimeout
      <3>2. /\ ackMap[c] \in SUBSET (Version \X Uav)
            /\ \A a \in ackMap[c] : a[1] \in sendTimes[c]
            /\ "TIMEOUT" \in Status
        BY DEF SkdcInv, SkdcTypeOK, NoStrayAcks, Status
      <3> QED BY <2>1, <2>2, <3>1, <3>2, CloseRekeyLedgers
    <2>3. CASE v \notin sendTimes[c]
      <3>1. UNCHANGED <<latencyRows, sendTimes, ackMap>>
        BY <1>3, <2>3 DEF RekeyTimeout
      <3>2. OpenRekeyHasTimer' /\ OnlyRekeysAreMeasured'
        BY <2>1, <2>3, <3>1 DEF SkdcInv, SkdcTypeOK, OpenRekeyHasTimer, OnlyRekeysAreMeasured
      <3> QED BY <2>1, <3>1, <3>2 DEF SkdcInv, Ledgers, EveryRekeyReportedOnce, NoStrayAcks
    <2> QED BY <2>2, <2>3
  <1>4. ASSUME NEW c \in Cluster, NEW u \in Uav, NEW v \in Version, OnUavRekeyAck(c, u, v)
        PROVE  Ledgers'
    <2> DEFINE acks == ackMap[c] \union {<<v, u>>}
    <2>1. UNCHANGED <<rekeyVersion, timers>>
      BY <1>4 DEF OnUavRekeyAck
    <2>2. CASE UNCHANGED <<latencyRows, sendTimes, ackMap>>
      BY <1>1, <2>1, <2>2 DEF ledgerVars
    <2>3. CASE v \in sendTimes[c]
      <3>1. /\ acks \in SUBSET (Version \X Uav)
            /\ \A a \in acks : a[1] \in sendTimes[c]
            /\ "OK" \in Status
        BY <2>3 DEF SkdcInv, SkdcTypeOK, NoStrayAcks, Status
      <3>2. CASE CloseRekey(c, v, acks, "OK")
        BY <2>1, <2>3, <3>1, <3>2, CloseRekeyLedgers
      <3>3. CASE ackMap' = [ackMap EXCEPT ![c] = acks] /\ UNCHANGED <<latencyRows, sendTimes>>
        <4>1. NoStrayAcks'
          BY <3>1, <3>3 DEF SkdcInv, SkdcTypeOK, NoStrayAcks
        <4> QED BY <2>1, <3>3, <4>1 DEF SkdcInv, Ledgers, OnlyRekeysAreMeasured,
                                        EveryRekeyReportedOnce, OpenRekeyHasTimer
      <3> QED BY <1>4, <2>3, <3>2, <3>3 DEF OnUavRekeyAck
    <2> QED BY <1>4, <2>2, <2>3 DEF OnUavRekeyAck
  <1>5. CASE UNCHANGED skdcVars
    BY <1>1, <1>5 DEF skdcVars
  <1> QED BY <1>1, <1>2, <1>3, <1>4, <1>5, LedgerSteps

-----------------------------------------------------------------------------
(* Theorems.                                                               *)

\* The inductive invariant holds in every reachable state of the SKDCs.
THEOREM SkdcInvariant == SkdcSpec => []SkdcInv
  <1>1. SkdcInv /\ [SkdcNext]_skdcVars => SkdcInv'
    BY TypePreserved, LedgersPreserved DEF SkdcInv, Ledgers
  <1> QED BY InitialInv, <1>1, PTL DEF SkdcSpec

\* The state of the SKDCs is always of its type.
THEOREM SkdcTypeCorrect == SkdcSpec => []SkdcTypeOK
  <1>1. SkdcInv => SkdcTypeOK
    BY DEF SkdcInv
  <1> QED BY SkdcInvariant, <1>1, PTL

\* Each rekey, in every run of the SKDCs, has exactly one row of the latency CSV
\* once it is closed and none before, whatever acknowledgements and timeouts do.
THEOREM RekeysReportedOnce == SkdcSpec => []EveryRekeyReportedOnce
  <1>1. SkdcInv => EveryRekeyReportedOnce
    BY DEF SkdcInv
  <1> QED BY SkdcInvariant, <1>1, PTL

\* No rekey stays open without its timeout in the event queue.
THEOREM OpenRekeysHaveTimers == SkdcSpec => []OpenRekeyHasTimer
  <1>1. SkdcInv => OpenRekeyHasTimer
    BY DEF SkdcInv
  <1> QED BY SkdcInvariant, <1>1, PTL

\* No acknowledgement is kept for a version that is not open.
THEOREM AcksAreOfOpenRekeys == SkdcSpec => []NoStrayAcks
  <1>1. SkdcInv => NoStrayAcks
    BY DEF SkdcInv
  <1> QED BY SkdcInvariant, <1>1, PTL

-----------------------------------------------------------------------------
(* Acknowledgements counted against the members.                           *)

\* There are finitely many UAVs, so sets of them can be counted.
LEMMA UavFinite == IsFiniteSet(Uav)
  <1>1. ASSUME NEW u \in Uav PROVE u \in Nat /\ u <= NumClusters * UavsPerCluster
    <2>1. PICK c \in Cluster, i \in Slot : u = c * UavsPerCluster + i
      BY DEF Uav, UavId
    <2>2. /\ c \in Nat /\ i \in Nat /\ c + 1 <= NumClusters /\ i <= UavsPerCluster
          /\ UavsPerCluster \in Nat /\ NumClusters \in Nat
      BY NumClustersAssumption, UavsPerClusterAssumption DEF Cluster, Slot
    <2>3. (c + 1) * UavsPerCluster <= NumClusters * UavsPerCluster
      BY <2>2
    <2>4. (c + 1) * UavsPerCluster = c * UavsPerCluster + UavsPerCluster
      BY <2>2
    <2>5. c * UavsPerCluster \in Nat /\ NumClusters * UavsPerCluster \in Nat
      BY <2>2
    <2> QED BY <2>1, <2>2, <2>3, <2>4, <2>5
  <1>2. NumClusters * UavsPerCluster \in Nat
    BY NumClustersAssumption, UavsPerClusterAssumption
  <1>3. Uav \in SUBSET Nat
    BY <1>1
  <1> QED BY <1>1, <1>2, <1>3, FS_BoundedSetOfNaturals

\* Sets of UAVs are finite, and their sizes follow inclusion.
LEMMA CountUavs ==
  ASSUME NEW S \in SUBSET Uav, NEW T \in SUBSET S
  PROVE  /\ Cardinality(S) \in Nat /\ Cardinality(T) \in Nat
         /\ Cardinality(T) <= Cardinality(S)
         /\ S # {} => Cardinality(S) > 0
  <1>1. IsFiniteSet(S) /\ IsFiniteSet(T)
    BY UavFinite, FS_Subset
  <1> QED BY <1>1, FS_CardinalityType, FS_Subset, FS_EmptySet

\* A step in which no member leaves closes every version whose count it completes.
LEMMA CompletedRekeyCloses ==
  ASSUME SkdcInv, [SkdcNext]_skdcVars, NEW c \in Cluster, NEW v \in Version,
         ~AckedButOpen(c, v), members[c] \subseteq members'[c], members'[c] # {}
  PROVE  ~AckedButOpen(c, v)'
  <1>0. /\ SkdcTypeOK /\ SkdcTypeOK'
        /\ members[c] \in SUBSET Uav /\ members'[c] \in SUBSET Uav
    BY TypePreserved DEF SkdcInv, SkdcTypeOK
  <1> SUFFICES ASSUME v \in sendTimes'[c]
               PROVE  Cardinality(AckedBy(c, v)') < Cardinality(members'[c])
    <2>1. AckedBy(c, v)' \in SUBSET Uav
      BY DEF AckedBy
    <2>2. Cardinality(AckedBy(c, v)') \in Nat /\ Cardinality(members'[c]) \in Nat
      BY <1>0, <2>1, CountUavs
    <2> QED BY <2>2 DEF AckedButOpen, AckedBy
  <1>1. CASE AckedBy(c, v)' = {}
    <2>1. Cardinality({}) = 0 /\ Cardinality(members'[c]) > 0
      BY <1>0, FS_EmptySet, CountUavs
    <2> QED BY <1>1, <2>1
  <1>2. CASE v \in sendTimes[c] /\ AckedBy(c, v)' \subseteq AckedBy(c, v)
    <2>1. AckedBy(c, v) \in SUBSET Uav
      BY DEF AckedBy
    <2>2. ~(Cardinality(AckedBy(c, v)) >= Cardinality(members[c]))
      BY <1>2 DEF AckedButOpen
    <2>3. /\ Cardinality(AckedBy(c, v)) \in Nat /\ Cardinality(AckedBy(c, v)') \in Nat
          /\ Cardinality(AckedBy(c, v)') <= Cardinality(AckedBy(c, v))
      BY <1>2, <2>1, CountUavs
    <2>4. /\ Cardinality(members[c]) \in Nat /\ Cardinality(members'[c]) \in Nat
          /\ Cardinality(members[c]) <= Cardinality(members'[c])
      BY <1>0, CountUavs
    <2> QED BY <2>2, <2>3, <2>4
  <1>3. CASE UNCHANGED <<rekeyVersion, ledgerVars>>
    <2>1. v \in sendTimes[c] /\ AckedBy(c, v)' \subseteq AckedBy(c, v)
      BY <1>3 DEF ledgerVars, AckedBy
    <2> QED BY <1>2, <2>1
  <1>4. ASSUME NEW d \in Cluster, RekeyCore(d)
        PROVE  \/ AckedBy(c, v)' = {}
               \/ v \in sendTimes[c] /\ AckedBy(c, v)' \subseteq AckedBy(c, v)
    <2> DEFINE n == rekeyVersion[d] + 1
    <2>1. /\ sendTimes' = [sendTimes EXCEPT ![d] = @ \union {n}]
          /\ ackMap'    = [ackMap EXCEPT ![d] = {a \in @ : a[1] # n}]
      BY <1>4 DEF RekeyCore
    <2> HIDE DEF n
    <2>2. CASE d = c /\ v = n
      <3>1. \A u \in Uav : <<v, u>> \notin ackMap'[c]
        BY <1>0, <2>1, <2>2 DEF SkdcTypeOK
      <3> QED BY <3>1 DEF AckedBy
    <2>3. CASE ~(d = c /\ v = n)
      <3>1. v \in sendTimes[c] /\ ackMap'[c] \subseteq ackMap[c]
        BY <1>0, <2>1, <2>3 DEF SkdcTypeOK
      <3> QED BY <3>1 DEF AckedBy
    <2> QED BY <2>2, <2>3
  <1>5. ASSUME NEW d \in Cluster, NEW w \in Version, RekeyTimeout(d, w)
        PROVE  v \in sendTimes[c] /\ AckedBy(c, v)' \subseteq AckedBy(c, v)
    <2>1. \/ CloseRekey(d, w, ackMap[d], "TIMEOUT")
          \/ UNCHANGED <<latencyRows, sendTimes, ackMap>>
      BY <1>5 DEF RekeyTimeout
    <2>2. \/ /\ sendTimes' = [sendTimes EXCEPT ![d] = @ \ {w}]
             /\ ackMap' = [ackMap EXCEPT ![d] = {a \in ackMap[d] : a[1] # w}]
          \/ UNCHANGED <<sendTimes, ackMap>>
      BY <2>1 DEF CloseRekey
    <2>3. sendTimes \in [Cluster -> SUBSET Version]
          /\ ackMap \in [Cluster -> SUBSET (Version \X Uav)]
      BY <1>0 DEF SkdcTypeOK
    <2>4. sendTimes'[c] \subseteq sendTimes[c] /\ ackMap'[c] \subseteq ackMap[c]
      BY <2>2, <2>3
    <2> QED BY <2>4 DEF AckedBy
  <1>6. ASSUME NEW d \in Cluster, NEW u \in Uav, NEW w \in Version, OnUavRekeyAck(d, u, w)
        PROVE  Cardinality(AckedBy(c, v)') < Cardinality(members'[c])
    <2> DEFINE acks == ackMap[d] \union {<<w, u>>}
    <2>1. \/ UNCHANGED <<sendTimes, ackMap>>
          \/ CloseRekey(d, w, acks, "OK")
          \/ /\ ackMap' = [ackMap EXCEPT ![d] = acks] /\ UNCHANGED sendTimes
             /\ ~(Cardinality(AckedBy(d, w) \union {u}) >= Cardinality(members[d]))
      BY <1>6 DEF OnUavRekeyAck
    <2>0. \/ UNCHANGED <<sendTimes, ackMap>>
          \/ /\ sendTimes' = [sendTimes EXCEPT ![d] = @ \ {w}]
             /\ ackMap' = [ackMap EXCEPT ![d] = {a \in acks : a[1] # w}]
          \/ ackMap' = [ackMap EXCEPT ![d] = acks] /\ UNCHANGED sendTimes
      BY <2>1 DEF CloseRekey
    <2>t. sendTimes \in [Cluster -> SUBSET Version]
          /\ ackMap \in [Cluster -> SUBSET (Version \X Uav)]
      BY <1>0 DEF SkdcTypeOK
    <2>2. v \in sendTimes[c] /\ UNCHANGED members
      BY <1>6, <2>0, <2>t DEF OnUavRekeyAck
    <2>3. CASE ~(d = c /\ w = v) \/ UNCHANGED <<sendTimes, ackMap>>
      <3>1. \A x \in Uav : <<v, x>> \in ackMap'[c] => <<v, x>> \in ackMap[c]
        BY <2>0, <2>3, <2>t
      <3>2. AckedBy(c, v)' \subseteq AckedBy(c, v)
        BY <3>1 DEF AckedBy
      <3> QED BY <1>2, <2>2, <3>2
    <2>4. CASE d = c /\ w = v /\ CloseRekey(d, w, acks, "OK")
      BY <1>0, <2>4 DEF CloseRekey, SkdcTypeOK
    <2>5. CASE /\ d = c /\ w = v /\ ackMap' = [ackMap EXCEPT ![d] = acks]
               /\ ~(Cardinality(AckedBy(d, w) \union {u}) >= Cardinality(members[d]))
      <3>1. AckedBy(c, v)' = AckedBy(c, v) \union {u}
        BY <1>0, <2>5 DEF AckedBy, SkdcTypeOK
      <3>2. AckedBy(c, v) \union {u} \in SUBSET Uav
        BY DEF AckedBy
      <3>3. Cardinality(AckedBy(c, v) \union {u}) \in Nat /\ Cardinality(members[c]) \in Nat
        BY <1>0, <3>2, CountUavs
      <3> QED BY <2>2, <2>5, <3>1, <3>3
    <2> QED BY <2>1, <2>3, <2>4, <2>5
  <1>7. CASE UNCHANGED skdcVars
    BY <1>3, <1>7 DEF skdcVars
  <1> QED BY <1>1, <1>2, <1>3, <1>4, <1>5, <1>6, <1>7, LedgerSteps

\* Only a leave, or the want of members, makes a rekey that has all its acknowledgements
\* wait for its timeout, for any number of UAVs and versions.
THEOREM AckedRekeysCloseAtOnce == SkdcSpec => AckedRekeyWaitsOnlyByLeave
  <1> DEFINE Good == \A c \in Cluster, v \in Version :
                        (~AckedButOpen(c, v) /\ AckedButOpen(c, v)')
                          => (~(members[c] \subseteq members'[c]) \/ members'[c] = {})
  <1>1. SkdcInv /\ [SkdcNext]_skdcVars => [Good]_skdcVars
    BY CompletedRekeyCloses
  <1> QED BY <1>1, SkdcInvariant, PTL DEF SkdcSpec, AckedRekeyWaitsOnlyByLeave

-----------------------------------------------------------------------------
(* Refinement of RekeyLedger.                                              *)

\* The refinement mapping.
Stages == [c \in Cluster |-> [v \in Version |-> Stage(c, v)]]

\* Updating one cell of a matrix, cell by cell.
LEMMA NestedUpdate ==
  ASSUME NEW C, NEW V, NEW S, NEW f \in [C -> [V -> S]], NEW g \in [C -> [V -> S]],
         NEW c \in C, NEW v \in V, NEW s,
         \A d \in C, w \in V : g[d][w] = IF d = c /\ w = v THEN s ELSE f[d][w]
  PROVE  g = [f EXCEPT ![c][v] = s]
  <1>1. ASSUME NEW d \in C PROVE g[d] = [f EXCEPT ![c][v] = s][d]
    <2>1. CASE d = c
      <3>1. g[c] = [f[c] EXCEPT ![v] = s]
        OBVIOUS
      <3> QED BY <2>1, <3>1
    <2>2. CASE d # c
      <3>1. g[d] = f[d]
        BY <2>2
      <3> QED BY <2>2, <3>1
    <2> QED BY <2>1, <2>2
  <1> QED BY <1>1

\* The stages of the rekeys form a function, before and after a step.
LEMMA StagesType ==
  \E T : Stages \in [Cluster -> [Version -> T]] /\ Stages' \in [Cluster -> [Version -> T]]
  <1> DEFINE S == {Stages[d][w] : d \in Cluster, w \in Version}
                    \union {Stages'[d][w] : d \in Cluster, w \in Version}
  <1>1. Stages \in [Cluster -> [Version -> S]] /\ Stages' \in [Cluster -> [Version -> S]]
    BY DEF Stages
  <1> HIDE DEF S
  <1> QED BY <1>1, Zenon

\* What the mapping says of a row that is written when a version is closed.
LEMMA RowStages ==
  ASSUME SkdcInv, NEW c \in Cluster, NEW v \in Version
  PROVE  /\ v \in sendTimes[c] => latencyRows[c][v] = <<>>
         /\ v \notin 2 .. rekeyVersion[c] => Stage(c, v) = "unused"
  <1>1. latencyRows[c][v] \in Seq(Status)
    BY DEF SkdcInv, SkdcTypeOK
  <1>2. v \in sendTimes[c] => Len(latencyRows[c][v]) = 0
    BY DEF SkdcInv, EveryRekeyReportedOnce
  <1>3. v \notin 2 .. rekeyVersion[c] =>
            Len(latencyRows[c][v]) = 0 /\ v \notin sendTimes[c]
    BY DEF SkdcInv, EveryRekeyReportedOnce, OnlyRekeysAreMeasured
  <1>4. Len(latencyRows[c][v]) = 0 => latencyRows[c][v] = <<>>
    BY <1>1
  <1> QED BY <1>2, <1>3, <1>4 DEF Stage

\* A rekey is an Open of the abstract ledger.
LEMMA RekeyCoreOpens ==
  ASSUME SkdcInv, NEW c \in Cluster, RekeyCore(c)
  PROVE  Ledger!Open(c)
  <1> DEFINE n == rekeyVersion[c] + 1
  <1>1. /\ n \in Version
        /\ n \notin 2 .. rekeyVersion[c]
        /\ rekeyVersion' = [rekeyVersion EXCEPT ![c] = n]
        /\ sendTimes'    = [sendTimes EXCEPT ![c] = @ \union {n}]
        /\ latencyRows'  = latencyRows
    BY MaxVersionAssumption DEF SkdcInv, SkdcTypeOK, RekeyCore, Version
  <1> HIDE DEF n
  <1>2. Stages[c][n] = "unused"
    BY <1>1, RowStages DEF Stages
  <1>3. ASSUME NEW d \in Cluster, NEW v \in Version
        PROVE  Stages'[d][v] = IF d = c /\ v = n THEN "open" ELSE Stages[d][v]
    BY <1>1 DEF Stages, Stage, SkdcInv, SkdcTypeOK
  <1>4. Stages' = [Stages EXCEPT ![c][n] = "open"]
    BY <1>1, <1>3, StagesType, NestedUpdate
  <1> QED BY <1>1, <1>2, <1>4 DEF Ledger!Open, Stages, n

\* Closing an open version is a Close of the abstract ledger.
LEMMA CloseRekeyCloses ==
  ASSUME SkdcInv, NEW c \in Cluster, NEW v \in sendTimes[c], NEW s \in Status, NEW acks,
         CloseRekey(c, v, acks, s), UNCHANGED rekeyVersion
  PROVE  v \in Version /\ Ledger!Close(c, v)
  <1>1. v \in Version
    BY DEF SkdcInv, SkdcTypeOK
  <1>2. latencyRows[c][v] = <<>>
    BY <1>1, RowStages
  <1>3. /\ latencyRows' = [latencyRows EXCEPT ![c][v] = Append(@, s)]
        /\ sendTimes'   = [sendTimes EXCEPT ![c] = @ \ {v}]
    BY DEF CloseRekey
  <1>4. latencyRows'[c][v] = <<s>>
    <2>1. latencyRows'[c][v] = Append(<<>>, s)
      BY <1>1, <1>2, <1>3 DEF SkdcInv, SkdcTypeOK
    <2> QED BY <2>1
  <1>5. ASSUME NEW d \in Cluster, NEW w \in Version
        PROVE  Stages'[d][w] = IF d = c /\ w = v THEN s ELSE Stages[d][w]
    <2>1. CASE d = c /\ w = v
      <3>1. v \notin sendTimes'[c]
        BY <1>3 DEF SkdcInv, SkdcTypeOK
      <3>2. Len(<<s>>) = 1 /\ <<s>>[1] = s
        OBVIOUS
      <3> QED BY <1>4, <2>1, <3>1, <3>2 DEF Stages, Stage
    <2>2. CASE ~(d = c /\ w = v)
      <3>1. latencyRows'[d][w] = latencyRows[d][w]
        BY <1>1, <1>3, <2>2 DEF SkdcInv, SkdcTypeOK
      <3>2. (w \in sendTimes'[d]) <=> (w \in sendTimes[d])
        BY <1>3, <2>2 DEF SkdcInv, SkdcTypeOK
      <3> QED BY <2>2, <3>1, <3>2 DEF Stages, Stage
    <2> QED BY <2>1, <2>2
  <1>6. Stages' = [Stages EXCEPT ![c][v] = s]
    BY <1>1, <1>5, StagesType, NestedUpdate
  <1>7. Stages[c][v] = "open"
    BY <1>1 DEF Stages, Stage
  <1> QED BY <1>1, <1>6, <1>7 DEF Ledger!Close, Stages, Status

\* The ledger of the SKDCs implements the abstract one: each step is an Open, a
\* Close or leaves the ledger alone.
THEOREM LedgerRefinement == SkdcSpec => ImplementsLedger
  <1>1. SkdcInit => Ledger!Init
    <2> SUFFICES ASSUME SkdcInit PROVE Ledger!Init
      OBVIOUS
    <2>1. ASSUME NEW c \in Cluster, NEW v \in Version
          PROVE  Stage(c, v) = "unused"
      <3>1. SkdcInv /\ v \notin 2 .. rekeyVersion[c]
        BY InitialInv DEF SkdcInit, InitializeState
      <3> QED BY <3>1, RowStages
    <2> QED BY <2>1 DEF Ledger!Init, SkdcInit, InitializeState
  <1>2. SkdcInv /\ [SkdcNext]_skdcVars => [Ledger!Next]_<<rekeyVersion, Stages>>
    <2> SUFFICES ASSUME SkdcInv, [SkdcNext]_skdcVars
                 PROVE  [Ledger!Next]_<<rekeyVersion, Stages>>
      OBVIOUS
    <2>1. CASE UNCHANGED <<rekeyVersion, sendTimes, latencyRows>>
      BY <2>1 DEF Stages, Stage
    <2>2. ASSUME NEW c \in Cluster, RekeyCore(c) PROVE Ledger!Next
      BY <2>2, RekeyCoreOpens DEF Ledger!Next
    <2>3. ASSUME NEW c \in Cluster, NEW v \in Version, RekeyTimeout(c, v)
          PROVE  [Ledger!Next]_<<rekeyVersion, Stages>>
      <3>1. CASE v \in sendTimes[c]
        <4>1. CloseRekey(c, v, ackMap[c], "TIMEOUT") /\ UNCHANGED rekeyVersion
          BY <2>3, <3>1 DEF RekeyTimeout
        <4>2. "TIMEOUT" \in Status
          BY DEF Status
        <4>3. Ledger!Close(c, v)
          BY <3>1, <4>1, <4>2, CloseRekeyCloses
        <4> QED BY <4>3 DEF Ledger!Next
      <3>2. CASE v \notin sendTimes[c]
        BY <2>1, <2>3, <3>2 DEF RekeyTimeout
      <3> QED BY <3>1, <3>2
    <2>4. ASSUME NEW c \in Cluster, NEW u \in Uav, NEW v \in Version, OnUavRekeyAck(c, u, v)
          PROVE  [Ledger!Next]_<<rekeyVersion, Stages>>
      <3> DEFINE acks == ackMap[c] \union {<<v, u>>}
      <3>1. CASE v \in sendTimes[c] /\ CloseRekey(c, v, acks, "OK")
        <4>1. "OK" \in Status /\ UNCHANGED rekeyVersion
          BY <2>4 DEF Status, OnUavRekeyAck
        <4>2. Ledger!Close(c, v)
          BY <3>1, <4>1, CloseRekeyCloses
        <4> QED BY <4>2 DEF Ledger!Next
      <3>2. CASE UNCHANGED <<latencyRows, sendTimes>>
        BY <2>1, <2>4, <3>2 DEF OnUavRekeyAck
      <3> QED BY <2>4, <3>1, <3>2 DEF OnUavRekeyAck
    <2>5. CASE UNCHANGED skdcVars
      BY <2>1, <2>5 DEF skdcVars, ledgerVars
    <2> QED BY <2>1, <2>2, <2>3, <2>4, <2>5, LedgerSteps DEF ledgerVars
  <1>3. SkdcSpec => Ledger!Init /\ [][Ledger!Next]_<<rekeyVersion, Stages>>
    BY <1>1, <1>2, SkdcInvariant, PTL DEF SkdcSpec
  <1> QED BY <1>3, PTL DEF ImplementsLedger, Ledger!Spec, Stages
=============================================================================
