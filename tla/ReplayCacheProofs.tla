-------------------------- MODULE ReplayCacheProofs --------------------------
(***************************************************************************)
(* Proofs about ReplayCache, for any senders, sizes of the ring and of the *)
(* bitmap, skew and window, as long as an entry outlives twice the skew.   *)
(***************************************************************************)
EXTENDS ReplayCache, TLAPS

\* The bitmap is the set of accepted sequence numbers, seen from last_seq.
BitmapExact ==
    \A s \in Senders :
        /\ \A q \in entrySeqs[s] : q <= lastSeq[s]
        /\ \A d \in Bits : d \in bitmap[s] <=> lastSeq[s] - d \in entrySeqs[s]

\* The slot of the k-th latest nonce when the head is h.
Back(h, k) == IF k < h THEN h - 1 - k ELSE h - 1 - k + RingSize

RingIsRecent ==
    \A s \in Senders, k \in Ring : nonceCache[s][Back(nonceHead[s], k)] = recent[s][k]

\* What was accepted is on record with a time that covers its timestamp, or out of date.
AcceptedOnRecord ==
    \A a \in accepted :
        \/ a[3] \in entrySeqs[a[1]] /\ a[2] <= lastSeen[a[1]] + MaxSkew
        \/ a[2] + MaxSkew < now

ReplayInv ==
    /\ ReplayTypeOK
    /\ \A s \in Senders : lastSeen[s] <= now
    /\ BitmapExact
    /\ RingIsRecent
    /\ AcceptedOnRecord

-----------------------------------------------------------------------------
(* What DoCheck and the operations of the ring and the bitmap compute.     *)

\* DoCheck accepts exactly when no layer objects.
LEMMA VerdictAccepted ==
  ASSUME NEW s \in Senders, NEW tok \in Token
  PROVE  Verdict(s, tok) = "ACCEPTED" <=>
            /\ CheckTimestamp(tok.ts)
            /\ CheckNonce(s, tok.nonce)
            /\ lastSeq[s] > 0 => ~ TooOld(s, tok.seq) /\ CheckSequence(s, tok.seq)
  BY DEF Verdict

\* The head of the ring stays in it and steps to the next slot.
LEMMA NextSlot ==
  ASSUME NEW h \in Ring
  PROVE  (h + 1) % RingSize = IF h = RingSize - 1 THEN 0 ELSE h + 1
  BY SizeAssumption DEF Ring

\* The k-th latest slot is in the ring.
LEMMA BackInRing ==
  ASSUME NEW h \in Ring, NEW k \in Ring
  PROVE  Back(h, k) \in Ring
  BY SizeAssumption DEF Back, Ring

\* After a step of the head the latest slot is the old head, the others are one older.
LEMMA BackStep ==
  ASSUME NEW h \in Ring, NEW k \in Ring
  PROVE  LET n == (h + 1) % RingSize IN
         /\ n \in Ring
         /\ k = 0 => Back(n, k) = h
         /\ k # 0 => k - 1 \in Ring /\ Back(n, k) = Back(h, k - 1) /\ Back(n, k) # h
  <1>1. CASE h = RingSize - 1
    BY <1>1, NextSlot, SizeAssumption DEF Back, Ring
  <1>2. CASE h # RingSize - 1
    <2>1. (h + 1) % RingSize = h + 1 /\ h + 1 \in Ring
      BY <1>2, NextSlot, SizeAssumption DEF Ring
    <2>2. k = 0 => Back(h + 1, k) = h
      BY SizeAssumption DEF Back, Ring
    <2>3. k # 0 => k - 1 \in Ring /\ Back(h + 1, k) = Back(h, k - 1) /\ Back(h + 1, k) # h
      BY SizeAssumption DEF Back, Ring
    <2> QED BY <2>1, <2>2, <2>3
  <1> QED BY <1>1, <1>2

-----------------------------------------------------------------------------

\* The cache starts empty.
LEMMA ReplayInitial == ReplayInit => ReplayInv
  <1> SUFFICES ASSUME ReplayInit PROVE ReplayInv
    OBVIOUS
  <1>0. 0 \in Ring /\ 0 \in Seqs /\ 0 \in 0 .. MaxNow /\ 1 \in Time
    BY SizeAssumption DEF Ring, Seqs, Time
  <1>1. ReplayTypeOK
    BY <1>0 DEF ReplayInit, ReplayTypeOK, Nonce
  <1>2. \A s \in Senders : lastSeen[s] <= now
    <2> SUFFICES ASSUME NEW s \in Senders PROVE lastSeen[s] <= now
      OBVIOUS
    <2>1. now = 1 /\ lastSeen[s] = 0
      BY DEF ReplayInit
    <2> QED BY <2>1
  <1>3. BitmapExact
    BY DEF ReplayInit, BitmapExact
  <1>4. RingIsRecent
    BY <1>0, BackInRing DEF ReplayInit, RingIsRecent
  <1>5. AcceptedOnRecord
    BY DEF ReplayInit, AcceptedOnRecord
  <1> QED BY <1>1, <1>2, <1>3, <1>4, <1>5 DEF ReplayInv

\* Erasing senders keeps the invariant if what they had accepted is out of date or forgotten.
LEMMA EraseKeepsInv ==
  ASSUME ReplayInv, NEW S \in SUBSET Senders, Erase(S), now' = now,
         accepted' \in SUBSET accepted,
         \A a \in accepted' : a[1] \in S => a[2] + MaxSkew < now
  PROVE  ReplayInv'
  <1>0. 0 \in Ring /\ 0 \in Seqs /\ 0 \in 0 .. MaxNow
    BY SizeAssumption DEF Ring, Seqs
  <1>1. ReplayTypeOK'
    BY <1>0 DEF ReplayInv, ReplayTypeOK, Erase, Nonce
  <1>2. (\A s \in Senders : lastSeen[s] <= now)'
    BY <1>0 DEF ReplayInv, ReplayTypeOK, Erase, Time
  <1>3. BitmapExact'
    BY DEF ReplayInv, BitmapExact, Erase
  <1>4. RingIsRecent'
    BY <1>0, BackInRing DEF ReplayInv, ReplayTypeOK, RingIsRecent, Erase
  <1>5. AcceptedOnRecord'
    <2> SUFFICES ASSUME NEW a \in accepted'
                 PROVE  \/ a[3] \in entrySeqs'[a[1]] /\ a[2] <= lastSeen'[a[1]] + MaxSkew
                        \/ a[2] + MaxSkew < now'
      BY DEF AcceptedOnRecord
    <2>1. a \in accepted /\ a[1] \in Senders
      BY DEF ReplayInv, ReplayTypeOK
    <2> QED BY <2>1 DEF ReplayInv, AcceptedOnRecord, Erase
  <1> QED BY <1>1, <1>2, <1>3, <1>4, <1>5 DEF ReplayInv

\* Recording an accepted token keeps the invariant.
LEMMA RecordKeepsInv ==
  ASSUME ReplayInv, NEW s \in Senders, NEW tok \in Token,
         CheckAndRecord(s, tok), Verdict(s, tok) = "ACCEPTED"
  PROVE  ReplayInv'
  <1> USE DEF CheckAndRecord
  <1>0. /\ tok.seq \in Seqs /\ tok.nonce \in Nonce /\ tok.ts \in 0 .. MaxNow + MaxSkew
        /\ CheckTimestamp(tok.ts)
    BY VerdictAccepted DEF Token
  <1>t. ReplayTypeOK
    BY DEF ReplayInv
  <1>1. /\ bitmap' \in [Senders -> SUBSET Bits] /\ lastSeq' \in [Senders -> Seqs]
        /\ lastSeq'[s] = IF tok.seq > lastSeq[s] THEN tok.seq ELSE lastSeq[s]
        /\ \A d \in Bits : d \in bitmap'[s] <=> lastSeq'[s] - d \in entrySeqs'[s]
        /\ \A r \in Senders \ {s} : bitmap'[r] = bitmap[r] /\ lastSeq'[r] = lastSeq[r]
    <2>0. 0 \in Bits /\ lastSeq[s] \in Seqs
      BY <1>t, SizeAssumption DEF Bits, ReplayTypeOK
    <2>1. CASE tok.seq > lastSeq[s]
      <3>0. tok.seq - lastSeq[s] \in Nat \ {0}
        BY <2>0, <1>0, <2>1 DEF Seqs
      <3>1. /\ bitmap' = [bitmap EXCEPT ![s] = ShiftLeft(@, tok.seq - lastSeq[s]) \union {0}]
            /\ lastSeq' = [lastSeq EXCEPT ![s] = tok.seq]
        BY <2>1 DEF RecordSequence
      <3>2. /\ lastSeq'[s] = tok.seq
            /\ bitmap'[s] = ShiftLeft(bitmap[s], tok.seq - lastSeq[s]) \union {0}
            /\ entrySeqs'[s] = entrySeqs[s] \union {tok.seq}
        BY <3>1, <1>t DEF ReplayTypeOK
      <3>3. ASSUME NEW d \in Bits PROVE d \in bitmap'[s] <=> lastSeq'[s] - d \in entrySeqs'[s]
        <4>1. CASE d = 0
          BY <3>2, <4>1, <1>0 DEF Seqs
        <4>2. CASE d # 0 /\ d - (tok.seq - lastSeq[s]) >= 0
          <5>1. d - (tok.seq - lastSeq[s]) \in Bits
            BY <4>2, <3>0, SizeAssumption DEF Bits
          <5>2. tok.seq - d = lastSeq[s] - (d - (tok.seq - lastSeq[s])) /\ tok.seq - d # tok.seq
            BY <2>0, <1>0, <4>2 DEF Bits, Seqs
          <5>3. d \in bitmap'[s] <=> d - (tok.seq - lastSeq[s]) \in bitmap[s]
            BY <3>2, <4>2 DEF ShiftLeft
          <5> QED BY <5>1, <5>2, <5>3, <3>2 DEF ReplayInv, BitmapExact
        <4>3. CASE d # 0 /\ d - (tok.seq - lastSeq[s]) < 0
          <5>1. tok.seq - d > lastSeq[s] /\ tok.seq - d # tok.seq
            BY <2>0, <1>0, <4>3 DEF Bits, Seqs
          <5>2. d - (tok.seq - lastSeq[s]) \notin bitmap[s]
            BY <4>3, <1>t, SizeAssumption DEF Bits, ReplayTypeOK
          <5>3. d \notin bitmap'[s]
            BY <3>2, <4>3, <5>2 DEF ShiftLeft
          <5>4. tok.seq - d \notin entrySeqs[s]
            BY <5>1, <2>0, <1>t DEF ReplayInv, BitmapExact, ReplayTypeOK, Seqs
          <5> QED BY <5>1, <5>3, <5>4, <3>2
        <4> QED BY <4>1, <4>2, <4>3, <3>0, <2>0, <1>0 DEF Bits, Seqs
      <3>4. bitmap' \in [Senders -> SUBSET Bits] /\ lastSeq' \in [Senders -> Seqs]
        BY <3>1, <1>t, <1>0, <2>0 DEF ReplayTypeOK, ShiftLeft
      <3> QED BY <2>1, <3>1, <3>2, <3>3, <3>4, <1>t DEF ReplayTypeOK
    <2>2. CASE ~ (tok.seq > lastSeq[s])
      <3>1. /\ bitmap' = [bitmap EXCEPT ![s] = @ \union ({lastSeq[s] - tok.seq} \intersect Bits)]
            /\ lastSeq' = lastSeq
        BY <2>2 DEF RecordSequence
      <3>2. /\ bitmap'[s] = bitmap[s] \union ({lastSeq[s] - tok.seq} \intersect Bits)
            /\ entrySeqs'[s] = entrySeqs[s] \union {tok.seq}
        BY <3>1, <1>t DEF ReplayTypeOK
      <3>3. ASSUME NEW d \in Bits PROVE d \in bitmap'[s] <=> lastSeq'[s] - d \in entrySeqs'[s]
        <4>1. d = lastSeq[s] - tok.seq <=> lastSeq[s] - d = tok.seq
          BY <2>0, <1>0 DEF Bits, Seqs
        <4> QED BY <4>1, <3>1, <3>2 DEF ReplayInv, BitmapExact
      <3>4. bitmap' \in [Senders -> SUBSET Bits]
        BY <3>1, <1>t DEF ReplayTypeOK
      <3> QED BY <2>2, <3>1, <3>3, <3>4, <1>t DEF ReplayTypeOK
    <2> QED BY <2>1, <2>2
  <1>2. /\ nonceHead' \in [Senders -> Ring] /\ nonceCache' \in [Senders -> [Ring -> Nonce]]
        /\ recent' \in [Senders -> [Ring -> Nonce]]
        /\ RingIsRecent'
    <2>1. /\ nonceCache' = [nonceCache EXCEPT ![s][nonceHead[s]] = tok.nonce]
          /\ nonceHead'  = [nonceHead EXCEPT ![s] = (@ + 1) % RingSize]
          /\ recent' = [recent EXCEPT ![s] = [k \in Ring |-> IF k = 0 THEN tok.nonce ELSE @[k - 1]]]
      BY DEF RecordNonce
    <2>2. nonceHead[s] \in Ring /\ nonceCache[s] \in [Ring -> Nonce] /\ recent[s] \in [Ring -> Nonce]
      BY <1>t DEF ReplayTypeOK
    <2>3. nonceHead' \in [Senders -> Ring]
      BY <2>1, <2>2, BackStep, <1>t DEF ReplayTypeOK
    <2>4. nonceCache' \in [Senders -> [Ring -> Nonce]]
      BY <2>1, <1>0, <1>t DEF ReplayTypeOK
    <2>5. ASSUME NEW k \in Ring, k # 0 PROVE k - 1 \in Ring
      BY <2>5, SizeAssumption DEF Ring
    <2>6. [k \in Ring |-> IF k = 0 THEN tok.nonce ELSE recent[s][k - 1]] \in [Ring -> Nonce]
      BY <2>2, <2>5, <1>0
    <2>7. recent' \in [Senders -> [Ring -> Nonce]]
      BY <2>1, <2>6, <1>t DEF ReplayTypeOK
    <2>8. ASSUME NEW r \in Senders, NEW k \in Ring
          PROVE  nonceCache'[r][Back(nonceHead'[r], k)] = recent'[r][k]
      <3>1. CASE r # s
        BY <3>1, <2>1, <1>t DEF ReplayInv, RingIsRecent, ReplayTypeOK
      <3>2. CASE r = s
        <4>1. /\ nonceHead'[s] = (nonceHead[s] + 1) % RingSize
              /\ nonceCache'[s] = [nonceCache[s] EXCEPT ![nonceHead[s]] = tok.nonce]
              /\ recent'[s][k] = IF k = 0 THEN tok.nonce ELSE recent[s][k - 1]
          BY <2>1, <1>t DEF ReplayTypeOK
        <4>2. CASE k = 0
          <5>1. Back(nonceHead'[s], k) = nonceHead[s]
            BY <4>1, <4>2, <2>2, BackStep
          <5> QED BY <3>2, <4>1, <4>2, <5>1, <2>2
        <4>3. CASE k # 0
          <5>1. /\ k - 1 \in Ring
                /\ Back(nonceHead'[s], k) = Back(nonceHead[s], k - 1)
                /\ Back(nonceHead'[s], k) # nonceHead[s]
            BY <4>1, <4>3, <2>2, BackStep
          <5>2. Back(nonceHead[s], k - 1) \in Ring
            BY <5>1, <2>2, BackInRing
          <5>3. nonceCache'[s][Back(nonceHead[s], k - 1)] = nonceCache[s][Back(nonceHead[s], k - 1)]
            BY <4>1, <5>1, <5>2, <2>2
          <5> QED BY <3>2, <4>1, <4>3, <5>1, <5>3 DEF ReplayInv, RingIsRecent
        <4> QED BY <4>2, <4>3
      <3> QED BY <3>1, <3>2
    <2>9. RingIsRecent'
      BY <2>8 DEF RingIsRecent, Back
    <2> QED BY <2>3, <2>4, <2>7, <2>9
  <1>3. /\ lastSeen' \in [Senders -> 0 .. MaxNow] /\ lastSeen'[s] = now
        /\ \A r \in Senders \ {s} : lastSeen'[r] = lastSeen[r]
        /\ entrySeqs' \in [Senders -> SUBSET Seqs]
        /\ entrySeqs'[s] = entrySeqs[s] \union {tok.seq}
        /\ \A r \in Senders \ {s} : entrySeqs'[r] = entrySeqs[r]
    <2>1. /\ lastSeen'  = [lastSeen EXCEPT ![s] = now]
          /\ entrySeqs' = [entrySeqs EXCEPT ![s] = @ \union {tok.seq}]
      OBVIOUS
    <2>2. now \in 0 .. MaxNow
      BY <1>t, SizeAssumption DEF ReplayTypeOK, Time
    <2> HIDE DEF CheckAndRecord
    <2> QED BY <2>1, <2>2, <1>t, <1>0 DEF ReplayTypeOK
  <1>4. ReplayTypeOK'
    BY <1>t, <1>0, <1>1, <1>2, <1>3 DEF ReplayTypeOK, Touch
  <1>5. (\A r \in Senders : lastSeen[r] <= now)'
    BY <1>3, <1>t DEF ReplayInv, ReplayTypeOK, Time
  <1>6. BitmapExact'
    <2>1. ASSUME NEW r \in Senders, NEW q \in entrySeqs'[r] PROVE q <= lastSeq'[r]
      <3>1. q \in Seqs /\ lastSeq[r] \in Seqs
        BY <1>3, <1>t DEF ReplayTypeOK
      <3> QED BY <3>1, <1>0, <1>1, <1>3, <2>1 DEF ReplayInv, BitmapExact, Seqs
    <2>2. ASSUME NEW r \in Senders, NEW d \in Bits
          PROVE  d \in bitmap'[r] <=> lastSeq'[r] - d \in entrySeqs'[r]
      BY <1>1, <1>3 DEF ReplayInv, BitmapExact
    <2> QED BY <2>1, <2>2 DEF BitmapExact
  <1>7. AcceptedOnRecord'
    <2> SUFFICES ASSUME NEW a \in accepted'
                 PROVE  \/ a[3] \in entrySeqs'[a[1]] /\ a[2] <= lastSeen'[a[1]] + MaxSkew
                        \/ a[2] + MaxSkew < now'
      BY DEF AcceptedOnRecord
    <2>1. CASE a = <<s, tok.ts, tok.seq>>
      BY <2>1, <1>0, <1>3 DEF CheckTimestamp
    <2>2. CASE a \in accepted
      <3>1. a[1] \in Senders /\ a[2] \in Nat /\ lastSeen[a[1]] \in Nat /\ now \in Nat
        BY <2>2, <1>t, AgeAssumption, SizeAssumption DEF ReplayTypeOK, Time
      <3>2. lastSeen[a[1]] <= lastSeen'[a[1]] /\ lastSeen'[a[1]] \in Nat
        BY <3>1, <1>3 DEF ReplayInv
      <3>3. entrySeqs[a[1]] \subseteq entrySeqs'[a[1]]
        BY <3>1, <1>3
      <3> QED BY <2>2, <3>1, <3>2, <3>3, AgeAssumption DEF ReplayInv, AcceptedOnRecord
    <2> QED BY <2>1, <2>2, <1>t
  <1> QED BY <1>2, <1>4, <1>5, <1>6, <1>7 DEF ReplayInv

\* Every operation keeps the invariant.
LEMMA ReplayStep == ReplayInv /\ [ReplayNext]_replayVars => ReplayInv'
  <1> SUFFICES ASSUME ReplayInv, [ReplayNext]_replayVars PROVE ReplayInv'
    OBVIOUS
  <1>t. ReplayTypeOK
    BY DEF ReplayInv
  <1>0. ASSUME UNCHANGED <<senderVars, now, historyVars>>, known' \in SUBSET Senders
        PROVE  ReplayInv'
    BY <1>0 DEF ReplayInv, ReplayTypeOK, BitmapExact, RingIsRecent, Back, AcceptedOnRecord,
                senderVars, historyVars
  <1>1. ASSUME NEW s \in Senders, NEW tok \in Token, CheckAndRecord(s, tok)
        PROVE  ReplayInv'
    <2>1. CASE Verdict(s, tok) = "ACCEPTED"
      BY <1>1, <2>1, RecordKeepsInv
    <2>2. CASE Verdict(s, tok) # "ACCEPTED"
      <3>1. UNCHANGED <<senderVars, now, historyVars>> /\ known' \in SUBSET Senders
        BY <1>1, <2>2, <1>t DEF CheckAndRecord, Touch, ReplayTypeOK
      <3> QED BY <3>1, <1>0
    <2> QED BY <2>1, <2>2
  <1>2. ASSUME NEW s \in Senders, NEW tok \in Token, CheckOnly(s, tok)
        PROVE  ReplayInv'
    BY <1>2, <1>0, <1>t DEF CheckOnly, Touch, ReplayTypeOK
  <1>3. ASSUME NEW s \in Senders, ResetSender(s)
        PROVE  ReplayInv'
    BY <1>3, EraseKeepsInv DEF ResetSender
  <1>4. ASSUME Reset PROVE ReplayInv'
    BY <1>4, EraseKeepsInv DEF Reset
  <1>5. ASSUME Evict PROVE ReplayInv'
    <2> DEFINE S == {s \in known : lastSeen[s] > 0 /\ now - lastSeen[s] > MaxAge}
    <2>1. S \in SUBSET Senders /\ Erase(S) /\ now' = now /\ accepted' \in SUBSET accepted
      BY <1>5, <1>t DEF Evict, ReplayTypeOK
    <2>2. ASSUME NEW a \in accepted', a[1] \in S PROVE a[2] + MaxSkew < now
      <3>1. a \in accepted /\ a[2] \in Nat /\ lastSeen[a[1]] \in Nat /\ now \in Nat
        BY <2>1, <2>2, <1>t, AgeAssumption, SizeAssumption DEF ReplayTypeOK, Time
      <3>2. now - lastSeen[a[1]] > MaxAge
        BY <2>2
      <3> QED BY <3>1, <3>2, AgeAssumption DEF ReplayInv, AcceptedOnRecord
    <2> HIDE DEF S
    <2> QED BY <2>1, <2>2, EraseKeepsInv
  <1>6. ASSUME Tick PROVE ReplayInv'
    <2>1. now' = now + 1 /\ now' \in Time /\ UNCHANGED <<known, senderVars, historyVars>>
      BY <1>6, <1>t, SizeAssumption DEF Tick, ReplayTypeOK, Time
    <2>2. ReplayTypeOK' /\ BitmapExact' /\ RingIsRecent'
      BY <2>1 DEF ReplayInv, ReplayTypeOK, BitmapExact, RingIsRecent, Back, senderVars, historyVars
    <2>3. (\A s \in Senders : lastSeen[s] <= now)'
      BY <2>1, <1>t, SizeAssumption DEF ReplayInv, ReplayTypeOK, senderVars, Time
    <2>4. AcceptedOnRecord'
      <3> SUFFICES ASSUME NEW a \in accepted
                   PROVE  \/ a[3] \in entrySeqs[a[1]] /\ a[2] <= lastSeen[a[1]] + MaxSkew
                          \/ a[2] + MaxSkew < now + 1
        BY <2>1 DEF AcceptedOnRecord, senderVars, historyVars
      <3>1. a[2] \in Nat /\ now \in Nat
        BY <1>t, AgeAssumption, SizeAssumption DEF ReplayTypeOK, Time
      <3> QED BY <3>1, AgeAssumption DEF ReplayInv, AcceptedOnRecord
    <2> QED BY <2>2, <2>3, <2>4 DEF ReplayInv
  <1>7. ASSUME UNCHANGED replayVars PROVE ReplayInv'
    BY <1>7, <1>0, <1>t DEF replayVars, ReplayTypeOK
  <1> QED BY <1>1, <1>2, <1>3, <1>4, <1>5, <1>6, <1>7 DEF ReplayNext

\* ReplayCache keeps its inductive invariant.
THEOREM ReplayInvariant == ReplaySpec => []ReplayInv
  BY ReplayInitial, ReplayStep, PTL DEF ReplaySpec

\* The fields keep their ranges, the ring index included.
THEOREM ReplayTypeCorrect == ReplaySpec => []ReplayTypeOK
  <1>1. ReplayInv => ReplayTypeOK
    BY DEF ReplayInv
  <1> QED BY <1>1, ReplayInvariant, PTL

\* No packet is accepted twice between two resets, eviction or not.
THEOREM NoReplayAccepted == ReplaySpec => []ReplaysRejected
  <1>1. ASSUME ReplayInv PROVE ReplaysRejected
    <2> SUFFICES ASSUME NEW s \in Senders, NEW tok \in Token,
                        <<s, tok.ts, tok.seq>> \in accepted, tok.seq > 0,
                        Verdict(s, tok) = "ACCEPTED"
                 PROVE  FALSE
      BY DEF ReplaysRejected
    <2>0. /\ lastSeq[s] \in Nat /\ tok.seq \in Nat /\ tok.ts \in Nat /\ now \in Nat
          /\ lastSeen[s] \in Nat
      BY <1>1, SizeAssumption, AgeAssumption DEF ReplayInv, ReplayTypeOK, Seqs, Token, Time
    <2>1. /\ CheckTimestamp(tok.ts)
          /\ lastSeq[s] > 0 => CheckSequence(s, tok.seq)
      BY VerdictAccepted
    <2>2. tok.seq \in entrySeqs[s]
      BY <1>1, <2>0, <2>1, AgeAssumption DEF ReplayInv, AcceptedOnRecord, CheckTimestamp
    <2>3. tok.seq <= lastSeq[s]
      BY <1>1, <2>2 DEF ReplayInv, BitmapExact
    <2>4. lastSeq[s] - tok.seq \in Bits \ bitmap[s]
      BY <2>0, <2>1, <2>3 DEF CheckSequence
    <2>5. lastSeq[s] - (lastSeq[s] - tok.seq) = tok.seq
      BY <2>0
    <2>6. lastSeq[s] - tok.seq \in bitmap[s]
      BY <1>1, <2>2, <2>4, <2>5 DEF ReplayInv, BitmapExact
    <2> QED BY <2>4, <2>6
  <1> QED BY <1>1, ReplayInvariant, PTL

\* Reordering within the window costs no packet.
THEOREM NoFreshRejected == ReplaySpec => []OvertakenAccepted
  <1>1. ASSUME ReplayInv PROVE OvertakenAccepted
    <2> SUFFICES ASSUME NEW s \in known, NEW tok \in Token,
                        Window <= BitmapSize, tok.seq + Window < U64,
                        CheckTimestamp(tok.ts), CheckNonce(s, tok.nonce),
                        tok.seq \notin entrySeqs[s],
                        tok.seq + Window > lastSeq[s]
                 PROVE  Verdict(s, tok) = "ACCEPTED"
      BY DEF OvertakenAccepted
    <2>0. s \in Senders /\ lastSeq[s] \in Nat /\ tok.seq \in Nat
      BY <1>1, SizeAssumption DEF ReplayInv, ReplayTypeOK, Seqs, Token
    <2>1. (tok.seq + Window) % U64 = tok.seq + Window
      BY <2>0, SizeAssumption
    <2>2. ~ TooOld(s, tok.seq)
      BY <2>0, <2>1, SizeAssumption DEF TooOld
    <2>3. CheckSequence(s, tok.seq)
      <3>1. CASE tok.seq > lastSeq[s]
        BY <3>1 DEF CheckSequence
      <3>2. CASE ~ (tok.seq > lastSeq[s])
        <4>1. lastSeq[s] - tok.seq \in Bits /\ lastSeq[s] - (lastSeq[s] - tok.seq) = tok.seq
          BY <3>2, <2>0, SizeAssumption DEF Bits
        <4> QED BY <1>1, <2>0, <4>1 DEF ReplayInv, BitmapExact, CheckSequence
      <3> QED BY <3>1, <3>2
    <2> QED BY <2>0, <2>2, <2>3, VerdictAccepted
  <1> QED BY <1>1, ReplayInvariant, PTL

\* Each of the last RingSize nonces is still rejected.
THEOREM NoRecentNonceAccepted == ReplaySpec => []RecentNoncesRejected
  <1>1. ASSUME ReplayInv PROVE RecentNoncesRejected
    <2> SUFFICES ASSUME NEW s \in Senders, NEW k \in Ring, recent[s][k] # ZeroNonce
                 PROVE  ~ CheckNonce(s, recent[s][k])
      BY DEF RecentNoncesRejected
    <2>1. Back(nonceHead[s], k) \in Ring
      BY <1>1, BackInRing DEF ReplayInv, ReplayTypeOK
    <2>2. nonceCache[s][Back(nonceHead[s], k)] = recent[s][k]
      BY <1>1 DEF ReplayInv, RingIsRecent
    <2> QED BY <2>1, <2>2 DEF CheckNonce
  <1> QED BY <1>1, ReplayInvariant, PTL
=============================================================================
