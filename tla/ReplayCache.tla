----------------------------- MODULE ReplayCache -----------------------------
(***************************************************************************)
(* The replay cache of a node (crypto/uav-replay.cc): per sender the ring  *)
(* of recent nonces, the sliding window of sequence numbers and the time   *)
(* of the last accepted packet.                                            *)
(*                                                                         *)
(* The module is an open component: any token may be checked at any time,  *)
(* so it covers packets that are delayed, duplicated and reordered, and    *)
(* the callers of Evict and of the two resets.  Each call holds m_mtx from *)
(* beginning to end and is one action.  The wall clock never goes back.    *)
(***************************************************************************)
EXTENDS Integers

CONSTANTS
    Senders,     \* sender ids
    Nonces,      \* values of a nonce that is not all zero
    ZeroNonce,   \* the all-zero nonce, which marks an unused slot of the ring
    MaxSkew,     \* m_max_skew_us (5 s)
    Window,      \* m_window_size (64)
    BitmapSize,  \* bits of window_bitmap (64)
    RingSize,    \* NONCE_CACHE_SIZE (64)
    MaxAge,      \* default argument of Evict (60 s)
    U64,         \* 2^64, the range of a sequence number
    MaxNow       \* bound on the clock

ASSUME NonceAssumption == ZeroNonce \notin Nonces
ASSUME SizeAssumption ==
    /\ BitmapSize \in Nat \ {0} /\ RingSize \in Nat \ {0}
    /\ Window \in Nat /\ U64 \in Nat \ {0} /\ MaxNow \in Nat \ {0}
\* What an evicted sender may have sent is out of date by then.
ASSUME AgeAssumption == MaxSkew \in Nat /\ MaxAge \in Nat /\ MaxAge >= 2 * MaxSkew

VARIABLES
    known,      \* SUBSET Senders: the keys of m_senders
    lastSeq,    \* [Senders -> 0..U64-1]: last_seq
    bitmap,     \* [Senders -> set of bits that are set]: window_bitmap
    lastSeen,   \* [Senders -> time]: last_seen_us
    nonceCache, \* [Senders -> ring of nonces]: nonce_cache
    nonceHead,  \* [Senders -> slot]: nonce_head
    now,        \* the wall clock
    accepted,   \* history: <<sender, timestamp, sequence>> accepted since the last reset
    entrySeqs,  \* history: [Senders -> sequences accepted since the entry was made]
    recent      \* history: [Senders -> the last RingSize nonces, latest first]

senderVars  == <<lastSeq, bitmap, lastSeen, nonceCache, nonceHead>>
historyVars == <<accepted, entrySeqs, recent>>
replayVars  == <<known, senderVars, now, historyVars>>

Time  == 1 .. MaxNow
Seqs  == 0 .. U64 - 1
Bits  == 0 .. BitmapSize - 1
Ring  == 0 .. RingSize - 1
Nonce == Nonces \union {ZeroNonce}

\* A packet may carry a timestamp that runs ahead of the receiver's clock.
Token == [ts : 0 .. MaxNow + MaxSkew, nonce : Nonce, seq : Seqs]

-----------------------------------------------------------------------------
(* The three layers.  The fields of a sender that is not known have the    *)
(* values of a new SenderState, which operator[] would create.             *)

CheckTimestamp(ts) == ts <= now + MaxSkew /\ now <= ts + MaxSkew

CheckNonce(s, nonce) ==
    ~ \E k \in Ring : nonceCache[s][k] # ZeroNonce /\ nonceCache[s][k] = nonce

\* The sum is one of 64-bit numbers and wraps around.
TooOld(s, seq) == (seq + Window) % U64 <= lastSeq[s]

CheckSequence(s, seq) ==
    \/ seq > lastSeq[s]
    \/ lastSeq[s] - seq \in Bits \ bitmap[s]

\* Verdict of DoCheck.
Verdict(s, tok) ==
    CASE ~ CheckTimestamp(tok.ts)                         -> "REPLAY_TIMESTAMP"
      [] ~ CheckNonce(s, tok.nonce)                       -> "REPLAY_NONCE"
      [] lastSeq[s] > 0 /\ TooOld(s, tok.seq)             -> "REPLAY_OLD_SEQ"
      [] lastSeq[s] > 0 /\ ~ CheckSequence(s, tok.seq)    -> "REPLAY_SEQUENCE"
      [] OTHER                                            -> "ACCEPTED"

-----------------------------------------------------------------------------
(* Recording.                                                              *)

\* Fault variants: the index runs out of the ring; it is never moved on.
RecordNonceUnwrapped(s, nonce) ==
    /\ nonceCache' = [nonceCache EXCEPT ![s][nonceHead[s]] = nonce]
    /\ nonceHead'  = [nonceHead EXCEPT ![s] = @ + 1]

RecordNonceInPlace(s, nonce) ==
    /\ nonceCache' = [nonceCache EXCEPT ![s][nonceHead[s]] = nonce]
    /\ UNCHANGED nonceHead

RecordNonce(s, nonce) ==
    /\ nonceCache' = [nonceCache EXCEPT ![s][nonceHead[s]] = nonce]
    /\ nonceHead'  = [nonceHead EXCEPT ![s] = (@ + 1) % RingSize]

\* The bits after the window has moved on by n; those shifted out are lost.
ShiftLeft(bits, n) == {d \in Bits : d - n \in bits}

\* Fault variant: the numbers that a jump skips are marked too.
RecordSequenceFilled(s, seq) ==
    IF seq > lastSeq[s]
    THEN /\ bitmap'  = [bitmap EXCEPT ![s] = ShiftLeft(@, seq - lastSeq[s])
                                             \union {d \in Bits : d < seq - lastSeq[s]}]
         /\ lastSeq' = [lastSeq EXCEPT ![s] = seq]
    ELSE /\ bitmap'  = [bitmap EXCEPT ![s] = @ \union ({lastSeq[s] - seq} \intersect Bits)]
         /\ UNCHANGED lastSeq

RecordSequence(s, seq) ==
    IF seq > lastSeq[s]
    THEN /\ bitmap'  = [bitmap EXCEPT ![s] = ShiftLeft(@, seq - lastSeq[s]) \union {0}]
         /\ lastSeq' = [lastSeq EXCEPT ![s] = seq]
    ELSE /\ bitmap'  = [bitmap EXCEPT ![s] = @ \union ({lastSeq[s] - seq} \intersect Bits)]
         /\ UNCHANGED lastSeq

\* operator[] of m_senders runs once the timestamp has passed.
Touch(s, tok) == known' = IF CheckTimestamp(tok.ts) THEN known \union {s} ELSE known

\* m_senders.erase for the senders of S.
Erase(S) ==
    /\ known'      = known \ S
    /\ lastSeq'    = [s \in Senders |-> IF s \in S THEN 0 ELSE lastSeq[s]]
    /\ bitmap'     = [s \in Senders |-> IF s \in S THEN {} ELSE bitmap[s]]
    /\ lastSeen'   = [s \in Senders |-> IF s \in S THEN 0 ELSE lastSeen[s]]
    /\ nonceCache' = [s \in Senders |-> IF s \in S THEN [k \in Ring |-> ZeroNonce]
                                                   ELSE nonceCache[s]]
    /\ nonceHead'  = [s \in Senders |-> IF s \in S THEN 0 ELSE nonceHead[s]]
    /\ entrySeqs'  = [s \in Senders |-> IF s \in S THEN {} ELSE entrySeqs[s]]
    /\ recent'     = [s \in Senders |-> IF s \in S THEN [k \in Ring |-> ZeroNonce]
                                                   ELSE recent[s]]

-----------------------------------------------------------------------------
(* The operations.                                                         *)

ReplayInit ==
    /\ known      = {}
    /\ lastSeq    = [s \in Senders |-> 0]
    /\ bitmap     = [s \in Senders |-> {}]
    /\ lastSeen   = [s \in Senders |-> 0]
    /\ nonceCache = [s \in Senders |-> [k \in Ring |-> ZeroNonce]]
    /\ nonceHead  = [s \in Senders |-> 0]
    /\ now        = 1
    /\ accepted   = {}
    /\ entrySeqs  = [s \in Senders |-> {}]
    /\ recent     = [s \in Senders |-> [k \in Ring |-> ZeroNonce]]

\* CheckAndRecord, and CheckOrThrow, which calls it: a rejected token leaves at most a new,
\* empty entry behind.
CheckAndRecord(s, tok) ==
    /\ Touch(s, tok)
    /\ IF Verdict(s, tok) = "ACCEPTED"
       THEN /\ RecordNonce(s, tok.nonce)
            /\ RecordSequence(s, tok.seq)
            /\ lastSeen'  = [lastSeen EXCEPT ![s] = now]
            /\ accepted'  = accepted \union {<<s, tok.ts, tok.seq>>}
            /\ entrySeqs' = [entrySeqs EXCEPT ![s] = @ \union {tok.seq}]
            /\ recent'    = [recent EXCEPT ![s] =
                                [k \in Ring |-> IF k = 0 THEN tok.nonce ELSE @[k - 1]]]
       ELSE UNCHANGED <<senderVars, historyVars>>
    /\ UNCHANGED now

\* CheckOnly makes the same entry, though it is const.
CheckOnly(s, tok) ==
    /\ Touch(s, tok)
    /\ UNCHANGED <<senderVars, now, historyVars>>

ResetSender(s) ==
    /\ Erase({s})
    /\ accepted' = {a \in accepted : a[1] # s}
    /\ UNCHANGED now

Reset ==
    /\ Erase(Senders)
    /\ accepted' = {}
    /\ UNCHANGED now

\* Fault variant: entries are taken for stale one skew after the last packet.
EvictEarly ==
    /\ Erase({s \in known : lastSeen[s] > 0 /\ now - lastSeen[s] > MaxSkew})
    /\ UNCHANGED <<now, accepted>>

\* An entry that CheckOnly has made, with last_seen_us zero, is never evicted.
Evict ==
    /\ Erase({s \in known : lastSeen[s] > 0 /\ now - lastSeen[s] > MaxAge})
    /\ UNCHANGED <<now, accepted>>

Tick ==
    /\ now < MaxNow
    /\ now' = now + 1
    /\ UNCHANGED <<known, senderVars, historyVars>>

ReplayNext ==
    \/ \E s \in Senders, tok \in Token : CheckAndRecord(s, tok) \/ CheckOnly(s, tok)
    \/ \E s \in Senders : ResetSender(s)
    \/ Reset
    \/ Evict
    \/ Tick

ReplaySpec == ReplayInit /\ [][ReplayNext]_replayVars

-----------------------------------------------------------------------------
(* Properties.                                                             *)

\* Every field keeps the range of its C++ type, the ring index its bound.
ReplayTypeOK ==
    /\ known      \in SUBSET Senders
    /\ lastSeq    \in [Senders -> Seqs]
    /\ bitmap     \in [Senders -> SUBSET Bits]
    /\ lastSeen   \in [Senders -> 0 .. MaxNow]
    /\ nonceCache \in [Senders -> [Ring -> Nonce]]
    /\ nonceHead  \in [Senders -> Ring]
    /\ now        \in Time
    /\ accepted   \in SUBSET (Senders \X (0 .. MaxNow + MaxSkew) \X Seqs)
    /\ entrySeqs  \in [Senders -> SUBSET Seqs]
    /\ recent     \in [Senders -> [Ring -> Nonce]]

\* A packet that DoCheck has accepted is rejected whenever it comes again, whatever its
\* nonce, until the sender is reset: also when Evict has dropped all that the cache knew of
\* the sender.  (SequenceCounter starts at 1; sequence number 0 has the nonces alone.)
ReplaysRejected ==
    \A s \in Senders, tok \in Token :
        <<s, tok.ts, tok.seq>> \in accepted /\ tok.seq > 0 => Verdict(s, tok) # "ACCEPTED"

\* DoCheck accepts a packet that others have overtaken, as long as it is within the window,
\* has not come before and has a nonce that is not in the ring: the bitmap never has a bit
\* too many.  (The window must fit the bitmap, and the sum in DoCheck must not wrap.)
OvertakenAccepted ==
    \A s \in known, tok \in Token :
        (/\ Window <= BitmapSize /\ tok.seq + Window < U64
         /\ CheckTimestamp(tok.ts) /\ CheckNonce(s, tok.nonce)
         /\ tok.seq \notin entrySeqs[s]
         /\ tok.seq + Window > lastSeq[s])
        => Verdict(s, tok) = "ACCEPTED"

\* The ring of RecordNonce holds exactly the last RingSize nonces, so that each of them is
\* still rejected by CheckNonce, whatever its sequence number, 0 included.
RecentNoncesRejected ==
    \A s \in Senders, k \in Ring : recent[s][k] # ZeroNonce => ~ CheckNonce(s, recent[s][k])
=============================================================================
