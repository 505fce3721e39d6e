--------------------------- MODULE SimulatorProofs ---------------------------
(***************************************************************************)
(* Proofs about the event loop, for any delays and any number of events.   *)
(***************************************************************************)
EXTENDS Simulator, FiniteSetTheorems, FunctionTheorems, SequenceTheorems, TLAPS

\* Event e comes after the key <<ts, uid>>.
AfterKey(e, ts, uid) == e.ts > ts \/ (e.ts = ts /\ e.uid > uid)

\* The map holds what comes after the current key; what left it is behind the key or cancelled.
KeyInv ==
    /\ currentUid < nextUid
    /\ \A e \in events : e.uid < nextUid /\ AfterKey(e, currentTs, currentUid)
    /\ \A e \in events : e.ts <= currentTs + e.delay
    /\ \A e, f \in events \union handles : e.uid = f.uid => e = f
    /\ \A h \in handles : h.uid < nextUid
    /\ \A h \in handles : h \in events \/ h.uid \in cancelled \/ ~ AfterKey(h, currentTs, currentUid)
    /\ \A u \in fired : u < nextUid /\ \A e \in events : e.uid # u
    /\ \A u \in cancelled : u < nextUid

\* The flag is cleared while events wait, except by a thread that is about to clear it.
FlagInv == ~ adding /\ injectedEmpty => injected = <<>>

SimInv ==
    /\ SimTypeOK
    /\ FlagInv
    /\ KeyInv
    /\ NoEventLost
    /\ EqualDelaysInOrder
    /\ IsFiniteSet(events) /\ EventsCounted

\* The list of injected events, its flag and the thread that has the lock.
InjectedOK ==
    /\ injected \in Seq(Delays) /\ injectedEmpty \in BOOLEAN /\ adding \in BOOLEAN
    /\ (adding \/ ~ injectedEmpty) => injected # <<>>
    /\ FlagInv

\* What Schedule and ProcessEventsWithContext add at time ts with the uids from lo to hi - 1.
Added(M, ts, lo, hi) ==
    /\ M \in SUBSET Event
    /\ \A e \in M : e.ts = ts + e.delay /\ e.uid \in lo .. hi - 1
    /\ \A e, f \in M : e.uid = f.uid => e = f
    /\ \A u \in lo .. hi - 1 : \E e \in M : e.uid = u
    /\ IsFiniteSet(M) /\ Cardinality(M) = hi - lo

-----------------------------------------------------------------------------

\* The fields of an event.
LEMMA EventFields ==
  ASSUME NEW e \in Event
  PROVE  e.ts \in Nat /\ e.uid \in Nat /\ e.delay \in Nat /\ e.uid \in Uid /\ e.delay \in Delays
  <1>1. e.ts \in Nat /\ e.uid \in Uid /\ e.delay \in Delays
    BY DEF Event
  <1>2. e.uid \in Nat
    BY <1>1, MaxUidAssumption DEF Uid, FirstUid
  <1> QED BY <1>1, <1>2, DelaysAssumption

\* The uids given out before b: those given out before a, and the rest.
LEMMA SplitUids ==
  ASSUME NEW a \in Nat, NEW b \in Nat, NEW u \in FirstUid .. b - 1
  PROVE  u \in a .. b - 1 \/ u \in FirstUid .. a - 1
  BY DEF FirstUid

\* What makes M the events added under the uids from lo to hi - 1.
LEMMA AddedIntro ==
  ASSUME NEW M, NEW ts, NEW lo, NEW hi,
         M \in SUBSET Event,
         \A e \in M : e.ts = ts + e.delay /\ e.uid \in lo .. hi - 1,
         \A e, f \in M : e.uid = f.uid => e = f,
         \A u \in lo .. hi - 1 : \E e \in M : e.uid = u,
         IsFiniteSet(M), Cardinality(M) = hi - lo
  PROVE  Added(M, ts, lo, hi)
  BY DEF Added

\* A step that gives out no uid adds no event.
LEMMA NothingAdded ==
  ASSUME NEW ts, NEW n \in Nat
  PROVE  Added({}, ts, n, n)
  <1>1. {} \in SUBSET Event /\ n .. n - 1 = {}
    OBVIOUS
  <1>2. IsFiniteSet({}) /\ Cardinality({}) = n - n
    BY FS_EmptySet
  <1> QED BY <1>1, <1>2 DEF Added

\* There are n numbers from 1 to n.
LEMMA CountTo ==
  ASSUME NEW n \in Nat
  PROVE  IsFiniteSet(1 .. n) /\ Cardinality(1 .. n) = n
  <1>1. /\ IsFiniteSet(1 .. n)
        /\ Cardinality(1 .. n) = IF 1 > n THEN 0 ELSE n - 1 + 1
    BY FS_Interval
  <1> QED BY <1>1

\* One scheduled event.
LEMMA ScheduledIsAdded ==
  ASSUME SimTypeOK, UidLeft, NEW d \in Delays
  PROVE  Added({[ts |-> currentTs + d, uid |-> nextUid, delay |-> d]},
               currentTs, nextUid, nextUid + 1)
  <1> DEFINE e == [ts |-> currentTs + d, uid |-> nextUid, delay |-> d]
  <1>1. d \in Nat /\ nextUid \in Nat /\ currentTs \in Nat /\ Len(injected) \in Nat
    BY DelaysAssumption, LenProperties DEF SimTypeOK
  <1>2. e \in Event /\ e.ts = currentTs + e.delay /\ e.uid = nextUid
    BY <1>1, MaxUidAssumption DEF Event, Uid, UidLeft, SimTypeOK
  <1>3. IsFiniteSet({e}) /\ Cardinality({e}) = 1
    BY FS_Singleton
  <1> HIDE DEF e
  <1>4. \A u \in nextUid .. (nextUid + 1) - 1 : u = nextUid
    BY <1>1
  <1>5. nextUid \in nextUid .. (nextUid + 1) - 1 /\ (nextUid + 1) - nextUid = 1
    BY <1>1
  <1>6. Added({e}, currentTs, nextUid, nextUid + 1)
    BY <1>2, <1>3, <1>4, <1>5 DEF Added
  <1> QED BY <1>6 DEF e

\* The events of the other threads, which get the next uids in their order.
LEMMA MergedIsAdded ==
  ASSUME SimTypeOK, NEW ts \in Nat
  PROVE  Added(Merged(ts), ts, nextUid, nextUid + Len(injected))
  <1> SUFFICES ASSUME NEW M, M = Merged(ts), NEW n, n = Len(injected)
               PROVE  Added(M, ts, nextUid, nextUid + n)
    OBVIOUS
  <1> DEFINE ev(i) == [ts |-> ts + injected[i], uid |-> nextUid + i - 1, delay |-> injected[i]]
  <1>1. nextUid \in Nat /\ n \in Nat /\ nextUid >= FirstUid /\ nextUid + n <= MaxUid
        /\ DOMAIN injected = 1 .. n
    BY LenProperties DEF SimTypeOK
  <1>2. ASSUME NEW i \in 1 .. n
        PROVE  /\ injected[i] \in Delays /\ injected[i] \in Nat
               /\ ev(i) \in Event /\ ev(i).ts = ts + ev(i).delay
               /\ ev(i).uid = nextUid + i - 1 /\ ev(i).uid \in nextUid .. nextUid + n - 1
    <2>1. injected[i] \in Delays /\ injected[i] \in Nat
      BY <1>1, <1>2, DelaysAssumption, ElementOfSeq DEF SimTypeOK
    <2>2. nextUid + i - 1 \in Uid /\ nextUid + i - 1 \in nextUid .. nextUid + n - 1
      BY <1>1, <1>2, MaxUidAssumption DEF Uid, FirstUid
    <2> QED BY <2>1, <2>2 DEF Event
  <1>3. M = {ev(i) : i \in 1 .. n}
    BY <1>1 DEF Merged
  <1>4. M \in SUBSET Event /\ \A e \in M : e.ts = ts + e.delay /\ e.uid \in nextUid .. nextUid + n - 1
    BY <1>2, <1>3
  <1>5. ASSUME NEW e \in M, NEW f \in M, e.uid = f.uid PROVE e = f
    <2>1. PICK i \in 1 .. n : e = ev(i)
      BY <1>3
    <2>2. PICK j \in 1 .. n : f = ev(j)
      BY <1>3
    <2>3. nextUid + i - 1 = nextUid + j - 1
      BY <1>2, <1>5, <2>1, <2>2
    <2>4. i = j
      BY <2>3, <1>1
    <2> QED BY <2>1, <2>2, <2>4
  <1>6. ASSUME NEW u \in nextUid .. nextUid + n - 1 PROVE \E e \in M : e.uid = u
    <2>1. u - nextUid + 1 \in 1 .. n /\ nextUid + (u - nextUid + 1) - 1 = u
      BY <1>1, <1>6
    <2>2. ev(u - nextUid + 1) \in M /\ ev(u - nextUid + 1).uid = u
      BY <2>1, <1>2, <1>3
    <2> QED BY <2>2
  <1>7. IsFiniteSet(M) /\ Cardinality(M) = n
    <2> DEFINE g == [i \in 1 .. n |-> ev(i)]
    <2>1. g \in Bijection(1 .. n, M)
      <3>1. g \in [1 .. n -> M]
        BY <1>3
      <3>2. ASSUME NEW i \in 1 .. n, NEW j \in 1 .. n, g[i] = g[j] PROVE i = j
        <4>1. ev(i).uid = ev(j).uid
          BY <3>2
        <4>2. nextUid + i - 1 = nextUid + j - 1
          BY <4>1, <1>2
        <4> QED BY <4>2, <1>1
      <3>3. \A e \in M : \E i \in 1 .. n : g[i] = e
        BY <1>3
      <3> HIDE DEF g
      <3> QED BY <3>1, <3>2, <3>3, Fun_IsBij
    <2>2. IsFiniteSet(1 .. n) /\ Cardinality(1 .. n) = n
      BY <1>1, CountTo
    <2> QED BY <2>1, <2>2, FS_Bijection DEF ExistsBijection
  <1>8. (nextUid + n) - nextUid = n
    BY <1>1
  <1> HIDE DEF ev
  <1>9. PICK hi : hi = nextUid + n
    OBVIOUS
  <1>10. /\ \A e \in M : e.ts = ts + e.delay /\ e.uid \in nextUid .. hi - 1
         /\ \A u \in nextUid .. hi - 1 : \E e \in M : e.uid = u
         /\ Cardinality(M) = hi - nextUid
    BY <1>1, <1>4, <1>6, <1>7, <1>8, <1>9
  <1>11. \A e, f \in M : e.uid = f.uid => e = f
    BY <1>5
  <1>12. Added(M, ts, nextUid, hi)
    BY <1>4, <1>7, <1>10, <1>11, AddedIntro
  <1> QED BY <1>9, <1>12

\* ProcessEventsWithContext adds events to those it is given and counts them.
LEMMA ProcessAdds ==
  ASSUME SimTypeOK, FlagInv, NEW evs, NEW count \in Int, NEW ts \in Nat,
         ProcessEventsWithContext(evs, count, ts)
  PROVE  /\ \E M : Added(M, ts, nextUid, nextUid') /\ events' = evs \union M
         /\ nextUid' \in Nat /\ nextUid <= nextUid' /\ nextUid' + Len(injected') <= MaxUid
         /\ unscheduled' = count + (nextUid' - nextUid)
         /\ InjectedOK'
  <1>0. nextUid \in Nat /\ Len(injected) \in Nat /\ nextUid + Len(injected) <= MaxUid
    BY LenProperties DEF SimTypeOK
  <1>1. CASE injectedEmpty
    <2>1. /\ events' = evs \union {} /\ nextUid' = nextUid /\ unscheduled' = count
          /\ UNCHANGED <<injected, injectedEmpty, adding>>
      BY <1>1 DEF ProcessEventsWithContext, injectedVars
    <2>2. InjectedOK'
      BY <2>1 DEF SimTypeOK, InjectedOK, FlagInv
    <2>3. Added({}, ts, nextUid, nextUid')
      BY <1>0, <2>1, NothingAdded
    <2>4. nextUid' + Len(injected') <= MaxUid /\ unscheduled' = count + (nextUid' - nextUid)
      BY <1>0, <2>1
    <2> QED BY <1>0, <2>1, <2>2, <2>3, <2>4
  <1>2. CASE ~ injectedEmpty
    <2>1. /\ events' = evs \union Merged(ts) /\ nextUid' = nextUid + Len(injected)
          /\ unscheduled' = count + Len(injected)
          /\ injected' = <<>> /\ injectedEmpty' = TRUE /\ ~ adding /\ adding' = adding
      BY <1>2 DEF ProcessEventsWithContext
    <2>2. Added(Merged(ts), ts, nextUid, nextUid')
      BY <2>1, MergedIsAdded
    <2>3. Len(injected') = 0 /\ injected' \in Seq(Delays)
      BY <2>1
    <2>4. InjectedOK'
      BY <2>1, <2>3 DEF InjectedOK, FlagInv, SimTypeOK
    <2>5. \E M : Added(M, ts, nextUid, nextUid') /\ events' = evs \union M
      BY <2>1, <2>2
    <2>6. /\ nextUid' \in Nat /\ nextUid <= nextUid' /\ nextUid' + Len(injected') <= MaxUid
          /\ unscheduled' = count + (nextUid' - nextUid)
      BY <1>0, <2>1, <2>3
    <2> QED BY <2>4, <2>5, <2>6
  <1> QED BY <1>1, <1>2

-----------------------------------------------------------------------------
(* A step that takes the events of R out of the map, moves the key past    *)
(* them and adds the events of M keeps the invariant on keys.              *)

\* A step that takes R out of the map, inserts M and may advance the clock keeps the keys in order.
LEMMA MoveKeepsKeys ==
  ASSUME SimInv, SimTypeOK',
         NEW R \in SUBSET events, NEW M,
         Added(M, currentTs', nextUid, nextUid'),
         events' = (events \ R) \union M,
         nextUid <= nextUid', currentUid' < nextUid,
         currentTs < currentTs' \/ (currentTs = currentTs' /\ currentUid <= currentUid'),
         \A e \in events \ R : AfterKey(e, currentTs', currentUid'),
         \A e \in R : ~ AfterKey(e, currentTs', currentUid'),
         cancelled' = cancelled,
         fired' = fired \union {e.uid : e \in {x \in R : x.uid \notin cancelled}},
         handles \subseteq handles', handles' \subseteq handles \union M,
         handles' # handles => R = {} /\ currentTs' = currentTs /\ currentUid' = currentUid
  PROVE  KeyInv' /\ NoEventLost' /\ EqualDelaysInOrder'
  <1>0. /\ SimTypeOK /\ KeyInv
        /\ nextUid \in Nat /\ nextUid' \in Nat /\ currentTs \in Nat /\ currentTs' \in Nat
        /\ currentUid \in Nat /\ currentUid' \in Nat
    BY DEF SimInv, SimTypeOK
  <1>e. ASSUME NEW e \in events \union handles \union M
        PROVE  e \in Event /\ e.ts \in Nat /\ e.uid \in Nat /\ e.delay \in Nat
    BY <1>e, <1>0, EventFields DEF SimTypeOK, Added
  <1>m. ASSUME NEW e \in M
        PROVE  /\ nextUid <= e.uid /\ e.uid < nextUid'
               /\ e.ts = currentTs' + e.delay
               /\ AfterKey(e, currentTs', currentUid')
    <2>1. e.ts = currentTs' + e.delay /\ e.uid \in nextUid .. nextUid' - 1
      BY <1>m DEF Added
    <2> QED BY <2>1, <1>e, <1>0 DEF AfterKey
  <1>o. ASSUME NEW e \in events \union handles
        PROVE  e.uid < nextUid
    BY <1>o, <1>0 DEF KeyInv
  <1>b. ASSUME NEW e \in events \union handles, ~ AfterKey(e, currentTs, currentUid)
        PROVE  ~ AfterKey(e, currentTs', currentUid')
    BY <1>b, <1>e, <1>0 DEF AfterKey
  <1>1. currentUid' < nextUid'
    BY <1>0
  <1>2. ASSUME NEW e \in events'
        PROVE  e.uid < nextUid' /\ AfterKey(e, currentTs', currentUid') /\ e.ts <= currentTs' + e.delay
    <2>1. CASE e \in M
      BY <2>1, <1>m, <1>e
    <2>2. CASE e \in events \ R
      <3>1. e.uid < nextUid /\ e.ts <= currentTs + e.delay
        BY <2>2, <1>0 DEF KeyInv
      <3> QED BY <2>2, <3>1, <1>e, <1>0
    <2> QED BY <2>1, <2>2
  <1>3. ASSUME NEW e \in events' \union handles', NEW f \in events' \union handles', e.uid = f.uid
        PROVE  e = f
    <2>1. /\ e \in events \union handles \/ e \in M
          /\ f \in events \union handles \/ f \in M
      OBVIOUS
    <2>2. CASE e \in events \union handles /\ f \in events \union handles
      BY <2>2, <1>3, <1>0 DEF KeyInv
    <2>3. CASE e \in M /\ f \in M
      BY <2>3, <1>3 DEF Added
    <2>4. ~ (e \in M /\ f \in events \union handles) /\ ~ (f \in M /\ e \in events \union handles)
      BY <1>3, <1>m, <1>o, <1>e, <1>0
    <2> QED BY <2>1, <2>2, <2>3, <2>4
  <1>4. ASSUME NEW h \in handles'
        PROVE  /\ h.uid < nextUid'
               /\ h \in events' \/ h.uid \in cancelled' \/ ~ AfterKey(h, currentTs', currentUid')
    <2>1. CASE h \in M
      BY <2>1, <1>m
    <2>2. CASE h \in handles
      <3>1. h.uid < nextUid'
        BY <2>2, <1>o, <1>e, <1>0
      <3>2. h \in events \/ h.uid \in cancelled \/ ~ AfterKey(h, currentTs, currentUid)
        BY <2>2, <1>0 DEF KeyInv
      <3> QED BY <2>2, <3>1, <3>2, <1>b
    <2> QED BY <2>1, <2>2
  <1>5. ASSUME NEW u \in fired'
        PROVE  u < nextUid' /\ \A e \in events' : e.uid # u
    <2>1. CASE u \in fired
      <3>1. u \in Nat /\ u < nextUid /\ \A e \in events : e.uid # u
        BY <2>1, <1>0, MaxUidAssumption DEF KeyInv, SimTypeOK, Uid, FirstUid
      <3>2. \A e \in M : e.uid # u
        BY <3>1, <1>m, <1>e, <1>0
      <3> QED BY <3>1, <3>2, <1>0
    <2>2. CASE u \notin fired
      <3>1. PICK x \in R : u = x.uid
        BY <2>2, <1>5
      <3>2. u \in Nat /\ u < nextUid
        BY <3>1, <1>o, <1>e
      <3>3. \A e \in events \ R : e.uid # u
        BY <3>1, <1>0 DEF KeyInv
      <3>4. \A e \in M : e.uid # u
        BY <3>2, <1>m, <1>e, <1>0
      <3> QED BY <3>2, <3>3, <3>4, <1>0
    <2> QED BY <2>1, <2>2
  <1>6. ASSUME NEW u \in cancelled' PROVE u < nextUid'
    BY <1>6, <1>0, MaxUidAssumption DEF KeyInv, SimTypeOK, Uid, FirstUid
  <1>7. KeyInv'
    BY <1>1, <1>2, <1>3, <1>4, <1>5, <1>6 DEF KeyInv, AfterKey
  <1>8. NoEventLost'
    <2>1. ASSUME NEW u \in FirstUid .. nextUid' - 1
          PROVE  u \in fired' \/ u \in cancelled' \/ \E e \in events' : e.uid = u
      <3>1. CASE u \in nextUid .. nextUid' - 1
        BY <3>1 DEF Added
      <3>2. CASE u \in FirstUid .. nextUid - 1
        <4>1. u \in fired \/ u \in cancelled \/ \E e \in events : e.uid = u
          BY <3>2 DEF SimInv, NoEventLost
        <4>2. ASSUME NEW e \in R, e.uid = u, u \notin cancelled PROVE u \in fired'
          BY <4>2
        <4> QED BY <4>1, <4>2
      <3> QED BY <2>1, <3>1, <3>2, <1>0, SplitUids
    <2>2. fired' \intersect cancelled' = {}
      BY DEF SimInv, NoEventLost
    <2> QED BY <2>1, <2>2 DEF NoEventLost
  <1>9. EqualDelaysInOrder'
    <2> SUFFICES ASSUME NEW e \in events', NEW f \in events', e.delay = f.delay, e.uid < f.uid
                 PROVE  KeyBefore(e, f)
      BY DEF EqualDelaysInOrder, KeyBefore
    <2>1. CASE e \in events \ R /\ f \in events \ R
      BY <2>1 DEF SimInv, EqualDelaysInOrder
    <2>2. CASE f \in M
      <3>1. f.ts = currentTs' + f.delay /\ e.ts <= currentTs' + e.delay
        BY <2>2, <1>m, <1>2
      <3>2. e.ts \in Nat /\ f.ts \in Nat /\ e.delay \in Nat
        BY <1>e
      <3> QED BY <3>1, <3>2, <1>0 DEF KeyBefore
    <2>3. CASE e \in M /\ f \in events \ R
      BY <2>3, <1>m, <1>o, <1>e, <1>0
    <2> QED BY <2>1, <2>2, <2>3
  <1> QED BY <1>7, <1>8, <1>9

\* The same step keeps the count.
LEMMA MoveKeepsCount ==
  ASSUME SimInv, NEW evs \in SUBSET events, NEW M,
         Added(M, currentTs', nextUid, nextUid'), nextUid' \in Nat,
         events' = evs \union M,
         unscheduled' = Cardinality(evs) + (nextUid' - nextUid)
  PROVE  IsFiniteSet(events') /\ EventsCounted'
  <1>1. IsFiniteSet(evs) /\ IsFiniteSet(M) /\ Cardinality(M) = nextUid' - nextUid
    BY FS_Subset DEF SimInv, Added
  <1>2. evs \intersect M = {}
    <2> SUFFICES ASSUME NEW e \in events, e \in M PROVE FALSE
      OBVIOUS
    <2>1. e.uid < nextUid /\ e.uid \in nextUid .. nextUid' - 1
      BY DEF SimInv, KeyInv, Added
    <2>2. e.uid \in Nat /\ nextUid \in Nat
      BY EventFields DEF SimInv, SimTypeOK
    <2> QED BY <2>1, <2>2
  <1>3. IsFiniteSet(events')
    BY <1>1, FS_Union
  <1>4. Cardinality(events') = Cardinality(evs) + Cardinality(M)
    <2>1. Cardinality(evs \intersect M) = 0
      BY <1>2, FS_EmptySet
    <2>2. Cardinality(evs) \in Nat /\ Cardinality(M) \in Nat
      BY <1>1, FS_CardinalityType
    <2>3. Cardinality(evs \union M) = Cardinality(evs) + Cardinality(M) - Cardinality(evs \intersect M)
      BY <1>1, FS_Union
    <2> QED BY <2>1, <2>2, <2>3
  <1> QED BY <1>1, <1>3, <1>4 DEF EventsCounted

-----------------------------------------------------------------------------
(* Each call and each step of the loop.                                    *)

\* The loop starts with an empty map.
LEMMA SimInitial == SimInit => SimInv
  <1> SUFFICES ASSUME SimInit PROVE SimInv
    OBVIOUS
  <1>1. SimTypeOK
    <2>1. Len(injected) = 0 /\ injected \in Seq(Delays)
      BY DEF SimInit
    <2>2. injectedEmpty = TRUE /\ adding = FALSE
      BY DEF SimInit
    <2>3. nextUid \in Nat /\ nextUid >= FirstUid /\ nextUid + Len(injected) <= MaxUid
      BY <2>1, MaxUidAssumption DEF SimInit, FirstUid
    <2>4. unscheduled \in Int /\ currentTs \in Nat /\ currentUid \in Nat
      BY DEF SimInit
    <2>6. mode \in {"idle", "loop", "handler"} /\ stop \in BOOLEAN
      BY Zenon DEF SimInit
    <2>5. /\ events \in SUBSET Event /\ handles \in SUBSET Event
          /\ cancelled \in SUBSET Uid /\ fired \in SUBSET Uid
      BY DEF SimInit
    <2> QED BY <2>1, <2>2, <2>3, <2>4, <2>5, <2>6 DEF SimTypeOK
  <1>2. KeyInv
    BY DEF SimInit, KeyInv, FirstUid
  <1>3. NoEventLost /\ EqualDelaysInOrder
    BY DEF SimInit, NoEventLost, EqualDelaysInOrder, FirstUid
  <1>4. IsFiniteSet(events) /\ EventsCounted
    BY FS_EmptySet DEF SimInit, EventsCounted
  <1>5. FlagInv
    BY DEF SimInit, FlagInv
  <1> QED BY <1>1, <1>2, <1>3, <1>4, <1>5 DEF SimInv

\* Schedule keeps the invariant.
LEMMA ScheduleStep ==
  ASSUME SimInv, NEW d \in Delays, Schedule(d)
  PROVE  SimInv'
  <1> DEFINE e == [ts |-> currentTs + d, uid |-> nextUid, delay |-> d]
  <1>0. SimTypeOK /\ UidLeft
    BY DEF SimInv, Schedule
  <1>1. PICK M : M = {e}
    OBVIOUS
  <1>2. /\ events' = (events \ {}) \union M /\ handles' = handles \union M
        /\ nextUid' = nextUid + 1 /\ unscheduled' = unscheduled + 1
        /\ UNCHANGED <<mode, stop, cancelled, currentTs, currentUid, injected, injectedEmpty,
                       adding, fired>>
    BY <1>1 DEF Schedule, loopVars, keyVars, injectedVars
  <1>3. Added(M, currentTs', nextUid, nextUid')
    BY <1>0, <1>1, <1>2, ScheduledIsAdded
  <1> HIDE DEF e
  <1>4. nextUid \in Nat /\ nextUid' \in Nat /\ nextUid <= nextUid' /\ currentUid < nextUid
        /\ currentUid \in Nat /\ currentTs \in Nat /\ Len(injected) \in Nat /\ unscheduled \in Int
    BY <1>0, <1>2, LenProperties DEF SimTypeOK, SimInv, KeyInv
  <1>5. SimTypeOK'
    <2>1. M \in SUBSET Event
      BY <1>3 DEF Added
    <2>2. nextUid' >= FirstUid /\ nextUid' + Len(injected') <= MaxUid
      BY <1>0, <1>2, <1>4, MaxUidAssumption DEF SimTypeOK, UidLeft, FirstUid
    <2>3. unscheduled' \in Int
      BY <1>2, <1>4
    <2> QED BY <1>0, <1>2, <1>4, <2>1, <2>2, <2>3 DEF SimTypeOK
  <1>6. \A x \in events : AfterKey(x, currentTs', currentUid')
    BY <1>2 DEF SimInv, KeyInv
  <1>7. KeyInv' /\ NoEventLost' /\ EqualDelaysInOrder'
    BY <1>2, <1>3, <1>4, <1>5, <1>6, MoveKeepsKeys
  <1>8. IsFiniteSet(events') /\ EventsCounted'
    <2>1. unscheduled' = Cardinality(events) + (nextUid' - nextUid)
      BY <1>2, <1>4 DEF SimInv, EventsCounted
    <2>2. events' = events \union M
      BY <1>2
    <2> QED BY <1>3, <1>4, <2>1, <2>2, MoveKeepsCount
  <1>9. FlagInv'
    BY <1>2 DEF SimInv, FlagInv
  <1> QED BY <1>5, <1>7, <1>8, <1>9 DEF SimInv

\* StartRun and FinishEvent: the key stays and the injected events come in.
LEMMA MergeStep ==
  ASSUME SimInv, ProcessEventsWithContext(events, unscheduled, currentTs),
         UNCHANGED <<cancelled, currentTs, currentUid, handles, fired>>,
         mode' \in {"idle", "loop", "handler"}, stop' \in BOOLEAN
  PROVE  SimInv'
  <1>0. SimTypeOK /\ FlagInv /\ unscheduled \in Int /\ currentTs \in Nat /\ nextUid \in Nat
        /\ currentUid \in Nat /\ currentUid < nextUid
    BY DEF SimInv, SimTypeOK, KeyInv
  <1>1. /\ nextUid' \in Nat /\ nextUid <= nextUid' /\ nextUid' + Len(injected') <= MaxUid
        /\ unscheduled' = unscheduled + (nextUid' - nextUid)
        /\ InjectedOK'
    BY <1>0, ProcessAdds
  <1>2. PICK M : Added(M, currentTs, nextUid, nextUid') /\ events' = (events \ {}) \union M
    BY <1>0, ProcessAdds
  <1>3. SimTypeOK'
    <2>1. M \in SUBSET Event
      BY <1>2 DEF Added
    <2>2. nextUid' >= FirstUid /\ unscheduled' \in Int
      BY <1>0, <1>1 DEF SimTypeOK, FirstUid
    <2> QED BY <1>0, <1>1, <1>2, <2>1, <2>2 DEF SimTypeOK, InjectedOK
  <1>4. \A x \in events : AfterKey(x, currentTs', currentUid')
    BY DEF SimInv, KeyInv
  <1>5. fired' = fired \union {e.uid : e \in {x \in {} : x.uid \notin cancelled}}
    OBVIOUS
  <1>a. {} \in SUBSET events /\ events \ {} = events /\ Added(M, currentTs', nextUid, nextUid')
        /\ currentUid' < nextUid /\ currentTs = currentTs' /\ currentUid <= currentUid'
        /\ cancelled' = cancelled /\ handles' = handles
    BY <1>0, <1>2
  <1>6. KeyInv' /\ NoEventLost' /\ EqualDelaysInOrder'
    BY <1>1, <1>2, <1>3, <1>4, <1>5, <1>a, MoveKeepsKeys
  <1>7. IsFiniteSet(events') /\ EventsCounted'
    <2>1. unscheduled' = Cardinality(events) + (nextUid' - nextUid) /\ events' = events \union M
      BY <1>1, <1>2 DEF SimInv, EventsCounted
    <2> QED BY <1>1, <1>2, <2>1, MoveKeepsCount
  <1> QED BY <1>1, <1>3, <1>6, <1>7 DEF SimInv, InjectedOK

\* The key of the next event is past the current one and before those of all others.
LEMMA NextKey ==
  ASSUME SimInv, NEW e \in events, IsNext(e)
  PROVE  /\ e.ts \in Nat /\ e.uid \in Nat /\ e.uid < nextUid
         /\ currentTs < e.ts \/ (currentTs = e.ts /\ currentUid <= e.uid)
         /\ \A f \in events \ {e} : AfterKey(f, e.ts, e.uid)
         /\ ~ AfterKey(e, e.ts, e.uid)
         /\ IsFiniteSet(events \ {e}) /\ Cardinality(events \ {e}) = unscheduled - 1
  <1>1. e.ts \in Nat /\ e.uid \in Nat /\ currentTs \in Nat /\ currentUid \in Nat
    BY EventFields DEF SimInv, SimTypeOK
  <1>2. e.uid < nextUid /\ AfterKey(e, currentTs, currentUid)
    BY DEF SimInv, KeyInv
  <1>3. ASSUME NEW f \in events \ {e} PROVE AfterKey(f, e.ts, e.uid)
    <2>1. f.ts \in Nat /\ f.uid \in Nat /\ KeyBefore(e, f)
      BY EventFields DEF SimInv, SimTypeOK, IsNext
    <2> QED BY <1>1, <2>1 DEF KeyBefore, AfterKey
  <1>4. IsFiniteSet(events \ {e}) /\ Cardinality(events \ {e}) = unscheduled - 1
    BY FS_RemoveElement DEF SimInv, EventsCounted
  <1> QED BY <1>1, <1>2, <1>3, <1>4 DEF AfterKey

\* Running the next event keeps the invariant.
LEMMA InvokeStep ==
  ASSUME SimInv, NEW e \in events, InvokeEvent(e)
  PROVE  SimInv'
  <1>0. SimTypeOK /\ nextUid \in Nat /\ e \in Event /\ e.uid \in Uid
    BY EventFields DEF SimInv, SimTypeOK
  <1>1. /\ IsNext(e) /\ mode' = "handler" /\ e.uid \notin cancelled
        /\ events' = events \ {e} /\ unscheduled' = unscheduled - 1
        /\ currentTs' = e.ts /\ currentUid' = e.uid /\ fired' = fired \union {e.uid}
        /\ UNCHANGED <<stop, cancelled, nextUid, injected, injectedEmpty, adding, handles>>
    BY DEF InvokeEvent, injectedVars
  <1>2. Added({}, currentTs', nextUid, nextUid')
    BY <1>0, <1>1, NothingAdded
  <1>a. /\ e.ts \in Nat /\ e.uid \in Nat /\ e.uid < nextUid
        /\ currentTs < e.ts \/ (currentTs = e.ts /\ currentUid <= e.uid)
        /\ \A f \in events \ {e} : AfterKey(f, e.ts, e.uid)
        /\ ~ AfterKey(e, e.ts, e.uid)
    BY <1>1, NextKey
  <1>3. SimTypeOK'
    <2>1. unscheduled' \in Int /\ fired' \in SUBSET Uid /\ events' \in SUBSET Event
          /\ nextUid' + Len(injected') <= MaxUid /\ nextUid' >= FirstUid
      BY <1>0, <1>1 DEF SimTypeOK
    <2>2. InjectedOK'
      BY <1>1 DEF SimInv, SimTypeOK, InjectedOK, FlagInv
    <2> QED BY <1>0, <1>1, <1>a, <2>1, <2>2 DEF SimTypeOK, InjectedOK
  <1>4. {e} \in SUBSET events /\ events' = (events \ {e}) \union {}
    BY <1>1
  <1>5. fired' = fired \union {x.uid : x \in {y \in {e} : y.uid \notin cancelled}}
    BY <1>1
  <1>6. /\ nextUid <= nextUid' /\ currentUid' < nextUid
        /\ currentTs < currentTs' \/ (currentTs = currentTs' /\ currentUid <= currentUid')
        /\ \A f \in events \ {e} : AfterKey(f, currentTs', currentUid')
        /\ \A f \in {e} : ~ AfterKey(f, currentTs', currentUid')
        /\ cancelled' = cancelled /\ handles \subseteq handles'
        /\ handles' \subseteq handles \union {} /\ handles' = handles
    BY <1>0, <1>1, <1>a
  <1>7. KeyInv' /\ NoEventLost' /\ EqualDelaysInOrder'
    BY <1>2, <1>3, <1>4, <1>5, <1>6, MoveKeepsKeys
  <1>8. IsFiniteSet(events') /\ EventsCounted'
    BY <1>1, NextKey DEF EventsCounted
  <1>9. FlagInv'
    BY <1>1 DEF SimInv, FlagInv
  <1> QED BY <1>3, <1>7, <1>8, <1>9 DEF SimInv

\* Passing over a cancelled event keeps the invariant.
LEMMA SkipStep ==
  ASSUME SimInv, NEW e \in events, SkipCancelled(e)
  PROVE  SimInv'
  <1>0. SimTypeOK /\ FlagInv /\ nextUid \in Nat /\ e \in Event /\ unscheduled \in Int
    BY DEF SimInv, SimTypeOK
  <1>1. /\ IsNext(e) /\ e.uid \in cancelled
        /\ currentTs' = e.ts /\ currentUid' = e.uid
        /\ ProcessEventsWithContext(events \ {e}, unscheduled - 1, e.ts)
        /\ UNCHANGED <<mode, stop, cancelled, handles, fired>>
    BY DEF SkipCancelled, loopVars
  <1>2. /\ nextUid' \in Nat /\ nextUid <= nextUid' /\ nextUid' + Len(injected') <= MaxUid
        /\ unscheduled' = (unscheduled - 1) + (nextUid' - nextUid)
        /\ InjectedOK'
        /\ \E M : Added(M, e.ts, nextUid, nextUid') /\ events' = (events \ {e}) \union M
    <2>1. unscheduled - 1 \in Int /\ e.ts \in Nat
      BY <1>0, EventFields
    <2> QED BY <1>0, <1>1, <2>1, ProcessAdds
  <1>3. PICK M : Added(M, currentTs', nextUid, nextUid') /\ events' = (events \ {e}) \union M
    BY <1>1, <1>2
  <1>4. SimTypeOK'
    <2>1. M \in SUBSET Event
      BY <1>3 DEF Added
    <2>2. nextUid' >= FirstUid /\ unscheduled' \in Int
      BY <1>0, <1>2 DEF SimTypeOK, FirstUid
    <2>3. currentTs' \in Nat /\ currentUid' \in Nat
      BY <1>1, NextKey
    <2> QED BY <1>0, <1>1, <1>2, <1>3, <2>1, <2>2, <2>3 DEF SimTypeOK, InjectedOK
  <1>5. fired' = fired \union {x.uid : x \in {y \in {e} : y.uid \notin cancelled}}
    BY <1>1
  <1>6. /\ nextUid <= nextUid' /\ currentUid' < nextUid
        /\ currentTs < currentTs' \/ (currentTs = currentTs' /\ currentUid <= currentUid')
        /\ \A f \in events \ {e} : AfterKey(f, currentTs', currentUid')
        /\ \A f \in {e} : ~ AfterKey(f, currentTs', currentUid')
        /\ cancelled' = cancelled /\ handles \subseteq handles'
        /\ handles' \subseteq handles \union M /\ handles' = handles
        /\ {e} \in SUBSET events
    BY <1>1, <1>2, NextKey
  <1>7. KeyInv' /\ NoEventLost' /\ EqualDelaysInOrder'
    BY <1>3, <1>4, <1>5, <1>6, MoveKeepsKeys
  <1>8. IsFiniteSet(events') /\ EventsCounted'
    <2>1. unscheduled' = Cardinality(events \ {e}) + (nextUid' - nextUid)
      BY <1>1, <1>2, NextKey
    <2> QED BY <1>2, <1>3, <2>1, MoveKeepsCount
  <1> QED BY <1>2, <1>4, <1>7, <1>8 DEF SimInv, InjectedOK

\* An EventId that has not expired belongs to an event in the map.
LEMMA LiveHandle ==
  ASSUME SimInv, NEW id \in handles
  PROVE  ~ IsExpired(id) <=> id \in Pending
  <1>1. /\ id.ts \in Nat /\ id.uid \in Nat /\ currentTs \in Nat /\ currentUid \in Nat
    BY EventFields DEF SimInv, SimTypeOK
  <1>2. id \in events \/ id.uid \in cancelled \/ ~ AfterKey(id, currentTs, currentUid)
    BY DEF SimInv, KeyInv
  <1>3. id \in events => AfterKey(id, currentTs, currentUid)
    BY DEF SimInv, KeyInv
  <1> QED BY <1>1, <1>2, <1>3 DEF IsExpired, Pending, AfterKey

\* Cancel keeps the invariant.
LEMMA CancelStep ==
  ASSUME SimInv, NEW id \in handles, Cancel(id)
  PROVE  SimInv'
  <1>1. UNCHANGED <<mode, stop, events, currentTs, currentUid, nextUid, unscheduled, injected,
                    injectedEmpty, adding, handles, fired>>
    BY DEF Cancel, loopVars, keyVars, injectedVars
  <1>2. /\ cancelled \subseteq cancelled' /\ cancelled' \subseteq cancelled \union {id.uid}
        /\ cancelled' # cancelled => id \in events
    BY LiveHandle DEF Cancel, Pending
  <1>3. id.uid \in Uid /\ id.uid < nextUid
    BY EventFields DEF SimInv, SimTypeOK, KeyInv
  <1>4. id \in events => id.uid \notin fired
    BY DEF SimInv, KeyInv
  <1>5. SimTypeOK'
    BY <1>1, <1>2, <1>3 DEF SimInv, SimTypeOK
  <1>6. KeyInv'
    BY <1>1, <1>2, <1>3 DEF SimInv, KeyInv, AfterKey
  <1>7. NoEventLost' /\ EqualDelaysInOrder'
    BY <1>1, <1>2, <1>4 DEF SimInv, NoEventLost, EqualDelaysInOrder, KeyBefore
  <1>8. IsFiniteSet(events') /\ EventsCounted'
    BY <1>1 DEF SimInv, EventsCounted
  <1>9. FlagInv'
    BY <1>1 DEF SimInv, FlagInv
  <1> QED BY <1>5, <1>6, <1>7, <1>8, <1>9 DEF SimInv

\* Remove keeps the invariant.
LEMMA RemoveStep ==
  ASSUME SimInv, NEW id \in handles, Remove(id)
  PROVE  SimInv'
  <1>1. /\ ~ IsExpired(id) /\ events' = events \ {id} /\ cancelled' = cancelled \union {id.uid}
        /\ unscheduled' = unscheduled - 1
        /\ UNCHANGED <<mode, stop, currentTs, currentUid, nextUid, injected, injectedEmpty,
                       adding, handles, fired>>
    BY DEF Remove, loopVars, keyVars, injectedVars
  <1>2. id \in events /\ id.uid \in Uid /\ id.uid < nextUid
    BY <1>1, LiveHandle, EventFields DEF Pending, SimInv, SimTypeOK, KeyInv
  <1>3. id.uid \notin fired
    BY <1>2 DEF SimInv, KeyInv
  <1>4. SimTypeOK'
    BY <1>1, <1>2 DEF SimInv, SimTypeOK
  <1>5. KeyInv'
    <2>1. ASSUME NEW h \in handles'
          PROVE h \in events' \/ h.uid \in cancelled' \/ ~ AfterKey(h, currentTs', currentUid')
      <3>1. h \in events \/ h.uid \in cancelled \/ ~ AfterKey(h, currentTs, currentUid)
        BY <1>1, <2>1 DEF SimInv, KeyInv
      <3> QED BY <1>1, <3>1
    <2> QED BY <1>1, <1>2, <2>1 DEF SimInv, KeyInv, AfterKey
  <1>6. NoEventLost' /\ EqualDelaysInOrder'
    BY <1>1, <1>3 DEF SimInv, NoEventLost, EqualDelaysInOrder, KeyBefore
  <1>7. IsFiniteSet(events') /\ EventsCounted'
    BY <1>1, <1>2, FS_RemoveElement DEF SimInv, EventsCounted
  <1>8. FlagInv'
    BY <1>1 DEF SimInv, FlagInv
  <1> QED BY <1>4, <1>5, <1>6, <1>7, <1>8 DEF SimInv

\* Steps that touch neither the map nor the keys.
LEMMA QuietStep ==
  ASSUME SimInv,
         UNCHANGED <<events, cancelled, currentTs, currentUid, nextUid, unscheduled, handles, fired>>,
         SimTypeOK', FlagInv'
  PROVE  SimInv'
  BY DEF SimInv, KeyInv, AfterKey, NoEventLost, EqualDelaysInOrder, KeyBefore, EventsCounted

\* Every step keeps the invariant.
LEMMA SimStep == SimInv /\ [SimNext]_simVars => SimInv'
  <1> SUFFICES ASSUME SimInv, [SimNext]_simVars PROVE SimInv'
    OBVIOUS
  <1>0. SimTypeOK
    BY DEF SimInv
  <1>1. ASSUME NEW d \in Delays, Schedule(d) PROVE SimInv'
    BY <1>1, ScheduleStep
  <1>2. ASSUME NEW d \in Delays, ScheduleWithContext(d) PROVE SimInv'
    <2>1. /\ UidLeft /\ injected' = Append(injected, d) /\ adding' = TRUE
          /\ UNCHANGED <<mode, stop, events, cancelled, currentTs, currentUid, nextUid, unscheduled,
                         injectedEmpty, handles, fired>>
      BY <1>2 DEF ScheduleWithContext, loopVars, keyVars
    <2>2. injected \in Seq(Delays) /\ Len(injected) \in Nat /\ nextUid \in Nat
      BY <1>0, LenProperties DEF SimTypeOK
    <2>3. injected' \in Seq(Delays) /\ Len(injected') = Len(injected) + 1
      BY <2>1, <2>2, AppendProperties
    <2>4. injected' # <<>>
      BY <2>2, <2>3
    <2>5. nextUid' + Len(injected') <= MaxUid
      BY <2>1, <2>2, <2>3, MaxUidAssumption DEF UidLeft
    <2>6. SimTypeOK' /\ FlagInv'
      BY <1>0, <2>1, <2>3, <2>4, <2>5 DEF SimTypeOK, FlagInv
    <2> QED BY <2>1, <2>6, QuietStep
  <1>7. CASE EventAdded
    <2>1. /\ adding /\ injectedEmpty' = FALSE /\ adding' = FALSE
          /\ UNCHANGED <<mode, stop, events, cancelled, currentTs, currentUid, nextUid, unscheduled,
                         injected, handles, fired>>
      BY <1>7 DEF EventAdded, loopVars, keyVars
    <2>2. SimTypeOK' /\ FlagInv'
      BY <1>0, <2>1 DEF SimTypeOK, FlagInv
    <2> QED BY <2>1, <2>2, QuietStep
  <1>3. ASSUME NEW id \in handles, Cancel(id) \/ Remove(id) PROVE SimInv'
    BY <1>3, CancelStep, RemoveStep
  <1>4. CASE Stop \/ EndRun \/ UNCHANGED simVars
    <2>1. /\ UNCHANGED <<events, cancelled, currentTs, currentUid, nextUid, unscheduled, injected,
                         injectedEmpty, adding, handles, fired>>
          /\ mode' \in {"idle", "loop", "handler"} /\ stop' \in BOOLEAN
      BY <1>0, <1>4 DEF Stop, EndRun, simVars, loopVars, keyVars, injectedVars, SimTypeOK
    <2>2. SimTypeOK' /\ FlagInv'
      BY <1>0, <2>1 DEF SimTypeOK, SimInv, FlagInv
    <2> QED BY <2>1, <2>2, QuietStep
  <1>5. CASE StartRun \/ FinishEvent
    <2>1. /\ ProcessEventsWithContext(events, unscheduled, currentTs)
          /\ UNCHANGED <<cancelled, currentTs, currentUid, handles, fired>>
          /\ mode' \in {"idle", "loop", "handler"} /\ stop' \in BOOLEAN
      BY <1>0, <1>5 DEF StartRun, FinishEvent, keyVars, SimTypeOK
    <2> QED BY <2>1, MergeStep
  <1>6. ASSUME NEW e \in events, InvokeEvent(e) \/ SkipCancelled(e) PROVE SimInv'
    BY <1>6, InvokeStep, SkipStep
  <1> QED BY <1>1, <1>2, <1>3, <1>4, <1>5, <1>6, <1>7 DEF SimNext

\* The inductive invariant of the event loop.
THEOREM SimInvariant == SimSpec => []SimInv
  BY SimInitial, SimStep, PTL DEF SimSpec

\* Members keep their types; the flag says that events wait only if they do.
THEOREM SimTypeCorrect == SimSpec => []SimTypeOK
  <1>1. SimInv => SimTypeOK
    BY DEF SimInv
  <1> QED BY <1>1, SimInvariant, PTL

\* Reading the flag without the lock overlooks no event that ScheduleWithContext has added.
THEOREM InjectedAreMerged == SimSpec => NoInjectedOverlooked
  <1> DEFINE Taken == mode = "handler" /\ mode' = "loop" /\ ~ adding => injected' = <<>>
  <1>1. SimInv /\ [SimNext]_simVars => [Taken]_simVars
    <2> SUFFICES ASSUME SimInv, [SimNext]_simVars, mode = "handler", mode' = "loop", ~ adding
                 PROVE  injected' = <<>>
      OBVIOUS
    <2>1. ProcessEventsWithContext(events, unscheduled, currentTs)
      BY DEF SimNext, Schedule, ScheduleWithContext, EventAdded, Cancel, Remove, Stop, StartRun,
             FinishEvent, EndRun, InvokeEvent, SkipCancelled, simVars, loopVars
    <2> QED BY <2>1 DEF ProcessEventsWithContext, injectedVars, SimInv, FlagInv
  <1> QED BY <1>1, SimInvariant, PTL DEF SimSpec, NoInjectedOverlooked

\* m_unscheduledEvents is always the size of the map.
THEOREM CountIsExact == SimSpec => []EventsCounted
  <1>1. SimInv => EventsCounted
    BY DEF SimInv
  <1> QED BY <1>1, SimInvariant, PTL

\* IsExpired is right about every EventId.
THEOREM ExpiryIsExact == SimSpec => []ExpiredIsExact
  <1>1. SimInv => ExpiredIsExact
    BY LiveHandle DEF ExpiredIsExact
  <1> QED BY <1>1, SimInvariant, PTL

\* No event vanishes and none that was cancelled runs.
THEOREM EventsAreKept == SimSpec => []NoEventLost
  <1>1. SimInv => NoEventLost
    BY DEF SimInv
  <1> QED BY <1>1, SimInvariant, PTL

\* Timers of one length expire in the order in which they were started.
THEOREM EqualDelaysStayInOrder == SimSpec => []EqualDelaysInOrder
  <1>1. SimInv => EqualDelaysInOrder
    BY DEF SimInv
  <1> QED BY <1>1, SimInvariant, PTL

-----------------------------------------------------------------------------
(* Refinement of EventCalendar.                                            *)

\* A step that takes only cancelled events out of the map and adds events is one in which
\* time passes and entries are planned.
LEMMA StepPassesAndPlans ==
  ASSUME SimInv, SimInv', NEW R \in SUBSET events, NEW M,
         \A e \in R : e.uid \in cancelled,
         Added(M, currentTs', nextUid, nextUid'),
         events' = (events \ R) \union M,
         nextUid <= nextUid', currentTs <= currentTs',
         cancelled' = cancelled, fired' = fired
  PROVE  Calendar!PassAndPlan
  <1>1. ASSUME NEW e \in events' PROVE currentTs' <= e.ts
    <2>1. e.ts \in Nat /\ e.uid \in Nat /\ currentTs' \in Nat /\ currentUid' \in Nat
      BY EventFields DEF SimInv, SimTypeOK
    <2>2. AfterKey(e, currentTs', currentUid')
      BY DEF SimInv, KeyInv
    <2> QED BY <2>1, <2>2 DEF AfterKey
  <1>2. Pending \subseteq Pending' /\ \A e \in Pending' \ Pending : e \in M
    BY DEF Pending
  <1>3. \A e \in M : e.uid \in nextUid .. nextUid' - 1
    BY DEF Added
  <1>4. Pending' \subseteq events'
    BY DEF Pending
  <1> QED BY <1>1, <1>2, <1>3, <1>4 DEF Calendar!PassAndPlan

\* The call of a handler is the firing of the first entry.
LEMMA InvokeFires ==
  ASSUME SimInv, NEW e \in events, InvokeEvent(e)
  PROVE  Calendar!Fire
  <1>1. /\ IsNext(e) /\ e.uid \notin cancelled
        /\ events' = events \ {e} /\ currentTs' = e.ts /\ fired' = fired \union {e.uid}
        /\ cancelled' = cancelled /\ nextUid' = nextUid
    BY DEF InvokeEvent
  <1>2. e \in Pending /\ Pending' = Pending \ {e} /\ Pending \subseteq events
    BY <1>1 DEF Pending
  <1>3. e.uid \notin fired
    BY DEF SimInv, KeyInv
  <1>4. currentTs <= e.ts
    <2>1. e.ts \in Nat /\ currentTs \in Nat
      BY EventFields DEF SimInv, SimTypeOK
    <2>2. currentTs < e.ts \/ currentTs = e.ts
      BY <1>1, NextKey
    <2> QED BY <2>1, <2>2
  <1>5. \A f \in Pending \ {e} : Calendar!Before(e, f)
    BY <1>1, <1>2 DEF IsNext, KeyBefore, Calendar!Before
  <1> QED BY <1>1, <1>2, <1>3, <1>4, <1>5 DEF Calendar!Fire

\* Cancel and Remove withdraw the entry, or do nothing to an event that has expired.
LEMMA CancelWithdraws ==
  ASSUME SimInv, NEW id \in handles, Cancel(id) \/ Remove(id)
  PROVE  Calendar!Withdraw \/ UNCHANGED <<Pending, currentTs, nextUid, fired>>
  <1>1. UNCHANGED <<currentTs, nextUid, fired>>
    BY DEF Cancel, Remove, keyVars
  <1>2. CASE IsExpired(id)
    BY <1>1, <1>2 DEF Cancel, Remove, Pending
  <1>3. CASE ~ IsExpired(id)
    <2>1. id \in Pending
      BY <1>3, LiveHandle
    <2>2. \A e \in events : e.uid = id.uid => e = id
      BY DEF SimInv, KeyInv
    <2>3. /\ cancelled' = cancelled \union {id.uid}
          /\ events' = events \/ events' = events \ {id}
      BY <1>3 DEF Cancel, Remove
    <2>4. Pending' = Pending \ {id}
      BY <2>1, <2>2, <2>3 DEF Pending
    <2> QED BY <1>1, <2>1, <2>4 DEF Calendar!Withdraw
  <1> QED BY <1>2, <1>3

\* The loop with its map, its keys and its second list implements the calendar: handlers run
\* in the order of time and, within an instant, of scheduling, once each and never after
\* Cancel or Remove, however other threads inject events.
THEOREM CalendarRefinement == SimSpec => ImplementsCalendar
  <1>1. SimInit => Calendar!CalendarInit
    BY DEF SimInit, Calendar!CalendarInit, Pending, FirstUid
  <1>2. SimInv /\ SimInv' /\ [SimNext]_simVars
          => [Calendar!CalendarNext]_<<Pending, currentTs, nextUid, fired>>
    <2> SUFFICES ASSUME SimInv, SimInv', [SimNext]_simVars
                 PROVE  Calendar!CalendarNext \/ UNCHANGED <<Pending, currentTs, nextUid, fired>>
      OBVIOUS
    <2>0. SimTypeOK /\ FlagInv /\ nextUid \in Nat /\ currentTs \in Nat /\ unscheduled \in Int
      BY DEF SimInv, SimTypeOK
    <2>1. ASSUME NEW d \in Delays, Schedule(d) PROVE Calendar!PassAndPlan
      <3>1. PICK M : M = {[ts |-> currentTs + d, uid |-> nextUid, delay |-> d]}
        OBVIOUS
      <3>2. /\ UidLeft /\ events' = (events \ {}) \union M /\ nextUid' = nextUid + 1
            /\ UNCHANGED <<cancelled, currentTs, fired>>
        BY <2>1, <3>1 DEF Schedule, keyVars
      <3>3. Added(M, currentTs', nextUid, nextUid')
        BY <2>0, <3>1, <3>2, ScheduledIsAdded
      <3>4. nextUid <= nextUid' /\ currentTs <= currentTs' /\ {} \in SUBSET events
        BY <2>0, <3>2
      <3> QED BY <3>2, <3>3, <3>4, StepPassesAndPlans
    <2>2. CASE StartRun \/ FinishEvent
      <3>1. /\ ProcessEventsWithContext(events, unscheduled, currentTs)
            /\ UNCHANGED <<cancelled, currentTs, fired>>
        BY <2>2 DEF StartRun, FinishEvent, keyVars
      <3>2. PICK M : /\ Added(M, currentTs, nextUid, nextUid')
                     /\ events' = (events \ {}) \union M
        BY <2>0, <3>1, ProcessAdds
      <3>3. nextUid <= nextUid' /\ currentTs <= currentTs' /\ {} \in SUBSET events
        BY <2>0, <3>1, ProcessAdds
      <3>4. Added(M, currentTs', nextUid, nextUid')
        BY <3>1, <3>2
      <3> QED BY <3>1, <3>2, <3>3, <3>4, StepPassesAndPlans DEF Calendar!CalendarNext
    <2>3. ASSUME NEW e \in events, SkipCancelled(e) PROVE Calendar!PassAndPlan
      <3>1. /\ IsNext(e) /\ e.uid \in cancelled /\ currentTs' = e.ts
            /\ ProcessEventsWithContext(events \ {e}, unscheduled - 1, e.ts)
            /\ UNCHANGED <<cancelled, fired>>
        BY <2>3 DEF SkipCancelled
      <3>2. unscheduled - 1 \in Int /\ e.ts \in Nat
        <4>1. e \in Event
          BY <2>0 DEF SimTypeOK
        <4> QED BY <2>0, <4>1, EventFields
      <3>3. PICK M : Added(M, e.ts, nextUid, nextUid') /\ events' = (events \ {e}) \union M
        BY <2>0, <3>1, <3>2, ProcessAdds
      <3>4. nextUid <= nextUid' /\ Added(M, currentTs', nextUid, nextUid')
        BY <2>0, <3>1, <3>2, <3>3, ProcessAdds
      <3>5. currentTs < e.ts \/ currentTs = e.ts
        BY <3>1, NextKey
      <3>6. currentTs <= currentTs' /\ {e} \in SUBSET events
        BY <2>0, <3>1, <3>2, <3>5
      <3> QED BY <3>1, <3>3, <3>4, <3>6, StepPassesAndPlans
    <2>4. CASE \/ Stop \/ EndRun \/ EventAdded \/ UNCHANGED simVars
               \/ \E d \in Delays : ScheduleWithContext(d)
      BY <2>4 DEF Stop, EndRun, EventAdded, ScheduleWithContext, simVars, keyVars, Pending
    <2> QED BY <2>1, <2>2, <2>3, <2>4, InvokeFires, CancelWithdraws
            DEF SimNext, Calendar!CalendarNext
  <1>3. SimSpec => Calendar!CalendarInit
                     /\ [][Calendar!CalendarNext]_<<Pending, currentTs, nextUid, fired>>
    BY <1>1, <1>2, SimInvariant, PTL DEF SimSpec
  <1> QED BY <1>3, PTL DEF ImplementsCalendar, Calendar!CalendarSpec, Calendar!calendarVars
=============================================================================
