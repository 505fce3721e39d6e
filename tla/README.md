# Verification of the UAV group-key management

The program under `src/scratch/uav-secure-fanet/` simulates, on ns-3, the key management of a
network of 18 UAVs in three clusters. A key distribution centre (KDC) sits above three sub key
distribution centres (SKDCs), one per cluster; an SKDC broadcasts a multicast token `MT_K` that
only the slave keys `d_i` of its cluster open, rekeys its cluster on joins, leaves and requests,
measures how long a rekey takes, and passes the UAVs' telemetry on to the KDC. A UAV that moves to
another cluster gets a new slave key in a four-packet handover protected by a global key.

This directory holds TLA+ modules that model that key management, the TLC configurations that
check them on small instances, and TLAPS proofs of their main safety properties for every number
of clusters, UAVs and versions. Of ns-3 itself (under `src/src/`, third-party) the event loop that
runs the program is modelled; its protocol stacks appear as an unreliable network.

## 1. Inventory

| Component | State | Operations and callbacks | Talks to |
|---|---|---|---|
| KDC, `apps/uav-kdc-app` | per cluster: TEK, version; telemetry log | `TriggerRekey`, `PeriodicSync` (30 s), `ReceiveTelemetryFromSkdc` (port 9300), `ReceiveHandoverNotify` (9050) | control packet to SKDC (9001), `SLAVE_FWD` to SKDC (9051) |
| SKDC, `apps/uav-skdc-app` | members, version, TEK, HMAC key, `m_pending_ho`, and per rekey its send time, acknowledgements and 5 s timeout | `BroadcastMtk`, `TriggerRekey`, `ProcessJoin`, `ProcessLeave`, `UpdateTek`, `ReceiveFromKdc`, `ReceiveSlaveKeyFwd`, `ReceiveKeyAck` (9053), `OnUavRekeyAck`, `ReceiveDataFromUav` (9100) | `MT_K` broadcast to UAVs, `JOIN_ACCEPT` to a UAV (9052), forwarded telemetry to the KDC, a CSV file |
| UAV, `apps/uav-uav-app` | cluster, slot, slave key, version, TEK with its validity flag, HMAC key, data sequence | `ProcessMtkPacket`, `ProcessRekeyPacket`, `ReceiveJoinAccept`, `SendTelemetry` (every 3 s) | direct call `OnUavRekeyAck` on the SKDC *of its first cluster*, `KEY_ACK`, data packets |
| Handover protocol, `crypto/uav-handover-protocol.h` | none | build and parse `NOTIFY`, `SLAVE_FWD`, `JOIN_ACCEPT`, `KEY_ACK` | used by the three applications |
| Managers, `apps/uav-*-manager`, `-event`, `-distribution` | group membership and versions, TEKs, rekey history; in `main.cc`, the cluster that serves each UAV | join, leave, rekey, handover; called from `main.cc` timers | `UpdateTek` of the SKDCs |
| Compromise detector, jammer managers | per-UAV flags, jamming periods | timers and callbacks | leave and rekey managers |
| Replay cache, `crypto/uav-replay` | per sender: last sequence, 64-bit window, nonce ring, time last seen | `CheckAndRecord`, `CheckOnly`, `Evict`, `ResetSender`, `Reset` | owned by the join manager |
| CRT key manager, `crypto/uav-crt-manager`, on `crypto/uav-bigint` | master and slave keys; per cluster the token, its users and version | `MKeyGen`, `MTokenGen`, `JoKeyUpdate`, `LeKeyUpdate`, `ProcessJoin`, `ProcessLeave`, `SlaveDecrypt` | multicast manager, parameter generation |
| ns-3 event loop, `src/src/core/model/default-simulator-impl`, `map-scheduler` | clock, map of events, current key, list of events from other threads | `Schedule`, `ScheduleWithContext`, `Cancel`, `Remove`, `IsExpired`, `Stop`, `Run` | every application |
| Headers and packet manager, `headers/` | byte layouts | build, serialise, parse | applications |
| Mobility, routing, metrics, visualization, utilities, scenario | ns-3 configuration, counters, files | | |

What is hard here. ns-3 runs one event at a time, so a handler is atomic; the interleaving is
between events: broadcasts and unicast packets of six ports, timers of 3, 5 and 30 s, and direct
calls between applications. Broadcasts are lost by some receivers and reach others, unicast packets
are lost and are never repeated, packets of two handovers overtake one another, an acknowledgement
races the timeout of its rekey, and three parties keep copies of the same TEK and version that are
updated independently. `PROJECT.json` lists the hazards with their lines.

What makes each component correct:

* SKDC: each rekey is measured and reported exactly once; nothing of a closed rekey remains;
  no rekey stays open.
* UAV: the TEK is used only together with a slave key of the current cluster; the version never
  outruns the key material.
* Handover: SKDC and UAV agree on membership except where a packet is in flight or lost; without
  loss a handover completes.
* Rekey: all members reach the new version although broadcasts are lost; an `OK` row of the
  latency file means that the members have received it.
* Managers: each SKDC has the TEK of the TekManager; a leave, a revocation and a handover renew it;
  a handover moves one member.
* Telemetry: what a UAV sends, its SKDC forwards and the KDC logs.
* Replay cache: no packet is accepted twice, whatever was evicted meanwhile; a packet that was only
  overtaken is accepted; the last nonces are refused.
* CRT keys: a slave opens the token exactly when it is a member; a token updated join by join and
  leave by leave is the one that would be made from scratch.
* Event loop: each event runs once, in the order of time and of scheduling, unless it was
  cancelled, and eventually; `IsExpired` is right about every event.

## 2. Modules

| Module | Models |
|---|---|
| `FanetBase` | clusters, UAV numbers, slots, names of TEKs and slave keys |
| `SkdcApp` | the SKDC application, as an open component: any operation, any argument, any order |
| `RekeyLedger` | what the SKDC's latency bookkeeping promises, abstractly |
| `UavApp` | the UAV application, as an open component: checked within `Fanet`, proved about by itself |
| `KdcApp` | the KDC's state and the effect of its handlers |
| `Fanet` | the three composed over a lossy, reordering network: rekeys and handovers |
| `FanetData` | `Fanet` with the telemetry path UAV → SKDC → KDC |
| `FanetReceipts` | `Fanet` with the history of which UAV has received which version |
| `GroupManagers` | the managers that `main.cc` drives, composed with the SKDCs; the exponent and modulus of each group's token |
| `ReplayCache` | the replay cache, as an open component: any token at any time |
| `CrtKeys` | the algorithms of the multicast scheme and the arithmetic below them, as recursive functions |
| `CrtManager` | the state of one cluster in the CRT key manager under joins and leaves |
| `TokenWeights` | what a token amounts to, abstractly: how often its exponent counts each slave |
| `Simulator` | the event loop of ns-3 with its map of events, calls from handlers and from other threads |
| `EventCalendar` | what a scheduler promises, abstractly |
| `SkdcAppProofs`, `FanetProofs`, `FanetDataProofs`, `GroupManagersProofs`, `ReplayCacheProofs`, `SimulatorProofs`, `CrtKeysProofs`, `CrtManagerProofs` | theorems and proofs |
| `MC...` | the roots of the TLC runs |

Correspondence. A variable is named in a comment with the C++ member it stands for; an action has
the name of the handler it models and stands for the whole handler, the broadcast or the packet it
ends with included (`TriggerRekey` increments the version, replaces the TEK, opens the version with
its timer and broadcasts). `Fanet` joins the sender's and the receiver's half: `DeliverSlaveFwd`,
for instance, is `ReceiveSlaveKeyFwd` and the `JOIN_ACCEPT` it sends. Operators commented as
*fault variants* are deliberately wrong versions of the operator that follows them; no
specification uses them, they serve to show that the properties are sensitive to such a mistake.

The managers and the handover protocol are two separate worlds in the program: `main.cc` calls only
the managers, which reach an SKDC through `UpdateTek` alone, while the SKDC's own `TriggerRekey`,
`ProcessJoin` and `ProcessLeave` and the four-packet handover change the SKDC's member list. So
`GroupManagers` composes the managers with the SKDC events of `main.cc`, and `Fanet` lets the SKDC's
own operations run. An operation of a manager is one action with everything it calls: a handover is
the leave, the two TEK rotations, the join and the `UpdateTek` of both SKDCs. `AutoHandoverCheck`
is one action per UAV; other events may come in between, which the code does not allow, so the model
has more behaviours than the code.

`ReplayCache` stands alone: the join manager owns a cache and no operation consults it, so that
nothing narrows down how it is used (that cache has a skew of 1 ms and a window of 30). `GroupManagers` calls the CRT key manager's `JoKeyUpdate` and
`LeKeyUpdate` through a symbolic account of a token: the exponent counts each slot some number of
times, and the modulus covers a set of slots. `CrtManager` supports that reading with real
arithmetic: a user recovers the TEK exactly when its count is one. Both implement `TokenWeights`,
the arithmetic of `CrtManager` and the token that the managers keep for the first cluster. (`user_indices` is a set there,
since the code only ever asks it for membership, and a leave erases every entry of the slave.)
`Simulator` supports what the other modules take for granted of timers: handlers are atomic, timeouts of one
length expire in the order in which they were started (`EqualDelaysInOrder`), and what is
scheduled comes to run. `Simulator` keeps the split between the loop and the handler, since other
threads may inject events in between. Another thread appends its event and clears the flag in two
steps under the lock, since the loop reads the flag without it; the loop's own use of the list,
under the lock, is one step.

`main.cc` sets all this up and ends with `Simulator::Stop(Seconds(duration))` (line 566): it never
calls `Simulator::Run`, so by itself it runs no event. With `--scenario=rekey_perf` it hands over to
`RekeyPerfScenario::RunAll`, which makes the same applications and managers and does run the
simulator (`scenario/rekey_perf_scenario.cc:1245`). The models take the wiring, the start states and
the scheduled events from `main.cc` and let them run.

Abstractions. A TEK is named by its origin, cluster and number, an HMAC key by the TEK it was
derived from, a slave key by its cluster and slot: keys are equal exactly when their names are,
and encryption and authentication succeed exactly under the right key. `MT_K` of a cluster does
not change after `InitializeState`, so a broadcast is its cluster and version. Time is the order
of events; the timeouts of one SKDC run in the order in which they were scheduled, since all take
5 s. The parameters file is assumed to be loaded and the latency CSV to be writable.

`air` holds the `MT_K` broadcasts a receiver may still hear: each UAV hears each at most usefully
once (the version test), in any order; `Fade` ends a broadcast for those who have not heard it.
`net` holds unicast packets, delivered in any order, and lost where `Lossy` is true; `lost`, and
`heard` in `FanetReceipts`, are history variables, and so are `accepted`, `entrySeqs` and `recent`
in `ReplayCache` and `fired` in `Simulator`.

## 3. Runs

| Run | Instance | Shows |
|---|---|---|
| `skdc` | 1 cluster, 2 UAVs, versions to 3 | the ledger: one row per rekey, timers for open rekeys, no stray acknowledgements, refinement of `RekeyLedger`; only a leave makes a fully acknowledged rekey wait for its timeout; every rekey eventually reported |
| `fanet` | 2 clusters, 1 UAV each, 2 handovers, lossy | membership bookkeeping, no wasted `MT_K`; a handover completes unless a packet of it is lost |
| `fanet_receipts` | 1 cluster, 2 UAVs, 2 rekeys | an `OK` row means receipt; every member catches up |
| `managers` | 2 clusters, 2 UAVs each, versions to 4 | each SKDC has the TekManager's TEK; a leave renews it; the token of the first cluster opens for exactly its members; refinement of `TokenWeights` by it |
| `replay` | 1 sender, window, bitmap and ring of 2, skew 1, eviction age 2, sequence numbers modulo 5, clock to 4 | no replay accepted, no overtaken packet refused, the last nonces refused |
| `simulator` | delays 0, 1; 4 events | events are counted, kept, in order and eventually run; `IsExpired` is exact; no event of another thread is overlooked; refinement of `EventCalendar` |
| `crt` | 3 slaves, primes 7·11, 23·47, 59·83, exponents 13, 17, TEKs 2, 3, up to 4 joins and leaves | a user recovers the TEK exactly when it is counted once; updates agree with `MTokenGen`; refinement of `TokenWeights` |

Bounds. `MaxVersion`, `MaxRekeys`, `MaxHandovers`, `MaxDataSeq`, `MaxNow` and `MaxUid` bound the
counters the code leaves unbounded. Three versions give two overlapping rekeys, which is what an
acknowledgement or a timeout needs to be late for. Two clusters suffice for a move and the way
back, and two handovers for a second one that overtakes the first, of the same or of another UAV.
In `fanet` the only rekeys are those of the joins that end a handover (`HandoverNext`); calls of
`TriggerRekey` from outside are in `fanet_receipts`, and the proofs have both.
The assumption `MaxVersion > MaxRekeys + MaxHandovers` ensures that in `Fanet` the bound on
versions never disables a join. Deadlock is not checked there: with the counters at their bounds
the system may stop.

In `replay` a clock to 4 with an eviction age of 2 leaves room for a sender to be evicted and to come
back with a packet that is as old as the skew allows; a window of 2 within sequence numbers modulo
5 lets the number jump past the window and reach the end of its range, where the sum in
`REPLAY_OLD_SEQ` wraps around; a ring of 2 gets full. Deadlock is checked in `replay` and in
`simulator`. In `simulator` four events are enough for two of one instant, one cancelled and one
injected by another thread; the bound also excludes handlers that schedule zero-delay events for
ever, which would keep the clock from advancing. In `crt` the order of the TEKs modulo every
`n_i` is at least `x_i * y_i` (`OrderAssumption`), as that of a random TEK is but for a negligible
chance; four operations are enough to join or leave twice and to return.

Fairness. A scheduled event runs, so timeouts and the KDC's 30 s sync are weakly fair
(`TimersFire`, `RekeyFairness`), and so are the deliveries on the wired link between KDC and SKDC.
A handover packet is delivered unless the network loses it (`HandoverFairness`;
`HandoverCompletes` allows for the loss). A UAV in range may
miss any broadcast of its cluster's current `MT_K`, but not every one of infinitely many: strong
fairness of `DeliverMtk`. Nothing forces a rekey, a handover or telemetry to happen. In `simulator` the loop goes on to the
next event, handlers return and other threads give back the lock; nobody has to schedule or start anything, and `Stop` may always
come.

### Disagreements between the code and what is said of it

Each of these runs ends in a violation; the finding in `PROJECT.json` quotes the text. Where the
code goes wrong always and not just in the trace, a theorem says so.

* `fanet_tek`: a UAV that has decrypted the new `MT_K` still has the TEK it started with. It keeps
  that TEK for ever (`HomeKeysForever`, `FanetHomeKeysForever`).
* `fanet_tek_refreshed`: a UAV that moves to a cluster with a lower version never gets a valid TEK.
* `managers_handover`: a handover from any cluster but the first joins the new group and leaves the
  old one as it was: the groups start with UAV numbers and the leave looks for a slot. The UAV's
  tracked cluster stays, so the next check joins again.
* `managers_tokens`: `MulticastManager::Initialize` fills the groups of clusters 1 and 2 with UAV
  numbers, while joins, leaves and slave keys go by slot. So the first join of such a group passes
  the test for members though the token counts its slot already, and the token opens for none of its
  members. From the first change of such a group on, its token opens for nobody
  (`OtherTokensOpenForNobody`).
* `fanet_data` (2 clusters of one UAV, 1 handover, 1 rekey by an SKDC or the KDC): telemetry that
  passes the HMAC check of its SKDC is dropped there, since the SKDC reads the associated data at
  the wrong offset and its decryption fails. The property would be violated further on as well:
  what fails the HMAC check, as that of a UAV that has moved does, is forwarded empty, and the KDC,
  which is not told of an SKDC's rekeys, drops what is forwarded after one. So no telemetry reaches
  the KDC's log: its rows are blank (`OnlyBlanksLogged`), and there are none for what an SKDC
  forwards after its first rekey (`RekeyedForwardsDropped`).

Two more observations that the models make plain, without a run of their own:

* With handovers an `OK` row no longer means receipt (`OkRowMeansReceived` is checked for a cluster
  without): a UAV acknowledges to the SKDC of its first cluster (`apps/uav-uav-app.cc:522`). What
  remains is a count (`OkRowsCountReceipts`): as many UAVs that started in the cluster have
  received that version, each from whatever cluster it was in, as the cluster has members.
* `CrtManager::ProcessLeave` rotates the TEK but keeps `T`, so the token of the smaller group
  carries the value that the slave that left already knows.

## 4. Proofs

All theorems hold for every number of clusters, UAVs per cluster and versions (the named
assumptions of `FanetBase`, `UavApp` and `Fanet`: positive or natural numbers and, for `Fanet`,
the bound on versions above). Those about `CrtManager` hold for every number of slaves and rekeys
and for all primes, exponents and TEKs with these assumptions, which TLC evaluates on the instance
of `crt`:

| Assumption | Says | Because |
|---|---|---|
| `PairsAssumption` | primes are 3 modulo 4 and more than 3; `x_i * y_i` exceeds twice the bound on rekeys | they are safe primes; `x_i * y_i` has about 510 bits, the counter of rekeys 32 |
| `ExponentsAssumption` | exponents are 1 modulo 4 | `GenerateEi` returns `4 * R + 1` |
| `InversesExist` | `ModInverse` throws for no `M_i` | the primes of a key set are distinct |
| `EulerAssumption` | Euler's theorem for `4 * x_i * y_i` and for `n_i`, at the exponents and TEKs used | `x_i`, `y_i`, `p_i`, `q_i` are prime and have no factor in common with those |
| `OrderAssumption` | no TEK has an order below `x_i * y_i` modulo `n_i` | true of all but about one random TEK in `x_i`; a TEK of small order would let a slave recover it that is counted another number of times |

* `SkdcAppProofs`. `EveryRekeyReportedOnce` is not inductive: that a timeout does not write a
  second row needs that only versions up to `rekeyVersion` are open or have a timer, and that the
  timer of an open version is still there. `SkdcInv` adds `OnlyRekeysAreMeasured`,
  `OpenRekeyHasTimer` and `NoStrayAcks`, and `SkdcInvariant` proves it action by action.
  `SkdcTypeCorrect`, `RekeysReportedOnce`, `OpenRekeysHaveTimers` and `AcksAreOfOpenRekeys` follow,
  and `LedgerRefinement` shows that each step is a step of `RekeyLedger` or leaves it unchanged.
  `AckedRekeysCloseAtOnce` is an action property: a step that leaves a rekey open with all its
  acknowledgements is a leave, or the cluster is empty. It rests on the cardinality of finite
  sets of UAVs.
  The first section holds the facts about `FanetBase` that all proofs of the protocol use.
* `FanetProofs`, first section, about `UavApp`. The inductive invariant states that the keys are those of the first cluster and
  that a valid TEK comes with a slave key of the current cluster; the lemma on `Home` gives that
  the division of the UAV number returns its first cluster. The branch of `DecryptMtk` that adopts
  another cluster's key is shown to be unreachable: the caller has compared the clusters. That is the
  extent of what `fanet_tek` and `fanet_tek_refreshed` find (`HomeKeysForever`).
* `FanetProofs`, about `Fanet` and `FanetReceipts`. The invariant adds what packets in flight carry (`PacketOK`: a slave key of the
  very cluster and slot they name), that a UAV's slave key belongs to its cluster, and the
  two loss properties. `OrphansAreLosses`, `PendingsAreLosses`, `MtkNeverWasted` and
  `FanetTypeCorrect` follow. `FanetImplementsSkdc` shows that every step of the composed system is
  a step of the open SKDC component, so its theorems carry over (`FanetRekeysReportedOnce`);
  `FanetImplementsUav` does so for the UAV component (`FanetHomeKeysForever`).
  `KeysSharedAcrossHomes` bounds what the choice of slots can do: the slot in a new cluster is the
  UAV number modulo the cluster size, so two UAVs can come to hold one slave key, but only two that
  started in different clusters. Its invariant `SlotInv` says that every slave key held or under
  way to a UAV is of the slot of that UAV. It has no run: an instance in which it matters needs two
  clusters of two UAVs and two handovers, which is too large.
  `OkRowsMeanReceived` is an action property of `FanetReceipts` without handovers. It needs that an
  acknowledgement counted by an SKDC is of a UAV that has accepted that very version (`AckHeard`),
  that every UAV is in its first cluster (`AtHome`) and that the row is written by the delivery that
  completes the count, so that the UAVs counted, being as many as the members and members
  themselves, are all of them. With handovers the first half still holds: `AcksAreHeard` and
  `OkRowsCountReceipts`.
* `FanetDataProofs`. `DataInv` states that the associated data of telemetry in flight is never the
  header that the SKDC reads, that what is forwarded is empty and, once its SKDC has rekeyed, sealed
  with a TEK of the SKDC's own, which the KDC never has; `OnlyBlanksLogged` and
  `RekeyedForwardsDropped` follow. The assumption of at most 261 clusters is what keeps the header
  word that the SKDC misreads from being the right one by accident. The last section shows what
  telemetry leaves alone, without that assumption: `FanetInv` is an invariant of `FanetData` as
  well, since the added steps keep every handover packet and touch no SKDC and no key
  (`DataSteps`). So `DataKeepsHandovers`, `DataMtkNeverWasted` and `DataRekeysReportedOnce` hold in
  the whole system, which implements both open components (`DataImplementsSkdc`,
  `DataImplementsUav`).
* `GroupManagersProofs`. The inductive invariant is the agreement of the SKDC's keys with the
  TekManager's, with the types; it is proved for the parts of operations (`ChangeGroups`, `Rotate`,
  `Distribute`) and then for each operation. That a handover's slot exists needs that groups are
  finite (`IndexFinite`). `LeavesRenewTek` is an action property: whatever takes a member out of a
  group has rotated that cluster's TEK, and the SKDC has the last of the rotations.
  `FirstTokenFollowsGroup` and `OtherTokensOpenForNobody` follow from `TokenInv`, which relates
  exponent, modulus and members, and so does `FirstTokenRefinement`: each operation is a step of `TokenWeights` on the first cluster's
  token, or leaves it alone. The other clusters' tokens do not refine it, since their modulus is
  not made of the group they started with.
* `ReplayCacheProofs`. `ReplayInv` relates the window to what was accepted since the entry of the
  sender was made, the ring to the last nonces, and the packets accepted before an eviction to the
  clock (`AcceptedOnRecord`): their timestamps are out of date by then. That is where `AgeAssumption`, an eviction age
  of at least twice the skew (60 s and 5 s in the code), is needed; `NonceAssumption` and
  `SizeAssumption` say that the sizes are positive. `NoReplayAccepted`, `NoFreshRejected` and
  `NoRecentNonceAccepted` hold for every window, bitmap and ring size and every range of sequence
  numbers.
* `SimulatorProofs`. `SimInv` says that uids are unique and below `m_uid`, that what is in the map
  lies after the current key and what has run does not, that the counter is the size of the
  map, and that events wait with the flag set only while a thread is about to clear it (`FlagInv`),
  which gives `InjectedAreMerged`. `CountIsExact`, `ExpiryIsExact`, `EventsAreKept` and `EqualDelaysStayInOrder` follow, for
  every set of delays; `CalendarRefinement` shows that each step is a step of `EventCalendar`.

* `CrtKeysProofs`. What the algorithms compute, for every input: `ModMulIsProduct`,
  `ModPowIsPower`, `ModInverseCorrect`, and lemmas on `Normalise`, sums and products. The loops are
  recursive functions, which TLAPS knows only as a `CHOOSE`, and the induction theorems of its
  library take a predicate that the provers cannot instantiate. So the module first proves
  induction for *sets* of numbers from the existence of a least element, and from it that a
  recursion along a decreasing measure has a solution (`Recursion`); each loop then gets a lemma
  with its defining equation (`MultiplesDef`, `PowersDef`, `EuclidDef`, `SumsDef`, `ProductsDef`).
  `Bezout` is the invariant of the loop of the extended Euclidean algorithm.
* `CrtManagerProofs`. `CrtInvariant` says that the keys are MKeyGen's for some draw of exponents,
  that the token is the one of its exponent and users, and that the exponent is the normal form of
  the sum of the slaves' parts, each taken as often as its weight says, where no weight is further
  from one than there were rekeys. The last is needed to read the weights off the exponent: the
  part of slave `i` is `e_i` modulo `x_i * y_i` and 0 modulo the others, `e_i` is invertible, and
  weights closer than `x_i * y_i` are told apart. `CrtTypeCorrect`, `UpdatesMatchMTokenGen` (a
  token updated join by join and leave by leave is the one MTokenGen makes) and
  `CrtImplementsWeights` follow. `RecoveryIsExact` follows with the assumptions on the TEKs: what
  user `i` decrypts is `T` to a power that is its weight modulo `x_i * y_i` and odd, and the order
  of `T` is `x_i * y_i` or twice that.

Only model-checked: the liveness properties (`EveryRekeyEventuallyReported`, `MembersCatchUp`,
`HandoverCompletes`, `EventsEventuallyRun`), since fairness is beyond the proof system. Euler's
theorem and the order of the TEKs are assumptions of the proofs, not results.

## 5. Not modelled

`PROJECT.json` gives the reason for each part. In short: AES-GCM, HMAC and byte layouts
(taken as correct, but for the header words that `FanetData` needs), mobility (the free choice of
when a UAV moves), metrics, visualization and logging (no influence on the protocol), routing and
the radio (the lossy network), and `StopApplication` in the composed system, since `main.cc` stops
the applications at the instant it stops the simulator (the open components do model it).
The jammer is switched off in the code (`ComputeSinr` returns 20 dB, `ShouldDrop` returns false), so
its managers never act; what they would call is in `GroupManagers`.
`BuildNotify` has no caller in the repository, so who starts a handover of the GK protocol is a
free choice. `HandoverMember`, `RotateOnTimer`, `SetMaxSkewUs` and `SetWindowSize` have no caller.
Of ns-3 only the event loop is modelled; the rest of `src/src/` (WiFi, internet, LTE and the other
stacks) is third-party code below the sockets, by far the largest part of the repository's lines,
and enters as a network that loses, delays and reorders. The contexts of events, the events of
`Destroy` and `SetScheduler` are left out of `Simulator`.

## 6. Plan

1. *Done*: `SkdcApp`, `RekeyLedger`, `UavApp`, `KdcApp`, `Fanet`, `FanetReceipts`, `FanetData`,
   `GroupManagers`, `ReplayCache`, `CrtKeys`, `CrtManager`, `TokenWeights`, `Simulator`,
   `EventCalendar` and the proofs.
2. *Done*: every safety property that a passing run checks has a theorem.
3. `KdcApp`: the stop of the KDC, should `main.cc` come to stop it before the simulation ends.
