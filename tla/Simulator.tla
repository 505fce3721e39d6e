------------------------------ MODULE Simulator ------------------------------
(***************************************************************************)
(* The event loop of ns-3 (DefaultSimulatorImpl with the MapScheduler),    *)
(* under which all applications run: what the other modules assume of      *)
(* timers is checked here.                                                 *)
(*                                                                         *)
(* The main thread is before Run or after it ("idle"), in the loop of Run  *)
(* between two events ("loop") or in the handler of an event ("handler").  *)
(* Outside the loop it may schedule, cancel and remove events and call     *)
(* Stop, as often as it likes.  Other threads may call ScheduleWithContext *)
(* at any time.  The context of an event, which is only passed along, and  *)
(* the events of Destroy are left out.                                     *)
(***************************************************************************)
EXTENDS Integers, Sequences, FiniteSets

CONSTANTS
    Delays,  \* delays that events are scheduled with
    MaxUid   \* bound on m_uid, which has 32 bits

FirstUid == 4  \* EventId::UID::VALID; 0 is INVALID

ASSUME DelaysAssumption == Delays \subseteq Nat
ASSUME MaxUidAssumption == MaxUid \in Nat /\ MaxUid >= FirstUid

VARIABLES
    mode,          \* where the main thread is
    stop,          \* m_stop
    events,        \* m_events: the scheduled events
    cancelled,     \* uids of the events whose m_cancel is set
    currentTs,     \* m_currentTs
    currentUid,    \* m_currentUid
    nextUid,       \* m_uid
    unscheduled,   \* m_unscheduledEvents
    injected,      \* m_eventsWithContext: delays of the events of other threads
    injectedEmpty, \* m_eventsWithContextEmpty
    adding,        \* another thread has m_eventsWithContextMutex, between its two writes
    handles,       \* the EventIds that Schedule has returned
    fired          \* history: uids of the events whose handler was invoked

loopVars     == <<mode, stop>>
keyVars      == <<currentTs, currentUid>>
injectedVars == <<injected, injectedEmpty, adding>>
simVars      == <<loopVars, events, cancelled, keyVars, nextUid, unscheduled, injectedVars,
                  handles, fired>>

Uid   == FirstUid .. MaxUid - 1
Event == [ts : Nat, uid : Uid, delay : Delays]

\* Order of the keys of the map.
KeyBefore(a, b) == a.ts < b.ts \/ (a.ts = b.ts /\ a.uid < b.uid)

Pending == {e \in events : e.uid \notin cancelled}

SimInit ==
    /\ mode = "idle" /\ stop = FALSE
    /\ events = {} /\ cancelled = {}
    /\ currentTs = 0 /\ currentUid = 0
    /\ nextUid = FirstUid
    /\ unscheduled = 0
    /\ injected = <<>> /\ injectedEmpty = TRUE /\ adding = FALSE
    /\ handles = {} /\ fired = {}

-----------------------------------------------------------------------------
(* Calls of the program, before Run, after it or from a handler.           *)

Calls == mode \in {"idle", "handler"}

\* m_uid stays below its bound, those that wait to be merged included.
UidLeft == nextUid + Len(injected) < MaxUid

\* Schedule, ScheduleNow and, on the main thread, ScheduleWithContext.
Schedule(d) ==
    LET e == [ts |-> currentTs + d, uid |-> nextUid, delay |-> d] IN
    /\ Calls /\ UidLeft
    /\ nextUid'     = nextUid + 1
    /\ unscheduled' = unscheduled + 1
    /\ events'      = events \union {e}
    /\ handles'     = handles \union {e}
    /\ UNCHANGED <<loopVars, cancelled, keyVars, injectedVars, fired>>

\* Fault variant: an event of the present instant passes for one that has run.
IsExpiredByTime(id) == id.ts <= currentTs \/ id.uid \in cancelled

\* Fault variant: the order of events of one instant is ignored.
IsExpiredAfterInstant(id) == id.ts < currentTs \/ id.uid \in cancelled

IsExpired(id) ==
    \/ id.ts < currentTs
    \/ id.ts = currentTs /\ id.uid <= currentUid
    \/ id.uid \in cancelled

Cancel(id) ==
    /\ Calls
    /\ cancelled' = IF IsExpired(id) THEN cancelled ELSE cancelled \union {id.uid}
    /\ UNCHANGED <<loopVars, events, keyVars, nextUid, unscheduled, injectedVars, handles, fired>>

\* Fault variant: an event that was removed may be removed again.
RemoveUnmarked(id) ==
    /\ Calls
    /\ ~ IsExpired(id)
    /\ events'      = events \ {id}
    /\ unscheduled' = unscheduled - 1
    /\ UNCHANGED <<loopVars, cancelled, keyVars, nextUid, injectedVars, handles, fired>>

Remove(id) ==
    /\ Calls
    /\ ~ IsExpired(id)
    /\ events'      = events \ {id}
    /\ cancelled'   = cancelled \union {id.uid}
    /\ unscheduled' = unscheduled - 1
    /\ UNCHANGED <<loopVars, keyVars, nextUid, injectedVars, handles, fired>>

Stop ==
    /\ Calls
    /\ stop' = TRUE
    /\ UNCHANGED <<mode, events, cancelled, keyVars, nextUid, unscheduled, injectedVars,
                   handles, fired>>

\* ScheduleWithContext on another thread takes the lock and appends the event.
ScheduleWithContext(d) ==
    /\ ~ adding /\ UidLeft
    /\ injected' = Append(injected, d)
    /\ adding'   = TRUE
    /\ UNCHANGED <<loopVars, events, cancelled, keyVars, nextUid, unscheduled, injectedEmpty,
                   handles, fired>>

\* Fault variant: the flag is not cleared.
EventAddedUnflagged ==
    /\ adding
    /\ adding' = FALSE
    /\ UNCHANGED <<loopVars, events, cancelled, keyVars, nextUid, unscheduled, injected,
                   injectedEmpty, handles, fired>>

\* It clears the flag, which the main thread reads without the lock, and gives back the lock.
EventAdded ==
    /\ adding
    /\ injectedEmpty' = FALSE
    /\ adding'        = FALSE
    /\ UNCHANGED <<loopVars, events, cancelled, keyVars, nextUid, unscheduled, injected,
                   handles, fired>>

-----------------------------------------------------------------------------
(* Run.                                                                    *)

\* The events that ProcessEventsWithContext makes of the injected delays at time ts.
Merged(ts) ==
    {[ts |-> ts + injected[i], uid |-> nextUid + i - 1, delay |-> injected[i]]
        : i \in DOMAIN injected}

\* Fault variant: the events count from the beginning of the simulation.
ProcessEventsWithContextAbsolute(evs, count, ts) ==
    IF injectedEmpty
    THEN /\ events' = evs /\ unscheduled' = count
         /\ UNCHANGED <<nextUid, injectedVars>>
    ELSE /\ ~ adding
         /\ events'      = evs \union Merged(0)
         /\ unscheduled' = count + Len(injected)
         /\ nextUid'     = nextUid + Len(injected)
         /\ injected' = <<>> /\ injectedEmpty' = TRUE /\ UNCHANGED adding

\* Fault variant: the flag is not set again after the swap.
ProcessEventsWithContextFlagged(evs, count, ts) ==
    IF injectedEmpty
    THEN /\ events' = evs /\ unscheduled' = count
         /\ UNCHANGED <<nextUid, injectedVars>>
    ELSE /\ ~ adding
         /\ events'      = evs \union Merged(ts)
         /\ unscheduled' = count + Len(injected)
         /\ nextUid'     = nextUid + Len(injected)
         /\ injected' = <<>> /\ UNCHANGED <<injectedEmpty, adding>>

\* ProcessEventsWithContext, with events evs in the map, count of them and the time ts: the
\* flag is read without the lock, the list taken with it.  An event added between the two
\* is taken too, as if it had been added before the read.
ProcessEventsWithContext(evs, count, ts) ==
    IF injectedEmpty
    THEN /\ events' = evs /\ unscheduled' = count
         /\ UNCHANGED <<nextUid, injectedVars>>
    ELSE /\ ~ adding
         /\ events'      = evs \union Merged(ts)
         /\ unscheduled' = count + Len(injected)
         /\ nextUid'     = nextUid + Len(injected)
         /\ injected' = <<>> /\ injectedEmpty' = TRUE /\ UNCHANGED adding

StartRun ==
    /\ mode = "idle"
    /\ mode' = "loop" /\ stop' = FALSE
    /\ ProcessEventsWithContext(events, unscheduled, currentTs)
    /\ UNCHANGED <<cancelled, keyVars, handles, fired>>

\* Fault variant: the map is ordered by time alone.
IsNextByTime(e) == e \in events /\ \A f \in events \ {e} : e.ts <= f.ts

\* MapScheduler::RemoveNext gives the least key.
IsNext(e) == e \in events /\ \A f \in events \ {e} : KeyBefore(e, f)

\* ProcessOneEvent up to the call of the handler.
InvokeEvent(e) ==
    /\ mode = "loop" /\ ~ stop /\ IsNext(e)
    /\ e.uid \notin cancelled
    /\ mode'        = "handler"
    /\ events'      = events \ {e}
    /\ unscheduled' = unscheduled - 1
    /\ currentTs'   = e.ts
    /\ currentUid'  = e.uid
    /\ fired'       = fired \union {e.uid}
    /\ UNCHANGED <<stop, cancelled, nextUid, injectedVars, handles>>

\* The rest of ProcessOneEvent, once the handler has returned.
FinishEvent ==
    /\ mode = "handler"
    /\ mode' = "loop"
    /\ ProcessEventsWithContext(events, unscheduled, currentTs)
    /\ UNCHANGED <<stop, cancelled, keyVars, handles, fired>>

\* ProcessOneEvent with a cancelled event, whose handler is not called.
SkipCancelled(e) ==
    /\ mode = "loop" /\ ~ stop /\ IsNext(e)
    /\ e.uid \in cancelled
    /\ currentTs'  = e.ts
    /\ currentUid' = e.uid
    /\ ProcessEventsWithContext(events \ {e}, unscheduled - 1, e.ts)
    /\ UNCHANGED <<loopVars, cancelled, handles, fired>>

\* Fault variant: the loop leaves the last event in the map.
EndRunOneLeft ==
    /\ mode = "loop" /\ (stop \/ Cardinality(events) <= 1)
    /\ mode' = "idle"
    /\ UNCHANGED <<stop, events, cancelled, keyVars, nextUid, unscheduled, injectedVars,
                   handles, fired>>

EndRun ==
    /\ mode = "loop" /\ (stop \/ events = {})
    /\ mode' = "idle"
    /\ UNCHANGED <<stop, events, cancelled, keyVars, nextUid, unscheduled, injectedVars,
                   handles, fired>>

SimNext ==
    \/ \E d \in Delays : Schedule(d) \/ ScheduleWithContext(d)
    \/ \E id \in handles : Cancel(id) \/ Remove(id)
    \/ EventAdded
    \/ Stop \/ StartRun \/ FinishEvent \/ EndRun
    \/ \E e \in events : InvokeEvent(e) \/ SkipCancelled(e)

SimSpec == SimInit /\ [][SimNext]_simVars

\* The loop goes on, handlers return and other threads give back the lock; nobody has to
\* schedule, cancel or start anything.
SimFairSpec ==
    /\ SimSpec
    /\ WF_simVars(\E e \in events : InvokeEvent(e) \/ SkipCancelled(e))
    /\ WF_simVars(FinishEvent)
    /\ WF_simVars(EventAdded)

-----------------------------------------------------------------------------
(* Properties.                                                             *)

\* Types of the members of DefaultSimulatorImpl.
SimTypeOK ==
    /\ mode \in {"idle", "loop", "handler"} /\ stop \in BOOLEAN
    /\ events \in SUBSET Event /\ handles \in SUBSET Event
    /\ cancelled \in SUBSET Uid /\ fired \in SUBSET Uid
    /\ currentTs \in Nat /\ currentUid \in Nat
    /\ nextUid \in Nat /\ nextUid >= FirstUid /\ nextUid + Len(injected) <= MaxUid
    /\ unscheduled \in Int
    /\ injected \in Seq(Delays) /\ injectedEmpty \in BOOLEAN /\ adding \in BOOLEAN
    /\ (adding \/ ~ injectedEmpty) => injected # <<>>

\* The unlocked read of the flag overlooks no event: when a handler ends, every event whose
\* ScheduleWithContext has returned goes into the map, whatever the other threads have been
\* doing since the last merge.
NoInjectedOverlooked ==
    [][mode = "handler" /\ mode' = "loop" /\ ~ adding => injected' = <<>>]_simVars

\* m_unscheduledEvents is the number of events in the map, whatever was removed, cancelled
\* or merged meanwhile: the consistency test at the end of Run cannot fail.
EventsCounted == unscheduled = Cardinality(events)

\* IsExpired, which compares keys and never looks into the map, tells of every EventId
\* whether its event is still going to run.
ExpiredIsExact == \A id \in handles : ~ IsExpired(id) <=> id \in Pending

\* Every uid that was given out belongs to an event that is in the map, has run or was
\* cancelled, and none of the last two both: cancelled events do not run, others do not vanish.
NoEventLost ==
    /\ \A u \in FirstUid .. nextUid - 1 :
            u \in fired \/ u \in cancelled \/ \E e \in events : e.uid = u
    /\ fired \intersect cancelled = {}

\* Events that were scheduled with one delay run in the order in which they were scheduled,
\* as the SKDC's 5 s timeouts do.
EqualDelaysInOrder ==
    \A e, f \in events : e.delay = f.delay /\ e.uid < f.uid => KeyBefore(e, f)

\* The loop implements the calendar: no event runs before an earlier one or one of the same
\* time that was scheduled before it, none twice, none after it was cancelled or removed.
Calendar == INSTANCE EventCalendar
                WITH pending <- Pending, clock <- currentTs, next <- nextUid

ImplementsCalendar == Calendar!CalendarSpec

\* An event in the map of a running loop comes to run, unless it is cancelled or the
\* simulation is stopped.
EventsEventuallyRun ==
    \A u \in Uid :
        (mode # "idle" /\ \E e \in events : e.uid = u) ~> (u \in fired \/ u \in cancelled \/ stop)
=============================================================================
