---------------------------- MODULE EventCalendar ----------------------------
(***************************************************************************)
(* What the event loop promises its users: a calendar of entries, each     *)
(* planned for a time that is not past.  An entry fires at its time, the   *)
(* earliest first and, among those of one time, the one planned first; it  *)
(* fires once; an entry that is withdrawn does not fire.                   *)
(***************************************************************************)
EXTENDS Integers

VARIABLES
    pending,  \* entries with their time ts and number uid
    clock,    \* the present
    next,     \* the number of the next entry
    fired     \* numbers of the entries that have fired

calendarVars == <<pending, clock, next, fired>>

Before(a, b) == a.ts < b.ts \/ (a.ts = b.ts /\ a.uid < b.uid)

\* Time may pass, but over no entry; entries are added with the next numbers.
PassAndPlan ==
    /\ clock <= clock' /\ \A e \in pending : clock' <= e.ts
    /\ pending \subseteq pending'
    /\ next <= next'
    /\ \A e \in pending' \ pending : clock' <= e.ts /\ e.uid \in next .. next' - 1
    /\ fired' = fired

Withdraw ==
    /\ \E e \in pending : pending' = pending \ {e}
    /\ UNCHANGED <<clock, next, fired>>

Fire ==
    /\ \E e \in pending :
        /\ e.uid \notin fired
        /\ clock <= e.ts
        /\ \A f \in pending \ {e} : Before(e, f)
        /\ pending' = pending \ {e}
        /\ clock'   = e.ts
        /\ fired'   = fired \union {e.uid}
    /\ UNCHANGED next

CalendarInit == pending = {} /\ clock = 0 /\ next \in Nat /\ fired = {}
CalendarNext == PassAndPlan \/ Withdraw \/ Fire
CalendarSpec == CalendarInit /\ [][CalendarNext]_calendarVars
=============================================================================
