SPECIFICATION SimFairSpec
CONSTANTS
    Delays = {0, 1}
    MaxUid = 8
INVARIANTS
    SimTypeOK
    EventsCounted
    ExpiredIsExact
    NoEventLost
    EqualDelaysInOrder
PROPERTIES
    NoInjectedOverlooked
    ImplementsCalendar
    EventsEventuallyRun
