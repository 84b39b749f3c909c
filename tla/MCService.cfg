\* One task completed and the chain it sets off, one push at a time, two faults of
\* NotifyEvent, two graceful shutdowns and two failures elsewhere, in every environment.
CONSTANTS
    EventId <- Chain
    Anonymous = {}
    Handler = {h1}
    NoEvent = noEvent
    MaxFaults = 2
    External <- FromWork
    Functions <- Shipped
    NoFunction = noFunction
    Config <- Environments
    MaxStops = 2
    MaxMishaps = 2
SPECIFICATION ServiceFairSpec
\* A service nobody starts again, or with no event left, stops.
CHECK_DEADLOCK FALSE
INVARIANTS
    ServiceTypeOK
    RecordsAreDispatched
PROPERTIES
    DeliverySpec
    EventuallyServed
