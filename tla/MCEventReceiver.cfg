\* Two pushes at once, an event with and one without an ID, and three faults of
\* any kind.
CONSTANTS
    EventId = {e1}
    Anonymous = {a1}
    Handler = {h1, h2}
    NoEvent = noEvent
    MaxFaults = 3
SPECIFICATION FairSpec
\* Once Cross has an answer for every event nothing happens.
CHECK_DEADLOCK FALSE
INVARIANTS
    TypeOK
    AckedIsRecorded
    RecordsAreDispatched
    DuplicatesAreBounded
PROPERTIES
    EventuallyDispatched
