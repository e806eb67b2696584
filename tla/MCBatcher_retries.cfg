CONSTANTS
    BatchSize = 2
    MaxQueue = 2
    MaxRetries = 1
    MaxEvents = 4
SPECIFICATION LiveSpec
INVARIANTS EveryEventAccounted ArrivesInOrder
PROPERTY EventsLeave
CHECK_DEADLOCK FALSE
