SPECIFICATION FairSpec
CONSTANTS
    Value = {x, y}
    Events <- AllEvents
    Logs <- SomeLogs
    MaxLogs = 2
    Capacity = 1
    SinkSize = 1
INVARIANTS TypeOK StoppedReleases ErrorIsTold
PROPERTIES ImplementsDelivery UnsubscribeEnds EventsArrive
