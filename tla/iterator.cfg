SPECIFICATION FairSpec
CONSTANTS
    Value = {x, y}
    Events <- AllEvents
    Logs <- SomeLogs
    MaxLogs = 2
    Capacity = 1
INVARIANTS TypeOK ClosedReleases
PROPERTIES ImplementsDelivery CallsReturn
