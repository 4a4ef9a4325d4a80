SPECIFICATION FairSpec
CONSTANTS
    r1 = r1  r2 = r2
    Runner = {r1, r2}
    Person = {p1, p2}
    MaxCrashes = 2
    Start <- SafeStarts
INVARIANTS
    TypeOK
    SchemaIsVersion
    AddressesSurvive
    ServesModel
PROPERTY EveryPodStarts
