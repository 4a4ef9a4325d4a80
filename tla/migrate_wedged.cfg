SPECIFICATION FairSpec
CONSTANTS
    r1 = r1  r2 = r2
    Runner = {r1, r2}
    Person = {p1}
    MaxCrashes = 0
    Start <- TwoPodsAtOnce
PROPERTY EveryPodStarts
