SPECIFICATION FairSpec
CONSTANTS
    OneShots = {o1}
    UserDeleted = {o1}
    Expiring = {}
    Sources = {s1}
    Issues = {}
    SendQueue = 2
    MaxBorn = 1
    MaxOps = 3
    MaxFaults = 1
INVARIANTS TypeOK KnownIsShown DeletedStaysDeleted
PROPERTIES OneShotKept NoDuplicateMade DismissalKept ClientsCatchUp
CHECK_DEADLOCK FALSE
