SPECIFICATION SchedFairSpec
CONSTANTS
    N = 2
    Every <- EveryMC
    Old = 2
    Loop = loop
    Caller = {handler}
    Watched = {handler}
INVARIANTS NeverAhead
PROPERTIES SpacedOut EveryJobRuns StopEnds
CHECK_DEADLOCK FALSE
