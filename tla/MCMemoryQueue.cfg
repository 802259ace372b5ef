SPECIFICATION FairSpec
CONSTANTS
    a = a
    b = b
    c = c
    d = d
    e = e
    NoJob = NoJob
    Job <- JobsMC
    Child <- ChildMC
    Guarded = {e}
    Runner = {r1, r2}
    Closer = {c1, c2}
    Size = 1
INVARIANTS WgExact CloseDrains
PROPERTIES ImplementsLedger CloseEnds PushEnds
CHECK_DEADLOCK FALSE
