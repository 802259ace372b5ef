SPECIFICATION Spec
CONSTANTS
    p1 = p1
    p2 = p2
    N = 2
    Reversible = {1,2}
    Proc <- ProcMC
    MaxSteps = 2
    MaxBatch = 3
SYMMETRY Hosts
INVARIANTS InStep UpComplete
PROPERTIES NewestUndoneFirst
