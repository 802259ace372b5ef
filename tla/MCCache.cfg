SPECIFICATION Spec
CONSTANTS
    c1 = c1
    c2 = c2
    k1 = k1
    k2 = k2
    t1 = t1
    Client = {c1, c2}
    Key = {k1, k2}
    Tag = {t1}
    TagOf <- MCTagOf
    NoTag = NoTag
    None = None
    Drivers = {"memory", "redis"}
    MaxVersion = 2
SYMMETRY Symmetry
INVARIANTS TypeOK Fresh Kept
