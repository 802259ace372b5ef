SPECIFICATION Spec
CONSTANTS
    c1 = c1
    c2 = c2
    a = a
    b = b
    None = None
    k1 = k1
    k2 = k2
    Client = {c1, c2}
    Conn = {k1, k2}
    Name = {a, b}
    Id <- MCId
    Chains <- MCChains
    Menus <- MCMenus
    Walks <- MCWalks
    SoftDelete = TRUE
    Bodies <- MCBodies
INVARIANTS WalkCovers
PROPERTIES TrashOutOfReach NoLateDuplicate CallsEnd
CHECK_DEADLOCK FALSE
