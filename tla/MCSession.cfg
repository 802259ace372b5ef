SPECIFICATION SessionSpec
CONSTANTS
    i1 = i1
    i2 = i2
    i3 = i3
    Id <- IdMC
    r1 = r1
    r2 = r2
    User = {u1}
    Message = {hello}
    Request <- RequestMC
    Persistent = TRUE
    Nobody = Nobody
SYMMETRY Alike
INVARIANTS SessionTypeOK
PROPERTIES IdentityOnlyFromLogin ReadYourWrites
