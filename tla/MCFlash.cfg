SPECIFICATION SessionSpec
CONSTANTS
    i1 = i1
    i2 = i2
    i3 = i3
    r1 = r1
    r2 = r2
    Id <- IdMC
    User = {u1}
    Message = {hello}
    Request <- RequestMC
    Persistent = FALSE
    Nobody = Nobody
PROPERTIES FlashedOnce
