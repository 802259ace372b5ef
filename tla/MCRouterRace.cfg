SPECIFICATION Spec
CONSTANTS
    g = g
    h = h
    r1 = r1
    r2 = r2
    r3 = r3
    r4 = r4
    a = a
    b = b
    c = c
    d = d
    e = e
    m1 = m1
    m2 = m2
    m3 = m3
    pg = pg
    ph = ph
    pr = pr
    Root = Root
    Nil = Nil
    Middleware = {a, b, c, d, e, m1, m2, m3}
    Route <- RouteMC
    Group <- GroupMC
    Request = {q1, q2}
    Parent <- ParentMC
    In <- InMC
    Key <- KeyMC
    Own <- OwnMC
    OfGroup <- OfGroupMC
    Matches <- MatchesMC
    Asked <- AskedMC
    Uses <- UsesMC
INVARIANTS GroupMiddlewareRuns
