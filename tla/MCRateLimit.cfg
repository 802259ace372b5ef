SPECIFICATION EitherSpec
CONSTANTS
    q1 = q1
    q2 = q2
    m1 = m1
    m2 = m2
    m3 = m3
    Key = {k1}
    Request = {q1, q2}
    Bucket = {b1, b2, b3}
    Member = {m1, m2, m3}
    Limit = 2
    RedisLimit = 1
    Window = 1
    RedisWindow = 3
    MaxLag = 1
    None = None
SYMMETRY Symmetry
INVARIANTS WithinLimit OneOpenWindow FirstGetsThrough SlidingLimit RefusedForCause
