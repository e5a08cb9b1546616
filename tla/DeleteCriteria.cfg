CONSTANTS
    v1 = v1
    v2 = v2
    id = id
    m1 = m1
    m2 = m2
    mb = mb
    t1 = t1
    t2 = t2
    Nil = Nil
    NoPart = NoPart
    MapKey = {m1, m2, mb}
    Between <- MCBetween
    Depth = 2
    Own = {o1, o2}
    Other = {x1}
    o1 = o1
    o2 = o2
    x1 = x1
    Root = t0
    t0 = t0
    Type = {t0, t1, t2}
    Path <- MCPath
    Name = {n1, n2}
    n1 = n1
    n2 = n2
    Half = 4
SPECIFICATION Spec
INVARIANT DeleteMatchesCriteria
CHECK_DEADLOCK FALSE
