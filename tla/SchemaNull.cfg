CONSTANTS
    old = old
    new1 = new1
    new2 = new2
    a = a
    b = b
    c1 = c1
    c2 = c2
    c3 = c3
    Process = {old, new1, new2}
    Table = {a, b}
    Column = {c1, c2, c3}
    NonUnique = {c1, c2}
    Attrs <- MCAttrs
    Roots <- MCRoots
    MaxFaults = 0
    None = None
    k1 = k1
    Key = {k1}
    Scenes = {"write"}
SPECIFICATION MCSpec
INVARIANT VerifiedTablesAreReadable
CHECK_DEADLOCK FALSE
