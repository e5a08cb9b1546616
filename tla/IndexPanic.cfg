CONSTANTS
    k1 = k1
    qAll = qAll
    qMine = qMine
    Scenes = {"races"}
    Key = {k1, k2}
    Val = {1}
    NoRow = 0
    Query = {qAll}
    Match <- MCMatch
    Sorted = {}
    Scoped = {}
    Visible <- MCVisible
    Limits = {2}
    Pages = {0}
    Reader = {r1, r2}
    Writer = {w1, w2}
    Start <- MCStart
    TTL = 1
    MaxBatches = 1
    MaxClock = 2
    None = None
SPECIFICATION MCSpec
INVARIANTS
    MismatchedKeysAreSkipped
SYMMETRY Interchangeable
CHECK_DEADLOCK FALSE
