CONSTANTS
    k1 = k1
    qAll = qAll
    qMine = qMine
    Scenes = {"races", "pages"}
    Key = {k1, k2}
    Val = {1, 2}
    NoRow = 0
    Query = {qAll, qMine}
    Match <- MCMatch
    Sorted = {qAll}
    Scoped = {qMine}
    Visible <- MCVisible
    Limits = {1, 2}
    Pages = {0, 1}
    Reader = {r1, r2}
    Writer = {w1, w2}
    Start <- MCStart
    TTL = 1
    MaxBatches = 1
    MaxClock = 2
    None = None
SPECIFICATION MCSpec
INVARIANTS
    TypeOK
    NoEntryServedAfterInvalidation
    ReadMissesOnlyRacingCommits
    PanicOnlyByRacingDelete
    PagesDisjoint
    UserIndexIsFilteredOrWhole
    IndexWithTotalIsWhole
PROPERTY StaleStaysStale
SYMMETRY Interchangeable
CHECK_DEADLOCK FALSE
