CONSTANTS
    k1 = k1
    r1 = r1
    r2 = r2
    r3 = r3
    d1 = d1
    d2 = d2
    k2 = k2
    Request = {r1, r2, r3}
    Key = {k1, k2}
    Stamp <- MCStamp
    Database = {d1, d2}
    OrmDb = d1
    Lists <- MCLists
    Pushes <- MCPushes
    MaxShown = 2
    NoOne = NoOne
    Scenes = {"two", "then"}
SPECIFICATION MCSpec
INVARIANTS
    TypeOK
    PointsNeedHypertable
    NoPointIsAddedTwice
    AcceptedPointsAreStored
PROPERTIES
    ReadsShowAcceptedPoints
    RequestsEnd
    ImplementsPointLog
CHECK_DEADLOCK FALSE
