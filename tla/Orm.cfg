CONSTANTS
    Scenes = {"records", "parts", "late"}
    Key = {k1, k2}
    Row = {main}
    Kid = {kid}
    Main = main
    Val = {v1, v2}
    None = None
    Request = {r1, r2}
    Ops = {"POST", "PUT", "PATCH", "DELETE", "DELETE query", "GET", "GET query", "GET aggregate"}
    Lists <- MCLists
    Criteria <- MCCriteria
    Asked <- MCAsked
    Paging <- MCPaging
    DefaultBlock = 1
    BatchSize = 1
SPECIFICATION MCSpec
CHECK_DEADLOCK FALSE
SYMMETRY Interchangeable
INVARIANTS
    TypeOK
    Coherent
    Complete
PROPERTIES
    GetAnswersFromStore
    QueryMissesNothing
    AggregatesCoverStore
