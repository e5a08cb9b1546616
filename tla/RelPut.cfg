CONSTANTS
    k1 = k1
    k2 = k2
    r1 = r1
    r2 = r2
    r3 = r3
    p1 = p1
    p2 = p2
    Key = {k1}
    Val = {0, 1}
    Zero = 0
    Nil = Nil
    NoRow = NoRow
    None = None
    MaxKids = 2
    Request = {r1, r2}
    Process = {p1}
    Home <- MCHome
    WriteOps = {"PUT"}
    Batches <- MCBatches
    Criteria <- MCCriteria
    Limits = {0}
    Covers <- MCCovers
SPECIFICATION Spec
SYMMETRY Interchangeable
PROPERTY PutReplaces
