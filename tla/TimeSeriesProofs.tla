-------------------------- MODULE TimeSeriesProofs --------------------------
(***************************************************************************)
(* Theorems about TimeSeries, for any requests, keys, stamps, lists and    *)
(* databases: its types, that points are never in a table that is no       *)
(* hypertable, that the tables of points implement PointLog, that no point *)
(* is added twice and every accepted one is there, and what reads show.    *)
(***************************************************************************)
EXTENDS TimeSeries, FiniteSetTheorems, WellFoundedInduction, TLAPS

USE DEF Inst

\* The instance through which a request adds points.
ViaOf(x) == IF x.op = "push" THEN "service" ELSE "orm"

\* What a record of a request has to be beyond its type.
Sound(x) ==
    /\ x \in RequestRecord
    /\ x.pc \in InAdd \cup {"rows", "lock", "call"} => x.i \in 1..Len(x.list)
    /\ x.op = "get" => x.key \in Key

\* The fields but those of the requests and the mutexes have their types.
StoreTypes ==
    /\ rows \subseteq Key
    /\ points \in [Database -> Bag]
    /\ made \in [Database -> SUBSET {"table", "hypertable", "index"}]
    /\ home \in [Inst -> Database] /\ home["orm"] = OrmDb
    /\ verified \in [Inst -> BOOLEAN]
    /\ open \in BOOLEAN

LEMMA ZeroIsBag == Zero \in Bag
BY DEF Zero, Bag

LEMMA PlusIsBag ==
    ASSUME NEW f \in Bag, NEW g \in Bag
    PROVE  Plus(f, g) \in Bag
BY DEF Plus, Bag

LEMMA IdleType == Idle \in RequestRecord
<1>1. <<>> \in Seq(Batch)
    OBVIOUS
<1>. QED BY <1>1, ZeroIsBag DEF Idle, RequestRecord

\* What TypeOK says of one request.
LEMMA RequestType ==
    ASSUME TypeOK, NEW r \in Request
    PROVE  /\ Sound(req[r]) /\ req[r] \in RequestRecord
           /\ Via(r) = ViaOf(req[r]) /\ Via(r) \in Inst /\ Db(r) \in Database
           /\ StoreTypes
BY DEF TypeOK, Sound, StoreTypes, Via, ViaOf, Db

LEMMA ThisBatchType ==
    ASSUME TypeOK, NEW r \in Request, req[r].pc \in InAdd \cup {"rows", "lock", "call"}
    PROVE  /\ ThisBatch(r).keys \in SUBSET Key
           /\ ThisBatch(r).points \in Bag
<1>1. req[r].list \in Seq(Batch) /\ req[r].i \in 1..Len(req[r].list)
    BY RequestType DEF Sound, RequestRecord
<1>2. req[r].list[req[r].i] \in Batch
    BY <1>1
<1>. QED BY <1>2 DEF ThisBatch, Batch

\* A step that takes one request to a sound record keeps the types when it
\* leaves the mutexes to those who are in AddTSDB.
LEMMA BecomeType ==
    ASSUME TypeOK, NEW r \in Request, NEW x, Sound(x), Become(r, x), StoreTypes',
           mtx' \in [Inst -> Request \cup {NoOne}],
           \A i \in Inst : mtx'[i] = r <=> x.pc \in InAdd /\ ViaOf(x) = i,
           \A i \in Inst : \A s \in Request \ {r} : mtx'[i] = s <=> mtx[i] = s
    PROVE  TypeOK'
<1>1. \A s \in Request : req'[s] = IF s = r THEN x ELSE req[s]
    BY DEF TypeOK, Become
<1>2. req' \in [Request -> RequestRecord]
    BY DEF TypeOK, Become, Sound
<1>3. \A s \in Request : Sound(req'[s])
    BY <1>1, RequestType
<1>4. ASSUME NEW s \in Request, NEW i \in Inst
      PROVE  mtx'[i] = s <=> req'[s].pc \in InAdd /\ Via(s)' = i
    <2>1. CASE s = r
        BY <2>1, <1>1 DEF Via, ViaOf
    <2>2. CASE s # r
        BY <2>2, <1>1 DEF Via, TypeOK
    <2>. QED BY <2>1, <2>2
<1>. QED BY <1>2, <1>3, <1>4 DEF TypeOK, Sound, StoreTypes

\* The same for a step that has nothing to do with a mutex, or goes on in
\* AddTSDB.
LEMMA QuietType ==
    ASSUME TypeOK, NEW r \in Request, NEW x, Sound(x), Become(r, x), StoreTypes',
           UNCHANGED mtx,
           \/ req[r].pc \notin InAdd /\ x.pc \notin InAdd
           \/ req[r].pc \in InAdd /\ x.pc \in InAdd /\ x.op = req[r].op
    PROVE  TypeOK'
<1>1. \A i \in Inst : mtx'[i] = r <=> x.pc \in InAdd /\ ViaOf(x) = i
    BY DEF TypeOK, Via, ViaOf
<1>2. mtx' \in [Inst -> Request \cup {NoOne}]
    BY DEF TypeOK
<1>. QED BY <1>1, <1>2, BecomeType

\* And for a step that leaves AddTSDB.
LEMMA ReleaseType ==
    ASSUME TypeOK, NEW r \in Request, NEW x, Sound(x), Become(r, x), StoreTypes',
           req[r].pc \in InAdd, x.pc \notin InAdd, Release(r)
    PROVE  TypeOK'
<1>1. mtx' = [mtx EXCEPT ![Via(r)] = NoOne] /\ mtx[Via(r)] = r /\ Via(r) \in Inst
    BY RequestType DEF Release, TypeOK
<1>2. \A i \in Inst : mtx'[i] = IF i = Via(r) THEN NoOne ELSE mtx[i]
    BY <1>1 DEF TypeOK
<1>3. \A i \in Inst : mtx'[i] # r
    BY <1>2, TimeSeriesAssumption DEF TypeOK
<1>4. \A i \in Inst : \A s \in Request \ {r} : mtx'[i] = s <=> mtx[i] = s
    BY <1>1, <1>2, TimeSeriesAssumption
<1>5. mtx' \in [Inst -> Request \cup {NoOne}]
    BY <1>1 DEF TypeOK
<1>. QED BY <1>3, <1>4, <1>5, BecomeType

\* A record that changes only where its request is, outside of lists.
LEMMA GotoSound ==
    ASSUME TypeOK, NEW r \in Request,
           NEW pc \in {"done", "failed", "panicked"}, NEW lost \in BOOLEAN
    PROVE  /\ Sound([req[r] EXCEPT !.pc = pc])
           /\ Sound([req[r] EXCEPT !.pc = pc, !.lost = lost])
BY RequestType DEF Sound, RequestRecord, InAdd

\* The end of a batch takes a request to the next one or to the end.
LEMMA AdvanceSound ==
    ASSUME TypeOK, NEW r \in Request, NEW x \in RequestRecord, x.i \in 1..Len(x.list),
           x.op = "get" => x.key \in Key, Advance(r, x)
    PROVE  \E y : Sound(y) /\ Become(r, y) /\ y.pc \notin InAdd /\ y.op = x.op
<1>1. CASE x.i < Len(x.list)
    <2>. DEFINE y == [x EXCEPT !.pc = "rows", !.i = @ + 1]
    <2>1. Len(x.list) \in Nat /\ x.i + 1 \in 1..Len(x.list) /\ x.i + 1 \in Nat
        BY <1>1 DEF RequestRecord
    <2>2. y \in RequestRecord /\ y.i = x.i + 1 /\ y.list = x.list /\ y.pc = "rows"
          /\ y.op = x.op /\ y.key = x.key
        BY <2>1 DEF RequestRecord
    <2>. QED BY <1>1, <2>1, <2>2 DEF Advance, Sound, InAdd
<1>2. CASE ~(x.i < Len(x.list))
    <2>. DEFINE y == [x EXCEPT !.pc = "done"]
    <2>1. y \in RequestRecord /\ y.pc = "done" /\ y.op = x.op /\ y.key = x.key
        BY DEF RequestRecord
    <2>. QED BY <1>2, <2>1 DEF Advance, Sound, InAdd
<1>. QED BY <1>1, <1>2

LEMMA ErrorSound ==
    ASSUME TypeOK, NEW r \in Request, Error(r)
    PROVE  \E y : Sound(y) /\ Become(r, y) /\ y.pc \notin InAdd
<1>1. CASE req[r].op = "push"
    <2>. DEFINE y == [req[r] EXCEPT !.pc = "done", !.lost = TRUE]
    <2>1. Sound(y) /\ y.pc = "done"
        BY GotoSound, RequestType DEF RequestRecord
    <2>. QED BY <1>1, <2>1 DEF Error, InAdd
<1>2. CASE req[r].op # "push"
    <2>. DEFINE y == [req[r] EXCEPT !.pc = "failed"]
    <2>1. Sound(y) /\ y.pc = "failed"
        BY GotoSound, RequestType DEF RequestRecord
    <2>. QED BY <1>2, <2>1 DEF Error, Goto, InAdd
<1>. QED BY <1>1, <1>2

\* Requests begin with a record of their own.
LEMMA BeginsType ==
    ASSUME TypeOK, NEW r \in Request, At(r, "idle"), NEW x, Sound(x), Become(r, x),
           x.pc \notin InAdd, rows' \subseteq Key,
           UNCHANGED <<points, made, home, verified, mtx, open>>
    PROVE  TypeOK'
<1>1. StoreTypes'
    BY RequestType DEF StoreTypes
<1>2. req[r].pc \notin InAdd
    BY DEF At, InAdd
<1>. QED BY <1>1, <1>2, QuietType

LEMMA BatchOf ==
    ASSUME NEW K \in SUBSET Key, NEW b \in Bag
    PROVE  <<[keys |-> K, points |-> b]>> \in Seq(Batch) \ {<<>>}
BY DEF Batch

LEMMA BeginWriteType ==
    ASSUME TypeOK, NEW r \in Request, BeginWrite(r)
    PROVE  TypeOK'
<1>1. Resent \subseteq Seq(Batch) \ {<<>>}
    <2>. SUFFICES ASSUME NEW s \in Request, req[s].op = "get"
                  PROVE  <<[keys |-> {req[s].key}, points |-> req[s].shown]>>
                             \in Seq(Batch) \ {<<>>}
        BY DEF Resent
    <2>1. {req[s].key} \in SUBSET Key /\ req[s].shown \in Bag
        BY RequestType DEF Sound, RequestRecord
    <2>. QED BY <2>1, BatchOf
<1>2. PICK list \in Seq(Batch) \ {<<>>} :
          Become(r, [Idle EXCEPT !.pc = "rows", !.op = "write", !.list = list])
    BY <1>1, TimeSeriesAssumption DEF BeginWrite
<1>. DEFINE x == [Idle EXCEPT !.pc = "rows", !.op = "write", !.list = list]
<1>3. x \in RequestRecord /\ x.pc = "rows" /\ x.op = "write" /\ x.list = list /\ x.i = 1
    BY IdleType DEF RequestRecord, Idle
<1>4. 1 \in 1..Len(list)
    BY <1>2
<1>5. Sound(x) /\ x.pc \notin InAdd
    BY <1>3, <1>4 DEF Sound, InAdd
<1>. QED BY <1>2, <1>5, BeginsType, RequestType DEF BeginWrite, StoreTypes

LEMMA DeleteRowType ==
    ASSUME TypeOK, NEW r \in Request, DeleteRow(r)
    PROVE  TypeOK'
<1>1. PICK k \in rows : rows' = rows \ {k}
          /\ Become(r, [Idle EXCEPT !.pc = "done", !.op = "delete", !.key = k])
    BY DEF DeleteRow
<1>. DEFINE x == [Idle EXCEPT !.pc = "done", !.op = "delete", !.key = k]
<1>2. k \in Key /\ rows' \subseteq Key
    BY <1>1 DEF TypeOK
<1>3. Sound(x) /\ x.pc \notin InAdd
    BY <1>2, IdleType DEF RequestRecord, Idle, Sound, InAdd
<1>. QED BY <1>1, <1>2, <1>3, BeginsType DEF DeleteRow

LEMMA PushType ==
    ASSUME TypeOK, NEW r \in Request, Push(r)
    PROVE  TypeOK'
<1>1. PICK bag \in Pushes :
          LET x == [Idle EXCEPT !.op = "push", !.list = <<[keys |-> {}, points |-> bag]>>,
                                !.left = bag]
          IN  Become(r, IF open THEN [x EXCEPT !.pc = "call"]
                        ELSE [x EXCEPT !.pc = "done", !.lost = TRUE])
    BY DEF Push
<1>. DEFINE list == <<[keys |-> {}, points |-> bag]>>
            x == [Idle EXCEPT !.op = "push", !.list = list, !.left = bag]
            y == IF open THEN [x EXCEPT !.pc = "call"]
                 ELSE [x EXCEPT !.pc = "done", !.lost = TRUE]
<1>2. bag \in Bag /\ list \in Seq(Batch) \ {<<>>}
    BY BatchOf, TimeSeriesAssumption
<1>3. 1 \in 1..Len(list)
    OBVIOUS
<1>. HIDE DEF list
<1>4. x \in RequestRecord /\ x.op = "push" /\ x.i = 1 /\ x.list = list
    BY <1>2, IdleType DEF RequestRecord, Idle
<1>. HIDE DEF x
<1>5. y \in RequestRecord /\ y.op = "push" /\ y.i = 1 /\ y.list = list
      /\ y.pc \in {"call", "done"}
    BY <1>4 DEF RequestRecord
<1>6. Sound(y) /\ y.pc \notin InAdd
    BY <1>3, <1>5 DEF Sound, InAdd
<1>7. Become(r, y)
    BY <1>1 DEF x, list
<1>8. At(r, "idle") /\ rows' \subseteq Key
      /\ UNCHANGED <<points, made, home, verified, mtx, open>>
    BY RequestType DEF StoreTypes, Push
<1>. HIDE DEF y
<1>. QED BY <1>6, <1>7, <1>8, BeginsType

LEMMA QueryType ==
    ASSUME TypeOK, NEW r \in Request, Query(r)
    PROVE  TypeOK'
<1>1. PICK k \in Key, from \in Stamp \cup {0}, to \in Stamp \cup {0} :
          LET x == [Idle EXCEPT !.op = "query", !.key = k, !.from = from, !.to = to]
          IN  Become(r, [x EXCEPT !.pc = IF open /\ from # 0 /\ to # 0 THEN "select"
                                         ELSE "failed"])
    BY DEF Query
<1>. DEFINE x == [Idle EXCEPT !.op = "query", !.key = k, !.from = from, !.to = to]
            y == [x EXCEPT !.pc = IF open /\ from # 0 /\ to # 0 THEN "select" ELSE "failed"]
<1>2. y \in RequestRecord /\ y.op = "query" /\ y.pc \in {"select", "failed"}
    BY IdleType DEF RequestRecord, Idle
<1>3. Sound(y) /\ y.pc \notin InAdd
    BY <1>2 DEF Sound, InAdd
<1>4. Become(r, y) /\ At(r, "idle") /\ rows' \subseteq Key
      /\ UNCHANGED <<points, made, home, verified, mtx, open>>
    BY <1>1, RequestType DEF StoreTypes, Query
<1>. HIDE DEF y
<1>. QED BY <1>3, <1>4, BeginsType

LEMMA ReadRowType ==
    ASSUME TypeOK, NEW r \in Request, ReadRow(r)
    PROVE  TypeOK'
<1>1. PICK k \in Key :
          Become(r, [Idle EXCEPT !.op = "get", !.key = k,
                                 !.pc = IF k \in rows THEN "populate" ELSE "failed"])
    BY DEF ReadRow
<1>. DEFINE y == [Idle EXCEPT !.op = "get", !.key = k,
                              !.pc = IF k \in rows THEN "populate" ELSE "failed"]
<1>2. y \in RequestRecord /\ y.key = k /\ y.pc \in {"populate", "failed"}
    BY IdleType DEF RequestRecord, Idle
<1>3. Sound(y) /\ y.pc \notin InAdd
    BY <1>2 DEF Sound, InAdd
<1>4. Become(r, y) /\ At(r, "idle") /\ rows' \subseteq Key
      /\ UNCHANGED <<points, made, home, verified, mtx, open>>
    BY <1>1, RequestType DEF StoreTypes, ReadRow
<1>. HIDE DEF y
<1>. QED BY <1>3, <1>4, BeginsType

LEMMA WriteRowsType ==
    ASSUME TypeOK, NEW r \in Request, WriteRows(r)
    PROVE  TypeOK'
<1>1. PICK lost \in BOOLEAN :
          LET x == [req[r] EXCEPT !.lost = @ \/ lost, !.left = ToAdd(r), !.put = Zero]
          IN  /\ rows' = IF lost THEN rows ELSE rows \cup ThisBatch(r).keys
              /\ IF ThisBatch(r).points = Zero THEN Advance(r, x)
                 ELSE Become(r, [x EXCEPT !.pc = "lock"])
    BY DEF WriteRows
<1>. DEFINE x == [req[r] EXCEPT !.lost = @ \/ lost, !.left = ToAdd(r), !.put = Zero]
<1>2. At(r, "rows") /\ req[r].pc = "rows"
    BY DEF WriteRows, At
<1>3. ToAdd(r) \in Bag /\ ThisBatch(r).keys \in SUBSET Key
    BY <1>2, ThisBatchType DEF ToAdd
<1>4. x \in RequestRecord /\ x.i = req[r].i /\ x.list = req[r].list /\ x.op = req[r].op
      /\ x.key = req[r].key
    BY <1>3, ZeroIsBag, RequestType DEF RequestRecord
<1>5. x.i \in 1..Len(x.list) /\ (x.op = "get" => x.key \in Key)
    BY <1>2, <1>4, RequestType DEF Sound
<1>6. StoreTypes'
    BY <1>1, <1>3, RequestType DEF StoreTypes, WriteRows
<1>. HIDE DEF x
<1>7. CASE ThisBatch(r).points = Zero
    <2>1. Advance(r, x)
        BY <1>1, <1>7 DEF x
    <2>2. PICK y : Sound(y) /\ Become(r, y) /\ y.pc \notin InAdd
        BY <2>1, <1>4, <1>5, AdvanceSound
    <2>. QED BY <2>2, <1>2, <1>6, QuietType DEF WriteRows, InAdd
<1>8. CASE ThisBatch(r).points # Zero
    <2>. DEFINE y == [x EXCEPT !.pc = "lock"]
    <2>1. Become(r, y)
        BY <1>1, <1>8 DEF x
    <2>2. Sound(y) /\ y.pc \notin InAdd
        BY <1>4, <1>5 DEF Sound, RequestRecord, InAdd
    <2>. HIDE DEF y
    <2>. QED BY <2>1, <2>2, <1>2, <1>6, QuietType DEF WriteRows, InAdd
<1>. QED BY <1>7, <1>8

LEMMA LockType ==
    ASSUME TypeOK, NEW r \in Request, Lock(r)
    PROVE  TypeOK'
<1>. DEFINE pc == IF verified[Via(r)] THEN "insert" ELSE "table"
            x == [req[r] EXCEPT !.pc = pc]
<1>1. Become(r, x) /\ req[r].pc = "lock" /\ mtx[Via(r)] = NoOne
      /\ mtx' = [mtx EXCEPT ![Via(r)] = r]
    BY DEF Lock, Goto, At
<1>2. x \in RequestRecord /\ x.pc \in InAdd /\ x.op = req[r].op /\ x.i = req[r].i
      /\ x.list = req[r].list /\ x.key = req[r].key
    BY RequestType DEF RequestRecord, InAdd
<1>3. Sound(x) /\ ViaOf(x) = Via(r)
    BY <1>1, <1>2, RequestType DEF Sound, ViaOf
<1>4. mtx' \in [Inst -> Request \cup {NoOne}]
      /\ \A i \in Inst : mtx'[i] = IF i = Via(r) THEN r ELSE mtx[i]
    BY <1>1, RequestType DEF TypeOK
<1>5. \A i \in Inst : mtx[i] # r
    BY <1>1 DEF TypeOK, InAdd
<1>6. \A i \in Inst : mtx'[i] = r <=> x.pc \in InAdd /\ ViaOf(x) = i
    BY <1>2, <1>3, <1>4, <1>5
<1>7. \A i \in Inst : \A s \in Request \ {r} : mtx'[i] = s <=> mtx[i] = s
    BY <1>1, <1>4, TimeSeriesAssumption
<1>8. StoreTypes'
    BY RequestType DEF StoreTypes, Lock
<1>. HIDE DEF x
<1>. QED BY <1>1, <1>3, <1>4, <1>6, <1>7, <1>8, BecomeType

LEMMA MakesType ==
    ASSUME TypeOK, NEW r \in Request, NEW pc \in InAdd, NEW next \in InAdd,
           NEW part \in {"table", "hypertable", "index"}, Makes(r, pc, part, next)
    PROVE  TypeOK'
<1>1. req[r].pc \in InAdd
    BY DEF Makes, At
<1>2. made' \in [Database -> SUBSET {"table", "hypertable", "index"}]
    BY RequestType DEF Makes, StoreTypes
<1>3. CASE Error(r) /\ Release(r) /\ UNCHANGED verified
    <2>1. PICK y : Sound(y) /\ Become(r, y) /\ y.pc \notin InAdd
        BY <1>3, ErrorSound
    <2>2. StoreTypes'
        BY <1>2, <1>3, RequestType DEF Makes, StoreTypes
    <2>. QED BY <2>1, <2>2, <1>1, <1>3, ReleaseType
<1>4. CASE /\ Goto(r, next)
           /\ verified' = [verified EXCEPT ![Via(r)] = next = "insert"]
           /\ UNCHANGED mtx
    <2>. DEFINE y == [req[r] EXCEPT !.pc = next]
    <2>1. Sound(y) /\ y.pc \in InAdd /\ y.op = req[r].op
        BY <1>1, RequestType DEF Sound, RequestRecord, InAdd
    <2>2. verified' \in [Inst -> BOOLEAN]
        BY <1>4 DEF TypeOK
    <2>3. StoreTypes'
        BY <1>2, <2>2, RequestType DEF Makes, StoreTypes
    <2>4. Become(r, y)
        BY <1>4 DEF Goto
    <2>. HIDE DEF y
    <2>. QED BY <2>1, <2>3, <2>4, <1>1, <1>4, QuietType
<1>. QED BY <1>3, <1>4 DEF Makes

LEMMA InsertType ==
    ASSUME TypeOK, NEW r \in Request, Insert(r)
    PROVE  TypeOK'
<1>1. PICK p \in Point : req[r].left[p] > 0
          /\ Become(r, [req[r] EXCEPT !.left[p] = @ - 1, !.put[p] = @ + 1])
    BY DEF Insert
<1>. DEFINE left == [req[r].left EXCEPT ![p] = @ - 1]
            put == [req[r].put EXCEPT ![p] = @ + 1]
            x == [req[r] EXCEPT !.left = left, !.put = put]
<1>2. left \in Bag /\ put \in Bag
    BY <1>1, RequestType DEF RequestRecord, Bag
<1>3. Become(r, x)
    BY <1>1
<1>4. x \in RequestRecord /\ x.pc = req[r].pc /\ x.op = req[r].op /\ x.i = req[r].i
      /\ x.list = req[r].list /\ x.key = req[r].key
    BY <1>2, RequestType DEF RequestRecord
<1>5. req[r].pc \in InAdd
    BY DEF Insert, At, InAdd
<1>6. Sound(x) /\ x.pc \in InAdd
    BY <1>4, <1>5, RequestType DEF Sound
<1>7. StoreTypes' /\ UNCHANGED mtx
    BY RequestType DEF Insert, StoreTypes
<1>. HIDE DEF x
<1>. QED BY <1>3, <1>4, <1>5, <1>6, <1>7, QuietType

LEMMA CommitPointsType ==
    ASSUME TypeOK, NEW r \in Request, CommitPoints(r)
    PROVE  TypeOK'
<1>1. req[r].pc \in InAdd /\ Release(r)
    BY DEF CommitPoints, At, InAdd
<1>2. Plus(points[Db(r)], req[r].put) \in Bag
    BY RequestType, PlusIsBag DEF RequestRecord, StoreTypes
<1>3. StoreTypes'
    BY <1>2, RequestType DEF CommitPoints, StoreTypes
<1>4. req[r].i \in 1..Len(req[r].list) /\ (req[r].op = "get" => req[r].key \in Key)
    BY <1>1, RequestType DEF Sound
<1>5. \E y : Sound(y) /\ Become(r, y) /\ y.pc \notin InAdd
    <2>1. CASE Advance(r, req[r])
        BY <2>1, <1>4, RequestType, AdvanceSound
    <2>2. CASE Advance(r, [req[r] EXCEPT !.lost = TRUE])
        <3>. DEFINE x == [req[r] EXCEPT !.lost = TRUE]
        <3>1. x \in RequestRecord /\ x.i = req[r].i /\ x.list = req[r].list
              /\ x.op = req[r].op /\ x.key = req[r].key
            BY RequestType DEF RequestRecord
        <3>2. Advance(r, x)
            BY <2>2
        <3>. HIDE DEF x
        <3>. QED BY <3>1, <3>2, <1>4, AdvanceSound
    <2>. QED BY <2>1, <2>2 DEF CommitPoints
<1>. QED BY <1>1, <1>3, <1>5, ReleaseType

LEMMA AddFailsType ==
    ASSUME TypeOK, NEW r \in Request, AddFails(r)
    PROVE  TypeOK'
<1>1. PICK y : Sound(y) /\ Become(r, y) /\ y.pc \notin InAdd
    BY ErrorSound DEF AddFails
<1>2. req[r].pc \in InAdd /\ Release(r) /\ StoreTypes'
    BY RequestType DEF AddFails, InAdd, Kept, StoreTypes
<1>. QED BY <1>1, <1>2, ReleaseType

LEMMA WriteRowsFailsType ==
    ASSUME TypeOK, NEW r \in Request, WriteRowsFails(r)
    PROVE  TypeOK'
<1>. DEFINE x == [req[r] EXCEPT !.pc = "failed"]
<1>1. Become(r, x) /\ Sound(x) /\ x.pc \notin InAdd
    BY GotoSound, RequestType DEF WriteRowsFails, Goto, RequestRecord, InAdd
<1>2. req[r].pc \notin InAdd /\ StoreTypes' /\ UNCHANGED mtx
    BY RequestType DEF WriteRowsFails, At, InAdd, StoreTypes
<1>. HIDE DEF x
<1>. QED BY <1>1, <1>2, QuietType

LEMMA CallType ==
    ASSUME TypeOK, NEW r \in Request, Call(r)
    PROVE  TypeOK'
<1>. DEFINE x == [req[r] EXCEPT !.pc = IF open THEN "lock" ELSE "panicked"]
<1>1. Become(r, x) /\ req[r].pc = "call"
    BY DEF Call, Goto, At
<1>2. Sound(x) /\ x.pc \notin InAdd
    BY <1>1, RequestType DEF Sound, RequestRecord, InAdd
<1>3. req[r].pc \notin InAdd /\ StoreTypes' /\ UNCHANGED mtx
    BY <1>1, RequestType DEF Call, InAdd, StoreTypes
<1>. HIDE DEF x
<1>. QED BY <1>1, <1>2, <1>3, QuietType

LEMMA SelectType ==
    ASSUME TypeOK, NEW r \in Request, Select(r)
    PROVE  TypeOK'
<1>1. req[r].pc \notin InAdd /\ StoreTypes' /\ UNCHANGED mtx
    BY RequestType DEF Select, At, InAdd, StoreTypes
<1>2. \E x : Sound(x) /\ Become(r, x) /\ x.pc \notin InAdd
    <2>. DEFINE f == Between(points[home["service"]], req[r].key, req[r].from, req[r].to)
                x == [req[r] EXCEPT !.pc = "done", !.shown = f]
                y == [req[r] EXCEPT !.pc = "done", !.lost = TRUE]
                z == [req[r] EXCEPT !.pc = "panicked"]
    <2>1. points[home["service"]] \in Bag
        BY RequestType DEF StoreTypes
    <2>2. f \in Bag
        BY <2>1 DEF Between, Bag
    <2>. HIDE DEF f
    <2>3. Sound(x) /\ x.pc = "done"
        BY <2>2, RequestType DEF Sound, RequestRecord, InAdd
    <2>4. Sound(y) /\ y.pc = "done" /\ Sound(z) /\ z.pc = "panicked"
        BY GotoSound, RequestType DEF RequestRecord
    <2>5. Become(r, x) \/ Become(r, y) \/ Become(r, z)
        BY DEF Select, Goto, f
    <2>. HIDE DEF x, y, z
    <2>. QED BY <2>3, <2>4, <2>5 DEF InAdd
<1>. QED BY <1>1, <1>2, QuietType

LEMMA PopulateType ==
    ASSUME TypeOK, NEW r \in Request, PopulateTsFields(r)
    PROVE  TypeOK'
<1>1. req[r].pc \notin InAdd /\ StoreTypes' /\ UNCHANGED mtx
    BY RequestType DEF PopulateTsFields, At, InAdd, StoreTypes
<1>2. \E x : Sound(x) /\ Become(r, x) /\ x.pc \notin InAdd
    <2>1. CASE \E f \in [Point -> 0..MaxShown] :
                   Become(r, [req[r] EXCEPT !.pc = "done", !.shown = f])
        <3>1. PICK f \in [Point -> 0..MaxShown] :
                   Become(r, [req[r] EXCEPT !.pc = "done", !.shown = f])
            BY <2>1
        <3>2. f \in Bag
            BY TimeSeriesAssumption DEF Bag
        <3>. DEFINE x == [req[r] EXCEPT !.pc = "done", !.shown = f]
        <3>3. Sound(x) /\ x.pc \notin InAdd
            BY <3>2, RequestType DEF Sound, RequestRecord, InAdd
        <3>. QED BY <3>1, <3>3
    <2>2. CASE Become(r, [req[r] EXCEPT !.pc = "done", !.lost = TRUE])
        <3>. DEFINE x == [req[r] EXCEPT !.pc = "done", !.lost = TRUE]
        <3>1. Sound(x) /\ x.pc \notin InAdd
            BY GotoSound, RequestType DEF RequestRecord, InAdd
        <3>. QED BY <2>2, <3>1
    <2>. QED BY <2>1, <2>2 DEF PopulateTsFields
<1>. QED BY <1>1, <1>2, QuietType

LEMMA InitType == Init => TypeOK
<1>. SUFFICES ASSUME Init PROVE TypeOK
    OBVIOUS
<1>1. \A r \in Request : req[r] = Idle /\ Idle.pc = "idle" /\ Idle.op = "none"
    BY DEF Init, Idle
<1>2. \A r \in Request : \A i \in Inst : mtx[i] # r
    BY TimeSeriesAssumption DEF Init
<1>3. req \in [Request -> RequestRecord]
    BY IdleType DEF Init
<1>. QED BY <1>1, <1>2, <1>3, ZeroIsBag DEF Init, TypeOK, InAdd

LEMMA NextType == TypeOK /\ [Next]_vars => TypeOK'
<1>. SUFFICES ASSUME TypeOK, [Next]_vars PROVE TypeOK'
    OBVIOUS
<1>1. ASSUME NEW r \in Request,
             BeginWrite(r) \/ DeleteRow(r) \/ Push(r) \/ Query(r) \/ ReadRow(r)
      PROVE  TypeOK'
    BY <1>1, BeginWriteType, DeleteRowType, PushType, QueryType, ReadRowType
<1>2. ASSUME NEW r \in Request, CreateTable(r) \/ CreateHypertable(r) \/ CreateIndex(r)
      PROVE  TypeOK'
    <2>1. {"table", "hypertable", "index", "insert"} = InAdd
        BY DEF InAdd
    <2>2. \/ Makes(r, "table", "table", "hypertable")
          \/ Makes(r, "hypertable", "hypertable", "index")
          \/ Makes(r, "index", "index", "insert")
        BY <1>2 DEF CreateTable, CreateHypertable, CreateIndex
    <2>. QED BY <2>1, <2>2, MakesType
<1>3. ASSUME NEW r \in Request, Step(r)
      PROVE  TypeOK'
    BY <1>2, <1>3, WriteRowsType, LockType, InsertType, CommitPointsType, CallType,
       SelectType, PopulateType DEF Step
<1>4. ASSUME NEW r \in Request, WriteRowsFails(r) \/ AddFails(r)
      PROVE  TypeOK'
    BY <1>4, WriteRowsFailsType, AddFailsType
<1>5. CASE DeActivate
    BY <1>5 DEF DeActivate, TypeOK, Via
<1>6. CASE UNCHANGED vars
    BY <1>6 DEF vars, TypeOK, Via
<1>. QED BY <1>1, <1>3, <1>4, <1>5, <1>6 DEF Next

\* The types of the tables of points, the mutexes and the requests, and that a
\* mutex is held by who is in AddTSDB of its instance (AddTSDB's Lock and
\* deferred Unlock).
THEOREM TimeSeriesTypes == Spec => []TypeOK
BY InitType, NextType, PTL DEF Spec

-----------------------------------------------------------------------------
(* Points are in hypertables                                               *)

Parts == {"table", "hypertable", "index"}

\* What a request in AddTSDB knows to be made.
Needed(pc) ==
    IF pc = "hypertable" THEN {"table"}
    ELSE IF pc = "index" THEN {"table", "hypertable"}
    ELSE IF pc = "insert" THEN Parts ELSE {}

HypertableInv ==
    /\ PointsNeedHypertable
    /\ \A r \in Request : Needed(req[r].pc) \subseteq made[Db(r)]

\* A step of one request, which leaves of a table what is made, keeps this when
\* what the request comes to need is made, and so is what points or verified
\* newly rely on.
LEMMA NeedsMet ==
    ASSUME TypeOK, TypeOK', HypertableInv, NEW r \in Request, NEW x, Become(r, x),
           UNCHANGED home, \A d \in Database : made[d] \subseteq made'[d],
           Needed(x.pc) \subseteq made'[home[ViaOf(x)]],
           \A d \in Database : points'[d] # Zero => points[d] # Zero \/ made'[d] = Parts,
           \A i \in Inst : verified'[i] => verified[i] \/ made'[home[i]] = Parts
    PROVE  HypertableInv'
<1>1. \A d \in Database : made[d] = Parts => made'[d] = Parts
    BY DEF TypeOK, Parts
<1>2. PointsNeedHypertable'
    BY <1>1 DEF HypertableInv, PointsNeedHypertable, TypeOK, Parts
<1>3. ASSUME NEW s \in Request
      PROVE  Needed(req'[s].pc) \subseteq made'[Db(s)']
    <2>1. CASE s = r
        <3>1. req'[s] = x
            BY <2>1 DEF Become, TypeOK
        <3>. QED BY <3>1 DEF Db, Via, ViaOf
    <2>2. CASE s # r
        <3>1. req'[s] = req[s] /\ Db(s)' = Db(s) /\ Db(s) \in Database
            BY <2>2, RequestType DEF Become, TypeOK, Db, Via
        <3>. QED BY <3>1 DEF HypertableInv
    <2>. QED BY <2>1, <2>2
<1>. QED BY <1>2, <1>3 DEF HypertableInv

\* Outside of AddTSDB nothing is needed.
LEMMA OutsideNeedsMet ==
    ASSUME TypeOK, TypeOK', HypertableInv, NEW r \in Request,
           \E x : Become(r, x) /\ x.pc \notin InAdd,
           UNCHANGED home, \A d \in Database : made[d] \subseteq made'[d],
           \A d \in Database : points'[d] # Zero => points[d] # Zero \/ made'[d] = Parts,
           \A i \in Inst : verified'[i] => verified[i]
    PROVE  HypertableInv'
<1>1. PICK x : Become(r, x) /\ x.pc \notin InAdd
    OBVIOUS
<1>2. Needed(x.pc) = {}
    BY <1>1 DEF Needed, InAdd
<1>. QED BY <1>1, <1>2, NeedsMet

LEMMA MakesParts ==
    ASSUME TypeOK, TypeOK', HypertableInv, NEW r \in Request, NEW pc \in InAdd,
           NEW next \in InAdd, NEW part \in Parts, Makes(r, pc, part, next),
           Needed(next) \subseteq Needed(pc) \cup {part}
    PROVE  HypertableInv'
<1>1. Db(r) \in Database /\ Via(r) = ViaOf(req[r]) /\ Via(r) \in Inst
    BY RequestType
<1>2. \A d \in Database : made'[d] = IF d = Db(r) THEN made[d] \cup {part} ELSE made[d]
    BY <1>1 DEF Makes, TypeOK
<1>3. Needed(next) \subseteq made'[Db(r)]
    BY <1>1, <1>2 DEF HypertableInv, Makes, At
<1>4. \A d \in Database : made[d] \subseteq made'[d]
    BY <1>2
<1>5. UNCHANGED <<home, points>>
    BY DEF Makes
<1>6. CASE Error(r) /\ Release(r) /\ UNCHANGED verified
    BY <1>4, <1>5, <1>6, ErrorSound, OutsideNeedsMet
<1>7. CASE /\ Goto(r, next)
           /\ verified' = [verified EXCEPT ![Via(r)] = next = "insert"]
           /\ UNCHANGED mtx
    <2>. DEFINE x == [req[r] EXCEPT !.pc = next]
    <2>1. Become(r, x)
        BY <1>7 DEF Goto
    <2>2. x.pc = next /\ ViaOf(x) = Via(r)
        BY <1>1, RequestType DEF ViaOf, RequestRecord
    <2>3. next = "insert" => made'[Db(r)] = Parts
        BY <1>1, <1>3 DEF Needed, TypeOK, Parts
    <2>4. ASSUME NEW i \in Inst, verified'[i]
          PROVE  verified[i] \/ made'[home[i]] = Parts
        <3>1. CASE i = Via(r)
            <4>1. next = "insert"
                BY <1>7, <2>4, <3>1 DEF TypeOK
            <4>. QED BY <2>3, <3>1, <4>1 DEF Db
        <3>2. CASE i # Via(r)
            BY <1>7, <2>4, <3>2 DEF TypeOK
        <3>. QED BY <3>1, <3>2
    <2>5. Needed(x.pc) \subseteq made'[home[ViaOf(x)]]
        BY <1>3, <2>2 DEF Db
    <2>. HIDE DEF x
    <2>. QED BY <1>4, <1>5, <2>1, <2>4, <2>5, NeedsMet
<1>. QED BY <1>6, <1>7 DEF Makes

LEMMA LockParts ==
    ASSUME TypeOK, TypeOK', HypertableInv, NEW r \in Request, Lock(r)
    PROVE  HypertableInv'
<1>. DEFINE x == [req[r] EXCEPT !.pc = IF verified[Via(r)] THEN "insert" ELSE "table"]
<1>1. Become(r, x) /\ UNCHANGED <<points, made, home, verified>>
    BY DEF Lock, Goto
<1>2. x.pc = (IF verified[Via(r)] THEN "insert" ELSE "table") /\ ViaOf(x) = Via(r)
    BY RequestType DEF ViaOf, RequestRecord
<1>3. verified[Via(r)] => made[home[Via(r)]] = Parts
    BY RequestType DEF HypertableInv, PointsNeedHypertable, Parts
<1>4. Needed(x.pc) \subseteq made'[home[ViaOf(x)]]
    BY <1>1, <1>2, <1>3 DEF Needed
<1>. HIDE DEF x
<1>. QED BY <1>1, <1>4, NeedsMet

LEMMA InsertParts ==
    ASSUME TypeOK, TypeOK', HypertableInv, NEW r \in Request, Insert(r)
    PROVE  HypertableInv'
<1>1. PICK p \in Point :
          Become(r, [req[r] EXCEPT !.left[p] = @ - 1, !.put[p] = @ + 1])
    BY DEF Insert
<1>. DEFINE x == [req[r] EXCEPT !.left[p] = @ - 1, !.put[p] = @ + 1]
<1>2. x.pc = req[r].pc /\ ViaOf(x) = Via(r)
    BY RequestType DEF ViaOf, RequestRecord
<1>3. Become(r, x) /\ UNCHANGED <<points, made, home, verified>>
    BY <1>1 DEF Insert
<1>4. Needed(x.pc) \subseteq made'[home[ViaOf(x)]]
    BY <1>2, <1>3 DEF HypertableInv, Db
<1>. HIDE DEF x
<1>. QED BY <1>3, <1>4, NeedsMet

\* Where the goroutine of a commit goes.
LEMMA CommitGoes ==
    ASSUME TypeOK, NEW r \in Request, CommitPoints(r)
    PROVE  \E y : Become(r, y) /\ y.pc \notin InAdd
<1>1. req[r].i \in 1..Len(req[r].list) /\ (req[r].op = "get" => req[r].key \in Key)
    BY RequestType DEF Sound, CommitPoints, At, InAdd
<1>2. CASE Advance(r, req[r])
    BY <1>1, <1>2, RequestType, AdvanceSound
<1>3. CASE Advance(r, [req[r] EXCEPT !.lost = TRUE])
    <2>. DEFINE x == [req[r] EXCEPT !.lost = TRUE]
    <2>1. x \in RequestRecord /\ x.i = req[r].i /\ x.list = req[r].list
          /\ x.op = req[r].op /\ x.key = req[r].key
        BY RequestType DEF RequestRecord
    <2>2. Advance(r, x)
        BY <1>3
    <2>. HIDE DEF x
    <2>. QED BY <1>1, <2>1, <2>2, AdvanceSound
<1>. QED BY <1>2, <1>3 DEF CommitPoints

LEMMA CommitParts ==
    ASSUME TypeOK, TypeOK', HypertableInv, NEW r \in Request, CommitPoints(r)
    PROVE  HypertableInv'
<1>1. Db(r) \in Database /\ UNCHANGED <<made, home, verified>>
    BY RequestType DEF CommitPoints
<1>2. made[Db(r)] = Parts
    BY <1>1 DEF HypertableInv, Needed, CommitPoints, At, TypeOK, Parts
<1>3. \A d \in Database \ {Db(r)} : points'[d] = points[d]
    BY DEF CommitPoints, TypeOK
<1>. QED BY <1>1, <1>2, <1>3, CommitGoes, OutsideNeedsMet

\* Where other steps go: outside of AddTSDB, and no table is changed.
LEMMA OthersGoOutside ==
    ASSUME TypeOK, NEW r \in Request,
           \/ BeginWrite(r) \/ DeleteRow(r) \/ Push(r) \/ Query(r) \/ ReadRow(r)
           \/ WriteRows(r) \/ Call(r) \/ Select(r) \/ PopulateTsFields(r)
           \/ WriteRowsFails(r) \/ AddFails(r)
    PROVE  /\ \E x : Become(r, x) /\ x.pc \notin InAdd
           /\ UNCHANGED <<points, made, home, verified>>
<1>. DEFINE Goal == \E x : Become(r, x) /\ x.pc \notin InAdd
<1>1. CASE BeginWrite(r)
    <2>1. PICK list : Become(r, [Idle EXCEPT !.pc = "rows", !.op = "write", !.list = list])
        BY <1>1 DEF BeginWrite
    <2>2. [Idle EXCEPT !.pc = "rows", !.op = "write", !.list = list].pc \notin InAdd
        BY DEF Idle, InAdd
    <2>. QED BY <1>1, <2>1, <2>2 DEF BeginWrite
<1>2. CASE DeleteRow(r)
    <2>1. PICK k : Become(r, [Idle EXCEPT !.pc = "done", !.op = "delete", !.key = k])
        BY <1>2 DEF DeleteRow
    <2>2. [Idle EXCEPT !.pc = "done", !.op = "delete", !.key = k].pc \notin InAdd
        BY DEF Idle, InAdd
    <2>. QED BY <1>2, <2>1, <2>2 DEF DeleteRow
<1>3. CASE Push(r)
    <2>1. PICK bag \in Pushes :
              LET x == [Idle EXCEPT !.op = "push", !.list = <<[keys |-> {}, points |-> bag]>>,
                                    !.left = bag]
              IN  Become(r, IF open THEN [x EXCEPT !.pc = "call"]
                            ELSE [x EXCEPT !.pc = "done", !.lost = TRUE])
        BY <1>3 DEF Push
    <2>. DEFINE x == [Idle EXCEPT !.op = "push", !.list = <<[keys |-> {}, points |-> bag]>>,
                                  !.left = bag]
                y == IF open THEN [x EXCEPT !.pc = "call"]
                     ELSE [x EXCEPT !.pc = "done", !.lost = TRUE]
    <2>2. Become(r, y)
        BY <2>1
    <2>3. y.pc \notin InAdd
        BY DEF Idle, InAdd
    <2>. HIDE DEF y
    <2>4. Goal
        BY <2>2, <2>3
    <2>. QED BY <1>3, <2>4 DEF Push
<1>4. CASE Query(r)
    <2>1. PICK k \in Key, from \in Stamp \cup {0}, to \in Stamp \cup {0} :
              LET x == [Idle EXCEPT !.op = "query", !.key = k, !.from = from, !.to = to]
              IN  Become(r, [x EXCEPT !.pc = IF open /\ from # 0 /\ to # 0 THEN "select"
                                             ELSE "failed"])
        BY <1>4 DEF Query
    <2>. DEFINE x == [Idle EXCEPT !.op = "query", !.key = k, !.from = from, !.to = to]
                y == [x EXCEPT !.pc = IF open /\ from # 0 /\ to # 0 THEN "select"
                                      ELSE "failed"]
    <2>2. Become(r, y)
        BY <2>1
    <2>3. y.pc \notin InAdd
        BY DEF Idle, InAdd
    <2>. HIDE DEF y
    <2>4. Goal
        BY <2>2, <2>3
    <2>. QED BY <1>4, <2>4 DEF Query
<1>5. CASE ReadRow(r)
    <2>1. PICK k \in Key :
              Become(r, [Idle EXCEPT !.op = "get", !.key = k,
                                     !.pc = IF k \in rows THEN "populate" ELSE "failed"])
        BY <1>5 DEF ReadRow
    <2>. DEFINE y == [Idle EXCEPT !.op = "get", !.key = k,
                                  !.pc = IF k \in rows THEN "populate" ELSE "failed"]
    <2>2. Become(r, y)
        BY <2>1
    <2>3. y.pc \notin InAdd
        BY DEF Idle, InAdd
    <2>. HIDE DEF y
    <2>4. Goal
        BY <2>2, <2>3
    <2>. QED BY <1>5, <2>4 DEF ReadRow
<1>6. CASE WriteRows(r)
    <2>1. PICK lost \in BOOLEAN :
              LET x == [req[r] EXCEPT !.lost = @ \/ lost, !.left = ToAdd(r), !.put = Zero]
              IN  IF ThisBatch(r).points = Zero THEN Advance(r, x)
                  ELSE Become(r, [x EXCEPT !.pc = "lock"])
        BY <1>6 DEF WriteRows
    <2>. DEFINE x == [req[r] EXCEPT !.lost = @ \/ lost, !.left = ToAdd(r), !.put = Zero]
    <2>2. ToAdd(r) \in Bag
        BY <1>6, ThisBatchType DEF ToAdd, WriteRows, At
    <2>3. x \in RequestRecord
        BY <2>2, ZeroIsBag, RequestType DEF RequestRecord
    <2>4. Advance(r, x) \/ Become(r, [x EXCEPT !.pc = "lock"])
        BY <2>1
    <2>. HIDE DEF x
    <2>5. /\ [x EXCEPT !.pc = "lock"].pc \notin InAdd
          /\ [x EXCEPT !.pc = "done"].pc \notin InAdd
          /\ [x EXCEPT !.pc = "rows", !.i = @ + 1].pc \notin InAdd
        BY <2>3 DEF RequestRecord, InAdd
    <2>6. Goal
        BY <2>4, <2>5 DEF Advance
    <2>. QED BY <1>6, <2>6 DEF WriteRows
<1>7. CASE Call(r) \/ WriteRowsFails(r)
    <2>1. PICK pc \in {"lock", "panicked", "failed"} :
              Become(r, [req[r] EXCEPT !.pc = pc])
        BY <1>7 DEF Call, WriteRowsFails, Goto
    <2>2. [req[r] EXCEPT !.pc = pc].pc \notin InAdd
        BY RequestType DEF RequestRecord, InAdd
    <2>. QED BY <1>7, <2>1, <2>2 DEF Call, WriteRowsFails
<1>8. CASE Select(r) \/ PopulateTsFields(r)
    <2>1. \/ \E f : Become(r, [req[r] EXCEPT !.pc = "done", !.shown = f])
          \/ Become(r, [req[r] EXCEPT !.pc = "done", !.lost = TRUE])
          \/ Become(r, [req[r] EXCEPT !.pc = "panicked"])
        BY <1>8 DEF Select, PopulateTsFields, Goto
    <2>2. /\ \A f : [req[r] EXCEPT !.pc = "done", !.shown = f].pc \notin InAdd
          /\ [req[r] EXCEPT !.pc = "done", !.lost = TRUE].pc \notin InAdd
          /\ [req[r] EXCEPT !.pc = "panicked"].pc \notin InAdd
        BY RequestType DEF RequestRecord, InAdd
    <2>3. Goal
        BY <2>1, <2>2
    <2>. QED BY <1>8, <2>3 DEF Select, PopulateTsFields
<1>9. CASE AddFails(r)
    BY <1>9, ErrorSound DEF AddFails, Kept
<1>. QED BY <1>1, <1>2, <1>3, <1>4, <1>5, <1>6, <1>7, <1>8, <1>9

LEMMA InitParts == Init => HypertableInv
BY DEF Init, HypertableInv, PointsNeedHypertable, Needed, Idle

LEMMA NextParts == TypeOK /\ HypertableInv /\ [Next]_vars => HypertableInv'
<1>. SUFFICES ASSUME TypeOK, HypertableInv, [Next]_vars PROVE HypertableInv'
    OBVIOUS
<1>1. TypeOK'
    BY NextType
<1>2. ASSUME NEW r \in Request,
             \/ BeginWrite(r) \/ DeleteRow(r) \/ Push(r) \/ Query(r) \/ ReadRow(r)
             \/ WriteRows(r) \/ Call(r) \/ Select(r) \/ PopulateTsFields(r)
             \/ WriteRowsFails(r) \/ AddFails(r)
      PROVE  HypertableInv'
    <2>1. /\ \E x : Become(r, x) /\ x.pc \notin InAdd
          /\ UNCHANGED <<points, made, home, verified>>
        BY <1>2, OthersGoOutside
    <2>. QED BY <1>1, <2>1, OutsideNeedsMet
<1>3. ASSUME NEW r \in Request, CreateTable(r) \/ CreateHypertable(r) \/ CreateIndex(r)
      PROVE  HypertableInv'
    <2>1. CASE CreateTable(r)
        <3>1. Needed("hypertable") \subseteq Needed("table") \cup {"table"}
            BY DEF Needed
        <3>. QED BY <1>1, <2>1, <3>1, MakesParts DEF CreateTable, InAdd, Parts
    <2>2. CASE CreateHypertable(r)
        <3>1. Needed("index") \subseteq Needed("hypertable") \cup {"hypertable"}
            BY DEF Needed
        <3>. QED BY <1>1, <2>2, <3>1, MakesParts DEF CreateHypertable, InAdd, Parts
    <2>3. CASE CreateIndex(r)
        <3>1. Needed("insert") \subseteq Needed("index") \cup {"index"}
            BY DEF Needed, Parts
        <3>. QED BY <1>1, <2>3, <3>1, MakesParts DEF CreateIndex, InAdd, Parts
    <2>. QED BY <1>3, <2>1, <2>2, <2>3
<1>4. ASSUME NEW r \in Request, Lock(r) \/ Insert(r) \/ CommitPoints(r)
      PROVE  HypertableInv'
    BY <1>1, <1>4, LockParts, InsertParts, CommitParts
<1>5. CASE DeActivate \/ UNCHANGED vars
    BY <1>5 DEF DeActivate, vars, HypertableInv, PointsNeedHypertable, Db, Via
<1>. QED BY <1>2, <1>3, <1>4, <1>5 DEF Next, Step

\* No instance inserts points into a table that is not yet a hypertable with
\* its index, and what verified stands for is made (AddTSDB, verifyTable).
THEOREM PointsAreInHypertables == Spec => []PointsNeedHypertable
<1>1. HypertableInv => PointsNeedHypertable
    BY DEF HypertableInv
<1>. QED BY <1>1, InitType, NextType, InitParts, NextParts, PTL DEF Spec

-----------------------------------------------------------------------------
(* The tables of points are logs of whole batches                          *)

Loading == {"call", "lock"} \cup InAdd
Loaded(x) == x.pc \in Loading => Plus(x.left, x.put) = x.list[x.i].points

\* What is inserted and what is left to insert are the batch, and a request
\* that has not begun has no list.
LoadInv ==
    \A r \in Request : Loaded(req[r]) /\ (At(r, "idle") => req[r].list = <<>>)

Offered == UNION {{req[r].list[i].points : i \in DOMAIN req[r].list} : r \in Request}

\* A record that keeps the list and the load of a request.
Keeps(r, x) ==
    /\ x.pc # "idle"
    /\ x.list = req[r].list \/ At(r, "idle")
    /\ Loaded(x)

LEMMA KeepsLoads ==
    ASSUME TypeOK, LoadInv, NEW r \in Request, \E x : Become(r, x) /\ Keeps(r, x)
    PROVE  LoadInv' /\ Offered \subseteq Offered'
<1>1. PICK x : Become(r, x) /\ Keeps(r, x)
    OBVIOUS
<1>2. \A s \in Request : req'[s] = IF s = r THEN x ELSE req[s]
    BY <1>1 DEF Become, TypeOK
<1>3. LoadInv'
    BY <1>1, <1>2 DEF LoadInv, Keeps, Loaded, At
<1>4. \A s \in Request : req'[s].list = req[s].list \/ req[s].list = <<>>
    BY <1>1, <1>2 DEF Keeps, LoadInv
<1>5. DOMAIN <<>> = {}
    OBVIOUS
<1>. QED BY <1>3, <1>4, <1>5 DEF Offered

\* Where the load is no longer the request's business.
LEMMA AdvanceKeeps ==
    ASSUME TypeOK, NEW r \in Request, NEW x \in RequestRecord, x.list = req[r].list,
           Advance(r, x)
    PROVE  \E y : Become(r, y) /\ Keeps(r, y)
<1>1. CASE x.i < Len(x.list)
    <2>. DEFINE y == [x EXCEPT !.pc = "rows", !.i = @ + 1]
    <2>1. y.pc = "rows" /\ y.list = req[r].list
        BY DEF RequestRecord
    <2>. QED BY <1>1, <2>1 DEF Advance, Keeps, Loaded, Loading, InAdd
<1>2. CASE ~(x.i < Len(x.list))
    <2>. DEFINE y == [x EXCEPT !.pc = "done"]
    <2>1. y.pc = "done" /\ y.list = req[r].list
        BY DEF RequestRecord
    <2>. QED BY <1>2, <2>1 DEF Advance, Keeps, Loaded, Loading, InAdd
<1>. QED BY <1>1, <1>2

LEMMA GotoKeeps ==
    ASSUME TypeOK, NEW r \in Request, NEW pc \in {"done", "failed", "panicked"},
           NEW lost \in BOOLEAN, NEW shown
    PROVE  /\ Keeps(r, [req[r] EXCEPT !.pc = pc])
           /\ Keeps(r, [req[r] EXCEPT !.pc = pc, !.lost = lost])
           /\ Keeps(r, [req[r] EXCEPT !.pc = pc, !.shown = shown])
BY RequestType DEF RequestRecord, Keeps, Loaded, Loading, InAdd

LEMMA ErrorKeeps ==
    ASSUME TypeOK, NEW r \in Request, Error(r)
    PROVE  \E y : Become(r, y) /\ Keeps(r, y)
BY GotoKeeps DEF Error, Goto

\* A request that goes on with its load.
LEMMA GoesOnKeeps ==
    ASSUME TypeOK, LoadInv, NEW r \in Request, req[r].pc \in Loading, NEW pc \in Loading
    PROVE  Keeps(r, [req[r] EXCEPT !.pc = pc])
<1>. DEFINE x == [req[r] EXCEPT !.pc = pc]
<1>1. x.pc = pc /\ x.list = req[r].list /\ x.i = req[r].i /\ x.left = req[r].left
      /\ x.put = req[r].put
    BY RequestType DEF RequestRecord
<1>2. Plus(req[r].left, req[r].put) = req[r].list[req[r].i].points
    BY DEF LoadInv, Loaded
<1>3. pc # "idle"
    BY DEF Loading, InAdd
<1>. HIDE DEF x
<1>4. Keeps(r, x)
    BY <1>1, <1>2, <1>3 DEF Keeps, Loaded
<1>. QED BY <1>4 DEF x

LEMMA PushKeeps ==
    ASSUME TypeOK, NEW r \in Request, Push(r)
    PROVE  \E y : Become(r, y) /\ Keeps(r, y)
<1>1. PICK bag \in Pushes :
          LET x == [Idle EXCEPT !.op = "push", !.list = <<[keys |-> {}, points |-> bag]>>,
                                !.left = bag]
          IN  Become(r, IF open THEN [x EXCEPT !.pc = "call"]
                        ELSE [x EXCEPT !.pc = "done", !.lost = TRUE])
    BY DEF Push
<1>. DEFINE list == <<[keys |-> {}, points |-> bag]>>
            x == [Idle EXCEPT !.op = "push", !.list = list, !.left = bag]
            y == IF open THEN [x EXCEPT !.pc = "call"]
                 ELSE [x EXCEPT !.pc = "done", !.lost = TRUE]
<1>2. bag \in Bag /\ list[1].points = bag
    BY TimeSeriesAssumption
<1>3. Plus(bag, Zero) = bag
    BY <1>2 DEF Plus, Zero, Bag
<1>4. Become(r, y) /\ At(r, "idle")
    BY <1>1 DEF Push
<1>. HIDE DEF list
<1>5. y.pc \in {"call", "done"} /\ y.left = bag /\ y.put = Zero /\ y.list = list /\ y.i = 1
    BY DEF Idle
<1>. HIDE DEF y
<1>6. Keeps(r, y)
    BY <1>2, <1>3, <1>4, <1>5 DEF Keeps, Loaded
<1>. QED BY <1>4, <1>6

LEMMA BeginKeeps ==
    ASSUME TypeOK, NEW r \in Request,
           BeginWrite(r) \/ DeleteRow(r) \/ Query(r) \/ ReadRow(r)
    PROVE  \E y : Become(r, y) /\ Keeps(r, y)
<1>1. ASSUME NEW x, Become(r, x), x.pc \in {"rows", "done", "select", "failed", "populate"}
      PROVE  \E y : Become(r, y) /\ Keeps(r, y)
    <2>1. At(r, "idle")
        BY DEF BeginWrite, DeleteRow, Query, ReadRow
    <2>2. Keeps(r, x)
        BY <1>1, <2>1 DEF Keeps, Loaded, Loading, InAdd
    <2>. QED BY <1>1, <2>2
<1>2. CASE BeginWrite(r)
    <2>1. PICK list : Become(r, [Idle EXCEPT !.pc = "rows", !.op = "write", !.list = list])
        BY <1>2 DEF BeginWrite
    <2>2. [Idle EXCEPT !.pc = "rows", !.op = "write", !.list = list].pc = "rows"
        BY DEF Idle
    <2>. QED BY <2>1, <2>2, <1>1
<1>3. CASE DeleteRow(r)
    <2>1. PICK k : Become(r, [Idle EXCEPT !.pc = "done", !.op = "delete", !.key = k])
        BY <1>3 DEF DeleteRow
    <2>2. [Idle EXCEPT !.pc = "done", !.op = "delete", !.key = k].pc = "done"
        BY DEF Idle
    <2>. QED BY <2>1, <2>2, <1>1
<1>4. CASE Query(r)
    <2>1. PICK k \in Key, from \in Stamp \cup {0}, to \in Stamp \cup {0} :
              LET x == [Idle EXCEPT !.op = "query", !.key = k, !.from = from, !.to = to]
              IN  Become(r, [x EXCEPT !.pc = IF open /\ from # 0 /\ to # 0 THEN "select"
                                             ELSE "failed"])
        BY <1>4 DEF Query
    <2>. DEFINE x == [Idle EXCEPT !.op = "query", !.key = k, !.from = from, !.to = to]
                y == [x EXCEPT !.pc = IF open /\ from # 0 /\ to # 0 THEN "select"
                                      ELSE "failed"]
    <2>2. Become(r, y)
        BY <2>1
    <2>3. y.pc \in {"select", "failed"}
        BY DEF Idle
    <2>. HIDE DEF y
    <2>. QED BY <2>2, <2>3, <1>1
<1>5. CASE ReadRow(r)
    <2>1. PICK k \in Key :
              Become(r, [Idle EXCEPT !.op = "get", !.key = k,
                                     !.pc = IF k \in rows THEN "populate" ELSE "failed"])
        BY <1>5 DEF ReadRow
    <2>. DEFINE y == [Idle EXCEPT !.op = "get", !.key = k,
                                  !.pc = IF k \in rows THEN "populate" ELSE "failed"]
    <2>2. Become(r, y)
        BY <2>1
    <2>3. y.pc \in {"populate", "failed"}
        BY DEF Idle
    <2>. HIDE DEF y
    <2>. QED BY <2>2, <2>3, <1>1
<1>. QED BY <1>2, <1>3, <1>4, <1>5

LEMMA WriteRowsKeeps ==
    ASSUME TypeOK, NEW r \in Request, WriteRows(r)
    PROVE  \E y : Become(r, y) /\ Keeps(r, y)
<1>1. PICK lost \in BOOLEAN :
          LET x == [req[r] EXCEPT !.lost = @ \/ lost, !.left = ToAdd(r), !.put = Zero]
          IN  IF ThisBatch(r).points = Zero THEN Advance(r, x)
              ELSE Become(r, [x EXCEPT !.pc = "lock"])
    BY DEF WriteRows
<1>. DEFINE x == [req[r] EXCEPT !.lost = @ \/ lost, !.left = ToAdd(r), !.put = Zero]
            y == [x EXCEPT !.pc = "lock"]
<1>2. ToAdd(r) \in Bag /\ ToAdd(r) = req[r].list[req[r].i].points
    BY ThisBatchType DEF ToAdd, WriteRows, At, ThisBatch
<1>3. Plus(ToAdd(r), Zero) = ToAdd(r)
    BY <1>2 DEF Plus, Zero, Bag
<1>4. x \in RequestRecord /\ x.list = req[r].list /\ x.i = req[r].i
      /\ x.left = ToAdd(r) /\ x.put = Zero
    BY <1>2, ZeroIsBag, RequestType DEF RequestRecord
<1>5. Advance(r, x) \/ Become(r, y)
    BY <1>1
<1>. HIDE DEF x
<1>6. y.pc = "lock" /\ y.list = req[r].list /\ y.i = req[r].i
      /\ y.left = ToAdd(r) /\ y.put = Zero
    BY <1>4 DEF RequestRecord
<1>. HIDE DEF y
<1>7. Keeps(r, y)
    BY <1>2, <1>3, <1>6 DEF Keeps, Loaded
<1>. QED BY <1>4, <1>5, <1>7, AdvanceKeeps

LEMMA InsertKeeps ==
    ASSUME TypeOK, LoadInv, NEW r \in Request, Insert(r)
    PROVE  \E y : Become(r, y) /\ Keeps(r, y)
<1>1. PICK p \in Point : req[r].left[p] > 0
          /\ Become(r, [req[r] EXCEPT !.left[p] = @ - 1, !.put[p] = @ + 1])
    BY DEF Insert
<1>. DEFINE left == [req[r].left EXCEPT ![p] = @ - 1]
            put == [req[r].put EXCEPT ![p] = @ + 1]
            x == [req[r] EXCEPT !.left = left, !.put = put]
<1>2. req[r].left \in Bag /\ req[r].put \in Bag
    BY RequestType DEF RequestRecord
<1>3. \A q \in Point : left[q] + put[q] = req[r].left[q] + req[r].put[q]
    BY <1>2 DEF Bag
<1>4. Plus(left, put) = Plus(req[r].left, req[r].put)
    BY <1>3 DEF Plus
<1>5. Become(r, x)
    BY <1>1
<1>. HIDE DEF left, put
<1>6. x.pc = "insert" /\ x.list = req[r].list /\ x.i = req[r].i /\ x.left = left
      /\ x.put = put
    BY RequestType DEF RequestRecord, Insert, At
<1>7. Plus(req[r].left, req[r].put) = req[r].list[req[r].i].points
    BY DEF LoadInv, Loaded, Insert, At, Loading, InAdd
<1>. HIDE DEF x
<1>8. Keeps(r, x)
    BY <1>4, <1>6, <1>7 DEF Keeps, Loaded
<1>. QED BY <1>5, <1>8

LEMMA CommitKeeps ==
    ASSUME TypeOK, NEW r \in Request, CommitPoints(r)
    PROVE  \E y : Become(r, y) /\ Keeps(r, y)
<1>1. CASE Advance(r, req[r])
    BY <1>1, RequestType, AdvanceKeeps
<1>2. CASE Advance(r, [req[r] EXCEPT !.lost = TRUE])
    <2>. DEFINE x == [req[r] EXCEPT !.lost = TRUE]
    <2>1. x \in RequestRecord /\ x.list = req[r].list
        BY RequestType DEF RequestRecord
    <2>2. Advance(r, x)
        BY <1>2
    <2>. HIDE DEF x
    <2>. QED BY <2>1, <2>2, AdvanceKeeps
<1>. QED BY <1>1, <1>2 DEF CommitPoints

\* Every step but that of DeActivate keeps the loads.
LEMMA StepKeeps ==
    ASSUME TypeOK, LoadInv, NEW r \in Request,
           \/ BeginWrite(r) \/ DeleteRow(r) \/ Push(r) \/ Query(r) \/ ReadRow(r)
           \/ Step(r) \/ WriteRowsFails(r) \/ AddFails(r)
    PROVE  \E y : Become(r, y) /\ Keeps(r, y)
<1>1. CASE CreateTable(r) \/ CreateHypertable(r) \/ CreateIndex(r)
    <2>1. Error(r) \/ \E pc \in Loading : Goto(r, pc)
        BY <1>1 DEF CreateTable, CreateHypertable, CreateIndex, Makes, Loading, InAdd
    <2>2. req[r].pc \in Loading
        BY <1>1 DEF CreateTable, CreateHypertable, CreateIndex, Makes, At, Loading, InAdd
    <2>. QED BY <2>1, <2>2, ErrorKeeps, GoesOnKeeps DEF Goto
<1>2. CASE Lock(r)
    <2>1. \E pc \in Loading : Goto(r, pc)
        BY <1>2 DEF Lock, Loading, InAdd
    <2>2. req[r].pc \in Loading
        BY <1>2 DEF Lock, At, Loading, InAdd
    <2>. QED BY <2>1, <2>2, GoesOnKeeps DEF Goto
<1>3. CASE Call(r)
    <2>1. Goto(r, "lock") \/ Goto(r, "panicked")
        BY <1>3 DEF Call
    <2>2. req[r].pc \in Loading /\ "lock" \in Loading
        BY <1>3 DEF Call, At, Loading
    <2>. QED BY <2>1, <2>2, GoesOnKeeps, GotoKeeps DEF Goto
<1>4. CASE Select(r) \/ PopulateTsFields(r)
    <2>1. \/ \E f : Become(r, [req[r] EXCEPT !.pc = "done", !.shown = f])
          \/ Become(r, [req[r] EXCEPT !.pc = "done", !.lost = TRUE])
          \/ Become(r, [req[r] EXCEPT !.pc = "panicked"])
        BY <1>4 DEF Select, PopulateTsFields, Goto
    <2>. QED BY <2>1, GotoKeeps
<1>5. CASE WriteRowsFails(r)
    BY <1>5, GotoKeeps DEF WriteRowsFails, Goto
<1>6. CASE AddFails(r)
    BY <1>6, ErrorKeeps DEF AddFails
<1>. QED BY <1>1, <1>2, <1>3, <1>4, <1>5, <1>6, PushKeeps, BeginKeeps, WriteRowsKeeps,
        InsertKeeps, CommitKeeps DEF Step

LEMMA InitLoads == Init => LoadInv
BY DEF Init, LoadInv, Loaded, Loading, InAdd, At, Idle

LEMMA NextLoads ==
    TypeOK /\ LoadInv /\ [Next]_vars => LoadInv' /\ Offered \subseteq Offered'
<1>. SUFFICES ASSUME TypeOK, LoadInv, [Next]_vars
              PROVE  LoadInv' /\ Offered \subseteq Offered'
    OBVIOUS
<1>1. CASE DeActivate \/ UNCHANGED vars
    BY <1>1 DEF DeActivate, vars, LoadInv, Loaded, At, Offered
<1>. QED BY <1>1, StepKeeps, KeepsLoads DEF Next

LEMMA OfferedAreBags == TypeOK => Offered \in SUBSET Bag
<1>. SUFFICES ASSUME TypeOK PROVE Offered \in SUBSET Bag
    OBVIOUS
<1>1. ASSUME NEW r \in Request, NEW i \in DOMAIN req[r].list
      PROVE  req[r].list[i].points \in Bag
    <2>1. req[r].list \in Seq(Batch)
        BY RequestType DEF RequestRecord
    <2>2. req[r].list[i] \in Batch
        BY <2>1
    <2>. QED BY <2>2 DEF Batch
<1>. QED BY <1>1 DEF Offered

\* Only a commit changes a table of points, and by the whole batch.
LEMMA CommitAdds ==
    ASSUME TypeOK, LoadInv, NEW r \in Request, CommitPoints(r)
    PROVE  \/ UNCHANGED points
           \/ \E d \in Database, load \in Offered :
                 points' = [points EXCEPT ![d] = Plus(@, load)]
<1>1. req[r].put = req[r].list[req[r].i].points
    <2>1. Plus(req[r].left, req[r].put) = req[r].list[req[r].i].points
        BY DEF LoadInv, Loaded, CommitPoints, At, Loading, InAdd
    <2>2. req[r].left = Zero /\ req[r].put \in Bag
        BY RequestType DEF CommitPoints, RequestRecord
    <2>3. Plus(Zero, req[r].put) = req[r].put
        BY <2>2 DEF Plus, Zero, Bag
    <2>. QED BY <2>1, <2>2, <2>3
<1>2. req[r].i \in DOMAIN req[r].list
    <2>1. req[r].i \in 1..Len(req[r].list) /\ req[r].list \in Seq(Batch)
        BY RequestType DEF Sound, RequestRecord, CommitPoints, At, InAdd
    <2>. QED BY <2>1
<1>3. req[r].put \in Offered
    BY <1>1, <1>2 DEF Offered
<1>4. Db(r) \in Database
    BY RequestType
<1>. QED BY <1>3, <1>4 DEF CommitPoints

LEMMA ListsStay ==
    ASSUME TypeOK, LoadInv, NEW r \in Request, CommitPoints(r)
    PROVE  Offered' = Offered
<1>1. PICK y : Become(r, y) /\ Keeps(r, y)
    BY CommitKeeps
<1>2. y.list = req[r].list
    BY <1>1 DEF Keeps, CommitPoints, At
<1>3. \A s \in Request : req'[s].list = req[s].list
    BY <1>1, <1>2 DEF Become, TypeOK
<1>. QED BY <1>3 DEF Offered

LEMMA PointsStay ==
    ASSUME TypeOK, [Next]_vars, ~\E r \in Request : CommitPoints(r)
    PROVE  UNCHANGED points
BY DEF Next, Step, BeginWrite, DeleteRow, Push, Query, ReadRow, WriteRows, Lock, CreateTable,
   CreateHypertable, CreateIndex, Makes, Insert, Call, Select, PopulateTsFields,
   WriteRowsFails, AddFails, Kept, DeActivate, vars

\* Each table of points is a log that takes whole batches and forgets none
\* (AddTSDB's transaction, whatever fails in it).
THEOREM TablesAreLogs == Spec => ImplementsPointLog
<1>1. Init => Log!Init
    <2>. SUFFICES ASSUME Init PROVE Log!Init
        OBVIOUS
    <2>1. \A r \in Request : DOMAIN req[r].list = {}
        BY DEF Init, Idle
    <2>. QED BY <2>1 DEF Init, Log!Init, Log!Zero, Zero
<1>2. TypeOK /\ LoadInv /\ [Next]_vars => [Log!Next]_<<points, Offered>>
    <2>. SUFFICES ASSUME TypeOK, LoadInv, [Next]_vars
                  PROVE  [Log!Next]_<<points, Offered>>
        OBVIOUS
    <2>1. Offered \subseteq Offered' /\ Offered' \in SUBSET Bag
        <3>1. TypeOK'
            BY NextType
        <3>2. (TypeOK => Offered \in SUBSET Bag)'
            BY OfferedAreBags, PTL
        <3>. QED BY <3>1, <3>2, NextLoads
    <2>2. CASE UNCHANGED points
        <3>1. Log!Offer
            BY <2>1, <2>2 DEF Log!Offer, Log!Bag, Bag, Offered
        <3>. QED BY <3>1 DEF Log!Next
    <2>3. CASE \E r \in Request : CommitPoints(r)
        <3>1. PICK r \in Request : CommitPoints(r)
            BY <2>3
        <3>2. CASE \E d \in Database, load \in Offered :
                       points' = [points EXCEPT ![d] = Plus(@, load)]
            <4>1. \E d \in Database, load \in Offered : Log!Add(d, load)
                BY <3>1, <3>2, ListsStay DEF Log!Add, Log!Plus, Plus, Offered
            <4>. QED BY <4>1 DEF Log!Next, Offered
        <3>. QED BY <3>1, <3>2, <2>2, CommitAdds
    <2>. QED BY <2>2, <2>3, PointsStay
<1>3. [Log!Next]_<<points, Offered>> <=> [Log!Next]_<<points,
          UNION {{req[r].list[i].points : i \in DOMAIN req[r].list} : r \in Request}>>
    BY DEF Offered
<1>. QED BY <1>1, <1>2, <1>3, InitType, NextType, InitLoads, NextLoads, PTL
        DEF Spec, ImplementsPointLog, Log!Spec

-----------------------------------------------------------------------------
(* Sums.  SumFunction takes the numbers of a finite function one by one,   *)
(* each time one that CHOOSE finds.  What is proved of it by induction is  *)
(* proved of a smallest set of which it would be false (WFMin).            *)

Pick(s) == CHOOSE x \in s : TRUE

\* g has the sum of f over each subset of t.
Totals(g, f, t) ==
    /\ g \in [SUBSET t -> Nat]
    /\ \A s \in SUBSET t :
          g[s] = IF s = {} THEN 0 ELSE f[Pick(s)] + g[s \ {Pick(s)}]

\* What two functions have in common on s.
Under(f, e, s) == \A x \in s : f[x] \in Nat /\ e[x] \in Nat /\ f[x] <= e[x]
Same(f, e, s) == \A x \in s : f[x] \in Nat /\ e[x] = f[x]

Nats(S) == [S -> Nat]

LEMMA Picked == ASSUME NEW s, s # {} PROVE Pick(s) \in s
BY DEF Pick

\* Among sets of elements of a finite set there is a smallest one.
LEMMA Smallest ==
    ASSUME NEW S, IsFiniteSet(S), NEW F \in SUBSET (SUBSET S), F # {}
    PROVE  \E m \in F : \A s \in SUBSET m : s # m => s \notin F
<1>1. IsWellFoundedOn(StrictSubsetOrdering(S), SUBSET S)
    BY FS_StrictSubsetOrderingWellFounded, FS_FiniteSubsetsOfFinite
<1>2. PICK m \in F : \A s \in F : <<s, m>> \notin StrictSubsetOrdering(S)
    BY <1>1, WFMin
<1>. QED BY <1>2 DEF StrictSubsetOrdering

\* Sums depend on nothing but the numbers, and grow with them.
LEMMA TotalsBelow ==
    ASSUME NEW S, IsFiniteSet(S), NEW t \in SUBSET S, NEW u \in SUBSET S,
           NEW f, NEW e, NEW g, NEW h, Totals(g, f, t), Totals(h, e, u),
           NEW s \in SUBSET t, s \in SUBSET u,
           Under(f, e, s)
    PROVE  g[s] <= h[s]
<1>. DEFINE F == {q \in SUBSET s : ~(g[q] <= h[q])}
<1>1. SUFFICES ASSUME F # {} PROVE FALSE
    OBVIOUS
<1>2. F \in SUBSET (SUBSET S)
    OBVIOUS
<1>3. PICK m \in F : \A q \in SUBSET m : q # m => q \notin F
    <2>. HIDE DEF F
    <2>. QED BY <1>1, <1>2, Smallest
<1>4. m # {}
    <2>1. g[{}] = 0 /\ h[{}] = 0
        BY {} \in SUBSET t, {} \in SUBSET u DEF Totals
    <2>2. g[{}] <= h[{}]
        BY <2>1
    <2>. QED BY <2>2
<1>5. Pick(m) \in m
    BY <1>4, Picked
<1>. DEFINE n == m \ {Pick(m)}
<1>6. g[n] <= h[n]
    <2>1. n \in SUBSET m /\ n # m /\ n \in SUBSET s
        BY <1>5
    <2>. QED BY <2>1, <1>3
<1>7. g[m] = f[Pick(m)] + g[n] /\ h[m] = e[Pick(m)] + h[n]
    BY <1>4 DEF Totals
<1>8. g[n] \in Nat /\ h[n] \in Nat
    BY DEF Totals
<1>. QED BY <1>5, <1>6, <1>7, <1>8 DEF Under

LEMMA TotalsAgree ==
    ASSUME NEW S, IsFiniteSet(S), NEW t \in SUBSET S, NEW u \in SUBSET S,
           NEW f, NEW e, NEW g, NEW h, Totals(g, f, t), Totals(h, e, u),
           NEW s \in SUBSET t, s \in SUBSET u,
           Same(f, e, s)
    PROVE  g[s] = h[s]
<1>1. g[s] <= h[s]
    <2>1. Under(f, e, s)
        BY DEF Under, Same
    <2>. QED BY <2>1, TotalsBelow
<1>2. h[s] <= g[s]
    <2>1. Under(e, f, s)
        BY DEF Under, Same
    <2>. QED BY <2>1, TotalsBelow
<1>3. g[s] \in Nat /\ h[s] \in Nat
    BY DEF Totals
<1>. QED BY <1>1, <1>3, <1>2

\* The sums exist: those over m from those over the sets below m.
LEMMA TotalsExist ==
    ASSUME NEW S, IsFiniteSet(S), NEW f \in [S -> Nat]
    PROVE  \E g : Totals(g, f, S)
<1>. DEFINE F == {t \in SUBSET S : ~\E g : Totals(g, f, t)}
<1>1. SUFFICES ASSUME F # {} PROVE FALSE
    OBVIOUS
<1>2. PICK m \in F : \A q \in SUBSET m : q # m => q \notin F
    <2>1. F \in SUBSET (SUBSET S)
        OBVIOUS
    <2>. HIDE DEF F
    <2>. QED BY <1>1, <2>1, Smallest
<1>. DEFINE Of(q) == CHOOSE g : Totals(g, f, q)
            W == [s \in SUBSET m |-> IF s = {} THEN 0
                    ELSE f[Pick(s)] + Of(s \ {Pick(s)})[s \ {Pick(s)}]]
<1>3. ASSUME NEW q \in SUBSET m, q # m
      PROVE  Totals(Of(q), f, q)
    BY <1>2, <1>3
<1>. HIDE DEF Of
<1>4. ASSUME NEW s \in SUBSET m, s # {}
      PROVE  /\ W[s] \in Nat
             /\ W[s] = f[Pick(s)] + W[s \ {Pick(s)}]
    <2>. DEFINE q == s \ {Pick(s)}
    <2>1. Pick(s) \in s
        BY <1>4, Picked
    <2>2. Totals(Of(q), f, q)
        BY <1>3, <2>1
    <2>3. Of(q)[q] \in Nat
        BY <2>2 DEF Totals
    <2>4. W[s] = f[Pick(s)] + Of(q)[q]
        BY <1>4
    <2>5. Of(q)[q] = W[q]
        <3>1. CASE q = {}
            BY <3>1, <2>2 DEF Totals
        <3>2. CASE q # {}
            <4>. DEFINE n == q \ {Pick(q)}
            <4>1. Pick(q) \in q
                BY <3>2, Picked
            <4>2. Totals(Of(n), f, n)
                BY <1>3, <4>1, <2>1
            <4>3. Of(q)[n] = Of(n)[n]
                <5>1. m \in SUBSET S
                    BY <1>2
                <5>. HIDE DEF F, W
                <5>2. q \in SUBSET S /\ n \in SUBSET S /\ n \in SUBSET q
                    BY <5>1
                <5>. HIDE DEF q, n
                <5>3. Same(f, f, n)
                    BY <5>2 DEF Same
                <5>. QED BY <5>2, <5>3, <2>2, <4>2, TotalsAgree
            <4>4. Of(q)[q] = f[Pick(q)] + Of(q)[n]
                BY <2>2, <3>2 DEF Totals
            <4>. QED BY <4>3, <4>4, <3>2
        <3>. QED BY <3>1, <3>2
    <2>. QED BY <2>1, <2>3, <2>4, <2>5
<1>5. Totals(W, f, m)
    BY <1>4 DEF Totals
<1>. QED BY <1>5

\* SumFunction is one of them: it names by CHOOSE what was shown to exist.
LEMMA SumIsTotal ==
    ASSUME NEW S, IsFiniteSet(S), NEW f \in [S -> Nat]
    PROVE  \E g : Totals(g, f, S) /\ SumFunction(f) = g[S]
<1>. DEFINE Rec(g) == g = [s \in SUBSET S |-> IF s = {} THEN 0
                                 ELSE f[Pick(s)] + g[s \ {Pick(s)}]]
            c == CHOOSE g : Rec(g)
<1>1. PICK w : Totals(w, f, S)
    BY TotalsExist
<1>2. Rec(w)
    BY <1>1 DEF Totals
<1>3. Rec(c)
    BY <1>2
<1>4. SumFunction(f) = c[S]
    BY DOMAIN f = S DEF SumFunction, SumFunctionOnSet, FoldFunctionOnSet, MapThenFoldSet, Pick
<1>5. c \in [SUBSET S -> Nat]
    <2>. DEFINE F == {q \in SUBSET S : c[q] \notin Nat}
    <2>1. SUFFICES ASSUME F # {} PROVE FALSE
        BY <1>3
    <2>2. PICK m \in F : \A q \in SUBSET m : q # m => q \notin F
        <3>1. F \in SUBSET (SUBSET S)
            OBVIOUS
        <3>. HIDE DEF F
        <3>. QED BY <2>1, <3>1, Smallest
    <2>3. c[m] = IF m = {} THEN 0 ELSE f[Pick(m)] + c[m \ {Pick(m)}]
        <3>. HIDE DEF c
        <3>. QED BY <1>3
    <2>4. CASE m = {}
        BY <2>3, <2>4
    <2>5. CASE m # {}
        <3>1. Pick(m) \in m
            BY <2>5, Picked
        <3>2. c[m \ {Pick(m)}] \in Nat
            BY <3>1, <2>2
        <3>. QED BY <3>1, <3>2, <2>3, <2>5
    <2>. QED BY <2>4, <2>5
<1>6. Totals(c, f, S)
    <2>. HIDE DEF c
    <2>. QED BY <1>3, <1>5 DEF Totals
<1>. QED BY <1>4, <1>6

\* The order in which a sum is taken does not matter.
LEMMA AnyFirst ==
    ASSUME NEW S, IsFiniteSet(S), NEW f \in [S -> Nat], NEW g, Totals(g, f, S),
           NEW s \in SUBSET S, NEW y \in s
    PROVE  g[s] = f[y] + g[s \ {y}]
<1>. DEFINE F == {q \in SUBSET S : \E x \in q : g[q] # f[x] + g[q \ {x}]}
<1>1. SUFFICES ASSUME F # {} PROVE FALSE
    OBVIOUS
<1>2. PICK m \in F : \A q \in SUBSET m : q # m => q \notin F
    <2>1. F \in SUBSET (SUBSET S)
        OBVIOUS
    <2>. HIDE DEF F
    <2>. QED BY <1>1, <2>1, Smallest
<1>3. PICK x \in m : g[m] # f[x] + g[m \ {x}]
    OBVIOUS
<1>. DEFINE z == Pick(m)
<1>4. z \in m
    BY Picked
<1>. HIDE DEF z
<1>5. g[m] = f[z] + g[m \ {z}]
    BY DEF Totals, z
<1>6. x # z
    BY <1>3, <1>5
<1>. DEFINE a == m \ {x}
            b == m \ {z}
            c == m \ {x, z}
<1>7. a \in SUBSET S /\ b \in SUBSET S /\ c \in SUBSET S /\ z \in a /\ x \in b
      /\ a \ {z} = c /\ b \ {x} = c /\ a # m /\ b # m /\ a \in SUBSET m /\ b \in SUBSET m
    BY <1>4, <1>6
<1>8. a \notin F /\ b \notin F
    BY <1>2, <1>7
<1>9. g[a] = f[z] + g[c] /\ g[b] = f[x] + g[c]
    <2>. HIDE DEF a, b, c
    <2>. QED BY <1>7, <1>8
<1>10. f[x] \in Nat /\ f[z] \in Nat /\ g[c] \in Nat
    BY <1>4, <1>7 DEF Totals
<1>. QED BY <1>3, <1>5, <1>9, <1>10

LEMMA SumIsNat ==
    ASSUME NEW S, IsFiniteSet(S), NEW f \in [S -> Nat]
    PROVE  SumFunction(f) \in Nat
<1>1. PICK g : Totals(g, f, S) /\ SumFunction(f) = g[S]
    BY SumIsTotal
<1>. QED BY <1>1, S \in SUBSET S DEF Totals

LEMMA SumOfNone ==
    ASSUME NEW f \in [{} -> Nat]
    PROVE  SumFunction(f) = 0
BY SumIsTotal, FS_EmptySet DEF Totals

LEMMA SumOfZeros ==
    ASSUME NEW S, IsFiniteSet(S), NEW f \in [S -> Nat], \A x \in S : f[x] = 0
    PROVE  SumFunction(f) = 0
<1>1. PICK g : Totals(g, f, S) /\ SumFunction(f) = g[S]
    BY SumIsTotal
<1>. DEFINE h == [s \in SUBSET S |-> 0]
<1>2. Totals(h, f, S)
    <2>1. ASSUME NEW s \in SUBSET S, s # {}
          PROVE  h[s] = f[Pick(s)] + h[s \ {Pick(s)}]
        BY <2>1, Picked
    <2>. QED BY <2>1 DEF Totals
<1>3. h[S] = 0
    OBVIOUS
<1>. HIDE DEF h
<1>4. g[S] = h[S]
    <2>1. Same(f, f, S) /\ S \in SUBSET S
        BY DEF Same
    <2>. QED BY <1>1, <1>2, <2>1, TotalsAgree
<1>. QED BY <1>1, <1>3, <1>4

\* A sum with more in it is larger.
LEMMA SumGrows ==
    ASSUME NEW S, IsFiniteSet(S), NEW f \in [S -> Nat], NEW e \in [S -> Nat],
           \A x \in S : f[x] <= e[x]
    PROVE  /\ SumFunction(f) <= SumFunction(e)
           /\ \A x \in S : f[x] < e[x] => SumFunction(f) < SumFunction(e)
<1>1. PICK g : Totals(g, f, S) /\ SumFunction(f) = g[S]
    BY SumIsTotal
<1>2. PICK h : Totals(h, e, S) /\ SumFunction(e) = h[S]
    BY SumIsTotal
<1>3. ASSUME NEW s \in SUBSET S
      PROVE  g[s] <= h[s]
    <2>1. Under(f, e, s)
        BY DEF Under
    <2>. QED BY <2>1, <1>1, <1>2, TotalsBelow
<1>4. ASSUME NEW x \in S, f[x] < e[x]
      PROVE  g[S] < h[S]
    <2>1. g[S] = f[x] + g[S \ {x}] /\ h[S] = e[x] + h[S \ {x}]
        BY <1>1, <1>2, AnyFirst
    <2>2. g[S \ {x}] \in Nat /\ h[S \ {x}] \in Nat /\ f[x] \in Nat /\ e[x] \in Nat
        BY <1>1, <1>2 DEF Totals
    <2>3. g[S \ {x}] <= h[S \ {x}]
        BY <1>3
    <2>. QED BY <2>1, <2>2, <2>3, <1>4
<1>. QED BY <1>1, <1>2, <1>3, <1>4

\* A sum in which one number changes changes by as much.
LEMMA SumChanges ==
    ASSUME NEW S, IsFiniteSet(S), NEW f \in [S -> Nat], NEW e \in [S -> Nat], NEW y \in S,
           \A x \in S \ {y} : e[x] = f[x]
    PROVE  SumFunction(e) + f[y] = SumFunction(f) + e[y]
<1>1. PICK g : Totals(g, f, S) /\ SumFunction(f) = g[S]
    BY SumIsTotal
<1>2. PICK h : Totals(h, e, S) /\ SumFunction(e) = h[S]
    BY SumIsTotal
<1>3. g[S] = f[y] + g[S \ {y}] /\ h[S] = e[y] + h[S \ {y}]
    <2>1. S \in SUBSET S
        OBVIOUS
    <2>2. g[S] = f[y] + g[S \ {y}]
        BY <1>1, <2>1, AnyFirst
    <2>. QED BY <1>2, <2>1, <2>2, AnyFirst
<1>4. g[S \ {y}] = h[S \ {y}]
    <2>1. Same(f, e, S \ {y}) /\ S \in SUBSET S /\ S \ {y} \in SUBSET S
        BY DEF Same
    <2>. QED BY <2>1, <1>1, <1>2, TotalsAgree
<1>5. g[S \ {y}] \in Nat /\ f[y] \in Nat /\ e[y] \in Nat
    BY <1>1 DEF Totals
<1>. QED BY <1>1, <1>2, <1>3, <1>4, <1>5

\* A sum of one number more.
LEMMA SumOfMore ==
    ASSUME NEW T, IsFiniteSet(T), NEW k \in T, NEW S, S = T \ {k},
           NEW f \in Nats(S), NEW e \in Nats(T), \A i \in S : e[i] = f[i]
    PROVE  SumFunction(e) = SumFunction(f) + e[k]
<1>. USE DEF Nats
<1>1. IsFiniteSet(S) /\ S \in SUBSET S /\ S \in SUBSET T /\ T \in SUBSET T
    BY FS_RemoveElement
<1>2. PICK g : Totals(g, f, S) /\ SumFunction(f) = g[S]
    BY <1>1, SumIsTotal
<1>3. PICK h : Totals(h, e, T) /\ SumFunction(e) = h[T]
    BY SumIsTotal
<1>4. h[T] = e[k] + h[S]
    BY <1>1, <1>3, AnyFirst
<1>5. g[S] = h[S]
    <2>1. Same(f, e, S)
        BY DEF Same
    <2>2. Totals(g, f, S) /\ Totals(h, e, T)
        BY <1>2, <1>3
    <2>. QED BY <2>1, <2>2, <1>1, TotalsAgree
<1>6. g[S] \in Nat /\ e[k] \in Nat
    BY <1>1, <1>2 DEF Totals
<1>. QED BY <1>2, <1>3, <1>4, <1>5, <1>6

LEMMA SumOfNext ==
    ASSUME NEW n \in Nat, NEW f \in [1..n -> Nat], NEW e \in [1..(n + 1) -> Nat],
           \A i \in 1..n : e[i] = f[i]
    PROVE  SumFunction(e) = SumFunction(f) + e[n + 1]
<1>1. IsFiniteSet(1..(n + 1))
    BY FS_Interval
<1>2. 1..n = (1..(n + 1)) \ {n + 1} /\ n + 1 \in 1..(n + 1)
    OBVIOUS
<1>. DEFINE T == 1..(n + 1)
            S == 1..n
            k == n + 1
<1>3. S = T \ {k} /\ k \in T /\ IsFiniteSet(T) /\ f \in Nats(S) /\ e \in Nats(T)
      /\ \A i \in S : e[i] = f[i]
    BY <1>1, <1>2 DEF Nats
<1>. HIDE DEF S, T, k
<1>4. SumFunction(e) = SumFunction(f) + e[k]
    BY <1>3, SumOfMore
<1>. QED BY <1>4 DEF k

-----------------------------------------------------------------------------
(* What was sent is added once, and what was accepted is there             *)

\* The batches that r has gone beyond, well or not.
GoneOf(x) ==
    IF x.list = <<>> THEN 0
    ELSE IF x.pc \in {"rows", "call", "lock"} \cup InAdd THEN x.i - 1 ELSE x.i
Gone(r) == GoneOf(req[r])

AcceptedOf(x) ==
    IF x.lost THEN 0
    ELSE IF x.pc = "done" THEN Len(x.list)
    ELSE IF x.list = <<>> \/ x.pc = "panicked" THEN 0 ELSE x.i - 1

\* A request that has a list is at a batch of it, and one that reads has none
\* and has a key.
Listed(x) ==
    /\ x.list # <<>> => x.i \in 1..Len(x.list)
    /\ x.pc \in {"idle", "select", "populate"} => x.list = <<>>
    /\ x.pc \in {"select", "populate"} => x.key \in Key
ListInv == \A r \in Request : Listed(req[r])

\* A table has no more than the batches that are behind the requests brought.
AddedInv == \A d \in Database, p \in Point : points[d][p] <= SentByAll(d, p, Gone)

\* What r sends to d of p in its first n batches, and what its next one has.
SentOf(x, h, d, p, n) ==
    IF x.list = <<>> \/ h[ViaOf(x)] # d THEN 0
    ELSE SumFunction([i \in 1..n |-> x.list[i].points[p]])

LEMMA SentIs ==
    ASSUME NEW r \in Request, NEW d, NEW p, NEW n
    PROVE  /\ Sent(r, d, p, n) = SentOf(req[r], home, d, p, n)
           /\ Accepted(r) = AcceptedOf(req[r])
BY DEF Sent, SentOf, Db, Via, ViaOf, Accepted, AcceptedOf, At

LEMMA SentIsNat ==
    ASSUME NEW x \in RequestRecord, NEW h, NEW d, NEW p \in Point,
           NEW n \in Nat, n <= Len(x.list) \/ x.list = <<>>
    PROVE  SentOf(x, h, d, p, n) \in Nat
<1>1. CASE x.list = <<>> \/ h[ViaOf(x)] # d
    BY <1>1 DEF SentOf
<1>2. CASE ~(x.list = <<>> \/ h[ViaOf(x)] # d)
    <2>. DEFINE f == [i \in 1..n |-> x.list[i].points[p]]
    <2>1. ASSUME NEW i \in 1..n
          PROVE  x.list[i].points[p] \in Nat
        <3>1. x.list \in Seq(Batch) /\ i \in 1..Len(x.list)
            BY <1>2 DEF RequestRecord
        <3>2. x.list[i] \in Batch
            BY <3>1
        <3>. QED BY <3>2 DEF Batch, Bag
    <2>2. f \in [1..n -> Nat]
        BY <2>1
    <2>3. IsFiniteSet(1..n)
        BY FS_Interval
    <2>. HIDE DEF f
    <2>4. SumFunction(f) \in Nat
        BY <2>2, <2>3, SumIsNat
    <2>. QED BY <1>2, <2>4 DEF SentOf, f
<1>. QED BY <1>1, <1>2

LEMMA SentOfNone ==
    ASSUME NEW x, NEW h, NEW d, NEW p
    PROVE  SentOf(x, h, d, p, 0) = 0
<1>. DEFINE f == [i \in 1..0 |-> x.list[i].points[p]]
<1>1. f \in [{} -> Nat]
    OBVIOUS
<1>. HIDE DEF f
<1>2. SumFunction(f) = 0
    BY <1>1, SumOfNone
<1>. QED BY <1>2 DEF SentOf, f

LEMMA SentOfNext ==
    ASSUME NEW x \in RequestRecord, NEW h, NEW d, NEW p \in Point,
           NEW n \in Nat, n + 1 <= Len(x.list), x.list # <<>>
    PROVE  SentOf(x, h, d, p, n + 1) = SentOf(x, h, d, p, n)
               + (IF h[ViaOf(x)] = d THEN x.list[n + 1].points[p] ELSE 0)
<1>. DEFINE f == [i \in 1..n |-> x.list[i].points[p]]
            e == [i \in 1..(n + 1) |-> x.list[i].points[p]]
<1>1. ASSUME NEW i \in 1..(n + 1)
      PROVE  x.list[i].points[p] \in Nat
    <2>1. x.list \in Seq(Batch) /\ i \in 1..Len(x.list)
        BY DEF RequestRecord
    <2>2. x.list[i] \in Batch
        BY <2>1
    <2>. QED BY <2>2 DEF Batch, Bag
<1>2. f \in [1..n -> Nat] /\ e \in [1..(n + 1) -> Nat] /\ e[n + 1] = x.list[n + 1].points[p]
      /\ \A i \in 1..n : e[i] = f[i]
    BY <1>1
<1>3. CASE h[ViaOf(x)] = d
    <2>. HIDE DEF f, e
    <2>1. SumFunction(e) = SumFunction(f) + e[n + 1]
        BY <1>2, SumOfNext
    <2>2. SentOf(x, h, d, p, n + 1) = SumFunction(e) /\ SentOf(x, h, d, p, n) = SumFunction(f)
        BY <1>3 DEF SentOf, e, f
    <2>. QED BY <1>2, <1>3, <2>1, <2>2
<1>4. CASE h[ViaOf(x)] # d
    BY <1>4 DEF SentOf
<1>. QED BY <1>3, <1>4

\* A step that brings no points: of a batch without points, or to the end of
\* one that is given up.
Moves(x, y) ==
    /\ x.list # <<>> =>
          /\ y.list = x.list /\ y.op = x.op
          /\ GoneOf(y) \in {GoneOf(x), GoneOf(x) + 1}
    /\ \/ AcceptedOf(y) = 0
       \/ x.list # <<>> /\ AcceptedOf(y) = AcceptedOf(x)
       \/ /\ x.list # <<>> /\ AcceptedOf(y) = AcceptedOf(x) + 1
          /\ x.list[AcceptedOf(y)].points = Zero

\* The end of a batch whose points are in the table.
Commits(x, y) ==
    /\ x.list # <<>> /\ y.list = x.list /\ y.op = x.op
    /\ GoneOf(x) = x.i - 1 /\ GoneOf(y) = x.i
    /\ AcceptedOf(y) = 0 \/ (AcceptedOf(y) = x.i /\ AcceptedOf(x) = x.i - 1)

LEMMA MarksType ==
    ASSUME NEW x, Sound(x), Listed(x)
    PROVE  /\ GoneOf(x) \in Nat /\ AcceptedOf(x) \in Nat
           /\ x.list # <<>> => GoneOf(x) <= Len(x.list) /\ AcceptedOf(x) <= Len(x.list)
           /\ x.list = <<>> => GoneOf(x) = 0 /\ AcceptedOf(x) = 0
<1>1. x.list \in Seq(Batch) /\ Len(x.list) \in Nat /\ Len(<<>>) = 0
    BY DEF Sound, RequestRecord
<1>2. CASE x.list # <<>>
    BY <1>1, <1>2 DEF GoneOf, AcceptedOf, Listed
<1>3. CASE x.list = <<>>
    BY <1>1, <1>3 DEF GoneOf, AcceptedOf
<1>. QED BY <1>2, <1>3

LEMMA SentIsSame ==
    ASSUME NEW x, NEW y, y.list = x.list, y.op = x.op
    PROVE  \A h, d, p, n : SentOf(y, h, d, p, n) = SentOf(x, h, d, p, n)
BY DEF SentOf, ViaOf

LEMMA MovesSums ==
    ASSUME NEW x, NEW y, Sound(x), Sound(y), Listed(x), Listed(y), Moves(x, y),
           NEW h, NEW d, NEW p \in Point
    PROVE  /\ SentOf(x, h, d, p, GoneOf(x)) <= SentOf(y, h, d, p, GoneOf(y))
           /\ SentOf(y, h, d, p, AcceptedOf(y)) <= SentOf(x, h, d, p, AcceptedOf(x))
<1>1. x \in RequestRecord /\ y \in RequestRecord
    BY DEF Sound
<1>2. /\ SentOf(x, h, d, p, GoneOf(x)) \in Nat /\ SentOf(y, h, d, p, GoneOf(y)) \in Nat
      /\ SentOf(x, h, d, p, AcceptedOf(x)) \in Nat
      /\ SentOf(y, h, d, p, AcceptedOf(y)) \in Nat
    BY <1>1, MarksType, SentIsNat
<1>3. SentOf(x, h, d, p, GoneOf(x)) <= SentOf(y, h, d, p, GoneOf(y))
    <2>1. CASE x.list = <<>>
        <3>1. SentOf(x, h, d, p, GoneOf(x)) = 0
            BY <2>1 DEF SentOf
        <3>. QED BY <3>1, <1>2
    <2>2. CASE x.list # <<>>
        <3>1. \A n : SentOf(y, h, d, p, n) = SentOf(x, h, d, p, n)
            BY <2>2, SentIsSame DEF Moves
        <3>2. CASE GoneOf(y) = GoneOf(x)
            BY <3>1, <3>2, <1>2
        <3>3. CASE GoneOf(y) = GoneOf(x) + 1
            <4>1. GoneOf(x) \in Nat /\ GoneOf(x) + 1 <= Len(x.list)
                BY <2>2, <3>3, MarksType DEF Moves
            <4>2. SentOf(x, h, d, p, GoneOf(x) + 1) = SentOf(x, h, d, p, GoneOf(x))
                      + (IF h[ViaOf(x)] = d THEN x.list[GoneOf(x) + 1].points[p] ELSE 0)
                BY <1>1, <2>2, <4>1, SentOfNext
            <4>3. x.list[GoneOf(x) + 1].points[p] \in Nat
                <5>1. x.list \in Seq(Batch) /\ GoneOf(x) + 1 \in 1..Len(x.list)
                    BY <1>1, <4>1 DEF RequestRecord
                <5>2. x.list[GoneOf(x) + 1] \in Batch
                    BY <5>1
                <5>. QED BY <5>2 DEF Batch, Bag
            <4>. QED BY <1>2, <3>1, <3>3, <4>2, <4>3
        <3>. QED BY <2>2, <3>2, <3>3 DEF Moves
    <2>. QED BY <2>1, <2>2
<1>4. SentOf(y, h, d, p, AcceptedOf(y)) <= SentOf(x, h, d, p, AcceptedOf(x))
    <2>1. CASE AcceptedOf(y) = 0
        <3>1. SentOf(y, h, d, p, AcceptedOf(y)) = 0
            BY <2>1, SentOfNone
        <3>. QED BY <3>1, <1>2
    <2>2. CASE x.list # <<>> /\ AcceptedOf(y) = AcceptedOf(x)
        <3>1. \A n : SentOf(y, h, d, p, n) = SentOf(x, h, d, p, n)
            BY <2>2, SentIsSame DEF Moves
        <3>. QED BY <3>1, <2>2, <1>2
    <2>3. CASE /\ x.list # <<>> /\ AcceptedOf(y) = AcceptedOf(x) + 1
               /\ x.list[AcceptedOf(y)].points = Zero
        <3>1. \A n : SentOf(y, h, d, p, n) = SentOf(x, h, d, p, n)
            BY <2>3, SentIsSame DEF Moves
        <3>2. AcceptedOf(x) \in Nat /\ AcceptedOf(x) + 1 <= Len(x.list)
            BY <2>3, MarksType DEF Moves
        <3>3. SentOf(x, h, d, p, AcceptedOf(x) + 1) = SentOf(x, h, d, p, AcceptedOf(x))
                  + (IF h[ViaOf(x)] = d THEN x.list[AcceptedOf(x) + 1].points[p] ELSE 0)
            BY <1>1, <2>3, <3>2, SentOfNext
        <3>4. x.list[AcceptedOf(x) + 1].points[p] = 0
            BY <2>3 DEF Zero
        <3>. QED BY <1>2, <2>3, <3>1, <3>3, <3>4
    <2>. QED BY <2>1, <2>2, <2>3 DEF Moves
<1>. QED BY <1>3, <1>4

LEMMA CommitsSums ==
    ASSUME NEW x, NEW y, Sound(x), Sound(y), Listed(x), Listed(y), Commits(x, y),
           NEW h, NEW d, NEW p \in Point
    PROVE  LET more == IF h[ViaOf(x)] = d THEN x.list[x.i].points[p] ELSE 0
           IN  /\ SentOf(y, h, d, p, GoneOf(y)) = SentOf(x, h, d, p, GoneOf(x)) + more
               /\ SentOf(y, h, d, p, AcceptedOf(y))
                      <= SentOf(x, h, d, p, AcceptedOf(x)) + more
               /\ more \in Nat
<1>. DEFINE more == IF h[ViaOf(x)] = d THEN x.list[x.i].points[p] ELSE 0
<1>1. x \in RequestRecord /\ y \in RequestRecord
    BY DEF Sound
<1>2. /\ SentOf(x, h, d, p, AcceptedOf(x)) \in Nat
      /\ SentOf(y, h, d, p, AcceptedOf(y)) \in Nat
    BY <1>1, MarksType, SentIsNat
<1>3. x.i \in 1..Len(x.list) /\ x.list \in Seq(Batch) /\ x.i \in Nat
    BY <1>1 DEF Commits, Listed, RequestRecord
<1>4. more \in Nat
    <2>1. x.list[x.i] \in Batch
        BY <1>3
    <2>. QED BY <2>1 DEF Batch, Bag
<1>5. \A n : SentOf(y, h, d, p, n) = SentOf(x, h, d, p, n)
    BY SentIsSame DEF Commits
<1>6. SentOf(x, h, d, p, x.i) = SentOf(x, h, d, p, x.i - 1) + more
    <2>. DEFINE n == x.i - 1
    <2>1. n \in Nat /\ n + 1 = x.i /\ n + 1 <= Len(x.list) /\ x.list # <<>>
        BY <1>3 DEF Commits
    <2>. HIDE DEF n
    <2>2. SentOf(x, h, d, p, n + 1) = SentOf(x, h, d, p, n)
              + (IF h[ViaOf(x)] = d THEN x.list[n + 1].points[p] ELSE 0)
        BY <1>1, <2>1, SentOfNext
    <2>3. SentOf(x, h, d, p, x.i) = SentOf(x, h, d, p, n) + more
        BY <2>1, <2>2
    <2>. QED BY <2>3 DEF n
<1>. HIDE DEF more
<1>7. SentOf(y, h, d, p, GoneOf(y)) = SentOf(x, h, d, p, GoneOf(x)) + more
    BY <1>5, <1>6 DEF Commits
<1>8. SentOf(y, h, d, p, AcceptedOf(y)) <= SentOf(x, h, d, p, AcceptedOf(x)) + more
    <2>1. CASE AcceptedOf(y) = 0
        <3>1. SentOf(y, h, d, p, AcceptedOf(y)) = 0
            BY <2>1, SentOfNone
        <3>. QED BY <3>1, <1>2, <1>4
    <2>2. CASE AcceptedOf(y) = x.i /\ AcceptedOf(x) = x.i - 1
        <3>1. SentOf(y, h, d, p, AcceptedOf(y))
                  = SentOf(x, h, d, p, AcceptedOf(x)) + more
            BY <1>5, <1>6, <2>2
        <3>. QED BY <3>1, <1>2, <1>4
    <2>. QED BY <2>1, <2>2 DEF Commits
<1>. QED BY <1>4, <1>7, <1>8 DEF more

\* The end of a batch, well or with its points lost.
LEMMA AdvanceMarks ==
    ASSUME NEW r \in Request, NEW x \in RequestRecord, x.i \in 1..Len(x.list), Advance(r, x)
    PROVE  \E y : /\ Become(r, y) /\ Listed(y) /\ y.list = x.list /\ y.op = x.op
                  /\ GoneOf(y) = x.i /\ AcceptedOf(y) = IF x.lost THEN 0 ELSE x.i
<1>1. x.list # <<>> /\ x.i \in Nat /\ Len(x.list) \in Nat /\ x.list \in Seq(Batch)
    BY DEF RequestRecord
<1>2. CASE x.i < Len(x.list)
    <2>. DEFINE y == [x EXCEPT !.pc = "rows", !.i = @ + 1]
    <2>1. y.pc = "rows" /\ y.i = x.i + 1 /\ y.list = x.list /\ y.op = x.op /\ y.lost = x.lost
        BY DEF RequestRecord
    <2>2. Become(r, y)
        BY <1>2 DEF Advance
    <2>. HIDE DEF y
    <2>3. Listed(y) /\ GoneOf(y) = x.i /\ AcceptedOf(y) = IF x.lost THEN 0 ELSE x.i
        BY <1>1, <1>2, <2>1 DEF Listed, GoneOf, AcceptedOf
    <2>. QED BY <2>1, <2>2, <2>3
<1>3. CASE ~(x.i < Len(x.list))
    <2>. DEFINE y == [x EXCEPT !.pc = "done"]
    <2>1. y.pc = "done" /\ y.i = x.i /\ y.list = x.list /\ y.op = x.op /\ y.lost = x.lost
        BY DEF RequestRecord
    <2>2. Become(r, y)
        BY <1>3 DEF Advance
    <2>. HIDE DEF y
    <2>3. Listed(y) /\ GoneOf(y) = x.i /\ AcceptedOf(y) = IF x.lost THEN 0 ELSE x.i
        BY <1>1, <1>3, <2>1 DEF Listed, GoneOf, AcceptedOf, InAdd
    <2>. QED BY <2>1, <2>2, <2>3
<1>. QED BY <1>2, <1>3

\* A request that goes on in its batch, or gives it up.
LEMMA GotoMoves ==
    ASSUME TypeOK, ListInv, NEW r \in Request,
           req[r].pc \in {"rows", "call", "lock"} \cup InAdd,
           NEW y, y.list = req[r].list, y.op = req[r].op, y.i = req[r].i,
           \/ y.pc \in {"call", "lock"} \cup InAdd /\ y.lost = req[r].lost
           \/ y.pc = "lock" /\ y.lost \in BOOLEAN /\ (req[r].lost => y.lost)
           \/ y.pc = "failed" /\ y.lost = req[r].lost
           \/ y.pc = "done" /\ y.lost = TRUE
           \/ y.pc = "panicked"
    PROVE  Listed(y) /\ Moves(req[r], y)
<1>. DEFINE x == req[r]
<1>1. x \in RequestRecord /\ x.i \in 1..Len(x.list) /\ x.lost \in BOOLEAN
    BY RequestType DEF Sound, RequestRecord
<1>2. x.list # <<>> /\ x.i \in Nat /\ x.pc \in {"rows", "call", "lock"} \cup InAdd
    BY <1>1 DEF RequestRecord
<1>. HIDE DEF x
<1>3. y.list = x.list /\ y.op = x.op /\ y.i = x.i
    BY DEF x
<1>4. Listed(y)
    BY <1>1, <1>2, <1>3 DEF Listed, InAdd, x
<1>5. GoneOf(x) = x.i - 1 /\ GoneOf(y) \in {x.i - 1, x.i}
    BY <1>2, <1>3 DEF GoneOf
<1>6. AcceptedOf(x) = IF x.lost THEN 0 ELSE x.i - 1
    BY <1>2 DEF AcceptedOf, InAdd
<1>7. AcceptedOf(y) \in {0, AcceptedOf(x)}
    <2>1. CASE y.lost
        BY <2>1 DEF AcceptedOf
    <2>2. CASE y.pc = "panicked"
        BY <2>2 DEF AcceptedOf
    <2>3. CASE y.pc # "panicked" /\ ~y.lost
        BY <1>1, <1>2, <1>3, <1>6, <2>3 DEF AcceptedOf, InAdd, x
    <2>. QED BY <2>1, <2>2, <2>3
<1>8. Moves(x, y)
    BY <1>2, <1>3, <1>5, <1>7 DEF Moves
<1>. QED BY <1>4, <1>8 DEF x

\* A request that begins, and one that reads.
LEMMA OtherMoves ==
    ASSUME TypeOK, ListInv, NEW r \in Request, req[r].pc \in {"idle", "select", "populate"},
           NEW y, y.pc \in {"select", "populate"} => y.key \in Key,
           \/ y.list = <<>>
           \/ /\ y.list # <<>> /\ y.i = 1 /\ 1 \in 1..Len(y.list)
              /\ y.pc \in {"rows", "call"} \/ (y.pc = "done" /\ y.lost = TRUE)
    PROVE  Listed(y) /\ Moves(req[r], y)
<1>1. req[r].list = <<>>
    BY DEF ListInv, Listed
<1>2. Listed(y)
    BY DEF Listed
<1>3. AcceptedOf(y) = 0
    BY DEF AcceptedOf
<1>. QED BY <1>1, <1>2, <1>3 DEF Moves

Stays(r) == \E y : Become(r, y) /\ Listed(y) /\ Moves(req[r], y)

LEMMA ErrorStays ==
    ASSUME TypeOK, ListInv, NEW r \in Request, req[r].pc \in InAdd, Error(r)
    PROVE  Stays(r)
<1>1. CASE req[r].op = "push"
    <2>. DEFINE y == [req[r] EXCEPT !.pc = "done", !.lost = TRUE]
    <2>1. /\ y.pc = "done" /\ y.lost = TRUE /\ y.list = req[r].list /\ y.op = req[r].op
          /\ y.i = req[r].i
        BY RequestType DEF RequestRecord
    <2>2. Become(r, y)
        BY <1>1 DEF Error
    <2>. HIDE DEF y
    <2>. QED BY <2>1, <2>2, GotoMoves DEF Stays
<1>2. CASE req[r].op # "push"
    <2>. DEFINE y == [req[r] EXCEPT !.pc = "failed"]
    <2>1. /\ y.pc = "failed" /\ y.lost = req[r].lost /\ y.list = req[r].list
          /\ y.op = req[r].op /\ y.i = req[r].i
        BY RequestType DEF RequestRecord
    <2>2. Become(r, y)
        BY <1>2 DEF Error, Goto
    <2>. HIDE DEF y
    <2>. QED BY <2>1, <2>2, GotoMoves DEF Stays
<1>. QED BY <1>1, <1>2

LEMMA GoesOnStays ==
    ASSUME TypeOK, ListInv, NEW r \in Request,
           req[r].pc \in {"rows", "call", "lock"} \cup InAdd,
           NEW pc \in {"lock", "failed", "panicked"} \cup InAdd, Goto(r, pc)
    PROVE  Stays(r)
<1>. DEFINE y == [req[r] EXCEPT !.pc = pc]
<1>1. /\ y.pc = pc /\ y.lost = req[r].lost /\ y.list = req[r].list
      /\ y.op = req[r].op /\ y.i = req[r].i
    BY RequestType DEF RequestRecord
<1>2. Become(r, y)
    BY DEF Goto
<1>. HIDE DEF y
<1>. QED BY <1>1, <1>2, GotoMoves DEF Stays

LEMMA WriteRowsStays ==
    ASSUME TypeOK, ListInv, NEW r \in Request, WriteRows(r)
    PROVE  Stays(r)
<1>1. PICK lost \in BOOLEAN :
          LET x == [req[r] EXCEPT !.lost = @ \/ lost, !.left = ToAdd(r), !.put = Zero]
          IN  IF ThisBatch(r).points = Zero THEN Advance(r, x)
              ELSE Become(r, [x EXCEPT !.pc = "lock"])
    BY DEF WriteRows
<1>. DEFINE x == [req[r] EXCEPT !.lost = @ \/ lost, !.left = ToAdd(r), !.put = Zero]
            y == [x EXCEPT !.pc = "lock"]
<1>2. ToAdd(r) \in Bag
    BY ThisBatchType DEF ToAdd, WriteRows, At
<1>3. req[r].pc = "rows" /\ req[r].i \in 1..Len(req[r].list) /\ req[r] \in RequestRecord
    BY RequestType DEF WriteRows, At, Sound
<1>4. /\ x \in RequestRecord /\ x.list = req[r].list /\ x.i = req[r].i /\ x.op = req[r].op
      /\ x.lost \in BOOLEAN /\ (req[r].lost => x.lost)
    BY <1>2, <1>3, ZeroIsBag DEF RequestRecord
<1>5. CASE ThisBatch(r).points = Zero
    <2>1. Advance(r, x)
        BY <1>1, <1>5
    <2>. HIDE DEF x
    <2>2. PICK z : /\ Become(r, z) /\ Listed(z) /\ z.list = x.list /\ z.op = x.op
                   /\ GoneOf(z) = x.i /\ AcceptedOf(z) = IF x.lost THEN 0 ELSE x.i
        BY <1>3, <1>4, <2>1, AdvanceMarks
    <2>3. req[r].list # <<>> /\ req[r].i \in Nat
        BY <1>3 DEF RequestRecord
    <2>4. GoneOf(req[r]) = req[r].i - 1
        BY <1>3, <2>3 DEF GoneOf
    <2>5. ~req[r].lost => AcceptedOf(req[r]) = req[r].i - 1
        BY <1>3, <2>3 DEF AcceptedOf
    <2>6. req[r].list[req[r].i].points = Zero
        BY <1>5 DEF ThisBatch
    <2>7. GoneOf(z) = GoneOf(req[r]) + 1
        BY <2>2, <2>3, <2>4, <1>4
    <2>8. AcceptedOf(z) = 0 \/ (AcceptedOf(z) = req[r].i /\ AcceptedOf(z) = AcceptedOf(req[r]) + 1)
        BY <2>2, <2>3, <2>5, <1>4
    <2>9. Moves(req[r], z)
        BY <1>4, <2>2, <2>3, <2>6, <2>7, <2>8 DEF Moves
    <2>. QED BY <2>2, <2>9 DEF Stays
<1>6. CASE ThisBatch(r).points # Zero
    <2>1. Become(r, y)
        BY <1>1, <1>6
    <2>. HIDE DEF x
    <2>2. /\ y.pc = "lock" /\ y.list = x.list /\ y.i = x.i /\ y.op = x.op /\ y.lost = x.lost
        BY <1>4 DEF RequestRecord
    <2>. HIDE DEF y
    <2>3. Listed(y) /\ Moves(req[r], y)
        BY <1>3, <1>4, <2>2, GotoMoves
    <2>. QED BY <2>1, <2>3 DEF Stays
<1>. QED BY <1>5, <1>6

LEMMA InsertStays ==
    ASSUME TypeOK, ListInv, NEW r \in Request, Insert(r)
    PROVE  Stays(r)
<1>1. PICK p \in Point : Become(r, [req[r] EXCEPT !.left[p] = @ - 1, !.put[p] = @ + 1])
    BY DEF Insert
<1>. DEFINE left == [req[r].left EXCEPT ![p] = @ - 1]
            put == [req[r].put EXCEPT ![p] = @ + 1]
            y == [req[r] EXCEPT !.left = left, !.put = put]
<1>2. Become(r, y)
    BY <1>1
<1>. HIDE DEF left, put
<1>3. /\ y.pc = "insert" /\ y.list = req[r].list /\ y.i = req[r].i
      /\ y.op = req[r].op /\ y.lost = req[r].lost
    BY RequestType DEF RequestRecord, Insert, At
<1>. HIDE DEF y
<1>4. req[r].pc \in InAdd /\ "insert" \in InAdd
    BY DEF Insert, At, InAdd
<1>. QED BY <1>2, <1>3, <1>4, GotoMoves DEF Stays

LEMMA PushStays ==
    ASSUME TypeOK, ListInv, NEW r \in Request, Push(r)
    PROVE  Stays(r)
<1>1. PICK bag \in Pushes :
          LET x == [Idle EXCEPT !.op = "push", !.list = <<[keys |-> {}, points |-> bag]>>,
                                !.left = bag]
          IN  Become(r, IF open THEN [x EXCEPT !.pc = "call"]
                        ELSE [x EXCEPT !.pc = "done", !.lost = TRUE])
    BY DEF Push
<1>. DEFINE list == <<[keys |-> {}, points |-> bag]>>
            x == [Idle EXCEPT !.op = "push", !.list = list, !.left = bag]
            y == IF open THEN [x EXCEPT !.pc = "call"]
                 ELSE [x EXCEPT !.pc = "done", !.lost = TRUE]
<1>2. list # <<>> /\ 1 \in 1..Len(list)
    OBVIOUS
<1>3. Become(r, y)
    BY <1>1
<1>. HIDE DEF list
<1>4. y.pc = "call" \/ (y.pc = "done" /\ y.lost = TRUE)
    BY DEF Idle
<1>5. y.list = list /\ y.i = 1
    BY DEF Idle
<1>. HIDE DEF y
<1>6. req[r].pc = "idle"
    BY DEF Push, At
<1>. QED BY <1>2, <1>3, <1>4, <1>5, <1>6, OtherMoves DEF Stays

LEMMA BeginStays ==
    ASSUME TypeOK, ListInv, NEW r \in Request,
           BeginWrite(r) \/ DeleteRow(r) \/ Query(r) \/ ReadRow(r)
    PROVE  Stays(r)
<1>1. req[r].pc = "idle"
    BY DEF BeginWrite, DeleteRow, Query, ReadRow, At
<1>2. ASSUME NEW x, Become(r, x), x.list = <<>>,
             x.pc \in {"select", "populate"} => x.key \in Key
      PROVE  Stays(r)
    BY <1>1, <1>2, OtherMoves DEF Stays
<1>3. CASE BeginWrite(r)
    <2>1. PICK list \in Lists \cup Resent :
              Become(r, [Idle EXCEPT !.pc = "rows", !.op = "write", !.list = list])
        BY <1>3 DEF BeginWrite
    <2>2. list # <<>> /\ 1 \in 1..Len(list)
        <3>1. CASE list \in Lists
            BY <3>1, TimeSeriesAssumption
        <3>2. CASE list \in Resent
            <4>1. PICK e : list = <<e>>
                BY <3>2 DEF Resent
            <4>. QED BY <4>1
        <3>. QED BY <3>1, <3>2
    <2>. DEFINE y == [Idle EXCEPT !.pc = "rows", !.op = "write", !.list = list]
    <2>3. Become(r, y)
        BY <2>1
    <2>4. y.pc = "rows" /\ y.list = list /\ y.i = 1
        BY DEF Idle
    <2>. HIDE DEF y
    <2>. QED BY <1>1, <2>2, <2>3, <2>4, OtherMoves DEF Stays
<1>4. CASE DeleteRow(r)
    <2>1. PICK k : Become(r, [Idle EXCEPT !.pc = "done", !.op = "delete", !.key = k])
        BY <1>4 DEF DeleteRow
    <2>. DEFINE y == [Idle EXCEPT !.pc = "done", !.op = "delete", !.key = k]
    <2>2. y.list = <<>> /\ y.pc = "done"
        BY DEF Idle
    <2>. HIDE DEF y
    <2>3. Become(r, y)
        BY <2>1 DEF y
    <2>. QED BY <1>2, <2>2, <2>3
<1>5. CASE Query(r)
    <2>1. PICK k \in Key, from \in Stamp \cup {0}, to \in Stamp \cup {0} :
              LET x == [Idle EXCEPT !.op = "query", !.key = k, !.from = from, !.to = to]
              IN  Become(r, [x EXCEPT !.pc = IF open /\ from # 0 /\ to # 0 THEN "select"
                                             ELSE "failed"])
        BY <1>5 DEF Query
    <2>. DEFINE x == [Idle EXCEPT !.op = "query", !.key = k, !.from = from, !.to = to]
                y == [x EXCEPT !.pc = IF open /\ from # 0 /\ to # 0 THEN "select"
                                      ELSE "failed"]
    <2>2. Become(r, y)
        BY <2>1
    <2>3. y.list = <<>> /\ y.key \in Key
        BY DEF Idle
    <2>. HIDE DEF y
    <2>. QED BY <1>2, <2>2, <2>3
<1>6. CASE ReadRow(r)
    <2>1. PICK k \in Key :
              Become(r, [Idle EXCEPT !.op = "get", !.key = k,
                                     !.pc = IF k \in rows THEN "populate" ELSE "failed"])
        BY <1>6 DEF ReadRow
    <2>. DEFINE y == [Idle EXCEPT !.op = "get", !.key = k,
                                  !.pc = IF k \in rows THEN "populate" ELSE "failed"]
    <2>2. Become(r, y)
        BY <2>1
    <2>3. y.list = <<>> /\ y.key \in Key
        BY DEF Idle
    <2>. HIDE DEF y
    <2>. QED BY <1>2, <2>2, <2>3
<1>. QED BY <1>3, <1>4, <1>5, <1>6

\* A read comes to its end.
LEMMA ReadStays ==
    ASSUME TypeOK, ListInv, NEW r \in Request, Select(r) \/ PopulateTsFields(r)
    PROVE  Stays(r)
<1>1. req[r].pc \in {"select", "populate"}
    BY DEF Select, PopulateTsFields, At
<1>2. req[r].list = <<>>
    BY <1>1 DEF ListInv, Listed
<1>3. PICK y : /\ Become(r, y) /\ y.list = req[r].list
               /\ y.pc \in {"done", "panicked"}
    <2>1. \/ \E f : Become(r, [req[r] EXCEPT !.pc = "done", !.shown = f])
          \/ Become(r, [req[r] EXCEPT !.pc = "done", !.lost = TRUE])
          \/ Become(r, [req[r] EXCEPT !.pc = "panicked"])
        BY DEF Select, PopulateTsFields, Goto
    <2>2. ASSUME NEW f, Become(r, [req[r] EXCEPT !.pc = "done", !.shown = f])
          PROVE  \E y : Become(r, y) /\ y.list = req[r].list /\ y.pc \in {"done", "panicked"}
        <3>. DEFINE y == [req[r] EXCEPT !.pc = "done", !.shown = f]
        <3>1. y.list = req[r].list /\ y.pc = "done"
            BY RequestType DEF RequestRecord
        <3>. QED BY <2>2, <3>1
    <2>3. ASSUME Become(r, [req[r] EXCEPT !.pc = "done", !.lost = TRUE])
          PROVE  \E y : Become(r, y) /\ y.list = req[r].list /\ y.pc \in {"done", "panicked"}
        <3>. DEFINE y == [req[r] EXCEPT !.pc = "done", !.lost = TRUE]
        <3>1. y.list = req[r].list /\ y.pc = "done"
            BY RequestType DEF RequestRecord
        <3>. QED BY <2>3, <3>1
    <2>4. ASSUME Become(r, [req[r] EXCEPT !.pc = "panicked"])
          PROVE  \E y : Become(r, y) /\ y.list = req[r].list /\ y.pc \in {"done", "panicked"}
        <3>. DEFINE y == [req[r] EXCEPT !.pc = "panicked"]
        <3>1. y.list = req[r].list /\ y.pc = "panicked"
            BY RequestType DEF RequestRecord
        <3>. QED BY <2>4, <3>1
    <2>. QED BY <2>1, <2>2, <2>3, <2>4
<1>. QED BY <1>1, <1>2, <1>3, OtherMoves DEF Stays

\* Every step of a request but a commit.
LEMMA StepStays ==
    ASSUME TypeOK, ListInv, NEW r \in Request, ~CommitPoints(r),
           \/ BeginWrite(r) \/ DeleteRow(r) \/ Push(r) \/ Query(r) \/ ReadRow(r)
           \/ Step(r) \/ WriteRowsFails(r) \/ AddFails(r)
    PROVE  Stays(r)
<1>1. CASE CreateTable(r) \/ CreateHypertable(r) \/ CreateIndex(r)
    <2>1. Error(r) \/ \E pc \in InAdd : Goto(r, pc)
        BY <1>1 DEF CreateTable, CreateHypertable, CreateIndex, Makes, InAdd
    <2>2. req[r].pc \in InAdd
        BY <1>1 DEF CreateTable, CreateHypertable, CreateIndex, Makes, At, InAdd
    <2>. QED BY <2>1, <2>2, ErrorStays, GoesOnStays
<1>2. CASE Lock(r)
    <2>1. \E pc \in InAdd : Goto(r, pc)
        BY <1>2 DEF Lock, InAdd
    <2>2. req[r].pc = "lock"
        BY <1>2 DEF Lock, At
    <2>. QED BY <2>1, <2>2, GoesOnStays
<1>3. CASE Call(r)
    <2>1. Goto(r, "lock") \/ Goto(r, "panicked")
        BY <1>3 DEF Call
    <2>2. req[r].pc = "call"
        BY <1>3 DEF Call, At
    <2>. QED BY <2>1, <2>2, GoesOnStays
<1>4. CASE WriteRowsFails(r)
    <2>1. Goto(r, "failed") /\ req[r].pc = "rows"
        BY <1>4 DEF WriteRowsFails, At
    <2>. QED BY <2>1, GoesOnStays
<1>5. CASE AddFails(r)
    BY <1>5, ErrorStays DEF AddFails, InAdd
<1>. QED BY <1>1, <1>2, <1>3, <1>4, <1>5, PushStays, BeginStays, WriteRowsStays, InsertStays,
        ReadStays DEF Step

\* A commit that is made brings the points of the batch; one that is lost
\* brings none.
LEMMA CommitEnds ==
    ASSUME TypeOK, LoadInv, NEW r \in Request, CommitPoints(r)
    PROVE  \/ Stays(r) /\ UNCHANGED points
           \/ /\ points' = [points EXCEPT ![Db(r)] = Plus(@, ThisBatch(r).points)]
              /\ \E y : Become(r, y) /\ Listed(y) /\ Commits(req[r], y)
<1>1. /\ req[r].pc = "insert" /\ req[r].i \in 1..Len(req[r].list) /\ req[r] \in RequestRecord
      /\ req[r].left = Zero /\ req[r].put \in Bag
    BY RequestType DEF CommitPoints, At, Sound, InAdd, RequestRecord
<1>2. req[r].list # <<>> /\ req[r].i \in Nat /\ req[r].lost \in BOOLEAN
    BY <1>1 DEF RequestRecord
<1>3. GoneOf(req[r]) = req[r].i - 1
    BY <1>1, <1>2 DEF GoneOf, InAdd
<1>4. ~req[r].lost => AcceptedOf(req[r]) = req[r].i - 1
    BY <1>1, <1>2 DEF AcceptedOf
<1>5. CASE Advance(r, req[r]) /\ points' = [points EXCEPT ![Db(r)] = Plus(@, req[r].put)]
    <2>1. req[r].put = ThisBatch(r).points
        <3>1. Plus(req[r].left, req[r].put) = req[r].list[req[r].i].points
            BY <1>1 DEF LoadInv, Loaded, Loading, InAdd
        <3>2. Plus(Zero, req[r].put) = req[r].put
            BY <1>1 DEF Plus, Zero, Bag
        <3>. QED BY <1>1, <3>1, <3>2 DEF ThisBatch
    <2>2. PICK y : /\ Become(r, y) /\ Listed(y) /\ y.list = req[r].list /\ y.op = req[r].op
                   /\ GoneOf(y) = req[r].i
                   /\ AcceptedOf(y) = IF req[r].lost THEN 0 ELSE req[r].i
        BY <1>1, <1>5, AdvanceMarks
    <2>3. Commits(req[r], y)
        BY <1>2, <1>3, <1>4, <2>2 DEF Commits
    <2>. QED BY <1>5, <2>1, <2>2, <2>3
<1>6. CASE Advance(r, [req[r] EXCEPT !.lost = TRUE]) /\ UNCHANGED points
    <2>. DEFINE x == [req[r] EXCEPT !.lost = TRUE]
    <2>1. /\ x \in RequestRecord /\ x.list = req[r].list /\ x.i = req[r].i
          /\ x.op = req[r].op /\ x.lost = TRUE
        BY <1>1 DEF RequestRecord
    <2>2. Advance(r, x)
        BY <1>6
    <2>. HIDE DEF x
    <2>3. PICK y : /\ Become(r, y) /\ Listed(y) /\ y.list = x.list /\ y.op = x.op
                   /\ GoneOf(y) = x.i /\ AcceptedOf(y) = IF x.lost THEN 0 ELSE x.i
        BY <1>1, <2>1, <2>2, AdvanceMarks
    <2>4. GoneOf(y) = GoneOf(req[r]) + 1 /\ AcceptedOf(y) = 0
        BY <1>2, <1>3, <2>1, <2>3
    <2>5. Moves(req[r], y)
        BY <2>1, <2>3, <2>4 DEF Moves
    <2>. QED BY <1>6, <2>3, <2>5 DEF Stays
<1>. QED BY <1>5, <1>6 DEF CommitPoints

LEMMA HomeStays == [Next]_vars => home' = home
BY DEF Next, Step, BeginWrite, DeleteRow, Push, Query, ReadRow, WriteRows, Lock, CreateTable,
   CreateHypertable, CreateIndex, Makes, Insert, CommitPoints, Call, Select, PopulateTsFields,
   WriteRowsFails, AddFails, DeActivate, vars

\* What each request has sent to d of p, in the batches it is beyond and in
\* those it was told of.
GoneSums(q, h, d, p) == [r \in Request |-> SentOf(q[r], h, d, p, GoneOf(q[r]))]
AcceptedSums(q, h, d, p) == [r \in Request |-> SentOf(q[r], h, d, p, AcceptedOf(q[r]))]

LEMMA SumsAre ==
    ASSUME NEW d, NEW p
    PROVE  /\ SentByAll(d, p, Gone) = SumFunction(GoneSums(req, home, d, p))
           /\ SentByAll(d, p, Accepted) = SumFunction(AcceptedSums(req, home, d, p))
<1>1. \A r \in Request : Sent(r, d, p, Gone(r)) = SentOf(req[r], home, d, p, GoneOf(req[r]))
    BY SentIs DEF Gone
<1>2. \A r \in Request :
          Sent(r, d, p, Accepted(r)) = SentOf(req[r], home, d, p, AcceptedOf(req[r]))
    BY SentIs
<1>3. [r \in Request |-> Sent(r, d, p, Gone(r))] = GoneSums(req, home, d, p)
    BY <1>1 DEF GoneSums
<1>4. [r \in Request |-> Sent(r, d, p, Accepted(r))] = AcceptedSums(req, home, d, p)
    BY <1>2 DEF AcceptedSums
<1>. QED BY <1>3, <1>4 DEF SentByAll

LEMMA SumsType ==
    ASSUME NEW q, \A r \in Request : Sound(q[r]) /\ Listed(q[r]), NEW h, NEW d, NEW p \in Point
    PROVE  /\ GoneSums(q, h, d, p) \in [Request -> Nat]
           /\ AcceptedSums(q, h, d, p) \in [Request -> Nat]
<1>1. ASSUME NEW r \in Request
      PROVE  /\ SentOf(q[r], h, d, p, GoneOf(q[r])) \in Nat
             /\ SentOf(q[r], h, d, p, AcceptedOf(q[r])) \in Nat
    <2>1. Sound(q[r]) /\ Listed(q[r]) /\ q[r] \in RequestRecord
        BY DEF Sound
    <2>. QED BY <2>1, MarksType, SentIsNat
<1>. QED BY <1>1 DEF GoneSums, AcceptedSums

\* One request changes: the sums change by what its own numbers change.
LEMMA SumsStep ==
    ASSUME NEW q, NEW u, \A r \in Request : Sound(q[r]) /\ Listed(q[r]),
           \A r \in Request : Sound(u[r]) /\ Listed(u[r]),
           NEW r \in Request, \A s \in Request \ {r} : u[s] = q[s],
           NEW h, NEW d, NEW p \in Point
    PROVE  /\ SumFunction(GoneSums(q, h, d, p)) \in Nat
           /\ SumFunction(GoneSums(u, h, d, p)) \in Nat
           /\ SumFunction(AcceptedSums(q, h, d, p)) \in Nat
           /\ SumFunction(AcceptedSums(u, h, d, p)) \in Nat
           /\ SumFunction(GoneSums(u, h, d, p)) + SentOf(q[r], h, d, p, GoneOf(q[r]))
                = SumFunction(GoneSums(q, h, d, p)) + SentOf(u[r], h, d, p, GoneOf(u[r]))
           /\ SumFunction(AcceptedSums(u, h, d, p)) + SentOf(q[r], h, d, p, AcceptedOf(q[r]))
                = SumFunction(AcceptedSums(q, h, d, p)) + SentOf(u[r], h, d, p, AcceptedOf(u[r]))
<1>. DEFINE g == GoneSums(q, h, d, p)
            k == GoneSums(u, h, d, p)
            a == AcceptedSums(q, h, d, p)
            b == AcceptedSums(u, h, d, p)
<1>1. g \in [Request -> Nat] /\ k \in [Request -> Nat] /\ a \in [Request -> Nat]
      /\ b \in [Request -> Nat]
    BY SumsType
<1>2. \A s \in Request \ {r} : k[s] = g[s] /\ b[s] = a[s]
    BY DEF GoneSums, AcceptedSums
<1>3. /\ g[r] = SentOf(q[r], h, d, p, GoneOf(q[r])) /\ k[r] = SentOf(u[r], h, d, p, GoneOf(u[r]))
      /\ a[r] = SentOf(q[r], h, d, p, AcceptedOf(q[r]))
      /\ b[r] = SentOf(u[r], h, d, p, AcceptedOf(u[r]))
    BY DEF GoneSums, AcceptedSums
<1>. HIDE DEF g, k, a, b
<1>4. SumFunction(g) \in Nat /\ SumFunction(k) \in Nat /\ SumFunction(a) \in Nat
      /\ SumFunction(b) \in Nat
    BY <1>1, FiniteAssumption, SumIsNat
<1>5. SumFunction(k) + g[r] = SumFunction(g) + k[r]
    BY <1>1, <1>2, FiniteAssumption, SumChanges
<1>6. SumFunction(b) + a[r] = SumFunction(a) + b[r]
    BY <1>1, <1>2, FiniteAssumption, SumChanges
<1>. QED BY <1>3, <1>4, <1>5, <1>6 DEF g, k, a, b

\* Each table has between what was accepted and what the requests brought.
Balance(l, q, h) ==
    \A d \in Database, p \in Point :
        /\ l[d][p] <= SumFunction(GoneSums(q, h, d, p))
        /\ SumFunction(AcceptedSums(q, h, d, p)) <= l[d][p]
SumInv == ListInv /\ Balance(points, req, home)

LEMMA StaysBalance ==
    ASSUME TypeOK, TypeOK', SumInv, NEW r \in Request, Stays(r), UNCHANGED <<points, home>>
    PROVE  SumInv'
<1>1. PICK y : Become(r, y) /\ Listed(y) /\ Moves(req[r], y)
    BY DEF Stays
<1>2. \A s \in Request : req'[s] = IF s = r THEN y ELSE req[s]
    BY <1>1 DEF Become, TypeOK
<1>3. \A s \in Request : Sound(req[s]) /\ Listed(req[s])
    BY RequestType DEF SumInv, ListInv
<1>4. \A s \in Request : Sound(req'[s]) /\ Listed(req'[s])
    <2>1. \A s \in Request : Sound(req'[s])
        BY DEF TypeOK, Sound
    <2>. QED BY <1>1, <1>2, <1>3, <2>1
<1>5. ASSUME NEW d \in Database, NEW p \in Point
      PROVE  /\ points[d][p] <= SumFunction(GoneSums(req', home, d, p))
             /\ SumFunction(AcceptedSums(req', home, d, p)) <= points[d][p]
    <2>. DEFINE q == req
                u == req'
                h == home
    <2>1. \A s \in Request \ {r} : u[s] = q[s]
        BY <1>2
    <2>2. u[r] = y
        BY <1>2
    <2>3. points[d][p] \in Nat
        BY DEF TypeOK, Bag
    <2>4. /\ points[d][p] <= SumFunction(GoneSums(q, h, d, p))
          /\ SumFunction(AcceptedSums(q, h, d, p)) <= points[d][p]
        BY DEF SumInv, Balance
    <2>5. Moves(q[r], u[r]) /\ (\A s \in Request : Sound(q[s]) /\ Listed(q[s]))
          /\ (\A s \in Request : Sound(u[s]) /\ Listed(u[s]))
        BY <1>1, <1>3, <1>4, <2>2
    <2>. HIDE DEF q, u, h
    <2>6. /\ SentOf(q[r], h, d, p, GoneOf(q[r])) <= SentOf(u[r], h, d, p, GoneOf(u[r]))
          /\ SentOf(u[r], h, d, p, AcceptedOf(u[r])) <= SentOf(q[r], h, d, p, AcceptedOf(q[r]))
        BY <2>5, MovesSums
    <2>7. /\ SentOf(q[r], h, d, p, GoneOf(q[r])) \in Nat
          /\ SentOf(u[r], h, d, p, GoneOf(u[r])) \in Nat
          /\ SentOf(u[r], h, d, p, AcceptedOf(u[r])) \in Nat
          /\ SentOf(q[r], h, d, p, AcceptedOf(q[r])) \in Nat
        <3>1. /\ GoneSums(q, h, d, p) \in [Request -> Nat]
              /\ AcceptedSums(q, h, d, p) \in [Request -> Nat]
              /\ GoneSums(u, h, d, p) \in [Request -> Nat]
              /\ AcceptedSums(u, h, d, p) \in [Request -> Nat]
            BY <2>5, SumsType
        <3>. QED BY <3>1 DEF GoneSums, AcceptedSums
    <2>8. /\ SumFunction(GoneSums(q, h, d, p)) \in Nat
          /\ SumFunction(GoneSums(u, h, d, p)) \in Nat
          /\ SumFunction(AcceptedSums(q, h, d, p)) \in Nat
          /\ SumFunction(AcceptedSums(u, h, d, p)) \in Nat
          /\ SumFunction(GoneSums(u, h, d, p)) + SentOf(q[r], h, d, p, GoneOf(q[r]))
               = SumFunction(GoneSums(q, h, d, p)) + SentOf(u[r], h, d, p, GoneOf(u[r]))
          /\ SumFunction(AcceptedSums(u, h, d, p)) + SentOf(q[r], h, d, p, AcceptedOf(q[r]))
               = SumFunction(AcceptedSums(q, h, d, p)) + SentOf(u[r], h, d, p, AcceptedOf(u[r]))
        BY <2>1, <2>5, SumsStep
    <2>9. /\ points[d][p] <= SumFunction(GoneSums(u, h, d, p))
          /\ SumFunction(AcceptedSums(u, h, d, p)) <= points[d][p]
        BY <2>3, <2>4, <2>6, <2>7, <2>8
    <2>. QED BY <2>9 DEF u, h
<1>6. Balance(points', req', home')
    BY <1>5 DEF Balance
<1>. QED BY <1>4, <1>6 DEF SumInv, ListInv

LEMMA CommitBalance ==
    ASSUME TypeOK, TypeOK', SumInv, NEW r \in Request, NEW y, Become(r, y), Listed(y),
           Commits(req[r], y), UNCHANGED home,
           points' = [points EXCEPT ![Db(r)] = Plus(@, ThisBatch(r).points)]
    PROVE  SumInv'
<1>1. \A s \in Request : req'[s] = IF s = r THEN y ELSE req[s]
    BY DEF Become, TypeOK
<1>2. \A s \in Request : Sound(req[s]) /\ Listed(req[s])
    BY RequestType DEF SumInv, ListInv
<1>3. \A s \in Request : Sound(req'[s]) /\ Listed(req'[s])
    <2>1. \A s \in Request : Sound(req'[s])
        BY DEF TypeOK, Sound
    <2>. QED BY <1>1, <1>2, <2>1
<1>4. ASSUME NEW d \in Database, NEW p \in Point
      PROVE  /\ points'[d][p] <= SumFunction(GoneSums(req', home, d, p))
             /\ SumFunction(AcceptedSums(req', home, d, p)) <= points'[d][p]
    <2>. DEFINE q == req
                u == req'
                h == home
                more == IF h[ViaOf(q[r])] = d THEN q[r].list[q[r].i].points[p] ELSE 0
    <2>1. \A s \in Request \ {r} : u[s] = q[s]
        BY <1>1
    <2>2. u[r] = y
        BY <1>1
    <2>3. points[d][p] \in Nat /\ points \in [Database -> Bag]
        BY DEF TypeOK, Bag
    <2>4. /\ points[d][p] <= SumFunction(GoneSums(q, h, d, p))
          /\ SumFunction(AcceptedSums(q, h, d, p)) <= points[d][p]
        BY DEF SumInv, Balance
    <2>5. Commits(q[r], u[r]) /\ (\A s \in Request : Sound(q[s]) /\ Listed(q[s]))
          /\ (\A s \in Request : Sound(u[s]) /\ Listed(u[s]))
        BY <1>2, <1>3, <2>2
    <2>6. points'[d][p] = points[d][p] + more
        <3>1. CASE Db(r) = d
            <4>1. points'[d] = Plus(points[d], ThisBatch(r).points)
                BY <2>3, <3>1
            <4>2. points'[d][p] = points[d][p] + ThisBatch(r).points[p]
                BY <4>1 DEF Plus
            <4>. QED BY <3>1, <4>2, RequestType DEF ThisBatch, Db
        <3>2. CASE Db(r) # d
            <4>1. points'[d] = points[d]
                BY <2>3, <3>2
            <4>. QED BY <2>3, <3>2, <4>1, RequestType DEF Db
        <3>. QED BY <3>1, <3>2
    <2>. HIDE DEF q, u, h
    <2>7. /\ SentOf(u[r], h, d, p, GoneOf(u[r])) = SentOf(q[r], h, d, p, GoneOf(q[r])) + more
          /\ SentOf(u[r], h, d, p, AcceptedOf(u[r]))
                <= SentOf(q[r], h, d, p, AcceptedOf(q[r])) + more
          /\ more \in Nat
        BY <2>5, CommitsSums
    <2>. HIDE DEF more
    <2>8. /\ SentOf(q[r], h, d, p, GoneOf(q[r])) \in Nat
          /\ SentOf(u[r], h, d, p, GoneOf(u[r])) \in Nat
          /\ SentOf(u[r], h, d, p, AcceptedOf(u[r])) \in Nat
          /\ SentOf(q[r], h, d, p, AcceptedOf(q[r])) \in Nat
        <3>1. /\ GoneSums(q, h, d, p) \in [Request -> Nat]
              /\ AcceptedSums(q, h, d, p) \in [Request -> Nat]
              /\ GoneSums(u, h, d, p) \in [Request -> Nat]
              /\ AcceptedSums(u, h, d, p) \in [Request -> Nat]
            BY <2>5, SumsType
        <3>. QED BY <3>1 DEF GoneSums, AcceptedSums
    <2>9. /\ SumFunction(GoneSums(q, h, d, p)) \in Nat
          /\ SumFunction(GoneSums(u, h, d, p)) \in Nat
          /\ SumFunction(AcceptedSums(q, h, d, p)) \in Nat
          /\ SumFunction(AcceptedSums(u, h, d, p)) \in Nat
          /\ SumFunction(GoneSums(u, h, d, p)) + SentOf(q[r], h, d, p, GoneOf(q[r]))
               = SumFunction(GoneSums(q, h, d, p)) + SentOf(u[r], h, d, p, GoneOf(u[r]))
          /\ SumFunction(AcceptedSums(u, h, d, p)) + SentOf(q[r], h, d, p, AcceptedOf(q[r]))
               = SumFunction(AcceptedSums(q, h, d, p)) + SentOf(u[r], h, d, p, AcceptedOf(u[r]))
        BY <2>1, <2>5, SumsStep
    <2>10. /\ points'[d][p] <= SumFunction(GoneSums(u, h, d, p))
          /\ SumFunction(AcceptedSums(u, h, d, p)) <= points'[d][p]
        BY <2>3, <2>4, <2>7, <2>8, <2>9, <2>6
    <2>. QED BY <2>10 DEF u, h
<1>5. Balance(points', req', home')
    BY <1>4 DEF Balance
<1>. QED BY <1>3, <1>5 DEF SumInv, ListInv

LEMMA NextSums == TypeOK /\ LoadInv /\ SumInv /\ [Next]_vars => SumInv'
<1>. SUFFICES ASSUME TypeOK, LoadInv, SumInv, [Next]_vars
              PROVE  SumInv'
    OBVIOUS
<1>1. TypeOK' /\ home' = home
    BY NextType, HomeStays
<1>2. CASE DeActivate \/ UNCHANGED vars
    <2>1. points' = points /\ req' = req
        BY <1>2 DEF DeActivate, vars
    <2>. QED BY <1>1, <2>1 DEF SumInv, ListInv
<1>3. CASE \E r \in Request : CommitPoints(r)
    <2>1. PICK r \in Request : CommitPoints(r)
        BY <1>3
    <2>. QED BY <1>1, <2>1, CommitEnds, StaysBalance, CommitBalance
<1>4. CASE ~(DeActivate \/ UNCHANGED vars) /\ ~\E r \in Request : CommitPoints(r)
    <2>1. PICK r \in Request :
              \/ BeginWrite(r) \/ DeleteRow(r) \/ Push(r) \/ Query(r) \/ ReadRow(r)
              \/ Step(r) \/ WriteRowsFails(r) \/ AddFails(r)
        BY <1>4 DEF Next
    <2>2. Stays(r)
        BY <1>4, <2>1, StepStays DEF SumInv
    <2>. QED BY <1>1, <1>4, <2>2, PointsStay, StaysBalance
<1>. QED BY <1>2, <1>3, <1>4

LEMMA InitSums == Init => SumInv
<1>. SUFFICES ASSUME Init PROVE SumInv
    OBVIOUS
<1>1. \A r \in Request : req[r] = Idle /\ req[r].list = <<>> /\ req[r].pc = "idle"
    BY DEF Init, Idle
<1>2. ListInv
    BY <1>1 DEF ListInv, Listed
<1>3. TypeOK
    BY InitType
<1>4. ASSUME NEW d \in Database, NEW p \in Point
      PROVE  /\ points[d][p] <= SumFunction(GoneSums(req, home, d, p))
             /\ SumFunction(AcceptedSums(req, home, d, p)) <= points[d][p]
    <2>1. points[d][p] = 0
        BY DEF Init, Zero
    <2>. DEFINE g == GoneSums(req, home, d, p)
                a == AcceptedSums(req, home, d, p)
    <2>2. g \in [Request -> Nat] /\ a \in [Request -> Nat]
        <3>1. \A r \in Request : Sound(req[r]) /\ Listed(req[r])
            BY <1>2, <1>3, RequestType DEF ListInv
        <3>. QED BY <3>1, SumsType
    <2>3. g = a
        BY <1>1 DEF GoneSums, AcceptedSums, SentOf
    <2>4. \A r \in Request : g[r] = 0
        BY <1>1 DEF GoneSums, SentOf
    <2>. HIDE DEF g, a
    <2>5. SumFunction(g) = 0
        BY <2>2, <2>4, FiniteAssumption, SumOfZeros
    <2>. QED BY <2>1, <2>3, <2>5 DEF g, a
<1>. QED BY <1>2, <1>4 DEF SumInv, Balance

LEMMA SumInvariant == Spec => [](TypeOK /\ LoadInv /\ SumInv)
BY InitType, NextType, InitLoads, NextLoads, InitSums, NextSums, PTL DEF Spec

\* A table has no more copies of a point than there are batches that carried
\* it, whatever failed on the way (AddTSDB's transaction, Write's batches).
THEOREM PointsAreAddedOnce == Spec => []NoPointIsAddedTwice
<1>1. TypeOK /\ LoadInv /\ SumInv => NoPointIsAddedTwice
    <2>. SUFFICES ASSUME TypeOK, SumInv, NEW d \in Database, NEW p \in Point
                  PROVE  points[d][p] <= SentByAll(d, p, Reached)
        BY DEF NoPointIsAddedTwice
    <2>. DEFINE g == GoneSums(req, home, d, p)
                ReachedOf(x) == IF x.list = <<>> THEN 0 ELSE x.i
                e == [r \in Request |-> SentOf(req[r], home, d, p, ReachedOf(req[r]))]
    <2>1. \A r \in Request : Sound(req[r]) /\ Listed(req[r])
        BY RequestType DEF SumInv, ListInv
    <2>2. g \in [Request -> Nat]
        BY <2>1, SumsType
    <2>3. ASSUME NEW r \in Request
          PROVE  g[r] <= e[r] /\ e[r] \in Nat
        <3>. DEFINE x == req[r]
                    n == GoneOf(x)
                    m == ReachedOf(x)
        <3>1. Sound(x) /\ Listed(x) /\ x \in RequestRecord /\ g[r] \in Nat
            BY <2>1, <2>2 DEF Sound
        <3>2. g[r] = SentOf(x, home, d, p, n) /\ e[r] = SentOf(x, home, d, p, m)
            BY DEF GoneSums
        <3>3. n \in Nat /\ m \in Nat /\ (m <= Len(x.list) \/ x.list = <<>>)
            BY <3>1, MarksType DEF Listed, RequestRecord
        <3>4. m = n \/ (m = n + 1 /\ x.list # <<>> /\ n + 1 <= Len(x.list))
            BY <3>1 DEF GoneOf, Listed, RequestRecord
        <3>. HIDE DEF x, n, m, g, e
        <3>5. e[r] \in Nat
            BY <3>1, <3>2, <3>3, SentIsNat
        <3>6. CASE m = n
            BY <3>1, <3>2, <3>6
        <3>7. CASE m = n + 1 /\ x.list # <<>> /\ n + 1 <= Len(x.list)
            <4>1. SentOf(x, home, d, p, n + 1) = SentOf(x, home, d, p, n)
                      + (IF home[ViaOf(x)] = d THEN x.list[n + 1].points[p] ELSE 0)
                BY <3>1, <3>3, <3>7, SentOfNext
            <4>2. x.list[n + 1].points[p] \in Nat
                <5>1. x.list \in Seq(Batch) /\ n + 1 \in 1..Len(x.list)
                    BY <3>1, <3>3, <3>7 DEF RequestRecord
                <5>2. x.list[n + 1] \in Batch
                    BY <5>1
                <5>. QED BY <5>2 DEF Batch, Bag
            <4>. QED BY <3>1, <3>2, <3>5, <3>7, <4>1, <4>2
        <3>. QED BY <3>4, <3>5, <3>6, <3>7
    <2>4. e \in [Request -> Nat]
        BY <2>3
    <2>5. [r \in Request |-> Sent(r, d, p, Reached(r))] = e
        BY SentIs DEF Reached
    <2>6. points[d][p] <= SumFunction(g) /\ points[d][p] \in Nat
        BY DEF SumInv, Balance, TypeOK, Bag
    <2>7. SentByAll(d, p, Reached) = SumFunction(e)
        BY <2>5 DEF SentByAll
    <2>. HIDE DEF g, e
    <2>8. SumFunction(g) <= SumFunction(e)
        BY <2>2, <2>3, <2>4, FiniteAssumption, SumGrows
    <2>9. SumFunction(g) \in Nat /\ SumFunction(e) \in Nat
        BY <2>2, <2>4, FiniteAssumption, SumIsNat
    <2>. QED BY <2>6, <2>7, <2>8, <2>9
<1>. QED BY <1>1, SumInvariant, PTL

LEMMA AcceptedAreThere ==
    TypeOK /\ SumInv => AcceptedPointsAreStored
<1>. SUFFICES ASSUME SumInv, NEW d \in Database, NEW p \in Point, TypeOK
              PROVE  points[d][p] >= SentByAll(d, p, Accepted)
    BY DEF AcceptedPointsAreStored
<1>1. SumFunction(AcceptedSums(req, home, d, p)) <= points[d][p]
    BY DEF SumInv, Balance
<1>2. SumFunction(AcceptedSums(req, home, d, p)) \in Nat
    <2>1. AcceptedSums(req, home, d, p) \in [Request -> Nat]
        <3>1. \A r \in Request : Sound(req[r]) /\ Listed(req[r])
            BY RequestType DEF SumInv, ListInv
        <3>. QED BY <3>1, SumsType
    <2>. QED BY <2>1, FiniteAssumption, SumIsNat
<1>3. points[d][p] \in Nat
    BY DEF TypeOK, Bag
<1>. QED BY <1>1, <1>2, <1>3, SumsAre

\* The points of every batch that was accepted are in the table, all of their
\* copies (AddTSDB, Write).
THEOREM AcceptedPointsStay == Spec => []AcceptedPointsAreStored
BY AcceptedAreThere, SumInvariant, PTL

-----------------------------------------------------------------------------
(* What reads show                                                         *)

LEMMA PointsAreFinite == IsFiniteSet(Point)
BY FiniteAssumption, FS_Product DEF Point

\* What there is room for is everything, or the newest.
LEMMA LatestShows ==
    ASSUME NEW bag \in Bag, NEW k \in Key, NEW f \in [Point -> 0..MaxShown],
           IsLatest(f, bag, k), NEW p \in {k} \X Stamp
    PROVE  \/ f[p] >= bag[p]
           \/ /\ SumFunction(f) = MaxShown
              /\ \A q \in Point : f[q] > 0 => q[2] >= p[2]
<1>. DEFINE of == OfKey(bag, k)
<1>1. p \in Point /\ p[1] = k
    BY DEF Point
<1>2. of \in [Point -> Nat] /\ of[p] = bag[p]
    BY <1>1 DEF OfKey, Bag
<1>3. f \in [Point -> Nat] /\ f[p] \in Nat /\ bag[p] \in Nat
    BY <1>1, TimeSeriesAssumption DEF Bag
<1>4. \A q \in Point : f[q] <= of[q]
    BY DEF IsLatest, Fits
<1>5. SumFunction(f) = IF SumFunction(of) < MaxShown THEN SumFunction(of) ELSE MaxShown
    BY DEF IsLatest, Fits
<1>6. \A q \in Point : f[p] < of[p] /\ f[q] > 0 => q[2] >= p[2]
    BY <1>1 DEF IsLatest
<1>. HIDE DEF of
<1>7. CASE f[p] < bag[p]
    <2>1. SumFunction(f) < SumFunction(of)
        BY <1>1, <1>2, <1>3, <1>4, <1>7, PointsAreFinite, SumGrows
    <2>2. SumFunction(f) \in Nat /\ SumFunction(of) \in Nat
        BY <1>2, <1>3, PointsAreFinite, SumIsNat
    <2>3. SumFunction(f) = MaxShown
        BY <1>5, <2>1, <2>2
    <2>. QED BY <1>2, <1>6, <1>7, <2>3
<1>8. CASE ~(f[p] < bag[p])
    BY <1>3, <1>8
<1>. QED BY <1>7, <1>8

\* Nobody else brings a read to its end.
LEMMA ReadsEnd ==
    ASSUME TypeOK, LoadInv, [Next]_vars, NEW r \in Request, req'[r] # req[r]
    PROVE  /\ At(r, "populate") => PopulateTsFields(r)
           /\ At(r, "select") => Select(r)
<1>1. PICK s \in Request :
          \/ BeginWrite(s) \/ DeleteRow(s) \/ Push(s) \/ Query(s) \/ ReadRow(s)
          \/ Step(s) \/ WriteRowsFails(s) \/ AddFails(s)
    BY DEF Next, DeActivate, vars
<1>2. s = r
    <2>1. PICK y : Become(s, y)
        BY <1>1, StepKeeps
    <2>. QED BY <2>1 DEF Become, TypeOK
<1>. QED BY <1>1, <1>2 DEF At, Step, BeginWrite, DeleteRow, Push, Query, ReadRow, WriteRows,
     Lock, CreateTable, CreateHypertable, CreateIndex, Makes, Insert, CommitPoints, Call,
     Select, PopulateTsFields, WriteRowsFails, AddFails

\* A read shows what was accepted before, or as many newer points as an object
\* has room for (GetTSDBLatest, GetTSDB, populateTsFields).
THEOREM ReadsShowWhatWasAccepted == Spec => ReadsShowAcceptedPoints
<1>. DEFINE Shows(r) ==
              LET shown == req'[r].shown
                  have(d, p) == SentByAll(d, p, Accepted)
              IN  /\ At(r, "populate") => \A p \in {req[r].key} \X Stamp :
                        \/ shown[p] >= have(OrmDb, p)
                        \/ /\ SumFunction(shown) = MaxShown
                           /\ \A q \in Point : shown[q] > 0 => q[2] >= p[2]
                  /\ At(r, "select") => \A p \in {req[r].key} \X Stamp :
                        req[r].from <= p[2] /\ p[2] <= req[r].to =>
                            shown[p] >= have(home["service"], p)
<1>1. TypeOK /\ LoadInv /\ SumInv /\ [Next]_vars =>
          [\A r \in Request :
              ~At(r, "done") /\ req'[r].pc = "done" /\ ~req'[r].lost => Shows(r)]_vars
    <2>. SUFFICES ASSUME TypeOK, LoadInv, SumInv, [Next]_vars, NEW r \in Request,
                         ~At(r, "done"), req'[r].pc = "done", ~req'[r].lost
                  PROVE  Shows(r)
        OBVIOUS
    <2>1. req'[r] # req[r]
        BY DEF At
    <2>2. \A x : Become(r, x) => req'[r] = x
        BY DEF Become, TypeOK
    <2>3. ~Become(r, [req[r] EXCEPT !.pc = "done", !.lost = TRUE])
        <3>. DEFINE x == [req[r] EXCEPT !.pc = "done", !.lost = TRUE]
        <3>1. x.lost = TRUE
            BY RequestType DEF RequestRecord
        <3>. HIDE DEF x
        <3>2. ~Become(r, x)
            BY <2>2, <3>1
        <3>. QED BY <3>2 DEF x
    <2>4. ~Goto(r, "panicked")
        <3>. DEFINE x == [req[r] EXCEPT !.pc = "panicked"]
        <3>1. x.pc = "panicked"
            BY RequestType DEF RequestRecord
        <3>. HIDE DEF x
        <3>2. ~Become(r, x)
            BY <2>2, <3>1
        <3>. QED BY <3>2 DEF x, Goto
    <2>5. ASSUME NEW d \in Database, NEW p \in Point
          PROVE  /\ points[d][p] \in Nat /\ SentByAll(d, p, Accepted) \in Nat
                 /\ SentByAll(d, p, Accepted) <= points[d][p]
        <3>1. AcceptedSums(req, home, d, p) \in [Request -> Nat]
            <4>1. \A s \in Request : Sound(req[s]) /\ Listed(req[s])
                BY RequestType DEF SumInv, ListInv
            <4>. QED BY <4>1, SumsType
        <3>2. SumFunction(AcceptedSums(req, home, d, p)) \in Nat
            BY <3>1, FiniteAssumption, SumIsNat
        <3>. QED BY <3>2, SumsAre DEF SumInv, Balance, TypeOK, Bag
    <2>6. ASSUME At(r, "populate"), NEW p \in {req[r].key} \X Stamp
          PROVE  \/ req'[r].shown[p] >= SentByAll(OrmDb, p, Accepted)
                 \/ /\ SumFunction(req'[r].shown) = MaxShown
                    /\ \A q \in Point : req'[r].shown[q] > 0 => q[2] >= p[2]
        <3>1. req[r].key \in Key
            BY <2>6 DEF SumInv, ListInv, Listed, At
        <3>2. p \in Point
            BY <3>1 DEF Point
        <3>3. PopulateTsFields(r)
            BY <2>1, <2>6, ReadsEnd
        <3>4. PICK f \in [Point -> 0..MaxShown] :
                  /\ IsLatest(f, points[OrmDb], req[r].key)
                  /\ req'[r] = [req[r] EXCEPT !.pc = "done", !.shown = f]
            BY <2>2, <2>3, <3>3 DEF PopulateTsFields
        <3>5. req'[r].shown = f
            BY <3>4, RequestType DEF RequestRecord
        <3>6. points[OrmDb] \in Bag /\ OrmDb \in Database
            BY TimeSeriesAssumption DEF TypeOK
        <3>7. \/ f[p] >= points[OrmDb][p]
              \/ /\ SumFunction(f) = MaxShown
                 /\ \A q \in Point : f[q] > 0 => q[2] >= p[2]
            BY <3>1, <3>4, <3>6, LatestShows
        <3>8. f[p] \in Nat
            BY <3>2, TimeSeriesAssumption
        <3>. QED BY <2>5, <3>2, <3>5, <3>6, <3>7, <3>8
    <2>7. ASSUME At(r, "select"), NEW p \in {req[r].key} \X Stamp,
                 req[r].from <= p[2], p[2] <= req[r].to
          PROVE  req'[r].shown[p] >= SentByAll(home["service"], p, Accepted)
        <3>1. req[r].key \in Key
            BY <2>7 DEF SumInv, ListInv, Listed, At
        <3>2. p \in Point /\ p[1] = req[r].key
            BY <3>1 DEF Point
        <3>3. Select(r)
            BY <2>1, <2>7, ReadsEnd
        <3>. DEFINE f == Between(points[home["service"]], req[r].key, req[r].from, req[r].to)
        <3>4. req'[r] = [req[r] EXCEPT !.pc = "done", !.shown = f]
            BY <2>2, <2>3, <2>4, <3>3 DEF Select
        <3>5. req'[r].shown = f
            BY <3>4, RequestType DEF RequestRecord
        <3>6. f[p] = points[home["service"]][p]
            BY <3>2, <2>7 DEF Between
        <3>7. home["service"] \in Database
            BY DEF TypeOK
        <3>. QED BY <2>5, <3>2, <3>5, <3>6, <3>7
    <2>. QED BY <2>6, <2>7
<1>. QED BY <1>1, SumInvariant, PTL DEF Spec, ReadsShowAcceptedPoints
=============================================================================
