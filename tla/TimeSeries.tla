----------------------------- MODULE TimeSeries -----------------------------
(***************************************************************************)
(* Time series points, which are kept apart from the rows of the objects   *)
(* they belong to.  Two instances of Tsdb use them: that of the ORM        *)
(* ("orm"), on the relational database, which Postgres.Write and           *)
(* Postgres.Read call, and that of the service ("service"), an argument of *)
(* its activation, for points pushed by notification and for queries by    *)
(* time.  Each has a mutex, which AddTSDB holds to its end, and a flag     *)
(* verified.  They may be on one database or on two.                       *)
(*                                                                         *)
(* A point is the key of its object and its stamp; the value it carries is *)
(* left out.  The table has no unique key, so what it holds is a bag.  A   *)
(* list of elements is given as the batches Write cuts it into.  The field *)
(* lost of a request is history: no step reads it.                         *)
(***************************************************************************)
EXTENDS Naturals, Sequences, FiniteSets, Functions

CONSTANTS
    Request,  \* goroutines, each of which makes one call
    Key,      \* primary keys of objects of one type
    Stamp,    \* stamps of points, in seconds
    Database,
    OrmDb,    \* the database of the relational tables
    Lists,    \* lists that callers write: sequences of batches
    Pushes,   \* bags of points that callers push
    MaxShown, \* how many points a read puts into an object: 100
    NoOne     \* nobody holds the mutex

Point == Key \X Stamp
Inst == {"orm", "service"}
Bag == [Point -> Nat]
Zero == [p \in Point |-> 0]
Plus(f, g) == [p \in Point |-> f[p] + g[p]]
Batch == [keys : SUBSET Key, points : Bag]

ASSUME TimeSeriesAssumption ==
    /\ Stamp \subseteq Nat
    /\ OrmDb \in Database
    /\ Lists \subseteq Seq(Batch) \ {<<>>}
    /\ Pushes \subseteq Bag
    /\ MaxShown \in Nat \ {0}
    /\ NoOne \notin Request

\* Of what a program ever does, holds or names there is a finite number: sums
\* over it are numbers.
ASSUME FiniteAssumption ==
    /\ IsFiniteSet(Request)
    /\ IsFiniteSet(Key) /\ IsFiniteSet(Stamp)

VARIABLES
    rows,      \* keys of the committed rows of the type's table
    points,    \* points[d][p]: how many copies of p the table l8tsdb of d has
    made,      \* made[d]: what exists of l8tsdb in d: table, hypertable, index
    home,      \* home[i]: the database of instance i
    verified,  \* verified[i]: i takes l8tsdb for complete
    mtx,       \* mtx[i]: the request that holds the mutex of i
    open,      \* the service has a Tsdb: it was given one, and is active
    req        \* req[r]: what the goroutine of r has reached

vars == <<rows, points, made, home, verified, mtx, open, req>>

-----------------------------------------------------------------------------
\* A request: its operation, the batches of its list and the one it is at,
\* the points it has yet to insert and has inserted in the open transaction,
\* what it asks for and is shown.
Idle == [pc |-> "idle", op |-> "none", list |-> <<>>, i |-> 1, left |-> Zero,
         put |-> Zero, key |-> NoOne, from |-> 0, to |-> 0, shown |-> Zero, lost |-> FALSE]

\* Activate: a third argument, if there is one, is the Tsdb of the service.
Init ==
    /\ rows = {}
    /\ points = [d \in Database |-> Zero]
    /\ made = [d \in Database |-> {}]
    /\ home \in [Inst -> Database] /\ home["orm"] = OrmDb
    /\ verified = [i \in Inst |-> FALSE]
    /\ mtx = [i \in Inst |-> NoOne]
    /\ open \in BOOLEAN
    /\ req = [r \in Request |-> Idle]

At(r, pc) == req[r].pc = pc
Ended(r) == req[r].pc \in {"done", "failed", "panicked"}
Become(r, x) == req' = [req EXCEPT ![r] = x]
Goto(r, pc) == Become(r, [req[r] EXCEPT !.pc = pc])
Via(r) == IF req[r].op = "push" THEN "service" ELSE "orm"
Db(r) == home[Via(r)]
ThisBatch(r) == req[r].list[req[r].i]

\* The next batch, or the end of the list.
Advance(r, x) ==
    IF x.i < Len(x.list) THEN Become(r, [x EXCEPT !.pc = "rows", !.i = @ + 1])
    ELSE Become(r, [x EXCEPT !.pc = "done"])

\* Fault: Write goes on as if the points of a batch did not matter.
ErrorPassedOver(r) ==
    IF req[r].op = "push" THEN Become(r, [req[r] EXCEPT !.pc = "done", !.lost = TRUE])
    ELSE Advance(r, req[r])

\* AddTSDB returns an error: Write returns it, leaving its later batches
\* undone, and the service drops it.
Error(r) ==
    IF req[r].op = "push" THEN Become(r, [req[r] EXCEPT !.pc = "done", !.lost = TRUE])
    ELSE Goto(r, "failed")

-----------------------------------------------------------------------------
(* Write: for each batch the rows, then the points                         *)

\* An object that was read, with the points it was shown, is a list too.
Resent == {<<[keys |-> {req[r].key}, points |-> req[r].shown]>> :
              r \in {s \in Request : At(s, "done") /\ req[s].op = "get"
                                                   /\ req[s].shown # Zero}}

BeginWrite(r) ==
    /\ At(r, "idle")
    /\ \E list \in Lists \cup Resent :
          Become(r, [Idle EXCEPT !.pc = "rows", !.op = "write", !.list = list])
    /\ UNCHANGED <<rows, points, made, home, verified, mtx, open>>

\* Fault: the points of the batches before are in the data again.
ToAddWithEarlier(r) == Plus(ThisBatch(r).points, req[r].put)

\* convert.ConvertTo makes a new TsData for each batch.
ToAdd(r) == ThisBatch(r).points

\* WriteRelational commits; or its commit fails and nobody learns of it.
\* A batch without points ends here.
WriteRows(r) ==
    /\ At(r, "rows")
    /\ \E lost \in BOOLEAN :
          LET x == [req[r] EXCEPT !.lost = @ \/ lost, !.left = ToAdd(r), !.put = Zero]
          IN  /\ rows' = IF lost THEN rows ELSE rows \cup ThisBatch(r).keys
              /\ IF ThisBatch(r).points = Zero THEN Advance(r, x)
                 ELSE Become(r, [x EXCEPT !.pc = "lock"])
    /\ UNCHANGED <<points, made, home, verified, mtx, open>>

WriteRowsFails(r) ==
    /\ At(r, "rows")
    /\ Goto(r, "failed")
    /\ UNCHANGED <<rows, points, made, home, verified, mtx, open>>

\* DeleteRelational: the points of the object stay.
DeleteRow(r) ==
    /\ At(r, "idle")
    /\ \E k \in rows :
          /\ rows' = rows \ {k}
          /\ Become(r, [Idle EXCEPT !.pc = "done", !.op = "delete", !.key = k])
    /\ UNCHANGED <<points, made, home, verified, mtx, open>>

-----------------------------------------------------------------------------
(* Tsdb.AddTSDB                                                            *)

\* Fault: without mtx.Lock.
LockNothing(r) ==
    /\ At(r, "lock")
    /\ mtx' = [mtx EXCEPT ![Via(r)] = r]
    /\ Goto(r, IF verified[Via(r)] THEN "insert" ELSE "table")
    /\ UNCHANGED <<rows, points, made, home, verified, open>>

\* Fault: verified is set before the table is.
LockSetsVerified(r) ==
    /\ At(r, "lock") /\ mtx[Via(r)] = NoOne
    /\ mtx' = [mtx EXCEPT ![Via(r)] = r]
    /\ Goto(r, IF verified[Via(r)] THEN "insert" ELSE "table")
    /\ verified' = [verified EXCEPT ![Via(r)] = TRUE]
    /\ UNCHANGED <<rows, points, made, home, open>>

Lock(r) ==
    /\ At(r, "lock") /\ mtx[Via(r)] = NoOne
    /\ mtx' = [mtx EXCEPT ![Via(r)] = r]
    /\ Goto(r, IF verified[Via(r)] THEN "insert" ELSE "table")
    /\ UNCHANGED <<rows, points, made, home, verified, open>>

\* Fault: without the deferred Unlock.
ReleaseNothing(r) == UNCHANGED mtx

Release(r) == mtx' = [mtx EXCEPT ![Via(r)] = NoOne]

\* A statement of verifyTable makes part of the table, unless it is there; the
\* last one sets verified.  It may have its effect and still end in an error,
\* when the reply is lost.
Makes(r, pc, part, next) ==
    /\ At(r, pc)
    /\ made' = [made EXCEPT ![Db(r)] = @ \cup {part}]
    /\ \/ /\ Goto(r, next)
          /\ verified' = [verified EXCEPT ![Via(r)] = next = "insert"]
          /\ UNCHANGED mtx
       \/ Error(r) /\ Release(r) /\ UNCHANGED verified
    /\ UNCHANGED <<rows, points, home, open>>

CreateTable(r) == Makes(r, "table", "table", "hypertable")

\* create_hypertable refuses a plain table that has rows.
CreateHypertable(r) ==
    /\ "hypertable" \in made[Db(r)] \/ points[Db(r)] = Zero
    /\ Makes(r, "hypertable", "hypertable", "index")

CreateIndex(r) == Makes(r, "index", "index", "insert")

\* One execution of the prepared INSERT.
Insert(r) ==
    /\ At(r, "insert")
    /\ \E p \in Point :
          /\ req[r].left[p] > 0
          /\ Become(r, [req[r] EXCEPT !.left[p] = @ - 1, !.put[p] = @ + 1])
    /\ UNCHANGED <<rows, points, made, home, verified, mtx, open>>

\* The deferred Commit.  Its error is assigned to a result that was already
\* returned: a commit that fails is reported as success.
CommitPoints(r) ==
    /\ At(r, "insert") /\ req[r].left = Zero
    /\ \/ /\ points' = [points EXCEPT ![Db(r)] = Plus(@, req[r].put)]
          /\ Advance(r, req[r])
       \/ Advance(r, [req[r] EXCEPT !.lost = TRUE]) /\ UNCHANGED points
    /\ Release(r)
    /\ UNCHANGED <<rows, made, home, verified, open>>

\* Fault: the INSERTs are executed outside of the transaction.
KeptKeepsPoints(r) == points' = [points EXCEPT ![Db(r)] = Plus(@, req[r].put)]

\* What a rollback leaves.
Kept(r) == UNCHANGED points

\* A statement fails and has no effect; an open transaction is rolled back.
AddFails(r) ==
    /\ req[r].pc \in {"table", "hypertable", "index", "insert"}
    /\ Kept(r) /\ Error(r) /\ Release(r)
    /\ UNCHANGED <<rows, made, home, verified, open>>

-----------------------------------------------------------------------------
(* OrmService.AddTSDB, and the queries of handleTsdbQuery                  *)

\* A service without a Tsdb drops the points.
Push(r) ==
    /\ At(r, "idle")
    /\ \E bag \in Pushes :
          LET x == [Idle EXCEPT !.op = "push", !.list = <<[keys |-> {}, points |-> bag]>>,
                                !.left = bag]
          IN  Become(r, IF open THEN [x EXCEPT !.pc = "call"]
                        ELSE [x EXCEPT !.pc = "done", !.lost = TRUE])
    /\ UNCHANGED <<rows, points, made, home, verified, mtx, open>>

\* The field is read again for the call.
Call(r) ==
    /\ At(r, "call")
    /\ Goto(r, IF open THEN "lock" ELSE "panicked")
    /\ UNCHANGED <<rows, points, made, home, verified, mtx, open>>

\* A bound that is 0, given as such or unreadable, counts as missing.
Query(r) ==
    /\ At(r, "idle")
    /\ \E k \in Key, from, to \in Stamp \cup {0} :
          LET x == [Idle EXCEPT !.op = "query", !.key = k, !.from = from, !.to = to]
          IN  Become(r, [x EXCEPT !.pc = IF open /\ from # 0 /\ to # 0 THEN "select"
                                         ELSE "failed"])
    /\ UNCHANGED <<rows, points, made, home, verified, mtx, open>>

Between(bag, k, from, to) ==
    [p \in Point |-> IF p[1] = k /\ from <= p[2] /\ p[2] <= to THEN bag[p] ELSE 0]

\* GetTSDB.  An error, that of a table not made yet included, and a Tsdb that
\* is gone by now, are answered with no points.
Select(r) ==
    /\ At(r, "select")
    /\ \/ /\ open
          /\ Become(r, [req[r] EXCEPT !.pc = "done", !.shown =
                           Between(points[home["service"]], req[r].key, req[r].from, req[r].to)])
       \/ Become(r, [req[r] EXCEPT !.pc = "done", !.lost = TRUE])
       \/ ~open /\ Goto(r, "panicked")
    /\ UNCHANGED <<rows, points, made, home, verified, mtx, open>>

-----------------------------------------------------------------------------
(* Postgres.Read                                                           *)

ReadRow(r) ==
    /\ At(r, "idle")
    /\ \E k \in Key :
          Become(r, [Idle EXCEPT !.op = "get", !.key = k,
                                 !.pc = IF k \in rows THEN "populate" ELSE "failed"])
    /\ UNCHANGED <<rows, points, made, home, verified, mtx, open>>

OfKey(bag, k) == [p \in Point |-> IF p[1] = k THEN bag[p] ELSE 0]
Fits(f, of) ==
    /\ \A p \in Point : f[p] <= of[p]
    /\ SumFunction(f) = IF SumFunction(of) < MaxShown THEN SumFunction(of) ELSE MaxShown

\* Fault: without DESC in the inner SELECT.
IsOldest(f, bag, k) ==
    LET of == OfKey(bag, k)
    IN  /\ Fits(f, of)
        /\ \A p, q \in Point : f[p] < of[p] /\ f[q] > 0 => q[2] <= p[2]

\* f is what GetTSDBLatest returns: the newest of the points of k, as many as
\* there is room for.
IsLatest(f, bag, k) ==
    LET of == OfKey(bag, k)
    IN  /\ Fits(f, of)
        /\ \A p, q \in Point : f[p] < of[p] /\ f[q] > 0 => q[2] >= p[2]

\* populateTsFields, of the one element that was read: an error leaves the
\* object without points.
PopulateTsFields(r) ==
    /\ At(r, "populate")
    /\ \/ \E f \in [Point -> 0..MaxShown] :
             /\ IsLatest(f, points[OrmDb], req[r].key)
             /\ Become(r, [req[r] EXCEPT !.pc = "done", !.shown = f])
       \/ Become(r, [req[r] EXCEPT !.pc = "done", !.lost = TRUE])
    /\ UNCHANGED <<rows, points, made, home, verified, mtx, open>>

DeActivate ==
    /\ open /\ open' = FALSE
    /\ UNCHANGED <<rows, points, made, home, verified, mtx, req>>

-----------------------------------------------------------------------------
\* What a goroutine does by itself once it has begun.
Step(r) ==
    \/ WriteRows(r) \/ Lock(r) \/ CreateTable(r) \/ CreateHypertable(r) \/ CreateIndex(r)
    \/ Insert(r) \/ CommitPoints(r) \/ Call(r) \/ Select(r) \/ PopulateTsFields(r)

Next ==
    \/ \E r \in Request :
          \/ BeginWrite(r) \/ DeleteRow(r) \/ Push(r) \/ Query(r) \/ ReadRow(r)
          \/ Step(r) \/ WriteRowsFails(r) \/ AddFails(r)
    \/ DeActivate

\* The runtime runs a goroutine that can go on, and the database answers.
\* Calls are finitely many, so a mutex is free for good in the end.
Fairness == \A r \in Request : WF_vars(Step(r))

Spec == Init /\ [][Next]_vars /\ Fairness

-----------------------------------------------------------------------------
(* Properties                                                              *)

RequestRecord ==
    [pc : {"idle", "rows", "lock", "table", "hypertable", "index", "insert", "call",
           "select", "populate", "done", "failed", "panicked"},
     op : {"none", "write", "push", "get", "query", "delete"},
     list : Seq(Batch), i : Nat, left : Bag, put : Bag, key : Key \cup {NoOne},
     from : Stamp \cup {0}, to : Stamp \cup {0}, shown : Bag, lost : BOOLEAN]

InAdd == {"table", "hypertable", "index", "insert"}

\* The store and the requests have their types, a mutex is held by the one
\* request that is in AddTSDB of its instance, a request in a list is at a
\* batch of it, and one that reads an object has its key.
TypeOK ==
    /\ rows \subseteq Key
    /\ points \in [Database -> Bag]
    /\ made \in [Database -> SUBSET {"table", "hypertable", "index"}]
    /\ home \in [Inst -> Database] /\ home["orm"] = OrmDb
    /\ verified \in [Inst -> BOOLEAN]
    /\ open \in BOOLEAN
    /\ req \in [Request -> RequestRecord]
    /\ mtx \in [Inst -> Request \cup {NoOne}]
    /\ \A r \in Request : \A i \in Inst : mtx[i] = r <=> req[r].pc \in InAdd /\ Via(r) = i
    /\ \A r \in Request :
          /\ req[r].pc \in InAdd \cup {"rows", "lock", "call"} =>
                req[r].i \in 1..Len(req[r].list)
          /\ req[r].op = "get" => req[r].key \in Key

\* Points are only ever in a hypertable with its index: no instance inserts
\* before it is made, since create_hypertable would refuse the table from then
\* on, whatever failed on the way and whoever else uses the database (AddTSDB,
\* verifyTable).
PointsNeedHypertable ==
    /\ \A d \in Database : points[d] # Zero => made[d] = {"table", "hypertable", "index"}
    /\ \A i \in Inst : verified[i] => made[home[i]] = {"table", "hypertable", "index"}

\* How many copies of p the batches of r up to number n have for database d.
Sent(r, d, p, n) ==
    IF req[r].list = <<>> \/ Db(r) # d THEN 0
    ELSE SumFunction([i \in 1..n |-> req[r].list[i].points[p]])
SentByAll(d, p, Upto(_)) == SumFunction([r \in Request |-> Sent(r, d, p, Upto(r))])

\* The batches that r was told, or goes on as if, were stored.
Accepted(r) ==
    IF req[r].lost THEN 0
    ELSE IF At(r, "done") THEN Len(req[r].list)
    ELSE IF req[r].list = <<>> \/ At(r, "panicked") THEN 0 ELSE req[r].i - 1
Reached(r) == IF req[r].list = <<>> THEN 0 ELSE req[r].i

\* A point has at most as many copies as there are batches that carried it:
\* a write that fails, or waits, or is one of many, adds nothing twice.  The
\* retry of a failed write and an object written back with the points it was
\* shown do carry them again (Write, populateTsFields).
NoPointIsAddedTwice ==
    \A d \in Database, p \in Point : points[d][p] <= SentByAll(d, p, Reached)

\* What was accepted is there: the points of every batch of a write that
\* succeeded, of the batches before the one that failed, of a push without an
\* error, all of their copies, unless a commit was lost (AddTSDB, Write).
AcceptedPointsAreStored ==
    \A d \in Database, p \in Point : points[d][p] >= SentByAll(d, p, Accepted)

\* A read shows what was accepted before: a GET every accepted point of the
\* object or as many newer ones as it has room for, whatever became of the
\* object in between; a query by time every accepted point of its range that
\* went to the database of the service (GetTSDBLatest, GetTSDB).
ReadsShowAcceptedPoints ==
    [][\A r \in Request :
          ~At(r, "done") /\ req'[r].pc = "done" /\ ~req'[r].lost =>
          LET shown == req'[r].shown
              have(d, p) == SentByAll(d, p, Accepted)
          IN  /\ At(r, "populate") => \A p \in {req[r].key} \X Stamp :
                    \/ shown[p] >= have(OrmDb, p)
                    \/ /\ SumFunction(shown) = MaxShown
                       /\ \A q \in Point : shown[q] > 0 => q[2] >= p[2]
              /\ At(r, "select") => \A p \in {req[r].key} \X Stamp :
                    req[r].from <= p[2] /\ p[2] <= req[r].to =>
                        shown[p] >= have(home["service"], p)]_vars

\* Each call comes to its end, or panics, whatever fails: an error in AddTSDB
\* leaves the mutex free for those who wait (AddTSDB).
RequestsEnd == \A r \in Request : <>[](At(r, "idle") \/ Ended(r))

\* The tables of points are logs that take whole batches.
Log == INSTANCE PointLog WITH log <- points,
          offered <- UNION {{req[r].list[i].points : i \in DOMAIN req[r].list} : r \in Request}
ImplementsPointLog == Log!Spec
=============================================================================
