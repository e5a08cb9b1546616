----------------------------- MODULE OrmService -----------------------------
(***************************************************************************)
(* The persistence service with its cache enabled: Post, Put, Patch,       *)
(* Delete and Get, each request a goroutine of its own over the shared     *)
(* cache and the database behind IORM, until the service is deactivated    *)
(* under them.  A step is one call on the cache or one call on the ORM;    *)
(* nothing orders the calls of two requests.                               *)
(*                                                                         *)
(* An object is what it has in each of its parts: the columns of its row   *)
(* in the root table, and its children, each a row of another table.       *)
(*                                                                         *)
(* What is atomic: one cache call (the cache is external and locks         *)
(* itself), and one ORM read, write or delete (Postgres.mtx, or, for a     *)
(* write of several batches, no call between them that matters here).      *)
(* The fields raced and lost and the variables suspect, partial and thin   *)
(* are history: no step of the code reads them.                            *)
(***************************************************************************)
EXTENDS Integers, Sequences, FiniteSets

CONSTANTS
    Key,          \* primary keys
    Row,          \* the columns of the root table, besides the key
    Kid,          \* the children an object may have
    Main,         \* the column that criteria select by
    Val,          \* what a part may hold
    None,         \* no object, in the cache or in the database
    Request,      \* requests, each handled once
    Ops,          \* the operations requests may ask for
    Lists,        \* the element lists a POST, PUT or PATCH may carry
    Criteria,     \* the WHERE clauses of queries: the values they select
    Asked,        \* the parts queries ask for: all, or some columns of the root
    Paging,       \* q.Page() and q.Limit() of a query, limit 0 for none
    DefaultBlock, \* elements a query without limit fetches from the cache
    BatchSize     \* elements the ORM commits in one transaction

Part == Row \cup Kid

\* Objects, whole or in part; those that are stored have every column.
Piece == UNION {[S -> Val] : S \in SUBSET Part}
Object == {o \in Piece : Row \subseteq DOMAIN o}
Element == [key : Key, val : Piece]

ReadOps == {"GET", "GET query", "GET aggregate"}
QueryOps == {"GET query", "GET aggregate", "DELETE query"}
WriteOps == {"POST", "PUT", "PATCH", "DELETE", "DELETE query"}

ASSUME ServiceAssumption ==
    /\ IsFiniteSet(Key)
    /\ Main \in Row /\ Row \cap Kid = {}
    /\ None \notin Piece
    /\ Ops \subseteq ReadOps \cup WriteOps
    /\ Lists \subseteq Seq(Element) \ {<<>>}
    /\ Criteria \subseteq SUBSET Val
    /\ Asked \subseteq {Part} \cup SUBSET Row
    /\ Paging \subseteq [page : Nat, limit : Nat]
    /\ DefaultBlock \in Nat \ {0}
    /\ BatchSize \in Nat \ {0}

VARIABLES
    db,       \* the objects in the tables of the service's type
    cache,    \* OrmService.cache
    phase,    \* how far DeActivate has come
    req,      \* what each request has reached and holds
    suspect,  \* keys on which cache and database may disagree
    partial,  \* keys the database may hold and the cache may not
    thin      \* keys of which the cache may lack some parts

vars == <<db, cache, phase, req, suspect, partial, thin>>

-----------------------------------------------------------------------------
(* Objects and tables                                                      *)

Stored == [Key -> Object \cup {None}]
Cached == [Key -> Piece \cup {None}]
Empty == [k \in Key |-> None]
Nothing == [p \in {} |-> None]

Parts(o) == IF o = None THEN {} ELSE DOMAIN o
Only(o, S) == [p \in DOMAIN o \cap S |-> o[p]]
Over(new, old) == [p \in DOMAIN new \cup DOMAIN old |-> IF p \in DOMAIN new THEN new[p] ELSE old[p]]

\* All that object c has, d has too.
PartOf(c, d) ==
    /\ c # None /\ d # None
    /\ DOMAIN c \subseteq DOMAIN d
    /\ \A p \in DOMAIN c : c[p] = d[p]

\* Whether an object without the column matches depends on its zero value.
Matching(t, crit) == {k \in Key : Main \in Parts(t[k]) /\ t[k][Main] \in crit}
Blank(t) == {k \in Key : t[k] # None /\ Main \notin Parts(t[k])}

KeysOf(elems) == {elems[i].key : i \in DOMAIN elems}
RowsOf(t, S) == {[key |-> k, val |-> t[k]] : k \in {x \in S : t[x] # None}}
Put(t, k, v) == [t EXCEPT ![k] = v]

\* How many of n records page holds, at size records a page.
Least(a, b) == IF a <= b THEN a ELSE b
PageSize(n, page, size) ==
    IF page * size >= n THEN 0 ELSE Least(size, n - page * size)

\* The elements of a list the ORM commits together, the n-th from 1, and the
\* positions that are committed when some of the first n batches are.
Batch(elems, n) == {i \in DOMAIN elems : (i - 1) \div BatchSize = n - 1}
Batches(elems) == (Len(elems) + BatchSize - 1) \div BatchSize
Committed(elems, n) == {UNION {Batch(elems, b) : b \in B} : B \in SUBSET (1..n)}

Newest(S) == CHOOSE i \in S : \A j \in S : j <= i

\* Of some positions of a list those with key k, those that give an object part p,
\* and the parts they add to it.
For(elems, S, k) == {i \in S : elems[i].key = k}
Giving(elems, S, p) == {i \in S : p \in DOMAIN elems[i].val}
Added(op, elems, S) == IF op = "PATCH" THEN {} ELSE UNION {DOMAIN elems[i].val : i \in S}

\* The rows d of key k after the elements at positions S were written in
\* their order.  POST and PUT insert or update the rows of the new object and
\* delete none; PATCH updates the rows that exist.
Rewritten(op, elems, S, k, d) ==
    LET at == For(elems, S, k)
    IN  IF at = {} \/ (op = "PATCH" /\ d = None) THEN d
        ELSE [p \in Parts(d) \cup Added(op, elems, at) |->
                 IF Giving(elems, at, p) = {} THEN d[p]
                 ELSE elems[Newest(Giving(elems, at, p))].val[p]]

\* Of a key without an object, children may be left: a delete by query with a limit
\* deletes the rows of every root and children of the first ones.  Which are left,
\* and come back under the row a POST or PUT inserts, is the business of RelStore.
Leftovers(op, elems, S) ==
    [{k \in Key : op # "PATCH" /\ db[k] = None /\ For(elems, S, k) # {}} ->
        {o \in Piece : DOMAIN o \subseteq Kid}]
RowsUnder(k, left) == IF k \in DOMAIN left THEN left[k] ELSE db[k]

Written(op, elems, S, left) == [k \in Key |-> Rewritten(op, elems, S, k, RowsUnder(k, left))]

\* Of the keys of a list, those whose stored object will not be the last element
\* for them: after a POST or PUT it keeps parts the element does not have.
Merged(elems, left) ==
    {k \in KeysOf(elems) :
        Parts(Rewritten("PUT", elems, DOMAIN elems, k, RowsUnder(k, left)))
            # DOMAIN elems[Newest(For(elems, DOMAIN elems, k))].val}

\* Those that a PATCH gives a part the stored object does not have: no row is
\* updated, while the cache adds it.
Unmatched(elems) ==
    {elems[i].key : i \in {j \in DOMAIN elems :
                              ~(DOMAIN elems[j].val \subseteq Parts(db[elems[j].key]))}}

\* What a SELECT of every table returns of the parts asked for of the objects
\* under keys S, and what it may return when the last result breaks off, which
\* is no error (rows.Err): fewer records, or records without some children.
WholeRead(S, asked) ==
    {[key |-> k, val |-> Only(db[k], asked)] : k \in {x \in S : db[x] # None}}
CutReads(S, asked) ==
    LET there == {k \in S : db[k] # None}
    IN  (SUBSET WholeRead(S, asked)) \cup
        {{[key |-> k, val |-> Only(db[k], asked \ gone[k])] : k \in there} :
            gone \in [there -> SUBSET Kid]}

-----------------------------------------------------------------------------
(* Requests                                                                *)

Ended == {"done", "failed", "panicked"}
InFlight(r) == req[r].pc \notin {"idle"} \cup Ended

\* The keys a request may read or change: those of its elements, or any that
\* its criteria may come to select.
Touches(new) == IF new.op \in QueryOps THEN Key ELSE KeysOf(new.elems)

Start == [pc |-> "idle", op |-> None, elems |-> <<>>, i |-> 1, crit |-> {},
          asked |-> Part, paging |-> [page |-> 0, limit |-> 0], hold |-> {},
          todo |-> {}, cut |-> FALSE, raced |-> {}, lost |-> {}]

\* Activate: the cache is loaded with the whole tables.  A load that breaks off
\* lacks records, a failed one all of them, or children (loadCacheInitElements).
Init ==
    /\ db \in Stored
    /\ \/ \E S \in SUBSET Key :
             /\ cache = [k \in Key |-> IF k \in S THEN db[k] ELSE None]
             /\ partial = Key \ S
             /\ thin = {}
       \/ \E gone \in [Key -> SUBSET Kid] :
             /\ cache = [k \in Key |-> IF db[k] = None THEN None
                                       ELSE Only(db[k], Part \ gone[k])]
             /\ partial = {}
             /\ thin = {k \in Key : gone[k] # {}}
    /\ phase = "active"
    /\ req = [r \in Request |-> Start]
    /\ suspect = {}

-----------------------------------------------------------------------------
(* Steps common to the handlers                                            *)

At(r, pc) == req[r].pc = pc

\* A request arrives and takes its first steps, up to new.pc.  If it has not
\* ended by then it races with every request in flight, one of the two a
\* writer, on the keys both touch.
Arrive(r, new) ==
    LET with == {x \in Request : InFlight(x) /\ {req[x].op, new.op} \cap WriteOps # {}}
        shared(x) == Touches(new) \cap Touches(req[x])
    IN  /\ new.op \in Ops
        /\ req' = [x \in Request |->
                     IF x = r
                     THEN [new EXCEPT !.raced = UNION {shared(y) : y \in with}]
                     ELSE IF x \in with /\ new.pc \notin Ended
                     THEN [req[x] EXCEPT !.raced = req[x].raced \cup shared(x)]
                     ELSE req[x]]
        /\ UNCHANGED <<db, phase, suspect, partial, thin>>

Becomes(r, new) == req' = [req EXCEPT ![r] = new]
Goto(r, pc) == Becomes(r, [req[r] EXCEPT !.pc = pc])

\* A request ends with nothing left to do; only a GET has an answer.
Finish(r, pc) ==
    Becomes(r, [Start EXCEPT !.op = req[r].op, !.pc = pc])

\* A writer ends.  Of the keys no other request raced it on, it has set those
\* of mended in cache and database alike, may have left those of spoilt
\* different, those of dropped in the database only, and those of merged with
\* parts in the database that the cache does not have.
End(r, pc, mended, spoilt, dropped, merged) ==
    LET sure == mended \ (req[r].raced \cup spoilt)
    IN  /\ Finish(r, pc)
        /\ IF phase = "active"
           THEN /\ suspect' = (suspect \ sure) \cup spoilt \cup req[r].raced
                /\ partial' = (partial \ sure) \cup dropped
                /\ thin' = (thin \ sure) \cup merged
           ELSE UNCHANGED <<suspect, partial, thin>>

\* A call that puts an object into the cache, or None to remove it; without a
\* cache it does nothing.
Store(k, v) == cache' = IF phase = "active" THEN Put(cache, k, v) ELSE cache

\* cacheElements puts one record of a read into the cache: the parts that were
\* not asked for, or broke off, it puts there as absent.
Fills(r, e) ==
    /\ Store(e.key, e.val)
    /\ thin' = IF phase = "active" /\ (req[r].cut \/ req[r].asked # Part)
               THEN thin \cup {e.key} ELSE thin

\* The ORM answers until it is closed; then its calls fail.
OrmOpen == phase \in {"active", "no cache"}
OrmThere == phase # "no orm"

elem(r) == req[r].elems[req[r].i]
first(r) == req[r].elems[1]

-----------------------------------------------------------------------------
(* do: POST, PUT and PATCH                                                 *)

\* The Before callbacks let the request go on, refuse it or stop it; without a
\* cache cacheAction returns at once.
BeginWrite(r) ==
    /\ At(r, "idle")
    /\ \E op \in {"POST", "PUT", "PATCH"}, elems \in Lists,
          pc \in {IF phase = "active" THEN "cacheAction" ELSE "Write", "failed", "done"} :
          /\ op # "PATCH" => \A n \in DOMAIN elems : Row \subseteq DOMAIN elems[n].val
          /\ Arrive(r, [Start EXCEPT !.op = op, !.elems = elems, !.pc = pc,
                                     !.i = IF pc = "Write" THEN Len(elems) + 1 ELSE 1])
    /\ UNCHANGED cache

\* Fault: one element too many.
NextElemPastEnd(r, lost) ==
    Becomes(r, [req[r] EXCEPT
        !.i = req[r].i + 1,
        !.pc = IF req[r].i > Len(req[r].elems) THEN "Write" ELSE "cacheAction",
        !.lost = req[r].lost \cup lost])

\* The request turns to its next element, or to the write after the last.
NextElem(r, lost) ==
    Becomes(r, [req[r] EXCEPT
        !.i = req[r].i + 1,
        !.pc = IF req[r].i = Len(req[r].elems) THEN "Write" ELSE "cacheAction",
        !.lost = req[r].lost \cup lost])

\* Fault: a PUT leaves the cached record alone.
CachePostNotPut(r) ==
    /\ At(r, "cacheAction")
    /\ req[r].op \in {"POST", "PUT"}
    /\ IF req[r].op = "PUT" /\ cache[elem(r).key] # None THEN cache' = cache
       ELSE Store(elem(r).key, elem(r).val)
    /\ NextElem(r, {})
    /\ UNCHANGED <<db, phase, suspect, partial, thin>>

\* cachePost of one element.
CachePost(r) ==
    /\ At(r, "cacheAction")
    /\ req[r].op \in {"POST", "PUT"}
    /\ Store(elem(r).key, elem(r).val)
    /\ NextElem(r, {})
    /\ UNCHANGED <<db, phase, suspect, partial, thin>>

\* cacheGet of the element to patch: on a miss the database is read first.
PatchLookup(r) ==
    /\ At(r, "cacheAction")
    /\ req[r].op = "PATCH"
    /\ Goto(r, IF cache[elem(r).key] = None THEN "patchRead" ELSE "cachePatch")
    /\ UNCHANGED <<db, cache, phase, suspect, partial, thin>>

\* The results of a read, broken off or not.
Reads(S, asked, cut) == IF cut THEN CutReads(S, asked) ELSE {WholeRead(S, asked)}

\* The read for a missed element: ElementToQuery(pb, ...) makes its query of
\* the first element of the list.  A read that fails returns no element.
PatchRead(r) ==
    /\ At(r, "patchRead")
    /\ OrmThere
    /\ \E cut \in BOOLEAN :
       \E got \in {{}} \cup IF OrmOpen THEN Reads({first(r).key}, Part, cut) ELSE {} :
          Becomes(r, [req[r] EXCEPT
              !.pc = "patchFill", !.todo = got, !.cut = cut,
              !.lost = IF req[r].i = 1 THEN req[r].lost
                       ELSE req[r].lost \cup {first(r).key}])
    /\ UNCHANGED <<db, cache, phase, suspect, partial, thin>>

\* An object whose children broke off may not be put together: the conversion
\* panics, with elements in the cache that are never written.
PatchReadPanics(r) ==
    /\ At(r, "patchRead")
    /\ OrmOpen
    /\ End(r, "panicked", {}, KeysOf(req[r].elems), {}, {})
    /\ UNCHANGED <<db, cache, phase>>

\* cacheElements of the one record or none that this read returned.
PatchFill(r) ==
    /\ At(r, "patchFill")
    /\ \/ req[r].todo = {} /\ UNCHANGED <<cache, thin>>
       \/ \E e \in req[r].todo : Fills(r, e)
    /\ Becomes(r, [req[r] EXCEPT !.pc = "cachePatch", !.todo = {}])
    /\ UNCHANGED <<db, phase, suspect, partial>>

\* cachePatch of one element: what it has, over what the record had.  For an
\* element that is not in the cache, the external cache may make a record of
\* the patched parts alone, or none.
CachePatch(r) ==
    LET k == elem(r).key
        v == elem(r).val
    IN  /\ At(r, "cachePatch")
        /\ \/ /\ cache[k] # None
              /\ Store(k, Over(v, cache[k]))
              /\ NextElem(r, {})
           \/ /\ cache[k] = None
              /\ \E new \in {v, None} : Store(k, new)
              /\ NextElem(r, {k})
        /\ UNCHANGED <<db, phase, suspect, partial, thin>>

\* orm.Write returns no error.  writeData loses the error of tx.Commit: any
\* of the batches may not have been committed.
Write(r) ==
    LET elems == req[r].elems
        patch == req[r].op = "PATCH"
    IN  /\ At(r, "Write")
        /\ OrmOpen
        /\ \E S \in Committed(elems, Batches(elems)) :
           \E left \in Leftovers(req[r].op, elems, S) :
              /\ db' = Written(req[r].op, elems, S, left)
              /\ End(r, "done",
                     IF patch THEN {} ELSE KeysOf(elems),
                     req[r].lost \cup {elems[i].key : i \in DOMAIN elems \ S}
                                 \cup IF patch THEN Unmatched(elems) ELSE {},
                     {},
                     IF patch THEN {} ELSE Merged(elems, left))
        /\ UNCHANGED <<cache, phase>>

\* orm.Write returns the error of some batch; those before it were committed.
WriteFails(r) ==
    LET elems == req[r].elems
    IN  /\ At(r, "Write")
        /\ OrmThere
        /\ \E S \in Committed(elems, IF OrmOpen THEN Batches(elems) - 1 ELSE 0) :
           \E left \in Leftovers(req[r].op, elems, S) :
              db' = Written(req[r].op, elems, S, left)
        /\ End(r, "failed", {}, KeysOf(elems), {}, {})
        /\ UNCHANGED <<cache, phase>>

-----------------------------------------------------------------------------
(* Delete                                                                  *)

Filter(k) == <<[key |-> k, val |-> Nothing]>>

\* Filter mode: the element leaves the cache before the database.
DeleteFilter(r) ==
    /\ At(r, "idle")
    /\ \E k \in Key :
        /\ Arrive(r, [Start EXCEPT !.op = "DELETE", !.pc = "Delete",
                                   !.elems = Filter(k)])
        /\ Store(k, None)

\* orm.Delete of that element, which may fail, with an error or, when it is
\* the commit that fails, without.
Delete(r) ==
    LET k == first(r).key
    IN  /\ At(r, "Delete")
        /\ OrmThere
        /\ \/ OrmOpen /\ db' = Put(db, k, None) /\ End(r, "done", {k}, {}, {}, {})
           \/ OrmOpen /\ db' = db /\ End(r, "done", {}, {}, {k}, {})
           \/ db' = db /\ End(r, "failed", {}, {}, {k}, {})
        /\ UNCHANGED <<cache, phase>>

\* How many of n matching records a query selects: those of its page, or, if
\* it has no limit, all of them up to most.
RoomFor(n, paging, most) ==
    IF paging.limit = 0 THEN Least(n, most)
    ELSE PageSize(n, paging.page, paging.limit)

\* The cached records the external Fetch may find.
Found(crit) == {Matching(cache, crit) \cup B : B \in SUBSET Blank(cache)}

\* n records of some keys.
Some(S, n) == {RowsOf(cache, T) : T \in {X \in SUBSET S : Cardinality(X) = n}}

\* Fault: the start of the block is that of the page after.
cacheFetchPageAfter(crit, paging) ==
    UNION {Some(S, RoomFor(Cardinality(S), [paging EXCEPT !.page = paging.page + 1], DefaultBlock)) :
              S \in Found(crit)}

\* Fault: the criteria are left out.
cacheFetchOfAll(crit, paging) ==
    LET S == {k \in Key : cache[k] # None}
    IN  Some(S, RoomFor(Cardinality(S), paging, DefaultBlock))

\* What cacheFetch of a query may return: the block of its page, in an order
\* that is the cache's own, of the cached records that match.
cacheFetch(crit, paging) ==
    UNION {Some(S, RoomFor(Cardinality(S), paging, DefaultBlock)) : S \in Found(crit)}

\* Query mode: what is to leave the cache is fetched from it first.  What is past
\* the block will stay, and a record without the column may stay or go wrongly.
DeleteFetch(r) ==
    /\ At(r, "idle")
    /\ \E crit \in Criteria, paging \in Paging :
       \E got \in cacheFetch(crit, paging) :
          Arrive(r, [Start EXCEPT
              !.op = "DELETE query", !.pc = "Delete query", !.crit = crit,
              !.paging = paging, !.todo = got,
              !.lost = (Matching(cache, crit) \ {e.key : e \in got}) \cup Blank(cache)])
    /\ UNCHANGED cache

\* orm.Delete removes every record that matches, if the page of the query
\* has any, or, when its commit fails, none.
DeleteQuery(r) ==
    LET S == Matching(db, req[r].crit)
        n == Cardinality(S)
    IN  /\ At(r, "Delete query")
        /\ OrmOpen
        /\ \/ /\ RoomFor(n, req[r].paging, n) # 0
              /\ db' = [k \in Key |-> IF k \in S THEN None ELSE db[k]]
              /\ Goto(r, "evict")
              /\ partial' = partial
           \/ /\ db' = db
              /\ Goto(r, "evict")
              /\ partial' = partial \cup {e.key : e \in req[r].todo}
        /\ UNCHANGED <<cache, phase, suspect, thin>>

DeleteQueryFails(r) ==
    /\ At(r, "Delete query")
    /\ OrmThere
    /\ End(r, "failed", {}, {}, {}, {})
    /\ UNCHANGED <<db, cache, phase>>

\* Fault: the fetched elements stay where they are.
EvictNothing(r) ==
    /\ At(r, "evict")
    /\ \E e \in req[r].todo :
          Becomes(r, [req[r] EXCEPT !.todo = req[r].todo \ {e}])
    /\ UNCHANGED <<db, cache, phase, suspect, partial, thin>>

\* Then the fetched elements leave the cache one by one.
Evict(r) ==
    /\ At(r, "evict")
    /\ \E e \in req[r].todo :
          /\ Store(e.key, None)
          /\ Becomes(r, [req[r] EXCEPT !.todo = req[r].todo \ {e}])
    /\ UNCHANGED <<db, phase, suspect, partial, thin>>

\* Records past the fetched block are left in the cache.
DeleteQueryEnds(r) ==
    /\ At(r, "evict")
    /\ req[r].todo = {}
    /\ End(r, "done", {}, req[r].lost, {}, {})
    /\ UNCHANGED <<db, cache, phase>>

-----------------------------------------------------------------------------
(* Get                                                                     *)

\* Filter mode: cacheGet returns the cached record, or the database is read.
Get(r) ==
    /\ At(r, "idle")
    /\ \E k \in Key :
          Arrive(r, [Start EXCEPT
              !.op = "GET", !.elems = Filter(k), !.hold = RowsOf(cache, {k}),
              !.pc = IF cache[k] = None THEN "Read" ELSE "done"])
    /\ UNCHANGED cache

\* Query mode: cacheFetch returns nothing when the cache is empty, or has no
\* match from the first page on; else its block is the answer.
GetQuery(r) ==
    /\ At(r, "idle")
    /\ \E crit \in Criteria, paging \in Paging, asked \in Asked :
       \E got \in cacheFetch(crit, paging) :
          Arrive(r, [Start EXCEPT
              !.op = "GET query", !.crit = crit, !.paging = paging,
              !.asked = asked, !.hold = got,
              !.pc = IF cache = Empty \/ (got = {} /\ paging.page * paging.limit = 0)
                     THEN "Read" ELSE "done"])
    /\ UNCHANGED cache

\* Fault: only the block of the query's page is aggregated.
GetAggregateOfBlock(r) ==
    /\ At(r, "idle")
    /\ \E crit \in Criteria :
       \E got \in cacheFetch(crit, Start.paging) :
          Arrive(r, [Start EXCEPT
              !.op = "GET aggregate", !.crit = crit, !.hold = got,
              !.pc = IF cache = Empty THEN "Read" ELSE "done"])
    /\ UNCHANGED cache

\* A query with aggregates is answered from any cache that is not empty,
\* whether or not a record matches.  Here hold is not the answer itself but the
\* records the answer counts: the external Fetch takes all it has that match.
GetAggregate(r) ==
    /\ At(r, "idle")
    /\ \E crit \in Criteria :
       \E S \in Found(crit) :
          Arrive(r, [Start EXCEPT
              !.op = "GET aggregate", !.crit = crit, !.hold = RowsOf(cache, S),
              !.pc = IF cache = Empty THEN "Read" ELSE "done"])
    /\ UNCHANGED cache

\* The keys orm.Read reads: that of the filter, those that match a query without
\* limit, or, of the paging index of the ORM, some keys: which ones is the
\* business of module PrimaryIndex.
ReadKeys(new) ==
    IF new.op = "GET" THEN {Touches(new)}
    ELSE IF new.paging.limit = 0 THEN {Matching(db, new.crit)}
    ELSE {X \in SUBSET Key : Cardinality(X) <= new.paging.limit}

\* readAggregate returns counts in its metadata, and no elements to cache.
Read(r) ==
    /\ At(r, "Read")
    /\ OrmOpen
    /\ \E S \in ReadKeys(req[r]), cut \in BOOLEAN :
       \E got \in Reads(S, req[r].asked, cut) :
          Becomes(r, [req[r] EXCEPT
              !.pc = "fill", !.hold = got, !.cut = cut,
              !.todo = IF req[r].op = "GET aggregate" THEN {} ELSE got])
    /\ UNCHANGED <<db, cache, phase, suspect, partial, thin>>

\* A failed read of a filter answers with the filter itself; the paging index,
\* and the conversion of children that broke off, may make the goroutine panic.
ReadFails(r) ==
    /\ At(r, "Read")
    /\ OrmThere
    /\ \/ Becomes(r, [Start EXCEPT
              !.op = req[r].op, !.pc = "failed",
              !.hold = {req[r].elems[i] : i \in DOMAIN req[r].elems}])
       \/ OrmOpen /\ req[r].op # "GET aggregate" /\ Finish(r, "panicked")
    /\ UNCHANGED <<db, cache, phase, suspect, partial, thin>>

\* cacheElements: each record read goes into the cache.
Fill(r) ==
    /\ At(r, "fill")
    /\ \E e \in req[r].todo :
          /\ Fills(r, e)
          /\ Becomes(r, [req[r] EXCEPT !.todo = req[r].todo \ {e}])
    /\ UNCHANGED <<db, phase, suspect, partial>>

ReadEnds(r) ==
    /\ At(r, "fill")
    /\ req[r].todo = {}
    /\ Goto(r, "done")
    /\ UNCHANGED <<db, cache, phase, suspect, partial, thin>>

-----------------------------------------------------------------------------
(* DeActivate, under requests in flight and others that arrive             *)

\* The next thing a request does is to call the cache.
CallsCache(r) ==
    \/ req[r].pc \in {"idle", "cacheAction", "cachePatch"}
    \/ req[r].pc \in {"patchFill", "evict", "fill"} /\ req[r].todo # {}

\* The cache is closed and set to nil.  Nothing locks it between the nil check
\* of a call and its use: the calls that are there panic.
DropCache ==
    /\ phase = "active"
    /\ phase' = "no cache"
    /\ \E X \in SUBSET {r \in Request : CallsCache(r)} :
          req' = [r \in Request |->
                    IF r \in X THEN [Start EXCEPT !.op = req[r].op, !.pc = "panicked"]
                    ELSE req[r]]
    /\ cache' = Empty
    /\ suspect' = {} /\ partial' = Key /\ thin' = {}
    /\ UNCHANGED db

\* The ORM is closed, and then set to nil.
CloseOrm ==
    /\ \/ phase = "no cache" /\ phase' = "orm closed"
       \/ phase = "orm closed" /\ phase' = "no orm"
    /\ UNCHANGED <<db, cache, req, suspect, partial, thin>>

\* A request that calls the ORM then panics.
OrmPanics(r) ==
    /\ ~OrmThere
    /\ req[r].pc \in {"patchRead", "Write", "Delete", "Delete query", "Read"}
    /\ Finish(r, "panicked")
    /\ UNCHANGED <<db, cache, phase, suspect, partial, thin>>

WriteStep(r) ==
    \/ BeginWrite(r) \/ CachePost(r) \/ PatchLookup(r) \/ PatchRead(r)
    \/ PatchReadPanics(r) \/ PatchFill(r) \/ CachePatch(r) \/ Write(r) \/ WriteFails(r)

DeleteStep(r) ==
    \/ DeleteFilter(r) \/ Delete(r) \/ DeleteFetch(r) \/ DeleteQuery(r)
    \/ DeleteQueryFails(r) \/ Evict(r) \/ DeleteQueryEnds(r)

GetStep(r) ==
    \/ Get(r) \/ GetQuery(r) \/ GetAggregate(r) \/ Read(r) \/ ReadFails(r)
    \/ Fill(r) \/ ReadEnds(r)

Next ==
    \/ \E r \in Request : WriteStep(r) \/ DeleteStep(r) \/ GetStep(r) \/ OrmPanics(r)
    \/ DropCache \/ CloseOrm

Spec == Init /\ [][Next]_vars

-----------------------------------------------------------------------------
(* Properties                                                              *)

Phases == {"active", "no cache", "orm closed", "no orm"}

\* The steps at which a request works on one element of its list.
OnElement == {"cacheAction", "patchRead", "patchFill", "cachePatch", "Delete"}
Requests ==
    [pc : OnElement \cup {"idle", "Write", "Delete query", "evict", "Read", "fill"}
              \cup Ended,
     op : Ops \cup {None}, elems : Seq(Element), i : Nat \ {0},
     crit : SUBSET Val, asked : SUBSET Part, paging : [page : Nat, limit : Nat],
     hold : SUBSET Element, todo : SUBSET Element, cut : BOOLEAN,
     raced : SUBSET Key, lost : SUBSET Key]

\* What else is so of a request: it works on an element of its list that is
\* there, and what it writes of an object is whole rows, but for a PATCH.
Fits(q) ==
    /\ q.pc \in OnElement => q.i \in DOMAIN q.elems
    /\ q.pc \in (OnElement \ {"Delete"}) \cup {"Write"} => q.op \in {"POST", "PUT", "PATCH"}
    /\ q.op \in {"POST", "PUT"} => \A n \in DOMAIN q.elems : Row \subseteq DOMAIN q.elems[n].val

\* The variables hold what the handlers may put there, a loop ends with its
\* list, and without a cache nothing is taken to be in it (cacheAction, do,
\* DeActivate).
TypeOK ==
    /\ db \in Stored
    /\ cache \in Cached
    /\ phase \in Phases
    /\ req \in [Request -> Requests]
    /\ suspect \subseteq Key
    /\ partial \subseteq Key
    /\ thin \subseteq Key
    /\ phase # "active" => cache = Empty /\ partial = Key
    /\ \A r \in Request : Fits(req[r])

Quiet(k) == \A r \in Request : InFlight(r) => k \notin Touches(req[r])

\* While no request is at work on a key, the cache holds of it nothing but what
\* the database holds, except after a write that failed, was lost at its commit
\* or patched what the cache or the database did not have, after a delete by
\* query of records past one block or cached without the column, and after
\* requests that raced on the key.  And it holds all of it, except after a read
\* that broke off or asked for less, and a POST or PUT of an object without
\* children that it, or one deleted before it, had (do, cacheAction, Delete,
\* cacheElements, Write).
Coherent ==
    \A k \in Key : Quiet(k) /\ k \notin suspect /\ cache[k] # None =>
        /\ PartOf(cache[k], db[k])
        /\ k \notin thin => cache[k] = db[k]

\* Nor does the cache lack a record of the database, except before it was filled,
\* after a load that broke off, and after a delete that took it from the cache
\* alone.
Complete ==
    \A k \in Key : Quiet(k) /\ k \notin suspect \cup partial =>
        (cache[k] = None <=> db[k] = None)

Answers(r) == req[r].pc \notin Ended /\ req'[r].op \in ReadOps /\ req'[r].pc = "done"

\* A GET that no write overlapped answers with nothing but what the database
\* holds, on every key where cache and database are not suspect, whether the
\* answer comes from one or the other and the service is deactivated meanwhile
\* or not.  Unless its read broke off it finds the record it filters for, and
\* of each record, unless the cache may lack some of it, all that was asked.
GetAnswersFromStore ==
    [][\A r \in Request : Answers(r) =>
          LET q == req'[r]
              sound == Key \ (suspect \cup q.raced)
          IN  /\ \A e \in q.hold : e.key \in sound =>
                    /\ PartOf(e.val, db[e.key])
                    /\ e.key \notin thin /\ ~q.cut => q.asked \cap DOMAIN db[e.key] \subseteq DOMAIN e.val
              /\ q.op = "GET" /\ ~q.cut =>
                    \A k \in Touches(q) \cap sound : db[k] # None => \E e \in q.hold : e.key = k]_vars

\* With a sound and complete cache, a query that no write overlapped returns
\* as many records of the database as its page or, without a limit, a block
\* of the cache has room for: an answer is cut short only by a cache that
\* lacks records.
QueryMissesNothing ==
    [][\A r \in Request :
          (/\ Answers(r) /\ req'[r].op = "GET query"
           /\ suspect = {} /\ partial = {} /\ thin = {} /\ req'[r].raced = {}) =>
          LET q == req'[r]
              n == Cardinality(Matching(db, q.crit))
          IN  Cardinality(q.hold) >= RoomFor(n, q.paging, DefaultBlock)]_vars

\* An aggregate that no write overlapped counts, on every key the cache is not
\* suspected to lack or to hold wrongly or in part, the records of the database
\* that match and no others, be it computed from the cache or, in a result that
\* does not break off, by the database (cacheFetch, fetchFromDbAndCache).
AggregatesCoverStore ==
    [][\A r \in Request :
          (Answers(r) /\ req'[r].op = "GET aggregate" /\ ~req'[r].cut) =>
          LET q == req'[r]
              sound == Key \ (suspect \cup partial \cup thin \cup q.raced)
          IN  {e \in q.hold : e.key \in sound} = RowsOf(db, Matching(db, q.crit) \cap sound)]_vars
=============================================================================
