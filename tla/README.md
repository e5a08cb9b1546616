# A verification of l8orm in TLA+

l8orm stores Go objects in PostgreSQL behind a service with an optional cache.
This directory models the parts of it that hold state and run concurrently,
checks them with TLC on small instances, and proves the statements that matter
most with TLAPS for every size of the system.

Paths below are relative to `src/go/orm` unless they start with `src/`.

## 1. The system

| part | code | state | operations |
|---|---|---|---|
| persistence service | `persist/OrmService.go`, `OrmDoAction.go`, `OrmCallback.go`, `utils.go` | `orm`, `cache`, `tsdb` (set by Activate, nil after DeActivate) | Activate, DeActivate, Post, Put, Patch, Delete, Get |
| its cache | `persist/OrmCache.go` over `l8utils/cache` (external) | one record per primary key | cachePost, cachePatch, cacheDelete, cacheGet, cacheFetch, cacheElements |
| paging index | `plugins/postgres/Postgres.go`, `Read.go` | `indexQueries`, `indexStamp` | readWithIndex, invalidateIndex, ttlCleaner |
| relational store | `plugins/postgres/Write.go`, `Delete.go`, `Read.go` | the tables, one per type, rows by ParentKey and RecKey | writeData in batches, DeleteRelational, readRelational |
| schema | `plugins/postgres/Postgres.go` | the tables' columns and indexes; `verified`, per process | verifyTables, createTable, migrateTable |
| conversion | `convert/` | none | ConvertTo, ConvertFrom, ConvertService |
| statements | `stmt/` | prepared statements of one call | Insert, Update, Select, Delete, Query2Sql, MetaData |
| time series | `plugins/postgres/Tsdb.go`, `ReadTsdb.go`, `persist/OrmTSDB.go` | a hypertable; `mtx` and `verified` of each Tsdb | AddTSDB, GetTSDB, GetTSDBLatest, routing of a query with a range |
| aggregates | `plugins/postgres/ReadAggregate.go`, cacheFetch | none | one statement per query, or a count of what is cached |

How they meet: the service framework runs each request in a goroutine of its
own. A request makes calls on the cache, which locks itself, and on the ORM,
which holds `Postgres.mtx` for the length of one transaction; nothing holds
both, so the cache calls and the ORM calls of two requests interleave freely.
Inside the ORM, a paginated read takes `indexMtx` to look up the index, `mtx`
to list the keys, `indexMtx` again to store the index and `mtx` again to read
the rows. Every write and delete invalidates the index by a deferred call,
after it has released `mtx`. A cleaner goroutine wakes up every `indexTTL`
seconds. Several processes may share one database.

What is hard, and what makes each part correct:

* **Paging index.** Staleness is decided by comparing two stamps in whole
  seconds, and the stamp, the keys and the rows are read at three moments. It
  is correct if a page is never cut from an index that an earlier invalidation
  made stale, if an index once refused stays refused, if pages do not overlap,
  and if a record that disappears on the way is skipped.
* **Service and cache.** The cache is changed before the database by a write
  and a delete of one element, after it by a delete by query and by a read;
  each database call may fail, may commit some of its batches, or may lose its
  commit; a read may break off, from the initial load on, and may ask for less
  than the object that is then cached; and a write may leave rows of children that
  the object in the cache does not have. It is correct if, when nothing is at work on a key, cache and
  database agree on it, and if a GET answers with what the database holds.
* **Relational store.** A write is several transactions; an object is rows in
  several tables. It is correct if an object is read as it was written last,
  and if nothing of a deleted object remains.
* **Schema.** Verification is cached, migration has several statements, and
  two processes may run them at once. It is correct if a table that is taken
  for verified has every column and index of the type, and if rows written by
  one version can be read by another.
* **Conversion.** Rows carry their place in an object as text in two keys. It is
  correct if an object is read as it was written last, at every depth.
* **Statements.** A WHERE clause, a projection and the key of an index are
  computed piece by piece, and pieces that do not concern the table are left
  out. They are correct if what is left still says what the query says.
* **Aggregates.** Each page of groups is a statement of its own, and a cache that holds any record
  answers instead of the database. They are correct if every record that matches is counted, and
  every group is on one page.
* **Time series.** Points are written after the rows, in a transaction of their
  own, perhaps to another database than the one the service queries. It is
  correct if what was accepted is stored once, and shown.

`PROJECT.json` lists the hazards one by one, each at its line.

## 2. Modules

| module | what |
|---|---|
| `PrimaryIndex` | the paging index: `indexQueries`, `indexStamp`, readers, writers, the cleaner and the clock |
| `MCPrimaryIndex` | its instances for TLC |
| `PrimaryIndexProofs` | the theorems about it |
| `OrmService` | the service and its cache over a database |
| `MCOrmService` | its instances for TLC |
| `OrmServiceProofs` | its types, proved |
| `OrmCoherenceProofs` | the theorems about its cache and its answers |
| `RelStore` | objects as rows of a root and a child table, under transactions of several processes |
| `ObjectStore` | what it promises: a store of whole objects |
| `MCRelStore` | its instances for TLC |
| `RelStoreProofs` | the theorems about it, and that it implements `ObjectStore` |
| `Schema` | the tables of the types, created and migrated by several processes |
| `Rows` | the rows those processes write in them; extends `Schema` |
| `MCSchema` | the instance of both for TLC |
| `SchemaProofs` | the theorems about both |
| `TimeSeries` | points, written with objects or pushed, read with objects or by time |
| `PointLog` | what it promises: logs that take whole loads |
| `MCTimeSeries` | its instance for TLC |
| `TimeSeriesProofs` | the theorems about it |
| `Convert` | objects of any depth to rows and back |
| `WhereClause` | the WHERE clause of a SELECT or DELETE and the rows it selects |
| `Projections` | the tables, columns and statements of a query for some properties |
| `Aggregates` | the groups of an aggregate query and their pages |
| `IndexArith` | the key of an index entry and the bounds of a page, in integers of a width |
| `QueryProofs` | the theorems about `WhereClause` and `Aggregates` |
| `DataProofs` | the theorems about `Convert`, `IndexArith` and `Projections`, and of all inputs of `MCData` |
| `MCData` | bounded inputs for `Convert`, `WhereClause`, `Projections`, `Aggregates` and `IndexArith`, for TLC |

### PrimaryIndex

State: `indexQueries` and `indexStamp` are the fields of `Postgres`; `clock` is
`time.Now().Unix()`; `rd[r].pc` and `wr[w].pc` say which critical section a
request comes to next, and the other fields of `rd[r]` are the local variables
of `readWithIndex`. `hist` is the sequence of the committed contents of the
root table; its last element is what the database holds.

| action | code |
|---|---|
| Lookup, Touch, ReadRecKeys, Filter, FilterReadFails, Store, ReadRows, ReadFails | the critical sections of readWithIndex (Read.go), in their order |
| WriteBatch, DeleteRecords, WriteFails | a transaction of Write or DeleteRelational that commits, or does not |
| Invalidate | the deferred invalidateIndex |
| cleanExpiredQueries, Tick | a tick of the cleaner; the clock |

`pageKeys`, `Found`, `Slots` and `RowsOf` are the arithmetic of `pageKeys` and
`readByRecKeys`. The array of rows is as long as the rows found are many and is
indexed by the position of the key, as in the code.

`rows.Err` is not read by either loop over rows, so a result that breaks off looks like
one that ends. `ReadRecKeys` keeps a beginning of the keys, and then no number of records,
since the count is a statement of the same transaction (`total` is whether there is
one). `Filter` and `ReadRows` go on with any of the rows there are.

History, read by no step: `hist` but for its last element, the version `ver` of
the table that keys were read from, the request `by` that made an entry, the
second `inv` in which a writer invalidated, and whether the rows a request got or
panicked over had broken off (`cut`).

Abstracted: a row is its key and one column `Val`, which stands for every
column a query filters or sorts by; a query is a model value with the set of
values it selects; its hash and its aaaId are that value (`IndexArith` is about
their combination). The child rows of a page are left out, and the value of
its total count, but not whether it has one. The security provider is external: `Visible`.

### OrmService

State: an object is a function from its parts to values. The columns of its row in the root
table are `Row`; each child, a row of another table, is one of `Kid`. `db[k]` is the object in the
tables, always with its whole row; `cache[k]` is the one in the cache, perhaps with some of
the parts; `phase` is how far DeActivate has come with the fields of the service ("no
cache", "orm closed", "no orm"); and
`req[r]` holds what the goroutine of request `r` has reached: the elements it
carries, the position `i` of its loop, the elements `todo` it has fetched and not
handled yet, whether its read broke off (`cut`), and the answer `hold`. A step is one call on the cache or one call
on the ORM. The arrival of a request is merged with its first call; a request
that ends is reset but for its answer, since nothing reads the rest again.

| action | code |
|---|---|
| Init | Activate, loadCacheInitElements: the whole tables, fewer records, or records without some children |
| BeginWrite, CachePost, PatchLookup, PatchRead, PatchReadPanics, PatchFill, CachePatch | Before, then do's cacheAction (OrmDoAction.go), element by element |
| Write, WriteFails | orm.Write, with the batches of Write.go |
| DeleteFilter, Delete | Delete, filter mode |
| DeleteFetch, DeleteQuery, DeleteQueryFails, Evict, DeleteQueryEnds | Delete, query mode |
| Get, GetQuery, GetAggregate, Read, ReadFails, Fill, ReadEnds | Get, fetchFromDbAndCache |
| DropCache, CloseOrm, OrmPanics | DeActivate under requests in flight, and requests that arrive during it |

What a write does differs between the two. The cache takes the whole new object of a
POST or PUT (`CachePost`), and lays the parts of a PATCH over what it has (`CachePatch`). The database
(`Rewritten`) inserts or updates the rows of a POST or PUT and deletes none, so it
keeps the children the new object does not have; a PATCH updates the rows there are and inserts
none, so it ignores children the stored object does not have. `Merged` and `Unmatched` are the keys on
which the two differ for that reason. Under a key without an object there may be children
of one that was deleted (`Leftovers`): a delete by query with a limit deletes every root and the
children of some. They come back with the row that is inserted.

What a read returns (`Reads`) is, of the parts asked for, the whole, or, since `rows.Err` is not read, fewer
records or records without some of their children; the last may also make the
conversion panic. Whatever it is, it is cached as it is (`Fills`): what was not asked for or broke off
is, in the cache, not there.

DeActivate takes no lock. `DropCache` closes the cache and sets it to nil; a call that was between
its nil check and its use panics, any other one finds no cache: reads miss, writes and evictions do
nothing. `CloseOrm` first closes the ORM, whose calls then fail, and then sets it to nil, and
a request that calls it panics (`OrmPanics`), in its own goroutine. A request that has its rows when this happens
still answers with them.

History, read by no step: `raced` (keys on which another request, one of the
two a writer, overlapped), `lost` (keys a request is known to leave different),
and, for the service as a whole, `suspect`, `partial` and `thin`, the keys these add up
to: those on which the two may differ in anything, those the cache may lack, and those
of which it may lack some parts. They state the condition under which the cache may be trusted; a POST or PUT that
succeeds, with nothing overlapping it, takes its keys out of them again, unless it merged. So they
are a claim about the code as much as the properties are: were they too small,
`Coherent` or `Complete` would fail. They name hazards rather than deny them: that
a race, a failed write or a merge leaves the cache wrong is what the code does, and what is
shown is that nothing else does.

Abstracted: a column is one part, and so is a child; the children of an object are not told
apart by their place. A query asks for everything or for columns of the root,
the primary key among them (without it the cache has nothing to file a record under); what projections over several types make of
their columns is the business of `Projections`. A paged read of the ORM returns rows of any keys up to its limit, which
allows everything `PrimaryIndex` allows. A criterion selects by the column `Main`; whether an object in the cache
without it matches depends on its zero value and is left open (`Blank`). Which children deletes leave is left open too
(`RelStore` says which), and keys are such that the LIKE pattern of one matches no other. One process uses the tables. The external
cache is a map; its
`Fetch` returns a block, in an order of its own, of the records that match, or aggregates
all of them; of an aggregate the answer is represented by the records it counts. Its
`Patch` of an absent key makes a record of the patched fields, or none. `cacheFetch` is one step, though it
asks for the size before it fetches. An initial load that panics makes no service. The
Before callbacks let a request go on, refuse it or end it; they do not replace
its elements. The After callbacks do not touch the cache.

### RelStore and ObjectStore

State: `db` is the committed rows of two tables, `<<k, 0>>` the row of object `k`
in the root table and `<<k, i>>` that of the element `i` of its slice in the child
table; `tx[r]` is the transaction of request `r`: where its function is (`pc`), the
rows it has yet to write (`todo`), those it has changed and therefore holds (`own`),
the keys and rows a delete has found, the rows a read has read (`seen`).

`Mtx` is `Postgres.mtx`: one transaction at a time in a process. Between
processes there is the database, which is external: a statement sees the
committed rows and its own (READ COMMITTED, the default that `db.Begin`
asks for), a row changed by another transaction is waited for, and a transaction
is undone as a whole. A statement over many rows has two steps, the search for
them and the change of them, since it may wait in between.

| action | code |
|---|---|
| BeginWrite, WriteRow | ConvertTo, then writeData: the rows in the order of Go maps, which is any |
| BeginDelete | readRootKeys: the keys that match, at most as many as the query's limit; with none the call ends and nothing happens |
| FindKids, DeleteKids | DeleteByKeysStatement: children whose ParentKey is LIKE one of the keys |
| FindRoots, DeleteRoots | DeleteStatement: roots by the criteria, without the limit |
| Commit, Rollback | the deferred Commit or Rollback; a rollback stands as well for a commit that fails, a deadlock the database breaks, a process that dies |
| BeginRead, ReadTable, ReadRest | ReadRelational, a SELECT for each table |
| ReadCut | readRows when the result of the last table breaks off: `rows.Next` ends, `rows.Err` is not read |
| Count, CountFails | MetaData, the number of records, or none when its statement fails; then ConvertFrom |

`ConvertTo`, `ConvertFrom` and `Slice` are the conversion of an object with one
slice: a nil element makes no row, and the slice that is read is as long as the
rows are many, each row at its index, so a gap makes the read panic (`Panics`).

History, read by no step: `loose`, the keys whose rows may no longer be those of
one object (a delete of another process overlapped a write; a PATCH of another
process overlapped an insert; a delete was cut by a limit or its pattern reached
another key; a slice with an element behind a nil one was written), and the keys
`raced` on which a read overlapped a change. They name all the exceptions:
everything else keeps its promise, and leaving out any one of the races of
`Clash` makes `ChildrenAreWhole` or the refinement fail.

`ObjectStore` is the abstract specification: a map from keys to objects that a
batch or a delete changes in one step. `StoresObjects` states that `RelStore`
implements it, where the object of a key is what `ConvertFrom` makes of the
committed rows.

A result that breaks off takes the connection or the transaction with it. After the
first table the next statement then fails and so does the read (`Rollback`); after the
last only the count is left, whose error is dropped: the answer has fewer rows and no
count. So an answer with a count is whole, which is what `ReadsAreWhole` says, and one
without may not be.

Abstracted: one child table stands for all; a field of an object or of a child is
one column; the keys of a batch are different; which other keys the LIKE pattern
of a key matches is the constant `Covers`. A PUT is the same statement as a
POST, and only the run about PUT names it.

### Schema

State: `tables`, `live` and `idx` are the database's: the tables that exist, their
columns, the columns with an index. `verifyed[p]` is the map of that name in
process `p`. `call[p]` is the call of `p` that holds `mtx`, which all of
verifyTables' callers take first: the tables it has yet to verify, the one it is at,
the columns it has found missing there, and those it has added and will index.

| action | code |
|---|---|
| verifyTables | a call that finds tables of its root type not in `verifyed` |
| verifyTable | the test query of one of them |
| createTable, CreateIndex | createTable: the table with all its columns, then an index for each decorated one |
| migrateTable, AddColumn, CreateIndex | migrateTable: the live columns, an ALTER TABLE for each one missing, then the indexes of those |
| StatementFails, Restart | a statement without effect and with an error; a process that loses `verifyed` |

Each statement is a transaction of its own. One that takes effect may have its
reply lost (the second disjunct of `Answered`). In migrateTable the loop over the
live columns does not read `rows.Err`, so a broken connection makes columns that exist
count as missing. `Proceed` is what happens between two statements: on to the next column,
the next index, the next table, with the table noted in `verifyed`; `Abandon` is
a return with an error.

History, read by no step: `forgotten`, the columns to be indexed whose call ended early.

Abstracted: a column is its name; types of columns are neither compared nor changed
by the code. The decoration of a column is the same in all versions. No
code drops a table or a column, and no step does; were an operator to drop
one, `verifyed` would not notice before a restart.

### Rows

State: `rows[t][k]` is the set of the columns of `t` in which the row of `k` has a
value other than NULL. A request of `p` reads or writes under the same hold of `mtx`
under which it has verified its tables, so `Insert` and `Update` ask that
they are in `verifyed[p]` and that `p` has no call under way; a transaction is one step.

| action | code |
|---|---|
| Insert | POST and PUT: createInsertStatement, whose columns, in both its halves, are those of the writer's version |
| Update | PATCH: `COALESCE($n, column)` for the columns of the version; no row is made |
| DeleteRow | DeleteRelational, which does not verify its tables |
| Scans | not an action: whether Row can scan what a read selects (a variable of Go that is no pointer cannot hold NULL) |

### TimeSeries and PointLog

State: `points[d]` is the table `l8tsdb` of database `d`, a bag, since it has no unique
key; `made[d]` says which of table, hypertable and index exist; `mtx` and `verified` are
the fields of the two instances of `Tsdb`, that of the ORM and that of the service, which
`home` puts on one database or on two; `open` says whether the service has its instance;
`req[r]` is what the call of `r` has reached.

| action | code |
|---|---|
| BeginWrite, WriteRows, WriteRowsFails | Postgres.Write: for each batch WriteRelational, then writeTsData |
| Push, Call | OrmService.AddTSDB, which checks `tsdb` and then uses it |
| Lock, CreateTable, CreateHypertable, CreateIndex | AddTSDB up to its transaction: the mutex, verifyTable |
| Insert, CommitPoints, AddFails | the transaction: an INSERT for each point, then a commit whose error is lost, or an error at any statement |
| ReadRow, PopulateTsFields | Postgres.Read and populateTsFields: the object, then its latest points |
| Query, Select | a query by time, routed to the Tsdb of the service |
| DeleteRow, DeActivate | what happens to the object and the service meanwhile |

A caller may send again what failed, and may write back an object with the points it was
shown (`Resent`); both add points a second time, and `NoPointIsAddedTwice` says that
nothing else does. `lost` is history: a commit the caller was wrongly told of. `PointLog`
is the abstract specification; `TimeSeries` is shown to implement it.

Abstracted: a point is its object and its stamp, without the value; one type with one time
series; `MaxShown` stands for 100. CREATE TABLE and CREATE INDEX may run at once from two
instances; IF NOT EXISTS is taken at its word.

### Convert, WhereClause, Projections, Aggregates, IndexArith

No state: each is a set of operators translated from functions, and a property with its
inputs as parameters that says what they compute. `MCData` enumerates bounded inputs; a behaviour
chooses one.

* `Convert`: both conversions are recursive functions, and the model has the set of calls
  they make, down to `Depth` (`Reached`): `Converts` is what one call of `convertTo` goes on
  to, `RowOf` the row it appends; `ReadsOn` is what one call of `convertFrom` goes on to, and
  carries the value the attribute should have. `Fails` says whether a call ends with an error or a
  panic, `Shows` whether it yields the value; where Go
  iterates over a map, each order is an outcome (`Upserted`). The text of a RecKey is its
  field and its part; that `GetMapIndex` cuts it at the last brackets is `Between`.
* `WhereClause`: `comparator`, `condition` and `expression` yield the clause as a sequence of
  comparators, operators and parentheses; the code of the latter two is one (`Chained`) but for the
  parentheses. PostgreSQL's parser is external: `WellFormed` and `Selects`. `Meant` is the reference.
* `Projections`: `Tables` is `addTable`, `Fields` and `CommaTooMany` are the SELECT of a
  table, `Reading` is what ReadRelational makes of it all, and `ReadingPage` what readByRecKeys
  does, which reads the rows of the root with all fields.
* `Aggregates`: `Having`, `Offset`, `OrderBy` and `OnPage` are the statement of a page of groups,
  `Results` all it may yield, `scanAggregateRows` what is read of a result, which may break off.
  A group is known by the comparators that hold of it, so that HAVING is a clause of `WhereClause`.
* `IndexArith`: `IndexKey` and `PageBounds` for integers of `Half` values on each side of
  zero; 2^31 in the code.

## 3. Runs

| run | instance | shows |
|---|---|---|
| `index` | 2 reads, 2 writes or deletes, 2 keys, 3 seconds, TTL 1; 2 reads and 1 write with pages of 1 record, a sorted query for everyone and one of a user, results that break off | freshness of served pages, of what a read holds, when a read panics, no stale entry revives; pages of one index are disjoint; the index of a user is filtered, or what was listed when the filter's read failed; an index with a total is whole |
| `index_panic` | as the first of `index` | **violated**: mismatched keys are skipped |
| `orm` | 2 requests of any kind, 2 values, lists of 1 and 2 elements, batches of 1, blocks of 1, in three scenes: 2 records without children; 1 record with a child, with reads that break off or ask for less; 1 record and a deactivation | when cache and database agree and in which parts, what a GET answers and an aggregate counts |
| `rel` | 1 key, slices of up to 2, 2 requests of one process and 1 of another | objects change as a whole and as asked, children are whole, reads with a count return stored objects |
| `rel_keys` | 2 keys, batches of 1 and 2 objects, 2 requests of one process, a pattern that reaches the other key | the same for batches, deletes by query, limits |
| `rel_put` | as `rel`, 1 process | **violated**: PUT replaces |
| `schema` | 1 process of an old version and 2 of a new one with 2 more columns, 2 tables, 2 faults; the old and one new process and 1 fault, with rows of 1 key | verified tables are complete, missing indexes have a maker at work or interrupted, verification settles; common columns can be read from every row |
| `schema_null` | as the second of `schema`, no fault | **violated**: a verified table can be read |
| `tsdb` | 2 requests of any kind and 1 after them, 2 objects, 2 stamps, lists of 1 and 2 batches, 1 and 2 databases | accepted points are stored, none twice but by a resend, and shown; points only in hypertables; calls end; the tables are logs |
| `data` | objects of 3 levels with slices of up to 3, maps of up to 2 keys, written once and twice; criteria of up to 6 comparators in 2 or 3 conditions, of 2 columns and 1 other; projections of up to 4 of 6 properties of 3 nested types; 3 groups, with each order of them and HAVING of up to 2 comparators, limits and pages up to 7; hashes of 4 bits and names of up to 2 characters; all pages of lists of up to 8 | the objects are read as written and which are not; the clause selects what it should; projections are whole or refused, and what pages of them lack; groups are on their page; which requests share an index; pages tile a list |
| `index_key` | as `data`, hashes of 3 bits | **violated**: an index per query |
| `delete_criteria` | as `data` | **violated**: a delete is of what matches |

The bounds. Two readers and two writers are the smallest number at which a read
is overtaken by a commit, stores its index after the invalidation, and is found
by a second read; the second writer moves the stamp on. With TTL 1 and a clock of
three seconds an entry can be invalidated in the second of its stamp, in a later
one, and can expire. Two keys make a position past the end of the rows possible.
The theorems of section 5 remove the bounds for every property of `index`.
In `orm`, two requests are the least that race, and a sequence of two shows
what one request leaves for the next. `BatchSize` 1 stands for 500 and
`DefaultBlock` 1 for 100, so that a list of two elements is two batches and two
records are more than a block. Its three scenes are initial states and bounds on what follows, of one
specification (`MCOrmService`), since all at once are too many states: "records" has two keys, pages and blocks;
"parts" one object with a row and a child, so that a PUT drops the child, a PATCH adds it, a projection or a broken read
loses it, with one writer in flight, no pages, and no POST, which does to it what a PUT does; "late" one record without a child,
lists of one element, and DeActivate between any two steps. Together they have 2.5 million states. The theorems of section 5 are about all
of it at once. In `rel`, the two requests of one process show
what `mtx` orders and the third what only the database does; with one key all the
races there are on an object occur, and with two, in `rel_keys`, what a
batch or a query does to one object while it fails on the other. Slices of two are the
shortest with a gap. Requests of `RelStore` go on for ever, so any sequence of
calls is among the behaviours. In `schema`, two processes of the new version refuse
each other's columns while the old one has made the table without them, and one of
two faults may end a call and the other end its retry; with rows one writer of each
version meets what the other wrote before, during and after the migration. In `tsdb` two requests are
on the mutex, the table and the database at once, and the third, after them, shows what they
left: a verified flag, a half-made table, points to be read and sent again. In `data` an
object has each kind of attribute below each other kind, a slice one element before and one behind
another; three comparators in a condition, and three conditions, are the least in which what is
dropped has neighbours on both sides; three properties the least in which a duplicate or a nested one
stands between others, and four those in which two of each do; three groups leave the second page of
two with one; and a width of 4 bits has hashes of either sign, hashes that overflow,
and pages whose start does. Readers, writers, keys, values and requests are
interchangeable, which the runs use as symmetry where no temporal property but
an action property is checked.

In `PrimaryIndex` and `OrmService` requests run once, so a behaviour ends: deadlock
is not checked. In `RelStore` it is; a deadlock on row locks is ended by
`Rollback`, as the database does. `Schema` may stop too, when every table is
verified, as do `TimeSeries`, whose requests run once, and `MCData`.

Fairness. `VerificationSettles`: processes whose
CREATE and ALTER statements are refused since another was faster do not go on
so for ever. It assumes weak fairness of `Step(p)`, that is, that a goroutine which
has begun goes on and that the database answers it; it does not assume that
anybody calls. Faults are finite (`MaxFaults`). `RequestsEnd`: a call about points comes to its
end or panics, whatever fails. It assumes weak fairness of `Step(r)`, for the same
reason; that is enough for the mutex too, since each call takes it at most once for
each batch and its holders leave it, so that waiters are never overtaken for ever. Elsewhere none is assumed, since the
properties are safety properties: the promise of the cleaner (an unused
entry disappears in the end) affects no answer.

Every property of a passing run comes with a mutant: a definition marked
`Fault:` in the module, which replaces the code's by a plausible mistake and
breaks that property.

## 4. Where the code does not do what it says

1. `invalidateIndex` "marks all cached queries as stale" (Postgres.go:138). In
   the second the index was last stamped it changes nothing, and entries of that
   second go on being served, until a later write.
   `NoEntryServedAfterInvalidation` is about earlier seconds for that reason.
2. Rows are added "skip[ping] any nil entries from mismatched keys"
   (Read.go:390). The slice is as long as the rows found, and is indexed by the
   position among all keys: a record deleted before another of its page makes
   the read panic (`index_panic`).
3. The cache has "write-through semantics" (OrmService.go:42). It is
   written first and not restored when the write fails (`suspect` in `OrmService`). And what goes through
   to the database is another thing: it keeps children a PUT dropped, which the cache then lacks (`thin`), and
   ignores children a PATCH added, which the cache then has (`Unmatched`).
4. "Cache miss — fetch from DB to populate cache before patching"
   (OrmDoAction.go:75). The query is made of the first element of the list,
   whichever was missed, and what is read may have broken off.
5. Elements are fetched "so we can remove them from cache after a successful
   delete" (OrmService.go:158). One block of them is.
6. PUT means "replace" (`common/IORM.go:37`). It upserts the rows of the new object
   and deletes none, so children the object no longer has are read again
   (`rel_put`), by a service whose cache does not have the object; with it they are hidden until a restart.
7. "Non-unique indexes are created for any newly added columns that are decorated"
   (Postgres.go:203), so that "a partially-applied prior migration does not
   fail" (Postgres.go:264). A retry finds no column missing and returns before it
   comes to the indexes: those of an interrupted call are never made. `schema` says so
   by naming them (`forgotten`) in `MissingIndexesAreAccountedFor`.

8. The index is kept per "Query hash (+ AAA ID)" (Postgres.go:83). The hash of the user is
   widened to 64 bits with its sign; a negative one covers the hash of the query with ones,
   and all queries of that user share one entry (`index_key`).
9. "Delete removes records matching the query criteria" (`common/IORM.go:40`). A criterion about a
   nested type is dropped from the clause, and when none is left the DELETE has no WHERE
   (`delete_criteria`). In a SELECT the same widens what is read, and may leave an operator without
   its left side, which the database refuses.
10. Existing rows "are preserved" by a migration, "and the new column is NULL for them"
   (`src/plans/postgres-schema-migration.md:122`). A read that meets one fails as a whole, since Row cannot scan NULL
   (`schema_null`); so does one that meets a row an older process inserted later.

Seen on the way, and part of the models:

* When the result with the keys of a query breaks off, its beginning is cached as "the full query
  result's RecKeys" (Read.go:161) and served until the next write. What tells it from the full
  one is that there is no number of records (`IndexWithTotalIsWhole`).
* A query for some properties that the database answers fills the cache with records of those properties alone,
  and a read that broke off with what it got: a GET for the whole record is answered with that
  until it is written again. So is an initial load that broke off (`thin`, `partial`).
* A condition with OR before an AND has no parentheses of its own (`Torn`), so
  `(a or b) and c` selects what `a or (b and c)` does.
* `select a,a,b` counts `a` twice and gives `b` the position that comes next after one of
  them, so columns may overwrite each other; `ProjectionsAreWhole` is about different properties. A
  projection over several types is refused by the database, one over nested types alone panics. As a
  page, one over a nested type alone is answered, with the last of its properties only, and with none
  if the type is not directly below the root (`PagesShowProjections`).
* HAVING on the alias of an aggregate is dropped like any comparator that is no column of the root type.
* A slice whose elements have a primary key cannot be read back, and a map key with brackets in it
  is read as what stands between the last ones.
* Points of objects go to the relational database, and queries by time ask the Tsdb of the service;
  on another database they do not find them. A query by time that fails is answered with no points.
* A write whose points fail has stored its rows; sending it again adds the points of
  its first batches a second time.

The passing properties say what holds all the same, with these cases named in
their conditions.

## 5. Proofs

| theorem | says | by |
|---|---|---|
| TypeCorrect | `PrimaryIndex!TypeOK` | induction, one step per action |
| ServedEntriesAreFresh | `NoEntryServedAfterInvalidation` | the invariant `Fresh` |
| ReadsAreFresh | `ReadMissesOnlyRacingCommits` | a conjunct of `Fresh` |
| StaleEntriesStayStale | `StaleStaysStale` | `Fresh` and `MakersStored` |
| PanicsNeedARace | `PanicOnlyByRacingDelete` | `Fresh`, `SourcesHadRows` and `PanicMissedARow` |
| TotalsComeWithTheWhole | `IndexWithTotalIsWhole` | the invariant `TotalsOfWhole` |
| PagesOfAnEntryAreDisjoint | `PagesDisjoint` | the invariant `KeysOfMaker` |
| UserIndexesAreFiltered | `UserIndexIsFilteredOrWhole` | the invariant `UserRequests` |
| ServiceTypes | `OrmService!TypeOK` | induction, one step per action |
| CacheCoherent, CacheComplete | `Coherent`, `Complete` | the invariant `CacheInv` |
| GetsAnswerFromStore | `GetAnswersFromStore` | `CacheInv`, and which steps answer |
| AggregatesCountStore | `AggregatesCoverStore` | the same |
| QueriesMissNothing | `QueryMissesNothing` | `CacheInv`, and how many elements a block has |
| StoreTypes | `RelStore!TypeOK` | induction, one step per action |
| ChildrenStayWhole | `ChildrenAreWhole` | the invariant `IInv` |
| CommitsAsRequested | `CommitsStoreTheRequest` | `IInv`, and what a commit makes of each object |
| StoreImplementsObjects | `StoresObjects` | each commit maps to a `Next` of `ObjectStore`, all else to a stutter |
| ReadsAnswerWholeObjects | `ReadsAreWhole` | `IInv`, and that nothing is committed between the selects |
| SchemaTypes | `Schema!TypeOK` | a conjunct of `ColumnInv` |
| VerifiedIsComplete | `VerifiedTablesHaveColumns` | the invariant `ColumnInv` |
| MissingIndexesHaveMakers | `MissingIndexesAreAccountedFor` | induction, with `ColumnInv` |
| RowsAreInColumns, CommonIsReadable | `RowsTypeOK`, `CommonColumnsAreReadable` | induction of both together, with `ColumnInv` |
| TimeSeriesTypes | `TimeSeries!TypeOK` | induction, one lemma for each kind of step |
| PointsAreInHypertables | `PointsNeedHypertable` | the invariant `HypertableInv` |
| TablesAreLogs | `ImplementsPointLog` | each step maps to an `Offer`, an `Add` or a stutter |
| PointsAreAddedOnce, AcceptedPointsStay | `NoPointIsAddedTwice`, `AcceptedPointsAreStored` | the invariant `SumInv`, and sums over all requests |
| ReadsShowWhatWasAccepted | `ReadsShowAcceptedPoints` | `SumInv` |
| SharedIndexKeys | `SharedEntriesExplained`, for any width and any names | equal multiples, and that a hash is an int32 |
| PagesTileLists | `PagesTileTheIndex`, for any page, limit, length, width | equal multiples |
| WhatIsWrittenIsRead | `LatestIsRead`, for any types and objects | uniqueness of keys, by the depth of calls |
| ReadsFailOnMisplaced | `OnlyMisplacedElementsFail`, for any types and objects | the rows of a slice have numbers without a gap |
| AnswersAreWhole | `ProjectionsAreWhole`, for any types and properties | what the tables are, property by property |
| PagesShowTheirColumns | `PagesShowProjections`, for any types, properties and order of fields | the same |
| DroppedOperandsOnlyWiden | `DroppedOperandsWiden`, for any comparators and criteria | what each part of a clause adds to the level it is read at |
| OwnCriteriaSelectExactly | `OwnCriteriaAreExact`, for any comparators and criteria | the same, and that no operator lacks a side |
| GroupsStayOnTheirPage | `GroupsAreOnTheirPage`, for any groups, ranks, HAVING, limits and pages | as many groups come before one as have a lower rank; DroppedOperandsOnlyWiden |
| LatestWritesAreRead, ReadsFailOnlyOnMisplaced | `LatestWriteIsRead`, `ReadFailsOnlyOnMisplaced` | the theorems on conversion, of the inputs `MCData` chooses |
| SharedIndexIsExplained, PagesAlwaysTile | `SharedIndexExplained`, `PagesTile` | the theorems on arithmetic |
| ProjectionsAlwaysWhole | `ProjectionsWhole` | the theorems on projections |
| CriteriaAlwaysSelect, GroupsAlwaysPaged | `CriteriaSelect`, `GroupsPaged` | the theorems on clauses and groups |

They hold for every value of the constants: any readers, writers, queries, limits,
pages, TTL, length of the clock and finite set of keys of the index; any requests and
lists of the service; any processes, requests, batches and lengths of slices
of the relational store; any processes, versions, tables and number of faults of
the schema, and keys of its rows; any requests, lists, pushes, stamps and databases of the
time series. They rest on `IndexAssumption`, `ServiceAssumption`,
`StoreAssumption`, `SchemaAssumption`, `TimeSeriesAssumption`, `WidthAssumption` and
`TypeAssumption`, and on what the models take for granted.
For the index and the service that is one process, a clock that does not step back, and what the
service abstracts from (section 2). For the time
series it is that requests, keys and stamps are finitely many (`FiniteAssumption`), without
which the sums of its properties mean nothing; for the relational store, that the value
for "no object" is no object (in `StoreAssumption`); for projections, that a type has finitely
many columns (in `TypeAssumption`).

*Freshness.* That a usable entry misses only racing commits is not inductive:
one must know what a read holds between its lookup and its store. `Fresh` says
of the entries and of the requests alike that the commits they miss were not
invalidated before the second of their stamp. It is kept since a stamp is read
before the keys are, since an invalidation after that carries the present second
or a later one (stamps lie in the past, `StampsBounded`), and since a commit
belongs to a writer that has not invalidated yet (`CommitsHaveWriters`).

*Stale entries.* An entry is changed in place only by `Touch`, which leaves its
stamp, and replaced only by the `Store` of another request; a request stores
once (`MakersStored`), and the stamp of the index never returns to an earlier
second.

*Panics.* Every key a request holds had a row in the version it was read from
(`SourcesHadRows`); a position past the end means some key has none now
(`OutOfRangeMissesARow`, a counting argument); so a later commit deleted it
(`PanicMissedARow`), and `Fresh` says which commits those can be. That is so
if the result did not break off; else any key may be without a row.

*Pages.* A listing has no record twice, and neither has its beginning nor what the
filter keeps of it (`ListingsAreDistinct`, `PickedAreDistinct`). The keys of an entry, and
of every request served from it, are those of the request that made it, which
changes them no more (`KeysOfMaker`). The rows of a page stand at positions that
no other page of that size has (`RowsComeFromThePage`, `PagesApart`).

*Users.* The filter keeps the key at the position of a record. Records are where their keys
are, since an array that is as long as the rows are many, and in which all of them
fit, has no gap (`RowsLineUp`); increasing positions that are as many as there are
are all of them (`IncreasingIsAll`, by the pigeonhole principle instead of induction).

*Service.* The type invariant carries that a request at work on an element has
that element (`Fits`), and that there is nothing in a cache that is gone. It is split into one lemma for each kind of step.

*Cache.* `Coherent` and `Complete` speak of keys no request is at, so a step says
nothing of them until the last request has left; the invariant must say what
each request knows meanwhile. `CacheInv` has four parts. `Marked`: two requests in flight
on one key, one a writer, have both marked it as raced. `Tainted`: while there is a cache, a key a reader has
marked is suspect, or its writer is still there to make it so. `Known`: what a request
holds of the keys it has not marked, by how far it is: a POST or PUT has put into the cache what the
last of its handled elements for the key says; a PATCH that has not lost the key has over the parts it gave
what the last of its elements says, and in all others what the database has (`PatchedWith`); a DELETE has it out of the cache; a delete by
query has every match either fetched or lost; a read has parts of what the database holds, all it asked for if it did not
break off.
`Settled`: where no writer is, cache and database agree as far as `suspect`, `partial` and `thin`
say (`Agree`). Two lemmas (`StepKeeps`, `ArriveKeeps`) reduce the four parts to what one
request does on its own keys, and each action shows only that. What a write leaves is compared in the one place where both
sides are known: a key whose elements were all committed by a POST or PUT holds all the last of them says, and nothing else if
it is not in `Merged` (`PutAgrees`); one that a PATCH committed holds what the cache has if it is not in `Unmatched`
(`PatchAgrees`). Once the cache is gone a writer knows nothing and need not: only readers answer, and what they have read is still
in the database or raced. For the answers, a GET is
answered on arrival, from a cache that `Settled` describes, or at the end of its read,
by `Known` (`AnswerSteps`).

*Queries.* The service asks the database only when it found no match in the cache, and
the cache may have changed by the time the answer comes. So what `Known` says of the
reader of a query is of the database: no record of it matches, on the keys that are not raced,
suspect, partial or thin (`ReaderHolds`). If the cache answers, it holds what matches (`CacheAnswersWhole`),
and a block of a listing has as many elements as it has room for or as are left
(`RowsCounted`, `FetchIs`, `NothingToMiss`).

*Relational store.* The type invariant says as well that no two transactions hold
one row. A write takes rows others do not hold; an UPDATE that does not wait, since
the row is not there, changes nothing; a delete takes the rows it found once none
of them is held.

That children are whole is not inductive: between two statements a transaction has changed half of an
object. `IInv` says what it has in its own version so far, in terms of its request and of how
far it is (`Proceeds`): a write has the rows of the statements it has handled and no others,
an UPDATE those of them that the tables have; a delete has the rows, then the children
and then the roots, that belong to the keys it read. What a read has seen is what is stored.
It says so of the keys that are not `loose`: on those, two transactions in flight do not clash
(`Apart`), and the rows in the tables are an object without a gap (`Whole`). A commit then turns
whole objects into whole objects, which is `CommitsStoreTheRequest` and the step
of the refinement. The children of an object are a beginning of its list, so how many
there are says which (a cardinality).

*Schema.* `ColumnInv` adds to the property what a call knows on the way: the table it
is at exists, and what it does not count as missing is there (`CallsHaveColumns`).
Both are kept since the database only grows (`DbGrows`). Every action ends in `Proceed` or
`Abandon`, so two lemmas say what these keep and each action shows only what it
does to the database. For the indexes, `AccountedWith` is the account of
one table after that; a column is added once, so only one process ever owes its index.

*Rows.* A row is only written by a process that has verified its table, and `ColumnInv`
says that such a table has the columns the row needs. Steps of verification add
columns and tables (`StepsGrow`), and no assignment takes a value from a column that
has one, so an insert by any version gives the columns common to all a value for good
(`AssignmentKeeps`).

*Time series.* `HypertableInv` adds what a call inside verifyTable knows of the table;
it is kept since nothing that exists goes away and since an instance sets `verified` only
past the last statement. For the refinement, what a request has `put` and has `left` is together
the load of its batch, so a commit adds a load that was offered.

*Sums.* `SumInv` puts the copies of a point in a table between two sums over all
requests: at least what they were told was accepted, at most what they are beyond, accepted or
not. A step of one request changes both sums and the table by
its own numbers. That a sum over a finite set changes by what one summand does, and that it is
monotone, is shown by a smallest set without the property (`WFMin`), as the library's
induction theorems cannot be used.

*Arithmetic.* Two numbers that lie less than `n` above multiples of `n`, and are equal,
lie above the same multiple (`SameMultiple`): of the query hash shifted by the width in one theorem,
of the limit in the other. That a hash is an int32 is an induction over the length of
the name (`EveryNumber`: a set of numbers with 0 that is closed under successors has every number;
`Hashes`, `HashIsInt32`).

*Conversion.* Every fact is an induction over the depth of calls. A key is as long as its call is deep
(`KeyLengths`), and the key of a row gives back that of its parent (`KeysAreIds`), so the key of a row
determines the type of its object (`TypesByKey`), and in a plain object the call itself (`CallsByKey`):
no two rows have one key. A plain object written over one without other rows is thus all that the tables
hold (`PlainIsWritten`). On the way back each call of `convertFrom` finds the rows of the calls of
`convertTo` that were made for its value, and no others (`RowsAreOfElements`). For the failures the
object need not be plain: two elements may share a key, and their slices then a parent; the numbers of the rows
found are still without a gap if no element was misplaced, so each is less than the rows are many
(`SlicesAreFilled`). The theorems are of an `IsObject`: no type has two attributes of one name, and
a slice is indexed from 0 on; TLC checks that the objects of `data` are.

*Projections.* `Tables` and `Fields` go through the properties one by one; a step keeps tables tables
(`AddsKeep`), so there are such sequences (`IteratesExist`, `TablesAre`, `FieldsAre`), and each fact is an
induction along them. The comma that CommaTooMany writes leaves only queries whose properties are all of one type:
of the root, and its columns are numbered as its properties are (`RootColumns`, `ShownOfRoot`); or nested, and the
one table has the column of the last property (`NestedColumns`, `ShownOfNested`). Where columns
have different positions, all above 0, each shows its own field (`OwnFieldsShow`).

*Clauses.* `Selects` reads a clause from left to right and keeps a level for each open parenthesis, while a chain is
written from its last part on. So of every place of a chain, from the last on (`FromTheLast`), it is shown what reading
all that is written from there does to the level it is read at, whatever the level and the levels around it
(`ReadTo`, `ReadBoth`). A chain without OR only narrows what its level has since the last OR (`Narrows`,
`AndChain`), to the rows that all its comparators hold of, those dropped counting as true; that is the first theorem.
A condition with OR also closes what its level had: what comes up to its first OR is met with it, and the
rest stands on its own (`UpToOr`, `AfterOr`, `OwnConditionReads`). In criteria each condition has a
parenthesis that ends with the chain, so the level it starts is its own, and an OR between conditions takes in all that
follows (`OwnConditionNarrows`, `MeansIs`); not so an AND after a condition with OR, which the property excepts (`Torn`).
That the database takes a clause follows from what its parts begin and end with (`Joinable`).

*Groups.* A list of groups in an order that the rank tells apart has one place for each group: that of as many as have a
lower rank (`PlacesInOrder`, a bijection with the places before). A page that is not wrapped holds the places from
`page * limit` on (`PageHolds`), and a result that breaks off is a prefix of it. HAVING lets through
what it says by the first theorem on clauses (`HavingLetsThrough`).

*The inputs of `MCData`.* The theorems above are about operators and have their inputs as parameters. `Chosen`
says which inputs a behaviour of `MCData` has, and is invariant; so what the run `data` checks follows from
them, for any values of the constants.

Only model-checked: `VerificationSettles` and `RequestsEnd`, which are liveness under fairness. Induction over data
is done by a smallest counterexample (`WFMin`), over numbers and finite sets, for the definitions that
are recursive functions or sums.

## 6. Plan

Every safety and action property of a passing run is a theorem. What is left is to model more:

Not modelled: the convert service (no state of its own), the values of aggregates and how a library packs
them, SetRetention (called by
nothing in the repository), the quoting and the wildcards of values in a clause, `ORDER BY` and `OFFSET` outside the
paging index, a clock that steps back, tables that an operator drops or alters, generated
types, logging, the web interface of the service.
