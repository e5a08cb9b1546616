---------------------------- MODULE PrimaryIndex ----------------------------
(***************************************************************************)
(* The paging index of the Postgres plugin: indexQueries, its stamp, the   *)
(* TTL cleaner, the paginated reads that fill and use it, and the writes   *)
(* and deletes that invalidate it.  Every request is a goroutine of its    *)
(* own that runs once; a step is one critical section of indexMtx or of    *)
(* mtx, or one statement between two of them.                              *)
(*                                                                         *)
(* hist is the sequence of the committed contents of the root table: the   *)
(* last element is what the database holds now, and the number of elements *)
(* a read saw is the version of what it read.  hist and the fields ver and *)
(* cut are history: no step of the code reads them.                        *)
(***************************************************************************)
EXTENDS Integers, Sequences, FiniteSets

CONSTANTS
    Key,        \* RecKeys of the root table
    Val,        \* values of the column the queries filter and sort by
    NoRow,      \* what the table holds for a key that is not in it
    Query,      \* the keys of indexQueries: query hash and aaaId
    Match,      \* Match[q]: the values the WHERE clause of q selects
    Sorted,     \* the queries with an ORDER BY
    Scoped,     \* the queries with an aaaId, where a security provider exists
    Visible,    \* Visible[q]: the records ScopeItem lets the user of q see
    Limits,     \* the q.Limit() a request may carry
    Pages,      \* the q.Page() a request may carry
    Reader,     \* paginated Read requests
    Writer,     \* Write and Delete requests
    Start,      \* the contents the table may have when NewPostgres is called
    TTL,        \* indexTTL
    MaxBatches, \* bound: batches one Write commits
    MaxClock,   \* bound: seconds the wall clock advances
    None        \* no query, no request yet

ASSUME IndexAssumption ==
    /\ Val \subseteq Nat
    /\ NoRow \notin Val
    /\ Match \in [Query -> SUBSET Val]
    /\ Sorted \subseteq Query
    /\ Scoped \subseteq Query
    /\ Visible \in [Query -> SUBSET Key]
    /\ Limits \subseteq Nat \ {0}
    /\ Pages \subseteq Nat
    /\ IsFiniteSet(Key)
    /\ Start \subseteq [Key -> Val \cup {NoRow}]
    /\ TTL \in Nat
    /\ MaxBatches \in Nat
    /\ MaxClock \in Nat

VARIABLES
    clock,        \* time.Now().Unix(), never stepping back
    hist,         \* committed contents of the root table, oldest first
    indexStamp,   \* Postgres.indexStamp
    indexQueries, \* Postgres.indexQueries
    rd,           \* what each Read request has reached and holds
    wr            \* what each Write or Delete request has reached

vars == <<clock, hist, indexStamp, indexQueries, rd, wr>>

-----------------------------------------------------------------------------
Table == [Key -> Val \cup {NoRow}]
table == hist[Len(hist)].rows

Present(t) == {k \in Key : t[k] # NoRow}
Matching(q, t) == {k \in Present(t) : t[k] \in Match[q]}

\* The results SELECT RecKey ... WHERE ... [ORDER BY ...] may have: every
\* matching key once, in any order the ORDER BY does not decide.
Listings(q, t) ==
    LET S == Matching(q, t)
        n == Cardinality(S)
    IN  {s \in [1..n -> S] :
            \A i, j \in 1..n : i < j =>
                /\ s[i] # s[j]
                /\ q \in Sorted => t[s[i]] <= t[s[j]]}

Least(a, b) == IF a <= b THEN a ELSE b

\* Fault: a page ends one key late.
pageKeysEndLate(keys, page, limit) ==
    SubSeq(keys, page * limit + 1, Least(page * limit + limit + 1, Len(keys)))

\* cachedQuery.pageKeys for a limit above 0.
pageKeys(keys, page, limit) ==
    SubSeq(keys, page * limit + 1, Least(page * limit + limit, Len(keys)))

\* The elements of a set of positions in increasing order, as the one
\* element of a set; and what a sequence holds at such positions.
InOrder(S) ==
    {s \in [1..Cardinality(S) -> S] :
        \A i, j \in 1..Cardinality(S) : i < j => s[i] < s[j]}
At(keys, idx) == [j \in DOMAIN idx |-> keys[idx[j]]]

\* The positions of the keys that have a row in t.
Found(keys, t) == {i \in 1..Len(keys) : t[keys[i]] # NoRow}

\* Fault: the array is as long as its last position.
SlotsUpToLast(got) == UNION {1..i : i \in got}

\* readByRecKeys gets the rows of the keys at the positions got: of those found
\* in the table, or of some of them when the result breaks off, since rows.Err is
\* not read.  It puts each into an array, as long as the rows are many, at the
\* position of its key.  A position past its end makes the goroutine panic;
\* positions that got no row are skipped.
Slots(got) == 1..Cardinality(got)
OutOfRange(got) == ~(got \subseteq Slots(got))
RowsOf(keys, got) == {At(keys, s) : s \in InOrder(got \cap Slots(got))}

-----------------------------------------------------------------------------
Init ==
    /\ clock = 0
    /\ hist \in {<<[rows |-> t, by |-> None]>> : t \in Start}
    /\ indexStamp = clock
    /\ indexQueries = <<>>
    /\ rd = [r \in Reader |-> [pc |-> "idle", q |-> None, page |-> 0, limit |-> 1,
                               stamp |-> 0, ver |-> 0, keys |-> <<>>, total |-> FALSE,
                               by |-> None, rows |-> <<>>, cut |-> FALSE]]
    /\ wr = [w \in Writer |-> [pc |-> "idle", batches |-> 0, inv |-> 0]]

-----------------------------------------------------------------------------
(* Paginated reads: readWithIndex                                          *)

\* Fault: the stamp of the entry is not looked at.
UsableWithAnyStamp(q) == q \in DOMAIN indexQueries

\* The entry of q is one a lookup serves pages from.
Usable(q) ==
    /\ q \in DOMAIN indexQueries
    /\ indexQueries[q].stamp = indexStamp

\* The lookup under indexMtx.RLock, and the test of the entry's stamp.
Lookup(r, q, page, limit) ==
    LET e == indexQueries[q]
        hit == Usable(q)
    IN  /\ rd[r].pc = "idle"
        /\ rd' = [rd EXCEPT ![r] =
              [pc |-> IF hit THEN "touch" ELSE "readRecKeys",
               q |-> q, page |-> page, limit |-> limit, stamp |-> indexStamp,
               ver |-> IF hit THEN e.ver ELSE 0,
               keys |-> IF hit THEN e.keys ELSE <<>>,
               total |-> hit /\ e.total,
               by |-> IF hit THEN e.by ELSE r, rows |-> <<>>, cut |-> FALSE]]
        /\ UNCHANGED <<clock, hist, indexStamp, indexQueries, wr>>

\* Fault: a hit renews the stamp of the entry.
TouchRenewsStamp(r) ==
    LET q == rd[r].q
    IN  /\ rd[r].pc = "touch"
        /\ rd' = [rd EXCEPT ![r].pc = "readRows"]
        /\ indexQueries' =
             IF q \in DOMAIN indexQueries /\ indexQueries[q].by = rd[r].by
             THEN [indexQueries EXCEPT ![q] = [indexQueries[q] EXCEPT
                                                 !.lastUsed = clock, !.stamp = indexStamp]]
             ELSE indexQueries
        /\ UNCHANGED <<clock, hist, indexStamp, wr>>

\* cached.touch() on the entry the lookup found, which the cleaner or a
\* later store may have taken out of the map meanwhile.
Touch(r) ==
    LET q == rd[r].q
    IN  /\ rd[r].pc = "touch"
        /\ rd' = [rd EXCEPT ![r].pc = "readRows"]
        /\ indexQueries' =
             IF q \in DOMAIN indexQueries /\ indexQueries[q].by = rd[r].by
             THEN [indexQueries EXCEPT ![q] = [indexQueries[q] EXCEPT !.lastUsed = clock]]
             ELSE indexQueries
        /\ UNCHANGED <<clock, hist, indexStamp, wr>>

\* Fault: the records are counted before the keys are read.
TotalsFirst(whole) == BOOLEAN

\* Whether there is a number of records: MetaData fails in a transaction in which
\* a result broke off, and may fail in any other.
Totals(whole) == {whole, FALSE}

\* readRecKeys, one transaction under mtx: the keys, or the first n of them when
\* the result breaks off (rows.Err is not read), and the number of records.
ReadRecKeys(r) ==
    /\ rd[r].pc = "readRecKeys"
    /\ \E keys \in Listings(rd[r].q, table) :
       \E n \in 0..Len(keys) : \E total \in Totals(n = Len(keys)) :
          rd' = [rd EXCEPT ![r] =
                   [rd[r] EXCEPT !.pc = IF rd[r].q \in Scoped THEN "filter" ELSE "store",
                                 !.ver = Len(hist), !.keys = SubSeq(keys, 1, n),
                                 !.total = total]]
    /\ UNCHANGED <<clock, hist, indexStamp, indexQueries, wr>>

\* filterRecKeysBySecurity: reads the records of all the keys under mtx, and
\* keeps the key at the position of each record ScopeItem lets through.  The total
\* is the number of the keys kept; without keys there is none.
Filter(r) ==
    LET keys == rd[r].keys
        pass(elems) == {i \in 1..Len(elems) : elems[i] \in Visible[rd[r].q]}
    IN  /\ rd[r].pc = "filter"
        /\ \E got \in SUBSET Found(keys, table) :
           \/ /\ OutOfRange(got)
              /\ rd' = [rd EXCEPT ![r] =
                          [rd[r] EXCEPT !.pc = "panicked", !.cut = got # Found(keys, table)]]
           \/ /\ ~OutOfRange(got)
              /\ \E elems \in RowsOf(keys, got) : \E kept \in InOrder(pass(elems)) :
                    rd' = [rd EXCEPT ![r] =
                             [rd[r] EXCEPT !.pc = "store", !.keys = At(keys, kept),
                                           !.total = keys # <<>>]]
        /\ UNCHANGED <<clock, hist, indexStamp, indexQueries, wr>>

\* The read of those records fails: the keys are kept as they are.
FilterReadFails(r) ==
    /\ rd[r].pc = "filter"
    /\ rd[r].keys # <<>>
    /\ rd' = [rd EXCEPT ![r] = [rd[r] EXCEPT !.pc = "store", !.total = FALSE]]
    /\ UNCHANGED <<clock, hist, indexStamp, indexQueries, wr>>

\* Fault: the stamp is read when the entry is stored.
StoreWithLatestStamp(r) ==
    LET entry == [keys |-> rd[r].keys, stamp |-> indexStamp,
                  lastUsed |-> indexStamp, ver |-> rd[r].ver,
                  total |-> rd[r].total, by |-> r]
    IN  /\ rd[r].pc = "store"
        /\ indexQueries' = [q \in DOMAIN indexQueries \cup {rd[r].q} |->
                               IF q = rd[r].q THEN entry ELSE indexQueries[q]]
        /\ rd' = [rd EXCEPT ![r].pc = "readRows"]
        /\ UNCHANGED <<clock, hist, indexStamp, wr>>

\* The new entry is put in the map under indexMtx.Lock, with the stamp that
\* the lookup read before the keys were read.
Store(r) ==
    LET entry == [keys |-> rd[r].keys, stamp |-> rd[r].stamp,
                  lastUsed |-> rd[r].stamp, ver |-> rd[r].ver,
                  total |-> rd[r].total, by |-> r]
    IN  /\ rd[r].pc = "store"
        /\ indexQueries' = [q \in DOMAIN indexQueries \cup {rd[r].q} |->
                               IF q = rd[r].q THEN entry ELSE indexQueries[q]]
        /\ rd' = [rd EXCEPT ![r].pc = "readRows"]
        /\ UNCHANGED <<clock, hist, indexStamp, wr>>

\* readByRecKeys for the keys of the page, one transaction under mtx.
ReadRows(r) ==
    LET keys == pageKeys(rd[r].keys, rd[r].page, rd[r].limit)
    IN  /\ rd[r].pc = "readRows"
        /\ \E got \in SUBSET Found(keys, table) :
           \/ /\ OutOfRange(got)
              /\ rd' = [rd EXCEPT ![r] =
                          [rd[r] EXCEPT !.pc = "panicked", !.cut = got # Found(keys, table)]]
           \/ /\ ~OutOfRange(got)
              /\ \E rows \in RowsOf(keys, got) :
                    rd' = [rd EXCEPT ![r] =
                             [rd[r] EXCEPT !.pc = "returned", !.rows = rows,
                                           !.cut = got # Found(keys, table)]]
        /\ UNCHANGED <<clock, hist, indexStamp, indexQueries, wr>>

\* Either read of the database returns an error to the caller.
ReadFails(r) ==
    /\ \/ rd[r].pc = "readRecKeys"
       \/ /\ rd[r].pc = "readRows"
          /\ pageKeys(rd[r].keys, rd[r].page, rd[r].limit) # <<>>
    /\ rd' = [rd EXCEPT ![r].pc = "failed"]
    /\ UNCHANGED <<clock, hist, indexStamp, indexQueries, wr>>

-----------------------------------------------------------------------------
(* Writes and deletes: a committed transaction, then invalidateIndex       *)

Commit(w, t) == hist' = Append(hist, [rows |-> t, by |-> w])

\* One batch of Write: POST and PUT insert or update a row, PATCH updates a
\* row that exists.  Write goes on to the next batch or returns.
WriteBatch(w) ==
    /\ wr[w].pc \in {"idle", "writing"}
    /\ wr[w].batches < MaxBatches
    /\ \E k \in Key, v \in Val : Commit(w, [table EXCEPT ![k] = v])
    /\ \E pc \in {"writing", "invalidate"} :
          wr' = [wr EXCEPT ![w] =
                   [wr[w] EXCEPT !.pc = pc, !.batches = wr[w].batches + 1]]
    /\ UNCHANGED <<clock, indexStamp, indexQueries, rd>>

\* DeleteRelational removes the records its criteria select.
DeleteRecords(w) ==
    /\ wr[w].pc = "idle"
    /\ \E S \in SUBSET Present(table) :
          /\ S # {}
          /\ Commit(w, [k \in Key |-> IF k \in S THEN NoRow ELSE table[k]])
    /\ wr' = [wr EXCEPT ![w].pc = "invalidate"]
    /\ UNCHANGED <<clock, indexStamp, indexQueries, rd>>

\* A transaction that fails or changes nothing: the call returns, and the
\* deferred invalidateIndex still runs.
WriteFails(w) ==
    /\ wr[w].pc \in {"idle", "writing"}
    /\ wr' = [wr EXCEPT ![w].pc = "invalidate"]
    /\ UNCHANGED <<clock, hist, indexStamp, indexQueries, rd>>

\* Fault: the new stamp is one second late.
InvalidateFromNextSecond(w) ==
    /\ wr[w].pc = "invalidate"
    /\ indexStamp' = clock + 1
    /\ wr' = [wr EXCEPT ![w] = [wr[w] EXCEPT !.pc = "done", !.inv = clock]]
    /\ UNCHANGED <<clock, hist, indexQueries, rd>>

\* The deferred invalidateIndex.
Invalidate(w) ==
    /\ wr[w].pc = "invalidate"
    /\ indexStamp' = clock
    /\ wr' = [wr EXCEPT ![w] = [wr[w] EXCEPT !.pc = "done", !.inv = clock]]
    /\ UNCHANGED <<clock, hist, indexQueries, rd>>

-----------------------------------------------------------------------------
\* The sweep by the cleaner, on a tick of the cleaner.
Expired(q) == clock - indexQueries[q].lastUsed > TTL

cleanExpiredQueries ==
    LET kept == {q \in DOMAIN indexQueries : ~Expired(q)}
    IN  /\ kept # DOMAIN indexQueries
        /\ indexQueries' = [q \in kept |-> indexQueries[q]]
        /\ UNCHANGED <<clock, hist, indexStamp, rd, wr>>

\* The wall clock advances by a second.
Tick ==
    /\ clock < MaxClock
    /\ clock' = clock + 1
    /\ UNCHANGED <<hist, indexStamp, indexQueries, rd, wr>>

ReadStep(r) ==
    \/ \E q \in Query, page \in Pages, limit \in Limits : Lookup(r, q, page, limit)
    \/ Touch(r) \/ ReadRecKeys(r) \/ Filter(r) \/ FilterReadFails(r)
    \/ Store(r) \/ ReadRows(r) \/ ReadFails(r)

WriteStep(w) ==
    \/ WriteBatch(w) \/ DeleteRecords(w) \/ WriteFails(w) \/ Invalidate(w)

Next ==
    \/ \E r \in Reader : ReadStep(r)
    \/ \E w \in Writer : WriteStep(w)
    \/ cleanExpiredQueries
    \/ Tick

Spec == Init /\ [][Next]_vars

-----------------------------------------------------------------------------
(* Properties                                                              *)

Commits == [rows : Table, by : Writer \cup {None}]
Entry == [keys : Seq(Key), stamp : 0..clock, lastUsed : 0..clock,
          ver : 1..Len(hist), total : BOOLEAN, by : Reader]
ReadRequest ==
    [pc : {"idle", "touch", "readRecKeys", "filter", "store", "readRows",
           "returned", "failed", "panicked"},
     q : Query \cup {None}, page : Nat, limit : Nat \ {0},
     stamp : 0..clock, ver : 0..Len(hist), keys : Seq(Key), total : BOOLEAN,
     by : Reader \cup {None}, rows : Seq(Key), cut : BOOLEAN]
\* The steps at which a request holds keys, from the index or read by itself.
Holding == {"touch", "filter", "store", "readRows", "returned", "panicked"}
WriteRequest ==
    [pc : {"idle", "writing", "invalidate", "done"},
     batches : 0..MaxBatches, inv : 0..clock]

\* Every variable holds what its declaration in the code, or its history
\* role, says; no stamp and no time lies in the future; a request that has
\* left its lookup has a query, and one that holds keys a version.
TypeOK ==
    /\ clock \in 0..MaxClock
    /\ hist \in Seq(Commits) /\ hist # <<>>
    /\ indexStamp \in 0..clock
    /\ DOMAIN indexQueries \subseteq Query
    /\ indexQueries \in [DOMAIN indexQueries -> Entry]
    /\ rd \in [Reader -> ReadRequest]
    /\ \A r \in Reader : rd[r].pc # "idle" => rd[r].q \in Query
    /\ \A r \in Reader : rd[r].pc \in Holding => rd[r].ver # 0
    /\ wr \in [Writer -> WriteRequest]

\* The invalidation of commit c ran before the second s began.
InvalidatedBefore(c, s) ==
    LET w == wr[hist[c].by] IN w.pc = "done" /\ w.inv < s

\* Keys read at version ver under a stamp miss only commits whose invalidation
\* had not run when the second of the stamp began.
MissesOnlyRacing(ver, stamp) ==
    \A c \in (ver + 1)..Len(hist) : ~InvalidatedBefore(c, stamp)

\* A page is never served from an entry that misses a commit whose
\* invalidation ran in an earlier second than the last one: the stamp is
\* taken before the keys are read, so a write that a lookup overtakes
\* leaves the stored entry behind (readWithIndex, invalidateIndex).
NoEntryServedAfterInvalidation ==
    \A q \in Query : Usable(q) =>
        MissesOnlyRacing(indexQueries[q].ver, indexStamp)

\* What a request holds, from the index or from its own reading of the keys,
\* misses only commits that were invalidated in or after the second of the
\* stamp it saw at its lookup, or were not invalidated yet.
ReadMissesOnlyRacingCommits ==
    \A r \in Reader : rd[r].pc \in Holding =>
        MissesOnlyRacing(rd[r].ver, rd[r].stamp)

\* readByRecKeys panics only when a record of the request's index was deleted
\* by a commit whose invalidation had not run when the second of the stamp
\* seen at the lookup began, never on an index older than that; or when the
\* result with the rows breaks off.
PanicOnlyByRacingDelete ==
    \A r \in Reader : rd[r].pc = "panicked" /\ ~rd[r].cut =>
        \E c \in (rd[r].ver + 1)..Len(hist) :
            /\ \E i \in 1..Len(rd[r].keys) : hist[c].rows[rd[r].keys[i]] = NoRow
            /\ ~InvalidatedBefore(c, rd[r].stamp)

\* Requests served from one entry for different pages of one size never
\* return the same record, whatever was written between them (pageKeys,
\* readByRecKeys).
PagesDisjoint ==
    \A r1, r2 \in Reader :
        /\ rd[r1].pc = "returned" /\ rd[r2].pc = "returned"
        /\ rd[r1].by = rd[r2].by
        /\ rd[r1].limit = rd[r2].limit /\ rd[r1].page # rd[r2].page
        => \A i \in 1..Len(rd[r1].rows), j \in 1..Len(rd[r2].rows) :
               rd[r1].rows[i] # rd[r2].rows[j]

\* The index of a user that comes with a total lists only records ScopeItem let
\* through, each key kept for its own record.  One without a total is what the
\* query listed, since the read of the records failed, or there were none.
UserIndexIsFilteredOrWhole ==
    \A q \in Scoped \cap DOMAIN indexQueries :
        LET e == indexQueries[q]
        IN  IF e.total
            THEN \A i \in 1..Len(e.keys) : e.keys[i] \in Visible[q]
            ELSE \E s \in Listings(q, hist[e.ver].rows) : e.keys = SubSeq(s, 1, Len(e.keys))

\* An index for everyone that comes with a total is whole: what was left of a
\* result that broke off is served as well, to every request of the query until
\* the next write, but never with a number of records (readRecKeys, MetaData).
IndexWithTotalIsWhole ==
    \A q \in DOMAIN indexQueries \ Scoped :
        indexQueries[q].total =>
            indexQueries[q].keys \in Listings(q, hist[indexQueries[q].ver].rows)

\* An entry a lookup would refuse is refused for ever: no invalidation, late
\* store or touch makes that entry usable again.
StaleStaysStale ==
    [][\A q \in DOMAIN indexQueries :
          (/\ ~Usable(q)
           /\ q \in DOMAIN indexQueries'
           /\ indexQueries'[q].by = indexQueries[q].by) => ~Usable(q)']_vars

-----------------------------------------------------------------------------
(* What a comment of the code says of it, and the code does not do         *)

\* Read.go:390: rows of "mismatched keys" leave nil entries to skip.
MismatchedKeysAreSkipped == \A r \in Reader : rd[r].pc # "panicked"

=============================================================================
