------------------------------ MODULE RelStore ------------------------------
(***************************************************************************)
(* Objects in PostgreSQL: a row in the root table and a row in a child     *)
(* table for each element of a slice.  Requests are goroutines of several  *)
(* processes that share the database.  Within a process Postgres.mtx lets  *)
(* one transaction run at a time; between processes there are the row      *)
(* locks and the READ COMMITTED isolation that db.Begin asks for.          *)
(*                                                                         *)
(* A step is one SQL statement, or, for a statement over many rows, the    *)
(* search for them and the change of them, between which it may wait.  The *)
(* field raced and the variable loose are history: no step of the code     *)
(* reads them.                                                             *)
(***************************************************************************)
EXTENDS Integers, Sequences, FiniteSets

CONSTANTS
    Key,      \* primary keys of the root type
    Val,      \* values of the field an object, or a child, has
    Zero,     \* the zero value of that field
    Nil,      \* a nil element of a slice
    NoRow,    \* what a table holds for a row that is not in it
    MaxKids,  \* bound: elements of a slice
    Request,  \* goroutines that call the store, one call after another
    Process,  \* processes
    Home,     \* Home[r]: the process of r
    WriteOps, \* the actions writes carry
    Batches,  \* the sets of objects one WriteRelational may carry
    Criteria, \* the values of the field the criteria of a query select
    Limits,   \* q.Limit() of a delete, 0 for none
    Covers,   \* Covers[k]: the keys whose rows the LIKE pattern of k matches
    None      \* no operation, and no object

ASSUME StoreAssumption ==
    /\ Zero \in Val
    /\ {NoRow, Nil} \cap Val = {} /\ NoRow # Nil
    /\ None \notin [val : Val, kids : Seq(Val)]
    /\ MaxKids \in Nat
    /\ IsFiniteSet(Key)
    /\ Home \in [Request -> Process]
    /\ WriteOps \subseteq {"POST", "PUT", "PATCH"}
    /\ Criteria \subseteq SUBSET Val
    /\ Limits \subseteq Nat
    /\ Covers \in [Key -> SUBSET Key] /\ \A k \in Key : k \in Covers[k]
    /\ \A b \in Batches : \A o \in b :
          /\ o.key \in Key /\ o.val \in Val
          /\ o.kids \in Seq(Val \cup {Nil}) /\ Len(o.kids) <= MaxKids
          /\ \A p \in b : p.key = o.key => p = o

VARIABLES
    db,    \* the committed rows: <<k, 0>> the root, <<k, i>> the i-th child
    tx,    \* the transaction of each request
    loose  \* keys whose rows may no longer be those of one object

vars == <<db, tx, loose>>

-----------------------------------------------------------------------------
Row == Key \X (0..MaxKids)
RootRows == Key \X {0}
ChildRows == Row \ RootRows
Table == [Row -> Val \cup {NoRow}]

Idle == [pc |-> "idle", op |-> None, batch |-> {}, todo |-> {}, own |-> <<>>,
         crit |-> {}, keys |-> {}, found |-> {}, seen |-> <<>>, raced |-> {}]

Init ==
    /\ db = [row \in Row |-> NoRow]
    /\ tx = [r \in Request |-> Idle]
    /\ loose = {}

\* Fault: the elements of a slice are numbered from one.
ConvertToFromOne(o) ==
    {[row |-> <<o.key, 0>>, val |-> o.val]} \cup
    {[row |-> <<o.key, i + 1>>, val |-> o.kids[i]] :
        i \in {j \in 1..Len(o.kids) : o.kids[j] # Nil}}

\* convertTo: the rows of an object.  A nil element has none, and does not
\* move those after it.
ConvertTo(o) ==
    {[row |-> <<o.key, 0>>, val |-> o.val]} \cup
    {[row |-> <<o.key, i>>, val |-> o.kids[i]] :
        i \in {j \in 1..Len(o.kids) : o.kids[j] # Nil}}

\* What the transaction of r sees in a row, and the rows another one holds.
See(r, row) == IF row \in DOMAIN tx[r].own THEN tx[r].own[row] ELSE db[row]
Locked(r, row) == \E x \in Request \ {r} : row \in DOMAIN tx[x].own

With(own, S, v) == [row \in DOMAIN own \cup S |-> IF row \in S THEN v ELSE own[row]]
Becomes(r, new) == tx' = [tx EXCEPT ![r] = new]
InFlight(x) == tx[x].pc # "idle"

\* Fault: a request does not take mtx.
NoMtx(r) == ~InFlight(r)

\* mtx.Lock: no request of the same process has a transaction.
Mtx(r) == \A x \in Request : Home[x] = Home[r] => ~InFlight(x)

-----------------------------------------------------------------------------
(* The history of races                                                    *)

Touches(t) == IF t.op \in {"DELETE", "READ"} THEN Key ELSE {o.key : o \in t.batch}

\* Two transactions that may leave the rows of a key apart: a delete and a
\* write, or an update of the rows that exist and a write that makes some.
Inserts == {"POST", "PUT"}
Clash(a, b) ==
    \E x, y \in {a, b} :
        \/ x = "DELETE" /\ y \in WriteOps
        \/ x = "PATCH" /\ y \in Inserts

\* A slice with an element behind a nil one.
Holed(o) == \E i, j \in 1..Len(o.kids) : i < j /\ o.kids[i] = Nil /\ o.kids[j] # Nil

\* A transaction begins, under mtx, with the keys of spoilt given up.
Begin(r, new, spoilt) ==
    LET away == {x \in Request : InFlight(x) /\ Home[x] # Home[r]}
        shared(x) == Touches(new) \cap Touches(tx[x])
        clashing == {x \in away : Clash(new.op, tx[x].op)}
        seen(x) == IF new.op # "READ" /\ x \in away /\ tx[x].op = "READ"
                   THEN shared(x) ELSE {}
        met == {x \in away : new.op = "READ" /\ tx[x].op # "READ"}
    IN  /\ Mtx(r)
        /\ tx' = [x \in Request |->
                    IF x = r THEN [new EXCEPT !.raced = UNION {shared(y) : y \in met}]
                    ELSE [tx[x] EXCEPT !.raced = tx[x].raced \cup seen(x)]]
        /\ loose' = loose \cup spoilt \cup UNION {shared(x) : x \in clashing}
        /\ UNCHANGED db

-----------------------------------------------------------------------------
(* WriteRelational                                                         *)

\* A batch begins its transaction.
BeginWrite(r) ==
    \E op \in WriteOps, b \in Batches :
        Begin(r, [Idle EXCEPT !.pc = "write", !.op = op, !.batch = b,
                              !.todo = UNION {ConvertTo(o) : o \in b}],
              IF op \in Inserts THEN {o.key : o \in {x \in b : Holed(x)}} ELSE {})

\* Fault: a PATCH does not keep what it has no value for.
PatchNotCoalesced(r, w) ==
    IF tx[r].op = "PATCH" /\ See(r, w.row) = NoRow THEN tx[r].own
    ELSE With(tx[r].own, {w.row}, w.val)

\* One row: INSERT ... ON CONFLICT DO UPDATE, or for PATCH an UPDATE of the
\* row if it exists, a zero keeping what is there (COALESCE).
RowWritten(r, w) ==
    IF tx[r].op = "PATCH" /\ See(r, w.row) = NoRow THEN tx[r].own
    ELSE With(tx[r].own, {w.row},
              IF tx[r].op = "PATCH" /\ w.val = Zero THEN See(r, w.row) ELSE w.val)

\* The tables and the rows come in the order of Go maps, which is any.  A
\* row another transaction has changed is waited for, unless an UPDATE does
\* not see it yet.
WriteRow(r) ==
    /\ tx[r].pc = "write"
    /\ \E w \in tx[r].todo :
          /\ ~Locked(r, w.row) \/ (tx[r].op = "PATCH" /\ db[w.row] = NoRow)
          /\ Becomes(r, [tx[r] EXCEPT
                 !.own = RowWritten(r, w), !.todo = tx[r].todo \ {w},
                 !.pc = IF tx[r].todo = {w} THEN "commit" ELSE "write"])
    /\ UNCHANGED <<db, loose>>

-----------------------------------------------------------------------------
(* DeleteRelational                                                        *)

\* readRootKeys: the keys that match, as many as the query's limit allows.
\* With none the call ends.
BeginDelete(r) ==
    \E crit \in Criteria, limit \in Limits :
        LET match == {k \in Key : db[<<k, 0>>] \in crit}
        IN  \E keys \in SUBSET match \ {{}} :
                /\ IF limit = 0 THEN keys = match ELSE Cardinality(keys) <= limit
                /\ Begin(r, [Idle EXCEPT !.pc = "findKids", !.op = "DELETE",
                                         !.crit = crit, !.keys = keys],
                         (match \cup UNION {Covers[k] : k \in keys}) \ keys)

\* Fault: only the first child of a root is looked for.
ChildrenOfFirst(r) ==
    {row \in ChildRows : db[row] # NoRow /\ row[2] = 1
                         /\ \E k \in tx[r].keys : row[1] \in Covers[k]}

\* Fault: the pattern of one key only.
ChildrenOfOneKey(r) ==
    LET k == CHOOSE x \in tx[r].keys : TRUE
    IN  {row \in ChildRows : db[row] # NoRow /\ row[1] \in Covers[k]}

\* DELETE FROM child WHERE ParentKey LIKE 'k%' OR ...: the rows it finds.
ChildrenToDelete(r) ==
    {row \in ChildRows : db[row] # NoRow /\ \E k \in tx[r].keys : row[1] \in Covers[k]}

FindKids(r) ==
    /\ tx[r].pc = "findKids"
    /\ Becomes(r, [tx[r] EXCEPT !.pc = "deleteKids", !.found = ChildrenToDelete(r)])
    /\ UNCHANGED <<db, loose>>

\* The rows found are deleted when no other transaction holds one of them.
DeleteKids(r) ==
    /\ tx[r].pc = "deleteKids"
    /\ \A row \in tx[r].found : ~Locked(r, row)
    /\ Becomes(r, [tx[r] EXCEPT !.pc = "findRoots", !.found = {},
                                !.own = With(tx[r].own, tx[r].found, NoRow)])
    /\ UNCHANGED <<db, loose>>

\* DELETE FROM root WHERE ...: the criteria without the limit.
FindRoots(r) ==
    /\ tx[r].pc = "findRoots"
    /\ Becomes(r, [tx[r] EXCEPT !.pc = "deleteRoots",
                                !.found = {row \in RootRows : db[row] \in tx[r].crit}])
    /\ UNCHANGED <<db, loose>>

\* A row that was changed while the statement waited must match still.
DeleteRoots(r) ==
    /\ tx[r].pc = "deleteRoots"
    /\ \A row \in tx[r].found : ~Locked(r, row)
    /\ LET gone == {row \in tx[r].found : db[row] \in tx[r].crit}
       IN  Becomes(r, [tx[r] EXCEPT !.pc = "commit", !.found = {},
                                    !.own = With(tx[r].own, gone, NoRow)])
    /\ UNCHANGED <<db, loose>>

-----------------------------------------------------------------------------
(* The end of a transaction                                                *)

\* tx.Commit.  A row it deletes is gone from what another statement found.
Commit(r) ==
    LET own == tx[r].own
        gone == {row \in DOMAIN own : own[row] = NoRow}
    IN  /\ tx[r].pc = "commit"
        /\ db' = [row \in Row |-> See(r, row)]
        /\ tx' = [x \in Request |->
                    IF x = r THEN Idle
                    ELSE [tx[x] EXCEPT !.found = tx[x].found \ gone]]
        /\ UNCHANGED loose

\* Fault: what was written before the failure stays.
RollbackKeepsRows(r) ==
    /\ InFlight(r)
    /\ db' = [row \in Row |-> See(r, row)]
    /\ Becomes(r, Idle)
    /\ UNCHANGED loose

\* A statement or tx.Commit fails, a deadlock is broken, or the process dies:
\* the transaction leaves nothing, whatever the caller is told.
Rollback(r) ==
    /\ InFlight(r)
    /\ Becomes(r, Idle)
    /\ UNCHANGED <<db, loose>>

-----------------------------------------------------------------------------
(* ReadRelational and ConvertFrom                                          *)

BeginRead(r) ==
    \E crit \in Criteria :
        Begin(r, [Idle EXCEPT !.pc = "read", !.op = "READ", !.crit = crit], {})

\* The first table's SELECT: the tables come in the order of a Go map.
ReadTable(r) ==
    /\ tx[r].pc = "read"
    /\ \E rows \in {RootRows, ChildRows} :
          Becomes(r, [tx[r] EXCEPT !.pc = "readRest",
                                   !.seen = [row \in rows |-> db[row]]])
    /\ UNCHANGED <<db, loose>>

\* convertRowsToSlice: as many places as rows, each row at its index; a row
\* whose index is past the end makes the goroutine panic.
Kids(t, k) == {i \in 1..MaxKids : t[<<k, i>>] # NoRow}
Panics(t, k) == \E i \in Kids(t, k) : i > Cardinality(Kids(t, k))
Slice(t, k) == [i \in 1..Cardinality(Kids(t, k)) |-> t[<<k, i>>]]

\* convertFrom of the rows of one key.
ConvertFrom(t, k) == [val |-> t[<<k, 0>>], kids |-> Slice(t, k)]

\* The other table's SELECT, of which the rows in got arrive.
ReadRows(r, got, pc) ==
    /\ tx[r].pc = "readRest"
    /\ Becomes(r, [tx[r] EXCEPT !.pc = pc,
           !.seen = [row \in Row |-> IF row \in DOMAIN @ THEN @[row]
                                     ELSE IF row \in got THEN db[row] ELSE NoRow]])
    /\ UNCHANGED <<db, loose>>
ReadRest(r) == ReadRows(r, Row, "count")

\* readRows takes the end of a result that breaks off for its end.  After the
\* first table the next statement fails (Rollback), after the last there is
\* none but the count.
ReadCut(r) == \E got \in SUBSET (Row \ DOMAIN tx[r].seen) : ReadRows(r, got, "cut")

\* The objects made of the rows.
Answer(r) == {k \in Key : tx[r].seen[<<k, 0>>] \in tx[r].crit}

Ends(r) == Becomes(r, Idle) /\ UNCHANGED <<db, loose>>

\* MetaData: the answer has the number of records, or, when the statement fails,
\* as it does after a result broke off, it has none.
Count(r) == tx[r].pc = "count" /\ Ends(r)
CountFails(r) == tx[r].pc \in {"count", "cut"} /\ Ends(r)

Next ==
    \E r \in Request :
        \/ BeginWrite(r) \/ WriteRow(r)
        \/ BeginDelete(r) \/ FindKids(r) \/ DeleteKids(r) \/ FindRoots(r) \/ DeleteRoots(r)
        \/ BeginRead(r) \/ ReadTable(r) \/ ReadRest(r) \/ ReadCut(r)
        \/ Count(r) \/ CountFails(r)
        \/ Commit(r) \/ Rollback(r)

Spec == Init /\ [][Next]_vars

-----------------------------------------------------------------------------
(* Properties                                                              *)

Writes == [row : Row, val : Val]
Versions == UNION {[S -> Val \cup {NoRow}] : S \in SUBSET Row}
Transaction ==
    [pc : {"idle", "write", "findKids", "deleteKids", "findRoots", "deleteRoots",
           "commit", "read", "readRest", "count", "cut"},
     op : WriteOps \cup {"DELETE", "READ", None},
     batch : Batches \cup {{}}, todo : SUBSET Writes,
     own : Versions,
     crit : Criteria \cup {{}}, keys : SUBSET Key, found : SUBSET Row,
     seen : UNION {[S -> Val \cup {NoRow}] : S \in {{}, RootRows, ChildRows, Row}},
     raced : SUBSET Key]

\* Tables hold rows of the tables' keys, a transaction what its steps may
\* put there, and no row is changed by two transactions.
TypeOK ==
    /\ db \in Table
    /\ tx \in [Request -> Transaction]
    /\ loose \subseteq Key
    /\ \A r, x \in Request : r # x => DOMAIN tx[r].own \cap DOMAIN tx[x].own = {}

\* The object the tables hold for a key.
NoObject == None
Stored(k) == IF db[<<k, 0>>] = NoRow THEN NoObject ELSE ConvertFrom(db, k)

Store == INSTANCE ObjectStore WITH objs <- [k \in Key |-> Stored(k)]

\* Every batch, and every delete, changes whole objects and all of them at
\* once, whatever fails, and writes that race between processes take effect
\* one after the other; a key is given up only after a delete that raced with
\* a write or was limited, an update that raced with an insert, a slice with a
\* nil element, or a LIKE pattern that matched another key.
StoresObjects == Store!Spec

\* A commit does to every object what its own request asks for: it stores what
\* a POST or PUT carries, what a PATCH carries over what it leaves out, and no
\* object where the criteria of a delete match, however the statements of other
\* processes fell between those of the request (writeData, DeleteRelational).
CommitsStoreTheRequest ==
    [][\A r \in Request : Commit(r) =>
          \A k \in Key \ loose :
              Stored(k)' = CASE tx[r].op \in Inserts -> Store!Upserted(k, tx[r].batch)
                             [] tx[r].op = "PATCH" -> Store!Patched(k, tx[r].batch)
                             [] tx[r].op = "DELETE" -> Store!Removed(k, tx[r].crit)]_vars

\* No child is left without its root, and none is missing among its siblings:
\* an object made of the rows has each child at its index, and a new object
\* under an old key does not find children of the former one (DeleteRelational,
\* convertRowsToSlice).
ChildrenAreWhole ==
    \A k \in Key \ loose :
        /\ db[<<k, 0>>] = NoRow => Kids(db, k) = {}
        /\ ~Panics(db, k)

\* A read that no write of another process overlapped, and that is answered with
\* the number of records, is answered with exactly the matching objects as they
\* are stored, though it reads one table after the other and does not notice
\* when the last breaks off (ReadRelational, readRows, MetaData).
ReadsAreWhole ==
    [][\A r \in Request : Count(r) =>
          \A k \in Key \ (loose \cup tx[r].raced) :
              /\ k \in Answer(r) <=> Stored(k) # NoObject /\ Stored(k).val \in tx[r].crit
              /\ k \in Answer(r) => /\ ~Panics(tx[r].seen, k)
                                    /\ ConvertFrom(tx[r].seen, k) = Stored(k)]_vars

-----------------------------------------------------------------------------
(* What a comment of the code says of it, and the code does not do         *)

\* IORM.go:37: PUT is "replace": once committed, the object has the children
\* it was written with and no others.
PutReplaces ==
    [][\A r \in Request : Commit(r) /\ tx[r].op = "PUT" =>
          \A o \in tx[r].batch :
              Kids(db', o.key) = {i \in 1..Len(o.kids) : o.kids[i] # Nil}]_vars

=============================================================================
