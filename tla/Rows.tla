-------------------------------- MODULE Rows --------------------------------
(***************************************************************************)
(* What processes of different versions store in tables they migrate.  A   *)
(* write names the columns of the version of its process and no others; a  *)
(* column added to a table has no default.  So a row holds a value in some *)
(* of the columns of its table and NULL in the rest, and a variable of Go  *)
(* that is not a pointer, which is what rows are scanned into, cannot hold *)
(* NULL.                                                                   *)
(*                                                                         *)
(* A request verifies the tables of its root (Schema), and then reads or   *)
(* writes them under the same hold of mtx, in one transaction.  A          *)
(* transaction that fails leaves the rows as they were.                    *)
(***************************************************************************)
EXTENDS Schema

CONSTANT Key  \* primary keys of the objects, whatever their root

VARIABLE rows  \* rows[t][k]: the columns of the row of k in t that hold a value

Stored == UNION {[ks -> SUBSET Column] : ks \in SUBSET Key}

\* Fault: a request takes its tables for verified.
ReadyAnyway(p, root) == Now(p, "idle")

\* The root of a request whose tables have been verified.
Ready(p, root) == Now(p, "idle") /\ root \subseteq verifyed[p]

\* RowValues: the columns of a row that get a value other than NULL, of an
\* object whose fields set are not zero.  PATCH leaves zero values out.
RowValues(p, t, op, set) == IF op = "PATCH" THEN Attrs[p][t] \cap set ELSE Attrs[p][t]

\* The row of k in t after cols have been assigned to: the others keep theirs.
RowWith(t, k, cols) == cols \cup IF k \in DOMAIN rows[t] THEN rows[t][k] ELSE {}

\* The tables after rows of k are written to those in some.
Assigned(p, some, k, op, set) ==
    [t \in Table |->
        IF t \notin some THEN rows[t]
        ELSE [j \in DOMAIN rows[t] \cup {k} |->
                 IF j = k THEN RowWith(t, k, RowValues(p, t, op, set)) ELSE rows[t][j]]]

\* insert into ... ON CONFLICT DO UPDATE SET, for POST and PUT, of an object
\* that has rows in some of the tables.
Insert(p, root, k) ==
    /\ Ready(p, root)
    /\ \E some \in SUBSET root : rows' = Assigned(p, some, k, "POST", {})

\* Fault: PATCH is an upsert, too.
UpdateUpserts(p, root, k) ==
    /\ Ready(p, root)
    /\ \E some \in SUBSET root, set \in SUBSET Column :
          rows' = Assigned(p, some, k, "PATCH", set)

\* UPDATE ... SET c = COALESCE($n, c), for PATCH: a row that is not there is not
\* made.
Update(p, root, k) ==
    /\ Ready(p, root)
    /\ \E some \in SUBSET {t \in root : k \in DOMAIN rows[t]}, set \in SUBSET Column :
          rows' = Assigned(p, some, k, "PATCH", set)

\* DeleteRelational does not verify its tables; without them it fails.
DeleteRow(p, root, k) ==
    /\ Now(p, "idle") /\ root \subseteq tables
    /\ rows' = [t \in Table |->
                   IF t \notin root THEN rows[t]
                   ELSE [j \in DOMAIN rows[t] \ {k} |-> rows[t][j]]]

\* A read of the columns cols of t: readRows fails on the first row with a
\* NULL among them.  Of the table of the root the rows the criteria select are
\* read, of the other tables every row.
Scans(t, ks, cols) == \A k \in ks \cap DOMAIN rows[t] : cols \subseteq rows[t][k]

Write(p) ==
    /\ \E root \in Roots, k \in Key :
          Insert(p, root, k) \/ Update(p, root, k) \/ DeleteRow(p, root, k)
    /\ UNCHANGED vars

RowsInit == Init /\ rows = [t \in Table |-> <<>>]
RowsNext ==
    \/ Next /\ UNCHANGED rows
    \/ \E p \in Process : Write(p)
RowsSpec == RowsInit /\ [][RowsNext]_<<vars, rows>> /\ Fairness

-----------------------------------------------------------------------------
(* Properties                                                              *)

\* A row is in a table that exists, in columns the table has.
RowsTypeOK ==
    /\ rows \in [Table -> Stored]
    /\ \A t \in Table : DOMAIN rows[t] # {} => t \in tables
    /\ \A t \in Table : \A k \in DOMAIN rows[t] : rows[t][k] \subseteq live[t]

\* While versions differ, what all of them have in common can be read from
\* every row, whoever created the table, migrated it, and wrote and patched the
\* row in whatever order: a NULL is only where some version has no column.
CommonColumnsAreReadable ==
    \A t \in Table :
        Scans(t, Key, {c \in Column : \A p \in Process : c \in Attrs[p][t]})

\* A read returns the matching elements (common/IORM.go:33), those too that a
\* migration "preserved and the new column is NULL for them"
\* (plans/postgres-schema-migration.md:122).  It does not: rows from before the
\* migration, and those an older process inserts after it, hold NULL in the new
\* columns, and Row fails on them, whatever else the query selects.
VerifiedTablesAreReadable ==
    \A p \in Process : \A t \in verifyed[p] : Scans(t, Key, Attrs[p][t])
=============================================================================
