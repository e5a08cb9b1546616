---------------------------- MODULE Projections -----------------------------
(***************************************************************************)
(* Queries that select some properties only: the tables and columns they   *)
(* ask for, the SELECT statement of each table, and what comes of reading. *)
(* A property is a column of a type; of the types nested in the root each  *)
(* is a table of its own.                                                  *)
(***************************************************************************)
EXTENDS Integers, Sequences, FiniteSets

CONSTANTS
    Type,    \* types: the root and those nested in it
    Root,    \* the root type
    Path,    \* Path[t]: the types from the one below the root to t
    Name     \* names of columns

ASSUME TypeAssumption ==
    /\ IsFiniteSet(Name)
    /\ Root \in Type /\ Path \in [Type -> Seq(Type \ {Root})] /\ Path[Root] = <<>>
    /\ \A t \in Type \ {Root} : Path[t] # <<>> /\ Path[t][Len(Path[t])] = t

Property == [type : Type, name : Name]

-----------------------------------------------------------------------------
NoTable == [there |-> FALSE, columns |-> <<>>]
NewTable == [there |-> TRUE, columns |-> <<>>]

\* Fault: positions are counted from 0.
addColumnFrom0(columns, name) ==
    [n \in DOMAIN columns \cup {name} |-> IF n = name THEN Cardinality(DOMAIN columns) ELSE columns[n]]

\* addColumn: the column after those there are.  The columns of a table map
\* names to positions.
addColumn(columns, name) ==
    [n \in DOMAIN columns \cup {name} |->
        IF n = name THEN Cardinality(DOMAIN columns) + 1 ELSE columns[n]]

\* addTable for the properties of a query.  Those of the root first, in their
\* order; then each of the others, which makes the tables on its way anew.
Tables(props) ==
    LET added[i \in 0..Len(props)] ==
            IF i = 0 THEN [t \in Type |-> IF t = Root THEN NewTable ELSE NoTable]
            ELSE IF props[i].type # Root THEN added[i - 1]
            ELSE [added[i - 1] EXCEPT ![Root].columns = addColumn(@, props[i].name)]
        nested[i \in 0..Len(props)] ==
            IF i = 0 THEN added[Len(props)]
            ELSE [t \in Type |->
                    IF props[i].type = Root \/ \A k \in DOMAIN Path[props[i].type] :
                                                   Path[props[i].type][k] # t
                    THEN nested[i - 1][t]
                    ELSE IF t # props[i].type THEN NewTable
                    ELSE [NewTable EXCEPT !.columns = addColumn(@, props[i].name)]]
    IN  nested[Len(props)]

\* Query2Sql writes a comma for every property, and the name of those that are
\* columns of the table: a comma without a name is refused by the database.
CommaTooMany(props, t) == \E i \in DOMAIN props : props[i].type # t

\* Statement.fields: the columns of the table that are read, in order.
Fields(props, t) ==
    LET first[i \in 0..Len(props)] ==
            IF i = 0 THEN <<>>
            ELSE IF props[i].type = t THEN Append(first[i - 1], props[i]) ELSE first[i - 1]
    IN  first[Len(props)]

\* A table none of whose columns is asked for has no statement and is passed by.
Selected(props) ==
    {t \in Type : Tables(props)[t].there /\ Fields(props, t) # <<>>}

\* Row puts each of the fields read at the position of its column, 0 if it has
\* none, after which a later field at that position overwrites it.  For each
\* column asked for, the field whose values it shows.
Shown(columns, t, fields) ==
    LET position(name) == IF name \in DOMAIN columns THEN columns[name] ELSE 0
        at(name) == {i \in DOMAIN fields : position(fields[i]) = columns[name]}
    IN  {[type |-> t, name |-> n, from |-> fields[CHOOSE i \in at(n) : \A j \in at(n) : j <= i]] :
            n \in DOMAIN columns}

ShownOf(props, t) ==
    LET names == [i \in DOMAIN Fields(props, t) |-> Fields(props, t)[i].name]
    IN  Shown(Tables(props)[t].columns, t, names)

\* readRelational.  With no statement for the root there is none to ask for the
\* number of records, and that panics; a refused statement is an error.
Reading(props) ==
    IF \E t \in Selected(props) : CommaTooMany(props, t) THEN [ends |-> "error"]
    ELSE IF Root \notin Selected(props) THEN [ends |-> "panic"]
    ELSE [ends |-> "rows", shown |-> UNION {ShownOf(props, t) : t \in Selected(props)}]

\* readByRecKeys, for a page.  The rows of the root are read with all its fields,
\* in the order of a map; those of the other types as above.  An object is made
\* from the root down, so rows show only if those of all types above them do.
ReadingPage(props, fields) ==
    LET nested == Selected(props) \ {Root}
        reached == {t \in nested : \A k \in DOMAIN Path[t] : Path[t][k] \in nested}
    IN  IF \E t \in nested : CommaTooMany(props, t) THEN [ends |-> "error"]
        ELSE [ends |-> "rows",
              shown |-> Shown(Tables(props)[Root].columns, Root, fields) \cup
                        UNION {ShownOf(props, t) : t \in reached}]

-----------------------------------------------------------------------------
(* Properties                                                              *)

Distinct(props) == \A i, j \in DOMAIN props : props[i] = props[j] => i = j

\* The properties at some positions, each from its own column.
OwnColumns(props, at) ==
    {[type |-> props[i].type, name |-> props[i].name, from |-> props[i].name] : i \in at}

\* A query for different properties that is answered is answered with each of
\* them, from its own column; one of properties of the root alone is answered
\* (addTable, Query2Sql, readRelational).
ProjectionsAreWhole(props) ==
    Distinct(props) =>
        /\ Reading(props).ends = "rows" => Reading(props).shown = OwnColumns(props, DOMAIN props)
        /\ (\A i \in DOMAIN props : props[i].type = Root) => Reading(props).ends = "rows"

\* What a page shows comes from its own column too, in whatever order the fields
\* of the root are read.  What it lacks without a sign are properties below a type
\* of which none is asked for, and of the properties of one nested type all but
\* the last.  It is answered if the properties are of one type, nested or not
\* (addTable, Statement.Row, readByRecKeys).
PagesShowProjections(props, fields) ==
    LET page == ReadingPage(props, fields)
        types == {props[i].type : i \in DOMAIN props}
        lost == {i \in DOMAIN props :
                    \/ \E k \in DOMAIN Path[props[i].type] : Path[props[i].type][k] \notin types
                    \/ props[i].type # Root /\ \E j \in DOMAIN props : j > i /\ props[j].type = props[i].type}
    IN  Distinct(props) =>
        /\ page.ends = "rows" => page.shown = OwnColumns(props, DOMAIN props \ lost)
        /\ Cardinality(types) = 1 => page.ends = "rows"
=============================================================================
