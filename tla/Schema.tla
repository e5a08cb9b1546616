------------------------------- MODULE Schema -------------------------------
(***************************************************************************)
(* The tables of the types in PostgreSQL, which several processes create   *)
(* and migrate.  Before it reads or writes, a call verifies the tables of  *)
(* its root type; a table found in order is remembered in verifyed and not *)
(* looked at again.  A call holds Postgres.mtx from before verifyTables to *)
(* its end, so a process verifies for one call at a time, and the state of *)
(* that call is the state of the process.                                  *)
(*                                                                         *)
(* Processes may run different versions of a type.  Every statement is a   *)
(* transaction of its own.  It may fail, its reply may be lost, and the    *)
(* process may die; MaxFaults bounds how often.  The variable forgotten is *)
(* history: no step of the code reads it.                                  *)
(***************************************************************************)
EXTENDS Naturals, FiniteSets

CONSTANTS
    Process,   \* processes
    Table,     \* types, each with a table of its own
    Column,    \* attributes of the types that become columns
    NonUnique, \* those decorated as non-unique, which get an index
    Attrs,     \* Attrs[p][t]: the columns of t in the version process p runs
    Roots,     \* the sets of tables collectTables finds under a root type
    MaxFaults, \* bound: failures, lost replies and restarts
    None       \* no table

ASSUME SchemaAssumption ==
    /\ NonUnique \subseteq Column
    /\ Attrs \in [Process -> [Table -> SUBSET Column]]
    /\ Roots \subseteq SUBSET Table
    /\ MaxFaults \in Nat
    /\ None \notin Table

VARIABLES
    tables,    \* the tables that exist
    live,      \* live[t]: the columns of t
    idx,       \* idx[t]: the columns of t with an index
    verifyed,  \* verifyed[p]: the tables p need not look at again
    call,      \* call[p]: the call of p that holds mtx
    forgotten, \* forgotten[t]: columns whose maker ended before their index
    faults     \* how many faults there were

db == <<tables, live, idx>>
vars == <<tables, live, idx, verifyed, call, forgotten, faults>>

-----------------------------------------------------------------------------
\* A call: the tables still to verify, the one it is at, the columns it has
\* yet to add to it and the columns it has added and has yet to index.
Idle == [pc |-> "idle", todo |-> {}, table |-> None, missing |-> {}, index |-> {}]

Init ==
    /\ tables = {}
    /\ live = [t \in Table |-> {}]
    /\ idx = [t \in Table |-> {}]
    /\ verifyed = [p \in Process |-> {}]
    /\ call = [p \in Process |-> Idle]
    /\ forgotten = [t \in Table |-> {}]
    /\ faults = 0

Fault == faults < MaxFaults /\ faults' = faults + 1
NoFault == UNCHANGED faults

Now(p, pc) == call[p].pc = pc
Cols(p) == Attrs[p][call[p].table]

\* The call goes on with its table: columns first, then indexes.  With none
\* left the table is verified, and with no table left verifyTables returns.
Proceed(p, missing, index) ==
    LET rest == call[p].todo \ {call[p].table}
        done == missing \cup index = {}
    IN  /\ call' = [call EXCEPT ![p] =
                 IF ~done THEN [@ EXCEPT !.pc = IF missing # {} THEN "alter" ELSE "index",
                                         !.missing = missing, !.index = index]
                 ELSE IF rest # {} THEN [Idle EXCEPT !.pc = "verify", !.todo = rest]
                 ELSE Idle]
        /\ verifyed' = IF done THEN [verifyed EXCEPT ![p] = @ \cup {call[p].table}]
                       ELSE verifyed
        /\ UNCHANGED forgotten

\* The call ends with an error, and with it what it had yet to do.
Abandon(p, index) ==
    /\ call' = [call EXCEPT ![p] = Idle]
    /\ forgotten' = [t \in Table |->
                        IF t = call[p].table THEN forgotten[t] \cup index ELSE forgotten[t]]

\* A statement has taken effect, and its reply arrives or is lost.
Answered(p, missing, index) ==
    \/ Proceed(p, missing, index) /\ NoFault
    \/ Abandon(p, index) /\ Fault /\ UNCHANGED verifyed

Refused(p) == Abandon(p, call[p].index) /\ NoFault /\ UNCHANGED verifyed

-----------------------------------------------------------------------------
\* A call takes mtx.  The tables in verifyed take no statement.
verifyTables(p) ==
    /\ Now(p, "idle")
    /\ \E root \in Roots :
          /\ root \ verifyed[p] # {}
          /\ call' = [call EXCEPT ![p] = [Idle EXCEPT !.pc = "verify",
                                                      !.todo = root \ verifyed[p]]]
    /\ NoFault /\ UNCHANGED <<db, verifyed, forgotten>>

\* Fault: a table that is not in verifyed is taken for missing.
verifyTableCreates(p) ==
    /\ Now(p, "verify")
    /\ \E t \in call[p].todo :
          call' = [call EXCEPT ![p].table = t, ![p].pc = "create"]
    /\ NoFault /\ UNCHANGED <<db, verifyed, forgotten>>

\* Fault: any answer of the test query is taken for a table that exists.
verifyTableMigrates(p) ==
    /\ Now(p, "verify")
    /\ \E t \in call[p].todo :
          call' = [call EXCEPT ![p].table = t, ![p].pc = "columns"]
    /\ NoFault /\ UNCHANGED <<db, verifyed, forgotten>>

\* select * from t where false, of the next table: the order is that of a Go
\* map, which is any.
verifyTable(p) ==
    /\ Now(p, "verify")
    /\ \E t \in call[p].todo :
          call' = [call EXCEPT ![p].table = t,
                               ![p].pc = IF t \in tables THEN "columns" ELSE "create"]
    /\ NoFault /\ UNCHANGED <<db, verifyed, forgotten>>

\* Fault: a table that another process has created meanwhile is in order.
createTableIfNotExists(p) ==
    LET t == call[p].table
    IN  /\ Now(p, "create")
        /\ IF t \in tables
           THEN Proceed(p, {}, {}) /\ NoFault /\ UNCHANGED db
           ELSE /\ tables' = tables \cup {t}
                /\ live' = [live EXCEPT ![t] = Cols(p)]
                /\ UNCHANGED idx
                /\ Answered(p, {}, Cols(p) \cap NonUnique)

\* create table: refused when another process has made it meanwhile.
createTable(p) ==
    LET t == call[p].table
    IN  /\ Now(p, "create")
        /\ IF t \in tables
           THEN Refused(p) /\ UNCHANGED db
           ELSE /\ tables' = tables \cup {t}
                /\ live' = [live EXCEPT ![t] = Cols(p)]
                /\ UNCHANGED idx
                /\ Answered(p, {}, Cols(p) \cap NonUnique)

\* The columns the table has.  When the connection breaks between two rows,
\* rows.Next ends the loop, and some columns that exist count as missing.
migrateTable(p) ==
    LET t == call[p].table
    IN  /\ Now(p, "columns")
        /\ \/ Proceed(p, Cols(p) \ live[t], {}) /\ NoFault
           \/ \E seen \in SUBSET live[t] \ {live[t]} :
                 Proceed(p, Cols(p) \ seen, {}) /\ Fault
        /\ UNCHANGED db

\* Fault: only the column added last is kept in missingSet.
AddColumnKeepsLast(p) ==
    LET t == call[p].table
    IN  /\ Now(p, "alter")
        /\ \E c \in call[p].missing :
              IF c \in live[t] THEN Refused(p) /\ UNCHANGED db
              ELSE /\ live' = [live EXCEPT ![t] = @ \cup {c}]
                   /\ UNCHANGED <<tables, idx>>
                   /\ Answered(p, call[p].missing \ {c}, {c} \cap NonUnique)

\* ALTER TABLE t ADD COLUMN c: refused when the column exists.
AddColumn(p) ==
    LET t == call[p].table
    IN  /\ Now(p, "alter")
        /\ \E c \in call[p].missing :
              IF c \in live[t] THEN Refused(p) /\ UNCHANGED db
              ELSE /\ live' = [live EXCEPT ![t] = @ \cup {c}]
                   /\ UNCHANGED <<tables, idx>>
                   /\ Answered(p, call[p].missing \ {c},
                               call[p].index \cup ({c} \cap NonUnique))

\* CREATE INDEX, with or without IF NOT EXISTS: MissingIndexesAreAccountedFor
\* says that neither meets an index that exists.
CreateIndex(p) ==
    LET t == call[p].table
    IN  /\ Now(p, "index")
        /\ \E c \in call[p].index :
              /\ idx' = [idx EXCEPT ![t] = @ \cup {c}]
              /\ Answered(p, {}, call[p].index \ {c})
        /\ UNCHANGED <<tables, live>>

\* A statement fails without effect.
StatementFails(p) ==
    /\ ~Now(p, "idle")
    /\ Abandon(p, call[p].index) /\ Fault
    /\ UNCHANGED <<db, verifyed>>

\* The process dies and starts again: NewPostgres knows of no table.
Restart(p) ==
    /\ Abandon(p, call[p].index) /\ Fault
    /\ verifyed' = [verifyed EXCEPT ![p] = {}]
    /\ UNCHANGED db

\* What a call does by itself once it has begun.
Step(p) ==
    \/ verifyTable(p) \/ createTable(p) \/ migrateTable(p)
    \/ AddColumn(p) \/ CreateIndex(p)

Next ==
    \E p \in Process : verifyTables(p) \/ Step(p) \/ StatementFails(p) \/ Restart(p)

\* A goroutine that has begun goes on, and the database answers.  Nothing
\* obliges a caller to call.
Fairness == \A p \in Process : WF_vars(Step(p))

Spec == Init /\ [][Next]_vars /\ Fairness

-----------------------------------------------------------------------------
(* Properties                                                              *)

Call == [pc : {"idle", "verify", "create", "columns", "alter", "index"},
         todo : SUBSET Table, table : Table \cup {None},
         missing : SUBSET Column, index : SUBSET Column]

\* The tables and the calls have their types, a call that is at a table has
\* it to verify, and a table that does not exist has no column.
TypeOK ==
    /\ tables \subseteq Table
    /\ live \in [Table -> SUBSET Column]
    /\ idx \in [Table -> SUBSET Column]
    /\ verifyed \in [Process -> SUBSET Table]
    /\ call \in [Process -> Call]
    /\ forgotten \in [Table -> SUBSET Column]
    /\ faults \in 0..MaxFaults
    /\ \A p \in Process :
          call[p].pc \in {"create", "columns", "alter", "index"} =>
              call[p].table \in call[p].todo
    /\ \A t \in Table \ tables : live[t] = {}

\* A table that a process takes for verified exists with every column of the
\* version the process runs, whoever made it and whatever failed: statements
\* that name those columns are never refused for it (verifyTables).
VerifiedTablesHaveColumns ==
    \A p \in Process : \A t \in verifyed[p] :
        t \in tables /\ Attrs[p][t] \subseteq live[t]

\* What a call has added and not indexed yet.
Owed(p, t) == IF call[p].table = t THEN call[p].index ELSE {}

\* A decorated column without an index is one whose own maker is still at it
\* or ended early, and no index is made twice, by whichever processes create
\* and migrate the table (createTable, migrateTable).
MissingIndexesAreAccountedFor ==
    \A t \in Table :
        LET owed == UNION {Owed(p, t) : p \in Process}
        IN  /\ live[t] \cap NonUnique = idx[t] \cup forgotten[t] \cup owed
            /\ idx[t] \cap owed = {}
            /\ \A p, q \in Process : p # q => Owed(p, t) \cap Owed(q, t) = {}

\* Processes that refuse each other's statements do not do so for ever: once
\* faults have ended, each table is verified or no longer asked for, since a
\* refusal means that another process has gone on (createTable, AddColumn).
VerificationSettles ==
    \A p \in Process, t \in Table : <>[](t \notin call[p].todo)

=============================================================================
