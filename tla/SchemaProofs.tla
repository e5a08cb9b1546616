---------------------------- MODULE SchemaProofs ----------------------------
(***************************************************************************)
(* For any processes, versions, tables and number of faults: what a        *)
(* process takes for verified has its columns, and every decorated column  *)
(* without an index has a maker that is still at it or ended early.  Rows  *)
(* are in tables and columns that exist, and what all versions have in     *)
(* common can be read from every row.                                      *)
(*                                                                         *)
(* Every step ends in Proceed or in Abandon, after it has changed the      *)
(* database or not.  So the lemmas say what each of the two keeps, given   *)
(* what the step did to the database, and an action has only to show that. *)
(* Rows are only written by a process that has verified their tables, and  *)
(* what it has verified has its columns.  Tables and columns never go      *)
(* away, and no write takes a value from a column that has one, so what a  *)
(* row was once enough for it stays enough for.                            *)
(***************************************************************************)
EXTENDS Rows, TLAPS

-----------------------------------------------------------------------------
(* The inductive invariant                                                 *)

\* A call past the test of its table has found or made it, and what it does
\* not count as missing is there.
CallsHaveColumns ==
    \A p \in Process :
        /\ call[p].pc \in {"columns", "alter", "index"} => call[p].table \in tables
        /\ call[p].pc \in {"alter", "index"} => Cols(p) \ call[p].missing \subseteq live[call[p].table]
        /\ call[p].pc = "index" => call[p].missing = {}

\* A call owes indexes only while it adds columns or makes indexes.
CallsOweInPlace ==
    \A p \in Process : call[p].pc \notin {"alter", "index"} => call[p].index = {}

ColumnInv ==
    /\ TypeOK
    /\ VerifiedTablesHaveColumns
    /\ CallsHaveColumns
    /\ CallsOweInPlace

\* A step of the database: tables and columns are only added.
DbGrows ==
    /\ tables \subseteq tables' /\ tables' \subseteq Table
    /\ live' \in [Table -> SUBSET Column]
    /\ idx' \in [Table -> SUBSET Column]
    /\ \A t \in Table : live[t] \subseteq live'[t]
    /\ \A t \in Table \ tables' : live'[t] = {}

LEMMA DbStays == ASSUME TypeOK, UNCHANGED db PROVE DbGrows
BY DEF TypeOK, db, DbGrows

LEMMA FaultType ==
    ASSUME TypeOK, Fault \/ NoFault
    PROVE  faults' \in 0..MaxFaults
BY SchemaAssumption DEF TypeOK, Fault, NoFault

LEMMA IdleType == Idle \in Call
BY DEF Idle, Call

\* A call that is past its choice of a table is at a table of its types.
LEMMA AtTable ==
    ASSUME TypeOK, NEW p \in Process, call[p].pc \in {"create", "columns", "alter", "index"}
    PROVE  /\ call[p].table \in Table /\ call[p].table \in call[p].todo
           /\ Cols(p) \in SUBSET Column
<1>1. call[p] \in Call
    BY DEF TypeOK
<1>2. call[p].table \in call[p].todo /\ call[p].todo \subseteq Table
    BY <1>1 DEF TypeOK, Call
<1>. QED BY <1>2, SchemaAssumption DEF Cols

\* What Proceed keeps, when the columns not missing are in the database.
LEMMA ProceedKeeps ==
    ASSUME ColumnInv, NEW p \in Process, DbGrows, faults' \in 0..MaxFaults,
           call[p].pc \in {"create", "columns", "alter", "index"},
           NEW missing \in SUBSET Column, NEW index \in SUBSET Column,
           call[p].table \in tables', Cols(p) \ missing \subseteq live'[call[p].table],
           Proceed(p, missing, index)
    PROVE  ColumnInv'
<1>. DEFINE t == call[p].table
            rest == call[p].todo \ {t}
            done == missing \cup index = {}
            on == [call[p] EXCEPT !.pc = IF missing # {} THEN "alter" ELSE "index",
                                  !.missing = missing, !.index = index]
            next == IF ~done THEN on
                    ELSE IF rest # {} THEN [Idle EXCEPT !.pc = "verify", !.todo = rest]
                    ELSE Idle
<1>1. /\ call' = [call EXCEPT ![p] = next]
      /\ verifyed' = IF done THEN [verifyed EXCEPT ![p] = @ \cup {t}] ELSE verifyed
      /\ forgotten' = forgotten
    BY DEF Proceed
<1>2. TypeOK /\ call[p] \in Call /\ t \in Table /\ t \in call[p].todo
    BY AtTable DEF ColumnInv, TypeOK
<1>3. CASE ~done
    <2>1. /\ on \in Call /\ on.table = t /\ on.todo = call[p].todo
          /\ on.pc = (IF missing # {} THEN "alter" ELSE "index")
          /\ on.missing = missing /\ on.index = index
        BY <1>2 DEF Call
    <2>2. /\ \A q \in Process : call'[q] = IF q = p THEN on ELSE call[q]
          /\ call' \in [Process -> Call]
        BY <1>1, <1>2, <1>3, <2>1 DEF TypeOK
    <2>3. verifyed' = verifyed
        BY <1>1, <1>3
    <2>. HIDE DEF on, next
    <2>4. TypeOK'
        BY <1>1, <1>2, <2>1, <2>2, <2>3 DEF TypeOK, DbGrows
    <2>5. VerifiedTablesHaveColumns'
        BY <1>2, <2>3 DEF ColumnInv, VerifiedTablesHaveColumns, DbGrows, TypeOK
    <2>6. CallsHaveColumns' /\ CallsOweInPlace'
        <3>. SUFFICES ASSUME NEW q \in Process
                      PROVE  /\ call'[q].pc \in {"columns", "alter", "index"} => call'[q].table \in tables'
                             /\ call'[q].pc \in {"alter", "index"} =>
                                    Attrs[q][call'[q].table] \ call'[q].missing \subseteq live'[call'[q].table]
                             /\ call'[q].pc = "index" => call'[q].missing = {}
                             /\ call'[q].pc \notin {"alter", "index"} => call'[q].index = {}
            BY DEF CallsHaveColumns, CallsOweInPlace, Cols
        <3>1. CASE q = p
            BY <2>1, <2>2, <3>1 DEF Cols
        <3>2. CASE q # p
            <4>1. call'[q] = call[q]
                BY <2>2, <3>2
            <4>2. call[q].pc \in {"columns", "alter", "index"} =>
                      call[q].table \in Table /\ live[call[q].table] \subseteq live'[call[q].table]
                BY <1>2, AtTable DEF DbGrows
            <4>. QED BY <4>1, <4>2 DEF ColumnInv, CallsHaveColumns, CallsOweInPlace, Cols, DbGrows
        <3>. QED BY <3>1, <3>2
    <2>. QED BY <2>4, <2>5, <2>6 DEF ColumnInv
<1>4. CASE done
    <2>1. /\ next \in Call /\ next.pc \in {"idle", "verify"} /\ next.index = {}
        BY <1>2, <1>4 DEF Call, Idle
    <2>2. /\ \A q \in Process : call'[q] = IF q = p THEN next ELSE call[q]
          /\ call' \in [Process -> Call]
        BY <1>1, <1>2, <2>1 DEF TypeOK
    <2>3. /\ \A q \in Process : verifyed'[q] = IF q = p THEN verifyed[p] \cup {t} ELSE verifyed[q]
          /\ verifyed' \in [Process -> SUBSET Table]
        BY <1>1, <1>2, <1>4 DEF TypeOK
    <2>. HIDE DEF next
    <2>4. TypeOK'
        BY <1>1, <1>2, <2>1, <2>2, <2>3 DEF TypeOK, DbGrows
    <2>5. VerifiedTablesHaveColumns'
        <3>. SUFFICES ASSUME NEW q \in Process, NEW u \in verifyed'[q]
                      PROVE  u \in tables' /\ Attrs[q][u] \subseteq live'[u]
            BY DEF VerifiedTablesHaveColumns
        <3>1. CASE u \in verifyed[q]
            BY <1>2, <3>1 DEF ColumnInv, VerifiedTablesHaveColumns, DbGrows, TypeOK
        <3>2. CASE u \notin verifyed[q]
            BY <1>4, <2>3, <3>2 DEF Cols
        <3>. QED BY <3>1, <3>2
    <2>6. CallsHaveColumns' /\ CallsOweInPlace'
        <3>. SUFFICES ASSUME NEW q \in Process
                      PROVE  /\ call'[q].pc \in {"columns", "alter", "index"} => call'[q].table \in tables'
                             /\ call'[q].pc \in {"alter", "index"} =>
                                    Attrs[q][call'[q].table] \ call'[q].missing \subseteq live'[call'[q].table]
                             /\ call'[q].pc = "index" => call'[q].missing = {}
                             /\ call'[q].pc \notin {"alter", "index"} => call'[q].index = {}
            BY DEF CallsHaveColumns, CallsOweInPlace, Cols
        <3>1. CASE q = p
            BY <2>1, <2>2, <3>1
        <3>2. CASE q # p
            <4>1. call'[q] = call[q]
                BY <2>2, <3>2
            <4>2. call[q].pc \in {"columns", "alter", "index"} =>
                      call[q].table \in Table /\ live[call[q].table] \subseteq live'[call[q].table]
                BY <1>2, AtTable DEF DbGrows
            <4>. QED BY <4>1, <4>2 DEF ColumnInv, CallsHaveColumns, CallsOweInPlace, Cols, DbGrows
        <3>. QED BY <3>1, <3>2
    <2>. QED BY <2>4, <2>5, <2>6 DEF ColumnInv
<1>. QED BY <1>3, <1>4

\* What Abandon keeps, with verifyed as it was or emptied for one process.
LEMMA AbandonKeeps ==
    ASSUME ColumnInv, NEW p \in Process, DbGrows, faults' \in 0..MaxFaults,
           NEW index \in SUBSET Column, Abandon(p, index),
           verifyed' = verifyed \/ verifyed' = [verifyed EXCEPT ![p] = {}]
    PROVE  ColumnInv'
<1>1. TypeOK
    BY DEF ColumnInv
<1>2. /\ \A q \in Process : call'[q] = IF q = p THEN Idle ELSE call[q]
      /\ call' \in [Process -> Call]
      /\ forgotten' \in [Table -> SUBSET Column]
    BY <1>1, IdleType DEF TypeOK, Abandon
<1>3. /\ \A q \in Process : verifyed'[q] \subseteq verifyed[q]
      /\ verifyed' \in [Process -> SUBSET Table]
    BY <1>1 DEF TypeOK
<1>4. TypeOK'
    BY <1>1, <1>2, <1>3 DEF TypeOK, DbGrows, Idle
<1>5. VerifiedTablesHaveColumns'
    BY <1>1, <1>3 DEF ColumnInv, VerifiedTablesHaveColumns, DbGrows, TypeOK
<1>6. CallsHaveColumns' /\ CallsOweInPlace'
    <2>. SUFFICES ASSUME NEW q \in Process
                  PROVE  /\ call'[q].pc \in {"columns", "alter", "index"} => call'[q].table \in tables'
                         /\ call'[q].pc \in {"alter", "index"} =>
                                Attrs[q][call'[q].table] \ call'[q].missing \subseteq live'[call'[q].table]
                         /\ call'[q].pc = "index" => call'[q].missing = {}
                         /\ call'[q].pc \notin {"alter", "index"} => call'[q].index = {}
        BY DEF CallsHaveColumns, CallsOweInPlace, Cols
    <2>1. CASE q = p
        BY <1>2, <2>1 DEF Idle
    <2>2. CASE q # p
        <3>1. call[q].pc \in {"columns", "alter", "index"} =>
                  call[q].table \in Table /\ live[call[q].table] \subseteq live'[call[q].table]
            BY <1>1, AtTable DEF DbGrows
        <3>. QED BY <1>2, <2>2, <3>1 DEF ColumnInv, CallsHaveColumns, CallsOweInPlace, Cols, DbGrows
    <2>. QED BY <2>1, <2>2
<1>. QED BY <1>4, <1>5, <1>6 DEF ColumnInv

\* What a call that takes the next step without a statement of the database's
\* own making keeps: it begins, or has tested a table.
LEMMA MoveKeeps ==
    ASSUME ColumnInv, NEW p \in Process, NEW new \in Call,
           new.pc \in {"verify", "create", "columns"}, new.index = {},
           new.pc # "verify" => new.table \in new.todo,
           new.pc = "columns" => new.table \in tables,
           call' = [call EXCEPT ![p] = new], NoFault,
           UNCHANGED <<db, verifyed, forgotten>>
    PROVE  ColumnInv'
<1>1. TypeOK
    BY DEF ColumnInv
<1>2. /\ \A q \in Process : call'[q] = IF q = p THEN new ELSE call[q]
      /\ call' \in [Process -> Call]
    BY <1>1 DEF TypeOK
<1>3. TypeOK'
    BY <1>1, <1>2 DEF TypeOK, NoFault, db
<1>4. VerifiedTablesHaveColumns'
    BY DEF ColumnInv, VerifiedTablesHaveColumns, db
<1>5. CallsHaveColumns' /\ CallsOweInPlace'
    BY <1>2 DEF ColumnInv, CallsHaveColumns, CallsOweInPlace, Cols, db
<1>. QED BY <1>3, <1>4, <1>5 DEF ColumnInv

\* What a statement that took effect keeps, whether or not its reply arrives.
LEMMA AnsweredKeeps ==
    ASSUME ColumnInv, NEW p \in Process, DbGrows,
           call[p].pc \in {"create", "columns", "alter", "index"},
           NEW missing \in SUBSET Column, NEW index \in SUBSET Column,
           call[p].table \in tables', Cols(p) \ missing \subseteq live'[call[p].table],
           Answered(p, missing, index)
    PROVE  ColumnInv'
<1>1. faults' \in 0..MaxFaults
    BY FaultType DEF ColumnInv, Answered
<1>. QED BY <1>1, ProceedKeeps, AbandonKeeps DEF Answered

LEMMA RefusedKeeps ==
    ASSUME ColumnInv, NEW p \in Process, UNCHANGED db, Refused(p)
    PROVE  ColumnInv'
<1>1. DbGrows /\ faults' \in 0..MaxFaults
    BY DbStays, FaultType DEF ColumnInv, Refused
<1>2. call[p].index \in SUBSET Column
    BY DEF ColumnInv, TypeOK, Call
<1>. QED BY <1>1, <1>2, AbandonKeeps DEF Refused

-----------------------------------------------------------------------------
(* The actions                                                             *)

LEMMA VerifyKeeps ==
    ASSUME ColumnInv, NEW p \in Process, verifyTables(p) \/ verifyTable(p)
    PROVE  ColumnInv'
<1>1. call[p] \in Call
    BY DEF ColumnInv, TypeOK
<1>2. CASE verifyTables(p)
    <2>1. PICK root \in Roots :
              call' = [call EXCEPT ![p] = [Idle EXCEPT !.pc = "verify",
                                                       !.todo = root \ verifyed[p]]]
        BY <1>2 DEF verifyTables
    <2>. DEFINE new == [Idle EXCEPT !.pc = "verify", !.todo = root \ verifyed[p]]
    <2>2. root \ verifyed[p] \in SUBSET Table
        BY SchemaAssumption
    <2>3. new \in Call /\ new.pc = "verify" /\ new.index = {}
        BY <2>2 DEF Idle, Call
    <2>4. NoFault /\ UNCHANGED <<db, verifyed, forgotten>>
        BY <1>2 DEF verifyTables
    <2>. HIDE DEF new
    <2>5. call' = [call EXCEPT ![p] = new]
        BY <2>1 DEF new
    <2>. QED BY <2>3, <2>4, <2>5, MoveKeeps
<1>3. CASE verifyTable(p)
    <2>1. PICK t \in call[p].todo :
              call' = [call EXCEPT ![p].table = t,
                                   ![p].pc = IF t \in tables THEN "columns" ELSE "create"]
        BY <1>3 DEF verifyTable
    <2>. DEFINE pc == IF t \in tables THEN "columns" ELSE "create"
                new == [call[p] EXCEPT !.table = t, !.pc = pc]
    <2>2. t \in Table
        BY <1>1 DEF Call
    <2>3. /\ new \in Call /\ new.table = t /\ new.todo = call[p].todo
          /\ new.index = call[p].index /\ new.pc = pc
        BY <1>1, <2>2 DEF Call
    <2>4. call[p].index = {}
        BY <1>3 DEF ColumnInv, CallsOweInPlace, verifyTable, Now
    <2>5. NoFault /\ UNCHANGED <<db, verifyed, forgotten>>
        BY <1>3 DEF verifyTable
    <2>6. call' = [call EXCEPT ![p] = new]
        BY <2>1 DEF ColumnInv, TypeOK
    <2>. HIDE DEF new
    <2>. QED BY <2>1, <2>3, <2>4, <2>5, <2>6, MoveKeeps
<1>. QED BY <1>2, <1>3

LEMMA CreateKeeps ==
    ASSUME ColumnInv, NEW p \in Process, createTable(p)
    PROVE  ColumnInv'
<1>. DEFINE t == call[p].table
<1>1. TypeOK /\ t \in Table /\ Cols(p) \in SUBSET Column /\ call[p].pc = "create"
    BY AtTable DEF ColumnInv, createTable, Now
<1>2. CASE t \in tables
    BY <1>2, RefusedKeeps DEF createTable
<1>3. CASE t \notin tables
    <2>1. /\ tables' = tables \cup {t}
          /\ live' = [live EXCEPT ![t] = Cols(p)]
          /\ idx' = idx
          /\ Answered(p, {}, Cols(p) \cap NonUnique)
        BY <1>3 DEF createTable
    <2>2. DbGrows
        BY <1>1, <1>3, <2>1 DEF TypeOK, DbGrows
    <2>3. t \in tables' /\ Cols(p) \ {} \subseteq live'[t]
        BY <1>1, <2>1 DEF TypeOK
    <2>4. Cols(p) \cap NonUnique \in SUBSET Column /\ {} \in SUBSET Column
        BY <1>1
    <2>. QED BY <1>1, <2>1, <2>2, <2>3, <2>4, AnsweredKeeps
<1>. QED BY <1>2, <1>3

LEMMA MigrateKeeps ==
    ASSUME ColumnInv, NEW p \in Process, migrateTable(p)
    PROVE  ColumnInv'
<1>. DEFINE t == call[p].table
<1>1. TypeOK /\ t \in Table /\ Cols(p) \in SUBSET Column /\ call[p].pc = "columns"
    BY AtTable DEF ColumnInv, migrateTable, Now
<1>2. PICK seen \in SUBSET live[t] : Proceed(p, Cols(p) \ seen, {}) /\ (Fault \/ NoFault)
    BY DEF migrateTable
<1>3. UNCHANGED db
    BY DEF migrateTable
<1>4. DbGrows /\ faults' \in 0..MaxFaults
    BY <1>1, <1>2, <1>3, DbStays, FaultType
<1>5. t \in tables' /\ Cols(p) \ (Cols(p) \ seen) \subseteq live'[t]
    BY <1>1, <1>3 DEF ColumnInv, CallsHaveColumns, db
<1>6. Cols(p) \ seen \in SUBSET Column /\ {} \in SUBSET Column
    BY <1>1
<1>. QED BY <1>1, <1>2, <1>4, <1>5, <1>6, ProceedKeeps

LEMMA AddKeeps ==
    ASSUME ColumnInv, NEW p \in Process, AddColumn(p)
    PROVE  ColumnInv'
<1>. DEFINE t == call[p].table
<1>1. TypeOK /\ t \in Table /\ Cols(p) \in SUBSET Column /\ call[p].pc = "alter"
    BY AtTable DEF ColumnInv, AddColumn, Now
<1>2. call[p].missing \in SUBSET Column /\ call[p].index \in SUBSET Column
    BY <1>1 DEF TypeOK, Call
<1>3. PICK c \in call[p].missing :
          IF c \in live[t] THEN Refused(p) /\ UNCHANGED db
          ELSE /\ live' = [live EXCEPT ![t] = @ \cup {c}]
               /\ UNCHANGED <<tables, idx>>
               /\ Answered(p, call[p].missing \ {c}, call[p].index \cup ({c} \cap NonUnique))
    BY DEF AddColumn
<1>4. CASE c \in live[t]
    BY <1>3, <1>4, RefusedKeeps
<1>5. CASE c \notin live[t]
    <2>1. /\ live' = [live EXCEPT ![t] = @ \cup {c}]
          /\ UNCHANGED <<tables, idx>>
          /\ Answered(p, call[p].missing \ {c}, call[p].index \cup ({c} \cap NonUnique))
        BY <1>3, <1>5
    <2>2. t \in tables /\ Cols(p) \ call[p].missing \subseteq live[t]
        BY <1>1 DEF ColumnInv, CallsHaveColumns
    <2>3. live'[t] = live[t] \cup {c}
        BY <1>1, <2>1 DEF TypeOK
    <2>4. DbGrows
        BY <1>1, <1>2, <2>1, <2>2 DEF TypeOK, DbGrows
    <2>5. t \in tables' /\ Cols(p) \ (call[p].missing \ {c}) \subseteq live'[t]
        BY <2>1, <2>2, <2>3
    <2>6. /\ call[p].missing \ {c} \in SUBSET Column
          /\ call[p].index \cup ({c} \cap NonUnique) \in SUBSET Column
        BY <1>2
    <2>. QED BY <1>1, <2>1, <2>4, <2>5, <2>6, AnsweredKeeps
<1>. QED BY <1>4, <1>5

LEMMA IndexKeeps ==
    ASSUME ColumnInv, NEW p \in Process, CreateIndex(p)
    PROVE  ColumnInv'
<1>. DEFINE t == call[p].table
<1>1. TypeOK /\ t \in Table /\ call[p].pc = "index"
    BY AtTable DEF ColumnInv, CreateIndex, Now
<1>2. call[p].index \in SUBSET Column
    BY <1>1 DEF TypeOK, Call
<1>3. PICK c \in call[p].index :
          /\ idx' = [idx EXCEPT ![t] = @ \cup {c}]
          /\ Answered(p, {}, call[p].index \ {c})
    BY DEF CreateIndex
<1>4. UNCHANGED <<tables, live>>
    BY DEF CreateIndex
<1>5. DbGrows
    BY <1>1, <1>2, <1>3, <1>4 DEF TypeOK, DbGrows
<1>6. t \in tables' /\ Cols(p) \ {} \subseteq live'[t]
    BY <1>1, <1>4 DEF ColumnInv, CallsHaveColumns
<1>7. call[p].index \ {c} \in SUBSET Column /\ {} \in SUBSET Column
    BY <1>2
<1>. QED BY <1>1, <1>3, <1>5, <1>6, <1>7, AnsweredKeeps

LEMMA FaultKeeps ==
    ASSUME ColumnInv, NEW p \in Process, StatementFails(p) \/ Restart(p)
    PROVE  ColumnInv'
<1>1. Abandon(p, call[p].index) /\ Fault /\ UNCHANGED db
    BY DEF StatementFails, Restart
<1>2. verifyed' = verifyed \/ verifyed' = [verifyed EXCEPT ![p] = {}]
    BY DEF StatementFails, Restart
<1>3. call[p].index \in SUBSET Column /\ DbGrows /\ faults' \in 0..MaxFaults
    BY <1>1, DbStays, FaultType DEF ColumnInv, TypeOK, Call
<1>. QED BY <1>1, <1>2, <1>3, AbandonKeeps

-----------------------------------------------------------------------------
LEMMA ColumnInvHolds == Spec => []ColumnInv
<1>1. Init => ColumnInv
    <2>. SUFFICES ASSUME Init PROVE ColumnInv
        OBVIOUS
    <2>1. TypeOK
        BY IdleType, SchemaAssumption DEF Init, TypeOK, Idle
    <2>. QED BY <2>1 DEF Init, Idle, ColumnInv, VerifiedTablesHaveColumns,
                         CallsHaveColumns, CallsOweInPlace
<1>2. ColumnInv /\ [Next]_vars => ColumnInv'
    <2>. SUFFICES ASSUME ColumnInv, [Next]_vars PROVE ColumnInv'
        OBVIOUS
    <2>1. CASE Next
        BY <2>1, VerifyKeeps, CreateKeeps, MigrateKeeps, AddKeeps, IndexKeeps, FaultKeeps
           DEF Next, Step
    <2>2. CASE UNCHANGED vars
        BY <2>2 DEF vars, ColumnInv, TypeOK, VerifiedTablesHaveColumns, CallsHaveColumns,
                    CallsOweInPlace, Cols
    <2>. QED BY <2>1, <2>2
<1>. QED BY <1>1, <1>2, PTL DEF Spec

\* The tables, the calls and what is remembered of them keep their types
\* through any steps of any processes.
THEOREM SchemaTypes == Spec => []TypeOK
BY ColumnInvHolds, PTL DEF ColumnInv

\* verifyTables never takes a table for verified that lacks a column of the
\* process's own version, whoever made the table and whatever failed.
THEOREM VerifiedIsComplete == Spec => []VerifiedTablesHaveColumns
BY ColumnInvHolds, PTL DEF ColumnInv

-----------------------------------------------------------------------------
(* Indexes                                                                 *)

IndexInv == ColumnInv /\ MissingIndexesAreAccountedFor

Others(p, t) == UNION {Owed(q, t) : q \in Process \ {p}}

\* After a step of the database, what p owes, what the others do, and what is
\* forgotten account for the indexes that are missing.
AccountedWith(p, index) ==
    \A t \in Table :
        LET mine == IF t = call[p].table THEN index ELSE {}
        IN  /\ live'[t] \cap NonUnique = idx'[t] \cup forgotten[t] \cup Others(p, t) \cup mine
            /\ idx'[t] \cap (Others(p, t) \cup mine) = {}
            /\ mine \cap Others(p, t) = {}

LEMMA OwedSplits ==
    ASSUME NEW p \in Process, NEW t
    PROVE  UNION {Owed(q, t) : q \in Process} = Owed(p, t) \cup Others(p, t)
BY DEF Others

\* What p owes elsewhere than at its table is nothing, so the invariant is
\* AccountedWith of a step that leaves the database alone.
LEMMA AccountedBefore ==
    ASSUME IndexInv, NEW p \in Process, UNCHANGED db
    PROVE  AccountedWith(p, call[p].index)
<1>. SUFFICES ASSUME NEW t \in Table
              PROVE  LET mine == IF t = call[p].table THEN call[p].index ELSE {}
                     IN  /\ live[t] \cap NonUnique
                                = idx[t] \cup forgotten[t] \cup Others(p, t) \cup mine
                         /\ idx[t] \cap (Others(p, t) \cup mine) = {}
                         /\ mine \cap Others(p, t) = {}
    BY DEF AccountedWith, db
<1>1. Owed(p, t) = IF t = call[p].table THEN call[p].index ELSE {}
    BY DEF Owed
<1>2. Owed(p, t) \cap Others(p, t) = {}
    BY DEF IndexInv, MissingIndexesAreAccountedFor, Others
<1>3. /\ live[t] \cap NonUnique = idx[t] \cup forgotten[t] \cup (Owed(p, t) \cup Others(p, t))
      /\ idx[t] \cap (Owed(p, t) \cup Others(p, t)) = {}
    BY OwedSplits DEF IndexInv, MissingIndexesAreAccountedFor
<1>. QED BY <1>1, <1>2, <1>3

\* The account after a step: p owes index at one table, or forgets it.
LEMMA AccountAfter ==
    ASSUME IndexInv, NEW p \in Process, NEW index, AccountedWith(p, index),
           \A q \in Process \ {p} : call'[q] = call[q],
           \/ /\ forgotten' = forgotten
              /\ \A t \in Table : Owed(p, t)' = IF t = call[p].table THEN index ELSE {}
           \/ /\ \A t \in Table : forgotten'[t] =
                     IF t = call[p].table THEN forgotten[t] \cup index ELSE forgotten[t]
              /\ \A t \in Table : Owed(p, t)' = {}
    PROVE  MissingIndexesAreAccountedFor'
<1>. SUFFICES ASSUME NEW t \in Table
              PROVE  /\ live'[t] \cap NonUnique
                            = idx'[t] \cup forgotten'[t] \cup UNION {Owed(q, t)' : q \in Process}
                     /\ idx'[t] \cap UNION {Owed(q, t)' : q \in Process} = {}
                     /\ \A q, r \in Process : q # r => Owed(q, t)' \cap Owed(r, t)' = {}
    BY DEF MissingIndexesAreAccountedFor
<1>. DEFINE mine == IF t = call[p].table THEN index ELSE {}
<1>1. \A q \in Process \ {p} : Owed(q, t)' = Owed(q, t)
    BY DEF Owed
<1>2. UNION {Owed(q, t)' : q \in Process} = Owed(p, t)' \cup Others(p, t)
    BY <1>1 DEF Others
<1>3. /\ live'[t] \cap NonUnique = idx'[t] \cup forgotten[t] \cup Others(p, t) \cup mine
      /\ idx'[t] \cap (Others(p, t) \cup mine) = {}
      /\ mine \cap Others(p, t) = {}
    BY DEF AccountedWith
<1>4. /\ Owed(p, t)' \subseteq mine
      /\ forgotten'[t] \cup Owed(p, t)' = forgotten[t] \cup mine
    OBVIOUS
<1>5. \A q, r \in Process : q # r => Owed(q, t)' \cap Owed(r, t)' = {}
    <2>. SUFFICES ASSUME NEW q \in Process, NEW r \in Process, q # r
                  PROVE  Owed(q, t)' \cap Owed(r, t)' = {}
        OBVIOUS
    <2>1. \A o \in Process \ {p} : Owed(p, t)' \cap Owed(o, t)' = {}
        BY <1>1, <1>3, <1>4 DEF Others
    <2>2. CASE q = p
        BY <2>1, <2>2
    <2>3. CASE r = p
        BY <2>1, <2>3
    <2>4. CASE q # p /\ r # p
        BY <1>1, <2>4 DEF IndexInv, MissingIndexesAreAccountedFor
    <2>. QED BY <2>2, <2>3, <2>4
<1>. HIDE DEF mine
<1>. QED BY <1>2, <1>3, <1>4, <1>5

\* Proceed and Abandon, after a step of the database that the account allows.
LEMMA ProceedAccounts ==
    ASSUME IndexInv, NEW p \in Process, NEW missing, NEW index, AccountedWith(p, index),
           Proceed(p, missing, index)
    PROVE  MissingIndexesAreAccountedFor'
<1>. DEFINE rest == call[p].todo \ {call[p].table}
            done == missing \cup index = {}
            on == [call[p] EXCEPT !.pc = IF missing # {} THEN "alter" ELSE "index",
                                  !.missing = missing, !.index = index]
            next == IF ~done THEN on
                    ELSE IF rest # {} THEN [Idle EXCEPT !.pc = "verify", !.todo = rest]
                    ELSE Idle
<1>1. call' = [call EXCEPT ![p] = next] /\ forgotten' = forgotten
    BY DEF Proceed
<1>2. call \in [Process -> Call]
    BY DEF IndexInv, ColumnInv, TypeOK
<1>3. call'[p] = next /\ \A q \in Process \ {p} : call'[q] = call[q]
    BY <1>1, <1>2
<1>4. \A t \in Table : Owed(p, t)' = IF t = call[p].table THEN index ELSE {}
    <2>1. CASE ~done
        <3>1. on.table = call[p].table /\ on.index = index
            BY <1>2 DEF Call
        <3>. QED BY <1>3, <2>1, <3>1 DEF Owed
    <2>2. CASE done
        <3>1. next.index = {} /\ index = {}
            BY <2>2 DEF Idle
        <3>. QED BY <1>3, <3>1 DEF Owed
    <2>. QED BY <2>1, <2>2
<1>. QED BY <1>1, <1>3, <1>4, AccountAfter

LEMMA AbandonAccounts ==
    ASSUME IndexInv, NEW p \in Process, NEW index, AccountedWith(p, index), Abandon(p, index)
    PROVE  MissingIndexesAreAccountedFor'
<1>1. call \in [Process -> Call]
    BY DEF IndexInv, ColumnInv, TypeOK
<1>2. call'[p] = Idle /\ \A q \in Process \ {p} : call'[q] = call[q]
    BY <1>1 DEF Abandon
<1>3. \A t \in Table : Owed(p, t)' = {}
    BY <1>2 DEF Owed, Idle
<1>4. \A t \in Table : forgotten'[t] =
          IF t = call[p].table THEN forgotten[t] \cup index ELSE forgotten[t]
    BY DEF Abandon
<1>. QED BY <1>2, <1>3, <1>4, AccountAfter

LEMMA AnsweredAccounts ==
    ASSUME IndexInv, NEW p \in Process, NEW missing, NEW index, AccountedWith(p, index),
           Answered(p, missing, index)
    PROVE  MissingIndexesAreAccountedFor'
BY ProceedAccounts, AbandonAccounts DEF Answered

LEMMA RefusedAccounts ==
    ASSUME IndexInv, NEW p \in Process, UNCHANGED db, Refused(p)
    PROVE  MissingIndexesAreAccountedFor'
BY AccountedBefore, AbandonAccounts DEF Refused

LEMMA StepAccounts ==
    ASSUME IndexInv, NEW p \in Process,
           verifyTables(p) \/ Step(p) \/ StatementFails(p) \/ Restart(p)
    PROVE  MissingIndexesAreAccountedFor'
<1>. DEFINE t == call[p].table
<1>1. /\ ColumnInv /\ TypeOK /\ call \in [Process -> Call]
      /\ live \in [Table -> SUBSET Column] /\ idx \in [Table -> SUBSET Column]
    BY DEF IndexInv, ColumnInv, TypeOK
<1>2. ASSUME NEW u \in Table
      PROVE  /\ live[u] \cap NonUnique = idx[u] \cup forgotten[u] \cup Others(p, u) \cup Owed(p, u)
             /\ idx[u] \cap (Others(p, u) \cup Owed(p, u)) = {}
             /\ Owed(p, u) \cap Others(p, u) = {}
    <2>1. Owed(p, u) \cap Others(p, u) = {}
        BY DEF IndexInv, MissingIndexesAreAccountedFor, Others
    <2>. QED BY <2>1, OwedSplits DEF IndexInv, MissingIndexesAreAccountedFor
<1>3. \A u \in Table : Owed(p, u) = IF u = t THEN call[p].index ELSE {}
    BY DEF Owed
<1>4. CASE verifyTables(p) \/ verifyTable(p)
    <2>1. /\ call[p].index = {} /\ UNCHANGED db /\ forgotten' = forgotten
          /\ \A q \in Process \ {p} : call'[q] = call[q]
        BY <1>1, <1>4 DEF ColumnInv, CallsOweInPlace, verifyTables, verifyTable, Now
    <2>2. call'[p].index = {}
        <3>1. CASE verifyTables(p)
            BY <1>1, <3>1 DEF verifyTables, Idle
        <3>2. CASE verifyTable(p)
            <4>1. PICK u \in call[p].todo :
                      call' = [call EXCEPT ![p].table = u,
                                   ![p].pc = IF u \in tables THEN "columns" ELSE "create"]
                BY <3>2 DEF verifyTable
            <4>. QED BY <1>1, <2>1, <4>1 DEF Call
        <3>. QED BY <1>4, <3>1, <3>2
    <2>3. \A u \in Table : Owed(p, u)' = IF u = t THEN {} ELSE {}
        BY <2>2 DEF Owed
    <2>4. AccountedWith(p, {})
        BY <2>1, AccountedBefore
    <2>. QED BY <2>1, <2>3, <2>4, AccountAfter
<1>5. CASE createTable(p)
    <2>1. CASE t \in tables
        BY <1>5, <2>1, RefusedAccounts DEF createTable
    <2>2. CASE t \notin tables
        <3>1. /\ live' = [live EXCEPT ![t] = Cols(p)] /\ idx' = idx
              /\ Answered(p, {}, Cols(p) \cap NonUnique)
            BY <1>5, <2>2 DEF createTable
        <3>2. t \in Table /\ call[p].index = {}
            BY <1>1, <1>5, AtTable DEF ColumnInv, CallsOweInPlace, createTable, Now
        <3>3. live[t] = {}
            BY <1>1, <2>2, <3>2 DEF TypeOK
        <3>4. idx[t] = {} /\ forgotten[t] = {} /\ Others(p, t) = {}
            BY <1>2, <3>2, <3>3
        <3>5. \A u \in Table : live'[u] = IF u = t THEN Cols(p) ELSE live[u]
            BY <1>1, <3>1
        <3>6. AccountedWith(p, Cols(p) \cap NonUnique)
            <4>. SUFFICES ASSUME NEW u \in Table
                 PROVE LET mine == IF u = t THEN Cols(p) \cap NonUnique ELSE {}
                       IN  /\ live'[u] \cap NonUnique
                                  = idx[u] \cup forgotten[u] \cup Others(p, u) \cup mine
                           /\ idx[u] \cap (Others(p, u) \cup mine) = {}
                           /\ mine \cap Others(p, u) = {}
                BY <3>1 DEF AccountedWith
            <4>1. CASE u = t
                BY <3>4, <3>5, <4>1
            <4>2. CASE u # t
                BY <1>2, <1>3, <3>5, <4>2
            <4>. QED BY <4>1, <4>2
        <3>. QED BY <3>1, <3>6, AnsweredAccounts
    <2>. QED BY <2>1, <2>2
<1>6. CASE migrateTable(p)
    <2>1. PICK missing : Proceed(p, missing, {})
        BY <1>6 DEF migrateTable
    <2>2. UNCHANGED db /\ call[p].index = {}
        BY <1>6 DEF migrateTable, IndexInv, ColumnInv, CallsOweInPlace, Now
    <2>3. AccountedWith(p, {})
        BY <2>2, AccountedBefore
    <2>. QED BY <2>1, <2>3, ProceedAccounts
<1>7. CASE AddColumn(p)
    <2>1. PICK c \in call[p].missing :
              IF c \in live[t] THEN Refused(p) /\ UNCHANGED db
              ELSE /\ live' = [live EXCEPT ![t] = @ \cup {c}]
                   /\ UNCHANGED <<tables, idx>>
                   /\ Answered(p, call[p].missing \ {c}, call[p].index \cup ({c} \cap NonUnique))
        BY <1>7 DEF AddColumn
    <2>2. CASE c \in live[t]
        BY <2>1, <2>2, RefusedAccounts
    <2>3. CASE c \notin live[t]
        <3>1. /\ live' = [live EXCEPT ![t] = @ \cup {c}] /\ idx' = idx
              /\ Answered(p, call[p].missing \ {c}, call[p].index \cup ({c} \cap NonUnique))
            BY <2>1, <2>3
        <3>2. t \in Table
            BY <1>1, <1>7, AtTable DEF AddColumn, Now
        <3>3. \A u \in Table : live'[u] = IF u = t THEN live[t] \cup {c} ELSE live[u]
            BY <1>1, <3>1, <3>2
        <3>4. c \in NonUnique => c \notin idx[t] /\ c \notin Others(p, t)
            BY <1>2, <2>3, <3>2
        <3>5. AccountedWith(p, call[p].index \cup ({c} \cap NonUnique))
            <4>. SUFFICES ASSUME NEW u \in Table
                 PROVE LET mine == IF u = t THEN call[p].index \cup ({c} \cap NonUnique) ELSE {}
                       IN  /\ live'[u] \cap NonUnique
                                  = idx[u] \cup forgotten[u] \cup Others(p, u) \cup mine
                           /\ idx[u] \cap (Others(p, u) \cup mine) = {}
                           /\ mine \cap Others(p, u) = {}
                BY <3>1 DEF AccountedWith
            <4>1. CASE u = t
                BY <1>2, <1>3, <3>3, <3>4, <4>1
            <4>2. CASE u # t
                BY <1>2, <1>3, <3>3, <4>2
            <4>. QED BY <4>1, <4>2
        <3>. QED BY <3>1, <3>5, AnsweredAccounts
    <2>. QED BY <2>2, <2>3
<1>8. CASE CreateIndex(p)
    <2>1. PICK c \in call[p].index :
              idx' = [idx EXCEPT ![t] = @ \cup {c}] /\ Answered(p, {}, call[p].index \ {c})
        BY <1>8 DEF CreateIndex
    <2>2. t \in Table /\ live' = live
        BY <1>1, <1>8, AtTable DEF CreateIndex, Now
    <2>3. \A u \in Table : idx'[u] = IF u = t THEN idx[t] \cup {c} ELSE idx[u]
        BY <1>1, <2>1, <2>2
    <2>4. AccountedWith(p, call[p].index \ {c})
        <3>. SUFFICES ASSUME NEW u \in Table
             PROVE LET mine == IF u = t THEN call[p].index \ {c} ELSE {}
                   IN  /\ live[u] \cap NonUnique
                              = idx'[u] \cup forgotten[u] \cup Others(p, u) \cup mine
                       /\ idx'[u] \cap (Others(p, u) \cup mine) = {}
                       /\ mine \cap Others(p, u) = {}
            BY <2>2 DEF AccountedWith
        <3>1. CASE u = t
            BY <1>2, <1>3, <2>3, <3>1
        <3>2. CASE u # t
            BY <1>2, <1>3, <2>3, <3>2
        <3>. QED BY <3>1, <3>2
    <2>. QED BY <2>1, <2>4, AnsweredAccounts
<1>9. CASE StatementFails(p) \/ Restart(p)
    BY <1>9, AccountedBefore, AbandonAccounts DEF StatementFails, Restart
<1>. QED BY <1>4, <1>5, <1>6, <1>7, <1>8, <1>9 DEF Step

\* A decorated column lacks its index only while its own maker is at it or
\* after that one ended early, and no CREATE INDEX, with IF NOT EXISTS or
\* without, meets an index that is there (createTable, migrateTable).
THEOREM MissingIndexesHaveMakers == Spec => []MissingIndexesAreAccountedFor
<1>1. Init => MissingIndexesAreAccountedFor
    BY DEF Init, Idle, MissingIndexesAreAccountedFor, Owed
<1>2. ColumnInv /\ MissingIndexesAreAccountedFor /\ [Next]_vars => MissingIndexesAreAccountedFor'
    <2>. SUFFICES ASSUME IndexInv, [Next]_vars PROVE MissingIndexesAreAccountedFor'
        BY DEF IndexInv
    <2>1. CASE Next
        BY <2>1, StepAccounts DEF Next
    <2>2. CASE UNCHANGED vars
        BY <2>2 DEF vars, IndexInv, MissingIndexesAreAccountedFor, Owed
    <2>. QED BY <2>1, <2>2
<1>. QED BY <1>1, <1>2, ColumnInvHolds, PTL DEF Spec

-----------------------------------------------------------------------------
(* Rows of verified tables                                                 *)

\* The columns of t that every version has.
Common(t) == {c \in Column : \A p \in Process : c \in Attrs[p][t]}

RowsInv == RowsTypeOK /\ CommonColumnsAreReadable

\* The verification of tables, with rows or without.
LEMMA RowsImplementsSchema == RowsSpec => Spec
<1>1. RowsInit => Init
    BY DEF RowsInit
<1>2. [RowsNext]_<<vars, rows>> => [Next]_vars
    BY DEF RowsNext, Write, vars
<1>. QED BY <1>1, <1>2, PTL DEF RowsSpec, Spec

\* Verification adds tables and columns, and takes none away.
LEMMA StepsGrow ==
    ASSUME TypeOK, Next
    PROVE  tables \subseteq tables' /\ \A t \in Table : live[t] \subseteq live'[t]
<1>1. PICK p \in Process : verifyTables(p) \/ Step(p) \/ StatementFails(p) \/ Restart(p)
    BY DEF Next
<1>2. CASE createTable(p)
    BY <1>2 DEF createTable, TypeOK, db
<1>3. CASE AddColumn(p)
    BY <1>3 DEF AddColumn, TypeOK, db
<1>4. CASE CreateIndex(p)
    BY <1>4 DEF CreateIndex
<1>5. CASE verifyTables(p) \/ verifyTable(p) \/ migrateTable(p) \/ StatementFails(p) \/ Restart(p)
    BY <1>5 DEF verifyTables, verifyTable, migrateTable, StatementFails, Restart, db
<1>. QED BY <1>1, <1>2, <1>3, <1>4, <1>5 DEF Step

LEMMA VerifyKeepsRows ==
    ASSUME TypeOK, RowsInv, Next, UNCHANGED rows
    PROVE  RowsInv'
<1>1. tables \subseteq tables' /\ \A t \in Table : live[t] \subseteq live'[t]
    BY StepsGrow
<1>2. RowsTypeOK'
    BY <1>1 DEF RowsInv, RowsTypeOK
<1>3. CommonColumnsAreReadable'
    BY DEF RowsInv, CommonColumnsAreReadable, Scans
<1>. QED BY <1>2, <1>3 DEF RowsInv

\* An assignment is in order when it is to tables that have its columns, and a
\* row it makes has a value in each common column.
LEMMA AssignmentKeeps ==
    ASSUME RowsInv, NEW p \in Process, NEW some \in SUBSET Table, NEW k \in Key, NEW op, NEW set,
           \A t \in some : /\ t \in tables /\ RowValues(p, t, op, set) \subseteq live[t] \cap Column
                           /\ k \notin DOMAIN rows[t] => Common(t) \subseteq RowValues(p, t, op, set),
           rows' = Assigned(p, some, k, op, set), UNCHANGED vars
    PROVE  RowsInv'
<1>. DEFINE written(t) == [j \in DOMAIN rows[t] \cup {k} |->
                 IF j = k THEN RowWith(t, k, RowValues(p, t, op, set)) ELSE rows[t][j]]
<1>1. \A t \in Table : rows'[t] = IF t \in some THEN written(t) ELSE rows[t]
    BY DEF Assigned
<1>2. \A t \in Table : rows[t] \in Stored /\ rows[t] \in [DOMAIN rows[t] -> SUBSET Column]
                       /\ DOMAIN rows[t] \in SUBSET Key
    BY DEF RowsInv, RowsTypeOK, Stored
<1>3. \A t \in some : /\ RowWith(t, k, RowValues(p, t, op, set)) \subseteq live[t] \cap Column
                      /\ Common(t) \subseteq RowWith(t, k, RowValues(p, t, op, set))
    <2>. SUFFICES ASSUME NEW t \in some
         PROVE /\ RowWith(t, k, RowValues(p, t, op, set)) \subseteq live[t] \cap Column
               /\ Common(t) \subseteq RowWith(t, k, RowValues(p, t, op, set))
        OBVIOUS
    <2>1. CASE k \in DOMAIN rows[t]
        <3>1. rows[t][k] \subseteq live[t] \cap Column
            BY <1>2, <2>1 DEF RowsInv, RowsTypeOK
        <3>2. Common(t) \subseteq rows[t][k]
            BY <1>2, <2>1 DEF RowsInv, CommonColumnsAreReadable, Scans, Common
        <3>. QED BY <2>1, <3>1, <3>2 DEF RowWith
    <2>2. CASE k \notin DOMAIN rows[t]
        BY <2>2 DEF RowWith
    <2>. QED BY <2>1, <2>2
<1>4. \A t \in some : /\ written(t) \in [DOMAIN rows[t] \cup {k} -> SUBSET Column]
                      /\ DOMAIN rows[t] \cup {k} \in SUBSET Key
    BY <1>2, <1>3
<1>5. rows' \in [Table -> Stored]
    <2>1. ASSUME NEW t \in Table PROVE rows'[t] \in Stored
        <3>1. CASE t \in some
            <4>1. written(t) \in Stored
                BY <1>4, <3>1 DEF Stored
            <4>. QED BY <1>1, <3>1, <4>1
        <3>2. CASE t \notin some
            BY <1>1, <1>2, <3>2
        <3>. QED BY <3>1, <3>2
    <2>. QED BY <2>1 DEF Assigned
<1>6. \A t \in Table : \A j \in DOMAIN rows'[t] :
          t \in tables /\ rows'[t][j] \subseteq live[t] /\ Common(t) \subseteq rows'[t][j]
    <2>. SUFFICES ASSUME NEW t \in Table, NEW j \in DOMAIN rows'[t]
         PROVE  t \in tables /\ rows'[t][j] \subseteq live[t] /\ Common(t) \subseteq rows'[t][j]
        OBVIOUS
    <2>1. CASE t \in some /\ j = k
        BY <1>1, <1>3, <2>1
    <2>2. CASE ~(t \in some /\ j = k)
        <3>1. j \in DOMAIN rows[t] /\ rows'[t][j] = rows[t][j]
            <4>1. CASE t \in some
                <5>1. rows'[t] = written(t) /\ j # k
                    BY <1>1, <2>2, <4>1
                <5>2. j \in DOMAIN rows[t] \cup {k}
                    BY <5>1
                <5>3. written(t)[j] = rows[t][j]
                    BY <5>1, <5>2
                <5>. QED BY <5>1, <5>2, <5>3
            <4>2. CASE t \notin some
                BY <1>1, <4>2
            <4>. QED BY <4>1, <4>2
        <3>2. Common(t) \subseteq rows[t][j]
            BY <1>2, <3>1 DEF RowsInv, CommonColumnsAreReadable, Scans, Common
        <3>. QED BY <3>1, <3>2 DEF RowsInv, RowsTypeOK
    <2>. QED BY <2>1, <2>2
<1>7. RowsTypeOK'
    BY <1>5, <1>6 DEF RowsTypeOK, vars
<1>8. CommonColumnsAreReadable'
    BY <1>6 DEF CommonColumnsAreReadable, Scans, Common
<1>. QED BY <1>7, <1>8 DEF RowsInv

LEMMA WriteKeepsRows ==
    ASSUME ColumnInv, RowsInv, NEW p \in Process, Write(p)
    PROVE  RowsInv'
<1>1. UNCHANGED vars
    BY DEF Write
<1>2. PICK root \in Roots, k \in Key : Insert(p, root, k) \/ Update(p, root, k) \/ DeleteRow(p, root, k)
    BY DEF Write
<1>3. root \subseteq Table
    BY SchemaAssumption
<1>4. Ready(p, root) => \A t \in root : /\ t \in tables /\ Attrs[p][t] \subseteq live[t] \cap Column
                                        /\ Common(t) \subseteq Attrs[p][t]
    BY <1>3, SchemaAssumption DEF Ready, ColumnInv, VerifiedTablesHaveColumns, Common
<1>5. CASE Insert(p, root, k)
    <2>1. PICK some \in SUBSET root : rows' = Assigned(p, some, k, "POST", {})
        BY <1>5 DEF Insert
    <2>2. \A t \in some : RowValues(p, t, "POST", {}) = Attrs[p][t]
        BY DEF RowValues
    <2>3. Ready(p, root)
        BY <1>5 DEF Insert
    <2>. QED BY <1>1, <1>3, <1>4, <2>1, <2>2, <2>3, AssignmentKeeps
<1>6. CASE Update(p, root, k)
    <2>1. PICK some \in SUBSET {t \in root : k \in DOMAIN rows[t]}, set \in SUBSET Column :
              rows' = Assigned(p, some, k, "PATCH", set)
        BY <1>6 DEF Update
    <2>2. \A t \in some : k \in DOMAIN rows[t] /\ RowValues(p, t, "PATCH", set) \subseteq Attrs[p][t]
        BY DEF RowValues
    <2>3. Ready(p, root)
        BY <1>6 DEF Update
    <2>. QED BY <1>1, <1>3, <1>4, <2>1, <2>2, <2>3, AssignmentKeeps
<1>7. CASE DeleteRow(p, root, k)
    <2>1. \A t \in Table : /\ DOMAIN rows'[t] \subseteq DOMAIN rows[t]
                           /\ \A j \in DOMAIN rows'[t] : rows'[t][j] = rows[t][j]
        BY <1>7 DEF DeleteRow
    <2>2. rows' \in [Table -> Stored]
        <3>1. \A t \in Table : rows[t] \in [DOMAIN rows[t] -> SUBSET Column]
                               /\ DOMAIN rows[t] \in SUBSET Key
            BY DEF RowsInv, RowsTypeOK, Stored
        <3>2. \A t \in Table : rows'[t] \in [DOMAIN rows'[t] -> SUBSET Column]
                               /\ DOMAIN rows'[t] \in SUBSET Key
            BY <1>7, <3>1 DEF DeleteRow, RowsInv, RowsTypeOK
        <3>3. \A t \in Table : rows'[t] \in Stored
            BY <3>2 DEF Stored
        <3>. QED BY <1>7, <3>3 DEF DeleteRow
    <2>3. RowsTypeOK'
        BY <1>1, <2>1, <2>2 DEF RowsInv, RowsTypeOK, vars
    <2>4. CommonColumnsAreReadable'
        BY <2>1 DEF RowsInv, CommonColumnsAreReadable, Scans
    <2>. QED BY <2>3, <2>4 DEF RowsInv
<1>. QED BY <1>2, <1>5, <1>6, <1>7

LEMMA RowsInvHolds == RowsSpec => []RowsInv
<1>1. RowsInit => RowsInv
    <2>. SUFFICES ASSUME RowsInit PROVE RowsInv
        OBVIOUS
    <2>1. rows = [t \in Table |-> <<>>] /\ DOMAIN <<>> = {}
        BY DEF RowsInit
    <2>2. <<>> \in [{} -> SUBSET Column]
        OBVIOUS
    <2>3. <<>> \in Stored
        BY <2>2 DEF Stored
    <2>. QED BY <2>1, <2>3 DEF RowsInv, RowsTypeOK, CommonColumnsAreReadable, Scans
<1>2. ColumnInv /\ RowsInv /\ [RowsNext]_<<vars, rows>> => RowsInv'
    <2>. SUFFICES ASSUME ColumnInv, RowsInv, [RowsNext]_<<vars, rows>> PROVE RowsInv'
        OBVIOUS
    <2>1. CASE Next /\ UNCHANGED rows
        BY <2>1, VerifyKeepsRows DEF ColumnInv
    <2>2. CASE \E p \in Process : Write(p)
        BY <2>2, WriteKeepsRows
    <2>3. CASE UNCHANGED <<vars, rows>>
        BY <2>3 DEF vars, RowsInv, RowsTypeOK, CommonColumnsAreReadable, Scans
    <2>. QED BY <2>1, <2>2, <2>3 DEF RowsNext
<1>3. RowsSpec => []ColumnInv
    BY RowsImplementsSchema, ColumnInvHolds, PTL
<1>. QED BY <1>1, <1>2, <1>3, PTL DEF RowsSpec

\* A row is in a table that exists and in columns the table has, whichever
\* versions create, migrate and write it (verifyTables, writeData).
THEOREM RowsAreInColumns == RowsSpec => []RowsTypeOK
BY RowsInvHolds, PTL DEF RowsInv

\* What all versions have in common can be read from every row, whoever wrote
\* and patched it (createInsertStatement, createUpdateStatement, Row).
THEOREM CommonIsReadable == RowsSpec => []CommonColumnsAreReadable
BY RowsInvHolds, PTL DEF RowsInv
=============================================================================
