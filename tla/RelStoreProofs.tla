--------------------------- MODULE RelStoreProofs ---------------------------
(***************************************************************************)
(* RelStore for every set of keys, requests and processes, and every       *)
(* slice: type correctness, the inductive invariant IInv, and from it that *)
(* the rows of a key stay those of an object, that a commit does what its  *)
(* request asks for, that the tables implement ObjectStore, and that a     *)
(* read nobody overlapped answers with the objects as they are stored.     *)
(*                                                                         *)
(* The argument: what a transaction in flight has changed is known from    *)
(* its request, its progress and the committed rows alone, for every key   *)
(* that is not given up, because no other transaction in flight changes    *)
(* the rows of such a key in a way that disturbs it.                       *)
(***************************************************************************)
EXTENDS RelStore, FiniteSetTheorems, TLAPS

\* What a transaction holds of rows: the rows it changed, the rows it sees.
LEMMA WithType ==
    ASSUME NEW own \in Versions, NEW S \in SUBSET Row, NEW v \in Val \cup {NoRow}
    PROVE  With(own, S, v) \in Versions /\ DOMAIN With(own, S, v) = DOMAIN own \cup S
<1>1. PICK D \in SUBSET Row : own \in [D -> Val \cup {NoRow}]
    BY DEF Versions
<1>2. With(own, S, v) \in [D \cup S -> Val \cup {NoRow}]
    BY <1>1 DEF With
<1>3. D \cup S \in SUBSET Row
    OBVIOUS
<1>4. DOMAIN With(own, S, v) = DOMAIN own \cup S
    BY DEF With
<1>. QED BY <1>2, <1>3, <1>4 DEF Versions

\* What a request sees of a row is a value or no row.
LEMMA SeeType ==
    ASSUME TypeOK, NEW r \in Request, NEW row \in Row
    PROVE  See(r, row) \in Val \cup {NoRow}
<1>1. tx[r].own \in Versions /\ db[row] \in Val \cup {NoRow}
    BY DEF TypeOK, Transaction, Table
<1>2. PICK D \in SUBSET Row : tx[r].own \in [D -> Val \cup {NoRow}]
    BY <1>1 DEF Versions
<1>. QED BY <1>1, <1>2 DEF See

\* The rows an object is converted to are rows of the tables.
LEMMA ConvertToType ==
    ASSUME NEW b \in Batches
    PROVE  UNION {ConvertTo(o) : o \in b} \subseteq Writes
<1>. SUFFICES ASSUME NEW o \in b PROVE ConvertTo(o) \subseteq Writes
    OBVIOUS
<1>1. /\ o.key \in Key /\ o.val \in Val /\ MaxKids \in Nat
      /\ o.kids \in Seq(Val \cup {Nil}) /\ Len(o.kids) <= MaxKids
    BY StoreAssumption
<1>2. <<o.key, 0>> \in Row
    BY <1>1 DEF Row
<1>3. ASSUME NEW i \in 1..Len(o.kids), o.kids[i] # Nil
      PROVE  <<o.key, i>> \in Row /\ o.kids[i] \in Val
    <2>1. Len(o.kids) \in Nat /\ i \in 0..MaxKids
        BY <1>1
    <2>2. o.kids[i] \in Val \cup {Nil}
        BY <1>1
    <2>. QED BY <1>1, <1>3, <2>1, <2>2 DEF Row
<1>. QED BY <1>1, <1>2, <1>3 DEF ConvertTo, Writes

LEMMA IdleType == Idle \in Transaction
<1>1. <<>> \in [{} -> Val \cup {NoRow}]
    OBVIOUS
<1>2. <<>> \in Versions /\ <<>> \in UNION {[S -> Val \cup {NoRow}] : S \in {{}, RootRows, ChildRows, Row}}
    BY <1>1 DEF Versions
<1>. QED BY <1>2 DEF Idle, Transaction

\* A step of one transaction keeps the types when the transaction it leaves
\* has its type and holds no row of another.
LEMMA BecomesType ==
    ASSUME TypeOK, NEW r \in Request, NEW new \in Transaction,
           Becomes(r, new), UNCHANGED <<db, loose>>,
           \A x \in Request \ {r} : DOMAIN new.own \cap DOMAIN tx[x].own = {}
    PROVE  TypeOK'
<1>1. tx' \in [Request -> Transaction]
    BY DEF TypeOK, Becomes
<1>2. \A x \in Request : tx'[x] = IF x = r THEN new ELSE tx[x]
    BY DEF TypeOK, Becomes
<1>3. ASSUME NEW x \in Request, NEW y \in Request, x # y
      PROVE  DOMAIN tx'[x].own \cap DOMAIN tx'[y].own = {}
    BY <1>2, <1>3 DEF TypeOK
<1>. QED BY <1>1, <1>3 DEF TypeOK

\* A transaction begins with no row, and its beginning changes the history
\* of the others at most.
LEMMA BeginType ==
    ASSUME TypeOK, NEW r \in Request, NEW new \in Transaction, new.own = <<>>,
           NEW spoilt \in SUBSET Key, Begin(r, new, spoilt)
    PROVE  TypeOK'
<1>1. ASSUME NEW t \in Transaction PROVE Touches(t) \subseteq Key
    <2>1. t.batch \in Batches \cup {{}}
        BY DEF Transaction
    <2>2. \A o \in t.batch : o.key \in Key
        BY <2>1, StoreAssumption
    <2>. QED BY <2>2 DEF Touches
<1>. DEFINE away == {x \in Request : InFlight(x) /\ Home[x] # Home[r]}
            shared(x) == Touches(new) \cap Touches(tx[x])
            clashing == {x \in away : Clash(new.op, tx[x].op)}
            seen(x) == IF new.op # "READ" /\ x \in away /\ tx[x].op = "READ"
                       THEN shared(x) ELSE {}
            met == {x \in away : new.op = "READ" /\ tx[x].op # "READ"}
            next(x) == IF x = r THEN [new EXCEPT !.raced = UNION {shared(y) : y \in met}]
                       ELSE [tx[x] EXCEPT !.raced = tx[x].raced \cup seen(x)]
<1>2. /\ tx' = [x \in Request |-> next(x)]
      /\ loose' = loose \cup spoilt \cup UNION {shared(x) : x \in clashing}
      /\ db' = db
    BY DEF Begin
<1>3. \A x \in Request : shared(x) \subseteq Key
    BY <1>1
<1>4. \A x \in Request : tx[x] \in Transaction
    BY DEF TypeOK
<1>5. ASSUME NEW x \in Request
      PROVE  /\ next(x) \in Transaction
             /\ next(x).own = IF x = r THEN <<>> ELSE tx[x].own
    <2>1. CASE x = r
        <3>1. UNION {shared(y) : y \in met} \subseteq Key
            BY <1>3
        <3>2. \A R \in SUBSET Key : /\ [new EXCEPT !.raced = R] \in Transaction
                                    /\ [new EXCEPT !.raced = R].own = new.own
            BY DEF Transaction
        <3>. QED BY <2>1, <3>1, <3>2
    <2>2. CASE x # r
        <3>1. tx[x].raced \cup seen(x) \subseteq Key
            <4>1. tx[x].raced \subseteq Key
                BY <1>4 DEF Transaction
            <4>2. seen(x) \subseteq Key
                BY <1>3
            <4>. QED BY <4>1, <4>2
        <3>2. \A R \in SUBSET Key : /\ [tx[x] EXCEPT !.raced = R] \in Transaction
                                    /\ [tx[x] EXCEPT !.raced = R].own = tx[x].own
            BY <1>4 DEF Transaction
        <3>. QED BY <2>2, <3>1, <3>2
    <2>. QED BY <2>1, <2>2
<1>6. tx' \in [Request -> Transaction]
    BY <1>2, <1>5
<1>7. loose' \subseteq Key
    <2>1. UNION {shared(x) : x \in clashing} \subseteq Key
        BY <1>3
    <2>. QED BY <1>2, <2>1 DEF TypeOK
<1>8. ASSUME NEW x \in Request, NEW y \in Request, x # y
      PROVE  DOMAIN tx'[x].own \cap DOMAIN tx'[y].own = {}
    <2>1. /\ tx'[x].own = IF x = r THEN <<>> ELSE tx[x].own
          /\ tx'[y].own = IF y = r THEN <<>> ELSE tx[y].own
        BY <1>2, <1>5
    <2>. QED BY <1>8, <2>1 DEF TypeOK
<1>. QED BY <1>2, <1>6, <1>7, <1>8 DEF TypeOK

-----------------------------------------------------------------------------
(* The actions                                                             *)

LEMMA WriteTypes ==
    ASSUME TypeOK, NEW r \in Request, BeginWrite(r) \/ WriteRow(r)
    PROVE  TypeOK'
<1>1. CASE BeginWrite(r)
    <2>1. PICK op \in WriteOps, b \in Batches :
              Begin(r, [Idle EXCEPT !.pc = "write", !.op = op, !.batch = b,
                                    !.todo = UNION {ConvertTo(o) : o \in b}],
                    IF op \in Inserts THEN {o.key : o \in {x \in b : Holed(x)}} ELSE {})
        BY <1>1 DEF BeginWrite
    <2>. DEFINE new == [Idle EXCEPT !.pc = "write", !.op = op, !.batch = b,
                                    !.todo = UNION {ConvertTo(o) : o \in b}]
                spoilt == IF op \in Inserts THEN {o.key : o \in {x \in b : Holed(x)}} ELSE {}
    <2>2. UNION {ConvertTo(o) : o \in b} \in SUBSET Writes
        BY ConvertToType
    <2>3. \A T \in SUBSET Writes :
              /\ [Idle EXCEPT !.pc = "write", !.op = op, !.batch = b, !.todo = T]
                     \in Transaction
              /\ [Idle EXCEPT !.pc = "write", !.op = op, !.batch = b, !.todo = T].own = Idle.own
        BY IdleType DEF Transaction
    <2>4. new \in Transaction /\ new.own = <<>>
        BY <2>2, <2>3 DEF Idle
    <2>5. spoilt \in SUBSET Key
        BY StoreAssumption
    <2>. HIDE DEF new, spoilt
    <2>6. Begin(r, new, spoilt)
        BY <2>1 DEF new, spoilt
    <2>. QED BY <2>4, <2>5, <2>6, BeginType
<1>2. CASE WriteRow(r)
    <2>1. PICK w \in tx[r].todo :
              /\ ~Locked(r, w.row) \/ (tx[r].op = "PATCH" /\ db[w.row] = NoRow)
              /\ Becomes(r, [tx[r] EXCEPT
                     !.own = RowWritten(r, w), !.todo = tx[r].todo \ {w},
                     !.pc = IF tx[r].todo = {w} THEN "commit" ELSE "write"])
        BY <1>2 DEF WriteRow
    <2>. DEFINE new == [tx[r] EXCEPT
                     !.own = RowWritten(r, w), !.todo = tx[r].todo \ {w},
                     !.pc = IF tx[r].todo = {w} THEN "commit" ELSE "write"]
    <2>2. tx[r] \in Transaction
        BY DEF TypeOK
    <2>3. w.row \in Row /\ w.val \in Val /\ tx[r].own \in Versions
        BY <2>2 DEF Transaction, Writes
    <2>4. /\ RowWritten(r, w) \in Versions
          /\ \/ RowWritten(r, w) = tx[r].own
             \/ /\ DOMAIN RowWritten(r, w) = DOMAIN tx[r].own \cup {w.row}
                /\ ~(tx[r].op = "PATCH" /\ See(r, w.row) = NoRow)
        <3>1. CASE tx[r].op = "PATCH" /\ See(r, w.row) = NoRow
            BY <2>3, <3>1 DEF RowWritten
        <3>2. CASE ~(tx[r].op = "PATCH" /\ See(r, w.row) = NoRow)
            <4>. DEFINE v == IF tx[r].op = "PATCH" /\ w.val = Zero
                             THEN See(r, w.row) ELSE w.val
            <4>1. v \in Val \cup {NoRow}
                BY <2>3, SeeType
            <4>2. RowWritten(r, w) = With(tx[r].own, {w.row}, v)
                BY <3>2 DEF RowWritten
            <4>. HIDE DEF v
            <4>3. {w.row} \in SUBSET Row
                BY <2>3
            <4>4. With(tx[r].own, {w.row}, v) \in Versions
                  /\ DOMAIN With(tx[r].own, {w.row}, v) = DOMAIN tx[r].own \cup {w.row}
                BY <2>3, <4>1, <4>3, WithType
            <4>. QED BY <3>2, <4>2, <4>4
        <3>. QED BY <3>1, <3>2
    <2>5. /\ new \in Transaction
          /\ new.own = RowWritten(r, w)
        BY <2>2, <2>4 DEF Transaction
    <2>6. ASSUME NEW x \in Request \ {r}
          PROVE  DOMAIN RowWritten(r, w) \cap DOMAIN tx[x].own = {}
        <3>1. DOMAIN tx[r].own \cap DOMAIN tx[x].own = {}
            BY DEF TypeOK
        <3>2. CASE RowWritten(r, w) = tx[r].own
            BY <3>1, <3>2
        <3>3. CASE /\ DOMAIN RowWritten(r, w) = DOMAIN tx[r].own \cup {w.row}
                   /\ ~(tx[r].op = "PATCH" /\ See(r, w.row) = NoRow)
            <4>1. CASE ~Locked(r, w.row)
                BY <3>1, <3>3, <4>1 DEF Locked
            <4>2. CASE tx[r].op = "PATCH" /\ db[w.row] = NoRow
                \* The row is one of r's own, so no other transaction has it.
                <5>1. w.row \in DOMAIN tx[r].own
                    BY <3>3, <4>2 DEF See
                <5>. QED BY <3>1, <3>3, <5>1
            <4>. QED BY <2>1, <4>1, <4>2
        <3>. QED BY <2>4, <3>2, <3>3
    <2>7. UNCHANGED <<db, loose>>
        BY <1>2 DEF WriteRow
    <2>. HIDE DEF new
    <2>8. Becomes(r, new)
        BY <2>1 DEF new
    <2>. QED BY <2>5, <2>6, <2>7, <2>8, BecomesType
<1>. QED BY <1>1, <1>2

LEMMA DeleteTypes ==
    ASSUME TypeOK, NEW r \in Request,
           BeginDelete(r) \/ FindKids(r) \/ DeleteKids(r) \/ FindRoots(r) \/ DeleteRoots(r)
    PROVE  TypeOK'
<1>1. tx[r] \in Transaction
    BY DEF TypeOK
<1>2. ASSUME NEW x \in Request \ {r} PROVE DOMAIN tx[r].own \cap DOMAIN tx[x].own = {}
    BY DEF TypeOK
<1>3. CASE BeginDelete(r)
    <2>. DEFINE match(crit) == {k \in Key : db[<<k, 0>>] \in crit}
                new(crit, keys) == [Idle EXCEPT !.pc = "findKids", !.op = "DELETE",
                                                !.crit = crit, !.keys = keys]
                spoilt(crit, keys) == (match(crit) \cup UNION {Covers[k] : k \in keys}) \ keys
    <2>1. PICK crit \in Criteria, keys \in SUBSET Key :
              Begin(r, new(crit, keys), spoilt(crit, keys))
        BY <1>3 DEF BeginDelete
    <2>2. new(crit, keys) \in Transaction /\ new(crit, keys).own = <<>>
        <3>1. new(crit, keys) \in Transaction /\ new(crit, keys).own = Idle.own
            BY IdleType DEF Transaction
        <3>. QED BY <3>1 DEF Idle
    <2>3. spoilt(crit, keys) \in SUBSET Key
        BY StoreAssumption
    <2>. HIDE DEF new, spoilt
    <2>. QED BY <2>1, <2>2, <2>3, BeginType
<1>4. CASE FindKids(r)
    <2>. DEFINE new(F) == [tx[r] EXCEPT !.pc = "deleteKids", !.found = F]
    <2>1. ChildrenToDelete(r) \in SUBSET Row
        BY DEF ChildrenToDelete, ChildRows
    <2>2. \A F \in SUBSET Row : new(F) \in Transaction /\ new(F).own = tx[r].own
        BY <1>1 DEF Transaction
    <2>3. Becomes(r, new(ChildrenToDelete(r))) /\ UNCHANGED <<db, loose>>
        BY <1>4 DEF FindKids
    <2>. HIDE DEF new
    <2>. QED BY <1>2, <2>1, <2>2, <2>3, BecomesType
<1>5. CASE DeleteKids(r)
    <2>. DEFINE gone == tx[r].found
                new(O) == [tx[r] EXCEPT !.pc = "findRoots", !.found = {}, !.own = O]
    <2>1. gone \in SUBSET Row /\ tx[r].own \in Versions
        BY <1>1 DEF Transaction
    <2>2. /\ With(tx[r].own, gone, NoRow) \in Versions
          /\ DOMAIN With(tx[r].own, gone, NoRow) = DOMAIN tx[r].own \cup gone
        BY <2>1, WithType
    <2>3. \A O \in Versions : new(O) \in Transaction /\ new(O).own = O
        BY <1>1 DEF Transaction
    <2>4. Becomes(r, new(With(tx[r].own, gone, NoRow))) /\ UNCHANGED <<db, loose>>
        BY <1>5 DEF DeleteKids
    <2>5. ASSUME NEW x \in Request \ {r} PROVE gone \cap DOMAIN tx[x].own = {}
        BY <1>5 DEF DeleteKids, Locked
    <2>. HIDE DEF new, gone
    <2>6. \A x \in Request \ {r} :
              DOMAIN new(With(tx[r].own, gone, NoRow)).own \cap DOMAIN tx[x].own = {}
        BY <1>2, <2>2, <2>3, <2>5
    <2>. QED BY <2>2, <2>3, <2>4, <2>6, BecomesType
<1>6. CASE FindRoots(r)
    <2>. DEFINE F0 == {row \in RootRows : db[row] \in tx[r].crit}
                new(F) == [tx[r] EXCEPT !.pc = "deleteRoots", !.found = F]
    <2>1. F0 \in SUBSET Row
        BY StoreAssumption DEF RootRows, Row
    <2>2. \A F \in SUBSET Row : new(F) \in Transaction /\ new(F).own = tx[r].own
        BY <1>1 DEF Transaction
    <2>3. Becomes(r, new(F0)) /\ UNCHANGED <<db, loose>>
        BY <1>6 DEF FindRoots
    <2>. HIDE DEF new, F0
    <2>. QED BY <1>2, <2>1, <2>2, <2>3, BecomesType
<1>7. CASE DeleteRoots(r)
    <2>. DEFINE gone == {row \in tx[r].found : db[row] \in tx[r].crit}
                new(O) == [tx[r] EXCEPT !.pc = "commit", !.found = {}, !.own = O]
    <2>1. gone \in SUBSET Row /\ tx[r].own \in Versions
        BY <1>1 DEF Transaction
    <2>2. /\ With(tx[r].own, gone, NoRow) \in Versions
          /\ DOMAIN With(tx[r].own, gone, NoRow) = DOMAIN tx[r].own \cup gone
        BY <2>1, WithType
    <2>3. \A O \in Versions : new(O) \in Transaction /\ new(O).own = O
        BY <1>1 DEF Transaction
    <2>4. Becomes(r, new(With(tx[r].own, gone, NoRow))) /\ UNCHANGED <<db, loose>>
        BY <1>7 DEF DeleteRoots
    <2>5. ASSUME NEW x \in Request \ {r} PROVE gone \cap DOMAIN tx[x].own = {}
        BY <1>7 DEF DeleteRoots, Locked
    <2>. HIDE DEF new, gone
    <2>6. \A x \in Request \ {r} :
              DOMAIN new(With(tx[r].own, gone, NoRow)).own \cap DOMAIN tx[x].own = {}
        BY <1>2, <2>2, <2>3, <2>5
    <2>. QED BY <2>2, <2>3, <2>4, <2>6, BecomesType
<1>. QED BY <1>3, <1>4, <1>5, <1>6, <1>7

LEMMA ReadTypes ==
    ASSUME TypeOK, NEW r \in Request, 
           BeginRead(r) \/ ReadTable(r) \/ ReadRest(r) \/ ReadCut(r)
    PROVE  TypeOK'
<1>1. tx[r] \in Transaction /\ db \in Table
    BY DEF TypeOK
<1>2. CASE BeginRead(r)
    <2>. DEFINE new(crit) == [Idle EXCEPT !.pc = "read", !.op = "READ", !.crit = crit]
    <2>1. PICK crit \in Criteria : Begin(r, new(crit), {})
        BY <1>2 DEF BeginRead
    <2>2. new(crit) \in Transaction /\ new(crit).own = <<>>
        <3>1. new(crit) \in Transaction /\ new(crit).own = Idle.own
            BY IdleType DEF Transaction
        <3>. QED BY <3>1 DEF Idle
    <2>. HIDE DEF new
    <2>3. {} \in SUBSET Key
        OBVIOUS
    <2>. QED BY <2>1, <2>2, <2>3, BeginType
<1>3. CASE ReadTable(r)
    <2>. DEFINE Seen == UNION {[S -> Val \cup {NoRow}] : S \in {{}, RootRows, ChildRows, Row}}
                new(s) == [tx[r] EXCEPT !.pc = "readRest", !.seen = s]
    <2>1. PICK rows \in {RootRows, ChildRows} :
              Becomes(r, new([row \in rows |-> db[row]]))
        BY <1>3 DEF ReadTable
    <2>2. rows \subseteq Row
        BY StoreAssumption DEF RootRows, ChildRows, Row
    <2>3. [row \in rows |-> db[row]] \in [rows -> Val \cup {NoRow}]
        BY <1>1, <2>2 DEF Table
    <2>4. [row \in rows |-> db[row]] \in Seen
        BY <2>3
    <2>5. \A s \in Seen : new(s) \in Transaction /\ new(s).own = tx[r].own
        BY <1>1 DEF Transaction
    <2>6. UNCHANGED <<db, loose>>
        BY <1>3 DEF ReadTable
    <2>7. \A x \in Request \ {r} : DOMAIN tx[r].own \cap DOMAIN tx[x].own = {}
        BY DEF TypeOK
    <2>. HIDE DEF new, Seen
    <2>. QED BY <2>1, <2>4, <2>5, <2>6, <2>7, BecomesType
<1>4. CASE ReadRest(r) \/ ReadCut(r)
    <2>. DEFINE all(got) == [row \in Row |-> IF row \in DOMAIN tx[r].seen THEN tx[r].seen[row]
                                            ELSE IF row \in got THEN db[row] ELSE NoRow]
                Seen == UNION {[S -> Val \cup {NoRow}] : S \in {{}, RootRows, ChildRows, Row}}
                new(s, pc) == [tx[r] EXCEPT !.pc = pc, !.seen = s]
    <2>1. PICK got \in SUBSET Row, pc \in {"count", "cut"} :
              Becomes(r, new(all(got), pc)) /\ UNCHANGED <<db, loose>>
        <3>1. PICK got \in SUBSET Row, pc \in {"count", "cut"} : ReadRows(r, got, pc)
            BY <1>4 DEF ReadRest, ReadCut
        <3>2. [tx[r] EXCEPT !.pc = pc].seen = tx[r].seen
            BY <1>1 DEF Transaction
        <3>. QED BY <3>1, <3>2 DEF ReadRows
    <2>2. \A row \in DOMAIN tx[r].seen : tx[r].seen[row] \in Val \cup {NoRow}
        <3>1. PICK S \in {{}, RootRows, ChildRows, Row} : tx[r].seen \in [S -> Val \cup {NoRow}]
            BY <1>1 DEF Transaction
        <3>. QED BY <3>1
    <2>3. all(got) \in Seen
        <3>1. all(got) \in [Row -> Val \cup {NoRow}]
            BY <1>1, <2>2 DEF Table
        <3>. QED BY <3>1
    <2>4. \A s \in Seen :
              new(s, pc) \in Transaction /\ new(s, pc).own = tx[r].own
        BY <1>1 DEF Transaction
    <2>5. \A x \in Request \ {r} : DOMAIN tx[r].own \cap DOMAIN tx[x].own = {}
        BY DEF TypeOK
    <2>. HIDE DEF new, all, Seen
    <2>. QED BY <2>1, <2>3, <2>4, <2>5, BecomesType
<1>. QED BY <1>2, <1>3, <1>4

LEMMA EndTypes ==
    ASSUME TypeOK, NEW r \in Request, Commit(r) \/ Rollback(r) \/ Count(r) \/ CountFails(r)
    PROVE  TypeOK'
<1>1. Idle.own = <<>> /\ DOMAIN <<>> = {}
    BY DEF Idle
<1>2. CASE Rollback(r) \/ Count(r) \/ CountFails(r)
    <2>1. Becomes(r, Idle) /\ UNCHANGED <<db, loose>>
        BY <1>2 DEF Rollback, Count, CountFails, Ends
    <2>2. \A x \in Request \ {r} : DOMAIN Idle.own \cap DOMAIN tx[x].own = {}
        BY <1>1
    <2>. QED BY <2>1, <2>2, IdleType, BecomesType
<1>3. CASE Commit(r)
    <2>. DEFINE own == tx[r].own
                gone == {row \in DOMAIN own : own[row] = NoRow}
                next(x) == IF x = r THEN Idle ELSE [tx[x] EXCEPT !.found = tx[x].found \ gone]
    <2>1. /\ db' = [row \in Row |-> See(r, row)]
          /\ tx' = [x \in Request |-> next(x)]
          /\ loose' = loose
        BY <1>3 DEF Commit
    <2>2. db' \in Table
        BY <2>1, SeeType DEF Table
    <2>3. ASSUME NEW x \in Request
          PROVE  /\ next(x) \in Transaction
                 /\ next(x).own = IF x = r THEN <<>> ELSE tx[x].own
        <3>1. CASE x = r
            BY <1>1, <3>1, IdleType
        <3>2. CASE x # r
            <4>1. tx[x] \in Transaction
                BY DEF TypeOK
            <4>2. tx[x].found \ gone \in SUBSET Row
                BY <4>1 DEF Transaction
            <4>3. \A F \in SUBSET Row : /\ [tx[x] EXCEPT !.found = F] \in Transaction
                                        /\ [tx[x] EXCEPT !.found = F].own = tx[x].own
                BY <4>1 DEF Transaction
            <4>. QED BY <3>2, <4>2, <4>3
        <3>. QED BY <3>1, <3>2
    <2>4. tx' \in [Request -> Transaction]
        BY <2>1, <2>3
    <2>5. ASSUME NEW x \in Request, NEW y \in Request, x # y
          PROVE  DOMAIN tx'[x].own \cap DOMAIN tx'[y].own = {}
        <3>1. /\ tx'[x].own = IF x = r THEN <<>> ELSE tx[x].own
              /\ tx'[y].own = IF y = r THEN <<>> ELSE tx[y].own
            BY <2>1, <2>3
        <3>. QED BY <1>1, <2>5, <3>1 DEF TypeOK
    <2>. QED BY <2>1, <2>2, <2>4, <2>5 DEF TypeOK
<1>. QED BY <1>2, <1>3

-----------------------------------------------------------------------------
LEMMA InitTypes == Init => TypeOK
<1>. SUFFICES ASSUME Init PROVE TypeOK
    OBVIOUS
<1>1. db \in Table /\ loose \subseteq Key
    BY DEF Init, Table
<1>2. tx \in [Request -> Transaction]
    BY IdleType DEF Init
<1>3. \A r, x \in Request : r # x => DOMAIN tx[r].own \cap DOMAIN tx[x].own = {}
    BY DEF Init, Idle
<1>. QED BY <1>1, <1>2, <1>3 DEF TypeOK

\* Whatever requests do, and however their statements interleave, the tables
\* and the transactions keep their types, and a row that one transaction has
\* changed is not changed by another before the first one ends: the row locks
\* and mtx of writeData and DeleteRelational.
THEOREM StoreTypes == Spec => []TypeOK
<1>1. TypeOK /\ [Next]_vars => TypeOK'
    <2>. SUFFICES ASSUME TypeOK, [Next]_vars PROVE TypeOK'
        OBVIOUS
    <2>1. CASE Next
        BY <2>1, WriteTypes, DeleteTypes, ReadTypes, EndTypes DEF Next
    <2>2. CASE UNCHANGED vars
        BY <2>2 DEF vars, TypeOK
    <2>. QED BY <2>1, <2>2
<1>. QED BY <1>1, InitTypes, PTL DEF Spec

-----------------------------------------------------------------------------
(* The inductive invariant, on a transaction t, tables d and the keys l    *)
(* that are given up                                                       *)

Asked(t) == UNION {ConvertTo(o) : o \in t.batch}

Writing(t) == t.pc \in {"write", "commit"} /\ t.op \in WriteOps
Deleting(t) ==
    /\ t.pc \in {"findKids", "deleteKids", "findRoots", "deleteRoots", "commit"}
    /\ t.op = "DELETE"
Reading(t) == t.pc \in {"read", "readRest", "count", "cut"} /\ t.op = "READ"

\* What has become of a row of the batch: for POST and PUT the transaction has
\* its value, for PATCH, if the tables have the row, its value over theirs.
Inserted(t, w) == w.row \in DOMAIN t.own /\ t.own[w.row] = w.val
Updated(t, w, d) ==
    /\ w.row \in DOMAIN t.own <=> d[w.row] # NoRow
    /\ w.row \in DOMAIN t.own =>
          t.own[w.row] = IF w.val = Zero THEN d[w.row] ELSE w.val

WrittenSoFar(t, d, l) ==
    /\ t.batch \in Batches
    /\ t.todo \subseteq Asked(t)
    /\ t.pc = "commit" => t.todo = {}
    /\ \A row \in DOMAIN t.own : \E w \in Asked(t) \ t.todo : w.row = row
    /\ t.op \in Inserts =>
          /\ \A w \in Asked(t) \ t.todo : Inserted(t, w)
          /\ \A o \in t.batch : o.key \in l \/ ~Holed(o)
    /\ t.op = "PATCH" =>
          \A w \in Asked(t) \ t.todo : w.row[1] \in l \/ Updated(t, w, d)

\* What a delete has of the rows of a key: the keys it read are those whose
\* root matches, less those another delete removed, and its statements find,
\* and then hold, the rows of these keys that are there.
KeyDeleted(t, k, d) ==
    /\ d[<<k, 0>>] \in t.crit => k \in t.keys
    /\ k \in t.keys => d[<<k, 0>>] \in t.crit \cup {NoRow}
    /\ \A j \in t.keys : k \in Covers[j] => k \in t.keys
    /\ \A i \in 1..MaxKids :
          /\ t.pc = "deleteKids" =>
                (<<k, i>> \in t.found <=> k \in t.keys /\ d[<<k, i>>] # NoRow)
          /\ <<k, i>> \in DOMAIN t.own <=> /\ t.pc \notin {"findKids", "deleteKids"}
                                           /\ k \in t.keys /\ d[<<k, i>>] # NoRow
    /\ t.pc = "deleteRoots" => (<<k, 0>> \in t.found <=> d[<<k, 0>>] \in t.crit)
    /\ <<k, 0>> \in DOMAIN t.own <=> t.pc = "commit" /\ d[<<k, 0>>] \in t.crit

DeletedSoFar(t, d, l) ==
    /\ t.crit \in Criteria
    /\ t.pc = "deleteKids" => t.found \subseteq ChildRows
    /\ t.pc = "deleteRoots" => t.found \subseteq RootRows
    /\ \A row \in DOMAIN t.own : t.own[row] = NoRow
    /\ \A k \in Key \ l : KeyDeleted(t, k, d)

\* What a read has seen of a key that no write has overlapped with is what is
\* stored.
ReadSoFar(t, d) ==
    /\ t.own = <<>>
    /\ t.pc = "count" => DOMAIN t.seen = Row
    /\ t.pc \in {"readRest", "count"} =>
          \A row \in DOMAIN t.seen : row[1] \in t.raced \/ t.seen[row] = d[row]

Proceeds(t, d, l) ==
    /\ t.pc # "idle" => Writing(t) \/ Deleting(t) \/ Reading(t)
    /\ t.pc = "idle" => t.own = <<>>
    /\ Writing(t) => WrittenSoFar(t, d, l)
    /\ Deleting(t) => DeletedSoFar(t, d, l)
    /\ Reading(t) => ReadSoFar(t, d)

\* Of two transactions in flight, what one may spoil for the other is given up,
\* and a read knows of the writes that overlap with it.
Apart(a, b, l) ==
    /\ \A k \in Touches(a) \cap Touches(b) : k \in l \/ ~Clash(a.op, b.op)
    /\ a.op = "READ" /\ b.op # "READ" => Touches(b) \subseteq a.raced

\* The rows of a key are those of an object: none, or a root and the children
\* from the first one on, without a gap.
Whole(d, k) ==
    /\ d[<<k, 0>>] = NoRow => \A i \in 1..MaxKids : d[<<k, i>>] = NoRow
    /\ \A i, j \in 1..MaxKids : i < j /\ d[<<k, j>>] # NoRow => d[<<k, i>>] # NoRow

AllApart ==
    \A r, x \in Request : r # x /\ InFlight(r) /\ InFlight(x) =>
        Home[r] # Home[x] /\ Apart(tx[r], tx[x], loose)

IInv ==
    /\ TypeOK
    /\ \A r \in Request : Proceeds(tx[r], db, loose)
    /\ AllApart
    /\ \A k \in Key \ loose : Whole(db, k)

-----------------------------------------------------------------------------
(* Lemmas about the parts of the invariant                                 *)

LEMMA OpsDiffer ==
    /\ WriteOps \subseteq {"POST", "PUT", "PATCH"}
    /\ "DELETE" \notin WriteOps /\ "READ" \notin WriteOps
BY StoreAssumption

\* Giving up more keys, or knowing of more overlaps, asks less of a transaction.
LEMMA LooserProceeds ==
    ASSUME NEW t \in Transaction, NEW d, NEW l, NEW m, l \subseteq m, Proceeds(t, d, l),
           NEW R \in SUBSET Key, t.raced \subseteq R
    PROVE  Proceeds([t EXCEPT !.raced = R], d, m)
<1>. DEFINE u == [t EXCEPT !.raced = R]
<1>1. /\ u.pc = t.pc /\ u.op = t.op /\ u.batch = t.batch /\ u.todo = t.todo
      /\ u.own = t.own /\ u.crit = t.crit /\ u.keys = t.keys /\ u.found = t.found
      /\ u.seen = t.seen /\ u.raced = R
    BY DEF Transaction
<1>. HIDE DEF u
<1>2. ASSUME Writing(t), WrittenSoFar(t, d, l) PROVE WrittenSoFar(u, d, m)
    <2>1. Asked(u) = Asked(t)
        BY <1>1 DEF Asked
    <2>2. \A w : (Inserted(t, w) <=> Inserted(u, w)) /\ (Updated(t, w, d) <=> Updated(u, w, d))
        BY <1>1 DEF Inserted, Updated
    <2>. QED BY <1>1, <1>2, <2>1, <2>2 DEF WrittenSoFar
<1>3. ASSUME Deleting(t), DeletedSoFar(t, d, l) PROVE DeletedSoFar(u, d, m)
    <2>1. \A k : KeyDeleted(t, k, d) <=> KeyDeleted(u, k, d)
        BY <1>1 DEF KeyDeleted
    <2>. QED BY <1>1, <1>3, <2>1 DEF DeletedSoFar
<1>4. ASSUME Reading(t), ReadSoFar(t, d) PROVE ReadSoFar(u, d)
    BY <1>1, <1>4 DEF ReadSoFar
<1>5. /\ Writing(u) <=> Writing(t)
      /\ Deleting(u) <=> Deleting(t)
      /\ Reading(u) <=> Reading(t)
    BY <1>1 DEF Writing, Deleting, Reading
<1>6. Proceeds(u, d, m)
    BY <1>1, <1>2, <1>3, <1>4, <1>5 DEF Proceeds
<1>. QED BY <1>6 DEF u

\* A step of one transaction that is not its commit.
LEMMA OwnStep ==
    ASSUME IInv, TypeOK', NEW r \in Request, NEW new, Becomes(r, new), UNCHANGED <<db, loose>>,
           Proceeds(new, db, loose),
           \/ new.pc = "idle"
           \/ /\ InFlight(r) /\ new.op = tx[r].op /\ new.batch = tx[r].batch
              /\ new.raced = tx[r].raced
    PROVE  IInv'
<1>1. \A x \in Request : tx'[x] = IF x = r THEN new ELSE tx[x]
    BY DEF IInv, TypeOK, Becomes
<1>2. \A x \in Request : Proceeds(tx'[x], db', loose')
    BY <1>1 DEF IInv
<1>3. ASSUME NEW x \in Request, NEW y \in Request, x # y,
             tx'[x].pc # "idle", tx'[y].pc # "idle"
      PROVE  Home[x] # Home[y] /\ Apart(tx'[x], tx'[y], loose')
    <2>1. /\ tx[x].pc # "idle" /\ tx[y].pc # "idle"
          /\ tx'[x].op = tx[x].op /\ tx'[x].batch = tx[x].batch /\ tx'[x].raced = tx[x].raced
          /\ tx'[y].op = tx[y].op /\ tx'[y].batch = tx[y].batch /\ tx'[y].raced = tx[y].raced
        BY <1>1, <1>3 DEF InFlight
    <2>2. Home[x] # Home[y] /\ Apart(tx[x], tx[y], loose)
        BY <1>3, <2>1 DEF IInv, AllApart, InFlight
    <2>. QED BY <2>1, <2>2 DEF Apart, Touches
<1>4. AllApart'
    BY <1>3 DEF AllApart, InFlight
<1>. QED BY <1>2, <1>4 DEF IInv

LEMMA TouchesKeys ==
    ASSUME NEW t \in Transaction
    PROVE  Touches(t) \subseteq Key
<1>1. t.batch \in Batches \cup {{}}
    BY DEF Transaction
<1>2. \A o \in t.batch : o.key \in Key
    BY <1>1, StoreAssumption
<1>. QED BY <1>2 DEF Touches

\* A beginning transaction gives up the keys it may spoil, and tells the reads
\* in flight.
LEMMA BeginKeeps ==
    ASSUME IInv, NEW r \in Request, NEW new \in Transaction, NEW spoilt \in SUBSET Key,
           new.pc # "idle", new.own = <<>>, new.raced = {},
           Begin(r, new, spoilt), Proceeds(new, db, loose \cup spoilt)
    PROVE  IInv'
<1>. DEFINE away == {x \in Request : InFlight(x) /\ Home[x] # Home[r]}
            shared(x) == Touches(new) \cap Touches(tx[x])
            clashing == {x \in away : Clash(new.op, tx[x].op)}
            seen(x) == IF new.op # "READ" /\ x \in away /\ tx[x].op = "READ"
                       THEN shared(x) ELSE {}
            met == {x \in away : new.op = "READ" /\ tx[x].op # "READ"}
            R(x) == IF x = r THEN UNION {shared(y) : y \in met} ELSE tx[x].raced \cup seen(x)
            old(x) == IF x = r THEN new ELSE tx[x]
<1>1. /\ Mtx(r)
      /\ tx' = [x \in Request |-> IF x = r THEN [new EXCEPT !.raced = UNION {shared(y) : y \in met}]
                                  ELSE [tx[x] EXCEPT !.raced = tx[x].raced \cup seen(x)]]
      /\ loose' = loose \cup spoilt \cup UNION {shared(x) : x \in clashing}
      /\ db' = db
    BY DEF Begin
<1>2. \A x \in Request : tx[x] \in Transaction
    BY DEF IInv, TypeOK
<1>3. \A x \in Request : tx'[x] = [old(x) EXCEPT !.raced = R(x)]
    BY <1>1
<1>4. \A x \in Request : shared(x) \subseteq Key
    BY TouchesKeys
<1>5. \A x \in Request : R(x) \in SUBSET Key
    <2>1. \A x \in Request : seen(x) \subseteq Key
        BY <1>4
    <2>2. \A x \in Request : tx[x].raced \subseteq Key
        BY <1>2 DEF Transaction
    <2>3. UNION {shared(y) : y \in met} \subseteq Key
        BY <1>4
    <2>. QED BY <2>1, <2>2, <2>3
<1>6. \A x \in Request : /\ old(x) \in Transaction
                         /\ Proceeds(old(x), db, loose \cup spoilt)
                         /\ old(x).raced \subseteq R(x)
    <2>1. ASSUME NEW x \in Request, x # r PROVE Proceeds(tx[x], db, loose \cup spoilt)
        <3>1. Proceeds(tx[x], db, loose) /\ tx[x].raced \in SUBSET Key
            BY <1>2 DEF IInv, Transaction
        <3>2. Proceeds([tx[x] EXCEPT !.raced = tx[x].raced], db, loose \cup spoilt)
            BY <1>2, <3>1, LooserProceeds
        <3>3. [tx[x] EXCEPT !.raced = tx[x].raced] = tx[x]
            BY <1>2 DEF Transaction
        <3>. QED BY <3>2, <3>3
    <2>. QED BY <1>2, <2>1
<1>. HIDE DEF R, old
<1>7. \A x \in Request : Proceeds(tx'[x], db', loose')
    <2>. SUFFICES ASSUME NEW x \in Request PROVE Proceeds(tx'[x], db', loose')
        OBVIOUS
    <2>1. loose \cup spoilt \subseteq loose'
        BY <1>1
    <2>2. Proceeds([old(x) EXCEPT !.raced = R(x)], db, loose')
        BY <1>5, <1>6, <2>1, LooserProceeds
    <2>. QED BY <1>1, <1>3, <2>2
<1>8. \A x \in Request : /\ tx'[x].pc = old(x).pc /\ tx'[x].op = old(x).op
                         /\ Touches(tx'[x]) = Touches(old(x))
                         /\ tx'[x].raced = R(x)
    <2>1. ASSUME NEW x \in Request
          PROVE  /\ tx'[x].pc = old(x).pc /\ tx'[x].op = old(x).op
                 /\ tx'[x].batch = old(x).batch /\ tx'[x].raced = R(x)
        <3>1. old(x) \in Transaction /\ R(x) \in SUBSET Key
            BY <1>5, <1>6
        <3>. DEFINE u == [old(x) EXCEPT !.raced = R(x)]
        <3>2. u.pc = old(x).pc /\ u.op = old(x).op /\ u.batch = old(x).batch /\ u.raced = R(x)
            BY <3>1 DEF Transaction
        <3>3. tx'[x] = u
            BY <1>3
        <3>. HIDE DEF u
        <3>. QED BY <3>2, <3>3
    <2>. QED BY <2>1 DEF Touches
<1>9. ASSUME NEW x \in Request, x # r, tx[x].pc # "idle"
      PROVE  /\ Home[x] # Home[r]
             /\ Apart(tx'[x], tx'[r], loose') /\ Apart(tx'[r], tx'[x], loose')
    <2>1. x \in away /\ Home[x] # Home[r]
        BY <1>1, <1>9 DEF Mtx, InFlight
    <2>2. /\ tx'[x].op = tx[x].op /\ tx'[r].op = new.op
          /\ Touches(tx'[x]) = Touches(tx[x]) /\ Touches(tx'[r]) = Touches(new)
          /\ tx'[x].raced = tx[x].raced \cup seen(x)
          /\ tx'[r].raced = UNION {shared(y) : y \in met}
        BY <1>8, <1>9 DEF old, R
    <2>3. \A k \in shared(x) : k \in loose' \/ ~Clash(new.op, tx[x].op)
        BY <1>1, <2>1
    <2>4. Clash(new.op, tx[x].op) <=> Clash(tx[x].op, new.op)
        BY DEF Clash
    <2>5. new.op = "READ" /\ tx[x].op # "READ" => Touches(tx[x]) \subseteq tx'[r].raced
        <3>. SUFFICES ASSUME new.op = "READ", tx[x].op # "READ"
                      PROVE  shared(x) = Touches(tx[x]) /\ x \in met
            BY <2>2
        <3>1. Touches(tx[x]) \subseteq Key
            BY <1>2, TouchesKeys
        <3>. QED BY <2>1, <3>1 DEF Touches
    <2>6. tx[x].op = "READ" /\ new.op # "READ" => Touches(new) \subseteq tx'[x].raced
        <3>. SUFFICES ASSUME tx[x].op = "READ", new.op # "READ"
                      PROVE  seen(x) = Touches(new)
            BY <2>2
        <3>1. Touches(new) \subseteq Key
            BY TouchesKeys
        <3>. QED BY <2>1, <3>1 DEF Touches
    <2>. HIDE DEF away, shared, met, seen
    <2>7. Apart(tx'[r], tx'[x], loose')
        BY <2>2, <2>3, <2>5 DEF Apart, shared
    <2>8. Apart(tx'[x], tx'[r], loose')
        BY <2>2, <2>3, <2>4, <2>6 DEF Apart, shared
    <2>. QED BY <2>1, <2>7, <2>8
<1>10. ASSUME NEW x \in Request, NEW y \in Request, x # y, x # r, y # r,
              tx[x].pc # "idle", tx[y].pc # "idle"
       PROVE  Home[x] # Home[y] /\ Apart(tx'[x], tx'[y], loose')
    <2>1. Home[x] # Home[y] /\ Apart(tx[x], tx[y], loose)
        BY <1>10 DEF IInv, AllApart, InFlight
    <2>2. /\ tx'[x].op = tx[x].op /\ tx'[y].op = tx[y].op
          /\ Touches(tx'[x]) = Touches(tx[x]) /\ Touches(tx'[y]) = Touches(tx[y])
          /\ tx[x].raced \subseteq tx'[x].raced
        BY <1>6, <1>8, <1>10 DEF old
    <2>3. loose \subseteq loose'
        BY <1>1
    <2>. QED BY <2>1, <2>2, <2>3 DEF Apart
<1>11. AllApart'
    <2>1. \A x \in Request : x # r => tx'[x].pc = tx[x].pc
        BY <1>8 DEF old
    <2>. QED BY <1>9, <1>10, <2>1 DEF AllApart, InFlight
<1>12. TypeOK'
    BY BeginType DEF IInv
<1>13. \A k \in Key \ loose' : Whole(db', k)
    BY <1>1 DEF IInv
<1>. QED BY <1>7, <1>11, <1>12, <1>13 DEF IInv

\* An object of a batch, and its rows.
LEMMA ObjectParts ==
    ASSUME NEW b \in Batches, NEW o \in b
    PROVE  /\ o.key \in Key /\ o.val \in Val /\ Len(o.kids) \in Nat /\ Len(o.kids) <= MaxKids
           /\ <<o.key, 0>> \in Row
           /\ \A i \in 1..Len(o.kids) : /\ i \in 1..MaxKids /\ <<o.key, i>> \in Row
                                        /\ o.kids[i] # Nil => o.kids[i] \in Val
<1>1. /\ o.key \in Key /\ o.val \in Val /\ MaxKids \in Nat
      /\ o.kids \in Seq(Val \cup {Nil}) /\ Len(o.kids) <= MaxKids
    BY StoreAssumption
<1>2. Len(o.kids) \in Nat
    BY <1>1
<1>3. \A i \in 1..Len(o.kids) : o.kids[i] # Nil => o.kids[i] \in Val
    BY <1>1, <1>2
<1>4. \A i \in 0..MaxKids : <<o.key, i>> \in Row
    BY <1>1 DEF Row
<1>. QED BY <1>1, <1>2, <1>3, <1>4

LEMMA ObjectRows ==
    ASSUME NEW b \in Batches, NEW o \in b, NEW w \in ConvertTo(o)
    PROVE  /\ w \in Writes /\ w.row[1] = o.key
           /\ w.row[2] = 0 => w.val = o.val
           /\ w.row[2] # 0 => /\ w.row[2] \in 1..Len(o.kids)
                              /\ o.kids[w.row[2]] # Nil /\ w.val = o.kids[w.row[2]]
<1>1. \/ w = [row |-> <<o.key, 0>>, val |-> o.val]
      \/ \E i \in 1..Len(o.kids) :
            o.kids[i] # Nil /\ w = [row |-> <<o.key, i>>, val |-> o.kids[i]]
    BY DEF ConvertTo
<1>2. CASE w = [row |-> <<o.key, 0>>, val |-> o.val]
    BY <1>2, ObjectParts DEF Writes
<1>3. ASSUME NEW i \in 1..Len(o.kids), o.kids[i] # Nil,
             w = [row |-> <<o.key, i>>, val |-> o.kids[i]]
      PROVE  /\ w \in Writes /\ w.row[1] = o.key /\ w.row[2] = i /\ i # 0
             /\ w.val = o.kids[w.row[2]]
    <2>1. <<o.key, i>> \in Row /\ o.kids[i] \in Val /\ Len(o.kids) \in Nat
        BY <1>3, ObjectParts
    <2>. QED BY <1>3, <2>1 DEF Writes
<1>. QED BY <1>1, <1>2, <1>3

\* A batch has one write for a row at most.
LEMMA AskedRows ==
    ASSUME NEW t, t.batch \in Batches
    PROVE  /\ \A w \in Asked(t) : /\ w.row \in Row /\ w.val \in Val
                                  /\ w.row[1] \in {o.key : o \in t.batch}
           /\ \A v, w \in Asked(t) : v.row = w.row => v = w
<1>1. ASSUME NEW w \in Asked(t)
      PROVE  w.row \in Row /\ w.val \in Val /\ w.row[1] \in {o.key : o \in t.batch}
    <2>1. PICK o \in t.batch : w \in ConvertTo(o)
        BY DEF Asked
    <2>2. w \in Writes /\ w.row[1] = o.key
        BY <2>1, ObjectRows
    <2>. QED BY <2>2 DEF Writes
<1>2. ASSUME NEW v \in Asked(t), NEW w \in Asked(t), v.row = w.row PROVE v = w
    <2>1. PICK o \in t.batch, p \in t.batch : v \in ConvertTo(o) /\ w \in ConvertTo(p)
        BY DEF Asked
    <2>2. v.row[1] = o.key /\ w.row[1] = p.key
        BY <2>1, ObjectRows
    <2>3. o = p
        BY <1>2, <2>2, StoreAssumption
    <2>4. /\ v \in Writes /\ w \in Writes
          /\ v.row[2] = 0 => v.val = o.val
          /\ w.row[2] = 0 => w.val = p.val
          /\ v.row[2] # 0 => v.val = o.kids[v.row[2]]
          /\ w.row[2] # 0 => w.val = p.kids[w.row[2]]
        BY <2>1, ObjectRows
    <2>5. v.val = w.val
        BY <1>2, <2>3, <2>4
    <2>. QED BY <1>2, <2>4, <2>5 DEF Writes
<1>. QED BY <1>1, <1>2

-----------------------------------------------------------------------------
(* The steps that begin a transaction                                      *)

LEMMA BeginWriteKeeps ==
    ASSUME IInv, NEW r \in Request, BeginWrite(r)
    PROVE  IInv'
<1>1. PICK op \in WriteOps, b \in Batches :
          Begin(r, [Idle EXCEPT !.pc = "write", !.op = op, !.batch = b,
                                !.todo = UNION {ConvertTo(o) : o \in b}],
                IF op \in Inserts THEN {o.key : o \in {x \in b : Holed(x)}} ELSE {})
    BY DEF BeginWrite
<1>. DEFINE T == UNION {ConvertTo(o) : o \in b}
            new == [Idle EXCEPT !.pc = "write", !.op = op, !.batch = b, !.todo = T]
            spoilt == IF op \in Inserts THEN {o.key : o \in {x \in b : Holed(x)}} ELSE {}
<1>2. T \in SUBSET Writes
    BY ConvertToType
<1>3. new \in Transaction
    BY <1>2, IdleType DEF Transaction
<1>4. /\ new.pc = "write" /\ new.op = op /\ new.batch = b /\ new.todo = T
      /\ new.own = <<>> /\ new.raced = {}
    BY DEF Idle
<1>5. spoilt \in SUBSET Key
    BY StoreAssumption
<1>6. \A o \in b : op \in Inserts => o.key \in spoilt \/ ~Holed(o)
    OBVIOUS
<1>7. Begin(r, new, spoilt)
    BY <1>1
<1>8. Asked(new) = T
    BY <1>4 DEF Asked
<1>. HIDE DEF new, spoilt, T
<1>9. WrittenSoFar(new, db, loose \cup spoilt)
    BY <1>4, <1>6, <1>8 DEF WrittenSoFar
<1>10. Proceeds(new, db, loose \cup spoilt)
    BY <1>4, <1>9, OpsDiffer DEF Proceeds, Writing, Deleting, Reading
<1>. QED BY <1>3, <1>4, <1>5, <1>7, <1>10, BeginKeeps

LEMMA BeginDeleteKeeps ==
    ASSUME IInv, NEW r \in Request, BeginDelete(r)
    PROVE  IInv'
<1>. DEFINE match(crit) == {k \in Key : db[<<k, 0>>] \in crit}
            new(crit, keys) == [Idle EXCEPT !.pc = "findKids", !.op = "DELETE",
                                            !.crit = crit, !.keys = keys]
            spoilt(crit, keys) == (match(crit) \cup UNION {Covers[k] : k \in keys}) \ keys
<1>1. PICK crit \in Criteria, keys \in SUBSET Key :
          keys \subseteq match(crit) /\ Begin(r, new(crit, keys), spoilt(crit, keys))
    BY DEF BeginDelete
<1>. DEFINE n == new(crit, keys)
            s == spoilt(crit, keys)
<1>2. keys \in SUBSET Key
    BY <1>1
<1>3. n \in Transaction
    BY <1>2, IdleType DEF Transaction
<1>4. /\ n.pc = "findKids" /\ n.op = "DELETE" /\ n.crit = crit /\ n.keys = keys
      /\ n.own = <<>> /\ n.raced = {}
    BY DEF Idle
<1>5. s \in SUBSET Key
    BY StoreAssumption
<1>6. ASSUME NEW k \in Key \ s
      PROVE  /\ db[<<k, 0>>] \in crit <=> k \in keys
             /\ \A j \in keys : k \in Covers[j] => k \in keys
    BY <1>1
<1>7. Begin(r, n, s)
    BY <1>1
<1>. HIDE DEF n, s
<1>8. DeletedSoFar(n, db, loose \cup s)
    <2>. SUFFICES ASSUME NEW k \in Key \ (loose \cup s) PROVE KeyDeleted(n, k, db)
        BY <1>4 DEF DeletedSoFar
    <2>. QED BY <1>4, <1>6 DEF KeyDeleted
<1>9. Proceeds(n, db, loose \cup s)
    BY <1>4, <1>8, OpsDiffer DEF Proceeds, Writing, Deleting, Reading
<1>. QED BY <1>3, <1>4, <1>5, <1>7, <1>9, BeginKeeps

LEMMA BeginReadKeeps ==
    ASSUME IInv, NEW r \in Request, BeginRead(r)
    PROVE  IInv'
<1>. DEFINE new(crit) == [Idle EXCEPT !.pc = "read", !.op = "READ", !.crit = crit]
<1>1. PICK crit \in Criteria : Begin(r, new(crit), {})
    BY DEF BeginRead
<1>. DEFINE n == new(crit)
<1>2. n \in Transaction
    BY IdleType DEF Transaction
<1>3. n.pc = "read" /\ n.op = "READ" /\ n.own = <<>> /\ n.raced = {}
    BY DEF Idle
<1>4. Begin(r, n, {})
    BY <1>1
<1>. HIDE DEF n
<1>5. Proceeds(n, db, loose \cup {})
    BY <1>3, OpsDiffer DEF Proceeds, Writing, Deleting, Reading, ReadSoFar
<1>6. {} \in SUBSET Key
    OBVIOUS
<1>. QED BY <1>2, <1>3, <1>4, <1>5, <1>6, BeginKeeps

-----------------------------------------------------------------------------
(* The steps of one transaction                                            *)

\* The transaction of a request that has one is of one of the three kinds.
LEMMA Kind ==
    ASSUME IInv, NEW r \in Request
    PROVE  /\ tx[r] \in Transaction /\ Proceeds(tx[r], db, loose)
           /\ tx[r].pc = "write" => Writing(tx[r])
           /\ tx[r].pc \in {"findKids", "deleteKids", "findRoots", "deleteRoots"} =>
                 Deleting(tx[r])
           /\ tx[r].pc \in {"read", "readRest", "count", "cut"} => Reading(tx[r])
           /\ tx[r].pc = "commit" => Writing(tx[r]) \/ Deleting(tx[r])
BY DEF IInv, TypeOK, Proceeds, Writing, Deleting, Reading

\* The row a statement writes becomes the transaction's as the invariant says.
LEMMA RowIsWritten ==
    ASSUME IInv, NEW r \in Request, Writing(tx[r]), NEW w \in tx[r].todo
    PROVE  \/ tx[r].op = "PATCH" /\ db[w.row] = NoRow /\ RowWritten(r, w) = tx[r].own
           \/ /\ tx[r].op = "PATCH" => db[w.row] # NoRow
              /\ RowWritten(r, w) = With(tx[r].own, {w.row},
                     IF tx[r].op = "PATCH" /\ w.val = Zero THEN db[w.row] ELSE w.val)
<1>1. WrittenSoFar(tx[r], db, loose)
    BY Kind DEF Proceeds
<1>2. w.row \notin DOMAIN tx[r].own
    <2>1. \A v \in Asked(tx[r]) : v.row = w.row => v = w
        BY <1>1, AskedRows DEF WrittenSoFar
    <2>. QED BY <1>1, <2>1 DEF WrittenSoFar
<1>3. See(r, w.row) = db[w.row]
    BY <1>2 DEF See
<1>. QED BY <1>3 DEF RowWritten

LEMMA WriteRowKeeps ==
    ASSUME IInv, NEW r \in Request, WriteRow(r)
    PROVE  IInv'
<1>. DEFINE t == tx[r]
<1>1. PICK w \in t.todo :
          Becomes(r, [t EXCEPT !.own = RowWritten(r, w), !.todo = t.todo \ {w},
                               !.pc = IF t.todo = {w} THEN "commit" ELSE "write"])
    BY DEF WriteRow
<1>. DEFINE own == RowWritten(r, w)
            new == [t EXCEPT !.own = own, !.todo = t.todo \ {w},
                             !.pc = IF t.todo = {w} THEN "commit" ELSE "write"]
<1>2. /\ t \in Transaction /\ t.pc = "write" /\ Writing(t) /\ WrittenSoFar(t, db, loose)
    BY Kind DEF WriteRow, Proceeds
<1>3. /\ new.pc \in {"write", "commit"}
      /\ new.pc = "commit" => t.todo = {w}
      /\ new.op = t.op /\ new.batch = t.batch /\ new.raced = t.raced
      /\ new.todo = t.todo \ {w} /\ new.own = own
    BY <1>2 DEF Transaction
<1>4. Becomes(r, new) /\ UNCHANGED <<db, loose>>
    BY <1>1 DEF WriteRow
<1>5. \/ t.op = "PATCH" /\ db[w.row] = NoRow /\ own = t.own
      \/ /\ t.op = "PATCH" => db[w.row] # NoRow
         /\ own = With(t.own, {w.row}, IF t.op = "PATCH" /\ w.val = Zero THEN db[w.row] ELSE w.val)
    BY <1>2, RowIsWritten
<1>6. /\ w \in Asked(t)
      /\ \A v \in Asked(t) \ t.todo : v.row # w.row
      /\ w.row \notin DOMAIN t.own
    <2>1. w \in Asked(t)
        BY <1>2 DEF WrittenSoFar
    <2>2. \A v \in Asked(t) : v.row = w.row => v = w
        BY <1>2, <2>1, AskedRows DEF WrittenSoFar
    <2>3. \A v \in Asked(t) \ t.todo : v.row # w.row
        BY <2>2
    <2>. QED BY <1>2, <2>1, <2>3 DEF WrittenSoFar
<1>7. Asked(new) = Asked(t)
    BY <1>3 DEF Asked
<1>8. \A v \in Asked(new) \ new.todo : v = w \/ v \in Asked(t) \ t.todo
    BY <1>3, <1>7
<1>9. \A row : row # w.row => /\ row \in DOMAIN own <=> row \in DOMAIN t.own
                              /\ row \in DOMAIN own => own[row] = t.own[row]
    BY <1>5 DEF With
<1>10. InFlight(r)
    BY <1>2 DEF InFlight
<1>. HIDE DEF new, own, t
<1>11. WrittenSoFar(new, db, loose)
    <2>1. \A row \in DOMAIN new.own : \E v \in Asked(new) \ new.todo : v.row = row
        <3>. SUFFICES ASSUME NEW row \in DOMAIN own
                      PROVE  \E v \in Asked(t) \ (t.todo \ {w}) : v.row = row
            BY <1>3, <1>7
        <3>1. CASE row = w.row
            BY <1>6, <3>1
        <3>2. CASE row # w.row
            BY <1>2, <1>9, <3>2 DEF WrittenSoFar
        <3>. QED BY <3>1, <3>2
    <2>2. ASSUME t.op \in Inserts, NEW v \in Asked(new) \ new.todo PROVE Inserted(new, v)
        <3>1. CASE v = w
            <4>1. own = With(t.own, {w.row}, w.val)
                BY <1>5, <2>2 DEF Inserts
            <4>. QED BY <1>3, <3>1, <4>1 DEF Inserted, With
        <3>2. CASE v \in Asked(t) \ t.todo
            <4>1. Inserted(t, v) /\ v.row # w.row
                BY <1>2, <1>6, <2>2, <3>2 DEF WrittenSoFar
            <4>. QED BY <1>3, <1>9, <4>1 DEF Inserted
        <3>. QED BY <1>8, <2>2, <3>1, <3>2
    <2>3. ASSUME t.op = "PATCH", NEW v \in Asked(new) \ new.todo, v.row[1] \notin loose
          PROVE  Updated(new, v, db)
        <3>1. CASE v = w
            <4>1. CASE db[w.row] = NoRow /\ own = t.own
                BY <1>3, <1>6, <3>1, <4>1 DEF Updated
            <4>2. CASE /\ db[w.row] # NoRow
                       /\ own = With(t.own, {w.row}, IF w.val = Zero THEN db[w.row] ELSE w.val)
                BY <1>3, <3>1, <4>2 DEF Updated, With
            <4>. QED BY <1>5, <2>3, <4>1, <4>2
        <3>2. CASE v \in Asked(t) \ t.todo
            <4>1. Updated(t, v, db) /\ v.row # w.row
                BY <1>2, <1>6, <2>3, <3>2 DEF WrittenSoFar
            <4>. QED BY <1>3, <1>9, <4>1 DEF Updated
        <3>. QED BY <1>8, <2>3, <3>1, <3>2
    <2>4. new.todo \subseteq Asked(new) /\ (new.pc = "commit" => new.todo = {})
        BY <1>2, <1>3, <1>7 DEF WrittenSoFar
    <2>. QED BY <1>2, <1>3, <2>1, <2>2, <2>3, <2>4 DEF WrittenSoFar
<1>12. Proceeds(new, db, loose)
    BY <1>2, <1>3, <1>11, OpsDiffer DEF Proceeds, Writing, Deleting, Reading
<1>13. TypeOK'
    BY WriteTypes DEF IInv
<1>. QED BY <1>3, <1>4, <1>10, <1>12, <1>13, OwnStep DEF t

LEMMA DeleteKeeps ==
    ASSUME IInv, NEW r \in Request,
           FindKids(r) \/ DeleteKids(r) \/ FindRoots(r) \/ DeleteRoots(r)
    PROVE  IInv'
<1>. DEFINE t == tx[r]
<1>1. /\ t \in Transaction /\ t.pc # "idle" /\ InFlight(r) /\ t.op = "DELETE"
      /\ DeletedSoFar(t, db, loose)
    <2>1. t.pc \in {"findKids", "deleteKids", "findRoots", "deleteRoots"}
        BY DEF FindKids, DeleteKids, FindRoots, DeleteRoots
    <2>2. t \in Transaction /\ Deleting(t) /\ Proceeds(t, db, loose)
        BY <2>1, Kind
    <2>. QED BY <2>1, <2>2 DEF InFlight, Deleting, Proceeds
<1>2. TypeOK'
    BY DeleteTypes DEF IInv
<1>. HIDE DEF t
\* It is enough that what the delete holds is as the invariant says.
<1>3. ASSUME NEW new, Becomes(r, new), UNCHANGED <<db, loose>>,
             new.pc \in {"deleteKids", "findRoots", "deleteRoots", "commit"},
             new.op = t.op, new.batch = t.batch, new.raced = t.raced,
             DeletedSoFar(new, db, loose)
      PROVE  IInv'
    <2>1. Proceeds(new, db, loose)
        BY <1>1, <1>3, OpsDiffer DEF Proceeds, Writing, Deleting, Reading
    <2>. QED BY <1>1, <1>2, <1>3, <2>1, OwnStep DEF t
<1>4. CASE FindKids(r)
    <2>. DEFINE F == ChildrenToDelete(r)
                new == [t EXCEPT !.pc = "deleteKids", !.found = F]
    <2>1. t.pc = "findKids" /\ Becomes(r, new) /\ UNCHANGED <<db, loose>>
        BY <1>4 DEF FindKids, t
    <2>2. /\ new.pc = "deleteKids" /\ new.op = t.op /\ new.batch = t.batch
          /\ new.raced = t.raced /\ new.own = t.own /\ new.crit = t.crit
          /\ new.keys = t.keys /\ new.found = F
        BY <1>1 DEF Transaction
    <2>3. F \subseteq ChildRows
        BY DEF ChildrenToDelete
    <2>. HIDE DEF new
    <2>4. ASSUME NEW k \in Key \ loose PROVE KeyDeleted(new, k, db)
        <3>1. KeyDeleted(t, k, db)
            BY <1>1 DEF DeletedSoFar
        <3>2. ASSUME NEW i \in 1..MaxKids
              PROVE  <<k, i>> \in F <=> k \in t.keys /\ db[<<k, i>>] # NoRow
            <4>1. <<k, i>> \in ChildRows
                BY StoreAssumption DEF ChildRows, RootRows, Row
            <4>2. (\E j \in t.keys : k \in Covers[j]) <=> k \in t.keys
                <5>1. k \in Covers[k]
                    BY StoreAssumption
                <5>. QED BY <3>1, <5>1 DEF KeyDeleted
            <4>. QED BY <4>1, <4>2 DEF ChildrenToDelete, t
        <3>. HIDE DEF F
        <3>. QED BY <2>1, <2>2, <3>1, <3>2 DEF KeyDeleted
    <2>. HIDE DEF F
    <2>5. DeletedSoFar(new, db, loose)
        BY <1>1, <2>2, <2>3, <2>4 DEF DeletedSoFar
    <2>. QED BY <1>3, <2>1, <2>2, <2>5
<1>5. CASE DeleteKids(r)
    <2>. DEFINE own == With(t.own, t.found, NoRow)
                new == [t EXCEPT !.pc = "findRoots", !.found = {}, !.own = own]
    <2>1. t.pc = "deleteKids" /\ Becomes(r, new) /\ UNCHANGED <<db, loose>>
        BY <1>5 DEF DeleteKids, t
    <2>2. /\ new.pc = "findRoots" /\ new.op = t.op /\ new.batch = t.batch
          /\ new.raced = t.raced /\ new.own = own /\ new.crit = t.crit
          /\ new.keys = t.keys /\ new.found = {}
        BY <1>1 DEF Transaction
    <2>3. /\ DOMAIN own = DOMAIN t.own \cup t.found
          /\ \A row \in DOMAIN own : own[row] = NoRow
        BY <1>1 DEF With, DeletedSoFar
    <2>. HIDE DEF new, own
    <2>4. ASSUME NEW k \in Key \ loose PROVE KeyDeleted(new, k, db)
        <3>1. KeyDeleted(t, k, db)
            BY <1>1 DEF DeletedSoFar
        <3>2. <<k, 0>> \notin t.found
            BY <1>1, <2>1 DEF DeletedSoFar, ChildRows, RootRows
        <3>. QED BY <2>1, <2>2, <2>3, <3>1, <3>2 DEF KeyDeleted
    <2>5. DeletedSoFar(new, db, loose)
        BY <1>1, <2>2, <2>3, <2>4 DEF DeletedSoFar
    <2>. QED BY <1>3, <2>1, <2>2, <2>5
<1>6. CASE FindRoots(r)
    <2>. DEFINE F == {row \in RootRows : db[row] \in t.crit}
                new == [t EXCEPT !.pc = "deleteRoots", !.found = F]
    <2>1. t.pc = "findRoots" /\ Becomes(r, new) /\ UNCHANGED <<db, loose>>
        BY <1>6 DEF FindRoots, t
    <2>2. /\ new.pc = "deleteRoots" /\ new.op = t.op /\ new.batch = t.batch
          /\ new.raced = t.raced /\ new.own = t.own /\ new.crit = t.crit
          /\ new.keys = t.keys /\ new.found = F
        BY <1>1 DEF Transaction
    <2>3. F \subseteq RootRows
        OBVIOUS
    <2>4. \A k \in Key : <<k, 0>> \in F <=> db[<<k, 0>>] \in t.crit
        BY DEF RootRows
    <2>. HIDE DEF new, F
    <2>5. ASSUME NEW k \in Key \ loose PROVE KeyDeleted(new, k, db)
        <3>1. KeyDeleted(t, k, db)
            BY <1>1 DEF DeletedSoFar
        <3>. QED BY <2>1, <2>2, <2>4, <3>1 DEF KeyDeleted
    <2>6. DeletedSoFar(new, db, loose)
        BY <1>1, <2>2, <2>3, <2>5 DEF DeletedSoFar
    <2>. QED BY <1>3, <2>1, <2>2, <2>6
<1>7. CASE DeleteRoots(r)
    <2>. DEFINE gone == {row \in t.found : db[row] \in t.crit}
                own == With(t.own, gone, NoRow)
                new == [t EXCEPT !.pc = "commit", !.found = {}, !.own = own]
    <2>1. t.pc = "deleteRoots" /\ Becomes(r, new) /\ UNCHANGED <<db, loose>>
        BY <1>7 DEF DeleteRoots, t
    <2>2. /\ new.pc = "commit" /\ new.op = t.op /\ new.batch = t.batch
          /\ new.raced = t.raced /\ new.own = own /\ new.crit = t.crit
          /\ new.keys = t.keys /\ new.found = {}
        BY <1>1 DEF Transaction
    <2>3. /\ DOMAIN own = DOMAIN t.own \cup gone
          /\ \A row \in DOMAIN own : own[row] = NoRow
        BY <1>1 DEF With, DeletedSoFar
    <2>. HIDE DEF new, own
    <2>4. ASSUME NEW k \in Key \ loose PROVE KeyDeleted(new, k, db)
        <3>1. KeyDeleted(t, k, db)
            BY <1>1 DEF DeletedSoFar
        <3>2. ASSUME NEW i \in 1..MaxKids PROVE <<k, i>> \notin gone
            BY <1>1, <2>1 DEF DeletedSoFar, RootRows
        <3>3. <<k, 0>> \in gone <=> db[<<k, 0>>] \in t.crit
            BY <2>1, <3>1 DEF KeyDeleted
        <3>. HIDE DEF gone
        <3>. QED BY <2>1, <2>2, <2>3, <3>1, <3>2, <3>3 DEF KeyDeleted
    <2>. HIDE DEF gone
    <2>5. DeletedSoFar(new, db, loose)
        BY <1>1, <2>2, <2>3, <2>4 DEF DeletedSoFar
    <2>. QED BY <1>3, <2>1, <2>2, <2>5
<1>. QED BY <1>4, <1>5, <1>6, <1>7

LEMMA ReadKeeps ==
    ASSUME IInv, NEW r \in Request, ReadTable(r) \/ ReadRest(r) \/ ReadCut(r)
    PROVE  IInv'
<1>. DEFINE t == tx[r]
<1>1. /\ t \in Transaction /\ t.pc \in {"read", "readRest"} /\ InFlight(r) /\ t.op = "READ"
      /\ ReadSoFar(t, db)
    <2>1. t.pc \in {"read", "readRest"}
        BY DEF ReadTable, ReadRest, ReadCut, ReadRows
    <2>2. t \in Transaction /\ Reading(t) /\ Proceeds(t, db, loose)
        BY <2>1, Kind
    <2>. QED BY <2>1, <2>2 DEF InFlight, Reading, Proceeds
<1>2. TypeOK'
    BY ReadTypes DEF IInv
<1>. HIDE DEF t
<1>3. ASSUME NEW pc \in {"readRest", "count", "cut"}, NEW seen,
             Becomes(r, [t EXCEPT !.pc = pc, !.seen = seen]), UNCHANGED <<db, loose>>,
             pc = "count" => DOMAIN seen = Row,
             pc # "cut" => \A row \in DOMAIN seen : row[1] \in t.raced \/ seen[row] = db[row]
      PROVE  IInv'
    <2>. DEFINE new == [t EXCEPT !.pc = pc, !.seen = seen]
    <2>1. /\ new.pc = pc /\ new.op = t.op /\ new.batch = t.batch /\ new.raced = t.raced
          /\ new.own = t.own /\ new.seen = seen
        BY <1>1 DEF Transaction
    <2>2. Becomes(r, new)
        BY <1>3
    <2>. HIDE DEF new
    <2>3. ReadSoFar(new, db)
        BY <1>1, <1>3, <2>1 DEF ReadSoFar
    <2>4. Proceeds(new, db, loose)
        BY <1>1, <2>1, <2>3, OpsDiffer DEF Proceeds, Writing, Deleting, Reading
    <2>. QED BY <1>1, <1>2, <1>3, <2>1, <2>2, <2>4, OwnStep DEF t
<1>4. CASE ReadTable(r)
    <2>1. PICK rows \in {RootRows, ChildRows} :
              Becomes(r, [t EXCEPT !.pc = "readRest", !.seen = [row \in rows |-> db[row]]])
        BY <1>4 DEF ReadTable, t
    <2>. DEFINE seen == [row \in rows |-> db[row]]
    <2>2. \A row \in DOMAIN seen : seen[row] = db[row]
        OBVIOUS
    <2>3. Becomes(r, [t EXCEPT !.pc = "readRest", !.seen = seen]) /\ UNCHANGED <<db, loose>>
        BY <1>4, <2>1 DEF ReadTable
    <2>. HIDE DEF seen
    <2>. QED BY <1>3, <2>2, <2>3
<1>5. CASE ReadRest(r) \/ ReadCut(r)
    <2>. DEFINE all(got) == [row \in Row |-> IF row \in DOMAIN t.seen THEN t.seen[row]
                                            ELSE IF row \in got THEN db[row] ELSE NoRow]
    <2>1. PICK got \in SUBSET Row, pc \in {"count", "cut"} :
              /\ t.pc = "readRest" /\ (pc = "count" => got = Row)
              /\ Becomes(r, [t EXCEPT !.pc = pc, !.seen = all(got)])
              /\ UNCHANGED <<db, loose>>
        <3>1. PICK got \in SUBSET Row, pc \in {"count", "cut"} :
                  ReadRows(r, got, pc) /\ (pc = "count" => got = Row)
            <4>1. CASE ReadRest(r)
                BY <4>1 DEF ReadRest
            <4>2. CASE ReadCut(r)
                BY <4>2 DEF ReadCut
            <4>. QED BY <1>5, <4>1, <4>2
        <3>2. [t EXCEPT !.pc = pc].seen = t.seen
            BY <1>1 DEF Transaction
        <3>. QED BY <3>1, <3>2 DEF ReadRows, t
    <2>. DEFINE seen == all(got)
    <2>2. /\ DOMAIN seen = Row
          /\ pc # "cut" => \A row \in DOMAIN seen : row[1] \in t.raced \/ seen[row] = db[row]
        BY <1>1, <2>1 DEF ReadSoFar
    <2>3. Becomes(r, [t EXCEPT !.pc = pc, !.seen = seen]) /\ UNCHANGED <<db, loose>>
        BY <2>1
    <2>. HIDE DEF seen
    <2>. QED BY <1>3, <2>2, <2>3
<1>. QED BY <1>4, <1>5

LEMMA EndKeeps ==
    ASSUME IInv, NEW r \in Request, Rollback(r) \/ Count(r) \/ CountFails(r)
    PROVE  IInv'
<1>1. Becomes(r, Idle) /\ UNCHANGED <<db, loose>>
    BY DEF Rollback, Count, CountFails, Ends
<1>2. Idle.pc = "idle" /\ Idle.own = <<>>
    BY DEF Idle
<1>3. Proceeds(Idle, db, loose)
    BY <1>2 DEF Proceeds, Writing, Deleting, Reading
<1>4. TypeOK'
    BY EndTypes DEF IInv
<1>. QED BY <1>1, <1>2, <1>3, <1>4, OwnStep

-----------------------------------------------------------------------------
(* What a commit stores                                                    *)

Given(o) == {i \in 1..Len(o.kids) : o.kids[i] # Nil}

\* A statement's row is what the tables hold for it after the commit, and other
\* rows stay.
LEMMA CommitWritesAsked ==
    ASSUME IInv, NEW r \in Request, Commit(r), Writing(tx[r])
    PROVE  /\ tx[r].batch \in Batches
           /\ \A w \in Asked(tx[r]) :
                 /\ tx[r].op \in Inserts => db'[w.row] = w.val
                 /\ tx[r].op = "PATCH" /\ w.row[1] \notin loose =>
                       /\ db[w.row] = NoRow => db'[w.row] = NoRow
                       /\ db[w.row] # NoRow =>
                             db'[w.row] = IF w.val = Zero THEN db[w.row] ELSE w.val
           /\ \A row \in Row : (\A w \in Asked(tx[r]) : w.row # row) => db'[row] = db[row]
<1>1. WrittenSoFar(tx[r], db, loose)
    BY Kind DEF Proceeds
<1>2. tx[r].pc = "commit" /\ tx[r].todo = {} /\ tx[r].batch \in Batches
    BY <1>1 DEF Commit, WrittenSoFar
<1>3. \A row \in Row : db'[row] = See(r, row)
    BY DEF Commit
<1>4. ASSUME NEW w \in Asked(tx[r])
      PROVE  /\ tx[r].op \in Inserts => db'[w.row] = w.val
             /\ tx[r].op = "PATCH" /\ w.row[1] \notin loose =>
                   /\ db[w.row] = NoRow => db'[w.row] = NoRow
                   /\ db[w.row] # NoRow =>
                         db'[w.row] = IF w.val = Zero THEN db[w.row] ELSE w.val
    <2>1. w.row \in Row
        BY <1>2, AskedRows
    <2>2. tx[r].op \in Inserts => Inserted(tx[r], w)
        BY <1>1, <1>2 DEF WrittenSoFar
    <2>3. tx[r].op = "PATCH" /\ w.row[1] \notin loose => Updated(tx[r], w, db)
        BY <1>1, <1>2 DEF WrittenSoFar
    <2>. QED BY <1>3, <2>1, <2>2, <2>3 DEF Inserted, Updated, See
<1>5. ASSUME NEW row \in Row, \A w \in Asked(tx[r]) : w.row # row
      PROVE  db'[row] = db[row]
    BY <1>1, <1>3, <1>5 DEF WrittenSoFar, See
<1>. QED BY <1>2, <1>4, <1>5

\* The writes of a batch for a key are those of the key's object.
LEMMA AskedOfObject ==
    ASSUME NEW t, t.batch \in Batches, NEW o \in t.batch
    PROVE  /\ [row |-> <<o.key, 0>>, val |-> o.val] \in Asked(t)
           /\ \A i \in Given(o) : [row |-> <<o.key, i>>, val |-> o.kids[i]] \in Asked(t)
           /\ \A i \in (1..MaxKids) \ Given(o) : \A w \in Asked(t) : w.row # <<o.key, i>>
<1>1. [row |-> <<o.key, 0>>, val |-> o.val] \in ConvertTo(o)
    BY DEF ConvertTo
<1>2. \A i \in Given(o) : [row |-> <<o.key, i>>, val |-> o.kids[i]] \in ConvertTo(o)
    BY DEF ConvertTo, Given
<1>3. ASSUME NEW i \in 1..MaxKids, NEW w \in Asked(t), w.row = <<o.key, i>>
      PROVE  i \in Given(o)
    <2>1. PICK p \in t.batch : w \in ConvertTo(p)
        BY DEF Asked
    <2>2. w.row[1] = p.key
        BY <2>1, ObjectRows
    <2>3. p = o
        BY <1>3, <2>2, StoreAssumption
    <2>4. w.row[2] # 0
        BY <1>3, StoreAssumption
    <2>5. w.row[2] \in 1..Len(o.kids) /\ o.kids[w.row[2]] # Nil
        BY <2>1, <2>3, <2>4, ObjectRows
    <2>. QED BY <1>3, <2>5 DEF Given
<1>. QED BY <1>1, <1>2, <1>3 DEF Asked

LEMMA KeyRows ==
    ASSUME NEW k \in Key
    PROVE  <<k, 0>> \in Row /\ \A i \in 1..MaxKids : <<k, i>> \in Row
BY StoreAssumption DEF Row

\* POST and PUT: the object's values, and what is there for the places it leaves
\* out.
LEMMA CommitInserts ==
    ASSUME IInv, NEW r \in Request, Commit(r), Writing(tx[r]), tx[r].op \in Inserts,
           NEW o \in tx[r].batch
    PROVE  /\ db'[<<o.key, 0>>] = o.val
           /\ \A i \in Given(o) : db'[<<o.key, i>>] = o.kids[i]
           /\ \A i \in (1..MaxKids) \ Given(o) : db'[<<o.key, i>>] = db[<<o.key, i>>]
<1>1. tx[r].batch \in Batches
    BY CommitWritesAsked
<1>2. o.key \in Key
    BY <1>1, ObjectParts
<1>3. db'[<<o.key, 0>>] = o.val
    <2>. DEFINE w == [row |-> <<o.key, 0>>, val |-> o.val]
    <2>1. w \in Asked(tx[r])
        BY <1>1, AskedOfObject
    <2>2. db'[w.row] = w.val
        BY <2>1, CommitWritesAsked
    <2>. QED BY <2>2
<1>4. ASSUME NEW i \in Given(o) PROVE db'[<<o.key, i>>] = o.kids[i]
    <2>. DEFINE w == [row |-> <<o.key, i>>, val |-> o.kids[i]]
    <2>1. w \in Asked(tx[r])
        BY <1>1, AskedOfObject
    <2>2. db'[w.row] = w.val
        BY <2>1, CommitWritesAsked
    <2>. QED BY <2>2
<1>5. ASSUME NEW i \in (1..MaxKids) \ Given(o) PROVE db'[<<o.key, i>>] = db[<<o.key, i>>]
    <2>1. \A w \in Asked(tx[r]) : w.row # <<o.key, i>>
        BY <1>1, AskedOfObject
    <2>2. <<o.key, i>> \in Row
        BY <1>2, KeyRows
    <2>. QED BY <2>1, <2>2, CommitWritesAsked
<1>. QED BY <1>3, <1>4, <1>5

\* PATCH: the rows that are there, with the values that are not zero.
LEMMA CommitPatches ==
    ASSUME IInv, NEW r \in Request, Commit(r), Writing(tx[r]), tx[r].op = "PATCH",
           NEW o \in tx[r].batch, o.key \notin loose
    PROVE  /\ db[<<o.key, 0>>] = NoRow => db'[<<o.key, 0>>] = NoRow
           /\ db[<<o.key, 0>>] # NoRow =>
                 db'[<<o.key, 0>>] = IF o.val = Zero THEN db[<<o.key, 0>>] ELSE o.val
           /\ \A i \in Given(o) :
                 /\ db[<<o.key, i>>] = NoRow => db'[<<o.key, i>>] = NoRow
                 /\ db[<<o.key, i>>] # NoRow =>
                       db'[<<o.key, i>>] = IF o.kids[i] = Zero THEN db[<<o.key, i>>] ELSE o.kids[i]
           /\ \A i \in (1..MaxKids) \ Given(o) : db'[<<o.key, i>>] = db[<<o.key, i>>]
<1>1. tx[r].batch \in Batches
    BY CommitWritesAsked
<1>2. o.key \in Key
    BY <1>1, ObjectParts
<1>3. /\ db[<<o.key, 0>>] = NoRow => db'[<<o.key, 0>>] = NoRow
      /\ db[<<o.key, 0>>] # NoRow =>
            db'[<<o.key, 0>>] = IF o.val = Zero THEN db[<<o.key, 0>>] ELSE o.val
    <2>. DEFINE w == [row |-> <<o.key, 0>>, val |-> o.val]
    <2>1. w \in Asked(tx[r])
        BY <1>1, AskedOfObject
    <2>2. w.row = <<o.key, 0>> /\ w.val = o.val /\ w.row[1] \notin loose
        OBVIOUS
    <2>. HIDE DEF w
    <2>3. /\ db[w.row] = NoRow => db'[w.row] = NoRow
          /\ db[w.row] # NoRow => db'[w.row] = IF w.val = Zero THEN db[w.row] ELSE w.val
        BY <2>1, <2>2, CommitWritesAsked
    <2>. QED BY <2>2, <2>3
<1>4. ASSUME NEW i \in Given(o)
      PROVE  /\ db[<<o.key, i>>] = NoRow => db'[<<o.key, i>>] = NoRow
             /\ db[<<o.key, i>>] # NoRow =>
                   db'[<<o.key, i>>] = IF o.kids[i] = Zero THEN db[<<o.key, i>>] ELSE o.kids[i]
    <2>. DEFINE w == [row |-> <<o.key, i>>, val |-> o.kids[i]]
    <2>1. w \in Asked(tx[r])
        BY <1>1, AskedOfObject
    <2>2. w.row = <<o.key, i>> /\ w.val = o.kids[i] /\ w.row[1] \notin loose
        OBVIOUS
    <2>. HIDE DEF w
    <2>3. /\ db[w.row] = NoRow => db'[w.row] = NoRow
          /\ db[w.row] # NoRow => db'[w.row] = IF w.val = Zero THEN db[w.row] ELSE w.val
        BY <2>1, <2>2, CommitWritesAsked
    <2>. QED BY <2>2, <2>3
<1>5. ASSUME NEW i \in (1..MaxKids) \ Given(o) PROVE db'[<<o.key, i>>] = db[<<o.key, i>>]
    <2>1. \A w \in Asked(tx[r]) : w.row # <<o.key, i>>
        BY <1>1, AskedOfObject
    <2>2. <<o.key, i>> \in Row
        BY <1>2, KeyRows
    <2>. QED BY <2>1, <2>2, CommitWritesAsked
<1>. QED BY <1>3, <1>4, <1>5

\* The rows of a key the batch has no object for stay.
LEMMA CommitLeaves ==
    ASSUME IInv, NEW r \in Request, Commit(r), Writing(tx[r]), NEW row \in Row,
           row[1] \notin Touches(tx[r])
    PROVE  db'[row] = db[row] /\ row \notin DOMAIN tx[r].own
<1>1. tx[r].batch \in Batches /\ WrittenSoFar(tx[r], db, loose)
    BY CommitWritesAsked, Kind DEF Proceeds
<1>2. Touches(tx[r]) = {o.key : o \in tx[r].batch}
    BY OpsDiffer DEF Touches, Writing
<1>3. \A w \in Asked(tx[r]) : w.row[1] \in {o.key : o \in tx[r].batch}
    BY <1>1, AskedRows
<1>4. \A w \in Asked(tx[r]) : w.row # row
    BY <1>2, <1>3
<1>. QED BY <1>1, <1>4, CommitWritesAsked DEF WrittenSoFar

\* A delete: all rows of a matching key, and none of another.
LEMMA CommitDeletes ==
    ASSUME IInv, NEW r \in Request, Commit(r), Deleting(tx[r]), NEW k \in Key \ loose
    PROVE  /\ db[<<k, 0>>] \in tx[r].crit =>
                 db'[<<k, 0>>] = NoRow /\ \A i \in 1..MaxKids : db'[<<k, i>>] = NoRow
           /\ db[<<k, 0>>] \notin tx[r].crit =>
                 /\ db'[<<k, 0>>] = db[<<k, 0>>]
                 /\ \A i \in 1..MaxKids : db'[<<k, i>>] = db[<<k, i>>]
<1>1. DeletedSoFar(tx[r], db, loose) /\ tx[r].pc = "commit"
    BY Kind DEF Proceeds, Commit
<1>2. \A row \in Row : db'[row] = IF row \in DOMAIN tx[r].own THEN NoRow ELSE db[row]
    BY <1>1 DEF Commit, See, DeletedSoFar
<1>3. KeyDeleted(tx[r], k, db) /\ Whole(db, k)
    BY <1>1 DEF DeletedSoFar, IInv
<1>4. <<k, 0>> \in Row /\ \A i \in 1..MaxKids : <<k, i>> \in Row
    BY KeyRows
<1>. QED BY <1>1, <1>2, <1>3, <1>4 DEF KeyDeleted, Whole

\* A commit leaves the rows of every key those of an object.
LEMMA CommitWhole ==
    ASSUME IInv, NEW r \in Request, Commit(r), NEW k \in Key \ loose
    PROVE  Whole(db', k)
<1>1. Whole(db, k) /\ (Writing(tx[r]) \/ Deleting(tx[r]))
    BY Kind DEF IInv, Commit
<1>2. <<k, 0>> \in Row /\ \A i \in 1..MaxKids : <<k, i>> \in Row
    BY KeyRows
<1>3. CASE Deleting(tx[r])
    BY <1>1, <1>3, CommitDeletes DEF Whole
<1>4. CASE Writing(tx[r]) /\ k \notin Touches(tx[r])
    <2>1. db'[<<k, 0>>] = db[<<k, 0>>] /\ \A i \in 1..MaxKids : db'[<<k, i>>] = db[<<k, i>>]
        BY <1>2, <1>4, CommitLeaves
    <2>. QED BY <1>1, <2>1 DEF Whole
<1>5. CASE Writing(tx[r]) /\ k \in Touches(tx[r])
    <2>1. PICK o \in tx[r].batch : o.key = k
        BY <1>5, OpsDiffer DEF Touches, Writing
    <2>2. tx[r].batch \in Batches /\ WrittenSoFar(tx[r], db, loose)
        BY <1>5, CommitWritesAsked, Kind DEF Proceeds
    <2>3. /\ o.val \in Val /\ NoRow \notin Val
          /\ \A i \in Given(o) : o.kids[i] \in Val /\ i \in 1..MaxKids
        BY <2>2, ObjectParts, StoreAssumption DEF Given
    <2>4. CASE tx[r].op \in Inserts
        <3>1. /\ db'[<<k, 0>>] = o.val
              /\ \A i \in Given(o) : db'[<<k, i>>] = o.kids[i]
              /\ \A i \in (1..MaxKids) \ Given(o) : db'[<<k, i>>] = db[<<k, i>>]
            BY <1>5, <2>1, <2>4, CommitInserts
        <3>2. ~Holed(o)
            BY <2>1, <2>2, <2>4 DEF WrittenSoFar
        <3>3. ASSUME NEW i \in 1..MaxKids, NEW j \in Given(o), i < j PROVE i \in Given(o)
            <4>1. Len(o.kids) \in Nat /\ MaxKids \in Nat
                BY <2>2, ObjectParts, StoreAssumption
            <4>2. i \in 1..Len(o.kids) /\ j \in 1..Len(o.kids) /\ o.kids[j] # Nil
                BY <3>3, <4>1 DEF Given
            <4>. QED BY <3>2, <3>3, <4>2 DEF Holed, Given
        <3>4. ASSUME NEW i \in 1..MaxKids, NEW j \in 1..MaxKids, i < j, db'[<<k, j>>] # NoRow
              PROVE  db'[<<k, i>>] # NoRow
            <4>1. CASE i \in Given(o)
                BY <2>3, <3>1, <4>1
            <4>2. CASE i \notin Given(o)
                <5>1. j \notin Given(o)
                    BY <3>3, <3>4, <4>2
                <5>2. db[<<k, j>>] # NoRow
                    BY <3>1, <3>4, <5>1
                <5>3. db[<<k, i>>] # NoRow
                    BY <1>1, <3>4, <5>2 DEF Whole
                <5>. QED BY <3>1, <4>2, <5>3
            <4>. QED BY <4>1, <4>2
        <3>. QED BY <2>3, <3>1, <3>4 DEF Whole
    <2>5. CASE tx[r].op = "PATCH"
        \* No row comes or goes.
        <3>1. db[<<k, 0>>] = NoRow <=> db'[<<k, 0>>] = NoRow
            BY <1>5, <2>1, <2>3, <2>5, CommitPatches
        <3>2. ASSUME NEW i \in 1..MaxKids PROVE db[<<k, i>>] = NoRow <=> db'[<<k, i>>] = NoRow
            <4>1. CASE i \in Given(o)
                <5>1. o.kids[i] \in Val
                    BY <2>3, <4>1
                <5>. QED BY <1>5, <2>1, <2>3, <2>5, <4>1, <5>1, CommitPatches
            <4>2. CASE i \notin Given(o)
                BY <1>5, <2>1, <2>5, <4>2, CommitPatches
            <4>. QED BY <4>1, <4>2
        <3>. QED BY <1>1, <3>1, <3>2 DEF Whole
    <2>. QED BY <1>5, <2>4, <2>5, OpsDiffer DEF Writing, Inserts
<1>. QED BY <1>1, <1>3, <1>4, <1>5

\* What another transaction has done so far is undisturbed by the commit, whose
\* deleted rows are gone from what a statement of it found.
LEMMA CommitSpares ==
    ASSUME IInv, NEW r \in Request, Commit(r), NEW x \in Request \ {r}, InFlight(x),
           NEW u, u = tx'[x]
    PROVE  /\ Proceeds(u, db', loose)
           /\ u.pc = tx[x].pc /\ u.op = tx[x].op /\ u.batch = tx[x].batch
           /\ u.raced = tx[x].raced
<1>. DEFINE t == tx[x]
            own == tx[r].own
            gone == {row \in DOMAIN own : own[row] = NoRow}
<1>1. /\ t \in Transaction /\ tx[r] \in Transaction /\ Proceeds(t, db, loose)
      /\ t.pc # "idle" /\ (Writing(t) \/ Deleting(t) \/ Reading(t))
    BY Kind DEF InFlight, Proceeds
<1>2. u = [t EXCEPT !.found = t.found \ gone]
    BY DEF Commit
<1>3. /\ u.pc = t.pc /\ u.op = t.op /\ u.batch = t.batch /\ u.todo = t.todo
      /\ u.own = t.own /\ u.crit = t.crit /\ u.keys = t.keys
      /\ u.found = t.found \ gone /\ u.seen = t.seen /\ u.raced = t.raced
    BY <1>1, <1>2 DEF Transaction
<1>4. \A row \in Row : db'[row] = IF row \in DOMAIN own THEN own[row] ELSE db[row]
    BY DEF Commit, See
<1>5. Apart(tx[r], t, loose) /\ Apart(t, tx[r], loose)
    BY DEF IInv, AllApart, InFlight, Commit
<1>6. DOMAIN own \cap DOMAIN t.own = {}
    BY DEF IInv, TypeOK
<1>7. (Writing(tx[r]) \/ Deleting(tx[r])) /\ tx[r].op # "READ"
    BY Kind, OpsDiffer DEF Commit, Writing, Deleting
<1>8. Deleting(tx[r]) => tx[r].op = "DELETE" /\ Touches(tx[r]) = Key
    BY DEF Deleting, Touches
<1>. HIDE DEF t, own, gone
<1>9. ASSUME Writing(t) PROVE WrittenSoFar(u, db', loose)
    <2>1. WrittenSoFar(t, db, loose)
        BY <1>1, <1>9 DEF Proceeds
    <2>2. Asked(u) = Asked(t)
        BY <1>3 DEF Asked
    <2>3. \A w : Inserted(t, w) => Inserted(u, w)
        BY <1>3 DEF Inserted
    <2>4. ASSUME t.op = "PATCH", NEW w \in Asked(t) \ t.todo, w.row[1] \notin loose
          PROVE  Updated(u, w, db')
        <3>1. Updated(t, w, db) /\ w.row \in Row /\ w.row[1] \in Touches(t) /\ w.row[1] \in Key
            <4>1. t.batch \in Batches
                BY <2>1 DEF WrittenSoFar
            <4>2. w.row \in Row /\ w.row[1] \in {o.key : o \in t.batch}
                BY <4>1, AskedRows
            <4>3. w.row[1] \in Touches(t)
                BY <1>9, <4>2, OpsDiffer DEF Touches, Writing
            <4>4. Updated(t, w, db)
                BY <2>1, <2>4 DEF WrittenSoFar
            <4>. QED BY <1>1, <4>2, <4>3, <4>4, TouchesKeys
        <3>2. w.row[1] \in Touches(tx[r]) => ~Clash(tx[r].op, "PATCH")
            BY <1>5, <2>4, <3>1 DEF Apart
        <3>3. "PATCH" \in WriteOps
            BY <1>9, <2>4 DEF Writing
        <3>4. Writing(tx[r])
            BY <1>7, <1>8, <3>1, <3>2, <3>3 DEF Clash
        <3>5. CASE w.row \in DOMAIN t.own
            \* Its row is locked.
            <4>1. db'[w.row] = db[w.row]
                BY <1>4, <1>6, <3>1, <3>5
            <4>. QED BY <1>3, <3>1, <4>1 DEF Updated
        <3>6. CASE w.row \notin DOMAIN t.own
            <4>1. db[w.row] = NoRow
                BY <3>1, <3>6 DEF Updated
            <4>2. db'[w.row] = NoRow
                <5>1. CASE w.row[1] \notin Touches(tx[r])
                    BY <3>1, <3>4, <4>1, <5>1, CommitLeaves
                <5>2. CASE w.row[1] \in Touches(tx[r])
                    <6>1. tx[r].op \notin Inserts
                        BY <3>2, <5>2 DEF Clash
                    <6>2. tx[r].op = "PATCH"
                        BY <3>4, <6>1, OpsDiffer DEF Writing, Inserts
                    <6>3. CASE \E v \in Asked(tx[r]) : v.row = w.row
                        <7>1. PICK v \in Asked(tx[r]) : v.row = w.row
                            BY <6>3
                        <7>. QED BY <2>4, <3>4, <4>1, <6>2, <7>1, CommitWritesAsked
                    <6>4. CASE \A v \in Asked(tx[r]) : v.row # w.row
                        BY <3>1, <3>4, <4>1, <6>4, CommitWritesAsked
                    <6>. QED BY <6>3, <6>4
                <5>. QED BY <5>1, <5>2
            <4>. QED BY <1>3, <3>6, <4>2 DEF Updated
        <3>. QED BY <3>5, <3>6
    <2>. QED BY <1>3, <2>1, <2>2, <2>3, <2>4 DEF WrittenSoFar
<1>10. ASSUME Deleting(t) PROVE DeletedSoFar(u, db', loose)
    <2>1. DeletedSoFar(t, db, loose) /\ t.op = "DELETE" /\ Touches(t) = Key
        BY <1>1, <1>10 DEF Proceeds, Deleting, Touches
    \* The only rows of the key that change are those another delete takes.
    <2>2. ASSUME NEW row \in Row, row[1] \in Key \ loose
          PROVE  /\ row \in gone <=> row \in DOMAIN own
                 /\ db'[row] = IF row \in gone THEN NoRow ELSE db[row]
        <3>1. CASE Deleting(tx[r])
            <4>1. \A q \in DOMAIN own : own[q] = NoRow
                BY <3>1, Kind DEF Proceeds, DeletedSoFar, own
            <4>. QED BY <1>4, <4>1 DEF gone
        <3>2. CASE Writing(tx[r])
            <4>1. row[1] \notin Touches(tx[r])
                BY <1>5, <2>1, <2>2, <3>2 DEF Apart, Clash, Writing
            <4>2. db'[row] = db[row] /\ row \notin DOMAIN own
                BY <3>2, <4>1, CommitLeaves DEF own
            <4>. QED BY <4>2 DEF gone
        <3>. QED BY <1>7, <3>1, <3>2
    <2>3. NoRow \notin t.crit
        BY <2>1, StoreAssumption DEF DeletedSoFar
    <2>4. ASSUME NEW k \in Key \ loose PROVE KeyDeleted(u, k, db')
        <3>1. KeyDeleted(t, k, db)
            BY <2>1 DEF DeletedSoFar
        <3>2. /\ <<k, 0>> \in gone <=> <<k, 0>> \in DOMAIN own
              /\ db'[<<k, 0>>] = IF <<k, 0>> \in gone THEN NoRow ELSE db[<<k, 0>>]
            BY <2>2, KeyRows
        <3>3. ASSUME NEW i \in 1..MaxKids
              PROVE  /\ <<k, i>> \in gone <=> <<k, i>> \in DOMAIN own
                     /\ db'[<<k, i>>] = IF <<k, i>> \in gone THEN NoRow ELSE db[<<k, i>>]
            BY <2>2, KeyRows
        <3>. QED BY <1>3, <1>6, <2>3, <3>1, <3>2, <3>3 DEF KeyDeleted
    <2>. QED BY <1>3, <2>1, <2>4 DEF DeletedSoFar
<1>11. ASSUME Reading(t) PROVE ReadSoFar(u, db')
    <2>1. ReadSoFar(t, db) /\ t.op = "READ"
        BY <1>1, <1>11 DEF Proceeds, Reading
    <2>2. Touches(tx[r]) \subseteq t.raced
        BY <1>5, <1>7, <2>1 DEF Apart
    <2>3. ASSUME NEW row \in DOMAIN t.seen, row[1] \notin t.raced PROVE db'[row] = db[row]
        <3>1. row \in Row
            <4>1. PICK S \in {{}, RootRows, ChildRows, Row} : t.seen \in [S -> Val \cup {NoRow}]
                BY <1>1 DEF Transaction
            <4>. QED BY <4>1, StoreAssumption DEF RootRows, ChildRows, Row
        <3>2. row[1] \in Key /\ row[1] \notin Touches(tx[r])
            BY <2>2, <2>3, <3>1 DEF Row
        <3>3. Writing(tx[r])
            BY <1>7, <1>8, <3>2
        <3>. QED BY <3>1, <3>2, <3>3, CommitLeaves
    <2>. QED BY <1>3, <2>1, <2>3 DEF ReadSoFar
<1>12. /\ Writing(u) <=> Writing(t)
       /\ Deleting(u) <=> Deleting(t)
       /\ Reading(u) <=> Reading(t)
    BY <1>3 DEF Writing, Deleting, Reading
<1>13. Proceeds(u, db', loose)
    BY <1>1, <1>3, <1>9, <1>10, <1>11, <1>12 DEF Proceeds
<1>. QED BY <1>3, <1>13 DEF t

LEMMA CommitKeeps ==
    ASSUME IInv, NEW r \in Request, Commit(r)
    PROVE  IInv'
<1>1. tx'[r] = Idle /\ loose' = loose
    BY DEF Commit
<1>2. Idle.pc = "idle" /\ Idle.own = <<>>
    BY DEF Idle
<1>3. \A x \in Request \ {r} : tx[x].pc = "idle" => tx'[x].pc = "idle" /\ tx'[x].own = <<>>
    <2>. SUFFICES ASSUME NEW x \in Request \ {r}, tx[x].pc = "idle"
                  PROVE  tx'[x].pc = "idle" /\ tx'[x].own = <<>>
        OBVIOUS
    <2>1. tx[x] \in Transaction /\ Proceeds(tx[x], db, loose)
        BY Kind
    <2>. DEFINE gone == {row \in DOMAIN tx[r].own : tx[r].own[row] = NoRow}
    <2>2. tx'[x] = [tx[x] EXCEPT !.found = tx[x].found \ gone]
        BY DEF Commit
    <2>3. tx'[x].pc = tx[x].pc /\ tx'[x].own = tx[x].own
        BY <2>1, <2>2 DEF Transaction
    <2>. QED BY <2>1, <2>3 DEF Proceeds
<1>4. ASSUME NEW x \in Request \ {r}, InFlight(x)
      PROVE  /\ Proceeds(tx'[x], db', loose)
             /\ tx'[x].pc = tx[x].pc /\ tx'[x].op = tx[x].op /\ tx'[x].batch = tx[x].batch
             /\ tx'[x].raced = tx[x].raced
    BY <1>4, CommitSpares
<1>5. ASSUME NEW x \in Request PROVE Proceeds(tx'[x], db', loose')
    <2>1. CASE x = r
        BY <1>1, <1>2, <2>1 DEF Proceeds, Writing, Deleting, Reading
    <2>2. CASE x # r /\ tx[x].pc = "idle"
        BY <1>3, <2>2 DEF Proceeds, Writing, Deleting, Reading
    <2>3. CASE x # r /\ InFlight(x)
        BY <1>1, <1>4, <2>3
    <2>. QED BY <2>1, <2>2, <2>3 DEF InFlight
<1>6. ASSUME NEW x \in Request, NEW y \in Request, x # y,
             tx'[x].pc # "idle", tx'[y].pc # "idle"
      PROVE  Home[x] # Home[y] /\ Apart(tx'[x], tx'[y], loose')
    <2>1. x # r /\ y # r /\ InFlight(x) /\ InFlight(y)
        BY <1>1, <1>2, <1>3, <1>6 DEF InFlight
    <2>2. Home[x] # Home[y] /\ Apart(tx[x], tx[y], loose)
        BY <1>6, <2>1 DEF IInv, AllApart
    <2>3. /\ tx'[x].op = tx[x].op /\ tx'[x].batch = tx[x].batch /\ tx'[x].raced = tx[x].raced
          /\ tx'[y].op = tx[y].op /\ tx'[y].batch = tx[y].batch /\ tx'[y].raced = tx[y].raced
        BY <1>4, <2>1
    <2>. QED BY <1>1, <2>2, <2>3 DEF Apart, Touches
<1>7. AllApart'
    BY <1>6 DEF AllApart, InFlight
<1>8. TypeOK'
    BY EndTypes DEF IInv
<1>9. \A k \in Key \ loose' : Whole(db', k)
    BY <1>1, CommitWhole
<1>. QED BY <1>5, <1>7, <1>8, <1>9 DEF IInv

LEMMA InitInv == Init => IInv
<1>. SUFFICES ASSUME Init PROVE IInv
    OBVIOUS
<1>1. TypeOK
    BY InitTypes
<1>2. \A r \in Request : tx[r].pc = "idle" /\ tx[r].own = <<>>
    BY DEF Init, Idle
<1>3. \A r \in Request : Proceeds(tx[r], db, loose)
    BY <1>2 DEF Proceeds, Writing, Deleting, Reading
<1>4. AllApart
    BY <1>2 DEF AllApart, InFlight
<1>5. ASSUME NEW k \in Key PROVE Whole(db, k)
    BY KeyRows DEF Init, Whole
<1>. QED BY <1>1, <1>3, <1>4, <1>5 DEF IInv

LEMMA StepInv == IInv /\ [Next]_vars => IInv'
<1>. SUFFICES ASSUME IInv, [Next]_vars PROVE IInv'
    OBVIOUS
<1>1. CASE Next
    BY <1>1, BeginWriteKeeps, BeginDeleteKeeps, BeginReadKeeps, WriteRowKeeps, DeleteKeeps,
       ReadKeeps, EndKeeps, CommitKeeps DEF Next
<1>2. CASE UNCHANGED vars
    <2>1. TypeOK'
        BY <1>2 DEF vars, IInv, TypeOK
    <2>2. AllApart'
        BY <1>2 DEF vars, IInv, AllApart, InFlight
    <2>. QED BY <1>2, <2>1, <2>2 DEF vars, IInv
<1>. QED BY <1>1, <1>2

LEMMA Invariant == Spec => []IInv
BY InitInv, StepInv, PTL DEF Spec

-----------------------------------------------------------------------------
(* Children without a gap                                                  *)

\* A set of indices that has, with an index, those before it is an interval.
LEMMA Prefixes ==
    ASSUME NEW n \in Nat, NEW S \in SUBSET (1..n),
           \A i, j \in 1..n : i < j /\ j \in S => i \in S
    PROVE  Cardinality(S) \in 0..n /\ S = 1..Cardinality(S)
<1>1. IsFiniteSet(1..n) /\ Cardinality(1..n) = n
    BY FS_Interval
<1>2. IsFiniteSet(S) /\ Cardinality(S) <= n /\ Cardinality(S) \in Nat
    BY <1>1, FS_Subset, FS_CardinalityType
<1>. DEFINE c == Cardinality(S)
<1>3. ASSUME NEW j \in S PROVE j <= c
    <2>1. 1..j \subseteq S
        OBVIOUS
    <2>2. j \in Nat
        OBVIOUS
    <2>3. Cardinality(1..j) = j
        BY <2>2, FS_Interval
    <2>. QED BY <1>2, <2>1, <2>3, FS_Subset
<1>4. S \subseteq 1..c
    BY <1>2, <1>3
<1>5. IsFiniteSet(1..c) /\ Cardinality(1..c) = c
    BY <1>2, FS_Interval
<1>6. S = 1..c
    BY <1>4, <1>5, FS_Subset
<1>. QED BY <1>2, <1>6

\* The slice of an object whose rows are whole has the rows' values in order.
LEMMA WholeSlice ==
    ASSUME NEW t, NEW k, Whole(t, k)
    PROVE  /\ ~Panics(t, k)
           /\ Cardinality(Kids(t, k)) \in 0..MaxKids
           /\ Kids(t, k) = 1..Cardinality(Kids(t, k))
<1>1. Kids(t, k) \in SUBSET (1..MaxKids) /\ MaxKids \in Nat
    BY StoreAssumption DEF Kids
<1>2. \A i, j \in 1..MaxKids : i < j /\ j \in Kids(t, k) => i \in Kids(t, k)
    BY DEF Whole, Kids
<1>3. Cardinality(Kids(t, k)) \in 0..MaxKids /\ Kids(t, k) = 1..Cardinality(Kids(t, k))
    BY <1>1, <1>2, Prefixes
<1>4. ~Panics(t, k)
    <2>. DEFINE c == Cardinality(Kids(t, k))
    <2>1. c \in 0..MaxKids /\ Kids(t, k) = 1..c
        BY <1>3
    <2>. HIDE DEF c
    <2>2. \A i \in Kids(t, k) : ~(i > c)
        BY <1>1, <2>1
    <2>. QED BY <2>2 DEF Panics, c
<1>. QED BY <1>3, <1>4

-----------------------------------------------------------------------------
\* In every reachable state the rows of a key that is not given up are those of
\* an object: no child without its root, none missing among its siblings, none
\* left of a former object (DeleteRelational, convertRowsToSlice).
THEOREM ChildrenStayWhole == Spec => []ChildrenAreWhole
<1>1. IInv => ChildrenAreWhole
    <2>. SUFFICES ASSUME IInv, NEW k \in Key \ loose
                  PROVE  /\ db[<<k, 0>>] = NoRow => Kids(db, k) = {}
                         /\ ~Panics(db, k)
        BY DEF ChildrenAreWhole
    <2>1. Whole(db, k)
        BY DEF IInv
    <2>2. db[<<k, 0>>] = NoRow => Kids(db, k) = {}
        BY <2>1 DEF Whole, Kids
    <2>. QED BY <2>1, <2>2, WholeSlice
<1>. QED BY <1>1, Invariant, PTL

-----------------------------------------------------------------------------
(* What a commit does to the objects                                       *)

\* The object tables d hold under key k, and how many children.
ObjectIn(d, k) == IF d[<<k, 0>>] = NoRow THEN NoObject ELSE ConvertFrom(d, k)
Size(d, k) == Cardinality(Kids(d, k))

\* An object in the tables is the root's value and the children's in order, and
\* is not taken for none.
LEMMA ObjectInTables ==
    ASSUME NEW d \in Table, NEW k \in Key, Whole(d, k)
    PROVE  /\ Size(d, k) \in Nat /\ Kids(d, k) = 1..Size(d, k)
           /\ d[<<k, 0>>] = NoRow => ObjectIn(d, k) = NoObject /\ Size(d, k) = 0
           /\ d[<<k, 0>>] # NoRow =>
                 /\ ObjectIn(d, k) # NoObject
                 /\ ObjectIn(d, k) = [val |-> d[<<k, 0>>],
                                      kids |-> [i \in 1..Size(d, k) |-> d[<<k, i>>]]]
                 /\ ObjectIn(d, k).val = d[<<k, 0>>]
                 /\ Len(ObjectIn(d, k).kids) = Size(d, k)
                 /\ \A i \in 1..Size(d, k) : ObjectIn(d, k).kids[i] = d[<<k, i>>]
<1>1. Size(d, k) \in Nat /\ Kids(d, k) = 1..Size(d, k)
    BY WholeSlice DEF Size
<1>2. CASE d[<<k, 0>>] = NoRow
    <2>1. Kids(d, k) = {}
        BY <1>2 DEF Whole, Kids
    <2>2. Size(d, k) = 0
        BY <2>1, FS_EmptySet DEF Size
    <2>. QED BY <1>1, <1>2, <2>2 DEF ObjectIn
<1>3. CASE d[<<k, 0>>] # NoRow
    <2>. DEFINE n == Size(d, k)
                s == [i \in 1..n |-> d[<<k, i>>]]
    <2>1. ObjectIn(d, k) = [val |-> d[<<k, 0>>], kids |-> s]
        BY <1>3 DEF ObjectIn, ConvertFrom, Slice, Size
    <2>2. \A i \in 1..n : d[<<k, i>>] \in Val
        <3>1. \A i \in 1..MaxKids : d[<<k, i>>] \in Val \cup {NoRow}
            BY KeyRows DEF Table
        <3>. QED BY <1>1, <3>1 DEF Kids
    <2>3. d[<<k, 0>>] \in Val
        BY <1>3, KeyRows DEF Table
    <2>4. n \in Nat
        BY <1>1
    <2>. HIDE DEF n
    <2>5. s \in Seq(Val) /\ Len(s) = n
        BY <2>2, <2>4
    <2>6. ObjectIn(d, k) \in [val : Val, kids : Seq(Val)]
        BY <2>1, <2>3, <2>5
    <2>7. ObjectIn(d, k) # NoObject
        BY <2>6, StoreAssumption DEF NoObject
    <2>. QED BY <1>1, <1>3, <2>1, <2>5, <2>7 DEF n
<1>. QED BY <1>2, <1>3

\* Tables that agree on the rows of a key hold the same object under it.
LEMMA SameRowsSameObject ==
    ASSUME NEW d \in Table, NEW e \in Table, NEW k \in Key, Whole(d, k), Whole(e, k),
           e[<<k, 0>>] = d[<<k, 0>>], \A i \in 1..MaxKids : e[<<k, i>>] = d[<<k, i>>]
    PROVE  ObjectIn(e, k) = ObjectIn(d, k)
<1>1. Kids(e, k) = Kids(d, k)
    BY DEF Kids
<1>2. Size(e, k) = Size(d, k)
    BY <1>1 DEF Size
<1>3. \A i \in 1..Size(d, k) : e[<<k, i>>] = d[<<k, i>>]
    <2>1. Kids(d, k) = 1..Size(d, k)
        BY ObjectInTables
    <2>. QED BY <2>1 DEF Kids
<1>4. Slice(e, k) = Slice(d, k)
    BY <1>2, <1>3 DEF Slice, Size
<1>. QED BY <1>4 DEF ObjectIn, ConvertFrom

\* The object a batch has for a key is the one its CHOOSE picks.
LEMMA ChosenObject ==
    ASSUME NEW b \in Batches, NEW o \in b
    PROVE  /\ ~\A p \in b : p.key # o.key
           /\ (CHOOSE p \in b : p.key = o.key) = o
<1>1. \A p \in b : p.key = o.key => p = o
    BY StoreAssumption
<1>. QED BY <1>1

\* The abstract store counts as the tables do.
LEMMA SameCardinality ==
    ASSUME NEW S PROVE Store!Cardinality(S) = Cardinality(S)
BY DEF Store!Cardinality, Cardinality

\* What the commit of POST or PUT makes of a key's object.
LEMMA UpsertedObject ==
    ASSUME NEW d \in Table, NEW e \in Table, NEW k \in Key, Whole(d, k), Whole(e, k),
           NEW b \in Batches, NEW o \in b, o.key = k,
           e[<<k, 0>>] = o.val,
           \A i \in Given(o) : e[<<k, i>>] = o.kids[i],
           \A i \in (1..MaxKids) \ Given(o) : e[<<k, i>>] = d[<<k, i>>]
    PROVE  ObjectIn(e, k) =
               [val |-> o.val,
                kids |-> Store!Merged(IF ObjectIn(d, k) = NoObject THEN <<>>
                                      ELSE ObjectIn(d, k).kids, o.kids)]
<1>. DEFINE had == IF ObjectIn(d, k) = NoObject THEN <<>> ELSE ObjectIn(d, k).kids
            n == Size(d, k)
            m == Size(e, k)
<1>1. /\ n \in Nat /\ Kids(d, k) = 1..n /\ m \in Nat /\ Kids(e, k) = 1..m
    BY ObjectInTables
<1>2. /\ o.val \in Val /\ NoRow \notin Val
      /\ \A i \in Given(o) : o.kids[i] \in Val /\ i \in 1..MaxKids
    BY ObjectParts, StoreAssumption DEF Given
<1>3. Len(had) = n /\ \A i \in 1..n : had[i] = d[<<k, i>>]
    <2>1. CASE d[<<k, 0>>] = NoRow
        <3>1. had = <<>> /\ n = 0
            BY <2>1, ObjectInTables
        <3>. QED BY <3>1
    <2>2. CASE d[<<k, 0>>] # NoRow
        BY <2>2, ObjectInTables
    <2>. QED BY <2>1, <2>2
<1>4. Kids(e, k) = Kids(d, k) \cup Given(o)
    BY <1>2 DEF Kids
<1>5. ObjectIn(e, k) = [val |-> o.val, kids |-> [i \in 1..m |-> e[<<k, i>>]]]
    BY <1>2, ObjectInTables
<1>6. \A i \in 1..m : e[<<k, i>>] = IF i \in Given(o) THEN o.kids[i]
                                    ELSE IF i <= n THEN had[i] ELSE Nil
    <2>. SUFFICES ASSUME NEW i \in 1..m
                  PROVE  e[<<k, i>>] = IF i \in Given(o) THEN o.kids[i]
                                       ELSE IF i <= n THEN had[i] ELSE Nil
        OBVIOUS
    <2>1. CASE i \in Given(o)
        BY <2>1
    <2>2. CASE i \notin Given(o)
        <3>1. i \in 1..n /\ i \in 1..MaxKids
            BY <1>1, <1>4, <2>2 DEF Kids
        <3>. QED BY <1>3, <2>2, <3>1
    <2>. QED BY <2>1, <2>2
<1>7. Cardinality(1..n \cup Given(o)) = m
    BY <1>1, <1>4 DEF Size
<1>. HIDE DEF had, n, m
<1>8. Store!Merged(had, o.kids) =
          [i \in 1..m |-> IF i \in Given(o) THEN o.kids[i]
                          ELSE IF i <= n THEN had[i] ELSE Nil]
    <2>. DEFINE G == {i \in 1..Len(o.kids) : o.kids[i] # Nil}
    <2>1. Store!Merged(had, o.kids) =
              [i \in 1..Cardinality(1..Len(had) \cup G) |->
                  IF i \in G THEN o.kids[i] ELSE IF i <= Len(had) THEN had[i] ELSE Nil]
        BY SameCardinality DEF Store!Merged
    <2>2. G = Given(o)
        BY DEF Given
    <2>. HIDE DEF G
    <2>3. Cardinality(1..Len(had) \cup G) = m
        BY <1>3, <1>7, <2>2
    <2>. QED BY <1>3, <2>1, <2>2, <2>3
<1>9. Store!Merged(had, o.kids) = [i \in 1..m |-> e[<<k, i>>]]
    BY <1>6, <1>8
<1>. QED BY <1>5, <1>9 DEF had

\* What the commit of PATCH makes of a key's object.
LEMMA PatchedObject ==
    ASSUME NEW d \in Table, NEW e \in Table, NEW k \in Key, Whole(d, k), Whole(e, k),
           NEW b \in Batches, NEW o \in b, o.key = k, d[<<k, 0>>] # NoRow,
           e[<<k, 0>>] = (IF o.val = Zero THEN d[<<k, 0>>] ELSE o.val),
           \A i \in Given(o) :
              /\ d[<<k, i>>] = NoRow => e[<<k, i>>] = NoRow
              /\ d[<<k, i>>] # NoRow =>
                    e[<<k, i>>] = IF o.kids[i] = Zero THEN d[<<k, i>>] ELSE o.kids[i],
           \A i \in (1..MaxKids) \ Given(o) : e[<<k, i>>] = d[<<k, i>>]
    PROVE  LET old == ObjectIn(d, k)
           IN  ObjectIn(e, k) =
                   [val |-> Store!Kept(old.val, o.val),
                    kids |-> [i \in 1..Len(old.kids) |->
                                 IF i <= Len(o.kids) THEN Store!Kept(old.kids[i], o.kids[i])
                                 ELSE old.kids[i]]]
<1>. DEFINE old == ObjectIn(d, k)
            n == Size(d, k)
<1>1. /\ n \in Nat /\ Kids(d, k) = 1..n
      /\ old.val = d[<<k, 0>>] /\ Len(old.kids) = n
      /\ \A i \in 1..n : old.kids[i] = d[<<k, i>>]
    BY ObjectInTables
<1>2. /\ o.val \in Val /\ {NoRow, Nil} \cap Val = {} /\ Len(o.kids) \in Nat
      /\ \A i \in Given(o) : o.kids[i] \in Val /\ i \in 1..MaxKids
    BY ObjectParts, StoreAssumption DEF Given
<1>3. Kids(e, k) = Kids(d, k)
    <2>1. ASSUME NEW i \in 1..MaxKids PROVE e[<<k, i>>] = NoRow <=> d[<<k, i>>] = NoRow
        BY <1>2
    <2>. QED BY <2>1 DEF Kids
<1>4. Size(e, k) = n
    BY <1>3 DEF Size
<1>5. e[<<k, 0>>] = Store!Kept(old.val, o.val) /\ e[<<k, 0>>] # NoRow
    BY <1>1, <1>2 DEF Store!Kept
<1>6. ObjectIn(e, k) = [val |-> e[<<k, 0>>], kids |-> [i \in 1..n |-> e[<<k, i>>]]]
    BY <1>4, <1>5, ObjectInTables
<1>7. ASSUME NEW i \in 1..n
      PROVE  e[<<k, i>>] = IF i <= Len(o.kids) THEN Store!Kept(old.kids[i], o.kids[i])
                           ELSE old.kids[i]
    <2>1. i \in 1..MaxKids /\ d[<<k, i>>] # NoRow /\ old.kids[i] = d[<<k, i>>]
        BY <1>1 DEF Kids
    <2>2. i \in Given(o) <=> i <= Len(o.kids) /\ o.kids[i] # Nil
        BY <1>1, <1>2 DEF Given
    <2>. HIDE DEF old
    <2>. QED BY <1>2, <2>1, <2>2 DEF Store!Kept
<1>. HIDE DEF old, n
<1>8. [i \in 1..n |-> e[<<k, i>>]] =
          [i \in 1..Len(old.kids) |->
              IF i <= Len(o.kids) THEN Store!Kept(old.kids[i], o.kids[i]) ELSE old.kids[i]]
    BY <1>1, <1>7
<1>. QED BY <1>5, <1>6, <1>8 DEF old

\* A commit gives every object that is not given up what the request asks for.
LEMMA CommitStores ==
    ASSUME IInv, NEW r \in Request, Commit(r), NEW k \in Key \ loose
    PROVE  /\ Writing(tx[r]) /\ tx[r].op \in Inserts =>
                 ObjectIn(db', k) = Store!Upserted(k, tx[r].batch)
           /\ Writing(tx[r]) /\ tx[r].op = "PATCH" =>
                 ObjectIn(db', k) = Store!Patched(k, tx[r].batch)
           /\ Deleting(tx[r]) => ObjectIn(db', k) = Store!Removed(k, tx[r].crit)
<1>. DEFINE b == tx[r].batch
            objs == [j \in Key |-> Stored(j)]
<1>1. objs[k] = ObjectIn(db, k)
    BY DEF Stored, ObjectIn
<1>2. db \in Table /\ db' \in Table /\ Whole(db, k) /\ Whole(db', k)
    BY EndTypes, CommitWhole DEF IInv, TypeOK
<1>3. <<k, 0>> \in Row /\ \A i \in 1..MaxKids : <<k, i>> \in Row
    BY KeyRows
<1>4. ASSUME Writing(tx[r]), \A o \in b : o.key # k
      PROVE  ObjectIn(db', k) = ObjectIn(db, k)
    <2>1. k \notin Touches(tx[r])
        BY <1>4, OpsDiffer DEF Touches, Writing
    <2>2. db'[<<k, 0>>] = db[<<k, 0>>] /\ \A i \in 1..MaxKids : db'[<<k, i>>] = db[<<k, i>>]
        BY <1>3, <1>4, <2>1, CommitLeaves
    <2>. QED BY <1>2, <2>2, SameRowsSameObject
<1>5. ASSUME Writing(tx[r]), NEW o \in b, o.key = k
      PROVE  /\ b \in Batches
             /\ ~\A p \in b : p.key # k
             /\ (CHOOSE p \in b : p.key = k) = o
    <2>1. b \in Batches
        BY <1>5, CommitWritesAsked
    <2>. QED BY <1>5, <2>1, ChosenObject
<1>6. ASSUME Writing(tx[r]), tx[r].op \in Inserts
      PROVE  ObjectIn(db', k) = Store!Upserted(k, b)
    <2>1. CASE \A o \in b : o.key # k
        <3>1. Store!Upserted(k, b) = objs[k]
            BY <2>1 DEF Store!Upserted
        <3>. QED BY <1>1, <1>4, <1>6, <2>1, <3>1
    <2>2. ASSUME NEW o \in b, o.key = k PROVE ObjectIn(db', k) = Store!Upserted(k, b)
        <3>1. /\ b \in Batches /\ ~\A p \in b : p.key # k
              /\ (CHOOSE p \in b : p.key = k) = o
            BY <1>5, <1>6, <2>2
        <3>2. /\ db'[<<k, 0>>] = o.val
              /\ \A i \in Given(o) : db'[<<k, i>>] = o.kids[i]
              /\ \A i \in (1..MaxKids) \ Given(o) : db'[<<k, i>>] = db[<<k, i>>]
            BY <1>6, <2>2, CommitInserts
        <3>3. Store!Upserted(k, b) =
                  [val |-> o.val,
                   kids |-> Store!Merged(IF objs[k] = NoObject THEN <<>> ELSE objs[k].kids, o.kids)]
            BY <3>1 DEF Store!Upserted
        <3>. HIDE DEF objs, b
        <3>4. ObjectIn(db', k) =
                  [val |-> o.val,
                   kids |-> Store!Merged(IF ObjectIn(db, k) = NoObject THEN <<>>
                                         ELSE ObjectIn(db, k).kids, o.kids)]
            BY <1>2, <2>2, <3>1, <3>2, UpsertedObject
        <3>. QED BY <1>1, <3>3, <3>4
    <2>. QED BY <2>1, <2>2
<1>7. ASSUME Writing(tx[r]), tx[r].op = "PATCH"
      PROVE  ObjectIn(db', k) = Store!Patched(k, b)
    <2>1. CASE \A o \in b : o.key # k
        <3>1. Store!Patched(k, b) = objs[k]
            BY <2>1 DEF Store!Patched
        <3>. QED BY <1>1, <1>4, <1>7, <2>1, <3>1
    <2>2. ASSUME NEW o \in b, o.key = k PROVE ObjectIn(db', k) = Store!Patched(k, b)
        <3>1. /\ b \in Batches /\ ~\A p \in b : p.key # k
              /\ (CHOOSE p \in b : p.key = k) = o
            BY <1>5, <1>7, <2>2
        <3>2. /\ db[<<k, 0>>] = NoRow => db'[<<k, 0>>] = NoRow
              /\ db[<<k, 0>>] # NoRow =>
                    db'[<<k, 0>>] = IF o.val = Zero THEN db[<<k, 0>>] ELSE o.val
              /\ \A i \in Given(o) :
                    /\ db[<<k, i>>] = NoRow => db'[<<k, i>>] = NoRow
                    /\ db[<<k, i>>] # NoRow =>
                          db'[<<k, i>>] = IF o.kids[i] = Zero THEN db[<<k, i>>] ELSE o.kids[i]
              /\ \A i \in (1..MaxKids) \ Given(o) : db'[<<k, i>>] = db[<<k, i>>]
            BY <1>7, <2>2, CommitPatches
        <3>3. CASE db[<<k, 0>>] = NoRow
            <4>1. ObjectIn(db, k) = NoObject /\ ObjectIn(db', k) = NoObject
                BY <3>2, <3>3 DEF ObjectIn
            <4>2. Store!Patched(k, b) = objs[k]
                BY <1>1, <4>1 DEF Store!Patched
            <4>. QED BY <1>1, <4>1, <4>2
        <3>4. CASE db[<<k, 0>>] # NoRow
            <4>. DEFINE old == ObjectIn(db, k)
            <4>1. old # NoObject
                BY <1>2, <3>4, ObjectInTables
            <4>2. Store!Patched(k, b) =
                      [val |-> Store!Kept(objs[k].val, o.val),
                       kids |-> [i \in 1..Len(objs[k].kids) |->
                                    IF i <= Len(o.kids)
                                    THEN Store!Kept(objs[k].kids[i], o.kids[i])
                                    ELSE objs[k].kids[i]]]
                BY <1>1, <3>1, <4>1 DEF Store!Patched
            <4>. HIDE DEF objs, b
            <4>3. ObjectIn(db', k) =
                      [val |-> Store!Kept(old.val, o.val),
                       kids |-> [i \in 1..Len(old.kids) |->
                                    IF i <= Len(o.kids) THEN Store!Kept(old.kids[i], o.kids[i])
                                    ELSE old.kids[i]]]
                BY <1>2, <2>2, <3>1, <3>2, <3>4, PatchedObject
            <4>. HIDE DEF old
            <4>4. objs[k] = old
                BY <1>1 DEF old
            <4>. QED BY <4>2, <4>3, <4>4
        <3>. QED BY <3>3, <3>4
    <2>. QED BY <2>1, <2>2
<1>8. ASSUME Deleting(tx[r]) PROVE ObjectIn(db', k) = Store!Removed(k, tx[r].crit)
    <2>1. NoRow \notin tx[r].crit
        BY <1>8, Kind, StoreAssumption DEF Proceeds, DeletedSoFar
    <2>2. Store!Removed(k, tx[r].crit) =
              IF objs[k] # NoObject /\ objs[k].val \in tx[r].crit THEN NoObject ELSE objs[k]
        BY DEF Store!Removed
    <2>. HIDE DEF objs
    <2>3. objs[k] # NoObject /\ objs[k].val \in tx[r].crit <=> db[<<k, 0>>] \in tx[r].crit
        BY <1>1, <1>2, <2>1, ObjectInTables
    <2>4. CASE db[<<k, 0>>] \in tx[r].crit
        <3>1. db'[<<k, 0>>] = NoRow
            BY <1>8, <2>4, CommitDeletes
        <3>. QED BY <2>2, <2>3, <2>4, <3>1 DEF ObjectIn
    <2>5. CASE db[<<k, 0>>] \notin tx[r].crit
        <3>1. db'[<<k, 0>>] = db[<<k, 0>>] /\ \A i \in 1..MaxKids : db'[<<k, i>>] = db[<<k, i>>]
            BY <1>8, <2>5, CommitDeletes
        <3>2. ObjectIn(db', k) = ObjectIn(db, k)
            BY <1>2, <3>1, SameRowsSameObject
        <3>. QED BY <1>1, <2>2, <2>3, <2>5, <3>2
    <2>. QED BY <2>4, <2>5
<1>. QED BY <1>6, <1>7, <1>8

LEMMA StoredIsObjectIn ==
    ASSUME NEW k
    PROVE  Stored(k) = ObjectIn(db, k) /\ Stored(k)' = ObjectIn(db', k)
BY DEF Stored, ObjectIn, ConvertFrom, Slice, Kids

-----------------------------------------------------------------------------
\* In every behaviour, the commit of a request does to every object that is not
\* given up exactly what the request asks for: the write locks of Postgres, mtx
\* and the order of the statements of writeData and DeleteRelational make each
\* batch and each delete one step.
THEOREM CommitsAsRequested == Spec => CommitsStoreTheRequest
<1>1. ASSUME IInv, NEW r \in Request, Commit(r), NEW k \in Key \ loose
      PROVE  Stored(k)' = CASE tx[r].op \in Inserts -> Store!Upserted(k, tx[r].batch)
                            [] tx[r].op = "PATCH" -> Store!Patched(k, tx[r].batch)
                            [] tx[r].op = "DELETE" -> Store!Removed(k, tx[r].crit)
    <2>1. /\ Writing(tx[r]) \/ Deleting(tx[r])
          /\ Writing(tx[r]) => tx[r].op \in Inserts \/ tx[r].op = "PATCH"
          /\ Deleting(tx[r]) => tx[r].op = "DELETE"
        BY <1>1, Kind, OpsDiffer DEF Commit, Writing, Deleting, Inserts
    <2>2. "PATCH" \notin Inserts /\ "DELETE" \notin Inserts
        BY DEF Inserts
    <2>3. Stored(k)' = ObjectIn(db', k)
        BY StoredIsObjectIn
    <2>4. CASE Writing(tx[r]) /\ tx[r].op \in Inserts
        BY <1>1, <2>2, <2>3, <2>4, CommitStores
    <2>5. CASE Writing(tx[r]) /\ tx[r].op = "PATCH"
        BY <1>1, <2>2, <2>3, <2>5, CommitStores
    <2>6. CASE Deleting(tx[r])
        BY <1>1, <2>1, <2>2, <2>3, <2>6, CommitStores
    <2>. QED BY <2>1, <2>4, <2>5, <2>6
<1>2. IInv /\ [Next]_vars =>
          [\A r \in Request : Commit(r) =>
              \A k \in Key \ loose :
                  Stored(k)' = CASE tx[r].op \in Inserts -> Store!Upserted(k, tx[r].batch)
                                 [] tx[r].op = "PATCH" -> Store!Patched(k, tx[r].batch)
                                 [] tx[r].op = "DELETE" -> Store!Removed(k, tx[r].crit)]_vars
    BY <1>1
<1>. QED BY <1>2, Invariant, PTL DEF Spec, CommitsStoreTheRequest

\* The relational store implements the abstract one: every step either leaves
\* the objects that are not given up as they are or is one upsert, patch or
\* removal of whole objects (WriteRelational, DeleteRelational).
THEOREM StoreImplementsObjects == Spec => StoresObjects
<1>1. Init => Store!Init
    <2>. SUFFICES ASSUME Init PROVE Store!Init
        OBVIOUS
    <2>1. \A k \in Key : Stored(k) = NoObject
        BY KeyRows DEF Init, Stored
    <2>. QED BY <2>1 DEF Init, Store!Init
<1>2. IInv /\ [Next]_vars => [Store!Next]_Store!vars
    <2>. SUFFICES ASSUME IInv, [Next]_vars PROVE [Store!Next]_Store!vars
        OBVIOUS
    <2>1. CASE UNCHANGED db /\ loose \subseteq loose'
        <3>1. \A k \in Key : Stored(k)' = Stored(k)
            BY <2>1, StoredIsObjectIn
        <3>2. Store!Loosen
            BY <3>1 DEF Store!Loosen, Store!Firm
        <3>. QED BY <2>1, <3>2 DEF Store!Next
    <2>2. ASSUME NEW r \in Request, Commit(r) PROVE Store!Next
        <3>1. loose' = loose
            BY <2>2 DEF Commit
        <3>2. CASE Writing(tx[r])
            <4>1. tx[r].batch \in Batches
                BY <2>2, <3>2, CommitWritesAsked
            <4>2. CASE tx[r].op \in Inserts
                <5>1. \A k \in Key \ loose : Stored(k)' = Store!Upserted(k, tx[r].batch)
                    BY <2>2, <3>2, <4>2, CommitStores, StoredIsObjectIn
                <5>. QED BY <3>1, <4>1, <5>1 DEF Store!Next, Store!Upsert, Store!Firm
            <4>3. CASE tx[r].op = "PATCH"
                <5>1. \A k \in Key \ loose : Stored(k)' = Store!Patched(k, tx[r].batch)
                    BY <2>2, <3>2, <4>3, CommitStores, StoredIsObjectIn
                <5>. QED BY <3>1, <4>1, <5>1 DEF Store!Next, Store!Patch, Store!Firm
            <4>. QED BY <3>2, <4>2, <4>3, OpsDiffer DEF Writing, Inserts
        <3>3. CASE Deleting(tx[r])
            <4>1. tx[r].crit \in Criteria
                BY <3>3, Kind DEF Proceeds, DeletedSoFar
            <4>2. \A k \in Key \ loose : Stored(k)' = Store!Removed(k, tx[r].crit)
                BY <2>2, <3>3, CommitStores, StoredIsObjectIn
            <4>. QED BY <3>1, <4>1, <4>2 DEF Store!Next, Store!Remove, Store!Firm
        <3>. QED BY <2>2, <3>2, <3>3, Kind DEF Commit
    <2>3. ASSUME NEW r \in Request,
                 \/ BeginWrite(r) \/ BeginDelete(r) \/ BeginRead(r)
                 \/ WriteRow(r) \/ FindKids(r) \/ DeleteKids(r) \/ FindRoots(r) \/ DeleteRoots(r)
                 \/ ReadTable(r) \/ ReadRest(r) \/ ReadCut(r)
                 \/ Count(r) \/ CountFails(r) \/ Rollback(r)
          PROVE  UNCHANGED db /\ loose \subseteq loose'
        <3>1. CASE BeginWrite(r) \/ BeginDelete(r) \/ BeginRead(r)
            <4>1. \E new, spoilt : Begin(r, new, spoilt)
                BY <3>1 DEF BeginWrite, BeginDelete, BeginRead
            <4>. QED BY <4>1 DEF Begin
        <3>2. CASE ~(BeginWrite(r) \/ BeginDelete(r) \/ BeginRead(r))
            BY <2>3, <3>2 DEF WriteRow, FindKids, DeleteKids, FindRoots, DeleteRoots, ReadTable,
                              ReadRest, ReadCut, ReadRows, Count, CountFails, Ends, Rollback
        <3>. QED BY <3>1, <3>2
    <2>4. CASE Next
        BY <2>1, <2>2, <2>3, <2>4 DEF Next
    <2>5. CASE UNCHANGED vars
        BY <2>1, <2>5 DEF vars
    <2>. QED BY <2>4, <2>5
<1>. QED BY <1>1, <1>2, Invariant, PTL DEF Spec, StoresObjects, Store!Spec

\* A read that no write overlapped, and that is answered with the number of
\* records, has the matching objects as they are stored, whichever table it read
\* first (ReadRelational, readRows, MetaData).
THEOREM ReadsAnswerWholeObjects == Spec => ReadsAreWhole
<1>1. ASSUME IInv, NEW r \in Request, Count(r), NEW k \in Key \ (loose \cup tx[r].raced)
      PROVE  /\ k \in Answer(r) <=> Stored(k) # NoObject /\ Stored(k).val \in tx[r].crit
             /\ k \in Answer(r) => /\ ~Panics(tx[r].seen, k)
                                   /\ ConvertFrom(tx[r].seen, k) = Stored(k)
    <2>. DEFINE seen == tx[r].seen
    <2>1. tx[r] \in Transaction /\ tx[r].pc = "count" /\ ReadSoFar(tx[r], db)
        BY <1>1, Kind DEF Count, Proceeds
    <2>2. DOMAIN seen = Row
        BY <2>1 DEF ReadSoFar
    <2>3. seen[<<k, 0>>] = db[<<k, 0>>] /\ \A i \in 1..MaxKids : seen[<<k, i>>] = db[<<k, i>>]
        BY <1>1, <2>1, <2>2, KeyRows DEF ReadSoFar
    <2>4. db \in Table /\ Whole(db, k)
        BY <1>1 DEF IInv, TypeOK
    <2>5. seen \in Table
        <3>1. PICK S \in {{}, RootRows, ChildRows, Row} : seen \in [S -> Val \cup {NoRow}]
            BY <2>1 DEF Transaction
        <3>. QED BY <2>2, <3>1 DEF Table
    <2>6. Whole(seen, k)
        BY <2>3, <2>4 DEF Whole
    <2>7. NoRow \notin tx[r].crit
        BY <2>1, StoreAssumption DEF Transaction
    <2>8. Stored(k) = ObjectIn(db, k)
        BY StoredIsObjectIn
    <2>9. k \in Answer(r) <=> db[<<k, 0>>] \in tx[r].crit
        BY <2>3 DEF Answer
    <2>. HIDE DEF seen
    <2>10. ~Panics(seen, k)
        BY <2>6, WholeSlice
    <2>11. ASSUME db[<<k, 0>>] \in tx[r].crit PROVE ConvertFrom(seen, k) = Stored(k)
        <3>1. ObjectIn(seen, k) = ObjectIn(db, k)
            BY <2>3, <2>4, <2>5, <2>6, SameRowsSameObject
        <3>. QED BY <2>3, <2>7, <2>8, <2>11, <3>1 DEF ObjectIn
    <2>12. Stored(k) # NoObject /\ Stored(k).val \in tx[r].crit <=> db[<<k, 0>>] \in tx[r].crit
        BY <2>4, <2>7, <2>8, ObjectInTables
    <2>. QED BY <2>9, <2>10, <2>11, <2>12 DEF seen
<1>2. IInv /\ [Next]_vars =>
          [\A r \in Request : Count(r) =>
              \A k \in Key \ (loose \cup tx[r].raced) :
                  /\ k \in Answer(r) <=> Stored(k) # NoObject /\ Stored(k).val \in tx[r].crit
                  /\ k \in Answer(r) => /\ ~Panics(tx[r].seen, k)
                                        /\ ConvertFrom(tx[r].seen, k) = Stored(k)]_vars
    BY <1>1
<1>. QED BY <1>2, Invariant, PTL DEF Spec, ReadsAreWhole
=============================================================================
