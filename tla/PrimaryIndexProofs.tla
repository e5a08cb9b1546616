------------------------- MODULE PrimaryIndexProofs -------------------------
(***************************************************************************)
(* Proofs about PrimaryIndex, for every number of requests, records,       *)
(* batches and seconds.                                                    *)
(***************************************************************************)
EXTENDS PrimaryIndex, FiniteSetTheorems, TLAPS

-----------------------------------------------------------------------------
(* Lemmas about the operators                                              *)

\* An interval from 1 has as many elements as its bound says.
LEMMA CountTo ==
    ASSUME NEW n \in Nat
    PROVE  IsFiniteSet(1..n) /\ Cardinality(1..n) = n
<1>1. 1 \in Int /\ n \in Int
  OBVIOUS
<1>2. IsFiniteSet(1..n) /\ Cardinality(1..n) = IF 1 > n THEN 0 ELSE n - 1 + 1
  BY <1>1, FS_Interval
<1>3. (IF 1 > n THEN 0 ELSE n - 1 + 1) = n
  OBVIOUS
<1> QED BY <1>2, <1>3

\* A listing is a sequence of the matching keys (readRecKeys).
LEMMA ListingsAreKeys ==
    ASSUME NEW q \in Query, NEW t \in Table, NEW s \in Listings(q, t)
    PROVE  /\ s \in Seq(Key)
           /\ \A i \in 1..Len(s) : t[s[i]] # NoRow
<1>1. Matching(q, t) \subseteq Key
  BY DEF Matching, Present
<1>2. IsFiniteSet(Matching(q, t))
  BY <1>1, FS_Subset, IndexAssumption DEF IndexAssumption
<1>3. Cardinality(Matching(q, t)) \in Nat
  BY <1>2, FS_CardinalityType
<1>4. s \in [1..Cardinality(Matching(q, t)) -> Matching(q, t)]
  BY DEF Listings
<1>5. s \in Seq(Key) /\ Len(s) = Cardinality(Matching(q, t))
  BY <1>1, <1>3, <1>4
<1>6. \A i \in 1..Len(s) : s[i] \in Matching(q, t)
  BY <1>4, <1>5
<1> QED BY <1>5, <1>6 DEF Matching, Present

\* The positions found are some of the positions of the sequence.
LEMMA FoundFinite ==
    ASSUME NEW keys \in Seq(Key), NEW t
    PROVE  /\ Found(keys, t) \subseteq 1..Len(keys)
           /\ IsFiniteSet(Found(keys, t))
           /\ Cardinality(Found(keys, t)) \in Nat
<1>1. Found(keys, t) \subseteq 1..Len(keys)
  BY DEF Found
<1>2. IsFiniteSet(1..Len(keys))
  BY CountTo
<1>3. IsFiniteSet(Found(keys, t))
  BY <1>1, <1>2, FS_Subset
<1> QED BY <1>1, <1>3, FS_CardinalityType

\* Picking positions of a sequence gives a sequence of the same elements
\* (sortedRows, filteredKeys).
LEMMA PickedElements ==
    ASSUME NEW keys \in Seq(Key), NEW P \in SUBSET (1..Len(keys)),
           NEW idx \in InOrder(P)
    PROVE  /\ At(keys, idx) \in Seq(Key)
           /\ Len(At(keys, idx)) = Cardinality(P)
           /\ \A j \in 1..Len(At(keys, idx)) :
                 \E i \in P : At(keys, idx)[j] = keys[i]
<1>1. IsFiniteSet(1..Len(keys))
  BY CountTo
<1>2. IsFiniteSet(P)
  BY <1>1, FS_Subset
<1>3. Cardinality(P) \in Nat
  BY <1>2, FS_CardinalityType
<1>4. idx \in [1..Cardinality(P) -> P]
  BY DEF InOrder
<1>5. At(keys, idx) = [j \in 1..Cardinality(P) |-> keys[idx[j]]]
  BY <1>4 DEF At
<1>6. \A j \in 1..Cardinality(P) : idx[j] \in P /\ keys[idx[j]] \in Key
  <2>1. \A i \in P : keys[i] \in Key
    OBVIOUS
  <2> QED BY <1>4, <2>1
<1>7. At(keys, idx) \in [1..Cardinality(P) -> Key]
  BY <1>5, <1>6
<1>8. At(keys, idx) \in Seq(Key) /\ Len(At(keys, idx)) = Cardinality(P)
  BY <1>3, <1>7
<1> QED BY <1>5, <1>6, <1>8

\* The rows returned for keys are rows of those keys (readByRecKeys).
LEMMA RowsAreKeys ==
    ASSUME NEW keys \in Seq(Key), NEW got \in SUBSET (1..Len(keys)),
           NEW rows \in RowsOf(keys, got)
    PROVE  /\ rows \in Seq(Key)
           /\ Len(rows) <= Len(keys)
<1> DEFINE P == got \cap Slots(got)
<1>1. P \in SUBSET (1..Len(keys))
  OBVIOUS
<1>2. PICK idx \in InOrder(P) : rows = At(keys, idx)
  BY DEF RowsOf
<1>3. rows \in Seq(Key) /\ Len(rows) = Cardinality(P)
  BY <1>1, <1>2, PickedElements
<1>4. IsFiniteSet(1..Len(keys)) /\ Cardinality(1..Len(keys)) = Len(keys)
  BY CountTo
<1>5. Cardinality(P) <= Cardinality(1..Len(keys))
  BY <1>1, <1>4, FS_Subset
<1> QED BY <1>3, <1>4, <1>5

\* What comes of a result that breaks off is its beginning (readRecKeys).
LEMMA PrefixIsPart ==
    ASSUME NEW keys \in Seq(Key), NEW n \in 0..Len(keys)
    PROVE  /\ SubSeq(keys, 1, n) \in Seq(Key) /\ Len(SubSeq(keys, 1, n)) = n
           /\ \A i \in 1..n : SubSeq(keys, 1, n)[i] = keys[i]
           /\ n = Len(keys) => SubSeq(keys, 1, n) = keys
OBVIOUS

\* A page is a run of the keys (pageKeys).
LEMMA PageIsPart ==
    ASSUME NEW keys \in Seq(Key), NEW page \in Nat, NEW limit \in Nat \ {0}
    PROVE  /\ pageKeys(keys, page, limit) \in Seq(Key)
           /\ \A j \in 1..Len(pageKeys(keys, page, limit)) :
                 \E i \in 1..Len(keys) : pageKeys(keys, page, limit)[j] = keys[i]
<1> DEFINE first == page * limit + 1
           last == Least(page * limit + limit, Len(keys))
<1>1. page * limit \in Nat
  OBVIOUS
<1>2. first \in Nat /\ first >= 1
  BY <1>1
<1>3. last \in Nat /\ last <= Len(keys)
  BY <1>1 DEF Least
<1> HIDE DEF first, last
<1>4. SubSeq(keys, first, last) \in Seq(Key)
  BY <1>2, <1>3
<1>5. Len(SubSeq(keys, first, last)) = IF first <= last THEN last - first + 1 ELSE 0
  BY <1>2, <1>3
<1>6. \A j \in 1..Len(SubSeq(keys, first, last)) :
          SubSeq(keys, first, last)[j] = keys[first + j - 1]
  BY <1>2, <1>3, <1>5
<1>7. \A j \in 1..Len(SubSeq(keys, first, last)) : first + j - 1 \in 1..Len(keys)
  BY <1>2, <1>3, <1>5
<1>8. pageKeys(keys, page, limit) = SubSeq(keys, first, last)
  BY DEF pageKeys, first, last
<1> QED BY <1>4, <1>6, <1>7, <1>8

\* readByRecKeys indexes out of range only if one of its keys has no row: if
\* every key has one, the array is as long as the keys are many.
LEMMA OutOfRangeMissesARow ==
    ASSUME NEW keys \in Seq(Key), NEW t, OutOfRange(Found(keys, t))
    PROVE  \E i \in 1..Len(keys) : t[keys[i]] = NoRow
<1> SUFFICES ASSUME \A i \in 1..Len(keys) : t[keys[i]] # NoRow
             PROVE  FALSE
  OBVIOUS
<1>1. Found(keys, t) = 1..Len(keys)
  BY DEF Found
<1>2. Cardinality(1..Len(keys)) = Len(keys)
  BY CountTo
<1> QED BY <1>1, <1>2 DEF OutOfRange, Slots

-----------------------------------------------------------------------------
(* Type correctness                                                        *)

\* The first state has the types of TypeOK.
LEMMA TypeInit == Init => TypeOK
<1> SUFFICES ASSUME Init PROVE TypeOK
  OBVIOUS
<1> USE IndexAssumption DEF IndexAssumption, Init
<1>1. clock \in 0..MaxClock /\ indexStamp \in 0..clock
  OBVIOUS
<1>2. hist \in Seq(Commits) /\ hist # <<>> /\ Len(hist) = 1
  <2>1. PICK t \in Start : hist = <<[rows |-> t, by |-> None]>>
    OBVIOUS
  <2>2. [rows |-> t, by |-> None] \in Commits
    BY DEF Commits, Table
  <2> QED BY <2>1, <2>2
<1>3. DOMAIN indexQueries \subseteq Query /\ indexQueries \in [DOMAIN indexQueries -> Entry]
  OBVIOUS
<1>4. rd \in [Reader -> ReadRequest]
  BY <1>1, <1>2 DEF ReadRequest
<1>5. wr \in [Writer -> WriteRequest]
  BY <1>1 DEF WriteRequest
<1>6. \A r \in Reader : rd[r].pc = "idle"
  OBVIOUS
<1>7. \A r \in Reader : rd[r].pc \notin Holding
  BY <1>6 DEF Holding
<1> QED BY <1>1, <1>2, <1>3, <1>4, <1>5, <1>6, <1>7 DEF TypeOK

\* The current contents of the table, and its version.
LEMMA TableType ==
    ASSUME TypeOK
    PROVE  table \in Table /\ Len(hist) \in Nat \ {0}
<1>1. hist \in Seq(Commits) /\ hist # <<>>
  BY DEF TypeOK
<1>2. Len(hist) \in Nat \ {0} /\ hist[Len(hist)] \in Commits
  BY <1>1
<1> QED BY <1>2 DEF table, Commits

\* Committing a table keeps what was committed before.
LEMMA CommitAppends ==
    ASSUME TypeOK, NEW w \in Writer, NEW t \in Table, Commit(w, t)
    PROVE  /\ hist' \in Seq(Commits) /\ hist' # <<>>
           /\ Len(hist') = Len(hist) + 1
           /\ \A c \in 1..Len(hist) : hist'[c] = hist[c]
           /\ hist'[Len(hist) + 1].by = w
<1>1. hist \in Seq(Commits)
  BY DEF TypeOK
<1>2. [rows |-> t, by |-> w] \in Commits
  BY DEF Commits
<1>3. hist' = Append(hist, [rows |-> t, by |-> w])
  BY DEF Commit
<1> QED BY <1>1, <1>2, <1>3

\* A step that changes one Read request only.
LEMMA RequestStepType ==
    ASSUME TypeOK, NEW r \in Reader, NEW new \in ReadRequest, new.q \in Query,
           new.pc \in Holding => new.ver # 0,
           rd' = [rd EXCEPT ![r] = new],
           UNCHANGED <<clock, hist, indexStamp, indexQueries, wr>>
    PROVE  TypeOK'
BY DEF TypeOK, ReadRequest, Entry, WriteRequest

\* A write request that commits a table.
LEMMA CommitStepType ==
    ASSUME TypeOK, NEW w \in Writer, NEW t \in Table, Commit(w, t),
           NEW new \in WriteRequest, wr' = [wr EXCEPT ![w] = new],
           UNCHANGED <<clock, indexStamp, indexQueries, rd>>
    PROVE  TypeOK'
<1>1. /\ hist' \in Seq(Commits) /\ hist' # <<>>
      /\ Len(hist) \in Nat /\ Len(hist') = Len(hist) + 1
  BY CommitAppends, TableType
<1>2. Entry \subseteq Entry' /\ ReadRequest \subseteq ReadRequest'
  BY <1>1 DEF Entry, ReadRequest
<1> QED BY <1>1, <1>2 DEF TypeOK, WriteRequest

\* Every step keeps TypeOK, action by action (all of module PrimaryIndex).
LEMMA TypeNext == TypeOK /\ [Next]_vars => TypeOK'
<1> SUFFICES ASSUME TypeOK, [Next]_vars PROVE TypeOK'
  OBVIOUS
<1> USE IndexAssumption DEF IndexAssumption
<1>t. table \in Table /\ Len(hist) \in Nat \ {0}
  BY TableType
<1>1. ASSUME NEW r \in Reader, NEW q \in Query, NEW page \in Pages,
             NEW limit \in Limits, Lookup(r, q, page, limit)
      PROVE  TypeOK'
  <2>1. indexStamp \in 0..clock /\ page \in Nat /\ limit \in Nat \ {0}
    BY DEF TypeOK
  <2>2. Usable(q) => indexQueries[q] \in Entry
    BY DEF TypeOK, Usable
  <2> DEFINE hit == Usable(q)
             new == [pc |-> IF hit THEN "touch" ELSE "readRecKeys",
                     q |-> q, page |-> page, limit |-> limit, stamp |-> indexStamp,
                     ver |-> IF hit THEN indexQueries[q].ver ELSE 0,
                     keys |-> IF hit THEN indexQueries[q].keys ELSE <<>>,
                     total |-> hit /\ indexQueries[q].total,
                     by |-> IF hit THEN indexQueries[q].by ELSE r, rows |-> <<>>,
                     cut |-> FALSE]
  <2>3. /\ (IF hit THEN indexQueries[q].ver ELSE 0) \in 0..Len(hist)
        /\ (IF hit THEN indexQueries[q].keys ELSE <<>>) \in Seq(Key)
        /\ (hit /\ indexQueries[q].total) \in BOOLEAN
        /\ (IF hit THEN indexQueries[q].by ELSE r) \in Reader \cup {None}
    BY <2>2, <1>t DEF Entry
  <2>4. new \in ReadRequest
    BY <2>1, <2>3 DEF ReadRequest
  <2>5. rd' = [rd EXCEPT ![r] = new]
    BY <1>1 DEF Lookup
  <2>6. new.q = q /\ (new.pc \in Holding => new.ver # 0)
    BY <2>2, <1>t DEF Entry, Holding
  <2>7. UNCHANGED <<clock, hist, indexStamp, indexQueries, wr>>
    BY <1>1 DEF Lookup
  <2> HIDE DEF new, hit
  <2> QED BY <2>4, <2>5, <2>6, <2>7, RequestStepType
<1>2. ASSUME NEW r \in Reader, Touch(r)
      PROVE  TypeOK'
  <2> DEFINE q == rd[r].q
             e == [indexQueries[q] EXCEPT !.lastUsed = clock]
  <2>1. rd[r] \in ReadRequest /\ rd[r].pc # "idle" /\ clock \in 0..clock
    BY <1>2 DEF TypeOK, Touch
  <2>2. rd' = [rd EXCEPT ![r] = [rd[r] EXCEPT !.pc = "readRows"]]
    BY <1>2 DEF Touch
  <2>3. [rd[r] EXCEPT !.pc = "readRows"] \in ReadRequest
    BY <2>1 DEF ReadRequest
  <2>4. rd' \in [Reader -> ReadRequest]
    BY <2>2, <2>3 DEF TypeOK
  <2>5. /\ \A x \in Reader : rd'[x].pc # "idle" => rd'[x].q \in Query
        /\ \A x \in Reader : rd'[x].pc \in Holding => rd'[x].ver # 0
    BY <1>2, <2>1, <2>2 DEF TypeOK, ReadRequest, Touch, Holding
  <2>6. q \in DOMAIN indexQueries => e \in Entry
    BY <2>1 DEF TypeOK, Entry
  <2>7. \/ indexQueries' = indexQueries
        \/ q \in DOMAIN indexQueries /\ indexQueries' = [indexQueries EXCEPT ![q] = e]
    BY <1>2 DEF Touch
  <2>8. /\ DOMAIN indexQueries' = DOMAIN indexQueries
        /\ indexQueries' \in [DOMAIN indexQueries -> Entry]
    <3> HIDE DEF e, q
    <3> QED BY <2>6, <2>7 DEF TypeOK
  <2>9. UNCHANGED <<clock, hist, indexStamp, wr>>
    BY <1>2 DEF Touch
  <2> QED BY <2>4, <2>5, <2>8, <2>9 DEF TypeOK, ReadRequest, Entry, WriteRequest
<1>3. ASSUME NEW r \in Reader, ReadRecKeys(r)
      PROVE  TypeOK'
  <2>1. rd[r] \in ReadRequest /\ rd[r].q \in Query
    BY <1>3 DEF TypeOK, ReadRecKeys
  <2> DEFINE part(keys, n, total) ==
               [rd[r] EXCEPT !.pc = IF rd[r].q \in Scoped THEN "filter" ELSE "store",
                             !.ver = Len(hist), !.keys = SubSeq(keys, 1, n),
                             !.total = total]
  <2>2. PICK keys \in Listings(rd[r].q, table) :
          \E n \in 0..Len(keys), total \in BOOLEAN :
             rd' = [rd EXCEPT ![r] = part(keys, n, total)]
    BY <1>3 DEF ReadRecKeys, Totals
  <2>8. PICK n \in 0..Len(keys), total \in BOOLEAN :
          rd' = [rd EXCEPT ![r] = part(keys, n, total)]
    BY <2>2
  <2>3. SubSeq(keys, 1, n) \in Seq(Key)
    BY <2>1, <1>t, ListingsAreKeys, PrefixIsPart
  <2>4. Len(hist) \in 0..Len(hist)
    BY <1>t
  <2> DEFINE new == part(keys, n, total)
  <2>5. new \in ReadRequest /\ new.q = rd[r].q /\ new.ver # 0
    BY <2>1, <2>3, <2>4, <1>t DEF ReadRequest
  <2>6. rd' = [rd EXCEPT ![r] = new]
    BY <2>8
  <2>7. UNCHANGED <<clock, hist, indexStamp, indexQueries, wr>>
    BY <1>3 DEF ReadRecKeys
  <2> HIDE DEF new, part
  <2> QED BY <2>1, <2>5, <2>6, <2>7, RequestStepType
<1>4. ASSUME NEW r \in Reader, Filter(r)
      PROVE  TypeOK'
  <2>1. rd[r] \in ReadRequest /\ rd[r].q \in Query /\ rd[r].keys \in Seq(Key) /\ rd[r].ver # 0
    BY <1>4 DEF TypeOK, Filter, ReadRequest, Holding
  <2>2. UNCHANGED <<clock, hist, indexStamp, indexQueries, wr>>
    BY <1>4 DEF Filter
  <2> DEFINE found == Found(rd[r].keys, table)
             pass(elems) == {i \in 1..Len(elems) : elems[i] \in Visible[rd[r].q]}
  <2>3. PICK got \in SUBSET found :
          \/ rd' = [rd EXCEPT ![r] = [rd[r] EXCEPT !.pc = "panicked", !.cut = got # found]]
          \/ \E elems \in RowsOf(rd[r].keys, got) : \E kept \in InOrder(pass(elems)) :
                rd' = [rd EXCEPT ![r] = [rd[r] EXCEPT !.pc = "store",
                                                      !.keys = At(rd[r].keys, kept),
                                                      !.total = rd[r].keys # <<>>]]
    BY <1>4 DEF Filter
  <2>4. got \in SUBSET (1..Len(rd[r].keys))
    BY <2>1, FoundFinite
  <2>5. CASE rd' = [rd EXCEPT ![r] = [rd[r] EXCEPT !.pc = "panicked", !.cut = got # found]]
    <3> DEFINE new == [rd[r] EXCEPT !.pc = "panicked", !.cut = got # found]
    <3>0. (got # found) \in BOOLEAN
      OBVIOUS
    <3>1. new \in ReadRequest /\ new.q = rd[r].q /\ (new.pc \in Holding => new.ver # 0)
      BY <2>1, <3>0 DEF ReadRequest
    <3>2. rd' = [rd EXCEPT ![r] = new]
      BY <2>5
    <3> HIDE DEF new
    <3> QED BY <2>1, <2>2, <3>1, <3>2, RequestStepType
  <2>6. CASE \E elems \in RowsOf(rd[r].keys, got) : \E kept \in InOrder(pass(elems)) :
                rd' = [rd EXCEPT ![r] = [rd[r] EXCEPT !.pc = "store",
                                                      !.keys = At(rd[r].keys, kept),
                                                      !.total = rd[r].keys # <<>>]]
    <3>1. PICK elems \in RowsOf(rd[r].keys, got) : \E kept \in InOrder(pass(elems)) :
             rd' = [rd EXCEPT ![r] = [rd[r] EXCEPT !.pc = "store",
                                                   !.keys = At(rd[r].keys, kept),
                                                   !.total = rd[r].keys # <<>>]]
      BY <2>6
    <3>2. PICK kept \in InOrder(pass(elems)) :
             rd' = [rd EXCEPT ![r] = [rd[r] EXCEPT !.pc = "store",
                                                   !.keys = At(rd[r].keys, kept),
                                                   !.total = rd[r].keys # <<>>]]
      BY <3>1
    <3>3. pass(elems) \in SUBSET (1..Len(rd[r].keys))
      <4>1. Len(elems) \in Nat /\ Len(elems) <= Len(rd[r].keys)
        BY <2>1, <2>4, RowsAreKeys
      <4> QED BY <2>1, <4>1
    <3>4. At(rd[r].keys, kept) \in Seq(Key)
      BY <2>1, <3>3, PickedElements
    <3> DEFINE new == [rd[r] EXCEPT !.pc = "store", !.keys = At(rd[r].keys, kept),
                                    !.total = rd[r].keys # <<>>]
    <3>5. new \in ReadRequest /\ new.q = rd[r].q /\ (new.pc \in Holding => new.ver # 0)
      BY <2>1, <3>4 DEF ReadRequest
    <3>6. rd' = [rd EXCEPT ![r] = new]
      BY <3>2
    <3> HIDE DEF new
    <3> QED BY <2>1, <2>2, <3>5, <3>6, RequestStepType
  <2> QED BY <2>3, <2>5, <2>6
<1>5. ASSUME NEW r \in Reader, FilterReadFails(r)
      PROVE  TypeOK'
  <2>1. rd[r] \in ReadRequest /\ rd[r].q \in Query /\ rd[r].ver # 0
    BY <1>5 DEF TypeOK, FilterReadFails, Holding
  <2> DEFINE new == [rd[r] EXCEPT !.pc = "store", !.total = FALSE]
  <2>2. new \in ReadRequest /\ new.q = rd[r].q /\ (new.pc \in Holding => new.ver # 0)
    BY <2>1 DEF ReadRequest
  <2>3. rd' = [rd EXCEPT ![r] = new] /\ UNCHANGED <<clock, hist, indexStamp, indexQueries, wr>>
    BY <1>5 DEF FilterReadFails
  <2> HIDE DEF new
  <2> QED BY <2>1, <2>2, <2>3, RequestStepType
<1>6. ASSUME NEW r \in Reader, Store(r)
      PROVE  TypeOK'
  <2> DEFINE q == rd[r].q
             new == [rd[r] EXCEPT !.pc = "readRows"]
             entry == [keys |-> rd[r].keys, stamp |-> rd[r].stamp,
                       lastUsed |-> rd[r].stamp, ver |-> rd[r].ver,
                       total |-> rd[r].total, by |-> r]
  <2>1. rd[r] \in ReadRequest /\ q \in Query /\ rd[r].ver # 0 /\ clock \in 0..clock
    BY <1>6 DEF TypeOK, Store, Holding, ReadRequest
  <2>2. rd' = [rd EXCEPT ![r] = new]
    BY <1>6 DEF Store
  <2>3. new \in ReadRequest /\ new.q = q /\ new.ver # 0
    BY <2>1 DEF ReadRequest
  <2>4. entry \in Entry
    BY <2>1 DEF Entry, ReadRequest
  <2>5. indexQueries' = [x \in DOMAIN indexQueries \cup {q} |->
                            IF x = q THEN entry ELSE indexQueries[x]]
    BY <1>6 DEF Store
  <2>6. UNCHANGED <<clock, hist, indexStamp, wr>>
    BY <1>6 DEF Store
  <2> HIDE DEF new, entry, q
  <2>7. /\ DOMAIN indexQueries' \subseteq Query
        /\ indexQueries' \in [DOMAIN indexQueries' -> Entry]
    BY <2>1, <2>4, <2>5 DEF TypeOK
  <2>8. /\ rd' \in [Reader -> ReadRequest]
        /\ \A x \in Reader : rd'[x].pc # "idle" => rd'[x].q \in Query
        /\ \A x \in Reader : rd'[x].pc \in Holding => rd'[x].ver # 0
    BY <2>1, <2>2, <2>3 DEF TypeOK
  <2> QED BY <2>6, <2>7, <2>8 DEF TypeOK, ReadRequest, Entry, WriteRequest
<1>7. ASSUME NEW r \in Reader, ReadRows(r)
      PROVE  TypeOK'
  <2> DEFINE keys == pageKeys(rd[r].keys, rd[r].page, rd[r].limit)
  <2>1. rd[r] \in ReadRequest /\ rd[r].q \in Query /\ rd[r].ver # 0
    BY <1>7 DEF TypeOK, ReadRows, Holding
  <2>2. keys \in Seq(Key)
    BY <2>1, PageIsPart DEF ReadRequest
  <2>3. UNCHANGED <<clock, hist, indexStamp, indexQueries, wr>>
    BY <1>7 DEF ReadRows
  <2>4. PICK got \in SUBSET Found(keys, table), cut \in BOOLEAN :
          \/ rd' = [rd EXCEPT ![r] = [rd[r] EXCEPT !.pc = "panicked", !.cut = cut]]
          \/ \E rows \in RowsOf(keys, got) :
                rd' = [rd EXCEPT ![r] = [rd[r] EXCEPT !.pc = "returned", !.rows = rows,
                                                      !.cut = cut]]
    BY <1>7 DEF ReadRows
  <2>5. CASE rd' = [rd EXCEPT ![r] = [rd[r] EXCEPT !.pc = "panicked", !.cut = cut]]
    <3> DEFINE new == [rd[r] EXCEPT !.pc = "panicked", !.cut = cut]
    <3>1. new \in ReadRequest /\ new.q = rd[r].q /\ (new.pc \in Holding => new.ver # 0)
      BY <2>1 DEF ReadRequest
    <3>2. rd' = [rd EXCEPT ![r] = new]
      BY <2>5
    <3> HIDE DEF new
    <3> QED BY <2>1, <2>3, <3>1, <3>2, RequestStepType
  <2>6. ASSUME NEW rows \in RowsOf(keys, got),
               rd' = [rd EXCEPT ![r] = [rd[r] EXCEPT !.pc = "returned", !.rows = rows,
                                                     !.cut = cut]]
        PROVE  TypeOK'
    <3>1. got \in SUBSET (1..Len(keys))
      BY <2>2, FoundFinite
    <3>2. rows \in Seq(Key)
      BY <2>2, <3>1, RowsAreKeys
    <3> DEFINE new == [rd[r] EXCEPT !.pc = "returned", !.rows = rows, !.cut = cut]
    <3>3. new \in ReadRequest /\ new.q = rd[r].q /\ (new.pc \in Holding => new.ver # 0)
      BY <2>1, <3>2 DEF ReadRequest
    <3>4. rd' = [rd EXCEPT ![r] = new]
      BY <2>6
    <3> HIDE DEF new
    <3> QED BY <2>1, <2>3, <3>3, <3>4, RequestStepType
  <2> QED BY <2>4, <2>5, <2>6
<1>8. ASSUME NEW r \in Reader, ReadFails(r)
      PROVE  TypeOK'
  <2>1. rd[r] \in ReadRequest /\ rd[r].q \in Query
    BY <1>8 DEF TypeOK, ReadFails, Holding
  <2> DEFINE new == [rd[r] EXCEPT !.pc = "failed"]
  <2>2. new \in ReadRequest /\ new.q = rd[r].q /\ new.pc \notin Holding
    BY <2>1 DEF ReadRequest, Holding
  <2>3. rd' = [rd EXCEPT ![r] = new] /\ UNCHANGED <<clock, hist, indexStamp, indexQueries, wr>>
    BY <1>8 DEF ReadFails
  <2> HIDE DEF new
  <2> QED BY <2>1, <2>2, <2>3, RequestStepType
<1>9. ASSUME NEW w \in Writer, WriteBatch(w)
      PROVE  TypeOK'
  <2>1. PICK k \in Key, v \in Val : Commit(w, [table EXCEPT ![k] = v])
    BY <1>9 DEF WriteBatch
  <2>2. PICK pc \in {"writing", "invalidate"} :
          wr' = [wr EXCEPT ![w] = [wr[w] EXCEPT !.pc = pc, !.batches = wr[w].batches + 1]]
    BY <1>9 DEF WriteBatch
  <2>3. [table EXCEPT ![k] = v] \in Table
    BY <1>t DEF Table
  <2>4. wr[w] \in WriteRequest /\ wr[w].batches + 1 \in 0..MaxBatches
    BY <1>9 DEF TypeOK, WriteRequest, WriteBatch
  <2>5. [wr[w] EXCEPT !.pc = pc, !.batches = wr[w].batches + 1] \in WriteRequest
    BY <2>4 DEF WriteRequest
  <2>6. UNCHANGED <<clock, indexStamp, indexQueries, rd>>
    BY <1>9 DEF WriteBatch
  <2> QED BY <2>1, <2>2, <2>3, <2>5, <2>6, CommitStepType
<1>10. ASSUME NEW w \in Writer, DeleteRecords(w)
       PROVE  TypeOK'
  <2>1. PICK S \in SUBSET Present(table) :
          Commit(w, [k \in Key |-> IF k \in S THEN NoRow ELSE table[k]])
    BY <1>10 DEF DeleteRecords
  <2>2. [k \in Key |-> IF k \in S THEN NoRow ELSE table[k]] \in Table
    BY <1>t DEF Table
  <2>3. [wr[w] EXCEPT !.pc = "invalidate"] \in WriteRequest
    BY DEF TypeOK, WriteRequest
  <2>4. wr' = [wr EXCEPT ![w] = [wr[w] EXCEPT !.pc = "invalidate"]]
    BY <1>10 DEF DeleteRecords
  <2>5. UNCHANGED <<clock, indexStamp, indexQueries, rd>>
    BY <1>10 DEF DeleteRecords
  <2> QED BY <2>1, <2>2, <2>3, <2>4, <2>5, CommitStepType
<1>11. ASSUME NEW w \in Writer, WriteFails(w)
       PROVE  TypeOK'
  <2>1. [wr[w] EXCEPT !.pc = "invalidate"] \in WriteRequest
    BY DEF TypeOK, WriteRequest
  <2>2. wr' = [wr EXCEPT ![w] = [wr[w] EXCEPT !.pc = "invalidate"]]
    BY <1>11 DEF WriteFails
  <2> QED BY <1>11, <2>1, <2>2 DEF WriteFails, TypeOK, WriteRequest, ReadRequest, Entry
<1>12. ASSUME NEW w \in Writer, Invalidate(w)
       PROVE  TypeOK'
  <2>1. clock \in 0..clock
    BY DEF TypeOK
  <2>2. [wr[w] EXCEPT !.pc = "done", !.inv = clock] \in WriteRequest
    BY <2>1 DEF TypeOK, WriteRequest
  <2>3. wr' = [wr EXCEPT ![w] = [wr[w] EXCEPT !.pc = "done", !.inv = clock]]
    BY <1>12 DEF Invalidate
  <2> QED BY <1>12, <2>1, <2>2, <2>3 DEF Invalidate, TypeOK, WriteRequest, ReadRequest, Entry
<1>13. ASSUME cleanExpiredQueries
       PROVE  TypeOK'
  <2>1. \E kept \in SUBSET DOMAIN indexQueries :
           indexQueries' = [q \in kept |-> indexQueries[q]]
    BY <1>13 DEF cleanExpiredQueries
  <2>2. /\ DOMAIN indexQueries' \subseteq Query
        /\ indexQueries' \in [DOMAIN indexQueries' -> Entry]
    BY <2>1 DEF TypeOK
  <2> QED BY <1>13, <2>2 DEF cleanExpiredQueries, TypeOK, WriteRequest, ReadRequest, Entry
<1>14. ASSUME Tick
       PROVE  TypeOK'
  <2>1. clock' \in 0..MaxClock /\ 0..clock \subseteq 0..clock'
    BY <1>14 DEF Tick, TypeOK
  <2>2. UNCHANGED <<hist, indexStamp, indexQueries, rd, wr>>
    BY <1>14 DEF Tick
  <2>3. /\ Entry \subseteq Entry' /\ ReadRequest \subseteq ReadRequest'
        /\ WriteRequest \subseteq WriteRequest'
    BY <2>1, <2>2 DEF Entry, ReadRequest, WriteRequest
  <2> QED BY <2>1, <2>2, <2>3 DEF TypeOK
<1>15. CASE UNCHANGED vars
  BY <1>15 DEF vars, TypeOK, WriteRequest, ReadRequest, Entry
<1> QED
  BY <1>1, <1>2, <1>3, <1>4, <1>5, <1>6, <1>7, <1>8, <1>9, <1>10, <1>11, <1>12,
     <1>13, <1>14, <1>15 DEF Next, ReadStep, WriteStep

\* Every variable keeps its type: stamps and times never lie in the future, and
\* a request that holds keys knows the version it read (readWithIndex, Write,
\* Delete, invalidateIndex, cleanExpiredQueries).
THEOREM TypeCorrect == Spec => []TypeOK
<1>1. Init => TypeOK
  BY TypeInit
<1>2. TypeOK /\ [Next]_vars => TypeOK'
  BY TypeNext
<1> QED BY <1>1, <1>2, PTL DEF Spec

-----------------------------------------------------------------------------
(* Freshness: what an entry or a request may miss                          *)

\* No stamp and no invalidation is later than indexStamp.
StampsBounded ==
    /\ \A q \in DOMAIN indexQueries : indexQueries[q].stamp <= indexStamp
    /\ \A r \in Reader : rd[r].stamp <= indexStamp
    /\ \A w \in Writer : wr[w].pc = "done" => wr[w].inv <= indexStamp

\* Every commit after the first contents was made by a request.
CommitsHaveWriters == \A c \in 2..Len(hist) : hist[c].by \in Writer

\* Every entry, served or not, misses only commits that raced its stamp.
EntriesMissOnlyRacingCommits ==
    \A q \in DOMAIN indexQueries :
        MissesOnlyRacing(indexQueries[q].ver, indexQueries[q].stamp)

Fresh ==
    /\ StampsBounded
    /\ CommitsHaveWriters
    /\ EntriesMissOnlyRacingCommits
    /\ ReadMissesOnlyRacingCommits

\* The three ways a step can move what MissesOnlyRacing depends on.
LEMMA RacingKept ==
    ASSUME UNCHANGED <<hist, wr>>, NEW v \in Nat, NEW s \in Nat,
           MissesOnlyRacing(v, s)
    PROVE  MissesOnlyRacing(v, s)'
BY DEF MissesOnlyRacing, InvalidatedBefore

\* A commit whose writer has not invalidated yet is racing whatever the stamp.
LEMMA RacingCommit ==
    ASSUME TypeOK, CommitsHaveWriters, NEW w \in Writer, wr[w].pc # "done",
           NEW t \in Table, Commit(w, t),
           wr' = [wr EXCEPT ![w] = wr'[w]], wr'[w].pc # "done",
           NEW v \in Nat \ {0}, NEW s \in Nat, MissesOnlyRacing(v, s)
    PROVE  MissesOnlyRacing(v, s)'
<1>1. /\ Len(hist) \in Nat \ {0} /\ Len(hist') = Len(hist) + 1
      /\ \A c \in 1..Len(hist) : hist'[c] = hist[c]
      /\ hist'[Len(hist) + 1].by = w
  BY CommitAppends, TableType
<1> SUFFICES ASSUME NEW c \in (v + 1)..Len(hist')
             PROVE  ~InvalidatedBefore(c, s)'
  BY DEF MissesOnlyRacing
<1>2. CASE c = Len(hist) + 1
  BY <1>1, <1>2 DEF InvalidatedBefore
<1>3. CASE c # Len(hist) + 1
  <2>1. c \in (v + 1)..Len(hist) /\ c \in 2..Len(hist)
    BY <1>1, <1>3
  <2>2. hist'[c].by = hist[c].by /\ hist[c].by \in Writer /\ ~InvalidatedBefore(c, s)
    BY <1>1, <2>1 DEF CommitsHaveWriters, MissesOnlyRacing
  <2>3. hist[c].by # w => wr'[hist[c].by] = wr[hist[c].by]
    BY <2>2 DEF TypeOK
  <2> QED BY <2>2, <2>3 DEF InvalidatedBefore
<1> QED BY <1>2, <1>3

\* A request that invalidates at second now, or that does not, keeps what
\* misses it racing as long as the stamp is not later than now.
LEMMA RacingInvalidate ==
    ASSUME TypeOK, CommitsHaveWriters, NEW w \in Writer, UNCHANGED hist,
           wr' = [wr EXCEPT ![w] = wr'[w]],
           NEW v \in Nat \ {0}, NEW s \in Nat, MissesOnlyRacing(v, s),
           wr'[w].pc = "done" => wr'[w].inv >= s, wr'[w].inv \in Nat
    PROVE  MissesOnlyRacing(v, s)'
<1> SUFFICES ASSUME NEW c \in (v + 1)..Len(hist)
             PROVE  ~InvalidatedBefore(c, s)'
  BY DEF MissesOnlyRacing
<1>1. Len(hist) \in Nat
  BY TableType
<1>2. c \in 2..Len(hist)
  BY <1>1
<1>3. hist'[c].by = hist[c].by /\ hist[c].by \in Writer /\ ~InvalidatedBefore(c, s)
  BY <1>2 DEF CommitsHaveWriters, MissesOnlyRacing
<1>4. hist[c].by # w => wr'[hist[c].by] = wr[hist[c].by]
  BY <1>3 DEF TypeOK
<1> QED BY <1>3, <1>4 DEF InvalidatedBefore

\* The first state is fresh: there is no entry and no request.
LEMMA FreshInit == Init => Fresh
<1> SUFFICES ASSUME Init PROVE Fresh
  OBVIOUS
<1>1. Len(hist) = 1 /\ DOMAIN indexQueries = {}
  BY DEF Init
<1>2. \A r \in Reader : rd[r].pc = "idle" /\ rd[r].stamp = 0
  BY DEF Init
<1>3. \A w \in Writer : wr[w].pc = "idle"
  BY DEF Init
<1>4. indexStamp = 0
  BY DEF Init
<1> QED
  BY <1>1, <1>2, <1>3, <1>4 DEF Fresh, StampsBounded, CommitsHaveWriters,
     EntriesMissOnlyRacingCommits, ReadMissesOnlyRacingCommits, Holding

\* A step of a read request that stays within what the request may hold.
LEMMA FreshReadStep ==
    ASSUME TypeOK, TypeOK', Fresh, NEW r \in Reader,
           UNCHANGED <<clock, hist, indexStamp, wr>>,
           rd' = [rd EXCEPT ![r] = rd'[r]],
           rd'[r].stamp <= indexStamp,
           rd'[r].pc \in Holding => MissesOnlyRacing(rd'[r].ver, rd'[r].stamp),
           \A q \in DOMAIN indexQueries' :
              /\ indexQueries'[q].stamp <= indexStamp
              /\ MissesOnlyRacing(indexQueries'[q].ver, indexQueries'[q].stamp)
    PROVE  Fresh'
<1>1. StampsBounded'
  BY DEF Fresh, StampsBounded, TypeOK
<1>2. CommitsHaveWriters'
  BY DEF Fresh, CommitsHaveWriters
<1>3. \A q \in DOMAIN indexQueries' :
        indexQueries'[q].ver \in Nat /\ indexQueries'[q].stamp \in Nat
  BY TableType DEF TypeOK, Entry
<1>4. EntriesMissOnlyRacingCommits'
  BY <1>3, RacingKept DEF EntriesMissOnlyRacingCommits
<1>5. \A x \in Reader : rd'[x].ver \in Nat /\ rd'[x].stamp \in Nat
  BY TableType DEF TypeOK, ReadRequest
<1>6. \A x \in Reader : rd'[x].pc \in Holding =>
                         MissesOnlyRacing(rd'[x].ver, rd'[x].stamp)
  BY DEF Fresh, ReadMissesOnlyRacingCommits, TypeOK
<1>7. ReadMissesOnlyRacingCommits'
  BY <1>5, <1>6, RacingKept DEF ReadMissesOnlyRacingCommits, Holding
<1> QED BY <1>1, <1>2, <1>4, <1>7 DEF Fresh

\* A step of a write request, or of the clock, that keeps racing what raced.
LEMMA FreshOtherStep ==
    ASSUME TypeOK, TypeOK', Fresh, UNCHANGED <<indexQueries, rd>>,
           StampsBounded', CommitsHaveWriters',
           \A v \in Nat \ {0}, s \in Nat :
              s <= indexStamp /\ MissesOnlyRacing(v, s) => MissesOnlyRacing(v, s)'
    PROVE  Fresh'
<1>1. \A q \in DOMAIN indexQueries :
        /\ indexQueries[q].ver \in Nat \ {0} /\ indexQueries[q].stamp \in Nat
        /\ indexQueries[q].stamp <= indexStamp
        /\ MissesOnlyRacing(indexQueries[q].ver, indexQueries[q].stamp)
  BY TableType DEF TypeOK, Entry, Fresh, StampsBounded, EntriesMissOnlyRacingCommits
<1>2. EntriesMissOnlyRacingCommits'
  BY <1>1 DEF EntriesMissOnlyRacingCommits
<1>3. \A r \in Reader : rd[r].pc \in Holding =>
        /\ rd[r].ver \in Nat \ {0} /\ rd[r].stamp \in Nat
        /\ rd[r].stamp <= indexStamp
        /\ MissesOnlyRacing(rd[r].ver, rd[r].stamp)
  BY TableType DEF TypeOK, ReadRequest, Fresh, StampsBounded, ReadMissesOnlyRacingCommits
<1>4. ReadMissesOnlyRacingCommits'
  BY <1>3 DEF ReadMissesOnlyRacingCommits, Holding
<1> QED BY <1>2, <1>4 DEF Fresh

\* Every step keeps Fresh: Lookup and Store hand on a stamp with the version
\* read under it, Invalidate moves the stamp on past the commits it covers.
LEMMA FreshNext == TypeOK /\ TypeOK' /\ Fresh /\ [Next]_vars => Fresh'
<1> SUFFICES ASSUME TypeOK, TypeOK', Fresh, [Next]_vars PROVE Fresh'
  OBVIOUS
<1>i. /\ indexStamp \in Nat /\ clock \in Nat /\ indexStamp <= clock
      /\ Len(hist) \in Nat \ {0}
  BY TableType, IndexAssumption DEF TypeOK, IndexAssumption
<1>e. \A q \in DOMAIN indexQueries :
        /\ indexQueries[q] \in Entry
        /\ indexQueries[q].stamp <= indexStamp
        /\ MissesOnlyRacing(indexQueries[q].ver, indexQueries[q].stamp)
  BY DEF TypeOK, Fresh, StampsBounded, EntriesMissOnlyRacingCommits
<1>r. \A r \in Reader :
        /\ rd[r] \in ReadRequest /\ rd[r].stamp <= indexStamp
        /\ rd[r].pc \in Holding => MissesOnlyRacing(rd[r].ver, rd[r].stamp)
  BY DEF TypeOK, Fresh, StampsBounded, ReadMissesOnlyRacingCommits
<1>1. ASSUME NEW r \in Reader, NEW q \in Query, NEW page \in Pages,
             NEW limit \in Limits, Lookup(r, q, page, limit)
      PROVE  Fresh'
  <2>1. /\ UNCHANGED <<clock, hist, indexStamp, indexQueries, wr>>
        /\ rd' = [rd EXCEPT ![r] = rd'[r]]
        /\ rd'[r].stamp = indexStamp
        /\ Usable(q) => rd'[r].ver = indexQueries[q].ver
        /\ ~Usable(q) => rd'[r].pc = "readRecKeys"
    BY <1>1 DEF Lookup, TypeOK
  <2>2. Usable(q) => MissesOnlyRacing(rd'[r].ver, rd'[r].stamp)
    BY <2>1, <1>e DEF Usable
  <2>3. rd'[r].pc \in Holding => MissesOnlyRacing(rd'[r].ver, rd'[r].stamp)
    BY <2>1, <2>2 DEF Holding
  <2> QED BY <2>1, <2>3, <1>e, <1>i, FreshReadStep
<1>2. ASSUME NEW r \in Reader, Touch(r)
      PROVE  Fresh'
  <2>1. /\ UNCHANGED <<clock, hist, indexStamp, wr>>
        /\ rd' = [rd EXCEPT ![r] = rd'[r]]
        /\ rd'[r].stamp = rd[r].stamp /\ rd'[r].ver = rd[r].ver
        /\ rd[r].pc \in Holding
    BY <1>2, <1>r DEF Touch, TypeOK, ReadRequest, Holding
  <2>2. \A q \in DOMAIN indexQueries' :
          /\ q \in DOMAIN indexQueries
          /\ indexQueries'[q].stamp = indexQueries[q].stamp
          /\ indexQueries'[q].ver = indexQueries[q].ver
    BY <1>2, <1>e DEF Touch, Entry
  <2> QED BY <2>1, <2>2, <1>e, <1>r, FreshReadStep
<1>3. ASSUME NEW r \in Reader, ReadRecKeys(r)
      PROVE  Fresh'
  <2>1. /\ UNCHANGED <<clock, hist, indexStamp, indexQueries, wr>>
        /\ rd' = [rd EXCEPT ![r] = rd'[r]]
        /\ rd'[r].stamp = rd[r].stamp /\ rd'[r].ver = Len(hist)
    BY <1>3, <1>r DEF ReadRecKeys, TypeOK, ReadRequest
  <2>2. MissesOnlyRacing(rd'[r].ver, rd'[r].stamp)
    BY <2>1, <1>i DEF MissesOnlyRacing
  <2> QED BY <2>1, <2>2, <1>e, <1>r, FreshReadStep
<1>4. ASSUME NEW r \in Reader, Filter(r) \/ FilterReadFails(r) \/ ReadRows(r) \/ ReadFails(r)
      PROVE  Fresh'
  <2>1. /\ UNCHANGED <<clock, hist, indexStamp, indexQueries, wr>>
        /\ rd' = [rd EXCEPT ![r] = rd'[r]]
        /\ rd'[r].stamp = rd[r].stamp /\ rd'[r].ver = rd[r].ver
        /\ rd[r].pc \in Holding \/ rd'[r].pc \notin Holding
    <3>1. rd \in [Reader -> ReadRequest] /\ rd[r] \in ReadRequest
      BY DEF TypeOK
    <3>2. CASE Filter(r)
      <4>1. /\ UNCHANGED <<clock, hist, indexStamp, indexQueries, wr>>
            /\ rd[r].pc = "filter"
            /\ \/ \E cut : rd' = [rd EXCEPT ![r] =
                                     [rd[r] EXCEPT !.pc = "panicked", !.cut = cut]]
               \/ \E keys, total : rd' = [rd EXCEPT ![r] =
                                             [rd[r] EXCEPT !.pc = "store", !.keys = keys,
                                                           !.total = total]]
        BY <3>2 DEF Filter
      <4>2. ASSUME NEW cut,
                   rd' = [rd EXCEPT ![r] = [rd[r] EXCEPT !.pc = "panicked", !.cut = cut]]
            PROVE  /\ rd' = [rd EXCEPT ![r] = rd'[r]]
                   /\ rd'[r].stamp = rd[r].stamp /\ rd'[r].ver = rd[r].ver
        BY <3>1, <4>2 DEF ReadRequest
      <4>3. ASSUME NEW keys, NEW total,
                   rd' = [rd EXCEPT ![r] = [rd[r] EXCEPT !.pc = "store", !.keys = keys,
                                                         !.total = total]]
            PROVE  /\ rd' = [rd EXCEPT ![r] = rd'[r]]
                   /\ rd'[r].stamp = rd[r].stamp /\ rd'[r].ver = rd[r].ver
        BY <3>1, <4>3 DEF ReadRequest
      <4>4. /\ rd' = [rd EXCEPT ![r] = rd'[r]]
            /\ rd'[r].stamp = rd[r].stamp /\ rd'[r].ver = rd[r].ver
        BY <4>1, <4>2, <4>3, Zenon
      <4> QED BY <4>1, <4>4 DEF Holding
    <3>3. CASE FilterReadFails(r)
      BY <3>1, <3>3 DEF FilterReadFails, ReadRequest, Holding
    <3>4. CASE ReadRows(r)
      <4>1. /\ UNCHANGED <<clock, hist, indexStamp, indexQueries, wr>>
            /\ rd[r].pc = "readRows"
            /\ \/ \E cut : rd' = [rd EXCEPT ![r] =
                                     [rd[r] EXCEPT !.pc = "panicked", !.cut = cut]]
               \/ \E cut, rows : rd' = [rd EXCEPT ![r] =
                                           [rd[r] EXCEPT !.pc = "returned", !.rows = rows,
                                                         !.cut = cut]]
        BY <3>4 DEF ReadRows
      <4>2. ASSUME NEW cut,
                   rd' = [rd EXCEPT ![r] = [rd[r] EXCEPT !.pc = "panicked", !.cut = cut]]
            PROVE  /\ rd' = [rd EXCEPT ![r] = rd'[r]]
                   /\ rd'[r].stamp = rd[r].stamp /\ rd'[r].ver = rd[r].ver
        BY <3>1, <4>2 DEF ReadRequest
      <4>3. ASSUME NEW cut, NEW rows,
                   rd' = [rd EXCEPT ![r] = [rd[r] EXCEPT !.pc = "returned", !.rows = rows,
                                                         !.cut = cut]]
            PROVE  /\ rd' = [rd EXCEPT ![r] = rd'[r]]
                   /\ rd'[r].stamp = rd[r].stamp /\ rd'[r].ver = rd[r].ver
        BY <3>1, <4>3 DEF ReadRequest
      <4>4. /\ rd' = [rd EXCEPT ![r] = rd'[r]]
            /\ rd'[r].stamp = rd[r].stamp /\ rd'[r].ver = rd[r].ver
        BY <4>1, <4>2, <4>3, Zenon
      <4> QED BY <4>1, <4>4 DEF Holding
    <3>5. CASE ReadFails(r)
      BY <3>1, <3>5 DEF ReadFails, ReadRequest, Holding
    <3> QED BY <1>4, <3>2, <3>3, <3>4, <3>5
  <2> QED BY <2>1, <1>e, <1>r, FreshReadStep
<1>5. ASSUME NEW r \in Reader, Store(r)
      PROVE  Fresh'
  <2>1. /\ UNCHANGED <<clock, hist, indexStamp, wr>>
        /\ rd' = [rd EXCEPT ![r] = rd'[r]]
        /\ rd'[r].stamp = rd[r].stamp /\ rd'[r].ver = rd[r].ver
        /\ rd[r].pc \in Holding
    BY <1>5, <1>r DEF Store, TypeOK, ReadRequest, Holding
  <2>2. \A q \in DOMAIN indexQueries' :
          \/ /\ q \in DOMAIN indexQueries
             /\ indexQueries'[q] = indexQueries[q]
          \/ /\ indexQueries'[q].stamp = rd[r].stamp
             /\ indexQueries'[q].ver = rd[r].ver
    BY <1>5 DEF Store
  <2>3. \A q \in DOMAIN indexQueries' :
          /\ indexQueries'[q].stamp <= indexStamp
          /\ MissesOnlyRacing(indexQueries'[q].ver, indexQueries'[q].stamp)
    BY <2>1, <2>2, <1>e, <1>r
  <2> QED BY <2>1, <2>3, <1>r, FreshReadStep
<1>6. ASSUME NEW w \in Writer, WriteBatch(w) \/ DeleteRecords(w)
      PROVE  Fresh'
  <2>1. PICK t \in Table : Commit(w, t)
    <3>1. table \in Table
      BY TableType
    <3>2. \A k \in Key, v \in Val : [table EXCEPT ![k] = v] \in Table
      BY <3>1 DEF Table
    <3>3. \A S : [k \in Key |-> IF k \in S THEN NoRow ELSE table[k]] \in Table
      BY <3>1 DEF Table
    <3> QED BY <1>6, <3>2, <3>3 DEF WriteBatch, DeleteRecords
  <2>2. /\ UNCHANGED <<clock, indexStamp, indexQueries, rd>>
        /\ wr' = [wr EXCEPT ![w] = wr'[w]]
        /\ wr[w].pc # "done" /\ wr'[w].pc # "done"
    BY <1>6 DEF WriteBatch, DeleteRecords, TypeOK, WriteRequest
  <2>3. StampsBounded'
    BY <2>2 DEF Fresh, StampsBounded, TypeOK
  <2>4. CommitsHaveWriters'
    BY <2>1, CommitAppends, <1>i DEF Fresh, CommitsHaveWriters
  <2>5. \A v \in Nat \ {0}, s \in Nat :
          MissesOnlyRacing(v, s) => MissesOnlyRacing(v, s)'
    BY <2>1, <2>2, RacingCommit DEF Fresh
  <2> QED BY <2>2, <2>3, <2>4, <2>5, FreshOtherStep
<1>7. ASSUME NEW w \in Writer, WriteFails(w) \/ Invalidate(w)
      PROVE  Fresh'
  <2>1. /\ UNCHANGED <<clock, hist, indexQueries, rd>>
        /\ wr' = [wr EXCEPT ![w] = wr'[w]]
        /\ indexStamp' \in Nat /\ indexStamp' >= indexStamp
        /\ wr'[w].pc = "done" => wr'[w].inv >= indexStamp /\ wr'[w].inv <= indexStamp'
        /\ wr'[w].inv \in Nat
    <3>1. wr \in [Writer -> WriteRequest] /\ wr[w] \in WriteRequest
      BY DEF TypeOK
    <3>2. wr[w].inv \in Nat
      BY <3>1 DEF WriteRequest
    <3>3. CASE WriteFails(w)
      BY <3>1, <3>2, <3>3, <1>i DEF WriteFails, WriteRequest
    <3>4. CASE Invalidate(w)
      BY <3>1, <3>4, <1>i DEF Invalidate, WriteRequest
    <3> QED BY <1>7, <3>3, <3>4
  <2>2. StampsBounded'
    <3>1. \A q \in DOMAIN indexQueries : indexQueries[q].stamp \in Nat
      BY DEF TypeOK, Entry
    <3>2. \A r \in Reader : rd[r].stamp \in Nat
      BY DEF TypeOK, ReadRequest
    <3>3. \A x \in Writer : wr[x].inv \in Nat
      BY DEF TypeOK, WriteRequest
    <3>4. \A x \in Writer : x # w => wr'[x] = wr[x]
      BY <2>1 DEF TypeOK
    <3> QED BY <2>1, <3>1, <3>2, <3>3, <3>4, <1>i DEF Fresh, StampsBounded
  <2>3. CommitsHaveWriters'
    BY <2>1 DEF Fresh, CommitsHaveWriters
  <2>4. \A v \in Nat \ {0}, s \in Nat :
          s <= indexStamp /\ MissesOnlyRacing(v, s) => MissesOnlyRacing(v, s)'
    BY <2>1, <1>i, RacingInvalidate DEF Fresh
  <2> QED BY <2>1, <2>2, <2>3, <2>4, FreshOtherStep
<1>8. ASSUME cleanExpiredQueries
      PROVE  Fresh'
  <2>1. /\ UNCHANGED <<clock, hist, indexStamp, rd, wr>>
        /\ \A q \in DOMAIN indexQueries' :
              q \in DOMAIN indexQueries /\ indexQueries'[q] = indexQueries[q]
    BY <1>8 DEF cleanExpiredQueries
  <2>2. StampsBounded' /\ CommitsHaveWriters'
    BY <2>1 DEF Fresh, StampsBounded, CommitsHaveWriters
  <2>3. \A q \in DOMAIN indexQueries' :
          indexQueries'[q].ver \in Nat /\ indexQueries'[q].stamp \in Nat
    BY <2>1, <1>e DEF Entry
  <2>4. EntriesMissOnlyRacingCommits'
    BY <2>1, <2>3, <1>e, RacingKept DEF EntriesMissOnlyRacingCommits
  <2>5. ReadMissesOnlyRacingCommits'
    BY <2>1 DEF Fresh, ReadMissesOnlyRacingCommits, MissesOnlyRacing,
                InvalidatedBefore, Holding
  <2> QED BY <2>2, <2>4, <2>5 DEF Fresh
<1>9. ASSUME Tick \/ UNCHANGED vars
      PROVE  Fresh'
  <2>1. UNCHANGED <<hist, indexStamp, indexQueries, rd, wr>>
    BY <1>9 DEF Tick, vars
  <2>2. StampsBounded' /\ CommitsHaveWriters'
    BY <2>1 DEF Fresh, StampsBounded, CommitsHaveWriters
  <2>3. \A v \in Nat \ {0}, s \in Nat : MissesOnlyRacing(v, s) => MissesOnlyRacing(v, s)'
    BY <2>1, RacingKept
  <2> QED BY <2>1, <2>2, <2>3, FreshOtherStep
<1> QED
  BY <1>1, <1>2, <1>3, <1>4, <1>5, <1>6, <1>7, <1>8, <1>9 DEF Next, ReadStep, WriteStep

\* Type correctness and freshness hold together in every reachable state.
LEMMA FreshAlways == Spec => [](TypeOK /\ Fresh)
<1>1. Init => TypeOK /\ Fresh
  BY TypeInit, FreshInit
<1>2. TypeOK /\ Fresh /\ [Next]_vars => TypeOK' /\ Fresh'
  BY TypeNext, FreshNext
<1> QED BY <1>1, <1>2, PTL DEF Spec

\* An entry whose stamp is indexStamp misses no commit whose invalidation ran
\* in an earlier second than the last one (readWithIndex, invalidateIndex).
THEOREM ServedEntriesAreFresh == Spec => []NoEntryServedAfterInvalidation
<1>1. TypeOK /\ Fresh => NoEntryServedAfterInvalidation
  BY DEF Fresh, EntriesMissOnlyRacingCommits, NoEntryServedAfterInvalidation, Usable
<1> QED BY <1>1, FreshAlways, PTL

\* What a request returns misses no commit whose invalidation had run when the
\* second of the stamp it saw began, whether it read the index or filled it.
THEOREM ReadsAreFresh == Spec => []ReadMissesOnlyRacingCommits
<1>1. TypeOK /\ Fresh => ReadMissesOnlyRacingCommits
  BY DEF Fresh
<1> QED BY <1>1, FreshAlways, PTL

-----------------------------------------------------------------------------
(* An entry that has gone stale stays so                                   *)

\* A request whose entry is in the map has stored it and stores no other.
MakersStored ==
    \A q \in DOMAIN indexQueries :
        rd[indexQueries[q].by].pc \in {"readRows", "returned", "failed", "panicked"}

\* No entry at first, so none without a request that made it.
LEMMA MakersInit == Init => MakersStored
BY DEF Init, MakersStored

\* An entry is only ever made by the request at its Store step, once.
LEMMA MakersNext == TypeOK /\ MakersStored /\ [Next]_vars => MakersStored'
<1> SUFFICES ASSUME TypeOK, MakersStored, [Next]_vars PROVE MakersStored'
  OBVIOUS
<1> DEFINE Done == {"readRows", "returned", "failed", "panicked"}
<1>1. rd \in [Reader -> ReadRequest]
  BY DEF TypeOK
<1>2. \A q \in DOMAIN indexQueries :
        indexQueries[q] \in Entry /\ indexQueries[q].by \in Reader
  BY DEF TypeOK, Entry
<1>3. \A r \in Reader : rd[r].pc \in Done => rd'[r].pc \in Done
  <2> SUFFICES ASSUME NEW x \in Reader, rd[x].pc \in Done PROVE rd'[x].pc \in Done
    OBVIOUS
  <2>0. rd[x] \in ReadRequest
    BY <1>1
  <2>1. ASSUME NEW r \in Reader, ReadStep(r)
        PROVE  rd'[x].pc \in Done
    <3>1. x # r => rd'[x] = rd[x]
      BY <2>1, <1>1 DEF ReadStep, Lookup, Touch, ReadRecKeys, Filter,
                        FilterReadFails, Store, ReadRows, ReadFails
    <3>2. CASE x = r
      <4>1. rd[r].pc = "readRows"
        BY <2>1, <3>2 DEF ReadStep, Lookup, Touch, ReadRecKeys, Filter,
                          FilterReadFails, Store, ReadRows, ReadFails
      <4>2. ReadRows(r) \/ ReadFails(r)
        BY <2>1, <4>1 DEF ReadStep, Lookup, Touch, ReadRecKeys, Filter,
                          FilterReadFails, Store
      <4>3. \/ \E cut : rd' = [rd EXCEPT ![r] =
                                  [rd[r] EXCEPT !.pc = "panicked", !.cut = cut]]
            \/ rd' = [rd EXCEPT ![r].pc = "failed"]
            \/ \E cut, rows : rd' = [rd EXCEPT ![r] =
                                        [rd[r] EXCEPT !.pc = "returned", !.rows = rows,
                                                      !.cut = cut]]
        BY <4>2 DEF ReadRows, ReadFails
      <4>4. ASSUME NEW cut, NEW rows,
                   rd' = [rd EXCEPT ![r] = [rd[r] EXCEPT !.pc = "returned", !.rows = rows,
                                                         !.cut = cut]]
            PROVE  rd'[r].pc = "returned"
        BY <4>4, <1>1 DEF ReadRequest
      <4>5. ASSUME NEW cut,
                   rd' = [rd EXCEPT ![r] = [rd[r] EXCEPT !.pc = "panicked", !.cut = cut]]
            PROVE  rd'[r].pc = "panicked"
        BY <4>5, <1>1 DEF ReadRequest
      <4>6. CASE rd' = [rd EXCEPT ![r].pc = "failed"]
        BY <4>6, <3>2, <1>1, <2>0 DEF ReadRequest
      <4> QED BY <3>2, <4>3, <4>4, <4>5, <4>6
    <3> QED BY <3>1, <3>2
  <2>2. CASE UNCHANGED rd
    BY <2>2
  <2>3. (\E r \in Reader : ReadStep(r)) \/ UNCHANGED rd
    BY DEF Next, WriteStep, WriteBatch, DeleteRecords, WriteFails, Invalidate,
           cleanExpiredQueries, Tick, vars
  <2> QED BY <2>1, <2>2, <2>3
<1>4. CASE \E r \in Reader : Store(r)
  <2>1. PICK r \in Reader : Store(r)
    BY <1>4
  <2>2. \A q \in DOMAIN indexQueries' :
          \/ indexQueries'[q].by = r
          \/ q \in DOMAIN indexQueries /\ indexQueries'[q] = indexQueries[q]
    BY <2>1 DEF Store
  <2>3. rd'[r].pc = "readRows"
    BY <2>1, <1>1 DEF Store, ReadRequest
  <2> QED BY <2>2, <2>3, <1>2, <1>3 DEF MakersStored
<1>5. CASE ~ \E r \in Reader : Store(r)
  <2>1. \A q \in DOMAIN indexQueries' :
          q \in DOMAIN indexQueries /\ indexQueries'[q].by = indexQueries[q].by
    <3>1. \/ indexQueries' = indexQueries
          \/ \E r \in Reader : Touch(r)
          \/ cleanExpiredQueries
      BY <1>5 DEF Next, ReadStep, Lookup, ReadRecKeys, Filter, FilterReadFails,
                  ReadRows, ReadFails, WriteStep, WriteBatch, DeleteRecords,
                  WriteFails, Invalidate, Tick, vars
    <3>2. CASE \E r \in Reader : Touch(r)
      BY <3>2, <1>2 DEF Touch, Entry
    <3>3. CASE cleanExpiredQueries
      BY <3>3 DEF cleanExpiredQueries
    <3> QED BY <3>1, <3>2, <3>3
  <2> QED BY <2>1, <1>2, <1>3 DEF MakersStored
<1> QED BY <1>4, <1>5

\* No invalidation, late store or touch makes an entry usable again that a
\* lookup would refuse: its stamp is below indexStamp, which never sinks.
THEOREM StaleEntriesStayStale == Spec => StaleStaysStale
<1> DEFINE Kept == \A q \in DOMAIN indexQueries :
                     (/\ ~Usable(q)
                      /\ q \in DOMAIN indexQueries'
                      /\ indexQueries'[q].by = indexQueries[q].by) => ~Usable(q)'
<1>1. TypeOK /\ Fresh /\ MakersStored /\ [Next]_vars => Kept
  <2> SUFFICES ASSUME TypeOK, Fresh, MakersStored, [Next]_vars,
                      NEW q \in DOMAIN indexQueries, ~Usable(q),
                      q \in DOMAIN indexQueries',
                      indexQueries'[q].by = indexQueries[q].by
               PROVE  ~Usable(q)'
    OBVIOUS
  <2>1. /\ indexQueries[q] \in Entry /\ indexQueries[q].by \in Reader
        /\ indexQueries[q].stamp \in Int
    BY DEF TypeOK, Entry
  <2>2. indexStamp \in Int /\ clock \in Int /\ indexStamp <= clock
    BY IndexAssumption DEF TypeOK, IndexAssumption
  <2>3. indexQueries[q].stamp < indexStamp
    BY <2>1, <2>2 DEF Usable, Fresh, StampsBounded
  <2>4. indexStamp' = indexStamp \/ indexStamp' = clock
    BY DEF Next, ReadStep, Lookup, Touch, ReadRecKeys, Filter, FilterReadFails,
           Store, ReadRows, ReadFails, WriteStep, WriteBatch, DeleteRecords,
           WriteFails, Invalidate, cleanExpiredQueries, Tick, vars
  <2>5. indexQueries'[q].stamp = indexQueries[q].stamp
    <3>1. \/ indexQueries' = indexQueries
          \/ \E r \in Reader : Touch(r) \/ Store(r)
          \/ cleanExpiredQueries
      BY DEF Next, ReadStep, Lookup, ReadRecKeys, Filter, FilterReadFails,
             ReadRows, ReadFails, WriteStep, WriteBatch, DeleteRecords,
             WriteFails, Invalidate, Tick, vars
    <3>2. CASE \E r \in Reader : Touch(r)
      BY <3>2, <2>1 DEF Touch, Entry
    <3>3. ASSUME NEW r \in Reader, Store(r)
          PROVE  indexQueries'[q] = indexQueries[q]
      <4>1. rd[r].pc = "store"
        BY <3>3 DEF Store
      <4>2. indexQueries[q].by # r
        BY <4>1 DEF MakersStored
      <4> QED BY <3>3, <4>2 DEF Store
    <3>4. CASE cleanExpiredQueries
      BY <3>4 DEF cleanExpiredQueries
    <3> QED BY <3>1, <3>2, <3>3, <3>4
  <2> QED BY <2>1, <2>2, <2>3, <2>4, <2>5 DEF Usable
<1>2. Spec => []MakersStored
  <2>1. TypeOK /\ MakersStored /\ [Next]_vars => MakersStored'
    BY MakersNext
  <2> QED BY <2>1, MakersInit, TypeCorrect, PTL DEF Spec
<1>3. TypeOK /\ Fresh /\ MakersStored /\ [Next]_vars => [Kept]_vars
  BY <1>1
<1>4. StaleStaysStale <=> [][Kept]_vars
  BY DEF StaleStaysStale
<1> HIDE DEF Kept
<1> QED BY <1>2, <1>3, <1>4, FreshAlways, PTL DEF Spec

-----------------------------------------------------------------------------
(* A panic needs a racing delete                                           *)

\* Every key was in the table at the version it was read from.
KeysHadRows(ver, keys) == \A i \in 1..Len(keys) : hist[ver].rows[keys[i]] # NoRow

SourcesHadRows ==
    /\ \A q \in DOMAIN indexQueries :
          KeysHadRows(indexQueries[q].ver, indexQueries[q].keys)
    /\ \A r \in Reader : rd[r].pc \in Holding => KeysHadRows(rd[r].ver, rd[r].keys)

\* A request that panicked held a key that a later commit has no row for, if
\* the result with the rows did not break off.
PanicMissedARow ==
    \A r \in Reader : rd[r].pc = "panicked" /\ ~rd[r].cut =>
        \E c \in (rd[r].ver + 1)..Len(hist) :
            \E i \in 1..Len(rd[r].keys) : hist[c].rows[rd[r].keys[i]] = NoRow

\* No request holds keys at first, and none has panicked.
LEMMA SourcesInit == Init => SourcesHadRows /\ PanicMissedARow
BY DEF Init, SourcesHadRows, PanicMissedARow, Holding

\* What is committed stays committed.
LEMMA HistoryGrows ==
    ASSUME TypeOK, [Next]_vars
    PROVE  /\ Len(hist) \in Nat \ {0} /\ Len(hist') \in Nat /\ Len(hist') >= Len(hist)
           /\ \A c \in 1..Len(hist) : hist'[c] = hist[c]
<1>1. table \in Table /\ Len(hist) \in Nat \ {0}
  BY TableType
<1>2. \A k \in Key, v \in Val : [table EXCEPT ![k] = v] \in Table
  BY <1>1 DEF Table
<1>3. \A S : [k \in Key |-> IF k \in S THEN NoRow ELSE table[k]] \in Table
  BY <1>1 DEF Table
<1>4. UNCHANGED hist \/ \E w \in Writer : WriteBatch(w) \/ DeleteRecords(w)
  BY DEF Next, ReadStep, Lookup, Touch, ReadRecKeys, Filter, FilterReadFails,
         Store, ReadRows, ReadFails, WriteStep, WriteFails, Invalidate,
         cleanExpiredQueries, Tick, vars
<1>5. UNCHANGED hist \/ \E w \in Writer, t \in Table : Commit(w, t)
  BY <1>2, <1>3, <1>4 DEF WriteBatch, DeleteRecords
<1> QED BY <1>1, <1>5, CommitAppends

\* What readRecKeys leaves in the request: the beginning of a listing of the
\* table, and a total only if that is all of it.
LEMMA KeysRead ==
    ASSUME TypeOK, NEW r \in Reader, ReadRecKeys(r)
    PROVE  \E keys \in Listings(rd[r].q, table) : \E n \in 0..Len(keys) :
              /\ rd'[r].keys = SubSeq(keys, 1, n)
              /\ rd'[r].ver = Len(hist) /\ rd'[r].q = rd[r].q /\ rd'[r].by = rd[r].by
              /\ rd'[r].pc = IF rd[r].q \in Scoped THEN "filter" ELSE "store"
              /\ rd'[r].total => n = Len(keys)
<1>1. rd \in [Reader -> ReadRequest] /\ rd[r] \in ReadRequest
  BY DEF TypeOK
<1> DEFINE pc == IF rd[r].q \in Scoped THEN "filter" ELSE "store"
           part(keys, n, total) == [rd[r] EXCEPT !.pc = pc, !.ver = Len(hist),
                                                 !.keys = SubSeq(keys, 1, n),
                                                 !.total = total]
<1>2. PICK keys \in Listings(rd[r].q, table) :
        \E n \in 0..Len(keys) : \E total \in Totals(n = Len(keys)) :
           rd' = [rd EXCEPT ![r] = part(keys, n, total)]
  BY DEF ReadRecKeys
<1>3. PICK n \in 0..Len(keys) : \E total \in Totals(n = Len(keys)) :
        rd' = [rd EXCEPT ![r] = part(keys, n, total)]
  BY <1>2
<1>4. PICK total \in Totals(n = Len(keys)) :
        rd' = [rd EXCEPT ![r] = part(keys, n, total)]
  BY <1>3
<1>5. total => n = Len(keys)
  BY <1>4 DEF Totals
<1>6. /\ rd'[r].ver = Len(hist) /\ rd'[r].keys = SubSeq(keys, 1, n)
      /\ rd'[r].q = rd[r].q /\ rd'[r].by = rd[r].by
      /\ rd'[r].total = total /\ rd'[r].pc = pc
  BY <1>1, <1>4 DEF ReadRequest
<1> QED BY <1>5, <1>6

\* What a step does to the keys a request holds.
LEMMA HeldKeys ==
    ASSUME TypeOK, [Next]_vars, NEW r \in Reader, rd'[r].pc \in Holding
    PROVE  \/ /\ rd[r].pc \in Holding
              /\ rd'[r].ver = rd[r].ver /\ rd'[r].keys = rd[r].keys
           \/ \E q \in DOMAIN indexQueries :
                 /\ rd'[r].ver = indexQueries[q].ver
                 /\ rd'[r].keys = indexQueries[q].keys
           \/ /\ rd'[r].ver = Len(hist)
              /\ rd[r].q \in Query
              /\ \E keys \in Listings(rd[r].q, table) : \E n \in 0..Len(keys) :
                    rd'[r].keys = SubSeq(keys, 1, n)
           \/ /\ rd[r].pc \in Holding /\ rd'[r].ver = rd[r].ver
              /\ \A j \in 1..Len(rd'[r].keys) :
                    \E i \in 1..Len(rd[r].keys) : rd'[r].keys[j] = rd[r].keys[i]
<1>1. rd \in [Reader -> ReadRequest] /\ rd[r] \in ReadRequest
  BY DEF TypeOK
<1>2. CASE UNCHANGED rd
  BY <1>2
<1>3. ASSUME NEW x \in Reader, x # r, ReadStep(x)
      PROVE  rd'[r] = rd[r]
  BY <1>1, <1>3 DEF ReadStep, Lookup, Touch, ReadRecKeys, Filter, FilterReadFails,
                    Store, ReadRows, ReadFails
<1>4. CASE \E q \in Query, page \in Pages, limit \in Limits : Lookup(r, q, page, limit)
  BY <1>1, <1>4 DEF Lookup, Usable, Holding
<1>5. CASE ReadRecKeys(r)
  <2>1. rd[r].q \in Query
    BY <1>5 DEF TypeOK, ReadRecKeys
  <2> QED BY <1>5, <2>1, KeysRead
<1>6. CASE Filter(r)
  <2>1. rd[r].pc \in Holding /\ rd[r].keys \in Seq(Key)
    BY <1>1, <1>6 DEF Filter, Holding, ReadRequest
  <2> DEFINE found == Found(rd[r].keys, table)
             pass(elems) == {i \in 1..Len(elems) : elems[i] \in Visible[rd[r].q]}
             filtered(kept) == [rd[r] EXCEPT !.pc = "store", !.keys = At(rd[r].keys, kept),
                                             !.total = rd[r].keys # <<>>]
  <2>2. PICK got \in SUBSET found :
          \/ rd' = [rd EXCEPT ![r] = [rd[r] EXCEPT !.pc = "panicked", !.cut = got # found]]
          \/ \E elems \in RowsOf(rd[r].keys, got) : \E kept \in InOrder(pass(elems)) :
                rd' = [rd EXCEPT ![r] = filtered(kept)]
    BY <1>6 DEF Filter
  <2>3. CASE rd' = [rd EXCEPT ![r] = [rd[r] EXCEPT !.pc = "panicked", !.cut = got # found]]
    BY <1>1, <2>1, <2>3 DEF ReadRequest
  <2>4. CASE \E elems \in RowsOf(rd[r].keys, got) : \E kept \in InOrder(pass(elems)) :
                rd' = [rd EXCEPT ![r] = filtered(kept)]
    <3>1. PICK elems \in RowsOf(rd[r].keys, got) : \E kept \in InOrder(pass(elems)) :
             rd' = [rd EXCEPT ![r] = filtered(kept)]
      BY <2>4
    <3>2. PICK kept \in InOrder(pass(elems)) : rd' = [rd EXCEPT ![r] = filtered(kept)]
      BY <3>1
    <3>3. pass(elems) \in SUBSET (1..Len(rd[r].keys))
      BY <2>1, FoundFinite, RowsAreKeys
    <3>4. rd'[r].ver = rd[r].ver /\ rd'[r].keys = At(rd[r].keys, kept)
      BY <1>1, <3>2 DEF ReadRequest
    <3>5. \A j \in 1..Len(At(rd[r].keys, kept)) :
             \E i \in pass(elems) : At(rd[r].keys, kept)[j] = rd[r].keys[i]
      BY <2>1, <3>3, PickedElements
    <3> QED BY <2>1, <3>3, <3>4, <3>5
  <2> QED BY <2>2, <2>3, <2>4
<1>7. CASE Touch(r) \/ FilterReadFails(r) \/ Store(r)
  <2>1. rd[r].pc \in Holding
    BY <1>7 DEF Touch, FilterReadFails, Store, Holding
  <2>2. Touch(r) => rd'[r].ver = rd[r].ver /\ rd'[r].keys = rd[r].keys
    BY <1>1 DEF Touch, ReadRequest
  <2>3. FilterReadFails(r) => rd'[r].ver = rd[r].ver /\ rd'[r].keys = rd[r].keys
    BY <1>1 DEF FilterReadFails, ReadRequest
  <2>4. Store(r) => rd'[r].ver = rd[r].ver /\ rd'[r].keys = rd[r].keys
    BY <1>1 DEF Store, ReadRequest
  <2> QED BY <1>7, <2>1, <2>2, <2>3, <2>4
<1>8. CASE ReadRows(r)
  <2>1. /\ rd[r].pc = "readRows"
        /\ \/ \E cut : rd' = [rd EXCEPT ![r] =
                                 [rd[r] EXCEPT !.pc = "panicked", !.cut = cut]]
           \/ \E cut, rows : rd' = [rd EXCEPT ![r] =
                                       [rd[r] EXCEPT !.pc = "returned", !.rows = rows,
                                                     !.cut = cut]]
    BY <1>8 DEF ReadRows
  <2>2. ASSUME NEW cut, NEW rows,
               rd' = [rd EXCEPT ![r] = [rd[r] EXCEPT !.pc = "returned", !.rows = rows,
                                                     !.cut = cut]]
        PROVE  rd'[r].ver = rd[r].ver /\ rd'[r].keys = rd[r].keys
    BY <1>1, <2>2 DEF ReadRequest
  <2>3. ASSUME NEW cut,
               rd' = [rd EXCEPT ![r] = [rd[r] EXCEPT !.pc = "panicked", !.cut = cut]]
        PROVE  rd'[r].ver = rd[r].ver /\ rd'[r].keys = rd[r].keys
    BY <1>1, <2>3 DEF ReadRequest
  <2> QED BY <2>1, <2>2, <2>3 DEF Holding
<1>9. CASE ReadFails(r)
  BY <1>1, <1>9 DEF ReadFails, ReadRequest, Holding
<1>10. UNCHANGED rd \/ \E x \in Reader : ReadStep(x)
  BY DEF Next, WriteStep, WriteBatch, DeleteRecords, WriteFails, Invalidate,
         cleanExpiredQueries, Tick, vars
<1> QED
  BY <1>2, <1>3, <1>4, <1>5, <1>6, <1>7, <1>8, <1>9, <1>10 DEF ReadStep

\* The keys of an entry or of a request had rows at the version they were
\* read at, through every step that hands them on (Lookup, Filter, Store).
LEMMA SourcesNext == TypeOK /\ SourcesHadRows /\ [Next]_vars => SourcesHadRows'
<1> SUFFICES ASSUME TypeOK, SourcesHadRows, [Next]_vars PROVE SourcesHadRows'
  OBVIOUS
<1>1. /\ Len(hist) \in Nat \ {0} /\ Len(hist') \in Nat /\ Len(hist') >= Len(hist)
      /\ \A c \in 1..Len(hist) : hist'[c] = hist[c]
  BY HistoryGrows
<1>2. table \in Table
  BY TableType
<1>3. \A q \in DOMAIN indexQueries :
        /\ indexQueries[q] \in Entry /\ indexQueries[q].ver \in 1..Len(hist)
        /\ KeysHadRows(indexQueries[q].ver, indexQueries[q].keys)
  BY DEF TypeOK, Entry, SourcesHadRows
<1>4. \A r \in Reader : rd[r].pc \in Holding =>
        /\ rd[r] \in ReadRequest /\ rd[r].ver \in 1..Len(hist)
        /\ KeysHadRows(rd[r].ver, rd[r].keys)
  BY <1>1 DEF TypeOK, ReadRequest, SourcesHadRows
<1>5. ASSUME NEW v \in 1..Len(hist), NEW keys, KeysHadRows(v, keys)
      PROVE  KeysHadRows(v, keys)'
  BY <1>1, <1>5 DEF KeysHadRows
<1>6. ASSUME NEW r \in Reader, rd'[r].pc \in Holding
      PROVE  rd'[r].ver \in 1..Len(hist) /\ KeysHadRows(rd'[r].ver, rd'[r].keys)
  <2>1. CASE /\ rd[r].pc \in Holding
             /\ rd'[r].ver = rd[r].ver /\ rd'[r].keys = rd[r].keys
    BY <2>1, <1>4
  <2>2. CASE \E q \in DOMAIN indexQueries :
               /\ rd'[r].ver = indexQueries[q].ver
               /\ rd'[r].keys = indexQueries[q].keys
    BY <2>2, <1>3
  <2>3. CASE /\ rd'[r].ver = Len(hist)
             /\ rd[r].q \in Query
             /\ \E keys \in Listings(rd[r].q, table) : \E n \in 0..Len(keys) :
                   rd'[r].keys = SubSeq(keys, 1, n)
    <3>0. PICK keys \in Listings(rd[r].q, table) :
            \E n \in 0..Len(keys) : rd'[r].keys = SubSeq(keys, 1, n)
      BY <2>3
    <3>1. \A i \in 1..Len(rd'[r].keys) : table[rd'[r].keys[i]] # NoRow
      <4>1. PICK n \in 0..Len(keys) : rd'[r].keys = SubSeq(keys, 1, n)
        BY <3>0
      <4>2. /\ keys \in Seq(Key)
            /\ \A i \in 1..Len(keys) : table[keys[i]] # NoRow
        BY <2>3, <1>2, ListingsAreKeys
      <4>3. /\ Len(SubSeq(keys, 1, n)) = n
            /\ \A i \in 1..n : SubSeq(keys, 1, n)[i] = keys[i]
        BY <4>2, PrefixIsPart
      <4>4. \A i \in 1..n : i \in 1..Len(keys)
        BY <4>2
      <4>5. \A i \in 1..n : table[SubSeq(keys, 1, n)[i]] # NoRow
        BY <4>2, <4>3, <4>4
      <4>6. ASSUME NEW i \in 1..Len(rd'[r].keys)
            PROVE  table[rd'[r].keys[i]] # NoRow
        <5>1. Len(rd'[r].keys) = n
          BY <4>1, <4>3
        <5>2. i \in 1..n
          BY <5>1, <4>6
        <5>3. rd'[r].keys[i] = SubSeq(keys, 1, n)[i]
          BY <4>1
        <5> QED BY <5>2, <5>3, <4>5
      <4> QED BY <4>6
    <3>2. rd'[r].ver = Len(hist) /\ Len(hist) \in 1..Len(hist)
      BY <2>3, <1>1
    <3>3. \A i \in 1..Len(rd'[r].keys) : hist[rd'[r].ver].rows[rd'[r].keys[i]] # NoRow
      BY <3>1, <3>2 DEF table
    <3> QED BY <3>2, <3>3 DEF KeysHadRows
  <2>4. CASE /\ rd[r].pc \in Holding /\ rd'[r].ver = rd[r].ver
             /\ \A j \in 1..Len(rd'[r].keys) :
                   \E i \in 1..Len(rd[r].keys) : rd'[r].keys[j] = rd[r].keys[i]
    BY <2>4, <1>4 DEF KeysHadRows
  <2> QED BY <1>6, <2>1, <2>2, <2>3, <2>4, HeldKeys
<1>7. \A r \in Reader : rd'[r].pc \in Holding => KeysHadRows(rd[r].ver, rd[r].keys)'
  BY <1>5, <1>6
<1>8. \A q \in DOMAIN indexQueries' :
        \/ /\ q \in DOMAIN indexQueries
           /\ indexQueries'[q].ver = indexQueries[q].ver
           /\ indexQueries'[q].keys = indexQueries[q].keys
        \/ \E r \in Reader :
              /\ rd[r].pc = "store"
              /\ indexQueries'[q].ver = rd[r].ver
              /\ indexQueries'[q].keys = rd[r].keys
  <2>1. \/ indexQueries' = indexQueries
        \/ \E r \in Reader : Touch(r) \/ Store(r)
        \/ cleanExpiredQueries
    BY DEF Next, ReadStep, Lookup, ReadRecKeys, Filter, FilterReadFails,
           ReadRows, ReadFails, WriteStep, WriteBatch, DeleteRecords,
           WriteFails, Invalidate, Tick, vars
  <2>2. CASE \E r \in Reader : Touch(r)
    BY <2>2, <1>3 DEF Touch, Entry
  <2>3. CASE \E r \in Reader : Store(r)
    <3>1. PICK r \in Reader : Store(r)
      BY <2>3
    <3>2. \A q \in DOMAIN indexQueries' :
            \/ q \in DOMAIN indexQueries /\ indexQueries'[q] = indexQueries[q]
            \/ /\ indexQueries'[q].ver = rd[r].ver
               /\ indexQueries'[q].keys = rd[r].keys
      BY <3>1 DEF Store
    <3>3. rd[r].pc = "store"
      BY <3>1 DEF Store
    <3> QED BY <3>2, <3>3
  <2>4. CASE cleanExpiredQueries
    BY <2>4 DEF cleanExpiredQueries
  <2> QED BY <2>1, <2>2, <2>3, <2>4
<1>9. \A q \in DOMAIN indexQueries' :
        KeysHadRows(indexQueries[q].ver, indexQueries[q].keys)'
  BY <1>3, <1>4, <1>5, <1>8 DEF Holding
<1> QED BY <1>7, <1>9 DEF SourcesHadRows, Holding

\* A request panics on a key that has no row any more (readByRecKeys).
LEMMA PanicNext ==
    ASSUME TypeOK, TypeOK', SourcesHadRows, PanicMissedARow, [Next]_vars
    PROVE  PanicMissedARow'
<1>1. /\ Len(hist) \in Nat \ {0} /\ Len(hist') \in Nat /\ Len(hist') >= Len(hist)
      /\ \A c \in 1..Len(hist) : hist'[c] = hist[c]
  BY HistoryGrows
<1>2. rd \in [Reader -> ReadRequest]
  BY DEF TypeOK
<1> SUFFICES ASSUME NEW r \in Reader, rd'[r].pc = "panicked", ~rd'[r].cut
             PROVE  \E c \in (rd'[r].ver + 1)..Len(hist') :
                      \E i \in 1..Len(rd'[r].keys) : hist'[c].rows[rd'[r].keys[i]] = NoRow
  BY DEF PanicMissedARow
<1>3. rd[r] \in ReadRequest /\ rd[r].ver \in Nat
  BY <1>1, <1>2 DEF ReadRequest
<1>4. CASE rd[r].pc = "panicked"
  <2>1. UNCHANGED rd \/ \E x \in Reader : ReadStep(x)
    BY DEF Next, WriteStep, WriteBatch, DeleteRecords, WriteFails, Invalidate,
           cleanExpiredQueries, Tick, vars
  <2>2. ASSUME NEW x \in Reader, ReadStep(x) PROVE rd'[r] = rd[r]
    BY <1>2, <1>4, <2>2 DEF ReadStep, Lookup, Touch, ReadRecKeys, Filter,
       FilterReadFails, Store, ReadRows, ReadFails
  <2>3. rd'[r] = rd[r]
    BY <2>1, <2>2
  <2>4. PICK c \in (rd[r].ver + 1)..Len(hist) :
           \E i \in 1..Len(rd[r].keys) : hist[c].rows[rd[r].keys[i]] = NoRow
    BY <1>4, <2>3 DEF PanicMissedARow
  <2>5. c \in 1..Len(hist) /\ c \in (rd'[r].ver + 1)..Len(hist')
    BY <1>1, <1>3, <2>3, <2>4
  <2> QED BY <1>1, <2>3, <2>4, <2>5
<1>5. CASE rd[r].pc # "panicked"
  <2>1. /\ rd[r].pc \in Holding
        /\ rd' = [rd EXCEPT ![r] = [rd[r] EXCEPT !.pc = "panicked", !.cut = FALSE]]
        /\ UNCHANGED hist
        /\ \E i \in 1..Len(rd[r].keys) : table[rd[r].keys[i]] = NoRow
    <3>1. \/ rd' = rd
          \/ \E x \in Reader : ReadStep(x)
      BY DEF Next, WriteStep, WriteBatch, DeleteRecords, WriteFails, Invalidate,
             cleanExpiredQueries, Tick, vars
    <3>2. ASSUME NEW x \in Reader, x # r, ReadStep(x) PROVE rd'[r] = rd[r]
      BY <1>2, <3>2 DEF ReadStep, Lookup, Touch, ReadRecKeys, Filter,
         FilterReadFails, Store, ReadRows, ReadFails
    <3>3. ReadStep(r)
      BY <3>1, <3>2, <1>5
    <3>4. Filter(r) \/ ReadRows(r)
      <4>1. ~ \E q \in Query, page \in Pages, limit \in Limits : Lookup(r, q, page, limit)
        BY <1>2 DEF Lookup
      <4>2. ~Touch(r) /\ ~FilterReadFails(r) /\ ~Store(r) /\ ~ReadFails(r)
        BY <1>2, <1>3 DEF Touch, FilterReadFails, Store, ReadFails, ReadRequest
      <4>3. ~ReadRecKeys(r)
        BY <1>2, KeysRead
      <4> QED BY <3>3, <4>1, <4>2, <4>3 DEF ReadStep
    <3>5. CASE Filter(r)
      <4> DEFINE found == Found(rd[r].keys, table)
      <4>1. PICK got \in SUBSET found :
              \/ /\ OutOfRange(got)
                 /\ rd' = [rd EXCEPT ![r] =
                             [rd[r] EXCEPT !.pc = "panicked", !.cut = got # found]]
              \/ \E kept : rd' = [rd EXCEPT ![r] =
                                     [rd[r] EXCEPT !.pc = "store", !.keys = At(rd[r].keys, kept),
                                                   !.total = rd[r].keys # <<>>]]
        BY <3>5 DEF Filter
      <4>2. OutOfRange(got) /\ got = found
            /\ rd' = [rd EXCEPT ![r] = [rd[r] EXCEPT !.pc = "panicked", !.cut = FALSE]]
        <5>1. ASSUME NEW kept,
                     rd' = [rd EXCEPT ![r] =
                              [rd[r] EXCEPT !.pc = "store", !.keys = At(rd[r].keys, kept),
                                            !.total = rd[r].keys # <<>>]]
              PROVE  rd'[r].pc = "store"
          BY <5>1, <1>2 DEF ReadRequest
        <5>2. OutOfRange(got) /\ rd' = [rd EXCEPT ![r] =
                             [rd[r] EXCEPT !.pc = "panicked", !.cut = got # found]]
          BY <4>1, <5>1
        <5>3. rd'[r].cut = (got # found)
          BY <5>2, <1>2, <1>3 DEF ReadRequest
        <5>4. (got # found) = FALSE
          BY <5>3
        <5> QED BY <5>2, <5>4
      <4>3. \E i \in 1..Len(rd[r].keys) : table[rd[r].keys[i]] = NoRow
        BY <4>2, <1>3, OutOfRangeMissesARow DEF ReadRequest
      <4> QED BY <3>5, <4>2, <4>3 DEF Filter, Holding
    <3>6. CASE ReadRows(r)
      <4> DEFINE keys == pageKeys(rd[r].keys, rd[r].page, rd[r].limit)
                 found == Found(keys, table)
      <4>0. /\ rd[r].keys \in Seq(Key) /\ rd[r].page \in Nat
            /\ rd[r].limit \in Nat \ {0}
        BY <1>3 DEF ReadRequest
      <4>7. PICK got \in SUBSET found :
              \/ /\ OutOfRange(got)
                 /\ rd' = [rd EXCEPT ![r] =
                             [rd[r] EXCEPT !.pc = "panicked", !.cut = got # found]]
              \/ \E rows : rd' = [rd EXCEPT ![r] =
                                     [rd[r] EXCEPT !.pc = "returned", !.rows = rows,
                                                   !.cut = got # found]]
        BY <3>6 DEF ReadRows
      <4>1. OutOfRange(found)
            /\ rd' = [rd EXCEPT ![r] = [rd[r] EXCEPT !.pc = "panicked", !.cut = FALSE]]
        <5>1. ASSUME NEW rows,
                     rd' = [rd EXCEPT ![r] = [rd[r] EXCEPT !.pc = "returned", !.rows = rows,
                                                           !.cut = got # found]]
              PROVE  rd'[r].pc = "returned"
          BY <5>1, <1>2 DEF ReadRequest
        <5>2. OutOfRange(got) /\ rd' = [rd EXCEPT ![r] =
                             [rd[r] EXCEPT !.pc = "panicked", !.cut = got # found]]
          BY <4>7, <5>1
        <5>3. rd'[r].cut = (got # found)
          BY <5>2, <1>2, <1>3 DEF ReadRequest
        <5>4. (got # found) = FALSE
          BY <5>3
        <5> QED BY <5>2, <5>4
      <4>2. keys \in Seq(Key)
        BY <4>0, PageIsPart
      <4>3. PICK j \in 1..Len(keys) : table[keys[j]] = NoRow
        BY <4>1, <4>2, OutOfRangeMissesARow
      <4>4. PICK i \in 1..Len(rd[r].keys) : keys[j] = rd[r].keys[i]
        BY <4>0, PageIsPart
      <4>5. table[rd[r].keys[i]] = NoRow
        BY <4>3, <4>4
      <4>6. rd[r].pc = "readRows" /\ UNCHANGED hist
        BY <3>6 DEF ReadRows
      <4> QED BY <4>1, <4>5, <4>6 DEF Holding
    <3> QED BY <3>4, <3>5, <3>6
  <2>2. rd'[r].ver = rd[r].ver /\ rd'[r].keys = rd[r].keys
    BY <2>1, <1>2, <1>3 DEF ReadRequest
  <2>3. PICK i \in 1..Len(rd[r].keys) : hist[Len(hist)].rows[rd[r].keys[i]] = NoRow
    BY <2>1 DEF table
  <2>4. rd[r].ver \in 1..Len(hist) /\ hist[rd[r].ver].rows[rd[r].keys[i]] # NoRow
    <3>0. rd[r].ver \in 0..Len(hist) /\ rd[r].ver # 0
      BY <2>1, <1>3 DEF ReadRequest, TypeOK
    <3>1. rd[r].ver \in 1..Len(hist)
      BY <3>0, <1>1
    <3>2. KeysHadRows(rd[r].ver, rd[r].keys)
      BY <2>1 DEF SourcesHadRows
    <3> QED BY <2>3, <3>1, <3>2 DEF KeysHadRows
  <2>5. Len(hist) \in (rd'[r].ver + 1)..Len(hist')
    BY <2>1, <2>2, <2>3, <2>4, <1>1
  <2>6. hist'[Len(hist)].rows[rd'[r].keys[i]] = NoRow
    BY <2>1, <2>2, <2>3
  <2> QED BY <2>2, <2>3, <2>5, <2>6
<1> QED BY <1>4, <1>5

\* readByRecKeys panics only when a later commit has no row for a key the
\* request held, and that commit's invalidation had not run when the second of
\* the stamp of its lookup began.
THEOREM PanicsNeedARace == Spec => []PanicOnlyByRacingDelete
<1>1. TypeOK /\ TypeOK' /\ SourcesHadRows /\ PanicMissedARow /\ [Next]_vars
        => SourcesHadRows' /\ PanicMissedARow'
  BY SourcesNext, PanicNext
<1>2. Spec => [](SourcesHadRows /\ PanicMissedARow)
  BY <1>1, SourcesInit, TypeCorrect, PTL DEF Spec
<1>3. Fresh /\ PanicMissedARow => PanicOnlyByRacingDelete
  BY DEF Fresh, ReadMissesOnlyRacingCommits, MissesOnlyRacing, PanicMissedARow,
         PanicOnlyByRacingDelete, Holding
<1> QED BY <1>2, <1>3, FreshAlways, PTL

-----------------------------------------------------------------------------
(* An index with a total is whole                                          *)

\* keys are all that q listed at version ver of the history h.
IsWhole(h, q, ver, keys) == keys \in Listings(q, h[ver].rows)

\* A request about to store a total for everyone holds all the keys; only the
\* index of a user is filtered.
TotalsOfWhole ==
    /\ \A r \in Reader : rd[r].pc = "filter" => rd[r].q \in Scoped
    /\ \A r \in Reader : rd[r].pc = "store" /\ rd[r].q \notin Scoped /\ rd[r].total =>
          IsWhole(hist, rd[r].q, rd[r].ver, rd[r].keys)

\* Where the entries of a step come from: kept, or stored by a request.
LEMMA EntriesOfAStep ==
    ASSUME TypeOK, [Next]_vars, NEW q \in DOMAIN indexQueries'
    PROVE  \/ /\ q \in DOMAIN indexQueries
              /\ indexQueries'[q].keys = indexQueries[q].keys
              /\ indexQueries'[q].ver = indexQueries[q].ver
              /\ indexQueries'[q].total = indexQueries[q].total
              /\ indexQueries'[q].by = indexQueries[q].by
           \/ \E r \in Reader :
              /\ Store(r) /\ rd[r].pc = "store" /\ rd[r].q = q
              /\ indexQueries'[q].keys = rd[r].keys
              /\ indexQueries'[q].ver = rd[r].ver
              /\ indexQueries'[q].total = rd[r].total
              /\ indexQueries'[q].by = r
<1>1. \/ indexQueries' = indexQueries
      \/ \E r \in Reader : Touch(r) \/ Store(r)
      \/ cleanExpiredQueries
  BY DEF Next, ReadStep, Lookup, ReadRecKeys, Filter, FilterReadFails,
         ReadRows, ReadFails, WriteStep, WriteBatch, DeleteRecords,
         WriteFails, Invalidate, Tick, vars
<1>2. CASE \E r \in Reader : Touch(r)
  <2>1. \A x \in DOMAIN indexQueries : indexQueries[x] \in Entry
    BY DEF TypeOK
  <2> QED BY <1>2, <2>1 DEF Touch, Entry
<1>3. ASSUME NEW r \in Reader, Store(r)
      PROVE  \/ q \in DOMAIN indexQueries /\ indexQueries'[q] = indexQueries[q]
             \/ /\ rd[r].pc = "store" /\ rd[r].q = q
                /\ indexQueries'[q].keys = rd[r].keys
                /\ indexQueries'[q].ver = rd[r].ver
                /\ indexQueries'[q].total = rd[r].total
                /\ indexQueries'[q].by = r
  BY <1>3 DEF Store
<1>4. CASE cleanExpiredQueries
  BY <1>4 DEF cleanExpiredQueries
<1> QED BY <1>1, <1>2, <1>3, <1>4

\* No entry and no keys at first.
LEMMA WholeInit == Init => TotalsOfWhole /\ IndexWithTotalIsWhole
BY DEF Init, TotalsOfWhole, IndexWithTotalIsWhole

\* What was listed at a version is listed there for ever.
LEMMA WholeForEver ==
    ASSUME TypeOK, [Next]_vars, NEW q, NEW v \in 1..Len(hist), NEW keys
    PROVE  IsWhole(hist', q, v, keys) <=> IsWhole(hist, q, v, keys)
<1>1. hist'[v] = hist[v]
  BY HistoryGrows
<1> QED BY <1>1 DEF IsWhole

\* How a request comes to be before its store (readWithIndex).
LEMMA BeforeTheStore ==
    ASSUME TypeOK, [Next]_vars, NEW r \in Reader, rd'[r].pc \in {"filter", "store"}
    PROVE  rd'[r] = rd[r] \/ ReadRecKeys(r) \/ Filter(r) \/ FilterReadFails(r)
<1>0. rd \in [Reader -> ReadRequest] /\ rd[r] \in ReadRequest
  BY DEF TypeOK
<1>1. UNCHANGED rd \/ \E x \in Reader : ReadStep(x)
  BY DEF Next, WriteStep, WriteBatch, DeleteRecords, WriteFails, Invalidate,
         cleanExpiredQueries, Tick, vars
<1>2. ASSUME NEW x \in Reader, x # r, ReadStep(x) PROVE rd'[r] = rd[r]
  BY <1>0, <1>2 DEF ReadStep, Lookup, Touch, ReadRecKeys, Filter, FilterReadFails,
                    Store, ReadRows, ReadFails
<1>3. ASSUME NEW q \in Query, NEW page \in Pages, NEW limit \in Limits,
             Lookup(r, q, page, limit)
      PROVE  FALSE
  BY <1>0, <1>3 DEF Lookup
<1>4. ~Touch(r) /\ ~Store(r) /\ ~ReadFails(r)
  BY <1>0 DEF Touch, Store, ReadFails, ReadRequest
<1>5. ASSUME ReadRows(r) PROVE FALSE
  <2>1. \/ \E cut : rd' = [rd EXCEPT ![r] = [rd[r] EXCEPT !.pc = "panicked", !.cut = cut]]
        \/ \E cut, rows : rd' = [rd EXCEPT ![r] =
              [rd[r] EXCEPT !.pc = "returned", !.rows = rows, !.cut = cut]]
    BY <1>5 DEF ReadRows
  <2>2. ASSUME NEW cut,
               rd' = [rd EXCEPT ![r] = [rd[r] EXCEPT !.pc = "panicked", !.cut = cut]]
        PROVE  FALSE
    BY <1>0, <2>2 DEF ReadRequest
  <2>3. ASSUME NEW cut, NEW rows,
               rd' = [rd EXCEPT ![r] =
                  [rd[r] EXCEPT !.pc = "returned", !.rows = rows, !.cut = cut]]
        PROVE  FALSE
    BY <1>0, <2>3 DEF ReadRequest
  <2> QED BY <2>1, <2>2, <2>3
<1> QED BY <1>1, <1>2, <1>3, <1>4, <1>5 DEF ReadStep

\* readRecKeys hands on a total only with all the keys (MetaData fails in the
\* transaction of a result that broke off), and nothing changes them on the way
\* into the map.
LEMMA WholeRequests ==
    ASSUME TypeOK, TotalsOfWhole, [Next]_vars PROVE TotalsOfWhole'
<1>1. rd \in [Reader -> ReadRequest]
  BY DEF TypeOK
<1>2. SUFFICES ASSUME NEW r \in Reader, rd'[r].pc \in {"filter", "store"}
               PROVE  /\ rd'[r].pc = "filter" => rd'[r].q \in Scoped
                      /\ rd'[r].pc = "store" /\ rd'[r].q \notin Scoped /\ rd'[r].total =>
                            IsWhole(hist', rd'[r].q, rd'[r].ver, rd'[r].keys)
  BY DEF TotalsOfWhole
<1>t. rd[r] \in ReadRequest
  BY <1>1
<1>3. CASE rd'[r] = rd[r]
  <2>1. rd[r].ver \in 1..Len(hist)
    BY <1>2, <1>3, HistoryGrows DEF TypeOK, ReadRequest, Holding
  <2>2. IsWhole(hist', rd[r].q, rd[r].ver, rd[r].keys) <=> IsWhole(hist, rd[r].q, rd[r].ver, rd[r].keys)
    BY <2>1, WholeForEver
  <2> QED BY <1>2, <1>3, <2>2 DEF TotalsOfWhole, IsWhole
<1>4. CASE ReadRecKeys(r)
  <2>1. rd[r].q \in Query /\ table \in Table /\ Len(hist) \in Nat \ {0}
    BY <1>4, TableType DEF TypeOK, ReadRecKeys
  <2>2. PICK keys \in Listings(rd[r].q, table) : \E n \in 0..Len(keys) :
          /\ rd'[r].keys = SubSeq(keys, 1, n) /\ rd'[r].ver = Len(hist)
          /\ rd'[r].q = rd[r].q
          /\ rd'[r].total => n = Len(keys)
          /\ rd'[r].pc = IF rd[r].q \in Scoped THEN "filter" ELSE "store"
    BY <1>4, KeysRead
  <2>3. keys \in Seq(Key)
    BY <2>1, ListingsAreKeys
  <2>4. rd'[r].total => rd'[r].keys = keys
    BY <2>2, <2>3, PrefixIsPart
  <2>5. hist' = hist
    BY <1>4 DEF ReadRecKeys
  <2> QED BY <2>2, <2>4, <2>5 DEF IsWhole, table
<1>5. CASE Filter(r) \/ FilterReadFails(r)
  <2>1. rd[r].q \in Scoped
    BY <1>5 DEF Filter, FilterReadFails, TotalsOfWhole
  <2>2. \/ \E cut : rd' = [rd EXCEPT ![r] = [rd[r] EXCEPT !.pc = "panicked", !.cut = cut]]
        \/ \E keys, total : rd' = [rd EXCEPT ![r] =
                               [rd[r] EXCEPT !.pc = "store", !.keys = keys, !.total = total]]
        \/ rd' = [rd EXCEPT ![r] = [rd[r] EXCEPT !.pc = "store", !.total = FALSE]]
    <3>1. CASE Filter(r)
      BY <3>1 DEF Filter
    <3>2. CASE FilterReadFails(r)
      BY <3>2 DEF FilterReadFails
    <3> QED BY <1>5, <3>1, <3>2
  <2>3. ASSUME NEW cut,
               rd' = [rd EXCEPT ![r] = [rd[r] EXCEPT !.pc = "panicked", !.cut = cut]]
        PROVE  FALSE
    BY <1>1, <1>2, <1>t, <2>3 DEF ReadRequest
  <2>4. ASSUME NEW keys, NEW total,
               rd' = [rd EXCEPT ![r] =
                        [rd[r] EXCEPT !.pc = "store", !.keys = keys, !.total = total]]
        PROVE  rd'[r].q = rd[r].q /\ rd'[r].pc = "store"
    BY <1>1, <1>t, <2>4 DEF ReadRequest
  <2>5. CASE rd' = [rd EXCEPT ![r] = [rd[r] EXCEPT !.pc = "store", !.total = FALSE]]
    BY <1>1, <1>t, <2>1, <2>5 DEF ReadRequest
  <2> QED BY <2>1, <2>2, <2>3, <2>4, <2>5
<1>6. \/ rd'[r] = rd[r] \/ ReadRecKeys(r) \/ Filter(r) \/ FilterReadFails(r)
  BY <1>2, BeforeTheStore
<1> QED BY <1>3, <1>4, <1>5, <1>6

\* The part of a result that breaks off in readRecKeys is stored and served
\* until the next write, but never together with a number of records.
THEOREM TotalsComeWithTheWhole == Spec => []IndexWithTotalIsWhole
<1>1. TypeOK /\ TotalsOfWhole /\ IndexWithTotalIsWhole /\ [Next]_vars
        => IndexWithTotalIsWhole'
  <2> SUFFICES ASSUME TypeOK, TotalsOfWhole, IndexWithTotalIsWhole, [Next]_vars,
                      NEW q \in DOMAIN indexQueries', q \notin Scoped,
                      indexQueries'[q].total
               PROVE  indexQueries'[q].keys
                        \in Listings(q, hist'[indexQueries'[q].ver].rows)
    BY DEF IndexWithTotalIsWhole, Listings, Matching, Present
  <2>1. \E v \in 1..Len(hist) : /\ indexQueries'[q].ver = v
                                /\ IsWhole(hist, q, v, indexQueries'[q].keys)
    <3>1. CASE /\ q \in DOMAIN indexQueries
               /\ indexQueries'[q].keys = indexQueries[q].keys
               /\ indexQueries'[q].ver = indexQueries[q].ver
               /\ indexQueries'[q].total = indexQueries[q].total
      BY <3>1 DEF TypeOK, Entry, IndexWithTotalIsWhole, IsWhole
    <3>2. ASSUME NEW r \in Reader, rd[r].pc = "store", rd[r].q = q,
                 indexQueries'[q].keys = rd[r].keys, indexQueries'[q].ver = rd[r].ver,
                 indexQueries'[q].total = rd[r].total
          PROVE  /\ rd[r].ver \in 1..Len(hist)
                 /\ IsWhole(hist, q, rd[r].ver, rd[r].keys)
      BY <3>2, HistoryGrows DEF TypeOK, ReadRequest, Holding, TotalsOfWhole
    <3> QED BY <3>1, <3>2, EntriesOfAStep
  <2> QED BY <2>1, HistoryGrows DEF IsWhole
<1>2. TypeOK /\ TotalsOfWhole /\ [Next]_vars => TotalsOfWhole'
  BY WholeRequests
<1> QED BY <1>1, <1>2, WholeInit, TypeCorrect, PTL DEF Spec

-----------------------------------------------------------------------------
(* Pages of one entry are disjoint                                         *)

Distinct(s) == \A i, j \in 1..Len(s) : i # j => s[i] # s[j]

\* A request that has stored its keys, if it read any, changes them no more.
Stored == {"readRows", "returned", "failed", "panicked"}

\* Position p is on a page (pageKeys).
OnPage(p, page, limit) == page * limit < p /\ p <= page * limit + limit

\* The rows are rows of the keys on the page.
RowsOfPage(rows, keys, page, limit) ==
    \A i \in 1..Len(rows) : \E p \in 1..Len(keys) :
        OnPage(p, page, limit) /\ rows[i] = keys[p]

RowsOnPage(r) == RowsOfPage(rd[r].rows, rd[r].keys, rd[r].page, rd[r].limit)

\* Entries and the requests that were served from them hold the keys of the
\* request that made them, which lists no record twice.
KeysOfMaker ==
    /\ \A q \in DOMAIN indexQueries :
          indexQueries[q].keys = rd[indexQueries[q].by].keys
    /\ \A r \in Reader : rd[r].pc \in {"readRecKeys", "filter", "store"} => rd[r].by = r
    /\ \A r \in Reader : rd[r].pc \in {"touch", "readRows", "returned"} =>
          /\ rd[r].by \in Reader
          /\ rd[rd[r].by].pc \in Stored \/ rd[r].by = r
          /\ rd[rd[r].by].keys = rd[r].keys
    /\ \A r \in Reader : Distinct(rd[r].keys)
    /\ \A r \in Reader : rd[r].pc = "returned" => RowsOnPage(r)

\* A listing has every record once, and so has its beginning (readRecKeys).
LEMMA ListingsAreDistinct ==
    ASSUME NEW q \in Query, NEW t \in Table, NEW s \in Listings(q, t),
           NEW n \in 0..Len(s)
    PROVE  Distinct(SubSeq(s, 1, n))
<1>1. s \in Seq(Key)
  BY ListingsAreKeys
<1>2. IsFiniteSet(Matching(q, t)) /\ Cardinality(Matching(q, t)) \in Nat
  <2>1. Matching(q, t) \subseteq Key
    BY DEF Matching, Present
  <2>2. IsFiniteSet(Matching(q, t))
    BY <2>1, FS_Subset, IndexAssumption DEF IndexAssumption
  <2> QED BY <2>2, FS_CardinalityType
<1>3. s \in [1..Cardinality(Matching(q, t)) -> Matching(q, t)]
  BY DEF Listings
<1>4. Len(s) = Cardinality(Matching(q, t))
  BY <1>1, <1>2, <1>3
<1>5. \A i, j \in 1..Len(s) : i < j => s[i] # s[j]
  BY <1>4 DEF Listings
<1>6. \A i, j \in 1..Len(s) : i # j => s[i] # s[j]
  <2> SUFFICES ASSUME NEW i \in 1..Len(s), NEW j \in 1..Len(s), i # j
               PROVE  s[i] # s[j]
    OBVIOUS
  <2>1. i < j \/ j < i
    OBVIOUS
  <2> QED BY <2>1, <1>5
<1>7. /\ Len(SubSeq(s, 1, n)) = n
      /\ \A i \in 1..n : SubSeq(s, 1, n)[i] = s[i]
  BY <1>1, PrefixIsPart
<1>8. \A i \in 1..n : i \in 1..Len(s)
  BY <1>1
<1> QED BY <1>6, <1>7, <1>8 DEF Distinct

\* Keys picked at positions in order are as distinct as the keys are (Filter).
LEMMA PickedAreDistinct ==
    ASSUME NEW keys \in Seq(Key), Distinct(keys),
           NEW P \in SUBSET (1..Len(keys)), NEW idx \in InOrder(P)
    PROVE  Distinct(At(keys, idx))
<1>1. IsFiniteSet(P) /\ Cardinality(P) \in Nat
  <2>1. IsFiniteSet(1..Len(keys))
    BY CountTo
  <2>2. IsFiniteSet(P)
    BY <2>1, FS_Subset
  <2> QED BY <2>2, FS_CardinalityType
<1>2. idx \in [1..Cardinality(P) -> P]
  BY DEF InOrder
<1>3. Len(At(keys, idx)) = Cardinality(P)
  BY PickedElements
<1>4. \A j \in 1..Cardinality(P) : idx[j] \in 1..Len(keys) /\ At(keys, idx)[j] = keys[idx[j]]
  BY <1>2 DEF At
<1>5. \A i, j \in 1..Cardinality(P) : i # j => idx[i] # idx[j]
  <2> SUFFICES ASSUME NEW i \in 1..Cardinality(P), NEW j \in 1..Cardinality(P), i # j
               PROVE  idx[i] # idx[j]
    OBVIOUS
  <2>1. i < j \/ j < i
    BY <1>1
  <2>2. \A a, b \in 1..Cardinality(P) : a < b => idx[a] < idx[b]
    BY DEF InOrder
  <2>3. idx[i] \in Int /\ idx[j] \in Int
    BY <1>4
  <2> QED BY <2>1, <2>2, <2>3
<1> QED BY <1>3, <1>4, <1>5 DEF Distinct

\* What readByRecKeys returns for a page are rows of the keys on it.
LEMMA RowsComeFromThePage ==
    ASSUME NEW keys \in Seq(Key), NEW page \in Nat, NEW limit \in Nat \ {0}, NEW t,
           NEW got, got \subseteq Found(pageKeys(keys, page, limit), t),
           NEW rows, rows \in RowsOf(pageKeys(keys, page, limit), got)
    PROVE  RowsOfPage(rows, keys, page, limit)
<1> SUFFICES ASSUME NEW i \in 1..Len(rows)
             PROVE  \E p \in 1..Len(keys) : OnPage(p, page, limit) /\ rows[i] = keys[p]
  BY DEF RowsOfPage
<1> DEFINE part == pageKeys(keys, page, limit)
           P == got \cap Slots(got)
           base == page * limit
           last == Least(base + limit, Len(keys))
<1>1. part \in Seq(Key)
  BY PageIsPart
<1>2. P \in SUBSET (1..Len(part))
  BY <1>1, FoundFinite
<1>3. PICK idx \in InOrder(P) : rows = At(part, idx)
  BY DEF RowsOf
<1>4. PICK j \in P : rows[i] = part[j]
  <2> HIDE DEF part, P
  <2> QED BY <1>1, <1>2, <1>3, PickedElements
<1>5. j \in 1..Len(part)
  BY <1>2
<1>6. base \in Nat /\ last \in Nat /\ last <= Len(keys) /\ last <= base + limit
  <2>1. base \in Nat
    OBVIOUS
  <2> HIDE DEF base
  <2> QED BY <2>1 DEF Least
<1>7. part = SubSeq(keys, base + 1, last)
  BY DEF pageKeys
<1> HIDE DEF part, P, base, last
<1>8. Len(part) = IF base + 1 <= last THEN last - base ELSE 0
  BY <1>6, <1>7
<1>9. base + j \in 1..Len(keys) /\ base < base + j /\ base + j <= base + limit
  BY <1>5, <1>6, <1>8
<1>10. part[j] = keys[base + j]
  <2>1. base + 1 \in Nat /\ base + 1 >= 1
    BY <1>6
  <2>2. \A first \in Nat : first >= 1 /\ j \in 1..Len(SubSeq(keys, first, last)) =>
           SubSeq(keys, first, last)[j] = keys[first + j - 1]
    BY <1>6
  <2>3. part[j] = keys[base + 1 + j - 1]
    BY <1>5, <1>7, <2>1, <2>2
  <2>4. base + 1 + j - 1 = base + j
    BY <1>5, <1>6, <1>8
  <2> QED BY <2>3, <2>4
<1>11. OnPage(base + j, page, limit)
  BY <1>9 DEF OnPage, base
<1> QED BY <1>4, <1>9, <1>10, <1>11

\* What a step does to the keys of a request, to whom it owes them, and to the
\* rows it returns.
LEMMA KeysOfAStep ==
    ASSUME TypeOK, [Next]_vars, NEW r \in Reader
    PROVE  \/ rd'[r] = rd[r]
           \/ /\ rd[r].pc = "idle" /\ rd'[r].pc = "touch"
              /\ \E q \in DOMAIN indexQueries : /\ rd'[r].keys = indexQueries[q].keys
                                                /\ rd'[r].by = indexQueries[q].by
           \/ /\ rd[r].pc = "idle" /\ rd'[r].pc = "readRecKeys"
              /\ rd'[r].keys = <<>> /\ rd'[r].by = r
           \/ /\ rd[r].pc = "readRecKeys" /\ rd'[r].pc \in {"filter", "store"}
              /\ Distinct(rd'[r].keys) /\ rd'[r].by = rd[r].by
           \/ /\ rd[r].pc = "filter" /\ rd'[r].pc \in {"store", "panicked"}
              /\ Distinct(rd[r].keys) => Distinct(rd'[r].keys)
              /\ rd'[r].by = rd[r].by
           \/ /\ rd[r].pc \in {"touch", "store"} /\ rd'[r].pc = "readRows"
              /\ rd'[r].keys = rd[r].keys /\ rd'[r].by = rd[r].by
           \/ /\ rd[r].pc = "readRows" /\ rd'[r].pc = "returned"
              /\ rd'[r].keys = rd[r].keys /\ rd'[r].by = rd[r].by
              /\ RowsOnPage(r)'
           \/ /\ rd[r].pc \in {"readRecKeys", "readRows"}
              /\ rd'[r].pc \in {"failed", "panicked"}
              /\ rd'[r].keys = rd[r].keys /\ rd'[r].by = rd[r].by
<1>1. rd \in [Reader -> ReadRequest] /\ rd[r] \in ReadRequest
  BY DEF TypeOK
<1>2. CASE UNCHANGED rd
  BY <1>2
<1>3. ASSUME NEW x \in Reader, x # r, ReadStep(x)
      PROVE  rd'[r] = rd[r]
  BY <1>1, <1>3 DEF ReadStep, Lookup, Touch, ReadRecKeys, Filter, FilterReadFails,
                    Store, ReadRows, ReadFails
<1>4. ASSUME NEW q \in Query, NEW page \in Pages, NEW limit \in Limits,
             Lookup(r, q, page, limit)
      PROVE  /\ rd[r].pc = "idle"
             /\ \/ /\ rd'[r].pc = "touch" /\ q \in DOMAIN indexQueries
                   /\ rd'[r].keys = indexQueries[q].keys
                   /\ rd'[r].by = indexQueries[q].by
                \/ /\ rd'[r].pc = "readRecKeys" /\ rd'[r].keys = <<>> /\ rd'[r].by = r
  BY <1>1, <1>4 DEF Lookup, Usable
<1>5. CASE ReadRecKeys(r)
  <2>1. rd[r].q \in Query /\ table \in Table
    BY <1>5, TableType DEF TypeOK, ReadRecKeys
  <2>2. PICK keys \in Listings(rd[r].q, table) : \E n \in 0..Len(keys) :
          /\ rd'[r].keys = SubSeq(keys, 1, n) /\ rd'[r].by = rd[r].by
          /\ rd'[r].pc = IF rd[r].q \in Scoped THEN "filter" ELSE "store"
    BY <1>5, KeysRead
  <2>3. Distinct(rd'[r].keys)
    BY <2>1, <2>2, ListingsAreDistinct
  <2> QED BY <1>5, <2>2, <2>3 DEF ReadRecKeys
<1>6. CASE Filter(r)
  <2>1. rd[r].pc = "filter" /\ rd[r].keys \in Seq(Key)
    BY <1>1, <1>6 DEF Filter, ReadRequest
  <2> DEFINE found == Found(rd[r].keys, table)
             pass(elems) == {i \in 1..Len(elems) : elems[i] \in Visible[rd[r].q]}
             filtered(kept) == [rd[r] EXCEPT !.pc = "store", !.keys = At(rd[r].keys, kept),
                                             !.total = rd[r].keys # <<>>]
  <2>2. PICK got \in SUBSET found :
          \/ rd' = [rd EXCEPT ![r] = [rd[r] EXCEPT !.pc = "panicked", !.cut = got # found]]
          \/ \E elems \in RowsOf(rd[r].keys, got) : \E kept \in InOrder(pass(elems)) :
                rd' = [rd EXCEPT ![r] = filtered(kept)]
    BY <1>6 DEF Filter
  <2>3. CASE rd' = [rd EXCEPT ![r] = [rd[r] EXCEPT !.pc = "panicked", !.cut = got # found]]
    BY <1>1, <2>1, <2>3 DEF ReadRequest
  <2>4. CASE \E elems \in RowsOf(rd[r].keys, got) : \E kept \in InOrder(pass(elems)) :
                rd' = [rd EXCEPT ![r] = filtered(kept)]
    <3>1. PICK elems \in RowsOf(rd[r].keys, got) : \E kept \in InOrder(pass(elems)) :
             rd' = [rd EXCEPT ![r] = filtered(kept)]
      BY <2>4
    <3>2. PICK kept \in InOrder(pass(elems)) : rd' = [rd EXCEPT ![r] = filtered(kept)]
      BY <3>1
    <3>3. pass(elems) \in SUBSET (1..Len(rd[r].keys))
      BY <2>1, FoundFinite, RowsAreKeys
    <3>4. /\ rd'[r].pc = "store" /\ rd'[r].by = rd[r].by
          /\ rd'[r].keys = At(rd[r].keys, kept)
      BY <1>1, <3>2 DEF ReadRequest
    <3>5. Distinct(rd[r].keys) => Distinct(At(rd[r].keys, kept))
      BY <2>1, <3>3, PickedAreDistinct
    <3> QED BY <2>1, <3>4, <3>5
  <2> QED BY <2>2, <2>3, <2>4
<1>7. Touch(r) \/ Store(r) =>
        /\ rd[r].pc \in {"touch", "store"} /\ rd'[r].pc = "readRows"
        /\ rd'[r].keys = rd[r].keys /\ rd'[r].by = rd[r].by
  <2>1. CASE Touch(r)
    BY <1>1, <2>1 DEF Touch, ReadRequest
  <2>2. CASE Store(r)
    BY <1>1, <2>2 DEF Store, ReadRequest
  <2> QED BY <2>1, <2>2
<1>8. FilterReadFails(r) =>
        /\ rd[r].pc = "filter" /\ rd'[r].pc = "store"
        /\ rd'[r].keys = rd[r].keys /\ rd'[r].by = rd[r].by
  BY <1>1 DEF FilterReadFails, ReadRequest
<1>9. CASE ReadRows(r)
  <2> DEFINE keys == pageKeys(rd[r].keys, rd[r].page, rd[r].limit)
             found == Found(keys, table)
  <2>1. PICK got \in SUBSET found :
          \/ rd' = [rd EXCEPT ![r] = [rd[r] EXCEPT !.pc = "panicked", !.cut = got # found]]
          \/ \E rows \in RowsOf(keys, got) :
                rd' = [rd EXCEPT ![r] = [rd[r] EXCEPT !.pc = "returned", !.rows = rows,
                                                      !.cut = got # found]]
    BY <1>9 DEF ReadRows
  <2>2. rd[r].pc = "readRows"
    BY <1>9 DEF ReadRows
  <2>3. CASE rd' = [rd EXCEPT ![r] = [rd[r] EXCEPT !.pc = "panicked", !.cut = got # found]]
    BY <1>1, <2>2, <2>3 DEF ReadRequest
  <2>4. ASSUME NEW rows \in RowsOf(keys, got),
               rd' = [rd EXCEPT ![r] = [rd[r] EXCEPT !.pc = "returned", !.rows = rows,
                                                     !.cut = got # found]]
        PROVE  /\ rd'[r].pc = "returned" /\ rd'[r].keys = rd[r].keys
               /\ rd'[r].by = rd[r].by /\ RowsOnPage(r)'
    <3>1. /\ rd'[r].pc = "returned" /\ rd'[r].keys = rd[r].keys
          /\ rd'[r].by = rd[r].by /\ rd'[r].rows = rows
          /\ rd'[r].page = rd[r].page /\ rd'[r].limit = rd[r].limit
      <4> HIDE DEF found, keys
      <4> QED BY <1>1, <2>4 DEF ReadRequest
    <3>2. RowsOfPage(rows, rd[r].keys, rd[r].page, rd[r].limit)
      <4>1. rd[r].keys \in Seq(Key) /\ rd[r].page \in Nat /\ rd[r].limit \in Nat \ {0}
        BY <1>1 DEF ReadRequest
      <4>2. /\ got \subseteq Found(pageKeys(rd[r].keys, rd[r].page, rd[r].limit), table)
            /\ rows \in RowsOf(pageKeys(rd[r].keys, rd[r].page, rd[r].limit), got)
        OBVIOUS
      <4> HIDE DEF found, keys
      <4> QED BY <4>1, <4>2, RowsComeFromThePage
    <3> HIDE DEF found, keys
    <3> QED BY <3>1, <3>2 DEF RowsOnPage
  <2> QED BY <2>1, <2>2, <2>3, <2>4
<1>10. ReadFails(r) =>
         /\ rd[r].pc \in {"readRecKeys", "readRows"} /\ rd'[r].pc = "failed"
         /\ rd'[r].keys = rd[r].keys /\ rd'[r].by = rd[r].by
  BY <1>1 DEF ReadFails, ReadRequest
<1>11. UNCHANGED rd \/ \E x \in Reader : ReadStep(x)
  BY DEF Next, WriteStep, WriteBatch, DeleteRecords, WriteFails, Invalidate,
         cleanExpiredQueries, Tick, vars
<1>12. CASE ReadStep(r)
  <2>1. CASE \E q \in Query, page \in Pages, limit \in Limits : Lookup(r, q, page, limit)
    BY <2>1, <1>4
  <2> QED
    BY <1>12, <2>1, <1>5, <1>6, <1>7, <1>8, <1>9, <1>10 DEF ReadStep
<1> QED
  BY <1>2, <1>3, <1>11, <1>12

\* No keys and no rows at first.
LEMMA MakerInit == Init => KeysOfMaker
<1> SUFFICES ASSUME Init PROVE KeysOfMaker
  OBVIOUS
<1>1. \A r \in Reader : rd[r].pc = "idle" /\ rd[r].keys = <<>>
  BY DEF Init
<1>2. DOMAIN indexQueries = {}
  BY DEF Init
<1> QED BY <1>1, <1>2 DEF KeysOfMaker, Distinct

\* Keys are handed on unchanged from the request that read them to its entry
\* and to every request served from it (Store, Lookup, Touch, ReadRows).
LEMMA MakerNext ==
    TypeOK /\ MakersStored /\ KeysOfMaker /\ [Next]_vars => KeysOfMaker'
<1> SUFFICES ASSUME TypeOK, MakersStored, KeysOfMaker, [Next]_vars PROVE KeysOfMaker'
  OBVIOUS
<1>1. \A q \in DOMAIN indexQueries :
        /\ indexQueries[q].by \in Reader
        /\ rd[indexQueries[q].by].pc \in Stored
        /\ indexQueries[q].keys = rd[indexQueries[q].by].keys
  BY DEF TypeOK, Entry, MakersStored, Stored, KeysOfMaker
<1>2. ASSUME NEW r \in Reader, rd[r].pc \in Stored
      PROVE  rd'[r].pc \in Stored /\ rd'[r].keys = rd[r].keys
  BY <1>2, KeysOfAStep DEF Stored
<1>3. ASSUME NEW q \in DOMAIN indexQueries'
      PROVE  indexQueries'[q].keys = rd'[indexQueries'[q].by].keys
  <2>1. CASE /\ q \in DOMAIN indexQueries
             /\ indexQueries'[q].keys = indexQueries[q].keys
             /\ indexQueries'[q].by = indexQueries[q].by
    BY <2>1, <1>1, <1>2
  <2>2. ASSUME NEW r \in Reader, rd[r].pc = "store",
               indexQueries'[q].keys = rd[r].keys, indexQueries'[q].by = r, Store(r)
        PROVE  rd'[r].keys = rd[r].keys
    BY <2>2 DEF Store, TypeOK, ReadRequest
  <2> QED BY <2>1, <2>2, EntriesOfAStep
<1>4. ASSUME NEW r \in Reader, rd'[r].pc \in {"readRecKeys", "filter", "store"}
      PROVE  rd'[r].by = r
  BY <1>4, KeysOfAStep DEF KeysOfMaker
<1>5. ASSUME NEW r \in Reader, rd'[r].pc \in {"touch", "readRows", "returned"}
      PROVE  /\ rd'[r].by \in Reader
             /\ rd'[rd'[r].by].pc \in Stored \/ rd'[r].by = r
             /\ rd'[rd'[r].by].keys = rd'[r].keys
  <2>1. CASE /\ rd[r].pc \in {"touch", "readRows", "returned"}
             /\ rd'[r].keys = rd[r].keys /\ rd'[r].by = rd[r].by
    BY <2>1, <1>2 DEF KeysOfMaker
  <2>2. CASE /\ rd[r].pc = "store"
             /\ rd'[r].keys = rd[r].keys /\ rd'[r].by = rd[r].by
    BY <2>2 DEF KeysOfMaker
  <2>3. ASSUME NEW q \in DOMAIN indexQueries,
               rd'[r].keys = indexQueries[q].keys, rd'[r].by = indexQueries[q].by
        PROVE  /\ rd'[r].by \in Reader
               /\ rd'[rd'[r].by].pc \in Stored
               /\ rd'[rd'[r].by].keys = rd'[r].keys
    BY <2>3, <1>1, <1>2
  <2> QED BY <1>5, <2>1, <2>2, <2>3, KeysOfAStep
<1>6. ASSUME NEW r \in Reader
      PROVE  Distinct(rd'[r].keys)
  <2>1. Distinct(rd[r].keys)
    BY DEF KeysOfMaker
  <2>2. \A q \in DOMAIN indexQueries : Distinct(indexQueries[q].keys)
    BY <1>1 DEF KeysOfMaker
  <2>3. Distinct(<<>>)
    BY DEF Distinct
  <2> QED BY <2>1, <2>2, <2>3, KeysOfAStep
<1>7. ASSUME NEW r \in Reader, rd'[r].pc = "returned"
      PROVE  RowsOnPage(r)'
  <2>1. CASE rd'[r] = rd[r]
    <3>1. RowsOnPage(r)
      BY <1>7, <2>1 DEF KeysOfMaker
    <3> QED BY <2>1, <3>1 DEF RowsOnPage
  <2> QED BY <1>7, <2>1, KeysOfAStep
<1> QED BY <1>3, <1>4, <1>5, <1>6, <1>7 DEF KeysOfMaker

\* Two pages of one size, one of an earlier and one of a later number, have no
\* position in common.
LEMMA PagesApart ==
    ASSUME NEW m \in Nat, NEW n \in Nat, NEW limit \in Nat, m < n
    PROVE  m * limit + limit <= n * limit
<1>1. PICK d \in Nat : n = m + 1 + d
  <2>1. n - m - 1 \in Nat /\ n = m + 1 + (n - m - 1)
    OBVIOUS
  <2> QED BY <2>1
<1>2. n * limit = m * limit + limit + d * limit
  BY <1>1
<1>3. d * limit >= 0 /\ d * limit \in Nat /\ m * limit \in Nat
  OBVIOUS
<1> QED BY <1>2, <1>3

\* Two requests served from one entry, for different pages of one size, never
\* return the same record: they hold the same keys, no two of them the same.
THEOREM PagesOfAnEntryAreDisjoint == Spec => []PagesDisjoint
<1>1. TypeOK /\ KeysOfMaker => PagesDisjoint
  <2> SUFFICES ASSUME TypeOK, KeysOfMaker,
                      NEW r1 \in Reader, NEW r2 \in Reader,
                      rd[r1].pc = "returned", rd[r2].pc = "returned",
                      rd[r1].by = rd[r2].by, rd[r1].limit = rd[r2].limit,
                      rd[r1].page # rd[r2].page,
                      NEW i \in 1..Len(rd[r1].rows), NEW j \in 1..Len(rd[r2].rows),
                      rd[r1].rows[i] = rd[r2].rows[j]
               PROVE  FALSE
    BY DEF PagesDisjoint
  <2>1. rd[r1].keys = rd[r2].keys /\ Distinct(rd[r1].keys)
    BY DEF KeysOfMaker
  <2>2. /\ rd[r1].page \in Nat /\ rd[r2].page \in Nat /\ rd[r1].limit \in Nat
        /\ rd[r1].limit = rd[r2].limit
    BY DEF TypeOK, ReadRequest
  <2> DEFINE m == rd[r1].page
             n == rd[r2].page
             limit == rd[r1].limit
             keys == rd[r1].keys
  <2>3. PICK p \in 1..Len(keys) : OnPage(p, m, limit) /\ rd[r1].rows[i] = keys[p]
    BY DEF KeysOfMaker, RowsOnPage, RowsOfPage
  <2>4. PICK u \in 1..Len(keys) : OnPage(u, n, limit) /\ rd[r2].rows[j] = keys[u]
    BY <2>1, <2>2 DEF KeysOfMaker, RowsOnPage, RowsOfPage
  <2>5. p = u
    BY <2>1, <2>3, <2>4 DEF Distinct
  <2>6. m # n /\ m \in Nat /\ n \in Nat /\ limit \in Nat
    BY <2>2
  <2>7. p \in Int /\ m * limit < p /\ p <= m * limit + limit
        /\ n * limit < p /\ p <= n * limit + limit
    BY <2>3, <2>4, <2>5 DEF OnPage
  <2> HIDE DEF m, n, limit
  <2>8. m * limit \in Int /\ n * limit \in Int
    BY <2>6
  <2>9. CASE m < n
    <3>1. m * limit + limit <= n * limit
      BY <2>6, <2>9, PagesApart
    <3> QED BY <3>1, <2>6, <2>7, <2>8
  <2>10. CASE n < m
    <3>1. n * limit + limit <= m * limit
      BY <2>6, <2>10, PagesApart
    <3> QED BY <3>1, <2>6, <2>7, <2>8
  <2> QED BY <2>6, <2>9, <2>10
<1>2. TypeOK /\ MakersStored /\ KeysOfMaker /\ [Next]_vars => MakersStored' /\ KeysOfMaker'
  BY MakersNext, MakerNext
<1> QED BY <1>1, <1>2, MakersInit, MakerInit, TypeCorrect, PTL DEF Spec

-----------------------------------------------------------------------------
(* The index of a user                                                     *)

\* keys are the beginning of what q listed at version ver of the history h.
Beginning(h, q, ver, keys) ==
    \E s \in Listings(q, h[ver].rows) : keys = SubSeq(s, 1, Len(keys))

FilteredOrWhole(h, q, ver, keys, total) ==
    IF total THEN \A i \in 1..Len(keys) : keys[i] \in Visible[q]
             ELSE Beginning(h, q, ver, keys)

\* What a request holds for a user before and after the filter.
UserRequests ==
    /\ \A r \in Reader : rd[r].pc = "filter" =>
          Beginning(hist, rd[r].q, rd[r].ver, rd[r].keys)
    /\ \A r \in Reader : rd[r].pc = "store" /\ rd[r].q \in Scoped =>
          FilteredOrWhole(hist, rd[r].q, rd[r].ver, rd[r].keys, rd[r].total)

\* As many increasing positions as there are, are all of them in order.
LEMMA IncreasingIsAll ==
    ASSUME NEW n \in Nat, NEW s \in [1..n -> 1..n],
           \A i, j \in 1..n : i < j => s[i] < s[j]
    PROVE  \A i \in 1..n : s[i] = i
<1> SUFFICES ASSUME NEW i \in 1..n, s[i] # i PROVE FALSE
  OBVIOUS
<1>1. s[i] \in 1..n /\ s[i] \in Int /\ i \in Int
  OBVIOUS
<1>2. \A x, y \in 1..n : x # y => s[x] # s[y]
  <2> SUFFICES ASSUME NEW x \in 1..n, NEW y \in 1..n, x # y PROVE s[x] # s[y]
    OBVIOUS
  <2>1. x < y \/ y < x
    OBVIOUS
  <2>2. s[x] \in Int /\ s[y] \in Int
    OBVIOUS
  <2> QED BY <2>1, <2>2
<1>3. CASE s[i] < i
  <2> DEFINE f == [j \in 1..i |-> s[j]]
  <2>1. f \in [1..i -> 1..s[i]]
    <3> SUFFICES ASSUME NEW j \in 1..i PROVE s[j] \in 1..s[i]
      OBVIOUS
    <3>1. j \in 1..n /\ (j < i \/ j = i)
      OBVIOUS
    <3> QED BY <3>1, <1>1
  <2>2. /\ IsFiniteSet(1..i) /\ Cardinality(1..i) = i
        /\ IsFiniteSet(1..s[i]) /\ Cardinality(1..s[i]) = s[i]
    BY <1>1, CountTo
  <2>3. PICK x \in 1..i, y \in 1..i : x # y /\ f[x] = f[y]
    <3> HIDE DEF f
    <3> QED BY <1>3, <2>1, <2>2, FS_PigeonHole
  <2>4. x \in 1..n /\ y \in 1..n /\ s[x] = s[y]
    BY <2>3
  <2> QED BY <2>3, <2>4, <1>2
<1>4. CASE i < s[i]
  <2> DEFINE f == [j \in i..n |-> s[j]]
  <2>1. f \in [i..n -> s[i]..n]
    <3> SUFFICES ASSUME NEW j \in i..n PROVE s[j] \in s[i]..n
      OBVIOUS
    <3>1. j \in 1..n /\ (i < j \/ j = i)
      OBVIOUS
    <3> QED BY <3>1, <1>1
  <2>2. /\ IsFiniteSet(i..n) /\ Cardinality(i..n) = n - i + 1
        /\ IsFiniteSet(s[i]..n) /\ Cardinality(s[i]..n) = n - s[i] + 1
    <3>1. i <= n /\ s[i] <= n /\ n \in Int
      BY <1>1
    <3> QED BY <1>1, <3>1, FS_Interval
  <2>3. n - s[i] + 1 < n - i + 1
    BY <1>1, <1>4
  <2>4. PICK x \in i..n, y \in i..n : x # y /\ f[x] = f[y]
    <3> HIDE DEF f
    <3> QED BY <2>1, <2>2, <2>3, FS_PigeonHole
  <2>5. x \in 1..n /\ y \in 1..n /\ s[x] = s[y]
    BY <2>4
  <2> QED BY <2>4, <2>5, <1>2
<1> QED BY <1>1, <1>3, <1>4

\* When readByRecKeys does not panic, the rows it returns are those of the first
\* keys, in their order: the array is as long as the rows are many, so rows
\* that fit in it leave no gap.
LEMMA RowsLineUp ==
    ASSUME NEW keys \in Seq(Key), NEW got \in SUBSET (1..Len(keys)),
           ~OutOfRange(got), NEW rows \in RowsOf(keys, got)
    PROVE  /\ Len(rows) <= Len(keys)
           /\ \A i \in 1..Len(rows) : rows[i] = keys[i]
<1> DEFINE n == Cardinality(got)
<1>1. IsFiniteSet(got) /\ n \in Nat
  <2>1. IsFiniteSet(1..Len(keys))
    BY CountTo
  <2>2. IsFiniteSet(got)
    BY <2>1, FS_Subset
  <2> QED BY <2>2, FS_CardinalityType
<1>2. got = 1..n
  <2>1. got \in SUBSET (1..n)
    BY DEF OutOfRange, Slots
  <2>2. IsFiniteSet(1..n) /\ Cardinality(1..n) = n
    BY <1>1, CountTo
  <2> QED BY <2>1, <2>2, FS_Subset
<1>3. got \cap Slots(got) = got
  BY DEF OutOfRange
<1>4. PICK s \in InOrder(got) : rows = At(keys, s)
  BY <1>3 DEF RowsOf
<1>5. s \in [1..n -> got] /\ \A i, j \in 1..n : i < j => s[i] < s[j]
  BY <1>4 DEF InOrder
<1>6. s \in [1..n -> 1..n]
  BY <1>2, <1>5
<1> HIDE DEF n
<1>7. \A i \in 1..n : s[i] = i
  BY <1>1, <1>5, <1>6, IncreasingIsAll
<1>8. Len(rows) = n
  BY <1>4, PickedElements DEF n
<1>9. \A i \in 1..n : rows[i] = keys[i]
  BY <1>4, <1>6, <1>7 DEF At
<1>10. Len(rows) <= Len(keys)
  BY RowsAreKeys
<1> QED BY <1>8, <1>9, <1>10

\* A commit does not change what was listed before it.
LEMMA BeginningForEver ==
    ASSUME TypeOK, [Next]_vars, NEW q, NEW v \in 1..Len(hist), NEW keys, NEW total
    PROVE  /\ Beginning(hist', q, v, keys) <=> Beginning(hist, q, v, keys)
           /\ FilteredOrWhole(hist', q, v, keys, total)
                <=> FilteredOrWhole(hist, q, v, keys, total)
<1>1. hist'[v] = hist[v]
  BY HistoryGrows
<1>2. Beginning(hist', q, v, keys) <=> Beginning(hist, q, v, keys)
  BY <1>1 DEF Beginning
<1> QED BY <1>2 DEF FilteredOrWhole

\* No entry and no request under way at first.
LEMMA UserInit == Init => UserRequests /\ UserIndexIsFilteredOrWhole
BY DEF Init, UserRequests, UserIndexIsFilteredOrWhole

\* The filter keeps a key at the position of a record the user may see, and the
\* records are at the positions of their keys (filterRecKeysBySecurity).
LEMMA FilterKeepsVisible ==
    ASSUME TypeOK, NEW r \in Reader, Filter(r), rd'[r].pc = "store"
    PROVE  /\ rd'[r].total = (rd[r].keys # <<>>)
           /\ rd'[r].q = rd[r].q /\ rd'[r].ver = rd[r].ver
           /\ rd[r].keys = <<>> => rd'[r].keys = <<>>
           /\ \A j \in 1..Len(rd'[r].keys) : rd'[r].keys[j] \in Visible[rd[r].q]
<1> DEFINE keys == rd[r].keys
           found == Found(keys, table)
           pass(elems) == {i \in 1..Len(elems) : elems[i] \in Visible[rd[r].q]}
           filtered(kept) == [rd[r] EXCEPT !.pc = "store", !.keys = At(keys, kept),
                                           !.total = keys # <<>>]
<1>1. rd \in [Reader -> ReadRequest] /\ rd[r] \in ReadRequest /\ keys \in Seq(Key)
  BY DEF TypeOK, ReadRequest
<1>2. PICK got \in SUBSET found :
        \/ rd' = [rd EXCEPT ![r] = [rd[r] EXCEPT !.pc = "panicked", !.cut = got # found]]
        \/ /\ ~OutOfRange(got)
           /\ \E elems \in RowsOf(keys, got) : \E kept \in InOrder(pass(elems)) :
                 rd' = [rd EXCEPT ![r] = filtered(kept)]
  BY DEF Filter
<1>3. rd' # [rd EXCEPT ![r] = [rd[r] EXCEPT !.pc = "panicked", !.cut = got # found]]
  <2> SUFFICES ASSUME rd' = [rd EXCEPT ![r] = [rd[r] EXCEPT !.pc = "panicked",
                                                            !.cut = got # found]]
               PROVE  FALSE
    OBVIOUS
  <2>1. rd'[r].pc = "panicked"
    BY <1>1 DEF ReadRequest
  <2> QED BY <2>1
<1>4. PICK elems \in RowsOf(keys, got) : \E kept \in InOrder(pass(elems)) :
        rd' = [rd EXCEPT ![r] = filtered(kept)]
  BY <1>2, <1>3
<1>5. PICK kept \in InOrder(pass(elems)) : rd' = [rd EXCEPT ![r] = filtered(kept)]
  BY <1>4
<1>6. /\ rd'[r].q = rd[r].q /\ rd'[r].ver = rd[r].ver
      /\ rd'[r].keys = At(keys, kept) /\ rd'[r].total = (keys # <<>>)
  <2> HIDE DEF keys
  <2> QED BY <1>1, <1>5 DEF ReadRequest
<1>7. got \in SUBSET (1..Len(keys))
  BY <1>1, FoundFinite
<1>8. Len(elems) <= Len(keys) /\ \A i \in 1..Len(elems) : elems[i] = keys[i]
  <2>1. ~OutOfRange(got)
    BY <1>2, <1>3
  <2> HIDE DEF keys, found
  <2> QED BY <1>1, <2>1, <1>7, RowsLineUp
<1>9. elems \in Seq(Key)
  BY <1>1, <1>7, RowsAreKeys
<1>10. pass(elems) \in SUBSET (1..Len(keys))
  BY <1>1, <1>8, <1>9
<1> HIDE DEF keys, found
<1>11. /\ At(keys, kept) \in Seq(Key) /\ Len(At(keys, kept)) = Cardinality(pass(elems))
       /\ \A j \in 1..Len(At(keys, kept)) :
             \E i \in pass(elems) : At(keys, kept)[j] = keys[i]
  <2> HIDE DEF pass
  <2> QED BY <1>1, <1>10, PickedElements
<1>12. \A j \in 1..Len(At(keys, kept)) : At(keys, kept)[j] \in Visible[rd[r].q]
  BY <1>8, <1>11
<1>13. keys = <<>> => At(keys, kept) = <<>>
  <2> SUFFICES ASSUME keys = <<>> PROVE Len(At(keys, kept)) = 0
    BY <1>11
  <2>1. pass(elems) = {}
    BY <1>10
  <2> QED BY <2>1, <1>11, FS_EmptySet
<1> QED BY <1>6, <1>12, <1>13 DEF keys

\* The keys of a user's index are read as a listing, filtered as such, and
\* stored as they come out of the filter.
LEMMA UserNext ==
    ASSUME TypeOK, UserRequests, [Next]_vars PROVE UserRequests'
<1>1. SUFFICES ASSUME NEW r \in Reader, rd'[r].pc \in {"filter", "store"}
               PROVE  /\ rd'[r].pc = "filter" =>
                            Beginning(hist', rd'[r].q, rd'[r].ver, rd'[r].keys)
                      /\ rd'[r].pc = "store" /\ rd'[r].q \in Scoped =>
                            FilteredOrWhole(hist', rd'[r].q, rd'[r].ver, rd'[r].keys,
                                            rd'[r].total)
  BY DEF UserRequests
<1>2. rd \in [Reader -> ReadRequest] /\ rd[r] \in ReadRequest
  BY DEF TypeOK
<1>3. rd[r].pc \in {"filter", "store"} => rd[r].ver \in 1..Len(hist)
  BY <1>2, HistoryGrows DEF TypeOK, ReadRequest, Holding
<1>4. CASE rd'[r] = rd[r]
  <2>1. rd[r].pc = "filter" => Beginning(hist', rd[r].q, rd[r].ver, rd[r].keys)
    BY <1>3, BeginningForEver DEF UserRequests
  <2>2. rd[r].pc = "store" /\ rd[r].q \in Scoped =>
           FilteredOrWhole(hist', rd[r].q, rd[r].ver, rd[r].keys, rd[r].total)
    BY <1>3, BeginningForEver DEF UserRequests
  <2> QED BY <1>4, <2>1, <2>2
<1>5. CASE ReadRecKeys(r)
  <2>1. rd[r].q \in Query /\ table \in Table
    BY <1>5, TableType DEF TypeOK, ReadRecKeys
  <2>2. PICK keys \in Listings(rd[r].q, table) : \E n \in 0..Len(keys) :
          /\ rd'[r].keys = SubSeq(keys, 1, n) /\ rd'[r].ver = Len(hist)
          /\ rd'[r].q = rd[r].q
          /\ rd'[r].pc = IF rd[r].q \in Scoped THEN "filter" ELSE "store"
    BY <1>5, KeysRead
  <2>3. PICK n \in 0..Len(keys) : rd'[r].keys = SubSeq(keys, 1, n)
    BY <2>2
  <2>4. Len(SubSeq(keys, 1, n)) = n
    BY <2>1, ListingsAreKeys, PrefixIsPart
  <2>5. rd'[r].keys = SubSeq(keys, 1, Len(rd'[r].keys))
    BY <2>3, <2>4
  <2>6. hist' = hist
    BY <1>5 DEF ReadRecKeys
  <2>7. Beginning(hist', rd'[r].q, rd'[r].ver, rd'[r].keys)
    BY <2>2, <2>5, <2>6 DEF Beginning, table
  <2> QED BY <2>2, <2>7
<1>6. CASE Filter(r)
  <2>1. rd[r].pc = "filter" /\ Beginning(hist, rd[r].q, rd[r].ver, rd[r].keys)
    BY <1>6 DEF Filter, UserRequests
  <2>2. CASE rd'[r].pc = "store"
    <3>1. /\ rd'[r].total = (rd[r].keys # <<>>)
          /\ rd'[r].q = rd[r].q /\ rd'[r].ver = rd[r].ver
          /\ rd[r].keys = <<>> => rd'[r].keys = <<>>
          /\ \A j \in 1..Len(rd'[r].keys) : rd'[r].keys[j] \in Visible[rd[r].q]
      BY <1>6, <2>2, FilterKeepsVisible
    <3>2. CASE rd[r].keys # <<>>
      BY <2>2, <3>1, <3>2 DEF FilteredOrWhole
    <3>3. CASE rd[r].keys = <<>>
      <4>1. Beginning(hist', rd[r].q, rd[r].ver, rd[r].keys)
        BY <2>1, <1>3, BeginningForEver
      <4>2. Beginning(hist', rd'[r].q, rd'[r].ver, rd'[r].keys)
        BY <3>1, <3>3, <4>1
      <4>3. ~rd'[r].total
        BY <3>1, <3>3
      <4> QED BY <2>2, <4>2, <4>3 DEF FilteredOrWhole
    <3> QED BY <3>2, <3>3
  <2>3. rd'[r].pc # "filter"
    <3>1. \/ \E cut : rd' = [rd EXCEPT ![r] = [rd[r] EXCEPT !.pc = "panicked", !.cut = cut]]
          \/ \E keys, total : rd' = [rd EXCEPT ![r] =
                [rd[r] EXCEPT !.pc = "store", !.keys = keys, !.total = total]]
      BY <1>6 DEF Filter
    <3>2. ASSUME NEW cut,
                 rd' = [rd EXCEPT ![r] = [rd[r] EXCEPT !.pc = "panicked", !.cut = cut]]
          PROVE  rd'[r].pc # "filter"
      BY <1>2, <3>2 DEF ReadRequest
    <3>3. ASSUME NEW keys, NEW total,
                 rd' = [rd EXCEPT ![r] =
                    [rd[r] EXCEPT !.pc = "store", !.keys = keys, !.total = total]]
          PROVE  rd'[r].pc # "filter"
      BY <1>2, <3>3 DEF ReadRequest
    <3> QED BY <3>1, <3>2, <3>3
  <2> QED BY <1>1, <2>2, <2>3
<1>7. CASE FilterReadFails(r)
  <2>1. rd[r].pc = "filter" /\ Beginning(hist, rd[r].q, rd[r].ver, rd[r].keys)
    BY <1>7 DEF FilterReadFails, UserRequests
  <2>2. /\ rd'[r].pc = "store" /\ rd'[r].total = FALSE /\ rd'[r].q = rd[r].q
        /\ rd'[r].ver = rd[r].ver /\ rd'[r].keys = rd[r].keys
    BY <1>2, <1>7 DEF FilterReadFails, ReadRequest
  <2>3. Beginning(hist', rd[r].q, rd[r].ver, rd[r].keys)
    BY <2>1, <1>3, BeginningForEver
  <2> QED BY <2>2, <2>3 DEF FilteredOrWhole
<1> QED BY <1>1, <1>4, <1>5, <1>6, <1>7, BeforeTheStore

\* The index of a user lists what ScopeItem let through, or is what the query
\* listed and comes without a total.
THEOREM UserIndexesAreFiltered == Spec => []UserIndexIsFilteredOrWhole
<1> DEFINE UserEntries ==
      \A q \in Scoped \cap DOMAIN indexQueries :
         FilteredOrWhole(hist, q, indexQueries[q].ver, indexQueries[q].keys,
                         indexQueries[q].total)
<1>1. UserEntries <=> UserIndexIsFilteredOrWhole
  BY DEF UserIndexIsFilteredOrWhole, FilteredOrWhole, Beginning
<1>2. TypeOK /\ UserRequests /\ UserEntries /\ [Next]_vars => UserEntries'
  <2> SUFFICES ASSUME TypeOK, UserRequests, UserEntries, [Next]_vars,
                      NEW q \in Scoped, q \in DOMAIN indexQueries'
               PROVE  FilteredOrWhole(hist', q, indexQueries'[q].ver,
                                      indexQueries'[q].keys, indexQueries'[q].total)
    OBVIOUS
  <2>1. CASE /\ q \in DOMAIN indexQueries
             /\ indexQueries'[q].keys = indexQueries[q].keys
             /\ indexQueries'[q].ver = indexQueries[q].ver
             /\ indexQueries'[q].total = indexQueries[q].total
    <3>1. indexQueries[q].ver \in 1..Len(hist)
      BY <2>1 DEF TypeOK, Entry
    <3>2. FilteredOrWhole(hist, q, indexQueries[q].ver, indexQueries[q].keys,
                          indexQueries[q].total)
      BY <2>1
    <3>3. FilteredOrWhole(hist', q, indexQueries[q].ver, indexQueries[q].keys,
                          indexQueries[q].total)
      BY <3>1, <3>2, BeginningForEver
    <3> QED BY <2>1, <3>3
  <2>2. ASSUME NEW r \in Reader, rd[r].pc = "store", rd[r].q = q,
               indexQueries'[q].keys = rd[r].keys, indexQueries'[q].ver = rd[r].ver,
               indexQueries'[q].total = rd[r].total
        PROVE  FilteredOrWhole(hist', q, indexQueries'[q].ver,
                               indexQueries'[q].keys, indexQueries'[q].total)
    <3>1. rd[r].ver \in 1..Len(hist)
      BY <2>2, HistoryGrows DEF TypeOK, ReadRequest, Holding
    <3>2. FilteredOrWhole(hist, q, rd[r].ver, rd[r].keys, rd[r].total)
      BY <2>2 DEF UserRequests
    <3> QED BY <2>2, <3>1, <3>2, BeginningForEver
  <2> QED BY <2>1, <2>2, EntriesOfAStep
<1>3. TypeOK /\ UserRequests /\ [Next]_vars => UserRequests'
  BY UserNext
<1>4. Init => UserRequests /\ UserEntries
  BY <1>1, UserInit
<1> HIDE DEF UserEntries
<1> QED BY <1>1, <1>2, <1>3, <1>4, TypeCorrect, PTL DEF Spec

=============================================================================
