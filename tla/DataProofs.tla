----------------------------- MODULE DataProofs -----------------------------
(***************************************************************************)
(* For any width of the integers: when two requests may have one entry of  *)
(* the paging index, and that pages are cut out of a list without a gap or *)
(* an overlap.  For objects of any type, depth and size: that they are     *)
(* read as they were written, and when they cannot be.                     *)
(*                                                                         *)
(* The first two come down to multiples of a positive number that lie less *)
(* than that number apart, and are therefore equal.  The hash of a name,   *)
(* and the calls that convert an object, are reached by induction over the *)
(* length of the name and the depth of the call.                           *)
(***************************************************************************)
EXTENDS MCData, QueryProofs

LEMMA Multiples ==
    ASSUME NEW a \in Int, NEW b \in Int, NEW n \in Int, 0 < n, a < b
    PROVE  a * n + n <= b * n
<1>1. (b - a) * n = b * n - a * n
    BY Z3
<1>2. b - a - 1 >= 0
    OBVIOUS
<1>3. (b - a - 1) * n >= 0
    BY <1>2
<1>4. (b - a - 1) * n = (b - a) * n - n
    BY Z3
<1>. QED BY <1>1, <1>3, <1>4

\* A number is in one multiple's reach only.
LEMMA SameMultiple ==
    ASSUME NEW a \in Int, NEW b \in Int, NEW x \in Int, NEW y \in Int, NEW n \in Int,
           0 <= x, x < n, 0 <= y, y < n, a * n + x = b * n + y
    PROVE  a = b /\ x = y
<1>1. ~(a < b)
    BY Multiples
<1>2. ~(b < a)
    BY Multiples
<1>. QED BY <1>1, <1>2

-----------------------------------------------------------------------------
(* Hashes                                                                  *)

\* A number that is cut to an int32 is one.
LEMMA WrappedIsInt32 == \A n \in Int : Wrapped(n) \in Int32
<1>1. Half \in Int /\ Half > 0 /\ Span = 2 * Half
    BY WidthAssumption DEF Span
<1>. SUFFICES ASSUME NEW n \in Int PROVE Wrapped(n) \in Int32
    OBVIOUS
<1>2. (n + Half) % Span \in 0..(Span - 1)
    BY <1>1
<1>. QED BY <1>1, <1>2 DEF Wrapped, Int32

\* The hash after each of the characters of a name, as hashString computes it.
Hashes(name, h) ==
    h = [i \in 0..Len(name) |-> IF i = 0 THEN 0 ELSE Wrapped(31 * h[i - 1] + name[i])]

\* There are such hashes: those of a name's first characters can be continued.
LEMMA HashesExist ==
    ASSUME NEW name \in Seq(Int)
    PROVE  \E h : Hashes(name, h)
<1>. DEFINE next(h, i) == IF i = 0 THEN 0 ELSE Wrapped(31 * h[i - 1] + name[i])
            S == {n \in Nat : \E h : h = [i \in 0..n |-> next(h, i)]}
<1>1. 0 \in S
  <2>. DEFINE h == [i \in 0..0 |-> 0]
  <2>1. h = [i \in 0..0 |-> next(h, i)]
    OBVIOUS
  <2>. QED BY <2>1
<1>2. ASSUME NEW n \in S PROVE n + 1 \in S
  <2>1. PICK h : h = [i \in 0..n |-> next(h, i)]
    OBVIOUS
  <2>. DEFINE g == [i \in 0..(n + 1) |-> IF i = n + 1 THEN next(h, i) ELSE h[i]]
  <2>2. \A i \in 0..n : g[i] = h[i] /\ h[i] = next(h, i)
    BY <2>1
  <2>3. \A i \in 0..(n + 1) : g[i] = next(g, i)
    <3>. SUFFICES ASSUME NEW i \in 0..(n + 1) PROVE g[i] = next(g, i)
        OBVIOUS
    <3>1. i # 0 => g[i - 1] = h[i - 1]
        BY <2>2
    <3>2. g[i] = next(h, i)
      <4>1. CASE i = n + 1
        BY <4>1
      <4>2. CASE i # n + 1
        <5>1. i \in 0..n
            BY <4>2
        <5>. QED BY <2>2, <5>1
      <4>. QED BY <4>1, <4>2
    <3>. QED BY <3>1, <3>2
  <2>4. g = [i \in 0..(n + 1) |-> g[i]]
    OBVIOUS
  <2>. HIDE DEF g, next
  <2>5. g = [i \in 0..(n + 1) |-> next(g, i)]
    BY <2>3, <2>4
  <2>. QED BY <2>5
<1>. HIDE DEF S
<1>3. S = Nat
    BY <1>1, <1>2, EveryNumber DEF S
<1>. QED BY <1>3 DEF S, Hashes

\* The hash of a name is an int32 (hashString).
LEMMA HashIsInt32 ==
    ASSUME NEW name \in Seq(Int)
    PROVE  hashString(name) \in Int32
<1>. DEFINE h == CHOOSE h : Hashes(name, h)
<1>1. Hashes(name, h)
    BY HashesExist
<1>2. hashString(name) = h[Len(name)]
    BY DEF hashString, Hashes
<1>. HIDE DEF h
<1>. DEFINE S == {n \in Nat : n <= Len(name) => h[n] \in Int32}
<1>3. \A i \in 0..Len(name) : h[i] = IF i = 0 THEN 0 ELSE Wrapped(31 * h[i - 1] + name[i])
    BY <1>1 DEF Hashes
<1>4. 0 \in S
    BY <1>3, WidthAssumption DEF Int32
<1>5. ASSUME NEW n \in S PROVE n + 1 \in S
  <2>. SUFFICES ASSUME n + 1 <= Len(name) PROVE h[n + 1] \in Int32
    OBVIOUS
  <2>1. h[n] \in Int /\ name[n + 1] \in Int
    BY WidthAssumption DEF Int32
  <2>2. h[n + 1] = Wrapped(31 * h[n] + name[n + 1])
    BY <1>3
  <2>. QED BY <2>1, <2>2, WrappedIsInt32
<1>. HIDE DEF S
<1>6. S = Nat
    BY <1>4, <1>5, EveryNumber DEF S
<1>. QED BY <1>2, <1>6 DEF S

-----------------------------------------------------------------------------
\* Keys that are equal come from hashes that are, whatever the names are that have
\* these hashes (readWithIndex).
LEMMA KeysOfHashes ==
    ASSUME NEW q1 \in Int32, NEW q2 \in Int32, NEW user1, NEW user2,
           hashString(user1) \in Int32, hashString(user2) \in Int32
    PROVE  SharedEntriesExplained(q1, user1, q2, user2)
<1>. DEFINE h1 == hashString(user1)
            h2 == hashString(user2)
<1>. SUFFICES ASSUME <<q1, user1>> # <<q2, user2>>, h1 >= 0, h2 >= 0,
                     IndexKey(q1, user1) = IndexKey(q2, user2)
              PROVE  \/ h1 = h2 /\ q1 = q2
                     \/ user1 = <<>> /\ q2 = 0
                     \/ user2 = <<>> /\ q1 = 0
    BY DEF SharedEntriesExplained, Int32
<1>. HIDE DEF h1, h2
<1>1. /\ Half \in Int /\ Half > 0 /\ Span = 2 * Half
      /\ q1 \in Int /\ -Half <= q1 /\ q1 < Half
      /\ q2 \in Int /\ -Half <= q2 /\ q2 < Half
      /\ h1 \in Int /\ h1 < Half /\ h2 \in Int /\ h2 < Half
    BY WidthAssumption DEF Int32, Span, h1, h2
<1>2. /\ IndexKey(q1, user1) = IF user1 = <<>> THEN q1 ELSE q1 * Span + h1
      /\ IndexKey(q2, user2) = IF user2 = <<>> THEN q2 ELSE q2 * Span + h2
    BY <1>1 DEF IndexKey, h1, h2
\* A key with a user and one without: both in the reach of the multiple 0.
<1>3. ASSUME NEW q \in Int, NEW k \in Int, NEW h \in Int,
             q * Span + h = k, 0 <= h, h < Half, -Half <= k, k < Half
      PROVE  q = 0
    <2>1. ~(0 < q)
        BY <1>1, <1>3, Multiples
    <2>2. ~(q < 0)
        BY <1>1, <1>3, Multiples
    <2>. QED BY <1>3, <2>1, <2>2
<1>4. CASE user1 = <<>> /\ user2 = <<>>
    BY <1>2, <1>4
<1>5. CASE user1 = <<>> /\ user2 # <<>>
    BY <1>1, <1>2, <1>3, <1>5
<1>6. CASE user1 # <<>> /\ user2 = <<>>
    <2>1. q1 * Span + h1 = q2
        BY <1>2, <1>6
    <2>. QED BY <1>1, <1>3, <1>6, <2>1
<1>7. CASE user1 # <<>> /\ user2 # <<>>
    <2>1. q1 * Span + h1 = q2 * Span + h2
        BY <1>2, <1>7
    <2>2. Span \in Int /\ h1 < Span /\ h2 < Span
        BY <1>1
    <2>3. q1 = q2 /\ h1 = h2
        BY <1>1, <2>1, <2>2, SameMultiple
    <2>. QED BY <2>3
<1>. QED BY <1>4, <1>5, <1>6, <1>7

\* The requests that share an entry of the paging index, for int32 of any width,
\* any hashes of queries and any names of users (readWithIndex, hashString).
THEOREM SharedIndexKeys ==
    ASSUME NEW q1 \in Int32, NEW q2 \in Int32,
           NEW user1 \in Seq(Int), NEW user2 \in Seq(Int)
    PROVE  SharedEntriesExplained(q1, user1, q2, user2)
BY HashIsInt32, KeysOfHashes

-----------------------------------------------------------------------------

\* Pages are cut out of the list of records without a panic, a gap or an
\* overlap, for any page, limit and length, as long as the start of the page is
\* an int32 (pageKeys).
THEOREM PagesTileLists ==
    ASSUME NEW page \in Nat, NEW limit \in Nat \ {0}, NEW len \in Nat
    PROVE  PagesTileTheIndex(page, limit, len)
<1>. DEFINE start == page * limit
<1>. SUFFICES ASSUME start < Half PROVE
        LET b == PageBounds(page, limit, len)
        IN  /\ ~SlicePanics(b, len)
            /\ \A i \in 0..(len - 1) :
                  (b.from <= i /\ i < b.to) <=> (i \div limit = page)
    BY DEF PagesTileTheIndex
<1>1. start \in Int /\ start >= 0
    OBVIOUS
<1>. HIDE DEF start
<1>2. Wrapped(start) = start
    <2>1. start + Half >= 0 /\ start + Half < Span /\ Span > 0 /\ Span \in Int /\ Half \in Int
        BY <1>1, WidthAssumption DEF Span
    <2>2. (start + Half) % Span = start + Half
        BY <1>1, <2>1
    <2>. QED BY <1>1, <2>1, <2>2 DEF Wrapped
<1>3. ASSUME NEW i \in Nat
      PROVE  i \div limit = page <=> start <= i /\ i < start + limit
    BY <1>1, PageOf DEF start
<1>4. PageBounds(page, limit, len) =
          IF start >= len THEN [from |-> 0, to |-> 0]
          ELSE [from |-> start, to |-> IF start + limit > len THEN len ELSE start + limit]
    BY <1>2 DEF PageBounds, start
<1>5. CASE start >= len
    <2>1. PageBounds(page, limit, len) = [from |-> 0, to |-> 0]
        BY <1>4, <1>5
    <2>2. \A i \in 0..(len - 1) : i \div limit # page
        BY <1>1, <1>3, <1>5
    <2>. QED BY <2>1, <2>2 DEF SlicePanics
<1>6. CASE start < len
    <2>. DEFINE end == IF start + limit > len THEN len ELSE start + limit
    <2>1. PageBounds(page, limit, len) = [from |-> start, to |-> end]
        BY <1>1, <1>4, <1>6
    <2>2. end \in Int /\ start <= end /\ end <= len /\ (end = len \/ end = start + limit)
          /\ end <= start + limit
        BY <1>1, <1>6
    <2>. HIDE DEF end
    <2>3. ~SlicePanics([from |-> start, to |-> end], len)
        BY <1>1, <2>2 DEF SlicePanics
    <2>4. ASSUME NEW i \in 0..(len - 1)
          PROVE  (start <= i /\ i < end) <=> (i \div limit = page)
        <3>1. i \div limit = page <=> start <= i /\ i < start + limit
            BY <1>3
        <3>. QED BY <1>1, <2>2, <3>1
    <2>. QED BY <2>1, <2>3, <2>4
<1>. QED BY <1>1, <1>5, <1>6

-----------------------------------------------------------------------------
(* The calls of a recursive function, by their depth                       *)

\* The calls of convertTo at each depth.
DepthsTo(first, at) ==
    at = [d \in 0..Depth |->
            IF d = 0 THEN {first} ELSE UNION {Converts(call) : call \in at[d - 1]}]

LEMMA DeepExist == ASSUME NEW first PROVE \E at : DepthsTo(first, at)
<1>. DEFINE next(h, i) ==
                IF i = 0 THEN {first} ELSE UNION {Converts(call) : call \in h[i - 1]}
            S == {n \in Nat : \E h : h = [i \in 0..n |-> next(h, i)]}
<1>1. 0 \in S
  <2>. DEFINE h == [i \in 0..0 |-> {first}]
  <2>1. h = [i \in 0..0 |-> next(h, i)]
    OBVIOUS
  <2>. QED BY <2>1
<1>2. ASSUME NEW n \in S PROVE n + 1 \in S
  <2>1. PICK h : h = [i \in 0..n |-> next(h, i)]
    OBVIOUS
  <2>. DEFINE g == [i \in 0..(n + 1) |-> IF i = n + 1 THEN next(h, i) ELSE h[i]]
  <2>2. \A i \in 0..n : g[i] = h[i] /\ h[i] = next(h, i)
    <3>. SUFFICES ASSUME NEW i \in 0..n PROVE g[i] = h[i] /\ h[i] = next(h, i)
        OBVIOUS
    <3>1. i # n + 1 /\ i \in 0..(n + 1)
        OBVIOUS
    <3>2. g[i] = h[i]
        BY <3>1
    <3>. HIDE DEF next
    <3>3. h[i] = next(h, i)
        BY <2>1
    <3>. QED BY <3>2, <3>3
  <2>3. \A i \in 0..(n + 1) : g[i] = next(g, i)
    <3>. SUFFICES ASSUME NEW i \in 0..(n + 1) PROVE g[i] = next(g, i)
        OBVIOUS
    <3>1. i # 0 => g[i - 1] = h[i - 1]
        BY <2>2
    <3>2. g[i] = next(h, i)
      <4>1. CASE i = n + 1
        BY <4>1
      <4>2. CASE i # n + 1
        <5>1. i \in 0..n
            BY <4>2
        <5>. QED BY <2>2, <5>1
      <4>. QED BY <4>1, <4>2
    <3>. QED BY <3>1, <3>2
  <2>4. g = [i \in 0..(n + 1) |-> g[i]]
    OBVIOUS
  <2>. HIDE DEF g, next
  <2>5. g = [i \in 0..(n + 1) |-> next(g, i)]
    BY <2>3, <2>4
  <2>. QED BY <2>5
<1>. HIDE DEF S
<1>3. S = Nat
    BY <1>1, <1>2, EveryNumber DEF S
<1>. QED BY <1>3, DepthAssumption DEF S, DepthsTo

LEMMA CallsByDepth ==
    ASSUME NEW root, NEW o
    PROVE  \E at : /\ DepthsTo(Call(root, o, <<>>, NoPart), at)
                   /\ Calls(root, o) = UNION {at[d] : d \in 0..Depth}
<1>. DEFINE first == Call(root, o, <<>>, NoPart)
            at == CHOOSE at : DepthsTo(first, at)
<1>1. DepthsTo(first, at)
    BY DeepExist
<1>2. Calls(root, o) = UNION {at[d] : d \in 0..Depth}
    BY DEF Calls, Reached, DepthsTo
<1>. QED BY <1>1, <1>2

\* The calls of convertFrom at each depth.
DeepReads(first, db, at) ==
    at = [d \in 0..Depth |->
            IF d = 0 THEN {first} ELSE UNION {ReadsOn(read, db) : read \in at[d - 1]}]

LEMMA DeepReadsExist == ASSUME NEW first, NEW db PROVE \E at : DeepReads(first, db, at)
<1>. DEFINE next(h, i) ==
                IF i = 0 THEN {first} ELSE UNION {ReadsOn(read, db) : read \in h[i - 1]}
            S == {n \in Nat : \E h : h = [i \in 0..n |-> next(h, i)]}
<1>1. 0 \in S
  <2>. DEFINE h == [i \in 0..0 |-> {first}]
  <2>1. h = [i \in 0..0 |-> next(h, i)]
    OBVIOUS
  <2>. QED BY <2>1
<1>2. ASSUME NEW n \in S PROVE n + 1 \in S
  <2>1. PICK h : h = [i \in 0..n |-> next(h, i)]
    OBVIOUS
  <2>. DEFINE g == [i \in 0..(n + 1) |-> IF i = n + 1 THEN next(h, i) ELSE h[i]]
  <2>2. \A i \in 0..n : g[i] = h[i] /\ h[i] = next(h, i)
    <3>. SUFFICES ASSUME NEW i \in 0..n PROVE g[i] = h[i] /\ h[i] = next(h, i)
        OBVIOUS
    <3>1. i # n + 1 /\ i \in 0..(n + 1)
        OBVIOUS
    <3>2. g[i] = h[i]
        BY <3>1
    <3>. HIDE DEF next
    <3>3. h[i] = next(h, i)
        BY <2>1
    <3>. QED BY <3>2, <3>3
  <2>3. \A i \in 0..(n + 1) : g[i] = next(g, i)
    <3>. SUFFICES ASSUME NEW i \in 0..(n + 1) PROVE g[i] = next(g, i)
        OBVIOUS
    <3>1. i # 0 => g[i - 1] = h[i - 1]
        BY <2>2
    <3>2. g[i] = next(h, i)
      <4>1. CASE i = n + 1
        BY <4>1
      <4>2. CASE i # n + 1
        <5>1. i \in 0..n
            BY <4>2
        <5>. QED BY <2>2, <5>1
      <4>. QED BY <4>1, <4>2
    <3>. QED BY <3>1, <3>2
  <2>4. g = [i \in 0..(n + 1) |-> g[i]]
    OBVIOUS
  <2>. HIDE DEF g, next
  <2>5. g = [i \in 0..(n + 1) |-> next(g, i)]
    BY <2>3, <2>4
  <2>. QED BY <2>5
<1>. HIDE DEF S
<1>3. S = Nat
    BY <1>1, <1>2, EveryNumber DEF S
<1>. QED BY <1>3, DepthAssumption DEF S, DeepReads

LEMMA ReadsByDepth ==
    ASSUME NEW root, NEW db, NEW o
    PROVE  \E at : /\ DeepReads(Read(root, <<>>, Alone(o)), db, at)
                   /\ Reads(root, db, o) = UNION {at[d] : d \in 0..Depth}
<1>. DEFINE first == Read(root, <<>>, Alone(o))
            at == CHOOSE at : DeepReads(first, db, at)
<1>1. DeepReads(first, db, at)
    BY DeepReadsExist
<1>2. Reads(root, db, o) = UNION {at[d] : d \in 0..Depth}
    BY DEF Reads, Reached, DeepReads
<1>. QED BY <1>1, <1>2

-----------------------------------------------------------------------------
(* Keys and depths                                                         *)

\* An object of a type, with its calls at each depth.
Written(root, o, at) ==
    /\ IsObject(root, o)
    /\ DepthsTo(Call(root, o, <<>>, NoPart), at)
    /\ Calls(root, o) = UNION {at[d] : d \in 0..Depth}

Key(x) == KeyForRow(RowOf(x))
Makes(y, x) ==
    \E kid \in y.node.kids : \E i \in NotNil(y.o.kids[kid.field]) :
        x = Call(kid, y.o.kids[kid.field][i], Key(y), i)

LEMMA WhatIsMade == \A x, y : x \in Converts(y) <=> Makes(y, x)
BY DEF Converts, Makes, Key

LEMMA Depths ==
    ASSUME NEW root, NEW o, NEW at, Written(root, o, at)
    PROVE  /\ at[0] = {Call(root, o, <<>>, NoPart)}
           /\ \A d \in 1..Depth : \A x : x \in at[d] <=> \E y \in at[d - 1] : Makes(y, x)
           /\ \A x : x \in Calls(root, o) <=> \E d \in 0..Depth : x \in at[d]
<1>. DEFINE first == Call(root, o, <<>>, NoPart)
            more(d) == UNION {Converts(call) : call \in at[d - 1]}
<1>1. \A d \in 0..Depth : at[d] = IF d = 0 THEN {first} ELSE more(d)
    BY DEF Written, DepthsTo
<1>. HIDE DEF first, more
<1>2. at[0] = {first}
    BY <1>1, DepthAssumption
<1>3. ASSUME NEW d \in 1..Depth, NEW x
      PROVE  x \in at[d] <=> \E y \in at[d - 1] : Makes(y, x)
    <2>1. at[d] = UNION {Converts(call) : call \in at[d - 1]}
        <3>1. d # 0 /\ d \in 0..Depth
            BY DepthAssumption
        <3>. QED BY <1>1, <3>1 DEF more
    <2>2. x \in at[d] <=> \E y \in at[d - 1] : x \in Converts(y)
        BY <2>1
    <2>. QED BY <2>2, WhatIsMade
<1>4. \A x : x \in Calls(root, o) <=> \E d \in 0..Depth : x \in at[d]
    BY DEF Written
<1>. QED BY <1>2, <1>3, <1>4 DEF first

\* The parts of the keys of an object's rows.
Recs(root, o) == {RowOf(x).rec : x \in Calls(root, o)}

\* A key is as long as the call is deep.
LEMMA KeyLengths ==
    ASSUME NEW root, NEW o, NEW at, Written(root, o, at)
    PROVE  \A d \in 0..Depth : \A x \in at[d] :
              x.parent \in Seq(Recs(root, o)) /\ Len(x.parent) = d
<1>. DEFINE Fits(d) == \A x \in at[d] : x.parent \in Seq(Recs(root, o)) /\ Len(x.parent) = d
            S == {d \in Nat : d <= Depth => Fits(d)}
<1>1. 0 \in S
    <2>1. \A x \in at[0] : x.parent = <<>>
        BY Depths DEF Call
    <2>2. <<>> \in Seq(Recs(root, o)) /\ Len(<<>>) = 0
        OBVIOUS
    <2>3. Fits(0)
        BY <2>1, <2>2
    <2>. HIDE DEF Fits
    <2>. QED BY <2>3
<1>2. ASSUME NEW d \in S PROVE d + 1 \in S
    <2>. SUFFICES ASSUME d + 1 <= Depth, NEW x \in at[d + 1]
                  PROVE  x.parent \in Seq(Recs(root, o)) /\ Len(x.parent) = d + 1
        OBVIOUS
    <2>1. d + 1 \in 1..Depth /\ (d + 1) - 1 = d /\ d \in 0..Depth /\ d <= Depth
        BY DepthAssumption
    <2>2. PICK y \in at[d] : Makes(y, x)
        BY <2>1, Depths
    <2>3. x.parent = Append(y.parent, RowOf(y).rec)
        BY <2>2 DEF Makes, Call, Key, KeyForRow, RowOf
    <2>4. y \in Calls(root, o)
        BY <2>1, <2>2, Depths
    <2>5. RowOf(y).rec \in Recs(root, o)
        BY <2>4 DEF Recs
    <2>6. y.parent \in Seq(Recs(root, o)) /\ Len(y.parent) = d
        BY <2>1, <2>2
    <2>. QED BY <2>3, <2>5, <2>6, AppendProperties
<1>. HIDE DEF S
<1>3. S = Nat
    BY <1>1, <1>2, EveryNumber DEF S
<1>. HIDE DEF Fits
<1>4. \A d \in 0..Depth : Fits(d)
    BY <1>3, DepthAssumption DEF S
<1>. QED BY <1>4 DEF Fits

\* Calls with keys of one length are at one depth.
LEMMA DepthByKey ==
    ASSUME NEW root, NEW o, NEW at, Written(root, o, at),
           NEW d \in 0..Depth, NEW x \in Calls(root, o), Len(x.parent) = d
    PROVE  x \in at[d]
BY Depths, KeyLengths

\* What a row has of the call it is from.
LEMMA RowHas ==
    ASSUME NEW x
    PROVE  LET row == RowOf(x)
           IN  /\ row.parent = x.parent /\ row.val = x.o.val /\ row.pk = x.o.pk
               /\ row.rec[1] = x.node.field
               /\ row.rec[2] = IF x.o.pk # NoPart THEN x.o.pk ELSE x.part
               /\ row.rec = <<row.rec[1], row.rec[2]>>
               /\ Id(row) = <<row.parent, row.rec>>
BY DEF RowOf, RecKey, Id

LEMMA MadeHas ==
    ASSUME NEW y, NEW x, Makes(y, x)
    PROVE  LET value == y.o.kids[x.node.field]
           IN  /\ x.node \in y.node.kids /\ x.part \in DOMAIN value /\ value[x.part] # Nil
               /\ x = Call(x.node, value[x.part], Key(y), x.part)
               /\ x.o = value[x.part] /\ x.parent = Key(y)
BY DEF Makes, Call, NotNil

\* The key of a row gives its parent's key and its own.
LEMMA KeysAreIds ==
    ASSUME NEW root, NEW o, NEW at, Written(root, o, at),
           NEW x \in Calls(root, o), NEW y \in Calls(root, o), Key(x) = Key(y)
    PROVE  x.parent = y.parent /\ RowOf(x).rec = RowOf(y).rec
<1>1. RowOf(x).rec \in Recs(root, o) /\ RowOf(y).rec \in Recs(root, o)
    BY DEF Recs
<1>2. x.parent \in Seq(Recs(root, o)) /\ y.parent \in Seq(Recs(root, o))
    BY Depths, KeyLengths
<1>3. Append(x.parent, RowOf(x).rec) = Append(y.parent, RowOf(y).rec)
    BY RowHas DEF Key, KeyForRow
<1>. DEFINE R == Recs(root, o)
<1>. HIDE DEF R
<1>4. \A s, t \in Seq(R), e, f \in R : Append(s, e) = Append(t, f) => s = t /\ e = f
    BY AppendInjective
<1>. QED BY <1>1, <1>2, <1>3, <1>4 DEF R

-----------------------------------------------------------------------------
(* What is said of attributes, of one of a call                            *)

LEMMA AttributeOf ==
    ASSUME NEW root, NEW o, NEW x \in Calls(root, o), NEW kid \in x.node.kids
    PROVE  [node |-> kid, value |-> x.o.kids[kid.field]] \in Attributes(root, o)
BY DEF Attributes

LEMMA AttributeIs ==
    ASSUME NEW root, NEW o, IsObject(root, o), NEW x \in Calls(root, o), NEW kid \in x.node.kids
    PROVE  LET value == x.o.kids[kid.field]
           IN  /\ kid.kind \in {"slice", "map", "struct"}
               /\ IsFiniteSet(DOMAIN value)
               /\ kid.kind = "slice" => \E n \in Nat : DOMAIN value = 0..(n - 1)
               /\ kid.kind = "map" => DOMAIN value \subseteq MapKey
               /\ kid.kind = "struct" => DOMAIN value \subseteq {NoPart}
<1>. DEFINE attr == [node |-> kid, value |-> x.o.kids[kid.field]]
<1>1. attr \in Attributes(root, o)
    BY AttributeOf
<1>. HIDE DEF attr
<1>2. /\ attr.node.kind \in {"slice", "map", "struct"}
      /\ IsFiniteSet(DOMAIN attr.value)
      /\ attr.node.kind = "slice" =>
            DOMAIN attr.value = 0..(Cardinality(DOMAIN attr.value) - 1)
      /\ attr.node.kind = "map" => DOMAIN attr.value \subseteq MapKey
      /\ attr.node.kind = "struct" => DOMAIN attr.value \subseteq {NoPart}
    BY <1>1 DEF IsObject
<1>3. Cardinality(DOMAIN attr.value) \in Nat
    BY <1>2, FS_CardinalityType
<1>4. attr.node = kid /\ attr.value = x.o.kids[kid.field]
    BY DEF attr
<1>. QED BY <1>2, <1>3, <1>4

LEMMA AttributeIsPlain ==
    ASSUME NEW root, NEW o, Plain(root, o), NEW x \in Calls(root, o), NEW kid \in x.node.kids
    PROVE  LET value == x.o.kids[kid.field]
           IN  /\ \A i \in DOMAIN value :
                    value[i] # Nil /\ (kid.kind # "struct" => value[i].pk = NoPart)
               /\ kid.kind = "map" => \A m \in DOMAIN value : Between[m] = m
<1>. DEFINE attr == [node |-> kid, value |-> x.o.kids[kid.field]]
<1>1. attr \in Attributes(root, o)
    BY AttributeOf
<1>. HIDE DEF attr
<1>2. /\ \A i \in DOMAIN attr.value :
            attr.value[i] # Nil /\ (attr.node.kind # "struct" => attr.value[i].pk = NoPart)
      /\ attr.node.kind = "map" => \A m \in DOMAIN attr.value : Between[m] = m
    BY <1>1 DEF Plain
<1>3. attr.node = kid /\ attr.value = x.o.kids[kid.field]
    BY DEF attr
<1>. QED BY <1>2, <1>3

LEMMA SliceIsPlaced ==
    ASSUME NEW root, NEW o, ~Misplaced(root, o), NEW x \in Calls(root, o),
           NEW kid \in x.node.kids, kid.kind = "slice"
    PROVE  LET value == x.o.kids[kid.field]
           IN  \A i \in DOMAIN value : value[i] # Nil =>
                  value[i].pk = NoPart /\ \A j \in 0..(i - 1) : value[j] # Nil
<1>. DEFINE attr == [node |-> kid, value |-> x.o.kids[kid.field]]
<1>1. attr \in Attributes(root, o)
    BY AttributeOf
<1>. HIDE DEF attr
<1>2. attr.node.kind = "slice" =>
          \A i \in DOMAIN attr.value : attr.value[i] # Nil =>
              attr.value[i].pk = NoPart /\ \A j \in 0..(i - 1) : attr.value[j] # Nil
    BY <1>1 DEF Misplaced
<1>3. attr.node = kid /\ attr.value = x.o.kids[kid.field]
    BY DEF attr
<1>. QED BY <1>2, <1>3

\* A plain object has no element in a wrong place.
LEMMA PlainIsPlaced ==
    ASSUME NEW root, NEW o, IsObject(root, o), Plain(root, o)
    PROVE  ~Misplaced(root, o)
<1>. SUFFICES ASSUME NEW attr \in Attributes(root, o), attr.node.kind = "slice",
                     NEW i \in DOMAIN attr.value
              PROVE  /\ attr.value[i].pk = NoPart
                     /\ \A j \in 0..(i - 1) : attr.value[j] # Nil
    BY DEF Misplaced
<1>1. /\ \A j \in DOMAIN attr.value :
            attr.value[j] # Nil /\ (attr.node.kind # "struct" => attr.value[j].pk = NoPart)
      /\ DOMAIN attr.value = 0..(Cardinality(DOMAIN attr.value) - 1)
      /\ IsFiniteSet(DOMAIN attr.value)
    BY DEF Plain, IsObject
<1>2. Cardinality(DOMAIN attr.value) \in Nat
    BY <1>1, FS_CardinalityType
<1>3. 0..(i - 1) \subseteq DOMAIN attr.value
    BY <1>1, <1>2
<1>. QED BY <1>1, <1>3

-----------------------------------------------------------------------------
(* What a key says of a call                                               *)

\* The type a row has comes with its parent and its attribute.
LEMMA TypesByKey ==
    ASSUME NEW root, NEW o, NEW at, Written(root, o, at)
    PROVE  \A d \in 0..Depth : \A x, y \in at[d] :
              x.parent = y.parent /\ x.node.field = y.node.field => x.node = y.node
<1>. DEFINE Fits(d) == \A x, y \in at[d] :
                x.parent = y.parent /\ x.node.field = y.node.field => x.node = y.node
            S == {d \in Nat : d <= Depth => Fits(d)}
<1>1. 0 \in S
    <2>1. Fits(0)
        BY Depths DEF Call
    <2>. HIDE DEF Fits
    <2>. QED BY <2>1
<1>2. ASSUME NEW d \in S PROVE d + 1 \in S
    <2>. SUFFICES ASSUME d + 1 <= Depth, NEW x \in at[d + 1], NEW y \in at[d + 1],
                         x.parent = y.parent, x.node.field = y.node.field
                  PROVE  x.node = y.node
        OBVIOUS
    <2>1. d + 1 \in 1..Depth /\ (d + 1) - 1 = d /\ d \in 0..Depth /\ d <= Depth
        BY DepthAssumption
    <2>2. PICK a \in at[d] : Makes(a, x)
        BY <2>1, Depths
    <2>3. PICK b \in at[d] : Makes(b, y)
        BY <2>1, Depths
    <2>4. a \in Calls(root, o) /\ b \in Calls(root, o)
        BY <2>1, Depths
    <2>5. Key(a) = Key(b)
        BY <2>2, <2>3, MadeHas
    <2>6. a.parent = b.parent /\ RowOf(a).rec = RowOf(b).rec
        BY <2>4, <2>5, KeysAreIds
    <2>7. a.node = b.node
        <3>1. Fits(d)
            BY <2>1
        <3>2. a.node.field = b.node.field
            BY <2>6, RowHas
        <3>. QED BY <2>6, <3>1, <3>2
    <2>8. x.node \in a.node.kids /\ y.node \in b.node.kids
        BY <2>2, <2>3, MadeHas
    <2>9. \A k, l \in a.node.kids : k.field = l.field => k = l
        <3>1. IsObject(root, o)
            BY DEF Written
        <3>. QED BY <2>4, <3>1 DEF IsObject
    <2>. QED BY <2>7, <2>8, <2>9
<1>. HIDE DEF S
<1>3. S = Nat
    BY <1>1, <1>2, EveryNumber DEF S
<1>. HIDE DEF Fits
<1>4. \A d \in 0..Depth : Fits(d)
    BY <1>3, DepthAssumption DEF S
<1>. QED BY <1>4 DEF Fits

\* In a plain object no two rows have one key.
LEMMA CallsByKey ==
    ASSUME NEW root, NEW o, NEW at, Written(root, o, at), Plain(root, o)
    PROVE  \A d \in 0..Depth : \A x, y \in at[d] : Id(RowOf(x)) = Id(RowOf(y)) => x = y
<1>. DEFINE Fits(d) == \A x, y \in at[d] : Id(RowOf(x)) = Id(RowOf(y)) => x = y
            S == {d \in Nat : d <= Depth => Fits(d)}
<1>1. 0 \in S
    <2>1. Fits(0)
        BY Depths
    <2>. HIDE DEF Fits
    <2>. QED BY <2>1
<1>2. ASSUME NEW d \in S PROVE d + 1 \in S
    <2>. SUFFICES ASSUME d + 1 <= Depth, NEW x \in at[d + 1], NEW y \in at[d + 1],
                         Id(RowOf(x)) = Id(RowOf(y))
                  PROVE  x = y
        OBVIOUS
    <2>1. d + 1 \in 1..Depth /\ (d + 1) - 1 = d /\ d \in 0..Depth /\ d + 1 \in 0..Depth
          /\ d <= Depth
        BY DepthAssumption
    <2>2. PICK a \in at[d] : Makes(a, x)
        BY <2>1, Depths
    <2>3. PICK b \in at[d] : Makes(b, y)
        BY <2>1, Depths
    <2>4. a \in Calls(root, o) /\ b \in Calls(root, o)
        BY <2>1, Depths
    <2>5. x.parent = y.parent /\ RowOf(x).rec = RowOf(y).rec
        BY RowHas DEF Id
    <2>6. Key(a) = Key(b)
        BY <2>2, <2>3, <2>5, MadeHas
    <2>7. a.parent = b.parent /\ RowOf(a).rec = RowOf(b).rec
        BY <2>4, <2>6, KeysAreIds
    <2>8. Id(RowOf(a)) = Id(RowOf(b))
        BY <2>7, RowHas DEF Id
    <2>9. a = b
        BY <2>1, <2>8
    <2>10. x.node = y.node
        <3>1. x.node.field = y.node.field
            BY <2>5, RowHas
        <3>. QED BY <2>1, <2>5, <3>1, TypesByKey
    <2>. DEFINE value == a.o.kids[x.node.field]
    <2>11. /\ x.node \in a.node.kids /\ x.part \in DOMAIN value /\ y.part \in DOMAIN value
           /\ x.o = value[x.part] /\ y.o = value[y.part]
           /\ x = Call(x.node, value[x.part], Key(a), x.part)
           /\ y = Call(x.node, value[y.part], Key(a), y.part)
        BY <2>2, <2>3, <2>9, <2>10, MadeHas
    <2>. HIDE DEF value
    <2>12. x.part = y.part
        <3>1. CASE x.node.kind = "struct"
            <4>1. IsObject(root, o)
                BY DEF Written
            <4>2. DOMAIN a.o.kids[x.node.field] \subseteq {NoPart}
                BY <2>4, <2>11, <3>1, <4>1, AttributeIs
            <4>. QED BY <2>11, <4>2 DEF value
        <3>2. CASE x.node.kind # "struct"
            <4>1. \A i \in DOMAIN a.o.kids[x.node.field] : a.o.kids[x.node.field][i].pk = NoPart
                BY <2>4, <2>11, <3>2, AttributeIsPlain
            <4>2. x.o.pk = NoPart /\ y.o.pk = NoPart
                BY <2>11, <4>1 DEF value
            <4>. QED BY <2>5, <4>2, RowHas
        <3>. QED BY <3>1, <3>2
    <2>. QED BY <2>11, <2>12
<1>. HIDE DEF S
<1>3. S = Nat
    BY <1>1, <1>2, EveryNumber DEF S
<1>. HIDE DEF Fits
<1>4. \A d \in 0..Depth : Fits(d)
    BY <1>3, DepthAssumption DEF S
<1>. QED BY <1>4 DEF Fits

\* There are finitely many rows.
LEMMA ImageIsFinite ==
    ASSUME NEW S, IsFiniteSet(S), NEW f
    PROVE  IsFiniteSet({f[x] : x \in S})
<1>. DEFINE T == {f[x] : x \in S}
            g == [x \in S |-> f[x]]
<1>1. g \in Surjection(S, T)
    BY DEF Surjection
<1>. QED BY <1>1, FS_Surjection

LEMMA RowsAreFinite ==
    ASSUME NEW root, NEW o, NEW at, Written(root, o, at)
    PROVE  IsFiniteSet(Rows(root, o))
<1>. DEFINE S == {d \in Nat : d <= Depth => IsFiniteSet(at[d])}
<1>1. 0 \in S
    <2>1. IsFiniteSet(at[0])
        BY Depths, FS_Singleton
    <2>. QED BY <2>1
<1>2. ASSUME NEW d \in S PROVE d + 1 \in S
    <2>. SUFFICES ASSUME d + 1 <= Depth PROVE IsFiniteSet(at[d + 1])
        OBVIOUS
    <2>1. d + 1 \in 1..Depth /\ (d + 1) - 1 = d /\ d \in 0..Depth /\ d <= Depth
        BY DepthAssumption
    <2>2. ASSUME NEW y \in at[d] PROVE IsFiniteSet(Converts(y))
        <3>1. y \in Calls(root, o)
            BY <2>1, Depths
        <3>. DEFINE from(kid) == {Call(kid, y.o.kids[kid.field][i], Key(y), i) :
                                    i \in NotNil(y.o.kids[kid.field])}
        <3>2. ASSUME NEW kid \in y.node.kids PROVE IsFiniteSet(from(kid))
            <4>. DEFINE of == NotNil(y.o.kids[kid.field])
                        made == [i \in of |-> Call(kid, y.o.kids[kid.field][i], Key(y), i)]
            <4>1. IsFiniteSet(DOMAIN y.o.kids[kid.field])
                BY <3>1, AttributeIs DEF Written
            <4>2. IsFiniteSet(of)
                BY <4>1, FS_Subset DEF NotNil
            <4>3. from(kid) = {made[i] : i \in of}
                OBVIOUS
            <4>. HIDE DEF of, made
            <4>4. IsFiniteSet({made[i] : i \in of})
                BY <4>2, ImageIsFinite
            <4>. QED BY <4>3, <4>4
        <3>3. IsFiniteSet(y.node.kids)
            BY <3>1 DEF Written, IsObject
        <3>4. Converts(y) = UNION {from(kid) : kid \in y.node.kids}
            BY DEF Converts, Key
        <3>. HIDE DEF from
        <3>. DEFINE made == [kid \in y.node.kids |-> from(kid)]
        <3>5. {from(kid) : kid \in y.node.kids} = {made[kid] : kid \in y.node.kids}
            OBVIOUS
        <3>. HIDE DEF made
        <3>6. IsFiniteSet({from(kid) : kid \in y.node.kids})
            BY <3>3, <3>5, ImageIsFinite
        <3>7. IsFiniteSet(UNION {from(kid) : kid \in y.node.kids})
            BY <3>2, <3>6, FS_UNION
        <3>. QED BY <3>4, <3>7
    <2>. DEFINE made == [y \in at[d] |-> Converts(y)]
    <2>3. IsFiniteSet(at[d])
        BY <2>1
    <2>4. \A y \in at[d] : IsFiniteSet(made[y])
        BY <2>2
    <2>5. at[d + 1] = UNION {made[y] : y \in at[d]}
        <3>1. \A x : x \in at[d + 1] <=> \E y \in at[d] : x \in Converts(y)
            BY <2>1, Depths, WhatIsMade
        <3>. QED BY <3>1
    <2>. HIDE DEF made
    <2>6. IsFiniteSet({made[y] : y \in at[d]})
        BY <2>3, ImageIsFinite
    <2>7. IsFiniteSet(UNION {made[y] : y \in at[d]})
        BY <2>4, <2>6, FS_UNION
    <2>. QED BY <2>5, <2>7
<1>. HIDE DEF S
<1>3. S = Nat
    BY <1>1, <1>2, EveryNumber DEF S
<1>4. \A d \in 0..Depth : IsFiniteSet(at[d])
    BY <1>3, DepthAssumption DEF S
<1>5. IsFiniteSet(0..Depth)
    BY DepthAssumption, FS_Interval
<1>6. IsFiniteSet({at[d] : d \in 0..Depth})
    BY <1>5, ImageIsFinite
<1>7. IsFiniteSet(UNION {at[d] : d \in 0..Depth})
    BY <1>4, <1>6, FS_UNION
<1>. DEFINE row == [x \in Calls(root, o) |-> RowOf(x)]
<1>8. Rows(root, o) = {row[x] : x \in Calls(root, o)}
    BY DEF Rows
<1>. HIDE DEF row
<1>9. IsFiniteSet(Calls(root, o))
    BY <1>7 DEF Written
<1>. QED BY <1>8, <1>9, ImageIsFinite

-----------------------------------------------------------------------------
(* Reading                                                                 *)

\* Where convertFrom is at a depth: at the root, or at an attribute of a row.
Seeks(root, at, read, d) ==
    IF d = 0 THEN read.node = root /\ read.parent = <<>>
    ELSE \E y \in at[d - 1] : read.node \in y.node.kids /\ read.parent = Key(y)

LEMMA ReadDepths ==
    ASSUME NEW root, NEW db, NEW o, NEW rs, DeepReads(Read(root, <<>>, Alone(o)), db, rs)
    PROVE  /\ rs[0] = {Read(root, <<>>, Alone(o))}
           /\ \A d \in 1..Depth : \A x \in rs[d] : \E y \in rs[d - 1] : x \in ReadsOn(y, db)
<1>. DEFINE first == Read(root, <<>>, Alone(o))
            more(d) == UNION {ReadsOn(read, db) : read \in rs[d - 1]}
<1>1. \A d \in 0..Depth : rs[d] = IF d = 0 THEN {first} ELSE more(d)
    BY DEF DeepReads
<1>. HIDE DEF first, more
<1>2. rs[0] = {first}
    BY <1>1, DepthAssumption
<1>3. ASSUME NEW d \in 1..Depth, NEW x \in rs[d]
      PROVE  \E y \in rs[d - 1] : x \in ReadsOn(y, db)
    <2>1. d # 0 /\ d \in 0..Depth
        BY DepthAssumption
    <2>2. x \in UNION {ReadsOn(read, db) : read \in rs[d - 1]}
        BY <1>1, <2>1 DEF more
    <2>. QED BY <2>2
<1>. QED BY <1>2, <1>3 DEF first

\* A row that is found is that of a call at this depth, for this type.
LEMMA RowsFound ==
    ASSUME NEW root, NEW o, NEW at, Written(root, o, at), NEW db \in SUBSET Rows(root, o),
           NEW d \in 0..Depth, NEW read, Seeks(root, at, read, d), NEW row \in RowsOf(read, db)
    PROVE  \E x \in at[d] : row = RowOf(x) /\ x.node = read.node /\ x.parent = read.parent
<1>1. PICK x \in Calls(root, o) : row = RowOf(x)
    BY DEF RowsOf, Rows
<1>2. x.parent = read.parent /\ x.node.field = read.node.field
    BY <1>1, RowHas DEF RowsOf
<1>3. CASE d = 0
    <2>1. read.node = root /\ x.parent = <<>>
        BY <1>2, <1>3 DEF Seeks
    <2>2. x \in at[0]
        BY <1>3, <2>1, DepthByKey
    <2>3. x.node = root
        BY <2>2, Depths DEF Call
    <2>. QED BY <1>1, <1>2, <1>3, <2>1, <2>2, <2>3
<1>4. CASE d # 0
    <2>1. d \in 1..Depth /\ d - 1 \in 0..Depth
        BY <1>4, DepthAssumption
    <2>2. PICK y \in at[d - 1] : read.node \in y.node.kids /\ read.parent = Key(y)
        BY <1>4 DEF Seeks
    <2>3. y \in Calls(root, o) /\ y.parent \in Seq(Recs(root, o)) /\ Len(y.parent) = d - 1
        BY <2>1, Depths, KeyLengths
    <2>4. RowOf(y).rec \in Recs(root, o)
        BY <2>3 DEF Recs
    <2>5. x.parent = Append(y.parent, RowOf(y).rec)
        BY <1>2, <2>2, RowHas DEF Key, KeyForRow
    <2>6. Len(x.parent) = d
        BY <2>3, <2>4, <2>5, AppendProperties
    <2>7. x \in at[d]
        BY <2>6, DepthByKey
    <2>8. PICK z \in at[d - 1] : Makes(z, x)
        BY <2>1, <2>7, Depths
    <2>9. z \in Calls(root, o) /\ Key(z) = Key(y)
        BY <1>2, <2>1, <2>2, <2>8, Depths, MadeHas
    <2>10. z.parent = y.parent /\ RowOf(z).rec = RowOf(y).rec
        BY <2>3, <2>9, KeysAreIds
    <2>11. z.node = y.node
        <3>1. z.node.field = y.node.field
            BY <2>10, RowHas
        <3>. QED BY <2>1, <2>2, <2>8, <2>10, <3>1, TypesByKey
    <2>12. x.node \in y.node.kids
        BY <2>8, <2>11, MadeHas
    <2>13. x.node = read.node
        BY <1>2, <2>2, <2>3, <2>12 DEF Written, IsObject
    <2>. QED BY <1>1, <1>2, <2>7, <2>13
<1>. QED BY <1>3, <1>4

\* So convertFrom goes on to attributes of rows.
LEMMA ReadsSeek ==
    ASSUME NEW root, NEW o, NEW at, Written(root, o, at), NEW db \in SUBSET Rows(root, o),
           NEW rs, DeepReads(Read(root, <<>>, Alone(o)), db, rs)
    PROVE  \A d \in 0..Depth : \A read \in rs[d] : Seeks(root, at, read, d)
<1>. DEFINE S == {d \in Nat : d <= Depth => \A read \in rs[d] : Seeks(root, at, read, d)}
<1>1. 0 \in S
    <2>1. \A read \in rs[0] : Seeks(root, at, read, 0)
        BY ReadDepths DEF Seeks, Read
    <2>. QED BY <2>1
<1>2. ASSUME NEW d \in S PROVE d + 1 \in S
    <2>. SUFFICES ASSUME d + 1 <= Depth, NEW next \in rs[d + 1]
                  PROVE  Seeks(root, at, next, d + 1)
        OBVIOUS
    <2>1. d + 1 \in 1..Depth /\ (d + 1) - 1 = d /\ d \in 0..Depth /\ d <= Depth /\ d + 1 # 0
        BY DepthAssumption
    <2>2. PICK read \in rs[d] : next \in ReadsOn(read, db)
        BY <2>1, ReadDepths
    <2>3. PICK row \in RowsOf(read, db) :
              next.node \in read.node.kids /\ next.parent = KeyForRow(row)
        BY <2>2 DEF ReadsOn, Read
    <2>4. Seeks(root, at, read, d)
        BY <2>1
    <2>5. PICK x \in at[d] : row = RowOf(x) /\ x.node = read.node
        BY <2>1, <2>4, RowsFound
    <2>. QED BY <2>1, <2>3, <2>5 DEF Seeks, Key
<1>. HIDE DEF S
<1>3. S = Nat
    BY <1>1, <1>2, EveryNumber DEF S
<1>. QED BY <1>3, DepthAssumption DEF S

-----------------------------------------------------------------------------
(* Slices are filled                                                       *)

\* In a finite set with every number below one it has, a number is less than
\* the numbers are many.
LEMMA NumbersWithoutGap ==
    ASSUME NEW P, IsFiniteSet(P), NEW i \in P, i \in Nat, \A j \in 0..(i - 1) : j \in P
    PROVE  i < Cardinality(P)
<1>1. 0..i \subseteq P
    OBVIOUS
<1>2. Cardinality(0..i) = i + 1
    BY FS_Interval
<1>3. Cardinality(0..i) <= Cardinality(P) /\ Cardinality(P) \in Nat
    BY <1>1, FS_Subset, FS_CardinalityType
<1>. QED BY <1>2, <1>3

LEMMA PartsAreFinite ==
    ASSUME NEW root, NEW o, NEW at, Written(root, o, at), NEW db \in SUBSET Rows(root, o),
           NEW read
    PROVE  IsFiniteSet({row.rec[2] : row \in RowsOf(read, db)})
<1>1. IsFiniteSet(db)
    BY RowsAreFinite, FS_Subset
<1>2. IsFiniteSet(RowsOf(read, db))
    BY <1>1, FS_Subset DEF RowsOf
<1>. DEFINE part == [row \in RowsOf(read, db) |-> row.rec[2]]
<1>3. {row.rec[2] : row \in RowsOf(read, db)} = {part[row] : row \in RowsOf(read, db)}
    OBVIOUS
<1>. HIDE DEF part
<1>4. IsFiniteSet({part[row] : row \in RowsOf(read, db)})
    BY <1>2, ImageIsFinite
<1>. QED BY <1>3, <1>4

LEMMA SlicesAreFilled ==
    ASSUME NEW root, NEW o, NEW at, Written(root, o, at), ~Misplaced(root, o),
           NEW db \in SUBSET Rows(root, o), Ids(db) = Ids(Rows(root, o)),
           NEW d \in 0..Depth, NEW read, Seeks(root, at, read, d)
    PROVE  Place(read.node, {row.rec[2] : row \in RowsOf(read, db)}) = "placed"
<1>. DEFINE P == {row.rec[2] : row \in RowsOf(read, db)}
<1>. SUFFICES ASSUME read.node.kind = "slice", NEW i \in P
              PROVE  i \in Nat /\ i < Cardinality(P)
    <2>1. read.node.kind = "slice" => \A i \in P : i \in Nat /\ i < Cardinality(P)
        OBVIOUS
    <2>. HIDE DEF P
    <2>2. read.node.kind = "slice" => \A i \in P : ~(i >= Cardinality(P))
        <3>1. IsFiniteSet(P)
            BY PartsAreFinite DEF P
        <3>2. Cardinality(P) \in Nat
            BY <3>1, FS_CardinalityType
        <3>. QED BY <2>1, <3>2
    <2>. QED BY <2>1, <2>2 DEF Place, P
<1>1. d # 0 /\ d \in 1..Depth /\ d - 1 \in 0..Depth
    <2>1. d # 0
        BY DEF Seeks, Written, IsObject
    <2>. QED BY <2>1, DepthAssumption
<1>2. PICK row \in RowsOf(read, db) : i = row.rec[2]
    OBVIOUS
<1>3. PICK x \in at[d] : row = RowOf(x) /\ x.node = read.node /\ x.parent = read.parent
    BY RowsFound
<1>4. PICK y \in at[d - 1] : Makes(y, x)
    BY <1>1, <1>3, Depths
<1>. DEFINE value == y.o.kids[x.node.field]
<1>5. /\ x.node \in y.node.kids /\ x.part \in DOMAIN value /\ value[x.part] # Nil
      /\ x.o = value[x.part] /\ x.parent = Key(y)
    BY <1>4, MadeHas
<1>6. y \in Calls(root, o)
    BY <1>1, <1>4, Depths
<1>7. x.node.kind = "slice"
    BY <1>3
<1>8. PICK n \in Nat : DOMAIN value = 0..(n - 1)
    BY <1>5, <1>6, <1>7, AttributeIs DEF Written
<1>9. \A j \in DOMAIN value : value[j] # Nil =>
          value[j].pk = NoPart /\ \A k \in 0..(j - 1) : value[k] # Nil
    BY <1>5, <1>6, <1>7, SliceIsPlaced
<1>. HIDE DEF value
<1>10. i = x.part /\ i \in Nat /\ i < n
    <2>1. x.o.pk = NoPart
        BY <1>5, <1>9
    <2>2. row.rec[2] = x.part
        BY <1>3, <2>1, RowHas
    <2>. QED BY <1>2, <1>5, <1>8, <2>2
<1>11. ASSUME NEW j \in 0..(i - 1) PROVE j \in P
    <2>1. j \in DOMAIN value
        BY <1>8, <1>10
    <2>2. value[j] # Nil /\ value[j].pk = NoPart
        <3>1. value[j] # Nil
            BY <1>5, <1>9, <1>10
        <3>. QED BY <1>9, <2>1, <3>1
    <2>. DEFINE z == Call(x.node, value[j], Key(y), j)
    <2>3. Makes(y, z)
        BY <1>5, <2>1, <2>2 DEF Makes, NotNil, value
    <2>4. z \in Calls(root, o)
        BY <1>1, <1>4, <2>3, Depths
    <2>5. z.node = x.node /\ z.o = value[j] /\ z.parent = x.parent /\ z.part = j
        BY <1>5 DEF Call
    <2>. HIDE DEF z
    <2>6. RowOf(z).rec[1] = x.node.field /\ RowOf(z).rec[2] = j
        BY <2>2, <2>5, RowHas
    <2>7. Id(RowOf(z)) \in Ids(db)
        BY <2>4 DEF Ids, Rows
    <2>8. PICK other \in db : Id(other) = Id(RowOf(z))
        BY <2>7 DEF Ids
    <2>9. other.parent = RowOf(z).parent /\ other.rec = RowOf(z).rec
        BY <2>8 DEF Id
    <2>10. other \in RowsOf(read, db) /\ other.rec[2] = j
        BY <1>3, <2>5, <2>6, <2>9, RowHas DEF RowsOf
    <2>. QED BY <2>10
<1>12. IsFiniteSet(P)
    BY PartsAreFinite
<1>. HIDE DEF P
<1>. QED BY <1>10, <1>11, <1>12, NumbersWithoutGap

LEMMA NothingFails ==
    ASSUME NEW root, NEW o, IsObject(root, o), ~Misplaced(root, o),
           NEW db \in SUBSET Rows(root, o), Ids(db) = Ids(Rows(root, o))
    PROVE  ~Fails(root, db, o)
<1>1. PICK at : Written(root, o, at)
    BY CallsByDepth DEF Written
<1>2. PICK rs : /\ DeepReads(Read(root, <<>>, Alone(o)), db, rs)
                /\ Reads(root, db, o) = UNION {rs[d] : d \in 0..Depth}
    BY ReadsByDepth
<1>3. ASSUME NEW read \in Reads(root, db, o)
      PROVE  Place(read.node, {row.rec[2] : row \in RowsOf(read, db)}) = "placed"
    <2>1. PICK d \in 0..Depth : read \in rs[d]
        BY <1>2
    <2>2. Seeks(root, at, read, d)
        BY <1>1, <1>2, <2>1, ReadsSeek
    <2>. QED BY <1>1, <2>2, SlicesAreFilled
<1>. QED BY <1>3 DEF Fails

\* What the tables hold after an object was written to empty ones.
LEMMA FirstWrite ==
    ASSUME NEW new, NEW db \in Upserted({}, new)
    PROVE  db \in SUBSET new /\ Ids(db) = Ids(new)
<1>. DEFINE twins == {row \in new : \E other \in new \ {row} : Id(other) = Id(row)}
<1>1. PICK last \in SUBSET twins : db = (new \ twins) \cup last /\ Ids(last) = Ids(twins)
    BY DEF Upserted
<1>2. twins \subseteq new
    OBVIOUS
<1>. HIDE DEF twins
<1>3. db \in SUBSET new
    BY <1>1, <1>2
<1>4. Ids((new \ twins) \cup last) = Ids(new \ twins) \cup Ids(last)
    BY DEF Ids
<1>5. Ids(new) = Ids(new \ twins) \cup Ids(twins)
    BY <1>2 DEF Ids
<1>. QED BY <1>1, <1>3, <1>4, <1>5

\* An object that was written is read back without an error or a panic, unless a
\* slice of it had a nil before an element or an element with a key of its own,
\* for objects of any type, depth and size (RecKey, GetSliceIndex, convertFrom).
THEOREM ReadsFailOnMisplaced ==
    ASSUME NEW root, NEW o, IsObject(root, o)
    PROVE  OnlyMisplacedElementsFail(root, o)
<1>. SUFFICES ASSUME NEW db \in Upserted({}, Rows(root, o)), ~Misplaced(root, o)
              PROVE  ~Fails(root, db, o)
    BY DEF OnlyMisplacedElementsFail
<1>1. db \in SUBSET Rows(root, o) /\ Ids(db) = Ids(Rows(root, o))
    BY FirstWrite
<1>. QED BY <1>1, NothingFails

-----------------------------------------------------------------------------
(* What is read is what was written                                        *)

\* A call of convertFrom with the value to be read there.
Seen(root, o, at, read, d) ==
    IF d = 0 THEN read = Read(root, <<>>, Alone(o))
    ELSE \E y \in at[d - 1] : \E kid \in y.node.kids :
            read = Read(kid, Key(y), y.o.kids[kid.field])

\* The elements to be read, as they were converted.
From(read) == {Call(read.node, read.value[i], read.parent, i) : i \in DOMAIN read.value}

\* The rows that are found are those of the elements.
LEMMA RowsAreOfElements ==
    ASSUME NEW root, NEW o, NEW at, Written(root, o, at), Plain(root, o),
           NEW d \in 0..Depth, NEW read, Seen(root, o, at, read, d)
    PROVE  /\ From(read) \subseteq at[d]
           /\ RowsOf(read, Rows(root, o)) = {RowOf(x) : x \in From(read)}
           /\ \A x \in From(read) :
                 /\ ReadPart(read.node, RowOf(x)) = x.part
                 /\ Expected(read, RowOf(x)) = x.o /\ x.o # Nil
                 /\ x.node = read.node
<1>1. Seeks(root, at, read, d)
    BY DEF Seen, Seeks, Read
<1>2. ASSUME NEW x \in From(read)
      PROVE  /\ x.part \in DOMAIN read.value /\ x.o = read.value[x.part]
             /\ x.node = read.node /\ x.parent = read.parent
             /\ x = Call(read.node, read.value[x.part], read.parent, x.part)
    BY DEF From, Call
<1>3. /\ From(read) \subseteq at[d]
      /\ \A x \in at[d] : x.node = read.node /\ x.parent = read.parent => x \in From(read)
      /\ \A i \in DOMAIN read.value : read.value[i] # Nil
      /\ \A x \in From(read) : ReadPart(read.node, RowOf(x)) = x.part
    <2>1. CASE d = 0
        <3>1. read.node = root /\ read.parent = <<>> /\ read.value = Alone(o)
            BY <2>1 DEF Seen, Read
        <3>2. DOMAIN read.value = {NoPart} /\ read.value[NoPart] = o
            BY <3>1 DEF Alone
        <3>3. From(read) = {Call(root, o, <<>>, NoPart)}
            BY <3>1, <3>2 DEF From
        <3>4. at[d] = From(read)
            BY <2>1, <3>3, Depths
        <3>5. root.kind = "struct" /\ o # Nil
            BY DEF Written, IsObject
        <3>6. \A x \in From(read) : x.part = NoPart
            BY <3>3 DEF Call
        <3>. QED BY <3>1, <3>2, <3>4, <3>5, <3>6 DEF ReadPart
    <2>2. CASE d # 0
        <3>1. d \in 1..Depth /\ d - 1 \in 0..Depth
            BY <2>2, DepthAssumption
        <3>2. PICK y \in at[d - 1] : \E kid \in y.node.kids :
                  read = Read(kid, Key(y), y.o.kids[kid.field])
            BY <2>2 DEF Seen
        <3>3. /\ read.node \in y.node.kids /\ read.parent = Key(y)
              /\ read.value = y.o.kids[read.node.field]
            BY <3>2 DEF Read
        <3>4. y \in Calls(root, o)
            BY <3>1, Depths
        <3>5. /\ \A i \in DOMAIN read.value : read.value[i] # Nil
              /\ read.node.kind # "struct" =>
                    \A i \in DOMAIN read.value : read.value[i].pk = NoPart
              /\ read.node.kind = "map" => \A m \in DOMAIN read.value : Between[m] = m
            BY <3>3, <3>4, AttributeIsPlain
        <3>6. /\ read.node.kind \in {"slice", "map", "struct"}
              /\ read.node.kind = "struct" => DOMAIN read.value \subseteq {NoPart}
            <4>1. IsObject(root, o)
                BY DEF Written
            <4>2. /\ read.node.kind \in {"slice", "map", "struct"}
                  /\ read.node.kind = "struct" =>
                        DOMAIN y.o.kids[read.node.field] \subseteq {NoPart}
                BY <3>3, <3>4, <4>1, AttributeIs
            <4>. QED BY <3>3, <4>2
        <3>7. ASSUME NEW x \in From(read) PROVE x \in at[d]
            <4>1. Makes(y, x)
                BY <1>2, <3>3, <3>5 DEF Makes, NotNil
            <4>. QED BY <3>1, <4>1, Depths
        <3>8. ASSUME NEW x \in at[d], x.node = read.node, x.parent = read.parent
              PROVE  x \in From(read)
            <4>1. PICK z \in at[d - 1] : Makes(z, x)
                BY <3>1, Depths
            <4>2. z \in Calls(root, o) /\ Key(z) = Key(y)
                BY <3>1, <3>3, <3>8, <4>1, Depths, MadeHas
            <4>3. z.parent = y.parent /\ RowOf(z).rec = RowOf(y).rec
                BY <3>4, <4>2, KeysAreIds
            <4>4. Id(RowOf(z)) = Id(RowOf(y))
                BY <4>3, RowHas DEF Id
            <4>5. z = y
                BY <3>1, <4>4, CallsByKey
            <4>6. x.part \in DOMAIN read.value
                  /\ x = Call(read.node, read.value[x.part], read.parent, x.part)
                BY <3>3, <3>8, <4>1, <4>5, MadeHas
            <4>. QED BY <4>6 DEF From
        <3>9. ASSUME NEW x \in From(read) PROVE ReadPart(read.node, RowOf(x)) = x.part
            <4>1. CASE read.node.kind = "struct"
                <5>1. x.part = NoPart
                    BY <1>2, <3>6, <4>1
                <5>. QED BY <4>1, <5>1 DEF ReadPart
            <4>2. CASE read.node.kind # "struct"
                <5>1. x.o.pk = NoPart
                    BY <1>2, <3>5, <4>2
                <5>2. RowOf(x).rec[2] = x.part
                    BY <5>1, RowHas
                <5>3. CASE read.node.kind = "slice"
                    BY <5>2, <5>3 DEF ReadPart
                <5>4. CASE read.node.kind = "map"
                    <6>1. Between[x.part] = x.part
                        BY <1>2, <3>5, <5>4
                    <6>. QED BY <5>2, <5>4, <6>1 DEF ReadPart
                <5>. QED BY <3>6, <4>2, <5>3, <5>4
            <4>. QED BY <4>1, <4>2
        <3>. QED BY <3>5, <3>7, <3>8, <3>9
    <2>. QED BY <2>1, <2>2
<1>4. ASSUME NEW row \in RowsOf(read, Rows(root, o))
      PROVE  \E x \in From(read) : row = RowOf(x)
    <2>1. PICK x \in at[d] : row = RowOf(x) /\ x.node = read.node /\ x.parent = read.parent
        BY <1>1, RowsFound
    <2>. QED BY <1>3, <2>1
<1>5. ASSUME NEW x \in From(read) PROVE RowOf(x) \in RowsOf(read, Rows(root, o))
    <2>1. x \in Calls(root, o)
        BY <1>3, Depths
    <2>2. RowOf(x) \in Rows(root, o)
        BY <2>1 DEF Rows
    <2>3. RowOf(x).parent = read.parent /\ RowOf(x).rec[1] = read.node.field
        <3>1. RowOf(x).parent = x.parent /\ RowOf(x).rec[1] = x.node.field
            BY RowHas
        <3>. QED BY <1>2, <3>1
    <2>. QED BY <2>2, <2>3 DEF RowsOf
<1>6. \A x \in From(read) : Expected(read, RowOf(x)) = x.o /\ x.o # Nil
    BY <1>2, <1>3 DEF Expected
<1>. QED BY <1>2, <1>3, <1>4, <1>5, <1>6

LEMMA ReadsSee ==
    ASSUME NEW root, NEW o, NEW at, Written(root, o, at), Plain(root, o),
           NEW rs, DeepReads(Read(root, <<>>, Alone(o)), Rows(root, o), rs)
    PROVE  \A d \in 0..Depth : \A read \in rs[d] : Seen(root, o, at, read, d)
<1>. DEFINE db == Rows(root, o)
            S == {d \in Nat : d <= Depth => \A read \in rs[d] : Seen(root, o, at, read, d)}
<1>1. 0 \in S
    <2>1. \A read \in rs[0] : Seen(root, o, at, read, 0)
        BY ReadDepths DEF Seen
    <2>. QED BY <2>1
<1>2. ASSUME NEW d \in S PROVE d + 1 \in S
    <2>. SUFFICES ASSUME d + 1 <= Depth, NEW next \in rs[d + 1]
                  PROVE  Seen(root, o, at, next, d + 1)
        OBVIOUS
    <2>1. d + 1 \in 1..Depth /\ (d + 1) - 1 = d /\ d \in 0..Depth /\ d <= Depth /\ d + 1 # 0
        BY DepthAssumption
    <2>2. PICK read \in rs[d] : next \in ReadsOn(read, db)
        BY <2>1, ReadDepths
    <2>3. PICK row \in RowsOf(read, db) : \E kid \in read.node.kids :
              next = Read(kid, KeyForRow(row),
                          IF Expected(read, row) = Nil THEN <<>>
                          ELSE Expected(read, row).kids[kid.field])
        BY <2>2 DEF ReadsOn
    <2>4. Seen(root, o, at, read, d)
        BY <2>1
    <2>5. PICK x \in From(read) : row = RowOf(x)
        BY <2>1, <2>4, RowsAreOfElements
    <2>6. x \in at[d] /\ Expected(read, row) = x.o /\ x.o # Nil /\ x.node = read.node
        BY <2>1, <2>4, <2>5, RowsAreOfElements
    <2>7. \E kid \in x.node.kids : next = Read(kid, Key(x), x.o.kids[kid.field])
        BY <2>3, <2>5, <2>6 DEF Key
    <2>. QED BY <2>1, <2>6, <2>7 DEF Seen
<1>. HIDE DEF S
<1>3. S = Nat
    BY <1>1, <1>2, EveryNumber DEF S
<1>. QED BY <1>3, DepthAssumption DEF S

LEMMA AllIsShown ==
    ASSUME NEW root, NEW o, IsObject(root, o), Plain(root, o)
    PROVE  \A read \in Reads(root, Rows(root, o), o) : Shows(read, Rows(root, o))
<1>. SUFFICES ASSUME NEW read \in Reads(root, Rows(root, o), o)
              PROVE  Shows(read, Rows(root, o))
    OBVIOUS
<1>1. PICK at : Written(root, o, at)
    BY CallsByDepth DEF Written
<1>2. PICK rs : /\ DeepReads(Read(root, <<>>, Alone(o)), Rows(root, o), rs)
                /\ Reads(root, Rows(root, o), o) = UNION {rs[d] : d \in 0..Depth}
    BY ReadsByDepth
<1>3. PICK d \in 0..Depth : read \in rs[d]
    BY <1>2
<1>4. Seen(root, o, at, read, d)
    BY <1>1, <1>2, <1>3, ReadsSee
<1>5. /\ RowsOf(read, Rows(root, o)) = {RowOf(x) : x \in From(read)}
      /\ \A x \in From(read) :
            /\ ReadPart(read.node, RowOf(x)) = x.part
            /\ Expected(read, RowOf(x)) = x.o /\ x.o # Nil
    BY <1>1, <1>4, RowsAreOfElements
<1>6. DOMAIN read.value = {x.part : x \in From(read)}
    <2>1. ASSUME NEW x \in From(read) PROVE x.part \in DOMAIN read.value
        BY DEF From, Call
    <2>2. ASSUME NEW i \in DOMAIN read.value PROVE \E x \in From(read) : x.part = i
        <3>. DEFINE x == Call(read.node, read.value[i], read.parent, i)
        <3>1. x \in From(read)
            BY DEF From
        <3>2. x.part = i
            BY DEF Call
        <3>. QED BY <3>1, <3>2
    <2>. QED BY <2>1, <2>2
<1>7. DOMAIN read.value = {ReadPart(read.node, row) : row \in RowsOf(read, Rows(root, o))}
    BY <1>5, <1>6
<1>8. \A x \in From(read) : x.o.val = RowOf(x).val /\ x.o.pk = RowOf(x).pk
    BY RowHas
<1>. QED BY <1>5, <1>7, <1>8 DEF Shows

\* A plain object has no two rows with one key, so tables that had no others hold
\* its rows once it is written.
LEMMA PlainIsWritten ==
    ASSUME NEW root, NEW o, IsObject(root, o), Plain(root, o),
           NEW db, Ids(db) \subseteq Ids(Rows(root, o)), NEW db2 \in Upserted(db, Rows(root, o))
    PROVE  db2 = Rows(root, o)
<1>. DEFINE new == Rows(root, o)
            old == {row \in db : Id(row) \notin Ids(new)}
            twins == {row \in new : \E other \in new \ {row} : Id(other) = Id(row)}
<1>1. PICK at : Written(root, o, at)
    BY CallsByDepth DEF Written
<1>2. ASSUME NEW x \in Calls(root, o), NEW y \in Calls(root, o), Id(RowOf(x)) = Id(RowOf(y))
      PROVE  x = y
    <2>1. x.parent = y.parent
        BY <1>2, RowHas DEF Id
    <2>2. PICK d \in 0..Depth : x \in at[d]
        BY <1>1, Depths
    <2>3. Len(x.parent) = d
        BY <1>1, <2>2, KeyLengths
    <2>4. y \in at[d]
        BY <1>1, <2>1, <2>3, DepthByKey
    <2>. QED BY <1>1, <1>2, <2>2, <2>4, CallsByKey
<1>3. twins = {}
    <2>. SUFFICES ASSUME NEW row \in new, NEW other \in new, Id(other) = Id(row)
                  PROVE  other = row
        OBVIOUS
    <2>1. PICK x \in Calls(root, o) : row = RowOf(x)
        BY DEF Rows
    <2>2. PICK y \in Calls(root, o) : other = RowOf(y)
        BY DEF Rows
    <2>. QED BY <1>2, <2>1, <2>2
<1>4. old = {}
    BY DEF Ids
<1>5. \E last \in SUBSET twins : db2 = old \cup (new \ twins) \cup last
    BY DEF Upserted
<1>. HIDE DEF new, old, twins
<1>6. db2 = new
    BY <1>3, <1>4, <1>5
<1>. QED BY <1>6 DEF new

\* An object that is written over another with no more rows than it has is read
\* as it was written, for objects of any type, depth and size: slices in their
\* order, maps under their keys (convertTo, convertFrom).
THEOREM WhatIsWrittenIsRead ==
    ASSUME NEW root, NEW before, NEW after, IsObject(root, after)
    PROVE  LatestIsRead(root, before, after)
<1>. SUFFICES ASSUME Plain(root, after),
                     Ids(Rows(root, before)) \subseteq Ids(Rows(root, after)),
                     NEW db \in Upserted({}, Rows(root, before)),
                     NEW db2 \in Upserted(db, Rows(root, after))
              PROVE  /\ ~Fails(root, db2, after)
                     /\ \A read \in Reads(root, db2, after) : Shows(read, db2)
    BY DEF LatestIsRead
<1>1. Ids(db) \subseteq Ids(Rows(root, after))
    BY FirstWrite
<1>2. db2 = Rows(root, after)
    BY <1>1, PlainIsWritten
<1>3. ~Misplaced(root, after)
    BY PlainIsPlaced
<1>4. ~Fails(root, db2, after)
    BY <1>2, <1>3, NothingFails
<1>. QED BY <1>2, <1>4, AllIsShown

-----------------------------------------------------------------------------
(* Fields and tables, property by property                                 *)

\* The fields of a type among the first properties.
FirstFields(props, t, f) ==
    f = [i \in 0..Len(props) |->
            IF i = 0 THEN <<>>
            ELSE IF props[i].type = t THEN Append(f[i - 1], props[i]) ELSE f[i - 1]]

LEMMA FieldsAre ==
    ASSUME NEW props \in Seq(Property), NEW t
    PROVE  \E f : /\ f[0] = <<>>
                  /\ \A i \in 1..Len(props) :
                        f[i] = IF props[i].type = t THEN Append(f[i - 1], props[i]) ELSE f[i - 1]
                  /\ \A i \in 0..Len(props) : f[i] \in Seq(Property)
                  /\ Fields(props, t) = f[Len(props)]
<1>. DEFINE V == Seq(Property)
            n == Len(props)
            next == [i \in Nat |-> [v \in V |->
                        IF i \in 1..n /\ props[i].type = t THEN Append(v, props[i]) ELSE v]]
<1>1. next \in [Nat -> [V -> V]]
    OBVIOUS
<1>2. <<>> \in V /\ n \in Nat
    OBVIOUS
<1>. HIDE DEF next
<1>3. PICK h \in [0..n -> V] : Iterates(h, n, <<>>, next)
    <2>. HIDE DEF V, n
    <2>. QED BY <1>1, <1>2, IteratesExist
<1>4. ASSUME NEW i \in 1..n
      PROVE  next[i][h[i - 1]] =
                IF props[i].type = t THEN Append(h[i - 1], props[i]) ELSE h[i - 1]
    <2>1. h[i - 1] \in V
        BY <1>3
    <2>. QED BY <2>1 DEF next
<1>5. FirstFields(props, t, h)
    <2>1. \A i \in 0..n : h[i] = IF i = 0 THEN <<>> ELSE next[i][h[i - 1]]
        BY <1>3 DEF Iterates
    <2>2. \A i \in 0..n : h[i] = IF i = 0 THEN <<>>
              ELSE IF props[i].type = t THEN Append(h[i - 1], props[i]) ELSE h[i - 1]
        <3>. SUFFICES ASSUME NEW i \in 0..n, i # 0
                      PROVE  h[i] = IF props[i].type = t THEN Append(h[i - 1], props[i]) ELSE h[i - 1]
            BY <2>1
        <3>1. i \in 1..n
            OBVIOUS
        <3>. QED BY <1>4, <2>1, <3>1
    <2>3. h = [i \in 0..n |-> h[i]]
        BY <1>3
    <2>. QED BY <2>2, <2>3 DEF FirstFields
<1>. DEFINE f == CHOOSE f : FirstFields(props, t, f)
<1>6. FirstFields(props, t, f)
    BY <1>5
<1>7. Fields(props, t) = f[n]
    BY DEF Fields, FirstFields
<1>. HIDE DEF f
<1>8. \A i \in 0..n : f[i] = IF i = 0 THEN <<>>
          ELSE IF props[i].type = t THEN Append(f[i - 1], props[i]) ELSE f[i - 1]
    BY <1>6 DEF FirstFields
<1>9. f[0] = <<>>
    BY <1>2, <1>8
<1>10. \A i \in 1..n : f[i] = IF props[i].type = t THEN Append(f[i - 1], props[i]) ELSE f[i - 1]
    BY <1>8
<1>11. \A i \in 0..n : f[i] \in V
    <2>1. ASSUME NEW i \in 1..n, f[i - 1] \in V PROVE f[i] \in V
        <3>1. props[i] \in Property
            OBVIOUS
        <3>2. Append(f[i - 1], props[i]) \in V
            BY <2>1, <3>1
        <3>. QED BY <1>10, <2>1, <3>2
    <2>. HIDE DEF V, n
    <2>. QED BY <1>2, <1>9, <2>1, StepsKeep
<1>. QED BY <1>7, <1>9, <1>10, <1>11

LEMMA FieldsOfNone ==
    ASSUME NEW props \in Seq(Property), NEW t, \A i \in 1..Len(props) : props[i].type # t
    PROVE  Fields(props, t) = <<>>
<1>1. PICK f : /\ f[0] = <<>>
               /\ \A i \in 1..Len(props) :
                     f[i] = IF props[i].type = t THEN Append(f[i - 1], props[i]) ELSE f[i - 1]
               /\ Fields(props, t) = f[Len(props)]
    BY FieldsAre
<1>. DEFINE V == {<<>>}
<1>2. f[0] \in V /\ Len(props) \in Nat /\ \A i \in 1..Len(props) : f[i - 1] \in V => f[i] \in V
    BY <1>1
<1>. HIDE DEF V
<1>3. \A i \in 0..Len(props) : f[i] \in V
    BY <1>2, StepsKeep
<1>. QED BY <1>1, <1>2, <1>3 DEF V

LEMMA FieldsOfSome ==
    ASSUME NEW props \in Seq(Property), NEW t, NEW k \in 1..Len(props), props[k].type = t
    PROVE  Fields(props, t) # <<>>
<1>1. PICK f : /\ \A i \in 1..Len(props) :
                     f[i] = IF props[i].type = t THEN Append(f[i - 1], props[i]) ELSE f[i - 1]
               /\ \A i \in 0..Len(props) : f[i] \in Seq(Property)
               /\ Fields(props, t) = f[Len(props)]
    BY FieldsAre
<1>. DEFINE S == {i \in Nat : k <= i /\ i <= Len(props) => f[i] # <<>>}
<1>2. 0 \in S
    OBVIOUS
<1>3. ASSUME NEW i \in S PROVE i + 1 \in S
    <2>. SUFFICES ASSUME k <= i + 1, i + 1 <= Len(props) PROVE f[i + 1] # <<>>
        OBVIOUS
    <2>1. i + 1 \in 1..Len(props) /\ (i + 1) - 1 = i /\ f[i] \in Seq(Property)
          /\ props[i + 1] \in Property
        BY <1>1
    <2>2. f[i + 1] = IF props[i + 1].type = t THEN Append(f[i], props[i + 1]) ELSE f[i]
        BY <1>1, <2>1
    <2>3. Append(f[i], props[i + 1]) # <<>>
        <3>1. Len(Append(f[i], props[i + 1])) = Len(f[i]) + 1 /\ Len(f[i]) \in Nat
            BY <2>1
        <3>2. Len(Append(f[i], props[i + 1])) # Len(<<>>)
            BY <3>1
        <3>. QED BY <3>2
    <2>4. CASE props[i + 1].type = t
        BY <2>2, <2>3, <2>4
    <2>5. CASE props[i + 1].type # t
        <3>1. k <= i
            BY <2>5
        <3>. QED BY <2>1, <2>2, <2>5, <3>1
    <2>. QED BY <2>4, <2>5
<1>. HIDE DEF S
<1>4. S = Nat
    BY <1>2, <1>3, EveryNumber DEF S
<1>. QED BY <1>1, <1>4 DEF S

LEMMA FieldsOfAll ==
    ASSUME NEW props \in Seq(Property), NEW t, \A i \in 1..Len(props) : props[i].type = t
    PROVE  Fields(props, t) = props
<1>1. PICK f : /\ f[0] = <<>>
               /\ \A i \in 1..Len(props) :
                     f[i] = IF props[i].type = t THEN Append(f[i - 1], props[i]) ELSE f[i - 1]
               /\ \A i \in 0..Len(props) : f[i] \in Seq(Property)
               /\ Fields(props, t) = f[Len(props)]
    BY FieldsAre
<1>. DEFINE First(i) == Len(f[i]) = i /\ \A j \in 1..i : f[i][j] = props[j]
            S == {i \in Nat : i <= Len(props) => First(i)}
<1>2. 0 \in S
    BY <1>1
<1>3. ASSUME NEW i \in S PROVE i + 1 \in S
    <2>. SUFFICES ASSUME i + 1 <= Len(props) PROVE First(i + 1)
        OBVIOUS
    <2>1. i + 1 \in 1..Len(props) /\ (i + 1) - 1 = i /\ f[i] \in Seq(Property)
          /\ props[i + 1] \in Property /\ First(i)
        BY <1>1
    <2>2. f[i + 1] = Append(f[i], props[i + 1])
        BY <1>1, <2>1
    <2>3. Len(f[i + 1]) = i + 1 /\ f[i + 1][i + 1] = props[i + 1]
        BY <2>1, <2>2
    <2>4. \A j \in 1..i : f[i + 1][j] = props[j]
        BY <2>1, <2>2
    <2>5. \A j \in 1..(i + 1) : f[i + 1][j] = props[j]
        BY <2>3, <2>4
    <2>. QED BY <2>3, <2>5
<1>. HIDE DEF S
<1>4. S = Nat
    BY <1>2, <1>3, EveryNumber DEF S
<1>5. First(Len(props)) /\ f[Len(props)] \in Seq(Property)
    BY <1>1, <1>4 DEF S
<1>. QED BY <1>1, <1>5, SeqEqual

-----------------------------------------------------------------------------
(* Tables, property by property                                            *)

Columns == UNION {[S -> Nat] : S \in SUBSET Name}
SomeTables == [Type -> [there : BOOLEAN, columns : Columns]]

\* What the properties of the root add, and what the others do.
AddRoot(tables, p) ==
    IF p.type # Root THEN tables
    ELSE [tables EXCEPT ![Root].columns = addColumn(@, p.name)]
AddNested(tables, p) ==
    [t \in Type |->
        IF p.type = Root \/ \A k \in DOMAIN Path[p.type] : Path[p.type][k] # t
        THEN tables[t]
        ELSE IF t # p.type THEN NewTable
        ELSE [NewTable EXCEPT !.columns = addColumn(@, p.name)]]

LEMMA AddsColumn ==
    ASSUME NEW columns \in Columns, NEW name \in Name
    PROVE  addColumn(columns, name) \in Columns
<1>1. PICK S \in SUBSET Name : columns \in [S -> Nat]
    BY DEF Columns
<1>2. IsFiniteSet(S) /\ Cardinality(S) \in Nat
    BY TypeAssumption, FS_Subset, FS_CardinalityType
<1>3. addColumn(columns, name) \in [S \cup {name} -> Nat]
    BY <1>1, <1>2 DEF addColumn
<1>4. S \cup {name} \in SUBSET Name
    OBVIOUS
<1>. QED BY <1>3, <1>4 DEF Columns

LEMMA NewColumns == <<>> \in Columns
<1>1. <<>> \in [{} -> Nat]
    OBVIOUS
<1>. QED BY <1>1 DEF Columns

LEMMA AddsKeep ==
    ASSUME NEW tables \in SomeTables, NEW p \in Property
    PROVE  AddRoot(tables, p) \in SomeTables /\ AddNested(tables, p) \in SomeTables
<1>. DEFINE Table == [there : BOOLEAN, columns : Columns]
<1>1. p.type \in Type /\ p.name \in Name /\ Root \in Type
    BY TypeAssumption DEF Property
<1>2. \A t \in Type : tables[t] \in Table
    BY DEF SomeTables
<1>3. \A t \in Type : [tables[t] EXCEPT !.columns = addColumn(@, p.name)] \in Table
    BY <1>1, <1>2, AddsColumn
<1>4. AddRoot(tables, p) \in SomeTables
    BY <1>1, <1>3 DEF AddRoot, SomeTables
<1>5. NewTable \in Table /\ [NewTable EXCEPT !.columns = addColumn(@, p.name)] \in Table
    BY <1>1, AddsColumn, NewColumns DEF NewTable
<1>6. AddNested(tables, p) \in SomeTables
    BY <1>2, <1>5 DEF AddNested, SomeTables
<1>. QED BY <1>4, <1>6

FirstRoots(props, a) ==
    a = [i \in 0..Len(props) |->
            IF i = 0 THEN [t \in Type |-> IF t = Root THEN NewTable ELSE NoTable]
            ELSE AddRoot(a[i - 1], props[i])]
FirstNesteds(props, v, b) ==
    b = [i \in 0..Len(props) |-> IF i = 0 THEN v ELSE AddNested(b[i - 1], props[i])]

\* Of a step that keeps the tables tables, there are such functions.
LEMMA FirstRootsExist ==
    ASSUME NEW props \in Seq(Property)
    PROVE  \E a : FirstRoots(props, a)
<1>. DEFINE n == Len(props)
            v == [t \in Type |-> IF t = Root THEN NewTable ELSE NoTable]
            next == [i \in Nat |-> [x \in SomeTables |->
                        IF i \in 1..n THEN AddRoot(x, props[i]) ELSE x]]
<1>1. v \in SomeTables /\ n \in Nat
    BY NewColumns DEF SomeTables, NewTable, NoTable
<1>2. next \in [Nat -> [SomeTables -> SomeTables]]
    <2>1. ASSUME NEW i \in Nat, NEW x \in SomeTables
          PROVE  (IF i \in 1..n THEN AddRoot(x, props[i]) ELSE x) \in SomeTables
        BY AddsKeep
    <2>. QED BY <2>1
<1>. HIDE DEF v, next
<1>3. PICK h \in [0..n -> SomeTables] : Iterates(h, n, v, next)
    <2>. HIDE DEF n
    <2>. QED BY <1>1, <1>2, IteratesExist
<1>4. \A i \in 0..n : h[i] = IF i = 0 THEN v ELSE next[i][h[i - 1]]
    BY <1>3 DEF Iterates
<1>5. ASSUME NEW i \in 0..n PROVE h[i] = IF i = 0 THEN v ELSE AddRoot(h[i - 1], props[i])
    <2>. SUFFICES ASSUME i # 0 PROVE next[i][h[i - 1]] = AddRoot(h[i - 1], props[i])
        BY <1>4
    <2>1. i \in 1..n /\ h[i - 1] \in SomeTables
        BY <1>3
    <2>. QED BY <2>1 DEF next
<1>6. h = [i \in 0..n |-> h[i]]
    BY <1>3
<1>7. h = [i \in 0..n |-> IF i = 0 THEN v ELSE AddRoot(h[i - 1], props[i])]
    BY <1>5, <1>6
<1>. QED BY <1>7 DEF FirstRoots, v

LEMMA FirstNestedsExist ==
    ASSUME NEW props \in Seq(Property), NEW v \in SomeTables
    PROVE  \E b : FirstNesteds(props, v, b)
<1>. DEFINE n == Len(props)
            next == [i \in Nat |-> [x \in SomeTables |->
                        IF i \in 1..n THEN AddNested(x, props[i]) ELSE x]]
<1>1. n \in Nat
    OBVIOUS
<1>2. next \in [Nat -> [SomeTables -> SomeTables]]
    <2>1. ASSUME NEW i \in Nat, NEW x \in SomeTables
          PROVE  (IF i \in 1..n THEN AddNested(x, props[i]) ELSE x) \in SomeTables
        BY AddsKeep
    <2>. QED BY <2>1
<1>. HIDE DEF next
<1>3. PICK h \in [0..n -> SomeTables] : Iterates(h, n, v, next)
    <2>. HIDE DEF n
    <2>. QED BY <1>1, <1>2, IteratesExist
<1>4. \A i \in 0..n : h[i] = IF i = 0 THEN v ELSE next[i][h[i - 1]]
    BY <1>3 DEF Iterates
<1>5. ASSUME NEW i \in 0..n PROVE h[i] = IF i = 0 THEN v ELSE AddNested(h[i - 1], props[i])
    <2>. SUFFICES ASSUME i # 0 PROVE next[i][h[i - 1]] = AddNested(h[i - 1], props[i])
        BY <1>4
    <2>1. i \in 1..n /\ h[i - 1] \in SomeTables
        BY <1>3
    <2>. QED BY <2>1 DEF next
<1>6. h = [i \in 0..n |-> h[i]]
    BY <1>3
<1>. QED BY <1>5, <1>6 DEF FirstNesteds

LEMMA TablesAre ==
    ASSUME NEW props \in Seq(Property)
    PROVE  \E a, b :
              /\ a[0] = [t \in Type |-> IF t = Root THEN NewTable ELSE NoTable]
              /\ \A i \in 1..Len(props) : a[i] = AddRoot(a[i - 1], props[i])
              /\ b[0] = a[Len(props)]
              /\ \A i \in 1..Len(props) : b[i] = AddNested(b[i - 1], props[i])
              /\ \A i \in 0..Len(props) : a[i] \in SomeTables /\ b[i] \in SomeTables
              /\ Tables(props) = b[Len(props)]
<1>. DEFINE n == Len(props)
            a == CHOOSE a : FirstRoots(props, a)
            b == CHOOSE b : FirstNesteds(props, a[Len(props)], b)
<1>1. FirstRoots(props, a)
    BY FirstRootsExist
<1>2. Tables(props) = b[n]
    BY DEF Tables, FirstRoots, FirstNesteds, AddRoot, AddNested
<1>. HIDE DEF a
<1>3. \A i \in 0..n : a[i] = IF i = 0 THEN [t \in Type |-> IF t = Root THEN NewTable ELSE NoTable]
                              ELSE AddRoot(a[i - 1], props[i])
    BY <1>1 DEF FirstRoots
<1>4. a[0] = [t \in Type |-> IF t = Root THEN NewTable ELSE NoTable]
      /\ \A i \in 1..n : a[i] = AddRoot(a[i - 1], props[i])
    BY <1>3
<1>5. n \in Nat /\ \A i \in 1..n : props[i] \in Property
    OBVIOUS
<1>6. \A i \in 0..n : a[i] \in SomeTables
    <2>1. a[0] \in SomeTables
        BY <1>4, NewColumns DEF SomeTables, NewTable, NoTable
    <2>2. \A i \in 1..n : a[i - 1] \in SomeTables => a[i] \in SomeTables
        BY <1>4, <1>5, AddsKeep
    <2>. HIDE DEF n
    <2>. QED BY <1>5, <2>1, <2>2, StepsKeep
<1>7. FirstNesteds(props, a[n], b)
    <2>1. a[n] \in SomeTables
        BY <1>5, <1>6
    <2>. QED BY <2>1, FirstNestedsExist
<1>. HIDE DEF b
<1>8. \A i \in 0..n : b[i] = IF i = 0 THEN a[n] ELSE AddNested(b[i - 1], props[i])
    BY <1>7 DEF FirstNesteds
<1>9. b[0] = a[n] /\ \A i \in 1..n : b[i] = AddNested(b[i - 1], props[i])
    BY <1>8
<1>10. \A i \in 0..n : b[i] \in SomeTables
    <2>1. b[0] \in SomeTables
        BY <1>5, <1>6, <1>9
    <2>2. \A i \in 1..n : b[i - 1] \in SomeTables => b[i] \in SomeTables
        BY <1>5, <1>9, AddsKeep
    <2>. HIDE DEF n
    <2>. QED BY <1>5, <2>1, <2>2, StepsKeep
<1>. QED BY <1>2, <1>4, <1>6, <1>9, <1>10

LEMMA PropsAre ==
    ASSUME NEW props \in Seq(Property)
    PROVE  /\ Len(props) \in Nat /\ DOMAIN props = 1..Len(props)
           /\ \A i \in 1..Len(props) :
                 /\ props[i].type \in Type /\ props[i].name \in Name
                 /\ props[i] = [type |-> props[i].type, name |-> props[i].name]
<1>1. Len(props) \in Nat /\ DOMAIN props = 1..Len(props)
    OBVIOUS
<1>2. ASSUME NEW i \in 1..Len(props)
      PROVE  /\ props[i].type \in Type /\ props[i].name \in Name
             /\ props[i] = [type |-> props[i].type, name |-> props[i].name]
    <2>1. props[i] \in Property
        OBVIOUS
    <2>. QED BY <2>1 DEF Property
<1>. QED BY <1>1, <1>2

\* If all properties are of the root, its columns are numbered as they are.
LEMMA RootColumns ==
    ASSUME NEW props \in Seq(Property), Distinct(props),
           \A i \in 1..Len(props) : props[i].type = Root
    PROVE  /\ Tables(props)[Root].there
           /\ DOMAIN Tables(props)[Root].columns = {props[i].name : i \in 1..Len(props)}
           /\ \A i \in 1..Len(props) : Tables(props)[Root].columns[props[i].name] = i
<1>. DEFINE n == Len(props)
<1>1. PICK a, b :
          /\ a[0] = [t \in Type |-> IF t = Root THEN NewTable ELSE NoTable]
          /\ \A i \in 1..n : a[i] = AddRoot(a[i - 1], props[i])
          /\ b[0] = a[n]
          /\ \A i \in 1..n : b[i] = AddNested(b[i - 1], props[i])
          /\ \A i \in 0..n : a[i] \in SomeTables /\ b[i] \in SomeTables
          /\ Tables(props) = b[n]
    BY TablesAre
<1>2. n \in Nat /\ Root \in Type /\ \A i \in 1..n : props[i].name \in Name
    BY TypeAssumption, PropsAre
<1>3. ASSUME NEW i \in 1..n, NEW j \in 1..n, props[i].name = props[j].name
      PROVE  i = j
    <2>1. props[i] = props[j]
        BY <1>3, PropsAre
    <2>. QED BY <2>1, PropsAre DEF Distinct
<1>. DEFINE Numbered(table, i) ==
                /\ table.there
                /\ DOMAIN table.columns = {props[j].name : j \in 1..i}
                /\ \A j \in 1..i : table.columns[props[j].name] = j
                /\ IsFiniteSet(DOMAIN table.columns)
                /\ Cardinality(DOMAIN table.columns) = i
            S == {i \in Nat : i <= n => Numbered(a[i][Root], i)}
<1>4. 0 \in S
    <2>1. a[0][Root] = NewTable
        BY <1>1, <1>2
    <2>2. DOMAIN NewTable.columns = {} /\ NewTable.there
        BY DEF NewTable
    <2>3. {props[j].name : j \in 1..0} = {}
        OBVIOUS
    <2>4. Numbered(NewTable, 0)
        BY <2>2, <2>3, FS_EmptySet
    <2>. HIDE DEF Numbered
    <2>. QED BY <2>1, <2>4
<1>5. ASSUME NEW i \in S PROVE i + 1 \in S
    <2>. SUFFICES ASSUME i + 1 <= n PROVE Numbered(a[i + 1][Root], i + 1)
        <3>. HIDE DEF Numbered
        <3>. QED OBVIOUS
    <2>. DEFINE p == props[i + 1]
                columns == a[i][Root].columns
    <2>1. i + 1 \in 1..n /\ (i + 1) - 1 = i /\ i \in 0..n /\ i \in Nat
        OBVIOUS
    <2>2. Numbered(a[i][Root], i)
        BY <2>1
    <2>3. a[i + 1] = [a[i] EXCEPT ![Root].columns = addColumn(@, p.name)]
        BY <1>1, <2>1 DEF AddRoot
    <2>4. a[i + 1][Root].there /\ a[i + 1][Root].columns = addColumn(columns, p.name)
        <3>1. a[i] \in SomeTables /\ a[i][Root] \in [there : BOOLEAN, columns : Columns]
            BY <1>1, <1>2, <2>1 DEF SomeTables
        <3>2. a[i + 1][Root] = [a[i][Root] EXCEPT !.columns = addColumn(@, p.name)]
            BY <1>2, <2>3, <3>1 DEF SomeTables
        <3>3. a[i][Root].there
            BY <2>2
        <3>. HIDE DEF p
        <3>. QED BY <3>1, <3>2, <3>3
    <2>. HIDE DEF columns
    <2>5. /\ DOMAIN columns = {props[j].name : j \in 1..i}
          /\ \A j \in 1..i : columns[props[j].name] = j
          /\ IsFiniteSet(DOMAIN columns) /\ Cardinality(DOMAIN columns) = i
        BY <2>2 DEF columns
    <2>6. p.name \notin DOMAIN columns
        BY <1>3, <2>1, <2>5
    <2>7. addColumn(columns, p.name) =
              [m \in DOMAIN columns \cup {p.name} |-> IF m = p.name THEN i + 1 ELSE columns[m]]
        BY <2>5 DEF addColumn
    <2>8. /\ IsFiniteSet(DOMAIN columns \cup {p.name})
          /\ Cardinality(DOMAIN columns \cup {p.name}) = i + 1
        BY <2>5, <2>6, FS_AddElement
    <2>9. DOMAIN columns \cup {p.name} = {props[j].name : j \in 1..(i + 1)}
        BY <2>1, <2>5
    <2>10. \A j \in 1..(i + 1) : addColumn(columns, p.name)[props[j].name] = j
        <3>. SUFFICES ASSUME NEW j \in 1..(i + 1)
                      PROVE  addColumn(columns, p.name)[props[j].name] = j
            OBVIOUS
        <3>1. CASE j = i + 1
            BY <2>7, <3>1
        <3>2. CASE j # i + 1
            <4>1. j \in 1..i /\ j \in 1..n
                BY <2>1, <3>2
            <4>2. props[j].name # p.name /\ props[j].name \in DOMAIN columns
                BY <1>3, <2>1, <2>5, <3>2, <4>1
            <4>. QED BY <2>5, <2>7, <4>1, <4>2
        <3>. QED BY <3>1, <3>2
    <2>11. DOMAIN addColumn(columns, p.name) = DOMAIN columns \cup {p.name}
        BY <2>7
    <2>. DEFINE new == addColumn(columns, p.name)
    <2>12. /\ DOMAIN new = {props[j].name : j \in 1..(i + 1)}
           /\ \A j \in 1..(i + 1) : new[props[j].name] = j
           /\ IsFiniteSet(DOMAIN new) /\ Cardinality(DOMAIN new) = i + 1
        BY <2>8, <2>9, <2>10, <2>11
    <2>13. a[i + 1][Root].there /\ a[i + 1][Root].columns = new
        BY <2>4
    <2>. HIDE DEF new
    <2>. QED BY <2>12, <2>13
<1>. HIDE DEF S, Numbered
<1>6. S = Nat
    BY <1>4, <1>5, EveryNumber DEF S
<1>7. Numbered(a[n][Root], n)
    BY <1>2, <1>6 DEF S
\* The others leave the table of the root alone.
<1>8. \A i \in 0..n : b[i] \in {a[n]}
    <2>. DEFINE V == {a[n]}
    <2>1. ASSUME NEW i \in 1..n, b[i - 1] \in V PROVE b[i] \in V
        <3>1. b[i] = [t \in Type |-> b[i - 1][t]]
            BY <1>1 DEF AddNested
        <3>2. b[i - 1] \in SomeTables
            BY <1>1
        <3>3. b[i] = b[i - 1]
            BY <3>1, <3>2 DEF SomeTables
        <3>. QED BY <2>1, <3>3
    <2>2. b[0] \in V
        BY <1>1
    <2>. HIDE DEF V, n
    <2>3. \A i \in 0..n : b[i] \in V
        BY <1>2, <2>1, <2>2, StepsKeep
    <2>. QED BY <2>3 DEF V
<1>9. Tables(props)[Root] = a[n][Root]
    BY <1>1, <1>2, <1>8
<1>. QED BY <1>7, <1>9 DEF Numbered

\* The type of a property has a table, unless it is the root, which always has one.
LEMMA TypesHaveTables ==
    ASSUME NEW props \in Seq(Property), NEW k \in 1..Len(props), props[k].type # Root
    PROVE  Tables(props)[props[k].type].there
<1>. DEFINE n == Len(props)
            t == props[k].type
<1>1. PICK b :
          /\ \A i \in 1..n : b[i] = AddNested(b[i - 1], props[i])
          /\ \A i \in 0..n : b[i] \in SomeTables
          /\ Tables(props) = b[n]
    BY TablesAre
<1>2. /\ t \in Type /\ Path[t] # <<>> /\ Path[t][Len(Path[t])] = t
      /\ Path[t] \in Seq(Type \ {Root})
    BY TypeAssumption, PropsAre
<1>3. \E j \in DOMAIN Path[t] : Path[t][j] = t
    BY <1>2
<1>. DEFINE S == {i \in Nat : k <= i /\ i <= n => b[i][t].there}
<1>4. 0 \in S
    OBVIOUS
<1>5. ASSUME NEW i \in S PROVE i + 1 \in S
    <2>. SUFFICES ASSUME k <= i + 1, i + 1 <= n PROVE b[i + 1][t].there
        OBVIOUS
    <2>1. i + 1 \in 1..n /\ (i + 1) - 1 = i
        OBVIOUS
    <2>2. b[i + 1] = AddNested(b[i], props[i + 1])
        BY <1>1, <2>1
    <2>3. NewTable.there /\ \A c : [NewTable EXCEPT !.columns = c].there
        BY DEF NewTable
    <2>4. b[i + 1][t].there \/ b[i + 1][t] = b[i][t]
        BY <1>2, <2>2, <2>3 DEF AddNested
    <2>5. CASE k <= i
        BY <2>1, <2>4, <2>5
    <2>6. CASE k = i + 1
        BY <1>2, <1>3, <2>2, <2>3, <2>6 DEF AddNested
    <2>. QED BY <2>5, <2>6
<1>. HIDE DEF S
<1>6. S = Nat
    BY <1>4, <1>5, EveryNumber DEF S
<1>. QED BY <1>1, <1>6 DEF S

\* If all properties are of one type below the root, the table of the type has
\* the column of the last, and that of the root none.
LEMMA NestedColumns ==
    ASSUME NEW props \in Seq(Property), props # <<>>, NEW t \in Type \ {Root},
           \A i \in 1..Len(props) : props[i].type = t
    PROVE  /\ Tables(props)[t].columns = addColumn(<<>>, props[Len(props)].name)
           /\ Tables(props)[Root].columns = <<>>
<1>. DEFINE n == Len(props)
<1>1. PICK a, b :
          /\ a[0] = [s \in Type |-> IF s = Root THEN NewTable ELSE NoTable]
          /\ \A i \in 1..n : a[i] = AddRoot(a[i - 1], props[i])
          /\ b[0] = a[n]
          /\ \A i \in 1..n : b[i] = AddNested(b[i - 1], props[i])
          /\ \A i \in 0..n : a[i] \in SomeTables /\ b[i] \in SomeTables
          /\ Tables(props) = b[n]
    BY TablesAre
<1>2. n \in Nat /\ n >= 1 /\ Root \in Type
    BY TypeAssumption
<1>3. /\ Path[t] # <<>> /\ Path[t][Len(Path[t])] = t
      /\ Path[t] \in Seq(Type \ {Root})
    BY TypeAssumption
<1>4. \E j \in DOMAIN Path[t] : Path[t][j] = t
    BY <1>3
<1>5. \A j \in DOMAIN Path[t] : Path[t][j] # Root
    BY <1>3
<1>6. a[n] = a[0]
    <2>. DEFINE V == {a[0]}
    <2>1. a[0] \in V /\ \A i \in 1..n : a[i - 1] \in V => a[i] \in V
        BY <1>1 DEF AddRoot
    <2>. HIDE DEF V, n
    <2>2. \A i \in 0..n : a[i] \in V
        BY <1>2, <2>1, StepsKeep
    <2>. QED BY <1>2, <2>2 DEF V
<1>7. Tables(props)[Root] = NewTable
    <2>. DEFINE V == {x \in SomeTables : x[Root] = NewTable}
    <2>1. b[0] \in V
        BY <1>1, <1>2, <1>6
    <2>2. ASSUME NEW i \in 1..n, b[i - 1] \in V PROVE b[i] \in V
        <3>1. b[i] \in SomeTables /\ b[i] = AddNested(b[i - 1], props[i])
            BY <1>1
        <3>2. b[i][Root] = b[i - 1][Root]
            BY <1>2, <1>5, <3>1 DEF AddNested
        <3>. QED BY <2>2, <3>1, <3>2
    <2>. HIDE DEF V, n
    <2>3. \A i \in 0..n : b[i] \in V
        BY <1>2, <2>1, <2>2, StepsKeep
    <2>. QED BY <1>1, <1>2, <2>3 DEF V
<1>8. Tables(props)[t] = [NewTable EXCEPT !.columns = addColumn(@, props[n].name)]
    <2>1. b[n] = AddNested(b[n - 1], props[n]) /\ props[n].type = t
        BY <1>1, <1>2
    <2>. QED BY <1>1, <1>4, <2>1 DEF AddNested
<1>. QED BY <1>7, <1>8 DEF NewTable

-----------------------------------------------------------------------------
(* What is shown                                                           *)

\* If columns have positions of their own, each of them shows its own field.
LEMMA OwnFieldsShow ==
    ASSUME NEW columns, NEW t, NEW fields, DOMAIN fields \subseteq Int,
           \A m \in DOMAIN columns : columns[m] # 0 /\ \E i \in DOMAIN fields : fields[i] = m,
           \A m, k \in DOMAIN columns : columns[m] = columns[k] => m = k,
           \A i, j \in DOMAIN fields : fields[i] = fields[j] => i = j
    PROVE  Shown(columns, t, fields) =
              {[type |-> t, name |-> m, from |-> m] : m \in DOMAIN columns}
<1>. DEFINE position(name) == IF name \in DOMAIN columns THEN columns[name] ELSE 0
            at(name) == {i \in DOMAIN fields : position(fields[i]) = columns[name]}
            last(name) == CHOOSE i \in at(name) : \A j \in at(name) : j <= i
<1>1. ASSUME NEW m \in DOMAIN columns PROVE fields[last(m)] = m
    <2>1. PICK i \in DOMAIN fields : fields[i] = m
        OBVIOUS
    <2>2. i \in at(m)
        BY <2>1
    <2>3. \A j \in at(m) : fields[j] = m
        OBVIOUS
    <2>4. \A j \in at(m) : j <= i
        <3>. SUFFICES ASSUME NEW j \in at(m) PROVE j <= i
            OBVIOUS
        <3>1. fields[j] = m /\ j \in DOMAIN fields
            BY <2>3
        <3>2. j = i /\ i \in Int
            BY <2>1, <3>1
        <3>. QED BY <3>2
    <2>. HIDE DEF at
    <2>5. last(m) \in at(m)
        BY <2>2, <2>4
    <2>. QED BY <2>3, <2>5
<1>2. Shown(columns, t, fields) =
          {[type |-> t, name |-> m, from |-> fields[last(m)]] : m \in DOMAIN columns}
    BY DEF Shown
<1>. HIDE DEF last
<1>. QED BY <1>1, <1>2

\* All properties are of one type.
Are(props, t) == \A i \in 1..Len(props) : props[i].type = t

LEMMA SelectedHave ==
    ASSUME NEW props \in Seq(Property), NEW t \in Selected(props)
    PROVE  t \in Type /\ \E i \in 1..Len(props) : props[i].type = t
BY FieldsOfNone DEF Selected

LEMMA CommaOfOthers ==
    ASSUME NEW props \in Seq(Property), NEW t
    PROVE  CommaTooMany(props, t) <=> ~Are(props, t)
BY PropsAre DEF CommaTooMany, Are

LEMMA NamesDiffer ==
    ASSUME NEW props \in Seq(Property), Distinct(props), NEW t, Are(props, t),
           NEW i \in 1..Len(props), NEW j \in 1..Len(props), props[i].name = props[j].name
    PROVE  i = j
<1>1. props[i] = [type |-> t, name |-> props[i].name]
    BY PropsAre DEF Are
<1>2. props[j] = [type |-> t, name |-> props[j].name]
    BY PropsAre DEF Are
<1>3. props[i] = props[j]
    BY <1>1, <1>2
<1>. QED BY <1>3, PropsAre DEF Distinct

\* Properties of one type, for what is read with a statement of its own.
LEMMA ShownOfOne ==
    ASSUME NEW props \in Seq(Property), Distinct(props), NEW t, Are(props, t),
           NEW columns, columns = Tables(props)[t].columns,
           DOMAIN columns \subseteq {props[i].name : i \in 1..Len(props)},
           \A m \in DOMAIN columns : columns[m] # 0,
           \A m, k \in DOMAIN columns : columns[m] = columns[k] => m = k
    PROVE  ShownOf(props, t) = {[type |-> t, name |-> m, from |-> m] : m \in DOMAIN columns}
<1>. DEFINE names == [i \in 1..Len(props) |-> props[i].name]
<1>1. ShownOf(props, t) = Shown(columns, t, names)
    BY FieldsOfAll, PropsAre DEF ShownOf, Are
<1>2. DOMAIN names \subseteq Int
    OBVIOUS
<1>3. \A i, j \in DOMAIN names : names[i] = names[j] => i = j
    BY NamesDiffer
<1>4. \A m \in DOMAIN columns : \E i \in DOMAIN names : names[i] = m
    OBVIOUS
<1>. HIDE DEF names
<1>. QED BY <1>1, <1>2, <1>3, <1>4, OwnFieldsShow

LEMMA RootIsSelected ==
    ASSUME NEW props \in Seq(Property), props # <<>>, Distinct(props), Are(props, Root)
    PROVE  Selected(props) = {Root}
<1>1. Selected(props) \subseteq {Root}
    BY SelectedHave DEF Are
<1>2. 1 \in 1..Len(props) /\ Root \in Type
    BY TypeAssumption
<1>3. Fields(props, Root) # <<>>
    BY <1>2, FieldsOfSome DEF Are
<1>4. Tables(props)[Root].there
    BY RootColumns DEF Are
<1>. QED BY <1>1, <1>2, <1>3, <1>4 DEF Selected

LEMMA ShownOfRoot ==
    ASSUME NEW props \in Seq(Property), Distinct(props), Are(props, Root)
    PROVE  /\ ShownOf(props, Root) = OwnColumns(props, DOMAIN props)
           /\ \A fields \in Seq(Name) :
                 /\ \A i, j \in DOMAIN fields : fields[i] = fields[j] => i = j
                 /\ \A m \in Name : \E i \in DOMAIN fields : fields[i] = m
                 => Shown(Tables(props)[Root].columns, Root, fields) =
                       OwnColumns(props, DOMAIN props)
<1>. DEFINE columns == Tables(props)[Root].columns
            Own1 == {[type |-> Root, name |-> m, from |-> m] : m \in DOMAIN columns}
<1>1. /\ DOMAIN columns = {props[i].name : i \in 1..Len(props)}
      /\ \A i \in 1..Len(props) : columns[props[i].name] = i
    BY RootColumns DEF Are
<1>. HIDE DEF columns
<1>2. ASSUME NEW m \in DOMAIN columns
      PROVE  columns[m] \in 1..Len(props) /\ columns[m] # 0 /\ props[columns[m]].name = m
    <2>1. PICK i \in 1..Len(props) : props[i].name = m
        BY <1>1
    <2>. QED BY <1>1, <2>1
<1>3. \A m, k \in DOMAIN columns : columns[m] = columns[k] => m = k
    BY <1>2
<1>4. Own1 = OwnColumns(props, DOMAIN props)
    <2>1. DOMAIN props = 1..Len(props)
        BY PropsAre
    <2>2. OwnColumns(props, DOMAIN props) =
              {[type |-> Root, name |-> props[i].name, from |-> props[i].name] : i \in 1..Len(props)}
        BY <2>1 DEF OwnColumns, Are
    <2>. QED BY <1>1, <2>2
<1>5. ShownOf(props, Root) = Own1
    BY <1>1, <1>2, <1>3, ShownOfOne DEF columns
<1>6. ASSUME NEW fields \in Seq(Name),
             \A i, j \in DOMAIN fields : fields[i] = fields[j] => i = j,
             \A m \in Name : \E i \in DOMAIN fields : fields[i] = m
      PROVE  Shown(columns, Root, fields) = Own1
    <2>1. DOMAIN fields \subseteq Int
        OBVIOUS
    <2>2. DOMAIN columns \subseteq Name
        BY <1>1, PropsAre
    <2>3. \A m \in DOMAIN columns : columns[m] # 0 /\ \E i \in DOMAIN fields : fields[i] = m
        BY <1>2, <1>6, <2>2
    <2>. QED BY <1>3, <1>6, <2>1, <2>3, OwnFieldsShow
<1>. HIDE DEF Own1
<1>. QED BY <1>4, <1>5, <1>6 DEF columns

\* A query for some properties that is answered is answered with each of them, from
\* its own column, and if they are all of the root it is answered; for any types,
\* columns and properties (addTable, Query2Sql, readRelational).
THEOREM AnswersAreWhole ==
    ASSUME NEW props \in Seq(Property), props # <<>>
    PROVE  ProjectionsAreWhole(props)
<1>. SUFFICES ASSUME Distinct(props)
              PROVE  /\ Reading(props).ends = "rows" =>
                            Reading(props).shown = OwnColumns(props, DOMAIN props)
                     /\ (\A i \in DOMAIN props : props[i].type = Root) =>
                            Reading(props).ends = "rows"
    BY DEF ProjectionsAreWhole
<1>1. ASSUME Are(props, Root)
      PROVE  /\ Reading(props).ends = "rows"
             /\ Reading(props).shown = OwnColumns(props, DOMAIN props)
    <2>1. Selected(props) = {Root}
        BY <1>1, RootIsSelected
    <2>2. ~CommaTooMany(props, Root)
        BY <1>1, CommaOfOthers
    <2>3. ShownOf(props, Root) = OwnColumns(props, DOMAIN props)
        BY <1>1, ShownOfRoot
    <2>4. Reading(props) = [ends |-> "rows", shown |-> OwnColumns(props, DOMAIN props)]
        BY <2>1, <2>2, <2>3 DEF Reading
    <2>. QED BY <2>4
<1>2. ASSUME Reading(props).ends = "rows" PROVE Are(props, Root)
    <2>1. Root \in Selected(props) /\ \A t \in Selected(props) : ~CommaTooMany(props, t)
        BY <1>2 DEF Reading
    <2>. QED BY <2>1, CommaOfOthers
<1>3. DOMAIN props = 1..Len(props)
    BY PropsAre
<1>. QED BY <1>1, <1>2, <1>3 DEF Are

\* Properties of one type below the root: the rows show the last of them.
LEMMA ShownOfNested ==
    ASSUME NEW props \in Seq(Property), props # <<>>, Distinct(props),
           NEW t \in Type \ {Root}, Are(props, t)
    PROVE  /\ Selected(props) \ {Root} = {t}
           /\ ShownOf(props, t) = OwnColumns(props, {Len(props)})
           /\ \A fields : Shown(Tables(props)[Root].columns, Root, fields) = {}
<1>. DEFINE n == Len(props)
            last == props[n].name
            columns == Tables(props)[t].columns
<1>1. n \in 1..n /\ n \in Nat
    OBVIOUS
<1>2. Selected(props) \ {Root} = {t}
    <2>1. Selected(props) \subseteq {t}
        BY SelectedHave DEF Are
    <2>2. Tables(props)[t].there /\ Fields(props, t) # <<>>
        BY <1>1, TypesHaveTables, FieldsOfSome DEF Are
    <2>. QED BY <2>1, <2>2 DEF Selected
<1>3. columns = addColumn(<<>>, last) /\ Tables(props)[Root].columns = <<>>
    BY NestedColumns DEF Are
<1>4. DOMAIN columns = {last} /\ columns[last] = 1
    <2>1. addColumn(<<>>, last) = [m \in {last} |-> 1]
        <3>1. DOMAIN <<>> = {} /\ Cardinality({}) = 0
            BY FS_EmptySet
        <3>. QED BY <3>1 DEF addColumn
    <2>. QED BY <1>3, <2>1
<1>. HIDE DEF columns
<1>5. ShownOf(props, t) = {[type |-> t, name |-> m, from |-> m] : m \in DOMAIN columns}
    <2>1. DOMAIN columns \subseteq {props[i].name : i \in 1..Len(props)}
        BY <1>1, <1>4
    <2>2. \A m, k \in DOMAIN columns : columns[m] # 0 /\ (columns[m] = columns[k] => m = k)
        BY <1>4
    <2>. QED BY <2>1, <2>2, ShownOfOne DEF columns
<1>6. ShownOf(props, t) = OwnColumns(props, {n})
    <2>1. props[n].type = t
        BY <1>1 DEF Are
    <2>2. OwnColumns(props, {n}) = {[type |-> t, name |-> last, from |-> last]}
        BY <2>1 DEF OwnColumns
    <2>. QED BY <1>4, <1>5, <2>2
<1>7. \A fields : Shown(<<>>, Root, fields) = {}
    BY DEF Shown
<1>. QED BY <1>2, <1>3, <1>6, <1>7

LEMMA OneTypeMeansAll ==
    ASSUME NEW props \in Seq(Property), Cardinality({props[i].type : i \in DOMAIN props}) = 1
    PROVE  \E t \in Type : Are(props, t)
<1>. DEFINE types == {props[i].type : i \in 1..Len(props)}
            f == [i \in 1..Len(props) |-> props[i].type]
<1>1. DOMAIN props = 1..Len(props) /\ Len(props) \in Nat
    BY PropsAre
<1>2. f \in Surjection(1..Len(props), types)
    BY DEF Surjection
<1>3. IsFiniteSet(1..Len(props))
    BY <1>1, FS_Interval
<1>. HIDE DEF f, types
<1>4. IsFiniteSet(types)
    BY <1>2, <1>3, FS_Surjection
<1>5. Cardinality(types) = 1
    BY <1>1 DEF types
<1>6. PICK t : types = {t}
    BY <1>4, <1>5, FS_Singleton
<1>7. \A i \in 1..Len(props) : props[i].type = t
    BY <1>6 DEF types
<1>8. t \in Type
    <2>1. PICK i \in 1..Len(props) : props[i].type = t
        BY <1>6 DEF types
    <2>. QED BY <2>1, PropsAre
<1>. QED BY <1>7, <1>8 DEF Are

\* What a page shows comes from its own column, and what it lacks is what is said
\* to be lost, whatever order the fields of the root are read in; for any types,
\* columns and properties (addTable, Statement.Row, readByRecKeys).
THEOREM PagesShowTheirColumns ==
    ASSUME NEW props \in Seq(Property), props # <<>>, NEW fields \in Seq(Name),
           \A i, j \in DOMAIN fields : fields[i] = fields[j] => i = j,
           \A m \in Name : \E i \in DOMAIN fields : fields[i] = m
    PROVE  PagesShowProjections(props, fields)
<1>. DEFINE n == Len(props)
            page == ReadingPage(props, fields)
            types == {props[i].type : i \in DOMAIN props}
            lost == {i \in DOMAIN props :
                        \/ \E k \in DOMAIN Path[props[i].type] :
                              Path[props[i].type][k] \notin types
                        \/ props[i].type # Root /\
                              \E j \in DOMAIN props : j > i /\ props[j].type = props[i].type}
            nested == Selected(props) \ {Root}
            reached == {t \in nested : \A k \in DOMAIN Path[t] : Path[t][k] \in nested}
            shown == Shown(Tables(props)[Root].columns, Root, fields) \cup
                     UNION {ShownOf(props, t) : t \in reached}
<1>. SUFFICES ASSUME Distinct(props)
              PROVE  /\ page.ends = "rows" =>
                            page.shown = OwnColumns(props, DOMAIN props \ lost)
                     /\ Cardinality(types) = 1 => page.ends = "rows"
    BY DEF PagesShowProjections
<1>1. page = IF \E t \in nested : CommaTooMany(props, t) THEN [ends |-> "error"]
             ELSE [ends |-> "rows", shown |-> shown]
    BY DEF ReadingPage
<1>2. DOMAIN props = 1..n /\ n \in 1..n /\ n \in Nat
    BY PropsAre
<1>. HIDE DEF page
<1>3. CASE Are(props, Root)
    <2>1. nested = {}
        BY <1>3, RootIsSelected
    <2>2. shown = OwnColumns(props, DOMAIN props)
        <3>1. Shown(Tables(props)[Root].columns, Root, fields) = OwnColumns(props, DOMAIN props)
            BY <1>3, ShownOfRoot
        <3>. QED BY <2>1, <3>1
    <2>3. lost = {}
        <3>1. DOMAIN Path[Root] = {}
            BY TypeAssumption
        <3>. QED BY <1>2, <1>3, <3>1 DEF Are
    <2>. HIDE DEF lost, shown, nested
    <2>4. page = [ends |-> "rows", shown |-> shown]
        BY <1>1, <2>1
    <2>5. DOMAIN props \ lost = DOMAIN props
        BY <2>3
    <2>. QED BY <2>2, <2>4, <2>5
<1>4. ASSUME NEW t \in Type \ {Root}, Are(props, t)
      PROVE  /\ page.ends = "rows"
             /\ page.shown = OwnColumns(props, DOMAIN props \ lost)
    <2>1. /\ nested = {t} /\ ShownOf(props, t) = OwnColumns(props, {n})
          /\ Shown(Tables(props)[Root].columns, Root, fields) = {}
        BY <1>4, ShownOfNested
    <2>2. types = {t}
        BY <1>2, <1>4 DEF Are
    <2>3. page = [ends |-> "rows", shown |-> shown]
        <3>1. ~CommaTooMany(props, t)
            BY <1>4, CommaOfOthers
        <3>. HIDE DEF shown
        <3>. QED BY <1>1, <2>1, <3>1
    <2>4. \A i \in 1..n : props[i].type = t
        BY <1>4 DEF Are
    <2>5. CASE \A k \in DOMAIN Path[t] : Path[t][k] = t
        <3>1. reached = {t}
            BY <2>1, <2>5
        <3>2. shown = OwnColumns(props, {n})
            BY <2>1, <3>1
        <3>3. lost = {i \in 1..n : \E j \in 1..n : j > i}
            BY <1>2, <2>2, <2>4, <2>5
        <3>4. DOMAIN props \ lost = {n}
            BY <1>2, <3>3
        <3>. HIDE DEF shown, lost
        <3>. QED BY <2>3, <3>2, <3>4
    <2>6. CASE ~ \A k \in DOMAIN Path[t] : Path[t][k] = t
        <3>1. reached = {}
            BY <2>1, <2>6
        <3>2. shown = {}
            BY <2>1, <3>1
        <3>3. DOMAIN props \ lost = {}
            BY <1>2, <2>2, <2>4, <2>6
        <3>4. OwnColumns(props, {}) = {}
            BY DEF OwnColumns
        <3>. HIDE DEF shown, lost
        <3>. QED BY <2>3, <3>2, <3>3, <3>4
    <2>. QED BY <2>5, <2>6
<1>5. ASSUME \A t \in Type : ~Are(props, t)
      PROVE  page.ends # "rows" /\ Cardinality(types) # 1
    <2>1. Cardinality(types) # 1
        BY <1>5, OneTypeMeansAll
    <2>2. PICK i \in 1..n : props[i].type # Root
        BY <1>5, TypeAssumption DEF Are
    <2>. DEFINE t == props[i].type
    <2>3. t \in Type /\ Tables(props)[t].there /\ Fields(props, t) # <<>>
        BY <2>2, PropsAre, TypesHaveTables, FieldsOfSome
    <2>4. t \in nested
        BY <2>2, <2>3 DEF Selected
    <2>5. CommaTooMany(props, t)
        BY <1>5, <2>3, CommaOfOthers
    <2>6. page = [ends |-> "error"]
        <3>. HIDE DEF nested, shown
        <3>. QED BY <1>1, <2>4, <2>5
    <2>. QED BY <2>1, <2>6
<1>. HIDE DEF types, lost
<1>6. CASE \E t \in Type : Are(props, t)
    <2>1. PICK t \in Type : Are(props, t)
        BY <1>6
    <2>. QED BY <1>3, <1>4, <2>1
<1>. QED BY <1>3, <1>5, <1>6

-----------------------------------------------------------------------------
(* The inputs that MCData chooses                                          *)

\* Groups, and a query for a page of them.
Aggregation(S, q, page, breaks) ==
    /\ S \in SUBSET Groups /\ page \in Nat /\ breaks \in BOOLEAN
    /\ q.limit \in Nat /\ q.rank \in [S -> 0..2]
    /\ q.having \in {{}} \cup {{exp} : exp \in Criteria(1, 2)}

\* An input is of the kind that its property is about.
Chosen ==
    /\ Is("criteria") => input.of \in MCCriteria
    /\ Is("aggregate") => Aggregation(input.of[1], input.of[2], input.of[3], input.of[4])
    /\ Is("twice") => input.of \in Pairs \X Pairs
    /\ Is("once") => input.of \in Objects
    /\ Is("index") => input.of \in Int32 \X Names \X Int32 \X Names
    /\ Is("page") => input.of \in (0..(Half - 1)) \X (1..(Half - 1)) \X (0..Half)
    /\ Is("projection") => input.of \in (Seq(Property) \ {<<>>}) \X SetToSeqs(Name)

LEMMA ChosenIsInvariant == Spec => []Chosen
<1>1. Init => Chosen
    BY DEF Init, Chosen, Is
<1>2. Chosen /\ [Next]_input => Chosen'
    <2>. SUFFICES ASSUME Chosen, [Next]_input PROVE Chosen'
        OBVIOUS
    <2>1. ASSUME NEW kind, NEW what, input' = [kind |-> kind, of |-> what]
          PROVE  \A k : Is(k)' => k = kind /\ input'.of = what
        BY <2>1 DEF Is
    <2>2. CASE WriteTwice
        <3>1. PICK before \in Pairs, after \in Pairs : Choose("twice", <<before, after>>)
            BY <2>2 DEF WriteTwice
        <3>2. \A k : Is(k)' => k = "twice" /\ input'.of = <<before, after>>
            BY <2>1, <3>1 DEF Choose
        <3>3. <<before, after>> \in Pairs \X Pairs
            BY <3>1
        <3>4. /\ ~Is("criteria")' /\ ~Is("aggregate")' /\ ~Is("once")'
              /\ ~Is("index")' /\ ~Is("page")' /\ ~Is("projection")'
            BY <3>2
        <3>5. Is("twice")' => (input.of \in Pairs \X Pairs)'
            BY <3>2, <3>3
        <3>. QED BY <3>4, <3>5 DEF Chosen
    <2>3. CASE WriteOnce
        <3>1. PICK o \in Objects : Choose("once", o)
            BY <2>3 DEF WriteOnce
        <3>2. \A k : Is(k)' => k = "once" /\ input'.of = o
            BY <2>1, <3>1 DEF Choose
        <3>3. o \in Objects
            BY <3>1
        <3>4. /\ ~Is("criteria")' /\ ~Is("aggregate")' /\ ~Is("twice")'
              /\ ~Is("index")' /\ ~Is("page")' /\ ~Is("projection")'
            BY <3>2
        <3>5. Is("once")' => (input.of \in Objects)'
            BY <3>2, <3>3
        <3>. QED BY <3>4, <3>5 DEF Chosen
    <2>4. CASE Index
        <3>1. PICK q1 \in Int32, q2 \in Int32, user1 \in Names, user2 \in Names :
                  Choose("index", <<q1, user1, q2, user2>>)
            BY <2>4 DEF Index
        <3>2. \A k : Is(k)' => k = "index" /\ input'.of = <<q1, user1, q2, user2>>
            BY <2>1, <3>1 DEF Choose
        <3>3. <<q1, user1, q2, user2>> \in Int32 \X Names \X Int32 \X Names
            BY <3>1
        <3>4. /\ ~Is("criteria")' /\ ~Is("aggregate")' /\ ~Is("twice")'
              /\ ~Is("once")' /\ ~Is("page")' /\ ~Is("projection")'
            BY <3>2
        <3>5. Is("index")' => (input.of \in Int32 \X Names \X Int32 \X Names)'
            BY <3>2, <3>3
        <3>. QED BY <3>4, <3>5 DEF Chosen
    <2>5. CASE Page
        <3>1. PICK page \in 0..(Half - 1), limit \in 1..(Half - 1), len \in 0..Half :
                  Choose("page", <<page, limit, len>>)
            BY <2>5 DEF Page
        <3>2. \A k : Is(k)' => k = "page" /\ input'.of = <<page, limit, len>>
            BY <2>1, <3>1 DEF Choose
        <3>3. <<page, limit, len>> \in (0..(Half - 1)) \X (1..(Half - 1)) \X (0..Half)
            BY <3>1
        <3>4. /\ ~Is("criteria")' /\ ~Is("aggregate")' /\ ~Is("twice")'
              /\ ~Is("once")' /\ ~Is("index")' /\ ~Is("projection")'
            BY <3>2
        <3>5. Is("page")' => (input.of \in (0..(Half - 1)) \X (1..(Half - 1)) \X (0..Half))'
            BY <3>2, <3>3
        <3>. QED BY <3>4, <3>5 DEF Chosen
    <2>6. CASE Project
        <3>1. PICK n \in 1..4 : \E props \in [1..n -> Property], fields \in SetToSeqs(Name) :
                  Choose("projection", <<props, fields>>)
            BY <2>6 DEF Project
        <3>2. PICK props \in [1..n -> Property], fields \in SetToSeqs(Name) :
                  Choose("projection", <<props, fields>>)
            BY <3>1
        <3>3. \A k : Is(k)' => k = "projection" /\ input'.of = <<props, fields>>
            BY <2>1, <3>2 DEF Choose
        <3>4. props \in Seq(Property) /\ props # <<>>
            OBVIOUS
        <3>5. <<props, fields>> \in (Seq(Property) \ {<<>>}) \X SetToSeqs(Name)
            BY <3>4
        <3>6. /\ ~Is("criteria")' /\ ~Is("aggregate")' /\ ~Is("twice")'
              /\ ~Is("once")' /\ ~Is("index")' /\ ~Is("page")'
            BY <3>3
        <3>7. Is("projection")' => (input.of \in (Seq(Property) \ {<<>>}) \X SetToSeqs(Name))'
            BY <3>3, <3>5
        <3>. QED BY <3>6, <3>7 DEF Chosen
    <2>7. CASE Criticise
        <3>1. PICK exp \in MCCriteria : Choose("criteria", exp)
            BY <2>7 DEF Criticise
        <3>2. \A k : Is(k)' => k = "criteria" /\ input'.of = exp
            BY <2>1, <3>1 DEF Choose
        <3>3. exp \in MCCriteria
            BY <3>1
        <3>4. /\ ~Is("aggregate")' /\ ~Is("twice")' /\ ~Is("once")'
              /\ ~Is("index")' /\ ~Is("page")' /\ ~Is("projection")'
            BY <3>2
        <3>5. Is("criteria")' => (input.of \in MCCriteria)'
            BY <3>2, <3>3 DEF MCCriteria
        <3>. QED BY <3>4, <3>5 DEF Chosen
    <2>8. CASE Aggregate
        <3>1. PICK S \in SUBSET Groups, limit \in 0..(Half - 1), page \in 0..(Half - 1), breaks \in BOOLEAN :
                \E rank \in [S -> 0..2], having \in {{}} \cup {{exp} : exp \in Criteria(1, 2)} :
                    Choose("aggregate",
                           <<S, [having |-> having, rank |-> rank, limit |-> limit], page, breaks>>)
            BY <2>8 DEF Aggregate
        <3>2. PICK rank \in [S -> 0..2], having \in {{}} \cup {{exp} : exp \in Criteria(1, 2)} :
                    Choose("aggregate",
                           <<S, [having |-> having, rank |-> rank, limit |-> limit], page, breaks>>)
            BY <3>1
        <3>. DEFINE q == [having |-> having, rank |-> rank, limit |-> limit]
        <3>3. \A k : Is(k)' => k = "aggregate" /\ input'.of = <<S, q, page, breaks>>
            BY <2>1, <3>2 DEF Choose
        <3>4. limit \in Nat /\ page \in Nat
            BY WidthAssumption
        <3>5. Aggregation(S, q, page, breaks)
            BY <3>4 DEF Aggregation
        <3>. HIDE DEF q
        <3>6. Is("aggregate")' => Aggregation(input.of[1], input.of[2], input.of[3], input.of[4])'
            BY <3>3, <3>5 DEF Aggregation
        <3>7. /\ ~Is("criteria")' /\ ~Is("twice")' /\ ~Is("once")'
              /\ ~Is("index")' /\ ~Is("page")' /\ ~Is("projection")'
            BY <3>3
        <3>. QED BY <3>6, <3>7 DEF Chosen
    <2>9. CASE UNCHANGED input
        BY <2>9 DEF Chosen, Is, Aggregation
    <2>. QED BY <2>2, <2>3, <2>4, <2>5, <2>6, <2>7, <2>8, <2>9 DEF Next
<1>. QED BY <1>1, <1>2, PTL DEF Spec

\* What is written last is read, of the objects that are written twice
\* (convertTo, convertFrom).
THEOREM LatestWritesAreRead == Spec => []LatestWriteIsRead
<1>1. Chosen => LatestWriteIsRead
    <2>. SUFFICES ASSUME Chosen, Is("twice")
                  PROVE  LatestIsRead(RootNode, input.of[1], input.of[2])
        BY DEF LatestWriteIsRead
    <2>1. input.of[2] \in Pairs
        BY DEF Chosen
    <2>2. IsObject(RootNode, input.of[2])
        BY <2>1, ObjectsAreTyped
    <2>. QED BY <2>2, WhatIsWrittenIsRead
<1>. QED BY <1>1, ChosenIsInvariant, PTL

\* Reading what is written fails only for the elements that are said to be out
\* of place (convertFrom).
THEOREM ReadsFailOnlyOnMisplaced == Spec => []ReadFailsOnlyOnMisplaced
<1>1. Chosen => ReadFailsOnlyOnMisplaced
    <2>. SUFFICES ASSUME Chosen, Is("once")
                  PROVE  OnlyMisplacedElementsFail(RootNode, input.of)
        BY DEF ReadFailsOnlyOnMisplaced
    <2>1. IsObject(RootNode, input.of)
        BY ObjectsAreTyped DEF Chosen
    <2>. QED BY <2>1, ReadsFailOnMisplaced
<1>. QED BY <1>1, ChosenIsInvariant, PTL

LEMMA NamesAreSequences == Names \subseteq Seq(Int)
<1>. SUFFICES ASSUME NEW n \in 0..2 PROVE [1..n -> Chars] \subseteq Seq(Int)
    BY DEF Names
<1>. QED BY DEF Chars

\* Requests of different queries or users share an entry of the paging index only
\* as explained (readWithIndex).
THEOREM SharedIndexIsExplained == Spec => []SharedIndexExplained
<1>1. Chosen => SharedIndexExplained
    <2>. SUFFICES ASSUME Chosen, Is("index") PROVE
            SharedEntriesExplained(input.of[1], input.of[2], input.of[3], input.of[4])
        BY DEF SharedIndexExplained
    <2>1. /\ input.of[1] \in Int32 /\ input.of[2] \in Seq(Int)
          /\ input.of[3] \in Int32 /\ input.of[4] \in Seq(Int)
        BY NamesAreSequences DEF Chosen
    <2>. QED BY <2>1, SharedIndexKeys
<1>. QED BY <1>1, ChosenIsInvariant, PTL

\* No record of a list is on two of its pages, or on none (pageKeys).
THEOREM PagesAlwaysTile == Spec => []PagesTile
<1>1. Chosen => PagesTile
    <2>. SUFFICES ASSUME Chosen, Is("page")
                  PROVE  PagesTileTheIndex(input.of[1], input.of[2], input.of[3])
        BY DEF PagesTile
    <2>1. input.of[1] \in Nat /\ input.of[2] \in Nat \ {0} /\ input.of[3] \in Nat
        BY WidthAssumption DEF Chosen
    <2>. QED BY <2>1, PagesTileLists
<1>. QED BY <1>1, ChosenIsInvariant, PTL

\* An answer to a query for some properties has each of them, from its own column
\* (addTable, Query2Sql, Statement.Row, readRelational, readByRecKeys).
THEOREM ProjectionsAlwaysWhole == Spec => []ProjectionsWhole
<1>1. Chosen => ProjectionsWhole
    <2>. SUFFICES ASSUME Chosen, Is("projection")
                  PROVE  /\ ProjectionsAreWhole(input.of[1])
                         /\ PagesShowProjections(input.of[1], input.of[2])
        BY DEF ProjectionsWhole
    <2>1. /\ input.of[1] \in Seq(Property) /\ input.of[1] # <<>>
          /\ input.of[2] \in SetToSeqs(Name)
        BY DEF Chosen
    <2>2. /\ input.of[2] \in Seq(Name)
          /\ \A i, j \in DOMAIN input.of[2] : input.of[2][i] = input.of[2][j] => i = j
          /\ \A m \in Name : \E i \in DOMAIN input.of[2] : input.of[2][i] = m
        BY <2>1, TypeAssumption, SequencesOfAll
    <2>. QED BY <2>1, <2>2, AnswersAreWhole, PagesShowTheirColumns
<1>. QED BY <1>1, ChosenIsInvariant, PTL

\* What is enumerated as criteria is criteria.
LEMMA ChainsAreFunctions ==
    ASSUME NEW S, NEW n \in Nat, NEW chain \in Chain(S, n)
    PROVE  \E k \in 1..n : chain.items \in [1..k -> S] /\ chain.ops \in [1..(k - 1) -> Op]
BY DEF Chain

LEMMA ChainsAreConditions ==
    ASSUME NEW n \in Nat, NEW cond \in Chain(Own \cup Other, n)
    PROVE  IsCondition(cond)
<1>. DEFINE C == Own \cup Other
<1>1. PICK k \in 1..n : cond.items \in [1..k -> C] /\ cond.ops \in [1..(k - 1) -> Op]
    BY ChainsAreFunctions
<1>. HIDE DEF C
<1>2. cond.items \in Seq(C) /\ Len(cond.items) = k
    BY <1>1
<1>3. cond.items # <<>>
    BY <1>2
<1>. QED BY <1>1, <1>2, <1>3 DEF IsCondition, C

LEMMA CriteriaAreCriteria ==
    ASSUME NEW m \in Nat, NEW n \in Nat, NEW exp \in Criteria(m, n)
    PROVE  IsCriteria(exp)
<1>. DEFINE C == Chain(Own \cup Other, n)
<1>1. PICK k \in 1..m : exp.items \in [1..k -> C] /\ exp.ops \in [1..(k - 1) -> Op]
    BY ChainsAreFunctions DEF Criteria
<1>2. \A cond \in C : IsCondition(cond)
    BY ChainsAreConditions
<1>. HIDE DEF C
<1>3. Len(exp.items) = k /\ DOMAIN exp.items = 1..k
    BY <1>1
<1>. QED BY <1>1, <1>2, <1>3 DEF IsCriteria

\* A clause that is not refused selects what the criteria say, as far as it can
\* (expression, condition, comparator).
THEOREM CriteriaAlwaysSelect == Spec => []CriteriaSelect
<1>1. Chosen => CriteriaSelect
    <2>. SUFFICES ASSUME Chosen, Is("criteria")
                  PROVE  OwnCriteriaAreExact(input.of) /\ DroppedOperandsWiden(input.of)
        BY DEF CriteriaSelect
    <2>1. input.of \in Criteria(2, 3) \cup Criteria(3, 2)
        BY DEF Chosen, MCCriteria
    <2>2. IsCriteria(input.of)
        BY <2>1, CriteriaAreCriteria
    <2>. QED BY <2>2, OwnCriteriaSelectExactly, DroppedOperandsOnlyWiden
<1>. QED BY <1>1, ChosenIsInvariant, PTL

\* A group is on the page of its place and on no other (query2AggregateSql,
\* scanAggregateRows).
THEOREM GroupsAlwaysPaged == Spec => []GroupsPaged
<1>1. Chosen => GroupsPaged
    <2>. SUFFICES ASSUME NEW S, NEW q, NEW page, NEW breaks, Aggregation(S, q, page, breaks)
                  PROVE  GroupsAreOnTheirPage(S, q, page, breaks)
        BY DEF GroupsPaged, Chosen
    <2>1. S \in SUBSET Row
        BY GroupsAreRows DEF Aggregation
    <2>2. IsFiniteSet(S)
        <3>. DEFINE G(x) == [c \in {o1, o2, x1} |-> c # x]
        <3>1. Groups = (({} \cup {G(o1)}) \cup {G(o2)}) \cup {G(x1)}
            BY DEF Groups
        <3>. HIDE DEF G
        <3>2. IsFiniteSet({} \cup {G(o1)})
            BY FS_EmptySet, FS_AddElement
        <3>3. IsFiniteSet(({} \cup {G(o1)}) \cup {G(o2)})
            BY <3>2, FS_AddElement
        <3>4. IsFiniteSet(Groups)
            BY <3>1, <3>3, FS_AddElement
        <3>. QED BY <3>4, FS_Subset DEF Aggregation
    <2>3. \A exp, other \in q.having : exp = other
        BY DEF Aggregation
    <2>4. \A exp \in q.having : IsCriteria(exp)
        BY CriteriaAreCriteria DEF Aggregation
    <2>5. \A g \in S : q.rank[g] \in Nat
        BY DEF Aggregation
    <2>6. q.limit \in Nat /\ page \in Nat /\ breaks \in BOOLEAN
        BY DEF Aggregation
    <2>. QED BY <2>1, <2>2, <2>3, <2>4, <2>5, <2>6, GroupsStayOnTheirPage
<1>. QED BY <1>1, ChosenIsInvariant, PTL
=============================================================================
