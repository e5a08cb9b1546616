---------------------------- MODULE QueryProofs ----------------------------
(***************************************************************************)
(* For any comparators, and conditions and criteria of any length: what    *)
(* the clause that is made of them selects, and when it is not refused.    *)
(* For any groups, ranks, limits and pages: that a group is on the page of *)
(* its place, and on no other.                                             *)
(*                                                                         *)
(* A clause is written from its end and read from its beginning.  So it is *)
(* shown of each place of a chain, from the last on, what is read of all   *)
(* that is written from that place: what it does to the level it is read   *)
(* at, whatever the level.                                                 *)
(***************************************************************************)
EXTENDS Aggregates, WellFoundedInduction, FiniteSetTheorems, SequenceTheorems, TLAPS

-----------------------------------------------------------------------------
(* Numbers and lists                                                       *)

\* Induction over numbers: a set that has 0 and every next number has them all,
\* or there would be a smallest number it lacks.
LEMMA EveryNumber ==
    ASSUME NEW S \in SUBSET Nat, 0 \in S, \A n \in S : n + 1 \in S
    PROVE  S = Nat
<1>. SUFFICES ASSUME Nat \ S # {} PROVE FALSE
    OBVIOUS
<1>1. PICK n \in Nat \ S : \A m \in Nat \ S : <<m, n>> \notin OpToRel(<, Nat)
    BY NatLessThanWellFounded, WFMin
<1>2. \A m \in Nat \ S : ~(m < n)
    BY <1>1 DEF OpToRel
<1>3. n # 0 /\ n - 1 \in Nat /\ n - 1 < n
    OBVIOUS
<1>4. n - 1 \in S
    BY <1>2, <1>3
<1>5. (n - 1) + 1 = n
    OBVIOUS
<1>. QED BY <1>4, <1>5

\* What is where when two sequences are joined.
LEMMA PartsOfConcat ==
    ASSUME NEW S, NEW p \in Seq(S), NEW q \in Seq(S)
    PROVE  /\ p \o q \in Seq(S) /\ Len(p \o q) = Len(p) + Len(q)
           /\ \A i \in 1..Len(p) : (p \o q)[i] = p[i]
           /\ \A i \in 1..Len(q) : (p \o q)[Len(p) + i] = q[i]
<1>1. Len(p) \in Nat /\ Len(q) \in Nat
    OBVIOUS
<1>2. \A i \in 1..Len(q) : /\ Len(p) + i \in 1..(Len(p) + Len(q)) /\ ~(Len(p) + i <= Len(p))
                           /\ (Len(p) + i) - Len(p) = i
    BY <1>1
<1>. QED BY <1>1, <1>2, ConcatProperties

\* The same of three sequences.
LEMMA PartsOfTwoConcats ==
    ASSUME NEW S, NEW p \in Seq(S), NEW w \in Seq(S), NEW q \in Seq(S)
    PROVE  /\ p \o (w \o q) \in Seq(S) /\ Len(p \o (w \o q)) = Len(p) + Len(w) + Len(q)
           /\ \A i \in 1..Len(p) : (p \o (w \o q))[i] = p[i]
           /\ \A i \in 1..Len(w) : (p \o (w \o q))[Len(p) + i] = w[i]
           /\ \A i \in 1..Len(q) : (p \o (w \o q))[Len(p) + Len(w) + i] = q[i]
<1>1. /\ w \o q \in Seq(S) /\ Len(w \o q) = Len(w) + Len(q)
      /\ \A i \in 1..Len(w) : (w \o q)[i] = w[i]
      /\ \A i \in 1..Len(q) : (w \o q)[Len(w) + i] = q[i]
    BY PartsOfConcat
<1>2. ASSUME NEW s \in Seq(S)
      PROVE  /\ p \o s \in Seq(S) /\ Len(p \o s) = Len(p) + Len(s)
             /\ \A i \in 1..Len(p) : (p \o s)[i] = p[i]
             /\ \A i \in 1..Len(s) : (p \o s)[Len(p) + i] = s[i]
    BY PartsOfConcat
<1>3. Len(p) \in Nat /\ Len(w) \in Nat /\ Len(q) \in Nat
    OBVIOUS
<1>. SUFFICES ASSUME NEW s \in Seq(S), NEW r \in Seq(S), Len(s) = Len(w) + Len(q), Len(r) = Len(p) + Len(s),
                     \A i \in 1..Len(w) : s[i] = w[i], \A i \in 1..Len(q) : s[Len(w) + i] = q[i],
                     \A i \in 1..Len(p) : r[i] = p[i], \A i \in 1..Len(s) : r[Len(p) + i] = s[i]
              PROVE  /\ Len(r) = Len(p) + Len(w) + Len(q)
                     /\ \A i \in 1..Len(w) : r[Len(p) + i] = w[i]
                     /\ \A i \in 1..Len(q) : r[Len(p) + Len(w) + i] = q[i]
    BY <1>1, <1>2, Zenon
<1>4. ASSUME NEW i \in 1..Len(w) PROVE r[Len(p) + i] = w[i]
    <2>1. i \in 1..Len(s)
        BY <1>3
    <2>. QED BY <2>1
<1>5. ASSUME NEW i \in 1..Len(q) PROVE r[Len(p) + Len(w) + i] = q[i]
    <2>1. Len(w) + i \in 1..Len(s) /\ Len(p) + (Len(w) + i) = Len(p) + Len(w) + i
        BY <1>3
    <2>. QED BY <2>1
<1>. QED BY <1>3, <1>4, <1>5

\* Two sequences with one element between them.
LEMMA JoinedByElement ==
    ASSUME NEW S, NEW p \in Seq(S), NEW q \in Seq(S), NEW e \in S
    PROVE  /\ p \o (<<e>> \o q) \in Seq(S) /\ Len(p \o (<<e>> \o q)) = Len(p) + 1 + Len(q)
           /\ \A i \in 1..Len(p) : (p \o (<<e>> \o q))[i] = p[i]
           /\ (p \o (<<e>> \o q))[Len(p) + 1] = e
           /\ \A i \in 1..Len(q) : (p \o (<<e>> \o q))[Len(p) + 1 + i] = q[i]
<1>1. ASSUME NEW w \in Seq(S), Len(w) = 1
      PROVE  /\ p \o (w \o q) \in Seq(S) /\ Len(p \o (w \o q)) = Len(p) + 1 + Len(q)
             /\ \A i \in 1..Len(p) : (p \o (w \o q))[i] = p[i]
             /\ (p \o (w \o q))[Len(p) + 1] = w[1]
             /\ \A i \in 1..Len(q) : (p \o (w \o q))[Len(p) + 1 + i] = q[i]
    <2>1. \A v \in Seq(S) :
            /\ p \o (v \o q) \in Seq(S) /\ Len(p \o (v \o q)) = Len(p) + Len(v) + Len(q)
            /\ \A i \in 1..Len(p) : (p \o (v \o q))[i] = p[i]
            /\ \A i \in 1..Len(v) : (p \o (v \o q))[Len(p) + i] = v[i]
            /\ \A i \in 1..Len(q) : (p \o (v \o q))[Len(p) + Len(v) + i] = q[i]
        BY ONLY PartsOfTwoConcats, p \in Seq(S), q \in Seq(S)
    <2>2. /\ p \o (w \o q) \in Seq(S) /\ Len(p \o (w \o q)) = Len(p) + Len(w) + Len(q)
          /\ \A i \in 1..Len(p) : (p \o (w \o q))[i] = p[i]
          /\ \A i \in 1..Len(w) : (p \o (w \o q))[Len(p) + i] = w[i]
          /\ \A i \in 1..Len(q) : (p \o (w \o q))[Len(p) + Len(w) + i] = q[i]
        BY <2>1, Zenon
    <2>3. 1 \in 1..Len(w)
        BY <1>1
    <2>. QED BY <1>1, <2>2, <2>3, Zenon
<1>2. <<e>> \in Seq(S) /\ Len(<<e>>) = 1 /\ <<e>>[1] = e
    OBVIOUS
<1>. QED BY <1>1, <1>2

\* Such a function: it begins with v, and goes on as next says.
Iterates(h, n, v, next) ==
    h = [i \in 0..n |-> IF i = 0 THEN v ELSE next[i][h[i - 1]]]

LEMMA IteratesExist ==
    ASSUME NEW V, NEW v \in V, NEW next \in [Nat -> [V -> V]], NEW n \in Nat
    PROVE  \E h \in [0..n -> V] : Iterates(h, n, v, next)
<1>. DEFINE Ok(h, m) == /\ h \in [0..m -> V] /\ h[0] = v
                        /\ \A i \in 1..m : h[i] = next[i][h[i - 1]]
            S == {m \in Nat : \E h : Ok(h, m)}
<1>1. 0 \in S
    <2>1. Ok([i \in 0..0 |-> v], 0)
        OBVIOUS
    <2>. HIDE DEF Ok
    <2>. QED BY <2>1
<1>2. ASSUME NEW m \in S PROVE m + 1 \in S
    <2>1. PICK h : Ok(h, m)
        OBVIOUS
    <2>. DEFINE w == next[m + 1][h[m]]
                g == [i \in 0..(m + 1) |-> IF i = m + 1 THEN w ELSE h[i]]
    <2>2. h[m] \in V /\ w \in V
        BY <2>1
    <2>. HIDE DEF w
    <2>3. g \in [0..(m + 1) -> V] /\ g[0] = v
        BY <2>1, <2>2
    <2>4. \A i \in 0..m : g[i] = h[i]
        OBVIOUS
    <2>5. g[m + 1] = w
        OBVIOUS
    <2>. HIDE DEF g
    <2>6. ASSUME NEW i \in 1..(m + 1) PROVE g[i] = next[i][g[i - 1]]
        <3>1. CASE i = m + 1
            BY <2>4, <2>5, <3>1 DEF w
        <3>2. CASE i # m + 1
            BY <2>1, <2>4, <3>2
        <3>. QED BY <3>1, <3>2
    <2>7. Ok(g, m + 1)
        BY <2>3, <2>6
    <2>. HIDE DEF Ok
    <2>. QED BY <2>7
<1>. HIDE DEF S
<1>3. S = Nat
    BY <1>1, <1>2, EveryNumber DEF S
<1>4. PICK h : Ok(h, n)
    BY <1>3 DEF S
<1>5. \A i \in 0..n : h[i] = IF i = 0 THEN v ELSE next[i][h[i - 1]]
    BY <1>4
<1>6. h = [i \in 0..n |-> h[i]]
    BY <1>4
<1>7. h = [i \in 0..n |-> IF i = 0 THEN v ELSE next[i][h[i - 1]]]
    BY <1>5, <1>6
<1>. QED BY <1>4, <1>7 DEF Iterates

\* What each step keeps, holds on every one.
LEMMA StepsKeep ==
    ASSUME NEW V, NEW n \in Nat, NEW h, h[0] \in V,
           \A i \in 1..n : h[i - 1] \in V => h[i] \in V
    PROVE  \A i \in 0..n : h[i] \in V
<1>. DEFINE S == {i \in Nat : i <= n => h[i] \in V}
<1>1. 0 \in S
    OBVIOUS
<1>2. ASSUME NEW i \in S PROVE i + 1 \in S
    <2>. SUFFICES ASSUME i + 1 <= n PROVE h[i + 1] \in V
        OBVIOUS
    <2>1. i + 1 \in 1..n /\ (i + 1) - 1 = i /\ h[i] \in V
        OBVIOUS
    <2>. QED BY <2>1
<1>. HIDE DEF S
<1>3. S = Nat
    BY <1>1, <1>2, EveryNumber DEF S
<1>. QED BY <1>3 DEF S

\* What holds of the last place of a list, and of each place before a place of
\* which it holds, holds of all.
LEMMA FromTheLast ==
    ASSUME NEW n \in Nat \ {0}, NEW S, n \in S,
           \A i \in 1..(n - 1) : i + 1 \in S => i \in S
    PROVE  1..n \subseteq S
<1>. DEFINE T == {k \in Nat : k < n => n - k \in S}
<1>1. 0 \in T
    OBVIOUS
<1>2. ASSUME NEW k \in T PROVE k + 1 \in T
    <2>1. CASE k + 1 < n
        <3>1. n - (k + 1) \in 1..(n - 1) /\ (n - (k + 1)) + 1 = n - k
            BY <2>1
        <3>2. n - k \in S
            BY <2>1
        <3>3. n - (k + 1) \in S
            BY <3>1, <3>2
        <3>. QED BY <3>3
    <2>2. CASE ~(k + 1 < n)
        BY <2>2
    <2>. QED BY <2>1, <2>2
<1>3. T = Nat
    <2>1. T \in SUBSET Nat
        OBVIOUS
    <2>. HIDE DEF T
    <2>. QED BY <1>1, <1>2, <2>1, EveryNumber
<1>. SUFFICES ASSUME NEW i \in 1..n PROVE i \in S
    OBVIOUS
<1>4. n - i \in T /\ n - i < n /\ n - (n - i) = i
    <2>1. n - i \in Nat /\ n - i < n /\ n - (n - i) = i
        OBVIOUS
    <2>. HIDE DEF T
    <2>. QED BY <1>3, <2>1
<1>5. n - (n - i) \in S
    BY <1>4
<1>. QED BY <1>4, <1>5

\* A function that begins with the last place, from what follows it.
Follows(g, n, v, next) ==
    g = [i \in 1..n |-> next[i][IF i < n THEN g[i + 1] ELSE v]]

LEMMA FollowingExist ==
    ASSUME NEW V, NEW v \in V, NEW n \in Nat, NEW next \in [Nat -> [V -> V]]
    PROVE  \E g \in [1..n -> V] : Follows(g, n, v, next)
<1>. DEFINE step == [k \in Nat |-> IF k \in 1..n THEN next[n + 1 - k] ELSE next[0]]
<1>1. step \in [Nat -> [V -> V]]
    <2>1. \A k \in Nat : k \in 1..n => n + 1 - k \in Nat
        OBVIOUS
    <2>. QED BY <2>1
<1>2. PICK h \in [0..n -> V] : Iterates(h, n, v, step)
    <2>. HIDE DEF step
    <2>. QED BY <1>1, IteratesExist
<1>3. \A k \in 0..n : h[k] = IF k = 0 THEN v ELSE step[k][h[k - 1]]
    <2>. HIDE DEF step
    <2>. QED BY <1>2 DEF Iterates
<1>. DEFINE g == [i \in 1..n |-> h[n + 1 - i]]
<1>4. g \in [1..n -> V]
    OBVIOUS
<1>5. ASSUME NEW i \in 1..n PROVE g[i] = next[i][IF i < n THEN g[i + 1] ELSE v]
    <2>1. n + 1 - i \in 1..n /\ n + 1 - (n + 1 - i) = i /\ n + 1 - i \in Nat /\ (n + 1 - i) - 1 = n - i
        OBVIOUS
    <2>2. step[n + 1 - i] = next[i]
        BY <2>1
    <2>3. g[i] = next[i][h[n - i]]
        <3>. HIDE DEF step
        <3>1. h[n + 1 - i] = step[n + 1 - i][h[(n + 1 - i) - 1]]
            BY <1>3, <2>1
        <3>. QED BY <2>1, <2>2, <3>1
    <2>4. h[n - i] = IF i < n THEN g[i + 1] ELSE v
        <3>1. CASE i < n
            <4>1. i + 1 \in 1..n /\ n + 1 - (i + 1) = n - i
                BY <3>1
            <4>. QED BY <3>1, <4>1
        <3>2. CASE ~(i < n)
            <4>1. n - i = 0 /\ 0 \in 0..n
                BY <3>2
            <4>. HIDE DEF step
            <4>. QED BY <1>3, <3>2, <4>1
        <3>. QED BY <3>1, <3>2
    <2>. QED BY <2>3, <2>4
<1>. HIDE DEF step
<1>6. Follows(g, n, v, next)
    <2>. DEFINE r == [i \in 1..n |-> next[i][IF i < n THEN g[i + 1] ELSE v]]
    <2>1. \A i \in 1..n : g[i] = r[i]
        BY <1>5
    <2>2. g = r
        <3>1. DOMAIN g = 1..n /\ DOMAIN r = 1..n
            OBVIOUS
        <3>2. g = [i \in 1..n |-> g[i]] /\ r = [i \in 1..n |-> r[i]]
            OBVIOUS
        <3>. QED BY <2>1, <3>2
    <2>. HIDE DEF g
    <2>. QED BY <2>2 DEF Follows
<1>. HIDE DEF g
<1>. QED BY <1>4, <1>6

\* A sequence of all members of a finite set, each at one place.
LEMMA SequencesOfAll ==
    ASSUME NEW S, IsFiniteSet(S), NEW s \in SetToSeqs(S)
    PROVE  /\ s \in Seq(S)
           /\ \A i, j \in DOMAIN s : s[i] = s[j] => i = j
           /\ \A x \in S : \E i \in DOMAIN s : s[i] = x
<1>. DEFINE n == Cardinality(S)
<1>1. n \in Nat
    BY FS_CardinalityType
<1>2. s \in [1..n -> S] /\ \A i, j \in 1..n : i # j => s[i] # s[j]
    BY DEF SetToSeqs
<1>3. s \in Injection(1..n, S)
    BY <1>2 DEF Injection, IsInjective
<1>4. Cardinality(1..n) = n
    <2>. HIDE DEF n
    <2>. QED BY <1>1, FS_Interval
<1>5. s \in Surjection(1..n, S)
    BY <1>3, <1>4, FS_Injection
<1>6. \A x \in S : \E i \in 1..n : s[i] = x
    BY <1>5 DEF Surjection
<1>7. s \in Seq(S) /\ DOMAIN s = 1..n
    <2>. HIDE DEF n
    <2>. QED BY <1>1, <1>2
<1>. QED BY <1>2, <1>6, <1>7

\* The page of a position.
LEMMA PageOf ==
    ASSUME NEW i \in Nat, NEW page \in Nat, NEW limit \in Nat, limit > 0
    PROVE  i \div limit = page <=> page * limit <= i /\ i < page * limit + limit
<1>1. ASSUME i \div limit = page PROVE page * limit <= i /\ i < page * limit + limit
    BY <1>1, SMTT(30)
<1>2. ASSUME page * limit <= i, i < page * limit + limit PROVE i \div limit = page
    BY <1>2, SMTT(30)
<1>. QED BY <1>1, <1>2

-----------------------------------------------------------------------------
(* Reading a clause                                                        *)

\* The levels of open parentheses while a clause is read.
Frame == [or : SUBSET Row, and : SUBSET Row]
Level(or, and) == [or |-> or, and |-> and]
Holds(c) == {row \in Row : row[c]}

\* A clause, or a part of one, that is read from one list of levels to another.
ReadSteps(h, before, p) ==
    /\ DOMAIN h = 0..Len(p)
    /\ h[0] = before
    /\ \A i \in 1..Len(p) : h[i] = Taken(h[i - 1], p[i])
ReadTo(before, p, after) == \E h : ReadSteps(h, before, p) /\ h[Len(p)] = after

\* Reading nothing, one symbol, and two parts.
LEMMA ReadNothing == \A before : ReadTo(before, <<>>, before)
<1>. SUFFICES ASSUME NEW before PROVE ReadTo(before, <<>>, before)
    OBVIOUS
<1>. DEFINE h == [i \in 0..0 |-> before]
<1>1. Len(<<>>) = 0
    OBVIOUS
<1>2. ReadSteps(h, before, <<>>) /\ h[Len(<<>>)] = before
    BY <1>1 DEF ReadSteps
<1>. QED BY <1>2 DEF ReadTo

LEMMA ReadSymbol == \A before, x : ReadTo(before, <<x>>, Taken(before, x))
<1>. SUFFICES ASSUME NEW before, NEW x PROVE ReadTo(before, <<x>>, Taken(before, x))
    OBVIOUS
<1>. DEFINE h == [i \in 0..1 |-> IF i = 0 THEN before ELSE Taken(before, x)]
<1>1. Len(<<x>>) = 1 /\ <<x>>[1] = x
    OBVIOUS
<1>2. DOMAIN h = 0..1 /\ h[0] = before /\ h[1] = Taken(before, x)
    OBVIOUS
<1>. HIDE DEF h
<1>3. \A i \in 1..1 : i = 1 /\ i - 1 = 0
    OBVIOUS
<1>4. ReadSteps(h, before, <<x>>) /\ h[Len(<<x>>)] = Taken(before, x)
    BY <1>1, <1>2, <1>3 DEF ReadSteps
<1>. QED BY <1>4 DEF ReadTo

LEMMA ReadBoth ==
    ASSUME NEW S, NEW p \in Seq(S), NEW q \in Seq(S), NEW before, NEW between, NEW after,
           ReadTo(before, p, between), ReadTo(between, q, after)
    PROVE  ReadTo(before, p \o q, after)
<1>1. PICK f : ReadSteps(f, before, p) /\ f[Len(p)] = between
    BY DEF ReadTo
<1>2. PICK g : ReadSteps(g, between, q) /\ g[Len(q)] = after
    BY DEF ReadTo
<1>. DEFINE m == Len(p)
            n == Len(q)
            h == [i \in 0..(m + n) |-> IF i <= m THEN f[i] ELSE g[i - m]]
<1>3. m \in Nat /\ n \in Nat /\ Len(p \o q) = m + n
    OBVIOUS
<1>4. /\ \A i \in 1..m : (p \o q)[i] = p[i]
      /\ \A i \in 1..(m + n) : i > m => (p \o q)[i] = q[i - m]
    OBVIOUS
<1>5. /\ f[0] = before /\ \A i \in 1..m : f[i] = Taken(f[i - 1], p[i])
      /\ g[0] = between /\ \A i \in 1..n : g[i] = Taken(g[i - 1], q[i])
      /\ f[m] = between /\ g[n] = after
    BY <1>1, <1>2 DEF ReadSteps
<1>. HIDE DEF m, n
<1>6. DOMAIN h = 0..(m + n) /\ h[0] = before
    BY <1>3, <1>5
<1>7. ASSUME NEW i \in 1..(m + n) PROVE h[i] = Taken(h[i - 1], (p \o q)[i])
    <2>1. CASE i <= m
        <3>1. i \in 1..m /\ i - 1 \in 0..(m + n) /\ i - 1 <= m /\ i \in 0..(m + n)
            BY <1>3, <2>1
        <3>. QED BY <1>4, <1>5, <2>1, <3>1
    <2>2. CASE i = m + 1
        <3>1. /\ i - m = 1 /\ i - 1 = m /\ 1 \in 1..n /\ 1 - 1 = 0 /\ m <= m /\ ~(i <= m) /\ i > m
              /\ m \in 0..(m + n) /\ i \in 0..(m + n)
            BY <1>3, <2>2
        <3>2. h[i - 1] = between /\ h[i] = g[1] /\ (p \o q)[i] = q[1]
            BY <1>4, <1>5, <3>1
        <3>3. g[1] = Taken(between, q[1])
            BY <1>5, <3>1
        <3>. QED BY <3>2, <3>3
    <2>3. CASE i > m + 1
        <3>1. /\ i - m \in 1..n /\ (i - m) - 1 = (i - 1) - m /\ ~(i <= m) /\ ~(i - 1 <= m) /\ i > m
              /\ i - 1 \in 0..(m + n) /\ i \in 0..(m + n)
            BY <1>3, <2>3
        <3>2. h[i] = g[i - m] /\ h[i - 1] = g[(i - m) - 1] /\ (p \o q)[i] = q[i - m]
            BY <1>4, <3>1
        <3>. QED BY <1>5, <3>1, <3>2
    <2>. QED BY <1>3, <2>1, <2>2, <2>3
<1>8. h[m + n] = after
    <2>1. CASE n = 0
        BY <1>3, <1>5, <2>1
    <2>2. CASE n # 0
        BY <1>3, <1>5, <2>2
    <2>. QED BY <2>1, <2>2
<1>. HIDE DEF h
<1>9. ReadSteps(h, before, p \o q) /\ h[Len(p \o q)] = after
    BY <1>3, <1>6, <1>7, <1>8 DEF ReadSteps
<1>. QED BY <1>9 DEF ReadTo

\* A clause has one reading.
LEMMA OneReading ==
    ASSUME NEW n \in Nat, NEW f, NEW g, NEW p, f[0] = g[0],
           \A i \in 1..n : f[i] = Taken(f[i - 1], p[i]),
           \A i \in 1..n : g[i] = Taken(g[i - 1], p[i])
    PROVE  f[n] = g[n]
<1>. DEFINE S == {i \in Nat : i <= n => f[i] = g[i]}
<1>1. 0 \in S
    OBVIOUS
<1>2. ASSUME NEW i \in S PROVE i + 1 \in S
    <2>1. CASE i + 1 <= n
        <3>1. i + 1 \in 1..n /\ (i + 1) - 1 = i /\ i <= n
            BY <2>1
        <3>2. f[i] = g[i]
            BY <3>1
        <3>3. f[i + 1] = Taken(f[i], p[i + 1]) /\ g[i + 1] = Taken(g[i], p[i + 1])
            BY <3>1
        <3>. QED BY <3>2, <3>3
    <2>2. CASE ~(i + 1 <= n)
        BY <2>2
    <2>. QED BY <2>1, <2>2
<1>3. S = Nat
    <2>1. S \in SUBSET Nat
        OBVIOUS
    <2>. HIDE DEF S
    <2>. QED BY <1>1, <1>2, <2>1, EveryNumber
<1>. QED BY <1>3

LEMMA SelectsIs ==
    ASSUME NEW S, NEW clause \in Seq(S), NEW level, ReadTo(<<Fresh>>, clause, <<level>>)
    PROVE  Selects(clause) = Both(level)
<1>. DEFINE n == Len(clause)
            Levels(h) == h = [i \in 0..n |-> IF i = 0 THEN <<Fresh>> ELSE Taken(h[i - 1], clause[i])]
            levels == CHOOSE h : Levels(h)
<1>1. PICK h : ReadSteps(h, <<Fresh>>, clause) /\ h[n] = <<level>>
    BY DEF ReadTo
<1>2. DOMAIN h = 0..n /\ h[0] = <<Fresh>> /\ \A i \in 1..n : h[i] = Taken(h[i - 1], clause[i])
    BY <1>1 DEF ReadSteps
<1>3. n \in Nat
    OBVIOUS
<1>4. Selects(clause) = Both(levels[n][1])
    BY DEF Selects
<1>. HIDE DEF n
<1>. DEFINE g == [i \in 0..n |-> h[i]]
<1>5. Levels(g)
    <2>1. /\ \A i \in 0..n : g[i] = h[i]
          /\ \A i \in 1..n : i - 1 \in 0..n /\ i # 0 /\ i \in 0..n
          /\ \A i \in 0..n : i = 0 \/ i \in 1..n
        BY <1>3
    <2>2. \A i \in 0..n : h[i] = IF i = 0 THEN <<Fresh>> ELSE Taken(g[i - 1], clause[i])
        BY <1>2, <1>3, <2>1
    <2>. QED BY <2>2
<1>6. Levels(levels)
    <2>. HIDE DEF Levels, g
    <2>. QED BY <1>5
<1>. HIDE DEF levels
<1>7. levels[0] = <<Fresh>> /\ \A i \in 1..n : levels[i] = Taken(levels[i - 1], clause[i])
    BY <1>3, <1>6
<1>8. levels[n] = h[n]
    <2>1. levels[0] = h[0]
        BY <1>2, <1>7
    <2>2. \A i \in 1..n : levels[i] = Taken(levels[i - 1], clause[i])
        BY <1>7
    <2>3. \A i \in 1..n : h[i] = Taken(h[i - 1], clause[i])
        BY <1>2
    <2>. HIDE DEF g, Levels
    <2>. QED BY <1>3, <2>1, <2>2, <2>3, OneReading
<1>9. levels[n][1] = level
    BY <1>1, <1>8
<1>. QED BY <1>4, <1>9

LEMMA EndReplaced ==
    ASSUME NEW S, NEW s \in Seq(S), NEW last \in S, NEW new \in S
    PROVE  [Append(s, last) EXCEPT ![Len(Append(s, last))] = new] = Append(s, new)
<1>. DEFINE n == Len(s) + 1
            t == Append(s, last)
            u == Append(s, new)
            r == [t EXCEPT ![n] = new]
<1>1. /\ n \in Nat \ {0} /\ Len(t) = n /\ t \in Seq(S) /\ Len(u) = n /\ u \in Seq(S) /\ u[n] = new
      /\ \A i \in 1..n : i # n => t[i] = u[i]
    OBVIOUS
<1>. HIDE DEF n, t, u
<1>2. DOMAIN t = 1..n
    BY <1>1
<1>3. r \in Seq(S) /\ Len(r) = n
    BY <1>1, <1>2
<1>4. \A i \in 1..n : r[i] = u[i]
    BY <1>1, <1>2
<1>. HIDE DEF r
<1>5. r = u
    BY <1>1, <1>3, <1>4, SeqEqual
<1>. QED BY <1>1, <1>5 DEF r, t, u

\* What a symbol makes of the levels.
LEMMA TakenIs ==
    ASSUME NEW outer \in Seq(Frame), NEW level \in Frame
    PROVE  /\ \A c \in Own : Taken(Append(outer, level), c) =
                                 Append(outer, Level(level.or, level.and \cap Holds(c)))
           /\ Taken(Append(outer, level), "and") = Append(outer, level)
           /\ Taken(Append(outer, level), "or") = Append(outer, Level(Both(level), Row))
           /\ Taken(Append(outer, level), "(") = Append(Append(outer, level), Fresh)
           /\ \A inner \in Frame : Taken(Append(Append(outer, level), inner), ")") =
                                 Append(outer, Level(level.or, level.and \cap Both(inner)))
<1>. DEFINE s == Append(outer, level)
            n == Len(s)
<1>1. s \in Seq(Frame) /\ n = Len(outer) + 1 /\ s[n] = level /\ n \in Nat \ {0} /\ DOMAIN s = 1..n
    OBVIOUS
<1>2. ASSUME NEW new \in Frame PROVE [s EXCEPT ![n] = new] = Append(outer, new)
    BY EndReplaced
<1>8. ASSUME NEW S \in SUBSET Row
      PROVE  /\ [level EXCEPT !.and = @ \cap S] = Level(level.or, level.and \cap S)
             /\ Level(level.or, level.and \cap S) \in Frame
    <2>1. level = Level(level.or, level.and) /\ level.or \in SUBSET Row /\ level.and \in SUBSET Row
        BY DEF Frame, Level
    <2>. DEFINE new == [level EXCEPT !.and = @ \cap S]
    <2>2. new \in Frame /\ new.or = level.or /\ new.and = level.and \cap S
        BY <2>1 DEF Frame
    <2>. HIDE DEF new
    <2>5. new = Level(new.or, new.and)
        BY <2>2 DEF Frame, Level
    <2>3. new = Level(level.or, level.and \cap S)
        BY <2>2, <2>5
    <2>4. Level(level.or, level.and \cap S) \in Frame
        BY <2>1 DEF Level, Frame
    <2>. QED BY <2>3, <2>4 DEF new
<1>9. Both(level) \in SUBSET Row
    BY DEF Both, Frame
<1>10. Level(Both(level), Row) \in Frame
    BY <1>9 DEF Level, Frame
<1>3. ASSUME NEW c \in Own PROVE Taken(s, c) = Append(outer, Level(level.or, level.and \cap Holds(c)))
    <2>1. c # "and" /\ c # "or" /\ c # "(" /\ c # ")"
        BY ComparatorAssumption
    <2>2. Taken(s, c) = [s EXCEPT ![n].and = @ \cap {row \in Row : row[c]}]
        BY <2>1 DEF Taken
    <2>3. Taken(s, c) = [s EXCEPT ![n] = [level EXCEPT !.and = @ \cap Holds(c)]]
        BY <1>1, <2>2 DEF Holds
    <2>4. [level EXCEPT !.and = @ \cap Holds(c)] = Level(level.or, level.and \cap Holds(c))
        BY <1>8 DEF Holds
    <2>5. Level(level.or, level.and \cap Holds(c)) \in Frame
        BY <1>8 DEF Holds
    <2>. QED BY <1>2, <2>3, <2>4, <2>5
<1>4. Taken(s, "and") = s
    BY DEF Taken
<1>5. Taken(s, "or") = Append(outer, Level(Both(level), Row))
    <2>1. Taken(s, "or") = [s EXCEPT ![n] = [or |-> Both(@), and |-> Row]]
        BY DEF Taken
    <2>2. Taken(s, "or") = [s EXCEPT ![n] = Level(Both(level), Row)]
        BY <1>1, <2>1 DEF Level
    <2>. QED BY <1>2, <1>10, <2>2
<1>6. Taken(s, "(") = Append(s, Fresh)
    BY DEF Taken
<1>7. ASSUME NEW inner \in Frame
      PROVE  Taken(Append(s, inner), ")") = Append(outer, Level(level.or, level.and \cap Both(inner)))
    <2>. DEFINE t == Append(s, inner)
    <2>1. /\ Len(t) = n + 1 /\ t[Len(t)] = inner /\ (n + 1) - 1 = n /\ SubSeq(t, 1, n) = s
        <3>. HIDE DEF n
        <3>1. s \in Seq(Frame) /\ Len(s) = n /\ n \in Nat
            BY <1>1 DEF n
        <3>. HIDE DEF s
        <3>2. Len(t) = n + 1 /\ t[Len(t)] = inner /\ (n + 1) - 1 = n /\ t \in Seq(Frame)
            BY <3>1
        <3>3. \A i \in 1..n : t[i] = s[i]
            BY <3>1
        <3>4. SubSeq(t, 1, n) \in Seq(Frame) /\ Len(SubSeq(t, 1, n)) = n /\ \A i \in 1..n : SubSeq(t, 1, n)[i] = s[i]
            BY <3>1, <3>2, <3>3
        <3>5. SubSeq(t, 1, n) = s
            BY <3>1, <3>4
        <3>. QED BY <3>2, <3>5
    <2>2. Taken(t, ")") = [SubSeq(t, 1, Len(t) - 1) EXCEPT ![Len(t) - 1].and = @ \cap Both(t[Len(t)])]
        BY DEF Taken
    <2>3. Taken(t, ")") = [s EXCEPT ![n].and = @ \cap Both(inner)]
        BY <2>1, <2>2
    <2>4. Taken(t, ")") = [s EXCEPT ![n] = [level EXCEPT !.and = @ \cap Both(inner)]]
        BY <1>1, <2>3
    <2>6. Both(inner) \in SUBSET Row
        BY DEF Both, Frame
    <2>5. [level EXCEPT !.and = @ \cap Both(inner)] = Level(level.or, level.and \cap Both(inner))
        BY <1>8, <2>6
    <2>7. Level(level.or, level.and \cap Both(inner)) \in Frame
        BY <1>8, <2>6
    <2>. QED BY <1>2, <2>4, <2>5, <2>7
<1>. QED BY <1>3, <1>4, <1>5, <1>6, <1>7

-----------------------------------------------------------------------------
(* Writing a clause                                                        *)

\* Conditions and criteria of any length.
IsCondition(cond) ==
    /\ cond.items \in Seq(Own \cup Other) /\ cond.items # <<>>
    /\ cond.ops \in [1..(Len(cond.items) - 1) -> Op]
IsCriteria(exp) ==
    /\ Len(exp.items) \in Nat \ {0} /\ DOMAIN exp.items = 1..Len(exp.items)
    /\ \A i \in 1..Len(exp.items) : IsCondition(exp.items[i])
    /\ exp.ops \in [1..(Len(exp.items) - 1) -> Op]

Symbol == Own \cup Op \cup {"(", ")"}
Joined(p, op, q) == p \o IF q = <<>> THEN <<>> ELSE <<op>> \o q
Enclosed(p, enclosed) == IF enclosed /\ p # <<>> THEN <<"(">> \o p \o <<")">> ELSE p

LEMMA PartsAreClauses ==
    /\ \A c : comparator(c) \in Seq(Symbol)
    /\ \A p, q \in Seq(Symbol), op \in Op : Joined(p, op, q) \in Seq(Symbol)
    /\ \A p \in Seq(Symbol), enclosed \in BOOLEAN : Enclosed(p, enclosed) \in Seq(Symbol)
<1>1. \A c : comparator(c) \in Seq(Symbol)
    <2>1. \A c \in Own : c \in Symbol
        BY DEF Symbol
    <2>. SUFFICES ASSUME NEW c PROVE comparator(c) \in Seq(Symbol)
        OBVIOUS
    <2>2. <<>> \in Seq(Symbol)
        OBVIOUS
    <2>3. ASSUME c \in Own PROVE <<c>> \in Seq(Symbol)
        <3>1. c \in Symbol
            BY <2>1, <2>3
        <3>. HIDE DEF Symbol
        <3>. QED BY <3>1
    <2>. QED BY <2>2, <2>3 DEF comparator
<1>2. ASSUME NEW p \in Seq(Symbol), NEW q \in Seq(Symbol), NEW op \in Op
      PROVE  Joined(p, op, q) \in Seq(Symbol)
    <2>1. <<op>> \in Seq(Symbol)
        BY DEF Symbol
    <2>2. <<op>> \o q \in Seq(Symbol)
        BY <2>1
    <2>3. p \o (<<op>> \o q) \in Seq(Symbol) /\ p \o <<>> \in Seq(Symbol)
        BY <2>2
    <2>. QED BY <2>3 DEF Joined
<1>3. ASSUME NEW p \in Seq(Symbol), NEW enclosed \in BOOLEAN PROVE Enclosed(p, enclosed) \in Seq(Symbol)
    <2>1. <<"(">> \in Seq(Symbol) /\ <<")">> \in Seq(Symbol)
        BY DEF Symbol
    <2>2. <<"(">> \o p \in Seq(Symbol)
        BY <2>1
    <2>3. (<<"(">> \o p) \o <<")">> \in Seq(Symbol)
        BY <2>1, <2>2
    <2>. QED BY <2>3 DEF Enclosed
<1>. QED BY <1>1, <1>2, <1>3

\* What is written of a chain from a place on.
IsChain(parts, n, ops) ==
    /\ Len(parts) = n
    /\ \A i \in 1..n : parts[i] \in Seq(Symbol)
    /\ ops \in [1..(n - 1) -> Op]

IsWritten(g, parts, n, ops, enclosed) ==
    /\ g \in [1..n -> Seq(Symbol)]
    /\ Chained(parts, ops, enclosed) = g[1]
    /\ g[n] = Enclosed(parts[n], enclosed)
    /\ \A i \in 1..(n - 1) : g[i] = Enclosed(Joined(parts[i], ops[i], g[i + 1]), enclosed)

LEMMA ChainIs ==
    ASSUME NEW parts, NEW n \in Nat \ {0}, NEW ops, IsChain(parts, n, ops),
           NEW enclosed \in BOOLEAN
    PROVE  \E g : IsWritten(g, parts, n, ops, enclosed)
<1>. DEFINE V == Seq(Symbol)
            op == [i \in Nat |-> IF i \in 1..(n - 1) THEN ops[i] ELSE "and"]
            part == [i \in Nat |-> IF i \in 1..n THEN parts[i] ELSE <<>>]
            next == [i \in Nat |-> [v \in V |-> Enclosed(Joined(part[i], op[i], v), enclosed)]]
            Body(f, i) == LET rest == IF i < n THEN f[i + 1] ELSE <<>>
                              both == parts[i] \o IF rest = <<>> THEN <<>> ELSE <<ops[i]>> \o rest
                          IN  IF enclosed /\ both # <<>> THEN <<"(">> \o both \o <<")">> ELSE both
            From(f) == f = [i \in 1..n |-> Body(f, i)]
            from == CHOOSE f : From(f)
<1>. USE DEF IsChain
<1>1. Chained(parts, ops, enclosed) = from[1]
    BY DEF Chained
<1>2. ASSUME NEW i \in Nat PROVE part[i] \in V /\ op[i] \in Op
    <2>1. <<>> \in V
        OBVIOUS
    <2>. QED BY <2>1 DEF Op
<1>3. \A i \in 1..n : part[i] = parts[i]
    OBVIOUS
<1>4. \A i \in 1..(n - 1) : op[i] = ops[i]
    OBVIOUS
<1>. HIDE DEF op, part
<1>5. next \in [Nat -> [V -> V]] /\ <<>> \in V
    <2>1. ASSUME NEW i \in Nat, NEW v \in V PROVE Enclosed(Joined(part[i], op[i], v), enclosed) \in V
        <3>1. Joined(part[i], op[i], v) \in V
            BY <1>2, PartsAreClauses
        <3>. QED BY <3>1, PartsAreClauses
    <2>2. <<>> \in V
        OBVIOUS
    <2>. HIDE DEF V
    <2>. QED BY <2>1, <2>2
<1>6. PICK g \in [1..n -> V] : Follows(g, n, <<>>, next)
    <2>. HIDE DEF next, V
    <2>. QED BY <1>5, FollowingExist
<1>7. ASSUME NEW f, NEW i \in 1..n
      PROVE  /\ i < n => Body(f, i) = Enclosed(Joined(parts[i], ops[i], f[i + 1]), enclosed)
             /\ ~(i < n) => Body(f, i) = Enclosed(parts[i], enclosed)
    <2>1. CASE i < n
        BY <2>1 DEF Joined, Enclosed
    <2>2. CASE ~(i < n)
        <3>1. parts[i] \o <<>> = parts[i]
            OBVIOUS
        <3>2. Body(f, i) = Enclosed(parts[i] \o <<>>, enclosed)
            BY <2>2 DEF Enclosed
        <3>. HIDE DEF Body
        <3>. QED BY <2>2, <3>1, <3>2
    <2>. QED BY <2>1, <2>2
<1>8. ASSUME NEW i \in 1..n PROVE g[i] = Body(g, i)
    <2>. DEFINE rest == IF i < n THEN g[i + 1] ELSE <<>>
    <2>1. g[i] = next[i][rest] /\ rest \in V /\ i \in Nat
        <3>. HIDE DEF next, V
        <3>. QED BY <1>5, <1>6 DEF Follows
    <2>. HIDE DEF rest
    <2>2. g[i] = Enclosed(Joined(part[i], op[i], rest), enclosed)
        <3>. HIDE DEF V
        <3>. QED BY <2>1
    <2>3. CASE i < n
        <3>1. i \in 1..(n - 1) /\ rest = g[i + 1]
            BY <2>3 DEF rest
        <3>2. part[i] = parts[i] /\ op[i] = ops[i]
            BY <1>3, <1>4, <3>1
        <3>3. Body(g, i) = Enclosed(Joined(parts[i], ops[i], g[i + 1]), enclosed)
            BY <1>7, <2>3
        <3>. QED BY <2>2, <3>1, <3>2, <3>3
    <2>4. CASE ~(i < n)
        <3>1. parts[i] \o <<>> = parts[i]
            OBVIOUS
        <3>2. Joined(part[i], op[i], rest) = parts[i]
            BY <1>3, <2>4, <3>1 DEF Joined, rest
        <3>. QED BY <1>7, <2>2, <2>4, <3>2
    <2>. QED BY <2>3, <2>4
<1>. HIDE DEF Body, next
<1>9. From(g)
    BY <1>8
<1>10. From(from)
    <2>. HIDE DEF From
    <2>. QED BY <1>9
<1>. HIDE DEF from
<1>11. \A i \in 1..n : from[i] = Body(from, i)
    BY <1>10
<1>12. from[n] = Enclosed(parts[n], enclosed)
    BY <1>7, <1>11
<1>13. ASSUME NEW i \in 1..(n - 1)
       PROVE  from[i] = Enclosed(Joined(parts[i], ops[i], from[i + 1]), enclosed)
    <2>1. i \in 1..n /\ i < n
        OBVIOUS
    <2>. QED BY <1>7, <1>11, <2>1
<1>14. \A i \in 1..n : from[i] \in V
    <2>. DEFINE S == {i \in 1..n : from[i] \in V}
    <2>1. n \in S
        BY <1>12, PartsAreClauses
    <2>2. ASSUME NEW i \in 1..(n - 1), i + 1 \in S PROVE i \in S
        <3>1. i \in 1..n /\ ops[i] \in Op /\ parts[i] \in V /\ from[i + 1] \in V
            BY <2>2
        <3>2. Joined(parts[i], ops[i], from[i + 1]) \in V
            BY <3>1, PartsAreClauses
        <3>3. from[i] \in V
            BY <1>13, <3>2, PartsAreClauses
        <3>. QED BY <3>1, <3>3
    <2>. HIDE DEF S
    <2>3. 1..n \subseteq S
        BY <2>1, <2>2, FromTheLast
    <2>. QED BY <2>3 DEF S
<1>15. from \in [1..n -> V]
    <2>1. from = [i \in 1..n |-> Body(from, i)]
        BY <1>10
    <2>. HIDE DEF V
    <2>. QED BY <1>11, <1>14, <2>1
<1>. QED BY <1>1, <1>12, <1>13, <1>15 DEF IsWritten

LEMMA ChainsAreClauses ==
    ASSUME NEW parts, NEW n \in Nat \ {0}, NEW ops, IsChain(parts, n, ops), NEW enclosed \in BOOLEAN
    PROVE  Chained(parts, ops, enclosed) \in Seq(Symbol)
<1>1. PICK g : IsWritten(g, parts, n, ops, enclosed)
    BY ChainIs, Zenon
<1>2. 1 \in 1..n
    OBVIOUS
<1>. QED BY <1>1, <1>2 DEF IsWritten

LEMMA EnclosedIsNotEmpty == \A p \in Seq(Symbol) : <<"(">> \o p \o <<")">> # <<>>
<1>. SUFFICES ASSUME NEW p \in Seq(Symbol) PROVE Len(<<"(">> \o p \o <<")">>) # 0
    OBVIOUS
<1>1. <<"(">> \in Seq(Symbol) /\ <<")">> \in Seq(Symbol)
    BY DEF Symbol
<1>2. Len((<<"(">> \o p) \o <<")">>) = (1 + Len(p)) + 1
    BY <1>1
<1>. QED BY <1>2

LEMMA JoinedIsEmpty ==
    ASSUME NEW p \in Seq(Symbol), NEW q \in Seq(Symbol), NEW op \in Op
    PROVE  /\ Joined(p, op, q) \in Seq(Symbol)
           /\ Joined(p, op, q) = <<>> => p = <<>> /\ q = <<>>
<1>1. Joined(p, op, q) \in Seq(Symbol)
    BY PartsAreClauses
<1>2. CASE q = <<>>
    BY <1>1, <1>2 DEF Joined
<1>3. CASE q # <<>>
    <2>1. <<op>> \in Seq(Symbol)
        BY DEF Symbol
    <2>2. <<op>> \o q \in Seq(Symbol) /\ Len(<<op>> \o q) = 1 + Len(q)
        BY <2>1
    <2>3. Len(p \o (<<op>> \o q)) = Len(p) + (1 + Len(q))
        BY <2>2
    <2>4. Len(Joined(p, op, q)) # 0
        BY <1>3, <2>3 DEF Joined
    <2>. QED BY <1>1, <2>4
<1>. QED BY <1>1, <1>2, <1>3

-----------------------------------------------------------------------------
(* Chains joined by AND                                                    *)

\* A part that narrows the level it is read at to the rows of K.
Narrows(p, K) == \A outer \in Seq(Frame), level \in Frame :
    ReadTo(Append(outer, level), p, Append(outer, Level(level.or, level.and \cap K)))

LEMMA FramesOfLevels ==
    /\ \A level \in Frame :
          /\ level.or \in SUBSET Row /\ level.and \in SUBSET Row /\ Both(level) \in SUBSET Row
          /\ Level(level.or, level.and) = level
    /\ \A or, and \in SUBSET Row :
          /\ Level(or, and) \in Frame /\ Level(or, and).or = or /\ Level(or, and).and = and
          /\ Both(Level(or, and)) = or \cup and
    /\ Fresh = Level({}, Row) /\ Fresh \in Frame
    /\ \A c : Holds(c) \in SUBSET Row
<1>1. \A level \in Frame :
          /\ level.or \in SUBSET Row /\ level.and \in SUBSET Row /\ Both(level) \in SUBSET Row
          /\ Level(level.or, level.and) = level
    BY DEF Frame, Level, Both
<1>2. \A or, and \in SUBSET Row :
          /\ Level(or, and) \in Frame /\ Level(or, and).or = or /\ Level(or, and).and = and
          /\ Both(Level(or, and)) = or \cup and
    BY DEF Frame, Level, Both
<1>3. Fresh = Level({}, Row) /\ Fresh \in Frame
    BY DEF Fresh, Level, Frame
<1>. QED BY <1>1, <1>2, <1>3 DEF Holds

LEMMA ReadNothingOnly == \A before, after : ReadTo(before, <<>>, after) => after = before
<1>. SUFFICES ASSUME NEW before, NEW after, ReadTo(before, <<>>, after) PROVE after = before
    OBVIOUS
<1>1. PICK h : ReadSteps(h, before, <<>>) /\ h[Len(<<>>)] = after
    BY DEF ReadTo
<1>2. Len(<<>>) = 0
    OBVIOUS
<1>. QED BY <1>1, <1>2 DEF ReadSteps

\* What is read of a part and what an operator joins to it, and of an enclosed part.
LEMMA ReadJoined ==
    ASSUME NEW p \in Seq(Symbol), NEW q \in Seq(Symbol), NEW before, NEW between, NEW after,
           NEW op \in Op, ReadTo(before, p, between), ReadTo(Taken(between, op), q, after),
           q = <<>> => Taken(between, op) = between
    PROVE  ReadTo(before, Joined(p, op, q), after)
<1>1. CASE q = <<>>
    <2>1. after = between
        BY <1>1, ReadNothingOnly
    <2>2. Joined(p, op, q) = p
        BY <1>1 DEF Joined
    <2>. QED BY <2>1, <2>2
<1>2. CASE q # <<>>
    <2>1. <<op>> \in Seq(Symbol)
        BY DEF Symbol
    <2>2. ReadTo(between, <<op>>, Taken(between, op))
        BY ReadSymbol
    <2>3. ReadTo(between, <<op>> \o q, after)
        BY <2>1, <2>2, ReadBoth
    <2>4. <<op>> \o q \in Seq(Symbol)
        BY <2>1
    <2>5. ReadTo(before, p \o (<<op>> \o q), after)
        BY <2>3, <2>4, ReadBoth
    <2>. QED BY <1>2, <2>5 DEF Joined
<1>. QED BY <1>1, <1>2

LEMMA ReadEnclosed ==
    ASSUME NEW p \in Seq(Symbol), p # <<>>, NEW outer \in Seq(Frame), NEW level \in Frame,
           NEW inner \in Frame,
           ReadTo(Append(Append(outer, level), Fresh), p, Append(Append(outer, level), inner))
    PROVE  ReadTo(Append(outer, level), Enclosed(p, TRUE),
                  Append(outer, Level(level.or, level.and \cap Both(inner))))
<1>. DEFINE open == Append(outer, level)
            closed == Append(outer, Level(level.or, level.and \cap Both(inner)))
<1>1. <<"(">> \in Seq(Symbol) /\ <<")">> \in Seq(Symbol)
    BY DEF Symbol
<1>2. Taken(open, "(") = Append(open, Fresh) /\ Taken(Append(open, inner), ")") = closed
    BY TakenIs
<1>. HIDE DEF open, closed
<1>3. ReadTo(open, <<"(">>, Append(open, Fresh)) /\ ReadTo(Append(open, inner), <<")">>, closed)
    BY <1>2, ReadSymbol
<1>4. ReadTo(open, <<"(">> \o p, Append(open, inner))
    BY <1>1, <1>3, ReadBoth DEF open
<1>5. <<"(">> \o p \in Seq(Symbol)
    BY <1>1
<1>6. ReadTo(open, (<<"(">> \o p) \o <<")">>, closed)
    BY <1>1, <1>3, <1>4, <1>5, ReadBoth
<1>. QED BY <1>6 DEF Enclosed, open, closed

LEMMA NarrowsJoined ==
    ASSUME NEW p \in Seq(Symbol), NEW q \in Seq(Symbol), NEW K \in SUBSET Row, NEW L \in SUBSET Row,
           Narrows(p, K), Narrows(q, L)
    PROVE  Narrows(Joined(p, "and", q), K \cap L)
<1>. SUFFICES ASSUME NEW outer \in Seq(Frame), NEW level \in Frame
              PROVE  ReadTo(Append(outer, level), Joined(p, "and", q),
                            Append(outer, Level(level.or, level.and \cap (K \cap L))))
    BY DEF Narrows
<1>. DEFINE next == Level(level.or, level.and \cap K)
<1>1. next \in Frame /\ next.or = level.or /\ next.and = level.and \cap K
    <2>1. level.or \in SUBSET Row /\ level.and \cap K \in SUBSET Row
        BY FramesOfLevels
    <2>. QED BY <2>1, FramesOfLevels
<1>2. ReadTo(Append(outer, level), p, Append(outer, next))
    BY DEF Narrows
<1>. HIDE DEF next
<1>3. ReadTo(Append(outer, next), q, Append(outer, Level(next.or, next.and \cap L)))
    BY <1>1 DEF Narrows
<1>4. next.and \cap L = level.and \cap (K \cap L)
    BY <1>1
<1>5. ReadTo(Append(outer, next), q, Append(outer, Level(level.or, level.and \cap (K \cap L))))
    BY <1>1, <1>3, <1>4
<1>6. Taken(Append(outer, next), "and") = Append(outer, next) /\ "and" \in Op
    BY <1>1, TakenIs DEF Op
<1>. QED BY <1>2, <1>5, <1>6, ReadJoined

LEMMA NarrowsEnclosed ==
    ASSUME NEW p \in Seq(Symbol), NEW K \in SUBSET Row, Narrows(p, K), NEW enclosed \in BOOLEAN
    PROVE  Narrows(Enclosed(p, enclosed), K)
<1>1. CASE ~(enclosed /\ p # <<>>)
    BY <1>1 DEF Enclosed
<1>2. CASE enclosed /\ p # <<>>
    <2>. SUFFICES ASSUME NEW outer \in Seq(Frame), NEW level \in Frame
                  PROVE  ReadTo(Append(outer, level), Enclosed(p, TRUE),
                                Append(outer, Level(level.or, level.and \cap K)))
        BY <1>2 DEF Narrows
    <2>. DEFINE inner == Level({}, Row \cap K)
    <2>1. /\ inner \in Frame /\ Both(inner) = K /\ Fresh \in Frame
          /\ Fresh.or = {} /\ Fresh.and = Row
        <3>1. {} \in SUBSET Row /\ Row \cap K \in SUBSET Row /\ Row \in SUBSET Row /\ {} \cup (Row \cap K) = K
            OBVIOUS
        <3>. QED BY <3>1, FramesOfLevels
    <2>2. Append(outer, level) \in Seq(Frame)
        OBVIOUS
    <2>3. ReadTo(Append(Append(outer, level), Fresh), p, Append(Append(outer, level), inner))
        BY <2>1, <2>2 DEF Narrows
    <2>. HIDE DEF inner
    <2>4. ReadTo(Append(outer, level), Enclosed(p, TRUE),
                 Append(outer, Level(level.or, level.and \cap Both(inner))))
        BY <1>2, <2>1, <2>3, ReadEnclosed
    <2>. QED BY <2>1, <2>4
<1>. QED BY <1>1, <1>2

\* A chain joined by AND counts each of its parts.
InAll(K, n) == {row \in Row : \A i \in 1..n : row \in K[i]}

LEMMA AndChain ==
    ASSUME NEW parts, NEW n \in Nat \ {0}, NEW ops, IsChain(parts, n, ops),
           NEW enclosed \in BOOLEAN,
           \A i \in 1..(n - 1) : ops[i] = "and",
           NEW K, \A i \in 1..n : K[i] \in SUBSET Row /\ Narrows(parts[i], K[i]),
           \A i \in 1..n : parts[i] = <<>> => K[i] = Row
    PROVE  /\ Narrows(Chained(parts, ops, enclosed), InAll(K, n))
           /\ Chained(parts, ops, enclosed) = <<>> => InAll(K, n) = Row
<1>8. PICK g : IsWritten(g, parts, n, ops, enclosed)
    BY ChainIs, Zenon
<1>1. /\ g \in [1..n -> Seq(Symbol)]
      /\ Chained(parts, ops, enclosed) = g[1]
      /\ g[n] = Enclosed(parts[n], enclosed)
      /\ \A i \in 1..(n - 1) : g[i] = Enclosed(Joined(parts[i], ops[i], g[i + 1]), enclosed)
    BY <1>8, Zenon DEF IsWritten
<1>6. /\ \A i \in 1..n : parts[i] \in Seq(Symbol) /\ g[i] \in Seq(Symbol)
      /\ "and" \in Op
    BY <1>1 DEF IsChain, Op
<1>. DEFINE from(i) == {row \in Row : \A k \in i..n : row \in K[k]}
            S == {i \in 1..n : Narrows(g[i], from(i)) /\ (g[i] = <<>> => from(i) = Row)}
<1>2. n \in S
    <2>1. from(n) = K[n] /\ n \in 1..n
        <3>1. \A k \in n..n : k = n
            OBVIOUS
        <3>2. n \in n..n /\ n \in 1..n
            OBVIOUS
        <3>. QED BY <3>1, <3>2
    <2>. HIDE DEF from
    <2>2. Narrows(g[n], K[n])
        <3>1. K[n] \in SUBSET Row /\ Narrows(parts[n], K[n]) /\ parts[n] \in Seq(Symbol)
            BY <1>6, <2>1
        <3>2. Narrows(Enclosed(parts[n], enclosed), K[n])
            BY <3>1, NarrowsEnclosed
        <3>. QED BY <1>1, <3>2
    <2>3. g[n] = <<>> => parts[n] = <<>>
        <3>1. <<"(">> \o parts[n] \o <<")">> # <<>>
            BY <1>6, <2>1, EnclosedIsNotEmpty
        <3>. QED BY <1>1, <3>1 DEF Enclosed
    <2>. QED BY <2>1, <2>2, <2>3
<1>3. ASSUME NEW i \in 1..(n - 1), i + 1 \in S PROVE i \in S
    <2>1. i \in 1..n /\ i + 1 \in 1..n
        OBVIOUS
    <2>2. from(i) = K[i] \cap from(i + 1) /\ from(i + 1) \in SUBSET Row /\ K[i] \in SUBSET Row
        <3>1. \A k \in i..n : k = i \/ k \in (i + 1)..n
            OBVIOUS
        <3>2. \A k \in (i + 1)..n : k \in i..n
            OBVIOUS
        <3>3. i \in i..n
            OBVIOUS
        <3>. QED BY <2>1, <3>1, <3>2, <3>3
    <2>3. Narrows(g[i + 1], from(i + 1)) /\ (g[i + 1] = <<>> => from(i + 1) = Row)
        BY <1>3
    <2>. HIDE DEF from
    <2>. DEFINE joined == Joined(parts[i], "and", g[i + 1])
    <2>4. g[i] = Enclosed(joined, enclosed)
        BY <1>1
    <2>5. joined \in Seq(Symbol) /\ (joined = <<>> => parts[i] = <<>> /\ g[i + 1] = <<>>)
        BY <1>6, <2>1, JoinedIsEmpty
    <2>6. Narrows(joined, K[i] \cap from(i + 1))
        BY <1>6, <2>1, <2>2, <2>3, NarrowsJoined
    <2>. HIDE DEF joined
    <2>7. Narrows(g[i], from(i))
        <3>1. from(i) \in SUBSET Row
            BY <2>2
        <3>. QED BY <2>2, <2>4, <2>5, <2>6, <3>1, NarrowsEnclosed
    <2>8. g[i] = <<>> => joined = <<>>
        <3>1. <<"(">> \o joined \o <<")">> # <<>>
            BY <2>5, EnclosedIsNotEmpty
        <3>. QED BY <2>4, <3>1 DEF Enclosed
    <2>9. g[i] = <<>> => from(i) = Row
        BY <2>1, <2>2, <2>3, <2>5, <2>8
    <2>. QED BY <2>1, <2>7, <2>9
<1>. HIDE DEF S
<1>4. 1..n \subseteq S
    BY <1>2, <1>3, FromTheLast
<1>5. 1 \in 1..n
    OBVIOUS
<1>7. Narrows(g[1], from(1)) /\ (g[1] = <<>> => from(1) = Row)
    BY <1>4, <1>5 DEF S
<1>. QED BY <1>1, <1>7 DEF InAll

\* A clause that is read to one level selects the rows of the level.
LEMMA OneLevel ==
    /\ <<>> \in Seq(Frame)
    /\ \A level \in Frame : Append(<<>>, level) = <<level>>
OBVIOUS

LEMMA SelectsNarrowed ==
    ASSUME NEW clause \in Seq(Symbol), NEW K \in SUBSET Row, Narrows(clause, K)
    PROVE  Selects(clause) = K
<1>. DEFINE after == Level({}, Row \cap K)
<1>1. Fresh \in Frame /\ Fresh.or = {} /\ Fresh.and = Row /\ after \in Frame /\ Both(after) = K
    <2>1. {} \in SUBSET Row /\ Row \cap K \in SUBSET Row /\ Row \in SUBSET Row /\ {} \cup (Row \cap K) = K
        OBVIOUS
    <2>. QED BY <2>1, FramesOfLevels
<1>2. ReadTo(Append(<<>>, Fresh), clause, Append(<<>>, after))
    BY <1>1, OneLevel DEF Narrows
<1>. HIDE DEF after
<1>3. ReadTo(<<Fresh>>, clause, <<after>>)
    BY <1>1, <1>2, OneLevel
<1>. QED BY <1>1, <1>3, SelectsIs

\* A comparator narrows a level to the rows it holds of, and to no fewer if it is dropped.
Kept(c) == IF c \in Own THEN Holds(c) ELSE Row

LEMMA ComparatorNarrows ==
    \A c : /\ comparator(c) \in Seq(Symbol) /\ Kept(c) \in SUBSET Row
           /\ Narrows(comparator(c), Kept(c))
           /\ comparator(c) = <<>> => Kept(c) = Row
<1>. SUFFICES ASSUME NEW c
              PROVE  /\ comparator(c) \in Seq(Symbol) /\ Kept(c) \in SUBSET Row
                     /\ Narrows(comparator(c), Kept(c))
                     /\ comparator(c) = <<>> => Kept(c) = Row
    OBVIOUS
<1>1. comparator(c) \in Seq(Symbol) /\ Kept(c) \in SUBSET Row
    BY PartsAreClauses, FramesOfLevels DEF Kept
<1>2. comparator(c) = <<>> => Kept(c) = Row
    BY DEF comparator, Kept
<1>3. ASSUME NEW outer \in Seq(Frame), NEW level \in Frame
      PROVE  ReadTo(Append(outer, level), comparator(c),
                    Append(outer, Level(level.or, level.and \cap Kept(c))))
    <2>1. CASE c \in Own
        <3>1. Taken(Append(outer, level), c) = Append(outer, Level(level.or, level.and \cap Holds(c)))
            BY <2>1, TakenIs
        <3>. QED BY <2>1, <3>1, ReadSymbol DEF comparator, Kept
    <2>2. CASE c \notin Own
        <3>1. level.and \cap Row = level.and /\ Level(level.or, level.and) = level
            BY FramesOfLevels
        <3>. QED BY <2>2, <3>1, ReadNothing DEF comparator, Kept
    <2>. QED BY <2>1, <2>2
<1>. QED BY <1>1, <1>2, <1>3 DEF Narrows

\* Comparators and conditions as the parts of chains.
ComparatorsOf(cond) == [i \in 1..Len(cond.items) |-> comparator(cond.items[i])]
ConditionsOf(exp) == [i \in 1..Len(exp.items) |-> condition(exp.items[i])]

LEMMA ConditionIsChain ==
    ASSUME NEW cond, IsCondition(cond)
    PROVE  /\ Len(cond.items) \in Nat \ {0}
           /\ IsChain(ComparatorsOf(cond), Len(cond.items), cond.ops)
           /\ condition(cond) = Chained(ComparatorsOf(cond), cond.ops, FALSE)
           /\ \A i \in 1..Len(cond.items) : ComparatorsOf(cond)[i] = comparator(cond.items[i])
<1>. DEFINE n == Len(cond.items)
            parts == ComparatorsOf(cond)
<1>1. n \in Nat \ {0} /\ cond.ops \in [1..(n - 1) -> Op]
    BY DEF IsCondition
<1>2. condition(cond) = Chained(parts, cond.ops, FALSE)
    BY DEF condition, ComparatorsOf
<1>. HIDE DEF n
<1>3. parts = [i \in 1..n |-> comparator(cond.items[i])]
    BY DEF ComparatorsOf, n
<1>. HIDE DEF parts
<1>4. \A i \in 1..n : parts[i] = comparator(cond.items[i])
    BY <1>3
<1>5. Len(parts) = n
    BY <1>1, <1>3
<1>6. IsChain(parts, n, cond.ops)
    BY <1>1, <1>4, <1>5, PartsAreClauses DEF IsChain
<1>. QED BY <1>1, <1>2, <1>4, <1>6 DEF n, parts

LEMMA ConditionsAreClauses ==
    ASSUME NEW cond, IsCondition(cond)
    PROVE  condition(cond) \in Seq(Symbol)
BY ConditionIsChain, ChainsAreClauses

LEMMA CriteriaAreChain ==
    ASSUME NEW exp, IsCriteria(exp)
    PROVE  /\ Len(exp.items) \in Nat \ {0}
           /\ IsChain(ConditionsOf(exp), Len(exp.items), exp.ops)
           /\ expression(exp) = Chained(ConditionsOf(exp), exp.ops, TRUE)
           /\ \A i \in 1..Len(exp.items) :
                 ConditionsOf(exp)[i] = condition(exp.items[i]) /\ IsCondition(exp.items[i])
<1>. DEFINE n == Len(exp.items)
            parts == ConditionsOf(exp)
<1>1. n \in Nat \ {0} /\ exp.ops \in [1..(n - 1) -> Op] /\ \A i \in 1..n : IsCondition(exp.items[i])
    BY DEF IsCriteria
<1>2. expression(exp) = Chained(parts, exp.ops, TRUE)
    BY DEF expression, ConditionsOf
<1>. HIDE DEF n
<1>3. parts = [i \in 1..n |-> condition(exp.items[i])]
    BY DEF ConditionsOf, n
<1>. HIDE DEF parts
<1>4. \A i \in 1..n : parts[i] = condition(exp.items[i])
    BY <1>3
<1>5. Len(parts) = n
    BY <1>1, <1>3
<1>6. IsChain(parts, n, exp.ops)
    BY <1>1, <1>4, <1>5, ConditionsAreClauses DEF IsChain
<1>. QED BY <1>1, <1>2, <1>4, <1>6 DEF n, parts

\* A condition joined by AND counts each comparator of a column.
CountsOwn(cond) == {row \in Row : \A k \in 1..Len(cond.items) : row \in Kept(cond.items[k])}

LEMMA AndConditions ==
    ASSUME NEW cond, IsCondition(cond), \A i \in 1..(Len(cond.items) - 1) : cond.ops[i] = "and"
    PROVE  /\ CountsOwn(cond) \in SUBSET Row
           /\ Narrows(condition(cond), CountsOwn(cond))
           /\ condition(cond) = <<>> => CountsOwn(cond) = Row
<1>. DEFINE n == Len(cond.items)
            parts == ComparatorsOf(cond)
            K == [i \in 1..n |-> Kept(cond.items[i])]
<1>1. /\ n \in Nat \ {0} /\ IsChain(parts, n, cond.ops)
      /\ condition(cond) = Chained(parts, cond.ops, FALSE)
      /\ \A i \in 1..n : parts[i] = comparator(cond.items[i])
    BY ConditionIsChain
<1>2. InAll(K, n) = CountsOwn(cond)
    BY DEF CountsOwn, InAll
<1>3. \A i \in 1..(n - 1) : cond.ops[i] = "and"
    OBVIOUS
<1>. HIDE DEF n, parts
<1>4. \A i \in 1..n : /\ K[i] \in SUBSET Row /\ Narrows(parts[i], K[i])
                      /\ parts[i] = <<>> => K[i] = Row
    BY <1>1, ComparatorNarrows
<1>. HIDE DEF K
<1>5. /\ Narrows(Chained(parts, cond.ops, FALSE), InAll(K, n))
      /\ Chained(parts, cond.ops, FALSE) = <<>> => InAll(K, n) = Row
    BY <1>1, <1>3, <1>4, AndChain
<1>. QED BY <1>1, <1>2, <1>5 DEF CountsOwn

\* Of criteria joined by AND, of any length, every comparator of a column counts
\* in full, and what is dropped can only widen what is selected (comparator).
THEOREM DroppedOperandsOnlyWiden ==
    ASSUME NEW exp, IsCriteria(exp)
    PROVE  DroppedOperandsWiden(exp)
<1>. DEFINE n == Len(exp.items)
            parts == ConditionsOf(exp)
            K == [i \in 1..n |-> CountsOwn(exp.items[i])]
            meant == {row \in Row : \A c \in Operands(exp) \cap Own : row[c]}
<1>. SUFFICES ASSUME Operators(exp) \subseteq {"and"} PROVE Affected(exp) = meant
    BY DEF DroppedOperandsWiden
<1>1. /\ n \in Nat \ {0} /\ IsChain(parts, n, exp.ops)
      /\ expression(exp) = Chained(parts, exp.ops, TRUE)
      /\ \A i \in 1..n : parts[i] = condition(exp.items[i]) /\ IsCondition(exp.items[i])
    BY CriteriaAreChain
<1>2. DOMAIN exp.items = 1..n /\ exp.ops \in [1..(n - 1) -> Op]
    BY DEF IsCriteria
<1>. HIDE DEF n, parts
<1>3. \A i \in 1..(n - 1) : exp.ops[i] = "and"
    <2>. SUFFICES ASSUME NEW i \in 1..(n - 1) PROVE exp.ops[i] = "and"
        OBVIOUS
    <2>1. exp.ops[i] \in Operators(exp)
        BY <1>2 DEF Operators
    <2>. QED BY <2>1
<1>4. ASSUME NEW i \in 1..n PROVE \A k \in 1..(Len(exp.items[i].items) - 1) : exp.items[i].ops[k] = "and"
    <2>. SUFFICES ASSUME NEW k \in 1..(Len(exp.items[i].items) - 1) PROVE exp.items[i].ops[k] = "and"
        OBVIOUS
    <2>1. DOMAIN exp.items[i].ops = 1..(Len(exp.items[i].items) - 1)
        BY <1>1 DEF IsCondition
    <2>2. exp.items[i].ops[k] \in Operators(exp)
        BY <1>2, <2>1 DEF Operators
    <2>. QED BY <2>2
<1>5. \A i \in 1..n : /\ K[i] \in SUBSET Row /\ Narrows(parts[i], K[i])
                      /\ parts[i] = <<>> => K[i] = Row
    BY <1>1, <1>4, AndConditions
<1>6. InAll(K, n) = meant
    <2>1. ASSUME NEW row \in Row
          PROVE  (\A i \in 1..n : row \in K[i]) <=> \A c \in Operands(exp) \cap Own : row[c]
        <3>1. ASSUME NEW i \in 1..n
              PROVE  row \in K[i] <=>
                        \A k \in 1..Len(exp.items[i].items) : row \in Kept(exp.items[i].items[k])
            BY DEF CountsOwn
        <3>2. \A c : row \in Kept(c) <=> (c \in Own => row[c])
            BY DEF Kept, Holds
        <3>3. \A i \in 1..n : DOMAIN exp.items[i].items = 1..Len(exp.items[i].items)
            BY <1>1 DEF IsCondition
        <3>4. ASSUME NEW i \in 1..n, NEW k \in 1..Len(exp.items[i].items)
              PROVE  exp.items[i].items[k] \in Operands(exp)
            BY <1>2, <3>3 DEF Operands
        <3>5. ASSUME NEW c \in Operands(exp)
              PROVE  \E i \in 1..n : \E k \in 1..Len(exp.items[i].items) : exp.items[i].items[k] = c
            BY <1>2, <3>3 DEF Operands
        <3>. HIDE DEF K
        <3>6. ASSUME \A i \in 1..n : row \in K[i], NEW c \in Operands(exp) \cap Own PROVE row[c]
            <4>1. PICK i \in 1..n : \E k \in 1..Len(exp.items[i].items) : exp.items[i].items[k] = c
                BY <3>5
            <4>2. PICK k \in 1..Len(exp.items[i].items) : exp.items[i].items[k] = c
                BY <4>1
            <4>3. row \in Kept(c)
                BY <3>1, <3>6, <4>2
            <4>. QED BY <3>2, <4>3
        <3>7. ASSUME \A c \in Operands(exp) \cap Own : row[c], NEW i \in 1..n PROVE row \in K[i]
            <4>1. \A k \in 1..Len(exp.items[i].items) : row \in Kept(exp.items[i].items[k])
                BY <3>2, <3>4, <3>7
            <4>. QED BY <3>1, <4>1
        <3>. QED BY <3>6, <3>7
    <2>. HIDE DEF K
    <2>. QED BY <2>1 DEF InAll
<1>. HIDE DEF K, meant
<1>7. /\ Narrows(Chained(parts, exp.ops, TRUE), InAll(K, n))
      /\ Chained(parts, exp.ops, TRUE) = <<>> => InAll(K, n) = Row
    BY <1>1, <1>3, <1>5, AndChain
<1>8. meant \in SUBSET Row
    BY DEF meant
<1>9. CASE expression(exp) = <<>>
    BY <1>1, <1>6, <1>7, <1>9 DEF Affected
<1>10. CASE expression(exp) # <<>>
    <2>1. expression(exp) \in Seq(Symbol)
        BY <1>1, ChainsAreClauses
    <2>2. Selects(expression(exp)) = meant
        BY <1>1, <1>6, <1>7, <1>8, <2>1, SelectsNarrowed
    <2>. QED BY <1>10, <2>2 DEF Affected
<1>. QED BY <1>9, <1>10

-----------------------------------------------------------------------------
(* Clauses that are not refused                                            *)

\* A part that an operator can be joined to at either side.
Joinable(p) ==
    /\ p \in Seq(Symbol) /\ p # <<>> /\ WellFormed(p)
    /\ p[1] \in Own \cup {"("} /\ p[Len(p)] \in Own \cup {")"}

LEMMA JoinedIsJoinable ==
    ASSUME NEW p, NEW q, Joinable(p), Joinable(q), NEW op \in Op
    PROVE  Joinable(Joined(p, op, q))
<1>. DEFINE m == Len(p)
            n == Len(q)
            r == p \o (<<op>> \o q)
<1>1. p \in Seq(Symbol) /\ q \in Seq(Symbol) /\ <<op>> \in Seq(Symbol) /\ op \in Symbol
    BY DEF Joinable, Symbol
<1>2. m \in Nat /\ n \in Nat /\ m > 0 /\ n > 0
    BY DEF Joinable
<1>4. /\ r \in Seq(Symbol) /\ Len(r) = m + 1 + n
      /\ \A i \in 1..m : r[i] = p[i]
      /\ r[m + 1] = op
      /\ \A i \in 1..n : r[m + 1 + i] = q[i]
    BY <1>1, JoinedByElement
<1>5. /\ p[1] \in Own \cup {"("} /\ p[m] \in Own \cup {")"}
      /\ q[1] \in Own \cup {"("} /\ q[n] \in Own \cup {")"}
      /\ \A i \in 1..m : p[i] \in Op =>
            i > 1 /\ p[i - 1] \in Own \cup {")"} /\ i < m /\ p[i + 1] \in Own \cup {"("}
      /\ \A i \in 1..n : q[i] \in Op =>
            i > 1 /\ q[i - 1] \in Own \cup {")"} /\ i < n /\ q[i + 1] \in Own \cup {"("}
    <2>1. DOMAIN p = 1..m /\ DOMAIN q = 1..n
        BY <1>1
    <2>. QED BY <2>1 DEF Joinable, WellFormed
<1>6. Joined(p, op, q) = r
    BY DEF Joinable, Joined
<1>. HIDE DEF r, m, n
<1>7. r # <<>> /\ r[1] = p[1] /\ r[Len(r)] = q[n]
    <2>1. Len(r) # 0 /\ 1 \in 1..m /\ n \in 1..n
        BY <1>2, <1>4
    <2>. QED BY <1>4, <2>1
<1>8. ASSUME NEW i \in 1..(m + 1 + n), r[i] \in Op
      PROVE  i > 1 /\ r[i - 1] \in Own \cup {")"} /\ i < m + 1 + n /\ r[i + 1] \in Own \cup {"("}
    <2>1. CASE i <= m
        <3>1. i \in 1..m /\ r[i] = p[i]
            BY <1>2, <1>4, <2>1
        <3>2. i > 1 /\ p[i - 1] \in Own \cup {")"} /\ i < m /\ p[i + 1] \in Own \cup {"("}
            BY <1>5, <1>8, <3>1
        <3>3. i - 1 \in 1..m /\ i + 1 \in 1..m
            BY <1>2, <3>1, <3>2
        <3>4. r[i - 1] = p[i - 1] /\ r[i + 1] = p[i + 1]
            BY <1>4, <3>3
        <3>. QED BY <1>2, <3>1, <3>2, <3>4
    <2>2. CASE i = m + 1
        <3>1. m \in 1..m /\ 1 \in 1..n /\ i - 1 = m /\ i + 1 = m + 1 + 1
            BY <1>2, <2>2
        <3>2. r[i - 1] = p[m] /\ r[i + 1] = q[1]
            BY <1>4, <3>1
        <3>. QED BY <1>2, <1>5, <2>2, <3>2
    <2>3. CASE i > m + 1
        <3>. DEFINE k == i - (m + 1)
        <3>1. k \in 1..n /\ i = m + 1 + k
            BY <1>2, <2>3
        <3>2. r[i] = q[k]
            BY <1>4, <3>1
        <3>3. k > 1 /\ q[k - 1] \in Own \cup {")"} /\ k < n /\ q[k + 1] \in Own \cup {"("}
            BY <1>5, <1>8, <3>1, <3>2
        <3>. HIDE DEF k
        <3>4. k - 1 \in 1..n /\ k + 1 \in 1..n /\ i - 1 = m + 1 + (k - 1) /\ i + 1 = m + 1 + (k + 1)
            BY <1>2, <3>1, <3>3
        <3>5. r[i - 1] = q[k - 1] /\ r[i + 1] = q[k + 1]
            BY <1>4, <3>4
        <3>. QED BY <1>2, <3>1, <3>3, <3>5
    <2>. QED BY <1>2, <2>1, <2>2, <2>3
<1>9. WellFormed(r)
    <2>1. DOMAIN r = 1..(m + 1 + n) /\ Len(r) = m + 1 + n
        BY <1>2, <1>4
    <2>. QED BY <1>8, <2>1 DEF WellFormed
<1>. QED BY <1>4, <1>5, <1>6, <1>7, <1>9 DEF Joinable

LEMMA EnclosedIsJoinable ==
    ASSUME NEW p, Joinable(p), NEW enclosed \in BOOLEAN
    PROVE  Joinable(Enclosed(p, enclosed))
<1>. DEFINE m == Len(p)
            s == <<"(">> \o p
            r == s \o <<")">>
<1>1. p \in Seq(Symbol) /\ <<"(">> \in Seq(Symbol) /\ <<")">> \in Seq(Symbol)
    BY DEF Joinable, Symbol
<1>2. m \in Nat /\ m > 0
    BY DEF Joinable
<1>3. s \in Seq(Symbol) /\ Len(s) = m + 1 /\ s[1] = "(" /\ \A i \in 1..m : s[i + 1] = p[i]
    BY <1>1
<1>. HIDE DEF s
<1>4. /\ r \in Seq(Symbol) /\ Len(r) = m + 2 /\ r[m + 2] = ")"
      /\ \A i \in 1..(m + 1) : r[i] = s[i]
    <2>. HIDE DEF m
    <2>. QED BY <1>1, <1>2, <1>3
<1>5. /\ p[1] \in Own \cup {"("} /\ p[m] \in Own \cup {")"}
      /\ \A i \in 1..m : p[i] \in Op =>
            i > 1 /\ p[i - 1] \in Own \cup {")"} /\ i < m /\ p[i + 1] \in Own \cup {"("}
    <2>1. DOMAIN p = 1..m
        BY <1>1
    <2>. QED BY <2>1 DEF Joinable, WellFormed
<1>. HIDE DEF m, r
<1>6. r[1] = "(" /\ r[Len(r)] = ")" /\ \A i \in 1..m : r[i + 1] = p[i]
    <2>1. ASSUME NEW i \in 1..m PROVE r[i + 1] = p[i]
        <3>1. i + 1 \in 1..(m + 1)
            BY <1>2
        <3>. QED BY <1>3, <1>4, <3>1
    <2>2. 1 \in 1..(m + 1)
        BY <1>2
    <2>. QED BY <1>3, <1>4, <2>1, <2>2
<1>7. ASSUME NEW i \in 1..(m + 2), r[i] \in Op
      PROVE  i > 1 /\ r[i - 1] \in Own \cup {")"} /\ i < m + 2 /\ r[i + 1] \in Own \cup {"("}
    <2>1. i # 1 /\ i # m + 2
        BY <1>4, <1>6, <1>7 DEF Op
    <2>. DEFINE k == i - 1
    <2>2. k \in 1..m /\ i = k + 1
        BY <1>2, <2>1
    <2>. HIDE DEF k
    <2>3. k > 1 /\ p[k - 1] \in Own \cup {")"} /\ k < m /\ p[k + 1] \in Own \cup {"("}
        BY <1>5, <1>6, <1>7, <2>2
    <2>4. k - 1 \in 1..m /\ k + 1 \in 1..m /\ i - 1 = (k - 1) + 1 /\ i + 1 = (k + 1) + 1
        BY <1>2, <2>2, <2>3
    <2>5. r[i - 1] = p[k - 1] /\ r[i + 1] = p[k + 1]
        BY <1>6, <2>4
    <2>. QED BY <1>2, <2>2, <2>3, <2>5
<1>8. WellFormed(r)
    <2>1. DOMAIN r = 1..(m + 2) /\ Len(r) = m + 2
        BY <1>2, <1>4
    <2>. QED BY <1>7, <2>1 DEF WellFormed
<1>9. Joinable(r)
    <2>1. r # <<>>
        BY <1>2, <1>4
    <2>. QED BY <1>4, <1>6, <1>8, <2>1 DEF Joinable
<1>10. Enclosed(p, enclosed) = IF enclosed THEN r ELSE p
    BY DEF Enclosed, Joinable, r, s
<1>. QED BY <1>9, <1>10

LEMMA ChainIsJoinable ==
    ASSUME NEW parts, NEW n \in Nat \ {0}, NEW ops, IsChain(parts, n, ops),
           NEW enclosed \in BOOLEAN, \A i \in 1..n : Joinable(parts[i])
    PROVE  Joinable(Chained(parts, ops, enclosed))
<1>1. PICK g : IsWritten(g, parts, n, ops, enclosed)
    BY ChainIs, Zenon
<1>. DEFINE S == {i \in 1..n : Joinable(g[i])}
<1>2. n \in S
    <2>1. n \in 1..n
        OBVIOUS
    <2>2. Joinable(Enclosed(parts[n], enclosed))
        BY <2>1, EnclosedIsJoinable
    <2>. QED BY <1>1, <2>1, <2>2 DEF IsWritten
<1>3. ASSUME NEW i \in 1..(n - 1), i + 1 \in S PROVE i \in S
    <2>1. i \in 1..n /\ ops[i] \in Op /\ Joinable(g[i + 1]) /\ Joinable(parts[i])
        BY <1>3 DEF IsChain
    <2>2. Joinable(Joined(parts[i], ops[i], g[i + 1]))
        BY <2>1, JoinedIsJoinable
    <2>3. Joinable(Enclosed(Joined(parts[i], ops[i], g[i + 1]), enclosed))
        BY <2>2, EnclosedIsJoinable
    <2>. QED BY <1>1, <2>1, <2>3 DEF IsWritten
<1>. HIDE DEF S
<1>4. 1..n \subseteq S /\ 1 \in 1..n
    BY <1>2, <1>3, FromTheLast
<1>. QED BY <1>1, <1>4 DEF S, IsWritten

LEMMA ComparatorIsJoinable == \A c \in Own : Joinable(comparator(c))
<1>. SUFFICES ASSUME NEW c \in Own PROVE Joinable(comparator(c))
    OBVIOUS
<1>1. comparator(c) = <<c>> /\ <<c>> \in Seq(Symbol)
    BY PartsAreClauses DEF comparator
<1>2. Len(<<c>>) = 1 /\ <<c>>[1] = c /\ <<c>> # <<>> /\ DOMAIN <<c>> = 1..1 /\ \A i \in 1..1 : i = 1
    OBVIOUS
<1>3. c \notin Op
    BY ComparatorAssumption DEF Op
<1>4. WellFormed(<<c>>)
    BY <1>2, <1>3 DEF WellFormed
<1>. QED BY <1>1, <1>2, <1>4 DEF Joinable

-----------------------------------------------------------------------------
(* What criteria of columns say                                            *)

\* The rows of the comparators from a place up to an OR, and of those after an OR.
UpToOr(cond, i) ==
    LET n == Len(cond.items)
    IN  {row \in Row : \E j \in i..n :
            (j = n \/ cond.ops[j] = "or") /\ \A k \in i..j : row \in Holds(cond.items[k])}
AfterOr(cond, i) ==
    {row \in Row : \E k \in (i + 1)..Len(cond.items) : cond.ops[k - 1] = "or" /\ row \in UpToOr(cond, k)}

LEMMA UpToAndAfterOr ==
    ASSUME NEW cond, IsCondition(cond)
    PROVE  LET n == Len(cond.items)
           IN  /\ UpToOr(cond, n) = Holds(cond.items[n]) /\ AfterOr(cond, n) = {}
               /\ \A i \in 1..(n - 1) :
                     /\ cond.ops[i] = "and" =>
                           /\ UpToOr(cond, i) = Holds(cond.items[i]) \cap UpToOr(cond, i + 1)
                           /\ AfterOr(cond, i) = AfterOr(cond, i + 1)
                     /\ cond.ops[i] = "or" =>
                           /\ UpToOr(cond, i) = Holds(cond.items[i])
                           /\ AfterOr(cond, i) = UpToOr(cond, i + 1) \cup AfterOr(cond, i + 1)
<1>. DEFINE n == Len(cond.items)
            H(k) == Holds(cond.items[k])
<1>1. n \in Nat \ {0}
    BY DEF IsCondition
<1>2. \A k : H(k) \subseteq Row
    BY DEF Holds
<1>3. \A i : UpToOr(cond, i) = {row \in Row : \E j \in i..n :
            (j = n \/ cond.ops[j] = "or") /\ \A k \in i..j : row \in H(k)}
    BY DEF UpToOr
<1>4. \A i : AfterOr(cond, i) =
            {row \in Row : \E k \in (i + 1)..n : cond.ops[k - 1] = "or" /\ row \in UpToOr(cond, k)}
    BY DEF AfterOr
<1>. HIDE DEF n, H
<1>5. UpToOr(cond, n) = H(n) /\ AfterOr(cond, n) = {}
    <2>1. (\A j \in n..n : j = n) /\ n \in n..n /\ (n + 1)..n = {}
        BY <1>1
    <2>2. UpToOr(cond, n) = H(n)
        BY <1>2, <1>3, <2>1
    <2>. QED BY <1>4, <2>1, <2>2
<1>6. ASSUME NEW i \in 1..(n - 1)
      PROVE  /\ cond.ops[i] = "and" => UpToOr(cond, i) = H(i) \cap UpToOr(cond, i + 1)
             /\ cond.ops[i] = "or" => UpToOr(cond, i) = H(i)
    <2>1. i \in i..n /\ i # n /\ i \in i..i /\ (\A k \in i..i : k = i)
        BY <1>1
    <2>2. \A j \in (i + 1)..n : j \in i..n /\ i \in i..j
        BY <1>1
    <2>3. \A j \in i..n : j = i \/ j \in (i + 1)..n
        BY <1>1
    <2>4. \A j \in (i + 1)..n : \A k \in i..j : k = i \/ k \in (i + 1)..j
        BY <1>1
    <2>5. \A j \in (i + 1)..n : \A k \in (i + 1)..j : k \in i..j
        BY <1>1
    <2>6. ASSUME NEW row \in Row, NEW j \in (i + 1)..n
          PROVE  (\A k \in i..j : row \in H(k)) <=> row \in H(i) /\ \A k \in (i + 1)..j : row \in H(k)
        BY <2>2, <2>4, <2>5
    <2>7. ASSUME NEW row \in Row
          PROVE  row \in UpToOr(cond, i) <=>
                    \/ cond.ops[i] = "or" /\ row \in H(i)
                    \/ row \in H(i) /\ row \in UpToOr(cond, i + 1)
        <3>1. ASSUME row \in UpToOr(cond, i)
              PROVE  \/ cond.ops[i] = "or" /\ row \in H(i)
                     \/ row \in H(i) /\ row \in UpToOr(cond, i + 1)
            <4>1. PICK j \in i..n : (j = n \/ cond.ops[j] = "or") /\ \A k \in i..j : row \in H(k)
                BY <1>3, <3>1
            <4>2. CASE j = i
                BY <2>1, <4>1, <4>2
            <4>3. CASE j \in (i + 1)..n
                BY <1>3, <2>6, <4>1, <4>3
            <4>. QED BY <2>3, <4>2, <4>3
        <3>2. ASSUME cond.ops[i] = "or" /\ row \in H(i) PROVE row \in UpToOr(cond, i)
            BY <1>3, <2>1, <3>2
        <3>3. ASSUME row \in H(i) /\ row \in UpToOr(cond, i + 1) PROVE row \in UpToOr(cond, i)
            <4>1. PICK j \in (i + 1)..n :
                      (j = n \/ cond.ops[j] = "or") /\ \A k \in (i + 1)..j : row \in H(k)
                BY <1>3, <3>3
            <4>2. \A k \in i..j : row \in H(k)
                BY <2>6, <3>3, <4>1
            <4>. QED BY <1>3, <2>2, <4>1, <4>2
        <3>. QED BY <3>1, <3>2, <3>3
    <2>8. UpToOr(cond, i) \subseteq Row /\ UpToOr(cond, i + 1) \subseteq Row
        BY <1>3
    <2>. QED BY <1>2, <2>7, <2>8
<1>7. ASSUME NEW i \in 1..(n - 1)
      PROVE  /\ cond.ops[i] = "and" => AfterOr(cond, i) = AfterOr(cond, i + 1)
             /\ cond.ops[i] = "or" => AfterOr(cond, i) = UpToOr(cond, i + 1) \cup AfterOr(cond, i + 1)
    <2>1. \A k \in (i + 1)..n : k = i + 1 \/ k \in (i + 1 + 1)..n
        BY <1>1
    <2>2. (i + 1) - 1 = i /\ i + 1 \in (i + 1)..n /\ \A k \in (i + 1 + 1)..n : k \in (i + 1)..n
        BY <1>1
    <2>3. ASSUME NEW row \in Row
          PROVE  row \in AfterOr(cond, i) <=>
                    \/ cond.ops[i] = "or" /\ row \in UpToOr(cond, i + 1)
                    \/ row \in AfterOr(cond, i + 1)
        <3>1. ASSUME row \in AfterOr(cond, i)
              PROVE  \/ cond.ops[i] = "or" /\ row \in UpToOr(cond, i + 1)
                     \/ row \in AfterOr(cond, i + 1)
            <4>1. PICK k \in (i + 1)..n : cond.ops[k - 1] = "or" /\ row \in UpToOr(cond, k)
                BY <1>4, <3>1
            <4>. QED BY <1>4, <2>1, <2>2, <4>1
        <3>2. ASSUME cond.ops[i] = "or" /\ row \in UpToOr(cond, i + 1) PROVE row \in AfterOr(cond, i)
            BY <1>4, <2>2, <3>2
        <3>3. ASSUME row \in AfterOr(cond, i + 1) PROVE row \in AfterOr(cond, i)
            BY <1>4, <2>2, <3>3
        <3>. QED BY <3>1, <3>2, <3>3
    <2>4. AfterOr(cond, i) \subseteq Row /\ AfterOr(cond, i + 1) \subseteq Row /\ UpToOr(cond, i + 1) \subseteq Row
        BY <1>3, <1>4
    <2>. QED BY <2>3, <2>4
<1>. QED BY <1>5, <1>6, <1>7 DEF n, H

\* A condition of columns adds to its level the rows it is satisfied by.
LEMMA OwnConditionReads ==
    ASSUME NEW cond, IsCondition(cond), \A k \in 1..Len(cond.items) : cond.items[k] \in Own,
           NEW outer \in Seq(Frame), NEW level \in Frame
    PROVE  \E after \in Frame :
              /\ ReadTo(Append(outer, level), condition(cond), Append(outer, after))
              /\ Both(after) = level.or \cup (level.and \cap UpToOr(cond, 1)) \cup AfterOr(cond, 1)
<1>. DEFINE n == Len(cond.items)
            parts == ComparatorsOf(cond)
            Sum(at, i) == at.or \cup (at.and \cap UpToOr(cond, i)) \cup AfterOr(cond, i)
<1>1. /\ n \in Nat \ {0} /\ IsChain(parts, n, cond.ops)
      /\ condition(cond) = Chained(parts, cond.ops, FALSE)
      /\ \A i \in 1..n : parts[i] = comparator(cond.items[i])
    BY ConditionIsChain
<1>2. /\ UpToOr(cond, n) = Holds(cond.items[n]) /\ AfterOr(cond, n) = {}
      /\ \A i \in 1..(n - 1) :
            /\ cond.ops[i] = "and" =>
                  /\ UpToOr(cond, i) = Holds(cond.items[i]) \cap UpToOr(cond, i + 1)
                  /\ AfterOr(cond, i) = AfterOr(cond, i + 1)
            /\ cond.ops[i] = "or" =>
                  /\ UpToOr(cond, i) = Holds(cond.items[i])
                  /\ AfterOr(cond, i) = UpToOr(cond, i + 1) \cup AfterOr(cond, i + 1)
    BY UpToAndAfterOr
<1>3. \A k \in 1..n : cond.items[k] \in Own
    OBVIOUS
<1>. HIDE DEF n, parts
<1>4. PICK g : IsWritten(g, parts, n, cond.ops, FALSE)
    BY <1>1, ChainIs, Zenon
<1>5. /\ g \in [1..n -> Seq(Symbol)] /\ condition(cond) = g[1] /\ g[n] = parts[n]
      /\ \A i \in 1..(n - 1) : g[i] = Joined(parts[i], cond.ops[i], g[i + 1])
    BY <1>1, <1>4 DEF IsWritten, Enclosed
<1>6. \A i \in 1..n : UpToOr(cond, i) \in SUBSET Row /\ AfterOr(cond, i) \in SUBSET Row
    BY DEF UpToOr, AfterOr
<1>7. ASSUME NEW i \in 1..n, NEW at \in Frame
      PROVE  LET kept == Level(at.or, at.and \cap Holds(cond.items[i]))
             IN  /\ kept \in Frame
                 /\ kept.or = at.or /\ kept.and = at.and \cap Holds(cond.items[i])
                 /\ Both(kept) = at.or \cup (at.and \cap Holds(cond.items[i]))
                 /\ ReadTo(Append(outer, at), parts[i], Append(outer, kept))
                 /\ parts[i] # <<>> /\ parts[i] \in Seq(Symbol)
    <2>1. at.or \in SUBSET Row /\ at.and \cap Holds(cond.items[i]) \in SUBSET Row
        BY FramesOfLevels
    <2>2. parts[i] = comparator(cond.items[i]) /\ Kept(cond.items[i]) = Holds(cond.items[i])
        BY <1>1, <1>3 DEF Kept
    <2>3. ReadTo(Append(outer, at), parts[i], Append(outer, Level(at.or, at.and \cap Holds(cond.items[i]))))
        BY <2>2, ComparatorNarrows DEF Narrows
    <2>4. parts[i] # <<>> /\ parts[i] \in Seq(Symbol)
        BY <1>3, <2>2, PartsAreClauses DEF comparator
    <2>. QED BY <2>1, <2>3, <2>4, FramesOfLevels
<1>. DEFINE Adds(i) == \A at \in Frame : \E after \in Frame :
                /\ ReadTo(Append(outer, at), g[i], Append(outer, after))
                /\ Both(after) = Sum(at, i)
            S == {i \in 1..n : Adds(i) /\ g[i] # <<>>}
<1>8. n \in S
    <2>1. n \in 1..n
        BY <1>1
    <2>2. ASSUME NEW at \in Frame
          PROVE  \E after \in Frame : /\ ReadTo(Append(outer, at), g[n], Append(outer, after))
                                      /\ Both(after) = Sum(at, n)
        <3>. DEFINE kept == Level(at.or, at.and \cap Holds(cond.items[n]))
        <3>1. /\ kept \in Frame /\ ReadTo(Append(outer, at), parts[n], Append(outer, kept))
              /\ Both(kept) = at.or \cup (at.and \cap Holds(cond.items[n]))
            BY <1>7, <2>1
        <3>2. Both(kept) = Sum(at, n)
            BY <1>2, <3>1
        <3>. HIDE DEF kept, Sum
        <3>. QED BY <1>5, <3>1, <3>2
    <2>3. g[n] # <<>>
        <3>1. \E at : at \in Frame
            BY FramesOfLevels
        <3>. QED BY <1>5, <1>7, <2>1, <3>1
    <2>. HIDE DEF Sum
    <2>. QED BY <2>1, <2>2, <2>3
<1>9. ASSUME NEW i \in 1..(n - 1), i + 1 \in S PROVE i \in S
    <2>1. i \in 1..n /\ i + 1 \in 1..n /\ cond.ops[i] \in Op /\ Adds(i + 1) /\ g[i + 1] # <<>>
        <3>1. i \in 1..n /\ i + 1 \in 1..n
            BY <1>1
        <3>2. cond.ops[i] \in Op
            BY <1>1 DEF IsChain
        <3>. HIDE DEF Adds
        <3>. QED BY <1>9, <3>1, <3>2
    <2>2. g[i + 1] \in Seq(Symbol) /\ g[i] = Joined(parts[i], cond.ops[i], g[i + 1])
        BY <1>5, <2>1
    <2>3. g[i] # <<>>
        <3>1. \E at : at \in Frame
            BY FramesOfLevels
        <3>2. parts[i] \in Seq(Symbol)
            BY <1>7, <2>1, <3>1
        <3>. HIDE DEF Adds
        <3>. QED BY <2>1, <2>2, <3>2, JoinedIsEmpty
    <2>4. ASSUME NEW at \in Frame
          PROVE  \E after \in Frame : /\ ReadTo(Append(outer, at), g[i], Append(outer, after))
                                      /\ Both(after) = Sum(at, i)
        <3>. DEFINE kept == Level(at.or, at.and \cap Holds(cond.items[i]))
                    next == IF cond.ops[i] = "and" THEN kept ELSE Level(Both(kept), Row)
        <3>1. /\ kept \in Frame /\ kept.or = at.or /\ kept.and = at.and \cap Holds(cond.items[i])
              /\ Both(kept) = at.or \cup (at.and \cap Holds(cond.items[i]))
              /\ ReadTo(Append(outer, at), parts[i], Append(outer, kept))
              /\ parts[i] \in Seq(Symbol)
            BY <1>7, <2>1
        <3>. HIDE DEF kept
        <3>2. cond.ops[i] = "and" \/ cond.ops[i] = "or"
            BY <2>1 DEF Op
        <3>3. Taken(Append(outer, kept), cond.ops[i]) = Append(outer, next)
            <4>1. Taken(Append(outer, kept), "and") = Append(outer, kept)
                BY <3>1, TakenIs
            <4>2. Taken(Append(outer, kept), "or") = Append(outer, Level(Both(kept), Row))
                BY <3>1, TakenIs
            <4>. QED BY <3>2, <4>1, <4>2
        <3>4. /\ next \in Frame
              /\ cond.ops[i] = "and" => next.or = kept.or /\ next.and = kept.and
              /\ cond.ops[i] = "or" => next.or = Both(kept) /\ next.and = Row
            <4>1. Both(kept) \in SUBSET Row /\ Row \in SUBSET Row
                BY <3>1, FramesOfLevels
            <4>2. Level(Both(kept), Row) \in Frame /\ Level(Both(kept), Row).or = Both(kept)
                  /\ Level(Both(kept), Row).and = Row
                BY <4>1, FramesOfLevels
            <4>. QED BY <3>1, <4>2
        <3>. HIDE DEF next
        <3>5. PICK after \in Frame :
                  /\ ReadTo(Append(outer, next), g[i + 1], Append(outer, after))
                  /\ Both(after) = Sum(next, i + 1)
            BY <2>1, <3>4
        <3>6. ReadTo(Append(outer, at), g[i], Append(outer, after))
            <4>1. ReadTo(Taken(Append(outer, kept), cond.ops[i]), g[i + 1], Append(outer, after))
                BY <3>3, <3>5
            <4>2. ReadTo(Append(outer, at), Joined(parts[i], cond.ops[i], g[i + 1]), Append(outer, after))
                <5>. HIDE DEF Adds, Sum
                <5>. QED BY <2>1, <2>2, <3>1, <4>1, ReadJoined
            <4>. QED BY <2>2, <4>2
        <3>7. Sum(next, i + 1) = Sum(at, i)
            <4>1. UpToOr(cond, i + 1) \in SUBSET Row
                BY <1>6, <2>1
            <4>2. CASE cond.ops[i] = "and"
                BY <1>2, <3>1, <3>4, <4>2
            <4>3. CASE cond.ops[i] = "or"
                BY <1>2, <3>1, <3>4, <4>1, <4>3
            <4>. QED BY <3>2, <4>2, <4>3
        <3>. HIDE DEF Sum
        <3>. QED BY <3>5, <3>6, <3>7
    <2>. HIDE DEF Sum
    <2>. QED BY <2>1, <2>3, <2>4
<1>. HIDE DEF S
<1>10. 1..n \subseteq S
    BY <1>1, <1>8, <1>9, FromTheLast
<1>11. Adds(1)
    <2>1. 1 \in S
        BY <1>1, <1>10
    <2>. HIDE DEF Adds
    <2>. QED BY <2>1 DEF S
<1>. QED BY <1>5, <1>11

\* The rows that satisfy a condition.
Satisfying(cond) == {row \in Row : Satisfies(row, cond)}

LEMMA SatisfyingIs ==
    ASSUME NEW cond, IsCondition(cond)
    PROVE  Satisfying(cond) = UpToOr(cond, 1) \cup AfterOr(cond, 1)
<1>. DEFINE n == Len(cond.items)
<1>1. n \in Nat \ {0}
    BY DEF IsCondition
<1>2. \A row \in Row : \A k : row \in Holds(cond.items[k]) <=> row[cond.items[k]]
    BY DEF Holds
<1>3. \A i : UpToOr(cond, i) = {row \in Row : \E j \in i..n :
            (cond.ops[j] = "or" \/ j = n) /\ \A k \in i..j : row \in Holds(cond.items[k])}
    BY DEF UpToOr
<1>4. ASSUME NEW row \in Row
      PROVE  Satisfies(row, cond) <=>
                \E i \in 1..n : (i = 1 \/ cond.ops[i - 1] = "or") /\ row \in UpToOr(cond, i)
    <2>1. Satisfies(row, cond) <=> \E i \in 1..n : \E j \in i..n :
              /\ i = 1 \/ cond.ops[i - 1] = "or"
              /\ j = n \/ cond.ops[j] = "or"
              /\ \A k \in i..j : row \in Holds(cond.items[k])
        BY <1>2 DEF Satisfies
    <2>. HIDE DEF n
    <2>. QED BY <1>3, <2>1
<1>5. AfterOr(cond, 1) =
          {row \in Row : \E k \in (1 + 1)..n : cond.ops[k - 1] = "or" /\ row \in UpToOr(cond, k)}
    BY DEF AfterOr
<1>. HIDE DEF n
<1>6. 1 \in 1..n /\ (\A k \in (1 + 1)..n : k \in 1..n) /\ \A i \in 1..n : i = 1 \/ i \in (1 + 1)..n
    BY <1>1
<1>7. UpToOr(cond, 1) \subseteq Row /\ AfterOr(cond, 1) \subseteq Row
    BY <1>3, <1>5
<1>8. ASSUME NEW row \in Row
      PROVE  Satisfies(row, cond) <=> row \in UpToOr(cond, 1) \/ row \in AfterOr(cond, 1)
    BY <1>4, <1>5, <1>6
<1>. QED BY <1>7, <1>8 DEF Satisfying

LEMMA SatisfyingAll ==
    ASSUME NEW cond, IsCondition(cond), \A k \in 1..Len(cond.items) : cond.items[k] \in Own,
           \A i \in 1..(Len(cond.items) - 1) : cond.ops[i] = "and"
    PROVE  Satisfying(cond) = CountsOwn(cond)
<1>. DEFINE n == Len(cond.items)
<1>1. n \in Nat \ {0}
    BY DEF IsCondition
<1>2. ASSUME NEW row \in Row
      PROVE  /\ row \in CountsOwn(cond) <=> \A k \in 1..n : row[cond.items[k]]
             /\ Satisfies(row, cond) <=> \E i \in 1..n : \E j \in i..n :
                    /\ i = 1 \/ cond.ops[i - 1] = "or"
                    /\ j = n \/ cond.ops[j] = "or"
                    /\ \A k \in i..j : row[cond.items[k]]
    <2>1. \A k \in 1..n : row \in Kept(cond.items[k]) <=> row[cond.items[k]]
        BY DEF Kept, Holds
    <2>. QED BY <2>1 DEF CountsOwn, Satisfies
<1>3. \A i \in 1..(n - 1) : cond.ops[i] # "or"
    OBVIOUS
<1>. HIDE DEF n
<1>4. \A i \in 1..n : i = 1 \/ i - 1 \in 1..(n - 1)
    BY <1>1
<1>5. \A j \in 1..n : j = n \/ j \in 1..(n - 1)
    BY <1>1
<1>6. 1 \in 1..n /\ n \in 1..n
    BY <1>1
<1>7. ASSUME NEW row \in Row PROVE Satisfies(row, cond) <=> \A k \in 1..n : row[cond.items[k]]
    <2>1. ASSUME Satisfies(row, cond) PROVE \A k \in 1..n : row[cond.items[k]]
        <3>1. PICK i \in 1..n : \E j \in i..n :
                    /\ i = 1 \/ cond.ops[i - 1] = "or"
                    /\ j = n \/ cond.ops[j] = "or"
                    /\ \A k \in i..j : row[cond.items[k]]
            BY <1>2, <2>1
        <3>2. i = 1
            BY <1>3, <1>4, <3>1
        <3>3. PICK j \in 1..n : (j = n \/ cond.ops[j] = "or") /\ \A k \in 1..j : row[cond.items[k]]
            BY <3>1, <3>2
        <3>4. j = n
            BY <1>3, <1>5, <3>3
        <3>. QED BY <3>3, <3>4
    <2>. QED BY <1>2, <1>6, <2>1
<1>8. CountsOwn(cond) \subseteq Row
    BY DEF CountsOwn
<1>. QED BY <1>2, <1>7, <1>8 DEF Satisfying

\* What criteria say from a place on.
Means(exp, i) ==
    LET m == Len(exp.items)
    IN  {row \in Row : \E k \in i..m :
            /\ row \in Satisfying(exp.items[k])
            /\ k = m \/ exp.ops[k] = "or"
            /\ \A j \in i..(k - 1) : exp.ops[j] = "and" => row \in Satisfying(exp.items[j])}

LEMMA MeansIs ==
    ASSUME NEW exp, IsCriteria(exp)
    PROVE  LET m == Len(exp.items)
           IN  /\ Meant(exp) = Means(exp, 1)
               /\ Means(exp, m) = Satisfying(exp.items[m])
               /\ \A i \in 1..(m - 1) :
                     /\ exp.ops[i] = "and" =>
                           Means(exp, i) = Satisfying(exp.items[i]) \cap Means(exp, i + 1)
                     /\ exp.ops[i] = "or" =>
                           Means(exp, i) = Satisfying(exp.items[i]) \cup Means(exp, i + 1)
<1>. DEFINE m == Len(exp.items)
            S(k) == Satisfying(exp.items[k])
<1>1. m \in Nat \ {0} /\ DOMAIN exp.items = 1..m
    BY DEF IsCriteria
<1>2. \A k : S(k) \subseteq Row
    BY DEF Satisfying
<1>3. \A i : Means(exp, i) = {row \in Row : \E k \in i..m :
            /\ row \in S(k)
            /\ k = m \/ exp.ops[k] = "or"
            /\ \A j \in i..(k - 1) : exp.ops[j] = "and" => row \in S(j)}
    BY DEF Means
<1>4. Meant(exp) = {row \in Row : \E k \in 1..m :
            /\ row \in S(k)
            /\ k = m \/ exp.ops[k] = "or"
            /\ \A j \in 1..(k - 1) : exp.ops[j] = "and" => row \in S(j)}
    <2>1. \A row \in Row : \A k : row \in S(k) <=> Satisfies(row, exp.items[k])
        BY DEF Satisfying
    <2>2. Meant(exp) = {row \in Row : \E i \in 1..m :
            /\ Satisfies(row, exp.items[i])
            /\ i = m \/ exp.ops[i] = "or"
            /\ \A j \in 1..(i - 1) : exp.ops[j] = "and" => Satisfies(row, exp.items[j])}
        BY <1>1 DEF Meant
    <2>. HIDE DEF S, m
    <2>. QED BY <2>1, <2>2
<1>. HIDE DEF m, S
<1>5. Means(exp, m) = S(m)
    <2>1. (\A k \in m..m : k = m) /\ m \in m..m /\ m..(m - 1) = {}
        BY <1>1
    <2>. QED BY <1>2, <1>3, <2>1
<1>6. ASSUME NEW i \in 1..(m - 1)
      PROVE  /\ exp.ops[i] = "and" => Means(exp, i) = S(i) \cap Means(exp, i + 1)
             /\ exp.ops[i] = "or" => Means(exp, i) = S(i) \cup Means(exp, i + 1)
    <2>1. i \in i..m /\ i # m /\ i..(i - 1) = {}
        BY <1>1
    <2>2. \A k \in (i + 1)..m : k \in i..m /\ i \in i..(k - 1)
        BY <1>1
    <2>3. \A k \in i..m : k = i \/ k \in (i + 1)..m
        BY <1>1
    <2>4. \A k \in (i + 1)..m : \A j \in i..(k - 1) : j = i \/ j \in (i + 1)..(k - 1)
        BY <1>1
    <2>5. \A k \in (i + 1)..m : \A j \in (i + 1)..(k - 1) : j \in i..(k - 1)
        BY <1>1
    <2>. DEFINE Before(row, from, k) == \A j \in from..(k - 1) : exp.ops[j] = "and" => row \in S(j)
                Ends(row, k) == row \in S(k) /\ (k = m \/ exp.ops[k] = "or")
    <2>6. ASSUME NEW row \in Row, NEW k \in (i + 1)..m
          PROVE  Before(row, i, k) <=> (exp.ops[i] = "and" => row \in S(i)) /\ Before(row, i + 1, k)
        BY <2>2, <2>4, <2>5
    <2>7. \A row \in Row : Before(row, i, i)
        BY <2>1
    <2>8. ASSUME NEW row \in Row
          PROVE  /\ row \in Means(exp, i) <=> \E k \in i..m : Ends(row, k) /\ Before(row, i, k)
                 /\ row \in Means(exp, i + 1) <=>
                       \E k \in (i + 1)..m : Ends(row, k) /\ Before(row, i + 1, k)
        BY <1>3
    <2>9. \A row \in Row : Ends(row, i) <=> row \in S(i) /\ exp.ops[i] = "or"
        BY <2>1
    <2>. HIDE DEF Before, Ends
    <2>10. ASSUME NEW row \in Row
           PROVE  row \in Means(exp, i) <=>
                    \/ row \in S(i) /\ exp.ops[i] = "or"
                    \/ (exp.ops[i] = "and" => row \in S(i)) /\ row \in Means(exp, i + 1)
        <3>1. ASSUME row \in Means(exp, i)
              PROVE  \/ row \in S(i) /\ exp.ops[i] = "or"
                     \/ (exp.ops[i] = "and" => row \in S(i)) /\ row \in Means(exp, i + 1)
            <4>1. PICK k \in i..m : Ends(row, k) /\ Before(row, i, k)
                BY <2>8, <3>1
            <4>2. CASE k = i
                BY <2>9, <4>1, <4>2
            <4>3. CASE k \in (i + 1)..m
                BY <2>6, <2>8, <4>1, <4>3
            <4>. QED BY <2>3, <4>2, <4>3
        <3>2. ASSUME row \in S(i) /\ exp.ops[i] = "or" PROVE row \in Means(exp, i)
            BY <2>1, <2>7, <2>8, <2>9, <3>2
        <3>3. ASSUME (exp.ops[i] = "and" => row \in S(i)) /\ row \in Means(exp, i + 1)
              PROVE  row \in Means(exp, i)
            <4>1. PICK k \in (i + 1)..m : Ends(row, k) /\ Before(row, i + 1, k)
                BY <2>8, <3>3
            <4>. QED BY <2>2, <2>6, <2>8, <3>3, <4>1
        <3>. QED BY <3>1, <3>2, <3>3
    <2>11. Means(exp, i) \subseteq Row /\ Means(exp, i + 1) \subseteq Row
        BY <1>3
    <2>. QED BY <1>2, <2>10, <2>11
<1>. QED BY <1>3, <1>4, <1>5, <1>6 DEF m, S

\* An enclosed condition of columns narrows its level to what satisfies it, and
\* with more after an OR to what satisfies either.
LEMMA OwnConditionNarrows ==
    ASSUME NEW cond, IsCondition(cond), \A k \in 1..Len(cond.items) : cond.items[k] \in Own,
           condition(cond) # <<>>
    PROVE  /\ Narrows(Enclosed(condition(cond), TRUE), Satisfying(cond))
           /\ \A q \in Seq(Symbol), K \in SUBSET Row :
                 q # <<>> /\ Narrows(q, K) =>
                     Narrows(Enclosed(Joined(condition(cond), "or", q), TRUE), Satisfying(cond) \cup K)
<1>. DEFINE p == condition(cond)
            sat == Satisfying(cond)
<1>1. p \in Seq(Symbol)
    BY ConditionsAreClauses
<1>2. Fresh \in Frame /\ Fresh.or = {} /\ Fresh.and = Row
    BY FramesOfLevels
<1>3. sat \in SUBSET Row
    BY DEF Satisfying
<1>4. ASSUME NEW outer \in Seq(Frame), NEW level \in Frame
      PROVE  \E after \in Frame :
                /\ ReadTo(Append(Append(outer, level), Fresh), p, Append(Append(outer, level), after))
                /\ Both(after) = sat
    <2>1. Append(outer, level) \in Seq(Frame)
        OBVIOUS
    <2>2. PICK after \in Frame :
              /\ ReadTo(Append(Append(outer, level), Fresh), p, Append(Append(outer, level), after))
              /\ Both(after) = Fresh.or \cup (Fresh.and \cap UpToOr(cond, 1)) \cup AfterOr(cond, 1)
        BY <1>2, <2>1, OwnConditionReads
    <2>3. UpToOr(cond, 1) \subseteq Row /\ sat = UpToOr(cond, 1) \cup AfterOr(cond, 1)
        BY SatisfyingIs DEF UpToOr
    <2>4. Both(after) = sat
        BY <1>2, <2>2, <2>3
    <2>. QED BY <2>2, <2>4
<1>5. ASSUME NEW outer \in Seq(Frame), NEW level \in Frame
      PROVE  ReadTo(Append(outer, level), Enclosed(p, TRUE),
                    Append(outer, Level(level.or, level.and \cap sat)))
    <2>1. PICK after \in Frame :
              /\ ReadTo(Append(Append(outer, level), Fresh), p, Append(Append(outer, level), after))
              /\ Both(after) = sat
        BY <1>4
    <2>2. ReadTo(Append(outer, level), Enclosed(p, TRUE),
                 Append(outer, Level(level.or, level.and \cap Both(after))))
        BY <1>1, <2>1, ReadEnclosed
    <2>. QED BY <2>1, <2>2
<1>6. ASSUME NEW q \in Seq(Symbol), NEW K \in SUBSET Row, q # <<>>, Narrows(q, K),
             NEW outer \in Seq(Frame), NEW level \in Frame
      PROVE  ReadTo(Append(outer, level), Enclosed(Joined(p, "or", q), TRUE),
                    Append(outer, Level(level.or, level.and \cap (sat \cup K))))
    <2>. DEFINE open == Append(outer, level)
                next == Level(sat, Row)
                last == Level(sat, Row \cap K)
    <2>1. open \in Seq(Frame) /\ "or" \in Op
        BY DEF Op
    <2>2. PICK after \in Frame :
              ReadTo(Append(open, Fresh), p, Append(open, after)) /\ Both(after) = sat
        BY <1>4
    <2>3. /\ next \in Frame /\ next.or = sat /\ next.and = Row
          /\ last \in Frame /\ Both(last) = sat \cup K
        <3>1. Row \in SUBSET Row /\ Row \cap K \in SUBSET Row /\ Row \cap K = K
            OBVIOUS
        <3>. QED BY <1>3, <3>1, FramesOfLevels
    <2>. HIDE DEF open
    <2>4. Taken(Append(open, after), "or") = Append(open, next)
        BY <2>1, <2>2, TakenIs
    <2>5. ReadTo(Append(open, next), q, Append(open, Level(next.or, next.and \cap K)))
        <3>. HIDE DEF next
        <3>. QED BY <1>6, <2>1, <2>3 DEF Narrows
    <2>6. ReadTo(Append(open, next), q, Append(open, last))
        <3>1. Level(next.or, next.and \cap K) = last
            BY <2>3
        <3>. HIDE DEF next, last
        <3>. QED BY <2>5, <3>1
    <2>. HIDE DEF next, last
    <2>7. ReadTo(Append(open, Fresh), Joined(p, "or", q), Append(open, last))
        BY <1>1, <1>6, <2>1, <2>2, <2>4, <2>6, ReadJoined
    <2>8. Joined(p, "or", q) \in Seq(Symbol) /\ Joined(p, "or", q) # <<>>
        BY <1>1, <1>6, <2>1, JoinedIsEmpty
    <2>9. ReadTo(open, Enclosed(Joined(p, "or", q), TRUE),
                 Append(outer, Level(level.or, level.and \cap Both(last))))
        BY <2>3, <2>7, <2>8, ReadEnclosed DEF open
    <2>. QED BY <2>3, <2>9 DEF open
<1>. HIDE DEF p, sat
<1>7. Narrows(Enclosed(p, TRUE), sat)
    BY <1>5 DEF Narrows
<1>8. ASSUME NEW q \in Seq(Symbol), NEW K \in SUBSET Row, q # <<>>, Narrows(q, K)
      PROVE  Narrows(Enclosed(Joined(p, "or", q), TRUE), sat \cup K)
    <2>1. \A outer \in Seq(Frame), level \in Frame :
              ReadTo(Append(outer, level), Enclosed(Joined(p, "or", q), TRUE),
                     Append(outer, Level(level.or, level.and \cap (sat \cup K))))
        BY <1>6, <1>8
    <2>. QED BY <2>1 DEF Narrows
<1>. QED BY <1>7, <1>8 DEF p, sat

\* Criteria of columns, of any length, are never refused, and select what they say
\* unless AND follows a condition with OR (expression, condition).
THEOREM OwnCriteriaSelectExactly ==
    ASSUME NEW exp, IsCriteria(exp)
    PROVE  OwnCriteriaAreExact(exp)
<1>. DEFINE n == Len(exp.items)
            parts == ConditionsOf(exp)
<1>. SUFFICES ASSUME Operands(exp) \subseteq Own
              PROVE  ~Refused(exp) /\ (~Torn(exp) => Affected(exp) = Meant(exp))
    BY DEF OwnCriteriaAreExact
<1>1. /\ n \in Nat \ {0} /\ IsChain(parts, n, exp.ops)
      /\ expression(exp) = Chained(parts, exp.ops, TRUE)
      /\ \A i \in 1..n : parts[i] = condition(exp.items[i]) /\ IsCondition(exp.items[i])
    BY CriteriaAreChain
<1>2. DOMAIN exp.items = 1..n /\ exp.ops \in [1..(n - 1) -> Op]
    BY DEF IsCriteria
<1>3. /\ Meant(exp) = Means(exp, 1)
      /\ Means(exp, n) = Satisfying(exp.items[n])
      /\ \A i \in 1..(n - 1) :
            /\ exp.ops[i] = "and" => Means(exp, i) = Satisfying(exp.items[i]) \cap Means(exp, i + 1)
            /\ exp.ops[i] = "or" => Means(exp, i) = Satisfying(exp.items[i]) \cup Means(exp, i + 1)
    BY MeansIs
<1>. HIDE DEF n, parts
<1>4. ASSUME NEW i \in 1..n
      PROVE  /\ \A k \in 1..Len(exp.items[i].items) : exp.items[i].items[k] \in Own
             /\ Joinable(parts[i])
    <2>. DEFINE cond == exp.items[i]
                m == Len(cond.items)
    <2>1. DOMAIN cond.items = 1..m
        BY <1>1 DEF IsCondition
    <2>2. ASSUME NEW k \in 1..m PROVE cond.items[k] \in Own
        <3>1. cond.items[k] \in Operands(exp)
            BY <1>2, <2>1 DEF Operands
        <3>. QED BY <3>1
    <2>3. /\ m \in Nat \ {0} /\ IsChain(ComparatorsOf(cond), m, cond.ops)
          /\ condition(cond) = Chained(ComparatorsOf(cond), cond.ops, FALSE)
          /\ \A k \in 1..m : ComparatorsOf(cond)[k] = comparator(cond.items[k])
        BY <1>1, ConditionIsChain
    <2>. HIDE DEF cond, m
    <2>4. \A k \in 1..m : Joinable(ComparatorsOf(cond)[k])
        BY <2>2, <2>3, ComparatorIsJoinable
    <2>5. Joinable(condition(cond))
        BY <2>3, <2>4, ChainIsJoinable
    <2>. QED BY <1>1, <2>2, <2>5 DEF cond, m
<1>5. Joinable(expression(exp))
    BY <1>1, <1>4, ChainIsJoinable
<1>6. ~Refused(exp) /\ expression(exp) \in Seq(Symbol) /\ expression(exp) # <<>>
    BY <1>5 DEF Refused, Joinable
<1>7. ASSUME ~Torn(exp) PROVE Affected(exp) = Meant(exp)
    <2>1. PICK g : IsWritten(g, parts, n, exp.ops, TRUE)
        BY <1>1, ChainIs, Zenon
    <2>2. /\ g \in [1..n -> Seq(Symbol)] /\ expression(exp) = g[1] /\ g[n] = Enclosed(parts[n], TRUE)
          /\ \A i \in 1..(n - 1) : g[i] = Enclosed(Joined(parts[i], exp.ops[i], g[i + 1]), TRUE)
        BY <1>1, <2>1 DEF IsWritten
    <2>3. \A i \in 1..n : Means(exp, i) \in SUBSET Row
        BY DEF Means
    <2>4. ASSUME NEW i \in 1..n
          PROVE  /\ parts[i] \in Seq(Symbol) /\ parts[i] # <<>>
                 /\ Satisfying(exp.items[i]) \in SUBSET Row
                 /\ Narrows(Enclosed(parts[i], TRUE), Satisfying(exp.items[i]))
                 /\ \A q \in Seq(Symbol), K \in SUBSET Row :
                       q # <<>> /\ Narrows(q, K) =>
                           Narrows(Enclosed(Joined(parts[i], "or", q), TRUE),
                                   Satisfying(exp.items[i]) \cup K)
        <3>1. parts[i] \in Seq(Symbol) /\ parts[i] # <<>> /\ parts[i] = condition(exp.items[i])
            BY <1>1, <1>4 DEF Joinable
        <3>2. Satisfying(exp.items[i]) \in SUBSET Row
            BY DEF Satisfying
        <3>3. /\ Narrows(Enclosed(condition(exp.items[i]), TRUE), Satisfying(exp.items[i]))
              /\ \A q \in Seq(Symbol), K \in SUBSET Row :
                    q # <<>> /\ Narrows(q, K) =>
                        Narrows(Enclosed(Joined(condition(exp.items[i]), "or", q), TRUE),
                                Satisfying(exp.items[i]) \cup K)
            BY <1>1, <1>4, <3>1, OwnConditionNarrows
        <3>. QED BY <3>1, <3>2, <3>3
    <2>. DEFINE S == {i \in 1..n : Narrows(g[i], Means(exp, i)) /\ g[i] # <<>>}
    <2>5. n \in S
        <3>1. n \in 1..n
            BY <1>1
        <3>2. parts[n] \in Seq(Symbol) /\ parts[n] # <<>>
            BY <2>4, <3>1
        <3>3. g[n] # <<>>
            BY <2>2, <3>2, EnclosedIsNotEmpty DEF Enclosed
        <3>4. Narrows(g[n], Means(exp, n))
            BY <1>3, <2>2, <2>4, <3>1
        <3>. QED BY <3>1, <3>3, <3>4
    <2>6. ASSUME NEW i \in 1..(n - 1), i + 1 \in S PROVE i \in S
        <3>1. i \in 1..n /\ i + 1 \in 1..n /\ exp.ops[i] \in Op /\ DOMAIN exp.ops = 1..(n - 1)
            BY <1>1, <1>2
        <3>2. /\ Narrows(g[i + 1], Means(exp, i + 1)) /\ g[i + 1] # <<>>
              /\ g[i + 1] \in Seq(Symbol) /\ Means(exp, i + 1) \in SUBSET Row
            BY <2>2, <2>3, <2>6, <3>1
        <3>3. parts[i] \in Seq(Symbol) /\ parts[i] # <<>>
            BY <2>4, <3>1
        <3>. DEFINE joined == Joined(parts[i], exp.ops[i], g[i + 1])
        <3>4. joined \in Seq(Symbol) /\ joined # <<>> /\ g[i] = Enclosed(joined, TRUE)
            BY <2>2, <3>1, <3>2, <3>3, JoinedIsEmpty
        <3>. HIDE DEF joined
        <3>5. g[i] # <<>>
            BY <3>4, EnclosedIsNotEmpty DEF Enclosed
        <3>6. CASE exp.ops[i] = "or"
            <4>1. Narrows(Enclosed(Joined(parts[i], "or", g[i + 1]), TRUE),
                          Satisfying(exp.items[i]) \cup Means(exp, i + 1))
                BY <2>4, <3>1, <3>2
            <4>2. Narrows(g[i], Means(exp, i))
                BY <1>3, <3>4, <3>6, <4>1 DEF joined
            <4>. QED BY <3>1, <3>5, <4>2
        <3>7. CASE exp.ops[i] = "and"
            <4>1. \A k \in 1..(Len(exp.items[i].items) - 1) : exp.items[i].ops[k] = "and"
                <5>1. exp.items[i].ops \in [1..(Len(exp.items[i].items) - 1) -> Op]
                    BY <1>1, <3>1 DEF IsCondition
                <5>2. "or" \notin {exp.items[i].ops[k] : k \in DOMAIN exp.items[i].ops}
                    BY <1>7, <3>1, <3>7 DEF Torn
                <5>. QED BY <5>1, <5>2 DEF Op
            <4>2. Narrows(parts[i], Satisfying(exp.items[i]))
                <5>1. Narrows(condition(exp.items[i]), CountsOwn(exp.items[i]))
                    BY <1>1, <3>1, <4>1, AndConditions
                <5>2. Satisfying(exp.items[i]) = CountsOwn(exp.items[i])
                    BY <1>1, <1>4, <3>1, <4>1, SatisfyingAll
                <5>. QED BY <1>1, <3>1, <5>1, <5>2
            <4>3. Satisfying(exp.items[i]) \in SUBSET Row
                BY <2>4, <3>1
            <4>4. Narrows(joined, Satisfying(exp.items[i]) \cap Means(exp, i + 1))
                BY <3>2, <3>3, <3>7, <4>2, <4>3, NarrowsJoined DEF joined
            <4>5. Narrows(joined, Means(exp, i)) /\ Means(exp, i) \in SUBSET Row
                BY <1>3, <2>3, <3>1, <3>7, <4>4
            <4>6. Narrows(g[i], Means(exp, i))
                BY <3>4, <4>5, NarrowsEnclosed
            <4>. QED BY <3>1, <3>5, <4>6
        <3>. QED BY <3>1, <3>6, <3>7 DEF Op
    <2>. HIDE DEF S
    <2>7. 1..n \subseteq S /\ 1 \in 1..n
        BY <1>1, <2>5, <2>6, FromTheLast
    <2>8. Narrows(expression(exp), Meant(exp)) /\ Meant(exp) \in SUBSET Row
        BY <1>3, <2>2, <2>3, <2>7 DEF S
    <2>9. Selects(expression(exp)) = Meant(exp)
        BY <1>6, <2>8, SelectsNarrowed
    <2>. QED BY <1>6, <2>9 DEF Affected
<1>. QED BY <1>6, <1>7

-----------------------------------------------------------------------------
(* Groups and their pages                                                  *)

\* A number in reach of a BIGINT is not wrapped.
LEMMA SmallIsNotWrapped ==
    ASSUME NEW n \in Nat, n < Half
    PROVE  Wrapped(n) = n
<1>1. n + Half >= 0 /\ n + Half < Span /\ Span > 0 /\ Span \in Int /\ Half \in Int
    BY WidthAssumption DEF Span
<1>2. (n + Half) % Span = n + Half
    BY <1>1
<1>. QED BY <1>1, <1>2 DEF Wrapped

\* In a list of groups that the rank tells apart, as many come before a group as
\* have a lower rank.
LEMMA PlacesInOrder ==
    ASSUME NEW T, IsFiniteSet(T), NEW rank, \A x \in T : rank[x] \in Nat,
           \A g, x \in T : rank[g] = rank[x] => g = x,
           NEW s \in OrderBy(T, rank), NEW i \in 1..Len(s)
    PROVE  Cardinality({x \in T : rank[x] < rank[s[i]]}) = i - 1
<1>. DEFINE before == {x \in T : rank[x] < rank[s[i]]}
            f == [j \in 1..(i - 1) |-> s[j]]
<1>1. /\ s \in SetToSeqs(T)
      /\ \A j, k \in DOMAIN s : j < k => rank[s[j]] <= rank[s[k]]
    BY DEF OrderBy
<1>2. /\ s \in Seq(T)
      /\ \A j, k \in DOMAIN s : s[j] = s[k] => j = k
      /\ \A x \in T : \E j \in DOMAIN s : s[j] = x
    BY <1>1, SequencesOfAll
<1>3. Len(s) \in Nat /\ DOMAIN s = 1..Len(s) /\ \A j \in 1..Len(s) : s[j] \in T /\ rank[s[j]] \in Nat
    BY <1>2
<1>4. ASSUME NEW j \in 1..Len(s), NEW k \in 1..Len(s), j < k PROVE rank[s[j]] < rank[s[k]]
    <2>1. rank[s[j]] <= rank[s[k]]
        BY <1>1, <1>3, <1>4
    <2>2. rank[s[j]] # rank[s[k]]
        BY <1>2, <1>3, <1>4
    <2>. QED BY <1>3, <2>1, <2>2
<1>5. ASSUME NEW j \in 1..(i - 1) PROVE s[j] \in before
    <2>1. j \in 1..Len(s) /\ j < i
        BY <1>3
    <2>. QED BY <1>3, <1>4, <2>1
<1>6. ASSUME NEW x \in before PROVE \E j \in 1..(i - 1) : s[j] = x
    <2>1. PICK j \in 1..Len(s) : s[j] = x
        BY <1>2, <1>3
    <2>2. ~(i < j) /\ j # i
        BY <1>3, <1>4, <2>1
    <2>3. j \in 1..(i - 1)
        BY <1>3, <2>2
    <2>. QED BY <2>1, <2>3
<1>7. \A j, k \in 1..(i - 1) : s[j] = s[k] => j = k
    <2>1. \A j \in 1..(i - 1) : j \in DOMAIN s
        BY <1>3
    <2>. QED BY <1>2, <2>1
<1>. HIDE DEF before
<1>8. f \in Bijection(1..(i - 1), before)
    <2>1. f \in [1..(i - 1) -> before]
        BY <1>5
    <2>2. f \in Injection(1..(i - 1), before)
        BY <1>7, <2>1 DEF Injection, IsInjective
    <2>3. f \in Surjection(1..(i - 1), before)
        BY <1>6, <2>1 DEF Surjection
    <2>. QED BY <2>2, <2>3 DEF Bijection
<1>. HIDE DEF f
<1>9. IsFiniteSet(1..(i - 1)) /\ Cardinality(1..(i - 1)) = i - 1
    <2>1. 1 \in Int /\ i - 1 \in Int /\ i - 1 >= 0
        BY <1>3
    <2>2. /\ IsFiniteSet(1..(i - 1))
          /\ Cardinality(1..(i - 1)) = IF 1 > i - 1 THEN 0 ELSE (i - 1) - 1 + 1
        BY <2>1, FS_Interval
    <2>. QED BY <2>1, <2>2
<1>10. ExistsBijection(1..(i - 1), before)
    BY <1>8 DEF ExistsBijection
<1>11. Cardinality(before) = i - 1
    BY <1>9, <1>10, FS_Bijection
<1>. QED BY <1>11 DEF before

\* A page holds the groups at its places, in their order.
LEMMA PageHolds ==
    ASSUME NEW T, NEW s \in Seq(T), NEW page \in Nat, NEW limit \in Nat,
           page * limit < Half
    PROVE  LET p == OnPage(s, page, limit)
               from == IF limit = 0 THEN 0 ELSE page * limit
           IN  /\ p \in Seq(T)
               /\ \A k \in 1..Len(p) : from + k \in 1..Len(s) /\ p[k] = s[from + k]
               /\ limit > 0 => Len(p) <= limit
               /\ \A i \in 1..Len(s) :
                     i > from /\ (limit > 0 => i <= from + limit) => i - from \in 1..Len(p)
<1>1. CASE limit = 0
    BY <1>1 DEF OnPage
<1>2. CASE limit > 0
    <2>. DEFINE start == page * limit
                to == IF start + limit < Len(s) THEN start + limit ELSE Len(s)
                p == SubSeq(s, start + 1, to)
    <2>1. start \in Nat /\ Len(s) \in Nat
        OBVIOUS
    <2>2. Offset(page, limit) = start
        BY <2>1, SmallIsNotWrapped DEF Offset
    <2>3. OnPage(s, page, limit) = p
        <3>1. limit # 0
            BY <1>2
        <3>2. OnPage(s, page, limit) =
                  SubSeq(s, Offset(page, limit) + 1,
                         IF Offset(page, limit) + limit < Len(s) THEN Offset(page, limit) + limit
                         ELSE Len(s))
            BY <3>1, Zenon DEF OnPage
        <3>. QED BY <2>2, <3>2
    <2>. HIDE DEF start
    <2>4. to \in Int /\ to <= Len(s) /\ (to = Len(s) \/ to = start + limit) /\ to <= start + limit
        BY <2>1
    <2>. HIDE DEF to
    <2>5. /\ p \in Seq(T)
          /\ Len(p) = IF start + 1 <= to THEN to - start ELSE 0
          /\ \A k \in 1..Len(p) : p[k] = s[start + k]
        <3>1. CASE start + 1 <= to
            BY <2>1, <2>4, <3>1
        <3>2. CASE ~(start + 1 <= to)
            BY <2>1, <2>4, <3>2
        <3>. QED BY <3>1, <3>2
    <2>. HIDE DEF p
    <2>6. \A k \in 1..Len(p) : start + k \in 1..Len(s)
        BY <2>1, <2>4, <2>5
    <2>7. Len(p) <= limit
        BY <1>2, <2>1, <2>4, <2>5
    <2>8. \A i \in 1..Len(s) : i > start /\ i <= start + limit => i - start \in 1..Len(p)
        BY <1>2, <2>1, <2>4, <2>5
    <2>. QED BY <1>2, <2>3, <2>5, <2>6, <2>7, <2>8 DEF start
<1>. QED BY <1>1, <1>2

\* HAVING lets through what it says.
LEMMA HavingLetsThrough ==
    ASSUME NEW S \in SUBSET Row, NEW q, \A exp \in q.having : IsCriteria(exp),
           \A exp, other \in q.having : exp = other,
           \A exp \in q.having : Operators(exp) \subseteq {"and"} /\ ~Refused(exp)
    PROVE  Having(S, q) = LetThrough(S, q)
<1>1. CASE q.having = {}
    BY <1>1 DEF Having, LetThrough
<1>2. CASE q.having # {}
    <2>1. PICK exp \in q.having : TRUE
        BY <1>2
    <2>2. q.having = {exp}
        BY <2>1
    <2>3. Affected(exp) = {row \in Row : \A c \in Operands(exp) \cap Own : row[c]}
        BY <2>1, DroppedOperandsOnlyWiden DEF DroppedOperandsWiden
    <2>4. Having(S, q) = S \cap Affected(exp)
        BY <2>2 DEF Having
    <2>5. LetThrough(S, q) = {g \in S : \A c \in Operands(exp) \cap Own : g[c]}
        BY <2>2 DEF LetThrough
    <2>. QED BY <2>3, <2>4, <2>5
<1>. QED BY <1>1, <1>2

\* A group is on the page of its place and on no other, for any groups, ranks,
\* limits and pages, and no page lacks one unless its result broke off
\* (query2AggregateSql, scanAggregateRows).
THEOREM GroupsStayOnTheirPage ==
    ASSUME NEW S \in SUBSET Row, IsFiniteSet(S), NEW q, NEW page \in Nat, NEW breaks \in BOOLEAN,
           \A g \in S : q.rank[g] \in Nat, q.limit \in Nat,
           \A exp, other \in q.having : exp = other,
           \A exp \in q.having : IsCriteria(exp)
    PROVE  GroupsAreOnTheirPage(S, q, page, breaks)
<1>. DEFINE T == LetThrough(S, q)
            limit == q.limit
            place(g) == Cardinality({x \in T : q.rank[x] < q.rank[g]})
            apart == \A g, x \in S : q.rank[g] = q.rank[x] => g = x
            from == IF limit = 0 THEN 0 ELSE page * limit
<1>. SUFFICES ASSUME limit = 0 \/ apart, page * limit < Half,
                     \A exp \in q.having : Operators(exp) \subseteq {"and"},
                     ~StatementRefused(q, page),
                     NEW result \in Results(S, q, page),
                     NEW answer \in scanAggregateRows(result, breaks)
              PROVE  /\ \A i, j \in DOMAIN answer : answer[i] = answer[j] => i = j
                     /\ \A i \in DOMAIN answer :
                           answer[i] \in T /\ (limit > 0 => place(answer[i]) \div limit = page)
                     /\ ~breaks => \A g \in T :
                           limit = 0 \/ place(g) \div limit = page =>
                               \E i \in DOMAIN answer : answer[i] = g
    <2>. DEFINE On(through) ==
            LET at(g) == Cardinality({x \in through : q.rank[x] < q.rank[g]})
            IN  (/\ limit = 0 \/ apart
                 /\ page * limit < Half
                 /\ \A exp \in q.having : Operators(exp) \subseteq {"and"}
                 /\ ~StatementRefused(q, page)) =>
                \A res \in Results(S, q, page) : \A ans \in scanAggregateRows(res, breaks) :
                    /\ \A i, j \in DOMAIN ans : ans[i] = ans[j] => i = j
                    /\ \A i \in DOMAIN ans :
                          ans[i] \in through /\ (limit > 0 => at(ans[i]) \div limit = page)
                    /\ ~breaks => \A g \in through :
                          limit = 0 \/ at(g) \div limit = page => \E i \in DOMAIN ans : ans[i] = g
    <2>1. GroupsAreOnTheirPage(S, q, page, breaks) <=> \A through \in {T} : On(through)
        BY Zenon DEF GroupsAreOnTheirPage
    <2>2. On(T)
        <3>. HIDE DEF T, limit, apart
        <3>. QED BY Zenon
    <2>. HIDE DEF On
    <2>. QED BY <2>1, <2>2
<1>1. Having(S, q) = T
    <2>1. \A exp \in q.having : ~Refused(exp)
        BY DEF StatementRefused
    <2>. QED BY <2>1, HavingLetsThrough
<1>2. IsFiniteSet(T) /\ T \subseteq S /\ \A g \in T : q.rank[g] \in Nat
    <2>1. T \subseteq S
        BY DEF LetThrough
    <2>. HIDE DEF T
    <2>. QED BY <2>1, FS_Subset
<1>. HIDE DEF T
<1>3. PICK s \in OrderBy(T, q.rank) : result = OnPage(s, page, limit)
    BY <1>1 DEF Results
<1>4. /\ s \in Seq(T)
      /\ \A i, j \in DOMAIN s : s[i] = s[j] => i = j
      /\ \A x \in T : \E i \in DOMAIN s : s[i] = x
    BY <1>2, <1>3, SequencesOfAll DEF OrderBy
<1>5. Len(s) \in Nat /\ DOMAIN s = 1..Len(s)
    BY <1>4
<1>6. from \in Nat
    OBVIOUS
<1>7. /\ result \in Seq(T)
      /\ \A k \in 1..Len(result) : from + k \in 1..Len(s) /\ result[k] = s[from + k]
      /\ limit > 0 => Len(result) <= limit
      /\ \A i \in 1..Len(s) :
            i > from /\ (limit > 0 => i <= from + limit) => i - from \in 1..Len(result)
    <2>1. limit \in Nat /\ page * limit < Half
        OBVIOUS
    <2>. HIDE DEF limit
    <2>. QED BY <1>3, <1>4, <2>1, PageHolds DEF from
<1>8. ASSUME limit > 0, NEW i \in 1..Len(s)
      PROVE  place(s[i]) \div limit = page <=> i > from /\ i <= from + limit
    <2>1. place(s[i]) = i - 1
        <3>1. \A g, x \in T : q.rank[g] = q.rank[x] => g = x
            BY <1>2, <1>8
        <3>. QED BY <1>2, <1>3, <3>1, PlacesInOrder
    <2>. HIDE DEF place
    <2>2. i - 1 \in Nat /\ page * limit = from
        BY <1>5, <1>8
    <2>3. (i - 1) \div limit = page <=> page * limit <= i - 1 /\ i - 1 < page * limit + limit
        BY <1>8, <2>2, PageOf
    <2>. HIDE DEF from
    <2>. QED BY <1>5, <1>6, <1>8, <2>1, <2>2, <2>3
<1>9. /\ answer \in Seq(T) /\ Len(answer) <= Len(result)
      /\ \A k \in 1..Len(answer) : answer[k] = result[k]
      /\ ~breaks => answer = result
    <2>1. CASE ~breaks
        BY <1>7, <2>1 DEF scanAggregateRows
    <2>2. CASE breaks
        <3>1. PICK l \in 0..Len(result) : answer = SubSeq(result, 1, l)
            BY <2>2 DEF scanAggregateRows, Prefixes
        <3>2. Len(result) \in Nat /\ l \in Nat /\ l <= Len(result)
            BY <1>7, <3>1
        <3>. QED BY <1>7, <2>2, <3>1, <3>2
    <2>. QED BY <2>1, <2>2
<1>10. /\ DOMAIN answer = 1..Len(answer) /\ Len(answer) \in Nat /\ Len(result) \in Nat
       /\ \A k \in 1..Len(answer) :
             /\ from + k \in 1..Len(s) /\ answer[k] = s[from + k] /\ answer[k] \in T
             /\ k \in 1..Len(result)
    BY <1>7, <1>9
<1>. HIDE DEF from, place
<1>11. ASSUME NEW i \in DOMAIN answer, NEW j \in DOMAIN answer, answer[i] = answer[j]
       PROVE  i = j
    <2>1. from + i = from + j
        BY <1>4, <1>5, <1>10, <1>11
    <2>. QED BY <1>6, <1>10, <2>1
<1>12. ASSUME NEW i \in DOMAIN answer, limit > 0 PROVE place(answer[i]) \div limit = page
    <2>1. i \in 1..Len(result) /\ from + i \in 1..Len(s) /\ answer[i] = s[from + i]
        BY <1>10
    <2>2. from + i > from /\ from + i <= from + limit
        BY <1>6, <1>7, <1>10, <1>12, <2>1
    <2>. QED BY <1>8, <1>12, <2>1, <2>2
<1>13. ASSUME ~breaks, NEW g \in T, limit = 0 \/ place(g) \div limit = page
       PROVE  \E i \in DOMAIN answer : answer[i] = g
    <2>1. PICK k \in 1..Len(s) : s[k] = g
        BY <1>4, <1>5
    <2>2. k > from /\ (limit > 0 => k <= from + limit)
        <3>1. CASE limit = 0
            BY <1>5, <3>1 DEF from
        <3>2. CASE limit > 0
            BY <1>8, <1>13, <2>1, <3>2
        <3>. QED BY <3>1, <3>2
    <2>3. k - from \in 1..Len(result)
        BY <1>7, <2>2
    <2>4. k - from \in DOMAIN answer /\ from + (k - from) = k
        BY <1>5, <1>6, <1>9, <1>10, <1>13, <2>3
    <2>5. answer[k - from] = s[k]
        BY <1>10, <2>4
    <2>. QED BY <2>1, <2>4, <2>5
<1>. QED BY <1>10, <1>11, <1>12, <1>13
=============================================================================
