------------------------- MODULE OrmCoherenceProofs -------------------------
(***************************************************************************)
(* Theorems about what the cache of OrmService holds and what a GET        *)
(* answers, for any keys, columns, children, values, lists, queries and    *)
(* number of requests, while the service is active and as it ends.         *)
(*                                                                         *)
(* The argument is about one key at a time.  Two requests on one key, one  *)
(* of them a writer, have marked it as raced, and whoever ends leaves it   *)
(* suspect; so a writer that has not marked a key is alone on it, and what *)
(* cache and database hold of it follows from how far that writer is.      *)
(***************************************************************************)
EXTENDS OrmServiceProofs, FiniteSetTheorems

Flies(q) == q.pc \notin {"idle"} \cup Ended
Writes(q) == q.op \in WriteOps
KeysHeld(S) == {e.key : e \in S}

Matches(o, crit) == Main \in Parts(o) /\ o[Main] \in crit
Plain(o) == o = None \/ Main \in Parts(o)

\* The elements for k among the first of a list, up to where its loop is.
Handled(q, k) == {i \in DOMAIN q.elems : i < q.i /\ q.elems[i].key = k}

\* One record of each key.
Once(S) == \A e, f \in S : e.key = f.key => e = f

\* Where a request of each kind can be.
Shape(q) ==
    /\ q.op \in ReadOps \cup WriteOps
    /\ q.op \in {"POST", "PUT"} => q.pc \in {"cacheAction", "Write"}
    /\ q.op = "PATCH" =>
          q.pc \in {"cacheAction", "patchRead", "patchFill", "cachePatch", "Write"}
    /\ q.op = "DELETE" => q.pc = "Delete" /\ Touches(q) = {q.elems[1].key}
    /\ q.op = "DELETE query" => q.pc \in {"Delete query", "evict"}
    /\ q.op \in ReadOps => q.pc \in {"Read", "fill"}
    /\ q.op = "GET aggregate" => q.paging.limit = 0 /\ q.asked = Part
    /\ q.op = "PATCH" => q.asked = Part
    /\ q.pc = "Write" => q.i = Len(q.elems) + 1
    /\ q.raced \subseteq Touches(q)
    /\ KeysHeld(q.todo) \subseteq Touches(q)
    /\ q.pc = "fill" => KeysHeld(q.hold) \subseteq Touches(q) /\ Once(q.hold)

\* Cache and database agree, if the cache has a piece c of the object d of the
\* database: none where there is one only if p, and not the whole only if t.
Agree(c, d, p, t) ==
    /\ c = None \/ PartOf(c, d)
    /\ ~p => (d # None => c # None)
    /\ ~t => (c # None => c = d)

\* What a writer knows of a key k it alone is at, of which cache and database
\* hold c and d, and which is suspect if s, partial if p and thin if t.
PutHolds(q, k, c, d, s, p, t) ==
    IF Handled(q, k) # {} THEN c = q.elems[Newest(Handled(q, k))].val
    ELSE s \/ Agree(c, d, p, t)

\* An object c that came of d by patching with the elements at some positions has
\* what the last element that gives a part says, and of the other parts what d has.
PatchedWith(elems, at, c, d) ==
    \A x \in DOMAIN c :
       IF Giving(elems, at, x) = {} THEN x \in DOMAIN d /\ c[x] = d[x]
       ELSE c[x] = elems[Newest(Giving(elems, at, x))].val[x]

Patched(q, k, c, d, t) ==
    /\ c # None /\ d # None
    /\ PatchedWith(q.elems, Handled(q, k), c, d)
    /\ ~t => DOMAIN d \subseteq DOMAIN c

PatchHolds(q, k, c, d, s, p, t) ==
    s \/ k \in q.lost \/
        /\ IF Handled(q, k) # {} THEN Patched(q, k, c, d, t) ELSE Agree(c, d, p, t)
        /\ q.pc = "patchFill" => \A e \in q.todo : e.key = k =>
              /\ Handled(q, k) = {}
              /\ PartOf(e.val, d)
              /\ ~q.cut => e.val = d

DeleteQueryHolds(q, k, c, d, s, p, t) ==
    \/ s
    \/ /\ q.pc = "Delete query"
       /\ Agree(c, d, p, t)
       /\ k \in q.lost \/ (Plain(c) /\ (k \in KeysHeld(q.todo) <=> Matches(c, q.crit)))
    \/ /\ q.pc = "evict"
       /\ \/ k \in q.lost
          \/ IF k \in KeysHeld(q.todo) THEN p \/ d = None ELSE Agree(c, d, p, t)

WriterHolds(q, k, c, d, s, p, t) ==
    /\ q.op \in {"POST", "PUT"} => PutHolds(q, k, c, d, s, p, t)
    /\ q.op = "PATCH" => PatchHolds(q, k, c, d, s, p, t)
    /\ q.op = "DELETE" => c = None
    /\ q.op = "DELETE query" => DeleteQueryHolds(q, k, c, d, s, p, t)

\* What a reader knows of a key no writer was at: a query goes to the database
\* only when no cached record matches it, and what was read is what is there.
ReaderHolds(q, k, d, s, p, t) ==
    /\ q.op = "GET query" => s \/ p \/ t \/ ~Matches(d, q.crit)
    /\ q.pc = "fill" =>
        /\ \A e \in q.todo : e.key = k =>
              PartOf(e.val, d) /\ (~q.cut /\ q.asked = Part => e.val = d)
        /\ \A e \in q.hold : e.key = k =>
              PartOf(e.val, d) /\ (~q.cut => q.asked \cap DOMAIN d \subseteq DOMAIN e.val)
        /\ q.op = "GET" /\ ~q.cut /\ d # None => k \in KeysHeld(q.hold)
        /\ q.op = "GET aggregate" /\ ~q.cut =>
              /\ \A e \in q.hold : e.key = k => e.val = d
              /\ k \in KeysHeld(q.hold) <=> Matches(d, q.crit)

Holds(q, k, c, d, s, p, t) ==
    IF Writes(q) THEN WriterHolds(q, k, c, d, s, p, t) ELSE ReaderHolds(q, k, d, s, p, t)

-----------------------------------------------------------------------------
\* Of two requests on one key, one a writer, each has marked it.
Marked ==
    \A r, x \in Request :
        r # x /\ Flies(req[r]) /\ Flies(req[x]) /\ (Writes(req[r]) \/ Writes(req[x]))
            => Touches(req[r]) \cap Touches(req[x]) \subseteq req[r].raced

\* A key a reader has marked is suspect, or the writer it raced with is still
\* there to make it so.
Tainted ==
    \A r \in Request : \A k \in req[r].raced :
        Flies(req[r]) /\ ~Writes(req[r]) =>
            \/ k \in suspect
            \/ \E w \in Request : Flies(req[w]) /\ Writes(req[w]) /\ k \in req[w].raced

\* What the requests in flight know of the keys they have not marked.  Without a
\* cache a writer knows nothing; what a reader has read is still what is there.
Knows(q) == phase = "active" \/ ~Writes(q)
Known ==
    \A r \in Request : Flies(req[r]) =>
        /\ Shape(req[r])
        /\ Knows(req[r]) => \A k \in Touches(req[r]) \ req[r].raced :
              Holds(req[r], k, cache[k], db[k], k \in suspect, k \in partial, k \in thin)

\* A key no writer is at is suspect, or cache and database agree on it.
Settled ==
    \A k \in Key \ suspect :
        (\A w \in Request : Flies(req[w]) /\ Writes(req[w]) => k \notin Touches(req[w]))
            => Agree(cache[k], db[k], k \in partial, k \in thin)

CacheInv == Marked /\ (phase = "active" => Tainted) /\ Known /\ Settled

-----------------------------------------------------------------------------
(* What is known of a key is kept                                          *)

\* A key may become suspect, partial or thin under a request that does not change
\* it.
LEMMA HoldsMonotone ==
    ASSUME NEW q, NEW k, NEW c, NEW d, NEW s, NEW p, NEW t, NEW s1, NEW p1, NEW t1,
           k \in s => k \in s1, k \in p => k \in p1, k \in t => k \in t1,
           Holds(q, k, c, d, k \in s, k \in p, k \in t)
    PROVE  Holds(q, k, c, d, k \in s1, k \in p1, k \in t1)
<1>1. Agree(c, d, k \in p, k \in t) => Agree(c, d, k \in p1, k \in t1)
  BY DEF Agree
<1>2. CASE Writes(q)
  <2>1. WriterHolds(q, k, c, d, k \in s, k \in p, k \in t)
    BY <1>2 DEF Holds
  <2>2. PutHolds(q, k, c, d, k \in s, k \in p, k \in t)
           => PutHolds(q, k, c, d, k \in s1, k \in p1, k \in t1)
    BY <1>1 DEF PutHolds
  <2>3. Patched(q, k, c, d, k \in t) => Patched(q, k, c, d, k \in t1)
    BY DEF Patched
  <2>4. PatchHolds(q, k, c, d, k \in s, k \in p, k \in t)
           => PatchHolds(q, k, c, d, k \in s1, k \in p1, k \in t1)
    BY <1>1, <2>3 DEF PatchHolds
  <2>5. DeleteQueryHolds(q, k, c, d, k \in s, k \in p, k \in t)
           => DeleteQueryHolds(q, k, c, d, k \in s1, k \in p1, k \in t1)
    BY <1>1 DEF DeleteQueryHolds
  <2> QED BY <1>2, <2>1, <2>2, <2>4, <2>5 DEF Holds, WriterHolds
<1>3. CASE ~Writes(q)
  BY <1>3 DEF Holds, ReaderHolds
<1> QED BY <1>2, <1>3

\* What is known does not depend on what a request has marked.
LEMMA HoldsUnmarked ==
    ASSUME NEW q, NEW q1, NEW k, NEW c, NEW d, NEW s, NEW p, NEW t,
           q1.pc = q.pc, q1.op = q.op, q1.elems = q.elems, q1.i = q.i,
           q1.crit = q.crit, q1.asked = q.asked, q1.paging = q.paging,
           q1.todo = q.todo, q1.hold = q.hold, q1.cut = q.cut, q1.lost = q.lost
    PROVE  /\ Holds(q, k, c, d, s, p, t) => Holds(q1, k, c, d, s, p, t)
           /\ Touches(q1) = Touches(q)
           /\ Flies(q1) = Flies(q) /\ Writes(q1) = Writes(q)
           /\ Shape(q) /\ q1.raced \subseteq Touches(q) => Shape(q1)
<1>1. Handled(q1, k) = Handled(q, k)
  BY DEF Handled
<1>2. Patched(q1, k, c, d, t) = Patched(q, k, c, d, t)
  BY <1>1 DEF Patched
<1>3. /\ PutHolds(q1, k, c, d, s, p, t) = PutHolds(q, k, c, d, s, p, t)
      /\ PatchHolds(q1, k, c, d, s, p, t) = PatchHolds(q, k, c, d, s, p, t)
      /\ DeleteQueryHolds(q1, k, c, d, s, p, t) = DeleteQueryHolds(q, k, c, d, s, p, t)
      /\ ReaderHolds(q1, k, d, s, p, t) = ReaderHolds(q, k, d, s, p, t)
  BY <1>1, <1>2 DEF PutHolds, PatchHolds, DeleteQueryHolds, ReaderHolds
<1>4. Flies(q1) = Flies(q) /\ Writes(q1) = Writes(q) /\ Touches(q1) = Touches(q)
  BY DEF Flies, Writes, Touches
<1>5. Holds(q1, k, c, d, s, p, t) = Holds(q, k, c, d, s, p, t)
  BY <1>3, <1>4 DEF Holds, WriterHolds
<1> QED BY <1>4, <1>5 DEF Shape

\* The last of some positions, when it is known.
LEMMA LastIs ==
    ASSUME NEW at \in SUBSET Int, NEW i \in at, \A j \in at : j <= i
    PROVE  Newest(at) = i
<1> DEFINE last == CHOOSE x \in at : \A j \in at : j <= x
<1>1. last \in at /\ \A j \in at : j <= last
  OBVIOUS
<1>2. last = i
  <2> HIDE DEF last
  <2> QED BY <1>1
<1> QED BY <1>2 DEF Newest

-----------------------------------------------------------------------------
(* Pieces of objects                                                       *)

\* A part of an object that has all it has is that object.
LEMMA WholePart ==
    ASSUME NEW c \in Piece, NEW d \in Piece, PartOf(c, d), DOMAIN d \subseteq DOMAIN c
    PROVE  c = d
<1>1. c \in [DOMAIN c -> Val] /\ d \in [DOMAIN d -> Val]
  BY PieceIs
<1>2. DOMAIN c = DOMAIN d /\ \A p \in DOMAIN c : c[p] = d[p]
  BY DEF PartOf
<1> QED BY <1>1, <1>2

\* All the parts of an object are the object.
LEMMA OnlyAll ==
    ASSUME NEW o \in Piece
    PROVE  Only(o, Part) = o
<1>1. Only(o, Part) \in Piece /\ DOMAIN Only(o, Part) = DOMAIN o \cap Part
      /\ \A p \in DOMAIN o \cap Part : Only(o, Part)[p] = o[p]
  BY OnlyPiece
<1>2. DOMAIN o \cap Part = DOMAIN o /\ o # None
  BY PieceIs
<1>3. PartOf(Only(o, Part), o)
  BY <1>1, <1>2, PieceIs DEF PartOf
<1> QED BY <1>1, <1>2, <1>3, WholePart

\* A part of an object that has the column matches what the object matches.
LEMMA PartMatches ==
    ASSUME NEW c, NEW d, NEW crit, PartOf(c, d), Plain(c)
    PROVE  Matches(c, crit) <=> Matches(d, crit)
BY DEF PartOf, Plain, Matches, Parts

\* Stored objects have the column; no object matches nothing.
LEMMA StoredMatches ==
    ASSUME NEW t \in Stored, NEW k \in Key
    PROVE  /\ t[k] = None \/ t[k] \in Object
           /\ Plain(t[k])
           /\ \A crit : Matches(t[k], crit) => t[k] # None
BY TablesHold, ObjectIs, ServiceAssumption DEF Plain, Parts, Matches

-----------------------------------------------------------------------------
(* What a step must do to keep the invariant                               *)

\* Request r, which is in flight, steps: no other request does, nothing changes
\* on keys it does not touch, and what it raced on stays suspect.
Frame(r) ==
    /\ phase' = phase
    /\ \A x \in Request \ {r} : req'[x] = req[x]
    /\ \A k \in Key \ Touches(req[r]) :
          /\ cache'[k] = cache[k] /\ db'[k] = db[k]
          /\ k \in suspect => k \in suspect'
          /\ k \in partial => k \in partial'
          /\ k \in thin => k \in thin'
    /\ req[r].raced \cap suspect \subseteq suspect'

\* If r is a reader it changes the cache alone, and for the better.
ReadsOnly(r) ==
    ~Writes(req[r]) =>
        /\ db' = db /\ suspect' = suspect /\ partial' = partial /\ thin \subseteq thin'
        /\ \A k \in Touches(req[r]) \ req[r].raced :
              Agree(cache[k], db[k], k \in partial, k \in thin)
                  => Agree(cache'[k], db[k], k \in partial, k \in thin')

\* It goes on, and knows what is to be known there.
GoesOn(r) ==
    LET q == req'[r]
    IN  /\ Flies(q) /\ Shape(q)
        /\ q.op = req[r].op /\ Touches(q) = Touches(req[r]) /\ q.raced = req[r].raced
        /\ Knows(q) => \A k \in Touches(q) \ q.raced :
              Holds(q, k, cache'[k], db'[k], k \in suspect', k \in partial', k \in thin')

\* Or it ends; a writer leaves each of its keys suspect or with cache and
\* database in agreement.
Leaves(r) ==
    /\ ~Flies(req'[r])
    /\ Writes(req[r]) /\ phase = "active" => \A k \in Touches(req[r]) :
          \/ k \in suspect'
          \/ k \notin req[r].raced /\ Agree(cache'[k], db'[k], k \in partial', k \in thin')

\* A step of a request in flight that does so keeps the invariant.
LEMMA StepKeeps ==
    ASSUME TypeOK, TypeOK', CacheInv, NEW r \in Request, Flies(req[r]),
           Frame(r), ReadsOnly(r), GoesOn(r) \/ Leaves(r)
    PROVE  CacheInv'
<1>1. Marked /\ (phase = "active" => Tainted) /\ Known /\ Settled /\ phase' = phase
  BY DEF CacheInv, Frame
<1>2. \A x \in Request : Touches(req[x]) \subseteq Key
  BY TouchesKeys DEF TypeOK
<1>3. ASSUME NEW x \in Request, Flies(req'[x])
      PROVE  /\ Flies(req[x]) /\ Shape(req'[x])
             /\ Touches(req'[x]) = Touches(req[x]) /\ req'[x].raced = req[x].raced
             /\ Writes(req'[x]) = Writes(req[x])
  <2>1. CASE x = r
    BY <1>3, <2>1 DEF GoesOn, Leaves, Writes
  <2>2. CASE x # r
    BY <1>1, <1>3, <2>2 DEF Frame, Known
  <2> QED BY <2>1, <2>2
<1>4. Marked'
  <2> SUFFICES ASSUME NEW x \in Request, NEW y \in Request, x # y,
                      Flies(req'[x]), Flies(req'[y]), Writes(req'[x]) \/ Writes(req'[y])
               PROVE  Touches(req'[x]) \cap Touches(req'[y]) \subseteq req'[x].raced
    BY DEF Marked
  <2> QED BY <1>1, <1>3 DEF Marked
<1>5. ASSUME NEW x \in Request \ {r}, NEW k \in Touches(req[x]), k \in Touches(req[r]),
             Flies(req[x]), Writes(req[x]) \/ Writes(req[r])
      PROVE  k \in req[x].raced /\ k \in req[r].raced
  BY <1>1, <1>5 DEF Marked
<1>6. phase' = "active" => Tainted'
  <2> SUFFICES ASSUME phase = "active", NEW x \in Request, NEW k \in req'[x].raced,
                      Flies(req'[x]), ~Writes(req'[x])
               PROVE  \/ k \in suspect'
                      \/ \E w \in Request : Flies(req'[w]) /\ Writes(req'[w]) /\ k \in req'[w].raced
    BY <1>1 DEF Tainted
  <2>1. Flies(req[x]) /\ ~Writes(req[x]) /\ k \in req[x].raced /\ k \in Touches(req[x])
    BY <1>3 DEF Shape
  <2>2. CASE k \in suspect
    <3>1. CASE Writes(req[r]) /\ k \in Touches(req[r])
      BY <1>5, <2>1, <2>2, <3>1 DEF Frame
    <3>2. CASE ~Writes(req[r])
      BY <2>2, <3>2 DEF ReadsOnly
    <3>3. CASE k \notin Touches(req[r])
      BY <1>2, <2>1, <2>2, <3>3 DEF Frame
    <3> QED BY <3>1, <3>2, <3>3
  <2>3. ASSUME NEW w \in Request, Flies(req[w]), Writes(req[w]), k \in req[w].raced
        PROVE  \/ k \in suspect'
               \/ \E v \in Request : Flies(req'[v]) /\ Writes(req'[v]) /\ k \in req'[v].raced
    <3>1. CASE Flies(req'[w])
      BY <1>3, <2>3, <3>1
    <3>2. CASE ~Flies(req'[w])
      <4>1. w = r
        BY <2>3, <3>2 DEF Frame
      <4>2. k \in Touches(req[r])
        BY <1>1, <2>3, <4>1 DEF Known, Shape
      <4> QED BY <2>3, <3>2, <4>1, <4>2 DEF GoesOn, Leaves
    <3> QED BY <3>1, <3>2
  <2> QED BY <1>1, <2>1, <2>2, <2>3 DEF Tainted
<1>7. Known'
  <2> SUFFICES ASSUME NEW x \in Request, Flies(req'[x])
               PROVE  /\ Shape(req'[x])
                      /\ Knows(req'[x]) => \A k \in Touches(req'[x]) \ req'[x].raced :
                            Holds(req'[x], k, cache'[k], db'[k],
                                  k \in suspect', k \in partial', k \in thin')
    BY <1>1 DEF Known, Knows
  <2>1. CASE x = r
    BY <1>3, <2>1 DEF GoesOn, Leaves
  <2>2. ASSUME x # r, Knows(req[x]), NEW k \in Touches(req[x]) \ req[x].raced
        PROVE  Holds(req[x], k, cache'[k], db'[k], k \in suspect', k \in partial', k \in thin')
    <3>1. Holds(req[x], k, cache[k], db[k], k \in suspect, k \in partial, k \in thin)
      BY <1>1, <1>3, <2>2 DEF Known
    <3>2. CASE k \in Touches(req[r])
      <4>1. ~Writes(req[x]) /\ ~Writes(req[r])
        BY <1>3, <1>5, <2>2, <3>2
      <4>2. db' = db /\ suspect' = suspect /\ partial' = partial /\ (k \in thin => k \in thin')
        BY <4>1 DEF ReadsOnly
      <4>3. Holds(req[x], k, cache[k], db[k], k \in suspect', k \in partial', k \in thin')
        BY <3>1, <4>2, HoldsMonotone
      <4> QED BY <4>1, <4>2, <4>3 DEF Holds
    <3>3. CASE k \notin Touches(req[r])
      <4>1. /\ cache'[k] = cache[k] /\ db'[k] = db[k]
            /\ k \in suspect => k \in suspect'
            /\ k \in partial => k \in partial'
            /\ k \in thin => k \in thin'
        BY <1>2, <2>2, <3>3 DEF Frame
      <4> QED BY <3>1, <4>1, HoldsMonotone
    <3> QED BY <3>2, <3>3
  <2>3. CASE x # r
    BY <1>3, <2>2, <2>3 DEF Frame
  <2> QED BY <2>1, <2>3
<1>8. Settled'
  <2> SUFFICES ASSUME NEW k \in Key, k \notin suspect',
                      \A w \in Request : Flies(req'[w]) /\ Writes(req'[w]) => k \notin Touches(req'[w])
               PROVE  Agree(cache'[k], db'[k], k \in partial', k \in thin')
    BY DEF Settled
  <2>1. \A w \in Request \ {r} : Flies(req[w]) /\ Writes(req[w]) => k \notin Touches(req[w])
    BY DEF Frame
  <2>2. CASE phase # "active"
    <3>1. cache'[k] = None /\ k \in partial'
      BY <1>1, <2>2 DEF TypeOK, Empty
    <3> QED BY <3>1 DEF Agree
  <2>3. CASE k \notin Touches(req[r])
    <3>1. /\ cache'[k] = cache[k] /\ db'[k] = db[k]
          /\ k \notin suspect
          /\ k \in partial => k \in partial'
          /\ k \in thin => k \in thin'
      BY <2>3 DEF Frame
    <3>2. Agree(cache[k], db[k], k \in partial, k \in thin)
      BY <1>1, <2>1, <2>3, <3>1 DEF Settled
    <3> QED BY <3>1, <3>2 DEF Agree
  <2>4. CASE phase = "active" /\ k \in Touches(req[r]) /\ Writes(req[r])
    <3>1. ~GoesOn(r)
      BY <2>4 DEF GoesOn, Writes
    <3> QED BY <2>4, <3>1 DEF Leaves
  <2>5. CASE phase = "active" /\ k \in Touches(req[r]) /\ ~Writes(req[r])
    <3>1. db' = db /\ suspect' = suspect /\ partial' = partial
      BY <2>5 DEF ReadsOnly
    <3>2. \A w \in Request : Flies(req[w]) /\ Writes(req[w]) => k \notin Touches(req[w])
      BY <2>1, <2>5
    <3>3. k \notin req[r].raced
      <4> SUFFICES ASSUME k \in req[r].raced PROVE FALSE
        OBVIOUS
      <4>1. PICK w \in Request : Flies(req[w]) /\ Writes(req[w]) /\ k \in req[w].raced
        BY <1>1, <2>5, <3>1 DEF Tainted
      <4>2. k \in Touches(req[w])
        BY <1>1, <4>1 DEF Known, Shape
      <4> QED BY <3>2, <4>1, <4>2
    <3>4. Agree(cache[k], db[k], k \in partial, k \in thin)
      BY <1>1, <3>1, <3>2 DEF Settled
    <3> QED BY <2>5, <3>1, <3>3, <3>4 DEF ReadsOnly
  <2> QED BY <2>2, <2>3, <2>4, <2>5
<1> QED BY <1>4, <1>6, <1>7, <1>8 DEF CacheInv

\* A request that arrives changes the cache only if it is a writer that goes
\* on, and only on its keys, and knows what is to be known of those on which
\* cache and database agreed.
Enters(new) ==
    /\ new \in Requests /\ new.pc # "idle"
    /\ (Writes(new) /\ Flies(new)) \/ cache' = cache
    /\ \A k \in Key \ Touches(new) : cache'[k] = cache[k]
    /\ Flies(new) =>
          /\ Shape(new)
          /\ Knows(new) => \A k \in Touches(new) :
                (k \in suspect \/ Agree(cache[k], db[k], k \in partial, k \in thin))
                    => Holds(new, k, cache'[k], db[k], k \in suspect, k \in partial, k \in thin)

\* So does an arrival.
LEMMA ArriveKeeps ==
    ASSUME TypeOK, TypeOK', CacheInv, NEW r \in Request, NEW new, At(r, "idle"),
           Arrive(r, new), Enters(new)
    PROVE  CacheInv'
<1> DEFINE shared(x) == Touches(new) \cap Touches(req[x])
           with == {x \in Request : InFlight(x) /\ {req[x].op, new.op} \cap WriteOps # {}}
           raced == UNION {shared(y) : y \in with}
           mine == [new EXCEPT !.raced = raced]
           others(x) == [req[x] EXCEPT !.raced = req[x].raced \cup shared(x)]
<1>1. /\ Marked /\ (phase = "active" => Tainted) /\ Known /\ Settled
      /\ ~Flies(req[r])
      /\ db' = db /\ suspect' = suspect /\ partial' = partial /\ thin' = thin /\ phase' = phase
  BY DEF CacheInv, Arrive, Flies, At
<1>2. Touches(new) \subseteq Key /\ \A x \in Request : Touches(req[x]) \subseteq Key
  BY TouchesKeys DEF TypeOK, Enters
<1>3. \A x \in Request : x \in with <=> Flies(req[x]) /\ (Writes(req[x]) \/ Writes(new))
  BY DEF InFlight, Flies, Writes
<1>4. req' = [x \in Request |-> IF x = r THEN mine
                               ELSE IF x \in with /\ new.pc \notin Ended THEN others(x)
                               ELSE req[x]]
  BY DEF Arrive
<1>5. /\ mine.raced = raced
      /\ mine.pc = new.pc /\ mine.op = new.op /\ mine.elems = new.elems /\ mine.i = new.i
      /\ mine.crit = new.crit /\ mine.paging = new.paging /\ mine.todo = new.todo /\ mine.hold = new.hold
      /\ mine.lost = new.lost /\ mine.asked = new.asked /\ mine.cut = new.cut
  <2> HIDE DEF raced
  <2> QED BY DEF Enters, Requests
<1>6. ASSUME NEW x \in Request
      PROVE  LET o == others(x) IN
             /\ o.raced = req[x].raced \cup shared(x)
             /\ o.pc = req[x].pc /\ o.op = req[x].op /\ o.elems = req[x].elems
             /\ o.i = req[x].i /\ o.crit = req[x].crit /\ o.todo = req[x].todo
             /\ o.paging = req[x].paging /\ o.hold = req[x].hold /\ o.lost = req[x].lost
             /\ o.asked = req[x].asked /\ o.cut = req[x].cut
  <2>1. req[x] \in Requests
    BY DEF TypeOK
  <2> HIDE DEF shared
  <2> QED BY <2>1 DEF Requests
<1>7. \A k \in raced : \E y \in with : k \in shared(y)
  OBVIOUS
<1>8. \A y \in with : shared(y) \subseteq raced
  OBVIOUS
<1>9. /\ Touches(mine) = Touches(new) /\ Flies(mine) = Flies(new)
      /\ Writes(mine) = Writes(new)
      /\ Shape(new) => Shape(mine)
      /\ \A k, c, d, S, P, T : Holds(new, k, c, d, k \in S, k \in P, k \in T)
            => Holds(mine, k, c, d, k \in S, k \in P, k \in T)
  <2>1. raced \subseteq Touches(new)
    OBVIOUS
  <2> HIDE DEF mine, raced
  <2> QED BY <1>5, <2>1, HoldsUnmarked
<1>10. ASSUME NEW x \in Request
       PROVE  /\ Touches(others(x)) = Touches(req[x]) /\ Flies(others(x)) = Flies(req[x])
              /\ Writes(others(x)) = Writes(req[x])
              /\ Shape(req[x]) => Shape(others(x))
              /\ \A k, c, d, S, P, T : Holds(req[x], k, c, d, k \in S, k \in P, k \in T)
                    => Holds(others(x), k, c, d, k \in S, k \in P, k \in T)
  <2>1. shared(x) \subseteq Touches(req[x])
    OBVIOUS
  <2>2. Shape(req[x]) => others(x).raced \subseteq Touches(req[x])
    BY <1>6, <2>1 DEF Shape
  <2> HIDE DEF others, shared
  <2> QED BY <1>6, <2>2, HoldsUnmarked
<1>11. Flies(new) <=> new.pc \notin Ended
  BY DEF Flies, Enters
<1> HIDE DEF mine, others, with, raced, shared
<1>12. req'[r] = mine
  BY <1>4
<1>13. ASSUME NEW x \in Request \ {r}
       PROVE  /\ req'[x] = IF x \in with /\ Flies(new) THEN others(x) ELSE req[x]
              /\ Touches(req'[x]) = Touches(req[x]) /\ Flies(req'[x]) = Flies(req[x])
              /\ Writes(req'[x]) = Writes(req[x])
              /\ req[x].raced \subseteq req'[x].raced
  BY <1>4, <1>6, <1>10, <1>11
<1>14. Marked'
  <2> SUFFICES ASSUME NEW x \in Request, NEW y \in Request, x # y,
                      Flies(req'[x]), Flies(req'[y]), Writes(req'[x]) \/ Writes(req'[y])
               PROVE  Touches(req'[x]) \cap Touches(req'[y]) \subseteq req'[x].raced
    BY DEF Marked
  <2>1. CASE x = r
    BY <1>3, <1>5, <1>8, <1>9, <1>12, <1>13, <2>1 DEF shared
  <2>2. CASE y = r
    BY <1>3, <1>6, <1>9, <1>12, <1>13, <2>2 DEF shared
  <2>3. CASE x # r /\ y # r
    BY <1>1, <1>13, <2>3 DEF Marked
  <2> QED BY <2>1, <2>2, <2>3
<1>15. phase' = "active" => Tainted'
  <2> SUFFICES ASSUME phase = "active", NEW x \in Request, NEW k \in req'[x].raced,
                      Flies(req'[x]), ~Writes(req'[x])
               PROVE  \/ k \in suspect
                      \/ \E w \in Request : Flies(req'[w]) /\ Writes(req'[w]) /\ k \in req'[w].raced
    BY <1>1 DEF Tainted
  <2>1. CASE x = r
    <3>1. PICK y \in with : k \in shared(y)
      BY <1>5, <1>7, <1>12, <2>1
    <3>2. y \in Request \ {r} /\ Flies(req[y]) /\ Writes(req[y])
      BY <1>1, <1>3, <1>9, <1>12, <2>1, <3>1 DEF with
    <3>3. req'[y] = others(y)
      BY <1>9, <1>12, <1>13, <2>1, <3>1, <3>2
    <3> QED BY <1>6, <1>13, <3>1, <3>2, <3>3
  <2>2. CASE x # r /\ k \in req[x].raced
    <3>1. Flies(req[x]) /\ ~Writes(req[x])
      BY <1>13, <2>2
    <3>2. CASE k \in suspect
      BY <3>2
    <3>3. ASSUME NEW w \in Request, Flies(req[w]), Writes(req[w]), k \in req[w].raced
          PROVE  Flies(req'[w]) /\ Writes(req'[w]) /\ k \in req'[w].raced
      BY <1>1, <1>13, <3>3
    <3> QED BY <1>1, <2>2, <3>1, <3>2, <3>3 DEF Tainted
  <2>3. CASE x # r /\ k \notin req[x].raced
    <3>1. x \in with /\ Flies(new) /\ k \in shared(x)
      BY <1>6, <1>13, <2>3
    <3>2. Writes(new)
      BY <1>3, <1>13, <2>3, <3>1
    <3>3. k \in mine.raced
      BY <1>5, <1>8, <3>1
    <3> QED BY <1>9, <1>12, <3>1, <3>2, <3>3
  <2> QED BY <2>1, <2>2, <2>3
<1>16. Known'
  <2> SUFFICES ASSUME NEW x \in Request, Flies(req'[x])
               PROVE  /\ Shape(req'[x])
                      /\ Knows(req'[x]) => \A k \in Touches(req'[x]) \ req'[x].raced :
                            Holds(req'[x], k, cache'[k], db[k],
                                  k \in suspect, k \in partial, k \in thin)
    BY <1>1 DEF Known, Knows
  <2>1. CASE x = r
    <3>1. Flies(new) /\ Shape(mine)
      BY <1>9, <1>12, <2>1 DEF Enters
    <3>2. ASSUME Knows(mine), NEW k \in Touches(new) \ raced
          PROVE  Holds(mine, k, cache'[k], db[k], k \in suspect, k \in partial, k \in thin)
      <4>1. \A w \in Request : Flies(req[w]) /\ Writes(req[w]) => k \notin Touches(req[w])
        BY <1>3, <1>8, <3>2 DEF shared
      <4>2. k \in suspect \/ Agree(cache[k], db[k], k \in partial, k \in thin)
        BY <1>1, <1>2, <3>2, <4>1 DEF Settled
      <4>3. Knows(new)
        BY <1>9, <3>2 DEF Knows
      <4>4. Holds(new, k, cache'[k], db[k], k \in suspect, k \in partial, k \in thin)
        BY <3>1, <3>2, <4>2, <4>3 DEF Enters
      <4> QED BY <1>9, <4>4
    <3> QED BY <1>5, <1>9, <1>12, <2>1, <3>1, <3>2
  <2>2. CASE x # r
    <3>1. Flies(req[x]) /\ Shape(req[x])
      BY <1>1, <1>13, <2>2 DEF Known
    <3>2. Shape(req'[x])
      BY <1>10, <1>13, <2>2, <3>1
    <3>3. ASSUME Knows(req'[x]), NEW k \in Touches(req[x]) \ req'[x].raced
          PROVE  Holds(req'[x], k, cache'[k], db[k], k \in suspect, k \in partial, k \in thin)
      <4>1. Holds(req[x], k, cache[k], db[k], k \in suspect, k \in partial, k \in thin)
        <5>1. Knows(req[x])
          BY <1>13, <2>2, <3>3 DEF Knows
        <5> QED BY <1>1, <1>13, <2>2, <3>1, <3>3, <5>1 DEF Known
      <4>2. Holds(req[x], k, cache'[k], db[k], k \in suspect, k \in partial, k \in thin)
        <5>1. CASE k \notin Touches(new)
          BY <1>2, <3>3, <4>1, <5>1 DEF Enters
        <5>2. CASE k \in Touches(new) /\ Flies(new)
          <6>1. x \notin with
            BY <1>6, <1>13, <2>2, <3>3, <5>2 DEF shared
          <6>2. ~Writes(new)
            BY <1>3, <3>1, <6>1
          <6> QED BY <4>1, <6>2 DEF Enters
        <5>3. CASE ~Flies(new)
          BY <4>1, <5>3 DEF Enters
        <5> QED BY <5>1, <5>2, <5>3
      <4> QED BY <1>10, <1>13, <2>2, <4>2
    <3> QED BY <1>13, <2>2, <3>2, <3>3
  <2> QED BY <2>1, <2>2
<1>17. Settled'
  <2> SUFFICES ASSUME NEW k \in Key, k \notin suspect,
                      \A w \in Request : Flies(req'[w]) /\ Writes(req'[w]) => k \notin Touches(req'[w])
               PROVE  Agree(cache'[k], db[k], k \in partial, k \in thin)
    BY <1>1 DEF Settled
  <2>1. \A w \in Request : Flies(req[w]) /\ Writes(req[w]) => k \notin Touches(req[w])
    BY <1>1, <1>13
  <2>2. cache'[k] = cache[k]
    BY <1>9, <1>12 DEF Enters
  <2> QED BY <1>1, <2>1, <2>2 DEF Settled
<1> QED BY <1>1, <1>14, <1>15, <1>16, <1>17 DEF CacheInv

-----------------------------------------------------------------------------
(* What the steps have in common                                           *)

\* A request moves on and no other does.
LEMMA Moved ==
    ASSUME TypeOK, NEW r \in Request, NEW new, Becomes(r, new)
    PROVE  req'[r] = new /\ \A x \in Request \ {r} : req'[x] = req[x]
BY DEF TypeOK, Becomes

\* A request that finishes is no longer in flight.
LEMMA Finished ==
    ASSUME TypeOK, NEW r \in Request, NEW pc \in Ended, Finish(r, pc)
    PROVE  ~Flies(req'[r]) /\ \A x \in Request \ {r} : req'[x] = req[x]
<1>1. [Start EXCEPT !.op = req[r].op, !.pc = pc].pc = pc
  BY DEF Start
<1> QED BY <1>1, Moved DEF Finish, Flies

\* A writer that ends, having changed the keys it touches and no others.
LEMMA Ending ==
    ASSUME TypeOK, NEW r \in Request, NEW pc \in Ended,
           NEW mended \in SUBSET Touches(req[r]), NEW spoilt, NEW dropped, NEW merged,
           End(r, pc, mended, spoilt, dropped, merged), cache' = cache, phase' = phase,
           \A k \in Key \ Touches(req[r]) : db'[k] = db[k]
    PROVE  /\ Frame(r) /\ ~Flies(req'[r])
           /\ phase = "active" =>
                /\ req[r].raced \subseteq suspect' /\ spoilt \subseteq suspect'
                /\ dropped \subseteq partial' /\ merged \subseteq thin'
                /\ \A k \in suspect \ mended : k \in suspect'
                /\ \A k \in partial \ mended : k \in partial'
                /\ \A k \in thin \ mended : k \in thin'
<1>1. ~Flies(req'[r]) /\ \A x \in Request \ {r} : req'[x] = req[x]
  BY Finished DEF End
<1>2. CASE phase = "active"
  <2>1. /\ req[r].raced \subseteq suspect' /\ spoilt \subseteq suspect'
        /\ dropped \subseteq partial' /\ merged \subseteq thin'
        /\ \A k \in suspect \ mended : k \in suspect'
        /\ \A k \in partial \ mended : k \in partial'
        /\ \A k \in thin \ mended : k \in thin'
    BY <1>2 DEF End
  <2> QED BY <1>1, <2>1 DEF Frame
<1>3. CASE phase # "active"
  <2>1. UNCHANGED <<suspect, partial, thin>>
    BY <1>3 DEF End
  <2> QED BY <1>1, <1>3, <2>1 DEF Frame
<1> QED BY <1>2, <1>3

\* A table with an object put or removed differs there and nowhere else.
LEMMA PutAt ==
    ASSUME NEW t \in Cached, NEW k \in Key, NEW v
    PROVE  Put(t, k, v)[k] = v /\ \A x \in Key \ {k} : Put(t, k, v)[x] = t[x]
BY DEF Put, Cached

\* So does the cache, while there is one.
LEMMA StoreAt ==
    ASSUME TypeOK, NEW k \in Key, NEW v, Store(k, v)
    PROVE  /\ phase = "active" => cache'[k] = v
           /\ phase # "active" => cache' = cache
           /\ \A x \in Key \ {k} : cache'[x] = cache[x]
<1>1. Put(cache, k, v)[k] = v /\ \A x \in Key \ {k} : Put(cache, k, v)[x] = cache[x]
  BY PutAt DEF TypeOK
<1>2. CASE phase = "active"
  <2>1. cache' = Put(cache, k, v)
    BY <1>2 DEF Store
  <2> QED BY <1>1, <1>2, <2>1
<1>3. CASE phase # "active"
  BY <1>3 DEF Store
<1> QED BY <1>2, <1>3

\* cacheElements of a record e that is of the object of the database, and that is
\* whole unless the read broke off or asked for less.
LEMMA FillsAgree ==
    ASSUME TypeOK, NEW r \in Request, NEW e, e.key \in Key, Fills(r, e),
           PartOf(e.val, db[e.key]),
           ~req[r].cut /\ req[r].asked = Part => e.val = db[e.key],
           phase # "active" => Agree(cache[e.key], db[e.key], e.key \in partial, e.key \in thin)
    PROVE  Agree(cache'[e.key], db[e.key], e.key \in partial, e.key \in thin')
<1>1. CASE phase = "active"
  <2>1. cache'[e.key] = e.val /\ e.val # None
    BY <1>1, StoreAt DEF Fills, PartOf
  <2>2. e.key \notin thin' => ~req[r].cut /\ req[r].asked = Part
    BY <1>1 DEF Fills
  <2> QED BY <2>1, <2>2 DEF Agree
<1>2. CASE phase # "active"
  <2>1. cache' = cache /\ thin' = thin
    BY <1>2, StoreAt DEF Fills
  <2> QED BY <1>2, <2>1
<1> QED BY <1>1, <1>2

\* It changes the cache of one key only, and makes no other thin.
LEMMA FillsElsewhere ==
    ASSUME TypeOK, NEW r \in Request, NEW e, e.key \in Key, Fills(r, e)
    PROVE  /\ \A k \in Key \ {e.key} : cache'[k] = cache[k] /\ (k \in thin' <=> k \in thin)
           /\ thin \subseteq thin'
<1>1. \A k \in Key \ {e.key} : cache'[k] = cache[k]
  BY StoreAt DEF Fills
<1>2. thin' = thin \cup {e.key} \/ thin' = thin
  BY DEF Fills
<1> QED BY <1>1, <1>2

\* Rows are objects of the table under some of the keys.
LEMMA RowsSay ==
    ASSUME NEW t, NEW S
    PROVE  /\ \A e \in RowsOf(t, S) : e.key \in S /\ e.val = t[e.key] /\ t[e.key] # None
           /\ \A k \in S : t[k] # None => k \in KeysHeld(RowsOf(t, S))
           /\ Once(RowsOf(t, S))
<1>1. \A e \in RowsOf(t, S) : \E k \in S : t[k] # None /\ e = [key |-> k, val |-> t[k]]
  BY DEF RowsOf
<1>2. \A e \in RowsOf(t, S) : e.key \in S /\ e.val = t[e.key] /\ t[e.key] # None
  BY <1>1
<1>3. \A k \in S : t[k] # None => [key |-> k, val |-> t[k]] \in RowsOf(t, S)
  BY DEF RowsOf
<1>4. \A k \in S : t[k] # None => k \in KeysHeld(RowsOf(t, S))
  <2> SUFFICES ASSUME NEW k \in S, t[k] # None PROVE k \in KeysHeld(RowsOf(t, S))
    OBVIOUS
  <2>1. [key |-> k, val |-> t[k]].key = k /\ [key |-> k, val |-> t[k]] \in RowsOf(t, S)
    BY <1>3
  <2> HIDE DEF RowsOf
  <2> QED BY <2>1 DEF KeysHeld
<1>5. Once(RowsOf(t, S))
  <2> SUFFICES ASSUME NEW e \in RowsOf(t, S), NEW f \in RowsOf(t, S), e.key = f.key PROVE e = f
    BY DEF Once
  <2>1. PICK k \in S : e = [key |-> k, val |-> t[k]]
    BY <1>1
  <2>2. PICK l \in S : f = [key |-> l, val |-> t[l]]
    BY <1>1
  <2> QED BY <2>1, <2>2
<1> QED BY <1>2, <1>4, <1>5

\* A row of a table is the object of its key.
LEMMA RowIs ==
    ASSUME NEW t, NEW S, NEW e \in RowsOf(t, S)
    PROVE  e.key \in S /\ t[e.key] # None /\ e = [key |-> e.key, val |-> t[e.key]]
<1>1. PICK k \in S : t[k] # None /\ e = [key |-> k, val |-> t[k]]
  BY DEF RowsOf
<1>2. e.key = k
  BY <1>1
<1> QED BY <1>1, <1>2

\* The one key of a filter.
LEMMA OneTouches ==
    ASSUME NEW q, NEW k, q.elems = Filter(k), q.op \notin QueryOps
    PROVE  Touches(q) = {k} /\ q.elems[1].key = k
BY DEF Touches, KeysOf, Filter

\* A read returns one record of each key.
LEMMA ReadsOnce ==
    ASSUME NEW S, NEW asked, NEW cut \in BOOLEAN, NEW got \in Reads(S, asked, cut)
    PROVE  Once(got)
<1>1. Once(WholeRead(S, asked))
  <2> SUFFICES ASSUME NEW e \in WholeRead(S, asked), NEW f \in WholeRead(S, asked), e.key = f.key
               PROVE  e = f
    BY DEF Once
  <2>1. PICK k \in S : e = [key |-> k, val |-> Only(db[k], asked)]
    BY DEF WholeRead
  <2>2. PICK l \in S : f = [key |-> l, val |-> Only(db[l], asked)]
    BY DEF WholeRead
  <2> QED BY <2>1, <2>2
<1>2. CASE ~cut
  BY <1>1, <1>2 DEF Reads
<1>3. CASE cut
  <2>1. got \in CutReads(S, asked)
    BY <1>3 DEF Reads
  <2>2. CASE got \in SUBSET WholeRead(S, asked)
    BY <1>1, <2>2 DEF Once
  <2>3. ASSUME NEW gone, NEW there,
               got = {[key |-> k, val |-> Only(db[k], asked \ gone[k])] : k \in there}
        PROVE  Once(got)
    <3> SUFFICES ASSUME NEW e \in got, NEW f \in got, e.key = f.key PROVE e = f
      BY DEF Once
    <3>1. PICK k \in there : e = [key |-> k, val |-> Only(db[k], asked \ gone[k])]
      BY <2>3
    <3>2. PICK l \in there : f = [key |-> l, val |-> Only(db[l], asked \ gone[l])]
      BY <2>3
    <3> QED BY <3>1, <3>2
  <2> QED BY <2>1, <2>2, <2>3 DEF CutReads
<1> QED BY <1>2, <1>3


-----------------------------------------------------------------------------
(* What the cache returns for a query                                      *)

\* The rows of a table under keys it has are as many as the keys.
LEMMA RowsCounted ==
    ASSUME NEW t, NEW T \in SUBSET Key, \A k \in T : t[k] # None
    PROVE  Cardinality(RowsOf(t, T)) = Cardinality(T) /\ IsFiniteSet(T)
<1> DEFINE f == [k \in T |-> [key |-> k, val |-> t[k]]]
<1>1. IsFiniteSet(T)
  BY FS_Subset, ServiceAssumption
<1>2. \A k \in T : f[k] = [key |-> k, val |-> t[k]] /\ f[k].key = k
  OBVIOUS
<1>3. \A k \in T : f[k] \in RowsOf(t, T)
  BY <1>2 DEF RowsOf
<1>4. f \in [T -> RowsOf(t, T)]
  <2>1. f = [k \in T |-> f[k]]
    OBVIOUS
  <2> HIDE DEF f
  <2> QED BY <1>3, <2>1
<1>5. \A e \in RowsOf(t, T) : \E k \in T : f[k] = e
  BY <1>2 DEF RowsOf
<1> HIDE DEF f
<1>6. f \in Injection(T, RowsOf(t, T)) /\ f \in Surjection(T, RowsOf(t, T))
  BY <1>2, <1>4, <1>5 DEF Injection, Surjection, IsInjective
<1>7. ExistsBijection(T, RowsOf(t, T))
  BY <1>6 DEF ExistsBijection, Bijection
<1> QED BY <1>1, <1>7, FS_Bijection

\* The external Fetch finds what matches, and maybe records without the column.
LEMMA FoundIs ==
    ASSUME NEW crit, NEW S \in Found(crit)
    PROVE  /\ S \in SUBSET Key
           /\ \A k \in S : cache[k] # None
           /\ \A k \in Key : Matches(cache[k], crit) => k \in S
           /\ \A k \in S : Plain(cache[k]) => Matches(cache[k], crit)
<1>1. PICK B \in SUBSET Blank(cache) : S = Matching(cache, crit) \cup B
  BY DEF Found
<1>2. \A k \in Matching(cache, crit) : k \in Key /\ cache[k] # None /\ Matches(cache[k], crit)
  BY DEF Matching, Matches, Parts
<1>3. \A k \in Blank(cache) : k \in Key /\ cache[k] # None /\ ~Plain(cache[k])
  BY DEF Blank, Plain
<1>4. \A k \in Key : Matches(cache[k], crit) => k \in Matching(cache, crit)
  BY DEF Matching, Matches
<1> QED BY <1>1, <1>2, <1>3, <1>4

\* What the cache returns for a query is as large as its page or its block.
LEMMA FetchIs ==
    ASSUME NEW crit, NEW paging, NEW got \in cacheFetch(crit, paging)
    PROVE  \E S \in Found(crit) : \E T \in SUBSET S :
              /\ got = RowsOf(cache, T)
              /\ Cardinality(got) = RoomFor(Cardinality(S), paging, DefaultBlock)
              /\ IsFiniteSet(S) /\ IsFiniteSet(T) /\ Cardinality(got) = Cardinality(T)
<1>1. PICK S \in Found(crit) :
         got \in Some(S, RoomFor(Cardinality(S), paging, DefaultBlock))
  BY DEF cacheFetch
<1>2. PICK T \in SUBSET S :
        /\ got = RowsOf(cache, T)
        /\ Cardinality(T) = RoomFor(Cardinality(S), paging, DefaultBlock)
  BY <1>1 DEF Some
<1>3. S \in SUBSET Key /\ T \in SUBSET Key /\ \A k \in T : cache[k] # None
  BY FoundIs
<1>4. Cardinality(got) = Cardinality(T) /\ IsFiniteSet(T)
  BY <1>2, <1>3, RowsCounted
<1>5. IsFiniteSet(S)
  BY <1>3, FS_Subset, ServiceAssumption
<1> QED BY <1>2, <1>4, <1>5

\* A query that the cache does not answer has no match there.
LEMMA NothingMatches ==
    ASSUME TypeOK, NEW crit, NEW paging \in Paging,
           NEW got \in cacheFetch(crit, paging),
           cache = Empty \/ (got = {} /\ paging.page * paging.limit = 0)
    PROVE  \A k \in Key : ~Matches(cache[k], crit)
<1>1. paging.page \in Nat /\ paging.limit \in Nat
  BY ServiceAssumption
<1>2. CASE cache = Empty
  BY <1>2 DEF Empty, Matches, Parts
<1>3. CASE got = {} /\ paging.page * paging.limit = 0
  <2>1. PICK S \in Found(crit) :
           /\ Cardinality(got) = RoomFor(Cardinality(S), paging, DefaultBlock)
           /\ IsFiniteSet(S)
    BY FetchIs
  <2> DEFINE n == Cardinality(S)
  <2>2. n \in Nat /\ (n = 0 => S = {})
    BY <2>1, FS_CardinalityType, FS_EmptySet
  <2>3. RoomFor(n, paging, DefaultBlock) = 0
    BY <1>3, <2>1, FS_EmptySet
  <2>4. n = 0
    <3> HIDE DEF n
    <3>1. CASE paging.limit = 0
      BY <2>2, <2>3, <3>1, ServiceAssumption DEF RoomFor, Least
    <3>2. CASE paging.limit # 0
      <4>1. paging.page = 0
        BY <1>1, <1>3, <3>2
      <4>2. paging.page * paging.limit = 0
        BY <1>3
      <4>3. PageSize(n, paging.page, paging.limit) = 0
        BY <2>3, <3>2 DEF RoomFor
      <4> QED BY <1>1, <2>2, <3>2, <4>2, <4>3 DEF PageSize, Least
    <3> QED BY <3>1, <3>2
  <2> QED BY <2>2, <2>4, FoundIs
<1> QED BY <1>2, <1>3

-----------------------------------------------------------------------------
(* Get                                                                     *)

\* A GET that arrives changes nothing, and knows no more than that a query it does
\* not end has no match in the cache.
LEMMA ReaderEnters ==
    ASSUME NEW new \in Requests, new.op \in ReadOps, new.pc \in {"Read", "done"},
           new.raced = {}, new.todo = {}, cache' = cache,
           new.op = "GET aggregate" => new.paging.limit = 0 /\ new.asked = Part,
           new.op = "GET query" /\ new.pc = "Read"
              => \A k \in Touches(new) : ~Matches(cache[k], new.crit)
    PROVE  Enters(new)
<1>1. ~Writes(new) /\ new.pc # "fill" /\ new.pc # "Write" /\ new.pc # "idle"
  BY DEF Writes, WriteOps, ReadOps
<1>2. Flies(new) => new.pc = "Read"
  BY DEF Flies, Ended
<1>3. Flies(new) => Shape(new)
  BY <1>1, <1>2 DEF Shape, ReadOps, WriteOps, KeysHeld
<1>4. ASSUME Flies(new), NEW k \in Touches(new),
             k \in suspect \/ Agree(cache[k], db[k], k \in partial, k \in thin)
      PROVE  ReaderHolds(new, k, db[k], k \in suspect, k \in partial, k \in thin)
  <2>1. new.op = "GET query" => ~Matches(cache[k], new.crit)
    BY <1>2, <1>4
  <2>2. k \notin suspect \cup partial \cup thin /\ Matches(db[k], new.crit)
           => Matches(cache[k], new.crit)
    BY <1>4 DEF Agree, Matches, Parts
  <2> QED BY <1>1, <2>1, <2>2 DEF ReaderHolds
<1> QED BY <1>1, <1>3, <1>4 DEF Enters, Holds

\* What a reader has read is what it may hold.
LEMMA ReadHolds ==
    ASSUME db \in Stored, NEW q \in Requests, Shape(q), q.pc = "Read", q.op \in ReadOps,
           NEW S \in ReadKeys(q), NEW cut \in BOOLEAN, NEW got \in Reads(S, q.asked, cut),
           NEW new, new.pc = "fill", new.hold = got, new.cut = cut, new.todo \subseteq got,
           new.op = q.op, new.elems = q.elems, new.crit = q.crit, new.asked = q.asked,
           new.paging = q.paging, new.raced = q.raced, new.i = q.i
    PROVE  /\ Shape(new) /\ Touches(new) = Touches(q)
           /\ \A k \in Touches(q) : \A s, p, t :
                 (q.op = "GET query" => s \/ p \/ t \/ ~Matches(db[k], q.crit))
                    => ReaderHolds(new, k, db[k], s, p, t)
<1>1. Touches(q) \subseteq Key
  BY TouchesKeys
<1>2. Touches(new) = Touches(q)
  BY DEF Touches
<1>3. S \subseteq Touches(q)
  BY <1>1 DEF ReadKeys, ReadOps, QueryOps, Touches, Matching
<1>4. q.op = "GET" => S = Touches(q)
  BY DEF ReadKeys
<1>5. q.op = "GET aggregate" => S = Matching(db, q.crit)
  BY DEF ReadKeys, Shape
<1>6. \A e \in got : /\ e.key \in S /\ db[e.key] \in Object /\ PartOf(e.val, db[e.key])
                     /\ ~cut => e.val = Only(db[e.key], q.asked)
  BY <1>1, <1>3, ReadsSay
<1>7. ~cut => \A k \in S : db[k] # None => k \in KeysHeld(got)
  BY <1>1, <1>3, ReadsSay DEF KeysHeld
<1>8. Once(got)
  BY ReadsOnce
<1>9. Shape(new)
  <2>1. KeysHeld(new.todo) \subseteq Touches(new) /\ KeysHeld(new.hold) \subseteq Touches(new)
    BY <1>2, <1>3, <1>6 DEF KeysHeld
  <2>2. new.op \notin {"POST", "PUT", "PATCH", "DELETE", "DELETE query"}
    BY DEF ReadOps
  <2>3. new.raced \subseteq Touches(new)
    BY <1>2 DEF Shape
  <2>4. new.op = "GET aggregate" => new.paging.limit = 0 /\ new.asked = Part
    BY DEF Shape
  <2> QED BY <1>8, <2>1, <2>2, <2>3, <2>4 DEF Shape
<1>10. ASSUME NEW k \in Touches(q), NEW s, NEW p, NEW t,
              q.op = "GET query" => s \/ p \/ t \/ ~Matches(db[k], q.crit)
       PROVE  ReaderHolds(new, k, db[k], s, p, t)
  <2>1. ASSUME NEW e \in got, e.key = k
        PROVE  /\ PartOf(e.val, db[k])
               /\ ~cut /\ q.asked = Part => e.val = db[k]
               /\ ~cut => q.asked \cap DOMAIN db[k] \subseteq DOMAIN e.val
    <3>1. PartOf(e.val, db[k]) /\ db[k] \in Piece /\ (~cut => e.val = Only(db[k], q.asked))
      BY <1>6, <2>1, ObjectIs
    <3>2. ~cut /\ q.asked = Part => e.val = db[k]
      BY <3>1, OnlyAll
    <3>3. ~cut => q.asked \cap DOMAIN db[k] \subseteq DOMAIN e.val
      <4>1. DOMAIN Only(db[k], q.asked) = DOMAIN db[k] \cap q.asked
        BY <3>1, OnlyPiece
      <4> QED BY <3>1, <4>1
    <3> QED BY <3>1, <3>2, <3>3
  <2>2. q.op = "GET" /\ ~cut /\ db[k] # None => k \in KeysHeld(got)
    BY <1>4, <1>7, <1>10
  <2>3. ASSUME q.op = "GET aggregate", ~cut
        PROVE  q.asked = Part /\ (k \in KeysHeld(got) <=> Matches(db[k], q.crit))
    <3>1. k \in S <=> Matches(db[k], q.crit)
      BY <1>1, <1>5, <1>10, <2>3 DEF Matching, Matches
    <3>2. Matches(db[k], q.crit) => db[k] # None
      BY DEF Matches, Parts
    <3>3. k \in KeysHeld(got) => k \in S
      BY <1>6 DEF KeysHeld
    <3>4. q.asked = Part
      BY <2>3 DEF Shape
    <3> QED BY <1>7, <2>3, <3>1, <3>2, <3>3, <3>4
  <2> QED BY <1>10, <2>1, <2>2, <2>3 DEF ReaderHolds
<1> QED BY <1>2, <1>9, <1>10

\* Every step of a GET keeps the invariant: what is read of a key no writer is at
\* is what the cache is then filled with.
LEMMA CacheGetStep ==
    ASSUME TypeOK, TypeOK', CacheInv, NEW r \in Request, GetStep(r)
    PROVE  CacheInv'
<1> DEFINE q == req[r]
<1>1. q \in Requests /\ cache \in Cached /\ db \in Stored /\ Touches(q) \subseteq Key
      /\ \A e \in q.todo \cup q.hold : e \in Element
  <2>1. q \in Requests
    BY DEF TypeOK
  <2> QED BY <2>1, TouchesKeys DEF TypeOK, Requests
<1>2. CASE Get(r)
  <2>1. PICK k \in Key :
          Arrive(r, [Start EXCEPT
              !.op = "GET", !.elems = Filter(k), !.hold = RowsOf(cache, {k}),
              !.pc = IF cache[k] = None THEN "Read" ELSE "done"])
    BY <1>2 DEF Get
  <2> DEFINE pc == IF cache[k] = None THEN "Read" ELSE "done"
             hold == RowsOf(cache, {k})
             new == [Start EXCEPT !.op = "GET", !.elems = Filter(k),
                                  !.hold = hold, !.pc = pc]
  <2>2. pc \in {"Read", "done"} /\ hold \subseteq Element
    BY RowsAreElements DEF TypeOK
  <2>3. Arrive(r, new)
    BY <2>1
  <2> HIDE DEF pc, hold
  <2>4. "GET" \in Ops
    BY <2>3, StartTyped DEF Arrive, Requests
  <2>5. Filter(k) \in Seq(Element)
    BY OneElement
  <2>6. new \in Requests /\ new.op = "GET" /\ new.pc = pc /\ new.raced = {} /\ new.todo = {}
    BY <2>2, <2>4, <2>5, StartTyped DEF Requests, OnElement, Ended, Start
  <2> HIDE DEF new
  <2>7. Enters(new)
    BY <1>2, <2>2, <2>6, ReaderEnters DEF Get, ReadOps
  <2> QED BY <1>2, <2>3, <2>7, ArriveKeeps DEF Get
<1>3. CASE GetQuery(r)
  <2>0. PICK crit \in Criteria, paging \in Paging, asked \in Asked :
          \E got \in cacheFetch(crit, paging) :
            Arrive(r, [Start EXCEPT
                !.op = "GET query", !.crit = crit, !.paging = paging,
                !.asked = asked, !.hold = got,
                !.pc = IF cache = Empty \/ (got = {} /\ paging.page * paging.limit = 0)
                       THEN "Read" ELSE "done"])
    BY <1>3 DEF GetQuery
  <2>1. PICK got \in cacheFetch(crit, paging) :
          Arrive(r, [Start EXCEPT
              !.op = "GET query", !.crit = crit, !.paging = paging,
              !.asked = asked, !.hold = got,
              !.pc = IF cache = Empty \/ (got = {} /\ paging.page * paging.limit = 0)
                     THEN "Read" ELSE "done"])
    BY <2>0
  <2> DEFINE pc == IF cache = Empty \/ (got = {} /\ paging.page * paging.limit = 0)
                   THEN "Read" ELSE "done"
             new == [Start EXCEPT !.op = "GET query", !.crit = crit,
                                  !.paging = paging, !.asked = asked, !.hold = got, !.pc = pc]
  <2>2. Arrive(r, new)
    BY <2>1
  <2>3. /\ pc \in {"Read", "done"} /\ got \subseteq Element
        /\ pc = "Read" => \A k \in Key : ~Matches(cache[k], crit)
    BY FetchedElements, NothingMatches
  <2> HIDE DEF pc
  <2>4. "GET query" \in Ops
    BY <2>2, StartTyped DEF Arrive, Requests
  <2>5. crit \in SUBSET Val /\ paging \in [page : Nat, limit : Nat] /\ asked \in SUBSET Part
    BY ServiceAssumption DEF Part
  <2>6. new \in Requests /\ new.pc = pc /\ new.op = "GET query" /\ new.crit = crit
        /\ new.raced = {} /\ new.todo = {}
    BY <2>3, <2>4, <2>5, StartTyped DEF Requests, OnElement, Ended, Start
  <2> HIDE DEF new
  <2>7. Enters(new)
    <3>1. new.pc = "Read" => \A k \in Touches(new) : ~Matches(cache[k], new.crit)
      BY <2>3, <2>6, TouchesKeys
    <3> QED BY <1>3, <2>3, <2>6, <3>1, ReaderEnters DEF GetQuery, ReadOps
  <2> QED BY <1>3, <2>2, <2>7, ArriveKeeps DEF GetQuery
<1>4. CASE GetAggregate(r)
  <2>0. PICK crit \in Criteria : \E S \in Found(crit) :
          Arrive(r, [Start EXCEPT
              !.op = "GET aggregate", !.crit = crit, !.hold = RowsOf(cache, S),
              !.pc = IF cache = Empty THEN "Read" ELSE "done"])
    BY <1>4 DEF GetAggregate
  <2>1. PICK S \in Found(crit) :
          Arrive(r, [Start EXCEPT
              !.op = "GET aggregate", !.crit = crit, !.hold = RowsOf(cache, S),
              !.pc = IF cache = Empty THEN "Read" ELSE "done"])
    BY <2>0
  <2> DEFINE pc == IF cache = Empty THEN "Read" ELSE "done"
             hold == RowsOf(cache, S)
             new == [Start EXCEPT !.op = "GET aggregate", !.crit = crit,
                                  !.hold = hold, !.pc = pc]
  <2>2. Arrive(r, new)
    BY <2>1
  <2>3. pc \in {"Read", "done"} /\ hold \subseteq Element
    BY FoundIs, RowsAreElements DEF TypeOK
  <2> HIDE DEF pc, hold
  <2>4. "GET aggregate" \in Ops
    BY <2>2, StartTyped DEF Arrive, Requests
  <2>5. crit \in SUBSET Val
    BY ServiceAssumption
  <2>6. /\ new \in Requests /\ new.pc = pc /\ new.op = "GET aggregate"
        /\ new.raced = {} /\ new.todo = {} /\ new.paging.limit = 0 /\ new.asked = Part
    BY <2>3, <2>4, <2>5, StartTyped DEF Requests, OnElement, Ended, Start
  <2> HIDE DEF new
  <2>7. Enters(new)
    BY <1>4, <2>3, <2>6, ReaderEnters DEF GetAggregate, ReadOps
  <2> QED BY <1>4, <2>2, <2>7, ArriveKeeps DEF GetAggregate
<1>5. ASSUME Flies(q), q.pc \in {"Read", "fill"}
      PROVE  /\ Shape(q) /\ q.op \in ReadOps /\ ~Writes(q)
             /\ \A k \in Touches(q) \ q.raced :
                   ReaderHolds(q, k, db[k], k \in suspect, k \in partial, k \in thin)
  <2>1. Shape(q)
    BY <1>5 DEF CacheInv, Known
  <2>2. q.op \in ReadOps
    BY <1>5, <2>1 DEF Shape, WriteOps
  <2>3. ~Writes(q)
    BY <2>2 DEF Writes, ReadOps, WriteOps
  <2> QED BY <1>5, <2>1, <2>2, <2>3 DEF CacheInv, Known, Knows, Holds
<1>6. CASE Read(r)
  <2> DEFINE todo(got) == IF q.op = "GET aggregate" THEN {} ELSE got
  <2>0. PICK S \in ReadKeys(q), cut \in BOOLEAN :
          \E got \in Reads(S, q.asked, cut) :
             Becomes(r, [q EXCEPT !.pc = "fill", !.hold = got, !.cut = cut, !.todo = todo(got)])
    BY <1>6 DEF Read
  <2>1. PICK got \in Reads(S, q.asked, cut) :
             Becomes(r, [q EXCEPT !.pc = "fill", !.hold = got, !.cut = cut, !.todo = todo(got)])
    BY <2>0
  <2> DEFINE new == [q EXCEPT !.pc = "fill", !.hold = got, !.cut = cut, !.todo = todo(got)]
  <2>2. q.pc = "Read" /\ Flies(q)
    BY <1>6 DEF Read, At, Flies, Ended
  <2>3. /\ new.pc = "fill" /\ new.hold = got /\ new.cut = cut /\ new.todo = todo(got)
        /\ new.op = q.op /\ new.elems = q.elems /\ new.crit = q.crit /\ new.asked = q.asked
        /\ new.paging = q.paging /\ new.raced = q.raced /\ new.i = q.i
    <3> HIDE DEF todo
    <3> QED BY <1>1 DEF Requests
  <2>4. req'[r] = new /\ \A x \in Request \ {r} : req'[x] = req[x]
    BY <2>1, Moved
  <2>5. todo(got) \subseteq got
    OBVIOUS
  <2> HIDE DEF todo, new
  <2>6. Flies(new) /\ ~Writes(new) /\ ~Writes(q)
    BY <1>5, <2>2, <2>3 DEF Flies, Ended, Writes
  <2>7. /\ Shape(new) /\ Touches(new) = Touches(q)
        /\ \A k \in Touches(q) : \A s, p, t :
              (q.op = "GET query" => s \/ p \/ t \/ ~Matches(db[k], q.crit))
                 => ReaderHolds(new, k, db[k], s, p, t)
    BY <1>1, <1>5, <2>2, <2>3, <2>5, ReadHolds
  <2>8. ASSUME NEW k \in Touches(q) \ q.raced
        PROVE  ReaderHolds(new, k, db[k], k \in suspect, k \in partial, k \in thin)
    <3>1. q.op = "GET query" => k \in suspect \/ k \in partial \/ k \in thin \/ ~Matches(db[k], q.crit)
      BY <1>5, <2>2, <2>8 DEF ReaderHolds
    <3> QED BY <2>7, <2>8, <3>1
  <2>9. UNCHANGED <<db, cache, phase, suspect, partial, thin>>
    BY <1>6 DEF Read
  <2>10. Frame(r) /\ ReadsOnly(r)
    BY <2>4, <2>9 DEF Frame, ReadsOnly
  <2>11. GoesOn(r)
    BY <2>3, <2>4, <2>6, <2>7, <2>8, <2>9 DEF GoesOn, Holds
  <2> QED BY <2>2, <2>10, <2>11, StepKeeps
<1>7. CASE ReadFails(r)
  <2>1. q.pc = "Read" /\ Flies(q)
    BY <1>7 DEF ReadFails, At, Flies, Ended
  <2>2. ~Writes(q)
    BY <1>5, <2>1
  <2> DEFINE hold == {q.elems[i] : i \in DOMAIN q.elems}
             new == [Start EXCEPT !.op = q.op, !.pc = "failed", !.hold = hold]
  <2>3. new.pc = "failed"
    BY DEF Start
  <2>4. Becomes(r, new) \/ Finish(r, "panicked")
    BY <1>7 DEF ReadFails
  <2> HIDE DEF new
  <2>5. ~Flies(req'[r]) /\ \A x \in Request \ {r} : req'[x] = req[x]
    BY <2>3, <2>4, Moved, Finished DEF Flies, Ended
  <2>6. Frame(r) /\ ReadsOnly(r) /\ Leaves(r)
    BY <1>7, <2>2, <2>5 DEF ReadFails, Frame, ReadsOnly, Leaves
  <2> QED BY <2>1, <2>6, StepKeeps
<1>8. CASE Fill(r)
  <2>1. PICK e \in q.todo : Fills(r, e) /\ Becomes(r, [q EXCEPT !.todo = q.todo \ {e}])
    BY <1>8 DEF Fill
  <2>2. q.pc = "fill" /\ Flies(q)
    BY <1>8 DEF Fill, At, Flies, Ended
  <2>3. ~Writes(q) /\ Shape(q)
    BY <1>5, <2>2
  <2> DEFINE new == [q EXCEPT !.todo = q.todo \ {e}]
  <2>4. /\ new.pc = q.pc /\ new.hold = q.hold /\ new.todo = q.todo \ {e}
        /\ new.op = q.op /\ new.elems = q.elems /\ new.crit = q.crit /\ new.asked = q.asked
        /\ new.paging = q.paging /\ new.raced = q.raced /\ new.cut = q.cut
    BY <1>1 DEF Requests
  <2>5. req'[r] = new /\ \A x \in Request \ {r} : req'[x] = req[x]
    BY <2>1, Moved
  <2> HIDE DEF new
  <2>6. Touches(new) = Touches(q) /\ Flies(new) /\ ~Writes(new)
    BY <2>2, <2>3, <2>4 DEF Touches, Flies, Writes
  <2>7. Shape(new)
    BY <2>2, <2>3, <2>4, <2>6 DEF Shape, KeysHeld
  <2>8. UNCHANGED <<db, phase, suspect, partial>>
    BY <1>8 DEF Fill
  <2>9. e.key \in Touches(q) /\ e.key \in Key
    BY <1>1, <2>3 DEF Shape, KeysHeld
  <2>10. /\ \A k \in Key \ {e.key} : cache'[k] = cache[k] /\ (k \in thin' <=> k \in thin)
         /\ thin \subseteq thin'
    BY <2>1, <2>9, FillsElsewhere
  <2>11. \A k \in Touches(q) \ q.raced :
            ReaderHolds(q, k, db[k], k \in suspect, k \in partial, k \in thin)
    BY <1>5, <2>2
  <2>12. Frame(r)
    BY <2>5, <2>8, <2>9, <2>10 DEF Frame
  <2>13. ReadsOnly(r)
    <3>1. ASSUME NEW k \in Touches(q) \ q.raced, Agree(cache[k], db[k], k \in partial, k \in thin)
          PROVE  Agree(cache'[k], db[k], k \in partial, k \in thin')
      <4>1. CASE k = e.key
        <5>1. PartOf(e.val, db[e.key]) /\ (~q.cut /\ q.asked = Part => e.val = db[e.key])
          BY <2>2, <2>11, <3>1, <4>1 DEF ReaderHolds
        <5> QED BY <2>1, <2>9, <3>1, <4>1, <5>1, FillsAgree
      <4>2. CASE k # e.key
        BY <1>1, <2>10, <3>1, <4>2 DEF Agree
      <4> QED BY <4>1, <4>2
    <3> QED BY <2>8, <2>10, <3>1 DEF ReadsOnly
  <2>14. ASSUME NEW k \in Touches(q) \ q.raced
         PROVE  ReaderHolds(new, k, db[k], k \in suspect, k \in partial, k \in thin')
    BY <2>4, <2>10, <2>11, <2>14 DEF ReaderHolds
  <2>15. GoesOn(r)
    BY <2>4, <2>5, <2>6, <2>7, <2>8, <2>14 DEF GoesOn, Holds
  <2> QED BY <2>2, <2>12, <2>13, <2>15, StepKeeps
<1>9. CASE ReadEnds(r)
  <2>1. q.pc = "fill" /\ Flies(q)
    BY <1>9 DEF ReadEnds, At, Flies, Ended
  <2>2. ~Writes(q)
    BY <1>5, <2>1
  <2>3. ~Flies(req'[r]) /\ \A x \in Request \ {r} : req'[x] = req[x]
    <3>1. [q EXCEPT !.pc = "done"].pc = "done"
      BY <1>1 DEF Requests
    <3> QED BY <1>9, <3>1, Moved DEF ReadEnds, Goto, Flies, Ended
  <2>4. Frame(r) /\ ReadsOnly(r) /\ Leaves(r)
    BY <1>9, <2>2, <2>3 DEF ReadEnds, Frame, ReadsOnly, Leaves
  <2> QED BY <2>1, <2>4, StepKeeps
<1> QED BY <1>2, <1>3, <1>4, <1>6, <1>7, <1>8, <1>9 DEF GetStep

-----------------------------------------------------------------------------
(* Delete                                                                  *)

\* Every step of a DELETE keeps the invariant: what left the cache but not the
\* database is partial, what left the database but not the cache is suspect.
LEMMA CacheDeleteStep ==
    ASSUME TypeOK, TypeOK', CacheInv, NEW r \in Request, DeleteStep(r)
    PROVE  CacheInv'
<1> DEFINE q == req[r]
<1>1. /\ q \in Requests /\ cache \in Cached /\ db \in Stored /\ Touches(q) \subseteq Key
      /\ \A e \in q.todo : e \in Element
  <2>1. q \in Requests
    BY DEF TypeOK
  <2> QED BY <2>1, TouchesKeys DEF TypeOK, Requests
<1>2. ASSUME Flies(q)
      PROVE  /\ Shape(q)
             /\ Knows(q) => \A k \in Touches(q) \ q.raced :
                   Holds(q, k, cache[k], db[k], k \in suspect, k \in partial, k \in thin)
  BY <1>2 DEF CacheInv, Known
<1>3. CASE DeleteFilter(r)
  <2>1. PICK k \in Key :
          /\ Arrive(r, [Start EXCEPT !.op = "DELETE", !.pc = "Delete",
                                     !.elems = Filter(k)])
          /\ Store(k, None)
    BY <1>3 DEF DeleteFilter
  <2> DEFINE new == [Start EXCEPT !.op = "DELETE", !.pc = "Delete",
                                  !.elems = Filter(k)]
  <2>2. "DELETE" \in Ops
    BY <2>1, StartTyped DEF Arrive, Requests
  <2>3. Filter(k) \in Seq(Element)
    BY OneElement
  <2>4. /\ new \in Requests /\ new.op = "DELETE" /\ new.pc = "Delete"
        /\ new.elems = Filter(k) /\ new.raced = {} /\ new.todo = {}
    BY <2>2, <2>3, StartTyped DEF Requests, OnElement, Start
  <2>5. Arrive(r, new)
    BY <2>1
  <2> HIDE DEF new
  <2>6. Touches(new) = {k} /\ new.elems[1].key = k
    BY <2>4, OneTouches DEF QueryOps
  <2>7. Writes(new) /\ Flies(new)
    BY <2>4 DEF Writes, WriteOps, Flies, Ended
  <2>8. Shape(new)
    BY <2>4, <2>6 DEF Shape, ReadOps, WriteOps, KeysHeld
  <2>9. /\ phase = "active" => cache'[k] = None
        /\ \A x \in Key \ {k} : cache'[x] = cache[x]
    BY <2>1, StoreAt
  <2>10. ASSUME Knows(new), NEW x \in Touches(new)
         PROVE  Holds(new, x, cache'[x], db[x], x \in suspect, x \in partial, x \in thin)
    <3>1. cache'[x] = None
      BY <2>6, <2>7, <2>9, <2>10 DEF Knows
    <3> QED BY <2>4, <2>7, <3>1 DEF Holds, WriterHolds
  <2>11. new.pc # "idle"
    BY <2>4
  <2>12. Enters(new)
    BY <2>4, <2>6, <2>7, <2>8, <2>9, <2>10, <2>11 DEF Enters
  <2> QED BY <1>3, <2>5, <2>12, ArriveKeeps DEF DeleteFilter
<1>4. CASE Delete(r)
  <2> DEFINE k == first(r).key
  <2>1. q.pc = "Delete" /\ Flies(q)
    BY <1>4 DEF Delete, At, Flies, Ended
  <2>2. q.op = "DELETE" /\ Touches(q) = {k} /\ k \in Key
    BY <1>1, <1>2, <2>1 DEF Shape, ReadOps, WriteOps, first
  <2>3. Writes(q) /\ Put(db, k, None)[k] = None /\ \A x \in Key \ {k} : Put(db, k, None)[x] = db[x]
    BY <1>1, <2>2, PutAt, TablesHold DEF Writes, WriteOps
  <2>4. phase = "active" /\ k \notin q.raced => cache[k] = None
    BY <1>2, <2>1, <2>2, <2>3 DEF Knows, Holds, WriterHolds
  <2>5. cache' = cache /\ phase' = phase
    BY <1>4 DEF Delete
  <2>6. ReadsOnly(r)
    BY <2>3 DEF ReadsOnly
  <2> HIDE DEF k
  <2>7. CASE db' = Put(db, k, None) /\ End(r, "done", {k}, {}, {}, {})
    <3>1. Frame(r) /\ ~Flies(req'[r]) /\ (phase = "active" => q.raced \subseteq suspect')
      <4>1. "done" \in Ended /\ {k} \in SUBSET Touches(q)
        BY <2>2 DEF Ended
      <4>2. \A x \in Key \ Touches(q) : db'[x] = db[x]
        BY <2>2, <2>3, <2>7
      <4> QED BY <2>5, <2>7, <4>1, <4>2, Ending
    <3>2. phase = "active" /\ k \notin q.raced => Agree(cache'[k], db'[k], k \in partial', k \in thin')
      BY <2>3, <2>4, <2>5, <2>7 DEF Agree
    <3>3. Leaves(r)
      BY <2>2, <3>1, <3>2 DEF Leaves
    <3> QED BY <2>1, <2>6, <3>1, <3>3, StepKeeps
  <2>8. ASSUME db' = db, NEW pc \in {"done", "failed"}, End(r, pc, {}, {}, {k}, {})
        PROVE  CacheInv'
    <3>1. /\ Frame(r) /\ ~Flies(req'[r])
          /\ phase = "active" => q.raced \subseteq suspect' /\ k \in partial'
      <4>1. pc \in Ended
        BY DEF Ended
      <4>2. {} \in SUBSET Touches(q)
        OBVIOUS
      <4>3. /\ Frame(r) /\ ~Flies(req'[r])
            /\ phase = "active" => q.raced \subseteq suspect' /\ {k} \subseteq partial'
        BY <2>5, <2>8, <4>1, <4>2, Ending
      <4> QED BY <4>3
    <3>2. phase = "active" /\ k \notin q.raced => Agree(cache'[k], db'[k], k \in partial', k \in thin')
      BY <2>4, <2>5, <3>1 DEF Agree
    <3>3. Leaves(r)
      BY <2>2, <3>1, <3>2 DEF Leaves
    <3> QED BY <2>1, <2>6, <3>1, <3>3, StepKeeps
  <2> QED BY <1>4, <2>7, <2>8 DEF Delete, k
<1>5. CASE DeleteFetch(r)
  <2>0. PICK crit \in Criteria, paging \in Paging :
          \E got \in cacheFetch(crit, paging) :
            Arrive(r, [Start EXCEPT
                !.op = "DELETE query", !.pc = "Delete query", !.crit = crit,
                !.paging = paging, !.todo = got,
                !.lost = (Matching(cache, crit) \ {e.key : e \in got}) \cup Blank(cache)])
    BY <1>5 DEF DeleteFetch
  <2>1. PICK got \in cacheFetch(crit, paging) :
          Arrive(r, [Start EXCEPT
              !.op = "DELETE query", !.pc = "Delete query", !.crit = crit,
              !.paging = paging, !.todo = got,
              !.lost = (Matching(cache, crit) \ {e.key : e \in got}) \cup Blank(cache)])
    BY <2>0
  <2> DEFINE lost == (Matching(cache, crit) \ KeysHeld(got)) \cup Blank(cache)
             new == [Start EXCEPT
              !.op = "DELETE query", !.pc = "Delete query", !.crit = crit,
              !.paging = paging, !.todo = got, !.lost = lost]
  <2>2. "DELETE query" \in Ops
    BY <2>1, StartTyped DEF Arrive, Requests
  <2>3. lost \subseteq Key /\ got \subseteq Element
    BY FetchedElements DEF Matching, Blank
  <2>4. crit \in SUBSET Val /\ paging \in [page : Nat, limit : Nat]
    BY ServiceAssumption
  <2>5. /\ new \in Requests /\ new.op = "DELETE query" /\ new.pc = "Delete query"
        /\ new.raced = {} /\ new.todo = got /\ new.lost = lost /\ new.crit = crit
    <3> HIDE DEF lost
    <3> QED BY <2>2, <2>3, <2>4, StartTyped DEF Requests, OnElement, Start
  <2>6. Arrive(r, new)
    BY <2>1 DEF KeysHeld
  <2>7. \A k \in Key \ lost :
           /\ Plain(cache[k])
           /\ Matches(cache[k], crit) => k \in KeysHeld(got)
    <3>1. \A k \in Key : Matches(cache[k], crit) => k \in Matching(cache, crit)
      BY DEF Matches, Matching
    <3>2. \A k \in Key : ~Plain(cache[k]) => k \in Blank(cache)
      BY DEF Plain, Blank
    <3> QED BY <3>1, <3>2
  <2> HIDE DEF new, lost
  <2>8. \A k \in KeysHeld(got) : k \in Key /\ (Plain(cache[k]) => Matches(cache[k], crit))
    <3>1. PICK S \in Found(crit) : \E T \in SUBSET S : got = RowsOf(cache, T)
      BY FetchIs
    <3>2. PICK T \in SUBSET S : got = RowsOf(cache, T)
      BY <3>1
    <3>3. \A k \in KeysHeld(got) : k \in S
      BY <3>2, RowsSay DEF KeysHeld
    <3> QED BY <3>3, FoundIs
  <2>9. Touches(new) = Key /\ Writes(new) /\ Flies(new)
    BY <2>5 DEF Touches, QueryOps, Writes, WriteOps, Flies, Ended
  <2>10. KeysHeld(got) \subseteq Key
    BY <2>8
  <2>11. Shape(new)
    BY <2>5, <2>9, <2>10 DEF Shape, ReadOps, WriteOps
  <2>12. cache' = cache
    BY <1>5 DEF DeleteFetch
  <2>13. ASSUME NEW k \in Key, k \in suspect \/ Agree(cache[k], db[k], k \in partial, k \in thin)
         PROVE  Holds(new, k, cache[k], db[k], k \in suspect, k \in partial, k \in thin)
    <3>1. k \notin lost => Plain(cache[k]) /\ (k \in KeysHeld(got) <=> Matches(cache[k], crit))
      BY <2>7, <2>8, <2>13
    <3>2. DeleteQueryHolds(new, k, cache[k], db[k], k \in suspect, k \in partial, k \in thin)
      BY <2>5, <2>13, <3>1 DEF DeleteQueryHolds
    <3> QED BY <2>5, <2>9, <3>2 DEF Holds, WriterHolds
  <2>14. Enters(new)
    BY <2>5, <2>9, <2>11, <2>12, <2>13 DEF Enters
  <2> QED BY <1>5, <2>6, <2>14, ArriveKeeps DEF DeleteFetch
<1>6. ASSUME q.pc \in {"Delete query", "evict"}
      PROVE  /\ Flies(q) /\ Shape(q) /\ Writes(q) /\ q.op = "DELETE query" /\ Touches(q) = Key
             /\ ReadsOnly(r)
             /\ phase = "active" => \A k \in Key \ q.raced :
                   DeleteQueryHolds(q, k, cache[k], db[k], k \in suspect, k \in partial, k \in thin)
  <2>1. Flies(q)
    BY <1>6 DEF Flies, Ended
  <2>2. q.op = "DELETE query"
    BY <1>2, <1>6, <2>1 DEF Shape, ReadOps, WriteOps
  <2>3. Writes(q) /\ Touches(q) = Key
    BY <2>2 DEF Writes, WriteOps, Touches, QueryOps
  <2> QED BY <1>2, <2>1, <2>2, <2>3 DEF Knows, Holds, WriterHolds, ReadsOnly
<1>7. CASE DeleteQuery(r)
  <2> DEFINE new == [q EXCEPT !.pc = "evict"]
  <2>1. q.pc = "Delete query" /\ UNCHANGED <<cache, phase, suspect, thin>>
    BY <1>7 DEF DeleteQuery, At
  <2>2. /\ new.pc = "evict" /\ new.op = q.op /\ new.todo = q.todo /\ new.lost = q.lost
        /\ new.crit = q.crit /\ new.elems = q.elems /\ new.raced = q.raced
        /\ new.paging = q.paging /\ new.i = q.i /\ new.asked = q.asked
    BY <1>1 DEF Requests
  <2>3. req'[r] = new /\ \A x \in Request \ {r} : req'[x] = req[x]
    BY <1>7, Moved DEF DeleteQuery, Goto
  <2> HIDE DEF new
  <2>4. Flies(new) /\ Writes(new) /\ Touches(new) = Key
    BY <1>6, <2>1, <2>2 DEF Flies, Ended, Writes, Touches, QueryOps
  <2>5. Shape(new)
    BY <1>6, <2>1, <2>2, <2>4 DEF Shape
  <2>6. Frame(r)
    BY <1>6, <2>1, <2>3 DEF Frame
  <2>7. ASSUME phase = "active", NEW k \in Key \ q.raced, k \notin suspect, k \notin q.lost
        PROVE  IF k \in KeysHeld(q.todo) THEN k \in partial' \/ db'[k] = None
               ELSE Agree(cache[k], db'[k], k \in partial', k \in thin)
    <3>1. /\ Agree(cache[k], db[k], k \in partial, k \in thin)
          /\ Plain(cache[k])
          /\ k \in KeysHeld(q.todo) <=> Matches(cache[k], q.crit)
      BY <1>6, <2>1, <2>7 DEF DeleteQueryHolds
    <3>2. cache[k] # None => (Matches(cache[k], q.crit) <=> Matches(db[k], q.crit))
      BY <3>1, PartMatches DEF Agree
    <3>3. Matches(cache[k], q.crit) => cache[k] # None
      BY DEF Matches, Parts
    <3>4. CASE /\ db' = [x \in Key |-> IF x \in Matching(db, q.crit) THEN None ELSE db[x]]
               /\ partial' = partial
      <4>1. db'[k] = IF Matches(db[k], q.crit) THEN None ELSE db[k]
        BY <3>4 DEF Matching, Matches
      <4>2. CASE cache[k] = None
        BY <3>1, <3>3, <3>4, <4>1, <4>2 DEF Agree
      <4>3. CASE cache[k] # None
        BY <3>1, <3>2, <3>4, <4>1, <4>3 DEF Agree
      <4> QED BY <4>2, <4>3
    <3>5. CASE db' = db /\ partial' = partial \cup KeysHeld(q.todo)
      BY <3>1, <3>5 DEF Agree
    <3> QED BY <1>7, <3>4, <3>5 DEF DeleteQuery, KeysHeld
  <2>8. ASSUME phase = "active", NEW k \in Key \ q.raced
        PROVE  Holds(new, k, cache'[k], db'[k], k \in suspect', k \in partial', k \in thin')
    <3>1. DeleteQueryHolds(new, k, cache'[k], db'[k], k \in suspect', k \in partial', k \in thin')
      BY <2>1, <2>2, <2>7, <2>8 DEF DeleteQueryHolds
    <3> QED BY <1>6, <2>1, <2>2, <2>4, <3>1 DEF Holds, WriterHolds
  <2>9. GoesOn(r)
    BY <1>6, <2>1, <2>2, <2>3, <2>4, <2>5, <2>8 DEF GoesOn, Knows
  <2> QED BY <1>6, <2>1, <2>6, <2>9, StepKeeps
<1>8. ASSUME NEW pc \in Ended, NEW lost, End(r, pc, {}, lost, {}, {}),
             UNCHANGED <<db, cache, phase>>, q.pc \in {"Delete query", "evict"},
             q.pc = "evict" => q.todo = {} /\ lost = q.lost
      PROVE  CacheInv'
  <2>1. /\ Frame(r) /\ ~Flies(req'[r])
        /\ phase = "active" =>
              /\ q.raced \subseteq suspect' /\ lost \subseteq suspect'
              /\ \A k \in suspect : k \in suspect'
              /\ \A k \in partial : k \in partial'
              /\ \A k \in thin : k \in thin'
    <3>1. {} \in SUBSET Touches(q) /\ suspect \ {} = suspect /\ partial \ {} = partial /\ thin \ {} = thin
      OBVIOUS
    <3> QED BY <1>8, <3>1, Ending
  <2>2. ASSUME phase = "active", NEW k \in Key, k \notin suspect'
        PROVE  Agree(cache'[k], db'[k], k \in partial', k \in thin')
    <3>1. k \notin q.raced /\ k \notin lost /\ k \notin suspect
      BY <2>1, <2>2
    <3>2. DeleteQueryHolds(q, k, cache[k], db[k], k \in suspect, k \in partial, k \in thin)
      BY <1>6, <1>8, <2>2, <3>1
    <3>3. Agree(cache[k], db[k], k \in partial, k \in thin)
      <4>1. q.pc = "evict" => KeysHeld(q.todo) = {}
        BY <1>8 DEF KeysHeld
      <4> QED BY <1>8, <3>1, <3>2, <4>1 DEF DeleteQueryHolds
    <3> QED BY <1>8, <2>1, <2>2, <3>3 DEF Agree
  <2>3. Leaves(r)
    BY <1>6, <1>8, <2>1, <2>2 DEF Leaves
  <2> QED BY <1>6, <1>8, <2>1, <2>3, StepKeeps
<1>9. CASE DeleteQueryFails(r)
  BY <1>8, <1>9 DEF DeleteQueryFails, At, Ended
<1>10. CASE DeleteQueryEnds(r)
  BY <1>8, <1>10 DEF DeleteQueryEnds, At, Ended
<1>11. CASE Evict(r)
  <2>1. PICK e \in q.todo : /\ Store(e.key, None)
                            /\ Becomes(r, [q EXCEPT !.todo = q.todo \ {e}])
    BY <1>11 DEF Evict
  <2> DEFINE new == [q EXCEPT !.todo = q.todo \ {e}]
  <2>2. q.pc = "evict" /\ UNCHANGED <<db, phase, suspect, partial, thin>>
    BY <1>11 DEF Evict, At
  <2>3. /\ new.pc = q.pc /\ new.op = q.op /\ new.todo = q.todo \ {e} /\ new.lost = q.lost
        /\ new.crit = q.crit /\ new.elems = q.elems /\ new.raced = q.raced
        /\ new.paging = q.paging /\ new.i = q.i /\ new.asked = q.asked
    BY <1>1 DEF Requests
  <2>4. req'[r] = new /\ \A x \in Request \ {r} : req'[x] = req[x]
    BY <2>1, Moved
  <2> HIDE DEF new
  <2>5. Flies(new) /\ Writes(new) /\ Touches(new) = Key
    BY <1>6, <2>2, <2>3 DEF Flies, Ended, Writes, Touches, QueryOps
  <2>6. Shape(new)
    BY <1>6, <2>2, <2>3, <2>5 DEF Shape, KeysHeld
  <2>7. Frame(r)
    BY <1>6, <2>2, <2>4 DEF Frame
  <2>8. e.key \in Key
    BY <1>1 DEF Element
  <2>9. /\ phase = "active" => cache'[e.key] = None
        /\ \A k \in Key \ {e.key} : cache'[k] = cache[k]
    BY <2>1, <2>8, StoreAt
  <2>10. ASSUME phase = "active", NEW k \in Key \ q.raced
         PROVE  Holds(new, k, cache'[k], db'[k], k \in suspect', k \in partial', k \in thin')
    <3>1. \/ k \in suspect
          \/ k \in q.lost
          \/ IF k \in KeysHeld(q.todo) THEN k \in partial \/ db[k] = None
             ELSE Agree(cache[k], db[k], k \in partial, k \in thin)
      BY <1>6, <2>2, <2>10 DEF DeleteQueryHolds
    <3>2. k # e.key => (k \in KeysHeld(new.todo) <=> k \in KeysHeld(q.todo))
      BY <2>3 DEF KeysHeld
    <3>3. k = e.key => k \in KeysHeld(q.todo)
      BY DEF KeysHeld
    <3>4. \/ k \in suspect
          \/ k \in new.lost
          \/ IF k \in KeysHeld(new.todo) THEN k \in partial \/ db[k] = None
             ELSE Agree(cache'[k], db[k], k \in partial, k \in thin)
      BY <2>3, <2>9, <2>10, <3>1, <3>2, <3>3 DEF Agree
    <3>5. DeleteQueryHolds(new, k, cache'[k], db'[k], k \in suspect', k \in partial', k \in thin')
      BY <2>2, <2>3, <3>4 DEF DeleteQueryHolds
    <3> QED BY <1>6, <2>2, <2>3, <2>5, <3>5 DEF Holds, WriterHolds
  <2>11. GoesOn(r)
    BY <1>6, <2>2, <2>3, <2>4, <2>5, <2>6, <2>10 DEF GoesOn, Knows
  <2> QED BY <1>6, <2>2, <2>7, <2>11, StepKeeps
<1> QED BY <1>3, <1>4, <1>5, <1>7, <1>9, <1>10, <1>11 DEF DeleteStep

-----------------------------------------------------------------------------
(* Post, Put and Patch                                                     *)

\* What has been handled of a list after one more of its elements.
LEMMA HandledNext ==
    ASSUME NEW q, NEW new, NEW k, q.elems \in Seq(Element), q.i \in DOMAIN q.elems,
           new.elems = q.elems, new.i = q.i + 1
    PROVE  /\ q.elems[q.i].key = k => /\ Handled(new, k) = Handled(q, k) \cup {q.i}
                                      /\ Newest(Handled(new, k)) = q.i
           /\ q.elems[q.i].key # k => Handled(new, k) = Handled(q, k)
           /\ \A j \in Handled(q, k) : j < q.i
<1>1. q.i \in 1..Len(q.elems) /\ DOMAIN q.elems = 1..Len(q.elems) /\ Len(q.elems) \in Nat
  OBVIOUS
<1>2. Handled(new, k) = {i \in 1..Len(q.elems) : i <= q.i /\ q.elems[i].key = k}
  BY <1>1 DEF Handled
<1>3. Handled(q, k) = {i \in 1..Len(q.elems) : i < q.i /\ q.elems[i].key = k}
  BY <1>1 DEF Handled
<1>4. CASE q.elems[q.i].key = k
  <2>1. q.i \in Handled(new, k) /\ Handled(new, k) \in SUBSET Int
    BY <1>1, <1>2, <1>4
  <2>2. \A j \in Handled(new, k) : j <= q.i
    BY <1>2
  <2>3. Newest(Handled(new, k)) = q.i
    BY <2>1, <2>2, LastIs
  <2>4. \A i \in 1..Len(q.elems) : i <= q.i <=> i < q.i \/ i = q.i
    BY <1>1
  <2>5. Handled(new, k) = Handled(q, k) \cup {q.i}
    BY <1>1, <1>2, <1>3, <1>4, <2>4
  <2> QED BY <1>3, <1>4, <2>3, <2>5
<1>5. CASE q.elems[q.i].key # k
  <2>1. \A i \in 1..Len(q.elems) : q.elems[i].key = k => (i <= q.i <=> i < q.i)
    BY <1>1, <1>5
  <2> QED BY <1>2, <1>3, <1>5, <2>1
<1> QED BY <1>4, <1>5

\* At the end of its loop a request has handled the elements of all its keys, and
\* a write that commits those of a key writes them all.
LEMMA HandledAll ==
    ASSUME NEW q, q.elems \in Seq(Element), q.i = Len(q.elems) + 1,
           NEW S \in SUBSET DOMAIN q.elems, NEW k \in KeysOf(q.elems),
           \A i \in DOMAIN q.elems \ S : q.elems[i].key # k
    PROVE  /\ For(q.elems, S, k) = Handled(q, k)
           /\ For(q.elems, DOMAIN q.elems, k) = Handled(q, k)
           /\ Handled(q, k) # {} /\ Handled(q, k) \in SUBSET DOMAIN q.elems
           /\ \A i \in Handled(q, k) : q.elems[i].key = k /\ q.elems[i].val \in Piece
<1>1. DOMAIN q.elems = 1..Len(q.elems) /\ Len(q.elems) \in Nat
  OBVIOUS
<1>2. \A i \in DOMAIN q.elems : i < q.i
  BY <1>1
<1>3. \E i \in DOMAIN q.elems : q.elems[i].key = k
  BY DEF KeysOf
<1>4. For(q.elems, S, k) = Handled(q, k) /\ For(q.elems, DOMAIN q.elems, k) = Handled(q, k)
  BY <1>2 DEF Handled, For
<1>5. Handled(q, k) # {} /\ Handled(q, k) \in SUBSET DOMAIN q.elems
  BY <1>2, <1>3 DEF Handled
<1>6. \A i \in Handled(q, k) : q.elems[i].key = k /\ q.elems[i].val \in Piece
  BY ElementsOfList DEF Handled
<1> QED BY <1>4, <1>5, <1>6

\* The last of the elements that give a part, if the last of all gives it.
LEMMA GivingLast ==
    ASSUME NEW elems \in Seq(Element), NEW at \in SUBSET DOMAIN elems,
           NEW n \in at, \A j \in at : j <= n, NEW p \in DOMAIN elems[n].val
    PROVE  Giving(elems, at, p) # {} /\ Newest(Giving(elems, at, p)) = n
<1>1. n \in Giving(elems, at, p) /\ \A j \in Giving(elems, at, p) : j <= n
  BY DEF Giving
<1>2. Giving(elems, at, p) \in SUBSET Int
  BY DEF Giving
<1> QED BY <1>1, <1>2, LastIs

\* A key whose elements were all committed by a POST or PUT holds all that the
\* last of them says, and, unless it was merged, nothing else.
LEMMA PutAgrees ==
    ASSUME db \in Stored, NEW op, op # "PATCH", NEW elems \in Seq(Element),
           NEW S \in SUBSET DOMAIN elems, NEW k \in Key, NEW at,
           at = For(elems, S, k), at = For(elems, DOMAIN elems, k), at # {},
           NEW last, last = elems[Newest(at)].val,
           NEW left \in Leftovers(op, elems, S)
    PROVE  /\ PartOf(last, Written(op, elems, S, left)[k])
           /\ k \notin Merged(elems, left) => last = Written(op, elems, S, left)[k]
<1> DEFINE n == Newest(at)
           c == elems[n].val
           new == Rewritten(op, elems, S, k, RowsUnder(k, left))
<1>1. Written(op, elems, S, left)[k] = new
  BY DEF Written
<1>2. at \in SUBSET DOMAIN elems /\ \A i \in at : elems[i].val \in Piece
  BY ForPositions
<1>3. n \in at /\ \A j \in at : j <= n
  BY <1>2, NewestIs
<1>4. c \in Piece
  BY <1>2, <1>3
<1>5. RowsUnder(k, left) \in Piece \cup {None}
  BY FoundUnderKey
<1>6. PICK d \in Piece \cup {None} : d = RowsUnder(k, left)
  BY <1>5
<1> HIDE DEF n, c
<1>7. For(elems, S, k) # {}
  OBVIOUS
<1>8. DOMAIN new = Parts(d) \cup Added(op, elems, at) /\ new \in Piece
  <2>1. /\ DOMAIN Rewritten(op, elems, S, k, d) = Parts(d) \cup Added(op, elems, For(elems, S, k))
        /\ Rewritten(op, elems, S, k, d) \in Piece
    <3>1. op = "PATCH" => d # None
      OBVIOUS
    <3> HIDE DEF new
    <3>2. \A X \in SUBSET DOMAIN elems : For(elems, X, k) # {} =>
             /\ DOMAIN Rewritten(op, elems, X, k, d)
                   = Parts(d) \cup Added(op, elems, For(elems, X, k))
             /\ Rewritten(op, elems, X, k, d) \in Piece
      BY <3>1, RewrittenParts
    <3> QED BY <1>7, <3>2
  <2> QED BY <1>6, <2>1
<1>9. \A p \in DOMAIN c : p \in Added(op, elems, at)
  BY <1>3 DEF Added, c
<1>10. ASSUME NEW p \in DOMAIN c
       PROVE  new[p] = c[p]
  <2>1. p \in Parts(d) \cup Added(op, elems, For(elems, S, k))
    BY <1>9, <1>10
  <2>2. Rewritten(op, elems, S, k, d)[p] =
           IF Giving(elems, For(elems, S, k), p) = {} THEN d[p]
           ELSE elems[Newest(Giving(elems, For(elems, S, k), p))].val[p]
    <3> HIDE DEF new
    <3> QED BY <1>7, <2>1 DEF Rewritten
  <2>3. Giving(elems, at, p) # {} /\ Newest(Giving(elems, at, p)) = n
    BY <1>2, <1>3, <1>10, GivingLast DEF c
  <2> QED BY <1>6, <2>2, <2>3 DEF c
<1> HIDE DEF new
<1>11. PartOf(c, new)
  BY <1>4, <1>8, <1>9, <1>10, PieceIs DEF PartOf
<1>12. k \notin Merged(elems, left) => c = new
  <2>0. PICK upsert, all : upsert = "PUT" /\ all = DOMAIN elems
    OBVIOUS
  <2> DEFINE put == Rewritten(upsert, elems, all, k, d)
  <2>1. DOMAIN put = Parts(d) \cup Added(upsert, elems, at) /\ put \in Piece
    <3>1. For(elems, all, k) # {} /\ (upsert = "PATCH" => d # None)
          /\ all \in SUBSET DOMAIN elems
      BY <2>0
    <3>2. /\ DOMAIN put = Parts(d) \cup Added(upsert, elems, For(elems, all, k))
          /\ put \in Piece
      BY <3>1, RewrittenParts
    <3> QED BY <2>0, <3>2
  <2>2. DOMAIN put = DOMAIN new
    BY <1>8, <2>0, <2>1 DEF Added
  <2>3. Parts(put) = DOMAIN put
    BY <2>1, PieceIs DEF Parts
  <2> HIDE DEF put
  <2>4. k \in KeysOf(elems)
    BY ForPositions DEF KeysOf
  <2>5. k \notin Merged(elems, left) => Parts(put) = DOMAIN c
    BY <1>6, <2>0, <2>4 DEF Merged, put, c, n
  <2> QED BY <1>4, <1>8, <1>11, <2>2, <2>3, <2>5, WholePart
<1>13. last = c
  BY DEF c, n
<1> QED BY <1>1, <1>11, <1>12, <1>13

\* A key of a PATCH that was patched in the cache and has the parts it was given is
\* written in the database alike.
LEMMA PatchAgrees ==
    ASSUME db \in Stored, NEW elems \in Seq(Element),
           NEW S \in SUBSET DOMAIN elems, NEW k \in Key, NEW at,
           at = For(elems, S, k), at # {}, k \notin Unmatched(elems),
           NEW c \in Piece, db[k] # None, PatchedWith(elems, at, c, db[k]),
           NEW left \in Leftovers("PATCH", elems, S)
    PROVE  /\ PartOf(c, Written("PATCH", elems, S, left)[k])
           /\ DOMAIN db[k] \subseteq DOMAIN c => c = Written("PATCH", elems, S, left)[k]
<1> DEFINE new == Rewritten("PATCH", elems, S, k, db[k])
<1>1. Written("PATCH", elems, S, left)[k] = new
  <2>1. RowsUnder(k, left) = db[k]
    BY FoundUnderKey
  <2> QED BY <2>1 DEF Written
<1>2. /\ at \in SUBSET DOMAIN elems
      /\ \A i \in at : i \in DOMAIN elems /\ elems[i].key = k /\ elems[i].val \in Piece
  BY ForPositions
<1>3. PICK d \in Object : d = db[k]
  BY TablesHold
<1>4. d # None /\ Parts(d) = DOMAIN d
  BY ObjectIs, PieceIs DEF Parts
<1>5. \A i \in at : DOMAIN elems[i].val \subseteq DOMAIN d
  BY <1>2, <1>3, <1>4 DEF Unmatched
<1>6. For(elems, S, k) # {} /\ ("PATCH" = "PATCH" => d # None)
  BY <1>4
<1>7. DOMAIN new = DOMAIN d /\ new \in Piece
  <2>1. /\ DOMAIN Rewritten("PATCH", elems, S, k, d)
              = Parts(d) \cup Added("PATCH", elems, For(elems, S, k))
        /\ Rewritten("PATCH", elems, S, k, d) \in Piece
    <3>1. d \in Piece \cup {None}
      BY ObjectIs
    <3> QED BY <1>6, <3>1, RewrittenParts
  <2>2. Added("PATCH", elems, For(elems, S, k)) = {}
    BY DEF Added
  <2> QED BY <1>3, <1>4, <2>1, <2>2
<1>8. ASSUME NEW p \in DOMAIN d
      PROVE  new[p] = IF Giving(elems, at, p) = {} THEN d[p]
                      ELSE elems[Newest(Giving(elems, at, p))].val[p]
  <2>1. p \in Parts(d) \cup Added("PATCH", elems, For(elems, S, k))
    BY <1>4, <1>8
  <2>2. Rewritten("PATCH", elems, S, k, d)[p] =
           IF Giving(elems, For(elems, S, k), p) = {} THEN d[p]
           ELSE elems[Newest(Giving(elems, For(elems, S, k), p))].val[p]
    <3> HIDE DEF new
    <3> QED BY <1>6, <2>1 DEF Rewritten
  <2> QED BY <1>3, <2>2
<1> HIDE DEF new
<1>9. ASSUME NEW p \in DOMAIN c
      PROVE  p \in DOMAIN d /\ c[p] = new[p]
  <2>1. IF Giving(elems, at, p) = {} THEN p \in DOMAIN d /\ c[p] = d[p]
        ELSE c[p] = elems[Newest(Giving(elems, at, p))].val[p]
    BY <1>3, <1>9 DEF PatchedWith
  <2>2. CASE Giving(elems, at, p) = {}
    BY <1>8, <2>1, <2>2
  <2>3. CASE Giving(elems, at, p) # {}
    <3>1. /\ Giving(elems, at, p) \in SUBSET DOMAIN elems
          /\ \A i \in Giving(elems, at, p) : i \in at /\ p \in DOMAIN elems[i].val
      BY <1>2, GivingPositions
    <3>2. Newest(Giving(elems, at, p)) \in Giving(elems, at, p)
      BY <2>3, <3>1, NewestIs
    <3>3. p \in DOMAIN d
      BY <1>5, <3>1, <3>2
    <3> QED BY <1>8, <2>1, <2>3, <3>3
  <2> QED BY <2>2, <2>3
<1>10. PartOf(c, new)
  BY <1>7, <1>9, PieceIs DEF PartOf
<1>11. DOMAIN d \subseteq DOMAIN c => c = new
  BY <1>7, <1>10, WholePart
<1> QED BY <1>1, <1>3, <1>10, <1>11

\* One more element over what was patched is what is patched.
LEMMA PatchedMore ==
    ASSUME NEW elems \in Seq(Element), NEW i \in DOMAIN elems,
           NEW old \in SUBSET DOMAIN elems, \A j \in old : j < i,
           NEW v \in Piece, v = elems[i].val, NEW c \in Piece, NEW d,
           PatchedWith(elems, old, c, d)
    PROVE  /\ PatchedWith(elems, old \cup {i}, Over(v, c), d)
           /\ Over(v, c) # None /\ DOMAIN c \subseteq DOMAIN Over(v, c)
<1> DEFINE at == old \cup {i}
           o == Over(v, c)
<1>1. /\ DOMAIN o = DOMAIN v \cup DOMAIN c
      /\ \A x \in DOMAIN v \cup DOMAIN c : o[x] = IF x \in DOMAIN v THEN v[x] ELSE c[x]
  BY DEF Over
<1>0. o \in Piece
  BY OverPiece
<1>2. at \in SUBSET DOMAIN elems /\ i \in at /\ \A j \in at : j <= i
  <2>1. i \in Int /\ old \in SUBSET Int
    OBVIOUS
  <2> QED BY <2>1
<1> HIDE DEF at, o
<1>3. ASSUME NEW x \in DOMAIN o
      PROVE  IF Giving(elems, at, x) = {} THEN x \in DOMAIN d /\ o[x] = d[x]
             ELSE o[x] = elems[Newest(Giving(elems, at, x))].val[x]
  <2>1. CASE x \in DOMAIN v
    <3>1. Giving(elems, at, x) # {} /\ Newest(Giving(elems, at, x)) = i
      BY <1>2, <2>1, GivingLast
    <3> QED BY <1>1, <2>1, <3>1
  <2>2. CASE x \notin DOMAIN v
    <3>1. Giving(elems, at, x) = Giving(elems, old, x)
      BY <2>2 DEF Giving, at
    <3>2. x \in DOMAIN c /\ o[x] = c[x]
      BY <1>1, <1>3, <2>2
    <3>3. IF Giving(elems, old, x) = {} THEN x \in DOMAIN d /\ c[x] = d[x]
          ELSE c[x] = elems[Newest(Giving(elems, old, x))].val[x]
      BY <3>2 DEF PatchedWith
    <3> QED BY <3>1, <3>2, <3>3
  <2> QED BY <2>1, <2>2
<1>4. PatchedWith(elems, at, o, d)
  BY <1>3 DEF PatchedWith
<1>5. o # None /\ DOMAIN c \subseteq DOMAIN o
  BY <1>0, <1>1, PieceIs
<1> QED BY <1>4, <1>5 DEF at, o

\* A cached object that agrees with the database is as one patched with nothing.
LEMMA AgreesPatched ==
    ASSUME NEW q, NEW k, NEW c, NEW d, NEW p, NEW t,
           Handled(q, k) = {}, c # None, Agree(c, d, p, t)
    PROVE  Patched(q, k, c, d, t)
<1>1. \A x : Giving(q.elems, Handled(q, k), x) = {}
  BY DEF Giving
<1>2. PartOf(c, d)
  BY DEF Agree
<1> QED BY <1>1, <1>2 DEF Patched, PatchedWith, PartOf, Agree

\* What was patched of a key, with one more of its elements.
LEMMA PatchedNext ==
    ASSUME NEW q, NEW new, NEW k, NEW elems \in Seq(Element), NEW i \in DOMAIN elems,
           q.elems = elems, q.i = i, new.elems = elems, new.i = i + 1, elems[i].key = k,
           NEW v, v = elems[i].val, NEW c \in Piece, NEW d, NEW t, Patched(q, k, c, d, t)
    PROVE  Patched(new, k, Over(v, c), d, t)
<1> DEFINE old == Handled(q, k)
<1>1. v \in Piece
  BY ElementsOfList
<1>2. Handled(new, k) = old \cup {i} /\ \A j \in old : j < i
  BY HandledNext
<1>3. old \in SUBSET DOMAIN elems
  BY DEF Handled
<1>4. PatchedWith(elems, old, c, d) /\ d # None /\ (~t => DOMAIN d \subseteq DOMAIN c)
  BY DEF Patched
<1> HIDE DEF old
<1>5. /\ PatchedWith(elems, old \cup {i}, Over(v, c), d)
      /\ Over(v, c) # None /\ DOMAIN c \subseteq DOMAIN Over(v, c)
  BY <1>1, <1>2, <1>3, <1>4, PatchedMore
<1>6. PatchedWith(elems, Handled(new, k), Over(v, c), d)
  BY <1>2, <1>5
<1>7. PatchedWith(new.elems, Handled(new, k), Over(v, c), d)
  BY <1>6
<1> QED BY <1>4, <1>5, <1>7 DEF Patched

\* Every step of a POST, PUT or PATCH keeps the invariant: a key is suspect after
\* a write that failed or whose commit was lost, partly known after one that was
\* merged, and else cache and database have been given the same.
LEMMA CacheWriteStep ==
    ASSUME TypeOK, TypeOK', CacheInv, NEW r \in Request, WriteStep(r)
    PROVE  CacheInv'
<1> DEFINE q == req[r]
<1>1. /\ q \in Requests /\ cache \in Cached /\ db \in Stored /\ Touches(q) \subseteq Key
      /\ q.elems \in Seq(Element) /\ q.i \in Nat /\ q.todo \subseteq Element /\ Fits(q)
  <2>1. q \in Requests
    BY DEF TypeOK
  <2> QED BY <2>1, TouchesKeys DEF TypeOK, Requests
<1>2. ASSUME Flies(q)
      PROVE  /\ Shape(q)
             /\ Knows(q) => \A k \in Touches(q) \ q.raced :
                   Holds(q, k, cache[k], db[k], k \in suspect, k \in partial, k \in thin)
  BY <1>2 DEF CacheInv, Known
<1>3. CASE BeginWrite(r)
  <2>1. PICK op \in {"POST", "PUT", "PATCH"}, elems \in Lists,
             pc \in {IF phase = "active" THEN "cacheAction" ELSE "Write", "failed", "done"} :
          Arrive(r, [Start EXCEPT !.op = op, !.elems = elems, !.pc = pc,
                                  !.i = IF pc = "Write" THEN Len(elems) + 1 ELSE 1])
    BY <1>3 DEF BeginWrite
  <2> DEFINE n == IF pc = "Write" THEN Len(elems) + 1 ELSE 1
             new == [Start EXCEPT !.op = op, !.elems = elems, !.pc = pc, !.i = n]
  <2>2. op \in Ops
    BY <2>1, StartTyped DEF Arrive, Requests
  <2>3. elems \in Seq(Element) /\ n \in Nat \ {0}
    BY ServiceAssumption
  <2>4. /\ pc \in {"cacheAction", "Write", "failed", "done"}
        /\ pc = "Write" => n = Len(elems) + 1
        /\ pc = "Write" => phase # "active"
        /\ pc = "cacheAction" => n = 1
    OBVIOUS
  <2>5. Arrive(r, new)
    BY <2>1
  <2> HIDE DEF n
  <2>6. /\ new \in Requests /\ new.i = n /\ new.elems = elems /\ new.op = op /\ new.pc = pc
        /\ new.raced = {} /\ new.todo = {} /\ new.asked = Part
    BY <2>2, <2>3, <2>4, StartTyped DEF Requests, Start, OnElement, Ended
  <2> HIDE DEF new
  <2>7. Flies(new) => pc \in {"cacheAction", "Write"}
    BY <2>4, <2>6 DEF Flies, Ended
  <2>8. Flies(new) => Shape(new)
    BY <2>4, <2>6, <2>7 DEF Shape, KeysHeld, ReadOps, WriteOps
  <2>9. Writes(new) /\ new.pc # "idle"
    BY <2>4, <2>6 DEF Writes, WriteOps
  <2>10. cache' = cache
    BY <1>3 DEF BeginWrite
  <2>11. ASSUME NEW k, Flies(new), Knows(new),
                k \in suspect \/ Agree(cache[k], db[k], k \in partial, k \in thin)
         PROVE  Holds(new, k, cache[k], db[k], k \in suspect, k \in partial, k \in thin)
    <3>1. new.pc = "cacheAction" /\ new.i = 1
      BY <2>4, <2>6, <2>7, <2>9, <2>11 DEF Knows
    <3>2. Handled(new, k) = {}
      BY <2>3, <2>6, <3>1 DEF Handled
    <3>3. /\ PutHolds(new, k, cache[k], db[k], k \in suspect, k \in partial, k \in thin)
          /\ PatchHolds(new, k, cache[k], db[k], k \in suspect, k \in partial, k \in thin)
      BY <2>11, <3>1, <3>2 DEF PutHolds, PatchHolds
    <3> QED BY <2>6, <2>9, <3>3 DEF Holds, WriterHolds
  <2>12. Enters(new)
    BY <2>6, <2>8, <2>9, <2>10, <2>11 DEF Enters
  <2> QED BY <1>3, <2>5, <2>12, ArriveKeeps DEF BeginWrite
<1>4. ASSUME q.pc \in OnWrite
      PROVE  /\ Flies(q) /\ Writes(q) /\ q.op \in {"POST", "PUT", "PATCH"}
             /\ Shape(q) /\ Touches(q) = KeysOf(q.elems) /\ ReadsOnly(r)
             /\ phase = "active" => \A k \in Touches(q) \ q.raced :
                  /\ q.op \in {"POST", "PUT"} =>
                        PutHolds(q, k, cache[k], db[k], k \in suspect, k \in partial, k \in thin)
                  /\ q.op = "PATCH" =>
                        PatchHolds(q, k, cache[k], db[k], k \in suspect, k \in partial, k \in thin)
  <2>1. Flies(q) /\ Shape(q)
    BY <1>2, <1>4 DEF Flies, Ended, OnWrite
  <2>2. q.op \in {"POST", "PUT", "PATCH"}
    BY <1>4, <2>1 DEF Shape, ReadOps, WriteOps, OnWrite
  <2>3. Writes(q) /\ Touches(q) = KeysOf(q.elems)
    BY <2>2 DEF Writes, WriteOps, Touches, QueryOps
  <2> QED BY <1>2, <2>1, <2>2, <2>3 DEF Knows, Holds, WriterHolds, ReadsOnly
<1>5. ASSUME q.pc \in OnElement
      PROVE  /\ q.i \in DOMAIN q.elems /\ elem(r) = q.elems[q.i]
             /\ q.i \in 1..Len(q.elems) /\ Len(q.elems) \in Nat
             /\ elem(r).key \in Key /\ elem(r).key \in KeysOf(q.elems)
             /\ elem(r).val \in Piece
             /\ first(r).key \in Key /\ first(r).key \in KeysOf(q.elems)
             /\ first(r) = q.elems[1]
  <2>1. q.i \in DOMAIN q.elems
    BY <1>1, <1>5 DEF Fits
  <2>2. 1 \in DOMAIN q.elems
    BY <1>1, <2>1
  <2> QED BY <1>1, <2>1, <2>2, ElementsOfList DEF elem, first, KeysOf
\* A step within the loop goes on with the same elements.
<1>6. ASSUME NEW new, Becomes(r, new), UNCHANGED <<db, phase, suspect, partial>>,
             thin \subseteq thin', q.pc \in OnWrite \ {"Write"},
             new.op = q.op, new.elems = q.elems, new.raced = q.raced,
             new.paging = q.paging, new.asked = q.asked,
             KeysHeld(new.todo) \subseteq Touches(q),
             \/ new.pc \in {"cacheAction", "Write"}
             \/ q.op = "PATCH" /\ new.pc \in {"patchRead", "patchFill", "cachePatch"},
             new.pc = "Write" => new.i = Len(q.elems) + 1,
             \A k \in Key \ Touches(q) : cache'[k] = cache[k],
             phase = "active" => \A k \in Touches(q) \ q.raced :
                  /\ q.op \in {"POST", "PUT"} =>
                        PutHolds(new, k, cache'[k], db[k], k \in suspect, k \in partial, k \in thin')
                  /\ q.op = "PATCH" =>
                        PatchHolds(new, k, cache'[k], db[k], k \in suspect, k \in partial, k \in thin')
      PROVE  CacheInv'
  <2>1. req'[r] = new /\ \A x \in Request \ {r} : req'[x] = req[x]
    BY <1>6, Moved
  <2>2. Flies(new) /\ Writes(new) /\ Touches(new) = Touches(q)
    BY <1>4, <1>6 DEF Flies, Ended, Writes, Touches
  <2>3. Shape(new)
    BY <1>4, <1>6, <2>2 DEF Shape, ReadOps, WriteOps
  <2>4. Frame(r)
    BY <1>6, <2>1 DEF Frame
  <2>5. GoesOn(r)
    <3>1. phase = "active" => \A k \in Touches(q) \ q.raced :
             Holds(new, k, cache'[k], db[k], k \in suspect, k \in partial, k \in thin')
      BY <1>4, <1>6, <2>2 DEF Holds, WriterHolds
    <3> QED BY <1>6, <2>1, <2>2, <2>3, <3>1 DEF GoesOn, Knows
  <2> QED BY <1>4, <1>6, <2>4, <2>5, StepKeeps
\* NextElem, once for the two steps that end with it.
<1>7. ASSUME NEW lost, NEW pc, q.pc \in {"cacheAction", "cachePatch"},
             pc = IF q.i = Len(q.elems) THEN "Write" ELSE "cacheAction"
      PROVE  LET new == [q EXCEPT !.i = q.i + 1, !.pc = pc, !.lost = q.lost \cup lost]
             IN  /\ new.op = q.op /\ new.elems = q.elems /\ new.raced = q.raced
                 /\ new.paging = q.paging /\ new.todo = q.todo /\ new.pc = pc
                 /\ new.i = q.i + 1 /\ new.lost = q.lost \cup lost /\ new.asked = q.asked
  BY <1>1 DEF Requests
<1>8. ASSUME q.pc \in {"cacheAction", "cachePatch"}, NEW new,
             new.elems = q.elems, new.i = q.i + 1, NEW k
      PROVE  /\ elem(r).key = k => Handled(new, k) # {}
             /\ elem(r).key = k => Newest(Handled(new, k)) = q.i
             /\ elem(r).key # k => Handled(new, k) = Handled(q, k)
  <2>1. q.elems \in Seq(Element) /\ q.i \in DOMAIN q.elems /\ elem(r) = q.elems[q.i]
    BY <1>1, <1>5, <1>8 DEF OnElement
  <2>2. /\ q.elems[q.i].key = k => /\ Handled(new, k) = Handled(q, k) \cup {q.i}
                                   /\ Newest(Handled(new, k)) = q.i
        /\ q.elems[q.i].key # k => Handled(new, k) = Handled(q, k)
    BY <1>8, <2>1, HandledNext, Zenon
  <2> QED BY <2>1, <2>2
<1>9. CASE CachePost(r)
  <2> DEFINE pc == IF q.i = Len(q.elems) THEN "Write" ELSE "cacheAction"
             new == [q EXCEPT !.i = q.i + 1, !.pc = pc, !.lost = q.lost \cup {}]
             k0 == elem(r).key
  <2>1. /\ q.pc = "cacheAction" /\ q.op \in {"POST", "PUT"} /\ Store(k0, elem(r).val)
        /\ UNCHANGED <<db, phase, suspect, partial, thin>>
    BY <1>9 DEF CachePost, At
  <2>2. Becomes(r, new)
    BY <1>9 DEF CachePost, NextElem
  <2>3. /\ new.op = q.op /\ new.elems = q.elems /\ new.raced = q.raced
        /\ new.paging = q.paging /\ new.todo = q.todo /\ new.pc = pc
        /\ new.i = q.i + 1 /\ new.lost = q.lost \cup {} /\ new.asked = q.asked
    BY <1>7, <2>1
  <2>4. q.pc \in OnElement /\ q.pc \in OnWrite \ {"Write"}
    BY <2>1 DEF OnElement, OnWrite
  <2>5. k0 \in Key /\ k0 \in Touches(q) /\ elem(r) = q.elems[q.i]
    BY <1>4, <1>5, <2>4
  <2>6. /\ phase = "active" => cache'[k0] = elem(r).val
        /\ \A k \in Key \ {k0} : cache'[k] = cache[k]
    BY <2>1, <2>5, StoreAt
  <2>7. pc \in {"cacheAction", "Write"} /\ (pc = "Write" => q.i + 1 = Len(q.elems) + 1)
    OBVIOUS
  <2> HIDE DEF new, pc
  <2>8. ASSUME phase = "active", NEW k \in Touches(q) \ q.raced
        PROVE  PutHolds(new, k, cache'[k], db[k], k \in suspect, k \in partial, k \in thin')
    <3>1. PutHolds(q, k, cache[k], db[k], k \in suspect, k \in partial, k \in thin)
      BY <1>4, <2>1, <2>4, <2>8
    <3>2. CASE k = k0
      <4>1. Handled(new, k) # {} /\ Newest(Handled(new, k)) = q.i
        BY <1>8, <2>1, <2>3, <3>2
      <4>2. cache'[k] = new.elems[q.i].val
        BY <2>3, <2>5, <2>6, <2>8, <3>2
      <4> QED BY <4>1, <4>2 DEF PutHolds
    <3>3. CASE k # k0
      <4>1. Handled(new, k) = Handled(q, k)
        BY <1>8, <2>1, <2>3, <3>3
      <4>2. cache'[k] = cache[k]
        BY <1>1, <2>6, <3>3
      <4> QED BY <2>1, <2>3, <3>1, <4>1, <4>2 DEF PutHolds
    <3> QED BY <3>2, <3>3
  <2>9. KeysHeld(new.todo) \subseteq Touches(q)
    BY <1>4, <2>3, <2>4 DEF Shape
  <2>10. \A k \in Key \ Touches(q) : cache'[k] = cache[k]
    BY <2>5, <2>6
  <2>11. q.op # "PATCH" /\ thin \subseteq thin'
    BY <2>1
  <2> QED BY <1>6, <2>1, <2>2, <2>3, <2>4, <2>7, <2>8, <2>9, <2>10, <2>11
<1>10. CASE PatchLookup(r)
  <2>1. PICK pc \in {"patchRead", "cachePatch"} : Goto(r, pc)
    BY <1>10 DEF PatchLookup
  <2>2. /\ q.pc = "cacheAction" /\ q.op = "PATCH"
        /\ UNCHANGED <<db, cache, phase, suspect, partial, thin>>
    BY <1>10 DEF PatchLookup, At
  <2> DEFINE new == [q EXCEPT !.pc = pc]
  <2>3. /\ new.op = q.op /\ new.elems = q.elems /\ new.raced = q.raced
        /\ new.paging = q.paging /\ new.todo = q.todo /\ new.pc = pc
        /\ new.i = q.i /\ new.lost = q.lost /\ new.asked = q.asked
    BY <1>1 DEF Requests
  <2>4. Becomes(r, new)
    BY <2>1 DEF Goto
  <2> HIDE DEF new
  <2>5. q.pc \in OnWrite \ {"Write"}
    BY <2>2 DEF OnWrite
  <2>6. ASSUME phase = "active", NEW k \in Touches(q) \ q.raced
        PROVE  PatchHolds(new, k, cache'[k], db[k], k \in suspect, k \in partial, k \in thin')
    <3>1. PatchHolds(q, k, cache[k], db[k], k \in suspect, k \in partial, k \in thin)
      BY <1>4, <2>2, <2>5, <2>6
    <3>2. Handled(new, k) = Handled(q, k)
      BY <2>3 DEF Handled
    <3>3. Patched(new, k, cache[k], db[k], k \in thin) = Patched(q, k, cache[k], db[k], k \in thin)
      BY <2>3, <3>2 DEF Patched
    <3>4. new.pc # "patchFill"
      BY <2>3
    <3> QED BY <2>2, <2>3, <3>1, <3>2, <3>3, <3>4 DEF PatchHolds
  <2>7. KeysHeld(new.todo) \subseteq Touches(q)
    BY <1>4, <2>3, <2>5 DEF Shape
  <2>8. q.op \notin {"POST", "PUT"} /\ new.pc # "Write" /\ thin \subseteq thin'
    BY <2>2, <2>3
  <2> QED BY <1>6, <2>2, <2>3, <2>4, <2>5, <2>6, <2>7, <2>8
<1>11. CASE PatchRead(r)
  <2> DEFINE lost == IF q.i = 1 THEN q.lost ELSE q.lost \cup {first(r).key}
  <2>1. PICK cut \in BOOLEAN :
          \E got \in {{}} \cup IF OrmOpen THEN Reads({first(r).key}, Part, cut) ELSE {} :
             Becomes(r, [q EXCEPT !.pc = "patchFill", !.todo = got, !.cut = cut, !.lost = lost])
    BY <1>11 DEF PatchRead
  <2>2. PICK got \in {{}} \cup IF OrmOpen THEN Reads({first(r).key}, Part, cut) ELSE {} :
             Becomes(r, [q EXCEPT !.pc = "patchFill", !.todo = got, !.cut = cut, !.lost = lost])
    BY <2>1
  <2>3. q.pc = "patchRead" /\ UNCHANGED <<db, cache, phase, suspect, partial, thin>>
    BY <1>11 DEF PatchRead, At
  <2>4. q.pc \in OnElement /\ q.pc \in OnWrite \ {"Write"}
    BY <2>3 DEF OnElement, OnWrite
  <2>5. q.op = "PATCH"
    BY <1>4, <2>3, <2>4 DEF Shape
  <2> DEFINE new == [q EXCEPT !.pc = "patchFill", !.todo = got, !.cut = cut, !.lost = lost]
  <2>6. /\ new.op = q.op /\ new.elems = q.elems /\ new.raced = q.raced
        /\ new.paging = q.paging /\ new.todo = got /\ new.pc = "patchFill"
        /\ new.i = q.i /\ new.lost = lost /\ new.cut = cut /\ new.asked = q.asked
    <3> HIDE DEF lost
    <3> QED BY <1>1 DEF Requests
  <2>7. Becomes(r, new)
    BY <2>2
  <2> HIDE DEF new
  <2>8. \A e \in got : /\ e.key = first(r).key /\ PartOf(e.val, db[e.key])
                       /\ ~cut => e.val = db[e.key]
    <3>1. CASE got = {}
      BY <3>1
    <3>2. CASE got \in Reads({first(r).key}, Part, cut)
      <4>1. {first(r).key} \in SUBSET Key
        BY <1>5, <2>4
      <4>2. \A e \in got : /\ e.key \in {first(r).key} /\ db[e.key] \in Object
                           /\ PartOf(e.val, db[e.key])
                           /\ ~cut => e.val = Only(db[e.key], Part)
        BY <1>1, <3>2, <4>1, ReadsSay
      <4> QED BY <4>2, OnlyAll, ObjectIs
    <3> QED BY <3>1, <3>2
  <2>9. ASSUME phase = "active", NEW k \in Touches(q) \ q.raced
        PROVE  PatchHolds(new, k, cache'[k], db[k], k \in suspect, k \in partial, k \in thin')
    <3>1. PatchHolds(q, k, cache[k], db[k], k \in suspect, k \in partial, k \in thin)
      BY <1>4, <2>4, <2>5, <2>9
    <3>2. Handled(new, k) = Handled(q, k)
      BY <2>6 DEF Handled
    <3>3. q.i = 1 => Handled(q, k) = {}
      BY <1>1 DEF Handled
    <3>4. q.lost \subseteq lost /\ (q.i # 1 => first(r).key \in lost)
      OBVIOUS
    <3> HIDE DEF lost
    <3>5. k \in lost \/ \A e \in got : e.key = k =>
             Handled(q, k) = {} /\ PartOf(e.val, db[k]) /\ (~cut => e.val = db[k])
      BY <2>8, <3>3, <3>4
    <3>6. Patched(new, k, cache[k], db[k], k \in thin) = Patched(q, k, cache[k], db[k], k \in thin)
      BY <2>6, <3>2 DEF Patched
    <3> QED BY <2>3, <2>6, <3>1, <3>2, <3>4, <3>5, <3>6 DEF PatchHolds
  <2>10. KeysHeld(new.todo) \subseteq Touches(q)
    BY <1>4, <1>5, <2>4, <2>6, <2>8 DEF KeysHeld
  <2>11. q.op \notin {"POST", "PUT"} /\ new.pc # "Write" /\ thin \subseteq thin'
    BY <2>3, <2>5, <2>6
  <2> QED BY <1>6, <2>3, <2>4, <2>5, <2>6, <2>7, <2>9, <2>10, <2>11
<1>12. CASE PatchFill(r)
  <2> DEFINE new == [q EXCEPT !.pc = "cachePatch", !.todo = {}]
  <2>1. q.pc = "patchFill" /\ UNCHANGED <<db, phase, suspect, partial>>
    BY <1>12 DEF PatchFill, At
  <2>2. q.pc \in OnWrite \ {"Write"}
    BY <2>1 DEF OnWrite
  <2>3. q.op = "PATCH" /\ q.asked = Part
    BY <1>4, <2>1, <2>2 DEF Shape
  <2>4. /\ new.op = q.op /\ new.elems = q.elems /\ new.raced = q.raced
        /\ new.paging = q.paging /\ new.todo = {} /\ new.pc = "cachePatch"
        /\ new.i = q.i /\ new.lost = q.lost /\ new.asked = q.asked
    BY <1>1 DEF Requests
  <2>5. Becomes(r, new)
    BY <1>12 DEF PatchFill
  <2> HIDE DEF new
  <2>6. \A e \in q.todo : e.key \in Touches(q) /\ e.key \in Key
    BY <1>1, <1>4, <2>2 DEF Shape, KeysHeld
  <2>7. ASSUME NEW k, \/ k \in suspect
                      \/ k \in q.lost
                      \/ IF Handled(q, k) # {}
                         THEN Patched(q, k, cache'[k], db[k], k \in thin')
                         ELSE Agree(cache'[k], db[k], k \in partial, k \in thin')
        PROVE  PatchHolds(new, k, cache'[k], db[k], k \in suspect, k \in partial, k \in thin')
    <3>1. Handled(new, k) = Handled(q, k)
      BY <2>4 DEF Handled
    <3>2. Patched(new, k, cache'[k], db[k], k \in thin')
             = Patched(q, k, cache'[k], db[k], k \in thin')
      BY <2>4, <3>1 DEF Patched
    <3> QED BY <2>4, <2>7, <3>1, <3>2 DEF PatchHolds
  <2>8. KeysHeld(new.todo) \subseteq Touches(q) /\ q.op \notin {"POST", "PUT"} /\ new.pc # "Write"
    BY <2>3, <2>4 DEF KeysHeld
  <2>9. ASSUME phase = "active", NEW k \in Touches(q) \ q.raced
        PROVE  PatchHolds(q, k, cache[k], db[k], k \in suspect, k \in partial, k \in thin)
    BY <1>4, <2>2, <2>3, <2>9
  <2>10. CASE cache' = cache /\ thin' = thin
    <3>1. ASSUME phase = "active", NEW k \in Touches(q) \ q.raced
          PROVE  PatchHolds(new, k, cache'[k], db[k], k \in suspect, k \in partial, k \in thin')
      BY <2>7, <2>9, <2>10, <3>1 DEF PatchHolds
    <3>2. \A k \in Key \ Touches(q) : cache'[k] = cache[k]
      BY <2>10
    <3> QED BY <1>6, <2>1, <2>2, <2>3, <2>4, <2>5, <2>8, <2>10, <3>1, <3>2
  <2>11. ASSUME NEW e \in q.todo, Fills(r, e)
         PROVE  CacheInv'
    <3>1. e.key \in Key /\ e.key \in Touches(q)
      BY <2>6
    <3>2. /\ \A k \in Key \ {e.key} : cache'[k] = cache[k] /\ (k \in thin' <=> k \in thin)
          /\ thin \subseteq thin'
      BY <2>11, <3>1, FillsElsewhere
    <3>3. ASSUME phase = "active", NEW k \in Touches(q) \ q.raced
          PROVE  PatchHolds(new, k, cache'[k], db[k], k \in suspect, k \in partial, k \in thin')
      <4>1. CASE k = e.key
        <5>1. \/ k \in suspect \/ k \in q.lost
              \/ Handled(q, k) = {} /\ PartOf(e.val, db[k]) /\ (~q.cut => e.val = db[k])
          BY <2>1, <2>9, <3>3, <4>1 DEF PatchHolds
        <5>2. CASE Handled(q, k) = {} /\ PartOf(e.val, db[k]) /\ (~q.cut => e.val = db[k])
          <6>1. Agree(cache'[e.key], db[e.key], e.key \in partial, e.key \in thin')
            BY <2>11, <3>1, <3>3, <4>1, <5>2, FillsAgree
          <6> QED BY <2>7, <4>1, <5>2, <6>1
        <5> QED BY <2>7, <5>1, <5>2
      <4>2. CASE k # e.key
        <5>1. cache'[k] = cache[k] /\ (k \in thin' <=> k \in thin)
          BY <1>1, <3>2, <4>2
        <5>2. \/ k \in suspect \/ k \in q.lost
              \/ IF Handled(q, k) # {} THEN Patched(q, k, cache[k], db[k], k \in thin)
                 ELSE Agree(cache[k], db[k], k \in partial, k \in thin)
          BY <2>9, <3>3 DEF PatchHolds
        <5>3. Patched(q, k, cache[k], db[k], k \in thin)
                 => Patched(q, k, cache'[k], db[k], k \in thin')
          BY <5>1 DEF Patched
        <5>4. Agree(cache[k], db[k], k \in partial, k \in thin)
                 => Agree(cache'[k], db[k], k \in partial, k \in thin')
          BY <5>1 DEF Agree
        <5> QED BY <2>7, <5>2, <5>3, <5>4
      <4> QED BY <4>1, <4>2
    <3>4. \A k \in Key \ Touches(q) : cache'[k] = cache[k]
      BY <3>1, <3>2
    <3> QED BY <1>6, <2>1, <2>2, <2>3, <2>4, <2>5, <2>8, <3>2, <3>3, <3>4
  <2> QED BY <1>12, <2>10, <2>11 DEF PatchFill
<1>13. CASE CachePatch(r)
  <2> DEFINE k0 == elem(r).key
  <2>1. q.pc = "cachePatch" /\ UNCHANGED <<db, phase, suspect, partial, thin>>
    BY <1>13 DEF CachePatch, At
  <2>2. q.pc \in OnElement /\ q.pc \in OnWrite \ {"Write"}
    BY <2>1 DEF OnElement, OnWrite
  <2>3. q.op = "PATCH"
    BY <1>4, <2>1, <2>2 DEF Shape
  <2>4. k0 \in Key /\ k0 \in Touches(q) /\ elem(r) = q.elems[q.i] /\ q.i \in DOMAIN q.elems
    BY <1>4, <1>5, <2>2
  <2>5. PICK lost, v :
          /\ Store(k0, v) /\ NextElem(r, lost)
          /\ \/ cache[k0] # None /\ v = Over(elem(r).val, cache[k0])
             \/ k0 \in lost
    BY <1>13 DEF CachePatch
  <2> DEFINE pc == IF q.i = Len(q.elems) THEN "Write" ELSE "cacheAction"
             new == [q EXCEPT !.i = q.i + 1, !.pc = pc, !.lost = q.lost \cup lost]
  <2>6. Becomes(r, new)
    BY <2>5 DEF NextElem
  <2>7. /\ new.op = q.op /\ new.elems = q.elems /\ new.raced = q.raced
        /\ new.paging = q.paging /\ new.todo = q.todo /\ new.pc = pc
        /\ new.i = q.i + 1 /\ new.lost = q.lost \cup lost /\ new.asked = q.asked
    BY <1>7, <2>1
  <2>8. /\ phase = "active" => cache'[k0] = v
        /\ \A k \in Key \ {k0} : cache'[k] = cache[k]
    BY <2>4, <2>5, StoreAt
  <2>9. pc \in {"cacheAction", "Write"} /\ (pc = "Write" => q.i + 1 = Len(q.elems) + 1)
    OBVIOUS
  <2> HIDE DEF new, pc
  <2>10. ASSUME phase = "active", NEW k \in Touches(q) \ q.raced
         PROVE  PatchHolds(new, k, cache'[k], db[k], k \in suspect, k \in partial, k \in thin')
    <3>1. PatchHolds(q, k, cache[k], db[k], k \in suspect, k \in partial, k \in thin)
      BY <1>4, <2>2, <2>3, <2>10
    <3>2. new.pc # "patchFill"
      BY <2>7, <2>9
    <3>3. CASE k = k0
      <4>1. Handled(new, k) # {}
        BY <1>8, <2>1, <2>7, <3>3
      <4>2. CASE k0 \in lost
        BY <2>7, <3>3, <4>2 DEF PatchHolds
      <4>3. CASE /\ cache[k0] # None /\ v = Over(elem(r).val, cache[k0])
                 /\ k \notin suspect /\ k \notin q.lost
        <5>1. Patched(q, k, cache[k], db[k], k \in thin)
          <6>1. CASE Handled(q, k) # {}
            BY <3>1, <4>3, <6>1 DEF PatchHolds
          <6>2. CASE Handled(q, k) = {}
            <7>1. Agree(cache[k], db[k], k \in partial, k \in thin)
              BY <3>1, <4>3, <6>2 DEF PatchHolds
            <7> QED BY <3>3, <4>3, <6>2, <7>1, AgreesPatched
          <6> QED BY <6>1, <6>2
        <5>2. cache[k] \in Piece
          BY <1>1, <2>4, <3>3, <4>3, TablesHold
        <5>3. Patched(new, k, Over(elem(r).val, cache[k]), db[k], k \in thin)
          <6>1. PICK elems \in Seq(Element) : elems = q.elems
            BY <1>1
          <6>2. PICK i \in DOMAIN elems : i = q.i
            BY <2>4, <6>1
          <6>3. /\ q.elems = elems /\ q.i = i /\ new.elems = elems /\ new.i = i + 1
                /\ elems[i].key = k /\ elem(r).val = elems[i].val
            BY <2>4, <2>7, <3>3, <6>1, <6>2
          <6> QED BY <5>1, <5>2, <6>3, PatchedNext, Zenon
        <5>4. Patched(new, k, cache'[k], db[k], k \in thin')
          BY <2>1, <2>8, <2>10, <3>3, <4>3, <5>3
        <5> QED BY <3>2, <4>1, <5>4 DEF PatchHolds
      <4>4. CASE k \in suspect \/ k \in q.lost
        BY <2>7, <4>4 DEF PatchHolds
      <4> QED BY <2>5, <4>2, <4>3, <4>4
    <3>4. CASE k # k0
      <4>1. Handled(new, k) = Handled(q, k)
        BY <1>8, <2>1, <2>7, <3>4
      <4>2. cache'[k] = cache[k]
        BY <1>1, <2>8, <3>4
      <4>3. Patched(new, k, cache[k], db[k], k \in thin) = Patched(q, k, cache[k], db[k], k \in thin)
        BY <2>7, <4>1 DEF Patched
      <4> QED BY <2>1, <2>7, <3>1, <3>2, <4>1, <4>2, <4>3 DEF PatchHolds
    <3> QED BY <3>3, <3>4
  <2>11. KeysHeld(new.todo) \subseteq Touches(q)
    BY <1>4, <2>2, <2>7 DEF Shape
  <2>12. \A k \in Key \ Touches(q) : cache'[k] = cache[k]
    BY <2>4, <2>8
  <2>13. q.op \notin {"POST", "PUT"} /\ thin \subseteq thin'
    BY <2>1, <2>3
  <2> QED BY <1>6, <2>1, <2>2, <2>3, <2>6, <2>7, <2>9, <2>10, <2>11, <2>12, <2>13
\* A write changes only the keys of its elements.
<1>14. ASSUME NEW S \in SUBSET DOMAIN q.elems, NEW left \in Leftovers(q.op, q.elems, S),
              db' = Written(q.op, q.elems, S, left), q.pc = "Write"
       PROVE  \A k \in Key \ Touches(q) : db'[k] = db[k]
  <2> SUFFICES ASSUME NEW k \in Key, k \notin Touches(q) PROVE db'[k] = db[k]
    OBVIOUS
  <2>1. For(q.elems, S, k) = {}
    <3>1. k \notin KeysOf(q.elems)
      BY <1>4, <1>14 DEF OnWrite
    <3> QED BY <3>1 DEF For, KeysOf
  <2>2. RowsUnder(k, left) = db[k]
    BY <1>1, <2>1, FoundUnderKey
  <2>3. Rewritten(q.op, q.elems, S, k, RowsUnder(k, left)) = RowsUnder(k, left)
    BY <2>1 DEF Rewritten
  <2>4. db'[k] = Rewritten(q.op, q.elems, S, k, RowsUnder(k, left))
    BY <1>14 DEF Written
  <2> QED BY <2>2, <2>3, <2>4
<1>15. CASE Write(r)
  <2> DEFINE patch == q.op = "PATCH"
             mended == IF patch THEN {} ELSE KeysOf(q.elems)
             merged(left) == IF patch THEN {} ELSE Merged(q.elems, left)
             spoilt(S) == q.lost \cup {q.elems[i].key : i \in DOMAIN q.elems \ S}
                             \cup IF patch THEN Unmatched(q.elems) ELSE {}
  <2>0. PICK S \in Committed(q.elems, Batches(q.elems)) :
          \E left \in Leftovers(q.op, q.elems, S) :
             /\ db' = Written(q.op, q.elems, S, left)
             /\ End(r, "done", mended, spoilt(S), {}, merged(left))
    BY <1>15 DEF Write
  <2>1. PICK left \in Leftovers(q.op, q.elems, S) :
          /\ db' = Written(q.op, q.elems, S, left)
          /\ End(r, "done", mended, spoilt(S), {}, merged(left))
    BY <2>0
  <2>2. S \in SUBSET DOMAIN q.elems
    BY <1>1, CommittedPositions
  <2>3. q.pc = "Write" /\ q.pc \in OnWrite /\ cache' = cache /\ phase' = phase
    BY <1>15 DEF Write, At, OnWrite
  <2>4. mended \in SUBSET Touches(q) /\ (patch => mended = {})
    BY <1>4, <2>3
  <2>5. /\ \A k \in Key : k \notin spoilt(S) =>
              k \notin q.lost /\ \A i \in DOMAIN q.elems \ S : q.elems[i].key # k
        /\ patch => Unmatched(q.elems) \subseteq spoilt(S)
        /\ ~patch => merged(left) = Merged(q.elems, left)
    OBVIOUS
  <2> HIDE DEF mended, merged, spoilt
  <2>6. /\ Frame(r) /\ ~Flies(req'[r])
        /\ phase = "active" =>
              /\ q.raced \subseteq suspect' /\ spoilt(S) \subseteq suspect'
              /\ merged(left) \subseteq thin'
              /\ \A k \in suspect \ mended : k \in suspect'
              /\ \A k \in partial \ mended : k \in partial'
              /\ \A k \in thin \ mended : k \in thin'
    <3>1. \A k \in Key \ Touches(q) : db'[k] = db[k]
      BY <1>14, <2>1, <2>2, <2>3
    <3>2. "done" \in Ended
      BY DEF Ended
    <3> QED BY <2>1, <2>3, <2>4, <3>1, <3>2, Ending
  <2>7. ASSUME phase = "active", NEW k \in Touches(q), k \notin suspect'
        PROVE  Agree(cache'[k], db'[k], k \in partial', k \in thin')
    <3>1. k \in Key /\ k \in KeysOf(q.elems) /\ k \notin q.raced /\ k \notin spoilt(S)
      BY <1>1, <1>4, <2>3, <2>6, <2>7
    <3>2. q.i = Len(q.elems) + 1
      BY <1>4, <2>3 DEF Shape
    <3>3. \A i \in DOMAIN q.elems \ S : q.elems[i].key # k
      BY <2>5, <3>1
    <3> DEFINE at == Handled(q, k)
    <3>4. PICK elems \in Seq(Element) : elems = q.elems
      BY <1>1
    <3>5. PICK T \in SUBSET DOMAIN elems : T = S
      BY <2>2, <3>4
    <3>0. left \in Leftovers(q.op, elems, T)
      BY <2>1, <3>4, <3>5
    <3>6. at = For(elems, T, k) /\ at = For(elems, DOMAIN elems, k) /\ at # {}
      <4>1. q.elems \in Seq(Element) /\ k \in KeysOf(q.elems)
        BY <3>1, <3>4
      <4>2. /\ For(q.elems, S, k) = Handled(q, k)
            /\ For(q.elems, DOMAIN q.elems, k) = Handled(q, k)
            /\ Handled(q, k) # {}
        <5> HIDE DEF q, at
        <5> QED BY <2>2, <3>2, <3>3, <4>1, HandledAll
      <4> QED BY <3>4, <3>5, <4>2
    <3>7. PICK op : op = q.op
      OBVIOUS
    <3>8. db'[k] = Written(op, elems, T, left)[k] /\ left \in Leftovers(op, elems, T)
      BY <2>1, <3>0, <3>4, <3>5, <3>7
    <3> HIDE DEF at
    <3>9. CASE patch
      <4>1. k \notin suspect /\ (k \notin thin' => k \notin thin)
        BY <2>4, <2>6, <2>7, <3>9
      <4>2. /\ cache[k] # None /\ db[k] # None
            /\ PatchedWith(elems, at, cache[k], db[k])
            /\ k \notin thin => DOMAIN db[k] \subseteq DOMAIN cache[k]
        <5>1. PatchHolds(q, k, cache[k], db[k], k \in suspect, k \in partial, k \in thin)
          BY <1>4, <2>3, <2>7, <3>1, <3>9
        <5>2. k \notin q.lost
          BY <2>5, <3>1
        <5>3. Patched(q, k, cache[k], db[k], k \in thin)
          BY <3>6, <4>1, <5>1, <5>2 DEF PatchHolds, at
        <5> QED BY <3>4, <5>3 DEF Patched, at
      <4>3. cache[k] \in Piece
        BY <1>1, <3>1, <4>2, TablesHold
      <4>4. k \notin Unmatched(elems)
        BY <2>5, <3>1, <3>4, <3>9
      <4>5. /\ PartOf(cache[k], Written("PATCH", elems, T, left)[k])
            /\ DOMAIN db[k] \subseteq DOMAIN cache[k] => cache[k] = Written("PATCH", elems, T, left)[k]
        <5>1. left \in Leftovers("PATCH", elems, T)
          BY <3>7, <3>8, <3>9
        <5>2. PICK c \in Piece : c = cache[k]
          BY <4>3
        <5>3. PICK x \in Key : x = k
          BY <3>1
        <5>4. /\ db \in Stored /\ PatchedWith(elems, at, c, db[x])
              /\ at = For(elems, T, x) /\ at # {} /\ x \notin Unmatched(elems) /\ db[x] # None
          BY <1>1, <3>6, <4>2, <4>4, <5>2, <5>3
        <5>5. /\ PartOf(c, Written("PATCH", elems, T, left)[x])
              /\ DOMAIN db[x] \subseteq DOMAIN c => c = Written("PATCH", elems, T, left)[x]
          BY <5>1, <5>4, PatchAgrees
        <5> QED BY <5>2, <5>3, <5>5
      <4>6. op = "PATCH"
        BY <3>7, <3>9
      <4> QED BY <2>3, <3>8, <4>1, <4>2, <4>5, <4>6 DEF Agree, PartOf
    <3>10. CASE ~patch
      <4>1. cache[k] = elems[Newest(at)].val
        <5>1. PutHolds(q, k, cache[k], db[k], k \in suspect, k \in partial, k \in thin)
          BY <1>4, <2>3, <2>7, <3>1, <3>10
        <5> QED BY <3>4, <3>6, <5>1 DEF PutHolds, at
      <4>2. op # "PATCH"
        BY <3>7, <3>10
      <4>3. /\ PartOf(cache[k], Written(op, elems, T, left)[k])
            /\ k \notin Merged(elems, left) => cache[k] = Written(op, elems, T, left)[k]
        <5>1. db \in Stored /\ k \in Key
          BY <1>1, <3>1
        <5> QED BY <3>6, <3>8, <4>1, <4>2, <5>1, PutAgrees
      <4>4. k \notin thin' => k \notin Merged(elems, left)
        BY <2>5, <2>6, <2>7, <3>4, <3>10
      <4> QED BY <2>3, <3>8, <4>3, <4>4 DEF Agree, PartOf
    <3> QED BY <3>9, <3>10
  <2>8. Leaves(r)
    BY <2>6, <2>7 DEF Leaves
  <2> QED BY <1>4, <2>3, <2>6, <2>8, StepKeeps
\* A write that fails leaves all its keys suspect.
<1>16. ASSUME NEW pc \in {"failed", "panicked"}, q.pc \in OnWrite,
              End(r, pc, {}, KeysOf(q.elems), {}, {}), cache' = cache, phase' = phase,
              \A k \in Key \ Touches(q) : db'[k] = db[k]
       PROVE  CacheInv'
  <2>1. /\ Frame(r) /\ ~Flies(req'[r])
        /\ phase = "active" => KeysOf(q.elems) \subseteq suspect'
    <3>1. pc \in Ended /\ {} \in SUBSET Touches(q)
      BY DEF Ended
    <3> QED BY <1>16, <3>1, Ending
  <2>2. Leaves(r)
    BY <1>4, <1>16, <2>1 DEF Leaves
  <2> QED BY <1>4, <1>16, <2>1, <2>2, StepKeeps
<1>17. CASE PatchReadPanics(r)
  <2>1. q.pc \in OnWrite /\ UNCHANGED <<db, cache, phase>>
    BY <1>17 DEF PatchReadPanics, At, OnWrite
  <2> QED BY <1>16, <1>17, <2>1 DEF PatchReadPanics
<1>18. CASE WriteFails(r)
  <2> DEFINE n == IF OrmOpen THEN Batches(q.elems) - 1 ELSE 0
  <2>1. PICK S \in Committed(q.elems, n) :
          \E left \in Leftovers(q.op, q.elems, S) : db' = Written(q.op, q.elems, S, left)
    BY <1>18 DEF WriteFails
  <2> HIDE DEF n
  <2>2. S \in SUBSET DOMAIN q.elems
    BY <1>1, CommittedPositions
  <2>3. /\ q.pc = "Write" /\ q.pc \in OnWrite /\ cache' = cache /\ phase' = phase
        /\ End(r, "failed", {}, KeysOf(q.elems), {}, {})
    BY <1>18 DEF WriteFails, At, OnWrite
  <2> QED BY <1>14, <1>16, <2>1, <2>2, <2>3
<1> QED BY <1>3, <1>9, <1>10, <1>11, <1>12, <1>13, <1>15, <1>17, <1>18 DEF WriteStep

-----------------------------------------------------------------------------
(* Theorems                                                                *)

\* The cache starts with what was loaded of the table, and says what was not.
LEMMA CacheInit == Init => CacheInv
<1> SUFFICES ASSUME Init PROVE CacheInv
  OBVIOUS
<1>1. \A r \in Request : ~Flies(req[r]) /\ req[r].raced = {}
  BY DEF Init, Start, Flies
<1>2. ASSUME NEW k \in Key
      PROVE  Agree(cache[k], db[k], k \in partial, k \in thin)
  <2>1. db[k] = None \/ db[k] \in Piece
    BY TablesHold DEF Init
  <2>2. db[k] # None => PartOf(db[k], db[k])
    BY DEF PartOf
  <2>3. ASSUME NEW S \in SUBSET Key,
               cache = [x \in Key |-> IF x \in S THEN db[x] ELSE None],
               partial = Key \ S, thin = {}
        PROVE  Agree(cache[k], db[k], k \in partial, k \in thin)
    BY <2>2, <2>3 DEF Agree
  <2>4. ASSUME NEW gone \in [Key -> SUBSET Kid],
               cache = [x \in Key |-> IF db[x] = None THEN None
                                      ELSE Only(db[x], Part \ gone[x])],
               partial = {}, thin = {x \in Key : gone[x] # {}}
        PROVE  Agree(cache[k], db[k], k \in partial, k \in thin)
    <3>1. CASE db[k] = None
      BY <2>4, <3>1 DEF Agree
    <3>2. CASE db[k] # None
      <4> DEFINE S == Part \ gone[k]
                 o == Only(db[k], S)
      <4>1. db[k] \in Piece /\ cache[k] = o
        BY <2>1, <2>4, <3>2
      <4>2. /\ o \in Piece /\ DOMAIN o = DOMAIN db[k] \cap S
            /\ \A p \in DOMAIN db[k] \cap S : o[p] = db[k][p]
        BY <4>1, OnlyPiece
      <4>3. k \notin thin => S = Part
        BY <2>4
      <4> HIDE DEF o, S
      <4>4. PartOf(o, db[k])
        BY <3>2, <4>2, PieceIs DEF PartOf
      <4>5. k \notin thin => o = db[k]
        BY <4>1, <4>3, OnlyAll DEF o
      <4>6. o # None
        BY <4>2, PieceIs
      <4> QED BY <4>1, <4>4, <4>5, <4>6 DEF Agree
    <3> QED BY <3>1, <3>2
  <2> QED BY <2>3, <2>4 DEF Init
<1> QED BY <1>1, <1>2 DEF CacheInv, Marked, Tainted, Known, Settled

\* The cache is dropped: no writer knows anything from there on, what a reader
\* read is still what is there, and no key is in the cache.
LEMMA CacheDrops ==
    ASSUME TypeOK, CacheInv, DropCache
    PROVE  CacheInv'
<1>1. PICK X \in SUBSET Request :
        req' = [r \in Request |->
                  IF r \in X THEN [Start EXCEPT !.op = req[r].op, !.pc = "panicked"]
                  ELSE req[r]]
  BY DEF DropCache
<1>2. ASSUME NEW r \in Request, Flies(req'[r]) PROVE req'[r] = req[r]
  <2>1. [Start EXCEPT !.op = req[r].op, !.pc = "panicked"].pc = "panicked"
    BY DEF Start
  <2> QED BY <1>1, <1>2, <2>1 DEF Flies, Ended
<1>3. /\ phase = "active" /\ phase' # "active" /\ db' = db /\ cache' = Empty
      /\ suspect' = {} /\ partial' = Key /\ thin' = {}
  BY DEF DropCache
<1>4. Marked'
  BY <1>2 DEF CacheInv, Marked
<1>5. Known'
  <2> SUFFICES ASSUME NEW r \in Request, Flies(req'[r])
               PROVE  /\ Shape(req'[r])
                      /\ ~Writes(req'[r]) => \A k \in Touches(req'[r]) \ req'[r].raced :
                            Holds(req'[r], k, cache'[k], db'[k], k \in suspect', k \in partial', k \in thin')
    BY <1>3 DEF Known, Knows
  <2>1. req'[r] = req[r] /\ Flies(req[r]) /\ Touches(req[r]) \subseteq Key
    BY <1>2, TouchesKeys DEF TypeOK
  <2>2. /\ Shape(req[r])
        /\ \A k \in Touches(req[r]) \ req[r].raced :
              Holds(req[r], k, cache[k], db[k], k \in suspect, k \in partial, k \in thin)
    BY <1>3, <2>1 DEF CacheInv, Known, Knows
  <2>3. ASSUME ~Writes(req[r]), NEW k \in Touches(req[r]) \ req[r].raced
        PROVE  Holds(req[r], k, cache'[k], db'[k], k \in suspect', k \in partial', k \in thin')
    <3>1. ReaderHolds(req[r], k, db[k], k \in suspect, k \in partial, k \in thin)
      BY <2>2, <2>3 DEF Holds
    <3>2. k \in partial'
      BY <1>3, <2>1
    <3>3. ReaderHolds(req[r], k, db'[k], k \in suspect', k \in partial', k \in thin')
      BY <1>3, <3>1, <3>2 DEF ReaderHolds
    <3> QED BY <2>3, <3>3 DEF Holds
  <2> QED BY <2>1, <2>2, <2>3
<1>6. Settled'
  BY <1>3 DEF Settled, Agree, Empty
<1> QED BY <1>3, <1>4, <1>5, <1>6 DEF CacheInv

\* Every step keeps the invariant, those of DeActivate and after it too.
LEMMA CacheNext == TypeOK /\ CacheInv /\ [Next]_vars => CacheInv'
<1> SUFFICES ASSUME TypeOK, CacheInv, [Next]_vars PROVE CacheInv'
  OBVIOUS
<1>1. TypeOK'
  BY TypeNext
<1>2. CASE UNCHANGED vars
  BY <1>2 DEF vars, CacheInv, Marked, Tainted, Known, Knows, Settled
<1>3. CASE CloseOrm
  <2>1. /\ UNCHANGED <<db, cache, req, suspect, partial, thin>> /\ phase' # "active"
    BY <1>3 DEF CloseOrm
  <2>2. Known'
    <3> SUFFICES ASSUME NEW r \in Request, Flies(req[r])
                 PROVE  /\ Shape(req[r])
                        /\ ~Writes(req[r]) => \A k \in Touches(req[r]) \ req[r].raced :
                              Holds(req[r], k, cache[k], db[k], k \in suspect, k \in partial, k \in thin)
      BY <2>1 DEF Known, Knows
    <3> QED BY DEF CacheInv, Known, Knows
  <2> QED BY <2>1, <2>2 DEF CacheInv, Marked, Settled
<1>4. ASSUME NEW r \in Request, OrmPanics(r) PROVE CacheInv'
  <2>1. /\ phase # "active" /\ UNCHANGED <<db, cache, phase, suspect, partial, thin>>
        /\ Flies(req[r])
    BY <1>4 DEF OrmPanics, OrmThere, Flies, Ended
  <2>2. ~Flies(req'[r]) /\ \A x \in Request \ {r} : req'[x] = req[x]
    BY <1>4, Finished DEF OrmPanics, Ended
  <2>3. Frame(r)
    BY <2>1, <2>2 DEF Frame
  <2>4. ReadsOnly(r)
    BY <2>1 DEF ReadsOnly
  <2>5. Leaves(r)
    BY <2>1, <2>2 DEF Leaves
  <2> QED BY <1>1, <2>1, <2>3, <2>4, <2>5, StepKeeps
<1> QED BY <1>1, <1>2, <1>3, <1>4, CacheDrops, CacheWriteStep, CacheDeleteStep,
           CacheGetStep DEF Next

\* The invariant holds in every reachable state.
LEMMA CacheInvariant == Spec => [](TypeOK /\ CacheInv)
<1>1. TypeOK /\ CacheInv /\ [Next]_vars => (TypeOK /\ CacheInv)'
  BY TypeNext, CacheNext
<1> QED BY TypeInit, CacheInit, <1>1, PTL DEF Spec

\* Of a key no request is at, cache and database agree as far as suspect, partial
\* and thin say.
LEMMA QuietAgrees ==
    ASSUME CacheInv, NEW k \in Key, Quiet(k), k \notin suspect
    PROVE  Agree(cache[k], db[k], k \in partial, k \in thin)
<1>1. \A w \in Request : Flies(req[w]) => k \notin Touches(req[w])
  BY DEF Quiet, InFlight, Flies
<1> QED BY <1>1 DEF CacheInv, Settled

\* Once no request is at work on a key, the cache holds of it nothing but what the
\* database holds, whatever POST, PUT, PATCH, DELETE and GET came before and
\* however their steps mixed, and holds all of it where it is not thin: except
\* after the failures, merges and races that Coherent lists (do, cacheAction,
\* Delete, Write, fetchFromDbAndCache).
THEOREM CacheCoherent == Spec => []Coherent
<1>1. CacheInv => Coherent
  BY QuietAgrees DEF Coherent, Agree
<1> QED BY CacheInvariant, <1>1, PTL

\* Nor does it lack a record of the database, except where partial says so, after
\* a load or a delete of which one half failed.
THEOREM CacheComplete == Spec => []Complete
<1>1. CacheInv => Complete
  BY QuietAgrees DEF Complete, Agree, PartOf
<1> QED BY CacheInvariant, <1>1, PTL

-----------------------------------------------------------------------------
(* What a GET answers                                                      *)

\* A request that arrives takes its first steps, and no other moves.
LEMMA Arrived ==
    ASSUME TypeOK, NEW x \in Request, NEW new, Arrive(x, new)
    PROVE  /\ \E R : req'[x] = [new EXCEPT !.raced = R]
           /\ \A y \in Request \ {x} : req'[y].pc = req[y].pc
<1> DEFINE with == {y \in Request : InFlight(y) /\ {req[y].op, new.op} \cap WriteOps # {}}
           shared(y) == Touches(new) \cap Touches(req[y])
           raced == UNION {shared(y) : y \in with}
<1>1. req' = [y \in Request |->
                   IF y = x THEN [new EXCEPT !.raced = raced]
                   ELSE IF y \in with /\ new.pc \notin Ended
                   THEN [req[y] EXCEPT !.raced = req[y].raced \cup shared(y)]
                   ELSE req[y]]
  BY DEF Arrive
<1> HIDE DEF with, shared, raced
<1>2. \A y \in Request : req[y] \in Requests
  BY DEF TypeOK
<1>3. ASSUME NEW y \in Request
      PROVE  [req[y] EXCEPT !.raced = req[y].raced \cup shared(y)].pc = req[y].pc
  BY <1>2 DEF Requests
<1> QED BY <1>1, <1>3

\* Only the last step of a read, or the arrival of a GET that the cache answers,
\* answers a GET.
LEMMA AnswerSteps ==
    ASSUME TypeOK, CacheInv, [Next]_vars, NEW r \in Request, Answers(r)
    PROVE  Get(r) \/ GetQuery(r) \/ GetAggregate(r) \/ ReadEnds(r)
<1> DEFINE q == req[r]
<1>1. /\ q \in Requests
      /\ q.pc \notin Ended /\ req'[r].op \in ReadOps /\ req'[r].pc = "done"
      /\ req'[r].op \notin WriteOps /\ req'[r].pc # q.pc
  BY DEF TypeOK, Answers, Ended, ReadOps, WriteOps
<1>2. ASSUME NEW x \in Request, NEW new, Becomes(x, new)
      PROVE  x = r /\ new.pc = "done" /\ new.op \in ReadOps
  <2>1. req'[x] = new /\ \A y \in Request \ {x} : req'[y] = req[y]
    BY <1>2, Moved
  <2> QED BY <1>1, <2>1
<1>3. ASSUME NEW x \in Request, NEW new, Arrive(x, new)
      PROVE  x = r /\ \E R : req'[r] = [new EXCEPT !.raced = R]
  BY <1>1, <1>3, Arrived
<1>4. ASSUME q.pc \notin {"idle", "Read", "fill"} PROVE q.op \notin ReadOps
  <2>1. Flies(q)
    BY <1>1, <1>4 DEF Flies
  <2>2. Shape(q)
    BY <2>1 DEF CacheInv, Known
  <2> QED BY <1>4, <2>2 DEF Shape
<1>5. ASSUME NEW x \in Request, NEW pc, Finish(x, pc) PROVE x = r /\ pc = "done" /\ q.op \in ReadOps
  <2> DEFINE new == [Start EXCEPT !.op = req[x].op, !.pc = pc]
  <2>1. new.op = req[x].op /\ new.pc = pc
    BY DEF Start
  <2>2. Becomes(x, new)
    BY <1>5 DEF Finish
  <2> HIDE DEF new
  <2> QED BY <1>2, <2>1, <2>2
<1>6. ASSUME NEW x \in Request, NEW pc, Goto(x, pc) PROVE x = r /\ pc = "done"
  <2> DEFINE new == [req[x] EXCEPT !.pc = pc]
  <2>1. new.pc = pc
    BY DEF TypeOK, Requests
  <2>2. Becomes(x, new)
    BY <1>6 DEF Goto
  <2> HIDE DEF new
  <2> QED BY <1>2, <2>1, <2>2
<1>7. ASSUME NEW x \in Request, NEW lost, NextElem(x, lost) PROVE FALSE
  <2> DEFINE pc == IF req[x].i = Len(req[x].elems) THEN "Write" ELSE "cacheAction"
             new == [req[x] EXCEPT !.i = req[x].i + 1, !.pc = pc, !.lost = req[x].lost \cup lost]
  <2>1. new.pc = pc /\ pc # "done"
    BY DEF TypeOK, Requests
  <2>2. Becomes(x, new)
    BY <1>7 DEF NextElem
  <2> HIDE DEF new
  <2> QED BY <1>2, <2>1, <2>2
<1>8. ASSUME NEW x \in Request, NEW e, req[x].pc # "done",
             Becomes(x, [req[x] EXCEPT !.todo = req[x].todo \ {e}])
      PROVE  FALSE
  <2> DEFINE new == [req[x] EXCEPT !.todo = req[x].todo \ {e}]
  <2>1. new.pc = req[x].pc
    BY DEF TypeOK, Requests
  <2>2. Becomes(x, new)
    BY <1>8
  <2> HIDE DEF new
  <2> QED BY <1>2, <1>8, <2>1, <2>2
<1>9. ASSUME NEW x \in Request, NEW todo, NEW cut, NEW lost,
             Becomes(x, [req[x] EXCEPT !.pc = "patchFill", !.todo = todo, !.cut = cut, !.lost = lost])
      PROVE  FALSE
  <2> DEFINE new == [req[x] EXCEPT !.pc = "patchFill", !.todo = todo, !.cut = cut, !.lost = lost]
  <2>1. new.pc = "patchFill"
    BY DEF TypeOK, Requests
  <2>2. Becomes(x, new)
    BY <1>9
  <2> HIDE DEF new
  <2> QED BY <1>2, <2>1, <2>2
<1>10. ASSUME NEW x \in Request, WriteStep(x) PROVE FALSE
  <2>1. CASE BeginWrite(x)
    <3>0. PICK op \in {"POST", "PUT", "PATCH"} : \E elems, pc, i :
               Arrive(x, [Start EXCEPT !.op = op, !.elems = elems, !.pc = pc, !.i = i])
      BY <2>1 DEF BeginWrite
    <3>1. PICK elems, pc, i :
               Arrive(x, [Start EXCEPT !.op = op, !.elems = elems, !.pc = pc, !.i = i])
      BY <3>0
    <3> DEFINE new == [Start EXCEPT !.op = op, !.elems = elems, !.pc = pc, !.i = i]
    <3>2. \A R : [new EXCEPT !.raced = R].op = op
      BY DEF Start
    <3>3. Arrive(x, new)
      BY <3>1
    <3> HIDE DEF new
    <3>4. \E R : req'[r] = [new EXCEPT !.raced = R]
      BY <1>3, <3>3
    <3> QED BY <1>1, <3>2, <3>4 DEF WriteOps
  <2>2. CASE CachePost(x) \/ CachePatch(x)
    BY <1>7, <2>2 DEF CachePost, CachePatch
  <2>3. CASE PatchLookup(x)
    BY <1>6, <2>3 DEF PatchLookup
  <2>4. CASE PatchRead(x)
    <3>1. \E got, cut, lost :
             Becomes(x, [req[x] EXCEPT !.pc = "patchFill", !.todo = got, !.cut = cut, !.lost = lost])
      BY <2>4 DEF PatchRead
    <3> QED BY <1>9, <3>1
  <2>5. CASE PatchFill(x)
    <3> DEFINE new == [req[x] EXCEPT !.pc = "cachePatch", !.todo = {}]
    <3>1. new.pc = "cachePatch"
      BY DEF TypeOK, Requests
    <3>2. Becomes(x, new)
      BY <2>5 DEF PatchFill
    <3> HIDE DEF new
    <3> QED BY <1>2, <3>1, <3>2
  <2>6. CASE Write(x) \/ WriteFails(x) \/ PatchReadPanics(x)
    <3>1. req[x].pc \in {"Write", "patchRead"} /\ \E pc : Finish(x, pc)
      BY <2>6 DEF Write, WriteFails, PatchReadPanics, End, At
    <3> QED BY <1>4, <1>5, <3>1
  <2> QED BY <1>10, <2>1, <2>2, <2>3, <2>4, <2>5, <2>6 DEF WriteStep
<1>11. ASSUME NEW x \in Request, DeleteStep(x) PROVE FALSE
  <2>1. CASE DeleteFilter(x)
    <3>1. PICK elems : Arrive(x, [Start EXCEPT !.op = "DELETE", !.pc = "Delete", !.elems = elems])
      BY <2>1 DEF DeleteFilter
    <3> DEFINE new == [Start EXCEPT !.op = "DELETE", !.pc = "Delete", !.elems = elems]
    <3>2. \A R : [new EXCEPT !.raced = R].op = "DELETE"
      BY DEF Start
    <3>3. Arrive(x, new)
      BY <3>1
    <3> HIDE DEF new
    <3>4. \E R : req'[r] = [new EXCEPT !.raced = R]
      BY <1>3, <3>3
    <3> QED BY <1>1, <3>2, <3>4 DEF WriteOps
  <2>2. CASE DeleteFetch(x)
    <3>1. PICK crit, paging, got, lost :
            Arrive(x, [Start EXCEPT
              !.op = "DELETE query", !.pc = "Delete query", !.crit = crit,
              !.paging = paging, !.todo = got, !.lost = lost])
      BY <2>2 DEF DeleteFetch
    <3> DEFINE new == [Start EXCEPT
              !.op = "DELETE query", !.pc = "Delete query", !.crit = crit,
              !.paging = paging, !.todo = got, !.lost = lost]
    <3>2. \A R : [new EXCEPT !.raced = R].op = "DELETE query"
      BY DEF Start
    <3>3. Arrive(x, new)
      BY <3>1
    <3> HIDE DEF new
    <3>4. \E R : req'[r] = [new EXCEPT !.raced = R]
      BY <1>3, <3>3
    <3> QED BY <1>1, <3>2, <3>4 DEF WriteOps
  <2>3. CASE DeleteQuery(x)
    <3>1. Goto(x, "evict")
      BY <2>3 DEF DeleteQuery
    <3> QED BY <1>6, <3>1
  <2>4. CASE Evict(x)
    BY <1>8, <2>4 DEF Evict, At
  <2>5. CASE Delete(x) \/ DeleteQueryFails(x) \/ DeleteQueryEnds(x)
    <3>1. req[x].pc \in {"Delete", "Delete query", "evict"} /\ \E pc : Finish(x, pc)
      BY <2>5 DEF Delete, DeleteQueryFails, DeleteQueryEnds, End, At
    <3> QED BY <1>4, <1>5, <3>1
  <2> QED BY <1>11, <2>1, <2>2, <2>3, <2>4, <2>5 DEF DeleteStep
<1>12. ASSUME NEW x \in Request, GetStep(x)
       PROVE  Get(r) \/ GetQuery(r) \/ GetAggregate(r) \/ ReadEnds(r)
  <2>1. CASE Get(x) \/ GetQuery(x) \/ GetAggregate(x)
    <3>1. \E new : Arrive(x, new)
      BY <2>1 DEF Get, GetQuery, GetAggregate
    <3> QED BY <1>3, <2>1, <3>1
  <2>2. CASE Read(x)
    <3>1. PICK got, cut, todo :
             Becomes(x, [req[x] EXCEPT !.pc = "fill", !.hold = got, !.cut = cut, !.todo = todo])
      BY <2>2 DEF Read
    <3> DEFINE new == [req[x] EXCEPT !.pc = "fill", !.hold = got, !.cut = cut, !.todo = todo]
    <3>2. new.pc = "fill"
      BY DEF TypeOK, Requests
    <3>3. Becomes(x, new)
      BY <3>1
    <3> HIDE DEF new
    <3> QED BY <1>2, <3>2, <3>3
  <2>3. CASE ReadFails(x)
    <3>1. ASSUME NEW op, NEW hold,
                 Becomes(x, [Start EXCEPT !.op = op, !.pc = "failed", !.hold = hold])
          PROVE  FALSE
      <4> DEFINE new == [Start EXCEPT !.op = op, !.pc = "failed", !.hold = hold]
      <4>1. new.pc = "failed"
        BY DEF Start
      <4>2. Becomes(x, new)
        BY <3>1
      <4> HIDE DEF new
      <4> QED BY <1>2, <4>1, <4>2
    <3>2. ~Finish(x, "panicked")
      BY <1>5
    <3> QED BY <2>3, <3>1, <3>2 DEF ReadFails
  <2>4. CASE Fill(x)
    BY <1>8, <2>4 DEF Fill, At
  <2>5. CASE ReadEnds(x)
    BY <1>6, <2>5 DEF ReadEnds
  <2> QED BY <1>12, <2>1, <2>2, <2>3, <2>4, <2>5 DEF GetStep
<1>13. ASSUME NEW x \in Request, OrmPanics(x) PROVE FALSE
  <2>1. Finish(x, "panicked")
    BY <1>13 DEF OrmPanics
  <2> QED BY <1>5, <2>1
<1>14. ~DropCache
  <2> SUFFICES ASSUME DropCache PROVE FALSE
    OBVIOUS
  <2>1. PICK X \in SUBSET Request :
          req' = [y \in Request |->
                    IF y \in X THEN [Start EXCEPT !.op = req[y].op, !.pc = "panicked"]
                    ELSE req[y]]
    BY DEF DropCache
  <2>2. [Start EXCEPT !.op = req[r].op, !.pc = "panicked"].pc = "panicked"
    BY DEF Start
  <2> QED BY <1>1, <2>1, <2>2
<1>15. ~CloseOrm /\ ~UNCHANGED vars
  BY <1>1 DEF CloseOrm, vars
<1> QED BY <1>10, <1>11, <1>12, <1>13, <1>14, <1>15 DEF Next

\* What a GET that arrives finds in the cache is, on the keys no writer in
\* flight touches and that are not suspect, what the database holds.
LEMMA ArrivesToAgree ==
    ASSUME TypeOK, CacheInv, NEW r \in Request, NEW new, Arrive(r, new),
           new \in Requests, NEW k \in Key,
           k \notin suspect, k \in Touches(new), k \notin req'[r].raced
    PROVE  Agree(cache[k], db[k], k \in partial, k \in thin)
<1> DEFINE with == {y \in Request : InFlight(y) /\ {req[y].op, new.op} \cap WriteOps # {}}
           shared(y) == Touches(new) \cap Touches(req[y])
           raced == UNION {shared(y) : y \in with}
<1>1. req'[r] = [new EXCEPT !.raced = raced]
  BY DEF Arrive
<1>2. req'[r].raced = raced
  <2> HIDE DEF raced
  <2> QED BY <1>1 DEF Requests
<1>3. ASSUME NEW w \in Request, Flies(req[w]), Writes(req[w]) PROVE k \notin Touches(req[w])
  <2>1. w \in with
    BY <1>3 DEF InFlight, Flies, Writes
  <2>2. shared(w) \subseteq raced
    BY <2>1
  <2> QED BY <1>2, <2>2
<1> QED BY <1>3 DEF CacheInv, Settled

\* What the step that answers says of one key of the answer.
KeyAnswered(q, k) ==
    /\ \A e \in q.hold : e.key = k =>
          /\ PartOf(e.val, db[k])
          /\ k \notin thin /\ ~q.cut => q.asked \cap DOMAIN db[k] \subseteq DOMAIN e.val
    /\ q.op = "GET" /\ ~q.cut /\ k \in Touches(q) /\ db[k] # None => k \in KeysHeld(q.hold)
    /\ q.op = "GET aggregate" /\ ~q.cut /\ k \notin partial /\ k \notin thin =>
          /\ \A e \in q.hold : e.key = k => e.val = db[k]
          /\ k \in KeysHeld(q.hold) <=> Matches(db[k], q.crit)

\* Rows of the cache are so answered where cache and database agree.
LEMMA CachedAnswered ==
    ASSUME TypeOK, NEW q, NEW k \in Key, Agree(cache[k], db[k], k \in partial, k \in thin),
           NEW T, q.hold = RowsOf(cache, T),
           q.op = "GET" => T = Touches(q) /\ \A x \in T : cache[x] # None,
           q.op = "GET aggregate" => T \in Found(q.crit)
    PROVE  KeyAnswered(q, k)
<1>1. /\ \A e \in q.hold : e.key \in T /\ e.val = cache[e.key] /\ cache[e.key] # None
      /\ \A x \in T : cache[x] # None => x \in KeysHeld(q.hold)
  BY RowsSay
<1>2. \A e \in q.hold : e.key = k => PartOf(e.val, db[k]) /\ (k \notin thin => e.val = db[k])
  BY <1>1 DEF Agree
<1>3. q.op = "GET" /\ k \in Touches(q) => k \in KeysHeld(q.hold)
  BY <1>1
<1>4. ASSUME q.op = "GET aggregate", k \notin partial, k \notin thin
      PROVE  k \in KeysHeld(q.hold) <=> Matches(db[k], q.crit)
  <2>1. cache[k] = db[k]
    BY <1>4 DEF Agree
  <2>2. Plain(cache[k]) /\ (Matches(cache[k], q.crit) => cache[k] # None)
    BY <2>1, StoredMatches DEF TypeOK
  <2>3. /\ Matches(cache[k], q.crit) => k \in T
        /\ k \in T => Matches(cache[k], q.crit)
    BY <1>4, <2>2, FoundIs
  <2>4. k \in KeysHeld(q.hold) => k \in T
    BY <1>1 DEF KeysHeld
  <2> QED BY <1>1, <2>1, <2>2, <2>3, <2>4
<1> QED BY <1>2, <1>3, <1>4 DEF KeyAnswered

\* What a reader holds at its end, or no answer at all, is so answered.
LEMMA ReadAnswered ==
    ASSUME NEW q, NEW k \in Key, NEW s, NEW p, NEW t, Shape(q), q.pc = "fill", q.op \in ReadOps,
           k \in Touches(q) => ReaderHolds(q, k, db[k], s, p, t)
    PROVE  KeyAnswered(q, k)
<1>1. CASE k \in Touches(q)
  BY <1>1 DEF ReaderHolds, KeyAnswered
<1>2. CASE k \notin Touches(q)
  <2>1. k \notin KeysHeld(q.hold)
    BY <1>2 DEF Shape
  <2>2. \A e \in q.hold : e.key # k
    BY <2>1 DEF KeysHeld
  <2>3. q.op = "GET aggregate" => k \in Touches(q)
    BY DEF Touches, QueryOps
  <2> QED BY <1>2, <2>1, <2>2, <2>3 DEF KeyAnswered
<1> QED BY <1>1, <1>2

\* What matters of a request for what it is answered.
LEMMA AnsweredAlike ==
    ASSUME NEW q, NEW new, NEW k \in Key, KeyAnswered(q, k),
           new.op = q.op, new.elems = q.elems, new.hold = q.hold, new.cut = q.cut,
           new.crit = q.crit, new.asked = q.asked
    PROVE  KeyAnswered(new, k)
BY DEF KeyAnswered, Touches

\* What a GET that arrives and is answered by the cache holds, is so answered.
LEMMA ArrivalAnswered ==
    ASSUME TypeOK, CacheInv, NEW r \in Request, NEW new \in Requests, Arrive(r, new),
           NEW k \in Key, k \notin suspect, k \notin req'[r].raced,
           NEW T, new.hold = RowsOf(cache, T), new.op \in ReadOps,
           new.op = "GET" => T = Touches(new) /\ \A x \in T : cache[x] # None,
           new.op = "GET aggregate" => T \in Found(new.crit),
           new.op \in QueryOps \/ T = Touches(new)
    PROVE  KeyAnswered(req'[r], k)
<1>1. PICK R : req'[r] = [new EXCEPT !.raced = R]
  BY Arrived
<1>2. /\ req'[r].op = new.op /\ req'[r].elems = new.elems /\ req'[r].hold = new.hold
      /\ req'[r].cut = new.cut /\ req'[r].crit = new.crit /\ req'[r].asked = new.asked
  BY <1>1 DEF Requests
<1>3. CASE k \in Touches(new)
  <2>1. Agree(cache[k], db[k], k \in partial, k \in thin)
    BY <1>3, ArrivesToAgree
  <2>2. KeyAnswered(new, k)
    BY <2>1, CachedAnswered
  <2> QED BY <1>2, <2>2, AnsweredAlike
<1>4. CASE k \notin Touches(new)
  <2>1. T = Touches(new) /\ new.op \notin QueryOps
    BY <1>4 DEF Touches
  <2>2. \A e \in new.hold : e.key # k
    BY <1>4, <2>1, RowsSay
  <2>3. Touches(req'[r]) = Touches(new) /\ new.op # "GET aggregate"
    BY <1>2, <2>1 DEF Touches, QueryOps
  <2> QED BY <1>2, <1>4, <2>2, <2>3 DEF KeyAnswered
<1> QED BY <1>3, <1>4

\* Whichever step answers, it says that of every key that is neither suspect nor
\* raced on.
LEMMA EveryKeyAnswered ==
    ASSUME TypeOK, CacheInv, [Next]_vars, NEW r \in Request, Answers(r),
           NEW k \in Key, k \notin suspect, k \notin req'[r].raced
    PROVE  KeyAnswered(req'[r], k)
<1> DEFINE q == req[r]
<1>1. q \in Requests /\ cache \in Cached /\ db \in Stored
  BY DEF TypeOK
<1>2. CASE Get(r)
  <2>1. PICK k0 \in Key :
          Arrive(r, [Start EXCEPT
              !.op = "GET", !.elems = Filter(k0), !.hold = RowsOf(cache, {k0}),
              !.pc = IF cache[k0] = None THEN "Read" ELSE "done"])
    BY <1>2 DEF Get
  <2> DEFINE pc == IF cache[k0] = None THEN "Read" ELSE "done"
             hold == RowsOf(cache, {k0})
             new == [Start EXCEPT !.op = "GET", !.elems = Filter(k0),
                                  !.hold = hold, !.pc = pc]
  <2>2. pc \in {"Read", "done"} /\ hold \subseteq Element
    BY RowsAreElements DEF TypeOK
  <2>3. Arrive(r, new)
    BY <2>1
  <2>4. pc = "done" => cache[k0] # None
    OBVIOUS
  <2>5. hold = RowsOf(cache, {k0})
    OBVIOUS
  <2> HIDE DEF pc, hold
  <2>6. "GET" \in Ops
    BY <2>3, StartTyped DEF Arrive, Requests
  <2>7. Filter(k0) \in Seq(Element)
    BY OneElement
  <2>8. /\ new \in Requests /\ new.op = "GET" /\ new.pc = pc /\ new.elems = Filter(k0)
        /\ new.hold = hold
    BY <2>2, <2>6, <2>7, StartTyped DEF Requests, OnElement, Ended, Start
  <2> HIDE DEF new
  <2>9. Touches(new) = {k0}
    BY <2>8, OneTouches DEF QueryOps
  <2>10. PICK R : req'[r] = [new EXCEPT !.raced = R]
    BY <2>3, Arrived
  <2>11. pc = "done"
    <3>1. req'[r].pc = new.pc
      BY <2>8, <2>10 DEF Requests
    <3> QED BY <2>8, <3>1 DEF Answers
  <2>12. new.op \in ReadOps /\ new.op # "GET aggregate" /\ \A x \in {k0} : cache[x] # None
    BY <2>4, <2>8, <2>11 DEF ReadOps
  <2> QED BY <2>3, <2>5, <2>8, <2>9, <2>12, ArrivalAnswered
<1>3. CASE GetQuery(r)
  <2>0. PICK crit \in Criteria, paging \in Paging, asked \in Asked :
          \E got \in cacheFetch(crit, paging), pc \in {"Read", "done"} :
            Arrive(r, [Start EXCEPT
                !.op = "GET query", !.crit = crit, !.paging = paging,
                !.asked = asked, !.hold = got, !.pc = pc])
    BY <1>3 DEF GetQuery
  <2>1. PICK got \in cacheFetch(crit, paging), pc \in {"Read", "done"} :
          Arrive(r, [Start EXCEPT
              !.op = "GET query", !.crit = crit, !.paging = paging,
              !.asked = asked, !.hold = got, !.pc = pc])
    BY <2>0
  <2> DEFINE new == [Start EXCEPT !.op = "GET query", !.crit = crit,
                                  !.paging = paging, !.asked = asked, !.hold = got, !.pc = pc]
  <2>2. Arrive(r, new)
    BY <2>1
  <2>3. got \subseteq Element
    BY FetchedElements
  <2>4. "GET query" \in Ops
    BY <2>2, StartTyped DEF Arrive, Requests
  <2>5. crit \in SUBSET Val /\ paging \in [page : Nat, limit : Nat] /\ asked \in SUBSET Part
    BY ServiceAssumption DEF Part
  <2>6. new \in Requests /\ new.op = "GET query" /\ new.hold = got
    BY <2>3, <2>4, <2>5, StartTyped DEF Requests, OnElement, Ended, Start
  <2> HIDE DEF new
  <2>7. PICK T : got = RowsOf(cache, T)
    BY FetchIs
  <2>8. new.op \in ReadOps /\ new.op \in QueryOps /\ new.op # "GET" /\ new.op # "GET aggregate"
    BY <2>6 DEF ReadOps, QueryOps
  <2> QED BY <2>2, <2>6, <2>7, <2>8, ArrivalAnswered
<1>4. CASE GetAggregate(r)
  <2>0. PICK crit \in Criteria, pc \in {"Read", "done"} : \E S \in Found(crit) :
          Arrive(r, [Start EXCEPT
              !.op = "GET aggregate", !.crit = crit, !.hold = RowsOf(cache, S), !.pc = pc])
    BY <1>4 DEF GetAggregate
  <2>1. PICK S \in Found(crit) :
          Arrive(r, [Start EXCEPT
              !.op = "GET aggregate", !.crit = crit, !.hold = RowsOf(cache, S), !.pc = pc])
    BY <2>0
  <2> DEFINE hold == RowsOf(cache, S)
             new == [Start EXCEPT !.op = "GET aggregate", !.crit = crit,
                                  !.hold = hold, !.pc = pc]
  <2>2. Arrive(r, new)
    BY <2>1
  <2>3. hold \subseteq Element /\ hold = RowsOf(cache, S)
    BY FoundIs, RowsAreElements DEF TypeOK
  <2> HIDE DEF hold
  <2>4. "GET aggregate" \in Ops
    BY <2>2, StartTyped DEF Arrive, Requests
  <2>5. crit \in SUBSET Val
    BY ServiceAssumption
  <2>6. /\ new \in Requests /\ new.op = "GET aggregate" /\ new.hold = hold /\ new.crit = crit
    BY <2>3, <2>4, <2>5, StartTyped DEF Requests, OnElement, Ended, Start
  <2> HIDE DEF new
  <2>7. new.op \in ReadOps /\ new.op \in QueryOps /\ new.op # "GET"
    BY <2>6 DEF ReadOps, QueryOps
  <2> QED BY <2>2, <2>3, <2>6, <2>7, ArrivalAnswered
<1>5. CASE ReadEnds(r)
  <2> DEFINE new == [q EXCEPT !.pc = "done"]
  <2>1. q.pc = "fill" /\ Flies(q)
    BY <1>5 DEF ReadEnds, At, Flies, Ended
  <2>2. req'[r] = new
    BY <1>5, Moved DEF ReadEnds, Goto
  <2>3. /\ new.op = q.op /\ new.elems = q.elems /\ new.hold = q.hold /\ new.cut = q.cut
        /\ new.crit = q.crit /\ new.asked = q.asked /\ new.raced = q.raced
    BY <1>1 DEF Requests
  <2> HIDE DEF new
  <2>4. Shape(q) /\ q.op \in ReadOps /\ ~Writes(q)
    BY <2>1, <2>2, <2>3 DEF CacheInv, Known, Answers, Writes, ReadOps, WriteOps
  <2>5. k \in Touches(q) => Holds(q, k, cache[k], db[k], k \in suspect, k \in partial, k \in thin)
    BY <2>1, <2>2, <2>3, <2>4 DEF CacheInv, Known, Knows
  <2>6. k \in Touches(q) => ReaderHolds(q, k, db[k], k \in suspect, k \in partial, k \in thin)
    BY <2>4, <2>5 DEF Holds
  <2>7. KeyAnswered(q, k)
    BY <2>1, <2>4, <2>6, ReadAnswered
  <2> QED BY <2>2, <2>3, <2>7, AnsweredAlike
<1> QED BY <1>2, <1>3, <1>4, <1>5, AnswerSteps

\* A GET that no write overlapped answers with nothing but what the database
\* holds, and finds the record it filters for and all that was asked of each, but
\* for a read that broke off and a cache that may lack a part: whether the cache
\* answers it or the database, and while the service is deactivated too (Get,
\* fetchFromDbAndCache).
THEOREM GetsAnswerFromStore == Spec => GetAnswersFromStore
<1> DEFINE A == \A r \in Request : Answers(r) =>
          LET q == req'[r]
              sound == Key \ (suspect \cup q.raced)
          IN  /\ \A e \in q.hold : e.key \in sound =>
                    /\ PartOf(e.val, db[e.key])
                    /\ e.key \notin thin /\ ~q.cut => q.asked \cap DOMAIN db[e.key] \subseteq DOMAIN e.val
              /\ q.op = "GET" /\ ~q.cut =>
                    \A k \in Touches(q) \cap sound : db[k] # None => \E e \in q.hold : e.key = k
<1>1. ASSUME TypeOK, CacheInv, [Next]_vars PROVE A
  <2> SUFFICES ASSUME NEW r \in Request, Answers(r)
               PROVE  LET q == req'[r]
                          sound == Key \ (suspect \cup q.raced)
                      IN  /\ \A e \in q.hold : e.key \in sound =>
                                /\ PartOf(e.val, db[e.key])
                                /\ e.key \notin thin /\ ~q.cut
                                      => q.asked \cap DOMAIN db[e.key] \subseteq DOMAIN e.val
                          /\ q.op = "GET" /\ ~q.cut =>
                                \A k \in Touches(q) \cap sound :
                                   db[k] # None => \E e \in q.hold : e.key = k
    OBVIOUS
  <2> DEFINE q == req'[r]
             sound == Key \ (suspect \cup q.raced)
  <2>1. \A k \in sound : KeyAnswered(q, k)
    BY <1>1, EveryKeyAnswered
  <2> HIDE DEF sound, q
  <2>2. ASSUME NEW e \in q.hold, e.key \in sound
        PROVE  /\ PartOf(e.val, db[e.key])
               /\ e.key \notin thin /\ ~q.cut => q.asked \cap DOMAIN db[e.key] \subseteq DOMAIN e.val
    BY <2>1, <2>2 DEF KeyAnswered
  <2>3. ASSUME q.op = "GET", ~q.cut, NEW k \in Touches(q) \cap sound, db[k] # None
        PROVE  \E e \in q.hold : e.key = k
    <3>1. k \in KeysHeld(q.hold)
      BY <2>1, <2>3 DEF KeyAnswered
    <3> QED BY <3>1 DEF KeysHeld
  <2> QED BY <2>2, <2>3 DEF sound, q
<1> QED BY CacheInvariant, <1>1, PTL DEF GetAnswersFromStore, Spec

\* An aggregate that no write overlapped counts, on every key the cache is not
\* suspected to lack or to hold wrongly or in part, the records of the database
\* that match and no others (cacheFetch, fetchFromDbAndCache).
THEOREM AggregatesCountStore == Spec => AggregatesCoverStore
<1> DEFINE A == \A r \in Request :
          (Answers(r) /\ req'[r].op = "GET aggregate" /\ ~req'[r].cut) =>
          LET q == req'[r]
              sound == Key \ (suspect \cup partial \cup thin \cup q.raced)
          IN  {e \in q.hold : e.key \in sound} = RowsOf(db, Matching(db, q.crit) \cap sound)
<1>1. ASSUME TypeOK, CacheInv, [Next]_vars PROVE A
  <2> SUFFICES ASSUME NEW r \in Request, Answers(r), req'[r].op = "GET aggregate", ~req'[r].cut
               PROVE  LET q == req'[r]
                          sound == Key \ (suspect \cup partial \cup thin \cup q.raced)
                      IN  {e \in q.hold : e.key \in sound}
                             = RowsOf(db, Matching(db, q.crit) \cap sound)
    OBVIOUS
  <2> DEFINE q == req'[r]
             sound == Key \ (suspect \cup partial \cup thin \cup q.raced)
             S == Matching(db, q.crit) \cap sound
  <2>1. \A k \in sound : KeyAnswered(q, k) /\ k \notin partial /\ k \notin thin /\ k \in Key
    BY <1>1, EveryKeyAnswered
  <2>2. q \in Requests
    BY <1>1, TypeNext DEF TypeOK
  <2>3. \A k \in S : db[k] # None => [key |-> k, val |-> db[k]] \in RowsOf(db, S)
    BY DEF RowsOf
  <2>4. \A k \in Key : k \in S <=> k \in sound /\ Matches(db[k], q.crit)
    BY DEF Matching, Matches
  <2>5. \A k : Matches(db[k], q.crit) => db[k] # None
    BY DEF Matches, Parts
  <2>6. q.op = "GET aggregate" /\ ~q.cut
    OBVIOUS
  <2> HIDE DEF sound, S, q
  <2>7. ASSUME NEW k \in sound
        PROVE  /\ \A e \in q.hold : e.key = k => e.val = db[k]
               /\ k \in KeysHeld(q.hold) <=> k \in S
    BY <2>1, <2>4, <2>6, <2>7 DEF KeyAnswered
  <2>8. ASSUME NEW e \in q.hold, e.key \in sound PROVE e \in RowsOf(db, S)
    <3>1. e.key \in KeysHeld(q.hold)
      BY <2>8 DEF KeysHeld
    <3>2. e.val = db[e.key] /\ e.key \in S
      BY <2>7, <2>8, <3>1
    <3>3. e = [key |-> e.key, val |-> e.val]
      BY <2>2, <2>8 DEF Requests, Element
    <3>4. db[e.key] # None
      BY <2>1, <2>4, <2>5, <2>8, <3>2
    <3> QED BY <2>3, <3>2, <3>3, <3>4
  <2>9. ASSUME NEW e \in RowsOf(db, S) PROVE e \in q.hold /\ e.key \in sound
    <3>1. e.key \in S /\ e = [key |-> e.key, val |-> db[e.key]]
      BY RowIs
    <3>2. e.key \in sound
      BY <3>1 DEF S
    <3>3. e.key \in KeysHeld(q.hold)
      BY <2>7, <3>1, <3>2
    <3>4. PICK f \in q.hold : f.key = e.key
      BY <3>3 DEF KeysHeld
    <3>5. f.val = db[e.key]
      BY <2>7, <3>2, <3>4
    <3>6. f = [key |-> f.key, val |-> f.val]
      BY <2>2, <3>4 DEF Requests, Element
    <3> QED BY <3>1, <3>2, <3>4, <3>5, <3>6
  <2> QED BY <2>8, <2>9 DEF sound, S, q
<1> QED BY CacheInvariant, <1>1, PTL DEF AggregatesCoverStore, Spec

\* With a cache that is sound and complete, a query whose arrival the cache
\* answers finds there as many records as its page or its block has room for.
LEMMA CacheAnswersWhole ==
    ASSUME TypeOK, CacheInv, NEW r \in Request, GetQuery(r),
           suspect = {}, partial = {}, thin = {}, req'[r].raced = {}
    PROVE  Cardinality(req'[r].hold)
              >= RoomFor(Cardinality(Matching(db, req'[r].crit)), req'[r].paging, DefaultBlock)
<1>0. PICK crit \in Criteria, paging \in Paging, asked \in Asked :
        \E got \in cacheFetch(crit, paging), pc \in {"Read", "done"} :
          Arrive(r, [Start EXCEPT
              !.op = "GET query", !.crit = crit, !.paging = paging,
              !.asked = asked, !.hold = got, !.pc = pc])
  BY DEF GetQuery
<1>1. PICK got \in cacheFetch(crit, paging), pc \in {"Read", "done"} :
        Arrive(r, [Start EXCEPT
            !.op = "GET query", !.crit = crit, !.paging = paging,
            !.asked = asked, !.hold = got, !.pc = pc])
  BY <1>0
<1> DEFINE new == [Start EXCEPT !.op = "GET query", !.crit = crit,
                                !.paging = paging, !.asked = asked, !.hold = got, !.pc = pc]
<1>2. Arrive(r, new)
  BY <1>1
<1>3. got \subseteq Element
  BY FetchedElements
<1>4. "GET query" \in Ops
  BY <1>2, StartTyped DEF Arrive, Requests
<1>5. crit \in SUBSET Val /\ paging \in [page : Nat, limit : Nat] /\ asked \in SUBSET Part
  BY ServiceAssumption DEF Part
<1>6. /\ new \in Requests /\ new.op = "GET query" /\ new.hold = got
      /\ new.crit = crit /\ new.paging = paging
  BY <1>3, <1>4, <1>5, StartTyped DEF Requests, OnElement, Ended, Start
<1> HIDE DEF new
<1>7. PICK R : req'[r] = [new EXCEPT !.raced = R]
  BY <1>2, Arrived
<1>8. req'[r].crit = crit /\ req'[r].paging = paging /\ req'[r].hold = got
  BY <1>6, <1>7 DEF Requests
<1>9. \A k \in Key : cache[k] = db[k] /\ Plain(cache[k])
  <2> SUFFICES ASSUME NEW k \in Key PROVE cache[k] = db[k] /\ Plain(cache[k])
    OBVIOUS
  <2>1. k \in Touches(new)
    BY <1>6 DEF Touches, QueryOps
  <2>2. Agree(cache[k], db[k], k \in partial, k \in thin)
    BY <1>2, <1>6, <2>1, ArrivesToAgree
  <2>3. cache[k] = db[k]
    BY <2>2 DEF Agree
  <2> QED BY <2>3, StoredMatches DEF TypeOK
<1>10. PICK S \in Found(crit) : Cardinality(got) = RoomFor(Cardinality(S), paging, DefaultBlock)
  BY FetchIs
<1>11. S = Matching(db, crit)
  <2>1. S \in SUBSET Key /\ \A k \in Key : k \in S <=> Matches(cache[k], crit)
    BY <1>9, FoundIs
  <2>2. \A k : k \in Matching(db, crit) <=> k \in Key /\ Matches(db[k], crit)
    BY DEF Matching, Matches
  <2> QED BY <1>9, <2>1, <2>2
<1>12. RoomFor(Cardinality(S), paging, DefaultBlock) \in Nat
  <2>1. IsFiniteSet(S)
    BY FoundIs, FS_Subset, ServiceAssumption
  <2>2. IsFiniteSet(got)
    <3>1. PICK T \in SUBSET Key : got = RowsOf(cache, T) /\ \A k \in T : cache[k] # None
      BY FetchIs, FoundIs
    <3> DEFINE f == [e \in got |-> e.key]
    <3>2. \A e \in got : e.key \in Key /\ e = [key |-> e.key, val |-> cache[e.key]]
      BY <3>1, RowIs
    <3>3. f \in [got -> Key] /\ \A d, e \in got : f[d] = f[e] => d = e
      BY <3>2
    <3> HIDE DEF f
    <3>4. f \in Injection(got, Key)
      BY <3>3 DEF Injection, IsInjective
    <3> QED BY <3>4, FS_Injection, ServiceAssumption
  <2> QED BY <1>10, <2>2, FS_CardinalityType
<1> QED BY <1>8, <1>10, <1>11, <1>12

\* An answer for which nothing matches is as large as it has to be.
LEMMA NothingToMiss ==
    ASSUME NEW q \in Requests, Matching(db, q.crit) = {}, IsFiniteSet(q.hold)
    PROVE  Cardinality(q.hold)
              >= RoomFor(Cardinality(Matching(db, q.crit)), q.paging, DefaultBlock)
<1>1. Cardinality(Matching(db, q.crit)) = 0 /\ Cardinality(q.hold) \in Nat
  BY FS_EmptySet, FS_CardinalityType
<1>2. q.paging.page \in Nat /\ q.paging.limit \in Nat
  BY DEF Requests
<1>3. q.paging.page * q.paging.limit \in Nat
  BY <1>2
<1>4. RoomFor(0, q.paging, DefaultBlock) = 0
  <2>1. PageSize(0, q.paging.page, q.paging.limit) = 0
    BY <1>3 DEF PageSize
  <2> QED BY <2>1, ServiceAssumption DEF RoomFor, Least
<1> QED BY <1>1, <1>4

\* What holds one record of each of some keys is finite.
LEMMA RecordsOfKeysFinite ==
    ASSUME NEW hold, hold \subseteq Element, Once(hold)
    PROVE  IsFiniteSet(hold)
<1> DEFINE f == [e \in hold |-> e.key]
<1>1. f \in [hold -> Key] /\ \A d, e \in hold : f[d] = f[e] => d = e
  BY DEF Element, Once
<1> HIDE DEF f
<1>2. f \in Injection(hold, Key)
  BY <1>1 DEF Injection, IsInjective
<1> QED BY <1>2, FS_Injection, ServiceAssumption

\* With a sound and complete cache, a query that no write overlapped returns as
\* many records of the database as its page or, without a limit, a block of the
\* cache has room for (Get, cacheFetch, fetchFromDbAndCache).  One the cache answers
\* does because cache and database agree; one the database answers had no match
\* in the cache when it arrived, and none of its keys was written since.
THEOREM QueriesMissNothing == Spec => QueryMissesNothing
<1> DEFINE A == \A r \in Request :
          (/\ Answers(r) /\ req'[r].op = "GET query"
           /\ suspect = {} /\ partial = {} /\ thin = {} /\ req'[r].raced = {}) =>
          LET q == req'[r]
              n == Cardinality(Matching(db, q.crit))
          IN  Cardinality(q.hold) >= RoomFor(n, q.paging, DefaultBlock)
<1>1. ASSUME TypeOK, CacheInv, [Next]_vars PROVE A
  <2> SUFFICES ASSUME NEW r \in Request, Answers(r), req'[r].op = "GET query",
                      suspect = {}, partial = {}, thin = {}, req'[r].raced = {}
               PROVE  Cardinality(req'[r].hold)
                         >= RoomFor(Cardinality(Matching(db, req'[r].crit)),
                                    req'[r].paging, DefaultBlock)
    OBVIOUS
  <2> DEFINE q == req[r]
             new == req'[r]
  <2>1. q \in Requests /\ new \in Requests
    BY <1>1, TypeNext DEF TypeOK
  <2>2. CASE GetQuery(r)
    BY <1>1, <2>2, CacheAnswersWhole
  <2>3. CASE ReadEnds(r)
    <3>1. q.pc = "fill"
      BY <2>3 DEF ReadEnds, At
    <3>2. new = [q EXCEPT !.pc = "done"]
      BY <1>1, <2>3, Moved DEF ReadEnds, Goto
    <3>3. new.op = q.op /\ new.crit = q.crit /\ new.raced = q.raced /\ new.hold = q.hold
      BY <2>1, <3>2 DEF Requests
    <3>4. Flies(q) /\ ~Writes(q) /\ Touches(q) = Key
      BY <3>1, <3>3 DEF Flies, Ended, Writes, WriteOps, Touches, QueryOps
    <3>5. \A k \in Key : ReaderHolds(q, k, db[k], k \in suspect, k \in partial, k \in thin)
      BY <1>1, <3>3, <3>4 DEF CacheInv, Known, Knows, Holds
    <3>6. \A k \in Key : ~Matches(db[k], new.crit)
      BY <3>3, <3>5 DEF ReaderHolds
    <3>7. Matching(db, new.crit) = {}
      BY <3>6 DEF Matching, Matches
    <3>8. Once(q.hold)
      BY <1>1, <3>1, <3>4 DEF CacheInv, Known, Shape
    <3>9. IsFiniteSet(new.hold)
      BY <2>1, <3>3, <3>8, RecordsOfKeysFinite DEF Requests
    <3> QED BY <2>1, <3>7, <3>9, NothingToMiss
  <2>4. ~Get(r) /\ ~GetAggregate(r)
    <3>1. ASSUME NEW arrived, Arrive(r, arrived),
                 \A R : [arrived EXCEPT !.raced = R].op # "GET query"
          PROVE  FALSE
      <4>1. \E R : new = [arrived EXCEPT !.raced = R]
        BY <1>1, <3>1, Arrived
      <4> QED BY <3>1, <4>1
    <3>2. ASSUME Get(r) PROVE FALSE
      <4>1. PICK elems, hold, pc :
              Arrive(r, [Start EXCEPT !.op = "GET", !.elems = elems, !.hold = hold, !.pc = pc])
        BY <3>2 DEF Get
      <4> DEFINE arrived == [Start EXCEPT !.op = "GET", !.elems = elems, !.hold = hold, !.pc = pc]
      <4>2. \A R : [arrived EXCEPT !.raced = R].op # "GET query"
        BY DEF Start
      <4>3. Arrive(r, arrived)
        BY <4>1
      <4> HIDE DEF arrived
      <4> QED BY <3>1, <4>2, <4>3
    <3>3. ASSUME GetAggregate(r) PROVE FALSE
      <4>1. PICK crit, hold, pc :
              Arrive(r, [Start EXCEPT !.op = "GET aggregate", !.crit = crit, !.hold = hold, !.pc = pc])
        BY <3>3 DEF GetAggregate
      <4> DEFINE arrived == [Start EXCEPT !.op = "GET aggregate", !.crit = crit,
                                          !.hold = hold, !.pc = pc]
      <4>2. \A R : [arrived EXCEPT !.raced = R].op # "GET query"
        BY DEF Start
      <4>3. Arrive(r, arrived)
        BY <4>1
      <4> HIDE DEF arrived
      <4> QED BY <3>1, <4>2, <4>3
    <3> QED BY <3>2, <3>3
  <2> QED BY <1>1, <2>2, <2>3, <2>4, AnswerSteps
<1> QED BY CacheInvariant, <1>1, PTL DEF QueryMissesNothing, Spec
=============================================================================
