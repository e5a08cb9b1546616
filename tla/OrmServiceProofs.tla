--------------------------- MODULE OrmServiceProofs ---------------------------
(***************************************************************************)
(* Theorems about module OrmService, for any keys, columns, children,      *)
(* values, element lists, queries and number of requests.                  *)
(***************************************************************************)
EXTENDS OrmService, WellFoundedInduction, TLAPS

-----------------------------------------------------------------------------
(* What the helpers return                                                 *)

\* An object, or a part of one, is what it holds in each of its parts.
LEMMA PieceIs ==
    ASSUME NEW o \in Piece
    PROVE  /\ DOMAIN o \in SUBSET Part /\ o \in [DOMAIN o -> Val]
           /\ \A p \in DOMAIN o : o[p] \in Val
           /\ o # None
BY ServiceAssumption DEF Piece

LEMMA IsPiece ==
    ASSUME NEW S \in SUBSET Part, NEW o \in [S -> Val]
    PROVE  o \in Piece
BY DEF Piece

\* Objects are whole rows and some children.
LEMMA ObjectIs == Object \subseteq Piece /\ \A o \in Object : Row \subseteq DOMAIN o
BY DEF Object

\* Some parts of an object.
LEMMA OnlyPiece ==
    ASSUME NEW o \in Piece, NEW S
    PROVE  /\ Only(o, S) \in Piece /\ DOMAIN Only(o, S) = DOMAIN o \cap S
           /\ \A p \in DOMAIN o \cap S : Only(o, S)[p] = o[p]
<1>1. DOMAIN o \cap S \in SUBSET Part /\ \A p \in DOMAIN o \cap S : o[p] \in Val
  BY PieceIs
<1>2. Only(o, S) \in [DOMAIN o \cap S -> Val]
  BY <1>1 DEF Only
<1> QED BY <1>1, <1>2, IsPiece DEF Only

\* One object over another (the external cache's Patch).
LEMMA OverPiece ==
    ASSUME NEW new \in Piece, NEW old \in Piece
    PROVE  /\ Over(new, old) \in Piece
           /\ DOMAIN Over(new, old) = DOMAIN new \cup DOMAIN old
           /\ \A p \in DOMAIN new \cup DOMAIN old :
                 Over(new, old)[p] = IF p \in DOMAIN new THEN new[p] ELSE old[p]
<1>1. /\ DOMAIN new \cup DOMAIN old \in SUBSET Part
      /\ \A p \in DOMAIN new \cup DOMAIN old :
            (IF p \in DOMAIN new THEN new[p] ELSE old[p]) \in Val
  BY PieceIs
<1>2. Over(new, old) \in [DOMAIN new \cup DOMAIN old -> Val]
  BY <1>1 DEF Over
<1> QED BY <1>1, <1>2, IsPiece DEF Over

\* Tables hold pieces, and none where they hold nothing.
LEMMA TablesHold ==
    /\ Stored \subseteq Cached
    /\ Empty \in Cached
    /\ \A t \in Cached : \A k \in Key : t[k] = None \/ t[k] \in Piece
    /\ \A t \in Stored : \A k \in Key : t[k] = None \/ t[k] \in Object
BY ObjectIs DEF Stored, Cached, Empty

\* The rows of some keys of a table are elements (cacheElements, cacheFetch).
LEMMA RowsAreElements ==
    ASSUME NEW t \in Cached, NEW S \in SUBSET Key
    PROVE  RowsOf(t, S) \subseteq Element
BY DEF RowsOf, Element, Cached

\* What a list has at its positions are elements.
LEMMA ElementsOfList ==
    ASSUME NEW elems \in Seq(Element), NEW i \in DOMAIN elems
    PROVE  elems[i] \in Element /\ elems[i].key \in Key /\ elems[i].val \in Piece
<1>1. elems[i] \in Element
  OBVIOUS
<1> QED BY <1>1 DEF Element

\* The keys of a list of elements are keys.
LEMMA KeysOfAreKeys ==
    ASSUME NEW elems \in Seq(Element)
    PROVE  KeysOf(elems) \subseteq Key
BY ElementsOfList DEF KeysOf

\* A table with one object put or removed is a table (cachePost, cacheDelete).
LEMMA PutCached ==
    ASSUME NEW t \in Cached, NEW k, NEW v \in Piece \cup {None}
    PROVE  Put(t, k, v) \in Cached
BY DEF Put, Cached

LEMMA RemoveStored ==
    ASSUME NEW t \in Stored, NEW k
    PROVE  Put(t, k, None) \in Stored
BY DEF Put, Stored

\* The request a filter makes of one key has one element.
LEMMA OneElement ==
    ASSUME NEW k \in Key
    PROVE  /\ Filter(k) \in Seq(Element)
           /\ 1 \in DOMAIN Filter(k)
<1>1. Nothing \in Piece
  <2>1. {} \in SUBSET Part /\ Nothing \in [{} -> Val]
    BY DEF Nothing
  <2> QED BY <2>1, IsPiece
<1>2. [key |-> k, val |-> Nothing] \in Element
  BY <1>1 DEF Element
<1> QED BY <1>2 DEF Filter

\* What a read returns is, of some of the keys, what the database holds, or some
\* parts of it; if it does not break off, all of what was asked for (ReadRelational).
LEMMA ReadsSay ==
    ASSUME db \in Stored, NEW S \in SUBSET Key, NEW asked, NEW cut \in BOOLEAN,
           NEW got \in Reads(S, asked, cut)
    PROVE  /\ \A e \in got : /\ e \in Element /\ e.key \in S
                             /\ db[e.key] \in Object
                             /\ PartOf(e.val, db[e.key])
                             /\ ~cut => e.val = Only(db[e.key], asked)
           /\ ~cut => \A k \in S : db[k] # None => \E e \in got : e.key = k
<1> DEFINE there == {k \in S : db[k] # None}
<1>1. ASSUME NEW k \in there, NEW T
      PROVE  LET e == [key |-> k, val |-> Only(db[k], T)]
             IN  /\ e \in Element /\ e.key = k /\ e.val = Only(db[k], T)
                 /\ k \in S /\ db[k] \in Object /\ PartOf(e.val, db[k])
  <2>1. k \in Key /\ db[k] \in Object /\ db[k] \in Piece
    BY TablesHold, ObjectIs
  <2>2. /\ Only(db[k], T) \in Piece /\ DOMAIN Only(db[k], T) = DOMAIN db[k] \cap T
        /\ \A p \in DOMAIN db[k] \cap T : Only(db[k], T)[p] = db[k][p]
    BY <2>1, OnlyPiece
  <2>3. PartOf(Only(db[k], T), db[k])
    BY <2>1, <2>2, PieceIs DEF PartOf
  <2> QED BY <2>1, <2>2, <2>3 DEF Element
<1>2. \A e \in WholeRead(S, asked) : \E k \in there : e = [key |-> k, val |-> Only(db[k], asked)]
  BY DEF WholeRead
<1>3. CASE ~cut
  <2>1. got = WholeRead(S, asked)
    BY <1>3 DEF Reads
  <2>2. \A k \in there : [key |-> k, val |-> Only(db[k], asked)] \in got
    BY <2>1 DEF WholeRead
  <2>3. \A k \in there : \E e \in got : e.key = k
    BY <1>1, <2>2
  <2>4. ASSUME NEW e \in got
        PROVE  /\ e \in Element /\ e.key \in S /\ db[e.key] \in Object
               /\ PartOf(e.val, db[e.key]) /\ e.val = Only(db[e.key], asked)
    <3>1. PICK k \in there : e = [key |-> k, val |-> Only(db[k], asked)]
      BY <1>2, <2>1
    <3> HIDE DEF there
    <3> QED BY <1>1, <3>1
  <2> QED BY <2>3, <2>4
<1>4. CASE cut
  <2>1. ASSUME NEW e \in got
        PROVE  \E k \in there : \E T : e = [key |-> k, val |-> Only(db[k], T)]
    <3>1. got \in CutReads(S, asked)
      BY <1>4 DEF Reads
    <3>2. CASE got \in SUBSET WholeRead(S, asked)
      BY <1>2, <3>2
    <3>3. ASSUME NEW gone, got = {[key |-> k, val |-> Only(db[k], asked \ gone[k])] : k \in there}
          PROVE  \E k \in there : \E T : e = [key |-> k, val |-> Only(db[k], T)]
      BY <3>3
    <3> QED BY <3>1, <3>2, <3>3 DEF CutReads
  <2>2. ASSUME NEW e \in got
        PROVE  e \in Element /\ e.key \in S /\ db[e.key] \in Object /\ PartOf(e.val, db[e.key])
    <3>1. PICK k, T : k \in there /\ e = [key |-> k, val |-> Only(db[k], T)]
      BY <2>1
    <3> HIDE DEF there
    <3> QED BY <1>1, <3>1
  <2> QED BY <1>4, <2>2
<1> QED BY <1>3, <1>4

\* What is committed of a list are some of its positions.
LEMMA CommittedPositions ==
    ASSUME NEW elems \in Seq(Element), NEW n, NEW S \in Committed(elems, n)
    PROVE  S \subseteq DOMAIN elems
<1>1. PICK B \in SUBSET (1..n) : S = UNION {Batch(elems, b) : b \in B}
  BY DEF Committed
<1>2. \A b : Batch(elems, b) \subseteq DOMAIN elems
  BY DEF Batch
<1> QED BY <1>1, <1>2

\* Some positions of a list have a last one.
LEMMA LastPosition ==
    ASSUME NEW n \in Nat, NEW S \in SUBSET (1..n), S # {}
    PROVE  \E i \in S : \A j \in S : j <= i
<1> DEFINE D == {n - i : i \in S}
<1>1. D \subseteq Nat /\ D # {}
  <2>1. \A i \in S : n - i \in Nat
    OBVIOUS
  <2> QED BY <2>1
<1>2. PICK d \in D : \A e \in D : d <= e
  <2>1. PICK d \in D : \A e \in D : <<e, d>> \notin OpToRel(<, Nat)
    BY <1>1, NatLessThanWellFounded, WFMin
  <2>2. \A e \in D : e \in Nat /\ d \in Nat /\ ~(e < d)
    BY <1>1, <2>1 DEF OpToRel
  <2>3. \A e \in D : d <= e
    BY <2>2
  <2> HIDE DEF D
  <2> QED BY <2>3
<1>3. PICK i \in S : d = n - i
  BY <1>2
<1>4. ASSUME NEW j \in S PROVE j <= i
  BY <1>2, <1>3, n - j \in D
<1> QED BY <1>4

\* The last of some positions of a list is one of them.
LEMMA NewestIs ==
    ASSUME NEW elems \in Seq(Element), NEW S \in SUBSET DOMAIN elems, S # {}
    PROVE  Newest(S) \in S /\ \A j \in S : j <= Newest(S)
<1>1. S \in SUBSET (1..Len(elems)) /\ Len(elems) \in Nat
  OBVIOUS
<1>2. \E i \in S : \A j \in S : j <= i
  BY <1>1, LastPosition
<1> QED BY <1>2 DEF Newest

\* Positions with one key, and those that give a part, are positions.
LEMMA ForPositions ==
    ASSUME NEW elems \in Seq(Element), NEW S \in SUBSET DOMAIN elems, NEW k
    PROVE  /\ For(elems, S, k) \in SUBSET DOMAIN elems
           /\ \A i \in For(elems, S, k) : i \in S /\ elems[i].key = k /\ elems[i].val \in Piece
           /\ \A i \in S : elems[i].key = k => i \in For(elems, S, k)
BY ElementsOfList DEF For

LEMMA GivingPositions ==
    ASSUME NEW elems \in Seq(Element), NEW S \in SUBSET DOMAIN elems, NEW p
    PROVE  /\ Giving(elems, S, p) \in SUBSET DOMAIN elems
           /\ \A i \in Giving(elems, S, p) : i \in S /\ p \in DOMAIN elems[i].val
           /\ \A i \in S : p \in DOMAIN elems[i].val => i \in Giving(elems, S, p)
BY DEF Giving

\* An object that was written has the parts it had and those it was given, and
\* in each what the last element that gives it says (writeData).
LEMMA RewrittenParts ==
    ASSUME NEW op, NEW elems \in Seq(Element), NEW S \in SUBSET DOMAIN elems,
           NEW k, NEW d \in Piece \cup {None},
           For(elems, S, k) # {}, op = "PATCH" => d # None
    PROVE  /\ DOMAIN Rewritten(op, elems, S, k, d)
                 = Parts(d) \cup Added(op, elems, For(elems, S, k))
           /\ Rewritten(op, elems, S, k, d) \in Piece
<1> DEFINE at == For(elems, S, k)
<1>0. at \in SUBSET DOMAIN elems /\ \A i \in at : i \in DOMAIN elems /\ elems[i].val \in Piece
  BY ForPositions
<1> HIDE DEF at
<1> DEFINE val(p) == IF Giving(elems, at, p) = {} THEN d[p]
                     ELSE elems[Newest(Giving(elems, at, p))].val[p]
           dom == Parts(d) \cup Added(op, elems, at)
           new == [p \in dom |-> val(p)]
<1>1. Rewritten(op, elems, S, k, d) = new
  BY DEF Rewritten, at
<1>2. at \in SUBSET DOMAIN elems /\ \A i \in at : i \in DOMAIN elems /\ elems[i].val \in Piece
  BY <1>0
<1>3. Added(op, elems, at) \subseteq Part
  BY <1>2, PieceIs DEF Added
<1>4. d # None => d \in Piece
  OBVIOUS
<1>5. Parts(d) \subseteq Part
  BY <1>4, PieceIs DEF Parts
<1>6. ASSUME NEW p \in dom PROVE val(p) \in Val
  <2>1. CASE Giving(elems, at, p) # {}
    <3>1. /\ Giving(elems, at, p) \in SUBSET DOMAIN elems
          /\ \A i \in Giving(elems, at, p) : i \in at /\ p \in DOMAIN elems[i].val
      BY <1>2, GivingPositions
    <3>2. Newest(Giving(elems, at, p)) \in Giving(elems, at, p)
      BY <2>1, <3>1, NewestIs
    <3>3. elems[Newest(Giving(elems, at, p))].val[p] \in Val
      BY <1>2, <3>1, <3>2, PieceIs
    <3> QED BY <2>1, <3>3
  <2>2. CASE Giving(elems, at, p) = {}
    <3>1. p \notin Added(op, elems, at)
      BY <2>2 DEF Giving, Added
    <3>2. d # None /\ p \in DOMAIN d
      BY <1>6, <3>1 DEF Parts
    <3> QED BY <1>4, <2>2, <3>2, PieceIs
  <2> QED BY <2>1, <2>2
<1>7. new \in [dom -> Val]
  <2> HIDE DEF val, dom
  <2> QED BY <1>6
<1>8. new \in Piece
  <2>1. dom \in SUBSET Part
    BY <1>3, <1>5
  <2> HIDE DEF new, dom
  <2> QED BY <1>7, <2>1, IsPiece
<1> QED BY <1>1, <1>8 DEF at

LEMMA RewrittenAt ==
    ASSUME NEW op, NEW elems \in Seq(Element), NEW S \in SUBSET DOMAIN elems,
           NEW k, NEW d, For(elems, S, k) # {}, op = "PATCH" => d # None,
           NEW p \in Parts(d) \cup Added(op, elems, For(elems, S, k))
    PROVE  Rewritten(op, elems, S, k, d)[p] =
              IF Giving(elems, For(elems, S, k), p) = {} THEN d[p]
              ELSE elems[Newest(Giving(elems, For(elems, S, k), p))].val[p]
BY DEF Rewritten

\* A write leaves alone what none of its elements is for, and a PATCH what is not
\* there.
LEMMA RewrittenNot ==
    ASSUME NEW op, NEW elems, NEW S, NEW k, NEW d,
           For(elems, S, k) = {} \/ (op = "PATCH" /\ d = None)
    PROVE  Rewritten(op, elems, S, k, d) = d
BY DEF Rewritten

\* What a write finds under a key is its object or, of a key that has none and is
\* inserted, children (Leftovers).
LEMMA FoundUnderKey ==
    ASSUME db \in Stored, NEW op, NEW elems, NEW S,
           NEW left \in Leftovers(op, elems, S), NEW k \in Key
    PROVE  /\ RowsUnder(k, left) \in Piece \cup {None}
           /\ \/ RowsUnder(k, left) = db[k]
              \/ op # "PATCH" /\ db[k] = None /\ For(elems, S, k) # {}
<1>1. db[k] \in Piece \cup {None}
  BY TablesHold
<1>2. /\ DOMAIN left = {x \in Key : op # "PATCH" /\ db[x] = None /\ For(elems, S, x) # {}}
      /\ \A x \in DOMAIN left : left[x] \in Piece
  BY DEF Leftovers
<1> QED BY <1>1, <1>2 DEF RowsUnder

\* A write turns a table into a table (orm.Write).
LEMMA WrittenStored ==
    ASSUME db \in Stored, NEW op, NEW elems \in Seq(Element),
           NEW S \in SUBSET DOMAIN elems, NEW left \in Leftovers(op, elems, S),
           op # "PATCH" => \A n \in DOMAIN elems : Row \subseteq DOMAIN elems[n].val
    PROVE  Written(op, elems, S, left) \in Stored
<1> SUFFICES ASSUME NEW k \in Key
             PROVE  Rewritten(op, elems, S, k, RowsUnder(k, left)) \in Object \cup {None}
  BY DEF Written, Stored
<1>1. PICK d \in Piece \cup {None} : d = RowsUnder(k, left)
  BY FoundUnderKey
<1>2. /\ db[k] = None \/ (db[k] \in Object /\ d = db[k])
      /\ d # db[k] => op # "PATCH" /\ For(elems, S, k) # {}
  BY <1>1, FoundUnderKey, TablesHold
<1>3. CASE For(elems, S, k) = {} \/ (op = "PATCH" /\ d = None)
  BY <1>1, <1>2, <1>3, RewrittenNot
<1>4. CASE For(elems, S, k) # {} /\ ~(op = "PATCH" /\ d = None)
  <2> DEFINE at == For(elems, S, k)
             new == Rewritten(op, elems, S, k, d)
  <2>1. DOMAIN new = Parts(d) \cup Added(op, elems, at) /\ new \in Piece
    BY <1>4, RewrittenParts
  <2>2. Row \subseteq Parts(d) \cup Added(op, elems, at)
    <3>1. CASE db[k] # None
      BY <1>2, <3>1, ObjectIs DEF Parts
    <3>2. CASE db[k] = None
      <4>1. PICK i \in at : i \in DOMAIN elems
        BY <1>4, ForPositions
      <4>2. op # "PATCH"
        BY <1>2, <1>4, <3>2
      <4> QED BY <4>1, <4>2 DEF Added
    <3> QED BY <3>1, <3>2
  <2> HIDE DEF at, new
  <2>3. new \in Object
    BY <2>1, <2>2 DEF Object
  <2> QED BY <1>1, <2>3 DEF new
<1> QED BY <1>3, <1>4

-----------------------------------------------------------------------------
(* Types                                                                   *)

\* What TypeOK says of the requests.
RequestsTyped ==
    /\ req \in [Request -> Requests]
    /\ \A r \in Request : Fits(req[r])

\* What it says once the cache is gone.
LateTyped == phase # "active" => cache = Empty /\ partial = Key

\* The steps of a list that is being written.
OnWrite == {"cacheAction", "patchRead", "patchFill", "cachePatch", "Write"}

\* The keys two requests touch are keys.
LEMMA TouchesKeys ==
    ASSUME NEW x \in Requests
    PROVE  Touches(x) \subseteq Key
<1>1. x.elems \in Seq(Element)
  BY DEF Requests
<1> QED BY <1>1, KeysOfAreKeys DEF Touches

\* A request that has not begun is a request.
LEMMA StartTyped == Start \in Requests /\ Start.pc = "idle" /\ Fits(Start)
BY DEF Start, Requests, Fits, OnElement

\* One request moves on, to a state that a request may have.
LEMMA BecomesTyped ==
    ASSUME RequestsTyped, NEW r \in Request, NEW new \in Requests, Fits(new),
           Becomes(r, new)
    PROVE  RequestsTyped'
BY DEF RequestsTyped, Becomes

\* A request fits that has the list of one that does and is not on an element.
LEMMA FitsOff ==
    ASSUME NEW q \in Requests, Fits(q), NEW new, new.op = q.op, new.elems = q.elems,
           new.pc \in {"idle", "Delete query", "evict", "Read", "fill"} \cup Ended
    PROVE  Fits(new)
BY DEF Fits, OnElement, Ended

\* Or is on an element of it, or at its end.
LEMMA FitsOn ==
    ASSUME NEW q \in Requests, Fits(q), q.pc \in OnWrite,
           NEW new, new.op = q.op, new.elems = q.elems, new.pc \in OnWrite,
           new.pc # "Write" => new.i \in DOMAIN q.elems
    PROVE  Fits(new)
BY DEF Fits, OnElement, OnWrite

\* A request moves on with all it holds.
LEMMA GotoTyped ==
    ASSUME RequestsTyped, NEW r \in Request, NEW pc, Goto(r, pc),
           \/ pc \in {"evict", "fill", "Read"} \cup Ended
           \/ req[r].pc = "cacheAction" /\ pc \in {"patchRead", "cachePatch"}
    PROVE  RequestsTyped'
<1> DEFINE new == [req[r] EXCEPT !.pc = pc]
<1>1. req[r] \in Requests /\ Fits(req[r])
  BY DEF RequestsTyped
<1>2. /\ new \in Requests /\ new.pc = pc /\ new.i = req[r].i /\ new.op = req[r].op
      /\ new.elems = req[r].elems
  BY <1>1 DEF Requests, OnElement, Ended
<1>3. Becomes(r, new)
  BY DEF Goto
<1> HIDE DEF new
<1>4. Fits(new)
  <2>1. CASE pc \in {"evict", "fill", "Read"} \cup Ended
    BY <1>1, <1>2, <2>1, FitsOff
  <2>2. CASE req[r].pc = "cacheAction" /\ pc \in {"patchRead", "cachePatch"}
    <3>1. req[r].i \in DOMAIN req[r].elems
      BY <1>1, <2>2 DEF Fits, OnElement
    <3> QED BY <1>1, <1>2, <2>2, <3>1, FitsOn DEF OnWrite
  <2> QED BY <2>1, <2>2
<1> QED BY <1>2, <1>3, <1>4, BecomesTyped

\* A request ends.
LEMMA FinishTyped ==
    ASSUME RequestsTyped, NEW r \in Request, NEW pc \in Ended, Finish(r, pc)
    PROVE  RequestsTyped'
<1> DEFINE new == [Start EXCEPT !.op = req[r].op, !.pc = pc]
<1>1. req[r] \in Requests
  BY DEF RequestsTyped
<1>2. new \in Requests
  BY <1>1, StartTyped DEF Requests
<1>3. Fits(new)
  <2>1. new.pc = pc /\ new.elems = <<>>
    BY DEF Start
  <2> HIDE DEF new
  <2> QED BY <2>1 DEF Fits, OnElement, Ended
<1> HIDE DEF new
<1> QED
  <2>1. Becomes(r, new)
    BY DEF Finish, new
  <2> QED BY <1>2, <1>3, <2>1, BecomesTyped

\* A writer ends with keys mended, spoilt, dropped and merged.
LEMMA EndTyped ==
    ASSUME TypeOK, NEW r \in Request, NEW pc \in Ended, NEW mended,
           NEW spoilt \in SUBSET Key, NEW dropped \in SUBSET Key, NEW merged \in SUBSET Key,
           End(r, pc, mended, spoilt, dropped, merged), phase' = phase, cache' = cache
    PROVE  /\ RequestsTyped' /\ LateTyped'
           /\ suspect' \subseteq Key /\ partial' \subseteq Key /\ thin' \subseteq Key
<1>1. RequestsTyped
  BY DEF TypeOK, RequestsTyped
<1>2. Finish(r, pc)
  BY DEF End
<1>3. req[r].raced \subseteq Key
  BY <1>1 DEF RequestsTyped, Requests
<1>4. suspect' \subseteq Key /\ partial' \subseteq Key /\ thin' \subseteq Key
  BY <1>3 DEF End, TypeOK
<1>5. LateTyped'
  BY DEF End, TypeOK, LateTyped
<1> QED BY <1>1, <1>2, <1>4, <1>5, FinishTyped

\* A request arrives and marks those it races with.
LEMMA ArriveTyped ==
    ASSUME TypeOK, NEW r \in Request, NEW new \in Requests, Fits(new),
           Arrive(r, new)
    PROVE  RequestsTyped' /\ UNCHANGED <<db, phase, suspect, partial, thin>>
<1> DEFINE shared(x) == Touches(new) \cap Touches(req[x])
           with == {x \in Request : InFlight(x) /\ {req[x].op, new.op} \cap WriteOps # {}}
           raced == UNION {shared(y) : y \in with}
           mine == [new EXCEPT !.raced = raced]
           others(x) == [req[x] EXCEPT !.raced = req[x].raced \cup shared(x)]
<1>1. \A x \in Request : req[x] \in Requests /\ Fits(req[x])
  BY DEF TypeOK
<1>2. \A x : shared(x) \subseteq Key
  BY TouchesKeys
<1>3. raced \subseteq Key
  BY <1>2
<1>4. /\ mine \in Requests /\ mine.pc = new.pc /\ mine.i = new.i /\ mine.elems = new.elems
      /\ mine.op = new.op
  <2> HIDE DEF raced
  <2> QED BY <1>3 DEF Requests
<1>5. ASSUME NEW x \in Request
      PROVE  /\ others(x) \in Requests /\ others(x).pc = req[x].pc
             /\ others(x).i = req[x].i /\ others(x).elems = req[x].elems
             /\ others(x).op = req[x].op
  <2>1. req[x] \in Requests /\ shared(x) \subseteq Key
    BY <1>1, <1>2
  <2> HIDE DEF shared
  <2> QED BY <2>1 DEF Requests
<1>6. req' = [x \in Request |-> IF x = r THEN mine
                               ELSE IF x \in with /\ new.pc \notin Ended THEN others(x)
                               ELSE req[x]]
  BY DEF Arrive
<1> HIDE DEF mine, others, with
<1>7. Fits(mine) /\ \A x \in Request : Fits(others(x))
  BY <1>1, <1>4, <1>5 DEF Fits
<1>8. req' \in [Request -> Requests] /\ \A x \in Request : Fits(req'[x])
  BY <1>1, <1>4, <1>5, <1>6, <1>7
<1>9. UNCHANGED <<db, phase, suspect, partial, thin>>
  BY DEF Arrive
<1> QED BY <1>8, <1>9 DEF RequestsTyped

\* An object is put into the cache, or none.
LEMMA StoreTyped ==
    ASSUME TypeOK, NEW k, NEW v \in Piece \cup {None}, Store(k, v), phase' = phase
    PROVE  cache' \in Cached /\ (phase # "active" => cache' = Empty)
<1>1. cache' = Put(cache, k, v) \/ cache' = cache
  BY DEF Store
<1> QED BY <1>1, PutCached DEF TypeOK, Store

\* cacheElements of one record.
LEMMA FillsTyped ==
    ASSUME TypeOK, NEW r \in Request, NEW e \in Element, Fills(r, e), phase' = phase
    PROVE  /\ cache' \in Cached /\ (phase # "active" => cache' = Empty)
           /\ thin' \subseteq Key
<1>1. e.key \in Key /\ e.val \in Piece
  BY DEF Element
<1>2. Store(e.key, e.val) /\ thin' \subseteq thin \cup {e.key}
  BY DEF Fills
<1> QED BY <1>1, <1>2, StoreTyped DEF TypeOK

\* Every step of a POST, PUT or PATCH keeps the types.
LEMMA TypeWriteStep ==
    ASSUME TypeOK, NEW r \in Request, WriteStep(r)
    PROVE  TypeOK'
<1> DEFINE q == req[r]
<1>1. q \in Requests /\ q.elems \in Seq(Element) /\ q.lost \subseteq Key /\ Fits(q)
      /\ q.todo \subseteq Element
  BY DEF TypeOK, Requests
<1>2. RequestsTyped /\ LateTyped
  BY DEF TypeOK, RequestsTyped, LateTyped
<1>3. q.pc \in OnElement =>
        /\ elem(r) \in Element /\ elem(r).key \in Key /\ elem(r).val \in Piece
        /\ q.i \in 1..Len(q.elems) /\ Len(q.elems) \in Nat
  <2>1. q.pc \in OnElement => q.i \in DOMAIN q.elems
    BY <1>1 DEF Fits
  <2> QED BY <1>1, <2>1, ElementsOfList DEF elem
<1>4. q.pc \in OnElement => first(r) \in Element /\ first(r).key \in Key
  <2>1. q.pc \in OnElement => 1 \in DOMAIN q.elems
    BY <1>1, <1>3
  <2> QED BY <1>1, <2>1, ElementsOfList DEF first
<1>5. KeysOf(q.elems) \subseteq Key
  BY <1>1, KeysOfAreKeys
<1>6. ASSUME q.pc \in {"cacheAction", "cachePatch"}, NEW lost \in SUBSET Key, NextElem(r, lost)
      PROVE  RequestsTyped'
  <2> DEFINE pc == IF q.i = Len(q.elems) THEN "Write" ELSE "cacheAction"
             new == [q EXCEPT !.i = q.i + 1, !.pc = pc, !.lost = q.lost \cup lost]
  <2>0. q.pc \in OnElement /\ q.pc \in OnWrite
    BY <1>6 DEF OnElement, OnWrite
  <2>1. q.i + 1 \in Nat \ {0} /\ q.lost \cup lost \subseteq Key
    BY <1>1, <1>3, <2>0
  <2>2. pc \in {"Write", "cacheAction"}
    OBVIOUS
  <2>3. /\ new \in Requests /\ new.pc = pc /\ new.i = q.i + 1
        /\ new.elems = q.elems /\ new.op = q.op
    <3> HIDE DEF pc
    <3> QED BY <1>1, <2>1, <2>2 DEF Requests, OnElement
  <2>4. pc # "Write" => q.i + 1 \in DOMAIN q.elems
    BY <1>1, <1>3, <2>0
  <2>5. Becomes(r, new)
    BY <1>6 DEF NextElem
  <2> HIDE DEF new, pc
  <2>6. Fits(new)
    BY <1>1, <2>0, <2>2, <2>3, <2>4, FitsOn DEF OnWrite
  <2> QED BY <1>2, <2>3, <2>5, <2>6, BecomesTyped
<1>7. CASE BeginWrite(r)
  <2>1. PICK op \in {"POST", "PUT", "PATCH"}, elems \in Lists,
             pc \in {"cacheAction", "Write", "failed", "done"}, i \in Nat :
          /\ i \in {1, Len(elems) + 1}
          /\ op # "PATCH" => \A n \in DOMAIN elems : Row \subseteq DOMAIN elems[n].val
          /\ pc = "cacheAction" => i = 1
          /\ Arrive(r, [Start EXCEPT !.op = op, !.elems = elems, !.pc = pc, !.i = i])
    <3>1. PICK op \in {"POST", "PUT", "PATCH"}, elems \in Lists,
               pc \in {IF phase = "active" THEN "cacheAction" ELSE "Write", "failed", "done"} :
            /\ op # "PATCH" => \A n \in DOMAIN elems : Row \subseteq DOMAIN elems[n].val
            /\ Arrive(r, [Start EXCEPT !.op = op, !.elems = elems, !.pc = pc,
                                       !.i = IF pc = "Write" THEN Len(elems) + 1 ELSE 1])
      BY <1>7 DEF BeginWrite
    <3> DEFINE i == IF pc = "Write" THEN Len(elems) + 1 ELSE 1
    <3>2. i \in {1, Len(elems) + 1} /\ (pc = "cacheAction" => i = 1) /\ i \in Nat
      BY ServiceAssumption
    <3>3. Arrive(r, [Start EXCEPT !.op = op, !.elems = elems, !.pc = pc, !.i = i])
      BY <3>1
    <3>4. pc \in {"cacheAction", "Write", "failed", "done"}
      OBVIOUS
    <3> HIDE DEF i
    <3> QED BY <3>1, <3>2, <3>3, <3>4
  <2> DEFINE new == [Start EXCEPT !.op = op, !.elems = elems, !.pc = pc, !.i = i]
  <2>2. op \in Ops
    BY <2>1, StartTyped DEF Arrive, Requests
  <2>3. elems \in Seq(Element) /\ 1 \in DOMAIN elems /\ i \in Nat \ {0}
    BY <2>1, ServiceAssumption
  <2>4. new \in Requests /\ new.i = i /\ new.elems = elems /\ new.op = op /\ new.pc = pc
    BY <2>2, <2>3, StartTyped DEF Requests, Start, OnElement, Ended
  <2> HIDE DEF new
  <2>5. Fits(new)
    BY <2>1, <2>3, <2>4 DEF Fits, OnElement
  <2>6. RequestsTyped' /\ UNCHANGED <<db, phase, suspect, partial, thin>>
    <3>1. Arrive(r, new)
      BY <2>1 DEF new
    <3> QED BY <2>4, <2>5, <3>1, ArriveTyped
  <2> QED BY <1>7, <2>6 DEF BeginWrite, TypeOK, RequestsTyped
<1>8. CASE CachePost(r)
  <2>1. q.pc = "cacheAction" /\ q.pc \in OnElement
    BY <1>8 DEF CachePost, At, OnElement
  <2>2. RequestsTyped'
    BY <1>6, <1>8, <2>1 DEF CachePost
  <2>3. cache' \in Cached /\ (phase # "active" => cache' = Empty)
    BY <1>3, <1>8, <2>1, StoreTyped DEF CachePost
  <2> QED BY <1>8, <2>2, <2>3 DEF CachePost, TypeOK, RequestsTyped
<1>9. CASE PatchLookup(r)
  <2>1. PICK pc \in {"patchRead", "cachePatch"} : Goto(r, pc)
    BY <1>9 DEF PatchLookup
  <2>2. RequestsTyped'
    BY <1>2, <1>9, <2>1, GotoTyped DEF PatchLookup, At
  <2> QED BY <1>9, <2>2 DEF PatchLookup, TypeOK, RequestsTyped
<1>10. CASE PatchRead(r)
  <2>1. q.pc = "patchRead" /\ q.pc \in OnElement /\ q.pc \in OnWrite
    BY <1>10 DEF PatchRead, At, OnElement, OnWrite
  <2> DEFINE lost == IF q.i = 1 THEN q.lost ELSE q.lost \cup {first(r).key}
  <2>2. PICK cut \in BOOLEAN :
          \E got \in {{}} \cup IF OrmOpen THEN Reads({first(r).key}, Part, cut) ELSE {} :
             Becomes(r, [q EXCEPT !.pc = "patchFill", !.todo = got, !.cut = cut, !.lost = lost])
    BY <1>10 DEF PatchRead
  <2>3. PICK got \in {{}} \cup IF OrmOpen THEN Reads({first(r).key}, Part, cut) ELSE {} :
             Becomes(r, [q EXCEPT !.pc = "patchFill", !.todo = got, !.cut = cut, !.lost = lost])
    BY <2>2
  <2>4. got \subseteq Element
    <3>1. CASE got = {}
      BY <3>1
    <3>2. CASE got \in Reads({first(r).key}, Part, cut)
      <4>1. db \in Stored /\ {first(r).key} \in SUBSET Key
        BY <1>4, <2>1 DEF TypeOK
      <4> QED BY <3>2, <4>1, ReadsSay
    <3> QED BY <3>1, <3>2
  <2>5. lost \subseteq Key
    BY <1>1, <1>4, <2>1
  <2> HIDE DEF lost
  <2> DEFINE new == [q EXCEPT !.pc = "patchFill", !.todo = got, !.cut = cut, !.lost = lost]
  <2>6. /\ new \in Requests /\ new.i = q.i /\ new.elems = q.elems /\ new.op = q.op
        /\ new.pc = "patchFill"
    BY <1>1, <2>4, <2>5 DEF Requests, OnElement
  <2> HIDE DEF new
  <2>7. Fits(new)
    <3>1. q.i \in DOMAIN q.elems
      BY <1>1, <2>1 DEF Fits
    <3> QED BY <1>1, <2>1, <2>6, <3>1, FitsOn DEF OnWrite
  <2>8. RequestsTyped'
    <3>1. Becomes(r, new)
      BY <2>3 DEF new
    <3> QED BY <1>2, <2>6, <2>7, <3>1, BecomesTyped
  <2> QED BY <1>10, <2>8 DEF PatchRead, TypeOK, RequestsTyped
<1>11. CASE PatchReadPanics(r)
  <2>1. RequestsTyped' /\ LateTyped' /\ suspect' \subseteq Key /\ partial' \subseteq Key /\ thin' \subseteq Key
    BY <1>5, <1>11, EndTyped DEF PatchReadPanics, Ended
  <2> QED BY <1>11, <2>1 DEF PatchReadPanics, TypeOK, RequestsTyped, LateTyped
<1>12. CASE PatchFill(r)
  <2> DEFINE new == [q EXCEPT !.pc = "cachePatch", !.todo = {}]
  <2>1. q.pc \in OnElement /\ q.pc \in OnWrite
    BY <1>12 DEF PatchFill, At, OnElement, OnWrite
  <2>2. /\ new \in Requests /\ new.i = q.i /\ new.elems = q.elems /\ new.op = q.op
        /\ new.pc = "cachePatch"
    BY <1>1 DEF Requests, OnElement
  <2> HIDE DEF new
  <2>3. Fits(new)
    <3>1. q.i \in DOMAIN q.elems
      BY <1>1, <2>1 DEF Fits
    <3> QED BY <1>1, <2>1, <2>2, <3>1, FitsOn DEF OnWrite
  <2>4. RequestsTyped'
    <3>1. Becomes(r, new)
      BY <1>12 DEF PatchFill, new
    <3> QED BY <1>2, <2>2, <2>3, <3>1, BecomesTyped
  <2>5. cache' \in Cached /\ (phase # "active" => cache' = Empty) /\ thin' \subseteq Key
    <3>1. CASE UNCHANGED <<cache, thin>>
      BY <3>1 DEF TypeOK
    <3>2. CASE \E e \in q.todo : Fills(r, e)
      BY <1>1, <1>12, <3>2, FillsTyped DEF PatchFill
    <3> QED BY <1>12, <3>1, <3>2 DEF PatchFill
  <2> QED BY <1>12, <2>4, <2>5 DEF PatchFill, TypeOK, RequestsTyped
<1>13. CASE CachePatch(r)
  <2>1. q.pc = "cachePatch" /\ q.pc \in OnElement
    BY <1>13 DEF CachePatch, At, OnElement
  <2>2. RequestsTyped'
    <3>1. PICK lost \in {{}, {elem(r).key}} : NextElem(r, lost)
      BY <1>13 DEF CachePatch
    <3> QED BY <1>3, <1>6, <2>1, <3>1
  <2>3. cache' \in Cached /\ (phase # "active" => cache' = Empty)
    <3>1. cache[elem(r).key] # None => Over(elem(r).val, cache[elem(r).key]) \in Piece
      BY <1>3, <2>1, TablesHold, OverPiece DEF TypeOK
    <3>2. \E v \in Piece \cup {None} : Store(elem(r).key, v)
      BY <1>3, <1>13, <2>1, <3>1 DEF CachePatch
    <3> QED BY <1>13, <3>2, StoreTyped DEF CachePatch
  <2> QED BY <1>13, <2>2, <2>3 DEF CachePatch, TypeOK, RequestsTyped
<1>14. ASSUME q.pc = "Write", NEW S \in SUBSET DOMAIN q.elems,
              NEW left \in Leftovers(q.op, q.elems, S)
       PROVE  Written(q.op, q.elems, S, left) \in Stored
  <2>1. q.op # "PATCH" => \A n \in DOMAIN q.elems : Row \subseteq DOMAIN q.elems[n].val
    BY <1>1, <1>14 DEF Fits
  <2> QED BY <1>1, <2>1, WrittenStored DEF TypeOK
<1>15. CASE Write(r)
  <2> DEFINE patch == q.op = "PATCH"
             mended == IF patch THEN {} ELSE KeysOf(q.elems)
             merged(left) == IF patch THEN {} ELSE Merged(q.elems, left)
             spoilt(S) == q.lost \cup {q.elems[i].key : i \in DOMAIN q.elems \ S}
                             \cup IF patch THEN Unmatched(q.elems) ELSE {}
  <2>0. PICK S \in Committed(q.elems, Batches(q.elems)) :
          \E left \in Leftovers(q.op, q.elems, S) :
             /\ db' = Written(q.op, q.elems, S, left)
             /\ End(r, "done", mended, spoilt(S), {}, merged(left))
    BY <1>15 DEF Write
  <2>1. PICK left \in Leftovers(q.op, q.elems, S) :
          /\ db' = Written(q.op, q.elems, S, left)
          /\ End(r, "done", mended, spoilt(S), {}, merged(left))
    BY <2>0
  <2>2. S \in SUBSET DOMAIN q.elems
    BY <1>1, CommittedPositions
  <2>3. db' \in Stored
    BY <1>14, <1>15, <2>1, <2>2 DEF Write, At
  <2>4. {q.elems[i].key : i \in DOMAIN q.elems \ S} \subseteq Key
    BY <1>1, ElementsOfList
  <2>5. Unmatched(q.elems) \subseteq Key
    BY <1>1, ElementsOfList DEF Unmatched
  <2>6. spoilt(S) \in SUBSET Key /\ merged(left) \in SUBSET Key
    BY <1>1, <1>5, <2>4, <2>5 DEF Merged
  <2> HIDE DEF spoilt, merged, mended
  <2>7. RequestsTyped' /\ LateTyped' /\ suspect' \subseteq Key /\ partial' \subseteq Key /\ thin' \subseteq Key
    BY <1>15, <2>1, <2>6, EndTyped DEF Ended, Write
  <2> QED BY <1>15, <2>3, <2>7 DEF Write, TypeOK, RequestsTyped, LateTyped
<1>16. CASE WriteFails(r)
  <2> DEFINE n == IF OrmOpen THEN Batches(q.elems) - 1 ELSE 0
  <2>1. PICK S \in Committed(q.elems, n) :
          \E left \in Leftovers(q.op, q.elems, S) : db' = Written(q.op, q.elems, S, left)
    BY <1>16 DEF WriteFails
  <2> HIDE DEF n
  <2>2. S \in SUBSET DOMAIN q.elems
    BY <1>1, CommittedPositions
  <2>3. db' \in Stored
    BY <1>14, <1>16, <2>1, <2>2 DEF WriteFails, At
  <2>4. RequestsTyped' /\ LateTyped' /\ suspect' \subseteq Key /\ partial' \subseteq Key /\ thin' \subseteq Key
    BY <1>5, <1>16, EndTyped DEF WriteFails, Ended
  <2> QED BY <1>16, <2>3, <2>4 DEF WriteFails, TypeOK, RequestsTyped, LateTyped
<1> QED BY <1>7, <1>8, <1>9, <1>10, <1>11, <1>12, <1>13, <1>15, <1>16 DEF WriteStep


\* What cacheFetch returns are elements.
LEMMA FetchedElements ==
    ASSUME TypeOK, NEW crit, NEW paging, NEW got \in cacheFetch(crit, paging)
    PROVE  got \subseteq Element
<1>1. PICK S \in Found(crit) :
         got \in Some(S, RoomFor(Cardinality(S), paging, DefaultBlock))
  BY DEF cacheFetch
<1>2. PICK T \in SUBSET S : got = RowsOf(cache, T)
  BY <1>1 DEF Some
<1>3. T \subseteq Key /\ cache \in Cached
  BY <1>1 DEF Found, Matching, Blank, TypeOK
<1> QED BY <1>2, <1>3, RowsAreElements

\* A request goes on with fewer records to put into or take from the cache.
LEMMA TodoTyped ==
    ASSUME RequestsTyped, NEW r \in Request, NEW e,
           req[r].pc \notin OnElement \cup OnWrite,
           Becomes(r, [req[r] EXCEPT !.todo = req[r].todo \ {e}])
    PROVE  RequestsTyped'
<1> DEFINE new == [req[r] EXCEPT !.todo = req[r].todo \ {e}]
<1>1. req[r] \in Requests /\ Fits(req[r])
  BY DEF RequestsTyped
<1>2. /\ new \in Requests /\ new.pc = req[r].pc
      /\ new.elems = req[r].elems /\ new.op = req[r].op
  BY <1>1 DEF Requests
<1> HIDE DEF new
<1>3. Fits(new)
  BY <1>1, <1>2 DEF Fits, OnWrite
<1>4. Becomes(r, new)
  BY DEF new
<1> QED BY <1>2, <1>3, <1>4, BecomesTyped

\* Every step of a DELETE keeps the types.
LEMMA TypeDeleteStep ==
    ASSUME TypeOK, NEW r \in Request, DeleteStep(r)
    PROVE  TypeOK'
<1> DEFINE q == req[r]
<1>1. q \in Requests /\ q.elems \in Seq(Element) /\ q.lost \subseteq Key
      /\ q.todo \subseteq Element /\ Fits(q)
  BY DEF TypeOK, Requests
<1>2. RequestsTyped /\ LateTyped
  BY DEF TypeOK, RequestsTyped, LateTyped
<1>3. CASE DeleteFilter(r)
  <2>1. PICK k \in Key :
          /\ Arrive(r, [Start EXCEPT !.op = "DELETE", !.pc = "Delete",
                                     !.elems = Filter(k)])
          /\ Store(k, None)
    BY <1>3 DEF DeleteFilter
  <2> DEFINE new == [Start EXCEPT !.op = "DELETE", !.pc = "Delete",
                                  !.elems = Filter(k)]
  <2>2. "DELETE" \in Ops
    BY <2>1, StartTyped DEF Arrive, Requests
  <2>3. Filter(k) \in Seq(Element) /\ 1 \in DOMAIN Filter(k)
    BY OneElement
  <2>4. new \in Requests /\ new.i = 1 /\ new.elems = Filter(k) /\ new.op = "DELETE" /\ new.pc = "Delete"
    BY <2>2, <2>3, StartTyped DEF Requests, Start, OnElement
  <2> HIDE DEF new
  <2>5. Fits(new)
    BY <2>3, <2>4 DEF Fits, OnElement
  <2>6. RequestsTyped' /\ UNCHANGED <<db, phase, suspect, partial, thin>>
    <3>1. Arrive(r, new)
      BY <2>1 DEF new
    <3> QED BY <2>4, <2>5, <3>1, ArriveTyped
  <2>7. cache' \in Cached /\ (phase # "active" => cache' = Empty)
    BY <2>1, <2>6, StoreTyped
  <2> QED BY <2>6, <2>7 DEF TypeOK, RequestsTyped
<1>4. CASE Delete(r)
  <2> DEFINE k == first(r).key
  <2>1. k \in Key
    <3>1. q.i \in DOMAIN q.elems
      BY <1>1, <1>4 DEF Delete, At, OnElement, Fits
    <3>2. 1 \in DOMAIN q.elems
      BY <1>1, <3>1
    <3> QED BY <1>1, <3>2, ElementsOfList DEF first
  <2>2. \E pc \in Ended, mended \in {{}, {k}}, dropped \in {{}, {k}} :
             End(r, pc, mended, {}, dropped, {})
    BY <1>4 DEF Delete, Ended
  <2>3. db' = Put(db, k, None) \/ db' = db
    BY <1>4 DEF Delete
  <2> HIDE DEF k
  <2>4. db' \in Stored
    BY <2>3, RemoveStored DEF TypeOK
  <2>5. RequestsTyped' /\ LateTyped' /\ suspect' \subseteq Key /\ partial' \subseteq Key /\ thin' \subseteq Key
    <3>1. PICK pc \in Ended, mended \in {{}, {k}}, dropped \in {{}, {k}} :
             End(r, pc, mended, {}, dropped, {})
      BY <2>2
    <3>2. {} \in SUBSET Key /\ dropped \in SUBSET Key
      BY <2>1
    <3>3. phase' = phase /\ cache' = cache
      BY <1>4 DEF Delete
    <3> QED BY <3>1, <3>2, <3>3, EndTyped
  <2> QED BY <1>4, <2>4, <2>5 DEF Delete, TypeOK, RequestsTyped, LateTyped
<1>5. CASE DeleteFetch(r)
  <2>0. PICK crit \in Criteria, paging \in Paging :
          \E got \in cacheFetch(crit, paging) :
            Arrive(r, [Start EXCEPT
                !.op = "DELETE query", !.pc = "Delete query", !.crit = crit,
                !.paging = paging, !.todo = got,
                !.lost = (Matching(cache, crit) \ {e.key : e \in got}) \cup Blank(cache)])
    BY <1>5 DEF DeleteFetch
  <2>1. PICK got \in cacheFetch(crit, paging) :
          Arrive(r, [Start EXCEPT
              !.op = "DELETE query", !.pc = "Delete query", !.crit = crit,
              !.paging = paging, !.todo = got,
              !.lost = (Matching(cache, crit) \ {e.key : e \in got}) \cup Blank(cache)])
    BY <2>0
  <2> DEFINE lost == (Matching(cache, crit) \ {e.key : e \in got}) \cup Blank(cache)
             new == [Start EXCEPT
              !.op = "DELETE query", !.pc = "Delete query", !.crit = crit,
              !.paging = paging, !.todo = got, !.lost = lost]
  <2>2. "DELETE query" \in Ops
    BY <2>1, StartTyped DEF Arrive, Requests
  <2>3. lost \subseteq Key /\ got \subseteq Element
    BY FetchedElements DEF Matching, Blank
  <2>4. crit \in SUBSET Val /\ paging \in [page : Nat, limit : Nat]
    BY ServiceAssumption
  <2>5. new \in Requests /\ new.pc = "Delete query" /\ new.op = "DELETE query"
    <3> HIDE DEF lost
    <3> QED BY <2>2, <2>3, <2>4, StartTyped DEF Requests, OnElement
  <2>6. Arrive(r, new)
    BY <2>1
  <2> HIDE DEF new
  <2>7. Fits(new)
    BY <2>5 DEF Fits, OnElement
  <2>8. RequestsTyped' /\ UNCHANGED <<db, phase, suspect, partial, thin>>
    BY <2>5, <2>6, <2>7, ArriveTyped
  <2> QED BY <1>5, <2>8 DEF DeleteFetch, TypeOK, RequestsTyped
<1>6. CASE DeleteQuery(r)
  <2>1. db' \in Stored
    <3> DEFINE S == Matching(db, q.crit)
               left == [k \in Key |-> IF k \in S THEN None ELSE db[k]]
    <3>1. left \in Stored
      <4> HIDE DEF S
      <4> QED BY DEF TypeOK, Stored
    <3> HIDE DEF left
    <3>2. db' = left \/ db' = db
      BY <1>6 DEF DeleteQuery, left
    <3> QED BY <3>1, <3>2 DEF TypeOK
  <2>2. partial' \subseteq Key /\ partial \subseteq partial'
    <3>1. {e.key : e \in q.todo} \subseteq Key
      BY <1>1 DEF Element
    <3>2. partial' \in {partial, partial \cup {e.key : e \in q.todo}}
      BY <1>6 DEF DeleteQuery
    <3> QED BY <3>1, <3>2 DEF TypeOK
  <2>3. RequestsTyped'
    <3>1. Goto(r, "evict")
      BY <1>6 DEF DeleteQuery
    <3> QED BY <1>2, <3>1, GotoTyped
  <2>4. UNCHANGED <<cache, phase, suspect, thin>>
    BY <1>6 DEF DeleteQuery
  <2> QED BY <2>1, <2>2, <2>3, <2>4 DEF TypeOK, RequestsTyped
<1>7. CASE DeleteQueryFails(r)
  <2>1. RequestsTyped' /\ LateTyped' /\ suspect' \subseteq Key /\ partial' \subseteq Key /\ thin' \subseteq Key
    <3>1. "failed" \in Ended /\ {} \in SUBSET Key
      BY DEF Ended
    <3>2. End(r, "failed", {}, {}, {}, {}) /\ phase' = phase /\ cache' = cache
      BY <1>7 DEF DeleteQueryFails
    <3> QED BY <3>1, <3>2, EndTyped
  <2> QED BY <1>7, <2>1 DEF DeleteQueryFails, TypeOK, RequestsTyped, LateTyped
<1>8. CASE Evict(r)
  <2>1. PICK e \in q.todo : /\ Store(e.key, None)
                            /\ Becomes(r, [q EXCEPT !.todo = q.todo \ {e}])
    BY <1>8 DEF Evict
  <2>2. RequestsTyped'
    BY <1>2, <1>8, <2>1, TodoTyped DEF Evict, At, OnElement, OnWrite
  <2>3. cache' \in Cached /\ (phase # "active" => cache' = Empty)
    BY <1>8, <2>1, StoreTyped DEF Evict
  <2> QED BY <1>8, <2>2, <2>3 DEF Evict, TypeOK, RequestsTyped
<1>9. CASE DeleteQueryEnds(r)
  <2>1. RequestsTyped' /\ LateTyped' /\ suspect' \subseteq Key /\ partial' \subseteq Key /\ thin' \subseteq Key
    BY <1>1, <1>9, EndTyped DEF DeleteQueryEnds, Ended
  <2> QED BY <1>9, <2>1 DEF DeleteQueryEnds, TypeOK, RequestsTyped, LateTyped
<1> QED BY <1>3, <1>4, <1>5, <1>6, <1>7, <1>8, <1>9 DEF DeleteStep

\* Every step of a GET keeps the types.
LEMMA TypeGetStep ==
    ASSUME TypeOK, NEW r \in Request, GetStep(r)
    PROVE  TypeOK'
<1> DEFINE q == req[r]
<1>1. q \in Requests /\ q.elems \in Seq(Element) /\ q.todo \subseteq Element /\ Fits(q)
  BY DEF TypeOK, Requests
<1>2. RequestsTyped
  BY DEF TypeOK, RequestsTyped
<1>3. ASSUME NEW new \in Requests, new.op \in ReadOps, new.pc \in {"Read", "done"}, Arrive(r, new)
      PROVE  RequestsTyped' /\ UNCHANGED <<db, phase, suspect, partial, thin>>
  <2>1. Fits(new)
    BY <1>3 DEF Fits, OnElement, ReadOps
  <2> QED BY <1>3, <2>1, ArriveTyped
<1>4. CASE Get(r)
  <2>1. PICK k \in Key :
          Arrive(r, [Start EXCEPT
              !.op = "GET", !.elems = Filter(k), !.hold = RowsOf(cache, {k}),
              !.pc = IF cache[k] = None THEN "Read" ELSE "done"])
    BY <1>4 DEF Get
  <2> DEFINE pc == IF cache[k] = None THEN "Read" ELSE "done"
             hold == RowsOf(cache, {k})
             new == [Start EXCEPT !.op = "GET", !.elems = Filter(k),
                                  !.hold = hold, !.pc = pc]
  <2>2. Arrive(r, new)
    BY <2>1
  <2>3. pc \in {"Read", "done"} /\ hold \subseteq Element
    BY RowsAreElements DEF TypeOK
  <2> HIDE DEF pc, hold
  <2>4. "GET" \in Ops
    BY <2>2, StartTyped DEF Arrive, Requests
  <2>5. Filter(k) \in Seq(Element)
    BY OneElement
  <2>6. new \in Requests /\ new.pc = pc /\ new.op = "GET"
    BY <2>3, <2>4, <2>5, StartTyped DEF Requests, OnElement, Ended
  <2> HIDE DEF new
  <2>7. RequestsTyped' /\ UNCHANGED <<db, phase, suspect, partial, thin>>
    BY <1>3, <2>2, <2>3, <2>6 DEF ReadOps
  <2> QED BY <1>4, <2>7 DEF Get, TypeOK, RequestsTyped
<1>5. CASE GetQuery(r)
  <2>0. PICK crit \in Criteria, paging \in Paging, asked \in Asked :
          \E got \in cacheFetch(crit, paging) :
            Arrive(r, [Start EXCEPT
                !.op = "GET query", !.crit = crit, !.paging = paging,
                !.asked = asked, !.hold = got,
                !.pc = IF cache = Empty \/ (got = {} /\ paging.page * paging.limit = 0)
                       THEN "Read" ELSE "done"])
    BY <1>5 DEF GetQuery
  <2>1. PICK got \in cacheFetch(crit, paging) :
          Arrive(r, [Start EXCEPT
              !.op = "GET query", !.crit = crit, !.paging = paging,
              !.asked = asked, !.hold = got,
              !.pc = IF cache = Empty \/ (got = {} /\ paging.page * paging.limit = 0)
                     THEN "Read" ELSE "done"])
    BY <2>0
  <2> DEFINE pc == IF cache = Empty \/ (got = {} /\ paging.page * paging.limit = 0)
                   THEN "Read" ELSE "done"
             new == [Start EXCEPT !.op = "GET query", !.crit = crit,
                                  !.paging = paging, !.asked = asked, !.hold = got, !.pc = pc]
  <2>2. Arrive(r, new)
    BY <2>1
  <2>3. pc \in {"Read", "done"} /\ got \subseteq Element
    BY FetchedElements
  <2> HIDE DEF pc
  <2>4. "GET query" \in Ops
    BY <2>2, StartTyped DEF Arrive, Requests
  <2>5. crit \in SUBSET Val /\ paging \in [page : Nat, limit : Nat] /\ asked \in SUBSET Part
    BY ServiceAssumption DEF Part
  <2>6. new \in Requests /\ new.pc = pc /\ new.op = "GET query"
    BY <2>3, <2>4, <2>5, StartTyped DEF Requests, OnElement, Ended
  <2> HIDE DEF new
  <2>7. RequestsTyped' /\ UNCHANGED <<db, phase, suspect, partial, thin>>
    BY <1>3, <2>2, <2>3, <2>6 DEF ReadOps
  <2> QED BY <1>5, <2>7 DEF GetQuery, TypeOK, RequestsTyped
<1>6. CASE GetAggregate(r)
  <2>0. PICK crit \in Criteria : \E S \in Found(crit) :
          Arrive(r, [Start EXCEPT
              !.op = "GET aggregate", !.crit = crit, !.hold = RowsOf(cache, S),
              !.pc = IF cache = Empty THEN "Read" ELSE "done"])
    BY <1>6 DEF GetAggregate
  <2>1. PICK S \in Found(crit) :
          Arrive(r, [Start EXCEPT
              !.op = "GET aggregate", !.crit = crit, !.hold = RowsOf(cache, S),
              !.pc = IF cache = Empty THEN "Read" ELSE "done"])
    BY <2>0
  <2> DEFINE pc == IF cache = Empty THEN "Read" ELSE "done"
             hold == RowsOf(cache, S)
             new == [Start EXCEPT !.op = "GET aggregate", !.crit = crit,
                                  !.hold = hold, !.pc = pc]
  <2>2. Arrive(r, new)
    BY <2>1
  <2>3. pc \in {"Read", "done"} /\ hold \subseteq Element
    <3>1. S \subseteq Key
      BY DEF Found, Matching, Blank
    <3> QED BY <3>1, RowsAreElements DEF TypeOK
  <2> HIDE DEF pc, hold
  <2>4. "GET aggregate" \in Ops
    BY <2>2, StartTyped DEF Arrive, Requests
  <2>5. crit \in SUBSET Val
    BY ServiceAssumption
  <2>6. new \in Requests /\ new.pc = pc /\ new.op = "GET aggregate"
    BY <2>3, <2>4, <2>5, StartTyped DEF Requests, OnElement, Ended
  <2> HIDE DEF new
  <2>7. RequestsTyped' /\ UNCHANGED <<db, phase, suspect, partial, thin>>
    BY <1>3, <2>2, <2>3, <2>6 DEF ReadOps
  <2> QED BY <1>6, <2>7 DEF GetAggregate, TypeOK, RequestsTyped
<1>7. CASE Read(r)
  <2> DEFINE todo(got) == IF q.op = "GET aggregate" THEN {} ELSE got
  <2>0. PICK S \in ReadKeys(q), cut \in BOOLEAN :
          \E got \in Reads(S, q.asked, cut) :
             Becomes(r, [q EXCEPT !.pc = "fill", !.hold = got, !.cut = cut, !.todo = todo(got)])
    BY <1>7 DEF Read
  <2>1. PICK got \in Reads(S, q.asked, cut) :
             Becomes(r, [q EXCEPT !.pc = "fill", !.hold = got, !.cut = cut, !.todo = todo(got)])
    BY <2>0
  <2>2. got \subseteq Element /\ todo(got) \subseteq Element
    <3>1. S \in SUBSET Key
      BY <1>1, TouchesKeys DEF ReadKeys, Matching
    <3> QED BY <3>1, ReadsSay DEF TypeOK
  <2> DEFINE new == [q EXCEPT !.pc = "fill", !.hold = got, !.cut = cut, !.todo = todo(got)]
  <2>3. new \in Requests /\ new.pc = "fill" /\ new.elems = q.elems /\ new.op = q.op
    <3> HIDE DEF todo
    <3> QED BY <1>1, <2>2 DEF Requests, OnElement
  <2>4. Becomes(r, new)
    BY <2>1
  <2> HIDE DEF new
  <2>5. RequestsTyped'
    <3>1. Fits(new)
      BY <1>1, <2>3, FitsOff
    <3> QED BY <1>2, <2>3, <2>4, <3>1, BecomesTyped
  <2> QED BY <1>7, <2>5 DEF Read, TypeOK, RequestsTyped
<1>8. CASE ReadFails(r)
  <2> DEFINE hold == {q.elems[i] : i \in DOMAIN q.elems}
             new == [Start EXCEPT !.op = q.op, !.pc = "failed", !.hold = hold]
  <2>1. hold \subseteq Element
    BY <1>1, ElementsOfList
  <2>2. new \in Requests /\ new.pc = "failed" /\ new.elems = <<>>
    <3> HIDE DEF hold
    <3> QED BY <1>1, <2>1, StartTyped DEF Requests, OnElement, Ended, Start
  <2>3. Becomes(r, new) \/ Finish(r, "panicked")
    BY <1>8 DEF ReadFails
  <2> HIDE DEF new
  <2>4. Fits(new)
    BY <2>2 DEF Fits, OnElement
  <2>5. RequestsTyped'
    BY <1>2, <2>2, <2>3, <2>4, BecomesTyped, FinishTyped DEF Ended
  <2> QED BY <1>8, <2>5 DEF ReadFails, TypeOK, RequestsTyped
<1>9. CASE Fill(r)
  <2>1. PICK e \in q.todo : /\ Fills(r, e)
                            /\ Becomes(r, [q EXCEPT !.todo = q.todo \ {e}])
    BY <1>9 DEF Fill
  <2>2. RequestsTyped'
    BY <1>2, <1>9, <2>1, TodoTyped DEF Fill, At, OnElement, OnWrite
  <2>3. cache' \in Cached /\ (phase # "active" => cache' = Empty) /\ thin' \subseteq Key
    BY <1>1, <1>9, <2>1, FillsTyped DEF Fill
  <2> QED BY <1>9, <2>2, <2>3 DEF Fill, TypeOK, RequestsTyped
<1>10. CASE ReadEnds(r)
  <2>1. RequestsTyped'
    BY <1>2, <1>10, GotoTyped DEF ReadEnds, Ended
  <2> QED BY <1>10, <2>1 DEF ReadEnds, TypeOK, RequestsTyped
<1> QED BY <1>4, <1>5, <1>6, <1>7, <1>8, <1>9, <1>10 DEF GetStep

\* The first state has the types of TypeOK, however far the load of the cache came.
LEMMA TypeInit == Init => TypeOK
<1> SUFFICES ASSUME Init PROVE TypeOK
  OBVIOUS
<1>1. db \in Stored
  BY DEF Init
<1>2. cache \in Cached /\ partial \subseteq Key /\ thin \subseteq Key
  <2>1. CASE \E S \in SUBSET Key :
                /\ cache = [k \in Key |-> IF k \in S THEN db[k] ELSE None]
                /\ partial = Key \ S /\ thin = {}
    BY <1>1, <2>1, TablesHold DEF Cached, Stored
  <2>2. ASSUME NEW gone \in [Key -> SUBSET Kid],
               cache = [k \in Key |-> IF db[k] = None THEN None ELSE Only(db[k], Part \ gone[k])],
               partial = {}, thin = {k \in Key : gone[k] # {}}
        PROVE  cache \in Cached /\ partial \subseteq Key /\ thin \subseteq Key
    <3>1. \A k \in Key : db[k] # None => Only(db[k], Part \ gone[k]) \in Piece
      BY <1>1, TablesHold, ObjectIs, OnlyPiece
    <3> QED BY <2>2, <3>1 DEF Cached
  <2> QED BY <2>1, <2>2 DEF Init
<1>3. req \in [Request -> Requests] /\ \A r \in Request : Fits(req[r])
  BY StartTyped DEF Init
<1> QED BY <1>1, <1>2, <1>3 DEF Init, TypeOK, Phases

\* Every step keeps the types, those of DeActivate and after it too.
LEMMA TypeNext == TypeOK /\ [Next]_vars => TypeOK'
<1> SUFFICES ASSUME TypeOK, [Next]_vars PROVE TypeOK'
  OBVIOUS
<1>1. ASSUME NEW r \in Request, OrmPanics(r) PROVE TypeOK'
  <2>1. RequestsTyped'
    BY <1>1, FinishTyped DEF OrmPanics, TypeOK, RequestsTyped, Ended
  <2> QED BY <1>1, <2>1 DEF OrmPanics, TypeOK, RequestsTyped
<1>2. CASE DropCache
  <2>1. PICK X \in SUBSET Request :
          req' = [r \in Request |->
                    IF r \in X THEN [Start EXCEPT !.op = req[r].op, !.pc = "panicked"]
                    ELSE req[r]]
    BY <1>2 DEF DropCache
  <2>2. ASSUME NEW r \in Request PROVE req'[r] \in Requests /\ Fits(req'[r])
    <3> DEFINE new == [Start EXCEPT !.op = req[r].op, !.pc = "panicked"]
    <3>1. req[r] \in Requests /\ Fits(req[r])
      BY DEF TypeOK
    <3>2. new \in Requests /\ new.pc = "panicked" /\ new.elems = <<>>
      BY <3>1, StartTyped DEF Requests, Ended, Start
    <3> HIDE DEF new
    <3>3. Fits(new)
      BY <3>2 DEF Fits, OnElement
    <3>4. req'[r] \in {new, req[r]}
      BY <2>1 DEF new
    <3> QED BY <3>1, <3>2, <3>3, <3>4
  <2>3. req' \in [Request -> Requests]
    <3>1. DOMAIN req' = Request /\ req' = [r \in Request |-> req'[r]]
      BY <2>1
    <3> QED BY <2>2, <3>1
  <2>4. cache' \in Cached /\ cache' = Empty /\ partial' = Key /\ suspect' = {} /\ thin' = {}
        /\ db' = db /\ phase' = "no cache"
    BY <1>2, TablesHold DEF DropCache
  <2> QED BY <2>2, <2>3, <2>4 DEF TypeOK, Phases
<1>3. CASE CloseOrm
  BY <1>3 DEF CloseOrm, TypeOK, Phases
<1>4. CASE UNCHANGED vars
  BY <1>4 DEF vars, TypeOK
<1> QED BY <1>1, <1>2, <1>3, <1>4, TypeWriteStep, TypeDeleteStep, TypeGetStep DEF Next

\* The variables of the service hold, in every reachable state, what the
\* handlers may put there: no request runs past the end of its list
\* (cacheAction), and without a cache none is used (DeActivate).
THEOREM ServiceTypes == Spec => []TypeOK
BY TypeInit, TypeNext, PTL DEF Spec

=============================================================================
