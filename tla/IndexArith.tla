----------------------------- MODULE IndexArith -----------------------------
(***************************************************************************)
(* The arithmetic of the paging index: the key under which the list of     *)
(* records of a query and a user is kept, and where a page of the list     *)
(* begins and ends.  Hashes, page numbers and limits are int32, keys are   *)
(* int64.                                                                  *)
(***************************************************************************)
EXTENDS Integers, Sequences

CONSTANT Half  \* 2^31: an int32 is at least -Half and less than Half

ASSUME WidthAssumption == Half \in Nat \ {0}

Span == 2 * Half
Int32 == (-Half)..(Half - 1)

\* What an int32 holds of an integer.
Wrapped(n) == ((n + Half) % Span) - Half

\* hashString of a name, which is the sequence of its characters.
hashString(name) ==
    LET h[i \in 0..Len(name)] == IF i = 0 THEN 0 ELSE Wrapped(31 * h[i - 1] + name[i])
    IN  h[Len(name)]

\* Fault: the hash of the query is not shifted out of the way of the user's.
IndexKeyAdded(query, aaaId) == query + hashString(aaaId)

\* The key of readWithIndex, of the hash of a query and the name of its user,
\* empty if it has none.  The int64 of a negative user hash has ones in its
\* upper half, and the bitwise or leaves nothing of the query hash there.
IndexKey(query, aaaId) ==
    IF aaaId = <<>> THEN query
    ELSE IF hashString(aaaId) < 0 THEN hashString(aaaId)
    ELSE query * Span + hashString(aaaId)

\* Fault: the end of a page is not cut off at the end of the list.
PageBoundsUncut(page, limit, len) ==
    LET start == Wrapped(page * limit)
    IN  IF start >= len THEN [from |-> 0, to |-> 0] ELSE [from |-> start, to |-> start + limit]

\* pageKeys, for limits above zero: the positions, counted from zero, of the
\* page in a list of len keys: from is in it, to is not.
PageBounds(page, limit, len) ==
    LET start == Wrapped(page * limit)
        end == IF start + limit > len THEN len ELSE start + limit
    IN  IF start >= len THEN [from |-> 0, to |-> 0] ELSE [from |-> start, to |-> end]

\* recKeys[from:to] panics unless both bounds lie in the list, in this order.
SlicePanics(bounds, len) == ~(0 <= bounds.from /\ bounds.from <= bounds.to /\ bounds.to <= len)

-----------------------------------------------------------------------------
(* Properties                                                              *)

\* When two requests, not of the same query and user, use one entry, then a
\* user's hash is negative, or the users' hashes are equal and so are the
\* queries', or one has no user and the other's query has the hash 0
\* (readWithIndex).
SharedEntriesExplained(q1, user1, q2, user2) ==
    <<q1, user1>> # <<q2, user2>> /\ IndexKey(q1, user1) = IndexKey(q2, user2) =>
        \/ hashString(user1) < 0 \/ hashString(user2) < 0
        \/ hashString(user1) = hashString(user2) /\ q1 = q2
        \/ user1 = <<>> /\ q2 = 0
        \/ user2 = <<>> /\ q1 = 0

\* An entry is kept for each query and user (Postgres.go:83, "Query hash
\* (+ AAA ID) -> cached results").  It is not: a user whose hash is negative
\* has one entry for all queries.
EntriesArePerQuery(q1, user1, q2, user2) ==
    user1 = user2 /\ q1 # q2 => IndexKey(q1, user1) # IndexKey(q2, user2)

\* A page whose start is in the range of an int32 is cut out without a panic,
\* and is what lies between its start and the next page's: no record is on two
\* pages or on none (pageKeys).
PagesTileTheIndex(page, limit, len) ==
    page * limit < Half =>
        LET b == PageBounds(page, limit, len)
        IN  /\ ~SlicePanics(b, len)
            /\ \A i \in 0..(len - 1) :
                  (b.from <= i /\ i < b.to) <=> (i \div limit = page)
=============================================================================
