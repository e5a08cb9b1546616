----------------------------- MODULE Aggregates -----------------------------
(***************************************************************************)
(* Aggregate queries that the database answers: one statement for each     *)
(* request, with GROUP BY, HAVING, ORDER BY, LIMIT and OFFSET, and the     *)
(* groups that are read from its result.                                   *)
(*                                                                         *)
(* A group is known by the comparators that hold of it; HAVING is criteria *)
(* of comparators, Own of columns and Other of the aliases of aggregates.  *)
(* The values the database computes for a group are left out.  A query has *)
(*   having - a set of at most one criteria                                *)
(*   rank   - where the sort column puts a group, the same number for all  *)
(*            groups if there is none                                      *)
(*   limit  - groups on a page, 0 for all of them                          *)
(***************************************************************************)
EXTENDS WhereClause, IndexArith, SequencesExt

\* The groups the statement has, of the groups S of the records that match.
\* HAVING is made by expression, as WHERE is, and left out if nothing is left.
Having(S, q) == S \cap (IF q.having = {} THEN Row ELSE UNION {Affected(exp) : exp \in q.having})

\* Fault: the page is taken for the offset.
OffsetOfPage(page, limit) == page

\* Where a page begins, an int32.
Offset(page, limit) == Wrapped(page * limit)

\* PostgreSQL refuses a HAVING that is not well-formed and a negative OFFSET.
StatementRefused(q, page) ==
    \/ \E exp \in q.having : Refused(exp)
    \/ q.limit > 0 /\ Offset(page, q.limit) < 0

\* Any order of groups that agrees with the sort column.
OrderBy(groups, rank) ==
    {s \in SetToSeqs(groups) : \A i, j \in DOMAIN s : i < j => rank[s[i]] <= rank[s[j]]}

\* LIMIT and OFFSET.
OnPage(s, page, limit) ==
    LET from == Offset(page, limit)
    IN  IF limit = 0 THEN s
        ELSE SubSeq(s, from + 1, IF from + limit < Len(s) THEN from + limit ELSE Len(s))

\* What the statement may result in.
Results(S, q, page) ==
    {OnPage(s, page, q.limit) :
        s \in UNION {OrderBy(groups, q.rank) : groups \in {Having(S, q)}}}

\* scanAggregateRows: the groups of an answer.  A result that breaks off ends
\* the loop as its last row does.
scanAggregateRows(result, breaks) == IF breaks THEN Prefixes(result) ELSE {result}

-----------------------------------------------------------------------------
(* Properties                                                              *)

\* The groups a HAVING of comparators joined by AND lets through: those that
\* satisfy the ones about columns.
LetThrough(S, q) == {g \in S : \A exp \in q.having : \A c \in Operands(exp) \cap Own : g[c]}

\* If the sort column tells the groups apart, or all are asked for at once, a
\* group is on the page of its place among those HAVING lets through, and on no
\* other, though each page is a statement of its own; and no page lacks one
\* unless its result broke off.  That is so while the offset is in the range of
\* an int32, and of a HAVING joined by AND (query2AggregateSql,
\* scanAggregateRows).
GroupsAreOnTheirPage(S, q, page, breaks) ==
    \A through \in {LetThrough(S, q)} :
    LET place(g) == Cardinality({x \in through : q.rank[x] < q.rank[g]})
        apart == \A g, x \in S : q.rank[g] = q.rank[x] => g = x
    IN  (/\ q.limit = 0 \/ apart
         /\ page * q.limit < Half
         /\ \A exp \in q.having : Operators(exp) \subseteq {"and"}
         /\ ~StatementRefused(q, page)) =>
        \A result \in Results(S, q, page) : \A answer \in scanAggregateRows(result, breaks) :
            /\ \A i, j \in DOMAIN answer : answer[i] = answer[j] => i = j
            /\ \A i \in DOMAIN answer :
                  answer[i] \in through /\ (q.limit > 0 => place(answer[i]) \div q.limit = page)
            /\ ~breaks => \A g \in through :
                  q.limit = 0 \/ place(g) \div q.limit = page => \E i \in DOMAIN answer : answer[i] = g
=============================================================================
