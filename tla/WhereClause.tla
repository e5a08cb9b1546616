---------------------------- MODULE WhereClause -----------------------------
(***************************************************************************)
(* The WHERE clause that is made of the criteria of a query, for the table *)
(* of its root type, and the rows the clause selects.                      *)
(*                                                                         *)
(* Criteria are a chain of conditions, and a condition is a chain of       *)
(* comparators, each joined to the rest of its chain by an operator.  A    *)
(* comparator compares a column of the root type, or a property of another *)
(* type (one nested in the root, or no property at all, as the alias of an *)
(* aggregate in HAVING).  What it compares with is left out: a row says of *)
(* each comparator whether it holds.                                       *)
(***************************************************************************)
EXTENDS Naturals, Sequences

CONSTANTS
    Own,   \* comparators of columns of the root type
    Other  \* comparators of anything else

ASSUME ComparatorAssumption == Own \cap Other = {} /\ {"and", "or", "(", ")"} \cap Own = {}

Op == {"and", "or"}
Row == [Own \cup Other -> BOOLEAN]

\* Conditions of at most n comparators, and criteria of at most m of them.
Chain(S, n) == UNION {[items : [1..k -> S], ops : [1..(k - 1) -> Op]] : k \in 1..n}
Criteria(m, n) == Chain(Chain(Own \cup Other, n), m)

-----------------------------------------------------------------------------
\* The code.  A clause is a sequence of comparators, operators and parentheses;
\* an empty one stands for "not ok".

\* A comparator of another type is dropped.
comparator(c) == IF c \in Own THEN <<c>> ELSE <<>>

\* What is written of a chain, from what is written of its parts.  An operator is
\* written before what follows, whether or not anything is written before it.
\* If parts are enclosed, each opens a parenthesis that ends with the chain.
Chained(parts, ops, enclosed) ==
    LET from[i \in 1..Len(parts)] ==
            LET next == IF i < Len(parts) THEN from[i + 1] ELSE <<>>
                both == parts[i] \o IF next = <<>> THEN <<>> ELSE <<ops[i]>> \o next
            IN  IF enclosed /\ both # <<>> THEN <<"(">> \o both \o <<")">> ELSE both
    IN  from[1]

condition(cond) ==
    Chained([i \in 1..Len(cond.items) |-> comparator(cond.items[i])], cond.ops, FALSE)

\* Fault: no parentheses.
ExpressionBare(exp) ==
    Chained([i \in 1..Len(exp.items) |-> condition(exp.items[i])], exp.ops, FALSE)

expression(exp) ==
    Chained([i \in 1..Len(exp.items) |-> condition(exp.items[i])], exp.ops, TRUE)

-----------------------------------------------------------------------------
\* PostgreSQL.  It takes a clause in which each operator has two sides.
WellFormed(clause) ==
    \A i \in DOMAIN clause : clause[i] \in Op =>
        /\ i > 1 /\ clause[i - 1] \in Own \cup {")"}
        /\ i < Len(clause) /\ clause[i + 1] \in Own \cup {"("}

\* The rows a well-formed clause selects: AND binds tighter than OR.  The clause is
\* read from left to right; at each level, those of open parentheses and its own,
\* "or" are the rows of what stands before the last OR, and "and" those of what
\* is read since.
Fresh == [or |-> {}, and |-> Row]
Both(level) == level.or \cup level.and

Taken(levels, x) ==
    LET n == Len(levels)
    IN  CASE x = "and" -> levels
          [] x = "or" -> [levels EXCEPT ![n] = [or |-> Both(@), and |-> Row]]
          [] x = "(" -> Append(levels, Fresh)
          [] x = ")" -> [SubSeq(levels, 1, n - 1) EXCEPT ![n - 1].and = @ \cap Both(levels[n])]
          [] OTHER -> [levels EXCEPT ![n].and = @ \cap {row \in Row : row[x]}]

Selects(clause) ==
    LET levels[i \in 0..Len(clause)] ==
            IF i = 0 THEN <<Fresh>> ELSE Taken(levels[i - 1], clause[i])
    IN  Both(levels[Len(clause)][1])

\* What SELECT and DELETE are about: without a clause, every row.
Affected(exp) == IF expression(exp) = <<>> THEN Row ELSE Selects(expression(exp))

Refused(exp) == ~WellFormed(expression(exp))

-----------------------------------------------------------------------------
(* Properties                                                              *)

\* What the criteria say: the conditions nest to the right, and in a condition
\* AND binds tighter, as in the text it comes from.
Satisfies(row, cond) ==
    LET n == Len(cond.items)
    IN  \E i \in 1..n : \E j \in i..n :
            /\ i = 1 \/ cond.ops[i - 1] = "or"
            /\ j = n \/ cond.ops[j] = "or"
            /\ \A k \in i..j : row[cond.items[k]]

Meant(exp) ==
    {row \in Row : \E i \in DOMAIN exp.items :
        /\ Satisfies(row, exp.items[i])
        /\ i = Len(exp.items) \/ exp.ops[i] = "or"
        /\ \A j \in 1..(i - 1) : exp.ops[j] = "and" => Satisfies(row, exp.items[j])}

Operands(exp) == UNION {{cond.items[k] : k \in DOMAIN cond.items} :
                            cond \in {exp.items[i] : i \in DOMAIN exp.items}}
Operators(exp) == {exp.ops[i] : i \in DOMAIN exp.ops} \cup
                  UNION {{cond.ops[k] : k \in DOMAIN cond.ops} :
                            cond \in {exp.items[i] : i \in DOMAIN exp.items}}

\* A condition with OR in it is not kept together before an AND: it has no
\* parentheses of its own.
Torn(exp) == \E i \in DOMAIN exp.ops :
    exp.ops[i] = "and" /\ "or" \in {exp.items[i].ops[k] : k \in DOMAIN exp.items[i].ops}

\* Criteria of columns of the root type are never refused, and the clause
\* selects what they say, whatever operators they mix, unless AND follows a
\* condition with OR (expression, condition).
OwnCriteriaAreExact(exp) ==
    Operands(exp) \subseteq Own =>
        ~Refused(exp) /\ (~Torn(exp) => Affected(exp) = Meant(exp))

\* Of criteria joined by AND alone, what is dropped can only widen what is
\* selected, and what is kept counts in full: the statement is refused, or is
\* about the rows that satisfy every comparator of the root type (comparator).
DroppedOperandsWiden(exp) ==
    Operators(exp) \subseteq {"and"} /\ ~Refused(exp) =>
        Affected(exp) = {row \in Row : \A c \in Operands(exp) \cap Own : row[c]}

\* "Delete removes records matching the query criteria" (common/IORM.go:40),
\* and no others.  It does: of a comparator of a nested type nothing is left in
\* the clause, and criteria of such comparators alone delete every record.
DeletesOnlyWhatMatches(exp) == ~Refused(exp) => Affected(exp) \subseteq Meant(exp)
=============================================================================
