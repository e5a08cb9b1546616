---------------------------- MODULE ObjectStore ----------------------------
(***************************************************************************)
(* What the relational store promises: objects, each a value and a slice   *)
(* of children, that a write or a delete changes as a whole, all objects   *)
(* of a batch at once.  A key in loose is one the store promises nothing   *)
(* about any more.                                                         *)
(***************************************************************************)
EXTENDS Integers, Sequences, FiniteSets

CONSTANTS
    Key,      \* primary keys
    Zero,     \* the zero value of a field
    Nil,      \* a nil element of a slice
    NoObject, \* what the store holds for a key without an object
    Batches,  \* the sets of objects a write may carry
    Criteria  \* the values the criteria of a delete select

VARIABLES
    objs,     \* the object of each key
    loose     \* the keys without a promise

vars == <<objs, loose>>

Init ==
    /\ objs = [k \in Key |-> NoObject]
    /\ loose = {}

\* POST and PUT: the children of the new object replace those with their
\* index; what the old object has past them stays.
Merged(old, new) ==
    LET given == {i \in 1..Len(new) : new[i] # Nil}
    IN  [i \in 1..Cardinality(1..Len(old) \cup given) |->
            IF i \in given THEN new[i] ELSE IF i <= Len(old) THEN old[i] ELSE Nil]

\* PATCH: what is not zero replaces what is there.
Kept(old, new) == IF new \in {Zero, Nil} THEN old ELSE new

Upserted(k, b) ==
    IF \A o \in b : o.key # k THEN objs[k]
    ELSE LET o == CHOOSE o \in b : o.key = k
         IN  [val |-> o.val,
              kids |-> Merged(IF objs[k] = NoObject THEN <<>> ELSE objs[k].kids, o.kids)]

Patched(k, b) ==
    IF objs[k] = NoObject \/ \A o \in b : o.key # k THEN objs[k]
    ELSE LET o == CHOOSE o \in b : o.key = k
             old == objs[k].kids
         IN  [val |-> Kept(objs[k].val, o.val),
              kids |-> [i \in 1..Len(old) |->
                           IF i <= Len(o.kids) THEN Kept(old[i], o.kids[i]) ELSE old[i]]]

Removed(k, crit) ==
    IF objs[k] # NoObject /\ objs[k].val \in crit THEN NoObject ELSE objs[k]

Firm == Key \ loose'

Upsert == \E b \in Batches : \A k \in Firm : objs'[k] = Upserted(k, b)
Patch == \E b \in Batches : \A k \in Firm : objs'[k] = Patched(k, b)
Remove == \E crit \in Criteria : \A k \in Firm : objs'[k] = Removed(k, crit)
Loosen == \A k \in Firm : objs'[k] = objs[k]

Next == loose \subseteq loose' /\ (Upsert \/ Patch \/ Remove \/ Loosen)

Spec == Init /\ [][Next]_vars
============================================================================
