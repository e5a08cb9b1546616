----------------------------- MODULE MCOrmService -----------------------------
(***************************************************************************)
(* Instances of OrmService for TLC: one column with two values, which may  *)
(* be that of one child.                                                   *)
(*                                                                         *)
(* One run has three of them, which scene tells apart.  In "records" there *)
(* are two records without children; in "parts" one with them, and results *)
(* break off; in "late" the service is deactivated under requests for one  *)
(* record without children.                                                *)
(***************************************************************************)
EXTENDS OrmService, TLC

CONSTANTS Scenes

VARIABLE scene

\* Objects without a child and with one, and a child alone, for a PATCH.
Flat(v) == [p \in Row |-> v]
Deep(v) == [p \in Part |-> v]
Child(v) == [p \in Kid |-> v]

\* Lists of one element, of two without children, and of two for one record, only
\* one of which has the child.
MCLists ==
    UNION {
        {<<[key |-> k, val |-> o]>> : k \in Key, o \in {Flat(v), Deep(v), Child(v)}} \cup
        {<<[key |-> p[1], val |-> Flat(v)], [key |-> p[2], val |-> Flat(v)]>> :
            p \in {q \in Key \X Key : q[1] # q[2]}} \cup
        {<<[key |-> k, val |-> p[1]], [key |-> k, val |-> p[2]]>> :
            k \in Key, p \in {<<Deep(v), Flat(v)>>, <<Flat(v), Deep(v)>>, <<Flat(v), Child(v)>>}}
      : v \in Val}

\* All records, and the first and second page of one.
MCPaging == {[page |-> 0, limit |-> 0], [page |-> 0, limit |-> 1], [page |-> 1, limit |-> 1]}
MCCriteria == {{v} : v \in Val} \cup {Val}

\* Everything, the column, and the key alone.
MCAsked == {Part, Row, {}}

\* Keys, values and requests are interchangeable.
Interchangeable == Permutations(Key) \cup Permutations(Val) \cup Permutations(Request)

Used == {k \in Key : db[k] # None} \cup UNION {KeysOf(req[r].elems) : r \in Request}
Given == UNION {{req[r].elems[i].val : i \in DOMAIN req[r].elems} :
                   r \in {x \in Request : req[x].op \in {"POST", "PUT", "PATCH"}}}
Childless == \A o \in {db[k] : k \in Key} \cup Given : Parts(o) \cap Kid = {}
Whole(r) == ~req[r].cut /\ req[r].asked = Part

MCRecords ==
    /\ Childless
    /\ \A r \in Request : Whole(r)
    /\ phase = "active"
MCParts ==
    /\ Cardinality(Used) <= 1
    /\ Cardinality({r \in Request : InFlight(r) /\ req[r].op \in WriteOps}) <= 1
    /\ \A r \in Request : req[r].paging.limit = 0 /\ req[r].op # "POST"
    /\ phase = "active"
MCLate ==
    /\ Childless
    /\ Cardinality(Used) <= 1
    /\ \A r \in Request : Whole(r) /\ Len(req[r].elems) <= 1
InScene ==
    /\ scene = "records" => MCRecords
    /\ scene = "parts" => MCParts
    /\ scene = "late" => MCLate

MCInit == Init /\ scene \in Scenes /\ InScene
MCNext == Next /\ UNCHANGED scene /\ InScene'
MCSpec == MCInit /\ [][MCNext]_<<vars, scene>>
===============================================================================
