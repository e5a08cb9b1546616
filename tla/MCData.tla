------------------------------- MODULE MCData -------------------------------
(***************************************************************************)
(* The modules about pure functions, on bounded inputs: a behaviour is one *)
(* input that is chosen, and each property is about one kind of input.     *)
(***************************************************************************)
EXTENDS Convert, WhereClause, Projections, IndexArith, Aggregates

CONSTANTS v1, v2, id, m1, m2, mb, t0, t1, t2, n1, n2, o1, o2, x1

VARIABLE input

-----------------------------------------------------------------------------
\* Types: a root with a struct that has a slice, a slice of structs that have a
\* struct, and a map.
Inner == [field |-> "inner", kind |-> "slice", kids |-> {}]
One == [field |-> "one", kind |-> "struct", kids |-> {Inner}]
Deep == [field |-> "deep", kind |-> "struct", kids |-> {}]
List == [field |-> "list", kind |-> "slice", kids |-> {Deep}]
Dict == [field |-> "dict", kind |-> "map", kids |-> {}]
RootNode == [field |-> "root", kind |-> "struct", kids |-> {One, List, Dict}]

\* A map key with brackets is read as another key.
MCBetween == [m \in MapKey |-> IF m = mb THEN m1 ELSE m]

Object(pk, val, kids) == [pk |-> pk, val |-> val, kids |-> kids]
Slices(S) == UNION {[0..(n - 1) -> S] : n \in 0..3}
Structs(S) == {<<>>} \cup [{NoPart} -> S]

Leaf(val) == Object(NoPart, val, <<>>)
Ones == {Object(pk, v1, [inner |-> s]) :
            pk \in {NoPart, id}, s \in {<<>>, [i \in {0} |-> Leaf(v2)], [i \in 0..1 |-> Leaf(v1)]}}
Items == {Object(pk, v1, [deep |-> s]) :
            pk \in {NoPart, id, 0}, s \in {<<>>, [p \in {NoPart} |-> Leaf(v2)]}}
Few(S) == {<<>>} \cup {[i \in {0} |-> x] : x \in S}
Dicts == {<<>>, [m \in {m1} |-> Leaf(v1)], [m \in {m1, m2} |-> Leaf(v2)],
          [m \in {m1, mb} |-> IF m = m1 THEN Leaf(v1) ELSE Leaf(v2)], [m \in {m2} |-> Nil]}

RootOf(one, list, dict) ==
    Object(id, v1, [one |-> one, list |-> list, dict |-> dict])
Objects ==
    {RootOf(one, list, <<>>) : one \in Structs(Ones) , list \in Few(Items)} \cup
    {RootOf(<<>>, list, dict) : list \in Slices(Items \cup {Nil}), dict \in Dicts}
Pairs == {RootOf(one, list, dict) :
            one \in {<<>>} \cup [{NoPart} -> {o \in Ones : o.pk = NoPart}],
            list \in Slices({o \in Items : o.pk = NoPart}), dict \in Dicts}

\* What is written is an object of its type.
ASSUME ObjectsAreTyped == \A o \in Objects \cup Pairs : IsObject(RootNode, o)

-----------------------------------------------------------------------------
\* Long conditions, and long chains of short ones.
MCCriteria == Criteria(2, 3) \cup Criteria(3, 2)

\* Groups, every two of which some comparator of a column tells apart.
Groups == {[c \in {o1, o2, x1} |-> c # x] : x \in {o1, o2, x1}}

\* A group says of each comparator whether it holds.
ASSUME GroupsAreRows == Groups \subseteq Row

MCPath == [t \in Type |-> CASE t = Root -> <<>> [] t = t1 -> <<t1>> [] OTHER -> <<t1, t2>>]

Chars == {1, 2, 5}
Names == UNION {[1..n -> Chars] : n \in 0..2}

Choose(kind, what) == input' = [kind |-> kind, of |-> what]

WriteTwice ==
    \E before, after \in Pairs : Choose("twice", <<before, after>>)
WriteOnce == \E o \in Objects : Choose("once", o)
Criticise == \E exp \in MCCriteria : Choose("criteria", exp)
Project == \E n \in 1..4 : \E props \in [1..n -> Property], fields \in SetToSeqs(Name) :
               Choose("projection", <<props, fields>>)
Index == \E q1, q2 \in Int32, user1, user2 \in Names : Choose("index", <<q1, user1, q2, user2>>)
Page == \E page \in 0..(Half - 1), limit \in 1..(Half - 1), len \in 0..Half :
            Choose("page", <<page, limit, len>>)

\* Without HAVING all sort columns, those too that do not tell the groups apart.
Aggregate ==
    \E S \in SUBSET Groups, limit, page \in 0..(Half - 1), breaks \in BOOLEAN :
    \E rank \in [S -> 0..2], having \in {{}} \cup {{exp} : exp \in Criteria(1, 2)} :
        /\ having = {} \/ (S = Groups /\ \A g, x \in S : rank[g] = rank[x] => g = x)
        /\ Choose("aggregate",
                  <<S, [having |-> having, rank |-> rank, limit |-> limit], page, breaks>>)

Init == input = <<>>
Next ==
    /\ input = <<>>
    /\ WriteTwice \/ WriteOnce \/ Criticise \/ Project \/ Index \/ Page \/ Aggregate
Spec == Init /\ [][Next]_input

-----------------------------------------------------------------------------
Is(kind) == input # <<>> /\ input.kind = kind

\* Convert.
LatestWriteIsRead == Is("twice") => LatestIsRead(RootNode, input.of[1], input.of[2])
ReadFailsOnlyOnMisplaced == Is("once") => OnlyMisplacedElementsFail(RootNode, input.of)

\* WhereClause.
CriteriaSelect == Is("criteria") =>
    OwnCriteriaAreExact(input.of) /\ DroppedOperandsWiden(input.of)
DeleteMatchesCriteria == Is("criteria") => DeletesOnlyWhatMatches(input.of)

\* Aggregates.
GroupsPaged == Is("aggregate") =>
    GroupsAreOnTheirPage(input.of[1], input.of[2], input.of[3], input.of[4])

\* Projections.
ProjectionsWhole == Is("projection") =>
    ProjectionsAreWhole(input.of[1]) /\ PagesShowProjections(input.of[1], input.of[2])

\* IndexArith.
SharedIndexExplained == Is("index") =>
    SharedEntriesExplained(input.of[1], input.of[2], input.of[3], input.of[4])
IndexPerQuery == Is("index") =>
    EntriesArePerQuery(input.of[1], input.of[2], input.of[3], input.of[4])
PagesTile == Is("page") => PagesTileTheIndex(input.of[1], input.of[2], input.of[3])
=============================================================================
