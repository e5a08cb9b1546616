------------------------------ MODULE Convert -------------------------------
(***************************************************************************)
(* Objects and the rows they are stored as.  An object has fields of its   *)
(* own, val, perhaps a primary key, pk, and attributes that are structs,   *)
(* slices or maps of structs.  The table of a struct type has a row for    *)
(* each of its objects, under the key of the row of its parent and a       *)
(* RecKey: the attribute with an index or a key, the row's "part".         *)
(*                                                                         *)
(* An attribute is a function from parts to objects: indexes of a slice,   *)
(* keys of a map, or the one part NoPart of a struct.  What is nil or      *)
(* empty is the empty function; the conversion does not tell them apart.   *)
(***************************************************************************)
EXTENDS Integers, Sequences, FiniteSets

CONSTANTS
    Nil,      \* a nil element of a slice or map, a nil struct
    NoPart,   \* the part of a struct, and the key of an object without one
    MapKey,   \* keys of maps
    Between,  \* Between[m]: the text between the last brackets of the RecKey of
              \* map key m: m itself, unless m has brackets in it
    Depth     \* how many types deep an object goes below its root

ASSUME BetweenAssumption == DOMAIN Between = MapKey
ASSUME DepthAssumption == Depth \in Nat

-----------------------------------------------------------------------------
\* The calls of a recursive function: the first one, and at each depth those that
\* the calls above make.
Reached(first, Makes(_)) ==
    LET at[d \in 0..Depth] ==
            IF d = 0 THEN {first} ELSE UNION {Makes(call) : call \in at[d - 1]}
    IN  UNION {at[d] : d \in 0..Depth}

\* RecKey: an object's own key goes before the part it has in its attribute.
RecKey(field, o, part) == <<field, IF o.pk # NoPart THEN o.pk ELSE part>>

\* A call of convertTo: an object of a type, as a part of an attribute of the
\* row at parent.
Call(node, o, parent, part) == [node |-> node, o |-> o, parent |-> parent, part |-> part]

RowOf(call) ==
    [parent |-> call.parent, rec |-> RecKey(call.node.field, call.o, call.part),
     val |-> call.o.val, pk |-> call.o.pk]

Id(row) == <<row.parent, row.rec>>
Ids(rows) == {Id(row) : row \in rows}
KeyForRow(row) == Append(row.parent, row.rec)

NotNil(value) == {i \in DOMAIN value : value[i] # Nil}

\* Fault: the children of an object are put under its parent.
ConvertsFlat(call) ==
    UNION {{Call(kid, call.o.kids[kid.field][i], call.parent, i) :
              i \in NotNil(call.o.kids[kid.field])} : kid \in call.node.kids}

\* convertTo goes on with what the object contains.  A nil element has no row and
\* does not end the loop.
Converts(call) ==
    UNION {{Call(kid, call.o.kids[kid.field][i], KeyForRow(RowOf(call)), i) :
              i \in NotNil(call.o.kids[kid.field])} : kid \in call.node.kids}

\* The rows of a root object, whose attribute is the type itself.
Calls(root, o) == Reached(Call(root, o, <<>>, NoPart), Converts)
Rows(root, o) == {RowOf(call) : call \in Calls(root, o)}

\* What the tables may hold after rows are upserted: of new rows with one key
\* the one written last, which may be any, since maps have no order.
Upserted(db, new) ==
    LET old == {row \in db : Id(row) \notin Ids(new)}
        twins == {row \in new : \E other \in new \ {row} : Id(other) = Id(row)}
    IN  {old \cup (new \ twins) \cup last : last \in
            {s \in SUBSET twins : Ids(s) = Ids(twins) /\ Cardinality(s) = Cardinality(Ids(s))}}

\* A call of convertFrom, for an attribute of the row at parent, and the value
\* this attribute should be read as.
Read(node, parent, value) == [node |-> node, parent |-> parent, value |-> value]

RowsOf(read, db) ==
    {row \in db : row.parent = read.parent /\ row.rec[1] = read.node.field}

\* Fault: the last index is taken for one past the end.
PlaceShort(node, parts) ==
    IF node.kind # "slice" THEN "placed"
    ELSE IF \E i \in parts : i \notin Nat THEN "error"
    ELSE IF \E i \in parts : i >= Cardinality(parts) - 1 THEN "panic"
    ELSE "placed"

\* convertRowsToSlice: a slice is as long as its rows are many, and a row is put
\* at the index that is its part.  A part that is no number is an error.
Place(node, parts) ==
    IF node.kind # "slice" THEN "placed"
    ELSE IF \E i \in parts : i \notin Nat THEN "error"
    ELSE IF \E i \in parts : i >= Cardinality(parts) THEN "panic"
    ELSE "placed"

\* The part a row has in what is read: convertRowsToMap takes it from the text
\* of the RecKey.
ReadPart(node, row) ==
    CASE node.kind = "slice" -> row.rec[2]
      [] node.kind = "map" -> Between[row.rec[2]]
      [] node.kind = "struct" -> NoPart

\* What the row should be read as, if it should be read at all.
Expected(read, row) ==
    LET part == ReadPart(read.node, row)
    IN  IF part \in DOMAIN read.value THEN read.value[part] ELSE Nil

\* convertFrom goes on with the attributes of every row it finds.
ReadsOn(read, db) ==
    UNION {{Read(kid, KeyForRow(row),
                 LET o == Expected(read, row) IN IF o = Nil THEN <<>> ELSE o.kids[kid.field]) :
              kid \in read.node.kids} : row \in RowsOf(read, db)}

\* The value of the root as that of a struct.
Alone(o) == [p \in {NoPart} |-> o]

Reads(root, db, o) ==
    LET Makes(read) == ReadsOn(read, db)
    IN  Reached(Read(root, <<>>, Alone(o)), Makes)

\* The attribute is read as its value, whichever row is taken where a
\* struct has several (SetValueFromSubTable takes any).
Shows(read, db) ==
    LET rows == RowsOf(read, db)
    IN  /\ DOMAIN read.value = {ReadPart(read.node, row) : row \in rows}
        /\ \A row \in rows :
            LET o == Expected(read, row)
            IN  o # Nil /\ o.val = row.val /\ o.pk = row.pk

\* convertFrom ends with an error or a panic, at the root or below.
Fails(root, db, o) ==
    \E read \in Reads(root, db, o) :
        Place(read.node, {row.rec[2] : row \in RowsOf(read, db)}) # "placed"

-----------------------------------------------------------------------------
(* What is written                                                         *)

\* The values of the attributes of an object and of all it contains.
Attributes(root, o) ==
    UNION {{[node |-> kid, value |-> call.o.kids[kid.field]] : kid \in call.node.kids} :
              call \in Calls(root, o)}

\* An object of a type, as the compiler and the introspector see to it: no type
\* has two attributes of one name, and a slice is indexed from 0 on.
IsObject(root, o) ==
    /\ root.kind = "struct" /\ o # Nil
    /\ \A call \in Calls(root, o) :
          /\ IsFiniteSet(call.node.kids)
          /\ \A a, b \in call.node.kids : a.field = b.field => a = b
    /\ \A attr \in Attributes(root, o) :
          /\ attr.node.kind \in {"slice", "map", "struct"}
          /\ IsFiniteSet(DOMAIN attr.value)
          /\ attr.node.kind = "slice" => DOMAIN attr.value = 0..(Cardinality(DOMAIN attr.value) - 1)
          /\ attr.node.kind = "map" => DOMAIN attr.value \subseteq MapKey
          /\ attr.node.kind = "struct" => DOMAIN attr.value \subseteq {NoPart}

\* No nil in a slice or map, no map key with brackets, no element of a slice or
\* map with a key of its own.
Plain(root, o) ==
    \A attr \in Attributes(root, o) :
        /\ \A i \in DOMAIN attr.value :
              attr.value[i] # Nil /\ (attr.node.kind # "struct" => attr.value[i].pk = NoPart)
        /\ attr.node.kind = "map" => \A m \in DOMAIN attr.value : Between[m] = m

\* An element that is missing before another, and one with a key of its own.
Misplaced(root, o) ==
    \E attr \in Attributes(root, o) : attr.node.kind = "slice" /\ \E i \in DOMAIN attr.value :
        /\ attr.value[i] # Nil
        /\ attr.value[i].pk # NoPart \/ \E j \in 0..(i - 1) : attr.value[j] = Nil

-----------------------------------------------------------------------------
(* Properties                                                              *)

\* When an object is written over another, and has a row wherever the other had
\* one, it is read as it was written, at every depth: slices in their order,
\* maps under their keys.  That one object is read back is the case of writing
\* it over itself (convertTo, convertFrom).
LatestIsRead(root, before, after) ==
    /\ Plain(root, after)
    /\ Ids(Rows(root, before)) \subseteq Ids(Rows(root, after))
    =>
        \A db \in Upserted({}, Rows(root, before)) : \A db2 \in Upserted(db, Rows(root, after)) :
            /\ ~Fails(root, db2, after)
            /\ \A read \in Reads(root, db2, after) : Shows(read, db2)

\* What was written is read back with an error or a panic only if a slice had a
\* nil before an element, or an element whose type has a primary key: its RecKey
\* then has that key for an index (RecKey, GetSliceIndex).
OnlyMisplacedElementsFail(root, o) ==
    (\E db \in Upserted({}, Rows(root, o)) : Fails(root, db, o)) => Misplaced(root, o)
=============================================================================
