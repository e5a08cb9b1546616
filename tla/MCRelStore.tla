----------------------------- MODULE MCRelStore -----------------------------
(***************************************************************************)
(* Instances of RelStore for TLC: two goroutines of one process, one of    *)
(* another.                                                                *)
(***************************************************************************)
EXTENDS RelStore, TLC

CONSTANTS k1, k2, r1, r2, r3, p1, p2

MCHome == [r \in Request |-> IF r = r3 THEN p2 ELSE p1]

\* Objects whose children have the object's value, with none, one or two of
\* them, or a nil one before the second.
Slices(v) == {<<>>, <<v>>, <<v, v>>, <<Nil, v>>}
Objects(K) ==
    UNION {[key : K, val : {v}, kids : {s \in Slices(v) : Len(s) <= MaxKids}] : v \in Val}

\* One object, or one under each of two keys.
Singles == {{o} : o \in Objects(Key)}
Pairs == {{o, [o EXCEPT !.key = k2]} : o \in Objects({k1} \cap Key)}
MCBatches == Singles \cup (IF k2 \in Key THEN Pairs ELSE {})

MCCriteria == {Val, Val \ {Zero}}

\* The pattern of k1 matches its own rows only, that of k2 any.
MCCovers == [k \in Key |-> IF k = k1 THEN {k1} ELSE Key]

Interchangeable == Permutations({r1, r2} \cap Request)
=============================================================================
