---------------------------- MODULE MCTimeSeries ----------------------------
(***************************************************************************)
(* An instance of TimeSeries for TLC.                                      *)
(***************************************************************************)
EXTENDS TimeSeries, TLC

CONSTANTS k1, k2, r1, r2, r3, d1, d2

Some(ps) == [p \in Point |-> IF p \in ps THEN 1 ELSE 0]
B(k, ps) == [keys |-> {k}, points |-> Some(ps)]

MCStamp == {1, 2}

\* One object with a point; two objects in two batches, one of them with
\* two points; an object without points before one that has some.
MCLists == {
    <<B(k1, {<<k1, 2>>})>>,
    <<B(k1, {<<k1, 1>>, <<k1, 2>>}), B(k2, {<<k2, 1>>})>>,
    <<B(k2, {}), B(k1, {<<k1, 1>>})>>}

MCPushes == {Some({<<k1, 1>>})}

\* Scenes.  "two": two requests of any kind at once.  "then": two requests
\* one of which writes, or a write and a read after it, and then a third.
CONSTANT Scenes
VARIABLE scene

InScene ==
    /\ scene = "two" => req[r3].pc = "idle"
    /\ scene = "then" =>
          /\ req[r3].pc # "idle" => Ended(r1) /\ Ended(r2)
          /\ req[r1].op \in {"none", "write"}
          /\ req[r2].op \in {"none", "write", "get"}
          /\ req[r2].op = "get" => Ended(r1)
          /\ Len(req[r1].list) <= 1 /\ home["service"] = d1
MCInit == Init /\ scene \in Scenes /\ InScene
MCNext == UNCHANGED scene /\ Next /\ InScene'
MCSpec == MCInit /\ [][MCNext]_<<vars, scene>> /\ Fairness
=============================================================================
