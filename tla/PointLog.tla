------------------------------ MODULE PointLog ------------------------------
(***************************************************************************)
(* What a time series store promises: a log for each database, a bag of    *)
(* points, that takes whole loads and forgets nothing.  A load is what a   *)
(* caller offers in one call; it is added as a whole or not at all.        *)
(***************************************************************************)
EXTENDS Naturals

CONSTANTS Database, Point

Bag == [Point -> Nat]
Zero == [p \in Point |-> 0]
Plus(f, g) == [p \in Point |-> f[p] + g[p]]

VARIABLES
    log,     \* log[d][p]: how many copies of p database d has
    offered  \* the loads that callers have offered so far

Init == log = [d \in Database |-> Zero] /\ offered = {}

Offer == offered' \in SUBSET Bag /\ offered \subseteq offered' /\ UNCHANGED log

Add(d, load) == log' = [log EXCEPT ![d] = Plus(@, load)] /\ UNCHANGED offered

Next == Offer \/ \E d \in Database, load \in offered : Add(d, load)

Spec == Init /\ [][Next]_<<log, offered>>
=============================================================================
