------------------------------ MODULE MCSchema ------------------------------
(***************************************************************************)
(* An instance of Rows, and so of Schema, for TLC: two tables, a process   *)
(* that runs an old version of their types and two that run a new one.     *)
(***************************************************************************)
EXTENDS Rows

CONSTANTS old, new1, new2, a, b, c1, c2, c3, k1

\* The new version has two more columns in one table.
MCAttrs ==
    [p \in Process |-> [t \in Table |->
        IF t = b THEN {c1} ELSE IF p = old THEN {c1} ELSE {c1, c2, c3}]]

\* A type, and a type that has it as a struct.
MCRoots == {{a}, {a, b}} \cap SUBSET Table

\* Scenes.  "verify": three processes verify the tables and write nothing.
\* "write": two of them, of different versions, verify and write.
CONSTANT Scenes
VARIABLE scene

InScene ==
    /\ scene = "verify" => \A t \in Table : DOMAIN rows[t] = {}
    /\ scene = "write" => Now(new2, "idle") /\ faults <= 1
MCInit == RowsInit /\ scene \in Scenes
MCNext == UNCHANGED scene /\ RowsNext /\ InScene'
MCSpec == MCInit /\ [][MCNext]_<<vars, rows, scene>> /\ Fairness
=============================================================================
