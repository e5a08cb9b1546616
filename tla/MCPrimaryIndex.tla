--------------------------- MODULE MCPrimaryIndex ---------------------------
(***************************************************************************)
(* Instances of PrimaryIndex for TLC: qAll selects every record, in the    *)
(* order of the column; qMine selects the records with value 1, in no      *)
(* order, for a user who may see k1 only.                                  *)
(*                                                                         *)
(* One run has two of them, which scene tells apart: in "races" two        *)
(* writers meet readers of the first page of qAll over three seconds, in   *)
(* "pages" one writer meets readers of the pages of both queries, and      *)
(* results break off.                                                      *)
(***************************************************************************)
EXTENDS PrimaryIndex, TLC

CONSTANTS qAll, qMine, k1, Scenes

VARIABLE scene

MCMatch == [q \in Query |-> IF q = qMine THEN {1} ELSE Val]
MCVisible == [q \in Query |-> IF q = qMine THEN {k1} ELSE Key]

\* The table starts with every record in it, all of value 1.
MCStart == {[k \in Key |-> 1]}

Interchangeable == Permutations(Reader) \cup Permutations(Writer)

AtWork(w) == wr[w].pc # "idle"
MCRaces ==
    /\ \A r \in Reader : rd[r].pc # "idle" =>
          rd[r].q = qAll /\ rd[r].page = 0 /\ rd[r].limit = 2
    /\ \A r \in Reader : ~rd[r].cut /\ (rd[r].ver # 0 => rd[r].total)
    /\ \A k \in Key : table[k] \in {1, NoRow}
MCPages ==
    /\ \A r \in Reader : rd[r].pc # "idle" => rd[r].limit = 1
    /\ Cardinality({w \in Writer : AtWork(w)}) <= 1
    /\ clock <= 1
InScene == (scene = "races" => MCRaces) /\ (scene = "pages" => MCPages)

MCInit == Init /\ scene \in Scenes
MCNext == Next /\ UNCHANGED scene /\ InScene'
MCSpec == MCInit /\ [][MCNext]_<<vars, scene>>

=============================================================================
