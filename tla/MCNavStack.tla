------------------------------- MODULE MCNavStack -------------------------------
(***************************************************************************)
(* A map of four by three cells.  All are unknown, but for three in one    *)
(* corner and mode 2's waypoint, which two unknown cells part from them;   *)
(* mode 3's is off the map, and mode 1's can be reached from the start     *)
(* unless the cell between is blocked, and from where the leg past that    *)
(* cell touches an unknown one even then.  Before, plans are asked for     *)
(* from one corner of a square of three by three to the other one and to   *)
(* the middle of a side, on every map whose other cells are free, near an  *)
(* obstacle or lethal, and across the whole map, on every one whose other  *)
(* cells are free or lethal.                                               *)
(***************************************************************************)
EXTENDS NavStack

MCPlace == 0 :> <<0, 1>> @@ 1 :> <<1, 2>> @@ 2 :> <<2, 0>> @@ 3 :> <<4, 1>>

Map(lethal) ==
  [c \in Cells |-> IF c \in lethal THEN 254
                   ELSE IF c \in {<<0, 1>>, <<0, 2>>, <<1, 2>>, <<2, 0>>} THEN 0 ELSE 255]
MCCostmaps == {Map({}), Map({<<0, 2>>})}

\* All maps on which the cells of S, other than start and goal, have one of these costs.
Request(S, costs, start, goal) ==
  {[costmap |-> m @@ [c \in Cells |-> IF c \in {start, goal} THEN 0 ELSE 254],
    start |-> start, goal |-> goal] : m \in [S \ {start, goal} -> costs]}
Square == (0 .. 2) \X (0 .. 2)
MCAsked ==
  Request(Square, {0, 200, 254}, <<0, 0>>, <<2, 2>>)
    \cup Request(Square, {0, 200, 254}, <<0, 0>>, <<2, 1>>)
    \cup Request(Cells, {0, 254}, <<0, 0>>, <<3, 1>>)
==============================================================================
