------------------------------- MODULE PointMap -------------------------------
(***************************************************************************)
(* What the odometry relies on its map for (Add_Points, Delete_Point_Boxes *)
(* of KD_TREE): a bag of points.  A downsampled addition leaves one point  *)
(* in the cell of the new one, the nearest to its middle; a deletion       *)
(* removes the points of a box and says how many they were.                *)
(***************************************************************************)
EXTENDS Integers, FiniteSetsExt

CONSTANTS
  Points,      \* a finite set of points
  Cell(_),     \* the points of the downsample cell of a point
  ToMiddle(_), \* a point's distance to the middle of its cell
  Boxes        \* the sets of points that are deleted at once

VARIABLES
  content,     \* content[p]: how often p is in the map
  deleted      \* what the last deletion returned

vars == <<content, deleted>>

Empty == [p \in Points |-> 0]
Init == content = Empty /\ deleted = 0

Build ==
  /\ content = Empty /\ content' # Empty
  /\ deleted' = 0

AddPoint(p) ==
  /\ content' = [content EXCEPT ![p] = @ + 1]
  /\ UNCHANGED deleted

\* The point that stays alone in the cell, the new one if it is as near as any.
AddPointDownsampled(p) ==
  /\ LET old == content
         near == {q \in Cell(p) : old[q] > 0} \cup {p}
     IN  \E q \in near :
           /\ \A r \in near : ToMiddle(q) <= ToMiddle(r)
           /\ ToMiddle(q) = ToMiddle(p) => q = p
           /\ content' = [r \in Points |-> IF r = q THEN 1
                                           ELSE IF r \in Cell(p) THEN 0 ELSE old[r]]
  /\ UNCHANGED deleted

DeletePointBox(box) ==
  LET old == content
  IN  /\ deleted' = MapThenSumSet(LAMBDA p : old[p], box)
      /\ content' = [p \in Points |-> IF p \in box THEN 0 ELSE old[p]]

Next ==
  \/ Build
  \/ \E p \in Points : AddPoint(p) \/ AddPointDownsampled(p)
  \/ \E box \in Boxes : DeletePointBox(box)

Spec == Init /\ [][Next]_vars
==============================================================================
