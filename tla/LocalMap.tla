-------------------------------- MODULE LocalMap --------------------------------
(***************************************************************************)
(* The part of the world the FAST-LIO node keeps a map of: a cube around   *)
(* the lidar, moved by lasermap_fov_segment when the lidar gets near to    *)
(* one of its sides; what the cube leaves is deleted from the map.  The    *)
(* node is seen from here as it moves the lidar, segments the map, and     *)
(* puts points into the map.                                               *)
(*                                                                         *)
(* A scan's points are within DET_RANGE of the lidar, and between two      *)
(* segmentations the estimated position moves by no more than the margin:  *)
(* what the node takes for granted when it tests the distance to the sides *)
(* once in a scan.                                                         *)
(***************************************************************************)
EXTENDS CubeParameters

CONSTANT Axes   \* the axes of the world

VARIABLES
  pos_lid,              \* where the lidar is, as far as the filter knows
  LocalMap_Points,      \* the cube: its vertices vertex_min and vertex_max
  Localmap_Initialized,
  map,                  \* the points of the ikd-tree
  seen                  \* pos_lid at the last segmentation (history)

vars == <<pos_lid, LocalMap_Points, Localmap_Initialized, map, seen>>

Point == [Axes -> Int]
Box == [vertex_min : Point, vertex_max : Point]

Abs(n) == IF n < 0 THEN -n ELSE n

\* Boxes of the tree are closed below and open above.
Within(p, box) == \A a \in Axes : box.vertex_min[a] <= p[a] /\ p[a] < box.vertex_max[a]
Near(p, q, dist) == \A a \in Axes : Abs(p[a] - q[a]) <= dist

CubeAt(p) == [vertex_min |-> [a \in Axes |-> p[a] - cube_len \div 2],
              vertex_max |-> [a \in Axes |-> p[a] + cube_len \div 2]]

Init ==
  /\ pos_lid \in Point /\ seen = pos_lid
  /\ LocalMap_Points = CubeAt(pos_lid)    \* not read before it is initialised
  /\ Localmap_Initialized = FALSE
  /\ map = {}

AtMinBelow(p, cube) ==                                 \* mutant
  {a \in Axes : Abs(p[a] - cube.vertex_min[a]) < margin}

\* The axes along which the cube is moved down and up.
AtMin(p, cube) == {a \in Axes : Abs(p[a] - cube.vertex_min[a]) <= margin}
AtMax(p, cube) == {a \in Axes : Abs(p[a] - cube.vertex_max[a]) <= margin} \ AtMin(p, cube)

Moved(p, cube) ==
  LET shift == [a \in Axes |-> IF a \in AtMin(p, cube) THEN -mov_dist
                               ELSE IF a \in AtMax(p, cube) THEN mov_dist ELSE 0]
  IN  [vertex_min |-> [a \in Axes |-> cube.vertex_min[a] + shift[a]],
       vertex_max |-> [a \in Axes |-> cube.vertex_max[a] + shift[a]]]

cub_needrm_of_margin(p, cube) ==                       \* mutant
  {[cube EXCEPT !.vertex_min[a] = cube.vertex_max[a] - margin] : a \in AtMin(p, cube)}
  \cup {[cube EXCEPT !.vertex_max[a] = cube.vertex_min[a] + margin] : a \in AtMax(p, cube)}

\* The slabs of the old cube that are not part of the moved one, one for each axis.
cub_needrm(p, cube) ==
  {[cube EXCEPT !.vertex_min[a] = cube.vertex_max[a] - mov_dist] : a \in AtMin(p, cube)}
  \cup {[cube EXCEPT !.vertex_max[a] = cube.vertex_min[a] + mov_dist] : a \in AtMax(p, cube)}

\* The first call only places the cube.
lasermap_fov_segment ==
  /\ seen' = pos_lid
  /\ Localmap_Initialized' = TRUE
  /\ IF Localmap_Initialized
     THEN /\ LocalMap_Points' = Moved(pos_lid, LocalMap_Points)
          /\ map' = {p \in map : \A box \in cub_needrm(pos_lid, LocalMap_Points) : ~Within(p, box)}
     ELSE LocalMap_Points' = CubeAt(pos_lid) /\ UNCHANGED map
  /\ UNCHANGED pos_lid

\* The filter moves its estimate, by propagation or by an update.
Move ==
  /\ pos_lid' \in Point
  /\ Localmap_Initialized => Near(pos_lid', seen, margin)
  /\ UNCHANGED <<LocalMap_Points, Localmap_Initialized, map, seen>>

\* Points of a scan get into the map, and may replace others (downsampling).
Extend ==
  /\ Localmap_Initialized
  /\ map' \subseteq Point
  /\ \A p \in map' : p \in map \/ Near(p, seen, margin)
  /\ UNCHANGED <<pos_lid, LocalMap_Points, Localmap_Initialized, seen>>

Next == lasermap_fov_segment \/ Move \/ Extend

Spec == Init /\ [][Next]_vars

TypeOK ==
  /\ pos_lid \in Point /\ seen \in Point
  /\ LocalMap_Points \in Box
  /\ Localmap_Initialized \in BOOLEAN
  /\ map \subseteq Point

-----------------------------------------------------------------------------
(* What the segmentation keeps true, whatever the lidar does. *)

\* Farther than the margin from both sides when the map was segmented: the lidar sees
\* no side of the cube, and can move for a scan without getting out of it
\* (lasermap_fov_segment, whose fabs would not notice a lidar far outside).
LidarInCube ==
  Localmap_Initialized =>
    \A a \in Axes : /\ LocalMap_Points.vertex_min[a] + margin < seen[a]
                    /\ seen[a] < LocalMap_Points.vertex_max[a] - margin
                    /\ Abs(pos_lid[a] - seen[a]) <= margin

\* The map has no point outside the cube, where nothing would ever delete it: the slabs
\* deleted are all that the cube leaves (Delete_Point_Boxes(cub_needrm)).
MapInCube == \A p \in map : Within(p, LocalMap_Points)
==============================================================================
