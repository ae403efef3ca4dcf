----------------------------- MODULE LocalMapProofs -----------------------------
(***************************************************************************)
(* The cube stays around the lidar and the map in the cube, for any number *)
(* of axes and any sizes within CubeAssumption.                            *)
(***************************************************************************)
EXTENDS LocalMap, TLAPS

\* The cube keeps its size.
CubeSide ==
  \A a \in Axes : LocalMap_Points.vertex_max[a] = LocalMap_Points.vertex_min[a] + cube_len

\* Nothing is mapped before the cube is placed.
NothingYet == ~Localmap_Initialized => map = {}

LInv == TypeOK /\ CubeSide /\ NothingYet /\ LidarInCube /\ MapInCube

\* A cube around a point is a box, of the right size, with the point in its middle.
LEMMA CubeAtPoint ==
  ASSUME NEW p \in Point
  PROVE  /\ CubeAt(p) \in Box
         /\ \A a \in Axes : /\ CubeAt(p).vertex_max[a] = CubeAt(p).vertex_min[a] + cube_len
                            /\ CubeAt(p).vertex_min[a] + margin < p[a]
                            /\ p[a] < CubeAt(p).vertex_max[a] - margin
<1>1. cube_len \in Nat /\ cube_len = 2 * (cube_len \div 2) /\ cube_len \div 2 \in Nat
      /\ margin \in Nat /\ 2 * margin < cube_len
  BY CubeAssumption
<1>2. CubeAt(p) \in Box
  BY <1>1 DEF CubeAt, Box, Point
<1>3. ASSUME NEW a \in Axes
      PROVE  /\ CubeAt(p).vertex_max[a] = CubeAt(p).vertex_min[a] + cube_len
             /\ CubeAt(p).vertex_min[a] + margin < p[a]
             /\ p[a] < CubeAt(p).vertex_max[a] - margin
  <2>1. /\ CubeAt(p).vertex_min[a] = p[a] - cube_len \div 2
        /\ CubeAt(p).vertex_max[a] = p[a] + cube_len \div 2
        /\ p[a] \in Int
    BY DEF CubeAt, Point
  <2> QED
    BY <2>1, <1>1
<1> QED
  BY <1>2, <1>3

\* On one axis: wherever the lidar is inside, the cube moves by at most mov_dist and the
\* lidar is then farther than the margin from both sides.
LEMMA MovedAxis ==
  ASSUME NEW p \in Point, NEW cube \in Box, NEW a \in Axes,
         cube.vertex_max[a] = cube.vertex_min[a] + cube_len,
         cube.vertex_min[a] < p[a], p[a] < cube.vertex_max[a]
  PROVE  LET new == Moved(p, cube) IN
         /\ new.vertex_min[a] + margin < p[a]
         /\ p[a] < new.vertex_max[a] - margin
         /\ new.vertex_max[a] = new.vertex_min[a] + cube_len
         /\ \/ a \in AtMin(p, cube) /\ new.vertex_min[a] = cube.vertex_min[a] - mov_dist
            \/ a \in AtMax(p, cube) /\ new.vertex_min[a] = cube.vertex_min[a] + mov_dist
            \/ new.vertex_min[a] = cube.vertex_min[a]
<1> DEFINE low == cube.vertex_min[a]
           high == cube.vertex_max[a]
<1>1. p[a] \in Int /\ low \in Int /\ high \in Int
  BY DEF Point, Box
<1>2. /\ margin \in Nat /\ cube_len \in Nat /\ mov_dist \in Nat
      /\ margin <= mov_dist /\ mov_dist < cube_len - 2 * margin
  BY CubeAssumption
<1>3. /\ a \in AtMin(p, cube) <=> p[a] - low <= margin
      /\ a \in AtMax(p, cube) <=> high - p[a] <= margin /\ ~(p[a] - low <= margin)
  BY <1>1, <1>2 DEF AtMin, AtMax, Abs
<1>4. CASE a \in AtMin(p, cube)
  <2>1. Moved(p, cube).vertex_min[a] = low + (-mov_dist)
        /\ Moved(p, cube).vertex_max[a] = high + (-mov_dist)
    BY <1>4 DEF Moved
  <2> QED
    BY <2>1, <1>1, <1>2, <1>3, <1>4
<1>5. CASE a \notin AtMin(p, cube) /\ a \in AtMax(p, cube)
  <2>1. Moved(p, cube).vertex_min[a] = low + mov_dist
        /\ Moved(p, cube).vertex_max[a] = high + mov_dist
    BY <1>5 DEF Moved
  <2> QED
    BY <2>1, <1>1, <1>2, <1>3, <1>5
<1>6. CASE a \notin AtMin(p, cube) /\ a \notin AtMax(p, cube)
  <2>1. Moved(p, cube).vertex_min[a] = low + 0
        /\ Moved(p, cube).vertex_max[a] = high + 0
    BY <1>6 DEF Moved
  <2> QED
    BY <2>1, <1>1, <1>2, <1>3, <1>6
<1> QED
  BY <1>4, <1>5, <1>6

\* A moved cube is a box.
LEMMA MovedIsBox ==
  ASSUME NEW p \in Point, NEW cube \in Box
  PROVE  Moved(p, cube) \in Box
<1> DEFINE shift == [a \in Axes |-> IF a \in AtMin(p, cube) THEN -mov_dist
                                    ELSE IF a \in AtMax(p, cube) THEN mov_dist ELSE 0]
<1>1. \A a \in Axes : shift[a] \in Int
  BY CubeAssumption
<1>2. \A a \in Axes : cube.vertex_min[a] \in Int /\ cube.vertex_max[a] \in Int
  BY DEF Box, Point
<1> HIDE DEF shift
<1>3. /\ [a \in Axes |-> cube.vertex_min[a] + shift[a]] \in Point
      /\ [a \in Axes |-> cube.vertex_max[a] + shift[a]] \in Point
  BY <1>1, <1>2 DEF Point
<1> QED
  BY <1>3 DEF Moved, Box, shift

\* A point of the cube that is in none of the slabs deleted is in the moved cube.
LEMMA KeptIsInside ==
  ASSUME NEW p \in Point, NEW cube \in Box, NEW q \in Point, Within(q, cube),
         \A a \in Axes : /\ cube.vertex_max[a] = cube.vertex_min[a] + cube_len
                         /\ cube.vertex_min[a] < p[a] /\ p[a] < cube.vertex_max[a],
         \A box \in cub_needrm(p, cube) : ~Within(q, box)
  PROVE  Within(q, Moved(p, cube))
<1> SUFFICES ASSUME NEW a \in Axes
             PROVE  /\ Moved(p, cube).vertex_min[a] <= q[a]
                    /\ q[a] < Moved(p, cube).vertex_max[a]
  BY DEF Within
<1> DEFINE new == Moved(p, cube)
<1>1. /\ new.vertex_max[a] = new.vertex_min[a] + cube_len
      /\ \/ a \in AtMin(p, cube) /\ new.vertex_min[a] = cube.vertex_min[a] - mov_dist
         \/ a \in AtMax(p, cube) /\ new.vertex_min[a] = cube.vertex_min[a] + mov_dist
         \/ new.vertex_min[a] = cube.vertex_min[a]
  BY MovedAxis
<1>2. /\ q[a] \in Int /\ cube.vertex_min[a] \in Int /\ cube.vertex_max[a] \in Int
      /\ cube.vertex_min[a] <= q[a] /\ q[a] < cube.vertex_max[a]
      /\ cube.vertex_max[a] = cube.vertex_min[a] + cube_len
  BY DEF Point, Box, Within
<1>3. mov_dist \in Nat /\ cube_len \in Nat
  BY CubeAssumption
<1> HIDE DEF new
<1>4. CASE a \in AtMin(p, cube) /\ new.vertex_min[a] = cube.vertex_min[a] - mov_dist
  <2> DEFINE box == [cube EXCEPT !.vertex_min[a] = cube.vertex_max[a] - mov_dist]
  <2>1. ~Within(q, box)
    BY <1>4 DEF cub_needrm
  <2>2. /\ box.vertex_max = cube.vertex_max
        /\ \A b \in Axes : box.vertex_min[b] = IF b = a THEN cube.vertex_max[a] - mov_dist
                                               ELSE cube.vertex_min[b]
    BY DEF Box, Point
  <2> HIDE DEF box
  <2>3. q[a] < cube.vertex_max[a] - mov_dist
    BY <2>1, <2>2, <1>2, <1>3 DEF Within
  <2> QED
    BY <2>3, <1>1, <1>2, <1>3, <1>4 DEF new
<1>5. CASE a \in AtMax(p, cube) /\ new.vertex_min[a] = cube.vertex_min[a] + mov_dist
  <2> DEFINE box == [cube EXCEPT !.vertex_max[a] = cube.vertex_min[a] + mov_dist]
  <2>1. ~Within(q, box)
    BY <1>5 DEF cub_needrm
  <2>2. /\ box.vertex_min = cube.vertex_min
        /\ \A b \in Axes : box.vertex_max[b] = IF b = a THEN cube.vertex_min[a] + mov_dist
                                               ELSE cube.vertex_max[b]
    BY DEF Box, Point
  <2> HIDE DEF box
  <2>3. cube.vertex_min[a] + mov_dist <= q[a]
    BY <2>1, <2>2, <1>2, <1>3 DEF Within
  <2> QED
    BY <2>3, <1>1, <1>2, <1>3, <1>5 DEF new
<1>6. CASE new.vertex_min[a] = cube.vertex_min[a]
  BY <1>1, <1>2, <1>3, <1>6 DEF new
<1> QED
  BY <1>1, <1>4, <1>5, <1>6
-----------------------------------------------------------------------------
\* Nothing is mapped and the cube is around the lidar.
LEMMA LInvInit == Init => LInv
<1> SUFFICES ASSUME Init PROVE LInv
  OBVIOUS
<1>1. pos_lid \in Point /\ LocalMap_Points = CubeAt(pos_lid)
  BY DEF Init
<1>2. TypeOK
  BY <1>1, CubeAtPoint DEF Init, TypeOK
<1>3. CubeSide
  BY <1>1, CubeAtPoint DEF CubeSide
<1> QED
  BY <1>2, <1>3 DEF LInv, Init, NothingYet, LidarInCube, MapInCube

\* With the invariant, the lidar is strictly inside the cube, wherever it has got to.
LEMMA LidarInside ==
  ASSUME LInv, Localmap_Initialized, NEW a \in Axes
  PROVE  /\ LocalMap_Points.vertex_min[a] < pos_lid[a]
         /\ pos_lid[a] < LocalMap_Points.vertex_max[a]
<1>1. /\ LocalMap_Points.vertex_min[a] + margin < seen[a]
      /\ seen[a] < LocalMap_Points.vertex_max[a] - margin
      /\ Abs(pos_lid[a] - seen[a]) <= margin
  BY DEF LInv, LidarInCube
<1>2. /\ pos_lid[a] \in Int /\ seen[a] \in Int /\ margin \in Nat
      /\ LocalMap_Points.vertex_min[a] \in Int /\ LocalMap_Points.vertex_max[a] \in Int
  BY CubeAssumption DEF LInv, TypeOK, Point, Box
<1> QED
  BY <1>1, <1>2 DEF Abs

LEMMA SegmentKeeps == LInv /\ lasermap_fov_segment => LInv'
<1> SUFFICES ASSUME LInv, lasermap_fov_segment PROVE LInv'
  OBVIOUS
<1> USE DEF lasermap_fov_segment
<1>1. /\ pos_lid \in Point /\ LocalMap_Points \in Box /\ map \subseteq Point
      /\ pos_lid' = pos_lid /\ seen' = pos_lid /\ margin \in Nat
  BY CubeAssumption DEF LInv, TypeOK
<1>2. \A a \in Axes : Abs(pos_lid'[a] - seen'[a]) <= margin
  BY <1>1 DEF Point, Abs
<1>3. CASE ~Localmap_Initialized
  <2>1. LocalMap_Points' = CubeAt(pos_lid) /\ map' = map
    BY <1>3
  <2>2. map = {}
    BY <1>3 DEF LInv, NothingYet
  <2>3. TypeOK' /\ CubeSide' /\ LidarInCube'
    BY <2>1, <1>1, <1>2, CubeAtPoint DEF TypeOK, CubeSide, LidarInCube, LInv
  <2> QED
    BY <2>1, <2>2, <2>3 DEF LInv, NothingYet, MapInCube
<1>4. CASE Localmap_Initialized
  <2>1. LocalMap_Points' = Moved(pos_lid, LocalMap_Points) /\ map' \subseteq map
    BY <1>4
  <2>2. \A a \in Axes : /\ LocalMap_Points.vertex_max[a] = LocalMap_Points.vertex_min[a] + cube_len
                        /\ LocalMap_Points.vertex_min[a] < pos_lid[a]
                        /\ pos_lid[a] < LocalMap_Points.vertex_max[a]
    BY <1>4, LidarInside DEF LInv, CubeSide
  <2>3. TypeOK'
    BY <2>1, <1>1, MovedIsBox DEF TypeOK, LInv
  <2>4. CubeSide' /\ LidarInCube'
    BY <2>1, <2>2, <1>1, <1>2, MovedAxis DEF CubeSide, LidarInCube
  <2>5. ASSUME NEW q \in map' PROVE Within(q, LocalMap_Points')
    <3>1. q \in Point /\ Within(q, LocalMap_Points)
          /\ \A box \in cub_needrm(pos_lid, LocalMap_Points) : ~Within(q, box)
      BY <2>1, <1>1, <1>4 DEF LInv, MapInCube
    <3> QED
      BY <3>1, <2>1, <2>2, <1>1, KeptIsInside
  <2> QED
    BY <2>3, <2>4, <2>5 DEF LInv, NothingYet, MapInCube
<1> QED
  BY <1>3, <1>4

LEMMA MoveKeeps == ASSUME LInv, Move PROVE LInv'
<1>1. TypeOK' /\ CubeSide' /\ NothingYet' /\ MapInCube'
  BY DEF LInv, TypeOK, CubeSide, NothingYet, MapInCube, Move
<1>2. LidarInCube'
  BY DEF LInv, LidarInCube, Move, Near
<1> QED
  BY <1>1, <1>2 DEF LInv

LEMMA ExtendKeeps == ASSUME LInv, Extend PROVE LInv'
<1>1. TypeOK' /\ CubeSide' /\ NothingYet' /\ LidarInCube'
  BY DEF LInv, TypeOK, CubeSide, NothingYet, LidarInCube, Extend
<1>2. ASSUME NEW q \in map' PROVE Within(q, LocalMap_Points)
  <2>1. CASE q \in map
    BY <2>1 DEF LInv, MapInCube
  <2>2. CASE Near(q, seen, margin)
    <3> SUFFICES ASSUME NEW a \in Axes
                 PROVE  /\ LocalMap_Points.vertex_min[a] <= q[a]
                        /\ q[a] < LocalMap_Points.vertex_max[a]
      BY DEF Within
    <3>1. /\ q[a] \in Int /\ seen[a] \in Int /\ margin \in Nat
          /\ LocalMap_Points.vertex_min[a] \in Int /\ LocalMap_Points.vertex_max[a] \in Int
      BY CubeAssumption DEF LInv, TypeOK, Point, Box, Extend
    <3>2. /\ LocalMap_Points.vertex_min[a] + margin < seen[a]
          /\ seen[a] < LocalMap_Points.vertex_max[a] - margin
          /\ Abs(q[a] - seen[a]) <= margin
      BY <2>2 DEF LInv, LidarInCube, Extend, Near
    <3> QED
      BY <3>1, <3>2 DEF Abs
  <2> QED
    BY <2>1, <2>2 DEF Extend
<1> QED
  BY <1>1, <1>2 DEF LInv, MapInCube, Extend

LEMMA LInvStep == LInv /\ [Next]_vars => LInv'
<1> SUFFICES ASSUME LInv, [Next]_vars PROVE LInv'
  OBVIOUS
<1>1. CASE lasermap_fov_segment
  BY <1>1, SegmentKeeps
<1>2. CASE Move
  BY <1>2, MoveKeeps
<1>3. CASE Extend
  BY <1>3, ExtendKeeps
<1>4. CASE UNCHANGED vars
  BY <1>4 DEF vars, LInv, TypeOK, CubeSide, NothingYet, LidarInCube, MapInCube
<1> QED
  BY <1>1, <1>2, <1>3, <1>4 DEF Next

LEMMA LInvAlways == Spec => []LInv
  BY LInvInit, LInvStep, PTL DEF Spec

\* The lidar never gets out of the cube it is mapped in, whatever way it goes: each
\* segmentation leaves it farther than the margin from every side (lasermap_fov_segment).
THEOREM LidarStaysInCube == Spec => []LidarInCube
<1>1. LInv => LidarInCube
  BY DEF LInv
<1> QED
  BY <1>1, LInvAlways, PTL

\* No point of the map is left behind outside the cube, where no later deletion would
\* reach it (cub_needrm, Delete_Point_Boxes).
THEOREM MapStaysInCube == Spec => []MapInCube
<1>1. LInv => MapInCube
  BY DEF LInv
<1> QED
  BY <1>1, LInvAlways, PTL
==============================================================================
