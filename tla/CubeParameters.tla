------------------------------ MODULE CubeParameters ------------------------------
(***************************************************************************)
(* The lengths of the cube the FAST-LIO node keeps its map in, as whole    *)
(* numbers of some unit.                                                   *)
(***************************************************************************)
EXTENDS Integers

CONSTANTS
  DET_RANGE,  \* det_range: how far the lidar sees
  margin,     \* MOV_THRESHOLD * DET_RANGE: how near to a side is too near
  cube_len,   \* cube_side_length
  mov_dist    \* how far the cube moves

\* The code has mov_dist = max(0.45 * (cube_len - 2 * margin), margin - DET_RANGE).
\* With cube_len = 1000 and DET_RANGE = 100, margin is 150 and mov_dist 315.
ASSUME CubeAssumption ==
  /\ DET_RANGE \in Nat /\ margin \in Nat /\ cube_len \in Nat /\ mov_dist \in Nat
  /\ DET_RANGE <= margin
  /\ cube_len % 2 = 0
  /\ margin <= mov_dist /\ mov_dist < cube_len - 2 * margin
==============================================================================
