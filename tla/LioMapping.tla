-------------------------------- MODULE LioMapping --------------------------------
(***************************************************************************)
(* The FAST-LIO node's timer_callback from the propagated state on: the    *)
(* segmentation of the map, the iterated update of the filter against it   *)
(* (h_share_model), the odometry, and what map_incremental adds.  LioSync  *)
(* models how a scan gets here, IkdTree what the map does.                 *)
(*                                                                         *)
(* The world is a line and the lidar sits on the IMU, so a point p is      *)
(* <<p>>, one of LocalMap's on one axis.  Whether a plane fits the         *)
(* neighbours of a point, and how well, is any choice; a correction is any *)
(* that keeps the sum of them within margin - DET_RANGE.  Scans are what   *)
(* is left of them by the filters that thin them out.                      *)
(***************************************************************************)
EXTENDS IteratedFilter, CubeParameters, Sequences, FiniteSets, SequencesExt

CONSTANTS
  filter_size_map_min,   \* side of a downsample cell
  NUM_MATCH_POINTS,      \* neighbours of a point
  MaxMatch,              \* the farthest of them is at most this far
  MinPoints,             \* the 5 points an update needs, and fewer than a map needs
  Scans,                 \* the scans, places seen from the lidar in VoxelGrid's order
  Motions,               \* how far the lidar moves from a scan to the next
  MaxScans               \* bound on the scans

ASSUME MappingAssumption ==
  /\ filter_size_map_min \in Nat \ {0} /\ filter_size_map_min % 2 = 0
  /\ NUM_MATCH_POINTS \in Nat \ {0} /\ MaxMatch \in Nat /\ MinPoints \in Nat
  /\ Motions \subseteq Nat /\ MaxScans \in Nat
  /\ Scans \subseteq Seq(-DET_RANGE .. DET_RANGE)

VARIABLES
  phase,                \* how far timer_callback is with a scan
  feats_down_body,      \* the scan
  Nearest_Points,       \* the neighbours found for each of them
  point_selected_surf,  \* the indices of those with a plane
  Root_Node,            \* whether there is a map
  flg_EKF_inited,
  LocalMap_Points, Localmap_Initialized, map, seen,   \* see LocalMap
  odometry,             \* the place last published
  registered,           \* the scan last published in the world (cloud_registered)
  scans                 \* how many have been taken

scanVars == <<feats_down_body, Nearest_Points, point_selected_surf>>
cubeVars == <<LocalMap_Points, Localmap_Initialized, map, seen>>
vars == <<filterVars, phase, scanVars, Root_Node, flg_EKF_inited, cubeVars, odometry,
          registered, scans>>

pos_lid == <<x_.v>>
LM == INSTANCE LocalMap WITH Axes <- {1}

Indices == 1 .. Len(feats_down_body)

\* The constructor has called init_dyn_share.
Init ==
  /\ x_ = [v |-> 0, lists |-> 1] /\ P_ = [at |-> 0, skewed |-> FALSE]
  /\ model = "init_dyn_share" /\ upd = NewUpdate(NoModel)
  /\ phase = "idle"
  /\ feats_down_body = <<>> /\ Nearest_Points = <<>>
  /\ point_selected_surf = {}
  /\ Root_Node = FALSE /\ flg_EKF_inited = FALSE
  /\ LocalMap_Points = LM!CubeAt(<<0>>) /\ Localmap_Initialized = FALSE
  /\ map = {} /\ seen = <<0>>
  /\ odometry = 0 /\ registered = {} /\ scans = 0

BodyAsWorld(body) == [i \in DOMAIN body |-> <<body[i]>>]   \* mutant
pointBodyToWorld(body) == [i \in DOMAIN body |-> <<x_.v + body[i]>>]

publish_odometry == odometry' = x_'.v
publish_frame_world == registered' = ToSet(pointBodyToWorld(feats_down_body))

\* ImuProcess has propagated the state to the end of the scan.  An empty scan is skipped,
\* but its place is published.
Propagate(scan, f) ==
  /\ phase = "idle" /\ scans < MaxScans /\ scans' = scans + 1
  /\ Localmap_Initialized => LM!Near(<<x_.v + f>>, seen, margin)
  /\ predict(f)
  /\ feats_down_body' = scan
  /\ IF scan = <<>>
     THEN publish_odometry /\ UNCHANGED phase
     ELSE phase' = "propagated" /\ UNCHANGED odometry
  /\ UNCHANGED <<Nearest_Points, point_selected_surf, Root_Node,
                 flg_EKF_inited, cubeVars, registered>>

\* flg_EKF_inited is set once INIT_TIME has passed since the first scan.
lasermap_fov_segment ==
  /\ phase = "propagated" /\ phase' = "segmented"
  /\ flg_EKF_inited' \in {TRUE, flg_EKF_inited}
  /\ UNCHANGED filterVars
  /\ LM!lasermap_fov_segment
  /\ UNCHANGED <<scanVars, Root_Node, odometry, registered, scans>>

\* The first scan with enough points is the map.
BuildMap ==
  /\ phase = "segmented" /\ ~Root_Node
  /\ phase' = "idle"
  /\ IF Len(feats_down_body) > MinPoints
     THEN map' = ToSet(pointBodyToWorld(feats_down_body)) /\ Root_Node' = TRUE
     ELSE UNCHANGED <<map, Root_Node>>
  /\ UNCHANGED <<filterVars, feats_down_body, Nearest_Points, point_selected_surf,
                 flg_EKF_inited, LocalMap_Points, Localmap_Initialized, seen, odometry,
                 registered, scans>>

TooFew ==
  /\ phase = "segmented" /\ Root_Node /\ Len(feats_down_body) < MinPoints
  /\ phase' = "idle"
  /\ UNCHANGED filterVars /\ publish_odometry
  /\ UNCHANGED <<scanVars, Root_Node, flg_EKF_inited, cubeVars, registered, scans>>

\* The vectors are resized: what they had stays in them.
BeginUpdate ==
  /\ phase = "segmented" /\ Root_Node /\ Len(feats_down_body) >= MinPoints
  /\ phase' = "updating"
  /\ Begin("update_iterated_dyn_share_modified")
  /\ Nearest_Points' =
       [i \in Indices |-> IF i \in DOMAIN Nearest_Points THEN Nearest_Points[i] ELSE {}]
  /\ UNCHANGED <<feats_down_body, point_selected_surf, Root_Node, flg_EKF_inited, cubeVars,
                 odometry, registered, scans>>

Dist(p, q) == Abs(p[1] - q[1])

\* Of two points as near to p the one with the smaller coordinate counts as the nearer.
Nearer(q, r, p) ==
  Dist(q, p) < Dist(r, p) \/ (Dist(q, p) = Dist(r, p) /\ q[1] < r[1])

\* The points of the map next to p, as many as it has up to NUM_MATCH_POINTS.
Nearest_Search(p) ==
  {q \in map : Cardinality({r \in map : Nearer(r, q, p)}) < NUM_MATCH_POINTS}

NeighboursIfNone(world) ==                             \* mutant
  [i \in Indices |-> IF upd.converge /\ Nearest_Points[i] = {} THEN Nearest_Search(world[i])
                     ELSE Nearest_Points[i]]

\* Neighbours are searched when the filter says so.
Neighbours(world) ==
  IF upd.converge THEN [i \in Indices |-> Nearest_Search(world[i])] ELSE Nearest_Points

\* The measurement: a point whose neighbours have no plane is out until they are searched
\* again.
h_share_model(planes) ==
  LET world == pointBodyToWorld(feats_down_body)
      near == Neighbours(world)
      usable == {i \in Indices : /\ Cardinality(near[i]) >= NUM_MATCH_POINTS
                                 /\ \A q \in near[i] : Dist(world[i], q) <= MaxMatch}
  IN  /\ planes \subseteq IF upd.converge THEN usable ELSE point_selected_surf
      /\ Nearest_Points' = near
      /\ point_selected_surf' = planes

\* One iteration of the update; without a plane the filter makes no correction.
Iteration(planes, dx) ==
  /\ phase = "updating"
  /\ h_share_model(planes)
  /\ planes = {} => dx = 0
  /\ LM!Near(<<x_.v + dx>>, seen, margin - DET_RANGE)
  /\ update_iterated_dyn_share_modified(planes # {}, dx)
  /\ phase' = IF upd'.running THEN phase ELSE "updated"
  /\ UNCHANGED <<feats_down_body, Root_Node, flg_EKF_inited, cubeVars, odometry, registered,
                 scans>>

\* The downsample cell of a point, and its middle.
CellOf(p) == p[1] \div filter_size_map_min
Mid(p) == <<CellOf(p) * filter_size_map_min + filter_size_map_min \div 2>>

\* A point alone in its neighbourhood is added as it is, and one that has a neighbour
\* nearer to the middle of its cell not at all; the tests see the neighbours of the last
\* search.
Alone(p, near) ==
  /\ flg_EKF_inited
  /\ \E closest \in near : /\ \A r \in near \ {closest} : Nearer(closest, r, p)
                           /\ 2 * Dist(closest, Mid(p)) > filter_size_map_min
Superfluous(p, near) ==
  /\ flg_EKF_inited
  /\ Cardinality(near) >= NUM_MATCH_POINTS
  /\ \E q \in near : Dist(q, Mid(p)) < Dist(p, Mid(p))

\* The map after the points with indices in added have been added one by one, downsampled:
\* each leaves in its cell the point nearest to the middle, itself or, only if that is
\* nearer, one that was there.
Downsampled(world, added) ==
  LET Off(p) == Dist(p, Mid(p))
      Into(p) == {i \in added : CellOf(world[i]) = CellOf(p)}
      Beside(p) == {q \in map : CellOf(q) = CellOf(p)}
      Wins(i) == /\ \A j \in Into(world[i]) : /\ Off(world[i]) <= Off(world[j])
                                              /\ j > i => Off(world[i]) < Off(world[j])
                 /\ \A q \in Beside(world[i]) : Off(world[i]) <= Off(q)
      Stays(q) == /\ \A i \in Into(q) : Off(q) < Off(world[i])
                  /\ Into(q) # {} => \A r \in Beside(q) : ~Nearer(r, q, Mid(q))
  IN  {world[i] : i \in {j \in added : Wins(j)}} \cup {q \in map : Stays(q)}

\* The scan in the world (feats_down_world), where h_share_model left it and now.
WorldOfLastIteration == [i \in Indices |-> <<x_.v - upd.last + feats_down_body[i]>>]  \* mutant
World == pointBodyToWorld(feats_down_body)

\* The corrected place is published and the scan is put into the map from there.
map_incremental ==
  /\ phase = "updated" /\ phase' = "idle"
  /\ LET world == World
         PointNoNeedDownsample == {i \in Indices : Alone(world[i], Nearest_Points[i])}
         PointToAdd == {i \in Indices \ PointNoNeedDownsample :
                          ~Superfluous(world[i], Nearest_Points[i])}
     IN  map' = Downsampled(world, PointToAdd) \cup {world[i] : i \in PointNoNeedDownsample}
  /\ upd' = NewUpdate(NoModel)
  /\ UNCHANGED <<x_, P_, model>>
  /\ publish_odometry /\ publish_frame_world
  /\ UNCHANGED <<feats_down_body, Nearest_Points, point_selected_surf, Root_Node,
                 flg_EKF_inited, LocalMap_Points, Localmap_Initialized, seen, scans>>

Next ==
  \/ \E scan \in Scans, f \in Motions : Propagate(scan, f) \/ Propagate(scan, -f)
  \/ lasermap_fov_segment
  \/ BuildMap \/ TooFew \/ BeginUpdate
  \/ \E planes \in SUBSET Indices, dx \in Steps : Iteration(planes, dx)
  \/ map_incremental

Spec == Init /\ [][Next]_vars

TypeOK ==
  /\ FilterTypeOK
  /\ phase \in {"idle", "propagated", "segmented", "updating", "updated"}
  /\ phase \in {"updating", "updated"} =>
       DOMAIN Nearest_Points = Indices /\ point_selected_surf \in SUBSET Nat
  /\ phase = "updating" <=> upd.running
  /\ Root_Node => Localmap_Initialized
  /\ LM!TypeOK

-----------------------------------------------------------------------------
(* What the node makes of its map. *)

\* The neighbours a point is fitted to, and is compared with before it is added, are in
\* the map: those of earlier scans, which the segmentation may have deleted, are not
\* used again, though the vector still holds them (converge starts out set).
NeighboursAreInMap ==
  (phase = "updating" /\ upd.i > -1) \/ phase = "updated" =>
    \A i \in Indices : Nearest_Points[i] \subseteq map

\* A scan gets into the map where it is published, at the place published for it, not
\* where the last search left its points (pointBodyToWorld in map_incremental).
MappedWherePublished ==
  [][phase = "updated" =>
       /\ map' \subseteq map \cup registered'
       /\ \A p \in registered' : p[1] - odometry' \in ToSet(feats_down_body)]_vars

\* The node does nothing to its map but what LocalMap promises.
ImplementsLocalMap == LM!Spec

\* The map is in the cube around the lidar, and what the filter matches against is in the
\* map, in every phase of a scan (lasermap_fov_segment, Nearest_Points).
MapIsSound == TypeOK /\ NeighboursAreInMap /\ LM!LidarInCube /\ LM!MapInCube
==============================================================================
