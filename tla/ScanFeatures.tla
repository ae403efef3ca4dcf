----------------------------- MODULE ScanFeatures -----------------------------
(***************************************************************************)
(* give_feature of FAST-LIO's Preprocess: the points of one scan line are  *)
(* classified into planes and edges in three passes, and a fourth one      *)
(* thins the planes out into pl_surf and collects the edges in pl_corn.    *)
(*                                                                         *)
(* What the geometry of the points decides (whether a group is flat, how   *)
(* far a plane reaches, the angles at a point) is a choice; so is what is  *)
(* read from members that orgtype and Preprocess leave uninitialised       *)
(* (dista of the last point, intersect, disB).  Whether a point is within  *)
(* the blind distance is kept, and so is every index the passes touch.     *)
(* Indices start at 0, as in the code.                                     *)
(***************************************************************************)
EXTENDS Integers, Sequences, FiniteSets, SequencesExt

CONSTANTS group_size   \* points a plane must have (8 in the code)

ASSUME GroupSizeAssumption == group_size \in Nat \ {0}

Ftypes == {"Nor", "Poss_Plane", "Real_Plane", "Edge_Jump", "Edge_Plane", "Wire"}
\* The types that >= Real_Plane stands for.
Settled == Ftypes \ {"Nor", "Poss_Plane"}
Plane == {"Poss_Plane", "Real_Plane"}

VARIABLES
  phase,         \* the pass that runs: "planes", "edges", "small", "output", or "none"
  point_filter_num,
  pl,            \* the points of the line, a function from 0 .. plsize - 1
  ftype,         \* types[i].ftype
  head,          \* the first point outside the blind distance
  i,             \* the loop's index
  last_state,    \* 1 after a plane, 0 otherwise
  last_surface,  \* where the run of plane points began, or -1
  stray,         \* history: indices touched outside the line
  plane_to_end,  \* history: a plane ended behind the last point
  pl_surf,       \* the output: sequences of points, of which the mean is taken
  pl_corn        \* the edge points

lineVars == <<phase, pl, ftype, head, i, last_state, last_surface, stray, plane_to_end>>
featureVars == <<lineVars, pl_surf, pl_corn>>

plsize == Cardinality(DOMAIN pl)
Blind(k) == k \in DOMAIN pl /\ pl[k].blind
\* A loop's bound that is the size less a margin.
Less(margin) == IF plsize > margin THEN plsize - margin ELSE 0

FeatureInit ==
  /\ phase = "none" /\ pl = <<>> /\ ftype = <<>> /\ head = 0 /\ i = 0
  /\ last_state = 0 /\ last_surface = -1 /\ stray = {} /\ plane_to_end = FALSE

\* give_feature is called for a line whose types the caller has reset, and outside of which
\* it has touched some entries.  The search for head has no bound: behind a line all of
\* whose points are blind it reads on.
StartLine(line, touched) ==
  LET size == Cardinality(DOMAIN line)
      far == {k \in DOMAIN line : ~line[k].blind}
      first == IF far = {} THEN size ELSE CHOOSE k \in far : \A m \in far : k <= m
  IN  /\ pl' = line
      /\ ftype' = [k \in DOMAIN line |-> "Nor"]
      /\ head' = first /\ i' = first
      /\ stray' = touched \cup (IF far = {} /\ size > 0 THEN {size} ELSE {})
      /\ phase' = IF size = 0 THEN "none" ELSE "planes"
      /\ last_state' = 0 /\ last_surface' = -1 /\ plane_to_end' = FALSE

------------------------------------------------------------------------------
\* Mutant: a plane that runs on over blind points.
PlaneJudgeThroughBlind(c) ==
  {[type |-> t, nex |-> n] : t \in {0, 1}, n \in (c + group_size) .. plsize}

\* plane_judge: a blind point in the group, or reached while the plane grows, ends it with
\* type 2; otherwise it grows as far as the points are near, or to the line's end, and the
\* shape decides between a plane (1) and none (0).
PlaneJudge(c) ==
  LET blind == {k \in c .. plsize - 1 : Blind(k)}
      first == IF blind = {} THEN plsize ELSE CHOOSE k \in blind : \A m \in blind : k <= m
  IN  {[type |-> t, nex |-> n] : t \in {0, 1},
         n \in (c + group_size) .. (IF blind = {} THEN plsize ELSE first - 1)}
        \cup (IF blind = {} THEN {} ELSE {[type |-> 2, nex |-> first]})

\* A plane marks all of its points, and the entry its end index names.  After another plane
\* its first point is an edge when the two meet at an angle.
MarkPlane(c, nex, first) ==
  [k \in DOMAIN ftype |-> IF k = c THEN first
                          ELSE IF k = nex THEN "Poss_Plane"
                          ELSE IF c < k /\ k < nex THEN "Real_Plane" ELSE ftype[k]]

\* Mutant: the continue skips the increment too.
PastBlindStuck(k) == k
PastBlind(k) == k + 1

Planes ==
  /\ phase = "planes" /\ i < Less(group_size)
  /\ IF Blind(i)
       THEN i' = PastBlind(i) /\ UNCHANGED <<ftype, last_state, stray, plane_to_end>>
       ELSE \E found \in PlaneJudge(i) :
              \/ /\ found.type = 1
                 /\ \E first \in IF last_state = 1 THEN {"Edge_Plane", "Real_Plane"}
                                                   ELSE {"Poss_Plane"} :
                      ftype' = MarkPlane(i, found.nex, first)
                 /\ stray' = IF found.nex \in DOMAIN pl THEN stray ELSE stray \cup {found.nex}
                 /\ plane_to_end' = (plane_to_end \/ found.nex = plsize)
                 /\ i' = found.nex /\ last_state' = 1
              \/ /\ found.type # 1
                 /\ i' = found.nex + 1 /\ last_state' = 0
                 /\ UNCHANGED <<ftype, stray, plane_to_end>>
  /\ UNCHANGED <<phase, point_filter_num, pl, head, last_surface, pl_surf, pl_corn>>

PlanesEnd ==
  /\ phase = "planes" /\ i >= Less(group_size)
  /\ phase' = "edges" /\ i' = head + 3
  /\ UNCHANGED <<point_filter_num, pl, ftype, head, last_state, last_surface, stray,
                 plane_to_end, pl_surf, pl_corn>>

\* What the neighbour m makes of a point: nothing, a jump, or that it is blind.
Jumps(m, far) == IF Blind(m) THEN {IF far THEN "Nr_inf" ELSE "Nr_blind"}
                             ELSE {"Nr_nor", "Nr_180", "Nr_zero"}

\* Mutant: only the next point is left room for.
EdgeMarginOne == 1
\* edge_jump_judge looks at two points on either side.
EdgeMargin == 3

\* edge_jump_judge refuses an edge next to which one of two points is blind.
EdgeJumpJudge(c, dir) ==
  LET near == IF dir = "Prev" THEN {c - 1, c - 2} ELSE {c + 1, c + 2}
  IN  IF \E k \in near : Blind(k) THEN {FALSE} ELSE BOOLEAN

\* The types a point can get in the second pass.
EdgeTypes(c) ==
  {ftype[c]} \cup
  UNION {UNION {LET judged == {<<"Nr_nor", "Nr_zero">>, <<"Nr_nor", "Nr_inf">>}
                    judgedNext == {<<"Nr_zero", "Nr_nor">>, <<"Nr_inf", "Nr_nor">>}
                    pair == <<prev, next>>
                IN  CASE pair \in judged /\ TRUE \in EdgeJumpJudge(c, "Prev") -> {"Edge_Jump"}
                      [] pair \in judgedNext /\ TRUE \in EdgeJumpJudge(c, "Next")
                           -> {"Edge_Jump"}
                      [] prev # "Nr_nor" /\ next # "Nr_nor" /\ ftype[c] = "Nor" -> {"Wire"}
                      [] OTHER -> {}
                : prev \in Jumps(c - 1, far), next \in Jumps(c + 1, far)} : far \in BOOLEAN}

Edges ==
  /\ phase = "edges" /\ i < Less(EdgeMargin)
  /\ IF Blind(i) \/ ftype[i] \in Settled
       THEN UNCHANGED ftype
       ELSE \E t \in EdgeTypes(i) : ftype' = [ftype EXCEPT ![i] = t]
  /\ stray' = stray \cup ({i - 2, i + 2} \ DOMAIN pl)
  /\ i' = i + 1
  /\ UNCHANGED <<phase, point_filter_num, pl, head, last_state, last_surface, plane_to_end,
                 pl_surf, pl_corn>>

EdgesEnd ==
  /\ phase = "edges" /\ i >= Less(EdgeMargin)
  /\ phase' = "small" /\ i' = head + 1
  /\ UNCHANGED <<point_filter_num, pl, ftype, head, last_state, last_surface, stray,
                 plane_to_end, pl_surf, pl_corn>>

\* A point that continues its neighbours evenly makes those that are still Nor a plane.
SmallPlanes ==
  /\ phase = "small" /\ i < plsize - 1
  /\ \/ UNCHANGED ftype
     \/ /\ ~Blind(i) /\ ~Blind(i - 1) /\ ~Blind(i + 1)
        /\ ftype[i] = "Nor"
        /\ ftype' = [k \in DOMAIN ftype |->
                       IF k \in {i - 1, i, i + 1} /\ ftype[k] = "Nor" THEN "Real_Plane"
                                                                     ELSE ftype[k]]
  /\ stray' = stray \cup ({i - 1, i + 1} \ DOMAIN pl)
  /\ i' = i + 1
  /\ UNCHANGED <<phase, point_filter_num, pl, head, last_state, last_surface, plane_to_end,
                 pl_surf, pl_corn>>

SmallPlanesEnd ==
  /\ phase = "small" /\ i >= plsize - 1
  /\ phase' = "output" /\ i' = head
  /\ UNCHANGED <<point_filter_num, pl, ftype, head, last_state, last_surface, stray,
                 plane_to_end, pl_surf, pl_corn>>

------------------------------------------------------------------------------
\* The points a to b of the line.
Run(a, b) == [k \in 1 .. b - a + 1 |-> pl[a + k - 1]]

\* Mutant: the run is not ended by the point that stands for it.
FullRunKeepsStart(start) == pl_surf' = Append(pl_surf, Run(i, i)) /\ last_surface' = start

\* Mutant: the next run begins behind that point at once.
FullRunStartsNext(start) == pl_surf' = Append(pl_surf, Run(i, i)) /\ last_surface' = i + 1

\* The last point of a run of point_filter_num plane points stands for it.
FullRun(start) == pl_surf' = Append(pl_surf, Run(i, i)) /\ last_surface' = -1

\* A run that another point ends earlier is averaged; one that the line ends is dropped.
Output ==
  /\ phase = "output" /\ i < plsize
  /\ IF ftype[i] \in Plane
       THEN LET start == IF last_surface = -1 THEN i ELSE last_surface
            IN  /\ IF i = start + point_filter_num - 1
                     THEN FullRun(start)
                     ELSE last_surface' = start /\ UNCHANGED pl_surf
                /\ UNCHANGED pl_corn
       ELSE /\ pl_corn' = IF ftype[i] \in {"Edge_Jump", "Edge_Plane"}
                            THEN Append(pl_corn, pl[i]) ELSE pl_corn
            /\ pl_surf' = IF last_surface = -1 THEN pl_surf
                          ELSE Append(pl_surf, Run(last_surface, i - 1))
            /\ last_surface' = -1
  /\ i' = i + 1
  /\ UNCHANGED <<phase, point_filter_num, pl, ftype, head, last_state, stray, plane_to_end>>

OutputEnd ==
  /\ phase = "output" /\ i >= plsize
  /\ phase' = "none"
  /\ UNCHANGED <<point_filter_num, pl, ftype, head, i, last_state, last_surface, stray,
                 plane_to_end, pl_surf, pl_corn>>

GiveFeature ==
  \/ Planes \/ PlanesEnd \/ Edges \/ EdgesEnd \/ SmallPlanes \/ SmallPlanesEnd
  \/ Output \/ OutputEnd
==============================================================================
