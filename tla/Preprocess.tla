------------------------------ MODULE Preprocess ------------------------------
(***************************************************************************)
(* Preprocess of FAST-LIO: a scan, in the message of one of five kinds of  *)
(* lidar, becomes the points pl_surf that the odometry works on.  Their    *)
(* curvature is their time since the start of the scan: taken over from    *)
(* the message, or computed from the angle the lidar has turned.           *)
(*                                                                         *)
(* Angles count in parts of a turn, times in the time one part takes (1 /  *)
(* omega_l); the scale of time_unit is left out.  A position is a yaw and  *)
(* a distance: 0 is the origin, 1 within the blind distance (for which the *)
(* features take the horizontal distance and the others the full one).     *)
(* With features the lines go through ScanFeatures, one after the other.   *)
(***************************************************************************)
EXTENDS ScanFeatures

CONSTANTS
  N_SCANS,      \* scan_line: the lines of the lidar
  Turn,         \* the parts of a turn, an even number
  MinLine,      \* an Avia line with at most so many points is skipped (5 in the code)
  Filters,      \* the values of point_filter_num
  Scans(_, _)   \* Scans(lidar_type, feature_enabled): the scans, sequences of points

LID_TYPE == {"AVIA", "VELO16", "OUST64", "MID360", "other"}
\* A scan point has a line, whether its tag is good, the angle turned when it was fired, and
\* a distance.
ScanPoint == [line : Nat, tag : BOOLEAN, turned : Nat, dist : Nat]

ASSUME PreprocessAssumption ==
  /\ N_SCANS \in Nat \ {0} /\ Turn \in Nat \ {0} /\ Turn % 2 = 0
  /\ MinLine \in Nat /\ Filters \subseteq Nat \ {0}
  /\ \A type \in LID_TYPE, features \in BOOLEAN : Scans(type, features) \subseteq Seq(ScanPoint)

VARIABLES
  lidar_type, feature_enabled,  \* the configuration
  status,     \* "idle", "process" when a message has come, "lines" while
              \* they are classified, "done"
  msg,        \* the scan: its points, and whether they have times
  pl_buff     \* the lines still to be classified

config == <<lidar_type, feature_enabled, point_filter_num>>
processVars == <<config, status, msg, pl_buff, featureVars>>

ProcessInit ==
  /\ lidar_type \in LID_TYPE
  /\ feature_enabled \in (IF lidar_type \in {"MID360", "other"} THEN {FALSE} ELSE BOOLEAN)
  /\ point_filter_num \in Filters
  /\ status = "idle" /\ msg = [points |-> <<>>, timed |-> FALSE] /\ pl_buff = <<>>
  /\ FeatureInit /\ pl_surf = <<>> /\ pl_corn = <<>>

------------------------------------------------------------------------------
\* The clockwise lidar starts just below the yaw where atan2 jumps.
yaw(p) == LET y == (Turn \div 2 - 1 - p.turned) % Turn
          IN  IF y > Turn \div 2 THEN y - Turn ELSE y
Origin == <<0>>
Place(p) == IF p.dist = 0 THEN Origin ELSE <<p.dist, yaw(p)>>
Near(p) == p.dist <= 1

Indices == DOMAIN msg.points
At(k) == msg.points[k]
\* The message's own time of a point, which grows in the order of firing.
TimeIn(k) == IF msg.timed THEN k - 1 ELSE 0

\* The points of pl_full or pl_surf: the index each came from, its time, whether it is blind.
Taken(Time(_)) == [k \in Indices |-> [index |-> k, curvature |-> Time(k), blind |-> Near(At(k))]]
\* The output of a handler without features, and a line for one with: some points in order.
InOrder(ks) ==
  LET taken[k \in 0 .. Len(msg.points)] ==
        IF k = 0 THEN <<>> ELSE IF k \in ks THEN Append(taken[k - 1], k) ELSE taken[k - 1]
  IN  taken[Len(msg.points)]
Points(ks, Time(_)) == LET s == InOrder(ks) IN [n \in DOMAIN s |-> <<Taken(Time)[s[n]]>>]
LineOf(ks, Time(_)) ==
  LET s == InOrder(ks) IN [n \in 0 .. Len(s) - 1 |-> Taken(Time)[s[n + 1]]]
OnLine(l) == {k \in Indices : At(k).line = l - 1}

\* The Avia's test of line and tag; the first point is never looked at.
Valid(k) == k > 1 /\ At(k).line < N_SCANS /\ At(k).tag
valid_num(k) == Cardinality({m \in 1 .. k : Valid(m)})
Sampled(k) == Valid(k) /\ valid_num(k) % point_filter_num = 0

\* A point must differ from the entry before it in pl_full, which is filled only when that
\* point was taken, and holds the origin otherwise.
Moved(k, IsTaken(_)) == Place(At(k)) # (IF IsTaken(k - 1) THEN Place(At(k - 1)) ELSE Origin)

AviaPoints ==
  Points({k \in Indices : Sampled(k) /\ Moved(k, Sampled) /\ ~Near(At(k))}, TimeIn)

AviaLine(l) ==
  LET line == {k \in OnLine(l) : Valid(k) /\ Moved(k, Valid)}
  IN  LineOf(IF Cardinality(line) <= MinLine THEN {} ELSE line, TimeIn)

Oust64Points ==
  Points({k \in Indices : (k - 1) % point_filter_num = 0 /\ ~Near(At(k))}, TimeIn)
Oust64Line(l) == LineOf({k \in OnLine(l) : ~Near(At(k))}, TimeIn)

DefaultPoints == Points({k \in Indices : ~Near(At(k))}, LAMBDA k : 0)

------------------------------------------------------------------------------
\* A point's time from its yaw: the angle since the line's first point, plus a turn when
\* it would be before the line's last point.  The first point of each line is dropped.
AngleSince(fp, y) == IF y <= fp THEN fp - y ELSE fp - y + Turn

\* Mutant: the turn is not noticed.
LaterWithoutTurn(time, last) == time

Later(time, last) == IF time < last THEN time + Turn ELSE time

Before(k) == {m \in 1 .. k - 1 : At(m).line = At(k).line}
IsFirst(k) == Before(k) = {}
TimeFromYaw(k) ==
  LET time_last[m \in Before(k) \cup {k}] ==
        IF IsFirst(m) THEN 0
        ELSE Later(AngleSince(yaw(At(Min(Before(m)))), yaw(At(m))), time_last[Max(Before(m))])
  IN  time_last[k]

\* Whether the points have times is read off the last one's.
given_offset_time == Indices # {} /\ TimeIn(Len(msg.points)) > 0
VelodyneTime(k) == IF given_offset_time THEN TimeIn(k) ELSE TimeFromYaw(k)
Velodyne(ks) == {k \in ks : given_offset_time \/ ~IsFirst(k)}

VelodynePoints ==
  Points({k \in Velodyne(Indices) : (k - 1) % point_filter_num = 0 /\ ~Near(At(k))},
         VelodyneTime)
VelodyneLine(l) ==
  LET line == Velodyne(OnLine(l))
  IN  LineOf(IF Cardinality(line) < 2 THEN {} ELSE line, VelodyneTime)

Mid360Points == Points({k \in Indices : ~IsFirst(k) /\ ~Near(At(k))}, TimeFromYaw)

------------------------------------------------------------------------------
\* A message comes.  The Avia's and the Ouster's have times, a Velodyne's may.
Receive ==
  /\ status = "idle"
  /\ \E points \in Scans(lidar_type, feature_enabled) :
       \E timed \in CASE lidar_type \in {"AVIA", "OUST64"} -> {TRUE}
                      [] lidar_type = "VELO16" -> BOOLEAN
                      [] OTHER -> {FALSE} :
         msg' = [points |-> points, timed |-> timed]
  /\ status' = "process"
  /\ UNCHANGED <<config, pl_buff, featureVars>>

\* process: without features the handler's loop is the whole of it.
ProcessPoints ==
  /\ status = "process" /\ ~feature_enabled
  /\ pl_surf' = CASE lidar_type = "AVIA" -> AviaPoints
                  [] lidar_type = "OUST64" -> Oust64Points
                  [] lidar_type = "VELO16" -> VelodynePoints
                  [] lidar_type = "MID360" -> Mid360Points
                  [] OTHER -> DefaultPoints
  /\ status' = "done"
  /\ UNCHANGED <<config, msg, pl_buff, lineVars, pl_corn>>

\* With features the points are sorted into lines first.
ProcessLines ==
  /\ status = "process" /\ feature_enabled
  /\ pl_buff' = [l \in 1 .. N_SCANS |-> CASE lidar_type = "AVIA" -> AviaLine(l)
                                          [] lidar_type = "OUST64" -> Oust64Line(l)
                                          [] lidar_type = "VELO16" -> VelodyneLine(l)]
  /\ status' = "lines"
  /\ UNCHANGED <<config, msg, featureVars>>

\* Of an empty line the Ouster's handler still sets the range of the last point.
NextLine ==
  /\ status = "lines" /\ phase = "none" /\ pl_buff # <<>>
  /\ StartLine(Head(pl_buff),
               IF lidar_type = "OUST64" /\ Head(pl_buff) = <<>> THEN {-1} ELSE {})
  /\ pl_buff' = Tail(pl_buff)
  /\ UNCHANGED <<config, status, msg, pl_surf, pl_corn>>

Features ==
  /\ status = "lines" /\ GiveFeature
  /\ UNCHANGED <<lidar_type, feature_enabled, status, msg, pl_buff>>

LinesEnd ==
  /\ status = "lines" /\ phase = "none" /\ pl_buff = <<>>
  /\ status' = "done"
  /\ UNCHANGED <<config, msg, pl_buff, featureVars>>

\* pl_surf has been copied out; each handler begins by clearing what the last one left.
Clear ==
  /\ status = "done"
  /\ status' = "idle" /\ msg' = [points |-> <<>>, timed |-> FALSE]
  /\ phase' = "none" /\ pl' = <<>> /\ ftype' = <<>> /\ head' = 0 /\ i' = 0
  /\ last_state' = 0 /\ last_surface' = -1 /\ stray' = {} /\ plane_to_end' = FALSE
  /\ pl_surf' = <<>> /\ pl_corn' = <<>>
  /\ UNCHANGED <<config, pl_buff>>

ProcessNext ==
  \/ Receive \/ ProcessPoints \/ ProcessLines \/ NextLine \/ Features \/ LinesEnd \/ Clear

ProcessSpec == ProcessInit /\ [][ProcessNext]_processVars
\* The callback runs to its end.
ProcessFairSpec ==
  ProcessSpec /\ WF_processVars(ProcessPoints \/ ProcessLines \/ NextLine \/ Features \/ LinesEnd)

------------------------------------------------------------------------------
\* The variables have their types.
ProcessTypeOK ==
  /\ lidar_type \in LID_TYPE /\ feature_enabled \in BOOLEAN /\ point_filter_num \in Filters
  /\ status \in {"idle", "process", "lines", "done"} /\ msg.timed \in BOOLEAN
  /\ phase \in {"none", "planes", "edges", "small", "output"}
  /\ ftype \in [DOMAIN pl -> Ftypes]
  /\ head \in 0 .. plsize /\ i \in 0 .. plsize + 3 /\ last_state \in {0, 1}
  /\ last_surface \in -1 .. plsize - 1

\* The odometry never gets a point within the blind distance, alone or in a mean: neither
\* from a handler's loop nor through a plane, an edge or a run that reaches across one.
NoBlindPointIsUsed ==
  /\ \A n \in DOMAIN pl_surf : \A k \in DOMAIN pl_surf[n] : ~pl_surf[n][k].blind
  /\ \A n \in DOMAIN pl_corn : ~pl_corn[n].blind

\* The output keeps the order of the scan, of each line where lines are classified, and
\* uses no point twice; with times in the message the last point is the latest, which
\* sync_packages relies on when it takes the scan's end from it.
OutputFollowsScan ==
  \A m, n \in DOMAIN pl_surf :
    LET a == Last(pl_surf[m])
        b == Head(pl_surf[n])
    IN  m < n /\ (feature_enabled => At(a.index).line = At(b.index).line) =>
          a.index < b.index /\ (msg.timed => a.curvature <= b.curvature)

\* A lidar that turns clockwise, by less than a turn from point to point of a line and less
\* than two in a scan, gets the times at which it fired, up to its line's first point.
Rotating ==
  \A k \in Indices : ~IsFirst(k) =>
    /\ At(k).turned - At(Max(Before(k))).turned \in 0 .. Turn - 1
    /\ At(k).turned - At(Min(Before(k))).turned < 2 * Turn
TimesFromYawAreExact ==
  lidar_type \in {"VELO16", "MID360"} /\ ~given_offset_time /\ Rotating =>
    \A n \in DOMAIN pl_surf : \A k \in DOMAIN pl_surf[n] :
      LET p == pl_surf[n][k]
      IN  p.curvature = At(p.index).turned - At(Min(Before(p.index))).turned

\* give_feature touches no entry outside its line but in three cases: the entry behind the
\* last point, marked by a plane that reaches the end of the line; what follows a line of
\* blind points only; and the entry before an empty line of an Ouster.
StrayAccessesAreKnown ==
  \A k \in stray : \/ k = plsize /\ plane_to_end
                   \/ k = plsize /\ \A m \in DOMAIN pl : Blind(m)
                   \/ k = -1 /\ lidar_type = "OUST64" /\ pl = <<>>

\* Every scan is processed to its end: each pass moves its index on.
ScansAreProcessed == status = "process" ~> status = "done"

\* The points put out are points of the scan, in its order.
OutputIsOfScan == ProcessTypeOK /\ NoBlindPointIsUsed /\ OutputFollowsScan
==============================================================================
