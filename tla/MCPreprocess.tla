------------------------------ MODULE MCPreprocess ------------------------------
(***************************************************************************)
(* The instance of Preprocess that is checked: for each kind of lidar, the *)
(* scans of a few points that exercise the tests of its handler, and for   *)
(* the features lines of points that are blind or not.                     *)
(***************************************************************************)
EXTENDS Preprocess

CONSTANTS MaxPoints, MaxLine   \* bounds on the points of a scan without and with features

Point(line, tag, turned, dist) == [line |-> line, tag |-> tag, turned |-> turned, dist |-> dist]

\* Places, a line too many and a bad tag; turns of the lidar; distances only.
PointsOf(type) ==
  CASE type = "AVIA" -> {Point(0, TRUE, 0, d) : d \in 0 .. 3}
                          \cup {Point(N_SCANS, TRUE, 0, 2), Point(0, FALSE, 0, 2)}
    [] type \in {"VELO16", "MID360"} ->
         {Point(0, TRUE, t, 2) : t \in 0 .. 2 * Turn - 2}
           \cup {Point(1, TRUE, t, 2) : t \in {0, Turn - 1}} \cup {Point(0, TRUE, Turn, 1)}
    [] OTHER -> {Point(0, TRUE, 0, d) : d \in 0 .. 2}

\* Every line but the first has one more point at most.
LinePoints(type) ==
  {Point(0, TRUE, 0, d) : d \in 1 .. 2}
Zigzag(s) == [k \in DOMAIN s |-> [s[k] EXCEPT !.turned = k % 2]]

MCScans(type, features) ==
  IF features
    THEN {Zigzag(s) : s \in SeqOf(LinePoints(type), MaxLine)}
           \cup {Append(s, Point(1, TRUE, 0, 2)) : s \in SeqOf(LinePoints(type), 2)}
    ELSE SeqOf(PointsOf(type), MaxPoints)
==============================================================================
