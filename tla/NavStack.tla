-------------------------------- MODULE NavStack --------------------------------
(***************************************************************************)
(* Navigation as a whole: the manager sends Nav2 the waypoints of modes,   *)
(* Nav2 has the planner plug-in plan a path to the waypoint and follows it *)
(* there.  Obstacles come and go: a plan is made on any of the costmaps,   *)
(* and made again while the robot drives.  Nav2 and its controller are     *)
(* external; the robot is in any cell that a leg of the plan touches when  *)
(* it plans anew, also in one that no node of the plan lies in.            *)
(***************************************************************************)
EXTENDS NavManager, CustomPlanner

CONSTANTS
  Place,      \* Place[mode]: the cell of the mode's waypoint, on the map or off it
  Costmaps,   \* the costmaps while the robot drives
  Asked       \* requests made of the planner before, by hand

ASSUME StackAssumption ==
  /\ Place \in [Known -> Int \X Int] /\ Place[0] \in Cells
  /\ Costmaps \subseteq [Cells -> 0 .. 255]
  /\ Asked \subseteq [costmap : [Cells -> 0 .. 255], start : Cells, goal : Cells]

VARIABLES
  robot,     \* the robot's cell
  plan       \* the request and the plan that the robot has, or that was asked for

stackVars == <<vars, robot, plan>>

Plan(costmap, start, goal) ==
  [costmap |-> costmap, start |-> start, goal |-> goal,
   corners |-> createPlan(costmap, start, goal)]
NoPlan == [costmap |-> <<>>, corners |-> NoPath]

StackInit ==
  /\ Init /\ robot = Place[0]
  /\ plan \in {NoPlan} \cup {Plan(r.costmap, r.start, r.goal) : r \in Asked}

\* The plan is forgotten when nothing drives along it.
Stay ==
  /\ plan' = IF \E g \in DOMAIN goals : goals[g].state = "active" THEN plan ELSE NoPlan
  /\ UNCHANGED robot

\* What the manager does, and Nav2 with goals.
Manage ==
  /\ \/ \E mode \in Known \cup Unknown : Command(mode)
     \/ mode_callback \/ send_nav_goal \/ NotReady
     \/ \E g \in DOMAIN goals : result_callback(g) \/ Reject(g)
  /\ Stay

\* A new goal is planned for anew.
AcceptGoal(g) == Accept(g) /\ plan' = NoPlan /\ UNCHANGED robot

\* ComputePathToPose.  Nav2 may try again after an exception.
PlanPath(g) ==
  /\ goals[g].state = "active"
  /\ \E costmap \in Costmaps : plan' = Plan(costmap, robot, Place[goals[g].mode])
  /\ UNCHANGED <<vars, robot>>

\* The straight leg from c to d: how far it passes a cell's centre by (times its length),
\* and the cells it touches.
Off(c, d, e) == Distance((e[1] - c[1]) * (d[2] - c[2]), (e[2] - c[2]) * (d[1] - c[1]))
Between(a, b) == IF a <= b THEN a .. b ELSE b .. a
Crossed(c, d) ==
  {e \in Between(c[1], d[1]) \X Between(c[2], d[2]) :
     2 * Off(c, d, e) <= Distance(c[1], d[1]) + Distance(c[2], d[2])}

\* Where the poses of a plan lie: interpolated poses fill up the legs between its corners.
Poses(corners) ==
  {Head(corners)} \cup UNION {Crossed(corners[i], corners[i + 1]) : i \in 1 .. Len(corners) - 1}

\* FollowPath.
Drive(g) ==
  /\ goals[g].state = "active" /\ plan.corners # NoPath
  /\ robot' \in Poses(plan.corners)
  /\ UNCHANGED <<vars, plan>>

Arrive(g) ==
  /\ plan.corners # NoPath /\ robot = plan.goal
  /\ End(g, "succeeded")
  /\ plan' = NoPlan /\ UNCHANGED robot

GiveUp(g) ==
  /\ End(g, "aborted") \/ End(g, "canceled")
  /\ plan' = NoPlan /\ UNCHANGED robot

StackNext ==
  \/ Manage
  \/ \E g \in DOMAIN goals : AcceptGoal(g) \/ PlanPath(g) \/ Drive(g) \/ Arrive(g) \/ GiveUp(g)

\* As FairSpec of the manager; Nav2 need not arrive, but gives up at last.
StackSpec ==
  /\ StackInit /\ [][StackNext]_stackVars
  /\ WF_stackVars(mode_callback /\ Stay)
  /\ WF_stackVars((send_nav_goal \/ NotReady) /\ Stay)
  /\ \A g \in 1 .. MaxCommands :
       /\ SF_stackVars(g \in DOMAIN goals /\ result_callback(g) /\ Stay)
       /\ WF_stackVars(g \in DOMAIN goals /\ (AcceptGoal(g) \/ (Reject(g) /\ Stay)))
       /\ WF_stackVars(g \in DOMAIN goals /\ (Arrive(g) \/ GiveUp(g)))

------------------------------------------------------------------------------
(***************************************************************************)
(* Properties.                                                             *)
(***************************************************************************)
\* What a costmap means: cells below 253 may be driven over, and every other row lies half
\* a cell further on.
Free(costmap, c) == costmap[c] < 253
Centre(c) == IF c[2] % 2 = 0 THEN 2 * c[1] + 1 ELSE 2 * c[1]
Adjacent(c, d) ==
  \/ c[2] = d[2] /\ Distance(Centre(c), Centre(d)) = 2
  \/ Distance(c[2], d[2]) = 1 /\ Distance(Centre(c), Centre(d)) = 1

\* The cells that can be reached over free ones, told without a search.
Reachable(costmap, start) ==
  LET Step(d) == {c \in Cells : c = d \/ (Free(costmap, c) /\ Adjacent(c, d))}
      grown[k \in 0 .. Cardinality(Cells)] ==
        IF k = 0 THEN {start} ELSE UNION {Step(d) : d \in grown[k - 1]}
  IN  grown[Cardinality(Cells)]

\* From any cell a plan may lead to a neighbour that may be free; and a leg through a cell
\* that may be free may touch the cells beside it.
EverFree(c) == \E costmap \in Costmaps : Free(costmap, c)
Beside(c, d) == Distance(c[1], d[1]) + Distance(c[2], d[2]) = 1
MayGet(d, c) ==
  \/ EverFree(c) /\ Adjacent(c, d)
  \/ EverFree(d) /\ Beside(c, d)

\* The cells that the robot never gets to from where it is at first, whatever the costmaps:
\* those outside some set of cells that it cannot get out of.
Holds(C) == Place[0] \in C /\ \A d \in C, c \in Cells : MayGet(d, c) => c \in C
EverReachable == Cells \ UNION {Cells \ C : C \in {D \in SUBSET Cells : Holds(D)}}

\* A plan leads from the start to the goal, and there is one whenever the goal can be
\* reached: neither the penalties, nor a heuristic that is more than a path may cost, nor
\* the shortcuts of the smoothing lose it.
PlanFoundIffReachable ==
  plan # NoPlan =>
    IF plan.goal \in Reachable(plan.costmap, plan.start)
    THEN plan.corners # NoPath /\ Head(plan.corners) = plan.start /\ Last(plan.corners) = plan.goal
    ELSE plan.corners = NoPath

\* A plan's legs keep off obstacles, but for their corners: of the cells that a leg of several
\* cells touches in a column (in a row, when it is steep), one that it passes nearest to is
\* clear.  So smoothing takes no shortcut through what the search went around.
SameColumn(c, d, e, f) ==
  IF Distance(c[1], d[1]) >= Distance(c[2], d[2]) THEN e[1] = f[1] ELSE e[2] = f[2]
LegIsClear(costmap, c, d) ==
  IF Adjacent(c, d) THEN Free(costmap, d)
  ELSE \A e \in Crossed(c, d) : \E f \in Crossed(c, d) :
         SameColumn(c, d, e, f) /\ Off(c, d, f) <= Off(c, d, e) /\ costmap[f] < 180
PlanIsClear ==
  \A i \in 1 .. Len(plan.corners) - 1 :
    LegIsClear(plan.costmap, plan.corners[i], plan.corners[i + 1])

\* "isSightValid ... to keep from cutting inner corners": a leg of several cells touches none
\* that is not clear.
CornersAreNotCut ==
  \A i \in 1 .. Len(plan.corners) - 1 :
    LET c == plan.corners[i] d == plan.corners[i + 1] IN
    Adjacent(c, d) \/ \A e \in Crossed(c, d) : plan.costmap[e] < 180

\* An arrival is never reported at a waypoint that is off the map or that obstacles always
\* part from where the robot started, however often it plans anew on its way, from any cell
\* that its plan touches and without a look at that cell.  Obstacles must be two cells
\* thick: a leg that cuts a corner takes the robot into the first, and the next plan may
\* lead out of it on the other side.
ArrivalsAreReachable == Place[cmd_vel_mode.of] \in EverReachable

\* The planner gives a plan when there is one, and one that can be followed.
PlansAreRight == PlanFoundIffReachable /\ PlanIsClear
==============================================================================
