------------------------------ MODULE CustomPlanner ------------------------------
(***************************************************************************)
(* The planner plug-in of Nav2: a search over the cells of the costmap,    *)
(* each with six neighbours, for a path that keeps away from obstacles and *)
(* turns seldom, which is then straightened where the sight is clear and   *)
(* filled up with poses.  createPlan is called by Nav2's planner server    *)
(* and runs to its end, so it is an operator.                              *)
(*                                                                         *)
(* Costs of a path are counted in thousandths, rounded down.  Of the nodes *)
(* with the same cost the queue's order leaves open which one comes first: *)
(* CHOOSE takes one.  Places are cells, and a plan is the corners between  *)
(* its straight legs; the poses that fill these up are Poses of NavStack.  *)
(***************************************************************************)
EXTENDS Integers, Sequences, FiniteSets, SequencesExt, FiniteSetsExt

CONSTANTS SizeX, SizeY    \* the cells of the costmap

ASSUME PlannerAssumption == SizeX \in Nat \ {0} /\ SizeY \in Nat \ {0}

Cells == (0 .. SizeX - 1) \X (0 .. SizeY - 1)
NoPath == <<>>

\* 253 is an inscribed obstacle, 254 a lethal one, 255 NO_INFORMATION.
\* Mutant: only obstacles themselves are kept clear of, and what is not known is not.
isNodeValidUnlessLethal(costmap, c) == c \in Cells /\ costmap[c] # 254
isNodeValid(costmap, c) == c \in Cells /\ costmap[c] < 253
isSightValid(costmap, c) == c \in Cells /\ costmap[c] < 180

\* Mutant: the rows are not told apart.
getHexNeighborsOfEvenRows(c) ==
  {<<c[1] + d[1], c[2] + d[2]>> :
     d \in {<<1, 0>>, <<0, 1>>, <<-1, 0>>, <<0, -1>>, <<1, 1>>, <<1, -1>>}}

getHexNeighbors(c) ==
  LET diagonal == IF c[2] % 2 = 0 THEN 1 ELSE -1 IN
  {<<c[1] + d[1], c[2] + d[2]>> :
     d \in {<<1, 0>>, <<0, 1>>, <<-1, 0>>, <<0, -1>>, <<diagonal, 1>>, <<diagonal, -1>>}}

Thousandths(n) == CHOOSE k \in 0 .. 1000 * n :
                    k * k <= 1000000 * n /\ 1000000 * n < (k + 1) * (k + 1)
Hypot == [n \in 0 .. (SizeX - 1) * (SizeX - 1) + (SizeY - 1) * (SizeY - 1) |-> Thousandths(n)]
getHeuristic(c, d) == Hypot[(c[1] - d[1]) * (c[1] - d[1]) + (c[2] - d[2]) * (c[2] - d[2])]

------------------------------------------------------------------------------
(***************************************************************************)
(* The search.                                                             *)
(***************************************************************************)
\* A node is the path to its cell, through its parents, and the costs of it.
AStarNode(path, g, h) == [path |-> path, g_cost |-> g, f_cost |-> g + h]
safety_penalty(costmap, c) == 100 * ((1000 * costmap[c] * costmap[c]) \div (254 * 254))

Turns(path, c) ==
  LET n == Len(path) IN
  n > 1 /\ <<c[1] - path[n][1], c[2] - path[n][2]>>
             # <<path[n][1] - path[n - 1][1], path[n][2] - path[n - 1][2]>>

Child(costmap, goal, node, c) ==
  AStarNode(Append(node.path, c),
            node.g_cost + 1000 + safety_penalty(costmap, c)
              + (IF Turns(node.path, c) THEN 3000 ELSE 0),
            getHeuristic(c, goal))

\* The neighbours that are pushed.
OpenNeighbours(costmap, node, closed_list) ==
  {c \in getHexNeighbors(Last(node.path)) : isNodeValid(costmap, c) /\ c \notin closed_list}

\* A turn of the loop takes the node of least cost, and expands it unless its cell has been
\* closed or is the goal.  When there is no node left, or a path, it changes nothing.
Turn(costmap, goal, s) ==
  LET current_node == CHOOSE n \in s.open_list : \A m \in s.open_list : n.f_cost <= m.f_cost
      cell == Last(current_node.path)
      rest == s.open_list \ {current_node}
      closed == s.closed_list \cup {cell}
      children == {Child(costmap, goal, current_node, c) :
                     c \in OpenNeighbours(costmap, current_node, closed)}
  IN  IF s.open_list = {} \/ s.path # NoPath THEN s
      ELSE IF cell \in s.closed_list THEN [s EXCEPT !.open_list = rest]
      ELSE IF cell = goal THEN [s EXCEPT !.path = current_node.path]
      ELSE [s EXCEPT !.open_list = rest \cup children, !.closed_list = closed]

\* Each turn takes one node, and a cell that is closed leaves six at most.
MaxTurns == 1 + 6 * Cardinality(Cells)

Search(costmap, start, goal) ==
  LET start_node == AStarNode(<<start>>, 0, getHeuristic(start, goal))
      after[k \in 0 .. MaxTurns] ==
        IF k = 0 THEN [open_list |-> {start_node}, closed_list |-> {}, path |-> NoPath]
        ELSE Turn(costmap, goal, after[k - 1])
  IN  after[MaxTurns].path

------------------------------------------------------------------------------
(***************************************************************************)
(* The path.                                                               *)
(***************************************************************************)
Distance(a, b) == IF a > b THEN a - b ELSE b - a
Towards(a, b) == IF a < b THEN 1 ELSE -1

\* nav2_util::LineIterator: along the longer axis cell by cell, along the other as far as
\* the line has got, counted from half a cell on.
LineIterator(c, d) ==
  LET dx == Distance(c[1], d[1])
      dy == Distance(c[2], d[2])
      At(k) == IF dx >= dy
               THEN <<c[1] + k * Towards(c[1], d[1]),
                      c[2] + Towards(c[2], d[2]) * (IF dx = 0 THEN 0 ELSE (dx \div 2 + k * dy) \div dx)>>
               ELSE <<c[1] + Towards(c[1], d[1]) * ((dy \div 2 + k * dx) \div dy),
                      c[2] + k * Towards(c[2], d[2])>>
  IN  {At(k) : k \in 0 .. (IF dx >= dy THEN dx ELSE dy)}

hasLineOfSight(costmap, c, d) == \A e \in LineIterator(c, d) : isSightValid(costmap, e)

\* From each corner to the farthest cell of the path in sight, or else to the next one.
\* Mutant: the last cell needs no sight.
NextCornerBlindly(costmap, path, i) ==
  Max({i + 1} \cup {j \in i + 1 .. Len(path) :
                      \/ j = Len(path)
                      \/ hasLineOfSight(costmap, path[i], path[j])})

NextCorner(costmap, path, i) ==
  Max({i + 1} \cup {j \in i + 1 .. Len(path) : hasLineOfSight(costmap, path[i], path[j])})

\* The corners' places in the path, found one after the other.
Corners(costmap, path) ==
  LET found[k \in 1 .. Len(path)] ==
        IF k = 1 THEN <<1>>
        ELSE IF Last(found[k - 1]) = Len(path) THEN found[k - 1]
        ELSE Append(found[k - 1], NextCorner(costmap, path, Last(found[k - 1])))
      places == found[Len(path)]
  IN  [i \in 1 .. Len(places) |-> path[places[i]]]

\* The corners of the plan; NoPath is the PlannerException, also for places that are off
\* the map.
createPlan(costmap, start, goal) ==
  LET path == IF {start, goal} \subseteq Cells THEN Search(costmap, start, goal) ELSE NoPath
  IN  IF Len(path) > 2 THEN Corners(costmap, path) ELSE path
==============================================================================
