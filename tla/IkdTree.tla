-------------------------------- MODULE IkdTree --------------------------------
(***************************************************************************)
(* The k-d tree of the odometry's map (KD_TREE) as a data structure: the   *)
(* algorithms of its operations on a tree too small for the rebuild        *)
(* thread, so that Rebuild_Ptr stays null and no lock is taken.  What the  *)
(* two threads do to a larger tree is the subject of IkdTreeRebuild.       *)
(*                                                                         *)
(* Deletions are lazy: a node is marked, with all its subtree when a box   *)
(* holds all of it, and the marks are pushed down to the sons when a node  *)
(* is next visited, by a search too.  Points have integer coordinates,     *)
(* distances are squared, and ratios are compared without division.        *)
(* Delete_Points and Add_Point_Boxes are called by no code and left out.   *)
(***************************************************************************)
EXTENDS Integers, Sequences, SequencesExt, FiniteSets, FiniteSetsExt, Functions

CONSTANTS
  Points,           \* a finite set of points <<x, y, z>>
  Clouds,           \* the sequences of points Build may be given
  Boxes,            \* the boxes that are deleted, [min |-> point, max |-> point]
  downsample_size,  \* the side of a downsample cell, an even number
  Minimal_Unbalanced_Tree_Size,
  Queries,          \* the points Nearest_Search is asked about
  k_nearest,        \* how many neighbours it is asked for
  Distances,        \* the limits max_dist it is given, squared, and radii
  MaxOps            \* bound on the operations

Axes == 1 .. 3
PerAxis(f(_)) == <<f(1), f(2), f(3)>>
SumAxes(f(_)) == f(1) + f(2) + f(3)

ASSUME IkdTreeAssumption ==
  /\ Points \subseteq [Axes -> Int] /\ Queries \subseteq [Axes -> Int]
  /\ \A s \in Clouds : s # <<>> /\ ToSet(s) \subseteq Points
  /\ downsample_size \in Nat \ {0} /\ downsample_size % 2 = 0
  /\ Minimal_Unbalanced_Tree_Size \in Nat \ {0}
  /\ k_nearest \in Nat \ {0} /\ Distances \subseteq Nat /\ MaxOps \in Nat

VARIABLES
  Root_Node,   \* the tree
  content,     \* history: the points that are not deleted, a bag
  deleted,     \* kdtree_delete_counter: what the last Delete_Point_Boxes returned
  null_read,   \* history: Root_Node->division_axis was read of a null Root_Node
  Points_deleted,  \* the deleted points that rebuilds recorded, a bag, those handed
               \* over by acquire_removed_points included
  box_deleted, \* history: the points that boxes deleted, a bag
  ops          \* operations begun

vars == <<Root_Node, content, deleted, null_read, Points_deleted, box_deleted, ops>>

------------------------------------------------------------------------------
(***************************************************************************)
(* Nodes.                                                                  *)
(***************************************************************************)
Sons == {"left", "right"}
PerSon(f(_)) == [left |-> f("left"), right |-> f("right")]

\* No node; it counts for nothing in a sum over sons.
nullptr == [TreeSize |-> 0, invalid_point_num |-> 0, down_del_num |-> 0]

\* The fields InitTreeNode gives a new node; Update completes it.
NewNode(point, axis, left, right) ==
  [point |-> point, division_axis |-> axis,
   TreeSize |-> 1, invalid_point_num |-> 0, down_del_num |-> 0,
   point_deleted |-> FALSE, tree_deleted |-> FALSE,
   point_downsample_deleted |-> FALSE, tree_downsample_deleted |-> FALSE,
   need_push_down |-> PerSon(LAMBDA s : FALSE),
   range |-> [min |-> point, max |-> point],
   son |-> [left |-> left, right |-> right]]

size(root) == root.TreeSize
validnum(root) == root.TreeSize - root.invalid_point_num

SonsOf(root) == {s \in Sons : root.son[s] # nullptr}
One(b) == IF b THEN 1 ELSE 0

\* The smallest box of some boxes.
Hull(boxes) == [min |-> PerAxis(LAMBDA a : Min({b.min[a] : b \in boxes})),
                max |-> PerAxis(LAMBDA a : Max({b.max[a] : b \in boxes}))]

\* Mutant: the box of a deleted son still counts.
UpdateRangeOfAll(root) ==
  Hull({[min |-> root.point, max |-> root.point]}
         \cup {root.son[s].range : s \in SonsOf(root)})

\* The range of a node that is deleted with all below it covers all of that, that of
\* another node what is not deleted.  Mapped with Update.
UpdateRange(root) ==
  LET S == SonsOf(root)
      kept == IF root.tree_deleted THEN S ELSE {s \in S : ~root.son[s].tree_deleted}
      own == IF root.tree_deleted \/ ~root.point_deleted
               THEN {[min |-> root.point, max |-> root.point]} ELSE {}
  IN  Hull(own \cup {root.son[s].range : s \in kept})

\* Mutant: the node's own point is not counted.
UpdateOfSons(root) ==
  [root EXCEPT !.TreeSize = root.son["left"].TreeSize + root.son["right"].TreeSize,
               !.invalid_point_num = One(root.point_deleted)
                  + root.son["left"].invalid_point_num + root.son["right"].invalid_point_num,
               !.range = UpdateRange(root)]

Update(root) ==
  LET l == root.son["left"]
      t == root.son["right"]
      S == SonsOf(root)
      r == [root EXCEPT
              !.TreeSize = 1 + l.TreeSize + t.TreeSize,
              !.invalid_point_num =
                One(root.point_deleted) + l.invalid_point_num + t.invalid_point_num,
              !.down_del_num =
                One(root.point_downsample_deleted) + l.down_del_num + t.down_del_num,
              !.tree_downsample_deleted =
                root.point_downsample_deleted /\ \A s \in S : root.son[s].tree_downsample_deleted,
              !.tree_deleted = root.point_deleted /\ \A s \in S : root.son[s].tree_deleted]
  IN  [r EXCEPT !.range = UpdateRange(r)]

\* Mutant: the son is not told to push the deletion further.
PushedOnce(root, n) ==
  [n EXCEPT !.tree_downsample_deleted = @ \/ root.tree_downsample_deleted,
            !.point_downsample_deleted = @ \/ root.tree_downsample_deleted,
            !.tree_deleted = root.tree_deleted \/ n.tree_downsample_deleted,
            !.point_deleted = root.tree_deleted \/ n.tree_downsample_deleted
                                \/ n.point_downsample_deleted,
            !.down_del_num = IF root.tree_downsample_deleted THEN n.TreeSize ELSE @,
            !.invalid_point_num = IF root.tree_deleted THEN n.TreeSize ELSE n.down_del_num]

\* What Push_Down does to the son n.
Pushed(root, n) ==
  LET tree_down == n.tree_downsample_deleted \/ root.tree_downsample_deleted
      point_down == n.point_downsample_deleted \/ root.tree_downsample_deleted
      down_num == IF root.tree_downsample_deleted THEN n.TreeSize ELSE n.down_del_num
      tree_del == root.tree_deleted \/ tree_down
  IN  [n EXCEPT !.tree_downsample_deleted = tree_down,
                !.point_downsample_deleted = point_down,
                !.tree_deleted = tree_del,
                !.point_deleted = tree_del \/ point_down,
                !.down_del_num = down_num,
                !.invalid_point_num = IF root.tree_deleted THEN n.TreeSize ELSE down_num,
                !.need_push_down = PerSon(LAMBDA s : TRUE)]

\* A mark for a son that is null stays where it is.
Push_Down(root) ==
  LET due(s) == root.need_push_down[s] /\ root.son[s] # nullptr
  IN  [root EXCEPT !.son = PerSon(LAMBDA s : IF due(s) THEN Pushed(root, root.son[s])
                                             ELSE root.son[s]),
                   !.need_push_down = PerSon(LAMBDA s : root.need_push_down[s] /\ ~due(s))]

------------------------------------------------------------------------------
(***************************************************************************)
(* Building, and rebuilding out of balance.                                *)
(***************************************************************************)
Widest(storage) ==
  LET width(a) == Max({p[a] : p \in ToSet(storage)}) - Min({p[a] : p \in ToSet(storage)})
  IN  CHOOSE a \in Axes : /\ \A b \in Axes : width(a) >= width(b)
                          /\ \A b \in Axes : b < a => width(b) < width(a)

\* nth_element leaves the points equal to the median on either side of it; ties says
\* whether those that come first in the storage are to the left or to the right.
Sorted(storage, a, ties) ==
  LET s == IF ties = "left" THEN storage ELSE Reverse(storage)
      Before(i, j) == s[i][a] < s[j][a] \/ (s[i][a] = s[j][a] /\ i < j)
      order == SortSeq([i \in DOMAIN s |-> i], Before)
  IN  [i \in DOMAIN s |-> s[order[i]]]

RECURSIVE BuildTree(_, _)
BuildTree(storage, ties) ==
  IF storage = <<>> THEN nullptr
  ELSE LET a == Widest(storage)
           s == Sorted(storage, a, ties)
           mid == (Len(s) + 1) \div 2
       IN  Update(NewNode(s[mid], a, BuildTree(SubSeq(s, 1, mid - 1), ties),
                                     BuildTree(SubSeq(s, mid + 1, Len(s)), ties)))

\* The points that are not deleted, in the order flatten meets them.
RECURSIVE Flatten(_)
Flatten(root) ==
  IF root = nullptr THEN <<>>
  ELSE LET r == Push_Down(root)
       IN  (IF r.point_deleted THEN <<>> ELSE <<r.point>>)
             \o Flatten(r.son["left"]) \o Flatten(r.son["right"])

\* Mutant: downsampled points are recorded too.
RECURSIVE RecordedAll(_)
RecordedAll(root) ==
  IF root = nullptr THEN <<>>
  ELSE LET r == Push_Down(root)
       IN  RecordedAll(r.son["left"]) \o RecordedAll(r.son["right"])
             \o (IF r.point_deleted THEN <<r.point>> ELSE <<>>)

\* The deleted points flatten records, those that downsampling deleted left out.
RECURSIVE Recorded(_)
Recorded(root) ==
  IF root = nullptr THEN <<>>
  ELSE LET r == Push_Down(root)
       IN  Recorded(r.son["left"]) \o Recorded(r.son["right"])
             \o (IF r.point_deleted /\ ~r.point_downsample_deleted THEN <<r.point>> ELSE <<>>)

\* The tree flatten leaves behind.
RECURSIVE AfterFlatten(_)
AfterFlatten(root) ==
  IF root = nullptr THEN nullptr
  ELSE LET r == Push_Down(root) IN [r EXCEPT !.son = PerSon(LAMBDA s : AfterFlatten(r.son[s]))]

\* More than half of the points deleted, or one son with more than 0.6 of them.
Criterion_Check(root) ==
  LET son == IF root.son["left"] # nullptr THEN root.son["left"] ELSE root.son["right"]
      others == size(root) - 1
  IN  /\ size(root) > Minimal_Unbalanced_Tree_Size
      /\ \/ 2 * root.invalid_point_num > size(root)
         \/ 10 * son.TreeSize > 6 * others
         \/ 10 * son.TreeSize < 4 * others

\* The result of an operation on a subtree: the subtree, how many points it deleted and
\* the deleted points it recorded.
Result(t, n, recorded) == [t |-> t, n |-> n, recorded |-> recorded]

\* Update, and Rebuild when the criterion asks for it, as each operation ends.
Finish(root, n, recorded, ties) ==
  LET r == Update(root)
  IN  IF Criterion_Check(r)
        THEN Result(BuildTree(Flatten(r), ties), n, recorded \o Recorded(r))
        ELSE Result(r, n, recorded)

------------------------------------------------------------------------------
(***************************************************************************)
(* Additions and deletions.                                                *)
(***************************************************************************)
\* Mutant: a range that begins where the box begins is left out.
DisjointAtMin(box, range) ==
  \E a \in Axes : box.max[a] <= range.min[a] \/ box.min[a] >= range.max[a]

Disjoint(box, range) ==
  \E a \in Axes : box.max[a] <= range.min[a] \/ box.min[a] > range.max[a]
\* Mutant: the far sides belong to the box.
CoversClosed(box, range) ==
  \A a \in Axes : box.min[a] <= range.min[a] /\ box.max[a] >= range.max[a]

Covers(box, range) ==
  \A a \in Axes : box.min[a] <= range.min[a] /\ box.max[a] > range.max[a]
Inside(p, box) == \A a \in Axes : box.min[a] <= p[a] /\ p[a] < box.max[a]

RECURSIVE Add_by_point(_, _, _, _)
Add_by_point(root, p, father_axis, ties) ==
  IF root = nullptr
    THEN Result(Update(NewNode(p, (father_axis % 3) + 1, nullptr, nullptr)), 0, <<>>)
    ELSE LET r == Push_Down(root)
             a == r.division_axis
             s == IF p[a] < r.point[a] THEN "left" ELSE "right"
             below == Add_by_point(r.son[s], p, a, ties)
         IN  Finish([r EXCEPT !.son[s] = below.t], 0, below.recorded, ties)

\* The subtree is marked as a whole.
DeleteAll(r, is_downsample) ==
  [r EXCEPT !.tree_deleted = TRUE, !.point_deleted = TRUE,
            !.need_push_down = PerSon(LAMBDA s : TRUE),
            !.invalid_point_num = r.TreeSize,
            !.tree_downsample_deleted = @ \/ is_downsample,
            !.point_downsample_deleted = @ \/ is_downsample,
            !.down_del_num = IF is_downsample THEN r.TreeSize ELSE @]

RECURSIVE Delete_by_range(_, _, _, _)
Delete_by_range(root, box, is_downsample, ties) ==
  IF root = nullptr \/ root.tree_deleted THEN Result(root, 0, <<>>)
  ELSE LET r == Push_Down(root)
       IN  CASE Disjoint(box, r.range) -> Result(r, 0, <<>>)
             [] Covers(box, r.range) ->
                  Result(DeleteAll(r, is_downsample), r.TreeSize - r.invalid_point_num, <<>>)
             [] OTHER ->
                  LET hit == ~r.point_deleted /\ Inside(r.point, box)
                      l == Delete_by_range(r.son["left"], box, is_downsample, ties)
                      t == Delete_by_range(r.son["right"], box, is_downsample, ties)
                  IN  Finish([r EXCEPT !.point_deleted = @ \/ hit,
                                       !.point_downsample_deleted = @ \/ (hit /\ is_downsample),
                                       !.son = [left |-> l.t, right |-> t.t]],
                             One(hit) + l.n + t.n, l.recorded \o t.recorded, ties)

------------------------------------------------------------------------------
(***************************************************************************)
(* Searches: the tree they leave behind and what they find.                *)
(***************************************************************************)
RECURSIVE Search_by_range(_, _)
Search_by_range(root, box) ==
  IF root = nullptr THEN [t |-> nullptr, storage |-> <<>>]
  ELSE LET r == Push_Down(root)
       IN  CASE Disjoint(box, r.range) -> [t |-> r, storage |-> <<>>]
             [] Covers(box, r.range) -> [t |-> AfterFlatten(r), storage |-> Flatten(r)]
             [] OTHER ->
                  LET f == PerSon(LAMBDA s : Search_by_range(r.son[s], box))
                  IN  [t |-> [r EXCEPT !.son = PerSon(LAMBDA s : f[s].t)],
                       storage |-> (IF Inside(r.point, box) /\ ~r.point_deleted
                                      THEN <<r.point>> ELSE <<>>)
                                   \o f["left"].storage \o f["right"].storage]

Square(x) == x * x
\* sqrt(d) > r + sqrt(e), and sqrt(d) + sqrt(e) <= r.
SqrtExceeds(d, r, e) == d > r * r + e /\ Square(d - r * r - e) > 4 * r * r * e
SqrtsWithin(d, e, r) == r * r >= d + e /\ Square(r * r - d - e) >= 4 * d * e

calc_dist(p, q) == SumAxes(LAMBDA a : Square(p[a] - q[a]))

\* The ball is compared with the one around the node's range, lengths taken twice.
RECURSIVE Search_by_radius(_, _, _)
Search_by_radius(root, p, radius) ==
  IF root = nullptr THEN <<>>
  ELSE LET r == Push_Down(root)
           dist == SumAxes(LAMBDA a : Square(r.range.min[a] + r.range.max[a] - 2 * p[a]))
           radius_sq == calc_dist(r.range.min, r.range.max)
       IN  CASE SqrtExceeds(dist, 2 * radius, radius_sq) -> <<>>
             [] SqrtsWithin(dist, radius_sq, 2 * radius) -> Flatten(r)
             [] OTHER ->
                  (IF ~r.point_deleted /\ calc_dist(r.point, p) <= radius * radius
                     THEN <<r.point>> ELSE <<>>)
                  \o Search_by_radius(r.son["left"], p, radius)
                  \o Search_by_radius(r.son["right"], p, radius)

\* MANUAL_HEAP, with the farthest of the points found so far on top.
CMP(p, d) == [point |-> p, dist |-> d]
Less(a, b) == IF a.dist = b.dist THEN a.point[1] < b.point[1] ELSE a.dist < b.dist
Swapped(h, i, j) == [h EXCEPT ![i] = h[j], ![j] = h[i]]

RECURSIVE FloatUp(_, _)
FloatUp(h, i) ==
  LET ancestor == i \div 2
  IN  IF i > 1 /\ Less(h[ancestor], h[i]) THEN FloatUp(Swapped(h, i, ancestor), ancestor) ELSE h

RECURSIVE MoveDown(_, _)
MoveDown(h, i) ==
  LET sons == {2 * i, 2 * i + 1} \cap DOMAIN h
      l == IF sons = {2 * i, 2 * i + 1} /\ Less(h[2 * i], h[2 * i + 1]) THEN 2 * i + 1 ELSE 2 * i
  IN  IF sons # {} /\ Less(h[i], h[l]) THEN MoveDown(Swapped(h, i, l), l) ELSE h

HeapPush(h, c) == IF Len(h) >= 2 * k_nearest THEN h ELSE FloatUp(Append(h, c), Len(h) + 1)
HeapPop(h) ==
  IF Len(h) <= 1 THEN <<>> ELSE MoveDown([Front(h) EXCEPT ![1] = Last(h)], 1)

INFINITY == 1000000
Beyond(x, low, high) == IF x < low THEN low - x ELSE IF x > high THEN x - high ELSE 0
calc_box_dist(node, p) ==
  IF node = nullptr THEN INFINITY
  ELSE SumAxes(LAMBDA a : Square(Beyond(p[a], node.range.min[a], node.range.max[a])))

\* The node's own point enters the heap if it is within the limit and nearer than the top.
Offer(r, p, q, max_dist_sqr) ==
  LET dist == calc_dist(p, r.point)
  IN  IF /\ ~r.point_deleted /\ dist <= max_dist_sqr
         /\ Len(q) < k_nearest \/ dist < q[1].dist
        THEN HeapPush(IF Len(q) >= k_nearest THEN HeapPop(q) ELSE q, CMP(r.point, dist))
        ELSE q

\* Mutant: the far son is not searched once enough points are found.
WorthUntilFull(q, d) == Len(q) < k_nearest

\* Whether a son at distance d may hold a point nearer than those found.
Worth(q, d) == Len(q) < k_nearest \/ d < q[1].dist

\* The nearer son first if both are worth it, else the left one first.
RECURSIVE Search(_, _, _, _)
Search(root, p, q, max_dist_sqr) ==
  IF root = nullptr \/ root.tree_deleted \/ calc_box_dist(root, p) > max_dist_sqr
    THEN [t |-> root, q |-> q]
    ELSE LET r == Push_Down(root)
             own == Offer(r, p, q, max_dist_sqr)
             d == PerSon(LAMBDA s : calc_box_dist(r.son[s], p))
             first == IF /\ Worth(own, d["left"]) /\ Worth(own, d["right"])
                         /\ d["left"] > d["right"] THEN "right" ELSE "left"
             second == CHOOSE s \in Sons : s # first
             Visit(s, h) == IF Worth(h, d[s]) THEN Search(r.son[s], p, h, max_dist_sqr)
                            ELSE [t |-> r.son[s], q |-> h]
             f == Visit(first, own)
             g == Visit(second, f.q)
         IN  [t |-> [r EXCEPT !.son[first] = f.t, !.son[second] = g.t], q |-> g.q]

RECURSIVE Drained(_)
Drained(q) == IF q = <<>> THEN <<>> ELSE Append(Drained(HeapPop(q)), q[1])

\* The neighbours found, nearest first.
Nearest_Search(root, p, max_dist_sqr) == Drained(Search(root, p, <<>>, max_dist_sqr).q)

------------------------------------------------------------------------------
(***************************************************************************)
(* The operations, as the mapping thread calls them.                       *)
(***************************************************************************)
Count(s) == [p \in Points |-> Cardinality({i \in DOMAIN s : s[i] = p})]
Plus(f, g) == [p \in DOMAIN f |-> f[p] + g[p]]
Minus(f, g) == [p \in DOMAIN f |-> f[p] - g[p]]

CellOf(p) ==
  LET low == PerAxis(LAMBDA a : (p[a] \div downsample_size) * downsample_size)
  IN  [min |-> low, max |-> PerAxis(LAMBDA a : low[a] + downsample_size)]
ToMiddle(p) == calc_dist(p, PerAxis(LAMBDA a : CellOf(p).min[a] + downsample_size \div 2))

Init ==
  /\ Root_Node = nullptr /\ content = Count(<<>>) /\ deleted = 0 /\ null_read = FALSE
  /\ Points_deleted = Count(<<>>) /\ box_deleted = Count(<<>>) /\ ops = 0

Operation == ops < MaxOps /\ ops' = ops + 1
Does(result) ==
  /\ Root_Node' = result.t /\ content' = Count(Flatten(result.t))
  /\ Points_deleted' = Plus(Points_deleted, Count(result.recorded))

Build(cloud, ties) ==
  /\ Operation /\ Root_Node = nullptr
  /\ Does(Result(BuildTree(cloud, ties), 0, <<>>))
  /\ deleted' = 0
  /\ UNCHANGED <<null_read, box_deleted>>

\* Add_Points of one point, without downsampling.
AddPoint(p, ties) ==
  /\ Operation /\ Root_Node # nullptr
  /\ Does(Add_by_point(Root_Node, p, Root_Node.division_axis, ties))
  /\ UNCHANGED <<deleted, null_read, box_deleted>>

\* The first of the stored points that is nearest to the middle, if nearer than p.
DownsampleResult(p, stored) ==
  LET Nearer(best, q) == IF ToMiddle(q) < ToMiddle(best) THEN q ELSE best
  IN  FoldLeft(Nearer, p, stored)

\* Add_Points of one point, with downsampling.
AddPointDownsampled(p, ties) ==
  /\ Operation /\ Root_Node # nullptr
  /\ LET found == Search_by_range(Root_Node, CellOf(p))
         best == DownsampleResult(p, found.storage)
         cleared == IF found.storage = <<>> THEN Result(found.t, 0, <<>>)
                    ELSE Delete_by_range(found.t, CellOf(p), TRUE, ties)
         axis == IF cleared.t = nullptr THEN 1 ELSE cleared.t.division_axis
         added == Add_by_point(cleared.t, best, axis, ties)
     IN  IF Len(found.storage) > 1 \/ best = p
           THEN /\ null_read' = (null_read \/ cleared.t = nullptr)
                /\ Does(Result(added.t, 0, cleared.recorded \o added.recorded))
           ELSE /\ Does(Result(found.t, 0, <<>>))
                /\ UNCHANGED null_read
  /\ UNCHANGED <<deleted, box_deleted>>

\* Delete_Point_Boxes of one box.
DeletePointBox(box, ties) ==
  /\ Operation /\ Root_Node # nullptr
  /\ LET result == Delete_by_range(Root_Node, box, FALSE, ties)
     IN  /\ Does(result)
         /\ deleted' = result.n
         /\ box_deleted' = Plus(box_deleted, Minus(content, content'))
  /\ UNCHANGED null_read

\* A nearest search, for the marks it pushes down.
SearchNearest(p) ==
  /\ Operation /\ Root_Node # nullptr
  /\ Does(Result(Search(Root_Node, p, <<>>, INFINITY).t, 0, <<>>))
  /\ UNCHANGED <<deleted, null_read, box_deleted>>

Next ==
  \E ties \in Sons :
    \/ \E cloud \in Clouds : Build(cloud, ties)
    \/ \E p \in Points : AddPoint(p, ties) \/ AddPointDownsampled(p, ties)
    \/ \E box \in Boxes : DeletePointBox(box, ties)
    \/ \E p \in Queries : SearchNearest(p)

Spec == Init /\ [][Next]_vars

------------------------------------------------------------------------------
(***************************************************************************)
(* Properties.                                                             *)
(***************************************************************************)
\* The nodes of a tree all of whose marks have been pushed down.
RECURSIVE Nodes(_)
Nodes(root) == IF root = nullptr THEN {}
               ELSE {root} \cup UNION {Nodes(root.son[s]) : s \in Sons}

RECURSIVE All(_)
All(root) == IF root = nullptr THEN <<>>
             ELSE <<root>> \o All(root.son["left"]) \o All(root.son["right"])

\* The variables have their types.
TypeOK ==
  /\ Root_Node = nullptr \/ Root_Node.point \in Points
  /\ content \in [Points -> Nat] /\ deleted \in Nat /\ null_read \in BOOLEAN /\ ops \in 0 .. MaxOps
  /\ Points_deleted \in [Points -> Nat] /\ box_deleted \in [Points -> Nat]

\* However deletions, additions, rebuilds and searches have interleaved, the counters that
\* size, validnum and the criterion read are those of the subtree as it would be flattened.
CountsAreExact ==
  /\ validnum(Root_Node) = Len(Flatten(Root_Node))
  /\ \A n \in Nodes(AfterFlatten(Root_Node)) :
       LET below == All(n)
           Number(Test(_)) == Cardinality({i \in DOMAIN below : Test(below[i])})
       IN  /\ size(n) = Len(below)
           /\ n.invalid_point_num = Number(LAMBDA m : m.point_deleted)
           /\ n.down_del_num = Number(LAMBDA m : m.point_downsample_deleted)
           /\ n.tree_deleted = (n.invalid_point_num = n.TreeSize)

\* The range of every subtree that is not deleted is the box of its undeleted points:
\* a search never misses a point below it, and a deletion that marks it loses none.
RangesAreTight ==
  \A n \in Nodes(AfterFlatten(Root_Node)) :
    ~n.tree_deleted => n.range = Hull({[min |-> p, max |-> p] : p \in ToSet(Flatten(n))})

\* A nearest search finds the k nearest points of the map within the limit, in order.
NearestIsNearest ==
  LET stored == Flatten(Root_Node)
  IN  \A p \in Queries, limit \in Distances \cup {INFINITY} :
        LET found == Nearest_Search(Root_Node, p, limit)
            dist == SortSeq([i \in DOMAIN stored |-> calc_dist(stored[i], p)], <)
            near == {i \in DOMAIN dist : dist[i] <= limit}
        IN  /\ Len(found) = Min({k_nearest, Cardinality(near)})
            /\ \A i \in DOMAIN found :
                 found[i].dist = dist[i] /\ found[i].dist = calc_dist(found[i].point, p)
            /\ \A q \in Points : Cardinality({i \in DOMAIN found : found[i].point = q})
                                   <= content[q]

\* A box search finds the points of the box, a search by radius those of the ball.
RangeSearchIsExact ==
  LET Only(Test(_)) == [q \in Points |-> IF Test(q) THEN content[q] ELSE 0]
  IN  /\ \A box \in Boxes \cup {CellOf(p) : p \in Points} :
           Count(Search_by_range(Root_Node, box).storage) = Only(LAMBDA q : Inside(q, box))
      /\ \A p \in Queries, radius \in Distances :
           Count(Search_by_radius(Root_Node, p, radius))
             = Only(LAMBDA q : calc_dist(p, q) <= radius * radius)

\* A downsampled addition clears the cell before it adds the point, and reads the root's
\* axis in between: clearing never rebuilds the tree away.
RootIsNotNullWhenRead == ~null_read

\* No deleted point is recorded twice, and none that only downsampling removed.
RecordedOnce == \A p \in Points : Points_deleted[p] <= box_deleted[p]

\* The tree implements the bag of points the odometry relies on.
PointBoxes == {{p \in Points : Inside(p, box)} : box \in Boxes}
Map == INSTANCE PointMap WITH
         Cell <- LAMBDA p : {q \in Points : Inside(q, CellOf(p))},
         Boxes <- PointBoxes
ImplementsMap == Map!Spec

\* Every node summarises what is below it, and what is left out of the tree is recorded.
NodesAreRight ==
  TypeOK /\ CountsAreExact /\ RangesAreTight /\ RootIsNotNullWhenRead /\ RecordedOnce

\* Searches find what comparing all points would.
SearchesAreExact == NearestIsNearest /\ RangeSearchIsExact
==============================================================================
