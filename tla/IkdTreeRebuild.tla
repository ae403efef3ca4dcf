---------------------------- MODULE IkdTreeRebuild ----------------------------
(***************************************************************************)
(* The map of the odometry, an incremental k-d tree (KD_TREE), and its two *)
(* threads.  The mapping thread adds points, deletes boxes and searches;   *)
(* when a subtree of at least Multi_Thread_Rebuild_Point_Num points gets   *)
(* unbalanced it leaves a pointer to it in Rebuild_Ptr.  The rebuild       *)
(* thread copies that subtree, builds a balanced one beside it, replays    *)
(* the operations logged meanwhile and swaps it in.                        *)
(*                                                                         *)
(* The tree is its root with two subtrees, each standing for the points    *)
(* below it; a rebuild takes the whole tree or one of the two.  Sizes and  *)
(* the shape of a subtree are left out, so the criterion that asks for a   *)
(* rebuild may hold at any time.  An action that touches shared state      *)
(* under working_flag_mutex is one critical section; rebuild_logger_mutex  *)
(* is only ever taken inside such a section and needs no state.            *)
(***************************************************************************)
EXTENDS Integers, Sequences, SequencesExt, FiniteSets, FiniteSetsExt

CONSTANTS
  LeftPoints, RightPoints, \* points that sort below each son of the root
  Cells,       \* the downsample cells; none is cut by the plane of the root
  Boxes,       \* boxes that Delete_Point_Boxes may be given, as sets of points
  InitPoints,  \* the points Build is called with
  Searchers,   \* OpenMP threads that run Nearest_Search
  Operations,  \* operations of the mapping thread: "add", "downsample", "delete"
  MaxOps       \* bound on their number

Sons == {"left", "right"}
Points == LeftPoints \cup RightPoints
PointsOf(r) == IF r = "left" THEN LeftPoints ELSE RightPoints
SonOf(p) == IF p \in LeftPoints THEN "left" ELSE "right"

ASSUME IkdAssumption ==
  /\ Points \subseteq Nat /\ LeftPoints \cap RightPoints = {}
  /\ \A c \in Cells : c \subseteq LeftPoints \/ c \subseteq RightPoints
  /\ Boxes \subseteq SUBSET Points /\ IsFiniteSet(Searchers)
  /\ InitPoints \subseteq Points
  /\ Operations \subseteq {"add", "downsample", "delete"}
  /\ MaxOps \in Nat

VARIABLES
  tree,          \* tree[r]: points below son r that are not deleted
  push,          \* push[r]: the root is deleted and has yet to push that down to r
  Rebuild_Ptr,   \* the subtree to rebuild
  rebuild_flag,
  Rebuild_Logger,
  search_mutex_counter,
  rpc, new, operation, error, \* rebuild thread: control point, new_root_node, the
                 \* operation it replays, whether ERROR!!! has been printed
  mpc, plan, todo, at,  \* mapping thread: control point, operations on the tree still
                 \* to apply, sons still to visit, son whose lock it waits for
  cell, arrival, \* cell and point of a downsampled addition
  range,         \* the nodes Search_by_range is on: those of the tree, those of a tree
                 \* that has been replaced, or freed ones
  where,         \* where[s]: the nodes searcher s is on, those it is counted for, the sons
                 \* it has yet to look at, whether it has read their boxes, and where the
                 \* pointers it holds lead: into the tree, to replaced or to freed nodes
  ops,           \* operations begun
  races,         \* what has gone wrong between the threads (history)
  expected       \* the points the operations begun so far leave in the map (history)

treeVars == <<tree, push>>
sharedVars == <<Rebuild_Ptr, rebuild_flag, Rebuild_Logger, search_mutex_counter>>
rebuildVars == <<rpc, new, operation, error>>
mainVars == <<mpc, plan, todo, at, cell, arrival, ops, races, expected>>
vars == <<treeVars, sharedVars, rebuildVars, mainVars, range, where>>

------------------------------------------------------------------------------
(***************************************************************************)
(* Operations on the tree.                                                 *)
(***************************************************************************)
Add(p) == [op |-> "ADD_POINT", points |-> {p}]
Delete(box) == [op |-> "DELETE_BOX", points |-> box]
PUSH_DOWN == [op |-> "PUSH_DOWN", points |-> Points]
NoOp == [op |-> "none", points |-> {}]

\* What a logged operation does to a set of points.  Pushing down a deletion
\* deletes everything.
RunOn(S, o) == IF o.op = "ADD_POINT" THEN S \cup o.points ELSE S \ o.points

\* An operation on a whole tree adds a point below one son and deletes below both.
Reaches(o) == IF o.op = "ADD_POINT" THEN {SonOf(p) : p \in o.points} ELSE Sons
RunOnRoot(t, o) == [r \in Sons |-> IF r \in Reaches(o) THEN RunOn(t[r], o) ELSE t[r]]

\* The points that operations, in their order, leave of the points S below son r: a point
\* is as the last operation left it that reached it.
Reached(o, r, p) == r \in Reaches(o) /\ p \in o.points
RunAll(S, log, r) ==
  {p \in S \cup UNION {log[i].points : i \in DOMAIN log} :
     LET touching == {i \in DOMAIN log : Reached(log[i], r, p)}
     IN  IF touching = {} THEN p \in S
         ELSE \E i \in touching : (\A j \in touching : j <= i) /\ log[i].op = "ADD_POINT"}

\* What searches find: a deletion still to be pushed down hides the points.
Below(r) == IF push[r] THEN {} ELSE tree[r]
Visible == Below("left") \cup Below("right")

\* Of the points of a cell Add_Points keeps the one nearest to its middle.
Nearest(S) == CHOOSE p \in S : \A q \in S : p <= q
Keeps(p, stored) == Cardinality(stored) > 1 \/ Nearest(stored \cup {p}) = p
Downsampled(S, p, c) ==
  IF Keeps(p, S \cap c) THEN (S \ c) \cup {Nearest((S \cap c) \cup {p})} ELSE S

Subtrees == Sons \cup {"root"}
Status == {"tree", "replaced", "freed"}
At(place) == [in |-> place, counted |-> {}, sons |-> Sons, boxes |-> "unread",
              nodes |-> [t \in Subtrees |-> "tree"]]

Init ==
  /\ tree = [r \in Sons |-> InitPoints \cap PointsOf(r)]
  /\ push = [r \in Sons |-> FALSE]
  /\ Rebuild_Ptr = "none" /\ rebuild_flag = FALSE /\ Rebuild_Logger = <<>>
  /\ search_mutex_counter = 0
  /\ rpc = "idle" /\ new = [r \in Sons |-> {}] /\ operation = NoOp /\ error = FALSE
  /\ mpc = "idle" /\ plan = <<>> /\ todo = {} /\ at = "none"
  /\ cell = {} /\ arrival = 0 /\ range = "none" /\ ops = 0
  /\ where = [s \in Searchers |-> At("out")]
  /\ races = {} /\ expected = InitPoints

------------------------------------------------------------------------------
(***************************************************************************)
(* The rebuild thread.                                                     *)
(***************************************************************************)
\* It holds rebuild_ptr_mutex_lock for the whole of a rebuild, working_flag_mutex
\* while it copies, while it looks at the log, and while it swaps.
RebuildPtrLocked == rpc # "idle"
WorkingLocked == rpc \in {"lock_search", "flatten", "unlock_search", "drain",
                          "lock_search_again", "swap", "unlock_search_again", "reset"}
\* Search_by_range keeps search_flag_mutex while it is below a son being rebuilt.
SearchFlagLocked == mpc = "range_locked"

Target == IF Rebuild_Ptr = "root" THEN Sons ELSE {Rebuild_Ptr} \ {"none"}
RebuildKeeps == UNCHANGED <<mainVars, where>>

\* The pointers to the nodes of ts that searches hold lead from there on to nodes that are
\* replaced, or freed.
Outdate(ts, from, to) ==
  where' = [s \in Searchers |->
              IF where[s].in \in {"out", "done"} THEN where[s]
              ELSE [where[s] EXCEPT !.nodes =
                      [t \in Subtrees |-> IF t \in ts /\ @[t] = from THEN to ELSE @[t]]]]

StartRebuild ==
  /\ rpc = "idle" /\ Rebuild_Ptr # "none"
  /\ error' = (error \/ Rebuild_Logger # <<>>)
  /\ rebuild_flag' = TRUE
  /\ rpc' = "lock_search"
  /\ UNCHANGED <<treeVars, Rebuild_Ptr, Rebuild_Logger, search_mutex_counter, new,
                 operation, range>> /\ RebuildKeeps

\* Mutant: it does not wait.
LockSearchAtOnce(from, to) ==
  /\ rpc = from /\ ~SearchFlagLocked
  /\ search_mutex_counter' = -1
  /\ rpc' = to
  /\ UNCHANGED <<treeVars, Rebuild_Ptr, rebuild_flag, Rebuild_Logger, new, operation,
                 error, range>> /\ RebuildKeeps

\* Both times it waits for the searches inside the subtree to end.
LockSearch(from, to) ==
  /\ rpc = from /\ ~SearchFlagLocked
  /\ search_mutex_counter = 0
  /\ search_mutex_counter' = -1
  /\ rpc' = to
  /\ UNCHANGED <<treeVars, Rebuild_Ptr, rebuild_flag, Rebuild_Logger, new, operation,
                 error, range>> /\ RebuildKeeps

\* Mutants: it does not take search_flag_mutex; it leaves the counter at -1.
UnlockSearchUnlocked(from, to) ==
  /\ rpc = from
  /\ search_mutex_counter' = 0
  /\ rpc' = to
  /\ UNCHANGED <<treeVars, Rebuild_Ptr, rebuild_flag, Rebuild_Logger, new, operation,
                 error, range>> /\ RebuildKeeps

UnlockSearchForgotten(from, to) ==
  /\ rpc = from /\ ~SearchFlagLocked
  /\ rpc' = to
  /\ UNCHANGED <<treeVars, sharedVars, new, operation, error, range>> /\ RebuildKeeps

UnlockSearch(from, to) ==
  /\ rpc = from /\ ~SearchFlagLocked
  /\ search_mutex_counter' = 0
  /\ rpc' = to
  /\ UNCHANGED <<treeVars, Rebuild_Ptr, rebuild_flag, Rebuild_Logger, new, operation,
                 error, range>> /\ RebuildKeeps

\* flatten pushes deletions down inside the subtree as it copies.
Flatten ==
  /\ rpc = "flatten"
  /\ new' = [r \in Sons |-> IF Rebuild_Ptr = "root" THEN Below(r)
                            ELSE IF r \in Target THEN tree[r] ELSE {}]
  /\ rpc' = "unlock_search"
  /\ UNCHANGED <<treeVars, sharedVars, operation, error, range>> /\ RebuildKeeps

\* With nothing to build, new_root_node stays null and the swap dereferences it.
BuildTree ==
  /\ rpc = "build"
  /\ rpc' = IF \A r \in Sons : new[r] = {} THEN "crashed" ELSE "drain"
  /\ UNCHANGED <<treeVars, sharedVars, new, operation, error, range>> /\ RebuildKeeps

\* Mutant: the operation stays in the log.
PopOperationKeepsFront ==
  /\ rpc = "drain" /\ Rebuild_Logger # <<>>
  /\ operation' = Head(Rebuild_Logger)
  /\ rpc' = "run"
  /\ UNCHANGED <<treeVars, sharedVars, new, error, range>> /\ RebuildKeeps

PopOperation ==
  /\ rpc = "drain" /\ Rebuild_Logger # <<>>
  /\ operation' = Head(Rebuild_Logger)
  /\ Rebuild_Logger' = Tail(Rebuild_Logger)
  /\ rpc' = "run"
  /\ UNCHANGED <<treeVars, Rebuild_Ptr, rebuild_flag, search_mutex_counter, new, error,
                 range>> /\ RebuildKeeps

\* An operation replayed on a subtree does not ask where its points belong.
run_operation ==
  /\ rpc = "run"
  /\ new' = IF Rebuild_Ptr = "root" THEN RunOnRoot(new, operation)
            ELSE [r \in Sons |-> IF r \in Target THEN RunOn(new[r], operation) ELSE new[r]]
  /\ operation' = NoOp
  /\ rpc' = "drain"
  /\ UNCHANGED <<treeVars, sharedVars, error, range>> /\ RebuildKeeps

DrainEnds ==
  /\ rpc = "drain" /\ Rebuild_Logger = <<>>
  /\ rpc' = "lock_search_again"
  /\ UNCHANGED <<treeVars, sharedVars, new, operation, error, range>> /\ RebuildKeeps

\* A new root has nothing to push down.
Swap ==
  /\ rpc = "swap"
  /\ tree' = [r \in Sons |-> IF r \in Target THEN new[r] ELSE tree[r]]
  /\ push' = [r \in Sons |-> push[r] /\ Rebuild_Ptr # "root"]
  /\ range' = IF range = "tree" /\ (Rebuild_Ptr = "root" \/ mpc = "range_locked")
                THEN "replaced" ELSE range
  /\ Outdate(Target \cup {Rebuild_Ptr}, "tree", "replaced")
  /\ rpc' = "unlock_search_again"
  /\ UNCHANGED <<sharedVars, new, operation, error, mainVars>>

ResetRebuildPtr ==
  /\ rpc = "reset"
  /\ Rebuild_Ptr' = "none"
  /\ rpc' = "reset_flag"
  /\ UNCHANGED <<treeVars, rebuild_flag, Rebuild_Logger, search_mutex_counter, new,
                 operation, error, range>> /\ RebuildKeeps

ResetRebuildFlag ==
  /\ rpc = "reset_flag"
  /\ rebuild_flag' = FALSE
  /\ rpc' = "delete"
  /\ UNCHANGED <<treeVars, Rebuild_Ptr, Rebuild_Logger, search_mutex_counter, new,
                 operation, error, range>> /\ RebuildKeeps

DeleteTreeNodes ==
  /\ rpc = "delete"
  /\ range' = IF range = "replaced" THEN "freed" ELSE range
  /\ Outdate(Subtrees, "replaced", "freed")
  /\ new' = [r \in Sons |-> {}]
  /\ rpc' = "idle"
  /\ UNCHANGED <<treeVars, sharedVars, operation, error, mainVars>>

RebuildStep ==
  \/ StartRebuild \/ LockSearch("lock_search", "flatten") \/ Flatten
  \/ UnlockSearch("unlock_search", "build") \/ BuildTree
  \/ PopOperation \/ run_operation \/ DrainEnds
  \/ LockSearch("lock_search_again", "swap") \/ Swap
  \/ UnlockSearch("unlock_search_again", "reset")
  \/ ResetRebuildPtr \/ ResetRebuildFlag \/ DeleteTreeNodes

------------------------------------------------------------------------------
(***************************************************************************)
(* The mapping thread.                                                     *)
(***************************************************************************)
\* A null new_root_node ends the process.
Alive == rpc # "crashed"
MainKeeps == Alive /\ UNCHANGED rebuildVars
Log(o) == Rebuild_Logger' = IF rebuild_flag THEN Append(Rebuild_Logger, o) ELSE Rebuild_Logger

Begin(kind) == mpc = "idle" /\ ops < MaxOps /\ kind \in Operations /\ ops' = ops + 1

\* Add_Points without downsampling, for a point that is not in the map.
AddPoint(p) ==
  /\ Begin("add") /\ p \notin expected
  /\ expected' = expected \cup {p}
  /\ plan' = <<Add(p)>> /\ mpc' = "check"
  /\ UNCHANGED <<treeVars, sharedVars, todo, at, cell, arrival, range, where, races>>
  /\ MainKeeps

DeletePointBox(box) ==
  /\ Begin("delete")
  /\ expected' = expected \ box
  /\ plan' = <<Delete(box)>> /\ mpc' = "check"
  /\ UNCHANGED <<treeVars, sharedVars, todo, at, cell, arrival, range, where, races>>
  /\ MainKeeps

\* Add_Points with downsampling first searches the cell of the point, from
\* Root_Node and whether or not that is being rebuilt.
AddPointDownsampled(p, c) ==
  /\ Begin("downsample") /\ p \in c \ expected
  /\ expected' = Downsampled(expected, p, c)
  /\ cell' = c /\ arrival' = p
  /\ range' = "tree" /\ mpc' = "range"
  /\ UNCHANGED <<treeVars, sharedVars, plan, todo, at, where, races>> /\ MainKeeps

\* Push_Down at the root, left son first; a son that is being rebuilt is locked.
PushPoints == {"range", "push"}
Pushed == at = "none" /\ \A r \in Sons : ~push[r]

PushDown(r) ==
  /\ mpc \in PushPoints /\ at = "none"
  /\ push[r] /\ (r = "right" => ~push["left"])
  /\ IF Rebuild_Ptr = r
       THEN at' = r /\ UNCHANGED treeVars
       ELSE /\ tree' = [tree EXCEPT ![r] = {}]
            /\ push' = [push EXCEPT ![r] = FALSE]
            /\ UNCHANGED at
  /\ UNCHANGED <<sharedVars, mpc, plan, todo, cell, arrival, ops, races, expected, range,
                 where>> /\ MainKeeps

\* Mutant: the deletion pushed into a subtree being rebuilt is not logged.
PushDownUnlogged ==
  /\ mpc \in PushPoints /\ at # "none" /\ ~WorkingLocked
  /\ tree' = [tree EXCEPT ![at] = {}]
  /\ push' = [push EXCEPT ![at] = FALSE]
  /\ at' = "none"
  /\ UNCHANGED <<sharedVars, mpc, plan, todo, cell, arrival, ops, races, expected, range,
                 where>> /\ MainKeeps

PushDownLocked ==
  /\ mpc \in PushPoints /\ at # "none" /\ ~WorkingLocked
  /\ tree' = [tree EXCEPT ![at] = {}]
  /\ push' = [push EXCEPT ![at] = FALSE]
  /\ Log(PUSH_DOWN)
  /\ at' = "none"
  /\ UNCHANGED <<Rebuild_Ptr, rebuild_flag, search_mutex_counter, mpc, plan, todo, cell,
                 arrival, ops, races, expected, range, where>> /\ MainKeeps

\* Search_by_range below a son holds search_flag_mutex if that son is being rebuilt.
RangeEnterSon ==
  /\ mpc = "range" /\ Pushed
  /\ mpc' = IF Rebuild_Ptr = SonOf(arrival) THEN "range_locked" ELSE "range_son"
  /\ UNCHANGED <<treeVars, sharedVars, plan, todo, at, cell, arrival, ops, races, expected,
                 range, where>> /\ MainKeeps

\* Freed nodes may hold anything.
RangeEnd ==
  /\ mpc \in {"range_son", "range_locked"}
  /\ \E stored \in IF range = "freed" THEN SUBSET cell
                    ELSE {Below(SonOf(arrival)) \cap cell} :
       plan' = IF Keeps(arrival, stored)
                 THEN (IF stored = {} THEN <<>> ELSE <<Delete(cell)>>)
                        \o <<Add(Nearest(stored \cup {arrival}))>>
                 ELSE <<>>
  /\ mpc' = IF plan' = <<>> THEN "idle" ELSE "check"
  /\ races' = IF range = "freed" THEN races \cup {"freed"} ELSE races
  /\ range' = "none"
  /\ UNCHANGED <<treeVars, sharedVars, todo, at, cell, arrival, ops, expected, where>>
  /\ MainKeeps

\* The one test of Rebuild_Ptr before an operation; deleting from a deleted tree
\* returns at once.
CheckRebuildPtr ==
  /\ mpc = "check"
  /\ mpc' = IF Rebuild_Ptr = "root" THEN "wait_root"
            ELSE IF Head(plan).op = "DELETE_BOX" /\ \A r \in Sons : push[r] THEN "idle"
            ELSE "push"
  /\ plan' = IF mpc' = "idle" THEN <<>> ELSE plan
  /\ UNCHANGED <<treeVars, sharedVars, todo, at, cell, arrival, ops, races, expected,
                 range, where>> /\ MainKeeps

\* Deleting a box that holds the whole tree only marks the root; deleting from a tree
\* that is deleted changes nothing.
Whole(o) == o.op = "DELETE_BOX" /\ o.points = Points
StopsAtRoot(o) == Whole(o) \/ (o.op = "DELETE_BOX" /\ \A r \in Sons : push[r])

\* The critical section for a tree whose root is to be rebuilt.
RunLockedOnRoot ==
  /\ mpc = "wait_root" /\ ~WorkingLocked
  /\ IF Len(plan) = 1 /\ StopsAtRoot(Head(plan))
       THEN /\ push' = [r \in Sons |-> TRUE]
            /\ UNCHANGED tree
       ELSE /\ push' = [r \in Sons |-> FALSE]
            /\ tree' = [r \in Sons |-> RunAll(Below(r), plan, r)]
  /\ Rebuild_Logger' = IF rebuild_flag THEN Rebuild_Logger \o plan ELSE Rebuild_Logger
  /\ plan' = <<>> /\ mpc' = "idle"
  /\ UNCHANGED <<Rebuild_Ptr, rebuild_flag, search_mutex_counter, todo, at, cell, arrival,
                 ops, races, expected, range, where>> /\ MainKeeps

\* The next operation goes straight to the tree: Rebuild_Ptr is not tested again.
NextOperation ==
  /\ plan' = Tail(plan)
  /\ mpc' = IF plan' = <<>> THEN "idle" ELSE "push"

DeleteWhole ==
  /\ mpc = "push" /\ Pushed /\ Whole(Head(plan))
  /\ push' = [r \in Sons |-> TRUE]
  /\ NextOperation
  /\ UNCHANGED <<tree, sharedVars, todo, at, cell, arrival, ops, races, expected, range,
                 where>> /\ MainKeeps

Descend ==
  /\ mpc = "push" /\ Pushed /\ ~Whole(Head(plan))
  /\ todo' = Reaches(Head(plan))
  /\ mpc' = "descend"
  /\ UNCHANGED <<treeVars, sharedVars, plan, at, cell, arrival, ops, races, expected,
                 range, where>> /\ MainKeeps

\* Rebuild, when Criterion_Check asks for it: a larger subtree replaces a smaller
\* one, and the pointer stays while the rebuild thread has its mutex.  Smaller
\* subtrees are rebuilt on the spot, which changes no point.
MayRequestRebuild(t) ==
  \/ UNCHANGED Rebuild_Ptr
  \/ ~RebuildPtrLocked /\ (t = "root" \/ Rebuild_Ptr # "root") /\ Rebuild_Ptr' = t

VisitSon(r) ==
  /\ mpc = "descend" /\ at = "none"
  /\ r \in todo /\ (r = "right" => "left" \notin todo)
  /\ IF Rebuild_Ptr = r
       THEN at' = r /\ UNCHANGED <<tree, todo, races, Rebuild_Ptr>>
       ELSE /\ tree' = [tree EXCEPT ![r] = RunOn(@, Head(plan))]
            /\ todo' = todo \ {r}
            /\ races' = IF Rebuild_Ptr = "root" THEN races \cup {"unlogged"} ELSE races
            /\ MayRequestRebuild(r)
            /\ UNCHANGED at
  /\ UNCHANGED <<push, rebuild_flag, Rebuild_Logger, search_mutex_counter, mpc, plan, cell,
                 arrival, ops, expected, range, where>> /\ MainKeeps

\* Mutant: an operation below a son that is being rebuilt is not logged.
VisitSonUnlogged ==
  /\ mpc = "descend" /\ at # "none" /\ ~WorkingLocked
  /\ tree' = [tree EXCEPT ![at] = RunOn(@, Head(plan))]
  /\ todo' = todo \ {at} /\ at' = "none"
  /\ UNCHANGED <<push, sharedVars, mpc, plan, cell, arrival, ops, races, expected, range,
                 where>> /\ MainKeeps

VisitSonLocked ==
  /\ mpc = "descend" /\ at # "none" /\ ~WorkingLocked
  /\ tree' = [tree EXCEPT ![at] = RunOn(@, Head(plan))]
  /\ Log(Head(plan))
  /\ todo' = todo \ {at} /\ at' = "none"
  /\ UNCHANGED <<push, Rebuild_Ptr, rebuild_flag, search_mutex_counter, mpc, plan, cell,
                 arrival, ops, races, expected, range, where>> /\ MainKeeps

Unwind ==
  /\ mpc = "descend" /\ at = "none" /\ todo = {}
  /\ MayRequestRebuild("root")
  /\ NextOperation
  /\ UNCHANGED <<treeVars, rebuild_flag, Rebuild_Logger, search_mutex_counter, todo, at,
                 cell, arrival, ops, races, expected, range, where>> /\ MainKeeps

\* The correspondence step searches the map in parallel; the mapping thread waits.
SearchKeeps ==
  UNCHANGED <<treeVars, Rebuild_Ptr, rebuild_flag, Rebuild_Logger, plan, todo, at, cell,
              arrival, races, expected, range>> /\ MainKeeps

BeginSearch ==
  /\ mpc = "idle" /\ ops < MaxOps /\ ops' = ops + 1 /\ Searchers # {}
  /\ mpc' = "search"
  /\ where' = [s \in Searchers |-> At("ready")]
  /\ UNCHANGED search_mutex_counter /\ SearchKeeps

\* Where a pointer leads that is loaded again: the sons of nodes no longer in the tree
\* are not in it either.
Reloaded(s, t) == IF t = "root" THEN "tree" ELSE where[s].nodes["root"]

\* Searcher s is on the nodes of t, which are those nodes; the sons of the root are
\* reached from it.
On(s, t, nodes, counted) ==
  where' = [where EXCEPT ![s] =
              [where[s] EXCEPT !.in = t, !.sons = @ \ {t}, !.counted = counted,
                               !.nodes = [u \in Subtrees |->
                                            IF u = t \/ t = "root" THEN nodes ELSE @[u]]]]

\* Nearest_Search and Search count themselves where they enter the subtree that is to
\* be rebuilt, and wait while the rebuild thread has set the counter to -1.  The test
\* and the count are one step: while a search runs, Rebuild_Ptr can only be reset.
EnterCounted(s, t) ==
  /\ Rebuild_Ptr = t /\ search_mutex_counter # -1
  /\ On(s, t, Reloaded(s, t), where[s].counted \cup {t})
  /\ search_mutex_counter' = search_mutex_counter + 1
  /\ UNCHANGED <<mpc, ops>> /\ SearchKeeps

\* The pointer is tested without a lock: one loaded before the swap differs from
\* *Rebuild_Ptr after it, and may be the one that is followed.
EnterUncounted(s, t) ==
  /\ Rebuild_Ptr # t \/ where[s].nodes[t] # "tree"
  /\ \E nodes \in {where[s].nodes[t], Reloaded(s, t)} : On(s, t, nodes, where[s].counted)
  /\ UNCHANGED <<search_mutex_counter, mpc, ops>> /\ SearchKeeps

Enter(s, t) == EnterCounted(s, t) \/ EnterUncounted(s, t)

Nearest_Search(s) == mpc = "search" /\ where[s].in = "ready" /\ Enter(s, "root")

\* The boxes of both sons are read from the root, unless it is deleted, before Rebuild_Ptr
\* is looked at: neither counted nor locked.  What is read of freed nodes may change what
\* the search finds.
calc_box_dist(s) ==
  /\ where[s].in = "root" /\ where[s].boxes = "unread" /\ \A q \in Sons : ~push[q]
  /\ \E loaded \in [Sons -> Status] :
       /\ \A r \in Sons : loaded[r] \in {where[s].nodes[r], Reloaded(s, r)}
       /\ where' = [where EXCEPT ![s] =
                      [where[s] EXCEPT
                         !.boxes = IF \E r \in Sons : loaded[r] = "freed"
                                     THEN "freed" ELSE "read",
                         !.nodes = [t \in Subtrees |->
                                      IF t \in Sons THEN loaded[t] ELSE @[t]]]]
  /\ UNCHANGED <<search_mutex_counter, mpc, ops>> /\ SearchKeeps

\* Both sons, the nearer one first; a son that is too far away is left out.
SearchSon(s, r) ==
  /\ where[s].in = "root" /\ where[s].boxes # "unread" /\ r \in where[s].sons
  /\ Enter(s, r)

\* A search that leaves t is on the node above it, or done.
Above(s, t) ==
  where' = [where EXCEPT ![s] =
              IF t = "root" THEN [At("done") EXCEPT !.counted = where[s].counted \ {t}]
              ELSE [where[s] EXCEPT !.in = "root", !.counted = @ \ {t}]]

\* Mutant: a search that ends stays counted.
LeaveStaysCounted(s) ==
  /\ where[s].in \in Subtrees
  /\ Above(s, where[s].in)
  /\ UNCHANGED <<search_mutex_counter, mpc, ops>> /\ SearchKeeps

Leave(s) ==
  /\ where[s].in \in Subtrees
  /\ Above(s, where[s].in)
  /\ search_mutex_counter' =
       search_mutex_counter - (IF where[s].in \in where[s].counted THEN 1 ELSE 0)
  /\ UNCHANGED <<mpc, ops>> /\ SearchKeeps

EndSearch ==
  /\ mpc = "search" /\ \A s \in Searchers : where[s].in = "done"
  /\ mpc' = "idle" /\ where' = [s \in Searchers |-> At("out")]
  /\ UNCHANGED <<search_mutex_counter, ops>> /\ SearchKeeps

------------------------------------------------------------------------------
MainStep ==
  \/ \E r \in Sons : PushDown(r) \/ VisitSon(r)
  \/ RangeEnterSon \/ RangeEnd \/ CheckRebuildPtr \/ DeleteWhole \/ Descend \/ Unwind
  \/ \E s \in Searchers :
       \/ Nearest_Search(s) \/ calc_box_dist(s) \/ Leave(s)
       \/ (\E r \in Sons : SearchSon(s, r))
  \/ EndSearch

MainLocks == RunLockedOnRoot \/ PushDownLocked \/ VisitSonLocked

MainBegins ==
  \/ \E p \in Points : AddPoint(p) \/ (\E c \in Cells : AddPointDownsampled(p, c))
  \/ \E box \in Boxes : DeletePointBox(box)
  \/ BeginSearch

\* With nothing to rebuild the rebuild thread polls for ever.
Poll == (~Alive \/ (rpc = "idle" /\ Rebuild_Ptr = "none")) /\ UNCHANGED vars

Next == MainBegins \/ MainStep \/ MainLocks \/ RebuildStep \/ Poll

Spec == Init /\ [][Next]_vars

\* Both threads run.  A lock is granted to a thread that waits while it is freed again
\* and again: each holder sleeps or works before it takes the lock again.
Fairness ==
  /\ WF_vars(MainStep)
  /\ SF_vars(MainLocks)
  /\ WF_vars(RebuildStep)

FairSpec == Spec /\ Fairness

------------------------------------------------------------------------------
(***************************************************************************)
(* Properties.                                                             *)
(***************************************************************************)
\* The rebuild thread has locked searches of the subtree out.
SearchLocked == rpc \in {"flatten", "unlock_search", "swap", "unlock_search_again"}

\* Every variable has its type.
Position == [in : Subtrees \cup {"out", "ready", "done"}, counted : SUBSET Subtrees,
             sons : SUBSET Sons, boxes : {"unread", "read", "freed"},
             nodes : [Subtrees -> Status]]
Planned == {Add(p) : p \in Points} \cup {Delete(box) : box \in SUBSET Points}
TypeOK ==
  /\ tree \in [Sons -> SUBSET Points] /\ push \in [Sons -> BOOLEAN]
  /\ Rebuild_Ptr \in Sons \cup {"none", "root"} /\ rebuild_flag \in BOOLEAN
  /\ Rebuild_Logger \in Seq(Planned \cup {PUSH_DOWN})
  /\ search_mutex_counter \in Int
  /\ rpc \in {"idle", "lock_search", "flatten", "unlock_search", "build", "drain", "run",
              "lock_search_again", "swap", "unlock_search_again", "reset", "reset_flag",
              "delete", "crashed"}
  /\ new \in [Sons -> SUBSET Points] /\ operation \in Planned \cup {PUSH_DOWN, NoOp}
  /\ error \in BOOLEAN
  /\ mpc \in {"idle", "check", "wait_root", "push", "descend", "range", "range_son",
              "range_locked", "search"}
  /\ plan \in Seq(Planned) /\ Len(plan) <= 2
  /\ plan = <<>> <=> mpc \in {"idle", "range", "range_son", "range_locked", "search"}
  /\ at \in Sons \cup {"none"} /\ todo \subseteq Sons
  /\ cell \subseteq Points /\ arrival \in Points \cup {0} /\ ops \in 0 .. MaxOps
  /\ where \in [Searchers -> Position]
  /\ range \in {"none", "tree", "replaced", "freed"}
  /\ races \subseteq {"unlogged", "freed"} /\ expected \subseteq Points

\* The counter is -1 exactly while searches are locked out, and otherwise the number of
\* nodes searches have counted themselves on.
Counted == {c \in Searchers \X Subtrees : c[2] \in where[c[1]].counted}
CounterIsExact == search_mutex_counter = IF SearchLocked THEN -1 ELSE Cardinality(Counted)

\* Nothing has gone wrong that the runs that expect a violation show.
Clean == ~error /\ races = {}

\* While the rebuild thread copies, and until it has swapped, no nearest-neighbour search
\* walks the nodes it copies or swaps.  The box of a son is read from the root all the
\* same, and a search that has loaded the pointer may walk them when they are replaced.
SearchExclusion ==
  rpc \in {"flatten", "unlock_search", "swap"} =>
    \A s \in Searchers : where[s].in \notin Target \cup {Rebuild_Ptr}

\* The nodes a search is counted for are in the tree until it leaves them.
CountedSearchIsSafe ==
  \A s \in Searchers : \A t \in where[s].counted : where[s].nodes[t] = "tree"

\* From the copy to the swap, the new tree with the rest of the log replayed on it is
\* the subtree as the mapping thread has changed it meanwhile.
ToReplay == <<operation>> \o Rebuild_Logger
Replayed(r) == RunAll(new[r], ToReplay, r)
ReplayCatchesUp ==
  (Clean /\ rpc \in {"unlock_search", "build", "drain", "run", "lock_search_again", "swap"}) =>
    \A r \in Target : Replayed(r) = IF Rebuild_Ptr = "root" THEN Below(r) ELSE tree[r]

\* Between operations the map holds exactly the points the operations leave, whatever
\* was rebuilt while they ran.
MapIsExact == (Clean /\ mpc = "idle") => Visible = expected

\* A range search that holds search_flag_mutex never walks freed nodes.
LockedRangeSearchIsSafe == mpc = "range_locked" => range # "freed"

\* A rebuild ends, and so does every operation, whatever the order of their locks.
RebuildEnds == rebuild_flag ~> (~rebuild_flag \/ rpc = "crashed")
OperationsEnd == (mpc # "idle") ~> (mpc = "idle" \/ rpc = "crashed")

\* The log is empty when a rebuild starts; the code prints ERROR!!! when it is not.
LoggerEmptyAtStart == ~error

\* Updates made during a rebuild get into the new tree: the map is exact whenever no
\* entry of an earlier rebuild was left in the log and no freed node has been read.
UpdatesReachNewTree ==
  (mpc = "idle" /\ ~error /\ "freed" \notin races) => Visible = expected

\* The nodes the rebuild thread deletes are discarded: no search walks them.
DiscardedNodesUnused == range # "freed"

\* No nearest-neighbour search reads or walks them either.
DiscardedNodesUnsearched ==
  \A s \in Searchers :
    /\ where[s].boxes # "freed"
    /\ \A t \in {where[s].in} \cap Subtrees : where[s].nodes[t] # "freed"

\* Searches are kept from the nodes the rebuild thread works on.
SearchesAreSafe ==
  /\ TypeOK /\ CounterIsExact /\ SearchExclusion /\ CountedSearchIsSafe
  /\ LockedRangeSearchIsSafe

\* A rebuild, with the log of what happened meanwhile, loses and adds no point.
RebuildsAreExact == ReplayCatchesUp /\ MapIsExact

\* Nobody waits for ever for a lock, the counter or the flag.
EverybodyGetsOn == RebuildEnds /\ OperationsEnd
==============================================================================
