-------------------------- MODULE IkdTreeRebuildProofs --------------------------
(***************************************************************************)
(* The two threads of the k-d tree keep searches off the nodes that are    *)
(* copied and swapped, and a rebuild loses and adds no point, for any      *)
(* points, boxes, cells and searchers and any number of operations.        *)
(***************************************************************************)
EXTENDS IkdTreeRebuild, FiniteSetTheorems, SequenceTheorems, WellFoundedInduction, TLAPS

(***************************************************************************)
(* Searches.                                                               *)
(***************************************************************************)
Walking(s) == where[s].in \in Subtrees
Ranging == {"range", "range_son", "range_locked"}

\* A subtree is to be rebuilt and has not been replaced yet.
Pending == Rebuild_Ptr # "none" /\ rpc \notin {"unlock_search_again", "reset"}

\* A search is counted for nodes it is in only, and for each that was to be rebuilt when
\* it came there; nobody is counted while searches are locked out.  While a search runs no
\* rebuild is asked for, so that the pointers it holds are good until the swap.
SearcherInv(s) ==
  /\ where[s].counted \subseteq IF Walking(s) THEN {"root", where[s].in} ELSE {}
  /\ Pending /\ Walking(s) /\ Rebuild_Ptr = "root" => "root" \in where[s].counted
  /\ Pending /\ where[s].in \in Sons /\ Rebuild_Ptr = where[s].in =>
       where[s].in \in where[s].counted
  /\ \A t \in where[s].counted : where[s].nodes[t] = "tree"
  /\ Pending => \A t \in Subtrees : where[s].nodes[t] = "tree"
  /\ Rebuild_Ptr \in Sons => where[s].nodes["root"] = "tree"
  /\ SearchLocked => where[s].counted = {}

SearchInv ==
  /\ mpc # "search" => \A s \in Searchers : where[s] = At("out")
  /\ \A s \in Searchers : SearcherInv(s)

\* A range search that is still above the sons has had its nodes replaced only by a rebuild
\* of the root, and one that holds the mutex only while the swap waits for it.
RangeInv ==
  /\ mpc \notin Ranging => range = "none"
  /\ mpc = "range" => (range \in {"replaced", "freed"} => Rebuild_Ptr \in {"root", "none"})
  /\ mpc = "range_locked" =>
       \/ range \in {"none", "tree"}
       \/ range = "replaced" /\ rpc = "unlock_search_again"
  /\ mpc \in Ranging => cell \in Cells /\ arrival \in cell

SInv == TypeOK /\ CounterIsExact /\ SearchInv /\ RangeInv

(***************************************************************************)
(* Rebuilds.                                                               *)
(***************************************************************************)
\* What a rebuild has in hand at each of its places.
RebuildInv ==
  /\ Rebuild_Ptr = "none" => rpc \in {"idle", "reset_flag", "delete"}
  /\ rebuild_flag <=> rpc \notin {"idle", "delete"}
  /\ rpc # "run" => operation = NoOp
  /\ rpc \in {"lock_search_again", "swap"} => Rebuild_Logger = <<>>
  /\ ~error /\ rpc \in {"lock_search", "flatten"} => Rebuild_Logger = <<>>

\* Where the mapping thread waits for the rebuild thread it is for the subtree being
\* rebuilt, and what it has left to do.
MainInv ==
  /\ at # "none" =>
       /\ Rebuild_Ptr \in {at, "none"}
       /\ (mpc \in PushPoints /\ push[at]) \/ (mpc = "descend" /\ at \in todo)
  /\ mpc \in {"range_son", "range_locked", "descend"} => \A r \in Sons : ~push[r]
  /\ mpc = "descend" => todo \subseteq Reaches(Head(plan))
  /\ mpc = "wait_root" => Rebuild_Ptr \in {"root", "none"}
  /\ mpc = "push" /\ Head(plan).op = "DELETE_BOX" => Rebuild_Ptr # "root"
  /\ Len(plan) = 2 => plan[2].op = "ADD_POINT"
  /\ Len(plan) = 2 /\ mpc = "check" => \A r \in Sons : ~push[r]

\* What is replayed below a son is of that son.
Replaying == rpc \in {"unlock_search", "build", "drain", "run", "lock_search_again", "swap"}
LogInv ==
  Clean /\ Replaying /\ Rebuild_Ptr # "root" =>
    /\ Target \subseteq Reaches(operation)
    /\ \A i \in DOMAIN Rebuild_Logger : Target \subseteq Reaches(Rebuild_Logger[i])

\* What operations leave of a set of points.
After(S, log) == IF log = <<>> THEN S
                 ELSE IF Len(log) = 1 THEN RunOn(S, log[1])
                 ELSE RunOn(RunOn(S, log[1]), log[2])

\* The points there are when the sons still to be visited have been.
Completed ==
  UNION {IF r \in todo THEN RunOn(tree[r], Head(plan)) ELSE tree[r] : r \in Sons}

\* The map, with what the mapping thread has left to do, is as it should be.
ContentInv ==
  /\ \A r \in Sons : tree[r] \subseteq PointsOf(r)
  /\ mpc \in {"idle", "search"} => Visible = expected
  /\ mpc \in {"check", "wait_root", "push"} => After(Visible, plan) = expected
  /\ mpc = "descend" => After(Completed, Tail(plan)) = expected
  /\ mpc \in Ranging => Downsampled(Visible, arrival, cell) = expected

IInv ==
  /\ SInv /\ RebuildInv /\ MainInv /\ LogInv
  /\ Clean => ContentInv
  /\ ReplayCatchesUp

------------------------------------------------------------------------------
(***************************************************************************)
(* The operators of the model.                                             *)
(***************************************************************************)
Operation == Planned \cup {PUSH_DOWN, NoOp}

LEMMA OperationPoints ==
  ASSUME NEW o \in Operation
  PROVE  /\ o.points \subseteq Points
         /\ o.op = "ADD_POINT" => \E p \in Points : o = Add(p)
         /\ o.op # "ADD_POINT" => Reaches(o) = Sons
         /\ \A S \in SUBSET Points : RunOn(S, o) \in SUBSET Points
<1>1. CASE \E p \in Points : o = Add(p)
  BY <1>1 DEF Add, RunOn
<1>2. CASE \E box \in SUBSET Points : o = Delete(box)
  BY <1>2 DEF Delete, RunOn, Reaches
<1>3. CASE o \in {PUSH_DOWN, NoOp}
  BY <1>3 DEF PUSH_DOWN, NoOp, RunOn, Reaches
<1> QED
  BY <1>1, <1>2, <1>3 DEF Operation, Planned

LEMMA SonOfPoint ==
  ASSUME NEW p \in Points
  PROVE  /\ SonOf(p) \in Sons /\ p \in PointsOf(SonOf(p))
         /\ Reaches(Add(p)) = {SonOf(p)}
         /\ \A r \in Sons : p \in PointsOf(r) => r = SonOf(p)
BY IkdAssumption DEF SonOf, Sons, PointsOf, Points, Reaches, Add

\* Of any points there is a nearest one.
LEMMA NearestIsOne ==
  ASSUME NEW S \in SUBSET Points, S # {}
  PROVE  Nearest(S) \in S
<1>1. S \subseteq Nat
  BY IkdAssumption
<1>2. IsWellFoundedOn(OpToRel(<, Nat), Nat)
  BY NatLessThanWellFounded
<1>3. PICK p \in S : \A q \in S : <<q, p>> \notin OpToRel(<, Nat)
  BY <1>1, <1>2, WFMin, Zenon
<1>4. \A a, b \in Nat : a < b => <<a, b>> \in OpToRel(<, Nat)
  BY Zenon DEF OpToRel
<1>5. \A q \in S : ~(q < p)
  BY <1>1, <1>3, <1>4, Zenon
<1>6. \A q \in S : p <= q
  BY <1>1, <1>5
<1> QED
  BY <1>6 DEF Nearest

LEMMA DownsampledType ==
  ASSUME NEW S \in SUBSET Points, NEW p \in Points, NEW c \in SUBSET Points
  PROVE  Downsampled(S, p, c) \in SUBSET Points
BY NearestIsOne DEF Downsampled

\* One operation, as it reaches son r.
Step(S, o, r) == IF r \in Reaches(o) THEN RunOn(S, o) ELSE S

LEMMA RunAllType ==
  ASSUME NEW S \in SUBSET Points, NEW log \in Seq(Operation), NEW r
  PROVE  RunAll(S, log, r) \in SUBSET Points
<1>1. \A i \in DOMAIN log : log[i].points \subseteq Points
  BY OperationPoints
<1> QED
  BY <1>1 DEF RunAll

LEMMA RunAllEmpty == ASSUME NEW S, NEW r PROVE RunAll(S, <<>>, r) = S
BY DEF RunAll

\* Adding an operation at the end applies it to what the others leave.
LEMMA RunAllAppend ==
  ASSUME NEW S, NEW log \in Seq(Operation), NEW o \in Operation, NEW r
  PROVE  RunAll(S, Append(log, o), r) = Step(RunAll(S, log, r), o, r)
<1> DEFINE all == Append(log, o)
           Touching(l, p) == {i \in DOMAIN l : Reached(l[i], r, p)}
           Left(l, p) == IF Touching(l, p) = {} THEN p \in S
                         ELSE \E i \in Touching(l, p) : /\ \A j \in Touching(l, p) : j <= i
                                                       /\ l[i].op = "ADD_POINT"
<1>1. /\ DOMAIN all = 1 .. Len(log) + 1 /\ DOMAIN log = 1 .. Len(log) /\ Len(log) \in Nat
      /\ all[Len(log) + 1] = o /\ \A i \in DOMAIN log : all[i] = log[i]
  OBVIOUS
<1>2. ASSUME NEW p, Reached(o, r, p)
      PROVE  Left(all, p) <=> o.op = "ADD_POINT"
  <2>1. Len(log) + 1 \in Touching(all, p) /\ \A j \in Touching(all, p) : j <= Len(log) + 1
    BY <1>1, <1>2
  <2>2. \A i \in Touching(all, p) :
          (\A j \in Touching(all, p) : j <= i) => i = Len(log) + 1
    BY <1>1, <2>1
  <2> QED
    BY <1>1, <2>1, <2>2
<1>3. ASSUME NEW p, ~Reached(o, r, p)
      PROVE  Left(all, p) <=> Left(log, p)
  <2>1. Touching(all, p) = Touching(log, p)
    BY <1>1, <1>3
  <2>2. \A i \in Touching(log, p) : all[i] = log[i]
    BY <1>1
  <2> QED
    BY <2>1, <2>2
<1>4. \A p : p \in RunAll(S, all, r) <=> Left(all, p)
  BY DEF RunAll, Reached
<1>5. \A p : p \in RunAll(S, log, r) <=> Left(log, p)
  BY DEF RunAll, Reached
<1>6. ASSUME NEW p PROVE p \in RunAll(S, all, r) <=> p \in Step(RunAll(S, log, r), o, r)
  <2>1. CASE Reached(o, r, p)
    BY <2>1, <1>2, <1>4 DEF Step, RunOn, Reached
  <2>2. CASE ~Reached(o, r, p)
    BY <2>2, <1>3, <1>4, <1>5 DEF Step, RunOn, Reached
  <2> QED
    BY <2>1, <2>2
<1> QED
  BY <1>6

\* Running the first operation at once changes nothing.
LEMMA RunAllFirst ==
  ASSUME NEW S, NEW log \in Seq(Operation), NEW o \in Operation, NEW r
  PROVE  RunAll(S, <<o>> \o log, r) = RunAll(Step(S, o, r), log, r)
<1> DEFINE all == <<o>> \o log
           Touching(l, p) == {i \in DOMAIN l : Reached(l[i], r, p)}
           Left(T, l, p) == IF Touching(l, p) = {} THEN p \in T
                            ELSE \E i \in Touching(l, p) : /\ \A j \in Touching(l, p) : j <= i
                                                          /\ l[i].op = "ADD_POINT"
<1>1. /\ DOMAIN all = 1 .. Len(log) + 1 /\ DOMAIN log = 1 .. Len(log) /\ Len(log) \in Nat
      /\ all[1] = o /\ \A i \in DOMAIN log : all[i + 1] = log[i]
  OBVIOUS
<1>2. ASSUME NEW p, Touching(log, p) = {}
      PROVE  Left(S, all, p) <=> Left(Step(S, o, r), log, p)
  <2>1. CASE Reached(o, r, p)
    <3>1. Touching(all, p) = {1}
      BY <1>1, <1>2, <2>1
    <3> QED
      BY <1>1, <1>2, <2>1, <3>1 DEF Step, RunOn, Reached
  <2>2. CASE ~Reached(o, r, p)
    <3>1. Touching(all, p) = {}
      BY <1>1, <1>2, <2>2
    <3> QED
      BY <1>2, <2>2, <3>1 DEF Step, RunOn, Reached
  <2> QED
    BY <2>1, <2>2
<1>3. ASSUME NEW p, Touching(log, p) # {}
      PROVE  Left(S, all, p) <=> Left(Step(S, o, r), log, p)
  <2>1. \A i \in Touching(log, p) : i + 1 \in Touching(all, p) /\ all[i + 1].op = log[i].op
    BY <1>1
  <2>2. \A i \in Touching(all, p) : i = 1 \/ i - 1 \in Touching(log, p)
    BY <1>1
  <2>3. ASSUME Left(S, all, p) PROVE Left(Step(S, o, r), log, p)
    <3>1. PICK i \in Touching(all, p) :
            (\A j \in Touching(all, p) : j <= i) /\ all[i].op = "ADD_POINT"
      BY <1>3, <2>1, <2>3
    <3>2. PICK k \in Touching(log, p) : TRUE
      BY <1>3
    <3>3. k \in 1 .. Len(log) /\ k + 1 <= i /\ i \in 1 .. Len(log) + 1
      BY <1>1, <2>1, <3>1, <3>2
    <3>4. i - 1 \in Touching(log, p)
      BY <2>2, <3>1, <3>3
    <3>5. log[i - 1].op = "ADD_POINT"
      BY <1>1, <2>1, <3>1, <3>3, <3>4
    <3>6. \A j \in Touching(log, p) : j <= i - 1
      BY <1>1, <2>1, <3>1, <3>3
    <3> QED
      BY <3>4, <3>5, <3>6
  <2>4. ASSUME Left(Step(S, o, r), log, p) PROVE Left(S, all, p)
    <3>1. PICK i \in Touching(log, p) :
            (\A j \in Touching(log, p) : j <= i) /\ log[i].op = "ADD_POINT"
      BY <1>3, <2>4
    <3>2. \A j \in Touching(all, p) : j <= i + 1
      BY <1>1, <2>2, <3>1
    <3> QED
      BY <2>1, <3>1, <3>2
  <2> QED
    BY <2>3, <2>4
<1>4. \A p : p \in RunAll(S, all, r) <=> Left(S, all, p)
  BY DEF RunAll, Reached
<1>5. \A p : p \in RunAll(Step(S, o, r), log, r) <=> Left(Step(S, o, r), log, p)
  BY DEF RunAll, Reached
<1> QED
  BY <1>2, <1>3, <1>4, <1>5

------------------------------------------------------------------------------
(***************************************************************************)
(* Types.                                                                  *)
(***************************************************************************)
LEMMA OperationType == Planned \cup {PUSH_DOWN} \subseteq Operation /\ NoOp \in Operation
BY DEF Operation

(***************************************************************************)
(* How a search moves.                                                     *)
(***************************************************************************)
LEMMA OnMoves ==
  ASSUME TypeOK, NEW s \in Searchers, NEW t \in Subtrees, NEW n \in Status,
         NEW counted \in SUBSET Subtrees, On(s, t, n, counted)
  PROVE  /\ where' \in [Searchers -> Position]
         /\ \A q \in Searchers \ {s} : where'[q] = where[q]
         /\ where'[s].in = t /\ where'[s].counted = counted
         /\ \A u \in Subtrees :
              where'[s].nodes[u] = IF u = t \/ t = "root" THEN n ELSE where[s].nodes[u]
<1>1. where[s] \in Position /\ where \in [Searchers -> Position]
  BY DEF TypeOK
<1>2. /\ where' = [q \in Searchers |-> where'[q]]
      /\ \A q \in Searchers \ {s} : where'[q] = where[q]
  BY <1>1 DEF On
<1>3. where'[s] = [in |-> t, counted |-> counted, sons |-> where[s].sons \ {t},
                   boxes |-> where[s].boxes,
                   nodes |-> [u \in Subtrees |->
                                IF u = t \/ t = "root" THEN n ELSE where[s].nodes[u]]]
  BY <1>1 DEF On, Position
<1>4. where'[s] \in Position
  BY <1>1, <1>3 DEF Position
<1> QED
  BY <1>1, <1>2, <1>3, <1>4

LEMMA EnterMoves ==
  ASSUME TypeOK, NEW s \in Searchers, NEW t \in Subtrees, Enter(s, t)
  PROVE  \E n \in {where[s].nodes[t], Reloaded(s, t)} :
           /\ n \in Status
           /\ \/ EnterCounted(s, t) /\ n = Reloaded(s, t)
                /\ On(s, t, n, where[s].counted \cup {t})
              \/ EnterUncounted(s, t) /\ On(s, t, n, where[s].counted)
<1>1. where[s].nodes[t] \in Status /\ Reloaded(s, t) \in Status
  BY DEF TypeOK, Position, Reloaded, Status, Subtrees
<1> QED
  BY <1>1 DEF Enter, EnterCounted, EnterUncounted

LEMMA BoxesMove ==
  ASSUME TypeOK, NEW s \in Searchers, calc_box_dist(s)
  PROVE  /\ where' \in [Searchers -> Position]
         /\ \A q \in Searchers \ {s} : where'[q] = where[q]
         /\ where'[s].in = where[s].in /\ where'[s].counted = where[s].counted
         /\ \A u \in Subtrees :
              where'[s].nodes[u] \in {where[s].nodes[u]}
                                      \cup IF u \in Sons THEN {Reloaded(s, u)} ELSE {}
<1>1. where[s] \in Position /\ where \in [Searchers -> Position]
  BY DEF TypeOK
<1>2. PICK loaded \in [Sons -> Status] :
        /\ \A r \in Sons : loaded[r] \in {where[s].nodes[r], Reloaded(s, r)}
        /\ where' = [where EXCEPT ![s] =
                       [where[s] EXCEPT
                          !.boxes = IF \E r \in Sons : loaded[r] = "freed"
                                      THEN "freed" ELSE "read",
                          !.nodes = [t \in Subtrees |->
                                       IF t \in Sons THEN loaded[t] ELSE @[t]]]]
  BY DEF calc_box_dist
<1>3. /\ where' = [q \in Searchers |-> where'[q]]
      /\ \A q \in Searchers \ {s} : where'[q] = where[q]
  BY <1>1, <1>2
<1>4. \E boxes \in {"unread", "read", "freed"} :
        where'[s] = [in |-> where[s].in, counted |-> where[s].counted,
                     sons |-> where[s].sons, boxes |-> boxes,
                     nodes |-> [t \in Subtrees |->
                                  IF t \in Sons THEN loaded[t] ELSE where[s].nodes[t]]]
  BY <1>1, <1>2 DEF Position
<1>5. where'[s] \in Position
  <2>1. [t \in Subtrees |-> IF t \in Sons THEN loaded[t] ELSE where[s].nodes[t]]
          \in [Subtrees -> Status]
    BY <1>1 DEF Position
  <2>2. /\ where[s].in \in Subtrees \cup {"out", "ready", "done"}
        /\ where[s].counted \in SUBSET Subtrees /\ where[s].sons \in SUBSET Sons
    BY <1>1 DEF Position
  <2> QED
    BY <1>4, <2>1, <2>2 DEF Position
<1>6. where' \in [Searchers -> Position]
  BY <1>1, <1>3, <1>5
<1>7. /\ where'[s].in = where[s].in /\ where'[s].counted = where[s].counted
      /\ \A t \in Subtrees :
           where'[s].nodes[t] = IF t \in Sons THEN loaded[t] ELSE where[s].nodes[t]
  BY <1>4
<1>8. \A u \in Sons : loaded[u] \in {where[s].nodes[u], Reloaded(s, u)}
  BY <1>2
<1>9. ASSUME NEW u \in Subtrees
      PROVE  where'[s].nodes[u] \in {where[s].nodes[u]}
                                      \cup IF u \in Sons THEN {Reloaded(s, u)} ELSE {}
  BY <1>7, <1>8
<1> QED
  BY <1>3, <1>6, <1>7, <1>9

LEMMA LeaveMoves ==
  ASSUME TypeOK, NEW s \in Searchers, Leave(s)
  PROVE  /\ where' \in [Searchers -> Position]
         /\ \A q \in Searchers \ {s} : where'[q] = where[q]
         /\ where[s].in \in Subtrees
         /\ where'[s].in = IF where[s].in = "root" THEN "done" ELSE "root"
         /\ where'[s].counted = where[s].counted \ {where[s].in}
         /\ \A u \in Subtrees : where'[s].nodes[u] \in {where[s].nodes[u], "tree"}
<1>1. where[s] \in Position /\ where \in [Searchers -> Position]
  BY DEF TypeOK
<1>2. where[s].in \in Subtrees
  BY DEF Leave
<1> DEFINE new_ == IF where[s].in = "root"
                     THEN [At("done") EXCEPT !.counted = where[s].counted \ {where[s].in}]
                     ELSE [where[s] EXCEPT !.in = "root", !.counted = @ \ {where[s].in}]
<1>3. CASE where[s].in = "root"
  <2>1. new_ \in Position
    BY <1>1, <1>3 DEF Position, At, Status
  <2>2. /\ new_.in = "done" /\ new_.counted = where[s].counted \ {where[s].in}
        /\ \A u \in Subtrees : new_.nodes[u] = "tree"
    BY <1>3 DEF At
  <2>3. where' = [where EXCEPT ![s] = new_]
    BY <1>3 DEF Leave, Above
  <2> HIDE DEF new_
  <2> QED
    BY <1>1, <1>2, <1>3, <2>1, <2>2, <2>3
<1>4. CASE where[s].in # "root"
  <2>1. new_ \in Position
    BY <1>1, <1>4 DEF Position, Subtrees
  <2>2. /\ new_.in = "root" /\ new_.counted = where[s].counted \ {where[s].in}
        /\ new_.nodes = where[s].nodes
    BY <1>1, <1>4 DEF Position
  <2>3. /\ where' = [q \in Searchers |-> where'[q]]
        /\ \A q \in Searchers \ {s} : where'[q] = where[q]
    BY <1>1, <1>4 DEF Leave, Above
  <2>4. where'[s] = new_
    BY <1>1, <1>4 DEF Leave, Above, Position
  <2> HIDE DEF new_
  <2> QED
    BY <1>1, <1>2, <1>4, <2>1, <2>2, <2>3, <2>4
<1> QED
  BY <1>3, <1>4

\* What becomes of the pointers searches hold when nodes are replaced or freed.
LEMMA OutdateMoves ==
  ASSUME TypeOK, NEW ts, NEW from, NEW to \in Status, Outdate(ts, from, to)
  PROVE  /\ where' \in [Searchers -> Position]
         /\ \A s \in Searchers :
              /\ where'[s].in = where[s].in /\ where'[s].counted = where[s].counted
              /\ \A t \in Subtrees :
                   \/ where'[s].nodes[t] = where[s].nodes[t]
                   \/ t \in ts /\ where[s].nodes[t] = from
         /\ mpc # "search" /\ (\A s \in Searchers : where[s] = At("out")) =>
              \A s \in Searchers : where'[s] = At("out")
<1>1. where \in [Searchers -> Position]
  BY DEF TypeOK
<1>2. ASSUME NEW s \in Searchers
      PROVE  /\ where'[s] \in Position
             /\ where'[s].in = where[s].in /\ where'[s].counted = where[s].counted
             /\ \A t \in Subtrees :
                  \/ where'[s].nodes[t] = where[s].nodes[t]
                  \/ t \in ts /\ where[s].nodes[t] = from
             /\ where[s].in = "out" => where'[s] = where[s]
  <2>1. CASE where[s].in \in {"out", "done"}
    BY <1>1, <2>1 DEF Outdate
  <2>2. CASE where[s].in \notin {"out", "done"}
    <3> DEFINE new_ == [where[s] EXCEPT !.nodes =
                          [t \in Subtrees |-> IF t \in ts /\ @[t] = from THEN to ELSE @[t]]]
    <3>1. where'[s] = new_
      BY <2>2 DEF Outdate
    <3>2. new_ \in Position /\ new_.in = where[s].in /\ new_.counted = where[s].counted
          /\ new_.nodes = [t \in Subtrees |->
                             IF t \in ts /\ where[s].nodes[t] = from THEN to
                             ELSE where[s].nodes[t]]
      BY <1>1 DEF Position
    <3> HIDE DEF new_
    <3> QED
      BY <2>2, <3>1, <3>2
  <2> QED
    BY <2>1, <2>2
<1>3. where' \in [Searchers -> Position]
  <2>1. where' = [s \in Searchers |-> where'[s]]
    BY DEF Outdate
  <2> QED
    BY <1>2, <2>1
<1> QED
  BY <1>2, <1>3 DEF At

LEMMA RebuildType ==
  ASSUME TypeOK, RebuildStep
  PROVE  TypeOK'
<1> USE DEF TypeOK, RebuildKeeps, mainVars, treeVars, sharedVars
<1>1. CASE StartRebuild
  BY <1>1 DEF StartRebuild
<1>2. ASSUME NEW from, NEW to \in {"flatten", "swap"}, LockSearch(from, to)
      PROVE  TypeOK'
  BY <1>2 DEF LockSearch
<1>3. CASE Flatten
  <2>1. new' \in [Sons -> SUBSET Points]
    BY <1>3 DEF Flatten, Below
  <2> QED
    BY <1>3, <2>1 DEF Flatten
<1>4. ASSUME NEW from, NEW to \in {"build", "reset"}, UnlockSearch(from, to)
      PROVE  TypeOK'
  BY <1>4 DEF UnlockSearch
<1>5. CASE BuildTree
  BY <1>5 DEF BuildTree
<1>6. CASE PopOperation
  <2>1. Head(Rebuild_Logger) \in Planned \cup {PUSH_DOWN}
        /\ Tail(Rebuild_Logger) \in Seq(Planned \cup {PUSH_DOWN})
    BY <1>6 DEF PopOperation
  <2> QED
    BY <1>6, <2>1 DEF PopOperation
<1>7. CASE run_operation
  <2>1. \A S \in SUBSET Points : RunOn(S, operation) \in SUBSET Points
    BY OperationPoints DEF Operation
  <2>2. new' \in [Sons -> SUBSET Points]
    BY <1>7, <2>1 DEF run_operation, RunOnRoot
  <2> QED
    BY <1>7, <2>2 DEF run_operation
<1>8. CASE DrainEnds
  BY <1>8 DEF DrainEnds
<1>9. CASE Swap
  <2>1. tree' \in [Sons -> SUBSET Points] /\ push' \in [Sons -> BOOLEAN]
    BY <1>9 DEF Swap
  <2>2. where' \in [Searchers -> Position]
    BY <1>9, OutdateMoves DEF Swap, Status
  <2>3. range' \in {"none", "tree", "replaced", "freed"}
    BY <1>9 DEF Swap
  <2> QED
    BY <1>9, <2>1, <2>2, <2>3 DEF Swap
<1>10. CASE ResetRebuildPtr
  BY <1>10 DEF ResetRebuildPtr
<1>11. CASE ResetRebuildFlag
  <2>1. rebuild_flag' \in BOOLEAN
    BY <1>11, Zenon DEF ResetRebuildFlag
  <2> QED
    BY <1>11, <2>1 DEF ResetRebuildFlag
<1>12. CASE DeleteTreeNodes
  <2>1. where' \in [Searchers -> Position]
    BY <1>12, OutdateMoves DEF DeleteTreeNodes, Status
  <2> QED
    BY <1>12, <2>1 DEF DeleteTreeNodes
<1> QED
  BY <1>1, <1>2, <1>3, <1>4, <1>5, <1>6, <1>7, <1>8, <1>9, <1>10, <1>11,
     <1>12 DEF RebuildStep

\* Adding a point and deleting a box can be planned.
LEMMA PlannedOperations ==
  /\ \A p \in Points : Add(p) \in Planned
  /\ \A box \in SUBSET Points : Delete(box) \in Planned
BY DEF Planned

LEMMA BeginType ==
  ASSUME TypeOK, MainBegins
  PROVE  TypeOK'
<1> USE DEF TypeOK, MainKeeps, treeVars, sharedVars, rebuildVars
<1>1. CASE \E p \in Points : AddPoint(p)
  BY <1>1, PlannedOperations, IkdAssumption DEF AddPoint, Begin
<1>2. CASE \E p \in Points, c \in Cells : AddPointDownsampled(p, c)
  <2>1. PICK p \in Points, c \in Cells : AddPointDownsampled(p, c)
    BY <1>2
  <2>2. c \in SUBSET Points
    BY IkdAssumption DEF Points
  <2>3. Downsampled(expected, p, c) \in SUBSET Points
    BY <2>2, DownsampledType
  <2> QED
    BY <2>1, <2>2, <2>3, IkdAssumption DEF AddPointDownsampled, Begin
<1>3. CASE \E box \in Boxes : DeletePointBox(box)
  BY <1>3, PlannedOperations, IkdAssumption DEF DeletePointBox, Begin
<1>4. CASE BeginSearch
  <2>1. where' \in [Searchers -> Position]
    BY <1>4 DEF BeginSearch, At, Position, Status
  <2> QED
    BY <1>4, <2>1, IkdAssumption DEF BeginSearch, Begin, SearchKeeps
<1> QED
  BY <1>1, <1>2, <1>3, <1>4 DEF MainBegins

\* Sequences of at most two elements.
LEMMA LenZero == ASSUME NEW S, NEW p \in Seq(S), Len(p) = 0 PROVE p = <<>>
OBVIOUS

LEMMA LenOne == ASSUME NEW S, NEW p \in Seq(S), Len(p) = 1 PROVE p = <<p[1]>>
OBVIOUS

LEMMA LenTwo == ASSUME NEW S, NEW p \in Seq(S), Len(p) = 2 PROVE p = <<p[1], p[2]>>
OBVIOUS

LEMMA RestOfShort ==
  ASSUME NEW S, NEW p \in Seq(S), NEW q \in Seq(S), p # <<>>, Len(p) <= 2,
         Len(q) = Len(p) - 1, \A i \in 1 .. Len(q) : q[i] = p[i + 1]
  PROVE  /\ Len(p) = 1 \/ Len(p) = 2
         /\ p[1] \in S
         /\ Len(p) = 1 <=> q = <<>>
         /\ Len(p) = 2 => q = <<p[2]>> /\ p[2] \in S
         /\ Len(q) <= 1
<1>1. PICK n \in Nat : n = Len(p)
  OBVIOUS
<1>2. n # 0
  BY <1>1, LenZero, Zenon
<1>3. n = 1 \/ n = 2
  BY <1>1, <1>2
<1>4. p[1] \in S /\ (n = 2 => p[2] \in S)
  BY <1>1, <1>3
<1>5. CASE n = 1
  <2>1. Len(q) = 0
    BY <1>1, <1>5
  <2>2. q = <<>>
    BY <2>1, LenZero, Zenon
  <2> QED
    BY <1>1, <1>4, <1>5, <2>1, <2>2
<1>6. CASE n = 2
  <2>1. Len(q) = 1
    BY <1>1, <1>6
  <2>2. q = <<q[1]>>
    BY <2>1, LenOne, Zenon
  <2>3. q[1] = p[2]
    BY <2>1
  <2>4. q = <<p[2]>>
    BY <2>2, <2>3, Zenon
  <2> QED
    BY <1>1, <1>4, <1>6, <2>1, <2>4
<1> QED
  BY <1>3, <1>5, <1>6

LEMMA ShortSequence ==
  ASSUME NEW S, NEW p \in Seq(S), p # <<>>, Len(p) <= 2
  PROVE  /\ Len(p) = 1 \/ Len(p) = 2
         /\ Head(p) = p[1] /\ p[1] \in S /\ Tail(p) \in Seq(S)
         /\ Len(p) = 1 <=> Tail(p) = <<>>
         /\ Len(p) = 2 => Tail(p) = <<p[2]>> /\ p[2] \in S
         /\ Len(Tail(p)) <= 1
<1>1. /\ Tail(p) \in Seq(S) /\ Len(Tail(p)) = Len(p) - 1
      /\ \A i \in 1 .. Len(Tail(p)) : Tail(p)[i] = p[i + 1]
  BY HeadTailProperties, Zenon
<1>2. Head(p) = p[1]
  OBVIOUS
<1> QED
  BY <1>1, <1>2, RestOfShort, Zenon

\* A plan is of one operation or two.
LEMMA RestOfPlan ==
  ASSUME TypeOK, plan # <<>>
  PROVE  /\ Head(plan) \in Planned /\ Head(plan) = plan[1] /\ Head(plan) \in Operation
         /\ Tail(plan) \in Seq(Planned) /\ Len(Tail(plan)) <= 1
         /\ Len(plan) = 1 <=> Tail(plan) = <<>>
         /\ Len(plan) = 1 \/ Len(plan) = 2
         /\ Len(plan) = 2 => Tail(plan) = <<plan[2]>> /\ plan[2] \in Planned
<1>1. plan \in Seq(Planned) /\ Len(plan) <= 2
  BY DEF TypeOK
<1>2. /\ Len(plan) = 1 \/ Len(plan) = 2
      /\ Head(plan) = plan[1] /\ plan[1] \in Planned /\ Tail(plan) \in Seq(Planned)
      /\ Len(plan) = 1 <=> Tail(plan) = <<>>
      /\ Len(plan) = 2 => Tail(plan) = <<plan[2]>> /\ plan[2] \in Planned
      /\ Len(Tail(plan)) <= 1
  BY <1>1, ShortSequence, Zenon
<1> QED
  BY <1>2 DEF Operation

LEMMA RunOnType ==
  ASSUME TypeOK, plan # <<>>, NEW S \in SUBSET Points
  PROVE  RunOn(S, Head(plan)) \in SUBSET Points
BY RestOfPlan, OperationPoints

LEMMA ReachesSons ==
  ASSUME NEW o \in Operation
  PROVE  Reaches(o) \subseteq Sons
BY OperationPoints DEF Reaches, SonOf, Sons

LEMMA OperationsType ==
  ASSUME TypeOK, NEW r \in Sons,
         \/ PushDown(r) \/ VisitSon(r) \/ DeleteWhole \/ Descend \/ Unwind
         \/ PushDownLocked \/ VisitSonLocked
  PROVE  TypeOK'
<1> USE DEF TypeOK, MainKeeps, treeVars, sharedVars, rebuildVars
<1>1. CASE PushDown(r)
  <2>1. tree' \in [Sons -> SUBSET Points] /\ push' \in [Sons -> BOOLEAN]
    BY <1>1 DEF PushDown
  <2>2. at' \in Sons \cup {"none"}
    BY <1>1 DEF PushDown
  <2> QED
    BY <1>1, <2>1, <2>2 DEF PushDown
<1>2. CASE VisitSon(r)
  <2>1. plan # <<>>
    BY <1>2 DEF VisitSon
  <2>2. tree' \in [Sons -> SUBSET Points]
    BY <1>2, <2>1, RunOnType DEF VisitSon
  <2>3. Rebuild_Ptr' \in Sons \cup {"none", "root"}
    BY <1>2 DEF VisitSon, MayRequestRebuild
  <2>4. at' \in Sons \cup {"none"} /\ todo' \subseteq Sons
        /\ races' \subseteq {"unlogged", "freed"}
    BY <1>2 DEF VisitSon
  <2> QED
    BY <1>2, <2>2, <2>3, <2>4 DEF VisitSon
<1>3. CASE DeleteWhole
  BY <1>3, RestOfPlan DEF DeleteWhole, NextOperation
<1>4. CASE Descend
  BY <1>4, RestOfPlan, ReachesSons DEF Descend
<1>5. CASE Unwind
  BY <1>5, RestOfPlan DEF Unwind, NextOperation, MayRequestRebuild
<1>6. CASE PushDownLocked
  <2>1. Rebuild_Logger' \in Seq(Planned \cup {PUSH_DOWN})
    BY <1>6 DEF PushDownLocked, Log
  <2> QED
    BY <1>6, <2>1 DEF PushDownLocked, PushPoints
<1>7. CASE VisitSonLocked
  <2>1. plan # <<>>
    BY <1>7 DEF VisitSonLocked
  <2>2. tree' \in [Sons -> SUBSET Points]
    BY <1>7, <2>1, RunOnType DEF VisitSonLocked
  <2>3. Rebuild_Logger' \in Seq(Planned \cup {PUSH_DOWN})
    BY <1>7, <2>1, RestOfPlan DEF VisitSonLocked, Log
  <2> QED
    BY <1>7, <2>2, <2>3 DEF VisitSonLocked
<1> QED
  BY <1>1, <1>2, <1>3, <1>4, <1>5, <1>6, <1>7

\* The cell of a downsampled addition, and what is planned from it.
LEMMA CellPoints ==
  ASSUME TypeOK, RangeInv, mpc \in Ranging
  PROVE  /\ cell \in SUBSET Points /\ arrival \in Points
         /\ \A S \in SUBSET Points : Nearest(S \cup {arrival}) \in Points
<1>1. cell \in SUBSET Points /\ arrival \in Points
  BY IkdAssumption DEF RangeInv, Points
<1> QED
  BY <1>1, NearestIsOne

LEMMA RangeType ==
  ASSUME TypeOK, RangeInv, RangeEnterSon \/ RangeEnd \/ CheckRebuildPtr \/ RunLockedOnRoot
  PROVE  TypeOK'
<1> USE DEF TypeOK, MainKeeps, treeVars, sharedVars, rebuildVars
<1>1. CASE RangeEnterSon
  BY <1>1 DEF RangeEnterSon
<1>2. CASE RangeEnd
  <2>1. PICK stored \in IF range = "freed" THEN SUBSET cell
                        ELSE {Below(SonOf(arrival)) \cap cell} :
          plan' = IF Keeps(arrival, stored)
                    THEN (IF stored = {} THEN <<>> ELSE <<Delete(cell)>>)
                           \o <<Add(Nearest(stored \cup {arrival}))>>
                    ELSE <<>>
    BY <1>2 DEF RangeEnd
  <2>2. mpc \in Ranging
    BY <1>2 DEF RangeEnd, Ranging
  <2>3. cell \in SUBSET Points /\ stored \in SUBSET Points
        /\ Nearest(stored \cup {arrival}) \in Points
    BY <2>1, <2>2, CellPoints
  <2>4. Delete(cell) \in Planned /\ Add(Nearest(stored \cup {arrival})) \in Planned
    BY <2>3, PlannedOperations
  <2>5. plan' \in Seq(Planned) /\ Len(plan') <= 2
    BY <2>1, <2>4
  <2> QED
    BY <1>2, <2>5 DEF RangeEnd
<1>3. CASE CheckRebuildPtr
  BY <1>3 DEF CheckRebuildPtr
<1>4. CASE RunLockedOnRoot
  <2>1. plan \in Seq(Operation)
    BY DEF Operation
  <2>2. \A r \in Sons : RunAll(Below(r), plan, r) \in SUBSET Points
    BY <2>1, RunAllType DEF Below
  <2>3. tree' \in [Sons -> SUBSET Points]
    BY <1>4, <2>2 DEF RunLockedOnRoot
  <2>5. push' \in [Sons -> BOOLEAN]
    BY <1>4 DEF RunLockedOnRoot
  <2>4. Rebuild_Logger' \in Seq(Planned \cup {PUSH_DOWN})
    BY <1>4 DEF RunLockedOnRoot
  <2> QED
    BY <1>4, <2>3, <2>4, <2>5 DEF RunLockedOnRoot
<1> QED
  BY <1>1, <1>2, <1>3, <1>4

LEMMA SearchType ==
  ASSUME TypeOK, NEW s \in Searchers, NEW r \in Sons,
         Nearest_Search(s) \/ calc_box_dist(s) \/ Leave(s) \/ SearchSon(s, r)
  PROVE  TypeOK'
<1>1. where' \in [Searchers -> Position]
  <2>1. ASSUME NEW t \in Subtrees, Enter(s, t) PROVE where' \in [Searchers -> Position]
    <3>1. where[s].counted \cup {t} \in SUBSET Subtrees /\ where[s].counted \in SUBSET Subtrees
      BY DEF TypeOK, Position
    <3> QED
      BY <2>1, <3>1, EnterMoves, OnMoves
  <2> QED
    BY <2>1, BoxesMove, LeaveMoves DEF Nearest_Search, SearchSon, Subtrees
<1>2. search_mutex_counter' \in Int
  <2>1. ASSUME NEW t, Enter(s, t) PROVE search_mutex_counter' \in Int
    BY <2>1 DEF TypeOK, Enter, EnterCounted, EnterUncounted
  <2>2. CASE calc_box_dist(s)
    BY <2>2 DEF TypeOK, calc_box_dist
  <2>3. CASE Leave(s)
    <3>1. search_mutex_counter \in Int
      BY DEF TypeOK
    <3>2. search_mutex_counter' \in {search_mutex_counter - 1, search_mutex_counter - 0}
      BY <2>3 DEF Leave
    <3> QED
      BY <3>1, <3>2
  <2> QED
    BY <2>1, <2>2, <2>3 DEF Nearest_Search, SearchSon
<1>3. /\ UNCHANGED <<treeVars, Rebuild_Ptr, rebuild_flag, Rebuild_Logger, mpc, plan, todo, at,
                     cell, arrival, ops, races, expected, range>>
      /\ UNCHANGED rebuildVars
  BY DEF Nearest_Search, SearchSon, Enter, EnterCounted, EnterUncounted, calc_box_dist, Leave,
         SearchKeeps, MainKeeps
<1> QED
  BY <1>1, <1>2, <1>3 DEF TypeOK, treeVars, rebuildVars

LEMMA EndSearchType ==
  ASSUME TypeOK, EndSearch
  PROVE  TypeOK'
BY DEF TypeOK, EndSearch, At, Position, Status, MainKeeps, SearchKeeps, treeVars, rebuildVars

------------------------------------------------------------------------------
(***************************************************************************)
(* The steps of the mapping thread: those that change the map or look at a *)
(* cell of it, and the parallel search.                                    *)
(***************************************************************************)
MapStep ==
  \/ \E p \in Points : AddPoint(p) \/ (\E c \in Cells : AddPointDownsampled(p, c))
  \/ \E box \in Boxes : DeletePointBox(box)
  \/ \E r \in Sons : PushDown(r) \/ VisitSon(r)
  \/ RangeEnterSon \/ RangeEnd \/ CheckRebuildPtr \/ DeleteWhole \/ Descend \/ Unwind
  \/ RunLockedOnRoot \/ PushDownLocked \/ VisitSonLocked

SearchStep ==
  \/ BeginSearch \/ EndSearch
  \/ \E s \in Searchers :
       \/ Nearest_Search(s) \/ calc_box_dist(s) \/ Leave(s)
       \/ (\E r \in Sons : SearchSon(s, r))

LEMMA NextCases ==
  ASSUME [Next]_vars
  PROVE  RebuildStep \/ MapStep \/ SearchStep \/ UNCHANGED vars
BY DEF Next, MainBegins, MainStep, MainLocks, Poll, MapStep, SearchStep

LEMMA SonsExist == \E r \in Sons : TRUE
BY DEF Sons

LEMMA TypeStep ==
  ASSUME TypeOK, RangeInv, [Next]_vars
  PROVE  TypeOK'
<1>1. CASE RebuildStep
  BY <1>1, RebuildType
<1>2. CASE MapStep
  BY <1>2, BeginType, OperationsType, RangeType, SonsExist DEF MapStep, MainBegins
<1>3. CASE SearchStep
  BY <1>3, BeginType, SearchType, EndSearchType, SonsExist DEF SearchStep, MainBegins
<1>4. CASE UNCHANGED vars
  BY <1>4 DEF TypeOK, vars, treeVars, sharedVars, rebuildVars, mainVars
<1> QED
  BY <1>1, <1>2, <1>3, <1>4, NextCases

\* What the map's steps leave alone.
LEMMA MapStepKeeps ==
  ASSUME MapStep
  PROVE  /\ UNCHANGED <<where, search_mutex_counter, rpc, new, operation, error,
                        rebuild_flag>>
         /\ mpc # "search" /\ mpc' # "search"
         /\ \/ UNCHANGED Rebuild_Ptr
            \/ rpc = "idle" /\ mpc = "descend" /\ at = "none" /\ Rebuild_Ptr' \in Sons \cup {"root"}
         /\ races \subseteq races'
         /\ UNCHANGED Rebuild_Logger \/ ~WorkingLocked
<1> USE DEF MainKeeps, treeVars, sharedVars, rebuildVars
<1>1. CASE \E p \in Points : AddPoint(p) \/ (\E c \in Cells : AddPointDownsampled(p, c))
  BY <1>1 DEF AddPoint, AddPointDownsampled, Begin
<1>2. CASE \E box \in Boxes : DeletePointBox(box)
  BY <1>2 DEF DeletePointBox, Begin
<1>3. CASE \E r \in Sons : PushDown(r)
  BY <1>3 DEF PushDown, PushPoints
<1>4. CASE \E r \in Sons : VisitSon(r)
  BY <1>4 DEF VisitSon, MayRequestRebuild, RebuildPtrLocked
<1>5. CASE RangeEnterSon
  BY <1>5 DEF RangeEnterSon
<1>6. CASE RangeEnd
  BY <1>6 DEF RangeEnd
<1>7. CASE CheckRebuildPtr
  BY <1>7 DEF CheckRebuildPtr
<1>8. CASE DeleteWhole
  BY <1>8 DEF DeleteWhole, NextOperation
<1>9. CASE Descend
  BY <1>9 DEF Descend
<1>10. CASE Unwind
  BY <1>10 DEF Unwind, MayRequestRebuild, RebuildPtrLocked, NextOperation
<1>11. CASE RunLockedOnRoot
  BY <1>11 DEF RunLockedOnRoot
<1>12. CASE PushDownLocked
  BY <1>12 DEF PushDownLocked, PushPoints
<1>13. CASE VisitSonLocked
  BY <1>13 DEF VisitSonLocked
<1> QED
  BY <1>1, <1>2, <1>3, <1>4, <1>5, <1>6, <1>7, <1>8, <1>9, <1>10, <1>11, <1>12, <1>13
  DEF MapStep

LEMMA SearchStepKeeps ==
  ASSUME SearchStep
  PROVE  /\ UNCHANGED <<tree, push, Rebuild_Ptr, rebuild_flag, Rebuild_Logger, rpc, new,
                        operation, error, plan, todo, at, cell, arrival, races, expected, range>>
         /\ mpc \in {"idle", "search"} \/ UNCHANGED mpc
         /\ mpc' \in {"idle", "search"} \/ UNCHANGED mpc
<1> USE DEF SearchKeeps, MainKeeps, treeVars, sharedVars, rebuildVars
<1>1. CASE BeginSearch \/ EndSearch
  BY <1>1 DEF BeginSearch, EndSearch
<1>2. CASE \E s \in Searchers : Nearest_Search(s) \/ (\E r \in Sons : SearchSon(s, r))
  BY <1>2 DEF Nearest_Search, SearchSon, Enter, EnterCounted, EnterUncounted
<1>3. CASE \E s \in Searchers : calc_box_dist(s) \/ Leave(s)
  BY <1>3 DEF calc_box_dist, Leave
<1> QED
  BY <1>1, <1>2, <1>3 DEF SearchStep

LEMMA RebuildStepKeeps ==
  ASSUME RebuildStep
  PROVE  /\ UNCHANGED <<mpc, plan, todo, at, cell, arrival, ops, races, expected>>
         /\ Rebuild_Ptr' \in {Rebuild_Ptr, "none"}
         /\ error => error'
<1> USE DEF RebuildKeeps, mainVars, treeVars, sharedVars
<1>0. CASE StartRebuild
  <2>1. error => error'
    BY <1>0 DEF StartRebuild
  <2> QED
    BY <1>0, <2>1 DEF StartRebuild
<1>1. CASE Flatten \/ BuildTree \/ PopOperation \/ run_operation \/ DrainEnds
  BY <1>1 DEF Flatten, BuildTree, PopOperation, run_operation, DrainEnds
<1>2. ASSUME NEW from, NEW to, LockSearch(from, to) \/ UnlockSearch(from, to)
      PROVE  UNCHANGED <<mpc, plan, todo, at, cell, arrival, ops, races, expected,
                         Rebuild_Ptr, error>>
  BY <1>2 DEF LockSearch, UnlockSearch
<1>3. CASE Swap \/ ResetRebuildPtr \/ ResetRebuildFlag \/ DeleteTreeNodes
  BY <1>3 DEF Swap, ResetRebuildPtr, ResetRebuildFlag, DeleteTreeNodes
<1> QED
  BY <1>0, <1>1, <1>2, <1>3 DEF RebuildStep

\* Searches stay where they are when the rebuild thread moves; only the nodes their
\* pointers lead to may be other ones.
LEMMA RebuildStepMoves ==
  ASSUME TypeOK, RebuildStep
  PROVE  /\ UNCHANGED where \/ Swap \/ DeleteTreeNodes
         /\ where' \in [Searchers -> Position]
         /\ \A s \in Searchers :
              where'[s].in = where[s].in /\ where'[s].counted = where[s].counted
<1>1. UNCHANGED where \/ Swap \/ DeleteTreeNodes
  BY DEF RebuildStep, RebuildKeeps, StartRebuild, LockSearch, UnlockSearch, Flatten, BuildTree,
         PopOperation, run_operation, DrainEnds, ResetRebuildPtr, ResetRebuildFlag
<1> QED
  BY <1>1, OutdateMoves DEF Swap, DeleteTreeNodes, TypeOK, Status

------------------------------------------------------------------------------
(***************************************************************************)
(* The counter of the searches.                                            *)
(***************************************************************************)
LEMMA CountedIsFinite == IsFiniteSet(Counted)
<1>1. IsFiniteSet(Subtrees)
  <2>1. IsFiniteSet({"left"}) /\ IsFiniteSet({"right"}) /\ IsFiniteSet({"root"})
    BY FS_Singleton
  <2>2. IsFiniteSet({"left"} \cup {"right"})
    BY <2>1, FS_Union
  <2>3. IsFiniteSet(({"left"} \cup {"right"}) \cup {"root"})
    BY <2>1, <2>2, FS_Union
  <2>4. Subtrees = ({"left"} \cup {"right"}) \cup {"root"}
    BY DEF Subtrees, Sons
  <2> QED
    BY <2>3, <2>4
<1>2. IsFiniteSet(Searchers \X Subtrees)
  BY <1>1, IkdAssumption, FS_Product
<1> QED
  BY <1>2, FS_Subset DEF Counted

LEMMA NobodyCounted ==
  ASSUME \A s \in Searchers : where[s].counted = {}
  PROVE  Cardinality(Counted) = 0
<1>1. Counted = {}
  BY DEF Counted
<1> QED
  BY <1>1, FS_EmptySet

\* What searcher s is counted for decides what searches are.
LEMMA CountedByOne ==
  ASSUME NEW s \in Searchers, \A q \in Searchers \ {s} : where'[q] = where[q]
  PROVE  /\ where'[s].counted = where[s].counted => Counted' = Counted
         /\ \A t \in Subtrees :
              /\ where'[s].counted = where[s].counted \cup {t} =>
                   Counted' = Counted \cup {<<s, t>>}
              /\ where'[s].counted = where[s].counted \ {t} =>
                   Counted' = Counted \ {<<s, t>>}
<1>1. \A q \in Searchers, u \in Subtrees :
        /\ <<q, u>> \in Counted <=> u \in where[q].counted
        /\ <<q, u>> \in Counted' <=> u \in where'[q].counted
  BY DEF Counted
<1>2. Counted \subseteq Searchers \X Subtrees /\ Counted' \subseteq Searchers \X Subtrees
  BY DEF Counted
<1>3. \A C, D \in SUBSET (Searchers \X Subtrees) :
        (\A q \in Searchers, u \in Subtrees : <<q, u>> \in C <=> <<q, u>> \in D) => C = D
  OBVIOUS
<1>4. ASSUME where'[s].counted = where[s].counted PROVE Counted' = Counted
  <2>1. \A q \in Searchers, u \in Subtrees : <<q, u>> \in Counted' <=> <<q, u>> \in Counted
    BY <1>1, <1>4
  <2> QED
    BY <2>1, <1>2, <1>3
<1>5. ASSUME NEW t \in Subtrees, where'[s].counted = where[s].counted \cup {t}
      PROVE  Counted' = Counted \cup {<<s, t>>}
  <2>1. \A q \in Searchers, u \in Subtrees :
          <<q, u>> \in Counted' <=> <<q, u>> \in Counted \cup {<<s, t>>}
    BY <1>1, <1>5
  <2> QED
    BY <2>1, <1>2, <1>3
<1>6. ASSUME NEW t \in Subtrees, where'[s].counted = where[s].counted \ {t}
      PROVE  Counted' = Counted \ {<<s, t>>}
  <2>1. \A q \in Searchers, u \in Subtrees :
          <<q, u>> \in Counted' <=> <<q, u>> \in Counted \ {<<s, t>>}
    BY <1>1, <1>6
  <2> QED
    BY <2>1, <1>2, <1>3
<1> QED
  BY <1>4, <1>5, <1>6

LEMMA CountedByEnter ==
  ASSUME SInv, NEW s \in Searchers, NEW t \in Subtrees, Enter(s, t),
         where[s].in = IF t = "root" THEN "ready" ELSE "root"
  PROVE  CounterIsExact'
<1>1. /\ where[s].counted \in SUBSET Subtrees /\ TypeOK
      /\ search_mutex_counter \in Int
  BY DEF SInv, TypeOK, Position
<1>2. t \notin where[s].counted
  BY DEF SInv, SearchInv, SearcherInv, Walking, Subtrees, Sons
<1>3. SearchLocked' = SearchLocked
  BY DEF Enter, EnterCounted, EnterUncounted, SearchKeeps, MainKeeps, rebuildVars, SearchLocked
<1>4. PICK n \in {where[s].nodes[t], Reloaded(s, t)} :
        /\ n \in Status
        /\ \/ EnterCounted(s, t) /\ n = Reloaded(s, t)
             /\ On(s, t, n, where[s].counted \cup {t})
           \/ EnterUncounted(s, t) /\ On(s, t, n, where[s].counted)
  BY <1>1, EnterMoves
<1>5. CASE EnterCounted(s, t) /\ On(s, t, n, where[s].counted \cup {t})
  <2>1. where[s].counted \cup {t} \in SUBSET Subtrees
    BY <1>1
  <2>2. Counted' = Counted \cup {<<s, t>>}
    BY <1>1, <1>4, <1>5, <2>1, OnMoves, CountedByOne
  <2>3. <<s, t>> \notin Counted
    BY <1>2 DEF Counted
  <2>4. Cardinality(Counted') = Cardinality(Counted) + 1
    BY <2>2, <2>3, CountedIsFinite, FS_AddElement
  <2>5. ~SearchLocked
    BY <1>5 DEF SInv, CounterIsExact, EnterCounted
  <2> QED
    BY <1>3, <1>5, <2>4, <2>5 DEF SInv, CounterIsExact, EnterCounted
<1>6. CASE EnterUncounted(s, t) /\ On(s, t, n, where[s].counted)
  <2>1. Counted' = Counted
    BY <1>1, <1>4, <1>6, OnMoves, CountedByOne
  <2>2. search_mutex_counter' = search_mutex_counter
    BY <1>6 DEF EnterUncounted
  <2> QED
    BY <1>3, <2>1, <2>2 DEF SInv, CounterIsExact
<1> QED
  BY <1>4, <1>5, <1>6

LEMMA CountedByBoxes ==
  ASSUME SInv, NEW s \in Searchers, calc_box_dist(s)
  PROVE  CounterIsExact'
<1>1. Counted' = Counted
  BY BoxesMove, CountedByOne DEF SInv
<1>2. SearchLocked' = SearchLocked /\ search_mutex_counter' = search_mutex_counter
  BY DEF calc_box_dist, SearchKeeps, MainKeeps, rebuildVars, SearchLocked
<1> QED
  BY <1>1, <1>2 DEF SInv, CounterIsExact

LEMMA CountedByLeave ==
  ASSUME SInv, NEW s \in Searchers, Leave(s)
  PROVE  CounterIsExact'
<1> DEFINE t == where[s].in
<1>1. /\ t \in Subtrees /\ \A q \in Searchers \ {s} : where'[q] = where[q]
      /\ where'[s].counted = where[s].counted \ {t}
  BY LeaveMoves DEF SInv
<1>2. Counted' = Counted \ {<<s, t>>}
  BY <1>1, CountedByOne
<1>3. SearchLocked' = SearchLocked
  BY DEF Leave, SearchKeeps, MainKeeps, rebuildVars, SearchLocked
<1>4. CASE t \in where[s].counted
  <2>1. <<s, t>> \in Counted
    BY <1>1, <1>4 DEF Counted
  <2>2. Cardinality(Counted') = Cardinality(Counted) - 1
    BY <1>2, <2>1, CountedIsFinite, FS_RemoveElement
  <2>3. ~SearchLocked
    BY <1>4 DEF SInv, SearchInv, SearcherInv
  <2> QED
    BY <1>3, <1>4, <2>2, <2>3 DEF SInv, CounterIsExact, Leave
<1>5. CASE t \notin where[s].counted
  <2>1. <<s, t>> \notin Counted
    BY <1>5 DEF Counted
  <2>2. Counted' = Counted
    BY <1>2, <2>1
  <2>3. search_mutex_counter' = search_mutex_counter
    BY <1>5 DEF Leave, SInv, TypeOK
  <2> QED
    BY <1>3, <2>2, <2>3 DEF SInv, CounterIsExact
<1> QED
  BY <1>4, <1>5

LEMMA CounterStep ==
  ASSUME SInv, [Next]_vars
  PROVE  CounterIsExact'
<1>1. CASE RebuildStep
  <2>1. Counted' = Counted
    BY <1>1, RebuildStepMoves DEF Counted, SInv
  <2>2. ASSUME NEW from, NEW to \in {"flatten", "swap"}, LockSearch(from, to)
        PROVE  CounterIsExact'
    BY <2>2 DEF LockSearch, CounterIsExact, SearchLocked
  <2>3. ASSUME NEW from \in {"unlock_search", "unlock_search_again"},
               NEW to \in {"build", "reset"}, UnlockSearch(from, to)
        PROVE  CounterIsExact'
    <3>1. Cardinality(Counted) = 0
      BY <2>3, NobodyCounted DEF SInv, SearchInv, SearcherInv, UnlockSearch, SearchLocked
    <3> QED
      BY <2>1, <2>3, <3>1 DEF UnlockSearch, CounterIsExact, SearchLocked
  <2>4. CASE /\ UNCHANGED search_mutex_counter
             /\ SearchLocked' = SearchLocked
    BY <2>1, <2>4 DEF SInv, CounterIsExact
  <2>5. CASE StartRebuild \/ Flatten \/ BuildTree \/ PopOperation \/ run_operation
    BY <2>4, <2>5 DEF StartRebuild, Flatten, BuildTree, PopOperation, run_operation,
                      SearchLocked, sharedVars
  <2>6. CASE DrainEnds \/ Swap \/ ResetRebuildPtr \/ ResetRebuildFlag \/ DeleteTreeNodes
    BY <2>4, <2>6 DEF DrainEnds, Swap, ResetRebuildPtr, ResetRebuildFlag, DeleteTreeNodes,
                      SearchLocked, sharedVars
  <2> QED
    BY <1>1, <2>2, <2>3, <2>5, <2>6 DEF RebuildStep
<1>2. CASE MapStep
  BY <1>2, MapStepKeeps DEF SInv, CounterIsExact, SearchLocked, Counted
<1>3. CASE BeginSearch \/ EndSearch
  <2>1. UNCHANGED <<search_mutex_counter, rpc>>
    BY <1>3 DEF BeginSearch, EndSearch, SearchKeeps, MainKeeps, rebuildVars
  <2>2. \A s \in Searchers : where[s].counted = {}
    BY <1>3 DEF BeginSearch, EndSearch, SInv, SearchInv, SearcherInv, At, Walking, Subtrees, Sons
  <2>3. (\A s \in Searchers : where[s].counted = {})'
    BY <1>3 DEF BeginSearch, EndSearch, At
  <2>4. Counted = {} /\ Counted' = {}
    BY <2>2, <2>3 DEF Counted
  <2> QED
    BY <2>1, <2>4 DEF SInv, CounterIsExact, SearchLocked
<1>4. CASE \E s \in Searchers :
             \/ Nearest_Search(s) \/ calc_box_dist(s) \/ Leave(s)
             \/ (\E r \in Sons : SearchSon(s, r))
  BY <1>4, CountedByEnter, CountedByLeave, CountedByBoxes
  DEF Nearest_Search, SearchSon, Subtrees, Sons
<1>5. CASE UNCHANGED vars
  BY <1>5 DEF SInv, CounterIsExact, SearchLocked, Counted, vars, sharedVars, rebuildVars
<1> QED
  BY <1>1, <1>2, <1>3, <1>4, <1>5, NextCases DEF SearchStep

------------------------------------------------------------------------------
(***************************************************************************)
(* Searches are where they are counted.                                    *)
(***************************************************************************)
\* A searcher that is nowhere.
LEMMA NowhereInv ==
  ASSUME NEW s \in Searchers, where[s] \in {At("out"), At("ready")}
  PROVE  SearcherInv(s)
<1>1. /\ where[s].in \in {"out", "ready"} /\ where[s].counted = {}
      /\ \A t \in Subtrees : where[s].nodes[t] = "tree"
  BY DEF At
<1> QED
  BY <1>1 DEF SearcherInv, Walking, Subtrees, Sons

\* The other searchers stay as they are.
LEMMA OneMoves ==
  ASSUME SInv, NEW s \in Searchers, \A q \in Searchers \ {s} : where'[q] = where[q],
         UNCHANGED <<Rebuild_Ptr, rpc, mpc>>, mpc = "search", SearcherInv(s)'
  PROVE  SearchInv'
<1>1. ASSUME NEW q \in Searchers PROVE SearcherInv(q)'
  <2>1. CASE q # s
    BY <2>1 DEF SInv, SearchInv, SearcherInv, Walking, Pending, SearchLocked
  <2> QED
    BY <2>1
<1> QED
  BY <1>1 DEF SearchInv

\* A searcher that is anywhere is so while the correspondence step runs.
LEMMA SomewhereSearches ==
  ASSUME SInv, NEW s \in Searchers, where[s].in # "out"
  PROVE  mpc = "search"
BY DEF SInv, SearchInv, At

LEMMA EnterInv ==
  ASSUME SInv, NEW s \in Searchers, NEW t \in Subtrees, Enter(s, t),
         where[s].in = IF t = "root" THEN "ready" ELSE "root"
  PROVE  SearchInv'
<1>1. TypeOK /\ where[s].counted \in SUBSET Subtrees
  BY DEF SInv, TypeOK, Position
<1>2. UNCHANGED <<Rebuild_Ptr, rpc, mpc>> /\ mpc = "search"
  BY SomewhereSearches DEF Enter, EnterCounted, EnterUncounted, SearchKeeps, MainKeeps,
                           rebuildVars
<1>3. PICK n \in {where[s].nodes[t], Reloaded(s, t)} :
        /\ n \in Status
        /\ \/ EnterCounted(s, t) /\ n = Reloaded(s, t)
             /\ On(s, t, n, where[s].counted \cup {t})
           \/ EnterUncounted(s, t) /\ On(s, t, n, where[s].counted)
  BY <1>1, EnterMoves
<1>4. SearcherInv(s) /\ where[s].counted \subseteq (IF t = "root" THEN {} ELSE {"root"})
  BY DEF SInv, SearchInv, SearcherInv, Walking, Subtrees, Sons
<1>5. t \in Sons \/ t = "root"
  BY DEF Subtrees
<1>6. Walking(s) <=> t # "root"
  BY <1>5 DEF Walking, Subtrees, Sons
<1>7. Pending => n = "tree"
  BY <1>3, <1>4 DEF SearcherInv, Reloaded, Subtrees
<1>8. Rebuild_Ptr \in Sons => Reloaded(s, t) = "tree" /\ (t = "root" => n = "tree")
  BY <1>3, <1>4 DEF SearcherInv, Reloaded
<1>9. CASE EnterCounted(s, t) /\ n = Reloaded(s, t) /\ On(s, t, n, where[s].counted \cup {t})
  <2>1. where[s].counted \cup {t} \in SUBSET Subtrees
    BY <1>1
  <2>2. /\ \A q \in Searchers \ {s} : where'[q] = where[q]
        /\ where'[s].in = t /\ where'[s].counted = where[s].counted \cup {t}
        /\ \A u \in Subtrees :
             where'[s].nodes[u] = IF u = t \/ t = "root" THEN n ELSE where[s].nodes[u]
    BY <1>1, <1>3, <1>9, <2>1, OnMoves
  <2>3. Rebuild_Ptr = t /\ ~SearchLocked
    BY <1>9 DEF EnterCounted, SInv, CounterIsExact
  <2>4. n = "tree"
    BY <1>5, <1>8, <1>9, <2>3 DEF Reloaded
  <2>5. \A u \in where'[s].counted : where'[s].nodes[u] = "tree"
    BY <1>1, <1>4, <2>2, <2>4 DEF SearcherInv
  <2>6. (Walking(s) /\ ~SearchLocked)'
    BY <1>2, <2>2, <2>3 DEF Walking, SearchLocked
  <2>7. Pending' = Pending
    BY <1>2 DEF Pending
  <2>8. /\ where'[s].counted \subseteq {"root", t} /\ t \in where'[s].counted
        /\ Pending => \A u \in Subtrees : where'[s].nodes[u] = "tree"
        /\ Rebuild_Ptr \in Sons => where'[s].nodes["root"] = "tree"
    BY <1>4, <2>2, <2>4 DEF SearcherInv, Subtrees
  <2>9. SearcherInv(s)'
    BY <1>2, <2>2, <2>3, <2>5, <2>6, <2>7, <2>8 DEF SearcherInv, Sons
  <2> QED
    BY <1>2, <2>2, <2>9, OneMoves
<1>10. CASE EnterUncounted(s, t) /\ On(s, t, n, where[s].counted)
  <2>2. /\ \A q \in Searchers \ {s} : where'[q] = where[q]
        /\ where'[s].in = t /\ where'[s].counted = where[s].counted
        /\ \A u \in Subtrees :
             where'[s].nodes[u] = IF u = t \/ t = "root" THEN n ELSE where[s].nodes[u]
    BY <1>1, <1>3, <1>10, OnMoves
  <2>3. Pending => Rebuild_Ptr # t
    BY <1>4, <1>10 DEF EnterUncounted, SearcherInv
  <2>4. \A u \in where'[s].counted : where'[s].nodes[u] = "tree"
    BY <1>1, <1>4, <2>2 DEF SearcherInv
  <2>5. Walking(s)' /\ SearchLocked' = SearchLocked /\ Pending' = Pending
    BY <1>2, <2>2 DEF Walking, SearchLocked, Pending
  <2>6. /\ where'[s].counted \subseteq {"root", t}
        /\ Pending => \A u \in Subtrees : where'[s].nodes[u] = "tree"
        /\ Rebuild_Ptr \in Sons => where'[s].nodes["root"] = "tree"
        /\ SearchLocked => where'[s].counted = {}
    BY <1>4, <1>5, <1>7, <1>8, <2>2 DEF SearcherInv, Subtrees
  <2>7. Pending /\ Rebuild_Ptr = "root" => "root" \in where'[s].counted
    BY <1>4, <1>6, <2>2, <2>3 DEF SearcherInv
  <2>8. SearcherInv(s)'
    BY <1>2, <2>2, <2>3, <2>4, <2>5, <2>6, <2>7 DEF SearcherInv
  <2> QED
    BY <1>2, <2>2, <2>8, OneMoves
<1> QED
  BY <1>3, <1>9, <1>10

LEMMA BoxesInv ==
  ASSUME SInv, NEW s \in Searchers, calc_box_dist(s)
  PROVE  SearchInv'
<1>1. UNCHANGED <<Rebuild_Ptr, rpc, mpc>> /\ where[s].in = "root" /\ mpc = "search"
  BY SomewhereSearches DEF calc_box_dist, SearchKeeps, MainKeeps, rebuildVars
<1>2. /\ \A q \in Searchers \ {s} : where'[q] = where[q]
      /\ where'[s].in = where[s].in /\ where'[s].counted = where[s].counted
      /\ \A u \in Subtrees :
           where'[s].nodes[u] \in {where[s].nodes[u]}
                                   \cup IF u \in Sons THEN {Reloaded(s, u)} ELSE {}
  BY BoxesMove DEF SInv
<1>3. SearcherInv(s) /\ where[s].counted \subseteq {"root"}
  BY <1>1 DEF SInv, SearchInv, SearcherInv
<1>4. where'[s].nodes["root"] = where[s].nodes["root"]
  BY <1>2 DEF Subtrees, Sons
<1>5. Pending => \A u \in Subtrees : where'[s].nodes[u] = "tree"
  BY <1>2, <1>3 DEF SearcherInv, Reloaded, Subtrees
<1>6. SearchLocked' = SearchLocked /\ Pending' = Pending /\ Walking(s)' = Walking(s)
  BY <1>1, <1>2 DEF SearchLocked, Pending, Walking
<1>7. SearcherInv(s)'
  BY <1>1, <1>2, <1>3, <1>4, <1>5, <1>6 DEF SearcherInv
<1> QED
  BY <1>1, <1>2, <1>7, OneMoves

LEMMA LeaveInv ==
  ASSUME SInv, NEW s \in Searchers, Leave(s)
  PROVE  SearchInv'
<1>1. UNCHANGED <<Rebuild_Ptr, rpc, mpc>> /\ where[s].in \in Subtrees /\ mpc = "search"
  <2>1. where[s].in \in Subtrees
    BY DEF Leave
  <2>2. where[s].in # "out"
    BY <2>1 DEF Subtrees, Sons
  <2> QED
    BY <2>1, <2>2, SomewhereSearches DEF Leave, SearchKeeps, MainKeeps, rebuildVars
<1>2. /\ \A q \in Searchers \ {s} : where'[q] = where[q]
      /\ where'[s].in = IF where[s].in = "root" THEN "done" ELSE "root"
      /\ where'[s].counted = where[s].counted \ {where[s].in}
      /\ \A u \in Subtrees : where'[s].nodes[u] \in {where[s].nodes[u], "tree"}
  BY LeaveMoves DEF SInv
<1>3. SearcherInv(s)
  BY DEF SInv, SearchInv
<1>4. where[s].counted \subseteq {"root", where[s].in} /\ Walking(s)
  BY <1>1, <1>3 DEF SearcherInv, Walking
<1>5. Walking(s)' <=> where[s].in # "root"
  BY <1>2 DEF Walking, Subtrees, Sons
<1>6. SearchLocked' = SearchLocked /\ Pending' = Pending
  BY <1>1 DEF SearchLocked, Pending
<1>7. /\ \A u \in where'[s].counted : where'[s].nodes[u] = "tree"
      /\ Pending => \A u \in Subtrees : where'[s].nodes[u] = "tree"
      /\ Rebuild_Ptr \in Sons => where'[s].nodes["root"] = "tree"
  BY <1>1, <1>2, <1>3, <1>4 DEF SearcherInv, Subtrees
<1>8. where'[s].in \notin Sons
  BY <1>2 DEF Sons
<1>9. SearcherInv(s)'
  BY <1>1, <1>2, <1>3, <1>4, <1>5, <1>6, <1>7, <1>8 DEF SearcherInv
<1> QED
  BY <1>1, <1>2, <1>9, OneMoves

LEMMA SearchStepInv ==
  ASSUME SInv, SearchStep
  PROVE  SearchInv'
<1>1. CASE BeginSearch \/ EndSearch
  <2>1. \/ mpc' = "idle" /\ where' = [s \in Searchers |-> At("out")]
        \/ mpc' = "search" /\ where' = [s \in Searchers |-> At("ready")]
    BY <1>1 DEF BeginSearch, EndSearch
  <2>2. ASSUME NEW s \in Searchers PROVE SearcherInv(s)'
    <3>1. (where[s] \in {At("out"), At("ready")})'
      BY <2>1 DEF At
    <3>2. /\ where'[s].in \in {"out", "ready"} /\ where'[s].counted = {}
          /\ \A t \in Subtrees : where'[s].nodes[t] = "tree"
      BY <3>1 DEF At
    <3> QED
      BY <3>2 DEF SearcherInv, Walking, Subtrees, Sons
  <2>3. (mpc # "search" => \A s \in Searchers : where[s] = At("out"))'
    BY <2>1 DEF At
  <2> QED
    BY <2>2, <2>3 DEF SearchInv
<1>2. ASSUME NEW s \in Searchers,
             Nearest_Search(s) \/ (\E r \in Sons : SearchSon(s, r))
      PROVE  SearchInv'
  BY <1>2, EnterInv DEF Nearest_Search, SearchSon, Subtrees, Sons
<1> QED
  BY <1>1, <1>2, BoxesInv, LeaveInv DEF SearchStep

\* Nobody is counted when searches have been locked out.
LEMMA LockedOut ==
  ASSUME SInv, RebuildStep, SearchLocked'
  PROVE  \A s \in Searchers : where[s].counted = {}
<1>1. ASSUME NEW from, NEW to, LockSearch(from, to)
      PROVE  \A s \in Searchers : where[s].counted = {}
  <2>1. CASE SearchLocked
    BY <2>1 DEF SInv, SearchInv, SearcherInv
  <2>2. CASE ~SearchLocked
    <3>1. Cardinality(Counted) = 0
      BY <1>1, <2>2 DEF LockSearch, SInv, CounterIsExact
    <3>2. Counted = {}
      BY <3>1, CountedIsFinite, FS_EmptySet
    <3>3. \A s \in Searchers : where[s].counted \subseteq Subtrees
      BY DEF SInv, TypeOK, Position
    <3>4. \A s \in Searchers, t \in Subtrees :
            t \in where[s].counted => <<s, t>> \in Counted
      BY DEF Counted
    <3> QED
      BY <3>2, <3>3, <3>4
  <2> QED
    BY <2>1, <2>2
<1>2. ASSUME NEW from, NEW to \in {"build", "reset"}, UnlockSearch(from, to)
      PROVE  ~SearchLocked'
  BY <1>2 DEF UnlockSearch, SearchLocked
<1>3. CASE SearchLocked
  BY <1>3 DEF SInv, SearchInv, SearcherInv
<1>4. CASE StartRebuild \/ Flatten \/ BuildTree \/ PopOperation \/ run_operation \/ DrainEnds
           \/ Swap \/ ResetRebuildPtr \/ ResetRebuildFlag \/ DeleteTreeNodes
  BY <1>3, <1>4 DEF StartRebuild, Flatten, BuildTree, PopOperation, run_operation, DrainEnds,
                    Swap, ResetRebuildPtr, ResetRebuildFlag, DeleteTreeNodes, SearchLocked
<1> QED
  BY <1>1, <1>2, <1>4 DEF RebuildStep

\* Nothing gets pending, and the swap ends it.
LEMMA StaysPending ==
  ASSUME RebuildStep, Pending'
  PROVE  Pending /\ ~Swap
<1>1. Rebuild_Ptr' # "none" /\ rpc' \notin {"unlock_search_again", "reset"}
  BY DEF Pending
<1>2. Rebuild_Ptr # "none"
  BY <1>1, RebuildStepKeeps
<1>3. ~Swap /\ ~ResetRebuildPtr
  BY <1>1 DEF Swap, ResetRebuildPtr
<1>4. rpc \notin {"unlock_search_again", "reset"}
  BY <1>1, <1>3 DEF RebuildStep, StartRebuild, LockSearch, Flatten, UnlockSearch, BuildTree,
                    PopOperation, run_operation, DrainEnds, ResetRebuildFlag, DeleteTreeNodes
<1> QED
  BY <1>2, <1>3, <1>4 DEF Pending

LEMMA SearchInvStep ==
  ASSUME SInv, [Next]_vars
  PROVE  SearchInv'
<1>1. CASE RebuildStep
  <2>1. mpc' = mpc /\ Rebuild_Ptr' \in {Rebuild_Ptr, "none"}
    BY <1>1, RebuildStepKeeps
  <2>2. \A s \in Searchers : /\ where'[s].in = where[s].in
                             /\ where'[s].counted = where[s].counted
                             /\ Walking(s)' = Walking(s)
    BY <1>1, RebuildStepMoves DEF SInv, Walking
  <2>3. Pending' => Pending /\ ~Swap
    BY <1>1, StaysPending
  <2>4. SearchLocked' => \A s \in Searchers : where[s].counted = {}
    BY <1>1, LockedOut
  <2>5. ASSUME NEW s \in Searchers,
               \A t \in Subtrees :
                 \/ where'[s].nodes[t] = where[s].nodes[t]
                 \/ where[s].nodes[t] # "tree"
        PROVE  SearcherInv(s)'
    <3>1. \A t \in Subtrees : where[s].nodes[t] = "tree" => where'[s].nodes[t] = "tree"
      BY <2>5
    <3>2. SearcherInv(s) /\ where[s].counted \subseteq Subtrees
      BY DEF SInv, SearchInv, TypeOK, Position
    <3>3. "none" \notin Sons /\ "root" \in Subtrees
      BY DEF Sons, Subtrees
    <3> QED
      BY <2>1, <2>2, <2>3, <2>4, <3>1, <3>2, <3>3 DEF SearcherInv
  <2>6. CASE Swap
    <3>1. \A s \in Searchers : where[s].counted = {}
      BY <2>6 DEF SInv, SearchInv, SearcherInv, Swap, SearchLocked
    <3>2. \A s \in Searchers, t \in Subtrees :
            where'[s].nodes[t] = where[s].nodes[t] \/ t \in Target \cup {Rebuild_Ptr}
      BY <2>6, OutdateMoves DEF Swap, SInv, Status
    <3>3. Rebuild_Ptr \in Sons => "root" \notin Target \cup {Rebuild_Ptr}
      BY DEF Target, Sons
    <3>4. \A s \in Searchers : Rebuild_Ptr \in Sons => where'[s].nodes["root"] = "tree"
      BY <3>2, <3>3 DEF SInv, SearchInv, SearcherInv, Subtrees
    <3>5. Rebuild_Ptr' = Rebuild_Ptr /\ ~Pending'
      BY <2>3, <2>6 DEF Swap, sharedVars
    <3>6. ASSUME NEW s \in Searchers PROVE SearcherInv(s)'
      BY <2>2, <3>1, <3>4, <3>5 DEF SearcherInv
    <3>7. mpc # "search" => \A s \in Searchers : where'[s] = At("out")
      BY <2>6, OutdateMoves DEF Swap, SInv, SearchInv, Status
    <3> QED
      BY <2>1, <3>6, <3>7 DEF SearchInv
  <2>7. CASE DeleteTreeNodes
    <3>1. \A s \in Searchers, t \in Subtrees :
            \/ where'[s].nodes[t] = where[s].nodes[t]
            \/ where[s].nodes[t] # "tree"
      BY <2>7, OutdateMoves DEF DeleteTreeNodes, SInv, Status
    <3>2. mpc # "search" => \A s \in Searchers : where'[s] = At("out")
      BY <2>7, OutdateMoves DEF DeleteTreeNodes, SInv, SearchInv, Status
    <3> QED
      BY <2>1, <2>5, <3>1, <3>2 DEF SearchInv
  <2>8. CASE UNCHANGED where
    BY <2>1, <2>5, <2>8 DEF SearchInv, SInv
  <2> QED
    BY <1>1, <2>6, <2>7, <2>8, RebuildStepMoves DEF SInv
<1>2. CASE MapStep
  <2>1. UNCHANGED where /\ mpc # "search" /\ mpc' # "search"
    BY <1>2, MapStepKeeps
  <2>2. \A s \in Searchers : where'[s] = At("out")
    BY <2>1 DEF SInv, SearchInv
  <2>3. ASSUME NEW s \in Searchers PROVE SearcherInv(s)'
    <3>1. /\ where'[s].in = "out" /\ where'[s].counted = {}
          /\ \A t \in Subtrees : where'[s].nodes[t] = "tree"
      BY <2>2 DEF At
    <3> QED
      BY <3>1 DEF SearcherInv, Walking, Subtrees, Sons
  <2> QED
    BY <2>2, <2>3 DEF SearchInv, At
<1>3. CASE SearchStep
  BY <1>3, SearchStepInv
<1>4. CASE UNCHANGED vars
  BY <1>4 DEF SInv, SearchInv, SearcherInv, SearchLocked, Walking, Pending, vars, sharedVars,
              rebuildVars, mainVars
<1> QED
  BY <1>1, <1>2, <1>3, <1>4, NextCases

LEMMA RangeInvStep ==
  ASSUME SInv, [Next]_vars
  PROVE  RangeInv'
<1> USE DEF Ranging
<1>1. CASE RebuildStep
  <2>1. UNCHANGED <<mpc, cell, arrival>> /\ Rebuild_Ptr' \in {Rebuild_Ptr, "none"}
    BY <1>1, RebuildStepKeeps
  <2>2. CASE range' = range /\ ~(rpc = "unlock_search_again" /\ mpc = "range_locked")
    BY <2>1, <2>2 DEF SInv, RangeInv
  <2>3. CASE Swap
    BY <2>3 DEF Swap, SInv, TypeOK, RangeInv, mainVars, sharedVars
  <2>4. CASE DeleteTreeNodes
    BY <2>4 DEF DeleteTreeNodes, SInv, TypeOK, RangeInv, mainVars, sharedVars
  <2>5. ASSUME NEW from, NEW to, LockSearch(from, to) \/ UnlockSearch(from, to)
        PROVE  RangeInv'
    BY <2>2, <2>5 DEF LockSearch, UnlockSearch, SearchFlagLocked
  <2>6. CASE StartRebuild \/ Flatten \/ BuildTree \/ PopOperation \/ run_operation \/ DrainEnds
             \/ ResetRebuildPtr \/ ResetRebuildFlag
    BY <2>2, <2>6 DEF StartRebuild, Flatten, BuildTree, PopOperation, run_operation, DrainEnds,
                      ResetRebuildPtr, ResetRebuildFlag
  <2> QED
    BY <1>1, <2>3, <2>4, <2>5, <2>6 DEF RebuildStep
<1>2. CASE MapStep
  <2> USE DEF SInv, RangeInv, MainKeeps, treeVars, sharedVars, rebuildVars
  <2>1. CASE \E p \in Points : AddPoint(p)
    BY <2>1 DEF AddPoint, Begin
  <2>2. CASE \E p \in Points, c \in Cells : AddPointDownsampled(p, c)
    BY <2>2 DEF AddPointDownsampled, Begin
  <2>3. CASE \E box \in Boxes : DeletePointBox(box)
    BY <2>3 DEF DeletePointBox, Begin
  <2>4. CASE \E r \in Sons : PushDown(r)
    BY <2>4 DEF PushDown, PushPoints
  <2>5. CASE \E r \in Sons : VisitSon(r)
    BY <2>5 DEF VisitSon
  <2>6. CASE RangeEnterSon
    <3>1. SonOf(arrival) \in Sons
      BY DEF SonOf, Sons
    <3> QED
      BY <2>6, <3>1 DEF RangeEnterSon, TypeOK, Sons
  <2>7. CASE RangeEnd
    BY <2>7 DEF RangeEnd
  <2>8. CASE CheckRebuildPtr
    BY <2>8 DEF CheckRebuildPtr
  <2>9. CASE DeleteWhole
    BY <2>9 DEF DeleteWhole, NextOperation
  <2>10. CASE Descend
    BY <2>10 DEF Descend
  <2>11. CASE Unwind
    BY <2>11 DEF Unwind, NextOperation
  <2>12. CASE RunLockedOnRoot
    BY <2>12 DEF RunLockedOnRoot
  <2>13. CASE PushDownLocked
    BY <2>13 DEF PushDownLocked, PushPoints
  <2>14. CASE VisitSonLocked
    BY <2>14 DEF VisitSonLocked
  <2> QED
    BY <1>2, <2>1, <2>2, <2>3, <2>4, <2>5, <2>6, <2>7, <2>8, <2>9, <2>10, <2>11, <2>12, <2>13,
       <2>14 DEF MapStep
<1>3. CASE SearchStep
  BY <1>3, SearchStepKeeps DEF SInv, RangeInv
<1>4. CASE UNCHANGED vars
  BY <1>4 DEF SInv, RangeInv, vars, sharedVars, rebuildVars, mainVars
<1> QED
  BY <1>1, <1>2, <1>3, <1>4, NextCases

LEMMA InitSInv ==
  ASSUME Init
  PROVE  SInv
<1>1. TypeOK
  <2>1. InitPoints \subseteq Points
    BY IkdAssumption
  <2>2. tree \in [Sons -> SUBSET Points]
    BY <2>1 DEF Init
  <2>3. where \in [Searchers -> Position]
    BY DEF Init, At, Position, Status
  <2>4. rebuild_flag \in BOOLEAN /\ error \in BOOLEAN
    BY Zenon DEF Init
  <2>5. ops \in 0 .. MaxOps
    BY IkdAssumption DEF Init
  <2> QED
    BY <2>1, <2>2, <2>3, <2>4, <2>5 DEF Init, TypeOK
<1>2. \A s \in Searchers : where[s] = At("out")
  BY DEF Init
<1>3. CounterIsExact
  BY <1>2, NobodyCounted DEF Init, CounterIsExact, SearchLocked, At
<1>4. SearchInv
  BY <1>2, NowhereInv DEF SearchInv
<1>5. RangeInv
  BY DEF Init, RangeInv, Ranging
<1> QED
  BY <1>1, <1>3, <1>4, <1>5 DEF SInv

LEMMA SInvStep ==
  ASSUME SInv, [Next]_vars
  PROVE  SInv'
BY TypeStep, CounterStep, SearchInvStep, RangeInvStep DEF SInv

LEMMA SInvSafe ==
  ASSUME SInv
  PROVE  SearchesAreSafe
<1>1. SearchExclusion
  <2>1. SUFFICES ASSUME rpc \in {"flatten", "unlock_search", "swap"}, NEW s \in Searchers
                 PROVE  where[s].in \notin Target \cup {Rebuild_Ptr}
    BY DEF SearchExclusion
  <2>2. /\ where[s].counted = {} /\ SearcherInv(s)
        /\ where[s].in \in Subtrees \cup {"out", "ready", "done"}
        /\ Rebuild_Ptr \in Sons \cup {"none", "root"}
    BY <2>1 DEF SInv, SearchInv, SearcherInv, SearchLocked, TypeOK, Position
  <2>3. Rebuild_Ptr # "none" => Pending
    BY <2>1 DEF Pending
  <2>4. CASE Rebuild_Ptr = "root"
    BY <2>2, <2>3, <2>4 DEF SearcherInv, Walking, Target, Subtrees
  <2>5. CASE Rebuild_Ptr \in Sons
    BY <2>2, <2>3, <2>5 DEF SearcherInv, Target, Subtrees, Sons
  <2>6. CASE Rebuild_Ptr = "none"
    BY <2>2, <2>6 DEF Target, Subtrees, Sons
  <2> QED
    BY <2>2, <2>4, <2>5, <2>6
<1>2. CountedSearchIsSafe
  BY DEF CountedSearchIsSafe, SInv, SearchInv, SearcherInv
<1>3. LockedRangeSearchIsSafe
  BY DEF SInv, RangeInv, LockedRangeSearchIsSafe
<1> QED
  BY <1>1, <1>2, <1>3 DEF SearchesAreSafe, SInv

\* From the copy to the swap no search walks the nodes that are copied or swapped, the
\* counter is the number of nodes searches have counted themselves on, those nodes stay in
\* the tree until the searches leave them, and a range search that holds the flag never
\* walks freed nodes: whatever the points, boxes and searchers.  Searches that are not
\* counted are not kept out: the box of a son read from the root, and nodes reached by a
\* pointer loaded before the swap, may be replaced ones or freed.
THEOREM SearchSafety == Spec => []SearchesAreSafe
<1>1. Init => SInv
  BY InitSInv
<1>2. SInv /\ [Next]_vars => SInv'
  BY SInvStep
<1>3. SInv => SearchesAreSafe
  BY SInvSafe
<1> QED
  BY <1>1, <1>2, <1>3, PTL DEF Spec

------------------------------------------------------------------------------
(***************************************************************************)
(* What each thread has in hand.                                           *)
(***************************************************************************)
LEMMA RebuildInvStep ==
  ASSUME SInv, RebuildInv, [Next]_vars
  PROVE  RebuildInv'
<1>1. CASE RebuildStep
  <2> USE DEF RebuildInv, RebuildKeeps, treeVars, sharedVars, mainVars
  <2>1. CASE StartRebuild
    <3>1. ~error' => Rebuild_Logger = <<>>
      BY <2>1 DEF StartRebuild
    <3> QED
      BY <2>1, <3>1 DEF StartRebuild
  <2>2. CASE LockSearch("lock_search", "flatten")
    BY <2>2 DEF LockSearch
  <2>3. CASE Flatten
    BY <2>3 DEF Flatten
  <2>4. CASE UnlockSearch("unlock_search", "build")
    BY <2>4 DEF UnlockSearch
  <2>5. CASE BuildTree
    BY <2>5 DEF BuildTree
  <2>6. CASE PopOperation
    BY <2>6 DEF PopOperation
  <2>7. CASE run_operation
    BY <2>7 DEF run_operation
  <2>8. CASE DrainEnds
    BY <2>8 DEF DrainEnds
  <2>9. CASE LockSearch("lock_search_again", "swap")
    BY <2>9 DEF LockSearch
  <2>10. CASE Swap
    BY <2>10 DEF Swap
  <2>11. CASE UnlockSearch("unlock_search_again", "reset")
    BY <2>11 DEF UnlockSearch
  <2>12. CASE ResetRebuildPtr
    BY <2>12 DEF ResetRebuildPtr
  <2>13. CASE ResetRebuildFlag
    BY <2>13 DEF ResetRebuildFlag
  <2>14. CASE DeleteTreeNodes
    BY <2>14 DEF DeleteTreeNodes
  <2> QED
    BY <1>1, <2>1, <2>2, <2>3, <2>4, <2>5, <2>6, <2>7, <2>8, <2>9, <2>10, <2>11, <2>12, <2>13,
       <2>14 DEF RebuildStep
<1>2. CASE MapStep
  BY <1>2, MapStepKeeps DEF RebuildInv, WorkingLocked, Sons
<1>3. CASE SearchStep
  BY <1>3, SearchStepKeeps DEF RebuildInv
<1>4. CASE UNCHANGED vars
  BY <1>4 DEF RebuildInv, vars, sharedVars, rebuildVars
<1> QED
  BY <1>1, <1>2, <1>3, <1>4, NextCases

\* The plans of a downsampled addition.
LEMMA PlanShape ==
  ASSUME NEW a, NEW d
  PROVE  /\ <<>> \o <<a>> = <<a>> /\ Len(<<a>>) = 1 /\ <<a>>[1] = a
         /\ <<d>> \o <<a>> = <<d, a>> /\ Len(<<d, a>>) = 2
         /\ <<d, a>>[1] = d /\ <<d, a>>[2] = a
<1>1. <<>> \o <<a>> = <<a>>
  <2>1. <<a>> \in Seq({a})
    OBVIOUS
  <2> QED
    BY <2>1, ConcatEmptySeq, Zenon
<1>2. <<d>> \o <<a>> = <<d, a>>
  <2>1. <<d>> \in Seq({a, d}) /\ <<a>> \in Seq({a, d}) /\ Len(<<d>>) = 1 /\ Len(<<a>>) = 1
    OBVIOUS
  <2>2. <<d>> \o <<a>> \in Seq({a, d}) /\ Len(<<d>> \o <<a>>) = 2
    BY <2>1, ConcatProperties
  <2>3. (<<d>> \o <<a>>)[1] = d /\ (<<d>> \o <<a>>)[2] = a
    BY <2>1
  <2> QED
    BY <2>2, <2>3, LenTwo
<1>3. Len(<<a>>) = 1 /\ Len(<<d, a>>) = 2 /\ <<a>>[1] = a
  OBVIOUS
<1>4. <<d, a>>[1] = d /\ <<d, a>>[2] = a
  OBVIOUS
<1> QED
  BY <1>1, <1>2, <1>3, <1>4, Zenon

LEMMA MainInvStep ==
  ASSUME SInv, MainInv, [Next]_vars
  PROVE  MainInv'
<1>0. at \in Sons \cup {"none"} /\ Rebuild_Ptr \in Sons \cup {"none", "root"}
      /\ push \in [Sons -> BOOLEAN] /\ todo \subseteq Sons
  BY DEF SInv, TypeOK
<1>1. CASE RebuildStep
  <2>1. UNCHANGED <<mpc, plan, todo, at>> /\ Rebuild_Ptr' \in {Rebuild_Ptr, "none"}
    BY <1>1, RebuildStepKeeps
  <2>2. \A r \in Sons : /\ push'[r] => push[r]
                        /\ push[r] /\ Rebuild_Ptr # "root" => push'[r]
    <3>1. CASE Swap
      BY <3>1 DEF Swap
    <3>2. CASE UNCHANGED push
      BY <3>2
    <3>3. ASSUME NEW from, NEW to, LockSearch(from, to) \/ UnlockSearch(from, to)
          PROVE  UNCHANGED push
      BY <3>3 DEF LockSearch, UnlockSearch, treeVars
    <3>4. CASE StartRebuild \/ Flatten \/ BuildTree \/ PopOperation \/ run_operation \/ DrainEnds
               \/ ResetRebuildPtr \/ ResetRebuildFlag \/ DeleteTreeNodes
      BY <3>2, <3>4 DEF StartRebuild, Flatten, BuildTree, PopOperation, run_operation, DrainEnds,
                        ResetRebuildPtr, ResetRebuildFlag, DeleteTreeNodes, treeVars
    <3> QED
      BY <1>1, <3>1, <3>2, <3>3, <3>4 DEF RebuildStep
  <2> QED
    BY <1>0, <2>1, <2>2 DEF MainInv, PushPoints, Sons
<1>2. CASE MapStep
  <2> USE DEF MainInv, MainKeeps, PushPoints, treeVars, sharedVars, rebuildVars
  <2>1. CASE \E p \in Points : AddPoint(p)
    BY <2>1 DEF AddPoint, Begin
  <2>2. CASE \E p \in Points, c \in Cells : AddPointDownsampled(p, c)
    <3>1. plan = <<>>
      BY <2>2 DEF AddPointDownsampled, Begin, SInv, TypeOK
    <3> QED
      BY <2>2, <3>1 DEF AddPointDownsampled, Begin
  <2>3. CASE \E box \in Boxes : DeletePointBox(box)
    BY <2>3 DEF DeletePointBox, Begin
  <2>4. CASE \E r \in Sons : PushDown(r)
    BY <1>0, <2>4 DEF PushDown
  <2>5. CASE \E r \in Sons : VisitSon(r)
    <3>1. PICK r \in Sons : VisitSon(r)
      BY <2>5
    <3>2. UNCHANGED <<push, mpc, plan>> /\ mpc = "descend" /\ at = "none"
          /\ todo' \subseteq todo
      BY <3>1 DEF VisitSon
    <3>3. CASE Rebuild_Ptr = r
      BY <1>0, <3>1, <3>2, <3>3 DEF VisitSon
    <3>4. CASE Rebuild_Ptr # r
      BY <1>0, <3>1, <3>2, <3>4 DEF VisitSon
    <3> QED
      BY <3>3, <3>4
  <2>6. CASE RangeEnterSon
    BY <2>6 DEF RangeEnterSon, Pushed
  <2>7. CASE RangeEnd
    <3>1. Len(plan') = 2 => plan'[2].op = "ADD_POINT"
      <4>1. PICK stored : plan' = IF Keeps(arrival, stored)
                                    THEN (IF stored = {} THEN <<>> ELSE <<Delete(cell)>>)
                                           \o <<Add(Nearest(stored \cup {arrival}))>>
                                    ELSE <<>>
        BY <2>7 DEF RangeEnd
      <4>2. \/ plan' = <<>>
            \/ plan' = <<>> \o <<Add(Nearest(stored \cup {arrival}))>>
            \/ plan' = <<Delete(cell)>> \o <<Add(Nearest(stored \cup {arrival}))>>
        BY <4>1, Zenon
      <4>3. Add(Nearest(stored \cup {arrival})).op = "ADD_POINT"
        BY DEF Add
      <4> QED
        BY <4>2, <4>3, PlanShape
    <3> QED
      BY <2>7, <3>1 DEF RangeEnd
  <2>8. CASE CheckRebuildPtr
    BY <2>8, RestOfPlan DEF CheckRebuildPtr, SInv
  <2>9. CASE DeleteWhole
    <3>1. plan # <<>>
      BY <2>9 DEF DeleteWhole, SInv, TypeOK
    <3>2. Len(plan') <= 1
      BY <2>9, <3>1, RestOfPlan DEF DeleteWhole, NextOperation, SInv
    <3>3. mpc' = "push" => Head(plan').op # "DELETE_BOX"
      BY <2>9, <3>1, RestOfPlan DEF DeleteWhole, NextOperation, SInv
    <3> QED
      BY <2>9, <3>2, <3>3 DEF DeleteWhole, NextOperation, Pushed
  <2>10. CASE Descend
    BY <2>10 DEF Descend, Pushed
  <2>11. CASE Unwind
    <3>1. plan # <<>>
      BY <2>11 DEF Unwind, SInv, TypeOK
    <3>2. Len(plan') <= 1
      BY <2>11, <3>1, RestOfPlan DEF Unwind, NextOperation, SInv
    <3>3. mpc' = "push" => Head(plan').op # "DELETE_BOX"
      BY <2>11, <3>1, RestOfPlan DEF Unwind, NextOperation, SInv
    <3>4. at' = "none" /\ mpc' \in {"idle", "push"}
      BY <2>11 DEF Unwind, NextOperation
    <3>5. ~(Len(plan') = 2)
      BY <3>2
    <3> QED
      BY <3>3, <3>4, <3>5
  <2>12. CASE RunLockedOnRoot
    BY <2>12 DEF RunLockedOnRoot
  <2>13. CASE PushDownLocked
    BY <1>0, <2>13 DEF PushDownLocked
  <2>14. CASE VisitSonLocked
    BY <1>0, <2>14 DEF VisitSonLocked
  <2> QED
    BY <1>2, <2>1, <2>2, <2>3, <2>4, <2>5, <2>6, <2>7, <2>8, <2>9, <2>10, <2>11, <2>12, <2>13,
       <2>14 DEF MapStep
<1>3. CASE SearchStep
  BY <1>3, SearchStepKeeps DEF MainInv, PushPoints
<1>4. CASE UNCHANGED vars
  BY <1>4 DEF MainInv, PushPoints, vars, treeVars, sharedVars, rebuildVars, mainVars
<1> QED
  BY <1>1, <1>2, <1>3, <1>4, NextCases

LEMMA CleanBefore ==
  ASSUME [Next]_vars, Clean'
  PROVE  Clean
BY NextCases, RebuildStepKeeps, MapStepKeeps, SearchStepKeeps
DEF Clean, vars, rebuildVars, mainVars

LEMMA TargetOfSon ==
  ASSUME TypeOK
  PROVE  /\ Target \subseteq Sons
         /\ Rebuild_Ptr # "root" => Target \subseteq {Rebuild_Ptr}
BY DEF TypeOK, Target, Sons

LEMMA LogInvStep ==
  ASSUME SInv, RebuildInv, MainInv, LogInv, [Next]_vars
  PROVE  LogInv'
<1> SUFFICES ASSUME Clean', Replaying', Rebuild_Ptr' # "root"
             PROVE  /\ Target' \subseteq Reaches(operation')
                    /\ \A i \in DOMAIN Rebuild_Logger' : Target' \subseteq Reaches(Rebuild_Logger'[i])
  BY DEF LogInv
<1>0. Clean /\ Target \subseteq Sons /\ Reaches(NoOp) = Sons /\ Reaches(PUSH_DOWN) = Sons
  BY CleanBefore, TargetOfSon DEF SInv, Reaches, NoOp, PUSH_DOWN
<1>1. CASE RebuildStep
  <2>1. CASE Flatten
    <3>1. operation' = NoOp /\ Rebuild_Logger' = <<>> /\ Target' = Target
      BY <1>0, <2>1 DEF Flatten, RebuildInv, Clean, sharedVars, Target
    <3> QED
      BY <1>0, <3>1
  <2>2. CASE PopOperation
    <3>1. Rebuild_Logger \in Seq(Planned \cup {PUSH_DOWN}) /\ Rebuild_Logger # <<>>
      BY <2>2 DEF PopOperation, SInv, TypeOK
    <3>2. /\ operation' = Rebuild_Logger[1] /\ 1 \in DOMAIN Rebuild_Logger
          /\ \A i \in DOMAIN Rebuild_Logger' :
               i + 1 \in DOMAIN Rebuild_Logger /\ Rebuild_Logger'[i] = Rebuild_Logger[i + 1]
      BY <2>2, <3>1 DEF PopOperation
    <3>3. Replaying /\ UNCHANGED Rebuild_Ptr /\ Target' = Target
      BY <2>2 DEF PopOperation, Replaying, Target
    <3> QED
      BY <1>0, <3>2, <3>3 DEF LogInv
  <2>3. CASE run_operation
    <3>1. operation' = NoOp /\ Rebuild_Logger' = Rebuild_Logger /\ Target' = Target /\ Replaying
          /\ UNCHANGED Rebuild_Ptr
      BY <2>3 DEF run_operation, sharedVars, Target, Replaying
    <3> QED
      BY <1>0, <3>1 DEF LogInv
  <2>4. CASE UNCHANGED <<operation, Rebuild_Logger, Rebuild_Ptr>> /\ Replaying
    BY <1>0, <2>4 DEF LogInv, Target
  <2>5. CASE LockSearch("lock_search_again", "swap") \/ UnlockSearch("unlock_search", "build")
    BY <2>4, <2>5 DEF LockSearch, UnlockSearch, Replaying
  <2>6. CASE BuildTree \/ DrainEnds
    BY <2>4, <2>6 DEF BuildTree, DrainEnds, Replaying, sharedVars
  <2>7. CASE StartRebuild \/ Swap \/ ResetRebuildPtr \/ ResetRebuildFlag \/ DeleteTreeNodes
    BY <2>7 DEF StartRebuild, Swap, ResetRebuildPtr, ResetRebuildFlag, DeleteTreeNodes, Replaying
  <2>8. CASE LockSearch("lock_search", "flatten") \/ UnlockSearch("unlock_search_again", "reset")
    BY <2>8 DEF LockSearch, UnlockSearch, Replaying
  <2> QED
    BY <1>1, <2>1, <2>2, <2>3, <2>5, <2>6, <2>7, <2>8 DEF RebuildStep
<1>2. CASE MapStep
  <2>1. UNCHANGED <<rpc, operation, Rebuild_Ptr>> /\ Replaying /\ Target' = Target
    BY <1>2, MapStepKeeps DEF Replaying, Target
  <2>2. /\ Rebuild_Ptr \in Sons /\ Target = {Rebuild_Ptr}
        /\ Target \subseteq Reaches(operation)
        /\ \A i \in DOMAIN Rebuild_Logger : Target \subseteq Reaches(Rebuild_Logger[i])
    BY <1>0, <2>1 DEF LogInv, RebuildInv, Replaying, SInv, TypeOK, Target, Sons
  <2>3. ASSUME NEW o \in Planned \cup {PUSH_DOWN}, Log(o), Target \subseteq Reaches(o)
        PROVE  \A i \in DOMAIN Rebuild_Logger' : Target \subseteq Reaches(Rebuild_Logger'[i])
    <3>1. Rebuild_Logger \in Seq(Planned \cup {PUSH_DOWN})
      BY DEF SInv, TypeOK
    <3> QED
      BY <2>2, <2>3, <3>1 DEF Log
  <2>4. CASE PushDownLocked
    BY <1>0, <2>1, <2>2, <2>3, <2>4 DEF PushDownLocked
  <2>5. CASE VisitSonLocked
    <3>1. at = Rebuild_Ptr /\ at \in todo /\ todo \subseteq Reaches(Head(plan)) /\ plan # <<>>
      BY <2>2, <2>5 DEF VisitSonLocked, MainInv, PushPoints, Sons, SInv, TypeOK
    <3>2. Head(plan) \in Planned
      BY <3>1, RestOfPlan DEF SInv
    <3> QED
      BY <2>1, <2>2, <2>3, <2>5, <3>1, <3>2 DEF VisitSonLocked
  <2>6. CASE RunLockedOnRoot
    BY <2>2, <2>6 DEF RunLockedOnRoot, MainInv, Sons
  <2>7. CASE UNCHANGED Rebuild_Logger
    BY <2>1, <2>2, <2>7
  <2>8. UNCHANGED Rebuild_Logger \/ PushDownLocked \/ VisitSonLocked \/ RunLockedOnRoot
    BY <1>2 DEF MapStep, AddPoint, AddPointDownsampled, DeletePointBox, PushDown, VisitSon,
       RangeEnterSon, RangeEnd, CheckRebuildPtr, DeleteWhole, Descend, Unwind, sharedVars
  <2> QED
    BY <2>4, <2>5, <2>6, <2>7, <2>8
<1>3. CASE SearchStep
  BY <1>0, <1>3, SearchStepKeeps DEF LogInv, Replaying, Target
<1>4. CASE UNCHANGED vars
  BY <1>0, <1>4 DEF LogInv, Replaying, Target, vars, sharedVars, rebuildVars
<1> QED
  BY <1>1, <1>2, <1>3, <1>4, NextCases

------------------------------------------------------------------------------
(***************************************************************************)
(* What operations do to the two sons is what they do to the map.          *)
(***************************************************************************)
LEMMA StepIsRunOn ==
  ASSUME NEW o \in Operation, NEW L, NEW R
  PROVE  Step(L, o, "left") \cup Step(R, o, "right") = RunOn(L \cup R, o)
<1>1. CASE o.op = "ADD_POINT"
  <2>1. PICK p \in Points : o = Add(p)
    BY <1>1, OperationPoints
  <2>2. Reaches(o) = {SonOf(p)} /\ SonOf(p) \in {"left", "right"}
    BY <2>1, SonOfPoint DEF Sons
  <2> QED
    BY <1>1, <2>2 DEF Step, RunOn
<1>2. CASE o.op # "ADD_POINT"
  BY <1>2, OperationPoints DEF Step, RunOn, Sons
<1> QED
  BY <1>1, <1>2

LEMMA RunAllOne ==
  ASSUME NEW S, NEW o \in Operation, NEW r
  PROVE  RunAll(S, <<o>>, r) = Step(S, o, r)
<1>1. <<>> \in Seq(Operation) /\ <<o>> = Append(<<>>, o)
  OBVIOUS
<1>2. RunAll(S, Append(<<>>, o), r) = Step(RunAll(S, <<>>, r), o, r)
  BY <1>1, RunAllAppend, Zenon
<1> QED
  BY <1>1, <1>2, RunAllEmpty, Zenon

\* Operations on a plan, one after the other.
LEMMA RunAllPlan ==
  ASSUME TypeOK, plan # <<>>, NEW S, NEW r
  PROVE  /\ Len(plan) = 1 => RunAll(S, plan, r) = Step(S, plan[1], r)
         /\ Len(plan) = 2 => RunAll(S, plan, r) = Step(Step(S, plan[1], r), plan[2], r)
<1>1. /\ plan \in Seq(Planned) /\ plan[1] \in Operation
      /\ Len(plan) = 1 \/ (Len(plan) = 2 /\ plan[2] \in Operation)
  BY RestOfPlan DEF TypeOK, Operation
<1>2. RunAll(S, <<plan[1]>>, r) = Step(S, plan[1], r)
  BY <1>1, RunAllOne, Zenon
<1>3. CASE Len(plan) = 1
  <2>1. plan = <<plan[1]>>
    BY <1>1, <1>3, LenOne, Zenon
  <2>2. RunAll(S, plan, r) = Step(S, plan[1], r)
    BY <1>2, <2>1, Zenon
  <2> QED
    BY <1>3, <2>2
<1>4. CASE Len(plan) = 2
  <2>1. plan = <<plan[1], plan[2]>>
    BY <1>1, <1>4, LenTwo, Zenon
  <2>2. <<plan[1], plan[2]>> = Append(<<plan[1]>>, plan[2]) /\ <<plan[1]>> \in Seq(Operation)
    BY <1>1
  <2>3. plan[2] \in Operation
    BY <1>1, <1>4
  <2>4. RunAll(S, Append(<<plan[1]>>, plan[2]), r) = Step(RunAll(S, <<plan[1]>>, r), plan[2], r)
    BY <2>2, <2>3, RunAllAppend, Zenon
  <2>5. RunAll(S, plan, r) = Step(Step(S, plan[1], r), plan[2], r)
    BY <1>2, <2>1, <2>2, <2>4, Zenon
  <2> QED
    BY <1>4, <2>5
<1> QED
  BY <1>1, <1>3, <1>4

LEMMA AfterPlan ==
  ASSUME TypeOK, plan # <<>>, NEW S
  PROVE  /\ Len(plan) = 1 => After(S, plan) = RunOn(S, plan[1])
         /\ Len(plan) = 2 => After(S, plan) = RunOn(RunOn(S, plan[1]), plan[2])
BY DEF After

LEMMA RunAllOnSons ==
  ASSUME TypeOK, plan # <<>>, NEW L, NEW R
  PROVE  RunAll(L, plan, "left") \cup RunAll(R, plan, "right") = After(L \cup R, plan)
<1>1. /\ plan[1] \in Operation
      /\ Len(plan) = 1 \/ (Len(plan) = 2 /\ plan[2] \in Operation)
  BY RestOfPlan DEF Operation
<1>2. Step(L, plan[1], "left") \cup Step(R, plan[1], "right") = RunOn(L \cup R, plan[1])
  BY <1>1, StepIsRunOn
<1>3. CASE Len(plan) = 1
  <2>1. /\ RunAll(L, plan, "left") = Step(L, plan[1], "left")
        /\ RunAll(R, plan, "right") = Step(R, plan[1], "right")
    BY <1>3, RunAllPlan
  <2>2. After(L \cup R, plan) = RunOn(L \cup R, plan[1])
    BY <1>3, AfterPlan
  <2> QED
    BY <1>2, <2>1, <2>2, Zenon
<1>4. CASE Len(plan) = 2
  <2>1. /\ RunAll(L, plan, "left") = Step(Step(L, plan[1], "left"), plan[2], "left")
        /\ RunAll(R, plan, "right") = Step(Step(R, plan[1], "right"), plan[2], "right")
    BY <1>4, RunAllPlan
  <2>2. plan[2] \in Operation
    BY <1>1, <1>4
  <2>3. Step(Step(L, plan[1], "left"), plan[2], "left")
          \cup Step(Step(R, plan[1], "right"), plan[2], "right")
        = RunOn(Step(L, plan[1], "left") \cup Step(R, plan[1], "right"), plan[2])
    BY <2>2, StepIsRunOn, Zenon
  <2>4. After(L \cup R, plan) = RunOn(RunOn(L \cup R, plan[1]), plan[2])
    BY <1>4, AfterPlan
  <2> QED
    BY <1>2, <2>1, <2>3, <2>4, Zenon
<1> QED
  BY <1>1, <1>3, <1>4

\* An operation adds points below the sons it reaches only.
LEMMA StepStaysBelow ==
  ASSUME NEW o \in Operation, NEW r \in Sons, NEW S \in SUBSET PointsOf(r)
  PROVE  Step(S, o, r) \in SUBSET PointsOf(r)
<1>1. CASE o.op = "ADD_POINT"
  BY <1>1, OperationPoints, SonOfPoint DEF Step, RunOn, Add
<1>2. CASE o.op # "ADD_POINT"
  BY <1>2 DEF Step, RunOn
<1> QED
  BY <1>1, <1>2

LEMMA RunAllStaysBelow ==
  ASSUME TypeOK, plan # <<>>, NEW r \in Sons, NEW S \in SUBSET PointsOf(r)
  PROVE  RunAll(S, plan, r) \in SUBSET PointsOf(r)
<1>1. /\ plan[1] \in Operation
      /\ Len(plan) = 1 \/ (Len(plan) = 2 /\ plan[2] \in Operation)
  BY RestOfPlan DEF Operation
<1> QED
  BY <1>1, RunAllPlan, StepStaysBelow

\* The first operation of a plan, and then the rest.
LEMMA AfterFirst ==
  ASSUME TypeOK, plan # <<>>, NEW S
  PROVE  After(S, plan) = After(RunOn(S, Head(plan)), Tail(plan))
<1>1. Head(plan) = plan[1] /\ (Len(plan) = 1 <=> Tail(plan) = <<>>)
      /\ (Len(plan) = 1 \/ Len(plan) = 2) /\ (Len(plan) = 2 => Tail(plan) = <<plan[2]>>)
  BY RestOfPlan
<1>2. Len(<<plan[2]>>) = 1 /\ <<plan[2]>>[1] = plan[2] /\ <<plan[2]>> # <<>>
  OBVIOUS
<1> QED
  BY <1>1, <1>2 DEF After

LEMMA CompletedSons ==
  Completed = (IF "left" \in todo THEN RunOn(tree["left"], Head(plan)) ELSE tree["left"])
         \cup (IF "right" \in todo THEN RunOn(tree["right"], Head(plan)) ELSE tree["right"])
BY DEF Completed, Sons

\* Nothing is replayed that has not been logged.
LEMMA ReplayType ==
  ASSUME TypeOK
  PROVE  ToReplay \in Seq(Operation) /\ operation \in Operation
         /\ Rebuild_Logger \in Seq(Operation)
BY DEF TypeOK, ToReplay, Operation

LEMMA NothingToReplay ==
  ASSUME operation = NoOp, Rebuild_Logger = <<>>, NEW r \in Sons
  PROVE  Replayed(r) = new[r]
<1>1. ToReplay = <<NoOp>>
  BY DEF ToReplay
<1>2. Step(new[r], NoOp, r) = new[r]
  BY DEF Step, NoOp, RunOn
<1>3. RunAll(new[r], <<NoOp>>, r) = Step(new[r], NoOp, r)
  BY OperationType, RunAllOne, Zenon
<1> QED
  BY <1>1, <1>2, <1>3, Zenon DEF Replayed

\* What the subtree being rebuilt holds.
Content(r) == IF Rebuild_Ptr = "root" THEN Below(r) ELSE tree[r]
LEMMA ReplayCatchesUpIs ==
  ReplayCatchesUp <=> (Clean /\ Replaying => \A r \in Target : Replayed(r) = Content(r))
BY DEF ReplayCatchesUp, Replaying, Content

\* The swap leaves the map as it is.
LEMMA SwapKeepsContent ==
  ASSUME SInv, RebuildInv, ReplayCatchesUp, Clean, Swap, NEW r \in Sons
  PROVE  /\ Below(r)' = Below(r)
         /\ tree'[r] = IF Rebuild_Ptr = "root" THEN Below(r) ELSE tree[r]
<1>1. operation = NoOp /\ Rebuild_Logger = <<>> /\ Replaying /\ TypeOK
  BY DEF RebuildInv, Swap, Replaying, SInv
<1>2. \A q \in Target : new[q] = Content(q)
  BY <1>1, NothingToReplay, ReplayCatchesUpIs, TargetOfSon
<1>3. Rebuild_Ptr = "root" => r \in Target
  BY DEF Target
<1>4. tree'[r] = IF Rebuild_Ptr = "root" THEN Below(r) ELSE tree[r]
  BY <1>2, <1>3 DEF Swap, Content
<1>5. push'[r] = (push[r] /\ Rebuild_Ptr # "root")
  BY DEF Swap
<1> QED
  BY <1>4, <1>5 DEF Below

------------------------------------------------------------------------------
(***************************************************************************)
(* The map, with what is left to do, is as it should be.                   *)
(***************************************************************************)
\* A cell is below one son, so what is there of it is what is there of it below that son.
LEMMA CellOfSon ==
  ASSUME SInv, ContentInv, mpc \in Ranging
  PROVE  Below(SonOf(arrival)) \cap cell = Visible \cap cell
<1>1. /\ cell \in Cells /\ arrival \in cell /\ cell \subseteq Points
      /\ cell \subseteq LeftPoints \/ cell \subseteq RightPoints
      /\ LeftPoints \cap RightPoints = {}
  BY IkdAssumption DEF SInv, RangeInv, Points
<1>2. cell \subseteq PointsOf(SonOf(arrival)) /\ SonOf(arrival) \in Sons
  BY <1>1 DEF PointsOf, SonOf, Sons
<1>3. \A r \in Sons : Below(r) \subseteq PointsOf(r)
  BY DEF ContentInv, Below
<1>4. \A r \in Sons : r # SonOf(arrival) => Below(r) \cap cell = {}
  BY <1>1, <1>2, <1>3 DEF PointsOf, Sons
<1> QED
  BY <1>2, <1>4 DEF Visible, Sons

\* The operations planned for a downsampled addition do what it should do.
LEMMA DownsamplePlan ==
  ASSUME NEW V \in SUBSET Points, NEW c \in SUBSET Points, NEW p \in Points, NEW q,
         q = IF Keeps(p, V \cap c)
               THEN (IF V \cap c = {} THEN <<>> ELSE <<Delete(c)>>)
                      \o <<Add(Nearest((V \cap c) \cup {p}))>>
               ELSE <<>>
  PROVE  After(V, q) = Downsampled(V, p, c)
<1> DEFINE a == Add(Nearest((V \cap c) \cup {p}))
<1>1. CASE ~Keeps(p, V \cap c)
  BY <1>1 DEF After, Downsampled
<1>2. CASE Keeps(p, V \cap c) /\ V \cap c = {}
  <2>1. q = <<a>> /\ Len(<<a>>) = 1 /\ <<a>>[1] = a /\ <<a>> # <<>>
    BY <1>2, PlanShape
  <2>2. After(V, q) = RunOn(V, a)
    BY <2>1 DEF After
  <2>3. RunOn(V, a) = V \cup {Nearest((V \cap c) \cup {p})}
    BY DEF RunOn, Add
  <2>4. V \ c = V
    BY <1>2
  <2> QED
    BY <1>2, <2>2, <2>3, <2>4 DEF Downsampled
<1>3. CASE Keeps(p, V \cap c) /\ V \cap c # {}
  <2>1. q = <<Delete(c)>> \o <<a>>
    BY <1>3
  <2>2. /\ q = <<Delete(c), a>> /\ Len(q) = 2 /\ q[1] = Delete(c) /\ q[2] = a
    <3>1. PICK d, b : d = Delete(c) /\ b = a
      OBVIOUS
    <3> HIDE DEF a
    <3>2. q = <<d>> \o <<b>>
      BY <2>1, <3>1
    <3>3. /\ <<d>> \o <<b>> = <<d, b>> /\ Len(<<d, b>>) = 2
          /\ <<d, b>>[1] = d /\ <<d, b>>[2] = b
      BY PlanShape, Zenon
    <3>4. q = <<d, b>>
      BY <3>2, <3>3, Zenon
    <3>5. Len(q) = 2 /\ q[1] = d /\ q[2] = b
      BY <3>3, <3>4, Zenon
    <3> QED
      BY <3>1, <3>4, <3>5, Zenon
  <2>4. q # <<>>
    BY <2>2
  <2>5. After(V, q) = RunOn(RunOn(V, Delete(c)), a)
    BY <2>2, <2>4 DEF After
  <2>3. RunOn(RunOn(V, Delete(c)), a) = (V \ c) \cup {Nearest((V \cap c) \cup {p})}
    BY DEF RunOn, Add, Delete
  <2> QED
    BY <1>3, <2>5, <2>3 DEF Downsampled
<1> QED
  BY <1>1, <1>2, <1>3

LEMMA BelowPoints ==
  ASSUME TypeOK
  PROVE  Visible \in SUBSET Points /\ \A r \in Sons : Below(r) \in SUBSET Points
BY DEF TypeOK, Visible, Below, Sons

LEMMA ContentBegins ==
  ASSUME SInv, ContentInv,
         \/ \E p \in Points : AddPoint(p) \/ (\E c \in Cells : AddPointDownsampled(p, c))
         \/ \E box \in Boxes : DeletePointBox(box)
  PROVE  ContentInv'
<1> USE DEF treeVars, Begin
<1>1. CASE \E p \in Points : AddPoint(p)
  <2>1. PICK p \in Points : AddPoint(p)
    BY <1>1
  <2>2. /\ UNCHANGED <<tree, push>> /\ Visible' = Visible /\ Visible = expected
        /\ mpc' = "check" /\ plan' = <<Add(p)>> /\ expected' = expected \cup {p}
    BY <2>1 DEF AddPoint, Visible, Below, ContentInv
  <2>3. After(Visible, <<Add(p)>>) = Visible \cup {p}
    BY DEF After, RunOn, Add
  <2> QED
    BY <2>2, <2>3 DEF ContentInv, Ranging
<1>2. CASE \E p \in Points, c \in Cells : AddPointDownsampled(p, c)
  <2>1. PICK p \in Points, c \in Cells : AddPointDownsampled(p, c)
    BY <1>2
  <2>2. /\ UNCHANGED <<tree, push>> /\ Visible' = Visible /\ Visible = expected
        /\ mpc' = "range" /\ cell' = c /\ arrival' = p /\ expected' = Downsampled(expected, p, c)
    BY <2>1 DEF AddPointDownsampled, Visible, Below, ContentInv
  <2>3. (Downsampled(Visible, arrival, cell))' = Downsampled(Visible', arrival', cell')
    BY DEF Downsampled, Keeps, Nearest
  <2> QED
    BY <2>2, <2>3 DEF ContentInv, Ranging
<1>3. CASE \E box \in Boxes : DeletePointBox(box)
  <2>1. PICK box \in Boxes : DeletePointBox(box)
    BY <1>3
  <2>2. /\ UNCHANGED <<tree, push>> /\ Visible' = Visible /\ Visible = expected
        /\ mpc' = "check" /\ plan' = <<Delete(box)>> /\ expected' = expected \ box
    BY <2>1 DEF DeletePointBox, Visible, Below, ContentInv
  <2>3. After(Visible, <<Delete(box)>>) = Visible \ box
    BY DEF After, RunOn, Delete
  <2> QED
    BY <2>2, <2>3 DEF ContentInv, Ranging
<1> QED
  BY <1>1, <1>2, <1>3

LEMMA ContentPushed ==
  ASSUME SInv, MainInv, ContentInv, (\E r \in Sons : PushDown(r)) \/ PushDownLocked
  PROVE  ContentInv'
<1>1. PICK r \in Sons : /\ push[r]
                        /\ \/ UNCHANGED <<tree, push>>
                           \/ /\ tree' = [tree EXCEPT ![r] = {}]
                              /\ push' = [push EXCEPT ![r] = FALSE]
  <2>1. ASSUME NEW r \in Sons, PushDown(r)
        PROVE  /\ push[r]
               /\ \/ UNCHANGED <<tree, push>>
                  \/ /\ tree' = [tree EXCEPT ![r] = {}]
                     /\ push' = [push EXCEPT ![r] = FALSE]
    BY <2>1 DEF PushDown, treeVars
  <2>2. CASE PushDownLocked
    <3>1. at \in Sons /\ push[at]
      BY <2>2 DEF PushDownLocked, MainInv, PushPoints, SInv, TypeOK
    <3> QED
      BY <2>2, <3>1 DEF PushDownLocked
  <2> QED
    BY <2>1, <2>2
<1>2. tree \in [Sons -> SUBSET Points] /\ push \in [Sons -> BOOLEAN]
  BY DEF SInv, TypeOK
<1>3. \A q \in Sons : Below(q)' = Below(q) /\ tree'[q] \subseteq tree[q]
  BY <1>1, <1>2 DEF Below
<1>4. Visible' = Visible
  BY <1>3 DEF Visible, Sons
<1>5. UNCHANGED <<mpc, plan, todo, cell, arrival, expected>> /\ mpc \in {"range", "push"}
  BY DEF PushDown, PushDownLocked, PushPoints
<1>6. (Downsampled(Visible, arrival, cell))' = Downsampled(Visible, arrival, cell)
  BY <1>4, <1>5 DEF Downsampled, Keeps, Nearest
<1>7. After(Visible, plan)' = After(Visible, plan)
  BY <1>4, <1>5
<1>8. \A q \in Sons : tree'[q] \subseteq PointsOf(q)
  BY <1>3 DEF ContentInv
<1> QED
  BY <1>4, <1>5, <1>6, <1>7, <1>8 DEF ContentInv, Ranging

LEMMA ContentVisited ==
  ASSUME SInv, MainInv, ContentInv, (\E r \in Sons : VisitSon(r)) \/ VisitSonLocked
  PROVE  ContentInv'
<1>1. UNCHANGED <<mpc, plan, expected>> /\ mpc = "descend"
  BY DEF VisitSon, VisitSonLocked
<1>2. CASE UNCHANGED <<tree, todo>>
  BY <1>1, <1>2 DEF ContentInv, Completed, Ranging
<1>3. ASSUME NEW r \in Sons, r \in todo, tree' = [tree EXCEPT ![r] = RunOn(@, Head(plan))],
             todo' = todo \ {r}
      PROVE  ContentInv'
  <2>1. tree \in [Sons -> SUBSET Points]
    BY DEF SInv, TypeOK
  <2>2. /\ tree'[r] = RunOn(tree[r], Head(plan))
        /\ \A q \in Sons : q # r => tree'[q] = tree[q]
    BY <1>3, <2>1
  <2>3. Head(plan) \in Operation
    BY <1>1, RestOfPlan DEF SInv, TypeOK
  <2>4. tree'[r] \subseteq PointsOf(r)
    <3>1. RunOn(tree[r], Head(plan)) = Step(tree[r], Head(plan), r)
      BY <1>1, <1>3 DEF MainInv, Step
    <3>2. tree[r] \in SUBSET PointsOf(r)
      BY DEF ContentInv
    <3> QED
      BY <2>2, <2>3, <3>1, <3>2, StepStaysBelow
  <2>5. Completed' = Completed
    <3>1. \A q \in Sons : (IF q \in todo THEN RunOn(tree[q], Head(plan)) ELSE tree[q])
                       = (IF q \in todo' THEN RunOn(tree'[q], Head(plan)) ELSE tree'[q])
      BY <1>3, <2>2
    <3> QED
      BY <1>1, <3>1 DEF Completed
  <2>6. \A q \in Sons : tree'[q] \subseteq PointsOf(q)
    BY <2>2, <2>4 DEF ContentInv
  <2> QED
    BY <1>1, <2>5, <2>6 DEF ContentInv, Ranging
<1>4. ASSUME NEW r \in Sons, VisitSon(r)
      PROVE  \/ UNCHANGED <<tree, todo>>
             \/ r \in todo /\ tree' = [tree EXCEPT ![r] = RunOn(@, Head(plan))]
                /\ todo' = todo \ {r}
  BY <1>4 DEF VisitSon
<1>5. CASE VisitSonLocked
  <2>1. at \in Sons /\ at \in todo
    BY <1>5 DEF VisitSonLocked, MainInv, PushPoints, SInv, TypeOK
  <2> QED
    BY <1>3, <1>5, <2>1 DEF VisitSonLocked
<1> QED
  BY <1>2, <1>3, <1>4, <1>5

LEMMA ContentPlanned ==
  ASSUME SInv, MainInv, ContentInv, Clean', RangeEnterSon \/ RangeEnd \/ CheckRebuildPtr
  PROVE  ContentInv'
<1>1. UNCHANGED <<tree, push, todo, cell, arrival, expected>> /\ Visible' = Visible
  BY DEF RangeEnterSon, RangeEnd, CheckRebuildPtr, treeVars, Visible, Below
<1>2. CASE RangeEnterSon
  <2>1. (Downsampled(Visible, arrival, cell))' = Downsampled(Visible, arrival, cell)
    BY <1>1 DEF Downsampled, Keeps, Nearest
  <2>2. mpc = "range" /\ mpc' \in {"range_son", "range_locked"}
    BY <1>2 DEF RangeEnterSon
  <2> QED
    BY <1>1, <2>1, <2>2 DEF ContentInv, Ranging
<1>3. CASE RangeEnd
  <2>1. mpc \in Ranging /\ range # "freed"
    BY <1>3 DEF RangeEnd, Ranging, Clean
  <2>2. plan' = IF Keeps(arrival, Visible \cap cell)
                  THEN (IF Visible \cap cell = {} THEN <<>> ELSE <<Delete(cell)>>)
                         \o <<Add(Nearest((Visible \cap cell) \cup {arrival}))>>
                  ELSE <<>>
    BY <1>3, <2>1, CellOfSon DEF RangeEnd
  <2>3. After(Visible, plan') = Downsampled(Visible, arrival, cell)
    BY <2>1, <2>2, BelowPoints, CellPoints, DownsamplePlan DEF SInv
  <2>4. After(Visible', plan') = expected'
    BY <1>1, <2>1, <2>3 DEF ContentInv
  <2>5. mpc' = IF plan' = <<>> THEN "idle" ELSE "check"
    BY <1>3 DEF RangeEnd
  <2>6. plan' = <<>> => Visible' = expected'
    BY <2>4 DEF After
  <2> QED
    BY <1>1, <2>4, <2>5, <2>6 DEF ContentInv, Ranging
<1>4. CASE CheckRebuildPtr
  <2>1. plan # <<>> /\ After(Visible, plan) = expected /\ mpc = "check"
    BY <1>4 DEF CheckRebuildPtr, ContentInv, SInv, TypeOK
  <2>2. CASE mpc' = "idle"
    <3>1. Head(plan).op = "DELETE_BOX" /\ \A r \in Sons : push[r]
      BY <1>4, <2>2 DEF CheckRebuildPtr
    <3>2. Len(plan) = 1 /\ Head(plan) = plan[1]
      BY <2>1, <3>1, RestOfPlan, SonsExist DEF SInv, MainInv
    <3>3. Visible = {}
      BY <3>1 DEF Visible, Below, Sons
    <3>4. After(Visible, plan) = {}
      BY <2>1, <3>1, <3>2, <3>3, AfterPlan DEF SInv, RunOn
    <3> QED
      BY <1>1, <2>1, <2>2, <3>3, <3>4 DEF ContentInv, Ranging
  <2>3. CASE mpc' # "idle"
    <3>1. mpc' \in {"wait_root", "push"} /\ plan' = plan
      BY <1>4, <2>3 DEF CheckRebuildPtr
    <3> QED
      BY <1>1, <2>1, <3>1 DEF ContentInv, Ranging
  <2> QED
    BY <2>2, <2>3
<1> QED
  BY <1>2, <1>3, <1>4

\* Where the tree is deleted as a whole nothing would have been left of it.
LEMMA WholeLeavesNothing ==
  ASSUME TypeOK, plan # <<>>, StopsAtRoot(Head(plan)), NEW r \in Sons
  PROVE  RunOn(Below(r), Head(plan)) = {} /\ Head(plan).op = "DELETE_BOX"
<1>1. Below(r) \subseteq Points
  BY BelowPoints
<1> QED
  BY <1>1 DEF StopsAtRoot, Whole, RunOn, Below

LEMMA ContentOnRoot ==
  ASSUME SInv, MainInv, ContentInv, RunLockedOnRoot
  PROVE  ContentInv' /\ \A r \in Sons : Below(r)' = RunAll(Below(r), plan, r)
<1>1. /\ plan # <<>> /\ TypeOK /\ Head(plan) = plan[1] /\ Head(plan) \in Operation
      /\ After(Visible, plan) = expected
  BY RestOfPlan DEF RunLockedOnRoot, SInv, TypeOK, ContentInv
<1>2. \A r \in Sons : /\ Below(r)' = RunAll(Below(r), plan, r)
                      /\ tree'[r] \subseteq PointsOf(r)
  <2>1. SUFFICES ASSUME NEW r \in Sons
                 PROVE  Below(r)' = RunAll(Below(r), plan, r) /\ tree'[r] \subseteq PointsOf(r)
    OBVIOUS
  <2>2. CASE Len(plan) = 1 /\ StopsAtRoot(Head(plan))
    <3>1. RunOn(Below(r), Head(plan)) = {} /\ Head(plan).op = "DELETE_BOX"
      BY <1>1, <2>2, WholeLeavesNothing
    <3>2. RunAll(Below(r), plan, r) = Step(Below(r), plan[1], r)
      BY <1>1, <2>2, RunAllPlan
    <3>3. Step(Below(r), plan[1], r) = {}
      BY <1>1, <3>1, OperationPoints DEF Step
    <3>4. tree' = tree /\ push'[r]
      BY <2>2 DEF RunLockedOnRoot
    <3> QED
      BY <3>2, <3>3, <3>4 DEF Below, ContentInv
  <2>3. CASE ~(Len(plan) = 1 /\ StopsAtRoot(Head(plan)))
    <3>1. tree'[r] = RunAll(Below(r), plan, r) /\ ~push'[r]
      BY <2>3 DEF RunLockedOnRoot
    <3>2. Below(r) \in SUBSET PointsOf(r)
      BY DEF ContentInv, Below
    <3> QED
      BY <1>1, <3>1, <3>2, RunAllStaysBelow DEF Below
  <2> QED
    BY <2>2, <2>3
<1>3. Visible' = After(Visible, plan)
  BY <1>1, <1>2, RunAllOnSons DEF Visible, Sons
<1>4. mpc' = "idle" /\ expected' = expected
  BY DEF RunLockedOnRoot
<1> QED
  BY <1>1, <1>2, <1>3, <1>4 DEF ContentInv, Ranging

LEMMA ContentDescends ==
  ASSUME SInv, MainInv, ContentInv, DeleteWhole \/ Descend \/ Unwind
  PROVE  ContentInv'
<1>1. /\ plan # <<>> /\ TypeOK /\ Head(plan) = plan[1] /\ Head(plan) \in Operation
  BY RestOfPlan DEF DeleteWhole, Descend, Unwind, SInv, TypeOK
<1>2. CASE DeleteWhole
  <2>1. /\ tree' = tree /\ expected' = expected /\ plan' = Tail(plan)
        /\ mpc' = IF plan' = <<>> THEN "idle" ELSE "push"
        /\ \A r \in Sons : push'[r]
    BY <1>2 DEF DeleteWhole, NextOperation
  <2>2. Visible' = {}
    BY <2>1 DEF Visible, Below, Sons
  <2>3. RunOn(Visible, Head(plan)) = {}
    BY <1>1, <1>2, BelowPoints DEF DeleteWhole, Whole, RunOn
  <2>4. After({}, Tail(plan)) = expected
    BY <1>1, <1>2, <2>3, AfterFirst DEF DeleteWhole, ContentInv
  <2>5. Tail(plan) = <<>> => expected = {}
    BY <2>4 DEF After
  <2>6. \A r \in Sons : tree'[r] \subseteq PointsOf(r)
    BY <2>1 DEF ContentInv
  <2> QED
    BY <2>1, <2>2, <2>4, <2>5, <2>6 DEF ContentInv, Ranging
<1>3. CASE Descend
  <2>1. /\ UNCHANGED <<tree, push, plan, expected>> /\ mpc' = "descend"
        /\ todo' = Reaches(Head(plan)) /\ \A r \in Sons : ~push[r]
    BY <1>3 DEF Descend, treeVars, Pushed
  <2>2. Completed' = Step(tree["left"], Head(plan), "left")
                       \cup Step(tree["right"], Head(plan), "right")
    BY <2>1 DEF Completed, Sons, Step
  <2>3. Visible = tree["left"] \cup tree["right"]
    BY <2>1 DEF Visible, Below, Sons
  <2>4. Completed' = RunOn(Visible, Head(plan))
    BY <1>1, <2>2, <2>3, StepIsRunOn
  <2>5. After(Completed', Tail(plan)) = expected
    BY <1>1, <1>3, <2>4, AfterFirst DEF Descend, ContentInv
  <2> QED
    BY <2>1, <2>5 DEF ContentInv, Ranging
<1>4. CASE Unwind
  <2>1. /\ UNCHANGED <<tree, push, expected>> /\ plan' = Tail(plan) /\ mpc = "descend"
        /\ mpc' = IF plan' = <<>> THEN "idle" ELSE "push"
        /\ todo = {} /\ \A r \in Sons : ~push[r]
    BY <1>4 DEF Unwind, NextOperation, treeVars, MainInv
  <2>2. Completed = Visible /\ Visible' = Visible
    BY <2>1 DEF Completed, Visible, Below, Sons
  <2>3. After(Visible, Tail(plan)) = expected
    BY <2>1, <2>2 DEF ContentInv
  <2>4. Tail(plan) = <<>> => Visible = expected
    BY <2>3 DEF After
  <2> QED
    BY <2>1, <2>2, <2>3, <2>4 DEF ContentInv, Ranging
<1> QED
  BY <1>2, <1>3, <1>4

LEMMA ContentStep ==
  ASSUME IInv, [Next]_vars, Clean'
  PROVE  ContentInv'
<1>0. SInv /\ RebuildInv /\ MainInv /\ ContentInv /\ ReplayCatchesUp /\ Clean
  BY CleanBefore DEF IInv
<1>1. CASE RebuildStep
  <2>1. UNCHANGED <<mpc, plan, todo, cell, arrival, expected>>
    BY <1>1, RebuildStepKeeps
  <2>2. CASE UNCHANGED <<tree, push>>
    <3>1. UNCHANGED <<Visible, Completed>>
      BY <2>1, <2>2 DEF Visible, Below, Completed
    <3>2. (Downsampled(Visible, arrival, cell))' = Downsampled(Visible, arrival, cell)
      BY <2>1, <3>1 DEF Downsampled, Keeps, Nearest
    <3> QED
      BY <1>0, <2>1, <2>2, <3>1, <3>2 DEF ContentInv, Ranging
  <2>3. CASE Swap
    <3>1. \A r \in Sons : /\ Below(r)' = Below(r)
                          /\ tree'[r] = IF Rebuild_Ptr = "root" THEN Below(r) ELSE tree[r]
      BY <1>0, <2>3, SwapKeepsContent
    <3>2. UNCHANGED Visible
      BY <3>1 DEF Visible, Sons
    <3>3. (Downsampled(Visible, arrival, cell))' = Downsampled(Visible, arrival, cell)
      BY <2>1, <3>2 DEF Downsampled, Keeps, Nearest
    <3>4. \A r \in Sons : tree'[r] \subseteq PointsOf(r)
      BY <1>0, <3>1 DEF ContentInv, Below
    <3>5. mpc = "descend" => \A r \in Sons : tree'[r] = tree[r]
      BY <1>0, <3>1 DEF MainInv, Below
    <3>6. mpc = "descend" => Completed' = Completed
      BY <2>1, <3>5 DEF Completed
    <3> QED
      BY <1>0, <2>1, <3>2, <3>3, <3>4, <3>6 DEF ContentInv, Ranging
  <2>4. ASSUME NEW from, NEW to, LockSearch(from, to) \/ UnlockSearch(from, to)
        PROVE  UNCHANGED <<tree, push>>
    BY <2>4 DEF LockSearch, UnlockSearch, treeVars
  <2>5. CASE StartRebuild \/ Flatten \/ BuildTree \/ PopOperation \/ run_operation \/ DrainEnds
             \/ ResetRebuildPtr \/ ResetRebuildFlag \/ DeleteTreeNodes
    BY <2>2, <2>5 DEF StartRebuild, Flatten, BuildTree, PopOperation, run_operation, DrainEnds,
                      ResetRebuildPtr, ResetRebuildFlag, DeleteTreeNodes, treeVars
  <2> QED
    BY <1>1, <2>2, <2>3, <2>4, <2>5 DEF RebuildStep
<1>2. CASE MapStep
  BY <1>0, <1>2, ContentBegins, ContentPushed, ContentVisited, ContentPlanned, ContentOnRoot,
     ContentDescends DEF MapStep
<1>3. CASE SearchStep
  <2>1. UNCHANGED <<tree, push, plan, todo, cell, arrival, expected, Visible, Completed>>
        /\ (UNCHANGED mpc \/ (mpc \in {"idle", "search"} /\ mpc' \in {"idle", "search"}))
    BY <1>3, SearchStepKeeps DEF Visible, Below, Completed, SearchStep, BeginSearch, EndSearch,
       Nearest_Search, SearchSon, Enter, Leave
  <2>2. (Downsampled(Visible, arrival, cell))' = Downsampled(Visible, arrival, cell)
    BY <2>1 DEF Downsampled, Keeps, Nearest
  <2> QED
    BY <1>0, <2>1, <2>2 DEF ContentInv, Ranging
<1>4. CASE UNCHANGED vars
  <2>1. UNCHANGED <<tree, push, plan, todo, cell, arrival, expected, mpc, Visible, Completed>>
    BY <1>4 DEF Visible, Below, Completed, vars, treeVars, mainVars
  <2>2. (Downsampled(Visible, arrival, cell))' = Downsampled(Visible, arrival, cell)
    BY <2>1 DEF Downsampled, Keeps, Nearest
  <2> QED
    BY <1>0, <2>1, <2>2 DEF ContentInv, Ranging
<1> QED
  BY <1>1, <1>2, <1>3, <1>4, NextCases

------------------------------------------------------------------------------
(***************************************************************************)
(* The new tree catches up with the log.                                   *)
(***************************************************************************)
LEMMA ReplaySame ==
  ASSUME UNCHANGED <<new, operation, Rebuild_Logger>>, NEW r
  PROVE  Replayed(r)' = Replayed(r)
BY DEF Replayed, ToReplay, RunAll, Reached

\* An operation logged is replayed after the others.
LEMMA ReplayOneMore ==
  ASSUME TypeOK, UNCHANGED <<new, operation>>, NEW o \in Operation,
         Rebuild_Logger' = Append(Rebuild_Logger, o), NEW r
  PROVE  Replayed(r)' = Step(Replayed(r), o, r)
<1>1. ToReplay' = Append(ToReplay, o)
  BY ReplayType DEF ToReplay
<1>2. RunAll(new[r], Append(ToReplay, o), r) = Step(RunAll(new[r], ToReplay, r), o, r)
  BY ReplayType, RunAllAppend, Zenon
<1>3. Replayed(r)' = RunAll(new'[r], ToReplay', r)
  BY DEF Replayed, RunAll, Reached
<1> QED
  BY <1>1, <1>2, <1>3 DEF Replayed

\* A plan that is logged is replayed last.
LEMMA LogOne ==
  ASSUME NEW S, NEW o \in S, NEW log \in Seq(S), NEW a \in S
  PROVE  <<o>> \o (log \o <<a>>) = Append(<<o>> \o log, a)
OBVIOUS

LEMMA LogTwo ==
  \A o, a, b \in Operation : \A log \in Seq(Operation) :
     <<o>> \o (log \o <<a, b>>) = Append(Append(<<o>> \o log, a), b)
<1> SUFFICES ASSUME NEW o \in Operation, NEW a \in Operation, NEW b \in Operation,
                    NEW log \in Seq(Operation)
             PROVE  <<o>> \o (log \o <<a, b>>) = Append(Append(<<o>> \o log, a), b)
  OBVIOUS
<1> QED
  OBVIOUS

\* What is left to replay can be replayed from its first operation.
LEMMA ReplayFirst ==
  ASSUME TypeOK, NEW r
  PROVE  Replayed(r) = RunAll(Step(new[r], operation, r), Rebuild_Logger, r)
BY ReplayType, RunAllFirst DEF Replayed, ToReplay

LEMMA NoOpDoesNothing == \A S, r : Step(S, NoOp, r) = S
BY DEF Step, NoOp, RunOn

LEMMA NoOpAlone == \A S, r : RunAll(S, <<NoOp>>, r) = S
<1> SUFFICES ASSUME NEW S, NEW r PROVE RunAll(S, <<NoOp>>, r) = S
  OBVIOUS
<1>1. RunAll(S, <<NoOp>>, r) = Step(S, NoOp, r)
  BY OperationType, RunAllOne, Zenon
<1> QED
  BY <1>1, NoOpDoesNothing

LEMMA NoOpFirst ==
  \A S, r : \A log \in Seq(Operation) : RunAll(S, <<NoOp>> \o log, r) = RunAll(S, log, r)
<1> SUFFICES ASSUME NEW S, NEW r, NEW log \in Seq(Operation)
             PROVE  RunAll(S, <<NoOp>> \o log, r) = RunAll(S, log, r)
  OBVIOUS
<1>1. RunAll(S, <<NoOp>> \o log, r) = RunAll(Step(S, NoOp, r), log, r)
  BY OperationType, RunAllFirst, Zenon
<1> QED
  BY <1>1, NoOpDoesNothing

LEMMA ReplayOfRebuild ==
  ASSUME SInv, RebuildInv, LogInv, ReplayCatchesUp, Clean, RebuildStep, Replaying'
  PROVE  \A r \in Target' : Replayed(r)' = Content(r)'
<1>0. TypeOK /\ Target \subseteq Sons
  BY TargetOfSon DEF SInv
<1>1. ASSUME UNCHANGED <<tree, push, Rebuild_Ptr>>, NEW r
      PROVE  Content(r)' = Content(r)
  BY <1>1 DEF Content, Below
<1>2. CASE Flatten
  <2>1. operation = NoOp /\ Rebuild_Logger = <<>>
    BY <1>2 DEF Flatten, RebuildInv, Clean
  <2>2. UNCHANGED <<tree, push, Rebuild_Ptr, operation, Rebuild_Logger>> /\ Target' = Target
    BY <1>2 DEF Flatten, treeVars, sharedVars, Target
  <2>3. \A r \in Target : new'[r] = Content(r)
    BY <1>0, <1>2 DEF Flatten, Content
  <2>4. ASSUME NEW r \in Target PROVE Replayed(r)' = new'[r]
    <3>1. operation' = NoOp /\ Rebuild_Logger' = <<>> /\ r \in Sons
      BY <1>0, <2>1, <2>2
    <3>2. ToReplay' = <<NoOp>>
      BY <3>1 DEF ToReplay
    <3>3. RunAll(new'[r], <<NoOp>>, r) = new'[r]
      BY NoOpAlone
    <3>4. Replayed(r)' = RunAll(new'[r], ToReplay', r)
      BY DEF Replayed, RunAll, Reached
    <3> QED
      BY <3>2, <3>3, <3>4
  <2> QED
    BY <1>1, <2>2, <2>3, <2>4
<1>3. ASSUME UNCHANGED <<tree, push, Rebuild_Ptr>>, Replaying,
             \A r \in Target : Replayed(r)' = Replayed(r)
      PROVE  \A r \in Target' : Replayed(r)' = Content(r)'
  <2>1. Target' = Target
    BY <1>3 DEF Target
  <2> QED
    BY <1>1, <1>3, <2>1, ReplayCatchesUpIs
<1>4. CASE PopOperation
  <2>1. /\ UNCHANGED <<tree, push, Rebuild_Ptr, new>> /\ Replaying /\ operation = NoOp
        /\ Rebuild_Logger # <<>>
        /\ operation' = Head(Rebuild_Logger) /\ Rebuild_Logger' = Tail(Rebuild_Logger)
    BY <1>4 DEF PopOperation, treeVars, Replaying, RebuildInv
  <2>2. ToReplay' = Rebuild_Logger
    <3>1. Rebuild_Logger \in Seq(Operation) /\ Rebuild_Logger # <<>>
      BY <1>0, <2>1, ReplayType
    <3>2. <<Head(Rebuild_Logger)>> \o Tail(Rebuild_Logger) = Rebuild_Logger
      BY <3>1
    <3> QED
      BY <2>1, <3>2 DEF ToReplay
  <2>3. ASSUME NEW r \in Target PROVE Replayed(r)' = Replayed(r)
    <3>1. Replayed(r)' = RunAll(new'[r], ToReplay', r)
      BY DEF Replayed, RunAll, Reached
    <3>2. Replayed(r) = RunAll(Step(new[r], operation, r), Rebuild_Logger, r)
      BY <1>0, ReplayFirst
    <3> QED
      BY <2>1, <2>2, <3>1, <3>2, NoOpDoesNothing
  <2> QED
    BY <1>3, <2>1, <2>3
<1>5. CASE run_operation
  <2>1. /\ UNCHANGED <<tree, push, Rebuild_Ptr, Rebuild_Logger>> /\ Replaying
        /\ operation' = NoOp
    BY <1>5 DEF run_operation, treeVars, sharedVars, Replaying
  <2>2. ASSUME NEW r \in Target PROVE new'[r] = Step(new[r], operation, r)
    <3>1. CASE Rebuild_Ptr = "root"
      BY <1>0, <1>5, <2>2, <3>1 DEF run_operation, RunOnRoot, Step
    <3>2. CASE Rebuild_Ptr # "root"
      <4>1. r \in Reaches(operation)
        BY <2>1, <2>2, <3>2 DEF LogInv
      <4> QED
        BY <1>0, <1>5, <2>2, <3>2, <4>1 DEF run_operation, Step
    <3> QED
      BY <3>1, <3>2
  <2>3. ASSUME NEW r \in Target PROVE Replayed(r)' = Replayed(r)
    <3>1. Replayed(r)' = RunAll(new'[r], ToReplay', r)
      BY DEF Replayed, RunAll, Reached
    <3>2. ToReplay' = <<NoOp>> \o Rebuild_Logger
      BY <2>1 DEF ToReplay
    <3>3. RunAll(new'[r], <<NoOp>> \o Rebuild_Logger, r)
            = RunAll(new'[r], Rebuild_Logger, r)
      BY <1>0, ReplayType, NoOpFirst
    <3>4. Replayed(r) = RunAll(Step(new[r], operation, r), Rebuild_Logger, r)
      BY <1>0, ReplayFirst
    <3> QED
      BY <2>2, <3>1, <3>2, <3>3, <3>4
  <2> QED
    BY <1>3, <2>1, <2>3
<1>6. CASE UNCHANGED <<tree, push, Rebuild_Ptr, new, operation, Rebuild_Logger>> /\ Replaying
  BY <1>3, <1>6, ReplaySame
<1>7. CASE BuildTree \/ DrainEnds
  BY <1>6, <1>7 DEF BuildTree, DrainEnds, treeVars, sharedVars, Replaying
<1>8. CASE UnlockSearch("unlock_search", "build") \/ LockSearch("lock_search_again", "swap")
  BY <1>6, <1>8 DEF UnlockSearch, LockSearch, treeVars, Replaying
<1>9. CASE StartRebuild \/ Swap \/ ResetRebuildPtr \/ ResetRebuildFlag \/ DeleteTreeNodes
  BY <1>9 DEF StartRebuild, Swap, ResetRebuildPtr, ResetRebuildFlag, DeleteTreeNodes, Replaying
<1>10. CASE LockSearch("lock_search", "flatten") \/ UnlockSearch("unlock_search_again", "reset")
  BY <1>10 DEF LockSearch, UnlockSearch, Replaying
<1> QED
  BY <1>2, <1>4, <1>5, <1>7, <1>8, <1>9, <1>10 DEF RebuildStep

LEMMA ReplayOfMap ==
  ASSUME IInv, MapStep, Clean', Clean, Replaying
  PROVE  \A r \in Target' : Replayed(r)' = Content(r)'
<1>0. /\ SInv /\ RebuildInv /\ MainInv /\ LogInv /\ ContentInv /\ TypeOK
      /\ \A r \in Target : Replayed(r) = Content(r)
  BY ReplayCatchesUpIs DEF IInv, SInv
<1>1. UNCHANGED <<rpc, new, operation, Rebuild_Ptr, rebuild_flag>> /\ Target' = Target
  BY MapStepKeeps DEF Replaying, Target
<1>2. /\ rebuild_flag /\ Rebuild_Ptr # "none" /\ Target \subseteq Sons
      /\ tree \in [Sons -> SUBSET Points] /\ push \in [Sons -> BOOLEAN]
  BY <1>0, TargetOfSon DEF Replaying, RebuildInv, TypeOK
<1>3. ASSUME UNCHANGED Rebuild_Logger, \A r \in Target : Content(r)' = Content(r)
      PROVE  \A r \in Target' : Replayed(r)' = Content(r)'
  BY <1>0, <1>1, <1>3, ReplaySame
<1>4. CASE UNCHANGED <<tree, push, Rebuild_Logger>>
  BY <1>1, <1>3, <1>4 DEF Content, Below
<1>5. ASSUME NEW q \in Sons, PushDown(q)
      PROVE  \A r \in Target' : Replayed(r)' = Content(r)'
  <2>1. CASE Rebuild_Ptr = q
    BY <1>4, <1>5, <2>1 DEF PushDown, treeVars, sharedVars
  <2>2. CASE Rebuild_Ptr # q
    <3>1. /\ tree' = [tree EXCEPT ![q] = {}] /\ push' = [push EXCEPT ![q] = FALSE] /\ push[q]
          /\ UNCHANGED Rebuild_Logger
      BY <1>5, <2>2 DEF PushDown, sharedVars
    <3>2. \A r \in Target : Content(r)' = Content(r)
      BY <1>0, <1>1, <1>2, <2>2, <3>1, TargetOfSon DEF Content, Below
    <3> QED
      BY <1>3, <3>1, <3>2
  <2> QED
    BY <2>1, <2>2
<1>6. ASSUME NEW q \in Sons, VisitSon(q)
      PROVE  \A r \in Target' : Replayed(r)' = Content(r)'
  <2>1. CASE Rebuild_Ptr = q
    BY <1>4, <1>6, <2>1 DEF VisitSon
  <2>2. CASE Rebuild_Ptr # q
    <3>1. /\ tree' = [tree EXCEPT ![q] = RunOn(@, Head(plan))] /\ UNCHANGED <<push, Rebuild_Logger>>
          /\ Rebuild_Ptr # "root"
      BY <1>6, <2>2 DEF VisitSon, Clean
    <3>2. \A r \in Target : Content(r)' = Content(r)
      BY <1>0, <1>1, <1>2, <2>2, <3>1, TargetOfSon DEF Content
    <3> QED
      BY <1>3, <3>1, <3>2
  <2> QED
    BY <2>1, <2>2
<1>7. CASE DeleteWhole
  <2>1. Rebuild_Ptr # "root" /\ UNCHANGED <<tree, Rebuild_Logger>>
    BY <1>0, <1>7 DEF DeleteWhole, Whole, MainInv, sharedVars
  <2> QED
    BY <1>1, <1>3, <2>1 DEF Content
<1>8. CASE PushDownLocked
  <2>1. PICK q \in Sons : q = at
    BY <1>0, <1>8 DEF PushDownLocked, TypeOK
  <2>2. /\ Rebuild_Ptr = q /\ Target = {q}
        /\ tree' = [tree EXCEPT ![q] = {}]
        /\ Rebuild_Logger' = Append(Rebuild_Logger, PUSH_DOWN)
    BY <1>0, <1>2, <1>8, <2>1 DEF PushDownLocked, Log, MainInv, Target, Sons
  <2>3. Replayed(q)' = Step(Replayed(q), PUSH_DOWN, q)
    BY <1>0, <1>1, <2>2, OperationType, ReplayOneMore
  <2>4. Replayed(q) = tree[q] /\ Content(q)' = tree'[q]
    BY <1>0, <1>1, <2>2 DEF Content, Sons
  <2>5. Step(tree[q], PUSH_DOWN, q) = {}
    BY <1>2 DEF Step, Reaches, RunOn, PUSH_DOWN
  <2>6. tree'[q] = {}
    BY <1>2, <2>2
  <2> QED
    BY <1>1, <2>2, <2>3, <2>4, <2>5, <2>6
<1>9. CASE VisitSonLocked
  <2>1. PICK q \in Sons : q = at
    BY <1>0, <1>9 DEF VisitSonLocked, TypeOK
  <2>2. /\ Rebuild_Ptr = q /\ Target = {q} /\ q \in Reaches(Head(plan))
        /\ tree' = [tree EXCEPT ![q] = RunOn(@, Head(plan))] /\ plan # <<>>
        /\ Rebuild_Logger' = Append(Rebuild_Logger, Head(plan))
    BY <1>0, <1>2, <1>9, <2>1 DEF VisitSonLocked, Log, MainInv, TypeOK, Target, Sons, PushPoints
  <2>3. Head(plan) \in Operation
    BY <1>0, <2>2, RestOfPlan
  <2>4. Replayed(q)' = Step(Replayed(q), Head(plan), q)
    BY <1>0, <1>1, <2>2, <2>3, ReplayOneMore
  <2>5. Replayed(q) = tree[q] /\ Content(q)' = tree'[q]
    BY <1>0, <1>1, <2>2 DEF Content, Sons
  <2>6. tree'[q] = Step(tree[q], Head(plan), q)
    BY <1>2, <2>2 DEF Step
  <2> QED
    BY <1>1, <2>2, <2>4, <2>5, <2>6
<1>10. CASE RunLockedOnRoot
  <2>1. /\ Rebuild_Ptr = "root" /\ plan # <<>> /\ plan \in Seq(Planned)
        /\ Rebuild_Logger' = Rebuild_Logger \o plan
    BY <1>0, <1>2, <1>10 DEF RunLockedOnRoot, MainInv, TypeOK
  <2>2. ASSUME NEW r \in Sons
        PROVE  Replayed(r)' = RunAll(Replayed(r), plan, r)
    <3>1. /\ plan[1] \in Operation
          /\ Len(plan) = 1 \/ (Len(plan) = 2 /\ plan[2] \in Operation)
      BY <1>0, <2>1, RestOfPlan DEF Operation
    <3>2. ToReplay \in Seq(Operation) /\ Rebuild_Logger \in Seq(Operation)
          /\ operation \in Operation
      BY <1>0, ReplayType
    <3>3. Replayed(r)' = RunAll(new[r], ToReplay', r)
      BY <1>1 DEF Replayed, RunAll, Reached
    <3>4. RunAll(new[r], Append(ToReplay, plan[1]), r) = Step(Replayed(r), plan[1], r)
          /\ Append(ToReplay, plan[1]) \in Seq(Operation)
      BY <3>1, <3>2, RunAllAppend DEF Replayed
    <3>5. CASE Len(plan) = 1
      <4>1. plan = <<plan[1]>>
        BY <2>1, <3>5, LenOne, Zenon
      <4>3. <<operation>> \o (Rebuild_Logger \o <<plan[1]>>) = Append(ToReplay, plan[1])
        BY <3>1, <3>2, LogOne DEF ToReplay
      <4>4. ToReplay' = <<operation>> \o (Rebuild_Logger \o plan)
        BY <1>1, <2>1, Zenon DEF ToReplay
      <4>2. ToReplay' = Append(ToReplay, plan[1])
        BY <4>1, <4>3, <4>4, Zenon
      <4> QED
        BY <1>0, <2>1, <3>3, <3>4, <3>5, <4>2, RunAllPlan
    <3>6. CASE Len(plan) = 2
      <4>1. plan = <<plan[1], plan[2]>>
        BY <2>1, <3>6, LenTwo, Zenon
      <4>3. plan[2] \in Operation
        BY <3>1, <3>6
      <4>5. <<operation>> \o (Rebuild_Logger \o <<plan[1], plan[2]>>)
              = Append(Append(ToReplay, plan[1]), plan[2])
        BY <3>1, <3>2, <4>3, LogTwo DEF ToReplay
      <4>6. ToReplay' = <<operation>> \o (Rebuild_Logger \o plan)
        BY <1>1, <2>1, Zenon DEF ToReplay
      <4>2. ToReplay' = Append(Append(ToReplay, plan[1]), plan[2])
        BY <4>1, <4>5, <4>6, Zenon
      <4>4. RunAll(new[r], Append(Append(ToReplay, plan[1]), plan[2]), r)
              = Step(RunAll(new[r], Append(ToReplay, plan[1]), r), plan[2], r)
        BY <3>4, <4>3, RunAllAppend, Zenon
      <4> QED
        BY <1>0, <2>1, <3>3, <3>4, <3>6, <4>2, <4>4, RunAllPlan
    <3> QED
      BY <3>1, <3>5, <3>6
  <2>3. \A r \in Sons : Below(r)' = RunAll(Below(r), plan, r)
    BY <1>0, <1>10, ContentOnRoot
  <2>4. \A r \in Sons : r \in Target /\ Content(r) = Below(r) /\ Content(r)' = Below(r)'
    BY <1>1, <2>1 DEF Content, Target
  <2> QED
    BY <1>0, <1>1, <1>2, <2>2, <2>3, <2>4
<1>11. CASE \/ \E p \in Points : AddPoint(p) \/ (\E c \in Cells : AddPointDownsampled(p, c))
            \/ \E box \in Boxes : DeletePointBox(box)
  BY <1>4, <1>11 DEF AddPoint, AddPointDownsampled, DeletePointBox, treeVars, sharedVars
<1>12. CASE RangeEnterSon \/ RangeEnd \/ CheckRebuildPtr \/ Descend \/ Unwind
  BY <1>4, <1>12 DEF RangeEnterSon, RangeEnd, CheckRebuildPtr, Descend, Unwind, treeVars,
                     sharedVars
<1> QED
  BY <1>5, <1>6, <1>7, <1>8, <1>9, <1>10, <1>11, <1>12 DEF MapStep

LEMMA ReplayStep ==
  ASSUME IInv, [Next]_vars
  PROVE  ReplayCatchesUp'
<1>0. SUFFICES ASSUME Clean', Replaying'
               PROVE  \A r \in Target' : Replayed(r)' = Content(r)'
  BY DEF ReplayCatchesUp, Replaying, Content
<1>1. Clean /\ SInv /\ RebuildInv /\ LogInv /\ ReplayCatchesUp
  BY <1>0, CleanBefore DEF IInv
<1>2. CASE RebuildStep
  BY <1>0, <1>1, <1>2, ReplayOfRebuild
<1>3. CASE MapStep
  BY <1>0, <1>1, <1>3, MapStepKeeps, ReplayOfMap DEF Replaying
<1>4. CASE SearchStep \/ UNCHANGED vars
  <2>1. UNCHANGED <<tree, push, Rebuild_Ptr, Rebuild_Logger, rpc, new, operation>>
    BY <1>4, SearchStepKeeps DEF vars, treeVars, sharedVars, rebuildVars
  <2>2. Target' = Target /\ Replaying /\ \A r \in Sons : Content(r)' = Content(r)
    BY <1>0, <2>1 DEF Target, Replaying, Content, Below
  <2> QED
    BY <1>1, <2>1, <2>2, ReplaySame, ReplayCatchesUpIs, TargetOfSon DEF SInv
<1> QED
  BY <1>2, <1>3, <1>4, NextCases

LEMMA InitIInv ==
  ASSUME Init
  PROVE  IInv
<1>1. SInv
  BY InitSInv
<1>2. RebuildInv /\ MainInv /\ LogInv /\ ReplayCatchesUp
  BY DEF Init, RebuildInv, MainInv, LogInv, Replaying, ReplayCatchesUp
<1>3. ContentInv
  <2>1. \A r \in Sons : tree[r] \subseteq PointsOf(r) /\ Below(r) = InitPoints \cap PointsOf(r)
    BY DEF Init, Below
  <2>2. Visible = expected
    BY <2>1, IkdAssumption DEF Init, Visible, Sons, PointsOf, Points
  <2> QED
    BY <2>1, <2>2 DEF Init, ContentInv, Ranging
<1> QED
  BY <1>1, <1>2, <1>3 DEF IInv

LEMMA IInvStep ==
  ASSUME IInv, [Next]_vars
  PROVE  IInv'
<1>1. SInv' /\ RebuildInv' /\ MainInv' /\ LogInv'
  BY SInvStep, RebuildInvStep, MainInvStep, LogInvStep DEF IInv
<1>2. Clean' => ContentInv'
  BY ContentStep
<1>3. ReplayCatchesUp'
  BY ReplayStep
<1> QED
  BY <1>1, <1>2, <1>3 DEF IInv

\* From the copy to the swap the new tree catches up with the log, and between operations the
\* map holds exactly the points they leave, unless a log entry of an earlier rebuild was left
\* or a freed node was read: whatever the points, cells, boxes and number of operations.
THEOREM RebuildExactness == Spec => []RebuildsAreExact
<1>1. Init => IInv
  BY InitIInv
<1>2. IInv /\ [Next]_vars => IInv'
  BY IInvStep
<1>3. IInv => RebuildsAreExact
  BY DEF IInv, ContentInv, RebuildsAreExact, MapIsExact
<1> QED
  BY <1>1, <1>2, <1>3, PTL DEF Spec
==============================================================================
