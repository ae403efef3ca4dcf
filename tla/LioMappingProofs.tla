---------------------------- MODULE LioMappingProofs ----------------------------
(***************************************************************************)
(* The iterated updates of the filter keep the covariance with the state   *)
(* and end on fresh matches, and the node does nothing to its map but what *)
(* LocalMap promises, for any scans, motions, corrections and sizes.       *)
(***************************************************************************)
EXTENDS LioMapping, TLAPS

Cube == INSTANCE LocalMapProofs WITH Axes <- {1}

Modified == "update_iterated_dyn_share_modified"
NotResetting == {"update_iterated", "update_iterated_share"}
Names ==
  {NoModel, "update_iterated", "update_iterated_share", "update_iterated_dyn",
   "update_iterated_dyn_share", "update_iterated_dyn_runtime",
   "update_iterated_dyn_runtime_share", Modified}

-----------------------------------------------------------------------------
(* The filter. *)

Tangent == [at : Int, skewed : BOOLEAN]

UpdateType ==
  [name : Names, running : BOOLEAN, i : Int, t : Nat, valid : BOOLEAN,
   converge : BOOLEAN, propagated : [x : Int, P : Tangent], moves : Nat, searched : Nat,
   ok : BOOLEAN, failed : BOOLEAN, last : Int, folded : BOOLEAN]

\* The lists have one entry for each block as soon as there is a model.
StateTypes ==
  /\ x_ \in [v : State, lists : 0 .. 1] /\ P_ \in Tangent /\ upd \in UpdateType
  /\ model \in DOMAIN Updates \cup {NoModel}
  /\ x_.lists = IF model = NoModel THEN 0 ELSE 1
  /\ model = NoModel => ~upd.running

\* The loop runs at most maximum_iter + 1 times, and makes at most one correction in each.
LoopIsBounded ==
  /\ upd.i \in -1 .. maximum_iter /\ upd.t <= 2
  /\ upd.searched <= upd.moves /\ upd.moves <= maximum_iter + 1
  /\ upd.running => upd.i < maximum_iter /\ upd.t <= 1 /\ upd.moves <= upd.i + 1

\* In the loop the covariance is one correction behind.
CovarianceIsBehind ==
  upd.running => /\ P_.at - x_.v = upd.propagated.P.at - upd.propagated.x - upd.last
                 /\ (P_.skewed <=> upd.propagated.P.skewed)
                 /\ ~upd.folded

\* A measurement that is missing has been missed.
MissesAreRemembered == upd.running /\ ~upd.valid => upd.failed

\* After a small correction there is a new match or has been one; the modified update has
\* one before it in its last iteration, unless a measurement was missing.
MatchIsDue ==
  upd.running =>
    /\ upd.i = -1 => upd.converge
    /\ upd.t > 0 => upd.moves > 0 /\ (upd.converge \/ upd.searched > 0)
    /\ upd.name = Modified /\ ~upd.failed /\ upd.i > -1 =>
         upd.moves > 0 /\ (upd.i = maximum_iter - 1 /\ upd.t = 0 => upd.converge)

FilterInv ==
  StateTypes /\ LoopIsBounded /\ CovarianceIsBehind /\ MissesAreRemembered /\ MatchIsDue

\* What calling the model leaves of the update.
LEMMA MeasuredFields ==
  ASSUME NEW u \in UpdateType, NEW ok \in BOOLEAN, NEW resets \in BOOLEAN
  PROVE  LET m == Measured(u, resets, ok) IN
         /\ m \in UpdateType
         /\ (m.valid <=> ok /\ (resets \/ u.valid)) /\ (m.ok <=> ok)
         /\ (m.failed <=> u.failed \/ ~ok)
         /\ m.searched = IF u.converge THEN u.moves ELSE u.searched
         /\ m.name = u.name /\ m.i = u.i /\ m.t = u.t /\ m.converge = u.converge
         /\ m.propagated = u.propagated /\ m.moves = u.moves /\ m.last = u.last
         /\ m.folded = u.folded /\ m.running = u.running
BY DEF UpdateType, Measured

\* What going on with the loop, or ending it, changes.
LEMMA ContinueFields ==
  ASSUME NEW u \in UpdateType
  PROVE  LET m == Continue(u) IN
         /\ m \in UpdateType
         /\ (m.running <=> u.i # maximum_iter - 1)
         /\ m.i = IF u.i = maximum_iter - 1 THEN u.i ELSE u.i + 1
         /\ m.searched = u.searched /\ m.name = u.name /\ m.t = u.t
         /\ m.converge = u.converge /\ m.propagated = u.propagated /\ m.moves = u.moves
         /\ m.last = u.last /\ m.folded = u.folded /\ m.valid = u.valid /\ m.ok = u.ok
         /\ m.failed = u.failed
<1> DEFINE i == IF u.i = maximum_iter - 1 THEN u.i ELSE u.i + 1
           running == u.i # maximum_iter - 1
<1>1. i \in Int /\ running \in BOOLEAN
  BY FilterAssumption DEF UpdateType
<1> HIDE DEF i, running
<1>2. [u EXCEPT !.i = i, !.running = running] \in UpdateType
  BY <1>1 DEF UpdateType
<1>3. Continue(u) = [u EXCEPT !.i = i, !.running = running]
  BY DEF Continue, i, running
<1> QED
  BY <1>1, <1>2, <1>3 DEF UpdateType, i, running

\* What a correction changes.
LEMMA CorrectedFields ==
  ASSUME NEW u \in UpdateType, NEW rematches \in BOOLEAN, NEW dx \in Int
  PROVE  LET m == Corrected(u, rematches, dx)
             small == Abs(dx) <= limit
         IN
         /\ m \in UpdateType
         /\ m.t = IF small THEN u.t + 1 ELSE u.t
         /\ (m.converge <=> small \/ (rematches /\ u.t = 0 /\ u.i = maximum_iter - 2))
         /\ m.moves = u.moves + 1 /\ m.last = dx
         /\ m.searched = u.searched /\ m.name = u.name /\ m.i = u.i
         /\ m.running = u.running /\ m.propagated = u.propagated /\ m.folded = u.folded
         /\ m.valid = u.valid /\ m.ok = u.ok /\ m.failed = u.failed
<1> DEFINE small == Abs(dx) <= limit
           t == IF small THEN u.t + 1 ELSE u.t
           converge == small \/ (rematches /\ t = 0 /\ u.i = maximum_iter - 2)
           moves == u.moves + 1
<1>1. t \in Nat /\ moves \in Nat
  BY DEF UpdateType
<1>2. converge \in BOOLEAN
  OBVIOUS
<1>3. converge = (small \/ (rematches /\ u.t = 0 /\ u.i = maximum_iter - 2))
  OBVIOUS
<1> HIDE DEF t, converge, moves, small
<1> DEFINE m == [u EXCEPT !.t = t, !.moves = moves, !.last = dx, !.converge = converge]
<1>4. m \in UpdateType
  BY <1>1, <1>2 DEF UpdateType
<1>5. Corrected(u, rematches, dx) = m
  BY DEF Corrected, t, converge, moves, small
<1>6. /\ m.t = t /\ m.converge = converge /\ m.moves = moves /\ m.last = dx
      /\ m.searched = u.searched /\ m.name = u.name /\ m.i = u.i
      /\ m.running = u.running /\ m.propagated = u.propagated /\ m.folded = u.folded
      /\ m.valid = u.valid /\ m.ok = u.ok /\ m.failed = u.failed
  BY DEF UpdateType
<1> HIDE DEF m
<1> QED
  BY <1>3, <1>4, <1>5, <1>6 DEF t, moves, small

\* What calling the model and correcting leave.
LEMMA CorrectedOnce ==
  ASSUME NEW u \in UpdateType, NEW ok \in BOOLEAN, NEW resets \in BOOLEAN,
         NEW rematches \in BOOLEAN, NEW dx \in Int
  PROVE  LET c == Corrected(Measured(u, resets, ok), rematches, dx)
             small == Abs(dx) <= limit
         IN
         /\ c \in UpdateType
         /\ c.t = IF small THEN u.t + 1 ELSE u.t
         /\ (c.converge <=> small \/ (rematches /\ u.t = 0 /\ u.i = maximum_iter - 2))
         /\ c.moves = u.moves + 1 /\ c.last = dx
         /\ (c.valid <=> ok /\ (resets \/ u.valid)) /\ (c.ok <=> ok)
         /\ (c.failed <=> u.failed \/ ~ok)
         /\ c.searched = IF u.converge THEN u.moves ELSE u.searched
         /\ c.name = u.name /\ c.i = u.i /\ c.running = u.running
         /\ c.propagated = u.propagated /\ c.folded = u.folded
<1> DEFINE m == Measured(u, resets, ok)
<1>1. /\ m \in UpdateType /\ (m.valid <=> ok /\ (resets \/ u.valid)) /\ (m.ok <=> ok)
      /\ (m.failed <=> u.failed \/ ~ok)
      /\ m.searched = IF u.converge THEN u.moves ELSE u.searched
      /\ m.name = u.name /\ m.i = u.i /\ m.t = u.t /\ m.propagated = u.propagated
      /\ m.moves = u.moves /\ m.folded = u.folded /\ m.running = u.running
  BY MeasuredFields
<1> HIDE DEF m
<1> DEFINE c == Corrected(m, rematches, dx)
<1>2. /\ c \in UpdateType
      /\ c.t = IF Abs(dx) <= limit THEN m.t + 1 ELSE m.t
      /\ (c.converge <=> Abs(dx) <= limit \/ (rematches /\ m.t = 0 /\ m.i = maximum_iter - 2))
      /\ c.moves = m.moves + 1 /\ c.last = dx
      /\ c.searched = m.searched /\ c.name = m.name /\ c.i = m.i
      /\ c.running = m.running /\ c.propagated = m.propagated /\ c.folded = m.folded
      /\ c.valid = m.valid /\ c.ok = m.ok /\ c.failed = m.failed
  <2>1. m \in UpdateType
    BY <1>1
  <2> QED
    BY <2>1, CorrectedFields
<1> HIDE DEF c
<1> SUFFICES /\ c \in UpdateType
             /\ c.t = IF Abs(dx) <= limit THEN u.t + 1 ELSE u.t
             /\ (c.converge <=>
                   Abs(dx) <= limit \/ (rematches /\ u.t = 0 /\ u.i = maximum_iter - 2))
             /\ c.moves = u.moves + 1 /\ c.last = dx
             /\ (c.valid <=> ok /\ (resets \/ u.valid)) /\ (c.ok <=> ok)
             /\ (c.failed <=> u.failed \/ ~ok)
             /\ c.searched = IF u.converge THEN u.moves ELSE u.searched
             /\ c.name = u.name /\ c.i = u.i /\ c.running = u.running
             /\ c.propagated = u.propagated /\ c.folded = u.folded
  BY DEF c, m
<1> QED
  BY <1>1, <1>2

\* An update starts with nothing done.
LEMMA NewUpdateFields ==
  ASSUME NEW name \in Names, x_.v \in Int, P_ \in Tangent
  PROVE  LET u == NewUpdate(name) IN
         /\ u \in UpdateType /\ u.running = (name # NoModel) /\ u.i = -1 /\ u.t = 0
         /\ u.valid /\ u.converge /\ u.propagated = [x |-> x_.v, P |-> P_]
         /\ u.moves = 0 /\ u.searched = 0 /\ u.last = 0 /\ ~u.failed /\ ~u.folded
         /\ u.name = name
<1>1. (name # NoModel) \in BOOLEAN /\ [x |-> x_.v, P |-> P_] \in [x : Int, P : Tangent]
  OBVIOUS
<1> QED
  BY <1>1 DEF NewUpdate, UpdateType

\* What an iteration leaves of the invariant, and what the last one ends on.
IterationIsRight == FilterInv' /\ EndsInPlace /\ EndsFolded /\ EndsMatched

\* An iteration without a measurement: the loop goes on, or ends as it is.
LEMMA MissIsRight ==
  ASSUME FilterInv, upd.running, NEW ok \in BOOLEAN, NEW resets \in BOOLEAN,
         resets <=> upd.name \notin NotResetting,
         ~(ok /\ (resets \/ upd.valid)),
         upd' = Continue(Measured(upd, resets, ok)), UNCHANGED <<x_, P_, model>>
  PROVE  IterationIsRight
<1> USE DEF FilterInv
<1>1. upd \in UpdateType /\ maximum_iter \in Nat
  BY FilterAssumption DEF StateTypes
<1>2. /\ upd' \in UpdateType
      /\ (upd'.running <=> upd.i # maximum_iter - 1)
      /\ upd'.i = IF upd.i = maximum_iter - 1 THEN upd.i ELSE upd.i + 1
      /\ ~upd'.valid /\ (upd'.ok <=> ok) /\ (upd'.failed <=> upd.failed \/ ~ok)
      /\ upd'.searched = IF upd.converge THEN upd.moves ELSE upd.searched
      /\ upd'.name = upd.name /\ upd'.t = upd.t /\ upd'.converge = upd.converge
      /\ upd'.propagated = upd.propagated /\ upd'.moves = upd.moves
      /\ upd'.last = upd.last /\ upd'.folded = upd.folded
  <2> DEFINE m == Measured(upd, resets, ok)
  <2>1. /\ m \in UpdateType
        /\ (m.valid <=> ok /\ (resets \/ upd.valid)) /\ (m.ok <=> ok)
        /\ (m.failed <=> upd.failed \/ ~ok)
        /\ m.searched = IF upd.converge THEN upd.moves ELSE upd.searched
        /\ m.name = upd.name /\ m.i = upd.i /\ m.t = upd.t /\ m.converge = upd.converge
        /\ m.propagated = upd.propagated /\ m.moves = upd.moves /\ m.last = upd.last
        /\ m.folded = upd.folded
    BY <1>1, MeasuredFields
  <2> HIDE DEF m
  <2>2. upd' = Continue(m)
    BY DEF m
  <2> QED
    BY <2>1, <2>2, ContinueFields
<1>3. upd'.failed
  BY <1>2 DEF MissesAreRemembered
<1>4. StateTypes'
  BY <1>2 DEF StateTypes
<1>5. LoopIsBounded'
  BY <1>1, <1>2 DEF LoopIsBounded, UpdateType
<1>6. CovarianceIsBehind'
  BY <1>2 DEF CovarianceIsBehind
<1>7. MissesAreRemembered'
  BY <1>3 DEF MissesAreRemembered
<1>8. MatchIsDue'
  BY <1>1, <1>2, <1>3 DEF MatchIsDue, LoopIsBounded, UpdateType
<1>9. EndsInPlace /\ EndsMatched
  BY <1>2 DEF EndsInPlace, EndsMatched, CovarianceIsBehind
<1>10. EndsFolded
  BY <1>2, <1>3 DEF EndsFolded, NotResetting
<1> QED
  BY <1>4, <1>5, <1>6, <1>7, <1>8, <1>9, <1>10 DEF IterationIsRight

\* The covariance is brought from where the update began to where it has got to, and at the
\* end along the last correction.
LEMMA HereIsHere ==
  ASSUME FilterInv, upd.running
  PROVE  /\ Here \in Tangent /\ Here.at = upd.propagated.P.at + (x_.v - upd.propagated.x)
         /\ (Here.skewed <=> upd.propagated.P.skewed)
         /\ \A dx \in Int :
              /\ Folded(dx) \in Tangent /\ Folded(dx).at = Here.at + dx
              /\ (Folded(dx).skewed <=> Here.skewed \/ x_.v # upd.propagated.x)
<1>1. /\ x_.v \in Int /\ x_.lists = 1
      /\ upd.propagated.P \in Tangent /\ upd.propagated.x \in Int
  BY FilterAssumption DEF FilterInv, StateTypes, UpdateType, State
<1>2. ASSUME NEW P \in Tangent, NEW base \in Int, NEW dx \in Int, NEW to \in Int
      PROVE  /\ Transported(P, base, dx, to) \in Tangent
             /\ Transported(P, base, dx, to).at = P.at + dx
             /\ (Transported(P, base, dx, to).skewed <=> P.skewed \/ base + dx # to)
  <2>1. x_.lists * dx = dx /\ x_.lists > 0
    BY <1>1
  <2>2. Transported(P, base, dx, to) = [at |-> P.at + dx, skewed |-> P.skewed \/ base + dx # to]
    BY <2>1 DEF Transported
  <2>3. P.at + dx \in Int /\ (P.skewed \/ base + dx # to) \in BOOLEAN
    BY DEF Tangent
  <2>4. ASSUME NEW a \in Int, NEW b \in BOOLEAN
        PROVE  /\ [at |-> a, skewed |-> b] \in Tangent
               /\ [at |-> a, skewed |-> b].at = a
               /\ ([at |-> a, skewed |-> b].skewed <=> b)
    BY DEF Tangent
  <2> QED
    BY <2>2, <2>3, <2>4
<1>3. /\ Here \in Tangent /\ Here.at = upd.propagated.P.at + (x_.v - upd.propagated.x)
      /\ (Here.skewed <=> upd.propagated.P.skewed)
  <2>1. x_.v - upd.propagated.x \in Int /\ upd.propagated.x + (x_.v - upd.propagated.x) = x_.v
    BY <1>1
  <2> QED
    BY <1>1, <1>2, <2>1 DEF Here, ToHere
<1>4. ASSUME NEW dx \in Int
      PROVE  /\ Folded(dx) \in Tangent /\ Folded(dx).at = Here.at + dx
             /\ (Folded(dx).skewed <=> Here.skewed \/ x_.v # upd.propagated.x)
  <2>1. x_.v + dx \in Int /\ (upd.propagated.x + dx # x_.v + dx <=> x_.v # upd.propagated.x)
    BY <1>1
  <2> QED
    BY <1>1, <1>2, <1>3, <2>1 DEF Folded
<1> QED
  BY <1>3, <1>4

\* What Iterate does with a correction that has left the update as c.
Corrects(c, dx) ==
  /\ x_.v + dx \in State /\ x_' = [x_ EXCEPT !.v = @ + dx] /\ UNCHANGED model
  /\ IF c.t > 1 \/ upd.i = maximum_iter - 1
     THEN /\ P_' = Folded(dx)
          /\ upd' = [c EXCEPT !.running = FALSE, !.folded = TRUE]
     ELSE P_' = Here /\ upd' = Continue(c)

\* An iteration with a measurement: the state is corrected, and the covariance brought to
\* where it was before the correction, or, at the end, to where it is.
LEMMA CorrectionIsRight ==
  ASSUME FilterInv, upd.running, NEW ok \in BOOLEAN, NEW resets \in BOOLEAN,
         NEW rematches \in BOOLEAN, NEW dx \in Steps, rematches <=> upd.name = Modified,
         Corrects(Corrected(Measured(upd, resets, ok), rematches, dx), dx)
  PROVE  ok /\ (resets \/ upd.valid) => IterationIsRight
<1> USE DEF FilterInv
<1> DEFINE c == Corrected(Measured(upd, resets, ok), rematches, dx)
           small == Abs(dx) <= limit
<1>1. /\ upd \in UpdateType /\ maximum_iter \in Nat /\ dx \in Int
      /\ P_ \in Tangent /\ x_.v \in Int /\ x_.lists = 1 /\ limit \in Nat
  BY FilterAssumption DEF StateTypes, State, Steps
<1> HIDE DEF small
<1>2. /\ c \in UpdateType
      /\ c.t = IF small THEN upd.t + 1 ELSE upd.t
      /\ (c.converge <=> small \/ (rematches /\ upd.t = 0 /\ upd.i = maximum_iter - 2))
      /\ c.moves = upd.moves + 1 /\ c.last = dx
      /\ (c.valid <=> ok /\ (resets \/ upd.valid)) /\ (c.ok <=> ok)
      /\ (c.failed <=> upd.failed \/ ~ok)
      /\ c.searched = IF upd.converge THEN upd.moves ELSE upd.searched
      /\ c.name = upd.name /\ c.i = upd.i
      /\ c.propagated = upd.propagated /\ c.folded = upd.folded
  BY <1>1, CorrectedOnce DEF small
<1> HIDE DEF c
<1> SUFFICES ASSUME ok, resets \/ upd.valid PROVE IterationIsRight
  OBVIOUS
<1>3. /\ x_' \in [v : State, lists : 0 .. 1] /\ x_'.v = x_.v + dx
      /\ x_'.lists = x_.lists /\ model' = model
  BY DEF StateTypes, Corrects
<1>4. /\ Here \in Tangent /\ Here.at = upd.propagated.P.at + (x_.v - upd.propagated.x)
      /\ (Here.skewed <=> upd.propagated.P.skewed)
      /\ Folded(dx) \in Tangent /\ Folded(dx).at = Here.at + dx
      /\ (Folded(dx).skewed <=> Here.skewed \/ x_.v # upd.propagated.x)
      /\ upd.propagated.P.at \in Int /\ upd.propagated.x \in Int
  BY <1>1, HereIsHere DEF UpdateType, Tangent
<1>5. IF c.t > 1 \/ upd.i = maximum_iter - 1
      THEN P_' = Folded(dx) /\ upd' = [c EXCEPT !.running = FALSE, !.folded = TRUE]
      ELSE P_' = Here /\ upd' = Continue(c)
  BY DEF c, Corrects
<1>6. small => c.converge /\ upd.moves + 1 > 0
  BY <1>1, <1>2 DEF UpdateType
<1>7. /\ c.searched <= upd.moves /\ c.moves <= upd.i + 2 /\ upd.i < maximum_iter /\ c.t <= 2
      /\ upd.i \in -1 .. maximum_iter
  BY <1>1, <1>2 DEF LoopIsBounded, UpdateType
<1>8. CASE ~(c.t > 1 \/ upd.i = maximum_iter - 1)
  <2>1. P_' = Here /\ upd' = Continue(c)
    BY <1>5, <1>8
  <2>2. /\ upd' \in UpdateType /\ upd'.running /\ upd'.i = upd.i + 1
        /\ upd'.searched = c.searched /\ upd'.name = c.name /\ upd'.t = c.t
        /\ upd'.converge = c.converge /\ upd'.propagated = c.propagated
        /\ upd'.moves = c.moves /\ upd'.last = c.last /\ upd'.folded = c.folded
        /\ upd'.valid /\ upd'.failed = c.failed
    BY <2>1, <1>2, <1>8, ContinueFields
  <2>3. StateTypes'
    BY <2>1, <2>2, <1>3, <1>4 DEF StateTypes
  <2>4. LoopIsBounded'
    BY <2>2, <1>1, <1>2, <1>7, <1>8 DEF LoopIsBounded, UpdateType
  <2>5. CovarianceIsBehind'
    BY <2>1, <2>2, <1>1, <1>2, <1>3, <1>4 DEF CovarianceIsBehind, UpdateType
  <2>6. MissesAreRemembered'
    BY <2>2 DEF MissesAreRemembered
  <2>7. MatchIsDue'
    BY <2>2, <1>1, <1>2, <1>6, <1>7, <1>8 DEF MatchIsDue, LoopIsBounded, UpdateType
  <2>8. EndsInPlace /\ EndsFolded /\ EndsMatched
    BY <2>2 DEF EndsInPlace, EndsFolded, EndsMatched, Ends
  <2> QED
    BY <2>3, <2>4, <2>5, <2>6, <2>7, <2>8 DEF IterationIsRight
<1>9. CASE c.t > 1 \/ upd.i = maximum_iter - 1
  <2>1. P_' = Folded(dx) /\ upd' = [c EXCEPT !.running = FALSE, !.folded = TRUE]
    BY <1>5, <1>9
  <2>2. /\ upd' \in UpdateType /\ ~upd'.running /\ upd'.folded /\ upd'.i = upd.i
        /\ upd'.searched = c.searched /\ upd'.name = c.name /\ upd'.t = c.t
        /\ upd'.moves = c.moves /\ upd'.last = c.last /\ upd'.failed = c.failed
    BY <2>1, <1>2 DEF UpdateType
  <2>3. StateTypes'
    BY <2>1, <2>2, <1>1, <1>3, <1>4 DEF StateTypes
  <2>4. LoopIsBounded'
    BY <2>2, <1>1, <1>2, <1>7 DEF LoopIsBounded, UpdateType
  <2>5. CovarianceIsBehind' /\ MissesAreRemembered' /\ MatchIsDue'
    BY <2>2 DEF CovarianceIsBehind, MissesAreRemembered, MatchIsDue
  <2>6. EndsInPlace /\ EndsFolded
    BY <2>1, <2>2, <1>1, <1>3, <1>4 DEF EndsInPlace, EndsFolded, UpdateType
  <2>7. ASSUME maximum_iter > 0, upd.i < maximum_iter - 1
        PROVE  upd'.searched > 0 /\ Abs(upd'.last) <= limit
    BY <2>2, <2>7, <1>1, <1>2, <1>9 DEF MatchIsDue, LoopIsBounded, UpdateType, small
  <2>8. ASSUME maximum_iter > 0, upd.name = Modified, ~upd.failed, ~(upd.i < maximum_iter - 1)
        PROVE  upd'.searched > 0
    BY <2>2, <2>8, <1>1, <1>2, <1>7 DEF MatchIsDue, LoopIsBounded, UpdateType
  <2>9. EndsMatched
    <3>1. upd'.name = upd.name /\ (~upd'.failed => ~upd.failed)
      BY <2>2, <1>2
    <3> QED
      BY <2>7, <2>8, <3>1 DEF EndsMatched, Modified
  <2> QED
    BY <2>3, <2>4, <2>5, <2>6, <2>9 DEF IterationIsRight
<1> QED
  BY <1>8, <1>9

LEMMA IterateIsRight ==
  ASSUME FilterInv, NEW name \in Names, NEW resets \in BOOLEAN, NEW rematches \in BOOLEAN,
         NEW ok \in BOOLEAN, NEW dx \in Steps,
         Iterate(name, resets, rematches, ok, dx),
         resets <=> name \notin NotResetting, rematches <=> name = Modified
  PROVE  IterationIsRight
<1>1. upd.running /\ upd.name = name /\ upd \in UpdateType /\ model' = model
  BY DEF Iterate, FilterInv, StateTypes
<1> DEFINE m == Measured(upd, resets, ok)
<1>2. m.valid <=> ok /\ (resets \/ upd.valid)
  BY <1>1, MeasuredFields
<1>3. CASE m.valid
  <2>1. Corrects(Corrected(m, rematches, dx), dx)
    BY <1>3 DEF Iterate, Corrects
  <2> QED
    BY <2>1, <1>1, <1>2, <1>3, CorrectionIsRight
<1>4. CASE ~m.valid
  <2>1. upd' = Continue(m) /\ UNCHANGED <<x_, P_, model>>
    BY <1>4 DEF Iterate
  <2> QED
    BY <2>1, <1>1, <1>2, <1>4, MissIsRight
<1> QED
  BY <1>3, <1>4

\* A step that starts or ends no update, and leaves the one there is.
LEMMA OutsideAnUpdate ==
  ASSUME FilterInv, ~upd.running, UNCHANGED upd, StateTypes'
  PROVE  IterationIsRight
BY DEF IterationIsRight, FilterInv, LoopIsBounded, CovarianceIsBehind, MissesAreRemembered,
       MatchIsDue, EndsInPlace, EndsFolded, EndsMatched, Ends

LEMMA PredictIsRight ==
  ASSUME FilterInv, NEW f \in Int, predict(f)
  PROVE  IterationIsRight
<1>1. /\ x_' \in [v : State, lists : 0 .. 1] /\ x_'.lists = x_.lists /\ P_' \in Tangent
  <2>1. P_ \in Tangent /\ x_.lists = 1
    BY DEF FilterInv, StateTypes, predict, Idle
  <2> QED
    BY <2>1 DEF FilterInv, StateTypes, predict, Transported, Tangent
<1> QED
  BY <1>1, OutsideAnUpdate DEF FilterInv, StateTypes, predict, Idle

\* A new update, and none at all, are in order.
LEMMA NewIsRight ==
  ASSUME FilterInv, NEW name \in Names, ~upd.running, upd' = NewUpdate(name),
         UNCHANGED <<x_, P_, model>>, model = NoModel => name = NoModel
  PROVE  IterationIsRight
<1>1. x_.v \in Int /\ P_ \in Tangent /\ maximum_iter \in Nat
  BY FilterAssumption DEF FilterInv, StateTypes, State
<1>2. /\ upd' \in UpdateType /\ upd'.running = (name # NoModel) /\ upd'.i = -1 /\ upd'.t = 0
      /\ upd'.valid /\ upd'.converge /\ upd'.propagated = [x |-> x_.v, P |-> P_]
      /\ upd'.moves = 0 /\ upd'.searched = 0 /\ upd'.last = 0 /\ ~upd'.failed
      /\ ~upd'.folded /\ upd'.name = name
  BY <1>1, NewUpdateFields
<1>3. StateTypes'
  BY <1>2 DEF FilterInv, StateTypes
<1>4. LoopIsBounded' /\ CovarianceIsBehind' /\ MissesAreRemembered' /\ MatchIsDue'
  <2>1. P_.at \in Int /\ P_' = P_ /\ x_' = x_
    BY <1>1 DEF Tangent
  <2>2. upd'.propagated.x = x_.v /\ upd'.propagated.P = P_
    BY <1>2
  <2>3. CovarianceIsBehind'
    BY <1>1, <1>2, <2>1, <2>2 DEF CovarianceIsBehind
  <2> QED
    BY <1>1, <1>2, <2>3 DEF LoopIsBounded, MissesAreRemembered, MatchIsDue
<1>5. EndsInPlace /\ EndsFolded /\ EndsMatched
  BY DEF EndsInPlace, EndsFolded, EndsMatched, Ends
<1> QED
  BY <1>3, <1>4, <1>5 DEF IterationIsRight, FilterInv

LEMMA InitialiseIsRight ==
  ASSUME FilterInv, NEW name \in DOMAIN Updates, Initialise(name)
  PROVE  IterationIsRight
<1>1. name # NoModel
  BY DEF Updates, NoModel
<1>2. x_ \in [v : State, lists : 0 .. 1] /\ x_.lists = 0 /\ ~upd.running
  BY DEF FilterInv, StateTypes, Initialise
<1>3. x_' \in [v : State, lists : 0 .. 1] /\ x_'.lists = 1
  BY <1>2 DEF Initialise, Build
<1> QED
  BY <1>1, <1>2, <1>3, OutsideAnUpdate DEF FilterInv, StateTypes, Initialise

\* Every step of the filter keeps the invariant, and what it ends is right.
LEMMA FilterStep ==
  ASSUME FilterInv, [FilterNext]_filterVars
  PROVE  FilterInv' /\ [EndsInPlace /\ EndsFolded /\ EndsMatched]_filterVars
<1> SUFFICES ASSUME FilterNext PROVE IterationIsRight
  <2>1. CASE UNCHANGED filterVars
    BY <2>1 DEF filterVars, FilterInv, StateTypes, LoopIsBounded, CovarianceIsBehind,
                MissesAreRemembered, MatchIsDue
  <2> QED
    BY <2>1 DEF IterationIsRight
<1>1. CASE init \/ init_dyn \/ init_dyn_runtime \/ init_share \/ init_dyn_share
           \/ init_dyn_runtime_share
  BY <1>1, InitialiseIsRight
     DEF init, init_dyn, init_dyn_runtime, init_share, init_dyn_share,
         init_dyn_runtime_share, Updates
<1>2. ASSUME NEW f \in Steps, predict(f) PROVE IterationIsRight
  BY <1>2, PredictIsRight, FilterAssumption DEF Steps
<1>3. ASSUME NEW step \in Steps, NEW copied \in BOOLEAN, change_x(step, copied)
      PROVE  IterationIsRight
  <2>1. x_ \in [v : State, lists : 0 .. 1] /\ x_.lists = 1 /\ ~upd.running
    BY <1>3 DEF FilterInv, StateTypes, change_x, Idle
  <2>2. x_' \in [v : State, lists : 0 .. 1] /\ x_'.lists = 1
    BY <1>3, <2>1 DEF change_x, Listed, Build
  <2> QED
    BY <1>3, <2>1, <2>2, OutsideAnUpdate DEF FilterInv, StateTypes, change_x
<1>4. CASE change_P
  <2>1. x_.v \in Int
    BY FilterAssumption DEF FilterInv, StateTypes, State
  <2> QED
    BY <1>4, <2>1, OutsideAnUpdate DEF FilterInv, StateTypes, change_P, Idle, Tangent
<1>5. ASSUME NEW name, Begin(name) PROVE IterationIsRight
  <2>1. name \in Names /\ model # NoModel /\ ~upd.running
    <3>1. model # NoModel /\ model \in DOMAIN Updates /\ name \in Updates[model] /\ ~upd.running
      BY <1>5 DEF Begin, Idle, FilterInv, StateTypes
    <3>2. \A m \in DOMAIN Updates : Updates[m] \subseteq Names
      BY DEF Updates, Names, Modified
    <3> QED
      BY <3>1, <3>2
  <2> QED
    BY <1>5, <2>1, NewIsRight DEF Begin
<1>6. ASSUME NEW ok \in BOOLEAN, NEW dx \in Steps,
             update_iterated(ok, dx) \/ update_iterated_share(ok, dx)
      PROVE  IterationIsRight
  <2>1. PICK name \in NotResetting : Iterate(name, FALSE, FALSE, ok, dx)
    BY <1>6 DEF update_iterated, update_iterated_share, NotResetting
  <2>2. name \in Names /\ name # Modified
    BY DEF NotResetting, Modified, Names
  <2> QED
    BY <2>1, <2>2, IterateIsRight, Zenon
<1>7. ASSUME NEW ok \in BOOLEAN, NEW dx \in Steps,
             \/ update_iterated_dyn(ok, dx) \/ update_iterated_dyn_share(ok, dx)
             \/ update_iterated_dyn_runtime(ok, dx)
             \/ update_iterated_dyn_runtime_share(ok, dx)
      PROVE  IterationIsRight
  <2>1. PICK name \in Names \ (NotResetting \cup {Modified}) :
                Iterate(name, TRUE, FALSE, ok, dx)
    BY <1>7 DEF update_iterated_dyn, update_iterated_dyn_share, update_iterated_dyn_runtime,
                update_iterated_dyn_runtime_share, Names, NotResetting, Modified
  <2> QED
    BY <2>1, IterateIsRight, Zenon
<1>8. ASSUME NEW ok \in BOOLEAN, NEW dx \in Steps, update_iterated_dyn_share_modified(ok, dx)
      PROVE  IterationIsRight
  <2>1. Iterate(Modified, TRUE, TRUE, ok, dx)
    BY <1>8 DEF update_iterated_dyn_share_modified, Modified
  <2>2. Modified \in Names \ NotResetting
    BY DEF Names, NotResetting, Modified
  <2> QED
    BY <2>1, <2>2, IterateIsRight, Zenon
<1> QED
  BY <1>1, <1>2, <1>3, <1>4, <1>5, <1>6, <1>7, <1>8 DEF FilterNext

LEMMA FilterStart == FilterInit => FilterInv
<1> SUFFICES ASSUME FilterInit PROVE FilterInv
  OBVIOUS
<1>1. x_ = [v |-> 0, lists |-> 0] /\ P_ = [at |-> 0, skewed |-> FALSE] /\ model = NoModel
      /\ upd = NewUpdate(NoModel) /\ x_.v \in Int /\ 0 \in State /\ NoModel \in Names
      /\ P_ \in Tangent
  BY FilterAssumption DEF FilterInit, State, Names, Tangent
<1>2. /\ upd \in UpdateType /\ ~upd.running /\ upd.i = -1 /\ upd.t = 0
      /\ upd.moves = 0 /\ upd.searched = 0
  BY <1>1, NewUpdateFields
<1>3. StateTypes
  BY <1>1, <1>2 DEF StateTypes
<1> QED
  BY <1>2, <1>3, FilterAssumption
     DEF FilterInv, LoopIsBounded, CovarianceIsBehind, MissesAreRemembered, MatchIsDue

LEMMA FilterIsRight ==
  FilterSpec => []FilterInv /\ [][EndsInPlace /\ EndsFolded /\ EndsMatched]_filterVars
BY FilterStart, FilterStep, PTL DEF FilterSpec

\* The types, and the bounds of the loop's counters.
THEOREM FilterTypes == FilterSpec => []FilterTypeOK
<1>1. FilterInv => FilterTypeOK
  BY FilterAssumption DEF FilterInv, StateTypes, LoopIsBounded, UpdateType, FilterTypeOK, Tangent
<1> QED
  BY <1>1, FilterIsRight, PTL

\* However often an update iterates, and whatever iterations find no measurement, the
\* covariance is as far from the state as before (P_propagated and the transports).
THEOREM CovarianceStaysWithState == FilterSpec => CovarianceFollowsState
BY FilterIsRight, PTL DEF CovarianceFollowsState

\* An update that does not reduce the covariance has missed a measurement.
THEOREM UpdatesFold == FilterSpec => FoldsWhatItSees
BY FilterIsRight, PTL DEF FoldsWhatItSees

\* No update ends on a match made where the state was predicted, for any bound on the
\* iterations and any sizes of corrections.
THEOREM UpdatesRematch == FilterSpec => MatchesAreFresh
BY FilterIsRight, PTL DEF MatchesAreFresh

-----------------------------------------------------------------------------
(* The node. *)

NodeTypes ==
  /\ phase \in {"idle", "propagated", "segmented", "updating", "updated"}
  /\ phase = "updating" <=> upd.running
  /\ feats_down_body \in Seq(-DET_RANGE .. DET_RANGE)
  /\ phase \in {"updating", "updated"} => DOMAIN Nearest_Points = Indices
  /\ point_selected_surf \subseteq Nat
  /\ seen \in LM!Point /\ map \subseteq LM!Point
  /\ model = "init_dyn_share"

\* While a scan is worked on, the cube has been placed and what the lidar sees is within
\* the margin.
ScanIsInReach ==
  /\ phase \in {"segmented", "updating", "updated"} =>
       Localmap_Initialized /\ LM!Near(pos_lid, seen, margin - DET_RANGE)
  /\ Root_Node => Localmap_Initialized

NodeInv == FilterInv /\ NodeTypes /\ ScanIsInReach /\ NeighboursAreInMap

\* A number is a point on one axis.
LEMMA OnOneAxis ==
  \A v \in Int : <<v>> \in LM!Point /\ <<v>>[1] = v
BY DEF LM!Point

\* On one axis points are near if the numbers are.
LEMMA NearOnOneAxis ==
  ASSUME NEW p, NEW q, NEW dist
  PROVE  LM!Near(p, q, dist) <=> LM!Abs(p[1] - q[1]) <= dist
BY DEF LM!Near

\* A scan seen from the lidar's place is within the margin of where the map was segmented.
LEMMA WorldIsNear ==
  ASSUME NodeInv, LM!Near(pos_lid, seen, margin - DET_RANGE), NEW i \in Indices
  PROVE  /\ feats_down_body[i] \in Int
         /\ pointBodyToWorld(feats_down_body)[i] = <<x_.v + feats_down_body[i]>>
         /\ pointBodyToWorld(feats_down_body)[i] \in LM!Point
         /\ LM!Near(pointBodyToWorld(feats_down_body)[i], seen, margin)
<1> DEFINE b == feats_down_body[i]
<1>1. b \in -DET_RANGE .. DET_RANGE
  <2> DEFINE S == -DET_RANGE .. DET_RANGE
  <2>1. feats_down_body \in Seq(S) /\ i \in 1 .. Len(feats_down_body)
    BY DEF NodeInv, NodeTypes, Indices
  <2> HIDE DEF S
  <2>2. b \in S
    BY <2>1
  <2> QED
    BY <2>2 DEF S
<1>2. pointBodyToWorld(feats_down_body)[i] = <<x_.v + b>>
  BY DEF Indices, pointBodyToWorld, NodeInv, NodeTypes
<1> HIDE DEF b
<1>3. x_.v \in Int /\ seen[1] \in Int /\ margin \in Nat /\ DET_RANGE \in Nat /\ b \in Int
  BY <1>1, FilterAssumption, CubeAssumption
     DEF NodeInv, FilterInv, StateTypes, State, NodeTypes, LM!Point
<1>4. pos_lid[1] = x_.v /\ <<x_.v + b>>[1] = x_.v + b /\ <<x_.v + b>> \in LM!Point
  BY <1>3, OnOneAxis DEF pos_lid
<1>5. LM!Abs(x_.v - seen[1]) <= margin - DET_RANGE
  BY <1>4, NearOnOneAxis
<1>6. LM!Abs(x_.v + b - seen[1]) <= margin
  BY <1>1, <1>3, <1>5 DEF LM!Abs
<1> QED
  BY <1>2, <1>3, <1>4, <1>6, NearOnOneAxis DEF b

\* What a step of the node has to show: the invariant is kept, and the map is changed by a
\* step of LocalMap or not at all.
StepIsRight == NodeInv' /\ [LM!Next]_(LM!vars)

LEMMA PropagateStep ==
  ASSUME NodeInv, NEW scan \in Scans, NEW f \in Int, Propagate(scan, f)
  PROVE  StepIsRight
<1>1. /\ phase = "idle" /\ predict(f) /\ feats_down_body' = scan
      /\ phase' \in {"idle", "propagated"}
      /\ Localmap_Initialized => LM!Near(<<x_.v + f>>, seen, margin)
      /\ UNCHANGED <<Nearest_Points, point_selected_surf, Root_Node, LocalMap_Points,
                     Localmap_Initialized, map, seen>>
  BY DEF Propagate, cubeVars
<1>2. FilterInv' /\ x_'.v = x_.v + f /\ x_.v + f \in Int /\ UNCHANGED <<model, upd>>
  <2>1. FilterInv'
    BY <1>1, PredictIsRight DEF IterationIsRight, NodeInv
  <2>2. x_'.v = x_.v + f /\ x_.v \in Int
    BY <1>1, FilterAssumption DEF predict, NodeInv, FilterInv, StateTypes, State
  <2> QED
    BY <1>1, <2>1, <2>2 DEF predict
<1>3. NodeTypes'
  BY <1>1, <1>2, MappingAssumption DEF NodeInv, NodeTypes
<1>4. ScanIsInReach' /\ NeighboursAreInMap'
  BY <1>1 DEF NodeInv, ScanIsInReach, NeighboursAreInMap
<1>5. LM!Move
  BY <1>1, <1>2, OnOneAxis DEF LM!Move, pos_lid
<1> QED
  BY <1>2, <1>3, <1>4, <1>5 DEF StepIsRight, NodeInv, LM!Next

LEMMA SegmentStep == ASSUME NodeInv, lasermap_fov_segment PROVE StepIsRight
<1>1. /\ phase = "propagated" /\ phase' = "segmented"
      /\ UNCHANGED <<x_, P_, model, upd, feats_down_body, Nearest_Points,
                     point_selected_surf, Root_Node>>
      /\ LM!lasermap_fov_segment
  BY DEF lasermap_fov_segment, filterVars, scanVars
<1>2. FilterInv'
  BY <1>1 DEF NodeInv, FilterInv, StateTypes, LoopIsBounded, CovarianceIsBehind,
              MissesAreRemembered, MatchIsDue
<1>3. x_.v \in Int
  BY FilterAssumption DEF NodeInv, FilterInv, StateTypes, State
<1>4. /\ pos_lid' = pos_lid /\ seen' = pos_lid /\ seen' \in LM!Point /\ map' \subseteq map
      /\ Localmap_Initialized'
  BY <1>1, <1>3, OnOneAxis DEF LM!lasermap_fov_segment, pos_lid
<1>5. NodeTypes'
  BY <1>1, <1>4 DEF NodeInv, NodeTypes, Indices
<1>6. LM!Near(pos_lid', seen', margin - DET_RANGE)
  <2>1. pos_lid'[1] - seen'[1] = 0
    BY <1>3, <1>4, OnOneAxis DEF pos_lid
  <2>2. 0 <= margin - DET_RANGE
    BY CubeAssumption
  <2> QED
    BY <2>1, <2>2, NearOnOneAxis DEF LM!Abs
<1>7. ScanIsInReach'
  BY <1>4, <1>6 DEF ScanIsInReach
<1>8. NeighboursAreInMap'
  BY <1>1 DEF NeighboursAreInMap
<1> QED
  BY <1>1, <1>2, <1>5, <1>7, <1>8 DEF StepIsRight, NodeInv, LM!Next

\* A step that leaves the filter alone leaves its invariant.
LEMMA FilterRests == ASSUME FilterInv, UNCHANGED filterVars PROVE FilterInv'
BY DEF filterVars, FilterInv, StateTypes, LoopIsBounded, CovarianceIsBehind,
       MissesAreRemembered, MatchIsDue

LEMMA BuildMapStep == ASSUME NodeInv, BuildMap PROVE StepIsRight
<1>1. /\ phase = "segmented" /\ phase' = "idle"
      /\ UNCHANGED <<x_, P_, model, upd, feats_down_body, Nearest_Points,
                     point_selected_surf, LocalMap_Points, Localmap_Initialized, seen>>
      /\ \/ map' = ToSet(pointBodyToWorld(feats_down_body))
         \/ UNCHANGED <<map, Root_Node>>
  BY DEF BuildMap, filterVars
<1>2. FilterInv'
  BY <1>1, FilterRests DEF NodeInv, filterVars
<1>3. Localmap_Initialized /\ LM!Near(pos_lid, seen, margin - DET_RANGE)
  BY <1>1 DEF NodeInv, ScanIsInReach
<1>4. \A p \in ToSet(pointBodyToWorld(feats_down_body)) :
        p \in LM!Point /\ LM!Near(p, seen, margin)
  <2>1. DOMAIN pointBodyToWorld(feats_down_body) = Indices
    BY DEF pointBodyToWorld, Indices, NodeInv, NodeTypes
  <2> QED
    BY <2>1, <1>3, WorldIsNear DEF ToSet
<1>5. NodeTypes'
  BY <1>1, <1>4 DEF NodeInv, NodeTypes
<1>6. ScanIsInReach' /\ NeighboursAreInMap'
  BY <1>1, <1>3 DEF NodeInv, ScanIsInReach, NeighboursAreInMap
<1>7. LM!Extend \/ UNCHANGED LM!vars
  BY <1>1, <1>3, <1>4 DEF LM!Extend, LM!vars, pos_lid
<1> QED
  BY <1>2, <1>5, <1>6, <1>7 DEF StepIsRight, NodeInv, LM!Next

LEMMA TooFewStep == ASSUME NodeInv, TooFew PROVE StepIsRight
<1>1. /\ phase = "segmented" /\ phase' = "idle"
      /\ UNCHANGED <<x_, P_, model, upd, scanVars, Root_Node, cubeVars>>
  BY DEF TooFew, filterVars
<1>2. FilterInv'
  BY <1>1, FilterRests DEF NodeInv, filterVars
<1> QED
  BY <1>1, <1>2 DEF StepIsRight, NodeInv, NodeTypes, ScanIsInReach, NeighboursAreInMap,
                    scanVars, cubeVars, LM!vars, pos_lid, Indices

LEMMA BeginUpdateStep == ASSUME NodeInv, BeginUpdate PROVE StepIsRight
<1>1. /\ phase = "segmented" /\ phase' = "updating" /\ Root_Node /\ ~upd.running
      /\ upd' = NewUpdate(Modified) /\ model # NoModel
      /\ DOMAIN Nearest_Points' = Indices
      /\ UNCHANGED <<x_, P_, model, feats_down_body, point_selected_surf, Root_Node, cubeVars>>
  BY DEF BeginUpdate, Begin, Idle, Modified
<1>2. Modified \in Names /\ Modified # NoModel /\ x_.v \in Int /\ P_ \in Tangent
  BY FilterAssumption DEF Modified, Names, NoModel, NodeInv, FilterInv, StateTypes, State
<1>3. FilterInv'
  BY <1>1, <1>2, NewIsRight DEF NodeInv, IterationIsRight
<1>4. upd'.running /\ upd'.i = -1
  BY <1>1, <1>2, NewUpdateFields
<1>5. NodeTypes'
  BY <1>1, <1>4 DEF NodeInv, NodeTypes, Indices, cubeVars
<1>6. ScanIsInReach'
  BY <1>1 DEF NodeInv, ScanIsInReach, cubeVars, pos_lid
<1>7. NeighboursAreInMap'
  BY <1>1, <1>4 DEF NeighboursAreInMap
<1> QED
  BY <1>1, <1>3, <1>5, <1>6, <1>7 DEF StepIsRight, NodeInv, LM!vars, cubeVars, pos_lid

\* What an iteration of the modified update does to the state.
LEMMA ModifiedIsRight ==
  ASSUME FilterInv, NEW ok \in BOOLEAN, NEW dx \in Steps,
         update_iterated_dyn_share_modified(ok, dx)
  PROVE  /\ IterationIsRight /\ upd.running /\ UNCHANGED model
         /\ x_'.v = x_.v \/ x_'.v = x_.v + dx
<1>1. Iterate(Modified, TRUE, TRUE, ok, dx)
  BY DEF update_iterated_dyn_share_modified, Modified
<1>2. Modified \in Names \ NotResetting
  BY DEF Names, NotResetting, Modified
<1>3. IterationIsRight
  BY <1>1, <1>2, IterateIsRight, Zenon
<1>4. upd.running /\ UNCHANGED model /\ (UNCHANGED x_ \/ x_' = [x_ EXCEPT !.v = @ + dx])
  BY <1>1 DEF Iterate
<1>5. x_'.v = x_.v \/ x_'.v = x_.v + dx
  BY <1>4 DEF FilterInv, StateTypes
<1> QED
  BY <1>3, <1>4, <1>5

\* What the measurement leaves: neighbours that are in the map, found now or since the
\* update began, and planes of points of the scan.
LEMMA ShareModel ==
  ASSUME NodeInv, phase = "updating", NEW planes \in SUBSET Indices, h_share_model(planes)
  PROVE  /\ DOMAIN Nearest_Points' = Indices /\ point_selected_surf' \subseteq Nat
         /\ \A i \in Indices : Nearest_Points'[i] \subseteq map
<1> DEFINE world == pointBodyToWorld(feats_down_body)
<1>1. Nearest_Points' = Neighbours(world) /\ point_selected_surf' = planes
  BY DEF h_share_model
<1>2. Indices \subseteq Nat
  BY DEF Indices, NodeInv, NodeTypes
<1>3. \A p : Nearest_Search(p) \subseteq map
  BY DEF Nearest_Search
<1> HIDE DEF world
<1>4. CASE upd.converge
  BY <1>1, <1>2, <1>3, <1>4 DEF Neighbours
<1>5. CASE ~upd.converge
  <2>1. Nearest_Points' = Nearest_Points
    BY <1>1, <1>5 DEF Neighbours
  <2>2. upd.i > -1
    BY <1>5 DEF NodeInv, NodeTypes, FilterInv, MatchIsDue, LoopIsBounded
  <2> QED
    BY <1>1, <1>2, <2>1, <2>2 DEF NodeInv, NodeTypes, NeighboursAreInMap
<1> QED
  BY <1>4, <1>5

\* The lidar is nearer than it has to be for the cube.
LEMMA NearerIsNear ==
  ASSUME NEW p \in LM!Point, NEW q \in LM!Point, LM!Near(p, q, margin - DET_RANGE)
  PROVE  LM!Near(p, q, margin)
<1>1. p[1] \in Int /\ q[1] \in Int /\ margin \in Nat /\ DET_RANGE \in Nat
  BY CubeAssumption DEF LM!Point
<1>2. LM!Abs(p[1] - q[1]) <= margin - DET_RANGE
  BY NearOnOneAxis
<1>3. LM!Abs(p[1] - q[1]) <= margin
  BY <1>1, <1>2 DEF LM!Abs
<1> QED
  BY <1>3, NearOnOneAxis

LEMMA IterationStep ==
  ASSUME NodeInv, NEW planes \in SUBSET Indices, NEW dx \in Steps, Iteration(planes, dx)
  PROVE  StepIsRight
<1>1. /\ phase = "updating" /\ h_share_model(planes)
      /\ LM!Near(<<x_.v + dx>>, seen, margin - DET_RANGE)
      /\ update_iterated_dyn_share_modified(planes # {}, dx)
      /\ phase' = IF upd'.running THEN phase ELSE "updated"
      /\ UNCHANGED <<feats_down_body, Root_Node, LocalMap_Points, Localmap_Initialized,
                     map, seen>>
  BY DEF Iteration, cubeVars
<1> DEFINE ok == planes # {}
<1>2. ok \in BOOLEAN
  OBVIOUS
<1> HIDE DEF ok
<1>3. /\ FilterInv' /\ upd.running /\ model' = model
      /\ x_'.v = x_.v \/ x_'.v = x_.v + dx
  BY <1>1, <1>2, ModifiedIsRight DEF ok, NodeInv, IterationIsRight
<1>4. x_.v \in Int /\ x_'.v \in Int
  BY <1>3, FilterAssumption DEF NodeInv, FilterInv, StateTypes, State
<1>5. /\ DOMAIN Nearest_Points' = Indices /\ point_selected_surf' \subseteq Nat
      /\ \A i \in Indices : Nearest_Points'[i] \subseteq map
  BY <1>1, ShareModel
<1>6. Indices' = Indices
  BY <1>1 DEF Indices
<1>7. NodeTypes'
  BY <1>1, <1>3, <1>5, <1>6 DEF NodeInv, NodeTypes
<1>8. /\ Localmap_Initialized /\ LM!Near(pos_lid', seen, margin - DET_RANGE)
  <2>1. Localmap_Initialized /\ LM!Near(pos_lid, seen, margin - DET_RANGE)
    BY <1>1 DEF NodeInv, ScanIsInReach
  <2> QED
    BY <1>1, <1>3, <2>1 DEF pos_lid
<1>9. ScanIsInReach'
  BY <1>1, <1>8 DEF ScanIsInReach
<1>10. NeighboursAreInMap'
  BY <1>1, <1>5, <1>6 DEF NeighboursAreInMap
<1>11. LM!Move
  <2>1. pos_lid' \in LM!Point /\ seen \in LM!Point
    BY <1>4, OnOneAxis DEF pos_lid, NodeInv, NodeTypes
  <2> QED
    BY <1>1, <1>8, <2>1, NearerIsNear DEF LM!Move
<1> QED
  BY <1>3, <1>7, <1>9, <1>10, <1>11 DEF StepIsRight, NodeInv, LM!Next

\* The map gets nothing but points of the scan, from where it is published.
LEMMA MapGrowsByScan ==
  ASSUME NodeInv, map_incremental
  PROVE  /\ \A p \in map' : p \in map \/ \E i \in Indices : p = World[i]
         /\ registered' = {World[i] : i \in Indices} /\ odometry' = x_.v
<1>1. DOMAIN World = Indices
  BY DEF World, pointBodyToWorld, Indices, NodeInv, NodeTypes
<1>2. registered' = {World[i] : i \in Indices} /\ odometry' = x_.v
  BY <1>1 DEF map_incremental, publish_odometry, publish_frame_world, World, ToSet
<1>3. \A added \in SUBSET Indices : \A p \in Downsampled(World, added) :
        p \in map \/ \E i \in Indices : p = World[i]
  BY DEF Downsampled
<1>4. PICK alone \in SUBSET Indices, added \in SUBSET Indices :
             map' = Downsampled(World, added) \cup {World[i] : i \in alone}
  <2> DEFINE alone == {i \in Indices : Alone(World[i], Nearest_Points[i])}
             added == {i \in Indices \ alone : ~Superfluous(World[i], Nearest_Points[i])}
  <2>1. map' = Downsampled(World, added) \cup {World[i] : i \in alone}
    BY DEF map_incremental
  <2>2. alone \in SUBSET Indices /\ added \in SUBSET Indices
    OBVIOUS
  <2> HIDE DEF alone, added
  <2> QED
    BY <2>1, <2>2
<1> QED
  BY <1>2, <1>3, <1>4

LEMMA IncrementalStep == ASSUME NodeInv, map_incremental PROVE StepIsRight
<1>1. /\ phase = "updated" /\ phase' = "idle" /\ upd' = NewUpdate(NoModel)
      /\ UNCHANGED <<x_, P_, model, feats_down_body, Nearest_Points, point_selected_surf,
                     Root_Node, LocalMap_Points, Localmap_Initialized, seen>>
  BY DEF map_incremental
<1>2. ~upd.running /\ NoModel \in Names /\ x_.v \in Int /\ P_ \in Tangent
  BY <1>1, FilterAssumption
     DEF Names, NodeInv, NodeTypes, FilterInv, StateTypes, State
<1>3. FilterInv' /\ ~upd'.running
  <2>1. FilterInv'
    BY <1>1, <1>2, NewIsRight DEF NodeInv, IterationIsRight
  <2> QED
    BY <1>1, <1>2, <2>1, NewUpdateFields
<1>4. Localmap_Initialized /\ LM!Near(pos_lid, seen, margin - DET_RANGE)
  BY <1>1 DEF NodeInv, ScanIsInReach
<1>5. \A p \in map' : p \in LM!Point /\ (p \in map \/ LM!Near(p, seen, margin))
  <2>1. map \subseteq LM!Point
    BY DEF NodeInv, NodeTypes
  <2> QED
    BY <2>1, <1>4, MapGrowsByScan, WorldIsNear DEF World
<1>6. NodeTypes'
  BY <1>1, <1>3, <1>5 DEF NodeInv, NodeTypes
<1>7. ScanIsInReach' /\ NeighboursAreInMap'
  BY <1>1, <1>4 DEF NodeInv, ScanIsInReach, NeighboursAreInMap
<1>8. LM!Extend
  BY <1>1, <1>4, <1>5 DEF LM!Extend, pos_lid
<1> QED
  BY <1>3, <1>6, <1>7, <1>8 DEF StepIsRight, NodeInv, LM!Next

\* The first state, and where LocalMap starts.
LEMMA NodeStart == Init => NodeInv /\ LM!Init
<1> SUFFICES ASSUME Init PROVE NodeInv /\ LM!Init
  OBVIOUS
<1>1. /\ x_ = [v |-> 0, lists |-> 1] /\ P_ = [at |-> 0, skewed |-> FALSE] /\ model = "init_dyn_share"
      /\ upd = NewUpdate(NoModel) /\ phase = "idle" /\ feats_down_body = <<>>
      /\ point_selected_surf = {} /\ Root_Node = FALSE
      /\ LocalMap_Points = LM!CubeAt(<<0>>) /\ Localmap_Initialized = FALSE
      /\ map = {} /\ seen = <<0>>
  BY DEF Init
<1>2. /\ x_.v = 0 /\ x_.v \in Int /\ P_ \in Tangent /\ 0 \in State /\ NoModel \in Names
      /\ <<0>> \in LM!Point /\ pos_lid = <<0>>
  BY <1>1, FilterAssumption, OnOneAxis DEF State, Names, pos_lid, Tangent
<1>3. /\ upd \in UpdateType /\ ~upd.running /\ upd.i = -1 /\ upd.t = 0
      /\ upd.moves = 0 /\ upd.searched = 0
  BY <1>1, <1>2, NewUpdateFields
<1>4. model \in DOMAIN Updates /\ model # NoModel
  BY <1>1 DEF Updates, NoModel
<1>5. StateTypes
  BY <1>1, <1>2, <1>3, <1>4 DEF StateTypes
<1>6. FilterInv
  BY <1>3, <1>5, FilterAssumption
     DEF FilterInv, LoopIsBounded, CovarianceIsBehind, MissesAreRemembered, MatchIsDue
<1>7. NodeTypes /\ ScanIsInReach /\ NeighboursAreInMap
  BY <1>1, <1>2, <1>3 DEF NodeTypes, ScanIsInReach, NeighboursAreInMap
<1>8. LM!Init
  BY <1>1, <1>2 DEF LM!Init
<1> QED
  BY <1>6, <1>7, <1>8 DEF NodeInv

LEMMA NodeStep == NodeInv /\ [Next]_vars => StepIsRight
<1> SUFFICES ASSUME NodeInv, [Next]_vars PROVE StepIsRight
  OBVIOUS
<1>1. CASE UNCHANGED vars
  <2>1. FilterInv'
    BY <1>1, FilterRests DEF vars, NodeInv
  <2> QED
    BY <1>1, <2>1 DEF vars, filterVars, scanVars, cubeVars, StepIsRight, NodeInv, NodeTypes,
                      ScanIsInReach, NeighboursAreInMap, LM!vars, pos_lid, Indices
<1>2. ASSUME NEW scan \in Scans, NEW f \in Motions, Propagate(scan, f) \/ Propagate(scan, -f)
      PROVE  StepIsRight
  <2>1. f \in Int /\ -f \in Int
    BY MappingAssumption
  <2> QED
    BY <1>2, <2>1, PropagateStep
<1>3. ASSUME NEW planes \in SUBSET Indices, NEW dx \in Steps, Iteration(planes, dx)
      PROVE  StepIsRight
  BY <1>3, IterationStep
<1> QED
  BY <1>1, <1>2, <1>3, SegmentStep, BuildMapStep, TooFewStep, BeginUpdateStep,
     IncrementalStep DEF Next

LEMMA NodeIsRight == Spec => []NodeInv
BY NodeStart, NodeStep, PTL DEF Spec, StepIsRight

\* The node does nothing to its map but what LocalMap promises, whatever scans it takes,
\* however it moves and however the filter corrects it.
THEOREM NodeImplementsLocalMap == Spec => ImplementsLocalMap
<1>1. NodeInv /\ [Next]_vars => [LM!Next]_(LM!vars)
  BY NodeStep DEF StepIsRight
<1> QED
  BY <1>1, NodeStart, NodeIsRight, PTL DEF Spec, ImplementsLocalMap, LM!Spec

\* A scan gets into the map where it is published, at the place published for it.
THEOREM ScansMapWherePublished == Spec => MappedWherePublished
<1>1. NodeInv /\ [Next]_vars =>
        [phase = "updated" =>
           /\ map' \subseteq map \cup registered'
           /\ \A p \in registered' : p[1] - odometry' \in ToSet(feats_down_body)]_vars
  <2> SUFFICES ASSUME NodeInv, Next, phase = "updated"
               PROVE  /\ map' \subseteq map \cup registered'
                      /\ \A p \in registered' : p[1] - odometry' \in ToSet(feats_down_body)
    OBVIOUS
  <2>1. map_incremental
    BY DEF Next, Propagate, lasermap_fov_segment, BuildMap, TooFew, BeginUpdate, Iteration
  <2>2. /\ \A p \in map' : p \in map \/ \E i \in Indices : p = World[i]
        /\ registered' = {World[i] : i \in Indices} /\ odometry' = x_.v
    BY <2>1, MapGrowsByScan
  <2>3. LM!Near(pos_lid, seen, margin - DET_RANGE)
    BY DEF NodeInv, ScanIsInReach
  <2>4. ASSUME NEW i \in Indices
        PROVE  World[i][1] - x_.v = feats_down_body[i]
               /\ feats_down_body[i] \in ToSet(feats_down_body)
    <3>1. feats_down_body[i] \in Int /\ World[i] = <<x_.v + feats_down_body[i]>>
      BY <2>3, WorldIsNear DEF World
    <3>2. x_.v \in Int
      BY FilterAssumption DEF NodeInv, FilterInv, StateTypes, State
    <3>3. i \in DOMAIN feats_down_body
      BY DEF Indices, NodeInv, NodeTypes
    <3> QED
      BY <3>1, <3>2, <3>3, OnOneAxis DEF ToSet
  <2> QED
    BY <2>2, <2>4
<1> QED
  BY <1>1, NodeIsRight, PTL DEF Spec, MappedWherePublished

\* What LocalMapProofs shows of any map that is treated as it should be: that the cube
\* stays around the lidar and the map in the cube.
LEMMA CubeIsKept == LM!Spec => [](LM!TypeOK /\ LM!LidarInCube /\ LM!MapInCube)
<1>1. LM!Init => Cube!Init
  BY DEF LM!Init, Cube!Init, LM!CubeAt, Cube!CubeAt, LM!Point, Cube!Point
<1>2. [LM!Next]_(LM!vars) => [Cube!Next]_(Cube!vars)
  BY DEF LM!Next, LM!vars, LM!lasermap_fov_segment, LM!Move, LM!Extend, LM!CubeAt, LM!Point,
         LM!Near, LM!Moved, LM!cub_needrm, LM!AtMin, LM!AtMax, LM!Within, LM!Abs,
         Cube!Next, Cube!vars, Cube!lasermap_fov_segment, Cube!Move, Cube!Extend,
         Cube!CubeAt, Cube!Point, Cube!Near, Cube!Moved, Cube!cub_needrm, Cube!AtMin,
         Cube!AtMax, Cube!Within, Cube!Abs
<1>3. Cube!Init => Cube!LInv
  BY Cube!LInvInit, CubeAssumption
<1>4. Cube!LInv /\ [Cube!Next]_(Cube!vars) => Cube!LInv'
  BY Cube!LInvStep, CubeAssumption
<1>5. Cube!LInv => LM!TypeOK /\ LM!LidarInCube /\ LM!MapInCube
  BY DEF Cube!LInv, Cube!TypeOK, Cube!LidarInCube, Cube!MapInCube, Cube!Within, Cube!Point,
         Cube!Box, Cube!Abs, LM!TypeOK, LM!LidarInCube, LM!MapInCube, LM!Within, LM!Point,
         LM!Box, LM!Abs
<1> QED
  BY <1>1, <1>2, <1>3, <1>4, <1>5, PTL DEF LM!Spec

\* The map is in the cube around the lidar, and what the filter matches against is in the
\* map, in every phase of every scan.
THEOREM NodeMapIsSound == Spec => []MapIsSound
<1>1. NodeInv /\ LM!TypeOK => TypeOK
  <2>1. NodeInv => FilterTypeOK
    BY FilterAssumption DEF NodeInv, FilterInv, StateTypes, LoopIsBounded, UpdateType,
                            FilterTypeOK, Tangent
  <2> QED
    BY <2>1 DEF NodeInv, NodeTypes, ScanIsInReach, TypeOK
<1>2. NodeInv /\ LM!TypeOK /\ LM!LidarInCube /\ LM!MapInCube => MapIsSound
  BY <1>1 DEF MapIsSound, NodeInv
<1> QED
  BY <1>2, NodeIsRight, NodeImplementsLocalMap, CubeIsKept, PTL DEF ImplementsLocalMap
=============================================================================
