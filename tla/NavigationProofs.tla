---------------------------- MODULE NavigationProofs ----------------------------
(***************************************************************************)
(* Proofs about navigation and localisation.  For maps of any size, the    *)
(* planner finds a path whenever there is one, each leg of which is a step *)
(* of its search or passes nearest to clear cells; the robot, in any cell  *)
(* that its plans touch, only ever arrives at places that can be reached,  *)
(* and the arrival at the waypoint taken last is reported as such.  The    *)
(* transform that localisation publishes is the one its registrations      *)
(* built on.                                                               *)
(***************************************************************************)
EXTENDS NavStack, GlobalLocalization, FiniteSetTheorems, SequenceTheorems,
  WellFoundedInduction, TLAPS

------------------------------------------------------------------------------
(***************************************************************************)
(* Numbers, and functions defined step by step.                            *)
(***************************************************************************)
\* A set of numbers has a least one.
LEMMA LeastNumber ==
  ASSUME NEW S \in SUBSET Nat, S # {}
  PROVE  \E m \in S : \A n \in S : m <= n
<1>1. IsWellFoundedOn(OpToRel(<, Nat), Nat)
  BY NatLessThanWellFounded
<1>2. PICK m \in S : \A n \in S : <<n, m>> \notin OpToRel(<, Nat)
  BY <1>1, WFMin, Zenon
<1>3. \A a, b \in Nat : a < b => <<a, b>> \in OpToRel(<, Nat)
  BY Zenon DEF OpToRel
<1>4. \A n \in S : ~(n < m)
  BY <1>2, <1>3, Zenon
<1> QED
  BY <1>4

\* What holds at lo and passes from each number to the next holds up to n.
LEMMA UpTo ==
  ASSUME NEW lo \in Nat, NEW n \in Nat, NEW S,
         lo \in S, \A k \in lo .. n - 1 : k \in S => k + 1 \in S
  PROVE  \A k \in lo .. n : k \in S
<1> DEFINE Out == {k \in lo .. n : k \notin S}
<1>1. Out \in SUBSET Nat
  OBVIOUS
<1>2. ASSUME Out # {} PROVE FALSE
  <2>1. PICK m \in Out : \A k \in Out : m <= k
    <3> HIDE DEF Out
    <3> QED
      BY <1>1, <1>2, LeastNumber
  <2>2. m \in lo .. n /\ m \notin S /\ m # lo
    OBVIOUS
  <2>3. m - 1 \in lo .. n - 1 /\ m - 1 \in lo .. n /\ (m - 1) + 1 = m /\ ~(m <= m - 1)
    BY <2>2
  <2>4. m - 1 \in S
    BY <2>1, <2>3
  <2> QED
    BY <2>2, <2>3, <2>4
<1> QED
  BY <1>2

\* A function on lo .. n can be defined from each number to the next.
Iterates(g, D, f, b, lo, n) ==
  /\ g \in [lo .. n -> D]
  /\ \A k \in lo .. n : g[k] = IF k = lo THEN b ELSE f[g[k - 1]]

LEMMA IterationExists ==
  ASSUME NEW D, NEW f \in [D -> D], NEW b \in D, NEW lo \in Nat, NEW n \in Nat, lo <= n
  PROVE  \E g : Iterates(g, D, f, b, lo, n)
<1> DEFINE Is(g, m) == /\ g \in [lo .. m -> D]
                       /\ \A k \in lo .. m : g[k] = IF k = lo THEN b ELSE f[g[k - 1]]
           S == {m \in lo .. n : \E g : Is(g, m)}
<1>1. lo \in S
  <2> DEFINE g == [k \in lo .. lo |-> b]
  <2>1. Is(g, lo)
    OBVIOUS
  <2>2. lo \in lo .. n
    OBVIOUS
  <2> HIDE DEF Is, g
  <2> QED
    BY <2>1, <2>2, Zenon
<1>2. ASSUME NEW m \in lo .. n - 1, m \in S PROVE m + 1 \in S
  <2>1. PICK g : Is(g, m)
    BY <1>2
  <2> DEFINE h == [k \in lo .. m + 1 |-> IF k = m + 1 THEN f[g[m]] ELSE g[k]]
  <2>2. m \in lo .. m /\ g[m] \in D /\ m + 1 # lo /\ (m + 1) - 1 = m
    BY <2>1
  <2>3. \A k \in lo .. m + 1 : k = m + 1 \/ k \in lo .. m
    OBVIOUS
  <2>4. h \in [lo .. m + 1 -> D]
    BY <2>1, <2>2, <2>3
  <2>5. \A k \in lo .. m + 1 : h[k] = IF k = lo THEN b ELSE f[h[k - 1]]
    <3> SUFFICES ASSUME NEW k \in lo .. m + 1
                 PROVE  h[k] = IF k = lo THEN b ELSE f[h[k - 1]]
      OBVIOUS
    <3>1. CASE k = m + 1
      <4>1. h[k] = f[g[m]] /\ h[m] = g[m]
        BY <2>2, <3>1
      <4> QED
        BY <2>2, <3>1, <4>1
    <3>2. CASE k \in lo .. m /\ k # lo
      <4>1. k - 1 \in lo .. m /\ k # m + 1 /\ k - 1 # m + 1 /\ k - 1 \in lo .. m + 1
        BY <3>2
      <4>2. h[k] = g[k] /\ h[k - 1] = g[k - 1]
        BY <4>1
      <4> QED
        BY <2>1, <3>2, <4>2
    <3>3. CASE k = lo
      <4>1. h[k] = g[k] /\ k \in lo .. m
        BY <2>2, <3>3
      <4> QED
        BY <2>1, <3>3, <4>1
    <3> QED
      BY <2>3, <3>1, <3>2, <3>3
  <2>6. Is(h, m + 1)
    BY <2>4, <2>5
  <2>7. m + 1 \in lo .. n
    OBVIOUS
  <2> QED
    BY <2>6, <2>7
<1>3. n \in S
  <2> HIDE DEF S
  <2>1. \A k \in lo .. n : k \in S
    BY <1>1, <1>2, UpTo
  <2> QED
    BY <2>1
<1>4. PICK g : Is(g, n)
  BY <1>3
<1> QED
  BY <1>4, Zenon DEF Iterates

\* A square is bounded by that of a bound.
LEMMA SquareBound ==
  ASSUME NEW m \in Nat, NEW a \in Int, -m <= a, a <= m
  PROVE  a * a \in 0 .. m * m
<1>1. a * a >= 0
  OBVIOUS
<1>2. (m - a) * (m + a) >= 0
  OBVIOUS
<1>3. (m - a) * (m + a) = m * m - a * a
  OBVIOUS
<1> QED
  BY <1>1, <1>2, <1>3

\* The square root of a distance, in thousandths, is there.
LEMMA ThousandthsType ==
  ASSUME NEW n \in Nat
  PROVE  Thousandths(n) \in 0 .. 1000 * n
<1> DEFINE N == 1000000 * n
           S == {j \in Nat : j * j > N}
<1>1. N \in Nat
  OBVIOUS
<1>2. N + 1 \in S
  <2>1. (N + 1) * (N + 1) = N * N + 2 * N + 1
    BY <1>1
  <2>2. N * N >= 0
    BY <1>1
  <2> HIDE DEF N
  <2> QED
    BY <1>1, <2>1, <2>2
<1>3. PICK m \in S : \A j \in S : m <= j
  <2> S \in SUBSET Nat
    OBVIOUS
  <2> HIDE DEF S
  <2> QED
    BY <1>2, LeastNumber
<1>4. m \in Nat /\ m * m > N
  OBVIOUS
<1>5. m # 0
  BY <1>1, <1>4
<1> DEFINE k == m - 1
<1>6. k \in Nat /\ k + 1 = m
  BY <1>4, <1>5
<1>7. k * k <= N
  <2>1. k \notin S
    BY <1>3, <1>6
  <2>2. ~(k * k > N) /\ k * k \in Int
    BY <1>6, <2>1
  <2> HIDE DEF N, k
  <2> QED
    BY <1>1, <2>2
<1>8. k <= 1000 * n
  <2>1. SUFFICES ASSUME k >= 1000 * n + 1 PROVE FALSE
    BY <1>6
  <2>2. k * k >= (1000 * n + 1) * (1000 * n + 1)
    <3> DEFINE a == 1000 * n + 1
    <3>1. a \in Nat /\ k \in Nat /\ k >= a
      BY <1>6, <2>1
    <3> HIDE DEF a, k
    <3>2. k * k >= k * a /\ k * a >= a * a
      BY <3>1
    <3> QED
      BY <3>1, <3>2 DEF a
  <2>3. (1000 * n + 1) * (1000 * n + 1) = 1000000 * (n * n) + 2000 * n + 1
    OBVIOUS
  <2>4. n * n >= n
    OBVIOUS
  <2>5. n * n \in Int /\ k * k \in Int
    BY <1>6
  <2> HIDE DEF k
  <2> QED
    BY <1>7, <2>2, <2>3, <2>4, <2>5
<1>9. k \in 0 .. 1000 * n /\ k * k <= 1000000 * n /\ 1000000 * n < (k + 1) * (k + 1)
  BY <1>4, <1>6, <1>7, <1>8
<1> DEFINE P(j) == j * j <= 1000000 * n /\ 1000000 * n < (j + 1) * (j + 1)
           T == 0 .. 1000 * n
<1>10. Thousandths(n) = CHOOSE j \in T : P(j)
  BY SMT DEF Thousandths
<1>11. k \in T /\ P(k)
  BY SMT, <1>9
<1> HIDE DEF k, P, T
<1>12. Thousandths(n) \in T
  BY SMT, <1>10, <1>11
<1> QED
  BY SMT, <1>12 DEF T

------------------------------------------------------------------------------
(***************************************************************************)
(* Cells and costs.                                                        *)
(***************************************************************************)
Costmap == [Cells -> 0 .. 255]

\* There are finitely many cells, and one at least.
LEMMA CellsAreFinite ==
  IsFiniteSet(Cells) /\ Cardinality(Cells) \in Nat
<1>1. SizeX \in Nat /\ SizeY \in Nat
  BY PlannerAssumption
<1>2. IsFiniteSet(0 .. SizeX - 1) /\ IsFiniteSet(0 .. SizeY - 1)
  BY <1>1, FS_Interval
<1>3. IsFiniteSet(Cells)
  BY <1>2, FS_Product DEF Cells
<1> QED
  BY <1>3, FS_CardinalityType

\* What a cell's coordinates are.
LEMMA CellType ==
  ASSUME NEW c \in Cells
  PROVE  /\ c[1] \in 0 .. SizeX - 1 /\ c[2] \in 0 .. SizeY - 1
         /\ c[1] \in Nat /\ c[2] \in Nat /\ c = <<c[1], c[2]>>
<1>1. SizeX \in Nat /\ SizeY \in Nat
  BY PlannerAssumption
<1> QED
  BY <1>1 DEF Cells

\* The heuristic is a number for any two cells.
LEMMA HeuristicType ==
  ASSUME NEW c \in Cells, NEW d \in Cells
  PROVE  getHeuristic(c, d) \in Nat
<1>1. SizeX - 1 \in Nat /\ SizeY - 1 \in Nat
  BY PlannerAssumption
<1> DEFINE a == c[1] - d[1]
           b == c[2] - d[2]
           X == (SizeX - 1) * (SizeX - 1)
           Y == (SizeY - 1) * (SizeY - 1)
<1>2. /\ a \in Int /\ -(SizeX - 1) <= a /\ a <= SizeX - 1
      /\ b \in Int /\ -(SizeY - 1) <= b /\ b <= SizeY - 1
  BY <1>1, CellType
<1>3. a * a \in 0 .. X /\ b * b \in 0 .. Y
  <2> HIDE DEF a, b
  <2> QED
    BY <1>1, <1>2, SquareBound, Zenon
<1>4. X \in Nat /\ Y \in Nat
  BY <1>1
<1>5. a * a + b * b \in 0 .. X + Y /\ a * a + b * b \in Nat
  <2> DEFINE aa == a * a
             bb == b * b
  <2>1. aa \in 0 .. X /\ bb \in 0 .. Y
    BY <1>3
  <2> HIDE DEF aa, bb, X, Y
  <2>2. aa + bb \in 0 .. X + Y /\ aa + bb \in Nat
    BY <1>4, <2>1
  <2> QED
    BY <2>2 DEF aa, bb
<1>6. getHeuristic(c, d) = Thousandths(a * a + b * b)
  BY <1>5, Zenon DEF getHeuristic, Hypot
<1>7. Thousandths(a * a + b * b) \in 0 .. 1000 * (a * a + b * b)
  <2> DEFINE n == a * a + b * b
  <2>1. n \in Nat
    BY <1>5
  <2> HIDE DEF n
  <2>2. Thousandths(n) \in 0 .. 1000 * n
    BY <2>1, ThousandthsType
  <2> QED
    BY <2>2 DEF n
<1> QED
  BY <1>6, <1>7

\* The penalty of a cell is a number.
LEMMA PenaltyType ==
  ASSUME NEW costmap \in Costmap, NEW c \in Cells
  PROVE  safety_penalty(costmap, c) \in Nat
<1> DEFINE v == costmap[c]
           n == 1000 * v * v
<1>1. v \in Nat
  BY DEF Costmap
<1>2. n \in Nat
  <2> HIDE DEF v
  <2>1. v * v \in Nat
    BY <1>1
  <2> DEFINE w == v * v
  <2>2. 1000 * v * v = 1000 * w
    BY <1>1
  <2> QED
    BY <2>1, <2>2
<1>3. 254 * 254 = 64516
  OBVIOUS
<1>4. n \div 64516 \in Nat
  <2> HIDE DEF n
  <2> QED
    BY <1>2
<1> QED
  BY <1>3, <1>4 DEF safety_penalty

\* The six neighbours of a cell are the cells that touch it.
LEMMA NeighboursAreAdjacent ==
  ASSUME NEW c \in Cells, NEW d \in Cells
  PROVE  c \in getHexNeighbors(d) <=> Adjacent(c, d)
<1> DEFINE x == c[1]
           y == c[2]
           u == d[1]
           v == d[2]
<1>1. x \in Nat /\ y \in Nat /\ u \in Nat /\ v \in Nat /\ c = <<x, y>> /\ d = <<u, v>>
  BY CellType
<1> HIDE DEF x, y, u, v
<1>2. y % 2 \in {0, 1} /\ v % 2 \in {0, 1}
  BY <1>1
<1>3. /\ (y = v + 1 \/ y = v - 1) => y % 2 # v % 2
      /\ y = v => y % 2 = v % 2
  BY <1>1
<1> DEFINE diagonal == IF v % 2 = 0 THEN 1 ELSE -1
           N == {<<1, 0>>, <<0, 1>>, <<-1, 0>>, <<0, -1>>, <<diagonal, 1>>, <<diagonal, -1>>}
<1>4. c \in getHexNeighbors(d) <=>
        \/ x = u + 1 /\ y = v
        \/ x = u /\ y = v + 1
        \/ x = u - 1 /\ y = v
        \/ x = u /\ y = v - 1
        \/ x = u + diagonal /\ y = v + 1
        \/ x = u + diagonal /\ y = v - 1
  <2>1. getHexNeighbors(d) = {<<u + e[1], v + e[2]>> : e \in N}
    BY DEF getHexNeighbors, u, v
  <2>2. getHexNeighbors(d) = {<<u + 1, v + 0>>, <<u + 0, v + 1>>, <<u + -1, v + 0>>,
           <<u + 0, v + -1>>, <<u + diagonal, v + 1>>, <<u + diagonal, v + -1>>}
    BY <2>1
  <2>3. \A a, b : c = <<a, b>> <=> x = a /\ y = b
    BY <1>1
  <2> HIDE DEF diagonal
  <2>4. c \in getHexNeighbors(d) <=>
          \/ x = u + 1 /\ y = v + 0
          \/ x = u + 0 /\ y = v + 1
          \/ x = u + -1 /\ y = v + 0
          \/ x = u + 0 /\ y = v + -1
          \/ x = u + diagonal /\ y = v + 1
          \/ x = u + diagonal /\ y = v + -1
    BY <2>2, <2>3
  <2> QED
    BY <1>1, <2>4
<1> DEFINE cc == IF y % 2 = 0 THEN 2 * x + 1 ELSE 2 * x
           dd == IF v % 2 = 0 THEN 2 * u + 1 ELSE 2 * u
<1>5. Adjacent(c, d) <=>
        \/ y = v /\ Distance(cc, dd) = 2
        \/ Distance(y, v) = 1 /\ Distance(cc, dd) = 1
  BY DEF Adjacent, Centre, x, y, u, v
<1>6. CASE y % 2 = 0 /\ v % 2 = 0
  BY <1>1, <1>3, <1>4, <1>5, <1>6 DEF Distance
<1>7. CASE y % 2 = 1 /\ v % 2 = 0
  BY <1>1, <1>3, <1>4, <1>5, <1>7 DEF Distance
<1>8. CASE y % 2 = 0 /\ v % 2 = 1
  BY <1>1, <1>3, <1>4, <1>5, <1>8 DEF Distance
<1>9. CASE y % 2 = 1 /\ v % 2 = 1
  BY <1>1, <1>3, <1>4, <1>5, <1>9 DEF Distance
<1> QED
  BY <1>2, <1>6, <1>7, <1>8, <1>9

\* They are six at most.
LEMMA SixAtMost ==
  ASSUME NEW a, NEW b, NEW c, NEW d, NEW e, NEW f
  PROVE  IsFiniteSet({a, b, c, d, e, f}) /\ Cardinality({a, b, c, d, e, f}) <= 6
<1> DEFINE T == {a, b, c, d, e, f}
           g == [i \in 1 .. 6 |-> IF i = 1 THEN a ELSE IF i = 2 THEN b ELSE IF i = 3 THEN c
                                  ELSE IF i = 4 THEN d ELSE IF i = 5 THEN e ELSE f]
<1>1. g \in [1 .. 6 -> T]
  OBVIOUS
<1>2. g[1] = a /\ g[2] = b /\ g[3] = c /\ g[4] = d /\ g[5] = e /\ g[6] = f
  OBVIOUS
<1>3. ASSUME NEW y \in T PROVE \E i \in 1 .. 6 : g[i] = y
  <2>1. y = a \/ y = b \/ y = c \/ y = d \/ y = e \/ y = f
    OBVIOUS
  <2>2. 1 \in 1 .. 6 /\ 2 \in 1 .. 6 /\ 3 \in 1 .. 6 /\ 4 \in 1 .. 6 /\ 5 \in 1 .. 6 /\ 6 \in 1 .. 6
    OBVIOUS
  <2> HIDE DEF g, T
  <2> QED
    BY <1>2, <2>1, <2>2, Zenon
<1>4. ExistsSurjection(1 .. 6, T)
  <2> HIDE DEF g, T
  <2> QED
    BY <1>1, <1>3 DEF ExistsSurjection, Surjection
<1>5. PICK n \in Nat : n = 6
  OBVIOUS
<1> HIDE DEF g, T
<1>6. IsFiniteSet(T) /\ Cardinality(T) <= n
  <2>1. ExistsSurjection(1 .. n, T)
    BY <1>4, <1>5
  <2> QED
    BY <2>1, FS_NatSurjection, FS_SurjCardinalityBound, Zenon
<1> QED
  BY <1>5, <1>6 DEF T

LEMMA SixNeighbours ==
  ASSUME NEW c \in Cells
  PROVE  IsFiniteSet(getHexNeighbors(c)) /\ Cardinality(getHexNeighbors(c)) <= 6
<1> DEFINE u == c[1]
           v == c[2]
           diagonal == IF v % 2 = 0 THEN 1 ELSE -1
           N == {<<1, 0>>, <<0, 1>>, <<-1, 0>>, <<0, -1>>, <<diagonal, 1>>, <<diagonal, -1>>}
<1>1. getHexNeighbors(c) = {<<u + d[1], v + d[2]>> : d \in N}
  BY DEF getHexNeighbors
<1>2. getHexNeighbors(c) = {<<u + 1, v + 0>>, <<u + 0, v + 1>>, <<u + -1, v + 0>>,
         <<u + 0, v + -1>>, <<u + diagonal, v + 1>>, <<u + diagonal, v + -1>>}
  BY <1>1
<1> DEFINE n1 == <<u + 1, v + 0>>
           n2 == <<u + 0, v + 1>>
           n3 == <<u + -1, v + 0>>
           n4 == <<u + 0, v + -1>>
           n5 == <<u + diagonal, v + 1>>
           n6 == <<u + diagonal, v + -1>>
<1>3. getHexNeighbors(c) = {n1, n2, n3, n4, n5, n6}
  BY <1>2
<1> HIDE DEF n1, n2, n3, n4, n5, n6
<1>4. /\ IsFiniteSet({n1, n2, n3, n4, n5, n6})
      /\ Cardinality({n1, n2, n3, n4, n5, n6}) <= 6
  BY SixAtMost
<1> QED
  BY <1>3, <1>4

------------------------------------------------------------------------------
(***************************************************************************)
(* The cells that can be reached.                                          *)
(***************************************************************************)
\* What a set of cells grows to in one step.
Grown(costmap, S) ==
  UNION {{c \in Cells : c = d \/ (Free(costmap, c) /\ Adjacent(c, d))} : d \in S}

\* A set that no free cell outside it touches.
Enclosed(costmap, S) ==
  \A d \in S : \A c \in Cells : Free(costmap, c) /\ Adjacent(c, d) => c \in S

LEMMA GrownType ==
  ASSUME NEW costmap, NEW S \in SUBSET Cells
  PROVE  /\ Grown(costmap, S) \in SUBSET Cells /\ S \subseteq Grown(costmap, S)
         /\ Grown(costmap, S) = S => Enclosed(costmap, S)
         /\ \A C : S \subseteq C /\ Enclosed(costmap, C) => Grown(costmap, S) \subseteq C
<1>1. \A c : c \in Grown(costmap, S) <=>
               \E d \in S : c \in Cells /\ (c = d \/ (Free(costmap, c) /\ Adjacent(c, d)))
  BY SMT DEF Grown
<1>2. Grown(costmap, S) \in SUBSET Cells /\ S \subseteq Grown(costmap, S)
  BY <1>1
<1>3. Grown(costmap, S) = S => Enclosed(costmap, S)
  BY <1>1, Zenon DEF Enclosed
<1>4. \A C : S \subseteq C /\ Enclosed(costmap, C) => Grown(costmap, S) \subseteq C
  BY <1>1, Zenon DEF Enclosed
<1> QED
  BY <1>2, <1>3, <1>4

\* Reachable is what the start grows to in as many steps as there are cells.
Grows(grown, costmap, start, n) ==
  /\ grown \in [0 .. n -> SUBSET Cells] /\ grown[0] = {start}
  /\ \A k \in 1 .. n : grown[k] = Grown(costmap, grown[k - 1])

LEMMA ReachableIsGrown ==
  ASSUME NEW costmap, NEW start \in Cells
  PROVE  \E grown : /\ Grows(grown, costmap, start, Cardinality(Cells))
                    /\ Reachable(costmap, start) = grown[Cardinality(Cells)]
<1> DEFINE N == Cardinality(Cells)
           D == SUBSET Cells
           F == [S \in D |-> Grown(costmap, S)]
           Step(d) == {c \in Cells : c = d \/ (Free(costmap, c) /\ Adjacent(c, d))}
           Next_(g) == [k \in 0 .. N |-> IF k = 0 THEN {start}
                                        ELSE UNION {Step(d) : d \in g[k - 1]}]
<1>1. N \in Nat /\ 0 \in Nat /\ 0 <= N
  BY CellsAreFinite
<1>2. {start} \in D
  OBVIOUS
<1>3. F \in [D -> D]
  BY GrownType
<1>4. PICK g : Iterates(g, D, F, {start}, 0, N)
  <2> HIDE DEF N, D, F
  <2> QED
    BY <1>1, <1>2, <1>3, IterationExists, Zenon
<1>4a. /\ g \in [0 .. N -> D]
       /\ \A k \in 0 .. N : g[k] = IF k = 0 THEN {start} ELSE F[g[k - 1]]
  BY <1>4, Zenon DEF Iterates
<1>5. g = Next_(g)
  <2>1. ASSUME NEW k \in 0 .. N, k # 0 PROVE g[k] = UNION {Step(d) : d \in g[k - 1]}
    <3>1. k - 1 \in 0 .. N
      BY <1>1, <2>1
    <3>2. g[k] = Grown(costmap, g[k - 1])
      BY <1>4a, <2>1, <3>1
    <3> QED
      BY <3>2, Zenon DEF Grown
  <2>2. \A k \in 0 .. N : g[k] = IF k = 0 THEN {start} ELSE UNION {Step(d) : d \in g[k - 1]}
    BY <1>4a, <2>1, Zenon
  <2> HIDE DEF N, Step
  <2> QED
    BY <1>4a, <2>2
<1> DEFINE grown == CHOOSE g_ : g_ = Next_(g_)
<1>6. grown = Next_(grown)
  <2> HIDE DEF Next_
  <2> QED
    BY <1>5
<1>7. Reachable(costmap, start) = grown[N]
  BY DEF Reachable
<1> HIDE DEF grown
<1>8. grown[0] = {start}
  BY <1>1, <1>6
<1>9. ASSUME NEW k \in 1 .. N PROVE grown[k] = Grown(costmap, grown[k - 1])
  <2>1. k \in 0 .. N /\ k # 0
    BY <1>1
  <2>2. grown[k] = Next_(grown)[k]
    BY <1>6
  <2>3. Next_(grown)[k] = UNION {Step(d) : d \in grown[k - 1]}
    BY <2>1
  <2> QED
    BY <2>2, <2>3, Zenon DEF Grown
<1>10. \A k \in 0 .. N : grown[k] \in D
  <2> DEFINE S == {k \in 0 .. N : grown[k] \in D}
  <2>1. 0 \in S
    BY <1>1, <1>2, <1>8
  <2>2. ASSUME NEW k \in 0 .. N - 1, k \in S PROVE k + 1 \in S
    <3>1. k + 1 \in 1 .. N /\ (k + 1) - 1 = k /\ k + 1 \in 0 .. N
      BY <1>1
    <3>2. grown[k + 1] = Grown(costmap, grown[k])
      BY <1>9, <3>1
    <3> QED
      BY <2>2, <3>1, <3>2, GrownType
  <2>3. \A k \in 0 .. N : k \in S
    <3> HIDE DEF S, N
    <3> QED
      BY <1>1, <2>1, <2>2, UpTo
  <2> QED
    BY <2>3
<1>11. grown \in [0 .. N -> D]
  <2>1. grown = [k \in 0 .. N |-> grown[k]]
    <3>1. DOMAIN Next_(grown) = 0 .. N
      OBVIOUS
    <3>2. \A f, h, X : f = [x \in X |-> h[x]] => DOMAIN f = X
      OBVIOUS
    <3> QED
      BY <1>6
  <2> HIDE DEF N, D, Next_
  <2> QED
    BY <1>10, <2>1
<1>12. Grows(grown, costmap, start, N)
  BY <1>8, <1>9, <1>11, Zenon DEF Grows
<1> QED
  BY <1>7, <1>12, Zenon

\* It holds the start and no free cell outside it touches it, because it cannot have grown
\* in every step; and it is part of any set of which the same holds.
LEMMA ReachableIsLeastEnclosed ==
  ASSUME NEW costmap, NEW start \in Cells
  PROVE  /\ start \in Reachable(costmap, start)
         /\ Reachable(costmap, start) \in SUBSET Cells
         /\ Enclosed(costmap, Reachable(costmap, start))
         /\ \A C : start \in C /\ Enclosed(costmap, C) => Reachable(costmap, start) \subseteq C
<1> DEFINE N == Cardinality(Cells)
<1>1. N \in Nat /\ 0 \in 0 .. N /\ N \in 0 .. N
  BY CellsAreFinite
<1>1a. PICK grown : Grows(grown, costmap, start, N) /\ Reachable(costmap, start) = grown[N]
  BY ReachableIsGrown, Zenon
<1> HIDE DEF N
<1>2. /\ grown \in [0 .. N -> SUBSET Cells] /\ grown[0] = {start}
      /\ Reachable(costmap, start) = grown[N]
      /\ \A k \in 1 .. N : grown[k] = Grown(costmap, grown[k - 1])
  BY <1>1a, Zenon DEF Grows
<1>3. \A k \in 0 .. N : grown[k] \in SUBSET Cells
  BY <1>2
<1>4. ASSUME NEW k \in 0 .. N - 1
      PROVE  /\ k \in 0 .. N /\ k + 1 \in 0 .. N /\ k \in Nat
             /\ grown[k + 1] = Grown(costmap, grown[k])
  <2>1. k + 1 \in 1 .. N /\ (k + 1) - 1 = k /\ k + 1 \in 0 .. N /\ k \in 0 .. N /\ k \in Nat
    BY <1>1
  <2> QED
    BY <1>2, <2>1
<1>5. \A k \in 0 .. N : start \in grown[k]
  <2> DEFINE S == {k \in 0 .. N : start \in grown[k]}
  <2>1. 0 \in S
    BY <1>1, <1>2
  <2>2. ASSUME NEW k \in 0 .. N - 1, k \in S PROVE k + 1 \in S
    BY <1>3, <1>4, <2>2, GrownType
  <2> HIDE DEF S
  <2>3. \A k \in 0 .. N : k \in S
    BY <1>1, <2>1, <2>2, UpTo
  <2> QED
    BY <2>3 DEF S
<1>6. ASSUME NEW C, start \in C, Enclosed(costmap, C)
      PROVE  grown[N] \subseteq C
  <2> DEFINE S == {k \in 0 .. N : grown[k] \subseteq C}
  <2>1. 0 \in S
    BY <1>1, <1>2, <1>6
  <2>2. ASSUME NEW k \in 0 .. N - 1, k \in S PROVE k + 1 \in S
    <3>1. grown[k] \in SUBSET Cells /\ grown[k] \subseteq C
      BY <1>3, <1>4, <2>2
    <3>2. Grown(costmap, grown[k]) \subseteq C
      BY <1>6, <3>1, GrownType
    <3> QED
      BY <1>4, <3>2
  <2> HIDE DEF S
  <2>3. \A k \in 0 .. N : k \in S
    BY <1>1, <2>1, <2>2, UpTo
  <2> QED
    BY <1>1, <2>3 DEF S
<1>7. Enclosed(costmap, grown[N])
  <2> DEFINE Still(k) == Grown(costmap, grown[k]) = grown[k]
             S == {k \in 0 .. N : Still(k) \/ Cardinality(grown[k]) >= k + 1}
  <2>1. \A k \in 0 .. N : IsFiniteSet(grown[k]) /\ Cardinality(grown[k]) \in Nat
                          /\ Cardinality(grown[k]) <= N
    BY <1>3, CellsAreFinite, FS_Subset, FS_CardinalityType DEF N
  <2>2. 0 \in S
    <3>1. Cardinality(grown[0]) = 1
      BY <1>2, FS_Singleton
    <3> QED
      BY <1>1, <3>1
  <2>3. ASSUME NEW k \in 0 .. N - 1, k \in S PROVE k + 1 \in S
    <3>1. CASE Still(k)
      <4>1. grown[k + 1] = grown[k]
        BY <1>4, <3>1
      <4> QED
        BY <1>4, <3>1, <4>1
    <3>2. CASE ~Still(k)
      <4>1. grown[k] \subseteq grown[k + 1] /\ grown[k] # grown[k + 1]
        BY <1>3, <1>4, <3>2, GrownType
      <4>2. /\ IsFiniteSet(grown[k + 1])
            /\ Cardinality(grown[k]) \in Nat /\ Cardinality(grown[k + 1]) \in Nat
        BY <1>4, <2>1
      <4>3. Cardinality(grown[k]) <= Cardinality(grown[k + 1])
            /\ Cardinality(grown[k]) # Cardinality(grown[k + 1])
        BY <4>1, <4>2, FS_Subset
      <4>4. Cardinality(grown[k]) >= k + 1
        BY <2>3, <3>2
      <4>5. Cardinality(grown[k + 1]) >= (k + 1) + 1
        BY <1>4, <4>2, <4>3, <4>4
      <4> QED
        BY <1>4, <4>5
    <3> QED
      BY <3>1, <3>2
  <2>4. N \in S
    <3> HIDE DEF S
    <3>1. \A k \in 0 .. N : k \in S
      BY <1>1, <2>2, <2>3, UpTo
    <3> QED
      BY <1>1, <3>1
  <2>5. Still(N)
    <3>1. ~(Cardinality(grown[N]) >= N + 1)
      BY <1>1, <2>1
    <3> QED
      BY <2>4, <3>1
  <2> QED
    BY <1>1, <1>3, <2>5, GrownType
<1> QED
  BY <1>1, <1>2, <1>3, <1>5, <1>6, <1>7

------------------------------------------------------------------------------
(***************************************************************************)
(* The search: one turn.                                                   *)
(***************************************************************************)
\* A path from the start, over neighbouring cells that are valid.
Way(costmap, start, p) ==
  /\ p \in Seq(Cells) /\ p # <<>> /\ p[1] = start
  /\ \A i \in 1 .. Len(p) - 1 :
       p[i + 1] \in getHexNeighbors(p[i]) /\ isNodeValid(costmap, p[i + 1])

Node == [path : Seq(Cells), g_cost : Nat, f_cost : Nat]

\* A cell that is closed, or that some node in the queue leads to.
Seen(s, c) == c \in s.closed_list \/ \E n \in s.open_list : Last(n.path) = c

\* What the search keeps up: the valid neighbours of closed cells have been seen, and the
\* goal is not closed.
SearchState(costmap, start, goal) ==
  {s \in [open_list : SUBSET Node, closed_list : SUBSET Cells, path : Seq(Cells)] :
     /\ IsFiniteSet(s.open_list)
     /\ \A n \in s.open_list : Way(costmap, start, n.path)
     /\ goal \notin s.closed_list /\ Seen(s, start)
     /\ \A d \in s.closed_list : \A c \in getHexNeighbors(d) :
          isNodeValid(costmap, c) => Seen(s, c)
     /\ s.path # NoPath => Way(costmap, start, s.path) /\ Last(s.path) = goal}

\* The number of turns that may be to come.
Rank(s) == Cardinality(s.open_list) + 6 * Cardinality(Cells \ s.closed_list)

\* There is a node of least cost.
LEMMA LeastNode ==
  ASSUME NEW S \in SUBSET Node, S # {}
  PROVE  (CHOOSE n \in S : \A m \in S : n.f_cost <= m.f_cost) \in S
<1> DEFINE T == {n.f_cost : n \in S}
<1>1. T \in SUBSET Nat /\ T # {}
  BY DEF Node
<1>2. PICK k \in T : \A j \in T : k <= j
  <2> HIDE DEF T
  <2> QED
    BY <1>1, LeastNumber
<1>3. PICK n \in S : n.f_cost = k
  OBVIOUS
<1>4. \A m \in S : n.f_cost <= m.f_cost
  BY <1>2, <1>3
<1> QED
  BY <1>3, <1>4, Zenon

\* A way goes on to a valid neighbour of its last cell.
LEMMA WayGoesOn ==
  ASSUME NEW costmap, NEW start \in Cells, NEW p, Way(costmap, start, p), NEW c,
         c \in getHexNeighbors(Last(p)), isNodeValid(costmap, c)
  PROVE  Way(costmap, start, Append(p, c)) /\ Last(Append(p, c)) = c
<1> DEFINE q == Append(p, c)
<1>1. p \in Seq(Cells) /\ Len(p) \in Nat /\ Len(p) # 0 /\ c \in Cells /\ Last(p) = p[Len(p)]
  BY DEF Way, isNodeValid, Last
<1>2. /\ q \in Seq(Cells) /\ q # <<>> /\ Len(q) = Len(p) + 1 /\ q[Len(p) + 1] = c
      /\ \A i \in 1 .. Len(p) : q[i] = p[i]
  BY <1>1
<1>3. Last(q) = c
  <2> HIDE DEF q
  <2> QED
    BY <1>2 DEF Last
<1>4. q[1] = start
  <2> HIDE DEF q
  <2> QED
    BY <1>1, <1>2 DEF Way
<1>5. ASSUME NEW i \in 1 .. Len(q) - 1
      PROVE  q[i + 1] \in getHexNeighbors(q[i]) /\ isNodeValid(costmap, q[i + 1])
  <2> HIDE DEF q
  <2>1. CASE i = Len(p)
    <3>1. q[i] = Last(p) /\ q[i + 1] = c
      BY <1>1, <1>2, <2>1
    <3> QED
      BY <3>1
  <2>2. CASE i # Len(p)
    <3>1. i \in 1 .. Len(p) - 1 /\ i \in 1 .. Len(p) /\ i + 1 \in 1 .. Len(p)
      BY <1>1, <1>2, <2>2
    <3>2. q[i] = p[i] /\ q[i + 1] = p[i + 1]
      BY <1>2, <3>1
    <3> QED
      BY <3>1, <3>2 DEF Way
  <2> QED
    BY <2>1, <2>2
<1> HIDE DEF q
<1>6. Way(costmap, start, q)
  BY <1>2, <1>4, <1>5 DEF Way
<1> QED
  BY <1>3, <1>6 DEF q

\* A node's child is a node, whose way ends at the child's cell.
LEMMA ChildIsNode ==
  ASSUME NEW costmap \in Costmap, NEW start \in Cells, NEW goal \in Cells,
         NEW node \in Node, Way(costmap, start, node.path),
         NEW c, c \in getHexNeighbors(Last(node.path)), isNodeValid(costmap, c)
  PROVE  /\ Child(costmap, goal, node, c) \in Node
         /\ Way(costmap, start, Child(costmap, goal, node, c).path)
         /\ Last(Child(costmap, goal, node, c).path) = c
<1> DEFINE g == node.g_cost + 1000 + safety_penalty(costmap, c)
                  + (IF Turns(node.path, c) THEN 3000 ELSE 0)
           h == getHeuristic(c, goal)
           q == Append(node.path, c)
<1>1. Way(costmap, start, q) /\ Last(q) = c
  BY WayGoesOn
<1>2. q \in Seq(Cells) /\ c \in Cells
  BY <1>1 DEF Way, isNodeValid
<1>3. h \in Nat /\ safety_penalty(costmap, c) \in Nat /\ node.g_cost \in Nat
  BY <1>2, HeuristicType, PenaltyType DEF Node
<1>4. g \in Nat /\ g + h \in Nat
  <2> HIDE DEF h
  <2>1. (IF Turns(node.path, c) THEN 3000 ELSE 0) \in Nat
    OBVIOUS
  <2> QED
    BY <1>3, <2>1
<1>5. Child(costmap, goal, node, c) = [path |-> q, g_cost |-> g, f_cost |-> g + h]
  BY SMT DEF Child, AStarNode
<1> HIDE DEF g, h, q
<1> QED
  BY <1>1, <1>2, <1>4, <1>5 DEF Node

\* A rank falls when a node goes, and when at most six come and a cell is closed.
LEMMA RankFalls ==
  ASSUME NEW a \in Nat, NEW b \in Nat, NEW c \in Nat
  PROVE  /\ b = a - 1 => b + 6 * c < a + 6 * c
         /\ \A n, m, d, e \in Nat :
              b = a - 1 /\ n <= 6 /\ m <= b + n /\ d = c - 1 => m + 6 * d < a + 6 * c
  OBVIOUS

\* A turn keeps it up, and there is one less to come, until a path has been found or there
\* is no node left.
LEMMA TurnKeeps ==
  ASSUME NEW costmap \in Costmap, NEW start \in Cells, NEW goal \in Cells,
         NEW s \in SearchState(costmap, start, goal)
  PROVE  LET t == Turn(costmap, goal, s) IN
         /\ t \in SearchState(costmap, start, goal)
         /\ s.open_list = {} \/ s.path # NoPath => t = s
         /\ s.open_list # {} /\ s.path = NoPath => t.path # NoPath \/ Rank(t) < Rank(s)
<1> DEFINE current_node == CHOOSE n \in s.open_list : \A m \in s.open_list : n.f_cost <= m.f_cost
           cell == Last(current_node.path)
           rest == s.open_list \ {current_node}
           closed == s.closed_list \cup {cell}
           opened == OpenNeighbours(costmap, current_node, closed)
           children == {Child(costmap, goal, current_node, c) : c \in opened}
           t == Turn(costmap, goal, s)
<1>1. t = IF s.open_list = {} \/ s.path # NoPath THEN s
          ELSE IF cell \in s.closed_list THEN [s EXCEPT !.open_list = rest]
          ELSE IF cell = goal THEN [s EXCEPT !.path = current_node.path]
          ELSE [s EXCEPT !.open_list = rest \cup children, !.closed_list = closed]
  BY Zenon DEF Turn
<1>2. /\ s \in [open_list : SUBSET Node, closed_list : SUBSET Cells, path : Seq(Cells)]
      /\ s.open_list \in SUBSET Node /\ s.closed_list \in SUBSET Cells /\ s.path \in Seq(Cells)
      /\ IsFiniteSet(s.open_list)
      /\ \A n \in s.open_list : Way(costmap, start, n.path)
      /\ goal \notin s.closed_list /\ Seen(s, start)
      /\ \A d \in s.closed_list : \A c \in getHexNeighbors(d) :
           isNodeValid(costmap, c) => Seen(s, c)
      /\ s.path # NoPath => Way(costmap, start, s.path) /\ Last(s.path) = goal
  BY DEF SearchState
<1>3. CASE s.open_list = {} \/ s.path # NoPath
  <2>1. t = s
    BY <1>1, <1>3, Zenon
  <2> HIDE DEF t
  <2> QED
    BY <1>3, <2>1, Zenon DEF t
<1>4. CASE s.open_list # {} /\ s.path = NoPath
  <2>1. current_node \in s.open_list
    <3>1. \A S \in SUBSET Node : S # {} => (CHOOSE n \in S : \A m \in S : n.f_cost <= m.f_cost) \in S
      BY LeastNode
    <3> QED
      BY <1>2, <1>4, <3>1, Zenon
  <2> HIDE DEF current_node, t
  <2>2. /\ current_node \in Node /\ Way(costmap, start, current_node.path)
        /\ current_node.path \in Seq(Cells) /\ current_node.path # NoPath /\ cell \in Cells
    BY <1>2, <2>1 DEF Way, NoPath, Last
  <2>3. /\ IsFiniteSet(rest) /\ rest \in SUBSET Node
        /\ Cardinality(rest) = Cardinality(s.open_list) - 1
        /\ Cardinality(s.open_list) \in Nat /\ Cardinality(rest) \in Nat
    BY <1>2, <2>1, FS_RemoveElement, FS_CardinalityType
  <2>4. \A n \in s.open_list : n \in rest \/ n = current_node
    OBVIOUS
  <2>5. \A u : IsFiniteSet(Cells \ u) /\ Cardinality(Cells \ u) \in Nat
    BY CellsAreFinite, FS_Subset, FS_CardinalityType
  <2>6. CASE cell \in s.closed_list
    <3>1. t = [s EXCEPT !.open_list = rest]
      BY <1>1, <1>4, <2>6, Zenon
    <3> HIDE DEF rest
    <3>2. /\ t \in [open_list : SUBSET Node, closed_list : SUBSET Cells, path : Seq(Cells)]
          /\ t.open_list = rest /\ t.closed_list = s.closed_list /\ t.path = s.path
      BY <1>2, <2>3, <3>1
    <3>3. \A c : Seen(s, c) => Seen(t, c)
      BY <2>4, <2>6, <3>2 DEF Seen
    <3>4. t \in SearchState(costmap, start, goal)
      <4>1. \A n \in rest : Way(costmap, start, n.path)
        BY <1>2 DEF rest
      <4> QED
        BY <1>2, <2>3, <3>2, <3>3, <4>1 DEF SearchState
    <3>5. Rank(t) < Rank(s)
      <4>1. Rank(t) = Cardinality(rest) + 6 * Cardinality(Cells \ s.closed_list)
        BY <3>2, Zenon DEF Rank
      <4> QED
        BY <2>3, <2>5, <4>1, RankFalls, Zenon DEF Rank
    <3> QED
      BY <1>4, <3>4, <3>5 DEF t
  <2>7. CASE cell \notin s.closed_list /\ cell = goal
    <3>1. t = [s EXCEPT !.path = current_node.path]
      BY <1>1, <1>4, <2>7, Zenon
    <3>2. /\ t \in [open_list : SUBSET Node, closed_list : SUBSET Cells, path : Seq(Cells)]
          /\ t.open_list = s.open_list /\ t.closed_list = s.closed_list
          /\ t.path = current_node.path
      BY <1>2, <2>2, <3>1
    <3>3. \A c : Seen(s, c) => Seen(t, c)
      BY <3>2 DEF Seen
    <3>4. t \in SearchState(costmap, start, goal)
      BY <1>2, <2>2, <2>7, <3>2, <3>3 DEF SearchState
    <3> QED
      BY <1>4, <2>2, <3>2, <3>4 DEF t
  <2>8. CASE cell \notin s.closed_list /\ cell # goal
    <3>1. t = [s EXCEPT !.open_list = rest \cup children, !.closed_list = closed]
      BY <1>1, <1>4, <2>8, Zenon
    <3>2. /\ \A c \in opened : c \in getHexNeighbors(cell) /\ isNodeValid(costmap, c)
          /\ \A c \in getHexNeighbors(cell) :
               isNodeValid(costmap, c) => c \in closed \/ c \in opened
          /\ opened \subseteq getHexNeighbors(cell)
      BY DEF OpenNeighbours
    <3> HIDE DEF rest, opened
    <3>3. \A c \in opened : /\ Child(costmap, goal, current_node, c) \in Node
                            /\ Way(costmap, start, Child(costmap, goal, current_node, c).path)
                            /\ Last(Child(costmap, goal, current_node, c).path) = c
      BY <2>2, <3>2, ChildIsNode
    <3>4. IsFiniteSet(children) /\ Cardinality(children) \in Nat /\ Cardinality(children) <= 6
      <4>1. IsFiniteSet(opened) /\ Cardinality(opened) <= 6 /\ Cardinality(opened) \in Nat
        <5>1. /\ IsFiniteSet(getHexNeighbors(cell)) /\ Cardinality(getHexNeighbors(cell)) <= 6
              /\ Cardinality(getHexNeighbors(cell)) \in Nat
          BY <2>2, SixNeighbours, FS_CardinalityType
        <5>2. IsFiniteSet(opened) /\ Cardinality(opened) <= Cardinality(getHexNeighbors(cell))
              /\ Cardinality(opened) \in Nat
          BY <3>2, <5>1, FS_Subset, FS_CardinalityType
        <5> QED
          BY <5>1, <5>2
      <4> DEFINE f == [c \in opened |-> Child(costmap, goal, current_node, c)]
      <4>2. f \in Surjection(opened, children)
        BY Zenon DEF Surjection
      <4> HIDE DEF f, children
      <4>3. IsFiniteSet(children) /\ Cardinality(children) <= Cardinality(opened)
        BY <4>1, <4>2, FS_Surjection
      <4>4. Cardinality(children) \in Nat
        BY <4>3, FS_CardinalityType
      <4> QED
        BY <4>1, <4>3, <4>4
    <3>5. /\ children \in SUBSET Node
          /\ \A n \in children : Way(costmap, start, n.path)
          /\ \A c \in opened : \E n \in children : Last(n.path) = c
      BY <3>3
    <3>6. /\ IsFiniteSet(rest \cup children) /\ Cardinality(rest \cup children) \in Nat
          /\ Cardinality(rest \cup children) <= Cardinality(rest) + Cardinality(children)
      <4> HIDE DEF children
      <4>1. /\ IsFiniteSet(rest \cup children)
            /\ Cardinality(rest \cup children)
                 = Cardinality(rest) + Cardinality(children) - Cardinality(rest \cap children)
        BY <2>3, <3>4, FS_Union
      <4>2. Cardinality(rest \cap children) \in Nat
        BY <2>3, FS_Intersection, FS_CardinalityType
      <4>3. Cardinality(rest \cup children) \in Nat
        BY <4>1, FS_CardinalityType
      <4> QED
        BY <2>3, <3>4, <4>1, <4>2, <4>3
    <3> HIDE DEF children, closed
    <3>7. closed \in SUBSET Cells /\ goal \notin closed
      BY <1>2, <2>2, <2>8 DEF closed
    <3>8. /\ t \in [open_list : SUBSET Node, closed_list : SUBSET Cells, path : Seq(Cells)]
          /\ t.open_list = rest \cup children /\ t.closed_list = closed /\ t.path = s.path
      BY <1>2, <2>3, <3>1, <3>5, <3>7
    <3>9. \A c : Seen(s, c) => Seen(t, c)
      BY <2>4, <3>8 DEF Seen, closed
    <3>10. ASSUME NEW d \in closed, NEW c \in getHexNeighbors(d), isNodeValid(costmap, c)
           PROVE  Seen(t, c)
      <4>1. CASE d \in s.closed_list
        BY <1>2, <3>9, <3>10, <4>1
      <4>2. CASE d = cell
        BY <3>2, <3>5, <3>8, <3>10, <4>2 DEF Seen
      <4> QED
        BY <4>1, <4>2 DEF closed
    <3>11. \A n \in rest \cup children : Way(costmap, start, n.path)
      BY <1>2, <3>5 DEF rest
    <3>12. t \in SearchState(costmap, start, goal)
      BY <1>2, <1>4, <3>6, <3>7, <3>8, <3>9, <3>10, <3>11 DEF SearchState
    <3>13. Rank(t) < Rank(s)
      <4>1. Cells \ closed = (Cells \ s.closed_list) \ {cell} /\ cell \in Cells \ s.closed_list
        BY <2>2, <2>8 DEF closed
      <4>2. Cardinality(Cells \ closed) = Cardinality(Cells \ s.closed_list) - 1
        <5> DEFINE U == Cells \ s.closed_list
        <5>1. IsFiniteSet(U)
          BY <2>5
        <5> HIDE DEF U
        <5>2. Cardinality(U \ {cell}) = IF cell \in U THEN Cardinality(U) - 1 ELSE Cardinality(U)
          BY <5>1, FS_RemoveElement
        <5> QED
          BY <4>1, <5>2 DEF U
      <4>3. Rank(t) = Cardinality(rest \cup children) + 6 * Cardinality(Cells \ closed)
        BY <3>8, Zenon DEF Rank
      <4>4. Cardinality(Cells \ closed) \in Nat /\ Cardinality(Cells \ s.closed_list) \in Nat
        BY <2>5
      <4> QED
        BY <2>3, <3>4, <3>6, <4>2, <4>3, <4>4, RankFalls, Zenon DEF Rank
    <3> QED
      BY <1>4, <3>12, <3>13 DEF t
  <2> QED
    BY <2>6, <2>7, <2>8
<1> QED
  BY <1>3, <1>4

------------------------------------------------------------------------------
(***************************************************************************)
(* The search: from its first turn to its last.                            *)
(***************************************************************************)
\* The states that the search goes through: from the start's node alone, turn by turn.
Searches(after, costmap, start, goal) ==
  /\ after[0] = [open_list |-> {AStarNode(<<start>>, 0, getHeuristic(start, goal))},
                 closed_list |-> {}, path |-> NoPath]
  /\ \A k \in 1 .. MaxTurns : after[k] = Turn(costmap, goal, after[k - 1])

\* The search begins in such a state, with as many turns to come as there may be.
LEMMA SearchBegins ==
  ASSUME NEW costmap \in Costmap, NEW start \in Cells, NEW goal \in Cells
  PROVE  LET s == [open_list |-> {AStarNode(<<start>>, 0, getHeuristic(start, goal))},
                   closed_list |-> {}, path |-> NoPath] IN
         s \in SearchState(costmap, start, goal) /\ Rank(s) = MaxTurns /\ MaxTurns \in Nat
<1> DEFINE node == AStarNode(<<start>>, 0, getHeuristic(start, goal))
           s == [open_list |-> {node}, closed_list |-> {}, path |-> NoPath]
<1>1. node \in Node /\ node.path = <<start>>
  <2>1. getHeuristic(start, goal) \in Nat /\ <<start>> \in Seq(Cells)
    BY HeuristicType
  <2>2. 0 + getHeuristic(start, goal) \in Nat
    BY <2>1
  <2> QED
    BY <2>1, <2>2 DEF AStarNode, Node
<1> HIDE DEF node
<1>2. Way(costmap, start, node.path) /\ Last(node.path) = start
  <2>1. /\ <<start>> \in Seq(Cells) /\ <<start>> # <<>> /\ Len(<<start>>) = 1
        /\ <<start>>[1] = start
    OBVIOUS
  <2> QED
    BY <1>1, <2>1 DEF Way, Last
<1>3. IsFiniteSet({node}) /\ Cardinality({node}) = 1
  BY FS_Singleton
<1>4. s \in [open_list : SUBSET Node, closed_list : SUBSET Cells, path : Seq(Cells)]
  BY <1>1 DEF NoPath
<1>5. s.open_list = {node} /\ s.closed_list = {} /\ s.path = NoPath
  OBVIOUS
<1> HIDE DEF s
<1>6. Seen(s, start)
  BY <1>2, <1>5 DEF Seen
<1>7. s \in SearchState(costmap, start, goal)
  BY <1>2, <1>3, <1>4, <1>5, <1>6 DEF SearchState
<1>8. Rank(s) = MaxTurns
  <2>1. Cells \ {} = Cells
    OBVIOUS
  <2> QED
    BY <1>3, <1>5, <2>1, Zenon DEF Rank, MaxTurns
<1>9. MaxTurns \in Nat
  BY CellsAreFinite DEF MaxTurns
<1> QED
  BY <1>7, <1>8, <1>9 DEF s, node

\* The search is there: its recursive definition has a meaning.
LEMMA SearchIsIteration ==
  ASSUME NEW costmap \in Costmap, NEW start \in Cells, NEW goal \in Cells
  PROVE  \E after : /\ Searches(after, costmap, start, goal)
                    /\ Search(costmap, start, goal) = after[MaxTurns].path
<1> DEFINE N == MaxTurns
           D == SearchState(costmap, start, goal)
           start_node == AStarNode(<<start>>, 0, getHeuristic(start, goal))
           b == [open_list |-> {start_node}, closed_list |-> {}, path |-> NoPath]
           F == [s \in D |-> Turn(costmap, goal, s)]
           Next_(g) == [k \in 0 .. N |-> IF k = 0 THEN b ELSE Turn(costmap, goal, g[k - 1])]
<1>1. N \in Nat /\ 0 \in Nat /\ 0 <= N /\ b \in D
  BY SearchBegins
<1> HIDE DEF N, b, D
<1>2. F \in [D -> D]
  BY TurnKeeps DEF D
<1>3. PICK g : Iterates(g, D, F, b, 0, N)
  <2> HIDE DEF F
  <2> QED
    BY <1>1, <1>2, IterationExists, Zenon
<1>4. /\ g \in [0 .. N -> D]
      /\ \A k \in 0 .. N : g[k] = IF k = 0 THEN b ELSE F[g[k - 1]]
  BY <1>3, Zenon DEF Iterates
<1>5. g = Next_(g)
  <2>1. ASSUME NEW k \in 0 .. N, k # 0 PROVE g[k] = Turn(costmap, goal, g[k - 1])
    <3>1. k - 1 \in 0 .. N
      BY <1>1, <2>1
    <3> QED
      BY <1>4, <2>1, <3>1
  <2>2. \A k \in 0 .. N : g[k] = IF k = 0 THEN b ELSE Turn(costmap, goal, g[k - 1])
    BY <1>4, <2>1, Zenon
  <2> QED
    BY <1>4, <2>2
<1> DEFINE after == CHOOSE g_ : g_ = Next_(g_)
<1>6. after = Next_(after)
  <2> HIDE DEF Next_
  <2> QED
    BY <1>5
<1>7. Search(costmap, start, goal) = after[N].path
  BY Zenon DEF Search, b, N
<1> HIDE DEF after
<1>8. after[0] = b
  BY <1>1, <1>6
<1>9. ASSUME NEW k \in 1 .. N PROVE after[k] = Turn(costmap, goal, after[k - 1])
  <2>1. k \in 0 .. N /\ k # 0
    BY <1>1
  <2>2. after[k] = Next_(after)[k]
    BY <1>6
  <2> QED
    BY <2>1, <2>2, Zenon
<1>10. Searches(after, costmap, start, goal)
  BY <1>8, <1>9, Zenon DEF Searches, N, b
<1> QED
  BY <1>7, <1>10, Zenon DEF N

\* After as many turns as there may be, there is a path or no node left.
LEMMA SearchEnds ==
  ASSUME NEW costmap \in Costmap, NEW start \in Cells, NEW goal \in Cells,
         NEW after, Searches(after, costmap, start, goal)
  PROVE  /\ after[MaxTurns] \in SearchState(costmap, start, goal)
         /\ after[MaxTurns].path # NoPath \/ after[MaxTurns].open_list = {}
<1> DEFINE N == MaxTurns
           D == SearchState(costmap, start, goal)
           b == [open_list |-> {AStarNode(<<start>>, 0, getHeuristic(start, goal))},
                 closed_list |-> {}, path |-> NoPath]
           Done(s) == s.path # NoPath \/ s.open_list = {}
<1>1. /\ N \in Nat /\ 0 \in 0 .. N /\ N \in 0 .. N
      /\ after[0] = b /\ b \in D /\ Rank(b) = N
      /\ \A k \in 1 .. N : after[k] = Turn(costmap, goal, after[k - 1])
  BY SearchBegins DEF Searches
<1> HIDE DEF N, b, D
<1>2. \A s \in D : /\ Turn(costmap, goal, s) \in D
                   /\ s.open_list = {} \/ s.path # NoPath => Turn(costmap, goal, s) = s
                   /\ s.open_list # {} /\ s.path = NoPath =>
                        \/ Turn(costmap, goal, s).path # NoPath
                        \/ Rank(Turn(costmap, goal, s)) < Rank(s)
  BY TurnKeeps DEF D
<1>3. ASSUME NEW s \in D
      PROVE  Rank(s) \in Nat /\ (Rank(s) <= 0 => s.open_list = {})
  <2>1. IsFiniteSet(s.open_list)
    BY DEF D, SearchState
  <2>2. Cardinality(s.open_list) \in Nat /\ Cardinality(Cells \ s.closed_list) \in Nat
    BY <2>1, CellsAreFinite, FS_Subset, FS_CardinalityType
  <2>3. Rank(s) \in Nat /\ (Rank(s) <= 0 => Cardinality(s.open_list) = 0)
    BY <2>2 DEF Rank
  <2> QED
    BY <2>1, <2>3, FS_EmptySet
<1>4. ASSUME NEW k \in 0 .. N - 1
      PROVE  /\ k \in 0 .. N /\ k + 1 \in 0 .. N /\ k \in Nat
             /\ after[k + 1] = Turn(costmap, goal, after[k])
  <2>1. k + 1 \in 1 .. N /\ (k + 1) - 1 = k /\ k + 1 \in 0 .. N /\ k \in 0 .. N /\ k \in Nat
    BY <1>1
  <2> QED
    BY <1>1, <2>1
<1> DEFINE S == {k \in 0 .. N : after[k] \in D /\ (Done(after[k]) \/ Rank(after[k]) <= N - k)}
<1>5. 0 \in S
  BY <1>1
<1>6. ASSUME NEW k \in 0 .. N - 1, k \in S PROVE k + 1 \in S
  <2> DEFINE s == after[k]
             t == after[k + 1]
  <2>1. s \in D /\ t = Turn(costmap, goal, s)
    BY <1>4, <1>6
  <2> HIDE DEF s, t
  <2>2. t \in D
    BY <1>2, <2>1
  <2>3. CASE Done(s)
    <3>1. Done(t)
      BY <1>2, <2>1, <2>3
    <3> QED
      BY <1>4, <2>2, <3>1 DEF t
  <2>4. CASE ~Done(s)
    <3>1. Rank(s) <= N - k
      BY <1>6, <2>4 DEF s
    <3>2. t.path # NoPath \/ Rank(t) < Rank(s)
      BY <1>2, <2>1, <2>4
    <3>3. Done(t) \/ Rank(t) <= N - (k + 1)
      BY <1>1, <1>3, <1>4, <2>1, <2>2, <3>1, <3>2
    <3> QED
      BY <1>4, <2>2, <3>3 DEF t
  <2> QED
    BY <2>3, <2>4
<1>7. N \in S
  <2> HIDE DEF S
  <2>1. \A k \in 0 .. N : k \in S
    BY <1>1, <1>5, <1>6, UpTo
  <2> QED
    BY <1>1, <2>1
<1>8. after[N] \in D /\ Done(after[N])
  <2>1. after[N] \in D /\ (Done(after[N]) \/ Rank(after[N]) <= N - N)
    BY <1>7
  <2>2. N - N = 0
    BY <1>1
  <2> QED
    BY <1>3, <2>1, <2>2
<1> QED
  BY <1>8 DEF N, D

\* So the search gives a way to the goal, or there are cells, of which the start is one and
\* the goal is not, that no free cell outside them touches.
LEMMA SearchIsRight ==
  ASSUME NEW costmap \in Costmap, NEW start \in Cells, NEW goal \in Cells
  PROVE  LET p == Search(costmap, start, goal) IN
         /\ p # NoPath => Way(costmap, start, p) /\ Last(p) = goal
         /\ p = NoPath => \E C \in SUBSET Cells :
                            start \in C /\ goal \notin C /\ Enclosed(costmap, C)
<1>1. PICK after : /\ Searches(after, costmap, start, goal)
                   /\ Search(costmap, start, goal) = after[MaxTurns].path
  BY SearchIsIteration
<1> DEFINE s == after[MaxTurns]
<1>2. /\ s \in SearchState(costmap, start, goal)
      /\ s.path # NoPath \/ s.open_list = {}
  BY <1>1, SearchEnds
<1> HIDE DEF s
<1>3. /\ s.closed_list \in SUBSET Cells /\ goal \notin s.closed_list /\ Seen(s, start)
      /\ \A d \in s.closed_list : \A c \in getHexNeighbors(d) :
           isNodeValid(costmap, c) => Seen(s, c)
      /\ s.path # NoPath => Way(costmap, start, s.path) /\ Last(s.path) = goal
  BY <1>2 DEF SearchState
<1>4. ASSUME s.path = NoPath
      PROVE  /\ start \in s.closed_list
             /\ Enclosed(costmap, s.closed_list)
  <2>1. \A c : Seen(s, c) => c \in s.closed_list
    BY <1>2, <1>4 DEF Seen
  <2>2. ASSUME NEW d \in s.closed_list, NEW c \in Cells, Free(costmap, c), Adjacent(c, d)
        PROVE  c \in s.closed_list
    <3>1. d \in Cells /\ c \in getHexNeighbors(d)
      BY <1>3, <2>2, NeighboursAreAdjacent
    <3>2. isNodeValid(costmap, c)
      BY <2>2 DEF isNodeValid, Free
    <3> QED
      BY <1>3, <2>1, <3>1, <3>2
  <2> QED
    BY <1>3, <2>1, <2>2 DEF Enclosed
<1> QED
  BY <1>1, <1>3, <1>4 DEF s

------------------------------------------------------------------------------
(***************************************************************************)
(* The path, and the legs it is straightened to.                           *)
(***************************************************************************)
\* A way stays among cells that no free cell outside them touches.
LEMMA WayStays ==
  ASSUME NEW costmap, NEW start \in Cells, NEW p, Way(costmap, start, p),
         NEW C, start \in C, Enclosed(costmap, C)
  PROVE  \A i \in 1 .. Len(p) : p[i] \in C
<1> DEFINE S == {i \in 1 .. Len(p) : p[i] \in C}
<1>1. p \in Seq(Cells) /\ Len(p) \in Nat /\ Len(p) # 0 /\ p[1] = start /\ 1 \in Nat
  BY DEF Way
<1>2. 1 \in S
  BY <1>1
<1>3. ASSUME NEW i \in 1 .. Len(p) - 1, i \in S PROVE i + 1 \in S
  <2>1. i + 1 \in 1 .. Len(p) /\ i \in 1 .. Len(p)
    BY <1>1
  <2>2. p[i] \in Cells /\ p[i + 1] \in Cells /\ p[i] \in C
    BY <1>1, <1>3, <2>1
  <2>3. p[i + 1] \in getHexNeighbors(p[i]) /\ isNodeValid(costmap, p[i + 1])
    BY DEF Way
  <2>4. Adjacent(p[i + 1], p[i]) /\ Free(costmap, p[i + 1])
    BY <2>2, <2>3, NeighboursAreAdjacent DEF isNodeValid, Free
  <2> QED
    BY <1>3, <2>1, <2>2, <2>4 DEF Enclosed
<1> HIDE DEF S
<1>4. \A i \in 1 .. Len(p) : i \in S
  BY <1>1, <1>2, <1>3, UpTo
<1> QED
  BY <1>4 DEF S

\* Division leaves less than it divides by, and factors may be compared through products.
LEMMA Division ==
  \A a \in Nat, n \in Nat \ {0} :
    a \div n \in Nat /\ n * (a \div n) <= a /\ a < n * (a \div n) + n
  OBVIOUS

LEMMA Factors ==
  \A i, j \in Int, n \in Nat \ {0} : n * i < n * j => i < j
<1> SUFFICES ASSUME NEW i \in Int, NEW j \in Int, NEW n \in Nat \ {0}, i >= j
             PROVE  n * i >= n * j
  OBVIOUS
<1>1. PICK d \in Nat : i = j + d
  <2>1. i - j \in Nat /\ i = j + (i - j)
    OBVIOUS
  <2> QED
    BY <2>1
<1>2. n * i = n * j + n * d /\ n * d \in Nat
  BY <1>1
<1> QED
  BY <1>2

\* A straight leg is followed along its longer axis; k cells on it is nearest to the cell
\* that is Nearest across.
Long(a, b) ==
  IF Distance(a[1], b[1]) >= Distance(a[2], b[2]) THEN Distance(a[1], b[1]) ELSE Distance(a[2], b[2])
Short(a, b) ==
  IF Distance(a[1], b[1]) >= Distance(a[2], b[2]) THEN Distance(a[2], b[2]) ELSE Distance(a[1], b[1])
On(a, b, k, m) ==
  IF Distance(a[1], b[1]) >= Distance(a[2], b[2])
  THEN <<a[1] + k * Towards(a[1], b[1]), a[2] + Towards(a[2], b[2]) * m>>
  ELSE <<a[1] + Towards(a[1], b[1]) * m, a[2] + k * Towards(a[2], b[2])>>
Nearest(n, w, k) == IF n = 0 THEN 0 ELSE (n \div 2 + k * w) \div n

LEMMA NearestIsNear ==
  ASSUME NEW n \in Nat, NEW w \in 0 .. n, NEW k \in 0 .. n
  PROVE  LET q == Nearest(n, w, k) IN
         /\ q \in 0 .. w /\ 2 * Distance(k * w, q * n) <= n
         /\ \A m \in 0 .. w : 2 * Distance(k * w, m * n) <= n + w =>
              /\ m = q \/ m = q + 1 \/ q = m + 1
              /\ Distance(k * w, q * n) <= Distance(k * w, m * n)
<1> DEFINE q == Nearest(n, w, k)
<1>1. CASE n = 0
  BY <1>1 DEF Nearest, Distance
<1>2. CASE n # 0
  <2> DEFINE h == n \div 2
             p == k * w
  <2>1. h \in Nat /\ n - 1 <= 2 * h /\ 2 * h <= n /\ p \in Nat
    OBVIOUS
  <2>2. q = (h + p) \div n
    BY <1>2 DEF Nearest
  <2> HIDE DEF q, h
  <2>3. q \in Nat /\ n * q <= h + p /\ h + p < n * q + n
    BY <1>2, <2>1, <2>2, Division
  <2>4. p <= n * w
    <3>1. PICK d \in Nat : n = k + d
      <4>1. n - k \in Nat /\ n = k + (n - k)
        OBVIOUS
      <4> QED
        BY <4>1
    <3>2. n * w = k * w + d * w /\ d * w \in Nat
      BY <3>1
    <3> QED
      BY <3>2
  <2> HIDE DEF p
  <2>5. q <= w
    <3>1. n * q < n * (w + 1)
      <4>1. n * (w + 1) = n * w + n
        OBVIOUS
      <4>2. h < n
        BY <1>2, <2>1
      <4> QED
        BY <2>1, <2>3, <2>4, <4>1, <4>2
    <3> QED
      BY <1>2, <2>3, <3>1, Factors
  <2>6. q * n = n * q /\ q * n \in Nat
    BY <2>3
  <2>7. 2 * Distance(p, q * n) <= n
    BY <2>1, <2>3, <2>6 DEF Distance
  <2>8. ASSUME NEW m \in 0 .. w, 2 * Distance(p, m * n) <= n + w
        PROVE  /\ m = q \/ m = q + 1 \/ q = m + 1
               /\ Distance(p, q * n) <= Distance(p, m * n)
    <3>1. m * n = n * m /\ n * m \in Nat /\ m \in Nat
      OBVIOUS
    <3>2. 2 * Distance(p, n * m) <= 2 * n /\ 2 * Distance(p, n * q) <= n
      <4>1. 2 * Distance(p, n * m) <= n + w /\ 2 * Distance(p, n * q) <= n
        BY <2>6, <2>7, <2>8, <3>1
      <4>2. Distance(p, n * m) \in Int
        BY <2>1, <3>1 DEF Distance
      <4> QED
        BY <4>1, <4>2
    <3>3. n * m < n * q + 2 * n /\ n * q < n * m + 2 * n
      BY <1>2, <2>1, <2>6, <3>1, <3>2 DEF Distance
    <3>4. n * (q + 2) = n * q + 2 * n /\ n * (m + 2) = n * m + 2 * n
      BY <2>3, <3>1
    <3>5. m < q + 2 /\ q < m + 2
      BY <1>2, <2>3, <3>1, <3>3, <3>4, Factors
    <3>6. m = q \/ m = q + 1 \/ q = m + 1
      BY <2>3, <3>1, <3>5
    <3>7. m = q \/ n * m = n * q + n \/ n * q = n * m + n
      <4>1. n * (q + 1) = n * q + n /\ n * (m + 1) = n * m + n
        BY <2>3, <3>1
      <4> QED
        BY <3>6, <4>1
    <3>8. Distance(p, n * q) <= Distance(p, n * m)
      <4>1. m = q => n * m = n * q
        OBVIOUS
      <4> QED
        BY <2>1, <2>6, <3>1, <3>2, <3>7, <4>1 DEF Distance
    <3> QED
      BY <2>6, <3>1, <3>6, <3>8
  <2> QED
    BY <2>3, <2>5, <2>7, <2>8 DEF p, q
<1> QED
  BY <1>1, <1>2

\* The first cell is the start, and across the line goes one cell at a time.
LEMMA NearestStep ==
  ASSUME NEW n \in Nat, NEW w \in 0 .. n
  PROVE  /\ Nearest(n, w, 0) = 0
         /\ \A k \in 0 .. n - 1 : \/ Nearest(n, w, k + 1) = Nearest(n, w, k)
                                  \/ Nearest(n, w, k + 1) = Nearest(n, w, k) + 1
<1> DEFINE h == n \div 2
<1>1. h \in Nat /\ (n # 0 => h < n) /\ 0 * w = 0
  OBVIOUS
<1>2. Nearest(n, w, 0) = 0
  <2>1. CASE n = 0
    BY <2>1 DEF Nearest
  <2>2. CASE n # 0
    <3>1. Nearest(n, w, 0) = h \div n
      BY <1>1, <2>2 DEF Nearest
    <3> HIDE DEF h
    <3>2. h \div n \in Nat /\ n * (h \div n) <= h
      BY <1>1, <2>2, Division
    <3>3. n * (h \div n) < n * 1
      BY <1>1, <2>2, <3>2
    <3>4. h \div n < 1
      BY <2>2, <3>2, <3>3, Factors
    <3> QED
      BY <3>1, <3>2, <3>4
  <2> QED
    BY <2>1, <2>2
<1>3. ASSUME NEW k \in 0 .. n - 1
      PROVE  \/ Nearest(n, w, k + 1) = Nearest(n, w, k)
             \/ Nearest(n, w, k + 1) = Nearest(n, w, k) + 1
  <2> DEFINE q == Nearest(n, w, k)
             r == Nearest(n, w, k + 1)
             p == h + k * w
  <2>1. n # 0 /\ k * w \in Nat /\ (k + 1) * w = k * w + w
    OBVIOUS
  <2>2. q = p \div n /\ r = (p + w) \div n
    <3>1. h + (k + 1) * w = p + w
      BY <1>1, <2>1
    <3> QED
      BY <2>1, <3>1 DEF Nearest
  <2>3. p \in Nat /\ p + w \in Nat
    BY <1>1, <2>1
  <2> HIDE DEF p, q, r
  <2>4. /\ q \in Nat /\ n * q <= p /\ p < n * q + n
        /\ r \in Nat /\ n * r <= p + w /\ p + w < n * r + n
    BY <2>1, <2>2, <2>3, Division
  <2>5. n * (r + 1) = n * r + n /\ n * (q + 2) = n * q + 2 * n
    BY <2>4
  <2>6. n * q < n * (r + 1) /\ n * r < n * (q + 2)
    BY <2>3, <2>4, <2>5
  <2>7. q < r + 1 /\ r < q + 2
    BY <2>1, <2>4, <2>6, Factors
  <2>8. r = q \/ r = q + 1
    BY <2>4, <2>7
  <2> QED
    BY <2>8 DEF q, r
<1> QED
  BY <1>2, <1>3

\* Along one axis: where the line goes from i to j, and the numbers that it passes.
LEMMA Axis ==
  ASSUME NEW i \in Nat, NEW j \in Nat
  PROVE  /\ Towards(i, j) \in {1, -1} /\ Distance(i, j) \in Nat
         /\ j - i = Towards(i, j) * Distance(i, j)
         /\ Distance(i, j) = Distance(j, i)
         /\ Between(i, j) \in SUBSET Nat
         /\ \A e \in Between(i, j) : (i <= e /\ e <= j) \/ (j <= e /\ e <= i)
         /\ \A k \in 0 .. Distance(i, j) :
              i + Towards(i, j) * k \in Between(i, j) /\ k * Towards(i, j) = Towards(i, j) * k
         /\ \A e \in Between(i, j) : \E k \in 0 .. Distance(i, j) : e = i + Towards(i, j) * k
<1>1. ASSUME NEW e \in Between(i, j) PROVE \E k \in 0 .. Distance(i, j) : e = i + Towards(i, j) * k
  <2>1. CASE i < j
    <3>1. e - i \in 0 .. Distance(i, j) /\ e = i + Towards(i, j) * (e - i)
      BY <2>1 DEF Between, Distance, Towards
    <3> QED
      BY <3>1
  <2>2. CASE ~(i < j)
    <3>1. i - e \in 0 .. Distance(i, j) /\ e = i + Towards(i, j) * (i - e)
      BY <2>2 DEF Between, Distance, Towards
    <3> QED
      BY <3>1
  <2> QED
    BY <2>1, <2>2
<1> QED
  BY <1>1 DEF Between, Distance, Towards

\* A leg's lengths, and the line that LineIterator follows.
LEMMA LineIsNearest ==
  ASSUME NEW a \in Cells, NEW b \in Cells
  PROVE  /\ Long(a, b) \in Nat /\ Short(a, b) \in 0 .. Long(a, b)
         /\ Long(a, b) + Short(a, b) = Distance(a[1], b[1]) + Distance(a[2], b[2])
         /\ LineIterator(a, b) =
              {On(a, b, k, Nearest(Long(a, b), Short(a, b), k)) : k \in 0 .. Long(a, b)}
<1>1. Distance(a[1], b[1]) \in Nat /\ Distance(a[2], b[2]) \in Nat
  BY CellType, Axis
<1>2. CASE Distance(a[1], b[1]) >= Distance(a[2], b[2])
  BY <1>1, <1>2 DEF Long, Short, On, Nearest, LineIterator
<1>3. CASE ~(Distance(a[1], b[1]) >= Distance(a[2], b[2]))
  <2>1. Distance(a[2], b[2]) # 0
    BY <1>1, <1>3
  <2> QED
    BY <1>1, <1>3, <2>1 DEF Long, Short, On, Nearest, LineIterator
<1> QED
  BY <1>2, <1>3

\* Signs do not change how far two numbers lie apart.
LEMMA SignsCancel ==
  ASSUME NEW s \in {1, -1}, NEW t \in {1, -1},
         NEW k \in Nat, NEW l \in Nat, NEW m \in Nat, NEW n \in Nat
  PROVE  Distance((s * k) * (t * l), (t * m) * (s * n)) = Distance(k * l, m * n)
<1> DEFINE p == k * l
           r == m * n
<1>1. p \in Nat /\ r \in Nat
  OBVIOUS
<1>2. \/ (s * k) * (t * l) = p /\ (t * m) * (s * n) = r
      \/ (s * k) * (t * l) = -p /\ (t * m) * (s * n) = -r
  <2>1. CASE s = 1 /\ t = 1
    BY <2>1
  <2>2. CASE s = 1 /\ t = -1
    BY <2>2
  <2>3. CASE s = -1 /\ t = 1
    BY <2>3
  <2>4. CASE s = -1 /\ t = -1
    BY <2>4
  <2> QED
    BY <2>1, <2>2, <2>3, <2>4
<1> HIDE DEF p, r
<1>3. Distance(p, r) = Distance(-p, -r)
  BY <1>1 DEF Distance
<1> QED
  BY <1>2, <1>3 DEF p, r

\* The cells between the ends of a leg are those on it, for some way along and across.
LEMMA OnLeg ==
  ASSUME NEW a \in Cells, NEW b \in Cells,
         NEW k \in 0 .. Long(a, b), NEW m \in 0 .. Short(a, b)
  PROVE  LET e == On(a, b, k, m) IN
         /\ e \in Cells /\ e \in Between(a[1], b[1]) \X Between(a[2], b[2])
         /\ Off(a, b, e) = Distance(k * Short(a, b), m * Long(a, b))
         /\ e \in Crossed(a, b) <=>
              2 * Distance(k * Short(a, b), m * Long(a, b)) <= Long(a, b) + Short(a, b)
<1> DEFINE e == On(a, b, k, m)
           s == Towards(a[1], b[1])
           t == Towards(a[2], b[2])
           dx == Distance(a[1], b[1])
           dy == Distance(a[2], b[2])
<1>1. /\ a[1] \in Nat /\ a[2] \in Nat /\ b[1] \in Nat /\ b[2] \in Nat
      /\ a[1] \in 0 .. SizeX - 1 /\ b[1] \in 0 .. SizeX - 1
      /\ a[2] \in 0 .. SizeY - 1 /\ b[2] \in 0 .. SizeY - 1
  BY CellType
<1>2. /\ s \in {1, -1} /\ t \in {1, -1} /\ dx \in Nat /\ dy \in Nat
      /\ b[1] - a[1] = s * dx /\ b[2] - a[2] = t * dy
  BY <1>1, Axis
<1>3. ASSUME NEW i \in 0 .. dx, NEW j \in 0 .. dy
      PROVE  /\ <<a[1] + s * i, a[2] + t * j>> \in Cells
             /\ <<a[1] + s * i, a[2] + t * j>> \in Between(a[1], b[1]) \X Between(a[2], b[2])
             /\ Off(a, b, <<a[1] + s * i, a[2] + t * j>>) = Distance(i * dy, j * dx)
  <2>1. a[1] + s * i \in Between(a[1], b[1]) /\ a[2] + t * j \in Between(a[2], b[2])
    BY <1>1, <1>3, Axis
  <2>2. a[1] + s * i \in 0 .. SizeX - 1 /\ a[2] + t * j \in 0 .. SizeY - 1
    <3> DEFINE x == a[1] + s * i
               y == a[2] + t * j
    <3>1. /\ x \in Nat /\ ((a[1] <= x /\ x <= b[1]) \/ (b[1] <= x /\ x <= a[1]))
          /\ y \in Nat /\ ((a[2] <= y /\ y <= b[2]) \/ (b[2] <= y /\ y <= a[2]))
      <4> HIDE DEF x, y
      <4>1. x \in Between(a[1], b[1]) /\ y \in Between(a[2], b[2])
        BY <2>1 DEF x, y
      <4>2. ASSUME NEW u \in Nat, NEW v \in Nat, NEW z \in Between(u, v)
            PROVE  z \in Nat /\ ((u <= z /\ z <= v) \/ (v <= z /\ z <= u))
        BY <4>2 DEF Between
      <4>3. x \in Nat /\ ((a[1] <= x /\ x <= b[1]) \/ (b[1] <= x /\ x <= a[1]))
        BY <1>1, <4>1, <4>2
      <4>4. y \in Nat /\ ((a[2] <= y /\ y <= b[2]) \/ (b[2] <= y /\ y <= a[2]))
        BY <1>1, <4>1, <4>2
      <4> QED
        BY <4>3, <4>4
    <3> HIDE DEF x, y
    <3>2. x \in 0 .. SizeX - 1 /\ y \in 0 .. SizeY - 1
      BY <1>1, <3>1, PlannerAssumption
    <3> QED
      BY <3>2 DEF x, y
  <2>3. /\ i \in Nat /\ j \in Nat /\ s * i \in Int /\ t * j \in Int
        /\ (a[1] + s * i) - a[1] = s * i /\ (a[2] + t * j) - a[2] = t * j
    BY <1>1, <1>2
  <2>4. Off(a, b, <<a[1] + s * i, a[2] + t * j>>) =
          Distance(((a[1] + s * i) - a[1]) * (b[2] - a[2]), ((a[2] + t * j) - a[2]) * (b[1] - a[1]))
    BY DEF Off
  <2>5. Off(a, b, <<a[1] + s * i, a[2] + t * j>>) = Distance((s * i) * (t * dy), (t * j) * (s * dx))
    BY <1>2, <2>3, <2>4, Zenon
  <2> HIDE DEF s, t, dx, dy
  <2>6. Distance((s * i) * (t * dy), (t * j) * (s * dx)) = Distance(i * dy, j * dx)
    BY <1>2, <2>3, SignsCancel
  <2> QED
    BY <2>1, <2>2, <2>5, <2>6 DEF Cells
<1>4. CASE dx >= dy
  <2>1. e = <<a[1] + s * k, a[2] + t * m>> /\ Long(a, b) = dx /\ Short(a, b) = dy
    <3>1. k * s = s * k
      BY <1>2
    <3> QED
      BY <1>4, <3>1 DEF On, Long, Short
  <2>2. k \in 0 .. dx /\ m \in 0 .. dy
    BY <2>1
  <2>3. /\ e \in Cells /\ e \in Between(a[1], b[1]) \X Between(a[2], b[2])
        /\ Off(a, b, e) = Distance(k * dy, m * dx)
    BY <1>3, <2>1, <2>2
  <2>4. dx + dy = Long(a, b) + Short(a, b)
    BY <2>1
  <2> HIDE DEF e, s, t
  <2> QED
    BY <2>1, <2>3, <2>4 DEF Crossed, e
<1>5. CASE ~(dx >= dy)
  <2>1. e = <<a[1] + s * m, a[2] + t * k>> /\ Long(a, b) = dy /\ Short(a, b) = dx
    <3>1. k * t = t * k
      BY <1>2
    <3> QED
      BY <1>5, <3>1 DEF On, Long, Short
  <2>2. k \in 0 .. dy /\ m \in 0 .. dx
    BY <2>1
  <2>3. /\ e \in Cells /\ e \in Between(a[1], b[1]) \X Between(a[2], b[2])
        /\ Off(a, b, e) = Distance(m * dy, k * dx)
    BY <1>3, <2>1, <2>2
  <2>4. Distance(m * dy, k * dx) = Distance(k * dx, m * dy)
    <3>1. m * dy \in Nat /\ k * dx \in Nat
      BY <1>2, <2>2
    <3> QED
      BY <3>1, Axis
  <2>5. dx + dy = Long(a, b) + Short(a, b)
    BY <1>2, <2>1
  <2> HIDE DEF e, s, t
  <2> QED
    BY <2>1, <2>3, <2>4, <2>5 DEF Crossed, e
<1> QED
  BY <1>4, <1>5

LEMMA CrossedIsOn ==
  ASSUME NEW a \in Cells, NEW b \in Cells, NEW e \in Crossed(a, b)
  PROVE  \E k \in 0 .. Long(a, b), m \in 0 .. Short(a, b) : e = On(a, b, k, m)
<1> DEFINE s == Towards(a[1], b[1])
           t == Towards(a[2], b[2])
           dx == Distance(a[1], b[1])
           dy == Distance(a[2], b[2])
<1>1. a[1] \in Nat /\ a[2] \in Nat /\ b[1] \in Nat /\ b[2] \in Nat
  BY CellType
<1>2. e[1] \in Between(a[1], b[1]) /\ e[2] \in Between(a[2], b[2]) /\ e = <<e[1], e[2]>>
  BY DEF Crossed
<1>3. PICK i \in 0 .. dx : e[1] = a[1] + s * i
  BY <1>1, <1>2, Axis
<1>4. PICK j \in 0 .. dy : e[2] = a[2] + t * j
  BY <1>1, <1>2, Axis
<1>5. s \in {1, -1} /\ t \in {1, -1} /\ i * s = s * i /\ j * t = t * j
  <2>1. s \in {1, -1} /\ t \in {1, -1} /\ dx \in Nat /\ dy \in Nat
    BY <1>1, Axis
  <2>2. i \in Nat /\ j \in Nat
    BY <1>3, <1>4, <2>1
  <2> HIDE DEF s, t, dx, dy
  <2> QED
    BY <2>1, <2>2
<1>6. CASE dx >= dy
  <2>1. e = On(a, b, i, j) /\ Long(a, b) = dx /\ Short(a, b) = dy
    BY <1>2, <1>3, <1>4, <1>5, <1>6 DEF On, Long, Short
  <2> QED
    BY <2>1
<1>7. CASE ~(dx >= dy)
  <2>1. e = On(a, b, j, i) /\ Long(a, b) = dy /\ Short(a, b) = dx
    BY <1>2, <1>3, <1>4, <1>5, <1>7 DEF On, Long, Short
  <2> QED
    BY <2>1
<1> QED
  BY <1>6, <1>7

\* One cell further along or across lies beside, and k cells along is one column.
LEMMA OnSteps ==
  ASSUME NEW a \in Cells, NEW b \in Cells, NEW k \in Nat, NEW m \in Nat
  PROVE  /\ On(a, b, 0, 0) = a
         /\ Beside(On(a, b, k, m + 1), On(a, b, k, m)) /\ Beside(On(a, b, k, m), On(a, b, k, m + 1))
         /\ Beside(On(a, b, k + 1, m), On(a, b, k, m))
         /\ \A l : SameColumn(a, b, On(a, b, k, m), On(a, b, k, l))
<1> DEFINE s == Towards(a[1], b[1])
           t == Towards(a[2], b[2])
<1>1. a[1] \in Nat /\ a[2] \in Nat /\ a = <<a[1], a[2]>> /\ s \in {1, -1} /\ t \in {1, -1}
  BY CellType, Axis
<1>2. /\ s * k \in Int /\ s * m \in Int /\ t * k \in Int /\ t * m \in Int
      /\ k * s = s * k /\ k * t = t * k
      /\ (k + 1) * s = s * k + s /\ (k + 1) * t = t * k + t
      /\ s * (m + 1) = s * m + s /\ t * (m + 1) = t * m + t
  BY <1>1
<1>3. ASSUME NEW x \in Int, NEW u \in {1, -1}
      PROVE  Distance(x + u, x) = 1 /\ Distance(x, x + u) = 1 /\ Distance(x, x) = 0
  BY DEF Distance
<1>4. CASE Distance(a[1], b[1]) >= Distance(a[2], b[2])
  <2>1. \A i, j : On(a, b, i, j) = <<a[1] + i * s, a[2] + t * j>>
    BY <1>4 DEF On
  <2>2. On(a, b, 0, 0) = a
    BY <1>1, <2>1
  <2>3. /\ On(a, b, k, m) = <<a[1] + s * k, a[2] + t * m>>
        /\ On(a, b, k, m + 1) = <<a[1] + s * k, (a[2] + t * m) + t>>
        /\ On(a, b, k + 1, m) = <<(a[1] + s * k) + s, a[2] + t * m>>
    <3>1. a[2] + (t * m + t) = (a[2] + t * m) + t /\ a[1] + (s * k + s) = (a[1] + s * k) + s
      BY <1>1, <1>2
    <3> QED
      BY <1>2, <2>1, <3>1
  <2>4. \A l : SameColumn(a, b, On(a, b, k, m), On(a, b, k, l))
    BY <1>4, <2>1 DEF SameColumn
  <2> DEFINE x == a[1] + s * k
             y == a[2] + t * m
  <2>5. x \in Int /\ y \in Int
    BY <1>1, <1>2
  <2> HIDE DEF x, y, s, t
  <2>6. /\ Distance(x, x) = 0 /\ Distance(y, y) = 0 /\ Distance(x + s, x) = 1
        /\ Distance(y + t, y) = 1 /\ Distance(y, y + t) = 1
    BY <1>1, <1>3, <2>5
  <2> QED
    BY <2>2, <2>3, <2>4, <2>6 DEF Beside, x, y
<1>5. CASE ~(Distance(a[1], b[1]) >= Distance(a[2], b[2]))
  <2>1. \A i, j : On(a, b, i, j) = <<a[1] + s * j, a[2] + i * t>>
    BY <1>5 DEF On
  <2>2. On(a, b, 0, 0) = a
    BY <1>1, <2>1
  <2>3. /\ On(a, b, k, m) = <<a[1] + s * m, a[2] + t * k>>
        /\ On(a, b, k, m + 1) = <<(a[1] + s * m) + s, a[2] + t * k>>
        /\ On(a, b, k + 1, m) = <<a[1] + s * m, (a[2] + t * k) + t>>
    <3>1. a[1] + (s * m + s) = (a[1] + s * m) + s /\ a[2] + (t * k + t) = (a[2] + t * k) + t
      BY <1>1, <1>2
    <3> QED
      BY <1>2, <2>1, <3>1
  <2>4. \A l : SameColumn(a, b, On(a, b, k, m), On(a, b, k, l))
    BY <1>5, <2>1 DEF SameColumn
  <2> DEFINE x == a[1] + s * m
             y == a[2] + t * k
  <2>5. x \in Int /\ y \in Int
    BY <1>1, <1>2
  <2> HIDE DEF x, y, s, t
  <2>6. /\ Distance(x, x) = 0 /\ Distance(y, y) = 0 /\ Distance(y + t, y) = 1
        /\ Distance(x + s, x) = 1 /\ Distance(x, x + s) = 1
    BY <1>1, <1>3, <2>5
  <2> QED
    BY <2>2, <2>3, <2>4, <2>6 DEF Beside, x, y
<1> QED
  BY <1>4, <1>5

\* The line ends at the goal, passes nearest to the cells it touches, and is within sight of
\* each that it touches.
LEMMA LinePassesNearest ==
  ASSUME NEW a \in Cells, NEW b \in Cells
  PROVE  LET At(k) == On(a, b, k, Nearest(Long(a, b), Short(a, b), k)) IN
         /\ b \in LineIterator(a, b)
         /\ \A e \in Crossed(a, b) : \E k \in 0 .. Long(a, b) :
              /\ At(k) \in Crossed(a, b) /\ At(k) \in LineIterator(a, b)
              /\ SameColumn(a, b, e, At(k)) /\ Off(a, b, At(k)) <= Off(a, b, e)
              /\ e = At(k) \/ Beside(e, At(k))
<1> DEFINE n == Long(a, b)
           w == Short(a, b)
           At(k) == On(a, b, k, Nearest(n, w, k))
<1>1. /\ n \in Nat /\ w \in 0 .. n
      /\ LineIterator(a, b) = {At(k) : k \in 0 .. n}
  BY LineIsNearest
<1>2. b \in LineIterator(a, b)
  <2>1. n \in 0 .. n /\ 2 * Distance(n * w, w * n) <= n + w
    <3>1. n * w = w * n /\ n * w \in Nat
      BY <1>1
    <3> QED
      BY <1>1, <3>1 DEF Distance
  <2> DEFINE q == Nearest(n, w, n)
  <2>2. q \in 0 .. w /\ Distance(n * w, q * n) <= Distance(n * w, w * n)
    <3> HIDE DEF n, w
    <3>1. w \in 0 .. w
      BY <1>1
    <3> QED
      BY <1>1, <2>1, <3>1, NearestIsNear
  <2> HIDE DEF q
  <2>3. q = w
    <3>1. CASE n = 0
      BY <1>1, <2>2, <3>1
    <3>2. CASE n # 0
      <4> HIDE DEF n, w
      <4>1. n * w = w * n /\ q * n = n * q /\ n * w \in Nat /\ n * q \in Nat /\ q \in Nat
        BY <1>1, <2>2
      <4>2. n * q = n * w
        BY <2>2, <4>1 DEF Distance
      <4>3. ~(q < w)
        <5>1. CASE q < w
          <6>1. PICK d \in Nat : w = q + 1 + d
            <7>1. w - q - 1 \in Nat /\ w = q + 1 + (w - q - 1)
              BY <1>1, <4>1, <5>1
            <7> QED
              BY <7>1
          <6>2. n * w = n * q + n + n * d /\ n * d \in Nat
            BY <1>1, <4>1, <6>1
          <6> QED
            BY <1>1, <3>2, <4>1, <4>2, <6>2
        <5> QED
          BY <5>1
      <4> QED
        BY <1>1, <2>2, <4>3
    <3> QED
      BY <3>1, <3>2
  <2>4. On(a, b, n, w) = b
    <3>1. /\ a[1] \in Nat /\ a[2] \in Nat /\ b[1] \in Nat /\ b[2] \in Nat /\ b = <<b[1], b[2]>>
      BY CellType
    <3> DEFINE s == Towards(a[1], b[1])
               t == Towards(a[2], b[2])
               dx == Distance(a[1], b[1])
               dy == Distance(a[2], b[2])
    <3>2. /\ b[1] = a[1] + s * dx /\ b[2] = a[2] + t * dy
          /\ dx * s = s * dx /\ dy * t = t * dy
      <4>1. /\ b[1] - a[1] = s * dx /\ b[2] - a[2] = t * dy
            /\ s \in {1, -1} /\ t \in {1, -1} /\ dx \in Nat /\ dy \in Nat
        BY <3>1, Axis
      <4> HIDE DEF s, t, dx, dy
      <4> QED
        BY <3>1, <4>1
    <3> QED
      BY <3>1, <3>2 DEF On, Long, Short
  <2> QED
    BY <1>1, <2>1, <2>3, <2>4 DEF q
<1>3. ASSUME NEW e \in Crossed(a, b)
      PROVE  \E k \in 0 .. n :
               /\ At(k) \in Crossed(a, b) /\ At(k) \in LineIterator(a, b)
               /\ SameColumn(a, b, e, At(k)) /\ Off(a, b, At(k)) <= Off(a, b, e)
               /\ e = At(k) \/ Beside(e, At(k))
  <2>1. PICK k \in 0 .. n, m \in 0 .. w : e = On(a, b, k, m)
    BY CrossedIsOn
  <2> DEFINE q == Nearest(n, w, k)
  <2>2. /\ 2 * Distance(k * w, m * n) <= n + w
        /\ Off(a, b, e) = Distance(k * w, m * n)
    BY <1>3, <2>1, OnLeg
  <2>3. /\ q \in 0 .. w /\ 2 * Distance(k * w, q * n) <= n
        /\ m = q \/ m = q + 1 \/ q = m + 1
        /\ Distance(k * w, q * n) <= Distance(k * w, m * n)
    <3> HIDE DEF n, w
    <3>1. /\ q \in 0 .. w /\ 2 * Distance(k * w, q * n) <= n
          /\ \A i \in 0 .. w : 2 * Distance(k * w, i * n) <= n + w =>
               /\ i = q \/ i = q + 1 \/ q = i + 1
               /\ Distance(k * w, q * n) <= Distance(k * w, i * n)
      BY <1>1, <2>1, NearestIsNear, Zenon
    <3> QED
      BY <2>1, <2>2, <3>1, Zenon
  <2> HIDE DEF q
  <2>4. At(k) = On(a, b, k, q)
    BY DEF q
  <2>5. 2 * Distance(k * w, q * n) <= n + w
    <3>1. k * w \in Nat /\ q * n \in Nat
      BY <1>1, <2>3
    <3>2. Distance(k * w, q * n) \in Nat
      BY <3>1, Axis
    <3> QED
      BY <1>1, <2>3, <3>2
  <2>6. At(k) \in Crossed(a, b) /\ Off(a, b, At(k)) <= Off(a, b, e)
    BY <2>2, <2>3, <2>4, <2>5, OnLeg
  <2>7. k \in Nat /\ m \in Nat /\ q \in Nat
    BY <1>1, <2>3
  <2>8. SameColumn(a, b, e, At(k)) /\ (e = At(k) \/ Beside(e, At(k)))
    BY <2>1, <2>3, <2>4, <2>7, OnSteps
  <2>9. At(k) \in LineIterator(a, b)
    BY <1>1
  <2> HIDE DEF At
  <2> QED
    BY <2>6, <2>8, <2>9
<1> QED
  BY <1>2, <1>3

\* Cells beside one another touch; a leg to a cell that touches stays beside it.
LEMMA BesideTouches ==
  ASSUME NEW a \in Cells, NEW b \in Cells
  PROVE  /\ Beside(a, b) => Adjacent(a, b)
         /\ Adjacent(a, b) => Adjacent(b, a)
         /\ Adjacent(a, b) => \A e \in Crossed(a, b) : e = a \/ e = b \/ Beside(e, b)
<1> DEFINE x == a[1]
           y == a[2]
           u == b[1]
           v == b[2]
<1>1. x \in Nat /\ y \in Nat /\ u \in Nat /\ v \in Nat /\ a = <<x, y>> /\ b = <<u, v>>
  BY CellType
<1>2. Beside(a, b) <=> Distance(x, u) + Distance(y, v) = 1
  BY DEF Beside
<1> DEFINE cc == IF y % 2 = 0 THEN 2 * x + 1 ELSE 2 * x
           dd == IF v % 2 = 0 THEN 2 * u + 1 ELSE 2 * u
<1>3. /\ Adjacent(a, b) <=>
           \/ y = v /\ Distance(cc, dd) = 2
           \/ Distance(y, v) = 1 /\ Distance(cc, dd) = 1
      /\ Adjacent(b, a) <=>
           \/ v = y /\ Distance(dd, cc) = 2
           \/ Distance(v, y) = 1 /\ Distance(dd, cc) = 1
  BY DEF Adjacent, Centre
<1>4. ASSUME NEW e \in Crossed(a, b)
      PROVE  e = <<e[1], e[2]>> /\ e[1] \in Between(x, u) /\ e[2] \in Between(y, v)
             /\ (Beside(e, b) <=> Distance(e[1], u) + Distance(e[2], v) = 1)
  BY <1>4 DEF Crossed, Beside
<1> HIDE DEF x, y, u, v
<1>5. y % 2 \in {0, 1} /\ v % 2 \in {0, 1} /\ (y = v => y % 2 = v % 2)
      /\ (y = v + 1 \/ y = v - 1 => y % 2 # v % 2)
  BY <1>1
<1>6. Distance(x, u) + Distance(y, v) = 1 => Adjacent(a, b)
  BY <1>1, <1>3, <1>5 DEF Distance
<1>7. Adjacent(a, b) => Adjacent(b, a)
  BY <1>1, <1>3, <1>5 DEF Distance
<1>8. ASSUME Adjacent(a, b), NEW e \in Crossed(a, b)
      PROVE  e = a \/ e = b \/ Beside(e, b)
  <2>1. Distance(x, u) <= 1 /\ Distance(y, v) <= 1
    BY <1>1, <1>3, <1>5, <1>8 DEF Distance
  <2>2. (e[1] = x \/ e[1] = u) /\ (e[2] = y \/ e[2] = v)
    <3>1. ASSUME NEW i \in Nat, NEW j \in Nat, Distance(i, j) <= 1, NEW k \in Between(i, j)
          PROVE  k = i \/ k = j
      BY <3>1 DEF Between, Distance
    <3>2. e[1] \in Between(x, u) /\ e[2] \in Between(y, v)
      BY <1>4
    <3> QED
      BY <1>1, <2>1, <3>1, <3>2, Zenon
  <2>3. e[1] = x /\ e[2] = y => e = a
    BY <1>1, <1>4
  <2>4. e[1] = u /\ e[2] = v => e = b
    BY <1>1, <1>4
  <2>5. e[1] = u /\ e[2] = y /\ y # v => Beside(e, b)
    BY <1>1, <1>4, <2>1 DEF Distance
  <2>6. e[1] = x /\ e[2] = v /\ x # u => Beside(e, b)
    BY <1>1, <1>4, <2>1 DEF Distance
  <2> QED
    BY <2>2, <2>3, <2>4, <2>5, <2>6
<1> QED
  BY <1>2, <1>6, <1>7, <1>8

\* A bounded set of numbers has a greatest one.
LEMMA MaxBelongs ==
  ASSUME NEW S \in SUBSET Nat, S # {}, NEW n \in Nat, \A i \in S : i <= n
  PROVE  Max(S) \in S
<1> DEFINE T == {n - i : i \in S}
<1>1. T \in SUBSET Nat /\ T # {}
  <2>1. \A i \in S : n - i \in Nat
    OBVIOUS
  <2>2. T # {}
    OBVIOUS
  <2> QED
    BY <2>1, <2>2
<1>2. PICK k \in T : \A j \in T : k <= j
  <2> HIDE DEF T
  <2> QED
    BY <1>1, LeastNumber
<1>3. PICK m \in S : k = n - m
  OBVIOUS
<1>4. \A i \in S : m >= i
  <2> SUFFICES ASSUME NEW i \in S PROVE m >= i
    OBVIOUS
  <2>1. n - m <= n - i
    BY <1>2, <1>3
  <2> QED
    BY <2>1
<1> QED
  BY <1>3, <1>4, Zenon DEF Max

\* The next corner lies ahead; it is the next cell or in sight.
LEMMA NextCornerIsAhead ==
  ASSUME NEW costmap, NEW p \in Seq(Cells), NEW i \in 1 .. Len(p) - 1
  PROVE  /\ NextCorner(costmap, p, i) \in i + 1 .. Len(p)
         /\ \/ NextCorner(costmap, p, i) = i + 1
            \/ hasLineOfSight(costmap, p[i], p[NextCorner(costmap, p, i)])
<1> DEFINE S == {i + 1} \cup {j \in i + 1 .. Len(p) : hasLineOfSight(costmap, p[i], p[j])}
<1>1. Len(p) \in Nat
  OBVIOUS
<1>2. S \in SUBSET Nat /\ S # {} /\ (\A j \in S : j <= Len(p)) /\ S \subseteq i + 1 .. Len(p)
  BY <1>1
<1>3. NextCorner(costmap, p, i) = Max(S)
  BY Zenon DEF NextCorner
<1>4. Max(S) \in S
  <2> HIDE DEF S
  <2> QED
    BY <1>1, <1>2, MaxBelongs
<1>5. \A j \in S : j = i + 1 \/ hasLineOfSight(costmap, p[i], p[j])
  OBVIOUS
<1> HIDE DEF S
<1> QED
  BY <1>2, <1>3, <1>4, <1>5

\* Places in a path, ever further on, each the next or in sight of the one before.
CornerPlaces(costmap, p) ==
  {s \in Seq(1 .. Len(p)) :
     /\ s # <<>> /\ s[1] = 1
     /\ \A i \in 1 .. Len(s) - 1 :
          \/ s[i + 1] = s[i] + 1
          \/ hasLineOfSight(costmap, p[s[i]], p[s[i + 1]])}

\* One more place, unless the last is the end of the path.
Onwards(costmap, p, s) ==
  IF Last(s) = Len(p) THEN s ELSE Append(s, NextCorner(costmap, p, Last(s)))

LEMMA OnwardsKeeps ==
  ASSUME NEW costmap, NEW p \in Seq(Cells), NEW s \in CornerPlaces(costmap, p)
  PROVE  /\ Onwards(costmap, p, s) \in CornerPlaces(costmap, p)
         /\ Last(s) \in 1 .. Len(p)
         /\ Last(s) = Len(p) => Last(Onwards(costmap, p, s)) = Len(p)
         /\ Last(s) # Len(p) => Last(Onwards(costmap, p, s)) > Last(s)
<1> DEFINE L == Len(p)
           n == Len(s)
           t == Append(s, NextCorner(costmap, p, Last(s)))
<1>1. /\ s \in Seq(1 .. L) /\ s # <<>> /\ s[1] = 1 /\ n \in Nat /\ n # 0 /\ L \in Nat
      /\ \A i \in 1 .. n - 1 : \/ s[i + 1] = s[i] + 1
                               \/ hasLineOfSight(costmap, p[s[i]], p[s[i + 1]])
  BY DEF CornerPlaces
<1>2. Last(s) = s[n] /\ Last(s) \in 1 .. L
  BY <1>1 DEF Last
<1>3. CASE Last(s) = L
  BY <1>2, <1>3 DEF Onwards
<1>4. CASE Last(s) # L
  <2>1. Last(s) \in 1 .. L - 1
    BY <1>1, <1>2, <1>4
  <2> DEFINE e == NextCorner(costmap, p, Last(s))
  <2>2. /\ e \in Last(s) + 1 .. L
        /\ e = Last(s) + 1 \/ hasLineOfSight(costmap, p[Last(s)], p[e])
    BY <2>1, NextCornerIsAhead
  <2> HIDE DEF e
  <2>3. e \in 1 .. L /\ e > Last(s)
    BY <1>1, <2>1, <2>2
  <2>4. t = Append(s, e)
    BY DEF e
  <2> HIDE DEF t, L
  <2>5. /\ t \in Seq(1 .. L) /\ t # <<>> /\ Len(t) = n + 1 /\ t[n + 1] = e
        /\ \A i \in 1 .. n : t[i] = s[i]
    BY <1>1, <2>3, <2>4
  <2>6. ASSUME NEW i \in 1 .. Len(t) - 1
        PROVE  \/ t[i + 1] = t[i] + 1
               \/ hasLineOfSight(costmap, p[t[i]], p[t[i + 1]])
    <3>1. CASE i = n
      <4>1. t[i] = Last(s) /\ t[i + 1] = e
        BY <1>1, <1>2, <2>5, <3>1
      <4> QED
        BY <2>2, <4>1
    <3>2. CASE i # n
      <4>1. i \in 1 .. n - 1 /\ i \in 1 .. n /\ i + 1 \in 1 .. n
        BY <1>1, <2>5, <3>2
      <4>2. t[i] = s[i] /\ t[i + 1] = s[i + 1]
        BY <2>5, <4>1
      <4> QED
        BY <1>1, <4>1, <4>2
    <3> QED
      BY <3>1, <3>2
  <2>7. t[1] = 1
    BY <1>1, <2>5
  <2>8. t \in CornerPlaces(costmap, p)
    BY <2>5, <2>6, <2>7 DEF CornerPlaces, L
  <2>9. Last(t) = e
    BY <2>5 DEF Last
  <2>10. Onwards(costmap, p, s) = t
    BY <1>4 DEF Onwards, t, L
  <2> QED
    BY <1>2, <1>4, <2>3, <2>8, <2>9, <2>10 DEF L
<1> QED
  BY <1>3, <1>4

\* The corners are the cells at such places, of which the last is the end of the path.
LEMMA CornersAreAtPlaces ==
  ASSUME NEW costmap, NEW p \in Seq(Cells), p # <<>>
  PROVE  \E s \in CornerPlaces(costmap, p) :
           Last(s) = Len(p) /\ Corners(costmap, p) = [i \in 1 .. Len(s) |-> p[s[i]]]
<1> DEFINE L == Len(p)
           D == CornerPlaces(costmap, p)
           F == [s \in D |-> Onwards(costmap, p, s)]
           Next_(g) == [k \in 1 .. L |-> IF k = 1 THEN <<1>>
                          ELSE IF Last(g[k - 1]) = L THEN g[k - 1]
                          ELSE Append(g[k - 1], NextCorner(costmap, p, Last(g[k - 1])))]
<1>1. L \in Nat /\ 1 \in Nat /\ 1 <= L /\ 1 \in 1 .. L /\ L \in 1 .. L
  BY EmptySeq, LenProperties
<1>2. <<1>> \in D
  <2>1. /\ <<1>> \in Seq(1 .. L) /\ <<1>> # <<>> /\ Len(<<1>>) = 1 /\ <<1>>[1] = 1
    BY <1>1
  <2> QED
    BY <2>1 DEF CornerPlaces
<1>3. F \in [D -> D]
  BY OnwardsKeeps
<1>4. PICK g : Iterates(g, D, F, <<1>>, 1, L)
  <2> HIDE DEF F, D, L
  <2> QED
    BY <1>1, <1>2, <1>3, IterationExists, Zenon
<1>5. /\ g \in [1 .. L -> D]
      /\ \A k \in 1 .. L : g[k] = IF k = 1 THEN <<1>> ELSE F[g[k - 1]]
  BY <1>4, Zenon DEF Iterates
<1> HIDE DEF L
<1>6. \A h, k : Next_(h)[k] = (IF k = 1 THEN <<1>> ELSE Onwards(costmap, p, h[k - 1]))
                \/ k \notin 1 .. L
  BY Zenon DEF Onwards, L
<1>7. g = Next_(g)
  <2>1. ASSUME NEW k \in 1 .. L PROVE g[k] = Next_(g)[k]
    <3>1. CASE k = 1
      BY <1>5, <1>6, <3>1
    <3>2. CASE k # 1
      <4>1. k - 1 \in 1 .. L
        BY <1>1, <3>2
      <4>2. g[k] = Onwards(costmap, p, g[k - 1])
        BY <1>5, <3>2, <4>1
      <4> QED
        BY <1>6, <3>2, <4>2, Zenon
    <3> QED
      BY <3>1, <3>2
  <2>2. g = [k \in 1 .. L |-> g[k]]
    <3> HIDE DEF D
    <3> QED
      BY <1>5
  <2>3. Next_(g) = [k \in 1 .. L |-> Next_(g)[k]]
    OBVIOUS
  <2> HIDE DEF Next_
  <2> QED
    BY <2>1, <2>2, <2>3
<1> DEFINE found == CHOOSE g_ : g_ = Next_(g_)
           places == found[L]
<1>8. found = Next_(found)
  <2> HIDE DEF Next_
  <2> QED
    BY <1>7
<1>9. Corners(costmap, p) = [i \in 1 .. Len(places) |-> p[places[i]]]
  BY Zenon DEF Corners, L
<1> HIDE DEF found, Next_
<1>10. found[1] = <<1>>
  BY <1>1, <1>6, <1>8
<1>11. ASSUME NEW k \in 1 .. L - 1
       PROVE  /\ k \in 1 .. L /\ k + 1 \in 1 .. L /\ k \in Nat
              /\ found[k + 1] = Onwards(costmap, p, found[k])
  <2>1. k + 1 \in 1 .. L /\ (k + 1) - 1 = k /\ k + 1 # 1 /\ k \in 1 .. L /\ k \in Nat
    BY <1>1
  <2> QED
    BY <1>6, <1>8, <2>1
<1> DEFINE S == {k \in 1 .. L : found[k] \in D /\ Last(found[k]) >= k}
<1>12. 1 \in S
  <2>1. Last(<<1>>) = 1
    BY DEF Last
  <2> QED
    BY <1>1, <1>2, <1>10, <2>1
<1>13. ASSUME NEW k \in 1 .. L - 1, k \in S PROVE k + 1 \in S
  <2> DEFINE s == found[k]
             t == found[k + 1]
  <2>1. s \in D /\ Last(s) >= k /\ t = Onwards(costmap, p, s)
    BY <1>11, <1>13
  <2> HIDE DEF s, t
  <2>2. /\ t \in D /\ Last(s) \in 1 .. L /\ Last(t) \in 1 .. L
        /\ Last(s) = L => Last(t) = L
        /\ Last(s) # L => Last(t) > Last(s)
    BY <2>1, OnwardsKeeps DEF L
  <2>3. Last(t) >= k + 1
    BY <1>1, <2>1, <2>2
  <2> QED
    BY <1>11, <2>2, <2>3 DEF t
<1>14. L \in S
  <2> HIDE DEF S
  <2>1. \A k \in 1 .. L : k \in S
    BY <1>1, <1>12, <1>13, UpTo
  <2> QED
    BY <1>1, <2>1
<1>15. places \in D /\ Last(places) = L
  <2>1. places \in D /\ Last(places) >= L
    BY <1>14
  <2>2. Last(places) \in 1 .. L
    BY <2>1, OnwardsKeeps DEF L
  <2> QED
    BY <1>1, <2>1, <2>2
<1> HIDE DEF places
<1> QED
  BY <1>9, <1>15 DEF L

------------------------------------------------------------------------------
(***************************************************************************)
(* The plan.                                                               *)
(***************************************************************************)
\* A leg of a plan: a step of the search, or a line of sight.  Either way it is clear.
Leg(costmap, a, b) ==
  \/ b \in getHexNeighbors(a) /\ isNodeValid(costmap, b)
  \/ hasLineOfSight(costmap, a, b)
ClearLeg(costmap, a, b) == Leg(costmap, a, b) /\ LegIsClear(costmap, a, b)

LEMMA LegsAreClear ==
  ASSUME NEW costmap \in Costmap, NEW a \in Cells, NEW b \in Cells, Leg(costmap, a, b)
  PROVE  ClearLeg(costmap, a, b)
<1>1. CASE b \in getHexNeighbors(a) /\ isNodeValid(costmap, b)
  <2>1. Adjacent(a, b)
    BY <1>1, NeighboursAreAdjacent, BesideTouches
  <2>2. Free(costmap, b)
    BY <1>1 DEF isNodeValid, Free
  <2> QED
    BY <2>1, <2>2 DEF ClearLeg, LegIsClear
<1>2. CASE hasLineOfSight(costmap, a, b)
  <2>1. \A e \in LineIterator(a, b) : e \in Cells /\ costmap[e] < 180
    BY <1>2 DEF hasLineOfSight, isSightValid
  <2>2. Free(costmap, b)
    <3>1. costmap[b] \in Nat /\ costmap[b] < 180
      BY <2>1, LinePassesNearest DEF Costmap
    <3> QED
      BY <3>1 DEF Free
  <2>3. \A e \in Crossed(a, b) : \E f \in Crossed(a, b) :
          SameColumn(a, b, e, f) /\ Off(a, b, f) <= Off(a, b, e) /\ costmap[f] < 180
    BY <2>1, LinePassesNearest
  <2> QED
    BY <2>2, <2>3 DEF ClearLeg, LegIsClear
<1> QED
  BY <1>1, <1>2 DEF Leg

\* A set of cells that neither a free cell touches nor the corner of a leg through a free
\* cell of it gets out of.
Surrounded(costmap, C) ==
  /\ C \in SUBSET Cells /\ Enclosed(costmap, C)
  /\ \A d \in C, c \in Cells : Free(costmap, d) /\ Beside(c, d) => c \in C

\* Legs stay in such a set, with all the cells that they touch.
LEMMA LegStays ==
  ASSUME NEW costmap \in Costmap, NEW C, Surrounded(costmap, C),
         NEW a \in C, NEW b \in Cells, Leg(costmap, a, b)
  PROVE  b \in C /\ Crossed(a, b) \subseteq C
<1>1. a \in Cells
  BY DEF Surrounded
<1>2. Crossed(a, b) \subseteq Cells
  <2> SUFFICES ASSUME NEW e \in Crossed(a, b) PROVE e \in Cells
    OBVIOUS
  <2>1. \E k \in 0 .. Long(a, b), m \in 0 .. Short(a, b) : e = On(a, b, k, m)
    BY <1>1, CrossedIsOn
  <2> QED
    BY <1>1, <2>1, OnLeg
<1>3. CASE b \in getHexNeighbors(a) /\ isNodeValid(costmap, b)
  <2>1. Adjacent(b, a) /\ Adjacent(a, b) /\ Free(costmap, b)
    BY <1>1, <1>3, NeighboursAreAdjacent, BesideTouches DEF isNodeValid, Free
  <2>2. b \in C
    BY <2>1 DEF Surrounded, Enclosed
  <2>3. \A e \in Crossed(a, b) : e = a \/ e = b \/ Beside(e, b)
    BY <1>1, <2>1, BesideTouches
  <2> QED
    BY <1>2, <2>1, <2>2, <2>3 DEF Surrounded
<1>4. CASE hasLineOfSight(costmap, a, b)
  <2> DEFINE n == Long(a, b)
             w == Short(a, b)
             q(k) == Nearest(n, w, k)
             At(k) == On(a, b, k, q(k))
             S == {k \in 0 .. n : At(k) \in C}
  <2>1. n \in Nat /\ w \in 0 .. n /\ LineIterator(a, b) = {At(k) : k \in 0 .. n}
    BY <1>1, LineIsNearest
  <2>2. ASSUME NEW k \in 0 .. n
        PROVE  At(k) \in Cells /\ Free(costmap, At(k)) /\ q(k) \in 0 .. w /\ k \in Nat
    <3>1. At(k) \in Cells /\ costmap[At(k)] < 180
      BY <1>4, <2>1 DEF hasLineOfSight, isSightValid
    <3>2. costmap[At(k)] \in Nat
      BY <3>1 DEF Costmap
    <3>3. q(k) \in 0 .. w
      <4> HIDE DEF n, w
      <4> QED
        BY <2>1, NearestIsNear
    <3> HIDE DEF At
    <3> QED
      BY <2>1, <3>1, <3>2, <3>3 DEF Free
  <2>3. 0 \in S
    <3>1. q(0) = 0
      <4> HIDE DEF n, w
      <4> QED
        BY <2>1, NearestStep
    <3>2. On(a, b, 0, 0) = a
      BY <1>1, OnSteps
    <3> QED
      BY <2>1, <3>1, <3>2
  <2>4. ASSUME NEW k \in 0 .. n - 1, k \in S PROVE k + 1 \in S
    <3>1. k \in 0 .. n /\ k + 1 \in 0 .. n /\ At(k) \in C
      BY <2>1, <2>4
    <3>2. /\ Free(costmap, At(k)) /\ Free(costmap, At(k + 1)) /\ At(k + 1) \in Cells
          /\ q(k) \in 0 .. w /\ q(k + 1) \in 0 .. w /\ k \in Nat /\ q(k) \in Nat
      BY <2>1, <2>2, <3>1
    <3>3. q(k + 1) = q(k) \/ q(k + 1) = q(k) + 1
      <4> HIDE DEF n, w
      <4> QED
        BY <2>1, NearestStep
    <3>4. CASE q(k + 1) = q(k)
      <4>1. Beside(At(k + 1), At(k))
        <5> HIDE DEF q
        <5> QED
          BY <1>1, <3>2, <3>4, OnSteps
      <4>2. At(k + 1) \in C
        <5> HIDE DEF At
        <5> QED
          BY <3>1, <3>2, <4>1 DEF Surrounded
      <4> QED
        BY <3>1, <4>2
    <3>5. CASE q(k + 1) = q(k) + 1
      <4> DEFINE e == On(a, b, k, q(k) + 1)
      <4>1. e \in Cells
        <5>1. q(k) + 1 \in 0 .. w
          BY <3>2, <3>5
        <5> QED
          BY <1>1, <3>1, <5>1, OnLeg
      <4>2. Beside(e, At(k)) /\ Beside(At(k + 1), e)
        <5> HIDE DEF q
        <5>1. q(k) + 1 \in Nat
          BY <3>2
        <5> QED
          BY <1>1, <3>2, <3>5, <5>1, OnSteps
      <4> HIDE DEF e, At
      <4>3. e \in C
        BY <3>1, <3>2, <4>1, <4>2 DEF Surrounded
      <4>4. At(k + 1) \in C
        BY <3>2, <4>1, <4>2, <4>3, BesideTouches DEF Surrounded, Enclosed
      <4> QED
        BY <3>1, <4>4
    <3> QED
      BY <3>3, <3>4, <3>5
  <2>5. \A k \in 0 .. n : At(k) \in C
    <3> HIDE DEF S, n
    <3>1. \A k \in 0 .. n : k \in S
      BY <2>1, <2>3, <2>4, UpTo
    <3> QED
      BY <3>1 DEF S
  <2>6. b \in C
    BY <1>1, <2>1, <2>5, LinePassesNearest
  <2>7. ASSUME NEW e \in Crossed(a, b) PROVE e \in C
    <3>1. PICK k \in 0 .. n : e = At(k) \/ Beside(e, At(k))
      BY <1>1, LinePassesNearest
    <3>2. e \in Cells /\ Free(costmap, At(k)) /\ At(k) \in C
      BY <1>2, <2>2, <2>5
    <3> HIDE DEF At
    <3> QED
      BY <3>1, <3>2 DEF Surrounded
  <2> QED
    BY <2>6, <2>7
<1> QED
  BY <1>3, <1>4 DEF Leg

\* What is right of a plan's corners.
RightPlan(costmap, start, goal, r) ==
  /\ r \in Seq(Cells)
  /\ IF goal \in Reachable(costmap, start)
     THEN r # NoPath /\ Head(r) = start /\ Last(r) = goal
     ELSE r = NoPath
  /\ \A i \in 1 .. Len(r) - 1 : ClearLeg(costmap, r[i], r[i + 1])

\* A way to the goal and its corners are right.
LEMMA WayIsRight ==
  ASSUME NEW costmap \in Costmap, NEW start \in Cells, NEW goal \in Cells,
         NEW p, Way(costmap, start, p), Last(p) = goal
  PROVE  /\ RightPlan(costmap, start, goal, p)
         /\ RightPlan(costmap, start, goal, Corners(costmap, p))
<1>1. /\ p \in Seq(Cells) /\ p # <<>> /\ Len(p) \in Nat /\ Len(p) # 0 /\ p[1] = start
      /\ 1 \in 1 .. Len(p) /\ Len(p) \in 1 .. Len(p) /\ p[Len(p)] = goal
  BY DEF Way, Last
<1>2. \A C : start \in C /\ Enclosed(costmap, C) => \A i \in 1 .. Len(p) : p[i] \in C
  BY WayStays
<1>3. goal \in Reachable(costmap, start)
  BY <1>1, <1>2, ReachableIsLeastEnclosed
<1>4. \A i \in 1 .. Len(p) - 1 : ClearLeg(costmap, p[i], p[i + 1])
  <2> SUFFICES ASSUME NEW i \in 1 .. Len(p) - 1 PROVE ClearLeg(costmap, p[i], p[i + 1])
    OBVIOUS
  <2>1. p[i] \in Cells /\ p[i + 1] \in Cells
    BY <1>1
  <2> QED
    BY <2>1, LegsAreClear DEF Way, Leg
<1>5. RightPlan(costmap, start, goal, p)
  <2>1. Head(p) = start /\ p # NoPath /\ Last(p) = goal
    BY <1>1 DEF NoPath, Last
  <2> QED
    BY <1>1, <1>3, <1>4, <2>1, Zenon DEF RightPlan
<1>6. PICK s \in CornerPlaces(costmap, p) :
        Last(s) = Len(p) /\ Corners(costmap, p) = [i \in 1 .. Len(s) |-> p[s[i]]]
  BY <1>1, CornersAreAtPlaces
<1> DEFINE r == Corners(costmap, p)
<1>7. /\ s \in Seq(1 .. Len(p)) /\ s # <<>> /\ Len(s) \in Nat /\ Len(s) # 0 /\ s[1] = 1
      /\ s[Len(s)] = Len(p) /\ 1 \in 1 .. Len(s) /\ Len(s) \in 1 .. Len(s)
      /\ \A i \in 1 .. Len(s) - 1 : \/ s[i + 1] = s[i] + 1
                                    \/ hasLineOfSight(costmap, p[s[i]], p[s[i + 1]])
  BY <1>6 DEF CornerPlaces, Last
<1>8. \A i \in 1 .. Len(s) : s[i] \in 1 .. Len(p) /\ p[s[i]] \in Cells
  BY <1>1, <1>7
<1>9. /\ r \in Seq(Cells) /\ Len(r) = Len(s)
      /\ \A i \in 1 .. Len(s) : r[i] = p[s[i]]
  <2> HIDE DEF r
  <2>1. r = [i \in 1 .. Len(s) |-> p[s[i]]]
    BY <1>6 DEF r
  <2> QED
    BY <1>7, <1>8, <2>1
<1> HIDE DEF r
<1>10. r[1] = start /\ r[Len(r)] = goal /\ r # <<>>
  BY <1>1, <1>7, <1>9
<1>11. ASSUME NEW i \in 1 .. Len(r) - 1 PROVE ClearLeg(costmap, r[i], r[i + 1])
  <2>1. i \in 1 .. Len(s) - 1 /\ i \in 1 .. Len(s) /\ i + 1 \in 1 .. Len(s)
    BY <1>7, <1>9
  <2>2. r[i] = p[s[i]] /\ r[i + 1] = p[s[i + 1]] /\ r[i] \in Cells /\ r[i + 1] \in Cells
    BY <1>8, <1>9, <2>1
  <2>3. CASE s[i + 1] = s[i] + 1
    <3>1. s[i] \in 1 .. Len(p) - 1
      BY <1>1, <1>8, <2>1, <2>3
    <3> QED
      BY <1>4, <2>2, <2>3, <3>1
  <2>4. CASE hasLineOfSight(costmap, p[s[i]], p[s[i + 1]])
    BY <2>2, <2>4, LegsAreClear DEF Leg
  <2> QED
    BY <1>7, <2>1, <2>3, <2>4
<1>12. RightPlan(costmap, start, goal, r)
  <2>1. Head(r) = start /\ r # NoPath /\ Last(r) = goal
    BY <1>9, <1>10 DEF NoPath, Last
  <2> QED
    BY <1>3, <1>9, <1>11, <2>1, Zenon DEF RightPlan
<1> QED
  BY <1>5, <1>12 DEF r

\* The planner's plan is right, for any costmap and any start on it, and wherever the goal
\* is: there is one exactly when the goal can be reached, and each leg of it is a step of
\* the search or a line of sight, and clear as LegIsClear says, whatever else it touches.
THEOREM createPlanIsRight ==
  ASSUME NEW costmap \in Costmap, NEW start \in Cells, NEW goal
  PROVE  RightPlan(costmap, start, goal, createPlan(costmap, start, goal))
<1> DEFINE r == createPlan(costmap, start, goal)
<1>1. goal \notin Reachable(costmap, start) => RightPlan(costmap, start, goal, NoPath)
  <2>1. NoPath \in Seq(Cells) /\ Len(NoPath) = 0
    BY DEF NoPath
  <2> QED
    BY <2>1 DEF RightPlan
<1>2. CASE goal \notin Cells
  <2>1. goal \notin Reachable(costmap, start)
    BY <1>2, ReachableIsLeastEnclosed
  <2>2. r = NoPath
    <3>1. Len(NoPath) = 0
      BY DEF NoPath
    <3> QED
      BY <1>2, <3>1 DEF createPlan
  <2> QED
    BY <1>1, <2>1, <2>2
<1>3. CASE goal \in Cells
  <2> DEFINE p == Search(costmap, start, goal)
  <2>1. r = IF Len(p) > 2 THEN Corners(costmap, p) ELSE p
    <3>1. {start, goal} \subseteq Cells
      BY <1>3
    <3> QED
      BY <3>1, Zenon DEF createPlan
  <2>2. /\ p # NoPath => Way(costmap, start, p) /\ Last(p) = goal
        /\ p = NoPath => \E C \in SUBSET Cells :
                           start \in C /\ goal \notin C /\ Enclosed(costmap, C)
    BY <1>3, SearchIsRight
  <2> HIDE DEF p, r
  <2>3. CASE p = NoPath
    <3>1. goal \notin Reachable(costmap, start)
      BY <2>2, <2>3, ReachableIsLeastEnclosed
    <3>2. r = NoPath
      <4>1. Len(NoPath) = 0
        BY DEF NoPath
      <4> QED
        BY <2>1, <2>3, <4>1
    <3> QED
      BY <1>1, <3>1, <3>2 DEF r
  <2>4. CASE p # NoPath
    BY <1>3, <2>1, <2>2, <2>4, WayIsRight, Zenon DEF r
  <2> QED
    BY <2>3, <2>4
<1> QED
  BY <1>2, <1>3

\* A plan from a cell of a set that legs do not get out of has its poses in it.
LEMMA PosesStay ==
  ASSUME NEW costmap \in Costmap, NEW C, Surrounded(costmap, C), NEW start \in C,
         NEW goal, NEW r, RightPlan(costmap, start, goal, r), r # NoPath
  PROVE  Poses(r) \subseteq C
<1> DEFINE S == {i \in 1 .. Len(r) : r[i] \in C}
<1>1. /\ r \in Seq(Cells) /\ r # <<>> /\ Head(r) = start
      /\ \A i \in 1 .. Len(r) - 1 : Leg(costmap, r[i], r[i + 1])
  BY DEF RightPlan, NoPath, ClearLeg
<1>2. Len(r) \in Nat /\ Len(r) # 0 /\ r[1] = start
  BY <1>1
<1>3. ASSUME NEW i \in 1 .. Len(r) - 1, r[i] \in C
      PROVE  r[i + 1] \in C /\ Crossed(r[i], r[i + 1]) \subseteq C
  <2>1. r[i + 1] \in Cells /\ Leg(costmap, r[i], r[i + 1])
    BY <1>1, <1>2
  <2> QED
    BY <1>3, <2>1, LegStays
<1>4. 1 \in S /\ \A i \in 1 .. Len(r) - 1 : i \in S => i + 1 \in S
  BY <1>2, <1>3
<1>5. \A i \in 1 .. Len(r) - 1 : r[i] \in C
  <2> HIDE DEF S
  <2>1. \A i \in 1 .. Len(r) : i \in S
    BY <1>2, <1>4, UpTo
  <2> QED
    BY <1>2, <2>1 DEF S
<1> QED
  BY <1>1, <1>3, <1>5 DEF Poses

------------------------------------------------------------------------------
(***************************************************************************)
(* The manager.                                                            *)
(***************************************************************************)
Goal == [mode : Known, number : Nat, state : State]

\* The types the proof needs: modes that are kept have waypoints.
NTypes ==
  /\ cmd_mode \in Seq(Known \cup Unknown)
  /\ current_mode_ \in Known /\ waiting \in BOOLEAN
  /\ taken \in Nat /\ goals \in Seq(Goal)

\* A goal is numbered with a mode already taken, and the one of the mode taken last is
\* for the mode kept; while the node waits for the server there is none yet.
LatestGoalIsOfModeKept ==
  \A g \in 1 .. Len(goals) :
    /\ goals[g].number <= taken
    /\ goals[g].number = taken => ~waiting /\ goals[g].mode = current_mode_

NInv == NTypes /\ LatestGoalIsOfModeKept /\ LatestArrivalReportsItsMode

\* No goal has been sent and nothing published.
LEMMA NInvInit == Init => NInv
<1> SUFFICES ASSUME Init PROVE NInv
  OBVIOUS
<1>1. NTypes
  <2>1. cmd_mode \in Seq(Known \cup Unknown) /\ goals \in Seq(Goal)
    BY DEF Init
  <2> QED
    BY <2>1, NavAssumption DEF Init, NTypes
<1>2. LatestGoalIsOfModeKept
  BY DEF Init, LatestGoalIsOfModeKept
<1>3. LatestArrivalReportsItsMode
  BY DEF Init, LatestArrivalReportsItsMode, NoMode
<1> QED
  BY <1>1, <1>2, <1>3 DEF NInv

\* Nav2 changes how far goals are, never what they are for.
LEMMA Nav2Keeps ==
  ASSUME NInv, NEW states \in Seq(Goal), Nav2(states), Len(states) = Len(goals),
         \A i \in 1 .. Len(goals) : /\ states[i].mode = goals[i].mode
                                    /\ states[i].number = goals[i].number
  PROVE  NInv'
  BY DEF NInv, NTypes, LatestGoalIsOfModeKept, LatestArrivalReportsItsMode, Nav2

\* A goal's state is replaced by another.
LEMMA StateChange ==
  ASSUME goals \in Seq(Goal), NEW g \in 1 .. Len(goals), NEW state \in State
  PROVE  LET states == [goals EXCEPT ![g].state = state] IN
         /\ states \in Seq(Goal) /\ Len(states) = Len(goals)
         /\ \A i \in 1 .. Len(goals) : /\ states[i].mode = goals[i].mode
                                       /\ states[i].number = goals[i].number
<1> DEFINE states == [goals EXCEPT ![g].state = state]
<1>1. DOMAIN states = 1 .. Len(goals)
  OBVIOUS
<1>2. ASSUME NEW i \in 1 .. Len(goals)
      PROVE  /\ states[i] \in Goal
             /\ states[i].mode = goals[i].mode /\ states[i].number = goals[i].number
  <2>1. goals[i] \in Goal
    OBVIOUS
  <2>2. CASE i = g
    <3>1. states[i] = [goals[i] EXCEPT !.state = state]
      BY <2>2
    <3> QED
      BY <2>1, <3>1 DEF Goal
  <2>3. CASE i # g
    <3>1. states[i] = goals[i]
      BY <2>3
    <3> QED
      BY <2>1, <3>1
  <2> QED
    BY <2>2, <2>3
<1>3. states = [i \in 1 .. Len(goals) |-> states[i]]
  BY <1>1
<1>4. states \in Seq(Goal) /\ Len(states) = Len(goals)
  <2> HIDE DEF states
  <2> QED
    BY <1>1, <1>2, <1>3
<1> QED
  BY <1>2, <1>4

\* Every action keeps the invariant.
LEMMA NInvStep == NInv /\ [Next]_vars => NInv'
<1> SUFFICES ASSUME NInv, [Next]_vars PROVE NInv'
  OBVIOUS
<1> USE DEF NInv, NTypes
<1>1. ASSUME NEW mode \in Known \cup Unknown, Command(mode) PROVE NInv'
  <2>1. cmd_mode' \in Seq(Known \cup Unknown)
    BY <1>1 DEF Command
  <2> QED
    BY <1>1, <2>1 DEF Command, LatestGoalIsOfModeKept, LatestArrivalReportsItsMode
<1>2. CASE mode_callback
  <2>1. cmd_mode # <<>> /\ Head(cmd_mode) \in Known \cup Unknown
        /\ Tail(cmd_mode) \in Seq(Known \cup Unknown)
    BY <1>2 DEF mode_callback
  <2>2. CASE Head(cmd_mode) \in Known
    <3>1. /\ cmd_mode' = Tail(cmd_mode) /\ current_mode_' = Head(cmd_mode)
          /\ waiting' = TRUE /\ taken' = taken + 1 /\ UNCHANGED <<goals, cmd_vel_mode>>
      BY <1>2, <2>2 DEF mode_callback, Take
    <3>2. \A g \in 1 .. Len(goals) : goals[g].number \in Nat
      <4>1. \A g \in 1 .. Len(goals) : goals[g] \in Goal
        OBVIOUS
      <4> QED
        BY <4>1 DEF Goal
    <3>3. \A g \in 1 .. Len(goals) : goals[g].number < taken + 1
      BY <3>2 DEF LatestGoalIsOfModeKept
    <3>4. LatestGoalIsOfModeKept'
      BY <3>1, <3>2, <3>3 DEF LatestGoalIsOfModeKept
    <3> QED
      BY <2>1, <2>2, <3>1, <3>4 DEF LatestArrivalReportsItsMode
  <2>3. CASE Head(cmd_mode) \notin Known
    BY <1>2, <2>1, <2>3 DEF mode_callback, Take, LatestGoalIsOfModeKept,
       LatestArrivalReportsItsMode
  <2> QED
    BY <2>2, <2>3
<1>3. CASE send_nav_goal
  <2> DEFINE goal == [mode |-> current_mode_, number |-> taken, state |-> "sent"]
  <2>1. goal \in Goal
    BY DEF Goal, State
  <2>2. goals' = Append(goals, goal) /\ goals' \in Seq(Goal)
    BY <1>3, <2>1 DEF send_nav_goal
  <2>3. LatestGoalIsOfModeKept'
    BY <1>3, <2>2 DEF send_nav_goal, LatestGoalIsOfModeKept, Goal
  <2> QED
    BY <1>3, <2>2, <2>3 DEF send_nav_goal, LatestArrivalReportsItsMode
<1>4. CASE NotReady
  BY <1>4 DEF NotReady, LatestGoalIsOfModeKept, LatestArrivalReportsItsMode
<1>5. ASSUME NEW g \in DOMAIN goals, result_callback(g) PROVE NInv'
  <2>1. g \in 1 .. Len(goals) /\ "answered" \in State
    BY DEF State
  <2>2. /\ goals' \in Seq(Goal) /\ Len(goals') = Len(goals)
        /\ \A i \in 1 .. Len(goals) : /\ goals'[i].mode = goals[i].mode
                                      /\ goals'[i].number = goals[i].number
    BY <1>5, <2>1, StateChange DEF result_callback, Answer
  <2>3. LatestArrivalReportsItsMode'
    BY <1>5, <2>1 DEF result_callback, Answer, LatestGoalIsOfModeKept,
       LatestArrivalReportsItsMode
  <2> QED
    BY <1>5, <2>2, <2>3 DEF result_callback, Answer, LatestGoalIsOfModeKept
<1>6. ASSUME NEW g \in DOMAIN goals, Accept(g) PROVE NInv'
  <2> DEFINE states == [i \in DOMAIN goals |->
             IF i = g THEN [goals[i] EXCEPT !.state = "active"]
             ELSE IF goals[i].state = "active" THEN [goals[i] EXCEPT !.state = "aborted"]
             ELSE goals[i]]
  <2>1. ASSUME NEW i \in 1 .. Len(goals)
        PROVE  /\ states[i] \in Goal
               /\ states[i].mode = goals[i].mode /\ states[i].number = goals[i].number
    <3>1. goals[i] \in Goal
      OBVIOUS
    <3>2. states[i] \in {[goals[i] EXCEPT !.state = "active"],
                        [goals[i] EXCEPT !.state = "aborted"], goals[i]}
      OBVIOUS
    <3> HIDE DEF states
    <3> QED
      BY <3>1, <3>2 DEF Goal, State, Ended
  <2>2. states \in Seq(Goal) /\ Len(states) = Len(goals)
    <3>1. states = [i \in 1 .. Len(goals) |-> states[i]]
      OBVIOUS
    <3> HIDE DEF states
    <3> QED
      BY <2>1, <3>1
  <2>3. Nav2(states)
    BY <1>6 DEF Accept
  <2> HIDE DEF states
  <2> QED
    BY <2>1, <2>2, <2>3, Nav2Keeps
<1>7. ASSUME NEW g \in DOMAIN goals, NEW state \in State,
             Nav2([goals EXCEPT ![g].state = state])
      PROVE  NInv'
  <2> DEFINE states == [goals EXCEPT ![g].state = state]
  <2>1. /\ states \in Seq(Goal) /\ Len(states) = Len(goals)
        /\ \A i \in 1 .. Len(goals) : /\ states[i].mode = goals[i].mode
                                      /\ states[i].number = goals[i].number
    BY StateChange
  <2>2. Nav2(states)
    BY <1>7
  <2> HIDE DEF states
  <2> QED
    BY <2>1, <2>2, Nav2Keeps
<1>8. CASE UNCHANGED vars
  BY <1>8 DEF vars, LatestGoalIsOfModeKept, LatestArrivalReportsItsMode
<1>9. \A g \in DOMAIN goals : Reject(g) => NInv'
  BY <1>7 DEF Reject, State
<1>10. \A g \in DOMAIN goals : \A how \in Ended : End(g, how) => NInv'
  BY <1>7 DEF End, State
<1> QED
  BY <1>1, <1>2, <1>3, <1>4, <1>5, <1>6, <1>8, <1>9, <1>10 DEF Next

\* An arrival at the waypoint of the mode taken last is reported as that mode.
THEOREM LatestArrival == Spec => []LatestArrivalReportsItsMode
<1>1. NInv => LatestArrivalReportsItsMode
  BY DEF NInv
<1> QED
  BY NInvInit, NInvStep, <1>1, PTL DEF Spec

------------------------------------------------------------------------------
(***************************************************************************)
(* Where the robot may get.                                                *)
(***************************************************************************)
\* The cells that can ever be reached are surrounded on every costmap: no free cell touches
\* them, and no leg through a free one of them cuts a corner that lies outside.
LEMMA EverReachableIsSurrounded ==
  /\ Place[0] \in EverReachable /\ EverReachable \in SUBSET Cells
  /\ \A costmap \in Costmaps : Surrounded(costmap, EverReachable)
<1> DEFINE Held == {C \in SUBSET Cells : Holds(C)}
<1>1. \A c : c \in EverReachable <=> c \in Cells /\ \A C \in Held : c \in C
  BY DEF EverReachable
<1>2. \A C \in Held : Place[0] \in C /\ \A d \in C, c \in Cells : MayGet(d, c) => c \in C
  BY DEF Holds
<1> HIDE DEF Held
<1>3. Place[0] \in EverReachable /\ EverReachable \in SUBSET Cells
  BY <1>1, <1>2, StackAssumption
<1>4. \A d \in EverReachable, c \in Cells : MayGet(d, c) => c \in EverReachable
  BY <1>1, <1>2
<1>5. ASSUME NEW costmap \in Costmaps PROVE Surrounded(costmap, EverReachable)
  <2>1. \A c : Free(costmap, c) => EverFree(c)
    BY DEF EverFree
  <2>2. Enclosed(costmap, EverReachable)
    BY <1>4, <2>1 DEF MayGet, Enclosed
  <2>3. \A d \in EverReachable, c \in Cells :
          Free(costmap, d) /\ Beside(c, d) => c \in EverReachable
    BY <1>4, <2>1 DEF MayGet
  <2> QED
    BY <1>3, <2>2, <2>3 DEF Surrounded
<1> QED
  BY <1>3, <1>5

\* One goal at most is driven to.
OneIsActive ==
  \A g, h \in 1 .. Len(goals) :
    goals[g].state = "active" /\ goals[h].state = "active" => g = h

\* The plan was asked for before any goal was driven to, or leads from a place that can be
\* reached to the waypoint of the goal that is.
PlanIsOfActiveGoal ==
  \/ plan = NoPlan
  \/ /\ \E r \in Asked : plan = Plan(r.costmap, r.start, r.goal)
     /\ \A g \in 1 .. Len(goals) : goals[g].state # "active"
  \/ \E g \in 1 .. Len(goals), costmap \in Costmaps, start \in EverReachable :
       goals[g].state = "active" /\ plan = Plan(costmap, start, Place[goals[g].mode])

\* Nav2 reports success only where the robot can get.
SuccessIsReachable ==
  \A g \in 1 .. Len(goals) :
    goals[g].state = "succeeded" => Place[goals[g].mode] \in EverReachable

SInv ==
  /\ NInv /\ robot \in EverReachable
  /\ OneIsActive /\ PlanIsOfActiveGoal /\ SuccessIsReachable /\ ArrivalsAreReachable

\* A plan that was made for some costmap from a cell is right.
LEMMA PlanRight ==
  ASSUME NEW costmap \in Costmap, NEW start \in Cells, NEW goal,
         plan = Plan(costmap, start, goal)
  PROVE  /\ plan.costmap = costmap /\ plan.start = start /\ plan.goal = goal
         /\ RightPlan(costmap, start, goal, plan.corners)
         /\ PlansAreRight
<1>1. /\ plan.costmap = costmap /\ plan.start = start /\ plan.goal = goal
      /\ plan.corners = createPlan(costmap, start, goal)
  BY DEF Plan
<1>2. RightPlan(costmap, start, goal, plan.corners)
  BY <1>1, createPlanIsRight
<1>3. PlanFoundIffReachable
  BY <1>1, <1>2, Zenon DEF PlanFoundIffReachable, RightPlan
<1>4. PlanIsClear
  <2>1. \A i \in 1 .. Len(plan.corners) - 1 :
          ClearLeg(costmap, plan.corners[i], plan.corners[i + 1])
    BY <1>2, Zenon DEF RightPlan
  <2> QED
    BY <1>1, <2>1, Zenon DEF PlanIsClear, ClearLeg
<1> QED
  BY <1>1, <1>2, <1>3, <1>4 DEF PlansAreRight

\* So every plan is.
LEMMA PlansRight == SInv => PlansAreRight
<1> SUFFICES ASSUME SInv PROVE PlansAreRight
  OBVIOUS
<1>1. CASE plan = NoPlan
  <2>1. plan.corners = <<>> /\ Len(plan.corners) = 0
    BY <1>1 DEF NoPlan, NoPath
  <2>2. PlanIsClear
    BY <2>1 DEF PlanIsClear
  <2> QED
    BY <1>1, <2>2 DEF PlansAreRight, PlanFoundIffReachable
<1>2. CASE \E r \in Asked : plan = Plan(r.costmap, r.start, r.goal)
  <2>1. PICK r \in Asked : plan = Plan(r.costmap, r.start, r.goal)
    BY <1>2
  <2>2. r.costmap \in Costmap /\ r.start \in Cells
    BY StackAssumption DEF Costmap
  <2> QED
    BY <2>1, <2>2, PlanRight
<1>3. CASE \E g \in 1 .. Len(goals), costmap \in Costmaps, start \in EverReachable :
             goals[g].state = "active" /\ plan = Plan(costmap, start, Place[goals[g].mode])
  <2>1. PICK g \in 1 .. Len(goals), costmap \in Costmaps, start \in EverReachable :
          plan = Plan(costmap, start, Place[goals[g].mode])
    BY <1>3
  <2>2. costmap \in Costmap /\ start \in Cells
    BY StackAssumption, EverReachableIsSurrounded DEF Costmap
  <2> QED
    BY <2>1, <2>2, PlanRight
<1> QED
  BY <1>1, <1>2, <1>3 DEF SInv, PlanIsOfActiveGoal

------------------------------------------------------------------------------
(***************************************************************************)
(* Navigation as a whole.                                                  *)
(***************************************************************************)
\* The robot starts at the first waypoint, with no goal.
LEMMA SInvInit == StackInit => SInv
<1> SUFFICES ASSUME StackInit PROVE SInv
  OBVIOUS
<1>1. Init /\ robot = Place[0] /\ goals = <<>> /\ Len(goals) = 0
      /\ cmd_vel_mode.of = 0
      /\ plan \in {NoPlan} \cup {Plan(r.costmap, r.start, r.goal) : r \in Asked}
  BY DEF StackInit, Init, NoMode
<1>2. NInv
  BY <1>1, NInvInit
<1>3. robot \in EverReachable /\ ArrivalsAreReachable
  BY <1>1, EverReachableIsSurrounded DEF ArrivalsAreReachable
<1>4. OneIsActive /\ SuccessIsReachable
  BY <1>1 DEF OneIsActive, SuccessIsReachable
<1>5. PlanIsOfActiveGoal
  BY <1>1 DEF PlanIsOfActiveGoal
<1> QED
  BY <1>2, <1>3, <1>4, <1>5 DEF SInv

\* Every step is one of the manager and Nav2, or leaves their state alone.
LEMMA StackStepIsNavStep == [StackNext]_stackVars => [Next]_vars
<1>1. StackNext => [Next]_vars
  <2>1. Manage => Next
    BY DEF Manage, Next
  <2>2. ASSUME NEW g \in DOMAIN goals
        PROVE  /\ AcceptGoal(g) => Next
               /\ PlanPath(g) \/ Drive(g) => UNCHANGED vars
               /\ Arrive(g) \/ GiveUp(g) => Next
    BY DEF AcceptGoal, PlanPath, Drive, Arrive, GiveUp, Next, Ended
  <2> QED
    BY <2>1, <2>2 DEF StackNext
<1>2. UNCHANGED stackVars => UNCHANGED vars
  BY DEF stackVars
<1> QED
  BY <1>1, <1>2

\* The manager's actions neither make a goal active nor end one, and what is published is
\* the mode of a goal that had succeeded.
Quiet ==
  /\ \A h \in 1 .. Len(goals') :
       goals'[h].state \in {"active", "succeeded"} =>
         /\ h \in 1 .. Len(goals)
         /\ goals[h].state = goals'[h].state /\ goals[h].mode = goals'[h].mode
  /\ \A h \in 1 .. Len(goals) :
       goals[h].state = "active" =>
         /\ h \in 1 .. Len(goals')
         /\ goals'[h].state = "active" /\ goals'[h].mode = goals[h].mode
  /\ \/ cmd_vel_mode'.of = cmd_vel_mode.of
     \/ \E g \in 1 .. Len(goals) :
          goals[g].state = "succeeded" /\ cmd_vel_mode'.of = goals[g].mode

LEMMA ManageIsQuiet ==
  ASSUME NInv, Manage
  PROVE  Quiet
<1>1. goals \in Seq(Goal) /\ Len(goals) \in Nat /\ DOMAIN goals = 1 .. Len(goals)
  BY DEF NInv, NTypes
<1>2. ASSUME goals' = goals, cmd_vel_mode' = cmd_vel_mode PROVE Quiet
  BY <1>2 DEF Quiet
<1>3. ASSUME NEW mode \in Known \cup Unknown, Command(mode) PROVE Quiet
  BY <1>2, <1>3 DEF Command
<1>4. CASE mode_callback
  BY <1>2, <1>4 DEF mode_callback, Take
<1>5. CASE NotReady
  BY <1>2, <1>5 DEF NotReady
<1>6. CASE send_nav_goal
  <2> DEFINE goal == [mode |-> current_mode_, number |-> taken, state |-> "sent"]
  <2>1. /\ goals' = Append(goals, goal) /\ cmd_vel_mode' = cmd_vel_mode
        /\ goal.state = "sent"
    BY <1>6 DEF send_nav_goal
  <2> HIDE DEF goal
  <2>2. /\ Len(goals') = Len(goals) + 1 /\ goals'[Len(goals) + 1] = goal
        /\ \A h \in 1 .. Len(goals) : goals'[h] = goals[h]
    BY <1>1, <2>1
  <2>3. \A h \in 1 .. Len(goals') : h \in 1 .. Len(goals) \/ h = Len(goals) + 1
    BY <1>1, <2>2
  <2>4. \A h \in 1 .. Len(goals) : h \in 1 .. Len(goals')
    BY <1>1, <2>2
  <2> QED
    BY <2>1, <2>2, <2>3, <2>4, Zenon DEF Quiet
<1>7. ASSUME NEW g \in DOMAIN goals, NEW state \in State \ {"active", "succeeded"},
             goals[g].state # "active", goals' = [goals EXCEPT ![g].state = state],
             \/ cmd_vel_mode' = cmd_vel_mode
             \/ goals[g].state = "succeeded" /\ cmd_vel_mode'.of = goals[g].mode
      PROVE  Quiet
  <2>1. Len(goals') = Len(goals) /\ \A h \in 1 .. Len(goals) : h # g => goals'[h] = goals[h]
    BY <1>1, <1>7
  <2>2. goals[g] \in Goal /\ g \in 1 .. Len(goals)
    BY <1>1
  <2>3. goals'[g] = [goals[g] EXCEPT !.state = state]
    BY <1>1, <1>7
  <2>4. goals'[g].state = state
    BY <2>2, <2>3 DEF Goal
  <2>5. goals'[g].state \notin {"active", "succeeded"}
    BY <2>4
  <2>6. \A h \in 1 .. Len(goals) : h = g \/ goals'[h] = goals[h]
    BY <2>1
  <2> QED
    BY <1>7, <2>1, <2>2, <2>5, <2>6, Zenon DEF Quiet
<1>8. ASSUME NEW g \in DOMAIN goals, result_callback(g) PROVE Quiet
  <2>1. /\ goals[g].state \in Ended /\ goals' = [goals EXCEPT ![g].state = "answered"]
        /\ \/ cmd_vel_mode' = cmd_vel_mode
           \/ goals[g].state = "succeeded" /\ cmd_vel_mode'.of = goals[g].mode
    BY <1>8 DEF result_callback, Answer
  <2>2. goals[g].state # "active" /\ "answered" \in State \ {"active", "succeeded"}
    BY <2>1 DEF Ended, State
  <2> QED
    BY <1>7, <2>1, <2>2
<1>9. ASSUME NEW g \in DOMAIN goals, Reject(g) PROVE Quiet
  <2>1. /\ goals[g].state = "sent" /\ goals' = [goals EXCEPT ![g].state = "rejected"]
        /\ cmd_vel_mode' = cmd_vel_mode
    BY <1>9 DEF Reject, Nav2
  <2>2. goals[g].state # "active" /\ "rejected" \in State \ {"active", "succeeded"}
    BY <2>1 DEF State
  <2> QED
    BY <1>7, <2>1, <2>2
<1> QED
  BY <1>3, <1>4, <1>5, <1>6, <1>8, <1>9 DEF Manage

\* So they keep what holds of plans and arrivals.
LEMMA ManageKeeps ==
  ASSUME SInv, Manage
  PROVE  /\ robot' \in EverReachable
         /\ OneIsActive' /\ PlanIsOfActiveGoal' /\ SuccessIsReachable' /\ ArrivalsAreReachable'
<1>1. Quiet
  BY ManageIsQuiet DEF SInv
<1>2. robot' = robot /\ robot \in EverReachable
  BY DEF Manage, Stay, SInv
<1>3. OneIsActive'
  BY <1>1, Zenon DEF Quiet, OneIsActive, SInv
<1>4. SuccessIsReachable'
  BY <1>1, Zenon DEF Quiet, SuccessIsReachable, SInv
<1>5. ArrivalsAreReachable'
  <2>1. /\ Place[cmd_vel_mode.of] \in EverReachable
        /\ \A g \in 1 .. Len(goals) :
             goals[g].state = "succeeded" => Place[goals[g].mode] \in EverReachable
    BY DEF SInv, ArrivalsAreReachable, SuccessIsReachable
  <2>2. Place[cmd_vel_mode'.of] \in EverReachable
    BY <1>1, <2>1 DEF Quiet
  <2> QED
    BY <2>2 DEF ArrivalsAreReachable
<1>6. PlanIsOfActiveGoal'
  <2>1. CASE plan' = NoPlan
    BY <2>1 DEF PlanIsOfActiveGoal
  <2>2. CASE plan' # NoPlan
    <3>1. plan' = plan /\ \E g \in 1 .. Len(goals) : goals[g].state = "active"
      <4>1. DOMAIN goals = 1 .. Len(goals)
        BY DEF SInv, NInv, NTypes
      <4> QED
        BY <2>2, <4>1, Zenon DEF Manage, Stay
    <3>2. PICK g \in 1 .. Len(goals), costmap \in Costmaps, start \in EverReachable :
            goals[g].state = "active" /\ plan = Plan(costmap, start, Place[goals[g].mode])
      BY <2>2, <3>1, Zenon DEF SInv, PlanIsOfActiveGoal
    <3>3. /\ g \in 1 .. Len(goals') /\ goals'[g].state = "active"
          /\ goals'[g].mode = goals[g].mode
      BY <1>1, <3>2, Zenon DEF Quiet
    <3>4. plan' = Plan(costmap, start, Place[goals'[g].mode])
      BY <3>1, <3>2, <3>3
    <3>5. \E g_ \in 1 .. Len(goals'), costmap_ \in Costmaps, start_ \in EverReachable :
            goals'[g_].state = "active" /\ plan' = Plan(costmap_, start_, Place[goals'[g_].mode])
      BY <3>2, <3>3, <3>4, Zenon
    <3> QED
      BY <3>5 DEF PlanIsOfActiveGoal
  <2> QED
    BY <2>1, <2>2
<1> QED
  BY <1>2, <1>3, <1>4, <1>5, <1>6

\* While a goal is driven to along a plan, the plan is that goal's.
LEMMA PlanOfGoal ==
  ASSUME SInv, NEW g \in 1 .. Len(goals), goals[g].state = "active", plan.corners # NoPath
  PROVE  /\ plan.goal = Place[goals[g].mode]
         /\ Poses(plan.corners) \subseteq EverReachable
<1>1. plan # NoPlan
  BY DEF NoPlan
<1>2. PICK h \in 1 .. Len(goals), costmap \in Costmaps, start \in EverReachable :
        goals[h].state = "active" /\ plan = Plan(costmap, start, Place[goals[h].mode])
  BY <1>1, Zenon DEF SInv, PlanIsOfActiveGoal
<1>3. h = g
  BY <1>2 DEF SInv, OneIsActive
<1>4. costmap \in Costmap /\ start \in Cells /\ Surrounded(costmap, EverReachable)
  BY StackAssumption, EverReachableIsSurrounded DEF Costmap
<1> DEFINE goal == Place[goals[g].mode]
<1>5. plan.goal = goal /\ RightPlan(costmap, start, goal, plan.corners)
  BY <1>2, <1>3, <1>4, PlanRight
<1> HIDE DEF goal
<1>6. Poses(plan.corners) \subseteq EverReachable
  BY <1>4, <1>5, PosesStay
<1> QED
  BY <1>5, <1>6 DEF goal

\* When one goal's state is replaced, the others' stay as they are.
LEMMA GoalEnds ==
  ASSUME SInv, NEW g \in DOMAIN goals, NEW how \in Ended, End(g, how),
         how = "succeeded" => Place[goals[g].mode] \in EverReachable, plan' = NoPlan
  PROVE  OneIsActive' /\ PlanIsOfActiveGoal' /\ SuccessIsReachable' /\ ArrivalsAreReachable'
<1>1. /\ goals \in Seq(Goal) /\ Len(goals) \in Nat /\ g \in 1 .. Len(goals)
      /\ goals' = [goals EXCEPT ![g].state = how] /\ cmd_vel_mode' = cmd_vel_mode
  BY DEF SInv, NInv, NTypes, End, Nav2
<1>2. /\ Len(goals') = Len(goals)
      /\ \A h \in 1 .. Len(goals) : h = g \/ goals'[h] = goals[h]
  BY <1>1
<1>3. goals'[g].state = how /\ goals'[g].mode = goals[g].mode
  <2>1. goals[g] \in Goal
    BY <1>1
  <2>2. goals'[g] = [goals[g] EXCEPT !.state = how]
    BY <1>1
  <2> QED
    BY <2>1, <2>2 DEF Goal
<1>4. how # "active"
  BY DEF Ended
<1>5. OneIsActive'
  BY <1>2, <1>3, <1>4, Zenon DEF OneIsActive, SInv
<1>6. SuccessIsReachable'
  BY <1>2, <1>3, Zenon DEF SuccessIsReachable, SInv
<1>7. PlanIsOfActiveGoal'
  BY DEF PlanIsOfActiveGoal
<1>8. ArrivalsAreReachable'
  BY <1>1 DEF ArrivalsAreReachable, SInv
<1> QED
  BY <1>5, <1>6, <1>7, <1>8

\* Every step keeps the invariant.
LEMMA SInvStep == SInv /\ [StackNext]_stackVars => SInv'
<1> SUFFICES ASSUME SInv, [StackNext]_stackVars PROVE SInv'
  OBVIOUS
<1>1. NInv'
  BY StackStepIsNavStep, NInvStep DEF SInv
<1>2. goals \in Seq(Goal) /\ Len(goals) \in Nat /\ DOMAIN goals = 1 .. Len(goals)
  BY DEF SInv, NInv, NTypes
<1>3. CASE Manage
  BY <1>1, <1>3, ManageKeeps DEF SInv
<1>4. ASSUME NEW g \in DOMAIN goals, AcceptGoal(g) PROVE SInv'
  <2>1. /\ goals' = [i \in DOMAIN goals |->
             IF i = g THEN [goals[i] EXCEPT !.state = "active"]
             ELSE IF goals[i].state = "active" THEN [goals[i] EXCEPT !.state = "aborted"]
             ELSE goals[i]]
        /\ cmd_vel_mode' = cmd_vel_mode /\ plan' = NoPlan /\ robot' = robot
    BY <1>4 DEF AcceptGoal, Accept, Nav2
  <2>2. Len(goals') = Len(goals) /\ DOMAIN goals' = 1 .. Len(goals)
    <3>1. DOMAIN goals' = 1 .. Len(goals)
      BY <1>2, <2>1
    <3>2. Len(goals') \in Nat /\ DOMAIN goals' = 1 .. Len(goals')
      BY <1>1 DEF NInv, NTypes
    <3> QED
      BY <1>2, <3>1, <3>2
  <2>3. ASSUME NEW h \in 1 .. Len(goals)
        PROVE  /\ goals'[h].state = "active" => h = g
               /\ goals'[h].state = "succeeded" =>
                    goals[h].state = "succeeded" /\ goals'[h].mode = goals[h].mode
    <3>1. goals[h] \in Goal
      BY <1>2
    <3>2. CASE h = g
      <4>1. goals'[h] = [goals[h] EXCEPT !.state = "active"]
        BY <1>2, <2>1, <3>2
      <4>2. goals'[h].state = "active"
        BY <3>1, <4>1 DEF Goal
      <4> QED
        BY <3>2, <4>2
    <3>3. CASE h # g /\ goals[h].state = "active"
      <4>1. goals'[h] = [goals[h] EXCEPT !.state = "aborted"]
        BY <1>2, <2>1, <3>3
      <4>2. goals'[h].state = "aborted"
        BY <3>1, <4>1 DEF Goal
      <4> QED
        BY <4>2
    <3>4. CASE h # g /\ goals[h].state # "active"
      <4>1. goals'[h] = goals[h]
        BY <1>2, <2>1, <3>4
      <4> QED
        BY <3>4, <4>1
    <3> QED
      BY <3>2, <3>3, <3>4
  <2>4. OneIsActive'
    BY <2>2, <2>3, Zenon DEF OneIsActive
  <2>5. SuccessIsReachable'
    BY <2>2, <2>3, Zenon DEF SuccessIsReachable, SInv
  <2>6. PlanIsOfActiveGoal'
    BY <2>1 DEF PlanIsOfActiveGoal
  <2>7. ArrivalsAreReachable' /\ robot' \in EverReachable
    BY <2>1 DEF ArrivalsAreReachable, SInv
  <2> QED
    BY <1>1, <2>4, <2>5, <2>6, <2>7 DEF SInv
<1>5. ASSUME NEW g \in DOMAIN goals, PlanPath(g) PROVE SInv'
  <2>1. PICK costmap \in Costmaps : plan' = Plan(costmap, robot, Place[goals[g].mode])
    BY <1>5 DEF PlanPath
  <2>2. /\ goals' = goals /\ cmd_vel_mode' = cmd_vel_mode /\ robot' = robot
        /\ goals[g].state = "active" /\ g \in 1 .. Len(goals) /\ robot \in EverReachable
    BY <1>2, <1>5 DEF PlanPath, vars, SInv
  <2>3. \E g_ \in 1 .. Len(goals), costmap_ \in Costmaps, start_ \in EverReachable :
          goals[g_].state = "active" /\ plan' = Plan(costmap_, start_, Place[goals[g_].mode])
    BY <2>1, <2>2, Zenon
  <2>4. PlanIsOfActiveGoal'
    BY <2>2, <2>3 DEF PlanIsOfActiveGoal
  <2>5. OneIsActive' /\ SuccessIsReachable' /\ ArrivalsAreReachable' /\ robot' \in EverReachable
    BY <2>2 DEF OneIsActive, SuccessIsReachable, ArrivalsAreReachable, SInv
  <2> QED
    BY <1>1, <2>4, <2>5 DEF SInv
<1>6. ASSUME NEW g \in DOMAIN goals, Drive(g) PROVE SInv'
  <2>1. /\ goals' = goals /\ cmd_vel_mode' = cmd_vel_mode /\ plan' = plan
        /\ goals[g].state = "active" /\ g \in 1 .. Len(goals) /\ plan.corners # NoPath
        /\ robot' \in Poses(plan.corners)
    BY <1>2, <1>6 DEF Drive, vars
  <2>2. robot' \in EverReachable
    BY <2>1, PlanOfGoal
  <2>3. OneIsActive' /\ PlanIsOfActiveGoal' /\ SuccessIsReachable' /\ ArrivalsAreReachable'
    BY <2>1 DEF OneIsActive, PlanIsOfActiveGoal, SuccessIsReachable, ArrivalsAreReachable, SInv
  <2> QED
    BY <1>1, <2>2, <2>3 DEF SInv
<1>7. ASSUME NEW g \in DOMAIN goals, Arrive(g) PROVE SInv'
  <2>1. /\ End(g, "succeeded") /\ goals[g].state = "active" /\ plan.corners # NoPath
        /\ robot = plan.goal /\ plan' = NoPlan /\ robot' = robot /\ robot \in EverReachable
        /\ g \in 1 .. Len(goals) /\ "succeeded" \in Ended
    BY <1>2, <1>7 DEF Arrive, End, Ended, SInv
  <2>2. Place[goals[g].mode] \in EverReachable
    BY <2>1, PlanOfGoal
  <2>3. OneIsActive' /\ PlanIsOfActiveGoal' /\ SuccessIsReachable' /\ ArrivalsAreReachable'
    BY <2>1, <2>2, GoalEnds
  <2> QED
    BY <1>1, <2>1, <2>3 DEF SInv
<1>8. ASSUME NEW g \in DOMAIN goals, GiveUp(g) PROVE SInv'
  <2>1. /\ plan' = NoPlan /\ robot' = robot /\ robot \in EverReachable
        /\ \E how \in {"aborted", "canceled"} : End(g, how)
    BY <1>8 DEF GiveUp, SInv
  <2>2. PICK how \in Ended : End(g, how) /\ how # "succeeded"
    BY <2>1 DEF Ended
  <2>3. OneIsActive' /\ PlanIsOfActiveGoal' /\ SuccessIsReachable' /\ ArrivalsAreReachable'
    BY <2>1, <2>2, GoalEnds
  <2> QED
    BY <1>1, <2>1, <2>3 DEF SInv
<1>9. CASE UNCHANGED stackVars
  BY <1>1, <1>9 DEF stackVars, vars, SInv, OneIsActive, PlanIsOfActiveGoal, SuccessIsReachable,
     ArrivalsAreReachable
<1> QED
  BY <1>3, <1>4, <1>5, <1>6, <1>7, <1>8, <1>9 DEF StackNext

LEMMA StackInvariant == StackSpec => []SInv
  BY SInvInit, SInvStep, PTL DEF StackSpec

\* The planner gives a plan exactly when the goal can be reached, from the start to the
\* goal, for every request that is made of it; each leg leads to a free cell that touches,
\* or in every column that it touches passes nearest to a clear cell.
THEOREM PlansRightAlways == StackSpec => []PlansAreRight
  BY StackInvariant, PlansRight, PTL

\* An arrival is only reported at a waypoint that can be reached from the start, whichever
\* of the cells that its plans touched the robot planned anew from; cut corners count as
\* ways, so only obstacles two cells thick part places.
THEOREM ArrivalsReachable == StackSpec => []ArrivalsAreReachable
<1>1. SInv => ArrivalsAreReachable
  BY DEF SInv
<1> QED
  BY StackInvariant, <1>1, PTL

\* Navigation as a whole does with the manager and the goals only what the manager's own
\* specification allows, and so reports the latest arrival as its mode too.
THEOREM StackImplementsManager == StackSpec => Spec /\ []LatestArrivalReportsItsMode
<1>1. StackInit => Init
  BY DEF StackInit
<1> QED
  BY <1>1, StackStepIsNavStep, LatestArrival, PTL DEF StackSpec, Spec

------------------------------------------------------------------------------
(***************************************************************************)
(* Localisation: what GlobalLocalization promises about the transform, for *)
(* any places, any number of initial poses and scans and any length of the *)
(* queue.                                                                  *)
(***************************************************************************)
\* A result stays at the place of its guess, and one that will be trusted has fitted.
ResultFollowsGuess ==
  /\ Storing => result.place = guess.place
  /\ pc = "store" => result.from = "good"
  /\ pc = "init_store" /\ count_success >= 2 => result.from = "good"

\* From the end of the initialisation on the transform is trusted.
TrustedSinceInit ==
  /\ loc_initialized_ => pc \in {"loop", "scan", "lock", "register", "store", "done"}
  /\ (loc_initialized_ \/ pc = "initialized") /\ ok =>
       mat_odom2map_.from = "good" \/ mat_odom2map_ = Given(updated)

\* An initial pose is as it was given, and the one last taken unless another waits.
InitialPoseIsGiven ==
  /\ mat_initialpose_ = Given(mat_initialpose_.place)
  /\ updated # "none" /\ cb # "initialpose" => mat_initialpose_.place = updated

Flags == {ok, loc_initialized_} \subseteq BOOLEAN /\ count_success \in Nat

LInv ==
  /\ Flags
  /\ RegistrationBuildsOnItsGuess
  /\ ResultFollowsGuess
  /\ TrustedSinceInit
  /\ InitialPoseIsGiven

\* Without an initial pose during the copy, what is copied is what was configured or given.
CopyIsUndisturbed == pc = "copying" => cb # "initialpose" /\ guess = mat_initialpose_

UInv == LInv /\ CopyIsUndisturbed /\ UserPoseIsKept

USE DEF Storing, Locked

\* The invariant holds at first: thread_loc_ has not started on the transform.
LEMMA LInvInit == LocInit => LInv
<1> SUFFICES ASSUME LocInit PROVE LInv
  OBVIOUS
<1>1. /\ pc = "wait_odometry" /\ loc_initialized_ = FALSE /\ updated = "none"
      /\ mat_initialpose_ = Given("config") /\ ok = TRUE /\ count_success = 0
  BY DEF LocInit
<1> QED
  BY <1>1 DEF LInv, Flags, RegistrationBuildsOnItsGuess, ResultFollowsGuess, TrustedSinceInit,
              InitialPoseIsGiven, Given

\* Every step of the callbacks and of thread_loc_ preserves it.
LEMMA LInvStep == LInv /\ [LocNext]_nodeVars => LInv'
<1> SUFFICES ASSUME LInv, [LocNext]_nodeVars PROVE LInv'
  OBVIOUS
<1> USE DEF LInv, Flags, RegistrationBuildsOnItsGuess, ResultFollowsGuess, TrustedSinceInit,
            InitialPoseIsGiven
<1>1. CASE OdometryStamp \/ OdometryPose \/ OdometryTransform
  BY <1>1 DEF OdometryStamp, OdometryPose, OdometryTransform, Begin, poseVars, locVars,
              threadVars, userVars
<1>2. CASE ScanQueued \/ ScanClear \/ ScanAppend \/ ScanEnd
  BY <1>2 DEF ScanQueued, ScanClear, ScanAppend, ScanEnd, Begin, poseVars, locVars,
              threadVars, userVars
<1>3. CASE \E place \in UserPlaces : InitialPose(place)
  BY <1>3 DEF InitialPose, Given, locVars, threadVars
<1>4. CASE InitialPoseStore
  BY <1>4 DEF InitialPoseStore, StoreInitialPose, Given, locVars, threadVars
<1>5. CASE Shutdown
  BY <1>5 DEF Shutdown, poseVars, locVars, threadVars, userVars
<1>6. CASE WaitForOdometry \/ WaitForScan \/ Copy
  BY <1>6 DEF WaitForOdometry, WaitForScan, Copy, shared, poseVars, locVars, userVars
<1>7. CASE Copied
  BY <1>7 DEF Copied, OutOfScope, shared, locVars, userVars
<1>8. CASE InitScan \/ Guess("init_lock", "init_register") \/ InitShutdown
  BY <1>8 DEF InitScan, TakeScan, Guess, InitShutdown, shared, poseVars, locVars, userVars
<1>9. CASE \E fitness \in Fitness : InitRegister(fitness)
  <2> PICK fitness \in Fitness : InitRegister(fitness)
    BY <1>9
  <2>1. result'.place = guess.place /\ (fitness # "poor" => result'.from = "good")
    BY DEF InitRegister, Registered
  <2>2. count_success' >= 2 => fitness # "poor"
    BY DEF InitRegister
  <2> QED
    BY <2>1, <2>2 DEF InitRegister, shared, poseVars, locVars, userVars
<1>10. CASE InitStore
  BY <1>10 DEF InitStore, OutOfScope, shared, locVars, userVars
<1>11. CASE Initialized
  BY <1>11 DEF Initialized, shared, poseVars, locVars, userVars
<1>12. CASE NewOdometry \/ Scan \/ Guess("lock", "register") \/ LoopShutdown
  BY <1>12 DEF NewOdometry, Scan, TakeScan, Guess, LoopShutdown, shared, poseVars, locVars,
               userVars
<1>13. CASE \E fitness \in Fitness : Register(fitness)
  BY <1>13 DEF Register, Registered, OutOfScope, shared, poseVars, userVars
<1>14. CASE Store
  BY <1>14 DEF Store, OutOfScope, shared, locVars, userVars
<1>15. CASE UNCHANGED nodeVars
  BY <1>15 DEF nodeVars, poseVars, locVars, threadVars, userVars
<1> QED
  BY <1>1, <1>2, <1>3, <1>4, <1>5, <1>6, <1>7, <1>8, <1>9, <1>10, <1>11, <1>12, <1>13,
     <1>14, <1>15 DEF LocNext, Localization, LocalizationInitialize

\* LInv is an invariant of every behaviour of the node.
THEOREM LocalizationInvariant == LocSpec => []LInv
  BY LInvInit, LInvStep, PTL DEF LocSpec

\* For any parameters, no update of the transform is lost to a registration.
THEOREM NoUpdateIsLost == LocSpec => []RegistrationBuildsOnItsGuess
<1>1. LInv => RegistrationBuildsOnItsGuess
  BY DEF LInv
<1> QED
  BY <1>1, LocalizationInvariant, PTL

\* For any parameters, an initialised node's transform comes from a registration that
\* fitted or from the user.
THEOREM InitializedIsTrusted == LocSpec => []InitializedPoseIsTrusted
<1>1. LInv => InitializedPoseIsTrusted
  BY DEF LInv, TrustedSinceInit, InitializedPoseIsTrusted
<1> QED
  BY <1>1, LocalizationInvariant, PTL

\* The user's pose and the copy of the configured one, where they do not overlap.
LEMMA UInvStep ==
  ASSUME ~PoseDuringCopy PROVE UInv /\ [LocNext]_nodeVars => UInv'
<1> SUFFICES ASSUME UInv, [LocNext]_nodeVars PROVE UInv'
  OBVIOUS
<1>0. LInv' /\ LInv
  BY LInvStep DEF UInv
<1> SUFFICES CopyIsUndisturbed' /\ UserPoseIsKept'
  BY <1>0 DEF UInv
<1> USE DEF UInv, CopyIsUndisturbed, UserPoseIsKept
<1>1. CASE OdometryStamp \/ OdometryPose \/ OdometryTransform
  BY <1>1 DEF OdometryStamp, OdometryPose, OdometryTransform, Begin, poseVars, threadVars,
              userVars
<1>2. CASE ScanQueued \/ ScanClear \/ ScanAppend \/ ScanEnd
  BY <1>2 DEF ScanQueued, ScanClear, ScanAppend, ScanEnd, Begin, poseVars, threadVars,
              userVars
<1>3. CASE \E place \in UserPlaces : InitialPose(place)
  BY <1>3 DEF InitialPose, threadVars
<1>4. CASE InitialPoseStore
  BY <1>4 DEF InitialPoseStore, StoreInitialPose, threadVars
<1>5. CASE Shutdown \/ UNCHANGED nodeVars
  BY <1>5 DEF Shutdown, nodeVars, poseVars, threadVars, userVars
<1>6. CASE WaitForOdometry \/ WaitForScan \/ Copy
  BY <1>6 DEF WaitForOdometry, WaitForScan, Copy, shared, poseVars, userVars
<1>7. CASE Copied
  BY <1>7, <1>0 DEF Copied, LInv, InitialPoseIsGiven, shared, userVars
<1>8. CASE InitScan \/ Guess("init_lock", "init_register") \/ InitShutdown
  BY <1>8 DEF InitScan, TakeScan, Guess, InitShutdown, shared, poseVars, userVars
<1>9. CASE \E fitness \in Fitness : InitRegister(fitness)
  BY <1>9 DEF InitRegister, shared, poseVars, userVars
<1>10. CASE InitStore \/ Store
  BY <1>10, <1>0 DEF InitStore, Store, LInv, RegistrationBuildsOnItsGuess,
                     ResultFollowsGuess, shared, userVars
<1>11. CASE Initialized
  BY <1>11 DEF Initialized, shared, poseVars, userVars
<1>12. CASE NewOdometry \/ Scan \/ Guess("lock", "register") \/ LoopShutdown
  BY <1>12 DEF NewOdometry, Scan, TakeScan, Guess, LoopShutdown, shared, poseVars, userVars
<1>13. CASE \E fitness \in Fitness : Register(fitness)
  BY <1>13 DEF Register, shared, poseVars, userVars
<1> QED
  BY <1>1, <1>2, <1>3, <1>4, <1>5, <1>6, <1>7, <1>8, <1>9, <1>10, <1>11, <1>12, <1>13
     DEF LocNext, Localization, LocalizationInitialize

\* Where no initial pose comes while the configured one is copied, localisation goes on
\* from the pose it has reported as taken.
THEOREM UserPoseStays ==
  ASSUME ~PoseDuringCopy PROVE LocSpec => []UserPoseIsKept
<1>1. LocInit => UInv
  BY LInvInit DEF LocInit, UInv, CopyIsUndisturbed, UserPoseIsKept
<1>2. UInv /\ [LocNext]_nodeVars => UInv'
  BY UInvStep
<1>3. UInv => UserPoseIsKept
  BY DEF UInv
<1> QED
  BY <1>1, <1>2, <1>3, PTL DEF LocSpec
------------------------------------------------------------------------------
(***************************************************************************)
(* The cloud to register.                                                  *)
(***************************************************************************)
\* The queue holds the scans received last.
QueueIsLatest ==
  /\ scans \in Nat
  /\ que_pcd_scan_ \in Seq(Nat) /\ Len(que_pcd_scan_) <= queue_maxsize_
  /\ \A i \in 1 .. Len(que_pcd_scan_) :
       que_pcd_scan_[i] = scans - Len(que_pcd_scan_) + i - 1

\* While a callback fills the cloud it is the front of a full queue, and afterwards whole.
CloudIsOfQueue ==
  /\ pcd_scan_cur_ \in Seq(Nat)
  /\ cb = "scan" =>
       /\ Len(que_pcd_scan_) = queue_maxsize_ /\ Len(pcd_scan_cur_) <= Len(que_pcd_scan_)
       /\ \A i \in 1 .. Len(pcd_scan_cur_) : pcd_scan_cur_[i] = que_pcd_scan_[i]
  /\ cb # "scan" /\ pcd_scan_cur_ # <<>> =>
       /\ Len(pcd_scan_cur_) = queue_maxsize_
       /\ \A i \in 1 .. Len(pcd_scan_cur_) : pcd_scan_cur_[i] = pcd_scan_cur_[1] + i - 1

WInv == QueueIsLatest /\ CloudIsOfQueue /\ ScanIsWhole

LEMMA WInvInit == LocInit => WInv
<1> SUFFICES ASSUME LocInit PROVE WInv
  OBVIOUS
<1>1. que_pcd_scan_ = <<>> /\ pcd_scan_cur_ = <<>> /\ pcd_scan = <<>> /\ scans = 0 /\ cb = "none"
  BY DEF LocInit
<1> QED
  BY <1>1, LocAssumption DEF WInv, QueueIsLatest, CloudIsOfQueue, ScanIsWhole

LEMMA WInvStep == WInv /\ [LocNext]_nodeVars => WInv'
<1> SUFFICES ASSUME WInv, [LocNext]_nodeVars PROVE WInv'
  OBVIOUS
<1> USE LocAssumption DEF WInv
<1>1. ASSUME UNCHANGED <<scanVars, pcd_scan>>, cb' # "scan", cb # "scan"
      PROVE  WInv'
  BY <1>1 DEF scanVars, QueueIsLatest, CloudIsOfQueue, ScanIsWhole
<1>2. ASSUME UNCHANGED <<scanVars, pcd_scan, cb>>
      PROVE  WInv'
  BY <1>2 DEF scanVars, QueueIsLatest, CloudIsOfQueue, ScanIsWhole
<1>3. CASE OdometryStamp \/ OdometryPose \/ OdometryTransform
  BY <1>1, <1>3 DEF OdometryStamp, OdometryPose, OdometryTransform, Begin, threadVars
<1>4. CASE ScanQueued
  <2>1. /\ que_pcd_scan_' = Append(que_pcd_scan_, scans) /\ scans' = scans + 1
        /\ Len(que_pcd_scan_) < queue_maxsize_ /\ UNCHANGED <<pcd_scan_cur_, pcd_scan, cb>>
        /\ cb = "none"
    BY <1>4 DEF ScanQueued, Begin, threadVars
  <2>2. QueueIsLatest'
    BY <2>1 DEF QueueIsLatest
  <2> QED
    BY <2>1, <2>2 DEF CloudIsOfQueue, ScanIsWhole
<1>5. CASE ScanClear
  <2>1. /\ cb' = "scan" /\ pcd_scan_cur_' = <<>> /\ UNCHANGED <<que_pcd_scan_, scans, pcd_scan>>
        /\ Len(que_pcd_scan_) >= queue_maxsize_
    BY <1>5 DEF ScanClear, threadVars
  <2> QED
    BY <2>1 DEF QueueIsLatest, CloudIsOfQueue, ScanIsWhole
<1>6. CASE ScanAppend
  <2>1. /\ cb = "scan" /\ cb' = "scan" /\ Len(pcd_scan_cur_) < Len(que_pcd_scan_)
        /\ pcd_scan_cur_' = Append(pcd_scan_cur_, que_pcd_scan_[Len(pcd_scan_cur_) + 1])
        /\ UNCHANGED <<que_pcd_scan_, scans, pcd_scan>>
    BY <1>6 DEF ScanAppend, threadVars
  <2>2. que_pcd_scan_[Len(pcd_scan_cur_) + 1] \in Nat
    BY <2>1 DEF QueueIsLatest, CloudIsOfQueue
  <2> QED
    BY <2>1, <2>2 DEF QueueIsLatest, CloudIsOfQueue, ScanIsWhole
<1>7. CASE ScanEnd
  <2>1. /\ cb = "scan" /\ cb' = "none" /\ Len(pcd_scan_cur_) = Len(que_pcd_scan_)
        /\ que_pcd_scan_' = Append(Tail(que_pcd_scan_), scans) /\ scans' = scans + 1
        /\ UNCHANGED <<pcd_scan_cur_, pcd_scan>>
    BY <1>7 DEF ScanEnd, threadVars
  <2>2. QueueIsLatest'
    <3>1. /\ Tail(que_pcd_scan_) \in Seq(Nat)
          /\ Len(Tail(que_pcd_scan_)) = Len(que_pcd_scan_) - 1
          /\ \A i \in 1 .. Len(que_pcd_scan_) - 1 :
               Tail(que_pcd_scan_)[i] = que_pcd_scan_[i + 1]
      BY <2>1 DEF QueueIsLatest, CloudIsOfQueue
    <3> QED
      BY <2>1, <3>1 DEF QueueIsLatest, CloudIsOfQueue
  <2>3. CloudIsOfQueue'
    BY <2>1 DEF QueueIsLatest, CloudIsOfQueue
  <2> QED
    BY <2>1, <2>2, <2>3 DEF ScanIsWhole
<1>8. CASE \E place \in UserPlaces : InitialPose(place)
  BY <1>1, <1>8 DEF InitialPose, Begin, threadVars
<1>9. CASE InitialPoseStore
  BY <1>1, <1>9 DEF InitialPoseStore, StoreInitialPose, threadVars
<1>10. CASE Shutdown \/ UNCHANGED nodeVars
  BY <1>2, <1>10 DEF Shutdown, nodeVars, threadVars
<1>11. ASSUME NEW next, TakeScan(next), UNCHANGED <<scanVars, cb>>
       PROVE  WInv'
  BY <1>11 DEF TakeScan, scanVars, QueueIsLatest, CloudIsOfQueue, ScanIsWhole
<1>12. CASE InitScan \/ Scan
  BY <1>11, <1>12 DEF InitScan, Scan, shared
<1>13. CASE WaitForOdometry \/ WaitForScan \/ Copy \/ Copied
  BY <1>2, <1>13 DEF WaitForOdometry, WaitForScan, Copy, Copied, shared
<1>14. CASE \/ Guess("init_lock", "init_register") \/ InitStore \/ InitShutdown
            \/ \E fitness \in Fitness : InitRegister(fitness)
  BY <1>2, <1>14 DEF Guess, InitStore, InitShutdown, InitRegister, shared
<1>15. CASE \/ Initialized \/ NewOdometry \/ Guess("lock", "register") \/ Store \/ LoopShutdown
            \/ \E fitness \in Fitness : Register(fitness)
  BY <1>2, <1>15 DEF Initialized, NewOdometry, Guess, Store, LoopShutdown, Register, shared
<1> QED
  BY <1>3, <1>4, <1>5, <1>6, <1>7, <1>8, <1>9, <1>10, <1>12, <1>13, <1>14, <1>15
     DEF LocNext, Localization, LocalizationInitialize

\* What is registered is queue_maxsize_ scans in a row, however the callback and the
\* thread interleave, for any length of the queue and any number of scans.
THEOREM WholeScansAreRegistered == LocSpec => []ScanIsWhole
<1>1. WInv => ScanIsWhole
  BY DEF WInv
<1> QED
  BY <1>1, WInvInit, WInvStep, PTL DEF LocSpec
==============================================================================
