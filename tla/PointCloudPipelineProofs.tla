----------------------- MODULE PointCloudPipelineProofs -----------------------
(***************************************************************************)
(* Proofs about PointCloudPipeline for any number of lidars, any ring size *)
(* and any index width.                                                    *)
(***************************************************************************)
EXTENDS PointCloudPipeline, FiniteSetTheorems, SequenceTheorems, TLAPS

\* Incrementing a ring index stays in range.
LEMMA IncType == \A i \in Indices : Inc(i) \in Indices
BY PipelineAssumption DEF Inc, Indices

\* The slot an index selects exists.
LEMMA SlotType == \A i \in Indices : SlotOf(i) \in 0 .. Size - 1
BY PipelineAssumption DEF SlotOf, Indices

\* Increment and used size, without the modulus.
LEMMA IncCases == \A i \in Indices : Inc(i) = IF i = IndexRange - 1 THEN 0 ELSE i + 1
BY PipelineAssumption DEF Inc, Indices

LEMMA IncMoves == \A i \in Indices : Inc(i) # i
BY IncCases, PipelineAssumption DEF Indices

LEMMA UsedCases ==
  \A w, r \in Indices : (w - r) % IndexRange = IF w >= r THEN w - r ELSE w - r + IndexRange
BY PipelineAssumption DEF Indices

\* Pushing raises the used size by one and cannot make a ring look empty.
LEMMA PushArithmetic ==
  ASSUME NEW w \in Indices, NEW r \in Indices, (w - r) % IndexRange < Size
  PROVE  (Inc(w) - r) % IndexRange <= Size /\ Inc(w) # r
<1> DEFINE u == (w - r) % IndexRange
           n == Inc(w)
           v == (Inc(w) - r) % IndexRange
<1>1. n \in Indices /\ n = IF w = IndexRange - 1 THEN 0 ELSE w + 1
  BY IncType, IncCases
<1>2. u = IF w >= r THEN w - r ELSE w - r + IndexRange
  BY UsedCases
<1>3. v = IF n >= r THEN n - r ELSE n - r + IndexRange
  BY UsedCases, <1>1
<1> HIDE DEF u, n, v
<1>4. u < Size => v <= Size /\ n # r
  BY <1>1, <1>2, <1>3, PipelineAssumption DEF Indices
<1>. QED BY <1>4 DEF u, n, v

\* Popping from a ring that is not empty does not raise the used size.
LEMMA PopArithmetic ==
  ASSUME NEW w \in Indices, NEW r \in Indices, w # r, (w - r) % IndexRange <= Size
  PROVE  (w - Inc(r)) % IndexRange <= Size
<1> DEFINE u == (w - r) % IndexRange
           n == Inc(r)
           v == (w - Inc(r)) % IndexRange
<1>1. n \in Indices /\ n = IF r = IndexRange - 1 THEN 0 ELSE r + 1
  BY IncType, IncCases
<1>2. u = IF w >= r THEN w - r ELSE w - r + IndexRange
  BY UsedCases
<1>3. v = IF w >= n THEN w - n ELSE w - n + IndexRange
  BY UsedCases, <1>1
<1> HIDE DEF u, n, v
<1>4. u <= Size => v <= Size
  BY <1>1, <1>2, <1>3, PipelineAssumption DEF Indices
<1>. QED BY <1>4 DEF u, n, v

\* Different indices have different successors.
LEMMA IncInjective == \A s, r \in Indices : Inc(s) = Inc(r) => s = r
BY IncCases, PipelineAssumption DEF Indices

\* A popped ring whose index was strictly behind is still below the full mark.
LEMMA PopFreesSlot ==
  ASSUME NEW w \in Indices, NEW r \in Indices, w # r, (w - r) % IndexRange < Size
  PROVE  (w - Inc(r)) % IndexRange < Size
<1> DEFINE u == (w - r) % IndexRange
           n == Inc(r)
           v == (w - Inc(r)) % IndexRange
<1>1. n \in Indices /\ n = IF r = IndexRange - 1 THEN 0 ELSE r + 1
  BY IncType, IncCases
<1>2. u = IF w >= r THEN w - r ELSE w - r + IndexRange
  BY UsedCases
<1>3. v = IF w >= n THEN w - n ELSE w - n + IndexRange
  BY UsedCases, <1>1
<1> HIDE DEF u, n, v
<1>4. u < Size => v < Size
  BY <1>1, <1>2, <1>3, PipelineAssumption DEF Indices
<1>. QED BY <1>4 DEF u, n, v

\* No multiple of S lies strictly between 0 and S.
LEMMA NoMultiple ==
  ASSUME NEW S \in Nat \ {0}, NEW n \in Int, 0 < S * n, S * n < S PROVE FALSE
<1>1. CASE n <= 0
  BY <1>1
<1>2. CASE n >= 1
  BY <1>2
<1>. QED BY <1>1, <1>2

\* Division with remainder.
LEMMA DivMod == \A a \in Nat, S \in Nat \ {0} : /\ a \div S \in Int /\ a % S \in 0 .. S-1
                                                 /\ a = S * (a \div S) + (a % S)
OBVIOUS

\* Two indices less than a ring apart select different slots, because the ring size
\* divides the index range.
LEMMA SlotDistinct ==
  ASSUME NEW w \in Indices, NEW r \in Indices,
         0 < (w - r) % IndexRange, (w - r) % IndexRange < Size
  PROVE  SlotOf(w) # SlotOf(r)
<1> SUFFICES ASSUME w % Size = r % Size PROVE FALSE
  BY DEF SlotOf
<1> DEFINE qw == w \div Size
           qr == r \div Size
           q == IndexRange \div Size
<1>1. w = Size * qw + (w % Size) /\ r = Size * qr + (w % Size) /\ IndexRange = Size * q
  BY DivMod, PipelineAssumption DEF Indices
<1>2. qw \in Int /\ qr \in Int /\ q \in Int /\ w % Size \in Int /\ Size \in Nat \ {0}
  BY DivMod, PipelineAssumption DEF Indices
<1> HIDE DEF qw, qr, q
<1>3. CASE w >= r
  <2>1. (w - r) % IndexRange = Size * (qw - qr)
    BY <1>1, <1>2, <1>3, UsedCases
  <2>. QED BY <2>1, <1>2, NoMultiple
<1>4. CASE w < r
  <2>1. (w - r) % IndexRange = Size * (qw - qr + q)
    BY <1>1, <1>2, <1>4, UsedCases DEF Indices
  <2>. QED BY <2>1, <1>2, NoMultiple
<1>. QED BY <1>3, <1>4 DEF Indices

\* There are finitely many lidars, and so finitely many to store.
LEMMA LidarsFinite == \A S \in SUBSET Lidars : IsFiniteSet(S)
<1>1. IsFiniteSet(Lidars)
  BY PipelineAssumption, FS_Interval DEF Lidars
<1>. QED
  BY <1>1, FS_Subset

\* The initial state satisfies the invariant.
LEMMA InitIInv == Init => IInv
<1> SUFFICES ASSUME Init PROVE IInv
  OBVIOUS
<1>1. TypeOK
  <2>1. Blank \in Packets
    BY PipelineAssumption DEF Blank, Packets
  <2>2. 0 \in Indices /\ 0 \in Lidars /\ 0 \in 0 .. LidarCount /\ 0 \in 0 .. MaxFrames
    BY PipelineAssumption DEF Indices, Lidars
  <2>. QED
    BY <2>1, <2>2 DEF Init, TypeOK, ProducerPoints, PollPoints, ScanPoints
<1>2. FrameBudget
  BY PipelineAssumption, FS_EmptySet DEF Init, FrameBudget
<1>5. RingBound
  <2>1. 0 % IndexRange = 0
    BY PipelineAssumption
  <2>. QED
    BY <2>1, PipelineAssumption DEF Init, RingBound, QueueUsedSize
<1>3. SignalOnlyAtZero /\ CursorInLoop /\ RingsConsistent
  BY DEF Init, SignalOnlyAtZero, CursorInLoop, RingsConsistent, ScanPoints
<1>4. \A l \in Lidars : WakeupCovers(l)
  BY DEF Init, WakeupCovers, Pending, QueueIsEmpty
<1>. QED
  BY <1>1, <1>2, <1>3, <1>4, <1>5 DEF IInv

\* Every step of the producer keeps the types and the frame bound.
LEMMA ProducerTypes ==
  ASSUME TypeOK, FrameBudget, StoragePointData \/ ProducerStep
  PROVE  TypeOK' /\ FrameBudget'
<1> USE PipelineAssumption DEF TypeOK, FrameBudget, ProducerPoints, Goto, ProducerKeeps,
      ringVars, exitVars, pollVars, producerVars
<1>1. CASE StoragePointData
  BY <1>1, LidarsFinite, FS_CardinalityType DEF StoragePointData
<1>2. CASE StoragePointDataReturns
  BY <1>2 DEF StoragePointDataReturns
<1>3. ASSUME NEW l \in Lidars, PushLidarData(l) PROVE TypeOK' /\ FrameBudget'
  <2>1. IsFiniteSet(todo) /\ Cardinality(todo) \in Nat
    BY LidarsFinite, FS_CardinalityType
  <2>2. Cardinality(todo') = Cardinality(todo) - 1
    BY <1>3, <2>1, FS_RemoveElement DEF PushLidarData
  <2>3. Cardinality(todo') \in Nat
    BY <1>3, LidarsFinite, FS_CardinalityType DEF PushLidarData
  <2>. QED
    BY <1>3, <2>1, <2>2, <2>3 DEF PushLidarData
<1>4. CASE TestFull \/ TestEmpty \/ TestCount
  BY <1>4 DEF TestFull, TestEmpty, TestCount
<1>5. CASE WriteHead \/ WriteBody
  <2> DEFINE i == SlotOf(wr_idx[dst])
  <2>1. i \in 0 .. Size - 1 /\ slot[dst][i] \in Packets
    BY SlotType
  <2>2. /\ [slot[dst][i] EXCEPT !.head = frame] \in Packets
        /\ [slot[dst][i] EXCEPT !.body = frame] \in Packets
    BY <2>1 DEF Packets
  <2>3. \A p \in Packets : [slot EXCEPT ![dst] = [slot[dst] EXCEPT ![i] = p]]
                            \in [Lidars -> [0 .. Size - 1 -> Packets]]
    BY <2>1
  <2>4. slot' \in [Lidars -> [0 .. Size - 1 -> Packets]]
    <3>1. CASE WriteHead
      <4>1. slot' = [slot EXCEPT ![dst] = [slot[dst] EXCEPT ![i] = [slot[dst][i] EXCEPT !.head = frame]]]
        BY <3>1 DEF WriteHead
      <4>. QED BY <4>1, <2>2, <2>3
    <3>2. CASE WriteBody
      <4>1. slot' = [slot EXCEPT ![dst] = [slot[dst] EXCEPT ![i] = [slot[dst][i] EXCEPT !.body = frame]]]
        BY <3>2 DEF WriteBody
      <4>. QED BY <4>1, <2>2, <2>3
    <3>. QED BY <1>5, <3>1, <3>2
  <2>. QED
    BY <1>5, <2>4 DEF WriteHead, WriteBody
<1>6. CASE WriteIndex
  BY <1>6, IncType DEF WriteIndex
<1>7. CASE Signal
  BY <1>7 DEF Signal
<1>. QED
  BY <1>1, <1>2, <1>3, <1>4, <1>5, <1>6, <1>7 DEF ProducerStep

\* Every step of the poll thread keeps the types.
LEMMA PollTypes ==
  ASSUME TypeOK, CursorInLoop, PollStep
  PROVE  TypeOK' /\ CursorInLoop'
<1> USE PipelineAssumption DEF TypeOK, CursorInLoop, PollPoints, ScanPoints, PollKeeps,
      exitVars, producerVars
<1>1. CASE DistributePointCloudData \/ Wait \/ ScanEnds \/ DrainLoop \/ TestFuture
  BY <1>1 DEF DistributePointCloudData, Wait, ScanEnds, DrainLoop, TestFuture
<1>2. CASE SkipLidar
  BY <1>2 DEF SkipLidar, Lidars
<1>7. CASE PollingLidarPointCloudData
  BY <1>7 DEF PollingLidarPointCloudData, Lidars
<1>3. CASE PollLoop
  BY <1>3 DEF PollLoop, Lidars
<1>4. CASE ReadHead \/ ReadBody
  <2>1. cur \in Lidars /\ SlotOf(rd_idx[cur]) \in 0 .. Size - 1
    BY <1>4, SlotType DEF ReadHead, ReadBody
  <2>2. slot[cur][SlotOf(rd_idx[cur])] \in Packets
    BY <2>1
  <2>3. pkg' \in Packets
    BY <1>4, <2>2 DEF ReadHead, ReadBody, Packets
  <2>. QED
    BY <1>4, <2>3 DEF ReadHead, ReadBody
<1>5. CASE QueuePopUpdate
  BY <1>5, IncType DEF QueuePopUpdate
<1>6. CASE Publish
  BY <1>6 DEF Publish
<1>. QED
  BY <1>1, <1>2, <1>3, <1>4, <1>5, <1>6, <1>7 DEF PollStep

\* The steps of the hardware, of the configuration callback and of ~DriverNode.
OtherStep ==
  \/ \E l \in Lidars : Flush(l) \/ StartSampling(l)
  \/ RequestExit \/ SetExitSignal \/ Join

LEMMA NextSplit == Next <=> StoragePointData \/ ProducerStep \/ PollStep \/ OtherStep
BY DEF Next, OtherStep

LEMMA OtherTypes ==
  ASSUME TypeOK, OtherStep
  PROVE  TypeOK'
BY DEF OtherStep, Flush, StartSampling, RequestExit, SetExitSignal, Join, TypeOK,
       ProducerKeeps, OthersKeep, ringVars, exitVars, pollVars, producerVars

\* TypeOK and FrameBudget and CursorInLoop are preserved together.
LEMMA TypesStep ==
  ASSUME TypeOK, FrameBudget, CursorInLoop, [Next]_vars
  PROVE  TypeOK' /\ FrameBudget' /\ CursorInLoop'
<1>1. CASE StoragePointData \/ ProducerStep
  <2>1. CursorInLoop'
    BY <1>1 DEF CursorInLoop, StoragePointData, ProducerStep, StoragePointDataReturns,
       PushLidarData, TestFull, WriteHead, WriteBody, WriteIndex, TestEmpty, TestCount,
       Signal, ProducerKeeps, pollVars
  <2>. QED
    BY <1>1, <2>1, ProducerTypes
<1>2. CASE PollStep
  <2>1. FrameBudget'
    BY <1>2 DEF FrameBudget, PollStep, DistributePointCloudData, Wait, SkipLidar,
       PollingLidarPointCloudData, ScanEnds, PollLoop, DrainLoop, ReadHead, ReadBody,
       QueuePopUpdate, Publish, TestFuture, PollKeeps, producerVars
  <2>. QED
    BY <1>2, <2>1, PollTypes
<1>3. CASE OtherStep
  <2>1. FrameBudget' /\ CursorInLoop'
    BY <1>3 DEF FrameBudget, CursorInLoop, OtherStep, Flush, StartSampling, RequestExit,
       SetExitSignal, Join, ProducerKeeps, OthersKeep, producerVars, pollVars
  <2>. QED
    BY <1>3, <2>1, OtherTypes
<1>4. CASE UNCHANGED vars
  BY <1>4 DEF vars, ringVars, exitVars, producerVars, pollVars, TypeOK, FrameBudget,
     CursorInLoop
<1>. QED
  BY <1>1, <1>2, <1>3, <1>4, NextSplit

\* Only Signal raises the count, and it does so from zero.
LEMMA SignalStep ==
  ASSUME TypeOK, SignalOnlyAtZero, [Next]_vars
  PROVE  SignalOnlyAtZero'
<1> USE DEF TypeOK, SignalOnlyAtZero
<1>1. CASE StoragePointData \/ ProducerStep
  BY <1>1 DEF StoragePointData, ProducerStep, StoragePointDataReturns, PushLidarData,
     TestFull, WriteHead, WriteBody, WriteIndex, TestEmpty, TestCount, Signal, Goto
<1>2. CASE PollStep
  BY <1>2 DEF PollStep, DistributePointCloudData, Wait, SkipLidar,
     PollingLidarPointCloudData, ScanEnds, PollLoop, DrainLoop, ReadHead, ReadBody,
     QueuePopUpdate, Publish, TestFuture, PollKeeps, producerVars
<1>3. CASE OtherStep
  BY <1>3 DEF OtherStep, Flush, StartSampling, RequestExit, SetExitSignal, Join,
     OthersKeep, producerVars
<1>4. CASE UNCHANGED vars
  BY <1>4 DEF vars, producerVars
<1>. QED
  BY <1>1, <1>2, <1>3, <1>4, NextSplit

\* The poll thread takes a frame only from a ring it has seen not to be empty.
LEMMA RingsStep ==
  ASSUME TypeOK, CursorInLoop, RingsConsistent, [Next]_vars
  PROVE  RingsConsistent'
<1> USE PipelineAssumption DEF TypeOK, CursorInLoop, RingsConsistent, ScanPoints, Goto,
      ProducerKeeps, PollKeeps, OthersKeep, ringVars, producerVars, pollVars
<1>1. CASE StoragePointData \/ StoragePointDataReturns \/ TestFull \/ TestEmpty \/ TestCount
  BY <1>1 DEF StoragePointData, StoragePointDataReturns, TestFull, TestEmpty, TestCount
<1>2. ASSUME NEW l \in Lidars, PushLidarData(l) PROVE RingsConsistent'
  BY <1>2 DEF PushLidarData
<1>3. CASE WriteHead \/ WriteBody
  BY <1>3 DEF WriteHead, WriteBody
<1>4. CASE WriteIndex
  BY <1>4 DEF WriteIndex
<1>5. CASE Signal
  BY <1>5 DEF Signal
<1>6. CASE DistributePointCloudData \/ Wait \/ SkipLidar \/ ScanEnds \/ DrainLoop
           \/ ReadHead \/ ReadBody \/ Publish \/ TestFuture
  BY <1>6 DEF DistributePointCloudData, Wait, SkipLidar, ScanEnds, DrainLoop, ReadHead,
     ReadBody, Publish, TestFuture
<1>7. CASE PollingLidarPointCloudData
  BY <1>7 DEF PollingLidarPointCloudData
<1>8. CASE PollLoop
  BY <1>8 DEF PollLoop
<1>9. CASE QueuePopUpdate
  BY <1>9 DEF QueuePopUpdate
<1>10. CASE OtherStep
  BY <1>10 DEF OtherStep, Flush, StartSampling, RequestExit, SetExitSignal, Join
<1>11. CASE UNCHANGED vars
  BY <1>11 DEF vars
<1>. QED
  BY <1>1, <1>2, <1>3, <1>4, <1>5, <1>6, <1>7, <1>8, <1>9, <1>10, <1>11, NextSplit
  DEF ProducerStep, PollStep

\* The ring never overflows: the producer's full test and the poll thread's empty test
\* are conservative, however stale the other thread's index is.
LEMMA RingBoundStep ==
  ASSUME TypeOK, CursorInLoop, RingBound, [Next]_vars
  PROVE  RingBound'
<1> USE PipelineAssumption
    DEF TypeOK, CursorInLoop, RingBound, QueueUsedSize, QueueIsEmpty, PollSeesEmpty,
      ScanPoints, Goto, ProducerKeeps, PollKeeps, OthersKeep, ringVars, producerVars, pollVars
<1>1. CASE StoragePointData \/ StoragePointDataReturns \/ TestEmpty \/ TestCount
  BY <1>1 DEF StoragePointData, StoragePointDataReturns, TestEmpty, TestCount
<1>2. ASSUME NEW l \in Lidars, PushLidarData(l) PROVE RingBound'
  BY <1>2 DEF PushLidarData
<1>3. CASE TestFull
  <2>1. (wr_idx[dst] - rd_idx[dst]) % IndexRange \in Int
    BY UsedCases DEF Indices
  <2>2. ppc' = "head" => QueueUsedSize(dst) < Size
    BY <1>3, <2>1 DEF TestFull, QueueIsFull
  <2>. QED
    BY <1>3, <2>2 DEF TestFull
<1>4. CASE WriteHead
  BY <1>4 DEF WriteHead
<1>5. CASE WriteBody
  BY <1>5 DEF WriteBody
<1>6. CASE WriteIndex
  <2>1. /\ wr_idx[dst] \in Indices /\ rd_idx[dst] \in Indices /\ dst \in Lidars
        /\ seen[dst] = wr_idx[dst] /\ (wr_idx[dst] - rd_idx[dst]) % IndexRange < Size
    BY <1>6 DEF WriteIndex
  <2>2. /\ (Inc(wr_idx[dst]) - rd_idx[dst]) % IndexRange <= Size
        /\ Inc(wr_idx[dst]) # rd_idx[dst]
    BY <2>1, PushArithmetic
  <2>. QED BY <1>6, <2>1, <2>2 DEF WriteIndex
<1>7. CASE Signal
  BY <1>7 DEF Signal
<1>8. CASE DistributePointCloudData \/ Wait \/ SkipLidar \/ ScanEnds \/ TestFuture
  BY <1>8 DEF DistributePointCloudData, Wait, SkipLidar, ScanEnds, TestFuture
<1>9. CASE PollingLidarPointCloudData \/ PollLoop \/ DrainLoop \/ Publish
  BY <1>9 DEF PollingLidarPointCloudData, PollLoop, DrainLoop, Publish
<1>10. CASE ReadHead \/ ReadBody
  BY <1>10 DEF ReadHead, ReadBody
<1>11. CASE QueuePopUpdate
  <2>1. /\ wr_idx[cur] \in Indices /\ rd_idx[cur] \in Indices /\ seen[cur] \in Indices
        /\ cur \in Lidars /\ rd_idx[cur] # seen[cur] /\ rd_idx[cur] # wr_idx[cur]
        /\ (wr_idx[cur] - rd_idx[cur]) % IndexRange <= Size
    BY <1>11 DEF QueuePopUpdate
  <2>2. (wr_idx[cur] - Inc(rd_idx[cur])) % IndexRange <= Size
    BY <2>1, PopArithmetic
  <2>3. Inc(seen[cur]) # Inc(rd_idx[cur])
    BY <2>1, IncInjective
  <2>4. (wr_idx[cur] - rd_idx[cur]) % IndexRange < Size
          => (wr_idx[cur] - Inc(rd_idx[cur])) % IndexRange < Size
    BY <2>1, PopFreesSlot
  <2>. QED BY <1>11, <2>1, <2>2, <2>3, <2>4 DEF QueuePopUpdate
<1>12. ASSUME NEW l \in Lidars, Flush(l) PROVE RingBound'
  BY <1>12 DEF Flush
<1>13. CASE (\E l \in Lidars : StartSampling(l)) \/ RequestExit \/ SetExitSignal \/ Join
  BY <1>13 DEF StartSampling, RequestExit, SetExitSignal, Join
<1>14. CASE UNCHANGED vars
  BY <1>14 DEF vars
<1>. QED
  BY <1>1, <1>2, <1>3, <1>4, <1>5, <1>6, <1>7, <1>8, <1>9, <1>10, <1>11, <1>12, <1>13, <1>14,
     NextSplit
  DEF ProducerStep, PollStep, OtherStep

\* The wakeup of one lidar is kept by every step, at any interleaving.
LEMMA WakeupStep ==
  ASSUME IInv, [Next]_vars, ~StoreBuffer, NEW l \in Lidars
  PROVE  WakeupCovers(l)'
<1> USE PipelineAssumption DEF IInv, TypeOK, CursorInLoop, WakeupCovers, Pending,
      QueueIsEmpty, ProducerWillSignal, ScanWillVisit, ScanPoints, Lidars, Goto,
      ProducerKeeps, PollKeeps, OthersKeep, ringVars, producerVars, pollVars, exitVars
<1>1. CASE StoragePointData \/ StoragePointDataReturns \/ TestFull
  BY <1>1 DEF StoragePointData, StoragePointDataReturns, TestFull
<1>2. ASSUME NEW k \in Lidars, PushLidarData(k) PROVE WakeupCovers(l)'
  BY <1>2 DEF PushLidarData
<1>3. CASE WriteHead
  BY <1>3 DEF WriteHead
<1>3b. CASE WriteBody
  BY <1>3b DEF WriteBody
<1>4. CASE WriteIndex
  BY <1>4 DEF WriteIndex
<1>5. CASE TestEmpty
  BY <1>5 DEF TestEmpty
<1>6. CASE TestCount
  BY <1>6 DEF TestCount
<1>7. CASE Signal
  BY <1>7 DEF Signal
<1>8. CASE DistributePointCloudData
  BY <1>8 DEF DistributePointCloudData
<1>9. CASE Wait
  BY <1>9 DEF Wait
<1>10. CASE SkipLidar
  BY <1>10 DEF SkipLidar
<1>11. CASE PollingLidarPointCloudData
  BY <1>11 DEF PollingLidarPointCloudData, RingsConsistent
<1>12. CASE ScanEnds
  BY <1>12 DEF ScanEnds
<1>13. CASE PollLoop
  BY <1>13 DEF PollLoop, PollSeesEmpty, RingsConsistent
<1>14. CASE DrainLoop \/ ReadHead \/ ReadBody \/ Publish
  BY <1>14 DEF DrainLoop, ReadHead, ReadBody, Publish
<1>15. CASE QueuePopUpdate
  BY <1>15 DEF QueuePopUpdate
<1>16. CASE TestFuture
  BY <1>16 DEF TestFuture
<1>17. ASSUME NEW k \in Lidars, Flush(k) PROVE WakeupCovers(l)'
  BY <1>17 DEF Flush
<1>18. ASSUME NEW k \in Lidars, StartSampling(k) PROVE WakeupCovers(l)'
  BY <1>18 DEF StartSampling
<1>19. CASE RequestExit \/ SetExitSignal \/ Join
  BY <1>19 DEF RequestExit, SetExitSignal, Join
<1>20. CASE UNCHANGED vars
  BY <1>20 DEF vars
<1>. QED
  BY <1>1, <1>2, <1>3, <1>4, <1>5, <1>6, <1>7, <1>8, <1>9, <1>10, <1>11, <1>12, <1>13,
     <1>14, <1>15, <1>16, <1>17, <1>18, <1>19, <1>20, <1>3b, NextSplit
  DEF ProducerStep, PollStep, OtherStep

\* IInv is an inductive invariant of the pipeline.
THEOREM PipelineInvariant == Spec => []IInv
<1>1. IInv /\ [Next]_vars => IInv'
  <2> SUFFICES ASSUME IInv, [Next]_vars PROVE IInv'
    OBVIOUS
  <2>1. TypeOK' /\ FrameBudget' /\ CursorInLoop'
    BY TypesStep DEF IInv
  <2>2. SignalOnlyAtZero'
    BY SignalStep DEF IInv
  <2>3. RingsConsistent'
    BY RingsStep DEF IInv
  <2>4. RingBound'
    BY RingBoundStep DEF IInv
  <2>5. ~StoreBuffer => \A l \in Lidars : WakeupCovers(l)'
    BY WakeupStep
  <2>. QED
    BY <2>1, <2>2, <2>3, <2>4, <2>5 DEF IInv
<1>. QED
  BY InitIInv, <1>1, PTL DEF Spec

\* Type correctness of the point-cloud path for all lidar counts, ring sizes and
\* index widths, with and without a store buffer.
THEOREM TypeCorrect == Spec => []TypeOK
<1>1. IInv => TypeOK
  BY DEF IInv
<1>. QED
  BY <1>1, PipelineInvariant, PTL

\* The unlocked check of the count in PushLidarData never lets the semaphore exceed
\* one, however the two threads interleave.
THEOREM SemaphoreBounded == Spec => []SignalsDoNotPileUp
<1>1. IInv => SignalsDoNotPileUp
  BY DEF IInv, SignalOnlyAtZero, SignalsDoNotPileUp
<1>. QED
  BY <1>1, PipelineInvariant, PTL

\* Under sequential consistency the unlocked count never costs a wakeup: a stored
\* frame of a sampling lidar always has a signal, a signaller or a scan coming.
THEOREM NoWakeupIsLost == ASSUME ~StoreBuffer PROVE Spec => []NoLostWakeup
<1>1. IInv => NoLostWakeup
  <2> SUFFICES ASSUME IInv, NEW l \in Lidars, Backlog(l) PROVE ~QueueIsEmpty(l)
    BY DEF IInv, NoLostWakeup, WakeupCovers, Pending
  <2>1. rd_idx[l] \in Int /\ wr_idx[l] \in Int
    BY DEF IInv, TypeOK, Indices
  <2>2. 0 % IndexRange = 0
    BY PipelineAssumption
  <2>. QED
    BY <2>1, <2>2 DEF Backlog, QueueUsedSize, QueueIsEmpty
<1>. QED
  BY <1>1, PipelineInvariant, PTL

\* The lock-free ring is free of slot races, for every ring size that divides the index
\* range (a power of two and 2^32 in the code), wraparound included.
THEOREM SlotsDoNotRace == Spec => []NoSlotRace
<1>1. IInv => NoSlotRace
  <2> SUFFICES ASSUME IInv, ppc \in {"head", "body"}, cpc \in {"head", "body", "update"},
                      dst = cur
               PROVE  SlotOf(wr_idx[dst]) # SlotOf(rd_idx[dst])
    BY DEF NoSlotRace
  <2>1. wr_idx[dst] \in Indices /\ rd_idx[dst] \in Indices
    BY DEF IInv, TypeOK
  <2>2. QueueUsedSize(dst) < Size /\ rd_idx[dst] # wr_idx[dst]
    BY DEF IInv, TypeOK, RingBound, PollSeesEmpty
  <2>3. 0 < (wr_idx[dst] - rd_idx[dst]) % IndexRange
    BY <2>1, <2>2, UsedCases, PipelineAssumption DEF Indices
  <2>. QED
    BY <2>1, <2>2, <2>3, SlotDistinct DEF QueueUsedSize
<1>. QED
  BY <1>1, PipelineInvariant, PTL
------------------------------------------------------------------------------
(***************************************************************************)
(* The rings and the poll loop implement FrameFifo.                        *)
(***************************************************************************)
\* Adding a multiple of S does not change the remainder.
LEMMA ModShift == \A S \in Nat \ {0}, a, q \in Nat : (a + S * q) % S = a % S
<1> SUFFICES ASSUME NEW S \in Nat \ {0}, NEW a \in Nat, NEW q \in Nat
             PROVE  (a + S * q) % S = a % S
  OBVIOUS
<1> DEFINE b == a + S * q
           x == a % S
           y == b % S
           m == a \div S
           n == b \div S
<1>1. b \in Nat
  OBVIOUS
<1>2. m \in Int /\ x \in 0 .. S - 1 /\ a = S * m + x
  BY DivMod
<1>3. n \in Int /\ y \in 0 .. S - 1 /\ b = S * n + y
  BY <1>1, DivMod
<1>4. b = a + S * q
  OBVIOUS
<1> HIDE DEF b, x, y, m, n
<1>5. y - x = S * (m + q - n) /\ x - y = S * (n - m - q)
  BY <1>2, <1>3, <1>4
<1>6. ~(y > x)
  BY <1>2, <1>3, <1>5, NoMultiple
<1>7. ~(x > y)
  BY <1>2, <1>3, <1>5, NoMultiple
<1>8. x = y
  BY <1>2, <1>3, <1>6, <1>7
<1> QED
  BY <1>8, Zenon DEF x, y, b

\* The slots go on in step when the index wraps.
LEMMA SlotWraps == \A a \in Nat : SlotOf(a + IndexRange) = SlotOf(a)
<1> SUFFICES ASSUME NEW a \in Nat PROVE (a + IndexRange) % Size = a % Size
  BY DEF SlotOf
<1> DEFINE q == IndexRange \div Size
<1>1. IndexRange = Size * q /\ q \in Int
  BY DivMod, PipelineAssumption
<1>2. q \in Nat
  <2> HIDE DEF q
  <2> QED BY <1>1, PipelineAssumption
<1> HIDE DEF q
<1>3. (a + Size * q) % Size = a % Size
  BY <1>2, ModShift, PipelineAssumption
<1> QED
  BY <1>1, <1>3

\* The used size as a distance: it is what one has to go on from rd_idx to get to
\* wr_idx.
LEMMA UsedIsDistance ==
  ASSUME NEW w \in Indices, NEW r \in Indices
  PROVE  /\ (w - r) % IndexRange \in 0 .. IndexRange - 1
         /\ (w - r) % IndexRange = 0 <=> w = r
         /\ SlotOf(r + ((w - r) % IndexRange)) = SlotOf(w)
<1> DEFINE u == (w - r) % IndexRange
<1>1. u = IF w >= r THEN w - r ELSE w - r + IndexRange
  BY UsedCases
<1> HIDE DEF u
<1>2. u \in 0 .. IndexRange - 1 /\ (u = 0 <=> w = r)
  BY <1>1, PipelineAssumption DEF Indices
<1>3. SlotOf(r + u) = SlotOf(w)
  <2>1. CASE w >= r
    <3>1. r + u = w
      BY <1>1, <2>1 DEF Indices
    <3> QED BY <3>1
  <2>2. CASE w < r
    <3>1. r + u = w + IndexRange /\ w \in Nat
      BY <1>1, <2>2, PipelineAssumption DEF Indices
    <3> QED BY <3>1, SlotWraps
  <2> QED BY <2>1, <2>2 DEF Indices
<1> QED
  BY <1>2, <1>3, Zenon DEF u

\* A push adds exactly one frame to a ring that is not full, a pop takes exactly one.
LEMMA PushCounts ==
  ASSUME NEW w \in Indices, NEW r \in Indices, (w - r) % IndexRange < Size
  PROVE  (Inc(w) - r) % IndexRange = ((w - r) % IndexRange) + 1
<1> DEFINE u == (w - r) % IndexRange
           n == Inc(w)
           v == (Inc(w) - r) % IndexRange
<1>1. n \in Indices /\ n = IF w = IndexRange - 1 THEN 0 ELSE w + 1
  BY IncType, IncCases
<1>2. u = IF w >= r THEN w - r ELSE w - r + IndexRange
  BY UsedCases
<1>3. v = IF n >= r THEN n - r ELSE n - r + IndexRange
  BY UsedCases, <1>1
<1> HIDE DEF u, n, v
<1>4. u < Size => v = u + 1
  BY <1>1, <1>2, <1>3, PipelineAssumption DEF Indices
<1>. QED BY <1>4 DEF u, n, v

LEMMA PopCounts ==
  ASSUME NEW w \in Indices, NEW r \in Indices, w # r
  PROVE  (w - Inc(r)) % IndexRange = ((w - r) % IndexRange) - 1
<1> DEFINE u == (w - r) % IndexRange
           n == Inc(r)
           v == (w - Inc(r)) % IndexRange
<1>1. n \in Indices /\ n = IF r = IndexRange - 1 THEN 0 ELSE r + 1
  BY IncType, IncCases
<1>2. u = IF w >= r THEN w - r ELSE w - r + IndexRange
  BY UsedCases
<1>3. v = IF w >= n THEN w - n ELSE w - n + IndexRange
  BY UsedCases, <1>1
<1> HIDE DEF u, n, v
<1>4. v = u - 1
  BY <1>1, <1>2, <1>3, PipelineAssumption DEF Indices
<1>. QED BY <1>4 DEF u, n, v

\* After a pop the frames that stay are found one place nearer.
LEMMA PopShifts ==
  ASSUME NEW r \in Indices, NEW i \in Nat
  PROVE  SlotOf(Inc(r) + i) = SlotOf(r + (i + 1))
<1>1. CASE r = IndexRange - 1
  <2>1. Inc(r) + i = i /\ r + (i + 1) = i + IndexRange
    BY <1>1, IncCases, PipelineAssumption DEF Indices
  <2> QED BY <2>1, SlotWraps
<1>2. CASE r # IndexRange - 1
  <2>1. Inc(r) + i = r + (i + 1)
    BY <1>2, IncCases DEF Indices
  <2> QED BY <2>1
<1> QED
  BY <1>1, <1>2

\* The slot to be written is none of those that hold a frame.
LEMMA WriteIsApart ==
  ASSUME NEW w \in Indices, NEW r \in Indices, (w - r) % IndexRange < Size,
         NEW i \in Nat, i < (w - r) % IndexRange
  PROVE  SlotOf(r + i) # SlotOf(w)
<1> DEFINE u == (w - r) % IndexRange
           s == IF r + i < IndexRange THEN r + i ELSE r + i - IndexRange
           v == (w - s) % IndexRange
<1>1. u = IF w >= r THEN w - r ELSE w - r + IndexRange
  BY UsedCases
<1>2. u < Size /\ i < u
  OBVIOUS
<1>3. s = IF r + i < IndexRange THEN r + i ELSE r + i - IndexRange
  OBVIOUS
<1> HIDE DEF u, s
<1>4. s \in Indices
  BY <1>1, <1>2, <1>3, PipelineAssumption DEF Indices
<1>5. v = IF w >= s THEN w - s ELSE w - s + IndexRange
  BY <1>4, UsedCases
<1> HIDE DEF v
<1>6. 0 < v /\ v < Size
  BY <1>1, <1>2, <1>3, <1>4, <1>5, PipelineAssumption DEF Indices
<1>7. SlotOf(w) # SlotOf(s)
  BY <1>4, <1>6, SlotDistinct DEF v
<1>8. SlotOf(s) = SlotOf(r + i)
  <2>1. CASE r + i < IndexRange
    BY <1>3, <2>1
  <2>2. CASE ~(r + i < IndexRange)
    <3>1. s \in Nat /\ r + i = s + IndexRange
      BY <1>3, <1>4, <2>2, PipelineAssumption DEF Indices
    <3> QED BY <3>1, SlotWraps
  <2> QED BY <2>1, <2>2
<1> QED
  BY <1>7, <1>8

\* A frame in a ring, in the poll thread's hand or published is one that was stored
\* whole, before the one being stored now.
Storing == ppc \in {"full?", "head", "body", "index"}
Whole(f) ==
  /\ f \in Packets /\ f.head = f.body /\ f.head \in 1 .. frame
  /\ Storing => f.head < frame

\* The frame i places after the oldest in the ring of l.
Stored(l, i) == slot[l][SlotOf(rd_idx[l] + i)]

StoredAreWhole == \A l \in Lidars : \A i \in 0 .. QueueUsedSize(l) - 1 : Whole(Stored(l, i))

\* What has been written of the frame being stored, and read of the one being taken.
WrittenInParts ==
  /\ Storing => frame > 0
  /\ ppc \in {"body", "index"} => slot[dst][SlotOf(wr_idx[dst])].head = frame
  /\ ppc = "index" => slot[dst][SlotOf(wr_idx[dst])].body = frame

ReadInParts ==
  /\ cpc \in {"body", "update"} => pkg.head = slot[cur][SlotOf(rd_idx[cur])].head
  /\ cpc = "update" => pkg.body = slot[cur][SlotOf(rd_idx[cur])].body
  /\ cpc = "publish" => Whole(pkg)

PublishedAreWhole == \A l \in Lidars : published[l] = Blank \/ Whole(published[l])

FInv == IInv /\ StoredAreWhole /\ WrittenInParts /\ ReadInParts /\ PublishedAreWhole

\* The producer numbers a frame when it begins to store it, and at no other time.
LEMMA FrameStep ==
  ASSUME TypeOK, [Next]_vars
  PROVE  \/ frame' = frame /\ (Storing' => Storing)
         \/ frame' = frame + 1
<1> USE DEF Storing, Goto, ProducerKeeps, PollKeeps, OthersKeep, producerVars
<1>1. CASE StoragePointData \/ ProducerStep
  BY <1>1 DEF StoragePointData, ProducerStep, StoragePointDataReturns, PushLidarData,
     TestFull, WriteHead, WriteBody, WriteIndex, TestEmpty, TestCount, Signal
<1>2. CASE PollStep
  BY <1>2 DEF PollStep, DistributePointCloudData, Wait, SkipLidar,
     PollingLidarPointCloudData, ScanEnds, PollLoop, DrainLoop, ReadHead, ReadBody,
     QueuePopUpdate, Publish, TestFuture
<1>3. CASE OtherStep
  BY <1>3 DEF OtherStep, Flush, StartSampling, RequestExit, SetExitSignal, Join
<1>4. CASE UNCHANGED vars
  BY <1>4 DEF vars
<1>. QED
  BY <1>1, <1>2, <1>3, <1>4, NextSplit

\* A whole frame stays one.
LEMMA WholeStays ==
  ASSUME TypeOK, TypeOK', [Next]_vars, NEW f, Whole(f)
  PROVE  /\ f \in Packets /\ f.head = f.body /\ f.head \in 1 .. frame'
         /\ Storing' => f.head < frame'
<1>1. frame \in Nat /\ frame' \in Nat
  BY PipelineAssumption DEF TypeOK
<1> QED
  BY <1>1, FrameStep DEF Whole, Packets

\* The poll thread's steps and those of the others write neither slots nor wr_idx.
LEMMA OnlyProducerWrites ==
  ASSUME PollStep \/ OtherStep \/ UNCHANGED vars
  PROVE  UNCHANGED <<wr_idx, slot, ppc, dst, frame>>
BY DEF PollStep, OtherStep, vars, DistributePointCloudData, Wait, SkipLidar,
   PollingLidarPointCloudData, ScanEnds, PollLoop, DrainLoop, ReadHead, ReadBody,
   QueuePopUpdate, Publish, TestFuture, Flush, StartSampling, RequestExit, SetExitSignal,
   Join, ProducerKeeps, PollKeeps, OthersKeep, ringVars, producerVars

\* The producer's steps and those of the others leave the poll thread alone.
LEMMA OnlyPollThreadReads ==
  ASSUME StoragePointData \/ ProducerStep \/ OtherStep \/ UNCHANGED vars
  PROVE  UNCHANGED <<rd_idx, cpc, cur, pkg, published>>
BY DEF StoragePointData, ProducerStep, OtherStep, vars, StoragePointDataReturns, PushLidarData,
   TestFull, WriteHead, WriteBody, WriteIndex, TestEmpty, TestCount, Signal, Flush,
   StartSampling, RequestExit, SetExitSignal, Join, ProducerKeeps, OthersKeep, ringVars,
   pollVars

\* The producer writes a slot that holds no frame.
LEMMA WriteKeepsFrames ==
  ASSUME IInv, WriteHead \/ WriteBody
  PROVE  /\ UNCHANGED <<rd_idx, wr_idx>>
         /\ \A l \in Lidars : \A i \in 0 .. QueueUsedSize(l) - 1 : Stored(l, i)' = Stored(l, i)
<1> DEFINE j == SlotOf(wr_idx[dst])
<1>1. /\ \A k \in Lidars \ {dst} : slot'[k] = slot[k]
      /\ \A k \in (0 .. Size - 1) \ {j} : slot'[dst][k] = slot[dst][k]
      /\ UNCHANGED <<rd_idx, wr_idx>> /\ dst \in Lidars
  <2>1. slot \in [Lidars -> [0 .. Size - 1 -> Packets]] /\ dst \in Lidars
    BY DEF IInv, TypeOK
  <2>2. CASE WriteHead
    <3>1. slot' = [slot EXCEPT ![dst] = [slot[dst] EXCEPT ![j] = [slot[dst][j] EXCEPT !.head = frame]]]
      BY <2>2 DEF WriteHead
    <3> HIDE DEF j
    <3> QED BY <2>1, <2>2, <3>1 DEF WriteHead
  <2>3. CASE WriteBody
    <3>1. slot' = [slot EXCEPT ![dst] = [slot[dst] EXCEPT ![j] = [slot[dst][j] EXCEPT !.body = frame]]]
      BY <2>3 DEF WriteBody
    <3> HIDE DEF j
    <3> QED BY <2>1, <2>3, <3>1 DEF WriteBody
  <2> QED BY <2>2, <2>3
<1> SUFFICES ASSUME NEW l \in Lidars, NEW i \in 0 .. QueueUsedSize(l) - 1
             PROVE  Stored(l, i)' = Stored(l, i)
  BY <1>1
<1>2. CASE l # dst
  BY <1>1, <1>2 DEF Stored
<1>3. CASE l = dst
  <2> DEFINE u == QueueUsedSize(dst)
  <2>1. rd_idx[dst] \in Indices /\ wr_idx[dst] \in Indices
    BY <1>1 DEF IInv, TypeOK
  <2>2. QueueUsedSize(dst) < Size /\ QueueUsedSize(dst) \in Nat
    <3>1. QueueUsedSize(dst) < Size
      BY DEF IInv, RingBound, WriteHead, WriteBody
    <3> QED BY <3>1, <2>1, UsedIsDistance, PipelineAssumption DEF QueueUsedSize
  <2>3. i \in Nat /\ i < (wr_idx[dst] - rd_idx[dst]) % IndexRange
    BY <1>3, <2>2 DEF QueueUsedSize
  <2>4. SlotOf(rd_idx[dst] + i) # j
    BY <2>1, <2>2, <2>3, WriteIsApart DEF QueueUsedSize
  <2>5. SlotOf(rd_idx[dst] + i) \in 0 .. Size - 1
    BY <2>1, <2>3, PipelineAssumption DEF SlotOf, Indices
  <2> QED
    BY <1>1, <1>3, <2>4, <2>5 DEF Stored
<1> QED
  BY <1>2, <1>3

\* The oldest frame of a ring that is not empty is in the slot the poll thread reads.
LEMMA OldestIsRead ==
  ASSUME IInv, NEW l \in Lidars, rd_idx[l] # wr_idx[l]
  PROVE  /\ 0 \in 0 .. QueueUsedSize(l) - 1
         /\ Stored(l, 0) = slot[l][SlotOf(rd_idx[l])]
<1>1. rd_idx[l] \in Indices /\ wr_idx[l] \in Indices
  BY DEF IInv, TypeOK
<1>2. QueueUsedSize(l) \in Nat /\ QueueUsedSize(l) # 0
  BY <1>1, UsedIsDistance, PipelineAssumption DEF QueueUsedSize
<1>3. rd_idx[l] + 0 = rd_idx[l]
  BY <1>1 DEF Indices
<1> QED
  BY <1>2, <1>3 DEF Stored

\* What the poll thread is about to copy has been stored.
LEMMA ReadIsStored ==
  ASSUME IInv, cpc \in {"head", "body", "update"}
  PROVE  cur \in Lidars /\ rd_idx[cur] # wr_idx[cur]
<1>1. cur \in Lidars /\ rd_idx[cur] # seen[cur]
  BY DEF IInv, CursorInLoop, ScanPoints, RingBound, PollSeesEmpty
<1> QED
  BY <1>1 DEF IInv, RingBound, QueueIsEmpty

LEMMA InitFInv == Init => FInv
<1> SUFFICES ASSUME Init PROVE FInv
  OBVIOUS
<1>1. \A l \in Lidars : QueueUsedSize(l) = 0
  BY PipelineAssumption DEF Init, QueueUsedSize
<1>2. StoredAreWhole
  BY <1>1 DEF StoredAreWhole
<1>3. WrittenInParts /\ ReadInParts /\ PublishedAreWhole
  BY DEF Init, WrittenInParts, ReadInParts, PublishedAreWhole, Storing
<1> QED
  BY <1>2, <1>3, InitIInv DEF FInv

\* How each of the two ring operations changes the frames of a ring.
LEMMA PushAppends ==
  ASSUME IInv, WriteIndex, NEW l \in Lidars
  PROVE  /\ UNCHANGED <<rd_idx, slot>>
         /\ \A i : Stored(l, i)' = Stored(l, i)
         /\ QueueUsedSize(l) \in Nat
         /\ l # dst => QueueUsedSize(l)' = QueueUsedSize(l)
         /\ l = dst => /\ QueueUsedSize(l) < Size
                       /\ QueueUsedSize(l)' = QueueUsedSize(l) + 1
                       /\ Stored(l, QueueUsedSize(l)) = slot[l][SlotOf(wr_idx[l])]
<1>1. /\ wr_idx \in [Lidars -> Indices] /\ rd_idx[l] \in Indices /\ wr_idx[l] \in Indices
      /\ UNCHANGED <<rd_idx, slot>> /\ wr_idx' = [wr_idx EXCEPT ![dst] = Inc(wr_idx[dst])]
  BY DEF IInv, TypeOK, WriteIndex
<1>2. QueueUsedSize(l) \in Nat
  BY <1>1, UsedIsDistance, PipelineAssumption DEF QueueUsedSize
<1>3. \A i : Stored(l, i)' = Stored(l, i)
  BY <1>1 DEF Stored
<1>4. CASE l # dst
  BY <1>1, <1>2, <1>3, <1>4 DEF QueueUsedSize
<1>5. CASE l = dst
  <2>1. QueueUsedSize(l) < Size
    BY <1>5 DEF IInv, RingBound, WriteIndex
  <2>2. wr_idx'[l] = Inc(wr_idx[l]) /\ rd_idx'[l] = rd_idx[l]
    BY <1>1, <1>5
  <2>3. QueueUsedSize(l)' = QueueUsedSize(l) + 1
    BY <1>1, <2>1, <2>2, PushCounts DEF QueueUsedSize
  <2>4. SlotOf(rd_idx[l] + QueueUsedSize(l)) = SlotOf(wr_idx[l])
    BY <1>1, UsedIsDistance DEF QueueUsedSize
  <2> QED
    BY <1>1, <1>2, <1>3, <1>5, <2>1, <2>3, <2>4 DEF Stored
<1> QED
  BY <1>4, <1>5

LEMMA PopTakesOldest ==
  ASSUME IInv, QueuePopUpdate, NEW l \in Lidars
  PROVE  /\ UNCHANGED <<wr_idx, slot>>
         /\ QueueUsedSize(l) \in Nat
         /\ l # cur => /\ QueueUsedSize(l)' = QueueUsedSize(l)
                       /\ \A i : Stored(l, i)' = Stored(l, i)
         /\ l = cur => /\ QueueUsedSize(l) > 0
                       /\ QueueUsedSize(l)' = QueueUsedSize(l) - 1
                       /\ \A i \in Nat : Stored(l, i)' = Stored(l, i + 1)
<1>1. /\ rd_idx \in [Lidars -> Indices] /\ rd_idx[l] \in Indices /\ wr_idx[l] \in Indices
      /\ UNCHANGED <<wr_idx, slot>> /\ rd_idx' = [rd_idx EXCEPT ![cur] = Inc(rd_idx[cur])]
  BY DEF IInv, TypeOK, QueuePopUpdate, PollKeeps
<1>2. QueueUsedSize(l) \in Nat
  BY <1>1, UsedIsDistance, PipelineAssumption DEF QueueUsedSize
<1>3. CASE l # cur
  BY <1>1, <1>2, <1>3 DEF QueueUsedSize, Stored
<1>4. CASE l = cur
  <2>1. rd_idx[l] # wr_idx[l]
    BY <1>4, ReadIsStored DEF QueuePopUpdate
  <2>2. rd_idx'[l] = Inc(rd_idx[l]) /\ wr_idx'[l] = wr_idx[l]
    BY <1>1, <1>4
  <2>3. QueueUsedSize(l)' = QueueUsedSize(l) - 1
    BY <1>1, <2>1, <2>2, PopCounts DEF QueueUsedSize
  <2>4. QueueUsedSize(l) > 0
    BY <1>1, <1>2, <2>1, UsedIsDistance DEF QueueUsedSize
  <2>5. ASSUME NEW i \in Nat PROVE Stored(l, i)' = Stored(l, i + 1)
    BY <1>1, <2>2, PopShifts DEF Stored
  <2> QED
    BY <1>1, <1>2, <1>4, <2>3, <2>4, <2>5
<1> QED
  BY <1>3, <1>4

\* The steps that touch no ring; the others are four.
LEMMA RingSteps ==
  ASSUME [Next]_vars
  PROVE  \/ UNCHANGED <<rd_idx, wr_idx, slot>> /\ (ppc' = "index" => ppc = "index")
                                               /\ (ppc' = "body" => ppc = "body")
         \/ WriteHead \/ WriteBody \/ WriteIndex \/ QueuePopUpdate
<1>1. CASE StoragePointData \/ ProducerStep
  BY <1>1 DEF StoragePointData, ProducerStep, StoragePointDataReturns, PushLidarData,
     TestFull, TestEmpty, TestCount, Signal, Goto, ringVars
<1>2. CASE PollStep
  BY <1>2 DEF PollStep, DistributePointCloudData, Wait, SkipLidar,
     PollingLidarPointCloudData, ScanEnds, PollLoop, DrainLoop, ReadHead, ReadBody,
     Publish, TestFuture, PollKeeps, producerVars
<1>3. CASE OtherStep
  BY <1>3 DEF OtherStep, Flush, StartSampling, RequestExit, SetExitSignal, Join,
     OthersKeep, ringVars, producerVars
<1>4. CASE UNCHANGED vars
  BY <1>4 DEF vars, ringVars, producerVars
<1>. QED
  BY <1>1, <1>2, <1>3, <1>4, NextSplit

\* What WriteIndex makes visible has been written in both parts.
LEMMA WrittenIsWhole ==
  ASSUME IInv, WrittenInParts, WriteIndex
  PROVE  /\ slot[dst][SlotOf(wr_idx[dst])] = [head |-> frame, body |-> frame]
         /\ frame \in 1 .. MaxFrames /\ dst \in Lidars
<1>1. /\ slot[dst][SlotOf(wr_idx[dst])] \in Packets /\ frame \in 0 .. MaxFrames
      /\ dst \in Lidars
  BY SlotType DEF IInv, TypeOK
<1>2. /\ slot[dst][SlotOf(wr_idx[dst])].head = frame
      /\ slot[dst][SlotOf(wr_idx[dst])].body = frame
      /\ frame > 0
  BY DEF WrittenInParts, WriteIndex, Storing
<1> QED
  BY <1>1, <1>2, PipelineAssumption DEF Packets

LEMMA StoredStep ==
  ASSUME FInv, TypeOK', [Next]_vars
  PROVE  StoredAreWhole'
<1> USE DEF FInv
<1> SUFFICES ASSUME NEW l \in Lidars, NEW i \in 0 .. QueueUsedSize(l)' - 1
             PROVE  Whole(Stored(l, i))'
  BY DEF StoredAreWhole
<1>1. \A k \in 0 .. QueueUsedSize(l) - 1 : Whole(Stored(l, k))
  BY DEF StoredAreWhole
<1>2. ASSUME NEW k \in 0 .. QueueUsedSize(l) - 1, Stored(l, i)' = Stored(l, k)
      PROVE  Whole(Stored(l, i))'
  BY <1>1, <1>2, WholeStays DEF Whole, IInv
<1>3. CASE UNCHANGED <<rd_idx, wr_idx, slot>>
  BY <1>2, <1>3 DEF Stored, QueueUsedSize
<1>4. CASE WriteHead \/ WriteBody
  BY <1>2, <1>4, WriteKeepsFrames DEF QueueUsedSize
<1>5. CASE WriteIndex
  <2>1. CASE i \in 0 .. QueueUsedSize(l) - 1
    BY <1>2, <1>5, <2>1, PushAppends
  <2>2. CASE i \notin 0 .. QueueUsedSize(l) - 1
    <3>1. l = dst /\ i = QueueUsedSize(l)
      BY <1>5, <2>2, PushAppends
    <3>2. Stored(l, i)' = [head |-> frame, body |-> frame]
      BY <1>5, <3>1, PushAppends, WrittenIsWhole
    <3>3. frame' = frame /\ ~Storing' /\ frame \in 1 .. MaxFrames
      BY <1>5, WrittenIsWhole DEF WriteIndex, Goto, Storing
    <3> QED
      BY <3>2, <3>3, PipelineAssumption DEF Whole, Packets
  <2> QED BY <2>1, <2>2
<1>6. CASE QueuePopUpdate
  <2>1. CASE l # cur
    BY <1>2, <1>6, <2>1, PopTakesOldest
  <2>2. CASE l = cur
    <3>1. i \in Nat /\ i + 1 \in 0 .. QueueUsedSize(l) - 1
      BY <1>6, <2>2, PopTakesOldest
    <3> QED
      BY <1>2, <1>6, <2>2, <3>1, PopTakesOldest
  <2> QED BY <2>1, <2>2
<1> QED
  BY <1>3, <1>4, <1>5, <1>6, RingSteps

LEMMA WrittenStep ==
  ASSUME FInv, TypeOK', [Next]_vars
  PROVE  WrittenInParts'
<1> USE DEF FInv, WrittenInParts
<1>1. /\ frame \in Nat /\ dst \in Lidars /\ slot \in [Lidars -> [0 .. Size - 1 -> Packets]]
      /\ SlotOf(wr_idx[dst]) \in 0 .. Size - 1
      /\ slot[dst][SlotOf(wr_idx[dst])] \in Packets
  BY SlotType, PipelineAssumption DEF IInv, TypeOK
<1>2. CASE PollStep \/ OtherStep \/ UNCHANGED vars
  BY <1>2, OnlyProducerWrites DEF Storing
<1>3. CASE StoragePointData \/ StoragePointDataReturns \/ TestFull \/ TestEmpty \/ TestCount \/ Signal
  BY <1>3 DEF StoragePointData, StoragePointDataReturns, TestFull, TestEmpty, TestCount, Signal,
     Goto, Storing, ringVars
<1>4. ASSUME NEW l \in Lidars, PushLidarData(l) PROVE WrittenInParts'
  BY <1>1, <1>4 DEF PushLidarData, Goto, Storing
<1>5. CASE WriteHead
  <2> DEFINE j == SlotOf(wr_idx[dst])
  <2>1. slot' = [slot EXCEPT ![dst] = [slot[dst] EXCEPT ![j] = [slot[dst][j] EXCEPT !.head = frame]]]
    BY <1>5 DEF WriteHead
  <2>2. UNCHANGED <<wr_idx, dst, frame>> /\ ppc' = "body" /\ ppc = "head"
    BY <1>5 DEF WriteHead, Goto
  <2>3. slot'[dst][j].head = frame
    <3> HIDE DEF j
    <3> QED BY <1>1, <2>1 DEF j, Packets
  <2> QED
    BY <2>2, <2>3 DEF Storing
<1>6. CASE WriteBody
  <2> DEFINE j == SlotOf(wr_idx[dst])
  <2>1. slot' = [slot EXCEPT ![dst] = [slot[dst] EXCEPT ![j] = [slot[dst][j] EXCEPT !.body = frame]]]
    BY <1>6 DEF WriteBody
  <2>2. UNCHANGED <<wr_idx, dst, frame>> /\ ppc' = "index" /\ ppc = "body"
    BY <1>6 DEF WriteBody, Goto
  <2>3. slot[dst][j].head = frame
    BY <1>6 DEF WriteBody
  <2>4. slot'[dst][j].head = frame /\ slot'[dst][j].body = frame
    <3> HIDE DEF j
    <3> QED BY <1>1, <2>1, <2>3 DEF j, Packets
  <2> QED
    BY <2>2, <2>4 DEF Storing
<1>7. CASE WriteIndex
  BY <1>7 DEF WriteIndex, Goto, Storing
<1> QED
  BY <1>2, <1>3, <1>4, <1>5, <1>6, <1>7, NextSplit DEF ProducerStep

LEMMA ReadStep ==
  ASSUME FInv, TypeOK', [Next]_vars
  PROVE  ReadInParts'
<1> USE DEF FInv, ReadInParts
<1>1. cpc = "publish" => /\ pkg \in Packets /\ pkg.head = pkg.body /\ pkg.head \in 1 .. frame'
                         /\ Storing' => pkg.head < frame'
  BY WholeStays DEF IInv
<1>2. ASSUME UNCHANGED <<rd_idx, wr_idx, cpc, cur, pkg>>,
             cpc \in {"body", "update"} =>
               slot'[cur][SlotOf(rd_idx[cur])] = slot[cur][SlotOf(rd_idx[cur])]
      PROVE  ReadInParts'
  BY <1>1, <1>2 DEF Whole
<1>3. CASE WriteHead \/ WriteBody
  <2>1. UNCHANGED <<rd_idx, cpc, cur, pkg>>
    BY <1>3, OnlyPollThreadReads DEF ProducerStep
  <2>2. UNCHANGED wr_idx
    BY <1>3, WriteKeepsFrames
  <2>3. ASSUME cpc \in {"body", "update"}
        PROVE  slot'[cur][SlotOf(rd_idx[cur])] = slot[cur][SlotOf(rd_idx[cur])]
    <3>1. cur \in Lidars /\ rd_idx[cur] # wr_idx[cur]
      BY <2>3, ReadIsStored
    <3>2. 0 \in 0 .. QueueUsedSize(cur) - 1
      BY <3>1, OldestIsRead
    <3>4. rd_idx[cur] + 0 = rd_idx[cur]
      BY <3>1 DEF IInv, TypeOK, Indices
    <3>3. Stored(cur, 0)' = Stored(cur, 0)
      <4>1. \A l \in Lidars : \A i \in 0 .. QueueUsedSize(l) - 1 :
              slot'[l][SlotOf(rd_idx'[l] + i)] = slot[l][SlotOf(rd_idx[l] + i)]
        BY <1>3, WriteKeepsFrames DEF Stored
      <4> QED BY <2>1, <3>1, <3>2, <4>1 DEF Stored
    <3> QED
      BY <2>1, <3>3, <3>4 DEF Stored
  <2> QED
    BY <1>2, <2>1, <2>2, <2>3
<1>4. CASE WriteIndex
  BY <1>1, <1>4, OnlyPollThreadReads DEF ProducerStep, WriteIndex, Whole
<1>5. CASE (StoragePointData \/ ProducerStep \/ OtherStep \/ UNCHANGED vars)
           /\ UNCHANGED <<rd_idx, wr_idx, slot>>
  BY <1>2, <1>5, OnlyPollThreadReads
<1>6. CASE PollStep /\ UNCHANGED <<rd_idx, wr_idx, slot>>
  <2>1. CASE ReadHead
    BY <1>6, <2>1 DEF ReadHead, IInv, TypeOK, Packets
  <2>2. CASE ReadBody
    BY <1>6, <2>2 DEF ReadBody, IInv, TypeOK, Packets
  <2>3. CASE DistributePointCloudData \/ Wait \/ SkipLidar \/ PollingLidarPointCloudData
             \/ ScanEnds \/ PollLoop \/ DrainLoop \/ Publish \/ TestFuture
    BY <2>3 DEF DistributePointCloudData, Wait, SkipLidar, PollingLidarPointCloudData,
       ScanEnds, PollLoop, DrainLoop, Publish, TestFuture
  <2>4. CASE QueuePopUpdate
    <3>1. rd_idx'[cur] = Inc(rd_idx[cur]) /\ rd_idx'[cur] = rd_idx[cur] /\ rd_idx[cur] \in Indices
      BY <1>6, <2>4, ReadIsStored DEF QueuePopUpdate, IInv, TypeOK
    <3> QED BY <3>1, IncMoves
  <2> QED
    BY <1>6, <2>1, <2>2, <2>3, <2>4 DEF PollStep
<1>7. CASE QueuePopUpdate
  <2>1. cur \in Lidars /\ rd_idx[cur] # wr_idx[cur]
    BY <1>7, ReadIsStored DEF QueuePopUpdate
  <2>2. Whole(Stored(cur, 0)) /\ Stored(cur, 0) = slot[cur][SlotOf(rd_idx[cur])]
    BY <2>1, OldestIsRead DEF StoredAreWhole
  <2>3. pkg = Stored(cur, 0)
    <3>1. pkg.head = Stored(cur, 0).head /\ pkg.body = Stored(cur, 0).body
      BY <1>7, <2>2 DEF QueuePopUpdate
    <3>2. pkg \in Packets /\ Stored(cur, 0) \in Packets
      BY <2>2 DEF IInv, TypeOK, Whole
    <3> QED BY <3>1, <3>2 DEF Packets
  <2>4. pkg' = pkg /\ cpc' = "publish" /\ UNCHANGED <<ppc, frame>>
    BY <1>7 DEF QueuePopUpdate, PollKeeps, producerVars
  <2> QED
    BY <2>2, <2>3, <2>4 DEF Whole, Storing
<1> QED
  BY <1>3, <1>4, <1>5, <1>6, <1>7, RingSteps, NextSplit

LEMMA PublishedStep ==
  ASSUME FInv, TypeOK', [Next]_vars
  PROVE  PublishedAreWhole'
<1> USE DEF FInv
<1> SUFFICES ASSUME NEW l \in Lidars PROVE (published[l] = Blank \/ Whole(published[l]))'
  BY DEF PublishedAreWhole
<1>1. ASSUME NEW f, f = Blank \/ Whole(f), published'[l] = f
      PROVE  (published[l] = Blank \/ Whole(published[l]))'
  <2>1. CASE f = Blank
    BY <1>1, <2>1 DEF Blank
  <2>2. CASE Whole(f)
    BY <1>1, <2>2, WholeStays DEF Whole, IInv
  <2> QED BY <1>1, <2>1, <2>2
<1>2. published[l] = Blank \/ Whole(published[l])
  BY DEF PublishedAreWhole
<1>3. CASE UNCHANGED published
  BY <1>1, <1>2, <1>3
<1>4. CASE Publish
  <2>1. Whole(pkg)
    BY <1>4 DEF Publish, ReadInParts
  <2>2. published'[l] = pkg \/ published'[l] = published[l]
    BY <1>4 DEF Publish, IInv, TypeOK
  <2> QED BY <1>1, <1>2, <2>1, <2>2
<1>5. UNCHANGED published \/ Publish
  <2>1. CASE PollStep
    BY <2>1 DEF PollStep, DistributePointCloudData, Wait, SkipLidar,
       PollingLidarPointCloudData, ScanEnds, PollLoop, DrainLoop, ReadHead, ReadBody,
       QueuePopUpdate, TestFuture
  <2> QED BY <2>1, OnlyPollThreadReads, NextSplit
<1> QED
  BY <1>3, <1>4, <1>5

LEMMA FInvAlways == Spec => []FInv
<1>1. FInv /\ IInv' /\ [Next]_vars => FInv'
  <2> SUFFICES ASSUME FInv, IInv', [Next]_vars PROVE FInv'
    OBVIOUS
  <2>1. TypeOK'
    BY DEF IInv
  <2> QED
    BY <2>1, StoredStep, WrittenStep, ReadStep, PublishedStep DEF FInv
<1> QED
  BY InitFInv, <1>1, PipelineInvariant, PTL DEF Spec

\* The frames of a ring as a sequence, before a step and after it.
LEMMA ChannelIs ==
  ASSUME NEW l \in Lidars, TypeOK
  PROVE  /\ QueueUsedSize(l) \in Nat
         /\ Channel(l) \in Seq(Packets) /\ Len(Channel(l)) = QueueUsedSize(l)
         /\ \A k \in 1 .. QueueUsedSize(l) : Channel(l)[k] = Stored(l, k - 1)
<1>1. rd_idx[l] \in Nat /\ rd_idx[l] \in Indices /\ wr_idx[l] \in Indices
      /\ slot[l] \in [0 .. Size - 1 -> Packets]
  BY DEF TypeOK, Indices
<1>2. QueueUsedSize(l) \in Nat
  <2>1. (wr_idx[l] - rd_idx[l]) % IndexRange \in 0 .. IndexRange - 1
    BY <1>1, UsedIsDistance
  <2> QED
    BY <2>1, PipelineAssumption DEF QueueUsedSize
<1> DEFINE n == QueueUsedSize(l)
<1>3. \A k \in 1 .. n : Stored(l, k - 1) = slot[l][SlotOf(rd_idx[l] + k - 1)]
                        /\ Stored(l, k - 1) \in Packets
  BY <1>1, <1>2, PipelineAssumption DEF Stored, SlotOf
<1>4. Channel(l) \in [1 .. n -> Packets]
  BY <1>3 DEF Channel
<1>5. Channel(l) \in Seq(Packets)
  BY <1>2, <1>4, SeqDef
<1> QED
  BY <1>2, <1>3, <1>4, <1>5, LenProperties DEF Channel

LEMMA ChannelBecomes ==
  ASSUME NEW l \in Lidars, TypeOK'
  PROVE  /\ Channel(l)' \in Seq(Packets) /\ Len(Channel(l)') = QueueUsedSize(l)'
         /\ \A k \in 1 .. QueueUsedSize(l)' : Channel(l)'[k] = Stored(l, k - 1)'
<1>1. rd_idx'[l] \in Nat /\ rd_idx'[l] \in Indices /\ wr_idx'[l] \in Indices
      /\ slot'[l] \in [0 .. Size - 1 -> Packets]
  BY DEF TypeOK, Indices
<1>2. QueueUsedSize(l)' \in Nat
  BY <1>1, UsedIsDistance, PipelineAssumption DEF QueueUsedSize
<1> DEFINE n == QueueUsedSize(l)'
<1>3. \A k \in 1 .. n : Stored(l, k - 1)' = slot'[l][SlotOf(rd_idx'[l] + k - 1)]
                        /\ Stored(l, k - 1)' \in Packets
  BY <1>1, <1>2, PipelineAssumption DEF Stored, SlotOf
<1>4. Channel(l)' \in [1 .. n -> Packets]
  BY <1>3 DEF Channel
<1>5. Channel(l)' \in Seq(Packets)
  BY <1>2, <1>4, SeqDef
<1> QED
  BY <1>2, <1>3, <1>4, <1>5, LenProperties DEF Channel

Hand(l) == IF InHand(l) THEN pkg ELSE Blank

\* Nothing is in hand of a lidar but what has been popped and not published.
LEMMA HandStep ==
  ASSUME TypeOK, [Next]_vars, ~QueuePopUpdate, ~Publish
  PROVE  \A l \in Lidars : Hand(l)' = Hand(l) /\ published'[l] = published[l]
<1> USE DEF Hand, InHand
<1>1. CASE PollStep
  BY <1>1 DEF PollStep, DistributePointCloudData, Wait, SkipLidar,
     PollingLidarPointCloudData, ScanEnds, PollLoop, DrainLoop, ReadHead, ReadBody, TestFuture
<1>2. CASE StoragePointData \/ ProducerStep \/ OtherStep \/ UNCHANGED vars
  BY <1>2, OnlyPollThreadReads
<1> QED
  BY <1>1, <1>2, NextSplit

LEMMA ChannelStays ==
  ASSUME FInv, TypeOK', NEW l \in Lidars, QueueUsedSize(l)' = QueueUsedSize(l),
         \A i \in 0 .. QueueUsedSize(l) - 1 : Stored(l, i)' = Stored(l, i)
  PROVE  Channel(l)' = Channel(l)
<1> DEFINE n == QueueUsedSize(l)
           c == Channel(l)
           d == Channel(l)'
<1>1. n \in Nat /\ c \in Seq(Packets) /\ Len(c) = n /\ \A k \in 1 .. n : c[k] = Stored(l, k - 1)
  BY ChannelIs DEF FInv, IInv
<1>2. d \in Seq(Packets) /\ Len(d) = n /\ \A k \in 1 .. n : d[k] = Stored(l, k - 1)'
  BY ChannelBecomes
<1>3. \A k \in 1 .. n : c[k] = d[k]
  BY <1>1, <1>2
<1> HIDE DEF n, c, d
<1>4. c = d
  BY <1>1, <1>2, <1>3, SeqEqual
<1> QED
  BY <1>4 DEF c, d

\* A frame is accepted when its index is written.
LEMMA PushIsAccept ==
  ASSUME FInv, TypeOK', WriteIndex, NEW l \in Lidars
  PROVE  Channel(l)' = IF l = dst THEN Append(Channel(l), [head |-> frame, body |-> frame])
                       ELSE Channel(l)
<1>1. CASE l = dst
  <2> DEFINE n == QueueUsedSize(l)
             c == Channel(l)
             d == Channel(l)'
             e == [head |-> frame, body |-> frame]
  <2>1. n \in Nat /\ c \in Seq(Packets) /\ Len(c) = n /\ \A k \in 1 .. n : c[k] = Stored(l, k - 1)
    BY ChannelIs DEF FInv, IInv
  <2>2. QueueUsedSize(l)' = n + 1 /\ Stored(l, n) = e /\ \A i : Stored(l, i)' = Stored(l, i)
    BY <1>1, PushAppends, WrittenIsWhole DEF FInv
  <2>3. d \in Seq(Packets) /\ Len(d) = n + 1 /\ \A k \in 1 .. n + 1 : d[k] = Stored(l, k - 1)
    BY <2>2, ChannelBecomes
  <2>4. e \in Packets
    BY WrittenIsWhole, PipelineAssumption DEF Packets, FInv
  <2> HIDE DEF n, c, d, e
  <2>5. /\ Append(c, e) \in Seq(Packets) /\ Len(Append(c, e)) = n + 1
        /\ \A k \in 1 .. n : Append(c, e)[k] = c[k]
        /\ Append(c, e)[n + 1] = e
    BY <2>1, <2>4
  <2>6. \A k \in 1 .. n + 1 : d[k] = Append(c, e)[k]
    BY <2>1, <2>2, <2>3, <2>5
  <2>7. d = Append(c, e)
    BY <2>3, <2>5, <2>6, SeqEqual
  <2> QED
    BY <1>1, <2>7 DEF c, d, e
<1>2. CASE l # dst
  BY <1>2, PushAppends, ChannelStays DEF FInv
<1> QED
  BY <1>1, <1>2

\* The oldest frame is taken when its slot is freed.
LEMMA PopIsTake ==
  ASSUME FInv, TypeOK', QueuePopUpdate, NEW l \in Lidars
  PROVE  /\ Channel(l)' = IF l = cur THEN Tail(Channel(l)) ELSE Channel(l)
         /\ l = cur => Channel(l) # <<>> /\ Head(Channel(l)) = pkg
<1>1. CASE l = cur
  <2> DEFINE n == QueueUsedSize(l)
             c == Channel(l)
             d == Channel(l)'
  <2>1. n \in Nat /\ c \in Seq(Packets) /\ Len(c) = n /\ \A k \in 1 .. n : c[k] = Stored(l, k - 1)
    BY ChannelIs DEF FInv, IInv
  <2>2. /\ n > 0 /\ QueueUsedSize(l)' = n - 1
        /\ \A i \in Nat : Stored(l, i)' = Stored(l, i + 1)
    BY <1>1, PopTakesOldest DEF FInv
  <2>3. d \in Seq(Packets) /\ Len(d) = n - 1 /\ \A k \in 1 .. n - 1 : d[k] = Stored(l, k - 1)'
    BY <2>2, ChannelBecomes
  <2>4. pkg = Stored(l, 0)
    <3>1. rd_idx[cur] # wr_idx[cur]
      BY ReadIsStored DEF FInv, QueuePopUpdate
    <3>2. Whole(Stored(l, 0)) /\ Stored(l, 0) = slot[l][SlotOf(rd_idx[l])]
      BY <1>1, <3>1, OldestIsRead DEF FInv, StoredAreWhole
    <3>3. pkg.head = Stored(l, 0).head /\ pkg.body = Stored(l, 0).body
      BY <1>1, <3>2 DEF FInv, ReadInParts, QueuePopUpdate
    <3>4. pkg \in Packets /\ Stored(l, 0) \in Packets
      BY <3>2 DEF FInv, IInv, TypeOK, Whole
    <3> QED BY <3>3, <3>4 DEF Packets
  <2>5. c[1] = Stored(l, 0)
    BY <2>1, <2>2
  <2>6. \A k \in 1 .. n - 1 : c[k + 1] = d[k]
    <3> SUFFICES ASSUME NEW k \in 1 .. n - 1 PROVE c[k + 1] = d[k]
      OBVIOUS
    <3>1. k - 1 \in Nat /\ (k - 1) + 1 = k /\ k + 1 \in 1 .. n /\ (k + 1) - 1 = k
      BY <2>1
    <3>2. d[k] = Stored(l, k)
      BY <2>2, <2>3, <3>1
    <3>3. c[k + 1] = Stored(l, k)
      BY <2>1, <3>1
    <3> QED BY <3>2, <3>3
  <2> HIDE DEF n, c, d
  <2>7. c # <<>> /\ Head(c) = c[1]
    BY <2>1, <2>2
  <2>8. /\ Tail(c) \in Seq(Packets) /\ Len(Tail(c)) = n - 1
        /\ \A k \in 1 .. n - 1 : Tail(c)[k] = c[k + 1]
    BY <2>1, <2>7, HeadTailProperties
  <2>9. d = Tail(c)
    BY <2>3, <2>6, <2>8, SeqEqual
  <2> QED
    BY <1>1, <2>4, <2>5, <2>7, <2>9 DEF c, d
<1>2. CASE l # cur
  BY <1>2, PopTakesOldest, ChannelStays DEF FInv
<1> QED
  BY <1>1, <1>2

\* The steps of the pipeline that FrameFifo does not see.
LEMMA OtherStepsStutter ==
  ASSUME FInv, TypeOK', [Next]_vars, ~WriteIndex, ~QueuePopUpdate, ~Publish
  PROVE  UNCHANGED Fifo!fifoVars
<1>1. \A l \in Lidars : Hand(l)' = Hand(l) /\ published'[l] = published[l]
  BY HandStep DEF FInv, IInv
<1>2. ASSUME NEW l \in Lidars PROVE Channel(l)' = Channel(l)
  <2>1. QueueUsedSize(l)' = QueueUsedSize(l)
    BY RingSteps, WriteKeepsFrames DEF QueueUsedSize, FInv
  <2>2. \A i \in 0 .. QueueUsedSize(l) - 1 : Stored(l, i)' = Stored(l, i)
    BY RingSteps, WriteKeepsFrames DEF Stored, FInv
  <2> QED
    BY <2>1, <2>2, ChannelStays
<1>3. published' = published
  BY <1>1 DEF FInv, IInv, TypeOK
<1> QED
  BY <1>1, <1>2, <1>3 DEF Fifo!fifoVars, Hand

LEMMA PushSimulates ==
  ASSUME FInv, TypeOK', WriteIndex, [Next]_vars
  PROVE  Fifo!FifoNext
<1> DEFINE f == [head |-> frame, body |-> frame]
           Frames == {[head |-> n, body |-> n] : n \in 1 .. MaxFrames}
           chan == [l \in Lidars |-> Channel(l)]
           hand == [l \in Lidars |-> IF InHand(l) THEN pkg ELSE Blank]
<1>1. frame \in 1 .. MaxFrames /\ dst \in Lidars /\ f \in Frames
  BY WrittenIsWhole DEF FInv
<1>2. Len(Channel(dst)) < Size
  BY <1>1, ChannelIs, PushAppends DEF FInv, IInv
<1>3. ASSUME NEW g, g = Blank \/ Whole(g) PROVE g = Blank \/ f.head > g.head
  BY <1>3 DEF Whole, WriteIndex, Storing
<1>4. published[dst] = Blank \/ Whole(published[dst])
  BY <1>1 DEF FInv, PublishedAreWhole
<1>5. Hand(dst) = Blank \/ Whole(Hand(dst))
  BY DEF Hand, InHand, FInv, ReadInParts
<1>6. Fifo!Newest(dst) = Blank \/ Whole(Fifo!Newest(dst))
  <2> DEFINE n == QueueUsedSize(dst)
             c == Channel(dst)
             s == <<published[dst], Hand(dst)>> \o c
  <2>1. n \in Nat /\ c \in Seq(Packets) /\ Len(c) = n /\ \A k \in 1 .. n : c[k] = Stored(dst, k - 1)
    BY <1>1, ChannelIs DEF FInv, IInv
  <2>2. published[dst] \in Packets /\ Hand(dst) \in Packets
    <3>1. Blank \in Packets
      BY PipelineAssumption DEF Blank, Packets
    <3> QED BY <1>1, <3>1 DEF FInv, IInv, TypeOK, Hand
  <2>3. n > 0 => Whole(c[n])
    BY <1>1, <2>1 DEF FInv, StoredAreWhole
  <2>4. Fifo!Newest(dst) = s[Len(s)]
    BY <1>1 DEF Fifo!Newest, Hand
  <2> HIDE DEF n, c
  <2>5. /\ Len(s) = n + 2
        /\ s[n + 2] = IF n = 0 THEN Hand(dst) ELSE c[n]
    <3>1. <<published[dst], Hand(dst)>> \in Seq(Packets) /\ Len(<<published[dst], Hand(dst)>>) = 2
          /\ <<published[dst], Hand(dst)>>[2] = Hand(dst)
      BY <2>2
    <3> QED BY <2>1, <3>1, ConcatProperties
  <2> QED
    BY <1>5, <2>1, <2>3, <2>4, <2>5
<1>7. \A g \in {published[dst], hand[dst], Fifo!Newest(dst)} : Fifo!Follows(f, g)
  BY <1>1, <1>3, <1>4, <1>5, <1>6 DEF Fifo!Follows, Hand
<1>8. chan' = [chan EXCEPT ![dst] = Append(chan[dst], f)]
  BY <1>1, PushIsAccept
<1>9. UNCHANGED <<hand, published>>
  BY OnlyPollThreadReads DEF ProducerStep, InHand
<1>10. Fifo!Accept(dst, f)
  BY <1>1, <1>2, <1>7, <1>8, <1>9 DEF Fifo!Accept
<1> QED
  BY <1>1, <1>10 DEF Fifo!FifoNext

LEMMA PopSimulates ==
  ASSUME FInv, TypeOK', QueuePopUpdate
  PROVE  Fifo!FifoNext
<1> DEFINE chan == [l \in Lidars |-> Channel(l)]
           hand == [l \in Lidars |-> IF InHand(l) THEN pkg ELSE Blank]
<1>1. cur \in Lidars
  BY ReadIsStored DEF FInv, QueuePopUpdate
<1>2. Channel(cur) # <<>> /\ Head(Channel(cur)) = pkg
  BY <1>1, PopIsTake
<1>3. chan' = [chan EXCEPT ![cur] = Tail(chan[cur])]
  BY <1>1, PopIsTake
<1>4. hand[cur] = Blank /\ hand' = [hand EXCEPT ![cur] = pkg] /\ UNCHANGED published
  BY <1>1 DEF QueuePopUpdate, InHand
<1>5. Fifo!Take(cur)
  BY <1>1, <1>2, <1>3, <1>4 DEF Fifo!Take
<1> QED
  BY <1>1, <1>5 DEF Fifo!FifoNext

LEMMA PublishSimulates ==
  ASSUME FInv, TypeOK', [Next]_vars, Publish
  PROVE  Fifo!FifoNext
<1> DEFINE chan == [l \in Lidars |-> Channel(l)]
           hand == [l \in Lidars |-> IF InHand(l) THEN pkg ELSE Blank]
<1>1. cur \in Lidars /\ Whole(pkg)
  BY DEF FInv, IInv, CursorInLoop, ScanPoints, ReadInParts, Publish
<1>2. pkg # Blank
  BY <1>1 DEF Whole, Blank
<1>3. hand[cur] = pkg /\ hand' = [hand EXCEPT ![cur] = Blank]
      /\ published' = [published EXCEPT ![cur] = pkg]
  BY <1>1 DEF Publish, InHand
<1>4. ASSUME NEW l \in Lidars PROVE Channel(l)' = Channel(l)
  <2>1. UNCHANGED <<rd_idx, wr_idx, slot>>
    BY DEF Publish, PollKeeps
  <2> QED
    BY <2>1 DEF Channel, QueueUsedSize
<1>5. chan' = chan
  BY <1>4
<1>6. Fifo!Deliver(cur)
  BY <1>1, <1>2, <1>3, <1>5 DEF Fifo!Deliver
<1> QED
  BY <1>1, <1>6 DEF Fifo!FifoNext

\* The rings and the poll loop implement a first-in first-out channel for each lidar,
\* whatever the interleaving and wherever the indices wrap: a frame is accepted by the
\* store of its index, taken by the update of the other and delivered by its publication,
\* whole, and every other step is invisible (StoragePointData, PushLidarData, QueuePop).
THEOREM PipelineImplementsFifo == Spec => ImplementsFifo
<1>1. Init => Fifo!FifoInit
  <2> SUFFICES ASSUME Init PROVE Fifo!FifoInit
    OBVIOUS
  <2>1. \A l \in Lidars : QueueUsedSize(l) = 0
    BY PipelineAssumption DEF Init, QueueUsedSize
  <2>2. \A l \in Lidars : Channel(l) = <<>>
    BY <2>1 DEF Channel
  <2> QED
    BY <2>2 DEF Init, Fifo!FifoInit, InHand
<1>2. FInv /\ TypeOK' /\ [Next]_vars => [Fifo!FifoNext]_(Fifo!fifoVars)
  <2> SUFFICES ASSUME FInv, TypeOK', [Next]_vars
               PROVE  Fifo!FifoNext \/ UNCHANGED Fifo!fifoVars
    OBVIOUS
  <2> QED
    BY OtherStepsStutter, PushSimulates, PopSimulates, PublishSimulates
<1> QED
  BY <1>1, <1>2, FInvAlways, TypeCorrect, PTL DEF Spec, ImplementsFifo, Fifo!FifoSpec
==============================================================================
