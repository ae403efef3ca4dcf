-------------------------- MODULE PointCloudPipeline --------------------------
(***************************************************************************)
(* The point-cloud path of the Livox driver: the thread that assembles     *)
(* frames (PubHandler::RawDataProcess) stores them with                    *)
(* Lds::StoragePointData / PushLidarData in one ring buffer per lidar and  *)
(* signals a semaphore; the poll thread (DriverNode::                      *)
(* PointCloudDataPollThread, Lddc::DistributePointCloudData) waits on the  *)
(* semaphore, scans the lidars and publishes what it finds;                *)
(* DriverNode::~DriverNode asks both to stop and joins the poll thread.    *)
(* The rings have no lock: their indices are volatile counters of width    *)
(* 2^32 that wrap, one written by each thread.                             *)
(*                                                                         *)
(* Each action is one access to memory the two threads share.  A slot is   *)
(* written and read in two parts, its head (base_time, points_num) and its *)
(* body (the points), so that a torn frame would show.  Frames are         *)
(* numbered: the points themselves do not matter here.                     *)
(***************************************************************************)
EXTENDS Integers, Sequences, FiniteSets

CONSTANTS
  LidarCount,   \* lidar_count_, entries of lidars_[] (32 in the code)
  Size,         \* slots of a ring, a power of two (16 at up to 10 Hz)
  IndexRange,   \* the ring indices are counted modulo this (2^32 in the code)
  StoreBuffer,  \* TRUE: the producer's store of wr_idx may become visible only
                \* after its later read of the semaphore's count (store buffer of
                \* x86-64); FALSE: sequential consistency
  MaxFrames     \* bound on the frames the lidars send

ASSUME PipelineAssumption ==
  /\ LidarCount \in Nat \ {0}
  /\ Size \in Nat \ {0}
  /\ IndexRange \in Nat \ {0}
  /\ IndexRange % Size = 0 /\ IndexRange > Size
  /\ StoreBuffer \in BOOLEAN
  /\ MaxFrames \in Nat

Lidars == 0 .. LidarCount - 1
Indices == 0 .. IndexRange - 1
Blank == [head |-> 0, body |-> 0]
Packets == [head : 0 .. MaxFrames, body : 0 .. MaxFrames]

VARIABLES
  storage_packet,  \* storage_packet[l]: the ring of l has been allocated
  rd_idx, wr_idx,  \* rd_idx[l], wr_idx[l]: the indices of the ring of l
  seen,            \* seen[l]: wr_idx[l] as the poll thread reads it
  slot,            \* slot[l][i]: the StoragePacket in slot i
  count,           \* pcd_semaphore_.count_
  sampling,        \* sampling[l]: connect_state = kConnectStateSampling
  request_exit,    \* Lds::request_exit_
  exit_signal,     \* the promise DriverNode::exit_signal_ has its value
  joined,          \* ~DriverNode has joined the poll thread
  ppc, todo, dst, frame, \* producer: control point, lidars of the frame still to
                         \* store, lidar being stored, number of its frame
  cpc, cur, pkg,   \* poll thread: control point, loop index, the popped packet
  published,       \* published[l]: the last packet published for l
  skipped          \* skipped[l]: the last scan passed over l, not yet sampling

ringVars == <<storage_packet, rd_idx, wr_idx, seen, slot>>
producerVars == <<ppc, todo, dst, frame>>
pollVars == <<cpc, cur, pkg, published, skipped>>
exitVars == <<request_exit, exit_signal, joined>>
vars == <<ringVars, count, sampling, exitVars, producerVars, pollVars>>

\* The control points of the two threads.
ProducerPoints == {"idle", "next", "full?", "head", "body", "index", "empty?",
                   "count?", "signal"}
ScanPoints == {"scan", "poll", "drain", "head", "body", "update", "publish"}
PollPoints == ScanPoints \cup {"enter", "wait", "future", "done"}

------------------------------------------------------------------------------
(***************************************************************************)
(* The ring (comm/ldq.cpp).                                                *)
(***************************************************************************)
IncWithoutWrap(i) == i + 1          \* mutant: the counter does not wrap
Inc(i) == (i + 1) % IndexRange
SlotOf(i) == i % Size               \* i & mask
QueueUsedSize(l) == (wr_idx[l] - rd_idx[l]) % IndexRange
QueueIsFullOffByOne(l) == QueueUsedSize(l) > Size   \* mutant: > size, not > mask
QueueIsFull(l) == QueueUsedSize(l) > Size - 1
\* The emptiness test as each of the two threads evaluates it.
QueueIsEmpty(l) == rd_idx[l] = wr_idx[l]
PollSeesEmpty(l) == rd_idx[l] = seen[l]

Init ==
  /\ storage_packet = [l \in Lidars |-> FALSE]
  /\ rd_idx = [l \in Lidars |-> 0]
  /\ wr_idx = [l \in Lidars |-> 0]
  /\ seen = [l \in Lidars |-> 0]
  /\ slot = [l \in Lidars |-> [i \in 0 .. Size - 1 |-> Blank]]
  /\ count = 0
  /\ sampling = [l \in Lidars |-> FALSE]
  /\ request_exit = FALSE /\ exit_signal = FALSE /\ joined = FALSE
  /\ ppc = "idle" /\ todo = {} /\ dst = 0 /\ frame = 0
  /\ cpc = "enter" /\ cur = 0 /\ pkg = Blank
  /\ published = [l \in Lidars |-> Blank]
  /\ skipped = [l \in Lidars |-> FALSE]

------------------------------------------------------------------------------
(***************************************************************************)
(* The producer: StoragePointData calls PushLidarData for each lidar of    *)
(* the frame that has an index.                                            *)
(***************************************************************************)
Goto(point) == ppc' = point
ProducerKeeps == UNCHANGED <<sampling, exitVars, pollVars>>

StoragePointData ==
  /\ ppc = "idle"
  /\ \E S \in SUBSET Lidars \ {{}} :
       /\ frame + Cardinality(S) <= MaxFrames
       /\ todo' = S
  /\ Goto("next")
  /\ UNCHANGED <<ringVars, count, dst, frame>> /\ ProducerKeeps

StoragePointDataReturns ==
  /\ ppc = "next" /\ todo = {}
  /\ Goto("idle")
  /\ UNCHANGED <<ringVars, count, todo, dst, frame>> /\ ProducerKeeps

\* PushLidarData up to the lazy InitQueue; DeInitQueue has zeroed the indices.
\* RawDataProcess takes packet_mutex_ between two frames, so an earlier index
\* of this ring is visible by now.
PushLidarData(l) ==
  /\ ppc = "next" /\ l \in todo
  /\ seen[l] = wr_idx[l]
  /\ todo' = todo \ {l} /\ dst' = l /\ frame' = frame + 1
  /\ storage_packet' = [storage_packet EXCEPT ![l] = TRUE]
  /\ Goto("full?")
  /\ UNCHANGED <<rd_idx, wr_idx, seen, slot, count>> /\ ProducerKeeps

\* A full ring refuses the frame, which is lost.
TestFull ==
  /\ ppc = "full?"
  /\ Goto(IF QueueIsFull(dst) THEN "count?" ELSE "head")
  /\ UNCHANGED <<ringVars, count, todo, dst, frame>> /\ ProducerKeeps

\* QueuePushAny: the head of the slot, its body, and then the index.
WriteHead ==
  /\ ppc = "head"
  /\ slot' = [slot EXCEPT ![dst][SlotOf(wr_idx[dst])].head = frame]
  /\ Goto("body")
  /\ UNCHANGED <<storage_packet, rd_idx, wr_idx, seen, count, todo, dst, frame>>
  /\ ProducerKeeps

WriteBody ==
  /\ ppc = "body"
  /\ slot' = [slot EXCEPT ![dst][SlotOf(wr_idx[dst])].body = frame]
  /\ Goto("index")
  /\ UNCHANGED <<storage_packet, rd_idx, wr_idx, seen, count, todo, dst, frame>>
  /\ ProducerKeeps

WriteIndex ==
  /\ ppc = "index"
  /\ wr_idx' = [wr_idx EXCEPT ![dst] = Inc(@)]
  /\ seen' = IF StoreBuffer THEN seen ELSE wr_idx'
  /\ Goto("empty?")
  /\ UNCHANGED <<storage_packet, rd_idx, slot, count, todo, dst, frame>>
  /\ ProducerKeeps

\* The poll thread may already have drained the ring.
TestEmpty ==
  /\ ppc = "empty?"
  /\ Goto(IF QueueIsEmpty(dst) THEN "next" ELSE "count?")
  /\ UNCHANGED <<ringVars, count, todo, dst, frame>> /\ ProducerKeeps

\* Mutants: PushLidarData signals whatever the count, or never at a zero count.
TestCountAlwaysSignals ==
  /\ ppc = "count?"
  /\ Goto("signal")
  /\ UNCHANGED <<ringVars, count, todo, dst, frame>> /\ ProducerKeeps

TestCountBelowZero ==
  /\ ppc = "count?"
  /\ Goto(IF count < 0 THEN "signal" ELSE "next")
  /\ UNCHANGED <<ringVars, count, todo, dst, frame>> /\ ProducerKeeps

\* Semaphore::GetCount, an unlocked read.
TestCount ==
  /\ ppc = "count?"
  /\ Goto(IF count <= 0 THEN "signal" ELSE "next")
  /\ UNCHANGED <<ringVars, count, todo, dst, frame>> /\ ProducerKeeps

\* Semaphore::Signal; locking its mutex drains the store buffer.
Signal ==
  /\ ppc = "signal"
  /\ count' = count + 1
  /\ seen' = wr_idx
  /\ Goto("next")
  /\ UNCHANGED <<storage_packet, rd_idx, wr_idx, slot, todo, dst, frame>>
  /\ ProducerKeeps

\* The processor makes a buffered index visible (the hardware, not the code).
Flush(l) ==
  /\ seen[l] # wr_idx[l]
  /\ seen' = [seen EXCEPT ![l] = wr_idx[l]]
  /\ UNCHANGED <<storage_packet, rd_idx, wr_idx, slot, count, producerVars>>
  /\ ProducerKeeps

------------------------------------------------------------------------------
(***************************************************************************)
(* The poll thread: PointCloudDataPollThread repeats                       *)
(* DistributePointCloudData until the future is ready.                     *)
(***************************************************************************)
PollKeeps == UNCHANGED <<storage_packet, wr_idx, seen, slot, sampling, exitVars,
                         producerVars>>

DistributePointCloudData ==
  /\ cpc = "enter"
  /\ cpc' = IF request_exit THEN "future" ELSE "wait"
  /\ UNCHANGED <<rd_idx, count, cur, pkg, published, skipped>> /\ PollKeeps

Wait ==
  /\ cpc = "wait" /\ count > 0
  /\ count' = count - 1
  /\ cpc' = "scan" /\ cur' = 0
  /\ UNCHANGED <<rd_idx, pkg, published, skipped>> /\ PollKeeps

\* The loop body for a lidar that is not sampling.
SkipLidar ==
  /\ cpc = "scan" /\ cur < LidarCount /\ ~sampling[cur]
  /\ skipped' = [skipped EXCEPT ![cur] = TRUE]
  /\ cur' = cur + 1
  /\ UNCHANGED <<rd_idx, count, cpc, pkg, published>> /\ PollKeeps

\* PollingLidarPointCloudData returns at once when there is no ring yet.
PollingLidarPointCloudData ==
  /\ cpc = "scan" /\ cur < LidarCount /\ sampling[cur]
  /\ skipped' = [skipped EXCEPT ![cur] = FALSE]
  /\ IF storage_packet[cur]
       THEN cpc' = "poll" /\ cur' = cur
       ELSE cpc' = "scan" /\ cur' = cur + 1
  /\ UNCHANGED <<rd_idx, count, pkg, published>> /\ PollKeeps

ScanEnds ==
  /\ cpc = "scan" /\ cur = LidarCount
  /\ cpc' = "future"
  /\ UNCHANGED <<rd_idx, count, cur, pkg, published, skipped>> /\ PollKeeps

\* while (!IsRequestExit() && !QueueIsEmpty(p_queue))
PollLoop ==
  /\ cpc = "poll"
  /\ IF request_exit \/ PollSeesEmpty(cur)
       THEN cpc' = "scan" /\ cur' = cur + 1
       ELSE cpc' = "drain" /\ cur' = cur
  /\ UNCHANGED <<rd_idx, count, pkg, published, skipped>> /\ PollKeeps

\* while (!QueueIsEmpty(queue)), the inner loop of PublishPointcloud2 and
\* PublishCustomPointcloud.
DrainLoop ==
  /\ cpc = "drain"
  /\ cpc' = IF PollSeesEmpty(cur) THEN "poll" ELSE "head"
  /\ UNCHANGED <<rd_idx, count, cur, pkg, published, skipped>> /\ PollKeeps

\* QueuePop: QueuePrePop copies the head and the body, QueuePopUpdate frees the slot.
ReadHead ==
  /\ cpc = "head"
  /\ pkg' = [pkg EXCEPT !.head = slot[cur][SlotOf(rd_idx[cur])].head]
  /\ cpc' = "body"
  /\ UNCHANGED <<rd_idx, count, cur, published, skipped>> /\ PollKeeps

ReadBody ==
  /\ cpc = "body"
  /\ pkg' = [pkg EXCEPT !.body = slot[cur][SlotOf(rd_idx[cur])].body]
  /\ cpc' = "update"
  /\ UNCHANGED <<rd_idx, count, cur, published, skipped>> /\ PollKeeps

QueuePopUpdate ==
  /\ cpc = "update"
  /\ rd_idx' = [rd_idx EXCEPT ![cur] = Inc(@)]
  /\ cpc' = "publish"
  /\ UNCHANGED <<count, cur, pkg, published, skipped>> /\ PollKeeps

Publish ==
  /\ cpc = "publish"
  /\ published' = [published EXCEPT ![cur] = pkg]
  /\ cpc' = "drain"
  /\ UNCHANGED <<rd_idx, count, cur, pkg, skipped>> /\ PollKeeps

\* Mutant: the poll thread does not look at the future.
TestFutureIgnored ==
  /\ cpc = "future"
  /\ cpc' = "enter"
  /\ UNCHANGED <<rd_idx, count, cur, pkg, published, skipped>> /\ PollKeeps

\* status = future_.wait_for(0)
TestFuture ==
  /\ cpc = "future"
  /\ cpc' = IF exit_signal THEN "done" ELSE "enter"
  /\ UNCHANGED <<rd_idx, count, cur, pkg, published, skipped>> /\ PollKeeps

------------------------------------------------------------------------------
(***************************************************************************)
(* The other threads: the configuration callback that finds every          *)
(* parameter of l acknowledged, and ~DriverNode.                           *)
(***************************************************************************)
OthersKeep == UNCHANGED <<ringVars, count, producerVars, pollVars>>

StartSampling(l) ==
  /\ ~sampling[l]
  /\ sampling' = [sampling EXCEPT ![l] = TRUE]
  /\ UNCHANGED exitVars /\ OthersKeep

RequestExit ==
  /\ ~request_exit
  /\ request_exit' = TRUE
  /\ UNCHANGED <<exit_signal, joined, sampling>> /\ OthersKeep

SetExitSignal ==
  /\ request_exit /\ ~exit_signal
  /\ exit_signal' = TRUE
  /\ UNCHANGED <<request_exit, joined, sampling>> /\ OthersKeep

Join ==
  /\ exit_signal /\ ~joined /\ cpc = "done"
  /\ joined' = TRUE
  /\ UNCHANGED <<request_exit, exit_signal, sampling>> /\ OthersKeep

------------------------------------------------------------------------------
ProducerStep ==
  \/ StoragePointDataReturns \/ (\E l \in Lidars : PushLidarData(l))
  \/ TestFull \/ WriteHead \/ WriteBody \/ WriteIndex
  \/ TestEmpty \/ TestCount \/ Signal

PollStep ==
  \/ DistributePointCloudData \/ Wait \/ SkipLidar \/ PollingLidarPointCloudData
  \/ ScanEnds \/ PollLoop \/ DrainLoop \/ ReadHead \/ ReadBody \/ QueuePopUpdate
  \/ Publish \/ TestFuture

Next ==
  \/ StoragePointData \/ ProducerStep \/ (\E l \in Lidars : Flush(l))
  \/ PollStep
  \/ (\E l \in Lidars : StartSampling(l))
  \/ RequestExit \/ SetExitSignal \/ Join

Spec == Init /\ [][Next]_vars

\* The threads run and the processor drains its buffer; nobody promises that a
\* lidar sends frames, acknowledges its configuration, or that the node is stopped.
Fairness ==
  /\ WF_vars(ProducerStep)
  /\ WF_vars(PollStep)
  /\ \A l \in Lidars : WF_vars(Flush(l))
  /\ WF_vars(SetExitSignal) /\ WF_vars(Join)

FairSpec == Spec /\ Fairness

------------------------------------------------------------------------------
(***************************************************************************)
(* Properties.                                                             *)
(***************************************************************************)
\* Every variable has its type.
TypeOK ==
  /\ storage_packet \in [Lidars -> BOOLEAN]
  /\ rd_idx \in [Lidars -> Indices]
  /\ wr_idx \in [Lidars -> Indices]
  /\ seen \in [Lidars -> Indices]
  /\ slot \in [Lidars -> [0 .. Size - 1 -> Packets]]
  /\ count \in Nat
  /\ sampling \in [Lidars -> BOOLEAN]
  /\ request_exit \in BOOLEAN /\ exit_signal \in BOOLEAN /\ joined \in BOOLEAN
  /\ ppc \in ProducerPoints /\ todo \in SUBSET Lidars /\ dst \in Lidars
  /\ frame \in 0 .. MaxFrames
  /\ cpc \in PollPoints /\ cur \in 0 .. LidarCount /\ pkg \in Packets
  /\ published \in [Lidars -> Packets]
  /\ skipped \in [Lidars -> BOOLEAN]

\* The check-then-signal of PushLidarData never lets signals pile up: the poll
\* thread makes at most one scan per stored frame that finds nothing.
SignalsDoNotPileUp == count <= 1

\* The producer is between storing a frame for l and deciding about the signal.
ProducerWillSignal(l) == ppc \in {"empty?", "count?", "signal"} /\ dst = l

\* The current scan of the poll thread still comes to the ring of l.
ScanWillVisit(l) == cpc \in ScanPoints /\ cur <= l

\* A frame is waiting that nothing but the code's own wakeup will fetch.  With a
\* store buffer the newest frame may miss its wakeup (see the README).
Backlog(l) == QueueUsedSize(l) > (IF StoreBuffer THEN 1 ELSE 0)

\* No lost wakeup, although PushLidarData reads the semaphore's count without its
\* lock: while a sampling lidar has frames stored, a signal is pending, or the
\* producer is about to decide on one, or the running scan will still look.
\* Excepted are a lidar the scan skipped because it was not sampling yet, and
\* frames left behind on purpose once exit is requested.
NoLostWakeup ==
  \A l \in Lidars :
    (sampling[l] /\ ~skipped[l] /\ ~request_exit /\ Backlog(l)) =>
      count > 0 \/ ProducerWillSignal(l) \/ ScanWillVisit(l)

\* The two threads never touch the same slot of a ring at the same time, so that
\* the lock-free copy in QueuePrePop races with no write of QueuePushAny.
NoSlotRace ==
  (ppc \in {"head", "body"} /\ cpc \in {"head", "body", "update"} /\ dst = cur) =>
    SlotOf(wr_idx[dst]) # SlotOf(rd_idx[cur])

\* The driver's channel of whole, ordered, unduplicated frames.
InHand(l) == cpc = "publish" /\ cur = l
Channel(l) == [i \in 1 .. QueueUsedSize(l) |-> slot[l][SlotOf(rd_idx[l] + i - 1)]]
Fifo == INSTANCE FrameFifo WITH
  Capacity <- Size,
  Frames <- {[head |-> n, body |-> n] : n \in 1 .. MaxFrames},
  NoFrame <- Blank,
  channel <- [l \in Lidars |-> Channel(l)],
  hand <- [l \in Lidars |-> IF InHand(l) THEN pkg ELSE Blank],
  last <- published

\* The ring buffers and the poll loop implement FrameFifo: a frame accepted by
\* PushLidarData is published whole, once, and in order, across index wraparound.
ImplementsFifo == Fifo!FifoSpec

\* Every stored frame of a sampling lidar is eventually taken by the poll thread,
\* without the help of a further frame, unless the node is told to stop.
BacklogDrains ==
  \A l \in Lidars :
    (sampling[l] /\ ~skipped[l] /\ Backlog(l)) ~> (~Backlog(l) \/ request_exit)

\* Once ~DriverNode has set the exit signal it gets to join the poll thread, unless
\* that thread sleeps in Semaphore::Wait, which only a further frame ends.
ShutdownStopsOnlyInWait ==
  exit_signal ~> (joined \/ (cpc = "wait" /\ count = 0))
------------------------------------------------------------------------------
(***************************************************************************)
(* The inductive invariant behind SignalsDoNotPileUp and NoLostWakeup.     *)
(***************************************************************************)
\* The frames still to be stored fit in the bound.
FrameBudget == frame + Cardinality(todo) <= MaxFrames

\* Only the producer signals, so the zero it has read stays a zero.
SignalOnlyAtZero == count <= 1 /\ (ppc = "signal" => count = 0)

\* Inside the poll loop the loop index names a lidar.
CursorInLoop == cpc \in ScanPoints \ {"scan"} => cur \in Lidars

\* A ring that was never allocated is empty, and the threads write and read only an
\* allocated one; without a store buffer both threads read the same index.
RingsConsistent ==
  /\ \A l \in Lidars : ~storage_packet[l] => rd_idx[l] = wr_idx[l]
  /\ ppc \in {"full?", "head", "body", "index"} => storage_packet[dst]
  /\ cpc \in ScanPoints \ {"scan"} => storage_packet[cur]
  /\ ~StoreBuffer => seen = wr_idx

\* A ring holds at most Size frames, one less while one is being stored; the index
\* the poll thread reads lags by at most one; what it copies has been stored.
RingBound ==
  /\ \A l \in Lidars :
       /\ QueueUsedSize(l) <= Size
       /\ seen[l] = wr_idx[l] \/ (Inc(seen[l]) = wr_idx[l] /\ ~QueueIsEmpty(l))
  /\ ppc \in {"full?", "head", "body", "index"} => seen[dst] = wr_idx[dst]
  /\ ppc \in {"head", "body", "index"} => QueueUsedSize(dst) < Size
  /\ cpc \in {"head", "body", "update"} => ~PollSeesEmpty(cur)

\* NoLostWakeup with emptiness as the code tests it, for lidars that do not sample
\* yet too: only a scan that skips one gives up its wakeup.
Pending(l) == ~skipped[l] /\ ~request_exit /\ ~QueueIsEmpty(l)
WakeupCovers(l) ==
  Pending(l) => count > 0 \/ ProducerWillSignal(l) \/ ScanWillVisit(l)

IInv ==
  /\ TypeOK /\ FrameBudget /\ SignalOnlyAtZero /\ CursorInLoop /\ RingsConsistent
  /\ RingBound
  /\ ~StoreBuffer => \A l \in Lidars : WakeupCovers(l)
==============================================================================
