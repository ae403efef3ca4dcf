------------------------------ MODULE PubHandler ------------------------------
(***************************************************************************)
(* From packets to frames (livox_ros_driver2, comm/pub_handler.cpp).  The  *)
(* SDK's thread calls OnLivoxLidarPointCloudCallback for each packet and   *)
(* queues it under packet_mutex_; RawDataProcess, a thread of its own,     *)
(* appends the packet's points to its lidar's cloud and lets CheckTimer    *)
(* decide whether the cloud becomes a frame.  With synchronised clocks a   *)
(* frame closes when the newest stamp falls on a multiple of the           *)
(* publishing interval; without, when an interval of the host's clock has  *)
(* passed, and then for all lidars.  Uninit stops the thread.              *)
(*                                                                         *)
(* All points of a packet are appended before CheckTimer runs, so a cloud  *)
(* is a sequence of packets; each covers one tick of its lidar's clock,    *)
(* its stamp.  Packets are numbered per lidar to follow them.  A frame     *)
(* goes to Lds::StoragePointData (PointCloudPipeline).                     *)
(***************************************************************************)
EXTENDS Integers, Sequences, SequencesExt

CONSTANTS
  Lidars,     \* handles of the lidars on the network
  Synced,     \* lidars whose clock may be synchronised (PTP, GPS)
  Unsynced,   \* lidars that may send packets without synchronisation
  MsTicks,    \* ticks per millisecond (kRatioOfMsToNs), of packets of one lidar: several
  Interval,   \* publish_interval_, in ticks
  Deviation,  \* kNsTolerantFrameTimeDeviation, in ticks
  StartTime,  \* tick at which the driver starts
  MaxTime,    \* bound on the clock
  MixedTime,  \* bound on it when the first packet without synchronisation comes
  MixedPackets, \* bound on the packets in all, once one without synchronisation has come
  MixedTicks, \* ticks that the clock then advances at a time
  StopTime,   \* bound on the tick at which Uninit may begin
  MaxQueue    \* bound on the packets that wait in raw_packet_queue_

ASSUME PubHandlerAssumption ==
  /\ Synced \cup Unsynced = Lidars
  /\ MsTicks \in Nat \ {0, 1} /\ Interval \in Nat \ {0} /\ Interval % MsTicks = 0
  /\ Deviation \in 0 .. Interval
  /\ MaxTime \in Nat /\ StartTime \in 1 .. MaxTime /\ MixedTime \in 0 .. MaxTime
  /\ MixedPackets \in Nat /\ MixedTicks \in Nat \ {0} /\ StopTime \in Nat /\ MaxQueue \in Nat \ {0}

publish_interval_ms == Interval \div MsTicks
publish_interval_tolerance == Interval - Deviation
Times == 0 .. MaxTime
Packets == [lidar : Lidars, n : 1 .. MaxTime, stamp : 1 .. MaxTime]
NoPacket == <<>>

VARIABLES
  now,                \* the host's clock, which the synchronised lidars share
  received,           \* received[l]: packets of l the callback has accepted
  sent,               \* sent[l]: tick of the last packet of l
  rpc, incoming,      \* SDK thread: control point, packet in hand
  is_timestamp_sync,  \* PubHandler::is_timestamp_sync_, one flag for all lidars
  raw_packet_queue,   \* raw_packet_queue_
  notified,           \* packet_condition_ has been notified during the wait
  ppc, raw_data,      \* RawDataProcess: control point, packet in hand
  points,             \* points[l]: points_clouds_ of the handler of l
  first, last_pub_time, \* CheckTimer: the static first and last_pub_time_
  frame,              \* frame[l]: the last frame of l that was published
  timer_start, timer_frames, \* history: first call of the timer, frames it closed
  unsynced_seen,      \* history: a packet without synchronisation has come
  is_quit, joined     \* Uninit has begun (is_quit_), has joined the thread

timerVars == <<first, last_pub_time, timer_start, timer_frames>>
sdkVars == <<received, sent, rpc, incoming, is_timestamp_sync, unsynced_seen>>
threadVars == <<ppc, raw_data, points, frame, timerVars>>
exitVars == <<is_quit, joined>>
vars == <<now, sdkVars, raw_packet_queue, notified, threadVars, exitVars>>

\* No two neighbouring packets of a cloud have been lost.
Dense(cloud) == \A i \in 1 .. Len(cloud) - 1 : cloud[i + 1].stamp - cloud[i].stamp <= 2

\* What is kept of a frame: its first and last packet, their stamps, whether it is dense
\* and how it was closed.
NoFrame == [lo |-> 0, hi |-> 0, base |-> 0, last |-> 0, dense |-> TRUE, sync |-> FALSE]
FrameOf(cloud, sync) ==
  [lo |-> Head(cloud).n, hi |-> Last(cloud).n,
   base |-> Head(cloud).stamp, last |-> Last(cloud).stamp,
   dense |-> Dense(cloud), sync |-> sync]

Init ==
  /\ now = StartTime
  /\ received = [l \in Lidars |-> 0] /\ sent = [l \in Lidars |-> 0]
  /\ rpc = "idle" /\ incoming = NoPacket
  /\ is_timestamp_sync = FALSE
  /\ raw_packet_queue = <<>> /\ notified = FALSE
  /\ ppc = "top" /\ raw_data = NoPacket
  /\ points = [l \in Lidars |-> <<>>]
  /\ first = TRUE /\ last_pub_time = 0
  /\ frame = [l \in Lidars |-> NoFrame]
  /\ timer_start = 0 /\ timer_frames = 0
  /\ unsynced_seen = FALSE
  /\ is_quit = FALSE /\ joined = FALSE

\* The clock (not the code).  A packet not sent in its tick is lost.
Tick ==
  /\ now' = now + (IF unsynced_seen THEN MixedTicks ELSE 1)
  /\ now' <= MaxTime
  /\ UNCHANGED <<sdkVars, raw_packet_queue, notified, threadVars, exitVars>>

------------------------------------------------------------------------------
(***************************************************************************)
(* The SDK's thread: OnLivoxLidarPointCloudCallback.                       *)
(***************************************************************************)
SdkKeeps == UNCHANGED <<now, threadVars, exitVars>>

\* The bounds on packets once clocks are mixed (not the code): one more may come.
MayMix(sync) ==
  ~sync \/ unsynced_seen =>
    /\ FoldFunction(LAMBDA n, sum : n + sum, 0, received) < MixedPackets
    /\ unsynced_seen \/ now <= MixedTime

\* The callback sets the flag for all lidars and builds the packet.
OnLivoxLidarPointCloudCallback(l, sync) ==
  /\ ~is_quit /\ rpc = "idle" /\ MayMix(sync)
  /\ sent[l] < now /\ Len(raw_packet_queue) < MaxQueue
  /\ sent' = [sent EXCEPT ![l] = now]
  /\ received' = [received EXCEPT ![l] = @ + 1]
  /\ incoming' = [lidar |-> l, n |-> received[l] + 1, stamp |-> now]
  /\ is_timestamp_sync' = sync
  /\ unsynced_seen' = (unsynced_seen \/ ~sync)
  /\ rpc' = "push"
  /\ UNCHANGED <<raw_packet_queue, notified>> /\ SdkKeeps

\* An IMU packet only sets the flag here; its data go the way of ImuPipeline.
OnImuPacket(sync) ==
  /\ ~is_quit /\ rpc = "idle" /\ is_timestamp_sync # sync
  /\ (sync /\ ~unsynced_seen) \/ now <= MixedTime
  /\ is_timestamp_sync' = sync
  /\ unsynced_seen' = (unsynced_seen \/ ~sync)
  /\ UNCHANGED <<received, sent, rpc, incoming, raw_packet_queue, notified>>
  /\ SdkKeeps

\* Mutant: the callback forgets to notify.
PushPacketOnly ==
  /\ rpc = "push"
  /\ raw_packet_queue' = Append(raw_packet_queue, incoming)
  /\ incoming' = NoPacket
  /\ rpc' = "idle"
  /\ UNCHANGED <<received, sent, is_timestamp_sync, unsynced_seen, notified>>
  /\ SdkKeeps

PushPacket ==
  /\ rpc = "push"
  /\ raw_packet_queue' = Append(raw_packet_queue, incoming)
  /\ incoming' = NoPacket
  /\ rpc' = "notify"
  /\ UNCHANGED <<received, sent, is_timestamp_sync, unsynced_seen, notified>>
  /\ SdkKeeps

\* notify_one reaches the thread only while it waits.
NotifyOne ==
  /\ rpc = "notify"
  /\ notified' = (notified \/ ppc = "wait")
  /\ rpc' = "idle"
  /\ UNCHANGED <<received, sent, incoming, is_timestamp_sync, unsynced_seen,
                 raw_packet_queue>>
  /\ SdkKeeps

------------------------------------------------------------------------------
(***************************************************************************)
(* The thread RawDataProcess.                                              *)
(***************************************************************************)
ThreadKeeps == UNCHANGED <<now, sdkVars, exitVars>>
CloudsKeep == UNCHANGED <<points, frame, timerVars>>

\* while (!is_quit_.load())
LoopTest ==
  /\ ppc = "top"
  /\ ppc' = IF is_quit THEN "done" ELSE "pop"
  /\ UNCHANGED <<raw_packet_queue, notified, raw_data>> /\ CloudsKeep /\ ThreadKeeps

\* Mutant: the packet that came last is taken.
PopNewest ==
  /\ ppc = "pop" /\ raw_packet_queue # <<>>
  /\ raw_data' = Last(raw_packet_queue)
  /\ raw_packet_queue' = Front(raw_packet_queue)
  /\ ppc' = "process"
  /\ UNCHANGED notified /\ CloudsKeep /\ ThreadKeeps

\* Under packet_mutex_: take a packet, or wait, which gives the mutex back.
Pop ==
  /\ ppc = "pop" /\ raw_packet_queue # <<>>
  /\ raw_data' = Head(raw_packet_queue)
  /\ raw_packet_queue' = Tail(raw_packet_queue)
  /\ ppc' = "process"
  /\ UNCHANGED notified /\ CloudsKeep /\ ThreadKeeps

Wait ==
  /\ ppc = "pop" /\ raw_packet_queue = <<>>
  /\ ppc' = "wait" /\ notified' = FALSE
  /\ UNCHANGED <<raw_packet_queue, raw_data>> /\ CloudsKeep /\ ThreadKeeps

\* Mutant: wait instead of wait_for.
WaitReturnsWhenNotified ==
  /\ ppc = "wait" /\ notified
  /\ ppc' = IF raw_packet_queue = <<>> THEN "top" ELSE "pop"
  /\ notified' = FALSE
  /\ UNCHANGED <<raw_packet_queue, raw_data>> /\ CloudsKeep /\ ThreadKeeps

\* Mutant: break instead of continue.
WaitReturnsOrBreaks ==
  /\ ppc = "wait"
  /\ ppc' = IF raw_packet_queue = <<>> THEN "done" ELSE "pop"
  /\ notified' = FALSE
  /\ UNCHANGED <<raw_packet_queue, raw_data>> /\ CloudsKeep /\ ThreadKeeps

\* wait_for returns: notified, or after 500 ms, or spuriously.  A queue that is still
\* empty leads back to the loop test.
WaitReturns ==
  /\ ppc = "wait"
  /\ ppc' = IF raw_packet_queue = <<>> THEN "top" ELSE "pop"
  /\ notified' = FALSE
  /\ UNCHANGED <<raw_packet_queue, raw_data>> /\ CloudsKeep /\ ThreadKeeps

\* PointCloudProcess has appended the points of the packet in hand when CheckTimer
\* looks at the clouds.
Clouds ==
  IF ppc = "process" THEN [points EXCEPT ![raw_data.lidar] = Append(@, raw_data)]
                     ELSE points
GetLidarBaseTime(l) == IF Clouds[l] = <<>> THEN 0 ELSE Head(Clouds[l]).stamp
GetRecentTimeStamp(l) == IF Clouds[l] = <<>> THEN 0 ELSE Last(Clouds[l]).stamp

\* Mutant: the cloud is copied into the frame, not swapped.
PublishPointCloudCopies(S, sync) ==
  /\ points' = Clouds
  /\ frame' = [l \in Lidars |->
                 IF l \in S THEN FrameOf(Clouds[l], sync) ELSE frame[l]]

\* GetLidarPointClouds and PublishPointCloud for the lidars of S: each cloud is
\* swapped into the frame and starts again empty.
PublishPointCloud(S, sync) ==
  /\ points' = [l \in Lidars |-> IF l \in S THEN <<>> ELSE Clouds[l]]
  /\ frame' = [l \in Lidars |->
                 IF l \in S THEN FrameOf(Clouds[l], sync) ELSE frame[l]]

\* Mutant: the remainder of the stamp itself instead of its milliseconds.
IntervalReachedExactly(l) ==
  /\ GetRecentTimeStamp(l) % Interval = 0
  /\ GetRecentTimeStamp(l) - GetLidarBaseTime(l) >= publish_interval_tolerance

\* The frame of l is complete: its newest stamp lies on a multiple of the interval,
\* in milliseconds, and is far enough from its first.
IntervalReached(l) ==
  LET recent_time_ms == GetRecentTimeStamp(l) \div MsTicks
  IN  /\ recent_time_ms % publish_interval_ms = 0 /\ recent_time_ms # 0
      /\ GetRecentTimeStamp(l) - GetLidarBaseTime(l) >= publish_interval_tolerance

\* PointCloudProcess and CheckTimer, in one step: between the two the thread reads
\* nothing that others write.
ProcessPacket ==
  /\ ppc = "process" /\ ppc' = "top" /\ raw_data' = NoPacket
  /\ UNCHANGED <<raw_packet_queue, notified>> /\ ThreadKeeps

\* CheckTimer with synchronised clocks: only the lidar of this packet.
CheckTimerSync ==
  /\ is_timestamp_sync
  /\ ProcessPacket
  /\ PublishPointCloud({l \in {raw_data.lidar} : IntervalReached(l)}, TRUE)
  /\ UNCHANGED timerVars

\* CheckTimer without: the very first call starts the timer ...
CheckTimerFirst ==
  /\ ~is_timestamp_sync /\ first
  /\ ProcessPacket
  /\ first' = FALSE /\ last_pub_time' = now /\ timer_start' = now
  /\ PublishPointCloud({}, FALSE)
  /\ UNCHANGED timer_frames

\* ... and a later one closes the clouds of all lidars that have points.  The timer
\* advances by one interval, however late the call is.
TimerReached == now - last_pub_time >= Interval
TimerStays == UNCHANGED last_pub_time                       \* mutant
TimerSkips == last_pub_time' = last_pub_time + 2 * Interval   \* mutant
AdvanceTimer == last_pub_time' = last_pub_time + Interval
CheckTimerHost ==
  /\ ~is_timestamp_sync /\ ~first
  /\ ProcessPacket
  /\ IF TimerReached
       THEN /\ AdvanceTimer
            /\ timer_frames' = timer_frames + 1
            /\ PublishPointCloud({l \in Lidars : Clouds[l] # <<>>}, FALSE)
       ELSE UNCHANGED <<last_pub_time, timer_frames>> /\ PublishPointCloud({}, FALSE)
  /\ UNCHANGED <<first, timer_start>>

------------------------------------------------------------------------------
(***************************************************************************)
(* Uninit: remove the observer, request the exit, join the thread.         *)
(***************************************************************************)
UninitKeeps == UNCHANGED <<now, sdkVars, raw_packet_queue, notified, threadVars>>

\* The observer is gone before is_quit_ is set; a callback may still be running.
Uninit ==
  /\ ~is_quit /\ now <= StopTime
  /\ is_quit' = TRUE
  /\ UNCHANGED joined /\ UninitKeeps

Join ==
  /\ is_quit /\ ~joined /\ ppc = "done" /\ joined' = TRUE
  /\ UNCHANGED is_quit /\ UninitKeeps

------------------------------------------------------------------------------
SdkStep == PushPacket \/ NotifyOne
ThreadStep ==
  \/ LoopTest \/ Pop \/ Wait \/ WaitReturns
  \/ CheckTimerSync \/ CheckTimerFirst \/ CheckTimerHost

Next ==
  \/ Tick
  \/ \E l \in Synced : OnLivoxLidarPointCloudCallback(l, TRUE)
  \/ \E l \in Unsynced : OnLivoxLidarPointCloudCallback(l, FALSE)
  \/ (Synced # {} /\ OnImuPacket(TRUE))
  \/ (Unsynced # {} /\ OnImuPacket(FALSE))
  \/ SdkStep \/ ThreadStep
  \/ Uninit \/ Join

Spec == Init /\ [][Next]_vars

\* Both threads run, wait_for returns after its 500 ms at the latest, and an Uninit
\* that was begun joins; nobody promises packets or the begin of an Uninit.
FairSpec ==
  /\ Spec
  /\ WF_vars(SdkStep) /\ WF_vars(ThreadStep) /\ WF_vars(Join)

------------------------------------------------------------------------------
(***************************************************************************)
(* Properties.                                                             *)
(***************************************************************************)
\* Every variable has its type.
TypeOK ==
  /\ now \in StartTime .. MaxTime
  /\ received \in [Lidars -> Times] /\ sent \in [Lidars -> Times]
  /\ rpc \in {"idle", "push", "notify"}
  /\ incoming \in IF rpc = "push" THEN Packets ELSE {NoPacket}
  /\ is_timestamp_sync \in BOOLEAN /\ unsynced_seen \in BOOLEAN
  /\ raw_packet_queue \in Seq(Packets) /\ notified \in BOOLEAN
  /\ ppc \in {"top", "pop", "wait", "process", "done"}
  /\ raw_data \in IF ppc = "process" THEN Packets ELSE {NoPacket}
  /\ points \in [Lidars -> Seq(Packets)]
  /\ first \in BOOLEAN /\ last_pub_time \in Times
  /\ timer_start \in Times /\ timer_frames \in Times
  /\ frame \in [Lidars -> [lo : Times, hi : Times, base : Times, last : Times,
                           dense : BOOLEAN, sync : BOOLEAN]]
  /\ is_quit \in BOOLEAN /\ joined \in BOOLEAN

\* The packets of l on their way, oldest first: cloud, thread, queue, callback.  The number
\* of the last one taken from the queue, those in the queue, and of the last one put there.
InProcess(l) == ppc = "process" /\ raw_data.lidar = l
InCallback(l) == rpc = "push" /\ incoming.lidar = l
Taken(l) == frame[l].hi + Len(points[l]) + IF InProcess(l) THEN 1 ELSE 0
Waiting(l) == {i \in DOMAIN raw_packet_queue : raw_packet_queue[i].lidar = l}
Queued(l) == received[l] - IF InCallback(l) THEN 1 ELSE 0

\* Whatever the mode, however it changes, and through the swap of the clouds, each
\* packet accepted after the last published frame is on its way exactly once and in
\* order: no point is lost or doubled between the callback and the frames.
EachPacketOnce ==
  \A l \in Lidars :
    /\ \A i \in DOMAIN points[l] : points[l][i].n = frame[l].hi + i
    /\ InProcess(l) => raw_data.n = Taken(l)
    /\ {raw_packet_queue[i].n : i \in Waiting(l)} = Taken(l) + 1 .. Queued(l)
    /\ \A i, j \in Waiting(l) : i < j => raw_packet_queue[i].n < raw_packet_queue[j].n
    /\ InCallback(l) => incoming.n = received[l]
    /\ Taken(l) <= Queued(l)

\* CheckTimer looks for a stamp that falls exactly on a multiple of the interval, so
\* the frame runs on when the packets with that stamp are lost.  Packets come more
\* often than once a millisecond, and the remainder is taken of milliseconds: as long
\* as no two neighbouring packets are lost, no frame spans more than an interval and
\* the tolerance.
SingleLossIsAbsorbed ==
  \A l \in Lidars :
    (~unsynced_seen /\ frame[l].sync /\ frame[l].dense) =>
      frame[l].last - frame[l].base <= Interval + publish_interval_tolerance

\* On the host's clock the driver never publishes more frames than intervals have
\* passed, even when a backlog or a silent lidar makes it catch up.
RateBound == timer_frames * Interval <= now - timer_start

\* The thread waits without a predicate, yet no wakeup is lost: while it sleeps over
\* a packet the notification has reached it or is about to.
NoLostWakeup ==
  (ppc = "wait" /\ raw_packet_queue # <<>>) => notified \/ rpc = "notify"

\* Uninit always gets to join the thread, although nobody notifies the condition
\* variable on which it may be waiting.
UninitReturns == is_quit ~> joined

\* Every accepted packet is processed unless the driver is stopped.
PacketsAreProcessed == (raw_packet_queue # <<>>) ~> (raw_packet_queue = <<>> \/ is_quit)

\* What holds in every state of callback, queue and thread: no packet is lost or doubled,
\* and no wakeup.
PubInv == TypeOK /\ EachPacketOnce /\ NoLostWakeup

\* Frames are neither too long, on the lidar's clock, nor too many, on the host's.
FramesAreTimely == SingleLossIsAbsorbed /\ RateBound

\* The thread is never stuck in its wait, with a packet or with a stop to see.
ThreadIsNotLost == UninitReturns /\ PacketsAreProcessed
==============================================================================
