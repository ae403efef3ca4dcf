---------------------------- MODULE PubHandlerProofs ----------------------------
(***************************************************************************)
(* From packets to frames no packet is lost or doubled and no wakeup is    *)
(* lost, and frames are neither too long nor too many: for any lidars,     *)
(* clocks, intervals and queues.                                           *)
(***************************************************************************)
EXTENDS PubHandler, SequenceTheorems, TLAPS

\* A lidar sends at most one packet a tick.
SentInTime == \A l \in Lidars : received[l] <= sent[l] /\ sent[l] <= now

\* The timer has advanced by one interval for each frame it closed, and never ahead of the
\* clock.
TimerInv ==
  IF first THEN timer_frames = 0 /\ timer_start = 0
  ELSE last_pub_time = timer_start + timer_frames * Interval /\ last_pub_time <= now

TInv == TypeOK /\ SentInTime /\ TimerInv

------------------------------------------------------------------------------
(***************************************************************************)
(* Clouds and frames.                                                      *)
(***************************************************************************)
Frames == [lo : Times, hi : Times, base : Times, last : Times, dense : BOOLEAN, sync : BOOLEAN]

LEMMA CloudsType ==
  ASSUME TypeOK
  PROVE  /\ Clouds \in [Lidars -> Seq(Packets)]
         /\ ppc = "process" => /\ raw_data \in Packets /\ raw_data.lidar \in Lidars
                               /\ Clouds[raw_data.lidar] = Append(points[raw_data.lidar], raw_data)
                               /\ Clouds[raw_data.lidar] # <<>>
<1>1. points \in [Lidars -> Seq(Packets)]
  BY DEF TypeOK
<1>2. CASE ppc = "process"
  <2>1. raw_data \in Packets /\ raw_data.lidar \in Lidars
    BY <1>2 DEF TypeOK, Packets
  <2>2. Clouds = [points EXCEPT ![raw_data.lidar] = Append(@, raw_data)]
    BY <1>2 DEF Clouds
  <2>3. PICK c : c = Append(points[raw_data.lidar], raw_data)
    OBVIOUS
  <2>4. c \in Seq(Packets) /\ c # <<>>
    BY <1>1, <2>1, <2>3
  <2>5. Clouds \in [Lidars -> Seq(Packets)] /\ Clouds[raw_data.lidar] = c
    BY <1>1, <2>1, <2>2, <2>3, <2>4
  <2> QED
    BY <2>1, <2>3, <2>4, <2>5
<1> QED
  BY <1>1, <1>2 DEF Clouds

LEMMA FrameType ==
  ASSUME NEW c \in Seq(Packets), c # <<>>, NEW sync \in BOOLEAN
  PROVE  FrameOf(c, sync) \in Frames
<1>1. c[1] \in Packets /\ c[Len(c)] \in Packets /\ Head(c) = c[1]
  OBVIOUS
<1>2. Dense(c) \in BOOLEAN
  BY DEF Dense
<1>3. 1 .. MaxTime \subseteq Times
  BY PubHandlerAssumption DEF Times
<1> QED
  BY <1>1, <1>2, <1>3 DEF FrameOf, Frames, Packets, Last

LEMMA PublishType ==
  ASSUME TypeOK, NEW S \in SUBSET Lidars, NEW sync \in BOOLEAN, PublishPointCloud(S, sync),
         \A l \in S : Clouds[l] # <<>>
  PROVE  points' \in [Lidars -> Seq(Packets)] /\ frame' \in [Lidars -> Frames]
<1>1. Clouds \in [Lidars -> Seq(Packets)] /\ frame \in [Lidars -> Frames]
  BY CloudsType DEF TypeOK, Frames
<1>2. \A l \in S : FrameOf(Clouds[l], sync) \in Frames
  BY <1>1, FrameType
<1>3. <<>> \in Seq(Packets)
  OBVIOUS
<1> QED
  BY <1>1, <1>2, <1>3 DEF PublishPointCloud

CheckTimer == CheckTimerSync \/ CheckTimerFirst \/ CheckTimerHost

\* However CheckTimer decides, it publishes clouds that are not empty.
LEMMA CheckTimerPublishes ==
  ASSUME TypeOK, CheckTimer
  PROVE  /\ ProcessPacket
         /\ \E S \in SUBSET Lidars, sync \in BOOLEAN :
              PublishPointCloud(S, sync) /\ \A l \in S : Clouds[l] # <<>>
<1>1. ProcessPacket /\ ppc = "process"
  BY DEF CheckTimer, CheckTimerSync, CheckTimerFirst, CheckTimerHost, ProcessPacket
<1>2. raw_data.lidar \in Lidars /\ Clouds[raw_data.lidar] # <<>>
  BY <1>1, CloudsType
<1>3. CASE CheckTimerSync
  <2> DEFINE S == {l \in {raw_data.lidar} : IntervalReached(l)}
  <2>1. S \in SUBSET Lidars /\ \A l \in S : Clouds[l] # <<>>
    BY <1>2
  <2> QED
    BY <1>1, <1>3, <2>1 DEF CheckTimerSync
<1>4. CASE CheckTimerFirst
  <2>1. PublishPointCloud({}, FALSE)
    BY <1>4 DEF CheckTimerFirst
  <2>2. {} \in SUBSET Lidars /\ FALSE \in BOOLEAN /\ \A l \in {} : Clouds[l] # <<>>
    OBVIOUS
  <2> QED
    BY <1>1, <2>1, <2>2, Zenon
<1>5. CASE CheckTimerHost
  <2> DEFINE S == {l \in Lidars : Clouds[l] # <<>>}
  <2>1. S \in SUBSET Lidars /\ \A l \in S : Clouds[l] # <<>>
    OBVIOUS
  <2>2. PublishPointCloud(S, FALSE) \/ PublishPointCloud({}, FALSE)
    BY <1>5 DEF CheckTimerHost
  <2>3. {} \in SUBSET Lidars /\ FALSE \in BOOLEAN /\ \A l \in {} : Clouds[l] # <<>>
    OBVIOUS
  <2> HIDE DEF S
  <2> QED
    BY <1>1, <2>1, <2>2, <2>3, Zenon
<1> QED
  BY <1>3, <1>4, <1>5 DEF CheckTimer

LEMMA NextSplit ==
  ASSUME [Next]_vars
  PROVE  \/ Tick \/ Uninit \/ Join \/ UNCHANGED vars
         \/ \E l \in Lidars, sync \in BOOLEAN : OnLivoxLidarPointCloudCallback(l, sync)
         \/ \E sync \in BOOLEAN : OnImuPacket(sync)
         \/ PushPacket \/ NotifyOne \/ LoopTest \/ Pop \/ Wait \/ WaitReturns \/ CheckTimer
BY PubHandlerAssumption DEF Next, SdkStep, ThreadStep, CheckTimer

------------------------------------------------------------------------------
(***************************************************************************)
(* Types, and the pace of the timer.                                       *)
(***************************************************************************)
LEMMA TimesPositive ==
  /\ MaxTime \in Nat /\ StartTime \in 1 .. MaxTime /\ 0 \in Times
  /\ Interval \in Nat \ {0} /\ Times = 0 .. MaxTime
BY PubHandlerAssumption DEF Times

LEMMA TInvInit == Init => TInv
<1> SUFFICES ASSUME Init PROVE TInv
  OBVIOUS
<1>1. points \in [Lidars -> Seq(Packets)] /\ raw_packet_queue \in Seq(Packets)
  BY DEF Init
<1>2. NoFrame \in Frames
  BY TimesPositive DEF NoFrame, Frames
<1>3. frame \in [Lidars -> Frames]
  BY <1>2 DEF Init
<1>4. SentInTime /\ TimerInv
  BY TimesPositive DEF Init, SentInTime, TimerInv
<1>5. received \in [Lidars -> Times] /\ sent \in [Lidars -> Times] /\ now \in StartTime .. MaxTime
  BY TimesPositive DEF Init
<1>6. /\ incoming \in IF rpc = "push" THEN Packets ELSE {NoPacket}
      /\ raw_data \in IF ppc = "process" THEN Packets ELSE {NoPacket}
      /\ rpc = "idle" /\ ppc = "top"
  BY DEF Init
<1>7. {is_timestamp_sync, unsynced_seen, notified, first, is_quit, joined} \subseteq BOOLEAN
      /\ {last_pub_time, timer_start, timer_frames} \subseteq Times
  BY TimesPositive DEF Init
<1> QED
  BY <1>1, <1>3, <1>4, <1>5, <1>6, <1>7 DEF TInv, TypeOK, Frames

LEMMA CheckTimerClock == CheckTimer => now' = now
BY DEF CheckTimer, CheckTimerSync, CheckTimerFirst, CheckTimerHost, ProcessPacket, ThreadKeeps

LEMMA ClockStep ==
  ASSUME now \in StartTime .. MaxTime, [Next]_vars
  PROVE  /\ now' \in StartTime .. MaxTime /\ now <= now'
         /\ now \in Nat /\ now' \in Nat /\ now \in Times /\ now' \in Times
<1>1. now' = now \/ Tick
  BY NextSplit, CheckTimerClock DEF Uninit, Join, vars, UninitKeeps, OnLivoxLidarPointCloudCallback, OnImuPacket,
         PushPacket, NotifyOne, SdkKeeps, LoopTest, Pop, Wait, WaitReturns, ThreadKeeps
<1>2. ASSUME Tick PROVE now' \in Nat /\ now < now' /\ now' <= MaxTime
  <2>1. \E n \in Nat \ {0} : now' = now + n
    BY <1>2, PubHandlerAssumption DEF Tick
  <2> QED
    BY <1>2, <2>1, PubHandlerAssumption DEF Tick
<1> QED
  BY <1>1, <1>2, TimesPositive

\* The timer closes no more frames than intervals have passed.
LEMMA TimerInvStep ==
  ASSUME TInv, [Next]_vars
  PROVE  TimerInv' /\ last_pub_time' \in Times /\ timer_start' \in Times /\ first' \in BOOLEAN
         /\ timer_frames' \in Nat
<1>0. /\ now \in Nat /\ now \in Times /\ now <= now' /\ now' \in Nat
      /\ last_pub_time \in Times /\ timer_start \in Times /\ timer_frames \in Times
      /\ first \in BOOLEAN
  BY ClockStep DEF TInv, TypeOK
<1>1. CASE UNCHANGED timerVars
  BY <1>0, <1>1, TimesPositive DEF TInv, TimerInv, timerVars
<1>2. CASE CheckTimerFirst
  <2>1. /\ first' = FALSE /\ last_pub_time' = now /\ timer_start' = now
        /\ timer_frames' = timer_frames /\ first
    BY <1>2 DEF CheckTimerFirst
  <2>2. timer_frames' = 0
    BY <2>1 DEF TInv, TimerInv
  <2>3. timer_frames' * Interval = 0
    BY <2>2, TimesPositive
  <2> QED
    <3>1. last_pub_time' = timer_start' + timer_frames' * Interval
      BY <1>0, <2>1, <2>3
    <3>2. TimerInv'
      BY <1>0, <2>1, <3>1 DEF TimerInv
    <3> QED
      <4>1. first' \in BOOLEAN
        BY <2>1, Zenon
      <4> QED
        BY <1>0, <2>1, <2>2, <3>2, <4>1
<1>3. CASE CheckTimerHost /\ TimerReached
  <2>1. /\ ~first /\ first' = first /\ last_pub_time' = last_pub_time + Interval
        /\ timer_start' = timer_start /\ timer_frames' = timer_frames + 1
        /\ now - last_pub_time >= Interval /\ now' = now
    BY <1>3 DEF CheckTimerHost, AdvanceTimer, TimerReached, ProcessPacket, ThreadKeeps
  <2>2. last_pub_time = timer_start + timer_frames * Interval
    BY <2>1 DEF TInv, TimerInv
  <2>3. timer_frames \in Int /\ Interval \in Int /\ timer_start \in Int
    BY <1>0, TimesPositive
  <2>4. (timer_frames + 1) * Interval = timer_frames * Interval + Interval
    BY <2>3
  <2>5. timer_frames * Interval \in Int
    BY <2>3
  <2>6. last_pub_time' = timer_start' + timer_frames' * Interval
    BY <2>1, <2>2, <2>3, <2>4, <2>5
  <2>7. last_pub_time' <= now /\ last_pub_time' \in Times
    BY <1>0, <2>1, TimesPositive
  <2> QED
    BY <1>0, <2>1, <2>6, <2>7, TimesPositive DEF TimerInv
<1>4. CASE CheckTimerHost /\ ~TimerReached
  BY <1>1, <1>4 DEF CheckTimerHost, timerVars
<1> QED
  BY <1>1, <1>2, <1>3, <1>4, NextSplit
     DEF Tick, Uninit, Join, vars, UninitKeeps, OnLivoxLidarPointCloudCallback, OnImuPacket,
         PushPacket, NotifyOne, SdkKeeps, LoopTest, Pop, Wait, WaitReturns, threadVars,
         CloudsKeep, CheckTimer, CheckTimerSync

LEMMA FramesPerTime ==
  ASSUME NEW f \in Nat, NEW start \in Nat, NEW time \in Nat, start + f * Interval <= time
  PROVE  f * Interval <= time - start /\ f <= time
<1>1. Interval \in Nat /\ Interval >= 1 /\ f * Interval \in Nat
  BY TimesPositive
<1>2. f * Interval = f * (Interval - 1) + f /\ f * (Interval - 1) \in Nat
  BY <1>1
<1>3. f * Interval >= f
  BY <1>1, <1>2
<1> QED
  BY <1>1, <1>3

LEMMA TInvStep ==
  ASSUME TInv, [Next]_vars
  PROVE  TInv'
<1>0. /\ TypeOK /\ SentInTime
      /\ TimerInv' /\ last_pub_time' \in Times /\ timer_start' \in Times /\ first' \in BOOLEAN
      /\ timer_frames' \in Nat
  BY TimerInvStep DEF TInv
<1>1. /\ now' \in StartTime .. MaxTime /\ now <= now'
      /\ now \in Nat /\ now' \in Nat /\ now \in Times /\ now' \in Times
  BY <1>0, ClockStep DEF TypeOK
<1>2. timer_frames' \in Times
  <2>1. CASE first'
    BY <1>0, <2>1, TimesPositive DEF TimerInv
  <2>2. CASE ~first'
    <3>1. timer_start' \in Nat /\ timer_start' + timer_frames' * Interval <= now'
      BY <1>0, <2>2, TimesPositive DEF TimerInv
    <3>2. timer_frames' <= now'
      BY <1>0, <1>1, <3>1, FramesPerTime
    <3> QED
      BY <1>0, <1>1, <3>2, TimesPositive
  <2> QED
    BY <2>1, <2>2
<1> DEFINE Sdk == /\ received \in [Lidars -> Times] /\ sent \in [Lidars -> Times]
                  /\ rpc \in {"idle", "push", "notify"}
                  /\ incoming \in IF rpc = "push" THEN Packets ELSE {NoPacket}
                  /\ is_timestamp_sync \in BOOLEAN /\ unsynced_seen \in BOOLEAN
           Thread == /\ ppc \in {"top", "pop", "wait", "process", "done"}
                     /\ raw_data \in IF ppc = "process" THEN Packets ELSE {NoPacket}
                     /\ points \in [Lidars -> Seq(Packets)] /\ frame \in [Lidars -> Frames]
           Other == /\ raw_packet_queue \in Seq(Packets) /\ notified \in BOOLEAN
                    /\ is_quit \in BOOLEAN /\ joined \in BOOLEAN
<1>3. Sdk /\ Thread /\ Other
  BY <1>0 DEF TypeOK, Frames
<1>4. SUFFICES Sdk' /\ Thread' /\ Other' /\ SentInTime'
  BY <1>0, <1>1, <1>2 DEF TInv, TypeOK, Frames
<1>5. CASE Tick \/ Uninit \/ Join \/ UNCHANGED vars
  <2>1. UNCHANGED <<sdkVars, raw_packet_queue, notified, ppc, raw_data, points, frame>>
    BY <1>5 DEF Tick, Uninit, Join, UninitKeeps, vars, threadVars
  <2>2. is_quit' \in BOOLEAN /\ joined' \in BOOLEAN
    BY <1>3, <1>5 DEF Tick, Uninit, Join, vars, exitVars
  <2>3. SentInTime'
    <3> SUFFICES ASSUME NEW l \in Lidars PROVE received[l] <= sent[l] /\ sent[l] <= now'
      BY <2>1 DEF SentInTime, sdkVars
    <3>1. sent[l] <= now /\ received[l] <= sent[l] /\ sent[l] \in Nat
      BY <1>0, <1>3, TimesPositive DEF SentInTime
    <3> QED
      BY <1>1, <3>1
  <2> QED
    BY <1>3, <2>1, <2>2, <2>3 DEF sdkVars
<1>6. ASSUME NEW l \in Lidars, NEW sync \in BOOLEAN, OnLivoxLidarPointCloudCallback(l, sync)
      PROVE  Sdk' /\ Thread' /\ Other' /\ SentInTime'
  <2>1. Thread' /\ Other'
    BY <1>3, <1>6 DEF OnLivoxLidarPointCloudCallback, SdkKeeps, threadVars, exitVars
  <2>2. /\ received[l] \in Times /\ sent[l] \in Times /\ received[l] <= sent[l]
        /\ sent[l] < now /\ now \in 1 .. MaxTime /\ now' = now
    BY <1>0, <1>6, TimesPositive DEF OnLivoxLidarPointCloudCallback, SdkKeeps, SentInTime, TypeOK
  <2>3. received[l] + 1 \in 1 .. MaxTime /\ received[l] + 1 <= now /\ now \in Times
    BY <2>2, TimesPositive
  <2>4. incoming' \in Packets
    BY <1>6, <2>2, <2>3 DEF OnLivoxLidarPointCloudCallback, Packets
  <2>5. received' \in [Lidars -> Times] /\ sent' \in [Lidars -> Times] /\ rpc' = "push"
    BY <1>3, <1>6, <2>3, TimesPositive DEF OnLivoxLidarPointCloudCallback
  <2>6. is_timestamp_sync' \in BOOLEAN /\ unsynced_seen' \in BOOLEAN
    BY <1>3, <1>6 DEF OnLivoxLidarPointCloudCallback
  <2>7. SentInTime'
    BY <1>0, <1>3, <1>6, <2>2, <2>3 DEF OnLivoxLidarPointCloudCallback, SentInTime
  <2> QED
    BY <2>1, <2>4, <2>5, <2>6, <2>7
<1>7. ASSUME NEW sync \in BOOLEAN, OnImuPacket(sync)
      PROVE  Sdk' /\ Thread' /\ Other' /\ SentInTime'
  <2>1. is_timestamp_sync' \in BOOLEAN /\ unsynced_seen' \in BOOLEAN
    BY <1>3, <1>7 DEF OnImuPacket
  <2> QED
    BY <1>0, <1>3, <1>7, <2>1 DEF OnImuPacket, SdkKeeps, threadVars, exitVars, SentInTime
<1>8. CASE PushPacket
  <2>1. raw_packet_queue' \in Seq(Packets)
    BY <1>3, <1>8 DEF PushPacket
  <2> QED
    BY <1>0, <1>3, <1>8, <2>1 DEF PushPacket, SdkKeeps, threadVars, exitVars, SentInTime
<1>9. CASE NotifyOne
  <2>1. notified' \in BOOLEAN
    BY <1>3, <1>9 DEF NotifyOne
  <2> QED
    BY <1>0, <1>3, <1>9, <2>1 DEF NotifyOne, SdkKeeps, threadVars, exitVars, SentInTime
<1>10. CASE LoopTest \/ Wait \/ WaitReturns
  <2>1. notified' \in BOOLEAN
    BY <1>3, <1>10 DEF LoopTest, Wait, WaitReturns
  <2> QED
    BY <1>0, <1>3, <1>10, <2>1
       DEF LoopTest, Wait, WaitReturns, CloudsKeep, ThreadKeeps, sdkVars, exitVars, SentInTime
<1>11. CASE Pop
  <2>1. raw_packet_queue' \in Seq(Packets) /\ raw_data' \in Packets
    BY <1>3, <1>11 DEF Pop
  <2> QED
    BY <1>0, <1>3, <1>11, <2>1 DEF Pop, CloudsKeep, ThreadKeeps, sdkVars, exitVars, SentInTime
<1>12. CASE CheckTimer
  <2>1. ProcessPacket /\ points' \in [Lidars -> Seq(Packets)] /\ frame' \in [Lidars -> Frames]
    BY <1>0, <1>12, CheckTimerPublishes, PublishType
  <2> QED
    BY <1>0, <1>3, <2>1 DEF ProcessPacket, ThreadKeeps, sdkVars, exitVars, SentInTime
<1> QED
  BY <1>5, <1>6, <1>7, <1>8, <1>9, <1>10, <1>11, <1>12, NextSplit

------------------------------------------------------------------------------
(***************************************************************************)
(* Each packet once, and each wakeup.                                      *)
(***************************************************************************)
\* EachPacketOnce for one lidar.
Once(l) ==
  /\ \A i \in DOMAIN points[l] : points[l][i].n = frame[l].hi + i
  /\ InProcess(l) => raw_data.n = Taken(l)
  /\ {raw_packet_queue[i].n : i \in Waiting(l)} = Taken(l) + 1 .. Queued(l)
  /\ \A i, j \in Waiting(l) : i < j => raw_packet_queue[i].n < raw_packet_queue[j].n
  /\ InCallback(l) => incoming.n = received[l]
  /\ Taken(l) <= Queued(l)

LEMMA OnceIs == EachPacketOnce <=> \A l \in Lidars : Once(l)
BY DEF EachPacketOnce, Once

\* What the numbers of one lidar's packets are.
LEMMA NumbersType ==
  ASSUME TypeOK, NEW l \in Lidars
  PROVE  /\ frame[l].hi \in Nat /\ received[l] \in Nat /\ points[l] \in Seq(Packets)
         /\ Len(points[l]) \in Nat /\ Taken(l) \in Nat /\ Queued(l) \in Int
         /\ raw_packet_queue \in Seq(Packets)
         /\ \A i \in DOMAIN raw_packet_queue :
              raw_packet_queue[i].n \in Nat /\ raw_packet_queue[i].lidar \in Lidars
<1>1. frame[l] \in Frames /\ points[l] \in Seq(Packets) /\ received[l] \in Times
      /\ raw_packet_queue \in Seq(Packets)
  BY DEF TypeOK, Frames
<1>2. \A i \in DOMAIN raw_packet_queue : raw_packet_queue[i] \in Packets
  BY <1>1
<1>3. frame[l].hi \in Nat /\ received[l] \in Nat /\ Len(points[l]) \in Nat
  BY <1>1, TimesPositive DEF Frames
<1>4. Taken(l) \in Nat /\ Queued(l) \in Int
  BY <1>3 DEF Taken, Queued
<1>5. \A p \in Packets : p.n \in Nat /\ p.lidar \in Lidars
  BY TimesPositive DEF Packets
<1> QED
  BY <1>1, <1>2, <1>3, <1>4, <1>5

\* Steps that leave packets and frames where they are.
LEMMA OnceSame ==
  ASSUME UNCHANGED <<points, frame, raw_packet_queue, received, raw_data, incoming>>,
         ppc = "process" <=> ppc' = "process", rpc = "push" <=> rpc' = "push",
         NEW l \in Lidars, Once(l)
  PROVE  Once(l)'
BY DEF Once, InProcess, InCallback, Taken, Waiting, Queued

LEMMA OnceAccepted ==
  ASSUME TypeOK, NEW k \in Lidars, NEW sync \in BOOLEAN, OnLivoxLidarPointCloudCallback(k, sync),
         NEW l \in Lidars, Once(l)
  PROVE  Once(l)'
<1>1. /\ rpc = "idle" /\ rpc' = "push" /\ received' = [received EXCEPT ![k] = @ + 1]
      /\ incoming'.lidar = k /\ incoming'.n = received[k] + 1
      /\ UNCHANGED <<points, frame, raw_packet_queue, ppc, raw_data>>
  BY DEF OnLivoxLidarPointCloudCallback, SdkKeeps, threadVars
<1>2. received \in [Lidars -> Times] /\ received[l] \in Nat
  BY TimesPositive DEF TypeOK
<1>3. /\ InProcess(l)' = InProcess(l) /\ Taken(l)' = Taken(l) /\ Waiting(l)' = Waiting(l)
      /\ ~InCallback(l) /\ (InCallback(l)' <=> l = k)
  BY <1>1 DEF InProcess, Taken, Waiting, InCallback
<1>4. received'[l] = IF l = k THEN received[l] + 1 ELSE received[l]
  BY <1>1, <1>2
<1>5. Queued(l)' = Queued(l)
  BY <1>2, <1>3, <1>4 DEF Queued
<1> QED
  BY <1>1, <1>2, <1>3, <1>4, <1>5 DEF Once

LEMMA OncePushed ==
  ASSUME TypeOK, PushPacket, NEW l \in Lidars, Once(l)
  PROVE  Once(l)'
<1> DEFINE q == raw_packet_queue
<1>1. /\ rpc = "push" /\ rpc' = "notify" /\ q' = Append(q, incoming)
      /\ UNCHANGED <<points, frame, received, ppc, raw_data>>
  BY DEF PushPacket, SdkKeeps, threadVars
<1>2. incoming \in Packets
  BY <1>1 DEF TypeOK
<1>3. /\ q \in Seq(Packets) /\ Len(q) \in Nat /\ DOMAIN q = 1 .. Len(q)
      /\ \A i \in DOMAIN q : q[i].n \in Nat
      /\ received[l] \in Nat /\ Taken(l) \in Nat /\ Queued(l) \in Int
  BY NumbersType
<1>4. /\ DOMAIN q' = 1 .. Len(q) + 1 /\ q'[Len(q) + 1] = incoming
      /\ \A i \in 1 .. Len(q) : q'[i] = q[i]
  BY <1>1, <1>2, <1>3
<1>5. InProcess(l)' = InProcess(l) /\ Taken(l)' = Taken(l) /\ ~InCallback(l)'
  BY <1>1 DEF InProcess, Taken, InCallback
<1>6. Queued(l)' = received[l]
  BY <1>1, <1>3, <1>5 DEF Queued
<1>7. CASE incoming.lidar = l
  <2>1. InCallback(l) /\ incoming.n = received[l] /\ Queued(l) = received[l] - 1
    BY <1>1, <1>7 DEF Once, InCallback, Queued
  <2>2. Waiting(l)' = Waiting(l) \cup {Len(q) + 1}
    BY <1>3, <1>4, <1>7 DEF Waiting
  <2>3. Waiting(l) \subseteq 1 .. Len(q)
    BY <1>3 DEF Waiting
  <2>4. {q'[i].n : i \in Waiting(l)'} = {q[i].n : i \in Waiting(l)} \cup {received[l]}
    BY <1>3, <1>4, <2>1, <2>2, <2>3
  <2>5. (Taken(l) + 1 .. Queued(l)) \cup {received[l]} = Taken(l) + 1 .. received[l]
    BY <1>3, <2>1 DEF Once
  <2>6. \A i \in Waiting(l) : q[i].n < received[l]
    BY <1>3, <2>1, <2>3 DEF Once
  <2>7. \A i, j \in Waiting(l)' : i < j => q'[i].n < q'[j].n
    BY <1>3, <1>4, <2>1, <2>2, <2>3, <2>6 DEF Once
  <2> QED
    <3>1. {q'[i].n : i \in Waiting(l)'} = Taken(l)' + 1 .. Queued(l)'
      BY <1>5, <1>6, <2>4, <2>5 DEF Once
    <3>2. Taken(l)' <= Queued(l)'
      BY <1>3, <1>5, <1>6, <2>1 DEF Once
    <3> QED
      BY <1>1, <1>5, <2>7, <3>1, <3>2 DEF Once
<1>8. CASE incoming.lidar # l
  <2>1. ~InCallback(l) /\ Queued(l) = received[l]
    BY <1>3, <1>8 DEF InCallback, Queued
  <2>2. Waiting(l)' = Waiting(l) /\ Waiting(l) \subseteq 1 .. Len(q)
    BY <1>3, <1>4, <1>8 DEF Waiting
  <2>3. {q'[i].n : i \in Waiting(l)'} = {q[i].n : i \in Waiting(l)}
    BY <1>4, <2>2
  <2>4. \A i, j \in Waiting(l)' : i < j => q'[i].n < q'[j].n
    BY <1>4, <2>2 DEF Once
  <2> QED
    BY <1>1, <1>3, <1>5, <1>6, <2>1, <2>3, <2>4 DEF Once
<1> QED
  BY <1>7, <1>8

LEMMA OncePopped ==
  ASSUME TypeOK, Pop, NEW l \in Lidars, Once(l)
  PROVE  Once(l)'
<1> DEFINE q == raw_packet_queue
<1>1. /\ ppc = "pop" /\ ppc' = "process" /\ q # <<>> /\ q' = Tail(q) /\ raw_data' = Head(q)
      /\ UNCHANGED <<points, frame, received, rpc, incoming>>
  BY DEF Pop, CloudsKeep, ThreadKeeps, sdkVars
<1>2. /\ q \in Seq(Packets) /\ Len(q) \in Nat /\ DOMAIN q = 1 .. Len(q)
      /\ \A i \in DOMAIN q : q[i].n \in Nat
      /\ received[l] \in Nat /\ Taken(l) \in Nat /\ Queued(l) \in Int
      /\ frame[l].hi \in Nat /\ Len(points[l]) \in Nat
  BY NumbersType
<1>3. /\ Len(q) >= 1 /\ raw_data' = q[1] /\ DOMAIN q' = 1 .. Len(q) - 1
      /\ \A i \in 1 .. Len(q) - 1 : q'[i] = q[i + 1]
  BY <1>1, <1>2
<1>4. InCallback(l)' = InCallback(l) /\ Queued(l)' = Queued(l) /\ ~InProcess(l)
      /\ (InProcess(l)' <=> q[1].lidar = l)
  BY <1>1, <1>3 DEF InCallback, Queued, InProcess
<1>5. Waiting(l)' = {i \in 1 .. Len(q) - 1 : q[i + 1].lidar = l}
  BY <1>3 DEF Waiting
<1>6. Waiting(l) = {i \in 1 .. Len(q) : q[i].lidar = l}
  BY <1>2 DEF Waiting
<1>7. \A i, j \in Waiting(l)' : i < j => q'[i].n < q'[j].n
  <2> SUFFICES ASSUME NEW i \in Waiting(l)', NEW j \in Waiting(l)', i < j
               PROVE  q'[i].n < q'[j].n
    OBVIOUS
  <2>1. i + 1 \in Waiting(l) /\ j + 1 \in Waiting(l) /\ i + 1 < j + 1
        /\ q'[i] = q[i + 1] /\ q'[j] = q[j + 1]
    BY <1>2, <1>3, <1>5, <1>6
  <2> QED
    BY <2>1 DEF Once
<1>8. CASE q[1].lidar = l
  <2>1. 1 \in Waiting(l)
    BY <1>3, <1>2, <1>6, <1>8
  <2>2. q[1].n \in Taken(l) + 1 .. Queued(l)
    BY <2>1 DEF Once
  <2>3. PICK i \in Waiting(l) : q[i].n = Taken(l) + 1
    <3>1. Taken(l) + 1 \in Taken(l) + 1 .. Queued(l)
      BY <1>2, <2>2
    <3> QED
      BY <3>1 DEF Once
  <2>4. i = 1 \/ q[1].n < q[i].n
    BY <1>2, <1>6, <2>1 DEF Once
  <2>5. q[1].n = Taken(l) + 1
    BY <1>2, <2>2, <2>3, <2>4
  <2>6. Taken(l)' = Taken(l) + 1
    BY <1>1, <1>2, <1>4, <1>8 DEF Taken
  <2>7. {q'[j].n : j \in Waiting(l)'} = Taken(l) + 2 .. Queued(l)
    <3>1. ASSUME NEW j \in Waiting(l)' PROVE q'[j].n \in Taken(l) + 2 .. Queued(l)
      <4>1. j + 1 \in Waiting(l) /\ q'[j] = q[j + 1] /\ 1 < j + 1
        BY <1>2, <1>3, <1>5, <1>6
      <4>2. q[1].n < q[j + 1].n /\ q[j + 1].n \in Taken(l) + 1 .. Queued(l)
        BY <2>1, <4>1 DEF Once
      <4> QED
        BY <1>2, <2>5, <4>1, <4>2
    <3>2. ASSUME NEW n \in Taken(l) + 2 .. Queued(l)
          PROVE  \E j \in Waiting(l)' : n = q'[j].n
      <4>1. n \in Taken(l) + 1 .. Queued(l) /\ n # Taken(l) + 1
        BY <1>2
      <4>2. PICK j \in Waiting(l) : q[j].n = n
        BY <4>1 DEF Once
      <4>3. j # 1
        BY <2>5, <4>1, <4>2
      <4>4. j - 1 \in Waiting(l)' /\ q'[j - 1] = q[j]
        <5>1. j \in 1 .. Len(q) /\ q[j].lidar = l /\ Len(q) \in Nat
          BY <1>2, <1>6
        <5>2. j - 1 \in 1 .. Len(q) - 1 /\ (j - 1) + 1 = j
          BY <4>3, <5>1
        <5>3. q'[j - 1] = q[j]
          BY <1>3, <5>2
        <5> QED
          BY <1>5, <5>1, <5>2, <5>3
      <4> QED
        BY <4>2, <4>4
    <3> QED
      BY <3>1, <3>2
  <2>8. Taken(l)' <= Queued(l)'
    BY <1>2, <1>4, <2>2, <2>6
  <2>9. raw_data'.n = Taken(l)'
    BY <1>3, <2>5, <2>6
  <2>10. Taken(l)' + 1 .. Queued(l)' = Taken(l) + 2 .. Queued(l)
    BY <1>2, <1>4, <2>6
  <2> QED
    BY <1>1, <1>4, <1>7, <2>7, <2>8, <2>9, <2>10 DEF Once
<1>9. CASE q[1].lidar # l
  <2>1. Taken(l)' = Taken(l) /\ ~InProcess(l)'
    BY <1>1, <1>4, <1>9 DEF Taken
  <2>2. {q'[j].n : j \in Waiting(l)'} = {q[i].n : i \in Waiting(l)}
    <3>1. ASSUME NEW j \in Waiting(l)' PROVE \E i \in Waiting(l) : q'[j].n = q[i].n
      BY <1>2, <1>3, <1>5, <1>6
    <3>2. ASSUME NEW i \in Waiting(l) PROVE \E j \in Waiting(l)' : q[i].n = q'[j].n
      <4>1. i # 1 /\ i \in 1 .. Len(q)
        BY <1>6, <1>9
      <4>2. i - 1 \in Waiting(l)' /\ q'[i - 1] = q[i]
        <5>1. q[i].lidar = l /\ Len(q) \in Nat
          BY <1>2, <1>6
        <5>2. i - 1 \in 1 .. Len(q) - 1 /\ (i - 1) + 1 = i
          BY <4>1, <5>1
        <5>3. q'[i - 1] = q[i]
          BY <1>3, <5>2
        <5> QED
          BY <1>5, <5>1, <5>2, <5>3
      <4> QED
        BY <4>2
    <3> QED
      BY <3>1, <3>2
  <2> QED
    BY <1>1, <1>4, <1>7, <2>1, <2>2 DEF Once
<1> QED
  BY <1>8, <1>9

LEMMA OnceProcessed ==
  ASSUME TypeOK, ProcessPacket, NEW S \in SUBSET Lidars, NEW sync \in BOOLEAN,
         PublishPointCloud(S, sync), \A k \in S : Clouds[k] # <<>>, NEW l \in Lidars, Once(l)
  PROVE  Once(l)'
<1> DEFINE c == Clouds[l]
<1>1. /\ ppc = "process" /\ ppc' = "top"
      /\ UNCHANGED <<raw_packet_queue, received, rpc, incoming>>
  BY DEF ProcessPacket, ThreadKeeps, sdkVars
<1>2. /\ points[l] \in Seq(Packets) /\ raw_data \in Packets /\ points \in [Lidars -> Seq(Packets)]
      /\ frame[l].hi \in Nat /\ Len(points[l]) \in Nat /\ received[l] \in Nat
      /\ frame \in [Lidars -> Frames] /\ raw_data.lidar \in Lidars
  BY <1>1, NumbersType, CloudsType DEF TypeOK, Frames
<1>3. /\ InCallback(l)' = InCallback(l) /\ Queued(l)' = Queued(l) /\ Waiting(l)' = Waiting(l)
      /\ ~InProcess(l)'
  BY <1>1 DEF InCallback, Queued, Waiting, InProcess
<1>4. c = IF raw_data.lidar = l THEN Append(points[l], raw_data) ELSE points[l]
  BY <1>1, <1>2 DEF Clouds
<1>5. /\ c \in Seq(Packets) /\ Taken(l) = frame[l].hi + Len(c)
      /\ \A i \in 1 .. Len(c) : c[i].n = frame[l].hi + i
  <2>1. CASE raw_data.lidar = l
    <3>1. InProcess(l) /\ raw_data.n = Taken(l) /\ Taken(l) = frame[l].hi + Len(points[l]) + 1
      BY <1>1, <2>1 DEF InProcess, Once, Taken
    <3>2. \A i \in 1 .. Len(points[l]) : points[l][i].n = frame[l].hi + i
      BY <1>2 DEF Once
    <3>3. /\ c \in Seq(Packets) /\ Len(c) = Len(points[l]) + 1 /\ c[Len(points[l]) + 1] = raw_data
          /\ \A i \in 1 .. Len(points[l]) : c[i] = points[l][i]
      BY <1>2, <1>4, <2>1
    <3> HIDE DEF c
    <3>0. /\ raw_data.n = frame[l].hi + Len(points[l]) + 1 /\ Taken(l) = raw_data.n
          /\ frame[l].hi \in Nat /\ Len(points[l]) \in Nat
      BY <1>2, <3>1, Zenon
    <3>4. ASSUME NEW i \in 1 .. Len(c) PROVE c[i].n = frame[l].hi + i
      <4>1. i \in 1 .. Len(points[l]) \/ i = Len(points[l]) + 1
        BY <1>2, <3>3
      <4>2. CASE i \in 1 .. Len(points[l])
        BY <3>2, <3>3, <4>2, Zenon
      <4>3. CASE i = Len(points[l]) + 1
        <5>1. c[i].n = raw_data.n
          BY <3>3, <4>3
        <5> QED
          BY <3>0, <4>3, <5>1
      <4> QED
        BY <4>1, <4>2, <4>3
    <3>5. Taken(l) = frame[l].hi + Len(c)
      BY <3>0, <3>3
    <3> QED
      BY <3>3, <3>4, <3>5
  <2>2. CASE raw_data.lidar # l
    <3>1. c = points[l] /\ Taken(l) = frame[l].hi + Len(points[l])
      BY <1>2, <1>4, <2>2 DEF Taken, InProcess
    <3> QED
      BY <1>2, <3>1 DEF Once
  <2> QED
    BY <2>1, <2>2
<1>6. Len(c) \in Nat
  BY <1>5
<1>7. CASE l \notin S
  <2>1. points'[l] = c /\ frame'[l] = frame[l]
    BY <1>7 DEF PublishPointCloud
  <2>2. Taken(l)' = Taken(l)
    BY <1>2, <1>3, <1>5, <1>6, <2>1 DEF Taken
  <2>3. \A i \in DOMAIN points'[l] : points'[l][i].n = frame'[l].hi + i
    BY <1>5, <2>1
  <2> QED
    BY <1>1, <1>3, <2>2, <2>3 DEF Once
<1>8. CASE l \in S
  <2>1. points'[l] = <<>> /\ frame'[l] = FrameOf(c, sync)
    BY <1>8 DEF PublishPointCloud
  <2>2. frame'[l].hi = c[Len(c)].n /\ Len(c) \in 1 .. Len(c)
    <3>1. c # <<>>
      BY <1>8
    <3> QED
      BY <1>5, <1>6, <2>1, <3>1 DEF FrameOf, Last
  <2>3. frame'[l].hi = Taken(l)
    BY <1>5, <2>2
  <2>4. Taken(l)' = Taken(l)
    BY <1>2, <1>3, <1>5, <1>6, <2>1, <2>3 DEF Taken
  <2>5. \A i \in DOMAIN points'[l] : points'[l][i].n = frame'[l].hi + i
    BY <2>1
  <2> QED
    BY <1>1, <1>3, <2>4, <2>5 DEF Once
<1> QED
  BY <1>7, <1>8

PInv == TInv /\ EachPacketOnce /\ NoLostWakeup

LEMMA PInvInit == Init => PInv
<1> SUFFICES ASSUME Init PROVE PInv
  OBVIOUS
<1>1. TInv /\ NoLostWakeup
  BY TInvInit DEF Init, NoLostWakeup
<1>2. ASSUME NEW l \in Lidars PROVE Once(l)
  <2>1. /\ points[l] = <<>> /\ frame[l].hi = 0 /\ received[l] = 0 /\ raw_packet_queue = <<>>
        /\ ppc = "top" /\ rpc = "idle"
    BY DEF Init, NoFrame
  <2>2. Waiting(l) = {} /\ ~InProcess(l) /\ ~InCallback(l)
    BY <2>1 DEF Waiting, InProcess, InCallback
  <2>3. Taken(l) = 0 /\ Queued(l) = 0
    <3>1. Len(points[l]) = 0 /\ frame[l].hi = 0 /\ received[l] = 0
      BY <2>1
    <3> QED
      BY <2>1, <3>1 DEF Taken, Queued, InProcess, InCallback
  <2>4. \A i \in DOMAIN points[l] : points[l][i].n = frame[l].hi + i
    BY <2>1
  <2> QED
    BY <2>2, <2>3, <2>4 DEF Once
<1> QED
  BY <1>1, <1>2, OnceIs DEF PInv

LEMMA PInvStep ==
  ASSUME PInv, [Next]_vars
  PROVE  PInv'
<1>0. TInv' /\ TypeOK
  BY TInvStep DEF PInv, TInv
<1>1. NoLostWakeup'
  <2>1. CASE Tick \/ Uninit \/ Join \/ UNCHANGED vars
    BY <2>1 DEF PInv, NoLostWakeup, Tick, Uninit, Join, UninitKeeps, vars, sdkVars, threadVars
  <2>2. CASE \/ \E l \in Lidars, sync \in BOOLEAN : OnLivoxLidarPointCloudCallback(l, sync)
             \/ \E sync \in BOOLEAN : OnImuPacket(sync)
    BY <2>2 DEF PInv, NoLostWakeup, OnLivoxLidarPointCloudCallback, OnImuPacket, SdkKeeps, threadVars
  <2>3. CASE PushPacket \/ NotifyOne
    BY <2>3 DEF PInv, NoLostWakeup, PushPacket, NotifyOne, SdkKeeps, threadVars
  <2>4. CASE LoopTest \/ Pop \/ Wait \/ WaitReturns
    BY <2>4 DEF NoLostWakeup, LoopTest, Pop, Wait, WaitReturns, ThreadKeeps, sdkVars
  <2>5. CASE CheckTimer
    BY <1>0, <2>5, CheckTimerPublishes DEF NoLostWakeup, ProcessPacket
  <2> QED
    BY <2>1, <2>2, <2>3, <2>4, <2>5, NextSplit
<1>2. ASSUME NEW l \in Lidars PROVE Once(l)'
  <2>0. Once(l)
    BY OnceIs DEF PInv
  <2>1. CASE Tick \/ Uninit \/ Join \/ UNCHANGED vars
    BY <2>0, <2>1, OnceSame
       DEF Tick, Uninit, Join, UninitKeeps, vars, sdkVars, threadVars
  <2>2. CASE \E k \in Lidars, sync \in BOOLEAN : OnLivoxLidarPointCloudCallback(k, sync)
    BY <1>0, <2>0, <2>2, OnceAccepted
  <2>3. CASE \/ NotifyOne \/ \E sync \in BOOLEAN : OnImuPacket(sync)
    BY <2>0, <2>3, OnceSame DEF OnImuPacket, NotifyOne, SdkKeeps, threadVars
  <2>4. CASE PushPacket
    BY <1>0, <2>0, <2>4, OncePushed
  <2>5. CASE LoopTest \/ Wait \/ WaitReturns
    BY <2>0, <2>5, OnceSame DEF LoopTest, Wait, WaitReturns, CloudsKeep, ThreadKeeps, sdkVars
  <2>6. CASE Pop
    BY <1>0, <2>0, <2>6, OncePopped
  <2>7. CASE CheckTimer
    BY <1>0, <2>0, <2>7, CheckTimerPublishes, OnceProcessed
  <2> QED
    BY <2>1, <2>2, <2>3, <2>4, <2>5, <2>6, <2>7, NextSplit
<1>3. EachPacketOnce'
  BY <1>2 DEF EachPacketOnce, Once
<1> QED
  BY <1>0, <1>1, <1>3 DEF PInv

\* Between the callback and the frames no packet is lost, doubled or out of order, and the
\* thread never sleeps over a packet without a notification on its way, however callback,
\* thread and clock interleave and the mode changes.
THEOREM PacketsAreKept == Spec => []PubInv
<1>1. PInv => PubInv
  BY DEF PInv, TInv, PubInv
<1>2. PInv /\ [Next]_vars => PInv'
  BY PInvStep
<1> QED
  BY <1>1, <1>2, PInvInit, PTL DEF Spec

------------------------------------------------------------------------------
(***************************************************************************)
(* The length of frames.                                                   *)
(***************************************************************************)
LEMMA ProductGrows ==
  ASSUME NEW m \in Nat, NEW a \in Nat, NEW b \in Nat, a <= b
  PROVE  m * a <= m * b
<1>1. PICK d \in Nat : b = a + d
  <2>1. b - a \in Nat /\ b = a + (b - a)
    OBVIOUS
  <2> QED
    BY <2>1
<1>2. m * b = m * a + m * d /\ m * d \in Nat /\ m * a \in Nat
  BY <1>1
<1> QED
  BY <1>2

LEMMA DivMod == \A a \in Nat, m \in Nat \ {0} : /\ a \div m \in Int /\ a % m \in 0 .. m - 1
                                                 /\ a = m * (a \div m) + (a % m)
OBVIOUS

LEMMA ModOfMultiple == \A k \in Nat, m \in Nat \ {0} : (k * m) % m = 0
<1> SUFFICES ASSUME NEW k \in Nat, NEW m \in Nat \ {0} PROVE (k * m) % m = 0
  OBVIOUS
<1> QED
  OBVIOUS

\* A quotient is the only number whose multiple lies at most m below.
LEMMA QuotientIs ==
  ASSUME NEW t \in Nat, NEW m \in Nat \ {0}, NEW x \in Nat, m * x <= t, t < m * x + m
  PROVE  t \div m = x
<1> DEFINE q == t \div m
<1>1. q \in Int /\ t = m * q + (t % m) /\ t % m \in 0 .. m - 1
  BY DivMod
<1>2. q \in Nat
  OBVIOUS
<1> HIDE DEF q
<1>3. m * q \in Nat /\ m * x \in Nat /\ m * q <= t /\ t < m * q + m
  BY <1>1, <1>2
<1>4. CASE q < x
  <2>1. m * (q + 1) <= m * x
    BY <1>2, <1>4, ProductGrows
  <2>2. m * (q + 1) = m * q + m
    BY <1>2
  <2> QED
    BY <1>3, <2>1, <2>2
<1>5. CASE x < q
  <2>1. m * (x + 1) <= m * q
    BY <1>2, <1>5, ProductGrows
  <2>2. m * (x + 1) = m * x + m
    OBVIOUS
  <2> QED
    BY <1>3, <2>1, <2>2
<1> QED
  BY <1>2, <1>4, <1>5 DEF q

\* In the first millisecond of an interval CheckTimer finds the interval reached.
LEMMA FirstMillisecond ==
  ASSUME NEW t \in Nat, NEW k \in Nat \ {0}, k * Interval <= t, t < k * Interval + MsTicks
  PROVE  (t \div MsTicks) % publish_interval_ms = 0 /\ t \div MsTicks # 0
<1> DEFINE p == publish_interval_ms
<1>1. /\ MsTicks \in Nat \ {0} /\ Interval \in Nat \ {0} /\ Interval % MsTicks = 0
  BY PubHandlerAssumption
<1>2. p \in Int /\ Interval = MsTicks * p
  BY <1>1, DivMod DEF publish_interval_ms
<1>3. p \in Nat \ {0}
  BY <1>1, <1>2
<1> HIDE DEF p
<1>4. k * p \in Nat \ {0} /\ MsTicks * (k * p) = k * Interval
  BY <1>1, <1>2, <1>3
<1>5. t \div MsTicks = k * p
  BY <1>1, <1>4, QuotientIs
<1> QED
  BY <1>3, <1>4, <1>5, ModOfMultiple DEF p

LEMMA ToleranceType ==
  /\ publish_interval_tolerance \in Nat /\ Interval \in Nat \ {0} /\ MsTicks \in Nat /\ MsTicks >= 2
BY PubHandlerAssumption DEF publish_interval_tolerance

\* The newest packet of a cloud lies before every multiple of the interval that would
\* close it.
BeforeNext(c) ==
  \A k \in Nat : k * Interval >= c[1].stamp + publish_interval_tolerance =>
                   c[Len(c)].stamp < k * Interval

\* There is a multiple that closes a cloud, and it is not far.
LEMMA NextMultiple ==
  ASSUME NEW base \in Nat, base >= 1
  PROVE  \E k \in Nat \ {0} : /\ k * Interval >= base + publish_interval_tolerance
                              /\ k * Interval < base + publish_interval_tolerance + Interval
<1> DEFINE T == publish_interval_tolerance
           x == base + T + Interval - 1
           k == x \div Interval
<1>1. T \in Nat /\ Interval \in Nat \ {0} /\ x \in Nat
  BY ToleranceType
<1>2. k \in Int /\ x % Interval \in 0 .. Interval - 1 /\ x = Interval * k + (x % Interval)
  BY <1>1, DivMod
<1> HIDE DEF k, T
<1>3. k * Interval \in Int /\ k * Interval = Interval * k
  BY <1>1, <1>2
<1>4. k * Interval >= base + T /\ k * Interval < base + T + Interval
  BY <1>1, <1>2, <1>3
<1>5. k >= 1
  <2>1. k * Interval >= 1
    BY <1>1, <1>3, <1>4
  <2> QED
    BY <1>1, <1>2, <2>1
<1> QED
  BY <1>2, <1>4, <1>5 DEF T

\* A packet that follows the last one by at most two ticks, or begins the cloud.
LEMMA AppendedPacket ==
  ASSUME NEW base \in Nat, base >= 1, NEW t \in Nat, NEW k \in Nat,
         k * Interval >= base + publish_interval_tolerance,
         t < k * Interval + 2 \/ t = base, t >= k * Interval
  PROVE  /\ (t \div MsTicks) % publish_interval_ms = 0 /\ t \div MsTicks # 0
         /\ t - base >= publish_interval_tolerance
<1>1. publish_interval_tolerance \in Nat /\ Interval \in Nat \ {0} /\ MsTicks \in Nat /\ MsTicks >= 2
  BY ToleranceType
<1>2. k * Interval \in Nat /\ k * Interval >= 1
  BY <1>1
<1>3. k # 0
  BY <1>1, <1>2
<1>4. t < k * Interval + MsTicks
  BY <1>1, <1>2
<1> QED
  <2>1. k \in Nat \ {0}
    BY <1>3
  <2>2. (t \div MsTicks) % publish_interval_ms = 0 /\ t \div MsTicks # 0
    BY <1>4, <2>1, FirstMillisecond
  <2>3. t - base >= publish_interval_tolerance
    BY <1>1, <1>2
  <2> QED
    BY <2>2, <2>3

\* The test of CheckTimer on a cloud.
Reached(c) ==
  /\ (c[Len(c)].stamp \div MsTicks) % publish_interval_ms = 0
  /\ c[Len(c)].stamp \div MsTicks # 0
  /\ c[Len(c)].stamp - c[1].stamp >= publish_interval_tolerance

\* A dense cloud that gets one more packet is not too long, and if the interval is not
\* reached the packet lies before the multiple that will close it.
LEMMA AppendedCloud ==
  ASSUME NEW s \in Seq(Packets), NEW p \in Packets, NEW c, c = Append(s, p), Dense(c),
         s # <<>> /\ Dense(s) => BeforeNext(s)
  PROVE  /\ c[Len(c)].stamp - c[1].stamp <= Interval + publish_interval_tolerance
         /\ BeforeNext(c) \/ Reached(c)
<1> DEFINE base == c[1].stamp
           t == c[Len(c)].stamp
           T == publish_interval_tolerance
<1>1. /\ c \in Seq(Packets) /\ Len(c) = Len(s) + 1 /\ Len(s) \in Nat /\ c[Len(c)] = p
      /\ \A i \in 1 .. Len(s) : c[i] = s[i]
  OBVIOUS
<1>2. c[1] \in Packets
  BY <1>1
<1>3. /\ base \in Nat /\ base >= 1 /\ t \in Nat
      /\ T \in Nat /\ Interval \in Nat \ {0} /\ MsTicks \in Nat /\ MsTicks >= 2
      /\ t = p.stamp
  BY <1>1, <1>2, TimesPositive, ToleranceType DEF Packets
<1> HIDE DEF base, t, T
<1>4. ASSUME NEW k \in Nat, k * Interval >= base + T
      PROVE  t = base \/ t < k * Interval + 2
  <2>1. CASE s = <<>>
    <3>1. Len(c) = 1
      BY <1>1, <2>1
    <3> QED
      BY <3>1 DEF base, t
  <2>2. CASE s # <<>>
    <3>1. Len(s) >= 1 /\ Len(s) \in 1 .. Len(s) /\ 1 \in 1 .. Len(s)
      BY <1>1, <2>2
    <3>2. c[1] = s[1] /\ c[Len(s)] = s[Len(s)] /\ s[Len(s)] \in Packets
      BY <1>1, <3>1
    <3>3. Dense(s)
      <4> SUFFICES ASSUME NEW i \in 1 .. Len(s) - 1
                   PROVE  s[i + 1].stamp - s[i].stamp <= 2
        BY DEF Dense
      <4>1. i \in 1 .. Len(c) - 1 /\ c[i] = s[i] /\ c[i + 1] = s[i + 1]
        BY <1>1
      <4> QED
        BY <4>1 DEF Dense
    <3>4. s[Len(s)].stamp < k * Interval
      BY <1>4, <2>2, <3>2, <3>3 DEF BeforeNext, base, T
    <3>5. p.stamp - s[Len(s)].stamp <= 2
      <4>1. Len(s) \in 1 .. Len(c) - 1 /\ Len(c) = Len(s) + 1
        BY <1>1, <3>1
      <4>2. c[Len(s) + 1].stamp - c[Len(s)].stamp <= 2
        BY <4>1 DEF Dense
      <4> QED
        BY <1>1, <3>2, <4>2
    <3>6. s[Len(s)].stamp \in Int /\ p.stamp \in Int /\ k * Interval \in Int
      BY <1>3, <3>2 DEF Packets
    <3> QED
      BY <1>3, <3>4, <3>5, <3>6
  <2> QED
    BY <2>1, <2>2
<1>5. t - base <= Interval + T
  <2>1. PICK k \in Nat \ {0} : k * Interval >= base + T /\ k * Interval < base + T + Interval
    BY <1>3, NextMultiple DEF T
  <2>2. k * Interval \in Int /\ (t = base \/ t < k * Interval + 2)
    BY <1>3, <1>4, <2>1
  <2> QED
    BY <1>3, <2>1, <2>2
<1>6. ASSUME ~BeforeNext(c) PROVE Reached(c)
  <2>1. PICK k \in Nat : k * Interval >= base + T /\ ~(t < k * Interval)
    BY <1>6 DEF BeforeNext, base, t, T
  <2>2. t < k * Interval + 2 \/ t = base
    BY <1>4, <2>1
  <2>3. t >= k * Interval
    BY <1>3, <2>1
  <2>4. /\ (t \div MsTicks) % publish_interval_ms = 0 /\ t \div MsTicks # 0
        /\ t - base >= publish_interval_tolerance
    BY <1>3, <2>1, <2>2, <2>3, AppendedPacket DEF T
  <2> QED
    BY <2>4 DEF Reached, base, t
<1> QED
  BY <1>5, <1>6 DEF base, t, T

\* Until a packet without synchronisation comes, the thread finds the flag set.
InSync ==
  ~unsynced_seen =>
    is_timestamp_sync \/ (rpc = "idle" /\ raw_packet_queue = <<>> /\ ppc # "process")

\* Until then a dense cloud is not closed yet because it need not be.
CloudsAreYoung ==
  ~unsynced_seen =>
    \A l \in Lidars : points[l] # <<>> /\ Dense(points[l]) => BeforeNext(points[l])

FInv == TInv /\ InSync /\ CloudsAreYoung /\ SingleLossIsAbsorbed

LEMMA FInvInit == Init => FInv
<1> SUFFICES ASSUME Init PROVE FInv
  OBVIOUS
<1>1. InSync /\ CloudsAreYoung
  BY DEF Init, InSync, CloudsAreYoung
<1>2. SingleLossIsAbsorbed
  BY ToleranceType DEF Init, NoFrame, SingleLossIsAbsorbed
<1> QED
  BY <1>1, <1>2, TInvInit DEF FInv

LEMMA InSyncStep ==
  ASSUME TypeOK, InSync, [Next]_vars
  PROVE  InSync'
<1>1. CASE Tick \/ Uninit \/ Join \/ UNCHANGED vars
  BY <1>1 DEF InSync, Tick, Uninit, Join, UninitKeeps, vars, sdkVars, threadVars
<1>2. CASE \/ \E l \in Lidars, sync \in BOOLEAN : OnLivoxLidarPointCloudCallback(l, sync)
           \/ \E sync \in BOOLEAN : OnImuPacket(sync)
  <2>1. PICK sync \in BOOLEAN :
          is_timestamp_sync' = sync /\ unsynced_seen' = (unsynced_seen \/ ~sync)
    BY <1>2, Zenon DEF OnLivoxLidarPointCloudCallback, OnImuPacket
  <2> QED
    BY <2>1, Zenon DEF InSync
<1>3. CASE PushPacket \/ NotifyOne
  BY <1>3 DEF InSync, PushPacket, NotifyOne, SdkKeeps, threadVars
<1>4. CASE LoopTest \/ Pop \/ Wait \/ WaitReturns
  BY <1>4 DEF InSync, LoopTest, Pop, Wait, WaitReturns, ThreadKeeps, sdkVars
<1>5. CASE CheckTimer
  BY <1>5, CheckTimerPublishes DEF InSync, ProcessPacket, ThreadKeeps, sdkVars
<1> QED
  BY <1>1, <1>2, <1>3, <1>4, <1>5, NextSplit

\* CheckTimer on synchronised clocks.
LEMMA SyncedFrames ==
  ASSUME FInv, CheckTimer, ~unsynced_seen, NEW l \in Lidars
  PROVE  /\ points'[l] # <<>> /\ Dense(points'[l]) => BeforeNext(points'[l])
         /\ frame'[l].sync /\ frame'[l].dense =>
              frame'[l].last - frame'[l].base <= Interval + publish_interval_tolerance
<1>1. TypeOK /\ ppc = "process" /\ is_timestamp_sync
  BY DEF FInv, TInv, InSync, CheckTimer, CheckTimerSync, CheckTimerFirst, CheckTimerHost,
         ProcessPacket
<1> DEFINE S == {k \in {raw_data.lidar} : IntervalReached(k)}
           c == Clouds[l]
<1>2. PublishPointCloud(S, TRUE)
  BY <1>1 DEF CheckTimer, CheckTimerSync, CheckTimerFirst, CheckTimerHost
<1>3. /\ raw_data \in Packets /\ points \in [Lidars -> Seq(Packets)] /\ points[l] \in Seq(Packets)
      /\ Clouds = [points EXCEPT ![raw_data.lidar] = Append(@, raw_data)]
  BY <1>1, CloudsType DEF TypeOK, Clouds
<1>4. /\ points[l] # <<>> /\ Dense(points[l]) => BeforeNext(points[l])
      /\ frame[l].sync /\ frame[l].dense =>
           frame[l].last - frame[l].base <= Interval + publish_interval_tolerance
  BY DEF FInv, CloudsAreYoung, SingleLossIsAbsorbed
<1>5. CASE l # raw_data.lidar
  <2>1. points'[l] = points[l] /\ frame'[l] = frame[l]
    BY <1>2, <1>3, <1>5 DEF PublishPointCloud
  <2> QED
    BY <1>4, <2>1
<1>6. CASE l = raw_data.lidar
  <2>1. c = Append(points[l], raw_data) /\ c # <<>> /\ c \in Seq(Packets)
    BY <1>1, <1>6, CloudsType
  <2>2. Dense(c) => /\ c[Len(c)].stamp - c[1].stamp <= Interval + publish_interval_tolerance
                    /\ BeforeNext(c) \/ Reached(c)
    <3> HIDE DEF c
    <3> QED
      BY <1>3, <1>4, <2>1, AppendedCloud
  <2>3. IntervalReached(l) <=> Reached(c)
    <3>1. GetRecentTimeStamp(l) = c[Len(c)].stamp /\ GetLidarBaseTime(l) = c[1].stamp
      BY <2>1 DEF GetRecentTimeStamp, GetLidarBaseTime, Last
    <3> QED
      BY <3>1 DEF IntervalReached, Reached
  <2>4. l \in S <=> Reached(c)
    BY <1>6, <2>3
  <2>5. /\ points'[l] = IF l \in S THEN <<>> ELSE c
        /\ frame'[l] = IF l \in S THEN FrameOf(c, TRUE) ELSE frame[l]
    BY <1>2 DEF PublishPointCloud
  <2>6. CASE Reached(c)
    <3>1. points'[l] = <<>> /\ frame'[l] = FrameOf(c, TRUE)
      BY <2>4, <2>5, <2>6
    <3>2. /\ frame'[l].dense = Dense(c) /\ frame'[l].last = c[Len(c)].stamp
          /\ frame'[l].base = c[1].stamp
      BY <2>1, <3>1 DEF FrameOf, Last
    <3> QED
      BY <2>2, <3>1, <3>2
  <2>7. CASE ~Reached(c)
    <3>1. points'[l] = c /\ frame'[l] = frame[l]
      BY <2>4, <2>5, <2>7
    <3> QED
      BY <1>4, <2>2, <2>7, <3>1
  <2> QED
    BY <2>6, <2>7
<1> QED
  BY <1>5, <1>6

LEMMA FInvStep ==
  ASSUME FInv, [Next]_vars
  PROVE  FInv'
<1>0. TInv' /\ InSync' /\ TypeOK
  BY TInvStep, InSyncStep DEF FInv, TInv
<1>1. CASE CheckTimer
  <2>1. unsynced_seen' = unsynced_seen
    BY <1>0, <1>1, CheckTimerPublishes DEF ProcessPacket, ThreadKeeps, sdkVars
  <2>2. CloudsAreYoung' /\ SingleLossIsAbsorbed'
    BY <1>1, <2>1, SyncedFrames DEF CloudsAreYoung, SingleLossIsAbsorbed
  <2> QED
    BY <1>0, <2>2 DEF FInv
<1>2. CASE UNCHANGED <<points, frame>> /\ (unsynced_seen => unsynced_seen')
  <2>1. CloudsAreYoung'
    BY <1>2 DEF FInv, CloudsAreYoung, Dense, BeforeNext
  <2>2. SingleLossIsAbsorbed'
    BY <1>2 DEF FInv, SingleLossIsAbsorbed
  <2> QED
    BY <1>0, <2>1, <2>2 DEF FInv
<1>3. CheckTimer \/ (UNCHANGED <<points, frame>> /\ (unsynced_seen => unsynced_seen'))
  BY NextSplit
     DEF Tick, Uninit, Join, UninitKeeps, vars, sdkVars, OnLivoxLidarPointCloudCallback, OnImuPacket,
         PushPacket, NotifyOne, SdkKeeps, threadVars, LoopTest, Pop, Wait, WaitReturns, CloudsKeep,
         ThreadKeeps
<1> QED
  BY <1>1, <1>2, <1>3

\* On synchronised clocks a frame whose packets were not lost two in a row never spans more
\* than an interval and the tolerance, and on the host's clock no more frames are published
\* than intervals have passed: for any interval, tolerance and clock.
THEOREM FramesStayTimely == Spec => []FramesAreTimely
<1>1. FInv => FramesAreTimely
  <2> SUFFICES ASSUME FInv PROVE RateBound
    BY DEF FInv, FramesAreTimely
  <2>1. /\ timer_frames \in Nat /\ timer_start \in Nat /\ now \in Nat /\ TimerInv
        /\ Interval \in Nat \ {0} /\ StartTime \in Nat
    BY TimesPositive DEF FInv, TInv, TypeOK
  <2>2. CASE first
    BY <2>1, <2>2 DEF TimerInv, RateBound
  <2>3. CASE ~first
    <3>1. timer_start + timer_frames * Interval <= now
      BY <2>1, <2>3 DEF TimerInv
    <3> QED
      BY <2>1, <3>1, FramesPerTime DEF RateBound
  <2> QED
    BY <2>2, <2>3
<1>2. FInv /\ [Next]_vars => FInv'
  BY FInvStep
<1> QED
  BY <1>1, <1>2, FInvInit, PTL DEF Spec
==============================================================================
