-------------------------------- MODULE LioSync --------------------------------
(***************************************************************************)
(* The front of the FAST-LIO node: the callbacks that buffer scans and IMU *)
(* samples, sync_packages, which pairs a scan with the samples taken while *)
(* it was measured, the forward propagation of the filter over them, and   *)
(* what timer_callback then does with the scan.  One executor thread runs  *)
(* all of it, so a callback is one action; messages of the two topics      *)
(* arrive in any relative order, and a bounded queue may drop some.        *)
(*                                                                         *)
(* Time is counted in ticks.  A scan is its header stamp, the offset of    *)
(* its last point and its number of points (as if downsampling kept all).  *)
(* The node runs with the parameters of mid360.yaml: Livox messages, no    *)
(* self synchronisation, no time offset.                                   *)
(***************************************************************************)
EXTENDS Integers, Sequences, SequencesExt, FiniteSets, FiniteSetsExt

CONSTANTS
  Period,        \* ticks between the starts of two scans
  MaxTime,       \* bound on the stamps
  Sizes,         \* numbers of points a scan may have
  LoopBack,      \* whether stamps may go back (a bag played again, a clock set back)
  MaxGap,        \* most ticks between two IMU samples; more when samples get lost
  Offsets,       \* offsets the last point of a scan may have
  MAX_INI_COUNT, \* IMU samples that start the filter
  Uninitialized  \* what an uninitialized member of ImuProcess may hold

ASSUME LioAssumption ==
  /\ Period \in Nat \ {0} /\ MaxTime \in Nat /\ MAX_INI_COUNT \in Nat \ {0}
  /\ Sizes \subseteq Nat /\ Offsets \subseteq 0 .. Period
  /\ MaxGap \in Nat /\ LoopBack \in BOOLEAN
  /\ Uninitialized \subseteq Nat

VARIABLES
  lidar_buffer, time_buffer, last_timestamp_lidar, is_first_lidar,
  imu_buffer, last_timestamp_imu,
  lidar_pushed, meas, lidar_mean_scantime, scan_num,   \* sync_packages; the mean is
                   \* kept as the sum of the offsets it averages
  flg_first_scan, feats_undistort, map,   \* timer_callback; map: the scans in the ikd-tree
  init_iter_num, imu_need_init_, last_imu_, last_lidar_end_time_, \* ImuProcess
  odometry,        \* stamp of the last odometry and transform published
  done             \* what the last timer_callback did (history)

buffers == <<lidar_buffer, time_buffer, last_timestamp_lidar, is_first_lidar,
             imu_buffer, last_timestamp_imu>>
syncVars == <<lidar_pushed, meas, lidar_mean_scantime, scan_num>>
imuVars == <<init_iter_num, imu_need_init_, last_imu_, last_lidar_end_time_>>
mapVars == <<flg_first_scan, feats_undistort, map, odometry>>
vars == <<buffers, syncVars, imuVars, mapVars, done>>

\* The offset of the last point does not matter when there are no two points.
Scan == {scan \in [stamp : 0 .. MaxTime, offset : Offsets \cup {0}, size : Sizes] :
           IF scan.size <= 1 THEN scan.offset = 0 ELSE scan.offset \in Offsets}
NoScan == [stamp |-> 0, offset |-> 0, size |-> 0]
Nothing == [did |-> "nothing", stale |-> FALSE, imu |-> <<>>, from |-> 0, to |-> 0,
            undistorted |-> FALSE, again |-> FALSE, propagated |-> 0, elapsed |-> 0]

Init ==
  /\ lidar_buffer = <<>> /\ time_buffer = <<>>
  /\ last_timestamp_lidar = 0 /\ is_first_lidar = TRUE
  /\ imu_buffer = <<>> /\ last_timestamp_imu = -1
  /\ lidar_pushed = FALSE /\ lidar_mean_scantime = 0 /\ scan_num = 0
  /\ meas = [lidar |-> NoScan, beg |-> 0, end |-> 0, imu |-> <<>>]
  /\ flg_first_scan = TRUE /\ feats_undistort = NoScan /\ map = {}
  /\ init_iter_num = 1 /\ imu_need_init_ = TRUE /\ last_imu_ = 0
  /\ last_lidar_end_time_ = 0   \* not written: see LastEndTime
  /\ odometry = 0 /\ done = Nothing

------------------------------------------------------------------------------
(***************************************************************************)
(* The callbacks.                                                          *)
(***************************************************************************)
livox_pcl_cbk(scan) ==
  /\ scan.stamp % Period = 0
  /\ LoopBack \/ is_first_lidar \/ scan.stamp > last_timestamp_lidar
  /\ lidar_buffer' = Append(IF ~is_first_lidar /\ scan.stamp < last_timestamp_lidar
                              THEN <<>> ELSE lidar_buffer, scan)
  /\ time_buffer' = Append(time_buffer, scan.stamp)
  /\ last_timestamp_lidar' = scan.stamp
  /\ is_first_lidar' = FALSE
  /\ UNCHANGED <<imu_buffer, last_timestamp_imu, syncVars, imuVars, mapVars, done>>

imu_cbk(timestamp) ==
  /\ LoopBack \/ timestamp - last_timestamp_imu \in 1 .. MaxGap
  /\ imu_buffer' = Append(IF timestamp < last_timestamp_imu THEN <<>> ELSE imu_buffer,
                          timestamp)
  /\ last_timestamp_imu' = timestamp
  /\ UNCHANGED <<lidar_buffer, time_buffer, last_timestamp_lidar, is_first_lidar, syncVars,
                 imuVars, mapVars, done>>

------------------------------------------------------------------------------
(***************************************************************************)
(* sync_packages.                                                          *)
(***************************************************************************)
Mean == IF scan_num = 0 THEN 0 ELSE lidar_mean_scantime \div scan_num

\* A scan that is short against the mean is taken to have lasted the mean.
TooShort(scan) == scan.size <= 1 \/ 2 * scan.offset < Mean

EndTime(scan, beg) == beg + (IF TooShort(scan) THEN Mean ELSE scan.offset)

Scanned == lidar_buffer # <<>> /\ imu_buffer # <<>>

\* The scan is taken from the buffer once, in the first call that finds it there.
Pushed == IF lidar_pushed THEN meas
          ELSE LET scan == Head(lidar_buffer) beg == Head(time_buffer) IN
               [meas EXCEPT !.lidar = scan, !.beg = beg, !.end = EndTime(scan, beg)]

AverageScanTime ==
  IF lidar_pushed \/ TooShort(Head(lidar_buffer))
    THEN UNCHANGED <<scan_num, lidar_mean_scantime>>
    ELSE /\ scan_num' = scan_num + 1
         /\ lidar_mean_scantime' = lidar_mean_scantime + Head(lidar_buffer).offset

\* Mutant: it does not wait for the sample at the end of the scan.
ImuIsLateOffByOne == last_timestamp_imu <= Pushed.end

ImuIsLate == last_timestamp_imu < Pushed.end

\* Samples are popped up to the end of the scan: none when the first is not before
\* it, and none after one that is exactly there.
Popped(end) ==
  IF Head(imu_buffer) >= end THEN 0
  ELSE Cardinality({i \in DOMAIN imu_buffer : /\ imu_buffer[i] <= end
                                               /\ \A j \in 1 .. i - 1 : imu_buffer[j] < end})

\* sync_packages returns false.
SyncWaits ==
  /\ Scanned /\ ~lidar_pushed /\ ImuIsLate
  /\ lidar_pushed' = TRUE /\ meas' = Pushed /\ AverageScanTime
  /\ UNCHANGED <<buffers, imuVars, mapVars, done>>

\* The measurement gets the first n samples; left, times and pushed are what is left.
MeasureLeaving(left, n, times, pushed) ==
  /\ Scanned /\ ~ImuIsLate
  /\ meas' = [Pushed EXCEPT !.imu = SubSeq(imu_buffer, 1, n)]
  /\ imu_buffer' = left
  /\ lidar_buffer' = Tail(lidar_buffer) /\ time_buffer' = times
  /\ lidar_pushed' = pushed
  /\ AverageScanTime
  /\ UNCHANGED <<last_timestamp_lidar, is_first_lidar, last_timestamp_imu>>

\* Mutant: the sample is popped before it is found to lie behind the scan.
MeasurePopsFirst(n, times, pushed) ==
  MeasureLeaving(SubSeq(imu_buffer, n + 2, Len(imu_buffer)), n, times, pushed)

Measure(n, times, pushed) ==
  MeasureLeaving(SubSeq(imu_buffer, n + 1, Len(imu_buffer)), n, times, pushed)

\* Mutants: the time stays in its buffer; a sample after the scan is popped too; the
\* next scan is not pushed.
sync_packagesKeepsTime == Measure(Popped(Pushed.end), time_buffer, FALSE)
sync_packagesPopsOneMore ==
  Measure(Min({Popped(Pushed.end) + 1, Len(imu_buffer)}), Tail(time_buffer), FALSE)
sync_packagesStaysPushed == Measure(Popped(Pushed.end), Tail(time_buffer), TRUE)

\* It returns true.
sync_packages == Measure(Popped(Pushed.end), Tail(time_buffer), FALSE)

------------------------------------------------------------------------------
(***************************************************************************)
(* timer_callback.                                                         *)
(***************************************************************************)
\* What the callback has done with the measurement.
Undistorts == ~flg_first_scan /\ meas'.imu # <<>> /\ ~imu_need_init_
Did(what, propagated, elapsed) ==
  done' = [did |-> what, stale |-> feats_undistort' # meas'.lidar, imu |-> meas'.imu,
           from |-> done.to, to |-> meas'.end,
           undistorted |-> done.undistorted \/ Undistorts,
           again |-> done.undistorted /\ Undistorts,
           propagated |-> propagated, elapsed |-> elapsed]

\* From the undistorted scan on: the map is built from the first scan of more than
\* five points; scans of less than five only publish the predicted pose.
Register(propagated, elapsed) ==
  LET scan == feats_undistort' IN
  \/ /\ scan.size = 0
     /\ odometry' = meas'.end /\ UNCHANGED map
     /\ Did("no point", propagated, elapsed)
  \/ /\ scan.size > 5 /\ map = {}
     /\ map' = {scan} /\ UNCHANGED odometry
     /\ Did("build", propagated, elapsed)
  \/ /\ scan.size \in 1 .. 5 /\ map = {}
     /\ UNCHANGED <<map, odometry>>
     /\ Did("no map", propagated, elapsed)
  \/ /\ scan.size \in 1 .. 4 /\ map # {}
     /\ odometry' = meas'.end /\ UNCHANGED map
     /\ Did("few points", propagated, elapsed)
  \/ /\ scan.size >= 5 /\ map # {}
     /\ odometry' = meas'.end /\ map' = map \cup {scan}
     /\ Did("map", propagated, elapsed)

\* The first scan only gives the time the others are counted from.
FirstScan ==
  /\ flg_first_scan /\ sync_packages
  /\ flg_first_scan' = FALSE
  /\ UNCHANGED <<imuVars, feats_undistort, map, odometry>>
  /\ Did("first scan", 0, 0)

\* Process returns at once without samples: the undistorted scan is the last one.
ProcessWithoutImu ==
  /\ ~flg_first_scan /\ sync_packages /\ meas'.imu = <<>>
  /\ UNCHANGED <<flg_first_scan, feats_undistort, imuVars>>
  /\ Register(0, 0)

IMU_init ==
  /\ ~flg_first_scan /\ sync_packages /\ meas'.imu # <<>> /\ imu_need_init_
  /\ init_iter_num' = init_iter_num + Len(meas'.imu)
  /\ imu_need_init_' = (init_iter_num' <= MAX_INI_COUNT)
  /\ last_imu_' = Last(meas'.imu)
  /\ UNCHANGED <<flg_first_scan, feats_undistort, last_lidar_end_time_>>
  /\ Register(0, 0)

Abs(n) == IF n < 0 THEN -n ELSE n

\* The time the filter is propagated over, up to each sample of v_imu: from sample to
\* sample, but from the end of the last scan where that lies between two.
PropagatedTo(v_imu, from) ==
  LET total[n \in 1 .. Len(v_imu)] ==
        IF n = 1 THEN 0
        ELSE total[n - 1]
               + (CASE v_imu[n] < from -> 0
                    [] v_imu[n] >= from /\ v_imu[n - 1] < from -> v_imu[n] - from
                    [] v_imu[n] >= from /\ v_imu[n - 1] >= from -> v_imu[n] - v_imu[n - 1])
  IN  total

\* Mutant: the end of the last scan is not looked at.
PropagatedFromSamples(v_imu, from, end) ==
  PropagatedTo(v_imu, 0)[Len(v_imu)] + Abs(end - Last(v_imu))

\* From the last sample it goes on to the end of the scan.
Propagated(v_imu, from, end) ==
  PropagatedTo(v_imu, from)[Len(v_imu)] + Abs(end - Last(v_imu))

\* last_lidar_end_time_ as it is read: the first time it has never been written.
LastEndTime == IF done.undistorted THEN {last_lidar_end_time_} ELSE Uninitialized

\* The first time, the filter starts at the last sample of its initialisation.
UndistortPcl ==
  /\ sync_packages /\ Undistorts
  /\ feats_undistort' = meas'.lidar
  /\ last_imu_' = Last(meas'.imu) /\ last_lidar_end_time_' = meas'.end
  /\ UNCHANGED <<flg_first_scan, init_iter_num, imu_need_init_>>
  /\ \E from \in LastEndTime :
       Register(Propagated(<<last_imu_>> \o meas'.imu, from, meas'.end),
                meas'.end - (IF done.undistorted THEN last_lidar_end_time_ ELSE last_imu_))

timer_callback == SyncWaits \/ FirstScan \/ ProcessWithoutImu \/ IMU_init \/ UndistortPcl

------------------------------------------------------------------------------
Next ==
  \/ \E scan \in Scan : livox_pcl_cbk(scan)
  \/ \E timestamp \in 0 .. MaxTime : imu_cbk(timestamp)
  \/ timer_callback

Spec == Init /\ [][Next]_vars

\* The timer runs at 100 Hz, and the IMU goes on sampling up to the bound.
FairSpec ==
  /\ Spec
  /\ WF_vars(timer_callback)
  /\ WF_vars(\E timestamp \in 0 .. MaxTime : imu_cbk(timestamp))

------------------------------------------------------------------------------
(***************************************************************************)
(* Properties.                                                             *)
(***************************************************************************)
\* Every variable has its type; a scan that is pushed is still in its buffer unless
\* stamps went back.
TypeOK ==
  /\ \A i \in DOMAIN lidar_buffer : lidar_buffer[i] \in Scan
  /\ \A i \in DOMAIN time_buffer : time_buffer[i] \in 0 .. MaxTime
  /\ \A i \in DOMAIN imu_buffer : imu_buffer[i] \in 0 .. MaxTime
  /\ last_timestamp_lidar \in 0 .. MaxTime /\ is_first_lidar \in BOOLEAN
  /\ last_timestamp_imu \in -1 .. MaxTime
  /\ lidar_pushed \in BOOLEAN /\ (lidar_pushed /\ ~LoopBack => lidar_buffer # <<>>)
  /\ meas.lidar \in Scan \cup {NoScan} /\ meas.end \in 0 .. MaxTime + Period
  /\ scan_num \in Nat /\ lidar_mean_scantime \in 0 .. scan_num * Period
  /\ flg_first_scan \in BOOLEAN /\ feats_undistort \in Scan \cup {NoScan}
  /\ map \subseteq Scan /\ init_iter_num \in Nat
  /\ imu_need_init_ = (init_iter_num <= MAX_INI_COUNT)
  /\ last_imu_ \in 0 .. MaxTime /\ odometry \in 0 .. MaxTime + Period

\* A measurement holds the samples from the end of the one before to its own end, and
\* leaves later ones only: no sample is used for two scans or for none.
WindowsAreDisjoint ==
  done.did # "nothing" =>
    /\ \A i \in DOMAIN done.imu : done.imu[i] \in done.from .. done.to
    /\ \A i \in DOMAIN imu_buffer : imu_buffer[i] >= done.to

\* From one scan to the next the filter is propagated by exactly the time between
\* their ends, however samples and ends lie to each other.
PropagationFollowsScans == done.again => done.propagated = done.elapsed

\* What is registered is the scan of the measurement, never the one before it again,
\* unless no more time has passed since that one's end than between two IMU samples.
EveryScanIsUndistorted ==
  done.did \in {"build", "map", "few points"} /\ done.to - done.from > MaxGap
    => ~done.stale

\* The stamps of odometry and transform never go back.
OdometryStampsIncrease == [][odometry' >= odometry]_vars

\* A scan is not left waiting: at last none is there, or the IMU has not got to its end.
ScansAreConsumed ==
  <>[](lidar_buffer = <<>> \/ imu_buffer = <<>> \/ last_timestamp_imu < meas.end)

\* Once there is a map, every scan that is taken gets odometry of its end, whether or not
\* it was registered.
OdometryOfEachScan == [][done' # done /\ map # {} => odometry' = done'.to]_vars

\* "lidar loop back, clear buffer": after a clear the buffers are clear, so a scan and
\* its time still belong together.
ScanKeepsItsTime ==
  /\ Len(lidar_buffer) = Len(time_buffer)
  /\ \A i \in DOMAIN lidar_buffer : lidar_buffer[i].stamp = time_buffer[i]

\* "forward propagation at each imu point": the filter is propagated by the time the
\* samples cover, the first time too.
PropagationIsComplete == done.propagated = done.elapsed

\* With too few feature points the predicted pose is published to keep the transform
\* tree: no scan passes without a transform.
TooFewPointsStillPublish ==
  [][done' # done /\ feats_undistort'.size < 5 /\ done'.did # "first scan"
       => odometry' = done'.to]_vars

\* Each sample, and each moment between two scans, counts for exactly one scan.
TimeIsUsedOnce == TypeOK /\ WindowsAreDisjoint /\ PropagationFollowsScans

\* No scan is left waiting, the stamps of odometry never go back, and once there is a map
\* every scan gets its odometry.  The first scan, the one the map is built from and those
\* without a map get none (laserMapping.cpp:962-968, 1007-1021).
ScansGoThrough == ScansAreConsumed /\ OdometryStampsIncrease /\ OdometryOfEachScan
==============================================================================
