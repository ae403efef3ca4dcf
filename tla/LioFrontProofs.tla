----------------------------- MODULE LioFrontProofs -----------------------------
(***************************************************************************)
(* Proofs about the front of the FAST-LIO node.  Of LioSync: while stamps  *)
(* do not go back, each IMU sample and each moment between two scans       *)
(* counts for exactly one scan, what is registered is the scan of the      *)
(* measurement, and the stamps of the odometry do not go back.  Of         *)
(* Preprocess: what is put out are points of the scan, in its order, none  *)
(* of them blind, with the times at which they were fired.                 *)
(***************************************************************************)
EXTENDS LioSync, Preprocess, FiniteSetTheorems, SequenceTheorems, WellFoundedInduction, TLAPS

------------------------------------------------------------------------------
(***************************************************************************)
(* Lemmas about operators.                                                 *)
(***************************************************************************)
\* A mean of numbers of at most P is at most P.
LEMMA MeanBounded ==
  ASSUME NEW n \in Nat, NEW P \in Nat, NEW s \in 0 .. n * P, n # 0
  PROVE  s \div n \in 0 .. P
<1> DEFINE q == s \div n  r == s % n
<1>1. q \in Int /\ r \in 0 .. n - 1 /\ s = n * q + r  OBVIOUS
<1>2. q >= 0  BY <1>1
<1>3. q <= P
  <2>1. SUFFICES ASSUME q >= P + 1 PROVE FALSE  BY <1>1
  <2>2. n * q >= n * (P + 1)  BY <1>1, <2>1
  <2>3. n * (P + 1) = n * P + n  OBVIOUS
  <2>4. n * q \in Int /\ n * P \in Int  BY <1>1
  <2> QED  BY <1>1, <2>2, <2>3, <2>4
<1> QED  BY <1>1, <1>2, <1>3

\* Of two multiples of P the greater is greater by P at least.
LEMMA MultiplesApart ==
  ASSUME NEW P \in Nat \ {0}, NEW a \in Nat, NEW b \in Nat,
         a % P = 0, b % P = 0, a < b
  PROVE  a + P <= b
<1> DEFINE qa == a \div P  qb == b \div P
<1>1. qa \in Int /\ qb \in Int /\ a = P * qa /\ b = P * qb  OBVIOUS
<1>2. qa < qb
  <2>1. SUFFICES ASSUME qb <= qa PROVE FALSE  BY <1>1
  <2>2. P * qb <= P * qa  BY <1>1, <2>1
  <2> QED  BY <1>1, <2>2
<1>3. P * (qa + 1) <= P * qb  BY <1>1, <1>2
<1>4. P * (qa + 1) = P * qa + P  BY <1>1
<1> QED  BY <1>1, <1>3, <1>4

\* A set of numbers has a least one.
LEMMA LeastNumber ==
  ASSUME NEW S \in SUBSET Nat, S # {}
  PROVE  \E m \in S : \A n \in S : m <= n
<1>1. IsWellFoundedOn(OpToRel(<, Nat), Nat)
  BY NatLessThanWellFounded
<1>2. PICK m \in S : \A n \in S : <<n, m>> \notin OpToRel(<, Nat)
  BY <1>1, WFMin, Zenon
<1>3. \A a, b \in Nat : a < b => <<a, b>> \in OpToRel(<, Nat)
  BY Zenon DEF OpToRel
<1>4. \A n \in S : ~(n < m)
  BY <1>2, <1>3, Zenon
<1> QED
  BY <1>4

\* A set of indices that holds with each one those before it is an interval.
LEMMA DownwardIsInterval ==
  ASSUME NEW n \in Nat, NEW S \in SUBSET (1 .. n),
         \A h \in S : \A j \in 1 .. h - 1 : j \in S
  PROVE  Cardinality(S) \in 0 .. n /\ S = 1 .. Cardinality(S)
<1> DEFINE Out == {m \in Nat : m + 1 \notin S}
<1>1. n \in Out
  OBVIOUS
<1>2. PICK m \in Out : \A x \in Out : m <= x
  BY <1>1, LeastNumber
<1>3. m <= n
  BY <1>1, <1>2
<1>4. \A h \in 1 .. m : h \in S
  <2> TAKE h \in 1 .. m
  <2>1. h - 1 \in Nat /\ h - 1 < m /\ (h - 1) + 1 = h
    OBVIOUS
  <2> QED
    BY <1>2, <2>1
<1>5. \A h \in S : h <= m
  <2> SUFFICES ASSUME NEW h \in S, h > m PROVE FALSE
    OBVIOUS
  <2>1. h = m + 1 \/ m + 1 \in 1 .. h - 1
    OBVIOUS
  <2> QED
    BY <2>1
<1>6. S = 1 .. m
  <2>1. m \in Nat /\ \A h \in S : h \in Nat /\ 1 <= h
    BY <1>2
  <2>2. \A h \in S : h \in 1 .. m
    BY <1>5, <2>1
  <2>3. S \subseteq 1 .. m /\ 1 .. m \subseteq S
    BY <1>4, <2>2, Zenon
  <2> QED
    BY <2>3, Zenon
<1>7. Cardinality(1 .. m) = m
  BY FS_Interval
<1> QED
  BY <1>3, <1>6, <1>7

\* Over samples in order, what the loop adds up is the time from the first sample, or
\* from the end of the last scan where that is later, to the sample it has got to.
LEMMA PropagatedToIsDistance ==
  ASSUME NEW v \in Seq(Int), NEW from \in Int, v # <<>>,
         \A h \in 1 .. Len(v) - 1 : v[h] <= v[h + 1]
  PROVE  \A n \in 1 .. Len(v) :
           PropagatedTo(v, from)[n] = (IF v[n] < from THEN from ELSE v[n])
                                      - (IF v[1] < from THEN from ELSE v[1])
<1> DEFINE Late(h) == IF v[h] < from THEN from ELSE v[h]
           Step(n) == CASE v[n] < from -> 0
                        [] v[n] >= from /\ v[n - 1] < from -> v[n] - from
                        [] v[n] >= from /\ v[n - 1] >= from -> v[n] - v[n - 1]
           Is(f) == f = [n \in 1 .. Len(v) |-> IF n = 1 THEN 0 ELSE f[n - 1] + Step(n)]
           dist == [n \in 1 .. Len(v) |-> Late(n) - Late(1)]
           f == PropagatedTo(v, from)
           Wrong == {n \in 1 .. Len(v) : f[n] # Late(n) - Late(1)}
<1>1. \A n \in 1 .. Len(v) : v[n] \in Int
  OBVIOUS
<1>2. \A n \in 1 .. Len(v) : n # 1 => n - 1 \in 1 .. Len(v) /\ v[n - 1] <= v[n]
  <2> SUFFICES ASSUME NEW n \in 1 .. Len(v), n # 1
               PROVE  n - 1 \in 1 .. Len(v) /\ v[n - 1] <= v[n]
    OBVIOUS
  <2>1. n - 1 \in 1 .. Len(v) - 1 /\ (n - 1) + 1 = n
    OBVIOUS
  <2> QED
    BY <2>1
<1>3. \A n \in 1 .. Len(v) : n # 1 => Late(n - 1) + Step(n) = Late(n)
  BY <1>1, <1>2
<1>4. \A n \in 1 .. Len(v) : Late(n) \in Int
  BY <1>1
<1>5. Is(dist)
  <2>1. ASSUME NEW n \in 1 .. Len(v), n # 1
        PROVE  dist[n] = dist[n - 1] + Step(n)
    <3>1. n - 1 \in 1 .. Len(v) /\ 1 \in 1 .. Len(v)
      BY <1>2, <2>1
    <3>2. Late(n - 1) + Step(n) = Late(n) /\ Late(n) \in Int /\ Late(n - 1) \in Int /\ Late(1) \in Int
      BY <1>3, <1>4, <2>1, <3>1
    <3>3. Step(n) \in Int
      BY <1>1, <1>2, <2>1
    <3> HIDE DEF Late, Step
    <3> QED
      BY <3>1, <3>2, <3>3
  <2>2. 1 \in 1 .. Len(v) => dist[1] = 0
    BY <1>4
  <2> HIDE DEF Late, Step
  <2> QED
    BY <2>1, <2>2
<1>6. f = CHOOSE g : Is(g)
  BY DEF PropagatedTo
<1>7. Is(f)
  <2> HIDE DEF Is, f
  <2> QED
    BY <1>5, <1>6
<1>8. Wrong = {}
  <2> SUFFICES ASSUME Wrong # {} PROVE FALSE
    OBVIOUS
  <2>1. PICK m \in Wrong : \A n \in Wrong : m <= n
    <3> Wrong \in SUBSET Nat
      OBVIOUS
    <3> HIDE DEF Wrong
    <3> QED
      BY LeastNumber
  <2>2. m \in 1 .. Len(v) /\ f[m] # Late(m) - Late(1)
    OBVIOUS
  <2>3. f[m] = IF m = 1 THEN 0 ELSE f[m - 1] + Step(m)
    <3> HIDE DEF f, Step
    <3> QED
      BY <1>7, <2>2
  <2>4. CASE m = 1
    BY <1>4, <2>2, <2>3, <2>4
  <2>5. CASE m # 1
    <3>1. m - 1 \in 1 .. Len(v) /\ m - 1 \notin Wrong
      BY <1>2, <2>1, <2>2, <2>5
    <3>2. f[m - 1] = Late(m - 1) - Late(1)
      BY <3>1
    <3>3. Late(m - 1) + Step(m) = Late(m) /\ Late(m) \in Int /\ Late(m - 1) \in Int /\ Late(1) \in Int
      BY <1>3, <1>4, <2>2, <2>5, <3>1
    <3>4. Step(m) \in Int
      BY <1>1, <1>2, <2>2, <2>5
    <3> HIDE DEF Late, Step, f
    <3> QED
      BY <2>2, <2>3, <2>5, <3>2, <3>3, <3>4
  <2> QED
    BY <2>4, <2>5
<1>9. \A n \in 1 .. Len(v) : f[n] = Late(n) - Late(1)
  <2> HIDE DEF f, Late
  <2> QED
    BY <1>8
<1> QED
  BY <1>9

------------------------------------------------------------------------------
(***************************************************************************)
(* The invariant.                                                          *)
(***************************************************************************)
\* What the types of TypeOK leave open: sequences and records.
Kinds ==
  /\ lidar_buffer \in Seq(Scan) /\ time_buffer \in Seq(0 .. MaxTime)
  /\ imu_buffer \in Seq(0 .. MaxTime)
  /\ meas \in [lidar : Scan \cup {NoScan}, beg : 0 .. MaxTime, end : 0 .. MaxTime + Period,
               imu : Seq(0 .. MaxTime)]
  /\ done.imu \in Seq(0 .. MaxTime) /\ done.from \in Nat /\ done.to \in Nat
  /\ done.undistorted \in BOOLEAN

\* The scans that wait have their times, are a period or more apart, and none starts
\* before the end of the one that was measured last.
ScansAreApart ==
  /\ Len(time_buffer) = Len(lidar_buffer)
  /\ \A h \in 1 .. Len(lidar_buffer) :
       /\ time_buffer[h] = lidar_buffer[h].stamp
       /\ lidar_buffer[h].stamp \in done.to .. last_timestamp_lidar
  /\ \A h, j \in 1 .. Len(lidar_buffer) :
       h < j => lidar_buffer[h].stamp + Period <= lidar_buffer[j].stamp
  /\ is_first_lidar => lidar_buffer = <<>> /\ done.to = 0
  /\ last_timestamp_lidar % Period = 0
  /\ done.to <= last_timestamp_lidar + Period

\* The samples that wait lie behind the end of the scan that was measured last, in order
\* and with no gap longer than MaxGap, from that end to the last that came.
SamplesAreDense ==
  /\ \A h \in 1 .. Len(imu_buffer) : imu_buffer[h] \in done.to .. last_timestamp_imu
  /\ \A h, j \in 1 .. Len(imu_buffer) : h < j => imu_buffer[h] < imu_buffer[j]
  /\ \A h \in 1 .. Len(imu_buffer) - 1 : imu_buffer[h + 1] <= imu_buffer[h] + MaxGap
  /\ imu_buffer # <<>> => /\ imu_buffer[1] <= done.to + MaxGap
                          /\ imu_buffer[Len(imu_buffer)] = last_timestamp_imu
  /\ imu_buffer = <<>> => last_timestamp_imu <= done.to
  /\ done.to <= last_timestamp_imu \/ done.to = 0

\* What has been pushed is the first of the scans that wait.
PushedIsFirst ==
  lidar_pushed =>
    /\ lidar_buffer # <<>>
    /\ meas.lidar = lidar_buffer[1] /\ meas.beg = time_buffer[1]
    /\ meas.end \in meas.beg .. meas.beg + Period

\* The filter has come to the end of a scan that was measured, its last sample before it.
FilterIsBehind ==
  /\ imu_need_init_ => feats_undistort = NoScan /\ ~done.undistorted
  /\ done.undistorted => /\ last_lidar_end_time_ \in 0 .. done.to
                         /\ last_imu_ <= last_lidar_end_time_
  /\ odometry <= done.to

\* The inductive invariant.
IInv == /\ TypeOK /\ Kinds
        /\ ScansAreApart /\ SamplesAreDense /\ PushedIsFirst /\ FilterIsBehind
        /\ WindowsAreDisjoint /\ PropagationFollowsScans /\ EveryScanIsUndistorted

------------------------------------------------------------------------------
(***************************************************************************)
(* The initial state and the callbacks.                                    *)
(***************************************************************************)
LEMMA InitInv == Init => IInv
<1> SUFFICES ASSUME Init PROVE IInv
  OBVIOUS
<1> USE LioAssumption DEF Init
<1>1. TypeOK
  <2>1. imu_need_init_ = (init_iter_num <= MAX_INI_COUNT)
    <3>1. init_iter_num <= MAX_INI_COUNT
      OBVIOUS
    <3> QED
      BY <3>1
  <2>2. /\ \A h \in DOMAIN lidar_buffer : lidar_buffer[h] \in Scan
        /\ \A h \in DOMAIN time_buffer : time_buffer[h] \in 0 .. MaxTime
        /\ \A h \in DOMAIN imu_buffer : imu_buffer[h] \in 0 .. MaxTime
    OBVIOUS
  <2>3. lidar_mean_scantime \in 0 .. scan_num * Period
    OBVIOUS
  <2>4. meas.lidar = NoScan /\ meas.end \in 0 .. MaxTime + Period
    <3>1. meas = [lidar |-> NoScan, beg |-> 0, end |-> 0, imu |-> <<>>]
      OBVIOUS
    <3>2. meas.lidar = NoScan /\ meas.end = 0
      BY ONLY <3>1
    <3> QED
      BY <3>2
  <2>5. feats_undistort = NoScan /\ init_iter_num \in Nat /\ map \subseteq Scan
    OBVIOUS
  <2>6. /\ last_timestamp_lidar \in 0 .. MaxTime /\ last_timestamp_imu \in -1 .. MaxTime
        /\ scan_num \in Nat /\ last_imu_ \in 0 .. MaxTime
        /\ odometry \in 0 .. MaxTime + Period
    OBVIOUS
  <2>7. is_first_lidar \in BOOLEAN /\ lidar_pushed = FALSE /\ flg_first_scan \in BOOLEAN
    OBVIOUS
  <2>8. meas.lidar \in Scan \cup {NoScan} /\ feats_undistort \in Scan \cup {NoScan}
    BY <2>4, <2>5
  <2>9. lidar_pushed \in BOOLEAN /\ (lidar_pushed /\ ~LoopBack => lidar_buffer # <<>>)
    BY <2>7
  <2> HIDE LioAssumption DEF Init
  <2> QED
    BY <2>1, <2>2, <2>3, <2>4, <2>5, <2>6, <2>7, <2>8, <2>9, Zenon DEF TypeOK
<1>2. Kinds
  BY DEF Kinds, NoScan, Nothing
<1>3. ScansAreApart /\ SamplesAreDense
  BY DEF ScansAreApart, SamplesAreDense, Nothing
<1>4. PushedIsFirst /\ FilterIsBehind
  BY DEF PushedIsFirst, FilterIsBehind, Nothing
<1>5. WindowsAreDisjoint /\ PropagationFollowsScans /\ EveryScanIsUndistorted
  BY DEF WindowsAreDisjoint, PropagationFollowsScans, EveryScanIsUndistorted, Nothing
<1> QED
  BY <1>1, <1>2, <1>3, <1>4, <1>5 DEF IInv

LEMMA ScanStep ==
  ASSUME IInv, ~LoopBack, NEW scan \in Scan, livox_pcl_cbk(scan)
  PROVE  IInv'
<1> USE LioAssumption
<1>1. /\ scan.stamp \in 0 .. MaxTime /\ scan.stamp % Period = 0
      /\ is_first_lidar \/ last_timestamp_lidar < scan.stamp
  BY DEF Scan, livox_pcl_cbk, IInv, TypeOK
<1>2. /\ lidar_buffer' = Append(lidar_buffer, scan)
      /\ time_buffer' = Append(time_buffer, scan.stamp)
      /\ last_timestamp_lidar' = scan.stamp /\ is_first_lidar' = FALSE
      /\ UNCHANGED <<imu_buffer, last_timestamp_imu, syncVars, imuVars, mapVars, done>>
  <2>1. ~(~is_first_lidar /\ scan.stamp < last_timestamp_lidar)
    BY <1>1 DEF IInv, TypeOK
  <2> QED
    BY <2>1 DEF livox_pcl_cbk
<1>3. lidar_buffer \in Seq(Scan) /\ time_buffer \in Seq(0 .. MaxTime)
  BY DEF IInv, Kinds
<1>4. /\ lidar_buffer' \in Seq(Scan) /\ time_buffer' \in Seq(0 .. MaxTime)
      /\ Len(lidar_buffer') = Len(lidar_buffer) + 1 /\ Len(time_buffer') = Len(time_buffer) + 1
      /\ \A h \in 1 .. Len(lidar_buffer) : lidar_buffer'[h] = lidar_buffer[h]
      /\ \A h \in 1 .. Len(time_buffer) : time_buffer'[h] = time_buffer[h]
      /\ lidar_buffer'[Len(lidar_buffer) + 1] = scan
      /\ time_buffer'[Len(time_buffer) + 1] = scan.stamp
  BY <1>1, <1>2, <1>3
<1>5. TypeOK'
  <2>1. /\ \A h \in DOMAIN lidar_buffer' : lidar_buffer'[h] \in Scan
        /\ \A h \in DOMAIN time_buffer' : time_buffer'[h] \in 0 .. MaxTime
        /\ lidar_buffer' # <<>>
    BY <1>3, <1>4
  <2> QED
    BY <1>1, <1>2, <2>1 DEF IInv, TypeOK, syncVars, imuVars, mapVars
<1>6. Kinds'
  BY <1>2, <1>4 DEF IInv, Kinds, syncVars
<1>7. ScansAreApart'
  <2>1. last_timestamp_lidar \in 0 .. MaxTime /\ done.to \in Nat /\ Period \in Nat \ {0}
    BY DEF IInv, TypeOK, Kinds
  <2>2. ~is_first_lidar => last_timestamp_lidar + Period <= scan.stamp
    <3>1. scan.stamp \in Nat /\ last_timestamp_lidar \in Nat /\ last_timestamp_lidar % Period = 0
      BY <1>1, <2>1 DEF IInv, ScansAreApart
    <3> QED
      BY <1>1, <2>1, <3>1, MultiplesApart
  <2>3. done.to <= scan.stamp
    BY <1>1, <2>1, <2>2 DEF IInv, ScansAreApart
  <2>4. \A h \in 1 .. Len(lidar_buffer) :
          lidar_buffer[h].stamp \in Int /\ lidar_buffer[h].stamp + Period <= scan.stamp
    BY <1>1, <1>3, <2>1, <2>2 DEF IInv, ScansAreApart, Scan
  <2>5. Len(time_buffer) = Len(lidar_buffer)
    BY DEF IInv, ScansAreApart
  <2>6. \A h \in 1 .. Len(lidar_buffer') : h \in 1 .. Len(lidar_buffer) \/ h = Len(lidar_buffer) + 1
    BY <1>3, <1>4
  <2>7. \A h \in 1 .. Len(lidar_buffer') :
          /\ time_buffer'[h] = lidar_buffer'[h].stamp
          /\ lidar_buffer'[h].stamp \in done.to .. scan.stamp
    <3> SUFFICES ASSUME NEW h \in 1 .. Len(lidar_buffer')
                 PROVE  /\ time_buffer'[h] = lidar_buffer'[h].stamp
                        /\ lidar_buffer'[h].stamp \in done.to .. scan.stamp
      OBVIOUS
    <3>1. CASE h \in 1 .. Len(lidar_buffer)
      BY <1>1, <1>4, <2>1, <2>4, <2>5, <3>1 DEF IInv, ScansAreApart
    <3>2. CASE h = Len(lidar_buffer) + 1
      BY <1>1, <1>4, <2>1, <2>3, <2>5, <3>2
    <3> QED
      BY <2>6, <3>1, <3>2
  <2>8. \A h, j \in 1 .. Len(lidar_buffer') :
          h < j => lidar_buffer'[h].stamp + Period <= lidar_buffer'[j].stamp
    <3> SUFFICES ASSUME NEW h \in 1 .. Len(lidar_buffer'), NEW j \in 1 .. Len(lidar_buffer'), h < j
                 PROVE  lidar_buffer'[h].stamp + Period <= lidar_buffer'[j].stamp
      OBVIOUS
    <3>1. h \in 1 .. Len(lidar_buffer)
      BY <1>3, <1>4
    <3>2. CASE j \in 1 .. Len(lidar_buffer)
      BY <1>4, <3>1, <3>2 DEF IInv, ScansAreApart
    <3>3. CASE j = Len(lidar_buffer) + 1
      BY <1>4, <2>4, <3>1, <3>3
    <3> QED
      BY <2>6, <3>2, <3>3
  <2> QED
    BY <1>1, <1>2, <1>4, <2>1, <2>3, <2>5, <2>7, <2>8 DEF ScansAreApart
<1>8. SamplesAreDense' /\ FilterIsBehind'
  BY <1>2 DEF IInv, SamplesAreDense, FilterIsBehind, imuVars, mapVars
<1>9. PushedIsFirst'
  <2>1. lidar_pushed => 1 \in 1 .. Len(lidar_buffer) /\ 1 \in 1 .. Len(time_buffer)
    BY <1>3 DEF IInv, PushedIsFirst, ScansAreApart
  <2>2. lidar_buffer' # <<>>
    BY <1>3, <1>4
  <2> QED
    BY <1>2, <1>4, <2>1, <2>2 DEF IInv, PushedIsFirst, syncVars
<1>10. WindowsAreDisjoint' /\ PropagationFollowsScans' /\ EveryScanIsUndistorted'
  BY <1>2 DEF IInv, WindowsAreDisjoint, PropagationFollowsScans, EveryScanIsUndistorted
<1> QED
  BY <1>5, <1>6, <1>7, <1>8, <1>9, <1>10 DEF IInv

LEMMA ImuStep ==
  ASSUME IInv, ~LoopBack, NEW timestamp \in 0 .. MaxTime, imu_cbk(timestamp)
  PROVE  IInv'
<1> USE LioAssumption
<1>1. /\ last_timestamp_imu \in -1 .. MaxTime /\ imu_buffer \in Seq(0 .. MaxTime)
      /\ done.to \in Nat
  BY DEF IInv, TypeOK, Kinds
<1>2. timestamp > last_timestamp_imu /\ timestamp <= last_timestamp_imu + MaxGap
  BY <1>1 DEF imu_cbk
<1>3. /\ imu_buffer' = Append(imu_buffer, timestamp) /\ last_timestamp_imu' = timestamp
      /\ UNCHANGED <<lidar_buffer, time_buffer, last_timestamp_lidar, is_first_lidar,
                     syncVars, imuVars, mapVars, done>>
  BY <1>1, <1>2 DEF imu_cbk
<1>4. /\ imu_buffer' \in Seq(0 .. MaxTime) /\ Len(imu_buffer') = Len(imu_buffer) + 1
      /\ \A h \in 1 .. Len(imu_buffer) : imu_buffer'[h] = imu_buffer[h]
      /\ imu_buffer'[Len(imu_buffer) + 1] = timestamp
  BY <1>1, <1>3
<1>5. \A h \in 1 .. Len(imu_buffer') : h \in 1 .. Len(imu_buffer) \/ h = Len(imu_buffer) + 1
  BY <1>1, <1>4
<1>6. done.to <= timestamp
  BY <1>1, <1>2 DEF IInv, SamplesAreDense
<1> DEFINE Waits(h) == imu_buffer[h] \in Int /\ done.to <= imu_buffer[h]
                       /\ imu_buffer[h] <= last_timestamp_imu
<1>0. \A h \in 1 .. Len(imu_buffer) : Waits(h)
  <2>1. SamplesAreDense
    BY DEF IInv
  <2> QED
    BY <1>1, <2>1 DEF SamplesAreDense
<1>7. SamplesAreDense'
  <2>1. \A h \in 1 .. Len(imu_buffer') : imu_buffer'[h] \in done.to .. timestamp
    <3> SUFFICES ASSUME NEW h \in 1 .. Len(imu_buffer')
                 PROVE  imu_buffer'[h] \in done.to .. timestamp
      OBVIOUS
    <3>1. CASE h \in 1 .. Len(imu_buffer)
      <4>1. Waits(h)
        BY <1>0, <3>1
      <4>2. imu_buffer'[h] = imu_buffer[h]
        BY <1>4, <3>1
      <4> QED
        BY <1>1, <1>2, <4>1, <4>2
    <3>2. CASE h = Len(imu_buffer) + 1
      BY <1>1, <1>4, <1>6, <3>2
    <3> QED
      BY <1>5, <3>1, <3>2
  <2>2. \A h, j \in 1 .. Len(imu_buffer') : h < j => imu_buffer'[h] < imu_buffer'[j]
    <3> SUFFICES ASSUME NEW h \in 1 .. Len(imu_buffer'), NEW j \in 1 .. Len(imu_buffer'), h < j
                 PROVE  imu_buffer'[h] < imu_buffer'[j]
      OBVIOUS
    <3>1. h \in 1 .. Len(imu_buffer)
      BY <1>1, <1>4
    <3>2. CASE j \in 1 .. Len(imu_buffer)
      BY <1>4, <3>1, <3>2 DEF IInv, SamplesAreDense
    <3>3. CASE j = Len(imu_buffer) + 1
      BY <1>1, <1>2, <1>4, <1>0, <3>1, <3>3
    <3> QED
      BY <1>5, <3>2, <3>3
  <2>3. \A h \in 1 .. Len(imu_buffer') - 1 : imu_buffer'[h + 1] <= imu_buffer'[h] + MaxGap
    <3> SUFFICES ASSUME NEW h \in 1 .. Len(imu_buffer') - 1
                 PROVE  imu_buffer'[h + 1] <= imu_buffer'[h] + MaxGap
      OBVIOUS
    <3>1. h \in 1 .. Len(imu_buffer)
      BY <1>1, <1>4
    <3>2. CASE h = Len(imu_buffer)
      <4>1. imu_buffer[h] = last_timestamp_imu
        BY <1>1, <3>1, <3>2 DEF IInv, SamplesAreDense
      <4> QED
        BY <1>1, <1>2, <1>4, <3>1, <3>2, <4>1
    <3>3. CASE h # Len(imu_buffer)
      <4>1. h \in 1 .. Len(imu_buffer) - 1 /\ h + 1 \in 1 .. Len(imu_buffer)
        BY <1>1, <3>1, <3>3
      <4> QED
        BY <1>4, <3>1, <4>1 DEF IInv, SamplesAreDense
    <3> QED
      BY <3>2, <3>3
  <2>4. imu_buffer'[1] <= done.to + MaxGap
    <3>1. CASE imu_buffer = <<>>
      BY <1>1, <1>2, <1>4, <3>1 DEF IInv, SamplesAreDense
    <3>2. CASE imu_buffer # <<>>
      <4>1. 1 \in 1 .. Len(imu_buffer)
        BY <1>1, <3>2
      <4>2. imu_buffer[1] <= done.to + MaxGap
        BY <3>2 DEF IInv, SamplesAreDense
      <4> QED
        BY <1>4, <4>1, <4>2
    <3> QED
      BY <3>1, <3>2
  <2>5. imu_buffer' # <<>>
    BY <1>1, <1>4
  <2> QED
    BY <1>3, <1>4, <1>6, <2>1, <2>2, <2>3, <2>4, <2>5 DEF SamplesAreDense
<1>8. TypeOK'
  <2>1. \A h \in DOMAIN imu_buffer' : imu_buffer'[h] \in 0 .. MaxTime
    BY <1>4
  <2> QED
    BY <1>3, <2>1 DEF IInv, TypeOK, syncVars, imuVars, mapVars
<1>9. Kinds' /\ ScansAreApart' /\ PushedIsFirst' /\ FilterIsBehind'
  BY <1>3, <1>4 DEF IInv, Kinds, ScansAreApart, PushedIsFirst, FilterIsBehind, syncVars,
                    imuVars, mapVars
<1>10. WindowsAreDisjoint'
  <2>1. \A h \in DOMAIN imu_buffer' : imu_buffer'[h] >= done.to
    <3>1. \A h \in 1 .. Len(imu_buffer') : imu_buffer'[h] \in done.to .. timestamp
      BY <1>3, <1>7 DEF SamplesAreDense
    <3> QED
      BY <1>4, <3>1
  <2> QED
    BY <1>3, <2>1 DEF IInv, WindowsAreDisjoint
<1>11. PropagationFollowsScans' /\ EveryScanIsUndistorted'
  BY <1>3 DEF IInv, PropagationFollowsScans, EveryScanIsUndistorted
<1> QED
  BY <1>7, <1>8, <1>9, <1>10, <1>11 DEF IInv

------------------------------------------------------------------------------
(***************************************************************************)
(* sync_packages.                                                          *)
(***************************************************************************)
LEMMA MeanIsShort ==
  ASSUME TypeOK
  PROVE  Mean \in 0 .. Period
<1>1. scan_num \in Nat /\ Period \in Nat /\ lidar_mean_scantime \in 0 .. scan_num * Period
  BY LioAssumption DEF TypeOK
<1>2. CASE scan_num = 0
  BY <1>1, <1>2 DEF Mean
<1>3. CASE scan_num # 0
  BY <1>1, <1>3, MeanBounded DEF Mean
<1> QED
  BY <1>2, <1>3

\* The scan that is measured is the first that waits; it ends within a period, and not
\* before the one measured last.
LEMMA PushedFacts ==
  ASSUME IInv, ~LoopBack, lidar_buffer # <<>>
  PROVE  /\ 1 \in 1 .. Len(lidar_buffer) /\ lidar_buffer[1] \in Scan
         /\ Pushed \in [lidar : Scan \cup {NoScan}, beg : 0 .. MaxTime,
                        end : 0 .. MaxTime + Period, imu : Seq(0 .. MaxTime)]
         /\ Pushed.lidar = lidar_buffer[1] /\ Pushed.beg = time_buffer[1]
         /\ Pushed.end \in lidar_buffer[1].stamp .. lidar_buffer[1].stamp + Period
         /\ done.to <= Pushed.end
<1> USE LioAssumption
<1>1. /\ lidar_buffer \in Seq(Scan) /\ time_buffer \in Seq(0 .. MaxTime) /\ done.to \in Nat
      /\ meas \in [lidar : Scan \cup {NoScan}, beg : 0 .. MaxTime, end : 0 .. MaxTime + Period,
                   imu : Seq(0 .. MaxTime)]
  BY DEF IInv, Kinds
<1>2. 1 \in 1 .. Len(lidar_buffer) /\ lidar_buffer[1] \in Scan
  BY <1>1
<1>3. /\ time_buffer[1] = lidar_buffer[1].stamp
      /\ lidar_buffer[1].stamp \in Nat /\ done.to <= lidar_buffer[1].stamp
      /\ lidar_buffer[1].stamp \in 0 .. MaxTime /\ lidar_buffer[1].offset \in 0 .. Period
  <2>1. /\ time_buffer[1] = lidar_buffer[1].stamp
        /\ lidar_buffer[1].stamp \in done.to .. last_timestamp_lidar
    BY <1>2 DEF IInv, ScansAreApart
  <2>2. lidar_buffer[1].stamp \in 0 .. MaxTime /\ lidar_buffer[1].offset \in 0 .. Period
    <3>1. lidar_buffer[1].offset \in Offsets \cup {0} /\ lidar_buffer[1].stamp \in 0 .. MaxTime
      BY <1>2 DEF Scan
    <3>2. Offsets \subseteq 0 .. Period /\ 0 \in 0 .. Period
      OBVIOUS
    <3> QED
      BY <3>1, <3>2, Zenon
  <2>3. last_timestamp_lidar \in 0 .. MaxTime
    BY DEF IInv, TypeOK
  <2> QED
    BY <1>1, <2>1, <2>2, <2>3
<1>4. CASE lidar_pushed
  <2>1. /\ Pushed = meas /\ meas.lidar = lidar_buffer[1] /\ meas.beg = time_buffer[1]
        /\ meas.end \in meas.beg .. meas.beg + Period
    BY <1>4 DEF Pushed, IInv, PushedIsFirst
  <2> QED
    BY <1>1, <1>2, <1>3, <2>1
<1>5. CASE ~lidar_pushed
  <2> DEFINE end == EndTime(lidar_buffer[1], time_buffer[1])
  <2>1. Pushed = [meas EXCEPT !.lidar = lidar_buffer[1], !.beg = time_buffer[1], !.end = end]
    <3>1. Head(lidar_buffer) = lidar_buffer[1] /\ Head(time_buffer) = time_buffer[1]
      BY <1>1
    <3> QED
      BY <1>5, <3>1 DEF Pushed
  <2>2. end \in lidar_buffer[1].stamp .. lidar_buffer[1].stamp + Period
    <3>1. Mean \in 0 .. Period
      BY MeanIsShort DEF IInv
    <3> QED
      BY <1>3, <3>1 DEF EndTime
  <2>3. end \in 0 .. MaxTime + Period
    BY <1>3, <2>2
  <2> HIDE DEF end
  <2>4. time_buffer[1] \in 0 .. MaxTime
    BY <1>3
  <2>5. /\ Pushed \in [lidar : Scan \cup {NoScan}, beg : 0 .. MaxTime,
                       end : 0 .. MaxTime + Period, imu : Seq(0 .. MaxTime)]
        /\ Pushed.lidar = lidar_buffer[1] /\ Pushed.beg = time_buffer[1] /\ Pushed.end = end
    BY <1>1, <1>2, <2>1, <2>3, <2>4
  <2> QED
    BY <1>1, <1>2, <1>3, <2>2, <2>5
<1> QED
  BY <1>4, <1>5

\* What is popped is the samples up to the end, and what is left lies at it or after.
LEMMA PoppedFacts ==
  ASSUME IInv, imu_buffer # <<>>, NEW end \in Nat
  PROVE  /\ Popped(end) \in 0 .. Len(imu_buffer)
         /\ \A h \in 1 .. Popped(end) : imu_buffer[h] <= end
         /\ \A h \in Popped(end) + 1 .. Len(imu_buffer) : end <= imu_buffer[h]
<1> DEFINE n == Len(imu_buffer)
           S == {h \in DOMAIN imu_buffer : /\ imu_buffer[h] <= end
                                           /\ \A j \in 1 .. h - 1 : imu_buffer[j] < end}
<1>1. imu_buffer \in Seq(0 .. MaxTime) /\ MaxTime \in Nat
  BY LioAssumption DEF IInv, Kinds
<1>2. n \in Nat /\ n # 0 /\ DOMAIN imu_buffer = 1 .. n /\ Head(imu_buffer) = imu_buffer[1]
  BY <1>1
<1>3. \A h \in 1 .. n : imu_buffer[h] \in Nat
  BY <1>1
<1>4. \A h, j \in 1 .. n : h < j => imu_buffer[h] < imu_buffer[j]
  BY DEF IInv, SamplesAreDense
<1>5. CASE imu_buffer[1] >= end
  <2>1. Popped(end) = 0
    BY <1>2, <1>5 DEF Popped
  <2>2. \A h \in 1 .. n : end <= imu_buffer[h]
    <3> SUFFICES ASSUME NEW h \in 1 .. n PROVE end <= imu_buffer[h]
      OBVIOUS
    <3>1. h = 1 \/ imu_buffer[1] < imu_buffer[h]
      BY <1>2, <1>4
    <3> QED
      BY <1>2, <1>3, <1>5, <3>1
  <2> QED
    BY <1>2, <2>1, <2>2
<1>6. CASE ~(imu_buffer[1] >= end)
  <2>1. Popped(end) = Cardinality(S)
    BY <1>2, <1>6 DEF Popped
  <2>2. S \in SUBSET (1 .. n)
    BY <1>2
  <2>3. \A h \in S : \A j \in 1 .. h - 1 : j \in S
    <3> SUFFICES ASSUME NEW h \in S, NEW j \in 1 .. h - 1 PROVE j \in S
      OBVIOUS
    <3>1. h \in 1 .. n /\ j \in 1 .. n /\ imu_buffer[j] < end
      BY <1>2
    <3>2. \A k \in 1 .. j - 1 : k \in 1 .. h - 1
      BY <3>1
    <3>3. imu_buffer[j] <= end
      BY <1>3, <3>1
    <3> QED
      BY <1>2, <3>1, <3>2, <3>3
  <2>4. Cardinality(S) \in 0 .. n /\ S = 1 .. Cardinality(S)
    <3> HIDE DEF S, n
    <3> QED
      BY <1>2, <2>2, <2>3, DownwardIsInterval
  <2>5. \A h \in S : imu_buffer[h] <= end
    OBVIOUS
  <2>6. \A h \in 1 .. n : h \notin S => end <= imu_buffer[h]
    <3> SUFFICES ASSUME NEW h \in 1 .. n, ~(end <= imu_buffer[h]) PROVE h \in S
      OBVIOUS
    <3>1. imu_buffer[h] \in Nat /\ imu_buffer[h] < end
      BY <1>3
    <3>2. \A j \in 1 .. h - 1 : imu_buffer[j] < end
      <4> SUFFICES ASSUME NEW j \in 1 .. h - 1 PROVE imu_buffer[j] < end
        OBVIOUS
      <4>1. j \in 1 .. n /\ imu_buffer[j] < imu_buffer[h] /\ imu_buffer[j] \in Nat
        BY <1>2, <1>3, <1>4
      <4> QED
        BY <3>1, <4>1
    <3> QED
      BY <1>2, <3>1, <3>2
  <2> DEFINE k == Cardinality(S)
  <2>7. k \in 0 .. n /\ S = 1 .. k
    BY <2>4
  <2> HIDE DEF S, k
  <2>8. \A h \in 1 .. k : imu_buffer[h] <= end
    BY <2>5, <2>7
  <2>9. \A h \in k + 1 .. n : end <= imu_buffer[h]
    <3> SUFFICES ASSUME NEW h \in k + 1 .. n PROVE end <= imu_buffer[h]
      OBVIOUS
    <3>1. h \in 1 .. n /\ h \notin S
      BY <1>2, <2>7
    <3> QED
      BY <2>6, <3>1
  <2>10. Popped(end) = k
    BY <2>1 DEF k
  <2> QED
    BY <2>7, <2>8, <2>9, <2>10
<1> QED
  BY <1>5, <1>6

LEMMA AverageType ==
  ASSUME IInv, ~LoopBack, lidar_buffer # <<>>, AverageScanTime
  PROVE  scan_num' \in Nat /\ lidar_mean_scantime' \in 0 .. scan_num' * Period
<1>1. scan_num \in Nat /\ lidar_mean_scantime \in 0 .. scan_num * Period /\ Period \in Nat
  BY LioAssumption DEF IInv, TypeOK
<1>2. CASE lidar_pushed \/ TooShort(Head(lidar_buffer))
  BY <1>1, <1>2 DEF AverageScanTime
<1>3. CASE ~(lidar_pushed \/ TooShort(Head(lidar_buffer)))
  <2>1. Head(lidar_buffer).offset \in 0 .. Period
    <3>1. lidar_buffer \in Seq(Scan)
      BY DEF IInv, Kinds
    <3>2. Head(lidar_buffer) \in Scan
      BY <3>1
    <3>3. Head(lidar_buffer).offset \in Offsets \cup {0}
      BY <3>2 DEF Scan
    <3>4. Offsets \subseteq 0 .. Period /\ 0 \in 0 .. Period
      BY LioAssumption
    <3> QED
      BY <3>3, <3>4, Zenon
  <2>2. /\ scan_num' = scan_num + 1
        /\ lidar_mean_scantime' = lidar_mean_scantime + Head(lidar_buffer).offset
    BY <1>3 DEF AverageScanTime
  <2>3. (scan_num + 1) * Period = scan_num * Period + Period /\ scan_num * Period \in Nat
    BY <1>1
  <2> QED
    BY <1>1, <2>1, <2>2, <2>3
<1> QED
  BY <1>2, <1>3

\* A measurement takes the first scan and the samples from the end of the one before to
\* its own end, and leaves what lies behind.
LEMMA MeasureFacts ==
  ASSUME IInv, ~LoopBack, sync_packages
  PROVE  /\ lidar_buffer # <<>> /\ imu_buffer # <<>>
         /\ lidar_buffer' = Tail(lidar_buffer) /\ time_buffer' = Tail(time_buffer)
         /\ lidar_pushed' = FALSE
         /\ UNCHANGED <<last_timestamp_lidar, is_first_lidar, last_timestamp_imu>>
         /\ AverageScanTime
         /\ meas' \in [lidar : Scan \cup {NoScan}, beg : 0 .. MaxTime,
                       end : 0 .. MaxTime + Period, imu : Seq(0 .. MaxTime)]
         /\ meas'.lidar = lidar_buffer[1] /\ meas'.lidar \in Scan
         /\ meas'.end \in lidar_buffer[1].stamp .. lidar_buffer[1].stamp + Period
         /\ meas'.end <= last_timestamp_imu /\ done.to <= meas'.end
         /\ meas'.imu = SubSeq(imu_buffer, 1, Popped(meas'.end))
         /\ imu_buffer' = SubSeq(imu_buffer, Popped(meas'.end) + 1, Len(imu_buffer))
<1> DEFINE n == Popped(Pushed.end)
<1>1. /\ Scanned /\ ~ImuIsLate
      /\ meas' = [Pushed EXCEPT !.imu = SubSeq(imu_buffer, 1, n)]
      /\ imu_buffer' = SubSeq(imu_buffer, n + 1, Len(imu_buffer))
      /\ lidar_buffer' = Tail(lidar_buffer) /\ time_buffer' = Tail(time_buffer)
      /\ lidar_pushed' = FALSE
      /\ AverageScanTime
      /\ UNCHANGED <<last_timestamp_lidar, is_first_lidar, last_timestamp_imu>>
  BY Zenon DEF sync_packages, Measure, MeasureLeaving
<1>2. lidar_buffer # <<>> /\ imu_buffer # <<>>
  BY <1>1 DEF Scanned
<1>3. /\ 1 \in 1 .. Len(lidar_buffer) /\ lidar_buffer[1] \in Scan
      /\ Pushed \in [lidar : Scan \cup {NoScan}, beg : 0 .. MaxTime,
                     end : 0 .. MaxTime + Period, imu : Seq(0 .. MaxTime)]
      /\ Pushed.lidar = lidar_buffer[1]
      /\ Pushed.end \in lidar_buffer[1].stamp .. lidar_buffer[1].stamp + Period
      /\ done.to <= Pushed.end
  BY <1>2, PushedFacts
<1>4. Pushed.end \in Nat
  BY <1>3, LioAssumption
<1>5. n \in 0 .. Len(imu_buffer) /\ imu_buffer \in Seq(0 .. MaxTime)
  BY <1>2, <1>4, PoppedFacts DEF IInv, Kinds
<1> HIDE DEF n
<1>6. SubSeq(imu_buffer, 1, n) \in Seq(0 .. MaxTime)
  <2> DEFINE T == 0 .. MaxTime
  <2>1. n \in Nat /\ imu_buffer \in Seq(T) /\ \A h \in 1 .. n : h \in 1 .. Len(imu_buffer)
    BY <1>5
  <2> HIDE DEF T
  <2>2. \A h \in 1 .. n : imu_buffer[h] \in T
    BY <2>1
  <2>3. SubSeq(imu_buffer, 1, n) \in Seq(T)
    BY <2>1, <2>2, SubSeqProperties
  <2> QED
    BY <2>3 DEF T
<1>7. /\ meas'.lidar = Pushed.lidar /\ meas'.end = Pushed.end
      /\ meas'.imu = SubSeq(imu_buffer, 1, n)
      /\ meas' \in [lidar : Scan \cup {NoScan}, beg : 0 .. MaxTime,
                    end : 0 .. MaxTime + Period, imu : Seq(0 .. MaxTime)]
  BY <1>1, <1>3, <1>6
<1>8. Pushed.end <= last_timestamp_imu
  <2>1. last_timestamp_imu \in Int
    BY LioAssumption DEF IInv, TypeOK
  <2> QED
    BY <1>1, <1>4, <2>1 DEF ImuIsLate
<1>9. n = Popped(meas'.end)
  BY <1>7 DEF n
<1> HIDE <1>1
<1>10. /\ imu_buffer' = SubSeq(imu_buffer, n + 1, Len(imu_buffer))
       /\ lidar_buffer' = Tail(lidar_buffer) /\ time_buffer' = Tail(time_buffer)
       /\ lidar_pushed' = FALSE
       /\ AverageScanTime
       /\ UNCHANGED <<last_timestamp_lidar, is_first_lidar, last_timestamp_imu>>
  BY <1>1
<1> QED
  BY <1>2, <1>3, <1>7, <1>8, <1>9, <1>10

\* The samples of a measurement, and what is left.
LEMMA MeasuredSamples ==
  ASSUME IInv, ~LoopBack, sync_packages
  PROVE  /\ \A h \in 1 .. Len(meas'.imu) : meas'.imu[h] \in done.to .. meas'.end
         /\ \A h, j \in 1 .. Len(meas'.imu) : h < j => meas'.imu[h] < meas'.imu[j]
         /\ meas'.imu = <<>> => meas'.end - done.to <= MaxGap
         /\ done'.to = meas'.end => SamplesAreDense'
<1> DEFINE n == Popped(meas'.end)  len == Len(imu_buffer)  end == meas'.end
<1>1. /\ imu_buffer \in Seq(0 .. MaxTime) /\ len \in Nat /\ len # 0 /\ end \in Nat
      /\ done.to \in Nat /\ done.to <= end /\ end <= last_timestamp_imu
      /\ last_timestamp_imu \in Int /\ last_timestamp_imu' = last_timestamp_imu
      /\ meas'.imu = SubSeq(imu_buffer, 1, n) /\ imu_buffer' = SubSeq(imu_buffer, n + 1, len)
  <2>1. imu_buffer \in Seq(0 .. MaxTime) /\ done.to \in Nat /\ last_timestamp_imu \in Int
    BY LioAssumption DEF IInv, Kinds, TypeOK
  <2>2. imu_buffer # <<>> /\ end \in 0 .. MaxTime + Period
    BY MeasureFacts
  <2> QED
    BY <2>1, <2>2, MeasureFacts, LioAssumption
<1>2. /\ n \in 0 .. len
      /\ \A h \in 1 .. n : imu_buffer[h] <= end
      /\ \A h \in n + 1 .. len : end <= imu_buffer[h]
  BY <1>1, MeasureFacts, PoppedFacts
<1>3. \A h \in 1 .. len : /\ imu_buffer[h] \in Int /\ done.to <= imu_buffer[h]
                          /\ imu_buffer[h] <= last_timestamp_imu
  BY <1>1 DEF IInv, SamplesAreDense
<1>4. \A h, j \in 1 .. len : h < j => imu_buffer[h] < imu_buffer[j]
  BY DEF IInv, SamplesAreDense
<1>5. \A h \in 1 .. len - 1 : imu_buffer[h + 1] <= imu_buffer[h] + MaxGap
  BY DEF IInv, SamplesAreDense
<1>6. imu_buffer[1] <= done.to + MaxGap /\ imu_buffer[len] = last_timestamp_imu
  BY <1>1, MeasureFacts DEF IInv, SamplesAreDense
<1> HIDE DEF n, len, end
<1>7. /\ Len(meas'.imu) = n
      /\ \A h \in 1 .. n : meas'.imu[h] = imu_buffer[h] /\ h \in 1 .. len
      /\ Len(imu_buffer') = len - n
      /\ \A h \in 1 .. len - n : /\ imu_buffer'[h] = imu_buffer[h + n]
                                 /\ h + n \in n + 1 .. len /\ h + n \in 1 .. len
  BY <1>1, <1>2 DEF len
<1>8. \A h \in 1 .. Len(meas'.imu) : meas'.imu[h] \in done.to .. end
  BY <1>1, <1>2, <1>3, <1>7
<1>9. \A h, j \in 1 .. Len(meas'.imu) : h < j => meas'.imu[h] < meas'.imu[j]
  BY <1>4, <1>7
<1>10. meas'.imu = <<>> => end - done.to <= MaxGap
  <2> SUFFICES ASSUME meas'.imu = <<>> PROVE end - done.to <= MaxGap
    OBVIOUS
  <2>1. n = 0
    BY <1>7
  <2>2. 1 \in n + 1 .. len /\ 1 \in 1 .. len
    BY <1>1, <2>1
  <2> QED
    BY <1>1, <1>2, <1>3, <1>6, <2>2, LioAssumption
<1>11. ASSUME done'.to = end PROVE SamplesAreDense'
  <2>1. \A h \in 1 .. Len(imu_buffer') : imu_buffer'[h] \in end .. last_timestamp_imu
    BY <1>1, <1>2, <1>3, <1>7
  <2>2. \A h, j \in 1 .. Len(imu_buffer') : h < j => imu_buffer'[h] < imu_buffer'[j]
    <3> SUFFICES ASSUME NEW h \in 1 .. len - n, NEW j \in 1 .. len - n, h < j
                 PROVE  imu_buffer[h + n] < imu_buffer[j + n]
      BY <1>7
    <3> QED
      BY <1>1, <1>2, <1>4, <1>7
  <2>3. \A h \in 1 .. Len(imu_buffer') - 1 : imu_buffer'[h + 1] <= imu_buffer'[h] + MaxGap
    <3> SUFFICES ASSUME NEW h \in 1 .. (len - n) - 1
                 PROVE  imu_buffer'[h + 1] <= imu_buffer'[h] + MaxGap
      BY <1>7
    <3>1. /\ h \in 1 .. len - n /\ h + 1 \in 1 .. len - n /\ h + n \in 1 .. len - 1
          /\ (h + 1) + n = (h + n) + 1
      BY <1>1, <1>2
    <3> QED
      BY <1>5, <1>7, <3>1
  <2>4. imu_buffer' # <<>> => /\ imu_buffer'[1] <= end + MaxGap
                              /\ imu_buffer'[Len(imu_buffer')] = last_timestamp_imu
    <3> SUFFICES ASSUME imu_buffer' # <<>>
                 PROVE  /\ imu_buffer'[1] <= end + MaxGap
                        /\ imu_buffer'[Len(imu_buffer')] = last_timestamp_imu
      OBVIOUS
    <3>1. len - n \in Nat /\ len - n # 0
      BY <1>1, <1>2, <1>7
    <3>2. 1 \in 1 .. len - n /\ len - n \in 1 .. len - n /\ (len - n) + n = len
      BY <1>1, <1>2, <3>1
    <3>3. imu_buffer'[Len(imu_buffer')] = last_timestamp_imu
      BY <1>6, <1>7, <3>2
    <3>4. imu_buffer[1 + n] <= end + MaxGap
      <4>1. CASE n = 0
        BY <1>1, <1>2, <1>3, <1>6, <1>7, <3>2, <4>1, LioAssumption
      <4>2. CASE n # 0
        <5>1. n \in 1 .. len - 1 /\ n \in 1 .. n /\ n \in 1 .. len /\ n + 1 \in 1 .. len
          BY <1>1, <1>2, <3>1, <4>2
        <5>2. imu_buffer[n] <= end /\ imu_buffer[n + 1] <= imu_buffer[n] + MaxGap
          BY <1>2, <1>5, <5>1
        <5>3. /\ 1 + n = n + 1 /\ imu_buffer[n] \in Int /\ imu_buffer[n + 1] \in Int
              /\ end \in Int /\ MaxGap \in Int
          BY <1>1, <1>3, <5>1, LioAssumption
        <5>4. imu_buffer[n + 1] <= end + MaxGap
          BY <5>2, <5>3
        <5> QED
          BY <5>3, <5>4
      <4> QED
        BY <4>1, <4>2
    <3> QED
      BY <1>7, <3>2, <3>3, <3>4
  <2>5. imu_buffer' = <<>> => last_timestamp_imu <= end
    <3> SUFFICES ASSUME imu_buffer' = <<>> PROVE last_timestamp_imu <= end
      OBVIOUS
    <3>1. n = len
      BY <1>1, <1>2, <1>7
    <3>2. len \in 1 .. n
      BY <1>1, <3>1
    <3> QED
      BY <1>2, <1>6, <3>2
  <2> QED
    BY <1>1, <1>11, <2>1, <2>2, <2>3, <2>4, <2>5 DEF SamplesAreDense
<1> QED
  BY <1>8, <1>9, <1>10, <1>11 DEF end

\* The scans that are left.
LEMMA MeasuredScans ==
  ASSUME IInv, ~LoopBack, sync_packages, done'.to = meas'.end
  PROVE  ScansAreApart'
<1> DEFINE len == Len(lidar_buffer)
<1>1. /\ lidar_buffer \in Seq(Scan) /\ time_buffer \in Seq(0 .. MaxTime)
      /\ len \in Nat /\ len # 0 /\ Len(time_buffer) = len
      /\ last_timestamp_lidar \in Nat /\ Period \in Nat
      /\ meas'.end \in lidar_buffer[1].stamp .. lidar_buffer[1].stamp + Period
      /\ lidar_buffer' = Tail(lidar_buffer) /\ time_buffer' = Tail(time_buffer)
      /\ UNCHANGED <<last_timestamp_lidar, is_first_lidar>>
  <2>1. lidar_buffer \in Seq(Scan) /\ time_buffer \in Seq(0 .. MaxTime)
    BY DEF IInv, Kinds
  <2>2. last_timestamp_lidar \in Nat /\ Period \in Nat /\ Len(time_buffer) = len
    BY LioAssumption DEF IInv, TypeOK, ScansAreApart
  <2> QED
    BY <2>1, <2>2, MeasureFacts
<1>2. \A h \in 1 .. len : /\ time_buffer[h] = lidar_buffer[h].stamp
                          /\ lidar_buffer[h].stamp \in Int
                          /\ lidar_buffer[h].stamp <= last_timestamp_lidar
  BY <1>1 DEF IInv, ScansAreApart, Scan
<1>3. \A h, j \in 1 .. len : h < j => lidar_buffer[h].stamp + Period <= lidar_buffer[j].stamp
  BY DEF IInv, ScansAreApart
<1>4. ~is_first_lidar /\ last_timestamp_lidar % Period = 0
  BY MeasureFacts DEF IInv, ScansAreApart
<1> HIDE DEF len
<1>5. /\ Len(lidar_buffer') = len - 1 /\ Len(time_buffer') = len - 1
      /\ \A h \in 1 .. len - 1 : /\ lidar_buffer'[h] = lidar_buffer[h + 1]
                                 /\ time_buffer'[h] = time_buffer[h + 1]
                                 /\ h + 1 \in 1 .. len /\ 1 < h + 1
  BY <1>1 DEF len
<1>6. 1 \in 1 .. len
  BY <1>1
<1>7. \A h \in 1 .. len - 1 : /\ time_buffer'[h] = lidar_buffer'[h].stamp
                              /\ lidar_buffer'[h].stamp \in meas'.end .. last_timestamp_lidar
  <2> SUFFICES ASSUME NEW h \in 1 .. len - 1
               PROVE  /\ time_buffer'[h] = lidar_buffer'[h].stamp
                      /\ lidar_buffer'[h].stamp \in meas'.end .. last_timestamp_lidar
    OBVIOUS
  <2>1. lidar_buffer[1].stamp + Period <= lidar_buffer[h + 1].stamp
    BY <1>3, <1>5, <1>6
  <2> QED
    BY <1>1, <1>2, <1>5, <1>6, <2>1
<1>8. \A h, j \in 1 .. len - 1 :
        h < j => lidar_buffer'[h].stamp + Period <= lidar_buffer'[j].stamp
  BY <1>1, <1>3, <1>5
<1>9. meas'.end <= last_timestamp_lidar + Period
  BY <1>1, <1>2, <1>6
<1> QED
  BY <1>1, <1>4, <1>5, <1>7, <1>8, <1>9 DEF ScansAreApart

------------------------------------------------------------------------------
(***************************************************************************)
(* timer_callback.                                                         *)
(***************************************************************************)
\* The types of what the callback changes after sync_packages.
FilterTypes ==
  /\ flg_first_scan \in BOOLEAN /\ feats_undistort \in Scan \cup {NoScan}
  /\ map \subseteq Scan /\ init_iter_num \in Nat
  /\ imu_need_init_ = (init_iter_num <= MAX_INI_COUNT)
  /\ last_imu_ \in 0 .. MaxTime /\ odometry \in 0 .. MaxTime + Period

LEMMA DidFacts ==
  ASSUME NEW what, NEW p, NEW e, Did(what, p, e)
  PROVE  /\ done'.did = what /\ done'.imu = meas'.imu
         /\ done'.from = done.to /\ done'.to = meas'.end
         /\ done'.propagated = p /\ done'.elapsed = e
         /\ done'.stale <=> feats_undistort' # meas'.lidar
         /\ done'.undistorted <=> done.undistorted \/ Undistorts
         /\ done'.again <=> done.undistorted /\ Undistorts
         /\ done'.undistorted \in BOOLEAN
<1> DEFINE stale == feats_undistort' # meas'.lidar
           undistorted == done.undistorted \/ Undistorts
           again == done.undistorted /\ Undistorts
<1>1. done' = [did |-> what, stale |-> stale, imu |-> meas'.imu, from |-> done.to,
               to |-> meas'.end, undistorted |-> undistorted, again |-> again,
               propagated |-> p, elapsed |-> e]
  BY Zenon DEF Did
<1>2. undistorted \in BOOLEAN
  OBVIOUS
<1> HIDE DEF stale, undistorted, again
<1>3. /\ done'.did = what /\ done'.imu = meas'.imu
      /\ done'.from = done.to /\ done'.to = meas'.end
      /\ done'.propagated = p /\ done'.elapsed = e
      /\ done'.stale = stale /\ done'.undistorted = undistorted /\ done'.again = again
  BY <1>1, Zenon
<1> QED
  BY <1>2, <1>3, Zenon DEF stale, undistorted, again

\* Only what has points is registered.
LEMMA RegisterFacts ==
  ASSUME NEW p, NEW e, Register(p, e)
  PROVE  /\ \E what \in {"no point", "build", "no map", "few points", "map"} :
               /\ Did(what, p, e)
               /\ what \in {"build", "map", "few points"} => feats_undistort'.size # 0
         /\ odometry' = odometry \/ odometry' = meas'.end
         /\ map' = map \/ (map' \subseteq map \cup {feats_undistort'} /\ feats_undistort'.size # 0)
<1> DEFINE scan == feats_undistort'
           Good(what) == /\ Did(what, p, e)
                         /\ what \in {"build", "map", "few points"} => scan.size # 0
                         /\ odometry' = odometry \/ odometry' = meas'.end
                         /\ map' = map \/ (map' \subseteq map \cup {scan} /\ scan.size # 0)
<1>1. CASE scan.size = 0 /\ odometry' = meas'.end /\ UNCHANGED map /\ Did("no point", p, e)
  <2>1. Good("no point")
    BY <1>1
  <2> QED
    BY <2>1
<1>2. CASE scan.size > 5 /\ map' = {scan} /\ UNCHANGED odometry /\ Did("build", p, e)
  <2>1. scan.size # 0
    BY <1>2
  <2>2. Good("build")
    BY <1>2, <2>1
  <2> QED
    BY <2>2
<1>3. CASE UNCHANGED <<map, odometry>> /\ Did("no map", p, e)
  <2>1. Good("no map")
    BY <1>3
  <2> QED
    BY <2>1
<1>4. CASE scan.size \in 1 .. 4 /\ odometry' = meas'.end /\ UNCHANGED map
           /\ Did("few points", p, e)
  <2>1. scan.size # 0
    <3>1. scan.size \in 1 .. 4
      BY <1>4, Zenon
    <3> HIDE DEF scan
    <3> QED
      BY <3>1
  <2>2. Good("few points")
    BY <1>4, <2>1
  <2> QED
    BY <2>2
<1>5. CASE scan.size >= 5 /\ odometry' = meas'.end /\ map' = map \cup {scan} /\ Did("map", p, e)
  <2>1. scan.size # 0
    BY <1>5
  <2>2. Good("map")
    BY <1>5, <2>1
  <2> QED
    BY <2>2
<1> QED
  BY <1>1, <1>2, <1>3, <1>4, <1>5, Zenon DEF Register

\* What holds after a measurement whatever the callback then does with it.
LEMMA AfterMeasure ==
  ASSUME IInv, ~LoopBack, sync_packages, FilterTypes',
         done'.imu = meas'.imu, done'.from = done.to, done'.to = meas'.end,
         done'.undistorted \in BOOLEAN
  PROVE  /\ TypeOK' /\ Kinds' /\ ScansAreApart' /\ SamplesAreDense' /\ PushedIsFirst'
         /\ WindowsAreDisjoint'
         /\ done.to <= done'.to
<1>1. ScansAreApart' /\ SamplesAreDense'
  BY MeasuredScans, MeasuredSamples
<1>2. PushedIsFirst'
  BY MeasureFacts DEF PushedIsFirst
<1>3. /\ lidar_buffer' \in Seq(Scan) /\ time_buffer' \in Seq(0 .. MaxTime)
      /\ imu_buffer' \in Seq(0 .. MaxTime)
  <2>1. /\ lidar_buffer \in Seq(Scan) /\ lidar_buffer # <<>>
        /\ time_buffer \in Seq(0 .. MaxTime) /\ time_buffer # <<>>
        /\ imu_buffer \in Seq(0 .. MaxTime) /\ imu_buffer # <<>>
    <3>1. /\ lidar_buffer \in Seq(Scan) /\ time_buffer \in Seq(0 .. MaxTime)
          /\ imu_buffer \in Seq(0 .. MaxTime) /\ Len(lidar_buffer) = Len(time_buffer)
          /\ lidar_buffer # <<>> /\ imu_buffer # <<>>
      BY MeasureFacts DEF IInv, Kinds, ScansAreApart
    <3> QED
      BY <3>1
  <2> DEFINE T == 0 .. MaxTime  n == Popped(meas'.end)
  <2>2. n \in 0 .. Len(imu_buffer) /\ imu_buffer' = SubSeq(imu_buffer, n + 1, Len(imu_buffer))
    <3>1. meas'.end \in Nat
      BY MeasureFacts, LioAssumption
    <3> QED
      BY <2>1, <3>1, MeasureFacts, PoppedFacts
  <2>3. imu_buffer \in Seq(T)
    BY <2>1
  <2> HIDE DEF T, n
  <2>4. /\ n + 1 \in Int /\ Len(imu_buffer) \in Int
        /\ \A h \in n + 1 .. Len(imu_buffer) : h \in 1 .. Len(imu_buffer)
    BY <2>2, <2>3
  <2>5. \A h \in n + 1 .. Len(imu_buffer) : imu_buffer[h] \in T
    BY <2>3, <2>4
  <2>6. imu_buffer' \in Seq(T)
    BY <2>2, <2>4, <2>5, SubSeqProperties
  <2>7. lidar_buffer' = Tail(lidar_buffer) /\ time_buffer' = Tail(time_buffer)
    BY MeasureFacts
  <2>8. lidar_buffer' \in Seq(Scan) /\ time_buffer' \in Seq(0 .. MaxTime)
    BY <2>1, <2>7
  <2> QED
    BY <2>6, <2>8 DEF T
<1>4. /\ meas' \in [lidar : Scan \cup {NoScan}, beg : 0 .. MaxTime,
                    end : 0 .. MaxTime + Period, imu : Seq(0 .. MaxTime)]
      /\ lidar_pushed' = FALSE /\ UNCHANGED <<last_timestamp_lidar, is_first_lidar, last_timestamp_imu>>
      /\ AverageScanTime /\ lidar_buffer # <<>>
      /\ done.to <= meas'.end
  BY MeasureFacts
<1>5. scan_num' \in Nat /\ lidar_mean_scantime' \in 0 .. scan_num' * Period
  BY <1>4, AverageType
<1>6. /\ \A h \in DOMAIN lidar_buffer' : lidar_buffer'[h] \in Scan
      /\ \A h \in DOMAIN time_buffer' : time_buffer'[h] \in 0 .. MaxTime
      /\ \A h \in DOMAIN imu_buffer' : imu_buffer'[h] \in 0 .. MaxTime
  <2> DEFINE T == 0 .. MaxTime
  <2>1. time_buffer' \in Seq(T) /\ imu_buffer' \in Seq(T)
    BY <1>3
  <2> HIDE DEF T
  <2>2. /\ \A h \in DOMAIN lidar_buffer' : lidar_buffer'[h] \in Scan
        /\ \A h \in DOMAIN time_buffer' : time_buffer'[h] \in T
        /\ \A h \in DOMAIN imu_buffer' : imu_buffer'[h] \in T
    BY <1>3, <2>1
  <2> QED
    BY <2>2 DEF T
<1>7. TypeOK'
  <2>1. meas'.lidar \in Scan \cup {NoScan} /\ meas'.end \in 0 .. MaxTime + Period
    BY <1>4
  <2>2. /\ last_timestamp_lidar' \in 0 .. MaxTime /\ is_first_lidar' \in BOOLEAN
        /\ last_timestamp_imu' \in -1 .. MaxTime
    BY <1>4 DEF IInv, TypeOK
  <2>3. lidar_pushed' \in BOOLEAN /\ (lidar_pushed' /\ ~LoopBack => lidar_buffer' # <<>>)
    BY <1>4
  <2> QED
    BY <1>5, <1>6, <2>1, <2>2, <2>3, Zenon DEF TypeOK, FilterTypes
<1>8. Kinds'
  <2>1. meas'.imu \in Seq(0 .. MaxTime) /\ meas'.end \in Nat
    <3>1. meas'.imu \in Seq(0 .. MaxTime) /\ meas'.end \in 0 .. MaxTime + Period
      BY <1>4
    <3> QED
      BY <3>1, LioAssumption
  <2>2. done.to \in Nat
    BY DEF IInv, Kinds
  <2>3. done'.imu \in Seq(0 .. MaxTime) /\ done'.from \in Nat /\ done'.to \in Nat
    BY <2>1, <2>2, Zenon
  <2> QED
    BY <1>3, <1>4, <2>3, Zenon DEF Kinds
<1>9. WindowsAreDisjoint'
  <2>1. \A h \in DOMAIN meas'.imu : meas'.imu[h] \in done.to .. meas'.end
    <3>1. DOMAIN meas'.imu = 1 .. Len(meas'.imu)
      BY <1>4
    <3> QED
      BY <3>1, MeasuredSamples
  <2>2. \A h \in DOMAIN imu_buffer' : imu_buffer'[h] >= done'.to
    <3>1. DOMAIN imu_buffer' = 1 .. Len(imu_buffer')
      BY <1>3
    <3>2. \A h \in 1 .. Len(imu_buffer') : imu_buffer'[h] \in done'.to .. last_timestamp_imu'
      BY <1>1 DEF SamplesAreDense
    <3>3. \A h \in 1 .. Len(imu_buffer') : imu_buffer'[h] >= done'.to
      BY <3>2, <1>8 DEF Kinds
    <3> QED
      BY <3>1, <3>3
  <2> QED
    BY <2>1, <2>2, Zenon DEF WindowsAreDisjoint
<1> QED
  BY <1>1, <1>2, <1>4, <1>7, <1>8, <1>9

LEMMA SyncWaitsStep ==
  ASSUME IInv, ~LoopBack, SyncWaits
  PROVE  IInv'
<1> USE LioAssumption
<1>1. /\ Scanned /\ lidar_pushed' = TRUE /\ meas' = Pushed /\ AverageScanTime
      /\ UNCHANGED <<lidar_buffer, time_buffer, last_timestamp_lidar, is_first_lidar,
                     imu_buffer, last_timestamp_imu, imuVars, mapVars, done>>
  BY DEF SyncWaits, buffers
<1>2. lidar_buffer # <<>>
  BY <1>1 DEF Scanned
<1>3. /\ 1 \in 1 .. Len(lidar_buffer) /\ lidar_buffer[1] \in Scan
      /\ meas' \in [lidar : Scan \cup {NoScan}, beg : 0 .. MaxTime,
                    end : 0 .. MaxTime + Period, imu : Seq(0 .. MaxTime)]
      /\ meas'.lidar = lidar_buffer[1] /\ meas'.beg = time_buffer[1]
      /\ meas'.end \in lidar_buffer[1].stamp .. lidar_buffer[1].stamp + Period
  BY <1>1, <1>2, PushedFacts
<1>4. scan_num' \in Nat /\ lidar_mean_scantime' \in 0 .. scan_num' * Period
  BY <1>1, <1>2, AverageType
<1>5. TypeOK'
  <2>1. meas'.lidar \in Scan \cup {NoScan} /\ meas'.end \in 0 .. MaxTime + Period
    BY <1>3
  <2>2. lidar_pushed' \in BOOLEAN /\ (lidar_pushed' /\ ~LoopBack => lidar_buffer' # <<>>)
    BY <1>1, <1>2
  <2> HIDE LioAssumption
  <2> QED
    BY <1>1, <1>4, <2>1, <2>2, Zenon DEF IInv, TypeOK, imuVars, mapVars
<1>6. Kinds'
  BY <1>1, <1>3, Zenon DEF IInv, Kinds
<1>7. ScansAreApart' /\ SamplesAreDense' /\ FilterIsBehind'
  <2>1. ScansAreApart'
    BY <1>1 DEF IInv, ScansAreApart, imuVars, mapVars
  <2>2. SamplesAreDense'
    BY <1>1 DEF IInv, SamplesAreDense, imuVars, mapVars
  <2>3. FilterIsBehind'
    BY <1>1 DEF IInv, FilterIsBehind, imuVars, mapVars
  <2> QED
    BY <2>1, <2>2, <2>3
<1>8. PushedIsFirst'
  <2>1. time_buffer[1] = lidar_buffer[1].stamp
    BY <1>3 DEF IInv, ScansAreApart
  <2> QED
    BY <1>1, <1>2, <1>3, <2>1 DEF PushedIsFirst
<1>9. WindowsAreDisjoint' /\ PropagationFollowsScans' /\ EveryScanIsUndistorted'
  BY <1>1 DEF IInv, WindowsAreDisjoint, PropagationFollowsScans, EveryScanIsUndistorted
<1> QED
  BY <1>5, <1>6, <1>7, <1>8, <1>9 DEF IInv

LEMMA EndsAreNumbers ==
  ASSUME IInv, ~LoopBack, sync_packages
  PROVE  odometry \in Int /\ odometry <= done.to /\ done.to \in Nat /\ meas'.end \in Nat
<1>1. odometry \in 0 .. MaxTime + Period /\ done.to \in Nat /\ odometry <= done.to
  BY DEF IInv, TypeOK, Kinds, FilterIsBehind
<1>2. meas'.end \in 0 .. MaxTime + Period
  BY MeasureFacts
<1> QED
  BY <1>1, <1>2, LioAssumption

LEMMA FirstScanStep ==
  ASSUME IInv, ~LoopBack, FirstScan
  PROVE  IInv' /\ odometry <= odometry'
<1>1. /\ flg_first_scan /\ sync_packages /\ flg_first_scan' = FALSE
      /\ UNCHANGED <<init_iter_num, imu_need_init_, last_imu_, last_lidar_end_time_,
                     feats_undistort, map, odometry>>
      /\ Did("first scan", 0, 0)
  BY DEF FirstScan, imuVars
<1>2. FilterTypes'
  BY <1>1 DEF IInv, TypeOK, FilterTypes
<1>3. /\ done'.did = "first scan" /\ done'.imu = meas'.imu
      /\ done'.from = done.to /\ done'.to = meas'.end
      /\ done'.undistorted \in BOOLEAN
      /\ done'.undistorted <=> done.undistorted \/ Undistorts
      /\ done'.again <=> done.undistorted /\ Undistorts
  BY <1>1, DidFacts
<1>4. ~Undistorts
  BY <1>1 DEF Undistorts
<1>5. /\ TypeOK' /\ Kinds' /\ ScansAreApart' /\ SamplesAreDense' /\ PushedIsFirst'
      /\ WindowsAreDisjoint' /\ done.to <= done'.to
  BY <1>1, <1>2, <1>3, AfterMeasure
<1>6. done.to \in Nat /\ done'.to \in Nat /\ odometry \in Int /\ odometry <= done.to
  <2>1. done'.to = meas'.end
    BY <1>3
  <2> QED
    BY <1>1, <2>1, EndsAreNumbers
<1>7. FilterIsBehind'
  <2>1. done'.undistorted <=> done.undistorted
    BY <1>3, <1>4, Zenon
  <2>2. odometry' <= done'.to /\ \A t \in 0 .. done.to : t \in 0 .. done'.to
    <3>1. odometry' = odometry /\ done.to <= done'.to
      BY <1>1, <1>5
    <3> QED
      BY <1>6, <3>1
  <2> QED
    BY <1>1, <2>1, <2>2, Zenon DEF IInv, FilterIsBehind
<1>8. PropagationFollowsScans' /\ EveryScanIsUndistorted'
  <2>1. ~(done'.did \in {"build", "map", "few points"})
    BY <1>3
  <2> QED
    BY <1>3, <1>4, <2>1, Zenon DEF PropagationFollowsScans, EveryScanIsUndistorted
<1>9. odometry <= odometry'
  <2>1. odometry' = odometry
    BY <1>1
  <2> QED
    BY <1>6, <2>1
<1> QED
  BY <1>5, <1>7, <1>8, <1>9, Zenon DEF IInv

LEMMA LatestStamp ==
  ASSUME NEW before \in Int, NEW to \in Nat, NEW end \in Nat, NEW after,
         before <= to, to <= end, after = before \/ after = end
  PROVE  before <= after /\ after <= end
OBVIOUS

\* What holds after a measurement that was processed.
LEMMA AfterRegister ==
  ASSUME IInv, ~LoopBack, sync_packages, NEW p, NEW e, Register(p, e),
         flg_first_scan' \in BOOLEAN, feats_undistort' \in Scan \cup {NoScan},
         init_iter_num' \in Nat, imu_need_init_' = (init_iter_num' <= MAX_INI_COUNT),
         last_imu_' \in 0 .. MaxTime
  PROVE  /\ TypeOK' /\ Kinds' /\ ScansAreApart' /\ SamplesAreDense' /\ PushedIsFirst'
         /\ WindowsAreDisjoint'
         /\ done.to <= done'.to /\ done'.to = meas'.end /\ done'.from = done.to
         /\ odometry <= odometry' /\ odometry' <= done'.to
         /\ done'.did \in {"build", "map", "few points"} => feats_undistort'.size # 0
         /\ done'.stale <=> feats_undistort' # meas'.lidar
         /\ done'.undistorted <=> done.undistorted \/ Undistorts
         /\ done'.again <=> done.undistorted /\ Undistorts
         /\ done'.propagated = p /\ done'.elapsed = e
<1>1. PICK what \in {"no point", "build", "no map", "few points", "map"} :
        /\ Did(what, p, e)
        /\ what \in {"build", "map", "few points"} => feats_undistort'.size # 0
  BY RegisterFacts
<1>2. /\ odometry' = odometry \/ odometry' = meas'.end
      /\ map' = map \/ (map' \subseteq map \cup {feats_undistort'} /\ feats_undistort'.size # 0)
  BY RegisterFacts
<1>3. /\ done'.did = what /\ done'.imu = meas'.imu
      /\ done'.from = done.to /\ done'.to = meas'.end
      /\ done'.propagated = p /\ done'.elapsed = e
      /\ done'.stale <=> feats_undistort' # meas'.lidar
      /\ done'.undistorted <=> done.undistorted \/ Undistorts
      /\ done'.again <=> done.undistorted /\ Undistorts
      /\ done'.undistorted \in BOOLEAN
  BY <1>1, DidFacts
<1>4. meas'.end \in 0 .. MaxTime + Period /\ done.to <= meas'.end
  BY MeasureFacts
<1>5. FilterTypes'
  <2>1. map' \subseteq Scan
    <3>1. map \subseteq Scan
      BY DEF IInv, TypeOK
    <3>2. NoScan.size = 0
      BY DEF NoScan
    <3>3. feats_undistort'.size # 0 => feats_undistort' \in Scan
      BY <3>2, Zenon
    <3> QED
      BY <1>2, <3>1, <3>3, Zenon
  <2>2. odometry' \in 0 .. MaxTime + Period
    BY <1>2, <1>4 DEF IInv, TypeOK
  <2> QED
    BY <2>1, <2>2, Zenon DEF FilterTypes
<1>6. /\ TypeOK' /\ Kinds' /\ ScansAreApart' /\ SamplesAreDense' /\ PushedIsFirst'
      /\ WindowsAreDisjoint' /\ done.to <= done'.to
  BY <1>3, <1>5, AfterMeasure, Zenon
<1>7. odometry <= odometry' /\ odometry' <= done'.to
  <2>1. odometry \in Int /\ odometry <= done.to /\ done.to \in Nat /\ meas'.end \in Nat
    BY EndsAreNumbers
  <2>2. done'.to = meas'.end /\ done.to <= meas'.end
    BY <1>3, <1>4
  <2>3. odometry' = odometry \/ odometry' = meas'.end
    BY <1>2
  <2> QED
    BY <2>1, <2>2, <2>3, LatestStamp, Zenon
<1> QED
  BY <1>1, <1>3, <1>6, <1>7, Zenon

\* Without samples the end of the scan lies no further on than the next one.
LEMMA WithoutImuStep ==
  ASSUME IInv, ~LoopBack, ProcessWithoutImu
  PROVE  IInv' /\ odometry <= odometry'
<1>1. /\ sync_packages /\ meas'.imu = <<>>
      /\ UNCHANGED <<flg_first_scan, feats_undistort, init_iter_num, imu_need_init_,
                     last_imu_, last_lidar_end_time_>>
      /\ Register(0, 0)
  BY DEF ProcessWithoutImu, imuVars
<1>2. /\ flg_first_scan' \in BOOLEAN /\ feats_undistort' \in Scan \cup {NoScan}
      /\ init_iter_num' \in Nat /\ imu_need_init_' = (init_iter_num' <= MAX_INI_COUNT)
      /\ last_imu_' \in 0 .. MaxTime
  BY <1>1 DEF IInv, TypeOK
<1>3. /\ TypeOK' /\ Kinds' /\ ScansAreApart' /\ SamplesAreDense' /\ PushedIsFirst'
      /\ WindowsAreDisjoint'
      /\ done.to <= done'.to /\ done'.to = meas'.end /\ done'.from = done.to
      /\ odometry <= odometry' /\ odometry' <= done'.to
      /\ done'.undistorted <=> done.undistorted \/ Undistorts
      /\ done'.again <=> done.undistorted /\ Undistorts
  BY <1>1, <1>2, AfterRegister
<1>4. ~Undistorts
  BY <1>1 DEF Undistorts
<1>5. FilterIsBehind'
  <2>1. done.to \in Nat /\ done'.to \in Nat
    BY <1>3 DEF IInv, Kinds
  <2> QED
    BY <1>1, <1>3, <1>4, <2>1 DEF IInv, FilterIsBehind
<1>6. PropagationFollowsScans'
  BY <1>3, <1>4 DEF PropagationFollowsScans
<1>7. EveryScanIsUndistorted'
  <2>1. done'.to - done'.from <= MaxGap
    BY <1>1, <1>3, MeasuredSamples
  <2>2. done'.to \in Nat /\ done'.from \in Nat /\ MaxGap \in Nat
    BY <1>3, LioAssumption DEF Kinds
  <2>3. ~(done'.to - done'.from > MaxGap)
    BY <2>1, <2>2
  <2> QED
    BY <2>3, Zenon DEF EveryScanIsUndistorted
<1> QED
  BY <1>3, <1>5, <1>6, <1>7 DEF IInv

\* The last sample of a measurement, and the first, lie in its window.
LEMMA LastSample ==
  ASSUME IInv, ~LoopBack, sync_packages, meas'.imu # <<>>
  PROVE  /\ Len(meas'.imu) \in Nat \ {0} /\ Last(meas'.imu) = meas'.imu[Len(meas'.imu)]
         /\ Last(meas'.imu) \in 0 .. MaxTime
         /\ Last(meas'.imu) \in done.to .. meas'.end
<1> DEFINE T == 0 .. MaxTime
<1>1. meas'.imu \in Seq(T)
  BY MeasureFacts
<1> HIDE DEF T
<1>2. Len(meas'.imu) \in Nat \ {0} /\ Len(meas'.imu) \in 1 .. Len(meas'.imu)
  BY <1>1
<1>3. Last(meas'.imu) = meas'.imu[Len(meas'.imu)] /\ Last(meas'.imu) \in T
  BY <1>1, <1>2 DEF Last
<1> QED
  BY <1>2, <1>3, MeasuredSamples DEF T

\* Until the filter has started no scan has been undistorted, and none is registered.
LEMMA ImuInitStep ==
  ASSUME IInv, ~LoopBack, IMU_init
  PROVE  IInv' /\ odometry <= odometry'
<1>1. /\ sync_packages /\ meas'.imu # <<>> /\ imu_need_init_
      /\ init_iter_num' = init_iter_num + Len(meas'.imu)
      /\ imu_need_init_' = (init_iter_num' <= MAX_INI_COUNT)
      /\ last_imu_' = Last(meas'.imu)
      /\ UNCHANGED <<flg_first_scan, feats_undistort, last_lidar_end_time_>>
      /\ Register(0, 0)
  BY Zenon DEF IMU_init
<1>2. feats_undistort' = NoScan /\ ~done.undistorted
  BY <1>1, Zenon DEF IInv, FilterIsBehind
<1>3. /\ flg_first_scan' \in BOOLEAN /\ feats_undistort' \in Scan \cup {NoScan}
      /\ init_iter_num' \in Nat /\ last_imu_' \in 0 .. MaxTime
  <2>1. init_iter_num \in Nat /\ Len(meas'.imu) \in Nat /\ Last(meas'.imu) \in 0 .. MaxTime
    BY <1>1, LastSample DEF IInv, TypeOK
  <2>2. flg_first_scan \in BOOLEAN
    BY DEF IInv, TypeOK
  <2> QED
    BY <1>1, <1>2, <2>1, <2>2
<1>4. /\ TypeOK' /\ Kinds' /\ ScansAreApart' /\ SamplesAreDense' /\ PushedIsFirst'
      /\ WindowsAreDisjoint'
      /\ done'.to = meas'.end
      /\ odometry <= odometry' /\ odometry' <= done'.to
      /\ done'.did \in {"build", "map", "few points"} => feats_undistort'.size # 0
      /\ done'.undistorted <=> done.undistorted \/ Undistorts
      /\ done'.again <=> done.undistorted /\ Undistorts
  BY <1>1, <1>3, AfterRegister, Zenon
<1>5. ~Undistorts
  BY <1>1 DEF Undistorts
<1>6. FilterIsBehind'
  BY <1>2, <1>4, <1>5, Zenon DEF FilterIsBehind
<1>7. PropagationFollowsScans'
  BY <1>4, <1>5, Zenon DEF PropagationFollowsScans
<1>8. EveryScanIsUndistorted'
  <2>1. NoScan.size = 0
    BY DEF NoScan
  <2> QED
    BY <1>2, <1>4, <2>1, Zenon DEF EveryScanIsUndistorted
<1> QED
  BY <1>4, <1>6, <1>7, <1>8, Zenon DEF IInv

\* From the end of the last scan over the samples to the end of this one the propagated
\* time adds up to what lies between.
LEMMA PropagatedIsElapsed ==
  ASSUME IInv, ~LoopBack, sync_packages, meas'.imu # <<>>, done.undistorted
  PROVE  Propagated(<<last_imu_>> \o meas'.imu, last_lidar_end_time_, meas'.end)
           = meas'.end - last_lidar_end_time_
<1> DEFINE v == <<last_imu_>> \o meas'.imu  n == Len(meas'.imu)  from == last_lidar_end_time_
           end == meas'.end
<1>1. /\ meas'.imu \in Seq(Int) /\ n \in Nat \ {0}
      /\ \A h \in 1 .. n : meas'.imu[h] \in done.to .. end
      /\ \A h, j \in 1 .. n : h < j => meas'.imu[h] < meas'.imu[j]
      /\ done.to \in Nat /\ end \in Nat
  <2>1. meas'.imu \in Seq(0 .. MaxTime) /\ end \in 0 .. MaxTime + Period
    BY MeasureFacts
  <2>2. meas'.imu \in Seq(Int) /\ end \in Nat
    BY <2>1, LioAssumption
  <2> QED
    BY <2>2, LastSample, MeasuredSamples DEF IInv, Kinds
<1>2. last_imu_ \in Nat /\ from \in Nat /\ last_imu_ <= from /\ from <= done.to
  BY <1>1, LioAssumption DEF IInv, TypeOK, FilterIsBehind
<1>3. /\ v \in Seq(Int) /\ Len(v) = n + 1 /\ v # <<>> /\ v[1] = last_imu_
      /\ \A h \in 1 .. n : v[h + 1] = meas'.imu[h]
  <2> DEFINE s == meas'.imu
  <2>1. last_imu_ \in Int /\ s \in Seq(Int) /\ n = Len(s) /\ v = <<last_imu_>> \o s
    BY <1>1, <1>2
  <2> HIDE DEF s, v, n
  <2>2. /\ v \in Seq(Int) /\ Len(v) = Len(s) + 1 /\ v[1] = last_imu_
        /\ \A h \in 1 .. Len(s) : v[h + 1] = s[h]
    BY <2>1
  <2>3. v # <<>>
    BY <1>1, <2>1, <2>2
  <2> QED
    BY <2>1, <2>2, <2>3 DEF s
<1> HIDE DEF v, n, from, end
<1>4. \A h \in 1 .. Len(v) - 1 : v[h] <= v[h + 1]
  <2> SUFFICES ASSUME NEW h \in 1 .. n PROVE v[h] <= v[h + 1]
    BY <1>1, <1>3
  <2>1. CASE h = 1
    BY <1>1, <1>2, <1>3, <2>1
  <2>2. CASE h # 1
    <3>1. h - 1 \in 1 .. n /\ h - 1 < h /\ (h - 1) + 1 = h
      BY <1>1, <2>2
    <3>2. v[h] = meas'.imu[h - 1] /\ v[h + 1] = meas'.imu[h]
      BY <1>3, <3>1
    <3>3. meas'.imu[h - 1] < meas'.imu[h] /\ meas'.imu[h - 1] \in Int /\ meas'.imu[h] \in Int
      BY <1>1, <3>1
    <3> QED
      BY <3>2, <3>3
  <2> QED
    BY <2>1, <2>2
<1>5. v[Len(v)] \in done.to .. end
  <2>1. n \in 1 .. n
    BY <1>1
  <2> QED
    BY <1>1, <1>3, <2>1
<1>6. PropagatedTo(v, from)[Len(v)] = v[Len(v)] - from
  <2>1. Len(v) \in 1 .. Len(v)
    BY <1>1, <1>3
  <2>2. PropagatedTo(v, from)[Len(v)] = (IF v[Len(v)] < from THEN from ELSE v[Len(v)])
                                        - (IF v[1] < from THEN from ELSE v[1])
    <3>1. from \in Int
      BY <1>2
    <3>2. \A m \in 1 .. Len(v) :
            PropagatedTo(v, from)[m] = (IF v[m] < from THEN from ELSE v[m])
                                       - (IF v[1] < from THEN from ELSE v[1])
      BY <1>3, <1>4, <3>1, PropagatedToIsDistance, Zenon
    <3> QED
      BY <2>1, <3>2, Zenon
  <2>3. ~(v[Len(v)] < from) /\ (IF v[1] < from THEN from ELSE v[1]) = from
    BY <1>1, <1>2, <1>3, <1>5
  <2> QED
    BY <2>2, <2>3
<1>7. Last(v) = v[Len(v)]
  BY DEF Last
<1>8. Abs(end - v[Len(v)]) = end - v[Len(v)]
  BY <1>1, <1>5 DEF Abs
<1>9. Propagated(v, from, end) = end - from
  BY <1>1, <1>2, <1>5, <1>6, <1>7, <1>8 DEF Propagated
<1> QED
  BY <1>9 DEF v, from, end

LEMMA UndistortStep ==
  ASSUME IInv, ~LoopBack, UndistortPcl
  PROVE  IInv' /\ odometry <= odometry'
<1>1. /\ sync_packages /\ Undistorts
      /\ feats_undistort' = meas'.lidar
      /\ last_imu_' = Last(meas'.imu) /\ last_lidar_end_time_' = meas'.end
      /\ UNCHANGED <<flg_first_scan, init_iter_num, imu_need_init_>>
  BY DEF UndistortPcl
<1>2. PICK from \in LastEndTime :
        Register(Propagated(<<last_imu_>> \o meas'.imu, from, meas'.end),
                 meas'.end - (IF done.undistorted THEN last_lidar_end_time_ ELSE last_imu_))
  BY Zenon DEF UndistortPcl
<1> DEFINE p == Propagated(<<last_imu_>> \o meas'.imu, from, meas'.end)
           e == meas'.end - (IF done.undistorted THEN last_lidar_end_time_ ELSE last_imu_)
<1>3. Register(p, e)
  BY <1>2
<1>4. meas'.imu # <<>> /\ ~imu_need_init_
  BY <1>1 DEF Undistorts
<1>5. done.undistorted => p = e
  BY <1>1, <1>4, PropagatedIsElapsed DEF LastEndTime
<1> HIDE DEF p, e
<1>6. /\ flg_first_scan' \in BOOLEAN /\ feats_undistort' \in Scan \cup {NoScan}
      /\ init_iter_num' \in Nat /\ imu_need_init_' = (init_iter_num' <= MAX_INI_COUNT)
      /\ last_imu_' \in 0 .. MaxTime
  <2>1. meas'.lidar \in Scan
    BY <1>1, MeasureFacts
  <2>2. Last(meas'.imu) \in 0 .. MaxTime
    BY <1>1, <1>4, LastSample
  <2>3. /\ flg_first_scan \in BOOLEAN /\ init_iter_num \in Nat
        /\ imu_need_init_ = (init_iter_num <= MAX_INI_COUNT)
    BY DEF IInv, TypeOK
  <2> QED
    BY <1>1, <2>1, <2>2, <2>3
<1>7. /\ TypeOK' /\ Kinds' /\ ScansAreApart' /\ SamplesAreDense' /\ PushedIsFirst'
      /\ WindowsAreDisjoint'
      /\ done'.to = meas'.end
      /\ odometry <= odometry' /\ odometry' <= done'.to
      /\ done'.stale <=> feats_undistort' # meas'.lidar
      /\ done'.undistorted <=> done.undistorted \/ Undistorts
      /\ done'.again <=> done.undistorted /\ Undistorts
      /\ done'.propagated = p /\ done'.elapsed = e
  BY <1>1, <1>3, <1>6, AfterRegister, Zenon
<1>8. FilterIsBehind'
  <2>1. ~imu_need_init_'
    BY <1>1, <1>4
  <2>2. Last(meas'.imu) <= meas'.end /\ meas'.end \in 0 .. meas'.end
    <3>1. meas'.end \in Nat /\ done.to \in Nat
      BY <1>1, EndsAreNumbers
    <3> QED
      BY <1>1, <1>4, <3>1, LastSample
  <2> QED
    BY <1>1, <1>7, <2>1, <2>2, Zenon DEF FilterIsBehind
<1>9. PropagationFollowsScans'
  BY <1>5, <1>7, Zenon DEF PropagationFollowsScans
<1>10. EveryScanIsUndistorted'
  BY <1>1, <1>7, Zenon DEF EveryScanIsUndistorted
<1> QED
  BY <1>7, <1>8, <1>9, <1>10, Zenon DEF IInv

------------------------------------------------------------------------------
(***************************************************************************)
(* Theorems.                                                               *)
(***************************************************************************)
LEMMA NextInv ==
  ASSUME IInv, ~LoopBack, Next
  PROVE  IInv' /\ odometry' >= odometry
<1>0. odometry \in Int
  BY LioAssumption DEF IInv, TypeOK
<1>1. CASE \E scan \in Scan : livox_pcl_cbk(scan)
  <2>1. IInv'
    BY <1>1, ScanStep
  <2>2. odometry' = odometry
    BY <1>1 DEF livox_pcl_cbk, mapVars
  <2> QED
    BY <1>0, <2>1, <2>2
<1>2. CASE \E timestamp \in 0 .. MaxTime : imu_cbk(timestamp)
  <2>1. IInv'
    BY <1>2, ImuStep
  <2>2. odometry' = odometry
    BY <1>2 DEF imu_cbk, mapVars
  <2> QED
    BY <1>0, <2>1, <2>2
<1>3. CASE SyncWaits
  <2>1. IInv'
    BY <1>3, SyncWaitsStep
  <2>2. odometry' = odometry
    BY <1>3 DEF SyncWaits, mapVars
  <2> QED
    BY <1>0, <2>1, <2>2
<1>4. CASE FirstScan \/ ProcessWithoutImu \/ IMU_init \/ UndistortPcl
  <2>1. IInv' /\ odometry <= odometry'
    BY <1>4, FirstScanStep, WithoutImuStep, ImuInitStep, UndistortStep
  <2>2. odometry' \in Int
    BY <2>1, LioAssumption DEF IInv, TypeOK
  <2> QED
    BY <1>0, <2>1, <2>2
<1> QED
  BY <1>1, <1>2, <1>3, <1>4 DEF Next, timer_callback

LEMMA StutterInv ==
  ASSUME IInv, UNCHANGED vars
  PROVE  IInv'
<1>1. UNCHANGED <<lidar_buffer, time_buffer, last_timestamp_lidar, is_first_lidar, imu_buffer,
                  last_timestamp_imu, lidar_pushed, meas, lidar_mean_scantime, scan_num,
                  init_iter_num, imu_need_init_, last_imu_, last_lidar_end_time_,
                  flg_first_scan, feats_undistort, map, odometry, done>>
  BY DEF vars, buffers, syncVars, imuVars, mapVars
<1>2. TypeOK'
  BY <1>1, Zenon DEF IInv, TypeOK
<1>3. Kinds' /\ PushedIsFirst' /\ FilterIsBehind'
  BY <1>1, Zenon DEF IInv, Kinds, PushedIsFirst, FilterIsBehind
<1>4. ScansAreApart' /\ SamplesAreDense'
  BY <1>1 DEF IInv, ScansAreApart, SamplesAreDense
<1>5. WindowsAreDisjoint' /\ PropagationFollowsScans' /\ EveryScanIsUndistorted'
  BY <1>1, Zenon DEF IInv, WindowsAreDisjoint, PropagationFollowsScans, EveryScanIsUndistorted
<1> QED
  BY <1>2, <1>3, <1>4, <1>5 DEF IInv

\* While stamps do not go back, the invariant holds.
THEOREM SyncInvariant == ASSUME ~LoopBack PROVE Spec => []IInv
<1>1. Init => IInv
  BY InitInv
<1>2. IInv /\ [Next]_vars => IInv'
  BY NextInv, StutterInv
<1> QED
  BY <1>1, <1>2, PTL DEF Spec

\* While stamps do not go back each IMU sample is used for exactly one scan, the one whose
\* window it lies in, and the filter is propagated by the time between the ends of scans.
THEOREM EachSampleOnce == ASSUME ~LoopBack PROVE Spec => []TimeIsUsedOnce
<1>1. IInv => TimeIsUsedOnce
  BY DEF IInv, TimeIsUsedOnce
<1> QED
  BY <1>1, SyncInvariant, PTL

\* While stamps do not go back, what timer_callback registers is the scan of the
\* measurement, unless its end lies within a sample gap of the one before.
THEOREM ScansAreUndistorted == ASSUME ~LoopBack PROVE Spec => []EveryScanIsUndistorted
<1>1. IInv => EveryScanIsUndistorted
  BY DEF IInv
<1> QED
  BY <1>1, SyncInvariant, PTL

\* While stamps of scans and samples do not go back, neither do those of the odometry and
\* the transform that are published.
THEOREM OdometryGoesOn == ASSUME ~LoopBack PROVE Spec => OdometryStampsIncrease
<1>1. IInv /\ [Next]_vars => [odometry' >= odometry]_vars
  BY NextInv
<1> QED
  BY <1>1, SyncInvariant, PTL DEF Spec, OdometryStampsIncrease

------------------------------------------------------------------------------
(***************************************************************************)
(* Sequences whose elements are of no set in particular, and the points of *)
(* a scan in their order.                                                  *)
(***************************************************************************)
\* What holds at 0 and passes from each number to the next holds up to n.
LEMMA UpTo ==
  ASSUME NEW n \in Nat, NEW S, 0 \in S, \A k \in 1 .. n : k - 1 \in S => k \in S
  PROVE  \A k \in 0 .. n : k \in S
<1> DEFINE Out == {k \in 0 .. n : k \notin S}
<1>1. Out \in SUBSET Nat
  OBVIOUS
<1>2. ASSUME Out # {} PROVE FALSE
  <2>1. PICK m \in Out : \A k \in Out : m <= k
    <3> HIDE DEF Out
    <3> QED
      BY <1>1, <1>2, LeastNumber
  <2>2. m \in 1 .. n /\ m \notin S
    OBVIOUS
  <2>3. m - 1 \in 0 .. n /\ ~(m <= m - 1)
    BY <2>2
  <2>4. m - 1 \in S
    BY <2>1, <2>3
  <2> QED
    BY <2>2, <2>4
<1> QED
  BY <1>2

\* A function on 0 .. n can be defined from each number to the next.
Iterates(g, D, f, b, n) ==
  /\ g \in [0 .. n -> D]
  /\ \A k \in 0 .. n : g[k] = IF k = 0 THEN b ELSE f[k][g[k - 1]]

LEMMA IterationExists ==
  ASSUME NEW D, NEW n \in Nat, NEW f \in [1 .. n -> [D -> D]], NEW b \in D
  PROVE  \E g : Iterates(g, D, f, b, n)
<1> DEFINE Is(g, m) == /\ g \in [0 .. m -> D]
                       /\ \A k \in 0 .. m : g[k] = IF k = 0 THEN b ELSE f[k][g[k - 1]]
           S == {m \in 0 .. n : \E g : Is(g, m)}
<1>1. 0 \in S
  <2> DEFINE g == [k \in 0 .. 0 |-> b]
  <2>1. Is(g, 0)
    OBVIOUS
  <2>2. 0 \in 0 .. n
    OBVIOUS
  <2> HIDE DEF Is, g
  <2> QED
    BY <2>1, <2>2, Zenon
<1>2. ASSUME NEW m \in 1 .. n, m - 1 \in S PROVE m \in S
  <2>1. PICK g : Is(g, m - 1)
    BY <1>2
  <2> DEFINE h == [k \in 0 .. m |-> IF k = m THEN f[m][g[m - 1]] ELSE g[k]]
  <2>2. m - 1 \in 0 .. m - 1 /\ g[m - 1] \in D /\ f[m][g[m - 1]] \in D
    BY <2>1
  <2>3. \A k \in 0 .. m : k = m \/ k \in 0 .. m - 1
    OBVIOUS
  <2>4. h \in [0 .. m -> D]
    BY <2>1, <2>2, <2>3
  <2>5. ASSUME NEW k \in 0 .. m
        PROVE  h[k] = IF k = 0 THEN b ELSE f[k][h[k - 1]]
    <3>1. CASE k = m
      <4>1. h[k] = f[m][g[m - 1]] /\ h[m - 1] = g[m - 1] /\ m # 0
        BY <2>2, <3>1
      <4> QED
        BY <3>1, <4>1
    <3>2. CASE k \in 0 .. m - 1 /\ k # 0
      <4>1. k - 1 \in 0 .. m /\ k # m /\ k - 1 # m
        BY <3>2
      <4>2. h[k] = g[k] /\ h[k - 1] = g[k - 1]
        BY <4>1
      <4> QED
        BY <2>1, <3>2, <4>2
    <3>3. CASE k = 0
      <4>1. h[k] = g[k] /\ k \in 0 .. m - 1
        BY <3>3
      <4> QED
        BY <2>1, <3>3, <4>1
    <3> QED
      BY <2>3, <3>1, <3>2, <3>3
  <2>6. Is(h, m)
    BY <2>4, <2>5
  <2>7. m \in 0 .. n
    OBVIOUS
  <2> HIDE DEF Is, h
  <2> QED
    BY <2>6, <2>7, Zenon
<1>3. n \in S
  <2> HIDE DEF S
  <2>1. \A k \in 1 .. n : k - 1 \in S => k \in S
    BY <1>2
  <2>2. \A k \in 0 .. n : k \in S
    BY <1>1, <2>1, UpTo, Zenon
  <2> QED
    BY <2>2
<1>4. PICK g : Is(g, n)
  BY <1>3
<1> QED
  BY <1>4, Zenon DEF Iterates

IsSeq(s) == s \in Seq({s[n] : n \in DOMAIN s})

LEMMA SeqIs ==
  ASSUME NEW S, NEW s \in Seq(S)
  PROVE  IsSeq(s) /\ Len(s) \in Nat /\ DOMAIN s = 1 .. Len(s)
<1>1. Len(s) \in Nat /\ DOMAIN s = 1 .. Len(s) /\ s \in [1 .. Len(s) -> S]
  BY LenProperties
<1> DEFINE R == {s[n] : n \in DOMAIN s}
<1>2. s \in [1 .. Len(s) -> R]
  BY <1>1
<1>3. s \in Seq(R)
  <2> HIDE DEF R
  <2> QED
    BY <1>1, <1>2, SeqDef
<1> QED
  BY <1>1, <1>3 DEF IsSeq

LEMMA FunctionIsSeq ==
  ASSUME NEW n \in Nat, NEW s, s = [k \in 1 .. n |-> s[k]]
  PROVE  IsSeq(s) /\ Len(s) = n /\ DOMAIN s = 1 .. n
<1> DEFINE R == {s[k] : k \in 1 .. n}
<1>1. s \in [1 .. n -> R]
  OBVIOUS
<1> HIDE DEF R
<1>2. s \in Seq(R)
  BY <1>1, SeqDef
<1>3. Len(s) = n
  BY <1>1, <1>2, LenProperties
<1> QED
  BY <1>1, <1>2, <1>3, SeqIs

LEMMA AppendIs ==
  ASSUME NEW s, IsSeq(s), NEW e
  PROVE  /\ IsSeq(Append(s, e)) /\ Len(s) \in Nat /\ DOMAIN s = 1 .. Len(s)
         /\ Len(Append(s, e)) = Len(s) + 1 /\ DOMAIN Append(s, e) = 1 .. Len(s) + 1
         /\ \A n \in 1 .. Len(s) : Append(s, e)[n] = s[n]
         /\ Append(s, e)[Len(s) + 1] = e
<1> DEFINE S == {s[n] : n \in DOMAIN s} \cup {e}
<1>1. s \in Seq(S) /\ e \in S
  <2> DEFINE R == {s[n] : n \in DOMAIN s}
  <2>1. s \in Seq(R) /\ R \subseteq S
    BY DEF IsSeq
  <2> HIDE DEF R, S
  <2>2. \A n \in 1 .. Len(s) : s[n] \in S
    BY <2>1, ElementOfSeq
  <2>3. s \in Seq(S)
    BY <2>1, <2>2, SeqMonotonic
  <2> QED
    BY <2>3 DEF S
<1> HIDE DEF S
<1>2. /\ Append(s, e) \in Seq(S) /\ Len(s) \in Nat /\ Len(Append(s, e)) = Len(s) + 1
      /\ \A n \in 1 .. Len(s) : Append(s, e)[n] = s[n]
      /\ Append(s, e)[Len(s) + 1] = e
  BY <1>1
<1>3. /\ IsSeq(Append(s, e)) /\ DOMAIN Append(s, e) = 1 .. Len(Append(s, e))
      /\ DOMAIN s = 1 .. Len(s)
  BY <1>1, <1>2, SeqIs, Zenon
<1> QED
  BY <1>2, <1>3

LEMMA InOrderIsOrdered ==
  ASSUME msg.points \in Seq(ScanPoint), NEW ks \in SUBSET Indices
  PROVE  LET s == InOrder(ks)
         IN  s \in Seq(ks) /\ \A m, n \in 1 .. Len(s) : m < n => s[m] < s[n]
<1> DEFINE L == Len(msg.points)
           D == Seq(ks)
           Step(k, s) == IF k \in ks THEN Append(s, k) ELSE s
           F == [k \in 1 .. L |-> [s \in D |-> Step(k, s)]]
           Body(h) == [k \in 0 .. L |-> IF k = 0 THEN <<>>
                         ELSE IF k \in ks THEN Append(h[k - 1], k) ELSE h[k - 1]]
           Is(h) == h = Body(h)
           taken == CHOOSE h : Is(h)
<1>1. L \in Nat /\ Indices = 1 .. L
  BY LenProperties DEF Indices
<1>2. F \in [1 .. L -> [D -> D]] /\ <<>> \in D
  OBVIOUS
<1>3. PICK g : Iterates(g, D, F, <<>>, L)
  <2> HIDE DEF F, D, L
  <2> QED
    BY <1>1, <1>2, IterationExists
<1>4. Is(g)
  <2>1. g \in [0 .. L -> D] /\ \A k \in 0 .. L : g[k] = IF k = 0 THEN <<>> ELSE F[k][g[k - 1]]
    BY <1>3 DEF Iterates
  <2> HIDE DEF L
  <2>2. ASSUME NEW k \in 0 .. L
        PROVE  g[k] = IF k = 0 THEN <<>>
                      ELSE IF k \in ks THEN Append(g[k - 1], k) ELSE g[k - 1]
    <3>1. CASE k = 0
      BY <2>1, <3>1
    <3>2. CASE k # 0
      <4>1. k - 1 \in 0 .. L /\ k \in 1 .. L
        BY <1>1, <3>2
      <4>2. g[k - 1] \in D
        <5> HIDE DEF D, F
        <5> QED
          BY <2>1, <4>1
      <4>3. F[k][g[k - 1]] = Step(k, g[k - 1])
        BY <4>1, <4>2
      <4>4. g[k] = Step(k, g[k - 1])
        <5> HIDE DEF F, Step, D
        <5> QED
          BY <2>1, <3>2, <4>3
      <4> QED
        BY <3>2, <4>4
    <3> QED
      BY <3>1, <3>2
  <2>3. g = [k \in 0 .. L |-> g[k]]
    <3> HIDE DEF D
    <3> QED
      BY <2>1
  <2> QED
    BY <2>2, <2>3
<1>5. Is(taken)
  <2> HIDE DEF Is
  <2> QED
    BY <1>4
<1>6. InOrder(ks) = taken[L]
  BY DEF InOrder
<1> HIDE DEF taken
<1> DEFINE Ordered(s, k) ==
             /\ s \in Seq(ks)
             /\ \A m \in 1 .. Len(s) : s[m] <= k
             /\ \A m, n \in 1 .. Len(s) : m < n => s[m] < s[n]
           S == {k \in 0 .. L : Ordered(taken[k], k)}
<1>7. \A k \in 0 .. L : taken[k] = IF k = 0 THEN <<>> ELSE Step(k, taken[k - 1])
  <2> HIDE DEF L
  <2> QED
    BY <1>5
<1>8. 0 \in S
  <2>1. 0 \in 0 .. L
    BY <1>1
  <2>2. taken[0] = <<>>
    <3> HIDE DEF L, Step
    <3> QED
      BY <1>7, <2>1
  <2> HIDE DEF L
  <2>3. Ordered(<<>>, 0)
    OBVIOUS
  <2> HIDE DEF Ordered
  <2> QED
    BY <2>1, <2>2, <2>3
<1>9. ASSUME NEW k \in 1 .. L, k - 1 \in S PROVE k \in S
  <2> DEFINE s == taken[k - 1]
  <2>1. k \in 0 .. L /\ k # 0 /\ Ordered(s, k - 1)
    BY <1>1, <1>9
  <2>2. taken[k] = Step(k, s)
    <3> HIDE DEF Step
    <3> QED
      BY <1>7, <2>1
  <2> HIDE DEF s, L
  <2>3. Len(s) \in Nat /\ \A m \in 1 .. Len(s) : s[m] \in ks
    BY <2>1, LenProperties
  <2>4. ks \subseteq Int
    BY <1>1
  <2>5. CASE k \in ks
    <3>1. /\ Append(s, k) \in Seq(ks) /\ Len(Append(s, k)) = Len(s) + 1
          /\ \A m \in 1 .. Len(s) : Append(s, k)[m] = s[m]
          /\ Append(s, k)[Len(s) + 1] = k
      BY <2>1, <2>5
    <3> DEFINE t == Append(s, k)
    <3> HIDE DEF t
    <3>2. \A m \in 1 .. Len(t) : t[m] \in ks /\ t[m] <= k /\ (m # Len(s) + 1 => t[m] < k)
      <4> SUFFICES ASSUME NEW m \in 1 .. Len(t)
                   PROVE  t[m] \in ks /\ t[m] <= k /\ (m # Len(s) + 1 => t[m] < k)
        OBVIOUS
      <4>1. CASE m = Len(s) + 1
        BY <2>4, <2>5, <3>1, <4>1 DEF t
      <4>2. CASE m # Len(s) + 1
        <5>1. m \in 1 .. Len(s)
          BY <2>3, <3>1, <4>2 DEF t
        <5>2. t[m] = s[m] /\ s[m] \in ks /\ s[m] <= k - 1 /\ s[m] \in Int
          BY <2>1, <2>3, <2>4, <3>1, <5>1 DEF t
        <5> QED
          BY <4>2, <5>2
      <4> QED
        BY <4>1, <4>2
    <3>3. \A m, n \in 1 .. Len(t) : m < n => t[m] < t[n]
      <4> SUFFICES ASSUME NEW m \in 1 .. Len(t), NEW n \in 1 .. Len(t), m < n
                   PROVE  t[m] < t[n]
        OBVIOUS
      <4>1. Len(t) = Len(s) + 1 /\ m \in 1 .. Len(s)
        BY <2>3, <3>1 DEF t
      <4>2. CASE n = Len(s) + 1
        BY <3>1, <3>2, <4>1, <4>2 DEF t
      <4>3. CASE n # Len(s) + 1
        <5>1. n \in 1 .. Len(s)
          BY <2>3, <4>1, <4>3
        <5> QED
          BY <2>1, <3>1, <4>1, <5>1 DEF t
      <4> QED
        BY <4>2, <4>3
    <3>4. Ordered(t, k)
      BY <3>1, <3>2, <3>3 DEF t
    <3> QED
      BY <2>1, <2>2, <2>5, <3>4 DEF t
  <2>6. CASE k \notin ks
    <3>1. ASSUME NEW m \in 1 .. Len(s) PROVE s[m] <= k
      <4>1. s[m] \in Int /\ s[m] <= k - 1
        BY <2>1, <2>3, <2>4
      <4> QED
        BY <4>1
    <3> QED
      BY <2>1, <2>2, <2>6, <3>1
  <2> QED
    BY <2>5, <2>6
<1>10. L \in S
  <2> HIDE DEF S
  <2>1. \A k \in 0 .. L : k \in S
    <3> HIDE DEF L
    <3>1. \A k \in 1 .. L : k - 1 \in S => k \in S
      BY <1>9
    <3> QED
      BY <1>1, <1>8, <3>1, UpTo, Zenon
  <2> QED
    BY <1>1, <2>1
<1> QED
  BY <1>6, <1>10

------------------------------------------------------------------------------
(***************************************************************************)
(* Times from the yaw.                                                     *)
(***************************************************************************)
LEMMA MinMaxOf ==
  ASSUME NEW n \in Nat, NEW S \in SUBSET (1 .. n), S # {}
  PROVE  /\ Min(S) \in S /\ \A y \in S : Min(S) <= y
         /\ Max(S) \in S /\ \A y \in S : y <= Max(S)
<1>1. PICK m \in S : \A y \in S : m <= y
  BY LeastNumber
<1>2. Min(S) \in S /\ \A y \in S : Min(S) <= y
  BY <1>1, Zenon DEF Min
<1> DEFINE T == {n - y : y \in S}
<1>3. PICK t \in T : \A x \in T : t <= x
  <2> T \in SUBSET Nat /\ T # {}
    OBVIOUS
  <2> HIDE DEF T
  <2> QED
    BY LeastNumber
<1>4. PICK x \in S : t = n - x
  BY <1>3
<1>5. \A y \in S : x >= y
  <2> SUFFICES ASSUME NEW y \in S PROVE x >= y
    OBVIOUS
  <2>1. n - x <= n - y
    BY <1>3, <1>4
  <2> QED
    BY <2>1
<1>6. Max(S) \in S /\ \A y \in S : Max(S) >= y
  BY <1>5, Zenon DEF Max
<1>7. \A y \in S : y <= Max(S)
  BY <1>6
<1> QED
  BY <1>2, <1>6, <1>7

\* Multiples of a turn that lie within a turn of each other are equal.
LEMMA WithinATurn ==
  ASSUME NEW T \in Nat \ {0}, NEW z \in Int, T * z < T, -T < T * z
  PROVE  z = 0
<1>1. z >= 1 => T * z >= T * 1
  OBVIOUS
<1>2. z <= -1 => T * z <= T * (-1)
  OBVIOUS
<1>3. T * z \in Int /\ T * 1 = T /\ T * (-1) = -T
  OBVIOUS
<1> QED
  BY <1>1, <1>2, <1>3

\* The yaw is what has been turned, backwards, up to whole turns.
LEMMA YawIs ==
  ASSUME NEW p, p.turned \in Nat
  PROVE  \E z \in Int : /\ yaw(p) = Turn \div 2 - 1 - p.turned + Turn * z
                        /\ yaw(p) \in Turn \div 2 - Turn + 1 .. Turn \div 2
<1> DEFINE a == Turn \div 2 - 1 - p.turned  y == a % Turn  h == Turn \div 2
<1>1. Turn \in Nat \ {0} /\ h \in Nat /\ h <= Turn - 1
  BY PreprocessAssumption
<1>2. a \in Int
  BY <1>1
<1> HIDE DEF a
<1>3. y \in 0 .. Turn - 1 /\ a \div Turn \in Int /\ a = Turn * (a \div Turn) + y
  BY <1>1, <1>2
<1>4. yaw(p) = IF y > h THEN y - Turn ELSE y
  BY DEF yaw, a
<1> DEFINE q == a \div Turn
<1> HIDE DEF y, h, q
<1>5. yaw(p) \in h - Turn + 1 .. h
  BY <1>1, <1>3, <1>4
<1>6. Turn * (-q) = -(Turn * q) /\ Turn * (-q - 1) = -(Turn * q) - Turn /\ Turn * q \in Int
  BY <1>1, <1>3 DEF q
<1>7. CASE y > h
  <2>1. yaw(p) = a + Turn * (-q - 1)
    BY <1>1, <1>2, <1>3, <1>4, <1>6, <1>7 DEF q
  <2>2. -q - 1 \in Int
    BY <1>3 DEF q
  <2> QED
    BY <1>5, <2>1, <2>2 DEF a, h
<1>8. CASE ~(y > h)
  <2>1. yaw(p) = a + Turn * (-q)
    BY <1>1, <1>2, <1>3, <1>4, <1>6, <1>8 DEF q
  <2>2. -q \in Int
    BY <1>3 DEF q
  <2> QED
    BY <1>5, <2>1, <2>2 DEF a, h
<1> QED
  BY <1>7, <1>8

\* The angle between two yaws is what has been turned, less a turn where it is more.
LEMMA AngleIs ==
  ASSUME NEW p, NEW q, p.turned \in Nat, q.turned \in Nat,
         q.turned - p.turned \in 0 .. 2 * Turn - 1
  PROVE  AngleSince(yaw(p), yaw(q)) = IF q.turned - p.turned < Turn
                                      THEN q.turned - p.turned ELSE q.turned - p.turned - Turn
<1> DEFINE d == q.turned - p.turned  h == Turn \div 2  c == AngleSince(yaw(p), yaw(q))
<1>1. Turn \in Nat \ {0} /\ h \in Nat
  BY PreprocessAssumption
<1>2. PICK z \in Int : /\ yaw(p) = h - 1 - p.turned + Turn * z
                       /\ yaw(p) \in h - Turn + 1 .. h
  BY YawIs
<1>3. PICK w \in Int : /\ yaw(q) = h - 1 - q.turned + Turn * w
                       /\ yaw(q) \in h - Turn + 1 .. h
  BY YawIs
<1> HIDE DEF h
<1>4. /\ Turn * z \in Int /\ Turn * w \in Int /\ Turn * (z - w) = Turn * z - Turn * w
      /\ Turn * (z - w + 1) = Turn * z - Turn * w + Turn
  BY <1>1
<1>5. d \in 0 .. 2 * Turn - 1 /\ d \in Int
  BY <1>1
<1>6. \E v \in Int : c = d + Turn * v /\ c \in 0 .. Turn - 1
  <2>1. CASE yaw(q) <= yaw(p)
    <3>1. c = yaw(p) - yaw(q)
      BY <2>1 DEF AngleSince
    <3>2. z - w \in Int /\ c = d + Turn * (z - w) /\ c \in 0 .. Turn - 1
      BY <1>1, <1>2, <1>3, <1>4, <2>1, <3>1
    <3> QED
      BY <3>2
  <2>2. CASE ~(yaw(q) <= yaw(p))
    <3>1. c = yaw(p) - yaw(q) + Turn
      BY <2>2 DEF AngleSince
    <3>2. z - w + 1 \in Int /\ c = d + Turn * (z - w + 1) /\ c \in 0 .. Turn - 1
      BY <1>1, <1>2, <1>3, <1>4, <2>2, <3>1
    <3> QED
      BY <3>2
  <2> QED
    BY <2>1, <2>2
<1> HIDE DEF c, d
<1>7. PICK v \in Int : c = d + Turn * v /\ c \in 0 .. Turn - 1
  BY <1>6
<1>8. CASE d < Turn
  <2>1. v = 0
    BY <1>1, <1>5, <1>7, <1>8, WithinATurn
  <2> QED
    BY <1>1, <1>5, <1>7, <1>8, <2>1 DEF c, d
<1>9. CASE ~(d < Turn)
  <2>1. v + 1 \in Int /\ Turn * (v + 1) = Turn * v + Turn /\ Turn * v \in Int
    BY <1>1
  <2>2. v + 1 = 0
    BY <1>1, <1>5, <1>7, <1>9, <2>1, WithinATurn
  <2>3. Turn * v = -Turn
    BY <1>1, <2>1, <2>2
  <2> QED
    BY <1>1, <1>5, <1>7, <1>9, <2>3 DEF c, d
<1> QED
  BY <1>8, <1>9

\* What has been turned since the line's first point.
SinceFirst(k) == At(k).turned - At(Min(Before(k))).turned

\* The point before one on its line, and the first.
LEMMA BeforeIs ==
  ASSUME msg.points \in Seq(ScanPoint), NEW k \in Indices, ~IsFirst(k)
  PROVE  LET l == Max(Before(k))
             f == Min(Before(k))
         IN  /\ l \in Indices /\ l < k /\ f \in Indices
             /\ IsFirst(l) => l = f
             /\ ~IsFirst(l) => Min(Before(l)) = f
             /\ l \in Before(k) /\ Before(l) \subseteq Before(k)
<1> DEFINE l == Max(Before(k))  f == Min(Before(k))
<1>1. Indices = 1 .. Len(msg.points) /\ Len(msg.points) \in Nat /\ k \in Nat /\ k >= 1
  BY LenProperties DEF Indices
<1>2. \A m \in Indices : /\ Before(m) \in SUBSET (1 .. m) /\ Before(m) \subseteq Indices
                         /\ \A x : x \in Before(m) <=> /\ x \in 1 .. m - 1
                                                       /\ At(x).line = At(m).line
  BY <1>1 DEF Before
<1>3. Before(k) # {}
  BY DEF IsFirst
<1>4. /\ l \in Before(k) /\ f \in Before(k)
      /\ \A y \in Before(k) : f <= y /\ y <= l
  BY <1>1, <1>2, <1>3, MinMaxOf
<1> HIDE DEF l, f
<1>5. /\ l \in Indices /\ f \in Indices /\ l < k /\ At(l).line = At(k).line
      /\ At(f).line = At(k).line /\ l \in Int /\ f \in Int /\ f >= 1
  BY <1>1, <1>2, <1>4
<1>6. Before(l) \subseteq Before(k)
  <2> SUFFICES ASSUME NEW x \in Before(l) PROVE x \in Before(k)
    OBVIOUS
  <2>1. x \in 1 .. l - 1 /\ At(x).line = At(l).line
    BY <1>2, <1>5
  <2>2. x \in 1 .. k - 1
    BY <1>1, <1>5, <2>1
  <2> QED
    BY <1>2, <1>5, <2>1, <2>2
<1>7. f # l => f \in Before(l)
  <2>1. f # l => f \in 1 .. l - 1
    BY <1>4, <1>5
  <2> QED
    BY <1>2, <1>5, <2>1
<1>8. IsFirst(l) => l = f
  BY <1>7 DEF IsFirst
<1>9. ~IsFirst(l) => Min(Before(l)) = f
  <2> SUFFICES ASSUME ~IsFirst(l) PROVE Min(Before(l)) = f
    OBVIOUS
  <2> DEFINE e == Min(Before(l))
  <2>1. Before(l) # {} /\ l \in Nat
    BY <1>1, <1>5 DEF IsFirst
  <2>2. e \in Before(l) /\ \A y \in Before(l) : e <= y
    BY <1>2, <1>5, <2>1, MinMaxOf
  <2> HIDE DEF e
  <2>3. e \in Before(k) /\ f <= e /\ e \in Int /\ e < l
    BY <1>2, <1>4, <1>5, <1>6, <2>2
  <2>4. f # l
    BY <1>5, <2>3
  <2>5. e <= f
    BY <1>7, <2>2, <2>4
  <2> QED
    BY <1>5, <2>3, <2>5 DEF e
<1> QED
  BY <1>4, <1>5, <1>6, <1>8, <1>9 DEF l, f

\* While the lidar turns as Rotating says, the time a point gets from its angle and the
\* time before it is what has been turned since the first.
LEMMA SinceFirstStep ==
  ASSUME msg.points \in Seq(ScanPoint), Rotating, NEW k \in Indices, ~IsFirst(k),
         NEW t, t = (IF IsFirst(Max(Before(k))) THEN 0 ELSE SinceFirst(Max(Before(k)))), t >= 0
  PROVE  /\ SinceFirst(k) = Later(AngleSince(yaw(At(Min(Before(k)))), yaw(At(k))), t)
         /\ SinceFirst(k) \in Nat
<1> DEFINE l == Max(Before(k))  f == Min(Before(k))  d == SinceFirst(k)
<1>1. /\ l \in Indices /\ l < k /\ f \in Indices
      /\ IsFirst(l) => l = f
      /\ ~IsFirst(l) => Min(Before(l)) = f
  BY BeforeIs
<1> HIDE DEF l, f
<1>2. \A m \in Indices : At(m).turned \in Nat
  <2> SUFFICES ASSUME NEW m \in Indices PROVE At(m).turned \in Nat
    OBVIOUS
  <2>1. m \in 1 .. Len(msg.points)
    BY LenProperties DEF Indices
  <2>2. msg.points[m] \in ScanPoint
    BY <2>1, ElementOfSeq
  <2> QED
    BY <2>2 DEF At, ScanPoint
<1>3. At(k).turned \in Nat /\ At(l).turned \in Nat /\ At(f).turned \in Nat
  BY <1>1, <1>2
<1>4. /\ d = At(k).turned - At(f).turned
      /\ At(k).turned - At(l).turned \in 0 .. Turn - 1 /\ d < 2 * Turn
  BY DEF Rotating, SinceFirst, l, f
<1>5. t = At(l).turned - At(f).turned
  <2>1. CASE IsFirst(l)
    BY <1>1, <1>3, <2>1 DEF l
  <2>2. CASE ~IsFirst(l)
    BY <1>1, <2>2 DEF SinceFirst, l
  <2> QED
    BY <2>1, <2>2
<1>6. Turn \in Nat \ {0}
  BY PreprocessAssumption
<1> HIDE DEF d
<1>7. d \in 0 .. 2 * Turn - 1 /\ d - t \in 0 .. Turn - 1 /\ t \in Nat /\ d \in Nat
  <2>1. t \in Nat /\ d \in Int
    BY <1>3, <1>4, <1>5
  <2>2. d - t = At(k).turned - At(l).turned
    BY <1>3, <1>4, <1>5
  <2>3. d - t \in 0 .. Turn - 1
    BY <1>4, <2>2
  <2> QED
    BY <1>4, <1>6, <2>1, <2>3
<1>8. AngleSince(yaw(At(f)), yaw(At(k))) = IF d < Turn THEN d ELSE d - Turn
  <2>1. At(k).turned - At(f).turned \in 0 .. 2 * Turn - 1
    BY <1>4, <1>7
  <2> QED
    BY <1>3, <1>4, <2>1, AngleIs, Zenon
<1>9. Later(IF d < Turn THEN d ELSE d - Turn, t) = d
  BY <1>6, <1>7 DEF Later
<1> QED
  BY <1>7, <1>8, <1>9 DEF d, f

LEMMA TimeFromYawIsTurned ==
  ASSUME msg.points \in Seq(ScanPoint), Rotating, NEW k \in Indices, ~IsFirst(k)
  PROVE  TimeFromYaw(k) = SinceFirst(k)
<1> DEFINE Exact(m) == IF IsFirst(m) THEN 0 ELSE SinceFirst(m)
           D == Before(k) \cup {k}
           Body(h) == [m \in D |->
                         IF IsFirst(m) THEN 0
                         ELSE Later(AngleSince(yaw(At(Min(Before(m)))), yaw(At(m))),
                                    h[Max(Before(m))])]
           Is(h) == h = Body(h)
           time_last == CHOOSE h : Is(h)
           g == [m \in D |-> Exact(m)]
<1>1. Indices = 1 .. Len(msg.points) /\ Len(msg.points) \in Nat /\ Indices \subseteq Nat
  BY LenProperties DEF Indices
<1>2. \A m \in Indices : Exact(m) >= 0
  <2> DEFINE Wrong == {m \in Indices : ~(Exact(m) >= 0)}
  <2>1. SUFFICES ASSUME Wrong # {} PROVE FALSE
    OBVIOUS
  <2>2. PICK m \in Wrong : \A n \in Wrong : m <= n
    <3> Wrong \in SUBSET Nat
      BY <1>1
    <3> HIDE DEF Wrong
    <3> QED
      BY <2>1, LeastNumber
  <2>3. m \in Indices /\ ~IsFirst(m) /\ m \in Nat
    BY <1>1
  <2> DEFINE l == Max(Before(m))
  <2>4. l \in Indices /\ l < m /\ l \in Nat
    BY <1>1, <2>3, BeforeIs
  <2> HIDE DEF l
  <2>5. l \notin Wrong
    BY <2>2, <2>3, <2>4
  <2>6. Exact(l) >= 0
    BY <2>4, <2>5
  <2>7. SinceFirst(m) \in Nat
    BY <2>3, <2>6, SinceFirstStep DEF l
  <2> QED
    BY <2>3, <2>7
<1>3. ASSUME NEW m \in D, ~IsFirst(m)
      PROVE  /\ m \in Indices /\ Max(Before(m)) \in D /\ Max(Before(m)) < m
             /\ Max(Before(m)) \in Indices
             /\ Exact(m) = Later(AngleSince(yaw(At(Min(Before(m)))), yaw(At(m))),
                                 Exact(Max(Before(m))))
  <2>1. m \in Indices /\ Before(m) \subseteq D
    <3>1. Before(k) \subseteq Indices
      BY <1>1 DEF Before
    <3>2. Before(m) \subseteq Before(k)
      BY <1>1 DEF Before
    <3> QED
      BY <3>1, <3>2
  <2> DEFINE l == Max(Before(m))
  <2>2. l \in Indices /\ l < m /\ l \in Before(m)
    BY <1>3, <2>1, BeforeIs
  <2>3. Exact(l) >= 0
    BY <1>2, <2>2
  <2>4. SinceFirst(m) = Later(AngleSince(yaw(At(Min(Before(m)))), yaw(At(m))), Exact(l))
    BY <1>3, <2>1, <2>3, SinceFirstStep
  <2> QED
    BY <1>3, <2>1, <2>2, <2>4
<1> HIDE DEF Exact
<1>4. \A m \in D : m \in Indices
  BY <1>1 DEF Before
<1>5. \A m \in D : IsFirst(m) => Exact(m) = 0
  BY DEF Exact
<1> HIDE DEF D
<1>6. Is(g)
  <2>1. ASSUME NEW m \in D PROVE Exact(m) = Body(g)[m]
    <3>1. CASE IsFirst(m)
      BY <1>5, <3>1
    <3>2. CASE ~IsFirst(m)
      <4>1. g[Max(Before(m))] = Exact(Max(Before(m)))
        BY <1>3, <3>2
      <4> QED
        BY <1>3, <3>2, <4>1
    <3> QED
      BY <3>1, <3>2
  <2> QED
    BY <2>1
<1>7. Is(time_last)
  <2> HIDE DEF Is, g
  <2> QED
    BY <1>6
<1> HIDE DEF g
<1>8. TimeFromYaw(k) = time_last[k]
  BY DEF TimeFromYaw, D
<1> HIDE DEF time_last
<1>9. \A m \in D : time_last[m] = Exact(m)
  <2> DEFINE Wrong == {m \in D : time_last[m] # Exact(m)}
  <2>1. SUFFICES ASSUME Wrong # {} PROVE FALSE
    OBVIOUS
  <2>2. PICK m \in Wrong : \A n \in Wrong : m <= n
    <3> Wrong \in SUBSET Nat
      BY <1>1, <1>4
    <3> HIDE DEF Wrong
    <3> QED
      BY <2>1, LeastNumber
  <2>3. m \in D /\ m \in Nat
    BY <1>1, <1>4
  <2>4. CASE IsFirst(m)
    BY <1>5, <1>7, <2>3, <2>4
  <2>5. CASE ~IsFirst(m)
    <3> DEFINE l == Max(Before(m))
    <3>1. /\ l \in D /\ l < m /\ l \in Nat
          /\ Exact(m) = Later(AngleSince(yaw(At(Min(Before(m)))), yaw(At(m))), Exact(l))
      BY <1>1, <1>3, <2>3, <2>5
    <3>2. time_last[m] = Later(AngleSince(yaw(At(Min(Before(m)))), yaw(At(m))), time_last[l])
      BY <1>7, <2>3, <2>5
    <3> HIDE DEF l
    <3>3. time_last[l] = Exact(l)
      BY <2>2, <2>3, <3>1
    <3> QED
      BY <3>1, <3>2, <3>3
  <2> QED
    BY <2>4, <2>5
<1>10. k \in D
  BY DEF D
<1> QED
  BY <1>8, <1>9, <1>10 DEF Exact

------------------------------------------------------------------------------
(***************************************************************************)
(* What the invariant says of points, of the runs of points that are put   *)
(* out and of lines.                                                       *)
(***************************************************************************)
\* A point of the scan: with the time of its index where the message has times, and with
\* what has been turned since its line's first point where its time is from the yaw.
IsPoint(p) ==
  /\ p.index \in Indices
  /\ msg.timed => p.curvature = p.index - 1
  /\ lidar_type \in {"VELO16", "MID360"} /\ ~given_offset_time /\ Rotating =>
       p.curvature = SinceFirst(p.index)

LineNumber(p) == At(p.index).line

IsRun(r) ==
  /\ IsSeq(r) /\ Len(r) \in Nat \ {0} /\ DOMAIN r = 1 .. Len(r)
  /\ \A k \in DOMAIN r : IsPoint(r[k]) /\ ~r[k].blind

IsLine(line, l) ==
  /\ Cardinality(DOMAIN line) \in Nat /\ DOMAIN line = 0 .. Cardinality(DOMAIN line) - 1
  /\ \A k \in DOMAIN line : IsPoint(line[k]) /\ LineNumber(line[k]) = l - 1
  /\ \A j, k \in DOMAIN line : j < k => line[j].index < line[k].index

\* The lines that are done or in work.
LinesDone == N_SCANS - Len(pl_buff)

\* What is said of points stays true while the message does.
LEMMA PointUnchanged ==
  ASSUME UNCHANGED <<msg, lidar_type>>
  PROVE  /\ \A p : IsPoint(p)' <=> IsPoint(p)
         /\ \A p : LineNumber(p)' = LineNumber(p)
<1>1. Indices' = Indices /\ \A k : At(k)' = At(k)
  BY DEF Indices, At
<1>2. \A k : Before(k)' = Before(k)
  BY <1>1 DEF Before
<1>3. \A k : IsFirst(k)' <=> IsFirst(k)
  BY <1>2 DEF IsFirst
<1>4. \A k : SinceFirst(k)' = SinceFirst(k)
  BY <1>1, <1>2 DEF SinceFirst
<1>5. Rotating' <=> Rotating
  BY <1>1, <1>2, <1>3 DEF Rotating
<1>6. given_offset_time' <=> given_offset_time
  BY DEF given_offset_time, TimeIn, Indices
<1>7. ASSUME NEW p PROVE IsPoint(p)' <=> IsPoint(p)
  BY <1>1, <1>4, <1>5, <1>6 DEF IsPoint
<1>8. ASSUME NEW p PROVE LineNumber(p)' = LineNumber(p)
  BY <1>1 DEF LineNumber
<1> QED
  BY <1>7, <1>8

LEMMA RunsUnchanged ==
  ASSUME UNCHANGED <<msg, lidar_type>>
  PROVE  /\ \A r : IsRun(r)' <=> IsRun(r)
         /\ \A line, l : IsLine(line, l)' <=> IsLine(line, l)
<1>1. ASSUME NEW r PROVE IsRun(r)' <=> IsRun(r)
  BY PointUnchanged DEF IsRun
<1>2. ASSUME NEW line, NEW l PROVE IsLine(line, l)' <=> IsLine(line, l)
  BY PointUnchanged DEF IsLine
<1> QED
  BY <1>1, <1>2

\* The message is a scan; a Mid-360's and that of an unknown lidar have no times.
MsgIsScan ==
  /\ msg.points \in Seq(ScanPoint) /\ msg.timed \in BOOLEAN
  /\ lidar_type \in {"MID360", "other"} => ~msg.timed

\* A point's numbers, and the ends of a run.
LEMMA PointIs ==
  ASSUME msg.points \in Seq(ScanPoint), NEW p, IsPoint(p)
  PROVE  p.index \in Nat /\ LineNumber(p) \in Nat
<1>1. Indices = 1 .. Len(msg.points) /\ Len(msg.points) \in Nat
  BY LenProperties DEF Indices
<1>2. p.index \in 1 .. Len(msg.points)
  BY <1>1 DEF IsPoint
<1>3. msg.points[p.index] \in ScanPoint
  BY <1>2, ElementOfSeq
<1> QED
  BY <1>1, <1>2, <1>3 DEF LineNumber, At, ScanPoint

LEMMA RunIsOfPoints ==
  ASSUME MsgIsScan, NEW r, IsRun(r)
  PROVE  /\ Head(r) = r[1] /\ Last(r) = r[Len(r)] /\ IsPoint(Head(r)) /\ IsPoint(Last(r))
         /\ Head(r).index \in Nat /\ LineNumber(Head(r)) \in Nat
         /\ Last(r).index \in Nat /\ LineNumber(Last(r)) \in Nat
<1>1. Len(r) \in Nat \ {0} /\ DOMAIN r = 1 .. Len(r) /\ IsSeq(r)
  BY DEF IsRun
<1>2. Head(r) = r[1] /\ Last(r) = r[Len(r)]
  BY <1>1 DEF IsSeq, Last
<1>3. 1 \in DOMAIN r /\ Len(r) \in DOMAIN r
  BY <1>1
<1>4. IsPoint(Head(r)) /\ IsPoint(Last(r))
  BY <1>2, <1>3 DEF IsRun
<1> QED
  BY <1>2, <1>4, PointIs DEF MsgIsScan

LEMMA HeadTailIs ==
  ASSUME NEW s, IsSeq(s), s # <<>>
  PROVE  /\ Len(s) \in Nat \ {0} /\ DOMAIN s = 1 .. Len(s) /\ Head(s) = s[1]
         /\ IsSeq(Tail(s)) /\ Len(Tail(s)) = Len(s) - 1 /\ DOMAIN Tail(s) = 1 .. Len(s) - 1
         /\ \A n \in 1 .. Len(s) - 1 : Tail(s)[n] = s[n + 1]
<1> DEFINE S == {s[n] : n \in DOMAIN s}
<1>1. s \in Seq(S)
  BY DEF IsSeq
<1> HIDE DEF S
<1>2. /\ Tail(s) \in Seq(S) /\ Len(Tail(s)) = Len(s) - 1
      /\ \A n \in 1 .. Len(Tail(s)) : Tail(s)[n] = s[n + 1]
  BY <1>1, HeadTailProperties
<1>3. Len(s) \in Nat /\ DOMAIN s = 1 .. Len(s)
  BY <1>1, SeqIs
<1>4. IsSeq(Tail(s)) /\ Len(Tail(s)) \in Nat /\ DOMAIN Tail(s) = 1 .. Len(Tail(s))
  BY <1>2, SeqIs
<1>5. Head(s) = s[1]
  BY <1>1
<1>6. Len(s) # 0
  BY <1>2, <1>3, <1>4
<1> QED
  BY <1>2, <1>3, <1>4, <1>5, <1>6

------------------------------------------------------------------------------
(***************************************************************************)
(* The handlers' loops: the points they take and their times.              *)
(***************************************************************************)
\* Some points of the scan, in order, as a handler puts them out.
LEMMA PointsAreRuns ==
  ASSUME MsgIsScan, NEW ks \in SUBSET Indices, NEW T,
         \A k \in ks : T[k].index = k /\ IsPoint(T[k]) /\ ~T[k].blind,
         NEW out, out = LET s == InOrder(ks) IN [n \in DOMAIN s |-> <<T[s[n]]>>]
  PROVE  /\ IsSeq(out) /\ \A n \in DOMAIN out : IsRun(out[n])
         /\ \A m, n \in DOMAIN out : m < n => Last(out[m]).index < Head(out[n]).index
<1> DEFINE s == InOrder(ks)
<1>1. /\ s \in Seq(ks) /\ Len(s) \in Nat /\ DOMAIN s = 1 .. Len(s)
      /\ \A n \in 1 .. Len(s) : s[n] \in ks
      /\ \A m, n \in 1 .. Len(s) : m < n => s[m] < s[n]
  BY InOrderIsOrdered, LenProperties DEF MsgIsScan
<1>2. out = [n \in 1 .. Len(s) |-> <<T[s[n]]>>]
  BY <1>1
<1> HIDE DEF s
<1>3. IsSeq(out) /\ DOMAIN out = 1 .. Len(s) /\ \A n \in 1 .. Len(s) : out[n] = <<T[s[n]]>>
  <2>1. out = [n \in 1 .. Len(s) |-> out[n]]
    BY <1>2
  <2> QED
    BY <1>1, <1>2, <2>1, FunctionIsSeq
<1>4. ASSUME NEW n \in 1 .. Len(s)
      PROVE  IsRun(out[n]) /\ Last(out[n]).index = s[n] /\ Head(out[n]).index = s[n]
  <2>1. s[n] \in ks /\ out[n] = <<T[s[n]]>>
    BY <1>1, <1>3
  <2> DEFINE p == T[s[n]]
  <2>2. p.index = s[n] /\ IsPoint(p) /\ ~p.blind
    BY <2>1
  <2> HIDE DEF p
  <2>3. /\ IsSeq(<<p>>) /\ Len(<<p>>) = 1 /\ DOMAIN <<p>> = 1 .. 1
        /\ <<p>>[1] = p /\ Head(<<p>>) = p
    BY DEF IsSeq
  <2>4. out[n] = <<p>>
    BY <2>1 DEF p
  <2>5. \A k \in 1 .. 1 : k = 1
    OBVIOUS
  <2>6. IsRun(<<p>>)
    BY <2>2, <2>3, <2>5 DEF IsRun
  <2> QED
    BY <2>2, <2>3, <2>4, <2>6 DEF Last
<1> QED
  BY <1>1, <1>3, <1>4

\* Some points of a line of the scan, in order, as they are sorted into lines.
LEMMA LineIsLine ==
  ASSUME MsgIsScan, NEW l, NEW ks \in SUBSET OnLine(l), NEW T,
         \A k \in ks : T[k].index = k /\ IsPoint(T[k]),
         NEW line, line = LET s == InOrder(ks) IN [n \in 0 .. Len(s) - 1 |-> T[s[n + 1]]]
  PROVE  IsLine(line, l)
<1> DEFINE s == InOrder(ks)
<1>1. ks \in SUBSET Indices /\ \A k \in ks : At(k).line = l - 1
  BY DEF OnLine
<1>2. /\ s \in Seq(ks) /\ Len(s) \in Nat /\ DOMAIN s = 1 .. Len(s)
      /\ \A n \in 1 .. Len(s) : s[n] \in ks
      /\ \A m, n \in 1 .. Len(s) : m < n => s[m] < s[n]
  BY <1>1, InOrderIsOrdered, LenProperties DEF MsgIsScan
<1> HIDE DEF s
<1>3. line = [n \in 0 .. Len(s) - 1 |-> T[s[n + 1]]]
  BY DEF s
<1>4. DOMAIN line = 0 .. Len(s) - 1 /\ Cardinality(0 .. Len(s) - 1) = Len(s)
  <2>1. 0 \in Int /\ Len(s) - 1 \in Int
    BY <1>2
  <2>2. Cardinality(0 .. Len(s) - 1) = IF 0 > Len(s) - 1 THEN 0 ELSE Len(s) - 1 - 0 + 1
    BY <2>1, FS_Interval
  <2> QED
    BY <1>2, <1>3, <2>2
<1>5. ASSUME NEW n \in 0 .. Len(s) - 1
      PROVE  IsPoint(line[n]) /\ line[n].index = s[n + 1] /\ LineNumber(line[n]) = l - 1
  <2>1. n + 1 \in 1 .. Len(s)
    BY <1>2
  <2>2. s[n + 1] \in ks /\ line[n] = T[s[n + 1]]
    BY <1>2, <1>3, <2>1
  <2> QED
    BY <1>1, <2>2 DEF LineNumber
<1>6. ASSUME NEW j \in 0 .. Len(s) - 1, NEW k \in 0 .. Len(s) - 1, j < k
      PROVE  line[j].index < line[k].index
  <2>1. j + 1 \in 1 .. Len(s) /\ k + 1 \in 1 .. Len(s) /\ j + 1 < k + 1
    BY <1>2, <1>6
  <2> QED
    BY <1>2, <1>5, <2>1
<1> QED
  BY <1>2, <1>4, <1>5, <1>6 DEF IsLine

\* The times: from the message, whose times are the indices, or from the yaw.
LEMMA TimesAreRight ==
  ASSUME MsgIsScan, NEW k \in Indices, NEW p, p.index = k
  PROVE  /\ lidar_type \in {"AVIA", "OUST64"} /\ p.curvature = TimeIn(k) => IsPoint(p)
         /\ lidar_type = "VELO16" /\ k \in Velodyne(Indices) /\ p.curvature = VelodyneTime(k)
              => IsPoint(p)
         /\ lidar_type = "MID360" /\ ~IsFirst(k) /\ p.curvature = TimeFromYaw(k) => IsPoint(p)
         /\ lidar_type = "other" => IsPoint(p)
<1>1. Indices = 1 .. Len(msg.points) /\ Len(msg.points) \in Nat
  BY LenProperties DEF Indices, MsgIsScan
<1>2. ASSUME Rotating, ~IsFirst(k) PROVE TimeFromYaw(k) = SinceFirst(k)
  BY <1>2, TimeFromYawIsTurned DEF MsgIsScan
<1>3. ASSUME lidar_type \in {"AVIA", "OUST64"}, p.curvature = TimeIn(k) PROVE IsPoint(p)
  <2>1. lidar_type \notin {"VELO16", "MID360"}
    BY <1>3
  <2> QED
    BY <1>3, <2>1 DEF IsPoint, TimeIn
<1>4. ASSUME lidar_type = "VELO16", k \in Velodyne(Indices), p.curvature = VelodyneTime(k)
      PROVE  IsPoint(p)
  <2>1. CASE given_offset_time
    <3>1. msg.timed => p.curvature = k - 1
      BY <1>4, <2>1 DEF VelodyneTime, TimeIn
    <3> QED
      BY <2>1, <3>1 DEF IsPoint
  <2>2. CASE ~given_offset_time
    <3>1. ~IsFirst(k) /\ p.curvature = TimeFromYaw(k)
      BY <1>4, <2>2 DEF Velodyne, VelodyneTime
    <3>2. k # 1
      BY <3>1 DEF IsFirst, Before
    <3>3. ~msg.timed
      <4>1. Indices # {} /\ Len(msg.points) - 1 > 0
        BY <1>1, <3>2
      <4> QED
        BY <2>2, <4>1 DEF given_offset_time, TimeIn
    <3> QED
      BY <1>2, <3>1, <3>3 DEF IsPoint
  <2> QED
    BY <2>1, <2>2
<1>5. ASSUME lidar_type = "MID360", ~IsFirst(k), p.curvature = TimeFromYaw(k) PROVE IsPoint(p)
  <2>1. ~msg.timed
    BY <1>5 DEF MsgIsScan
  <2> QED
    BY <1>2, <1>5, <2>1 DEF IsPoint
<1>6. ASSUME lidar_type = "other" PROVE IsPoint(p)
  <2>1. ~msg.timed /\ lidar_type \notin {"VELO16", "MID360"}
    BY <1>6 DEF MsgIsScan
  <2> QED
    BY <2>1 DEF IsPoint
<1> QED
  BY <1>3, <1>4, <1>5, <1>6

------------------------------------------------------------------------------
(***************************************************************************)
(* The inductive invariant.                                                *)
(***************************************************************************)
ConfigIs ==
  /\ lidar_type \in LID_TYPE /\ feature_enabled \in BOOLEAN /\ point_filter_num \in Filters
  /\ feature_enabled => lidar_type \in {"AVIA", "OUST64", "VELO16"}

\* Lines are classified only while there are lines, and the output is empty before.
StagesAre ==
  /\ status \in {"idle", "process", "lines", "done"}
  /\ status # "lines" => phase = "none"
  /\ status = "lines" => feature_enabled
  /\ status \in {"idle", "process"} => pl_surf = <<>> /\ pl_corn = <<>>

LineIs == plsize \in Nat /\ DOMAIN pl = 0 .. plsize - 1

\* Only points outside the blind distance have a type.
TypesAre ==
  /\ ftype \in [DOMAIN pl -> Ftypes]
  /\ \A k \in DOMAIN pl : pl[k].blind => ftype[k] = "Nor"

\* How far the index of each pass can get.
IndexIs ==
  /\ head \in 0 .. plsize /\ last_state \in {0, 1}
  /\ phase \in {"none", "planes", "edges", "small", "output"}
  /\ phase \in {"none", "output"} => i \in 0 .. plsize
  /\ phase = "planes" => i \in 0 .. plsize + 1
  /\ phase = "edges" => i \in 3 .. plsize + 3
  /\ phase = "small" => i \in 1 .. plsize + 1

\* A run of planes begins in the last pass, and none of its points is blind.
RunIs ==
  /\ last_surface \in -1 .. plsize - 1
  /\ phase \in {"planes", "edges", "small"} => last_surface = -1
  /\ phase = "output" /\ last_surface # -1 =>
       last_surface < i /\ \A k \in last_surface .. i - 1 : ~pl[k].blind

SurfIs ==
  /\ IsSeq(pl_surf) /\ \A n \in DOMAIN pl_surf : IsRun(pl_surf[n])
  /\ \A m, n \in DOMAIN pl_surf :
       m < n /\ (feature_enabled => LineNumber(Last(pl_surf[m])) = LineNumber(Head(pl_surf[n])))
         => Last(pl_surf[m]).index < Head(pl_surf[n]).index

CornIs == IsSeq(pl_corn) /\ \A n \in DOMAIN pl_corn : ~pl_corn[n].blind

OutputIs == SurfIs /\ CornIs

\* The point from which on nothing of the line has been put out.
Reached == IF last_surface = -1 THEN i ELSE last_surface

\* What has been put out is of lines that are done, or of the line in work before Reached.
LinesAre ==
  status = "lines" =>
    /\ IsSeq(pl_buff) /\ Len(pl_buff) <= N_SCANS
    /\ \A j \in DOMAIN pl_buff : IsLine(pl_buff[j], LinesDone + j)
    /\ phase # "none" => IsLine(pl, LinesDone)
    /\ \A n \in DOMAIN pl_surf :
         LET p == Last(pl_surf[n])
         IN  /\ LineNumber(p) < LinesDone
             /\ phase \in {"planes", "edges", "small"} => LineNumber(p) < LinesDone - 1
             /\ phase = "output" => \/ LineNumber(p) < LinesDone - 1
                                    \/ \A k \in Reached .. plsize - 1 : p.index < pl[k].index

\* What give_feature works on.
FeaturesAre == LineIs /\ TypesAre /\ IndexIs /\ RunIs /\ StrayAccessesAreKnown

ProcessInv == ConfigIs /\ MsgIsScan /\ StagesAre /\ FeaturesAre /\ OutputIs /\ LinesAre

LEMMA ProcessInitially ==
  ASSUME ProcessInit
  PROVE  ProcessInv
<1> USE DEF ProcessInit, FeatureInit
<1>1. ConfigIs
  BY DEF ConfigIs, LID_TYPE
<1>2. MsgIsScan
  BY DEF MsgIsScan
<1>3. StagesAre
  BY DEF StagesAre
<1>4. LineIs /\ plsize = 0 /\ DOMAIN pl = {}
  BY FS_EmptySet DEF LineIs, plsize
<1>5. TypesAre
  BY <1>4 DEF TypesAre
<1>6. IndexIs /\ RunIs /\ StrayAccessesAreKnown
  BY <1>4 DEF IndexIs, RunIs, StrayAccessesAreKnown
<1>7. IsSeq(<<>>) /\ DOMAIN <<>> = {}
  BY DEF IsSeq
<1>8. OutputIs
  BY <1>7 DEF OutputIs, SurfIs, CornIs
<1>9. LinesAre
  BY DEF LinesAre
<1> QED
  BY <1>1, <1>2, <1>3, <1>4, <1>5, <1>6, <1>8, <1>9 DEF ProcessInv, FeaturesAre

\* What give_feature works on stays as it is said while it and the lidar stay.
LEMMA FeaturesUnchanged ==
  ASSUME FeaturesAre, UNCHANGED <<lidar_type, lineVars>>
  PROVE  FeaturesAre'
<1> USE DEF lineVars
<1>1. plsize' = plsize /\ \A k : Blind(k)' <=> Blind(k)
  BY DEF plsize, Blind
<1>2. LineIs'
  BY <1>1 DEF FeaturesAre, LineIs
<1>3. TypesAre'
  BY DEF FeaturesAre, TypesAre
<1>4. IndexIs'
  BY <1>1 DEF FeaturesAre, IndexIs
<1>5. RunIs'
  BY <1>1 DEF FeaturesAre, RunIs
<1>6. StrayAccessesAreKnown'
  BY <1>1 DEF FeaturesAre, StrayAccessesAreKnown
<1> QED
  BY <1>2, <1>3, <1>4, <1>5, <1>6 DEF FeaturesAre

LEMMA SurfUnchanged ==
  ASSUME SurfIs, UNCHANGED <<msg, lidar_type, feature_enabled, pl_surf>>
  PROVE  SurfIs'
<1>1. \A n \in DOMAIN pl_surf : IsRun(pl_surf[n])'
  BY RunsUnchanged DEF SurfIs
<1>2. ASSUME NEW m \in DOMAIN pl_surf, NEW n \in DOMAIN pl_surf, m < n,
             feature_enabled =>
               LineNumber(Last(pl_surf[m]))' = LineNumber(Head(pl_surf[n]))'
      PROVE  Last(pl_surf[m]).index < Head(pl_surf[n]).index
  <2>1. /\ LineNumber(Last(pl_surf[m]))' = LineNumber(Last(pl_surf[m]))
        /\ LineNumber(Head(pl_surf[n]))' = LineNumber(Head(pl_surf[n]))
    BY PointUnchanged DEF LineNumber, At
  <2> QED
    BY <1>2, <2>1 DEF SurfIs
<1> QED
  BY <1>1, <1>2 DEF SurfIs

LEMMA OutputUnchanged ==
  ASSUME OutputIs, UNCHANGED <<msg, lidar_type, feature_enabled, pl_surf, pl_corn>>
  PROVE  OutputIs'
BY SurfUnchanged DEF OutputIs, CornIs

------------------------------------------------------------------------------
(***************************************************************************)
(* Every step keeps the invariant.                                         *)
(***************************************************************************)
LEMMA ReceiveKeeps ==
  ASSUME ProcessInv, Receive
  PROVE  ProcessInv'
<1> USE DEF ProcessInv, Receive, config, featureVars, lineVars
<1>1. PICK points \in Scans(lidar_type, feature_enabled) :
        \E timed \in CASE lidar_type \in {"AVIA", "OUST64"} -> {TRUE}
                       [] lidar_type = "VELO16" -> BOOLEAN
                       [] OTHER -> {FALSE} :
          msg' = [points |-> points, timed |-> timed]
  OBVIOUS
<1>2. points \in Seq(ScanPoint)
  BY PreprocessAssumption DEF ConfigIs
<1>3. lidar_type \in {"AVIA", "OUST64"} \/ lidar_type = "VELO16"
        \/ lidar_type \notin {"AVIA", "OUST64", "VELO16"}
  OBVIOUS
<1>4. PICK timed \in BOOLEAN : /\ msg' = [points |-> points, timed |-> timed]
                               /\ lidar_type \in {"MID360", "other"} => ~timed
  BY <1>1, <1>3
<1>5. MsgIsScan'
  BY <1>2, <1>4 DEF MsgIsScan
<1>6. ConfigIs' /\ StagesAre'
  BY DEF ConfigIs, StagesAre
<1>7. FeaturesAre'
  BY FeaturesUnchanged
<1>8. OutputIs'
  <2>1. pl_surf' = <<>> /\ pl_corn' = <<>>
    BY DEF StagesAre
  <2>2. IsSeq(<<>>) /\ DOMAIN <<>> = {}
    BY DEF IsSeq
  <2> QED
    BY <2>1, <2>2 DEF OutputIs, SurfIs, CornIs
<1>9. LinesAre'
  BY DEF LinesAre
<1> QED
  BY <1>5, <1>6, <1>7, <1>8, <1>9

LEMMA ProcessPointsKeeps ==
  ASSUME ProcessInv, ProcessPoints
  PROVE  ProcessInv'
<1> USE DEF ProcessInv, ProcessPoints, config, lineVars
<1>1. ConfigIs' /\ StagesAre' /\ MsgIsScan' /\ LinesAre'
  BY DEF ConfigIs, StagesAre, MsgIsScan, LinesAre
<1>2. FeaturesAre'
  BY FeaturesUnchanged
<1>3. PICK ks, T :
        /\ ks \in SUBSET Indices
        /\ \A k \in ks : T[k].index = k /\ IsPoint(T[k]) /\ ~T[k].blind
        /\ pl_surf' = LET s == InOrder(ks) IN [n \in DOMAIN s |-> <<T[s[n]]>>]
  <2> DEFINE Is(ks, T) ==
               /\ ks \in SUBSET Indices
               /\ \A k \in ks : T[k].index = k /\ IsPoint(T[k]) /\ ~T[k].blind
               /\ pl_surf' = LET s == InOrder(ks) IN [n \in DOMAIN s |-> <<T[s[n]]>>]
  <2> SUFFICES \E ks, T : Is(ks, T)
    OBVIOUS
  <2>1. CASE lidar_type = "AVIA"
    <3> DEFINE ks == {k \in Indices : Sampled(k) /\ Moved(k, Sampled) /\ ~Near(At(k))}
               T == [k \in Indices |->
                       [index |-> k, curvature |-> TimeIn(k), blind |-> Near(At(k))]]
    <3>1. pl_surf' = LET s == InOrder(ks) IN [n \in DOMAIN s |-> <<T[s[n]]>>]
      BY <2>1 DEF AviaPoints, Points, Taken
    <3>2. \A k \in ks : /\ k \in Indices /\ T[k].index = k /\ T[k].curvature = TimeIn(k)
                        /\ ~T[k].blind
      OBVIOUS
    <3>3. ks \in SUBSET Indices
      OBVIOUS
    <3> HIDE DEF ks, T
    <3>4. \A k \in ks : IsPoint(T[k])
      BY <2>1, <3>2, TimesAreRight
    <3>5. Is(ks, T)
      BY <3>1, <3>2, <3>3, <3>4
    <3> HIDE DEF Is
    <3> QED
      BY <3>5, Zenon
  <2>2. CASE lidar_type = "OUST64"
    <3> DEFINE ks == {k \in Indices : (k - 1) % point_filter_num = 0 /\ ~Near(At(k))}
               T == [k \in Indices |->
                       [index |-> k, curvature |-> TimeIn(k), blind |-> Near(At(k))]]
    <3>1. pl_surf' = LET s == InOrder(ks) IN [n \in DOMAIN s |-> <<T[s[n]]>>]
      BY <2>2 DEF Oust64Points, Points, Taken
    <3>2. \A k \in ks : /\ k \in Indices /\ T[k].index = k /\ T[k].curvature = TimeIn(k)
                        /\ ~T[k].blind
      OBVIOUS
    <3>3. ks \in SUBSET Indices
      OBVIOUS
    <3> HIDE DEF ks, T
    <3>4. \A k \in ks : IsPoint(T[k])
      BY <2>2, <3>2, TimesAreRight
    <3>5. Is(ks, T)
      BY <3>1, <3>2, <3>3, <3>4
    <3> HIDE DEF Is
    <3> QED
      BY <3>5, Zenon
  <2>3. CASE lidar_type = "VELO16"
    <3> DEFINE ks == {k \in Velodyne(Indices) :
                        (k - 1) % point_filter_num = 0 /\ ~Near(At(k))}
               T == [k \in Indices |->
                       [index |-> k, curvature |-> VelodyneTime(k), blind |-> Near(At(k))]]
    <3>1. pl_surf' = LET s == InOrder(ks) IN [n \in DOMAIN s |-> <<T[s[n]]>>]
      BY <2>3 DEF VelodynePoints, Points, Taken
    <3>2. \A k \in Velodyne(Indices) : k \in Indices
      BY DEF Velodyne
    <3>3. \A k \in ks : /\ k \in Indices /\ k \in Velodyne(Indices) /\ T[k].index = k
                        /\ T[k].curvature = VelodyneTime(k) /\ ~T[k].blind
      BY <3>2
    <3>4. ks \in SUBSET Indices
      BY <3>2
    <3> HIDE DEF ks, T
    <3>5. \A k \in ks : IsPoint(T[k])
      BY <2>3, <3>3, TimesAreRight
    <3>6. Is(ks, T)
      BY <3>1, <3>3, <3>4, <3>5
    <3> HIDE DEF Is
    <3> QED
      BY <3>6, Zenon
  <2>4. CASE lidar_type = "MID360"
    <3> DEFINE ks == {k \in Indices : ~IsFirst(k) /\ ~Near(At(k))}
               T == [k \in Indices |->
                       [index |-> k, curvature |-> TimeFromYaw(k), blind |-> Near(At(k))]]
    <3>1. pl_surf' = LET s == InOrder(ks) IN [n \in DOMAIN s |-> <<T[s[n]]>>]
      BY <2>4 DEF Mid360Points, Points, Taken
    <3>2. \A k \in ks : /\ k \in Indices /\ ~IsFirst(k) /\ T[k].index = k
                        /\ T[k].curvature = TimeFromYaw(k) /\ ~T[k].blind
      OBVIOUS
    <3>3. ks \in SUBSET Indices
      OBVIOUS
    <3> HIDE DEF ks, T
    <3>4. \A k \in ks : IsPoint(T[k])
      BY <2>4, <3>2, TimesAreRight
    <3>5. Is(ks, T)
      BY <3>1, <3>2, <3>3, <3>4
    <3> HIDE DEF Is
    <3> QED
      BY <3>5, Zenon
  <2>5. CASE lidar_type = "other"
    <3> DEFINE ks == {k \in Indices : ~Near(At(k))}
               T == [k \in Indices |->
                       [index |-> k, curvature |-> 0, blind |-> Near(At(k))]]
    <3>1. pl_surf' = LET s == InOrder(ks) IN [n \in DOMAIN s |-> <<T[s[n]]>>]
      BY <2>5 DEF DefaultPoints, Points, Taken
    <3>2. \A k \in ks : k \in Indices /\ T[k].index = k /\ ~T[k].blind
      OBVIOUS
    <3>3. ks \in SUBSET Indices
      OBVIOUS
    <3> HIDE DEF ks, T
    <3>4. \A k \in ks : IsPoint(T[k])
      BY <2>5, <3>2, TimesAreRight
    <3>5. Is(ks, T)
      BY <3>1, <3>2, <3>3, <3>4
    <3> HIDE DEF Is
    <3> QED
      BY <3>5, Zenon
  <2> QED
    BY <2>1, <2>2, <2>3, <2>4, <2>5 DEF ConfigIs, LID_TYPE
<1> DEFINE out == pl_surf'
<1>4. /\ IsSeq(out) /\ \A n \in DOMAIN out : IsRun(out[n])
      /\ \A m, n \in DOMAIN out : m < n => Last(out[m]).index < Head(out[n]).index
  BY <1>3, PointsAreRuns
<1>5. (\A n \in DOMAIN pl_surf : IsRun(pl_surf[n]))'
  BY <1>4, RunsUnchanged
<1>6. OutputIs'
  <2>1. IsSeq(pl_corn') /\ \A n \in DOMAIN pl_corn' : ~pl_corn'[n].blind
    BY DEF OutputIs, SurfIs, CornIs
  <2> QED
    BY <1>4, <1>5, <2>1 DEF OutputIs, SurfIs, CornIs
<1> QED
  BY <1>1, <1>2, <1>6

LEMMA ProcessLinesKeeps ==
  ASSUME ProcessInv, ProcessLines
  PROVE  ProcessInv'
<1> DEFINE F(l) == CASE lidar_type = "AVIA" -> AviaLine(l)
                     [] lidar_type = "OUST64" -> Oust64Line(l)
                     [] lidar_type = "VELO16" -> VelodyneLine(l)
<1>0. pl_buff' = [l \in 1 .. N_SCANS |-> F(l)]
  BY DEF ProcessLines
<1> HIDE DEF F
<1>4. IsSeq(pl_buff') /\ Len(pl_buff') = N_SCANS /\ DOMAIN pl_buff' = 1 .. N_SCANS
  <2>1. pl_buff' = [l \in 1 .. N_SCANS |-> pl_buff'[l]] /\ N_SCANS \in Nat
    BY <1>0, PreprocessAssumption
  <2> QED
    BY <2>1, FunctionIsSeq
<1> USE DEF ProcessInv, ProcessLines, config, featureVars
<1>1. ConfigIs' /\ StagesAre' /\ MsgIsScan'
  BY DEF ConfigIs, StagesAre, MsgIsScan, lineVars
<1>2. FeaturesAre'
  BY FeaturesUnchanged
<1>3. OutputIs'
  BY OutputUnchanged
<1>5. ASSUME NEW l \in 1 .. N_SCANS PROVE IsLine(pl_buff'[l], l)
  <2>1. PICK ks, T :
          /\ ks \in SUBSET OnLine(l)
          /\ \A k \in ks : T[k].index = k /\ IsPoint(T[k])
          /\ pl_buff'[l] = LET s == InOrder(ks) IN [n \in 0 .. Len(s) - 1 |-> T[s[n + 1]]]
    <3> DEFINE Is(ks, T) ==
                 /\ ks \in SUBSET OnLine(l)
                 /\ \A k \in ks : T[k].index = k /\ IsPoint(T[k])
                 /\ pl_buff'[l] = LET s == InOrder(ks)
                                  IN  [n \in 0 .. Len(s) - 1 |-> T[s[n + 1]]]
    <3> SUFFICES \E ks, T : Is(ks, T)
      OBVIOUS
    <3>1. \A k \in OnLine(l) : k \in Indices
      BY DEF OnLine
    <3>2. CASE lidar_type = "AVIA"
      <4> DEFINE line == {k \in OnLine(l) : Valid(k) /\ Moved(k, Valid)}
                 ks == IF Cardinality(line) <= MinLine THEN {} ELSE line
                 T == [k \in Indices |->
                         [index |-> k, curvature |-> TimeIn(k), blind |-> Near(At(k))]]
      <4>1. pl_buff'[l] = LET s == InOrder(ks) IN [n \in 0 .. Len(s) - 1 |-> T[s[n + 1]]]
        BY <3>2 DEF AviaLine, LineOf, Taken
      <4>2. ks \in SUBSET OnLine(l)
        OBVIOUS
      <4>3. \A k \in Indices : T[k].index = k /\ T[k].curvature = TimeIn(k)
        OBVIOUS
      <4> HIDE DEF ks, T
      <4>4. \A k \in ks : T[k].index = k /\ IsPoint(T[k])
        BY <3>1, <3>2, <4>2, <4>3, TimesAreRight
      <4>5. Is(ks, T)
        BY <4>1, <4>2, <4>4
      <4> HIDE DEF Is
      <4> QED
        BY <4>5, Zenon
    <3>3. CASE lidar_type = "OUST64"
      <4> DEFINE ks == {k \in OnLine(l) : ~Near(At(k))}
                 T == [k \in Indices |->
                         [index |-> k, curvature |-> TimeIn(k), blind |-> Near(At(k))]]
      <4>1. pl_buff'[l] = LET s == InOrder(ks) IN [n \in 0 .. Len(s) - 1 |-> T[s[n + 1]]]
        BY <3>3 DEF Oust64Line, LineOf, Taken
      <4>2. ks \in SUBSET OnLine(l)
        OBVIOUS
      <4>3. \A k \in Indices : T[k].index = k /\ T[k].curvature = TimeIn(k)
        OBVIOUS
      <4> HIDE DEF ks, T
      <4>4. \A k \in ks : T[k].index = k /\ IsPoint(T[k])
        BY <3>1, <3>3, <4>2, <4>3, TimesAreRight
      <4>5. Is(ks, T)
        BY <4>1, <4>2, <4>4
      <4> HIDE DEF Is
      <4> QED
        BY <4>5, Zenon
    <3>4. CASE lidar_type = "VELO16"
      <4> DEFINE line == Velodyne(OnLine(l))
                 ks == IF Cardinality(line) < 2 THEN {} ELSE line
                 T == [k \in Indices |->
                         [index |-> k, curvature |-> VelodyneTime(k), blind |-> Near(At(k))]]
      <4>1. pl_buff'[l] = LET s == InOrder(ks) IN [n \in 0 .. Len(s) - 1 |-> T[s[n + 1]]]
        BY <3>4 DEF VelodyneLine, LineOf, Taken
      <4>2. ks \in SUBSET OnLine(l) /\ \A k \in ks : k \in Velodyne(Indices)
        BY <3>1 DEF Velodyne
      <4>3. \A k \in Indices : T[k].index = k /\ T[k].curvature = VelodyneTime(k)
        OBVIOUS
      <4> HIDE DEF ks, T
      <4>4. \A k \in ks : T[k].index = k /\ IsPoint(T[k])
        BY <3>1, <3>4, <4>2, <4>3, TimesAreRight
      <4>5. Is(ks, T)
        BY <4>1, <4>2, <4>4
      <4> HIDE DEF Is
      <4> QED
        BY <4>5, Zenon
    <3> QED
      BY <3>2, <3>3, <3>4 DEF ConfigIs
  <2> QED
    BY <2>1, LineIsLine
<1>7. phase' = "none" /\ DOMAIN pl_surf' = {} /\ N_SCANS \in Nat
  <2>1. DOMAIN <<>> = {}
    OBVIOUS
  <2> QED
    BY <2>1, PreprocessAssumption DEF StagesAre, lineVars
<1>8. LinesAre'
  <2>1. LinesDone' = 0
    BY <1>4, <1>7 DEF LinesDone
  <2>2. ASSUME NEW j \in DOMAIN pl_buff' PROVE IsLine(pl_buff[j], LinesDone + j)'
    <3>1. j \in 1 .. N_SCANS /\ LinesDone' + j = j
      BY <1>4, <2>1
    <3>2. IsLine(pl_buff'[j], LinesDone' + j)
      BY <1>5, <3>1
    <3> QED
      BY <3>2, RunsUnchanged
  <2>3. (\A j \in DOMAIN pl_buff : IsLine(pl_buff[j], LinesDone + j))'
    BY <2>2
  <2> HIDE DEF ProcessLines, ProcessInv
  <2> QED
    BY <1>4, <1>7, <2>3 DEF LinesAre
<1> QED
  BY <1>1, <1>2, <1>3, <1>8

LEMMA NextLineKeeps ==
  ASSUME ProcessInv, NextLine
  PROVE  ProcessInv'
<1> USE DEF ProcessInv, NextLine, config
<1> DEFINE line == Head(pl_buff)  l == LinesDone + 1  size == Cardinality(DOMAIN line)
           far == {k \in DOMAIN line : ~line[k].blind}
           first == IF far = {} THEN size ELSE CHOOSE k \in far : \A m \in far : k <= m
           touched == IF lidar_type = "OUST64" /\ line = <<>> THEN {-1} ELSE {}
<1>1. /\ pl' = line /\ ftype' = [k \in DOMAIN line |-> "Nor"] /\ head' = first /\ i' = first
      /\ stray' = touched \cup (IF far = {} /\ size > 0 THEN {size} ELSE {})
      /\ phase' = (IF size = 0 THEN "none" ELSE "planes")
      /\ last_state' = 0 /\ last_surface' = -1 /\ plane_to_end' = FALSE
  BY DEF StartLine
<1>2. /\ Len(pl_buff) \in Nat \ {0} /\ DOMAIN pl_buff = 1 .. Len(pl_buff) /\ line = pl_buff[1]
      /\ IsSeq(pl_buff') /\ Len(pl_buff') = Len(pl_buff) - 1
      /\ DOMAIN pl_buff' = 1 .. Len(pl_buff) - 1
      /\ \A n \in 1 .. Len(pl_buff) - 1 : pl_buff'[n] = pl_buff[n + 1]
  BY HeadTailIs DEF LinesAre
<1>3. N_SCANS \in Nat
  BY PreprocessAssumption
<1>4. LinesDone \in Nat /\ LinesDone' = LinesDone + 1 /\ Len(pl_buff') <= N_SCANS
  BY <1>2, <1>3 DEF LinesDone, LinesAre
<1>5. IsLine(line, l)
  BY <1>2 DEF LinesAre
<1>6. size \in Nat /\ DOMAIN line = 0 .. size - 1
  BY <1>5 DEF IsLine
<1>7. first \in 0 .. size
  <2>1. CASE far = {}
    BY <1>6, <2>1
  <2>2. CASE far # {}
    <3>1. far \in SUBSET Nat
      BY <1>6
    <3>2. \E k \in far : \A m \in far : k <= m
      <4> HIDE DEF far
      <4> QED
        BY <2>2, <3>1, LeastNumber
    <3>3. first \in far
      <4> HIDE DEF far
      <4> QED
        BY <2>2, <3>2
    <3>4. first \in DOMAIN line
      <4> HIDE DEF first
      <4> QED
        BY <3>3
    <3> HIDE DEF first, line
    <3> QED
      BY <1>6, <3>4
  <2> QED
    BY <2>1, <2>2
<1>8. plsize' = size /\ DOMAIN pl' = 0 .. size - 1
  BY <1>1, <1>6 DEF plsize
<1> HIDE DEF first
<1>9. LineIs' /\ TypesAre' /\ IndexIs' /\ RunIs'
  <2>1. LineIs'
    BY <1>6, <1>8 DEF LineIs
  <2>2. TypesAre'
    BY <1>1, <1>8 DEF TypesAre, Ftypes
  <2>3. IndexIs'
    BY <1>1, <1>6, <1>7, <1>8 DEF IndexIs
  <2>4. RunIs'
    BY <1>1, <1>6, <1>8 DEF RunIs
  <2> QED
    BY <2>1, <2>2, <2>3, <2>4
<1>10. StrayAccessesAreKnown'
  <2>1. ASSUME far = {} PROVE \A m \in DOMAIN pl' : Blind(m)'
    BY <1>1, <2>1 DEF Blind
  <2>2. ASSUME NEW k \in stray'
        PROVE  \/ k = plsize' /\ \A m \in DOMAIN pl' : Blind(m)'
               \/ k = -1 /\ lidar_type' = "OUST64" /\ pl' = <<>>
    BY <1>1, <1>8, <2>1
  <2> QED
    BY <2>2 DEF StrayAccessesAreKnown
<1>11. ConfigIs' /\ StagesAre' /\ MsgIsScan'
  BY <1>1 DEF ConfigIs, StagesAre, MsgIsScan
<1>12. OutputIs'
  BY OutputUnchanged
<1>13. LinesAre'
  <2>1. \A j \in DOMAIN pl_buff' : IsLine(pl_buff[j], LinesDone + j)'
    <3> SUFFICES ASSUME NEW j \in 1 .. Len(pl_buff) - 1
                 PROVE  IsLine(pl_buff[j], LinesDone + j)'
      BY <1>2
    <3>1. j + 1 \in DOMAIN pl_buff /\ pl_buff'[j] = pl_buff[j + 1]
      BY <1>2
    <3>2. IsLine(pl_buff[j + 1], LinesDone + (j + 1))
      BY <3>1 DEF LinesAre
    <3>3. LinesDone' + j = LinesDone + (j + 1)
      BY <1>4
    <3>4. IsLine(pl_buff'[j], LinesDone' + j)
      BY <3>1, <3>2, <3>3
    <3> QED
      BY <3>4, RunsUnchanged
  <2>2. IsLine(pl, LinesDone)'
    BY <1>1, <1>4, <1>5, RunsUnchanged
  <2>3. ASSUME NEW n \in DOMAIN pl_surf'
        PROVE  /\ LineNumber(Last(pl_surf[n]))' < LinesDone'
               /\ LineNumber(Last(pl_surf[n]))' < LinesDone' - 1
    <3>1. /\ n \in DOMAIN pl_surf /\ pl_surf' = pl_surf
          /\ LineNumber(Last(pl_surf[n])) < LinesDone
      BY DEF LinesAre
    <3>2. LineNumber(Last(pl_surf[n]))' = LineNumber(Last(pl_surf[n]))
      BY <3>1 DEF LineNumber, At
    <3>3. LineNumber(Last(pl_surf[n])) \in Int
      BY <3>1, RunIsOfPoints DEF OutputIs, SurfIs, CornIs
    <3> QED
      BY <1>4, <3>1, <3>2, <3>3
  <2>4. phase' # "output"
    BY <1>1
  <2> QED
    BY <1>2, <1>4, <2>1, <2>2, <2>3, <2>4 DEF LinesAre
<1> QED
  BY <1>9, <1>10, <1>11, <1>12, <1>13 DEF FeaturesAre

LEMMA LinesEndKeeps ==
  ASSUME ProcessInv, LinesEnd
  PROVE  ProcessInv'
<1> USE DEF ProcessInv, LinesEnd, config, featureVars
<1>1. ConfigIs' /\ StagesAre' /\ MsgIsScan' /\ LinesAre'
  BY DEF ConfigIs, StagesAre, MsgIsScan, LinesAre, lineVars
<1>2. FeaturesAre'
  BY FeaturesUnchanged
<1>3. OutputIs'
  BY OutputUnchanged
<1> QED
  BY <1>1, <1>2, <1>3

LEMMA ClearKeeps ==
  ASSUME ProcessInv, Clear
  PROVE  ProcessInv'
<1> USE DEF ProcessInv, Clear, config
<1>1. ConfigIs' /\ StagesAre' /\ MsgIsScan' /\ LinesAre'
  BY DEF ConfigIs, StagesAre, MsgIsScan, LinesAre
<1>2. LineIs' /\ plsize' = 0 /\ DOMAIN pl' = {}
  BY FS_EmptySet DEF LineIs, plsize
<1>3. TypesAre' /\ IndexIs' /\ RunIs' /\ StrayAccessesAreKnown'
  BY <1>2 DEF TypesAre, IndexIs, RunIs, StrayAccessesAreKnown
<1>4. IsSeq(<<>>) /\ DOMAIN <<>> = {}
  BY DEF IsSeq
<1>5. OutputIs'
  BY <1>4 DEF OutputIs, SurfIs, CornIs
<1> QED
  BY <1>1, <1>2, <1>3, <1>5 DEF FeaturesAre

\* What the passes before the last one leave alone.
PassLeaves == <<lidar_type, feature_enabled, point_filter_num, status, msg, pl_buff, pl, head,
                last_surface, pl_surf, pl_corn>>

LEMMA PassKeeps ==
  ASSUME ProcessInv, status = "lines", UNCHANGED PassLeaves,
         phase \in {"planes", "edges", "small"},
         phase' \in {"planes", "edges", "small", "output"},
         TypesAre', IndexIs', StrayAccessesAreKnown'
  PROVE  ProcessInv'
<1> USE DEF ProcessInv, PassLeaves
<1>1. plsize' = plsize
  BY DEF plsize
<1>2. ConfigIs' /\ StagesAre' /\ MsgIsScan'
  BY DEF ConfigIs, StagesAre, MsgIsScan
<1>3. LineIs' /\ RunIs'
  BY <1>1 DEF FeaturesAre, LineIs, RunIs
<1>4. OutputIs'
  BY OutputUnchanged
<1>5. LinesAre'
  <2>1. LinesDone' = LinesDone
    BY DEF LinesDone
  <2>2. (\A j \in DOMAIN pl_buff : IsLine(pl_buff[j], LinesDone + j))'
    BY <2>1, RunsUnchanged DEF LinesAre
  <2>3. IsLine(pl, LinesDone)'
    BY <2>1, RunsUnchanged DEF LinesAre
  <2>4. \A n \in DOMAIN pl_surf : /\ LineNumber(Last(pl_surf[n]))' < LinesDone
                                  /\ LineNumber(Last(pl_surf[n]))' < LinesDone - 1
    BY DEF LinesAre, LineNumber, At
  <2> QED
    BY <2>1, <2>2, <2>3, <2>4 DEF LinesAre
<1> QED
  BY <1>2, <1>3, <1>4, <1>5 DEF FeaturesAre

\* A pass that touches no entry outside the line.
LEMMA StrayUnchanged ==
  ASSUME StrayAccessesAreKnown, UNCHANGED <<lidar_type, pl, plane_to_end>>, stray' \subseteq stray
  PROVE  StrayAccessesAreKnown'
<1>1. plsize' = plsize /\ \A k : Blind(k)' <=> Blind(k)
  BY DEF plsize, Blind
<1> QED
  BY <1>1 DEF StrayAccessesAreKnown

\* A plane that plane_judge finds ends within the line or just behind it, and none of its
\* points is blind; a group that has a blind point ends with it.
LEMMA PlaneJudgeIs ==
  ASSUME LineIs, NEW c \in 0 .. plsize - 1, c < Less(group_size), NEW found \in PlaneJudge(c)
  PROVE  /\ found.nex \in c .. plsize
         /\ found.type = 1 =>
              /\ c < found.nex
              /\ \A k \in c .. found.nex : k \in DOMAIN pl => ~Blind(k)
         /\ found.type # 1 => found.nex + 1 \in 0 .. plsize + 1
<1> DEFINE blind == {k \in c .. plsize - 1 : Blind(k)}
           first == IF blind = {} THEN plsize
                    ELSE CHOOSE k \in blind : \A m \in blind : k <= m
           N == (c + group_size) .. (IF blind = {} THEN plsize ELSE first - 1)
<1>1. plsize \in Nat /\ DOMAIN pl = 0 .. plsize - 1 /\ group_size \in Nat \ {0}
  BY GroupSizeAssumption DEF LineIs
<1>2. \/ /\ found.type \in {0, 1}
         /\ found.nex \in (c + group_size) .. (IF blind = {} THEN plsize ELSE first - 1)
      \/ blind # {} /\ found.type = 2 /\ found.nex = first
  <2>1. PlaneJudge(c) = {[type |-> t, nex |-> n] : t \in {0, 1}, n \in N}
                          \cup (IF blind = {} THEN {} ELSE {[type |-> 2, nex |-> first]})
    BY DEF PlaneJudge
  <2> HIDE DEF N, blind, first
  <2>2. \/ found \in {[type |-> t, nex |-> n] : t \in {0, 1}, n \in N}
        \/ blind # {} /\ found = [type |-> 2, nex |-> first]
    BY <2>1
  <2>3. ASSUME found \in {[type |-> t, nex |-> n] : t \in {0, 1}, n \in N}
        PROVE  found.type \in {0, 1} /\ found.nex \in N
    BY <2>3
  <2> QED
    BY <2>2, <2>3 DEF N
<1>3. blind # {} => first \in blind /\ \A m \in blind : first <= m
  <2> SUFFICES ASSUME blind # {} PROVE first \in blind /\ \A m \in blind : first <= m
    OBVIOUS
  <2>1. blind \in SUBSET Nat
    BY <1>1
  <2>2. \E k \in blind : \A m \in blind : k <= m
    <3> HIDE DEF blind
    <3> QED
      BY <2>1, LeastNumber
  <2> HIDE DEF blind
  <2> QED
    BY <2>2
<1>4. \A k \in c .. plsize - 1 : Blind(k) => k \in blind
  OBVIOUS
<1>5. \A k \in blind : k \in c .. plsize - 1
  OBVIOUS
<1> HIDE DEF blind, first
<1>6. CASE /\ found.type \in {0, 1}
           /\ found.nex \in (c + group_size) .. (IF blind = {} THEN plsize ELSE first - 1)
  <2>1. found.nex \in c .. plsize /\ c < found.nex
    <3>1. CASE blind = {}
      BY <1>1, <1>6, <3>1
    <3>2. CASE blind # {}
      <4>1. first \in c .. plsize - 1
        BY <1>3, <1>5, <3>2
      <4> QED
        BY <1>1, <1>6, <3>2, <4>1
    <3> QED
      BY <3>1, <3>2
  <2>2. ASSUME NEW k \in c .. found.nex, k \in DOMAIN pl, Blind(k) PROVE FALSE
    <3>1. k \in c .. plsize - 1 /\ k \in blind
      BY <1>1, <1>4, <2>1, <2>2
    <3>2. first <= k /\ first \in c .. plsize - 1 /\ blind # {}
      BY <1>3, <1>5, <3>1
    <3>3. found.nex <= first - 1
      BY <1>6, <3>2
    <3> QED
      BY <1>1, <2>1, <3>1, <3>2, <3>3
  <2> QED
    BY <1>1, <2>1, <2>2
<1>7. CASE blind # {} /\ found.type = 2 /\ found.nex = first
  <2>1. first \in c .. plsize - 1
    BY <1>3, <1>5, <1>7
  <2> QED
    BY <1>1, <1>7, <2>1
<1> QED
  BY <1>2, <1>6, <1>7

\* What Features leaves alone.
FeaturesLeaves == <<lidar_type, feature_enabled, status, msg, pl_buff>>

LEMMA PlanesKeeps ==
  ASSUME ProcessInv, status = "lines", UNCHANGED FeaturesLeaves, Planes
  PROVE  ProcessInv'
<1>1. /\ phase = "planes" /\ phase' = phase /\ i < Less(group_size)
      /\ UNCHANGED PassLeaves /\ UNCHANGED <<pl, head, lidar_type>>
  BY DEF Planes, PassLeaves, FeaturesLeaves
<1>2. LineIs /\ TypesAre /\ IndexIs /\ StrayAccessesAreKnown
  BY DEF ProcessInv, FeaturesAre
<1>3. plsize \in Nat /\ DOMAIN pl = 0 .. plsize - 1 /\ plsize' = plsize
  BY <1>1, <1>2 DEF LineIs, plsize
<1>4. i \in 0 .. plsize - 1 /\ head \in 0 .. plsize /\ last_state \in {0, 1}
  <2>1. i \in 0 .. plsize + 1 /\ head \in 0 .. plsize /\ last_state \in {0, 1}
    BY <1>1, <1>2 DEF IndexIs
  <2>2. Less(group_size) <= plsize
    BY <1>3, GroupSizeAssumption DEF Less
  <2>3. Less(group_size) \in Nat
    BY <1>3, GroupSizeAssumption DEF Less
  <2> QED
    BY <1>1, <1>3, <2>1, <2>2, <2>3
<1>5. ASSUME UNCHANGED ftype PROVE TypesAre'
  BY <1>1, <1>2, <1>5 DEF TypesAre
<1>6. ASSUME i' \in 0 .. plsize + 1, last_state' \in {0, 1} PROVE IndexIs'
  BY <1>1, <1>3, <1>4, <1>6 DEF IndexIs
<1>7. CASE Blind(i)
  <2>1. i' = i + 1 /\ UNCHANGED <<ftype, last_state, stray, plane_to_end>>
    BY <1>7 DEF Planes, PastBlind
  <2>2. i' \in 0 .. plsize + 1 /\ last_state' \in {0, 1}
    BY <1>3, <1>4, <2>1
  <2>3. StrayAccessesAreKnown'
    BY <1>1, <1>2, <2>1, StrayUnchanged
  <2> QED
    BY <1>1, <1>5, <1>6, <2>1, <2>2, <2>3, PassKeeps
<1>8. CASE ~Blind(i)
  <2>1. PICK found \in PlaneJudge(i) :
          \/ /\ found.type = 1
             /\ \E first \in IF last_state = 1 THEN {"Edge_Plane", "Real_Plane"}
                                               ELSE {"Poss_Plane"} :
                  ftype' = MarkPlane(i, found.nex, first)
             /\ stray' = IF found.nex \in DOMAIN pl THEN stray ELSE stray \cup {found.nex}
             /\ plane_to_end' = (plane_to_end \/ found.nex = plsize)
             /\ i' = found.nex /\ last_state' = 1
          \/ /\ found.type # 1
             /\ i' = found.nex + 1 /\ last_state' = 0
             /\ UNCHANGED <<ftype, stray, plane_to_end>>
    BY <1>8 DEF Planes
  <2>2. /\ found.nex \in i .. plsize
        /\ found.type = 1 =>
             /\ i < found.nex
             /\ \A k \in i .. found.nex : k \in DOMAIN pl => ~Blind(k)
        /\ found.type # 1 => found.nex + 1 \in 0 .. plsize + 1
    BY <1>1, <1>2, <1>4, PlaneJudgeIs
  <2>3. CASE found.type = 1
    <3>1. PICK first \in Ftypes : ftype' = MarkPlane(i, found.nex, first)
      BY <2>1, <2>3 DEF Ftypes
    <3>2. TypesAre'
      <4>1. ftype' \in [DOMAIN pl -> Ftypes]
        BY <1>2, <3>1 DEF MarkPlane, TypesAre, Ftypes
      <4>2. ASSUME NEW k \in DOMAIN pl, pl[k].blind PROVE ftype'[k] = "Nor"
        <5>1. Blind(k)
          BY <4>2 DEF Blind
        <5>2. k \notin i .. found.nex
          BY <2>2, <2>3, <5>1
        <5>3. k # i /\ k # found.nex /\ ~(i < k /\ k < found.nex)
          BY <1>3, <1>4, <2>2, <5>2
        <5>4. ftype'[k] = ftype[k]
          BY <1>2, <3>1, <5>3 DEF MarkPlane, TypesAre
        <5> QED
          BY <1>2, <4>2, <5>4 DEF TypesAre
      <4> QED
        BY <1>1, <4>1, <4>2 DEF TypesAre
    <3>3. i' \in 0 .. plsize + 1 /\ last_state' \in {0, 1}
      BY <1>3, <1>4, <2>1, <2>2, <2>3
    <3>4. /\ stray' = IF found.nex \in DOMAIN pl THEN stray ELSE stray \cup {found.nex}
          /\ plane_to_end' <=> (plane_to_end \/ found.nex = plsize)
      BY <2>1, <2>3
    <3>5. found.nex \notin DOMAIN pl => found.nex = plsize
      BY <1>3, <1>4, <2>2
    <3>6. StrayAccessesAreKnown'
      <4>1. \A k : Blind(k)' <=> Blind(k)
        BY <1>1 DEF Blind
      <4> QED
        BY <1>1, <1>2, <1>3, <3>4, <3>5, <4>1 DEF StrayAccessesAreKnown
    <3> QED
      BY <1>1, <1>6, <3>2, <3>3, <3>6, PassKeeps
  <2>4. CASE found.type # 1
    <3>1. i' \in 0 .. plsize + 1 /\ last_state' \in {0, 1}
      BY <2>1, <2>2, <2>4
    <3>2. UNCHANGED <<ftype, stray, plane_to_end>>
      BY <2>1, <2>4
    <3>3. StrayAccessesAreKnown'
      BY <1>1, <1>2, <3>2, StrayUnchanged
    <3> QED
      BY <1>1, <1>5, <1>6, <3>1, <3>2, <3>3, PassKeeps
  <2> QED
    BY <2>3, <2>4
<1> QED
  BY <1>7, <1>8

LEMMA PlanesEndKeeps ==
  ASSUME ProcessInv, status = "lines", UNCHANGED FeaturesLeaves, PlanesEnd
  PROVE  ProcessInv'
<1>1. /\ phase = "planes" /\ phase' = "edges" /\ i' = head + 3
      /\ UNCHANGED PassLeaves /\ UNCHANGED <<pl, ftype, lidar_type, head, last_state, stray,
                                             plane_to_end>>
  BY DEF PlanesEnd, PassLeaves, FeaturesLeaves
<1>2. TypesAre /\ IndexIs /\ StrayAccessesAreKnown /\ plsize' = plsize /\ plsize \in Nat
  BY <1>1 DEF ProcessInv, FeaturesAre, LineIs, plsize
<1>3. TypesAre'
  BY <1>1, <1>2 DEF TypesAre
<1>4. IndexIs'
  BY <1>1, <1>2 DEF IndexIs
<1>5. StrayAccessesAreKnown'
  BY <1>1, <1>2, StrayUnchanged
<1> QED
  BY <1>1, <1>3, <1>4, <1>5, PassKeeps

\* The types of the second pass are types.
LEMMA EdgeTypesAre ==
  ASSUME TypesAre, NEW c \in DOMAIN pl, NEW t \in EdgeTypes(c)
  PROVE  t \in Ftypes
<1> DEFINE G(prev, next) ==
             LET judged == {<<"Nr_nor", "Nr_zero">>, <<"Nr_nor", "Nr_inf">>}
                 judgedNext == {<<"Nr_zero", "Nr_nor">>, <<"Nr_inf", "Nr_nor">>}
                 pair == <<prev, next>>
             IN  CASE pair \in judged /\ TRUE \in EdgeJumpJudge(c, "Prev") -> {"Edge_Jump"}
                   [] pair \in judgedNext /\ TRUE \in EdgeJumpJudge(c, "Next")
                        -> {"Edge_Jump"}
                   [] prev # "Nr_nor" /\ next # "Nr_nor" /\ ftype[c] = "Nor" -> {"Wire"}
                   [] OTHER -> {}
           J(far) == {G(prev, next) : prev \in Jumps(c - 1, far), next \in Jumps(c + 1, far)}
<1>1. EdgeTypes(c) = {ftype[c]} \cup UNION {UNION J(far) : far \in BOOLEAN}
  BY DEF EdgeTypes
<1>2. \A prev, next : G(prev, next) \subseteq {"Edge_Jump", "Wire"}
  OBVIOUS
<1> HIDE DEF G
<1>3. \A far : UNION J(far) \subseteq {"Edge_Jump", "Wire"}
  BY <1>2
<1> HIDE DEF J
<1>4. EdgeTypes(c) \subseteq {ftype[c], "Edge_Jump", "Wire"}
  BY <1>1, <1>3
<1> QED
  BY <1>4 DEF TypesAre, Ftypes

LEMMA EdgesKeeps ==
  ASSUME ProcessInv, status = "lines", UNCHANGED FeaturesLeaves, Edges
  PROVE  ProcessInv'
<1>1. /\ phase = "edges" /\ phase' = phase /\ i' = i + 1 /\ i < Less(EdgeMargin)
      /\ UNCHANGED PassLeaves /\ UNCHANGED <<pl, lidar_type, head, last_state, plane_to_end>>
      /\ stray' = stray \cup ({i - 2, i + 2} \ DOMAIN pl)
  BY DEF Edges, PassLeaves, FeaturesLeaves
<1>2. /\ TypesAre /\ IndexIs /\ StrayAccessesAreKnown /\ plsize' = plsize /\ plsize \in Nat
      /\ DOMAIN pl = 0 .. plsize - 1
  BY <1>1 DEF ProcessInv, FeaturesAre, LineIs, plsize
<1>3. i \in 3 .. plsize - 4
  <2>1. i \in 3 .. plsize + 3
    BY <1>1, <1>2 DEF IndexIs
  <2> QED
    BY <1>1, <1>2, <2>1 DEF Less, EdgeMargin
<1>4. TypesAre'
  <2>1. CASE UNCHANGED ftype
    BY <1>1, <1>2, <2>1 DEF TypesAre
  <2>2. CASE ~Blind(i) /\ \E t \in EdgeTypes(i) : ftype' = [ftype EXCEPT ![i] = t]
    <3>1. PICK t \in EdgeTypes(i) : ftype' = [ftype EXCEPT ![i] = t]
      BY <2>2
    <3>2. t \in Ftypes
      BY <1>2, <1>3, EdgeTypesAre
    <3>3. ASSUME NEW k \in DOMAIN pl, pl[k].blind PROVE ftype'[k] = "Nor"
      <4>1. k # i
        BY <2>2, <3>3 DEF Blind
      <4> QED
        BY <1>2, <3>1, <3>3, <4>1 DEF TypesAre
    <3>4. ftype' \in [DOMAIN pl -> Ftypes]
      BY <1>2, <3>1, <3>2 DEF TypesAre
    <3> QED
      BY <1>1, <3>3, <3>4 DEF TypesAre
  <2> QED
    BY <2>1, <2>2 DEF Edges
<1>5. IndexIs'
  BY <1>1, <1>2, <1>3 DEF IndexIs
<1>6. StrayAccessesAreKnown'
  <2>1. i - 2 \in DOMAIN pl /\ i + 2 \in DOMAIN pl
    BY <1>2, <1>3
  <2>2. stray' \subseteq stray
    BY <1>1, <2>1
  <2> QED
    BY <1>1, <1>2, <2>2, StrayUnchanged
<1> QED
  BY <1>1, <1>4, <1>5, <1>6, PassKeeps

LEMMA EdgesEndKeeps ==
  ASSUME ProcessInv, status = "lines", UNCHANGED FeaturesLeaves, EdgesEnd
  PROVE  ProcessInv'
<1>1. /\ phase = "edges" /\ phase' = "small" /\ i' = head + 1
      /\ UNCHANGED PassLeaves /\ UNCHANGED <<pl, ftype, lidar_type, head, last_state, stray,
                                             plane_to_end>>
  BY DEF EdgesEnd, PassLeaves, FeaturesLeaves
<1>2. TypesAre /\ IndexIs /\ StrayAccessesAreKnown /\ plsize' = plsize /\ plsize \in Nat
  BY <1>1 DEF ProcessInv, FeaturesAre, LineIs, plsize
<1>3. TypesAre'
  BY <1>1, <1>2 DEF TypesAre
<1>4. IndexIs'
  BY <1>1, <1>2 DEF IndexIs
<1>5. StrayAccessesAreKnown'
  BY <1>1, <1>2, StrayUnchanged
<1> QED
  BY <1>1, <1>3, <1>4, <1>5, PassKeeps

LEMMA SmallPlanesKeeps ==
  ASSUME ProcessInv, status = "lines", UNCHANGED FeaturesLeaves, SmallPlanes
  PROVE  ProcessInv'
<1>1. /\ phase = "small" /\ phase' = phase /\ i' = i + 1 /\ i < plsize - 1
      /\ UNCHANGED PassLeaves /\ UNCHANGED <<pl, lidar_type, head, last_state, plane_to_end>>
      /\ stray' = stray \cup ({i - 1, i + 1} \ DOMAIN pl)
  BY DEF SmallPlanes, PassLeaves, FeaturesLeaves
<1>2. /\ TypesAre /\ IndexIs /\ StrayAccessesAreKnown /\ plsize' = plsize /\ plsize \in Nat
      /\ DOMAIN pl = 0 .. plsize - 1
  BY <1>1 DEF ProcessInv, FeaturesAre, LineIs, plsize
<1>3. i \in 1 .. plsize - 2
  <2>1. i \in 1 .. plsize + 1
    BY <1>1, <1>2 DEF IndexIs
  <2> QED
    BY <1>1, <1>2, <2>1
<1>4. TypesAre'
  <2>1. CASE UNCHANGED ftype
    BY <1>1, <1>2, <2>1 DEF TypesAre
  <2>2. CASE /\ ~Blind(i) /\ ~Blind(i - 1) /\ ~Blind(i + 1)
             /\ ftype' = [k \in DOMAIN ftype |->
                            IF k \in {i - 1, i, i + 1} /\ ftype[k] = "Nor" THEN "Real_Plane"
                                                                          ELSE ftype[k]]
    <3>1. ftype' \in [DOMAIN pl -> Ftypes]
      BY <1>2, <2>2 DEF TypesAre, Ftypes
    <3>2. ASSUME NEW k \in DOMAIN pl, pl[k].blind PROVE ftype'[k] = "Nor"
      <4>1. k \notin {i - 1, i, i + 1}
        BY <2>2, <3>2 DEF Blind
      <4> QED
        BY <1>2, <2>2, <3>2, <4>1 DEF TypesAre
    <3> QED
      BY <1>1, <3>1, <3>2 DEF TypesAre
  <2> QED
    BY <2>1, <2>2 DEF SmallPlanes
<1>5. IndexIs'
  BY <1>1, <1>2, <1>3 DEF IndexIs
<1>6. StrayAccessesAreKnown'
  <2>1. i - 1 \in DOMAIN pl /\ i + 1 \in DOMAIN pl
    BY <1>2, <1>3
  <2>2. stray' \subseteq stray
    BY <1>1, <2>1
  <2> QED
    BY <1>1, <1>2, <2>2, StrayUnchanged
<1> QED
  BY <1>1, <1>4, <1>5, <1>6, PassKeeps

LEMMA SmallPlanesEndKeeps ==
  ASSUME ProcessInv, status = "lines", UNCHANGED FeaturesLeaves, SmallPlanesEnd
  PROVE  ProcessInv'
<1>1. /\ phase = "small" /\ phase' = "output" /\ i' = head
      /\ UNCHANGED PassLeaves /\ UNCHANGED <<pl, ftype, lidar_type, head, last_state, stray,
                                             plane_to_end>>
  BY DEF SmallPlanesEnd, PassLeaves, FeaturesLeaves
<1>2. TypesAre /\ IndexIs /\ StrayAccessesAreKnown /\ plsize' = plsize /\ plsize \in Nat
  BY <1>1 DEF ProcessInv, FeaturesAre, LineIs, plsize
<1>3. TypesAre'
  BY <1>1, <1>2 DEF TypesAre
<1>4. IndexIs'
  BY <1>1, <1>2 DEF IndexIs
<1>5. StrayAccessesAreKnown'
  BY <1>1, <1>2, StrayUnchanged
<1> QED
  BY <1>1, <1>3, <1>4, <1>5, PassKeeps

\* Points of the line in a row, none of them blind, are a run.
LEMMA RunIsRun ==
  ASSUME LineIs, NEW l, IsLine(pl, l), NEW a \in 0 .. plsize - 1, NEW b \in a .. plsize - 1,
         \A k \in a .. b : ~pl[k].blind
  PROVE  IsRun(Run(a, b)) /\ Head(Run(a, b)) = pl[a] /\ Last(Run(a, b)) = pl[b]
<1> DEFINE r == Run(a, b)  n == b - a + 1
<1>1. plsize \in Nat /\ DOMAIN pl = 0 .. plsize - 1 /\ n \in Nat \ {0}
  BY DEF LineIs
<1>2. r = [k \in 1 .. n |-> pl[a + k - 1]]
  BY DEF Run
<1> HIDE DEF r
<1>3. r = [k \in 1 .. n |-> r[k]]
  BY <1>2
<1>4. IsSeq(r) /\ Len(r) = n /\ DOMAIN r = 1 .. n
  <2> HIDE DEF n
  <2> QED
    BY <1>1, <1>3, FunctionIsSeq
<1>5. ASSUME NEW k \in 1 .. n PROVE IsPoint(r[k]) /\ ~r[k].blind
  <2>1. a + k - 1 \in a .. b /\ a + k - 1 \in DOMAIN pl
    BY <1>1
  <2> QED
    BY <1>2, <2>1 DEF IsLine
<1>6. IsRun(r)
  BY <1>1, <1>4, <1>5 DEF IsRun
<1>7. r[1] = pl[a] /\ r[n] = pl[b]
  <2>1. 1 \in 1 .. n /\ n \in 1 .. n /\ a + 1 - 1 = a /\ a + n - 1 = b
    BY <1>1
  <2> HIDE DEF n
  <2>2. r[1] = pl[a + 1 - 1] /\ r[n] = pl[a + n - 1]
    BY <1>2, <2>1
  <2> QED
    BY <2>1, <2>2
<1>8. Head(r) = r[1] /\ Last(r) = r[n]
  BY <1>1, <1>4 DEF IsSeq, Last
<1> QED
  BY <1>6, <1>7, <1>8 DEF r

\* What has been put out ends before Reached.
EndsAreReached ==
  \A n \in DOMAIN pl_surf :
    LET p == Last(pl_surf[n])
    IN  /\ LineNumber(p) < LinesDone
        /\ LineNumber(p) < LinesDone - 1 \/ \A k \in Reached .. plsize - 1 : p.index < pl[k].index

\* A run that begins at Reached or later follows what has been put out.
LEMMA RunFollows ==
  ASSUME ProcessInv, status = "lines", phase = "output",
         NEW a \in 0 .. plsize - 1, NEW b \in a .. plsize - 1, Reached <= a,
         \A k \in a .. b : ~pl[k].blind, NEW out, out = Append(pl_surf, Run(a, b))
  PROVE  /\ IsSeq(out) /\ \A n \in DOMAIN out : IsRun(out[n])
         /\ \A m, n \in DOMAIN out :
              m < n /\ LineNumber(Last(out[m])) = LineNumber(Head(out[n]))
                => Last(out[m]).index < Head(out[n]).index
         /\ \A n \in DOMAIN out :
              LET p == Last(out[n])
              IN  /\ LineNumber(p) < LinesDone
                  /\ \/ LineNumber(p) < LinesDone - 1
                     \/ \A k \in b + 1 .. plsize - 1 : p.index < pl[k].index
<1> DEFINE L == Len(pl_surf)  r == Run(a, b)
<1>1. /\ plsize \in Nat /\ DOMAIN pl = 0 .. plsize - 1 /\ LineIs /\ MsgIsScan
      /\ IsLine(pl, LinesDone) /\ IsSeq(pl_surf) /\ feature_enabled
  BY DEF ProcessInv, FeaturesAre, LineIs, LinesAre, OutputIs, SurfIs, StagesAre
<1>2. Reached \in Int
  BY <1>1 DEF ProcessInv, FeaturesAre, IndexIs, RunIs, Reached
<1>3. LinesDone \in Int
  <2>1. Len(pl_buff) \in Nat
    BY SeqIs DEF ProcessInv, LinesAre, IsSeq
  <2> QED
    BY <2>1, PreprocessAssumption DEF LinesDone
<1>4. IsRun(r) /\ Head(r) = pl[a] /\ Last(r) = pl[b]
  BY <1>1, RunIsRun
<1> HIDE DEF r
<1>5. /\ IsSeq(out) /\ L \in Nat /\ DOMAIN pl_surf = 1 .. L /\ DOMAIN out = 1 .. L + 1
      /\ \A n \in 1 .. L : out[n] = pl_surf[n]
      /\ out[L + 1] = r
  BY <1>1, AppendIs DEF r
<1> HIDE DEF L
<1>6. \A n \in 1 .. L + 1 : n \in 1 .. L \/ n = L + 1
  BY <1>5
<1>7. \A n \in 1 .. L : IsRun(pl_surf[n])
  BY <1>5 DEF ProcessInv, OutputIs, SurfIs
<1>8. \A n \in 1 .. L + 1 : IsRun(out[n])
  BY <1>4, <1>5, <1>6, <1>7
<1>9. ASSUME NEW n \in 1 .. L
      PROVE  LET p == Last(pl_surf[n])
             IN  /\ LineNumber(p) < LinesDone
                 /\ \/ LineNumber(p) < LinesDone - 1
                    \/ \A k \in Reached .. plsize - 1 : p.index < pl[k].index
  BY <1>5 DEF ProcessInv, LinesAre
<1>10. \A k \in DOMAIN pl : LineNumber(pl[k]) = LinesDone - 1
  BY <1>1 DEF IsLine
<1>11. ASSUME NEW m \in 1 .. L + 1, NEW n \in 1 .. L + 1, m < n,
              LineNumber(Last(out[m])) = LineNumber(Head(out[n]))
       PROVE  Last(out[m]).index < Head(out[n]).index
  <2>1. m \in 1 .. L
    BY <1>5, <1>11
  <2>2. CASE n \in 1 .. L
    BY <1>1, <1>5, <1>11, <2>1, <2>2 DEF ProcessInv, OutputIs, SurfIs
  <2>3. CASE n = L + 1
    <3>1. out[m] = pl_surf[m] /\ Head(out[n]) = pl[a] /\ a \in DOMAIN pl
      BY <1>1, <1>4, <1>5, <2>1, <2>3
    <3>2. LineNumber(Last(pl_surf[m])) = LinesDone - 1
      BY <1>10, <1>11, <3>1
    <3>3. \A k \in Reached .. plsize - 1 : Last(pl_surf[m]).index < pl[k].index
      BY <1>3, <1>9, <2>1, <3>2
    <3>4. a \in Reached .. plsize - 1
      BY <1>1, <1>2
    <3> QED
      BY <3>1, <3>3, <3>4
  <2> QED
    BY <1>6, <2>2, <2>3
<1>12. ASSUME NEW n \in 1 .. L + 1
       PROVE  LET p == Last(out[n])
              IN  /\ LineNumber(p) < LinesDone
                  /\ \/ LineNumber(p) < LinesDone - 1
                     \/ \A k \in b + 1 .. plsize - 1 : p.index < pl[k].index
  <2>1. CASE n \in 1 .. L
    <3>1. \A k \in b + 1 .. plsize - 1 : k \in Reached .. plsize - 1
      BY <1>1, <1>2
    <3> QED
      BY <1>5, <1>9, <2>1, <3>1
  <2>2. CASE n = L + 1
    <3>1. Last(out[n]) = pl[b] /\ b \in DOMAIN pl
      BY <1>1, <1>4, <1>5, <2>2
    <3>2. LineNumber(pl[b]) = LinesDone - 1
      BY <1>10, <3>1
    <3>3. \A k \in b + 1 .. plsize - 1 : k \in DOMAIN pl /\ b < k
      BY <1>1
    <3>4. \A k \in b + 1 .. plsize - 1 : pl[b].index < pl[k].index
      BY <1>1, <3>1, <3>3 DEF IsLine
    <3> QED
      BY <1>3, <3>1, <3>2, <3>4
  <2> QED
    BY <1>6, <2>1, <2>2
<1> QED
  BY <1>5, <1>8, <1>11, <1>12

LEMMA OutputKeeps ==
  ASSUME ProcessInv, status = "lines", UNCHANGED FeaturesLeaves, Output
  PROVE  ProcessInv'
<1>1. /\ phase = "output" /\ phase' = phase /\ i < plsize /\ i' = i + 1
      /\ UNCHANGED <<lidar_type, feature_enabled, point_filter_num, status, msg, pl_buff, pl,
                     ftype, head, last_state, stray, plane_to_end>>
  BY DEF Output, FeaturesLeaves
<1>2. /\ ConfigIs /\ MsgIsScan /\ StagesAre /\ LineIs /\ TypesAre /\ IndexIs /\ RunIs
      /\ StrayAccessesAreKnown /\ SurfIs /\ CornIs /\ LinesAre
  BY DEF ProcessInv, FeaturesAre, OutputIs
<1>3. plsize \in Nat /\ DOMAIN pl = 0 .. plsize - 1 /\ plsize' = plsize
  BY <1>1, <1>2 DEF LineIs, plsize
<1>4. i \in 0 .. plsize - 1
  <2>1. i \in 0 .. plsize
    BY <1>1, <1>2 DEF IndexIs
  <2> QED
    BY <1>1, <1>3, <2>1
<1>5. /\ last_surface \in -1 .. plsize - 1
      /\ last_surface # -1 => last_surface < i /\ \A k \in last_surface .. i - 1 : ~pl[k].blind
  BY <1>1, <1>2 DEF RunIs
<1>6. ConfigIs' /\ MsgIsScan' /\ StagesAre'
  BY <1>1, <1>2 DEF ConfigIs, MsgIsScan, StagesAre
<1>7. LineIs' /\ TypesAre' /\ IndexIs' /\ StrayAccessesAreKnown'
  <2>1. LineIs' /\ TypesAre'
    BY <1>1, <1>2, <1>3 DEF LineIs, TypesAre
  <2>2. IndexIs'
    BY <1>1, <1>2, <1>3, <1>4 DEF IndexIs
  <2>3. StrayAccessesAreKnown'
    BY <1>1, <1>2, StrayUnchanged
  <2> QED
    BY <2>1, <2>2, <2>3
<1>8. LinesDone' = LinesDone
  BY <1>1 DEF LinesDone
<1>9. ASSUME EndsAreReached' PROVE LinesAre'
  <2>1. (\A j \in DOMAIN pl_buff : IsLine(pl_buff[j], LinesDone + j))'
    BY <1>1, <1>2, <1>8, RunsUnchanged DEF LinesAre
  <2>2. IsLine(pl, LinesDone)'
    BY <1>1, <1>2, <1>8, RunsUnchanged DEF LinesAre
  <2> QED
    BY <1>1, <1>2, <1>8, <1>9, <2>1, <2>2 DEF LinesAre, EndsAreReached
<1>10. SUFFICES RunIs' /\ SurfIs' /\ CornIs' /\ EndsAreReached'
  BY <1>6, <1>7, <1>9 DEF ProcessInv, FeaturesAre, OutputIs
<1>11. EndsAreReached
  BY <1>1, <1>2 DEF LinesAre, EndsAreReached
<1>12. \A p : LineNumber(p)' = LineNumber(p)
  BY <1>1, PointUnchanged
<1>13. Reached \in 0 .. plsize - 1 /\ Reached <= i
  BY <1>3, <1>4, <1>5 DEF Reached
<1>14. ASSUME NEW b \in Reached .. i, b + 1 <= Reached', Reached' \in Int,
              \A k \in Reached .. b : ~pl[k].blind \/ k \notin DOMAIN pl,
              NEW a \in Reached .. b, pl_surf' = Append(pl_surf, Run(a, b))
       PROVE  SurfIs' /\ EndsAreReached'
  <2>1. a \in 0 .. plsize - 1 /\ b \in a .. plsize - 1 /\ \A k \in a .. b : ~pl[k].blind
    <3>1. a \in 0 .. plsize - 1 /\ b \in a .. plsize - 1
      BY <1>3, <1>4, <1>13
    <3>2. \A k \in a .. b : k \in Reached .. b /\ k \in DOMAIN pl
      BY <1>3, <1>13, <3>1
    <3> QED
      BY <1>14, <3>1, <3>2
  <2> DEFINE out == pl_surf'
  <2>2. Reached <= a
    BY <1>13
  <2>3. /\ IsSeq(out) /\ \A n \in DOMAIN out : IsRun(out[n])
        /\ \A m, n \in DOMAIN out :
             m < n /\ LineNumber(Last(out[m])) = LineNumber(Head(out[n]))
               => Last(out[m]).index < Head(out[n]).index
        /\ \A n \in DOMAIN out :
             LET p == Last(out[n])
             IN  /\ LineNumber(p) < LinesDone
                 /\ \/ LineNumber(p) < LinesDone - 1
                    \/ \A k \in b + 1 .. plsize - 1 : p.index < pl[k].index
    BY <1>1, <1>14, <2>1, <2>2, RunFollows
  <2>4. feature_enabled'
    BY <1>1, <1>2 DEF StagesAre
  <2>5. (\A n \in DOMAIN pl_surf : IsRun(pl_surf[n]))'
    BY <1>1, <2>3, RunsUnchanged
  <2>6. SurfIs'
    BY <1>12, <2>3, <2>4, <2>5 DEF SurfIs
  <2>7. \A k \in Reached' .. plsize - 1 : k \in b + 1 .. plsize - 1
    BY <1>3, <1>13, <1>14
  <2>8. EndsAreReached'
    BY <1>1, <1>3, <1>8, <1>12, <2>3, <2>7 DEF EndsAreReached
  <2> QED
    BY <2>6, <2>8
<1>15. ASSUME UNCHANGED pl_surf, Reached' \in Int, Reached <= Reached'
       PROVE  SurfIs' /\ EndsAreReached'
  <2>1. SurfIs'
    BY <1>1, <1>2, <1>15, SurfUnchanged
  <2>2. \A k \in Reached' .. plsize - 1 : k \in Reached .. plsize - 1
    BY <1>3, <1>13, <1>15
  <2>3. EndsAreReached'
    BY <1>1, <1>3, <1>8, <1>11, <1>12, <1>15, <2>2 DEF EndsAreReached
  <2> QED
    BY <2>1, <2>3
<1>16. ASSUME last_surface' = -1 PROVE RunIs' /\ Reached' = i + 1
  BY <1>1, <1>3, <1>16 DEF RunIs, Reached
<1>17. CASE ftype[i] \in Plane
  <2>1. UNCHANGED pl_corn
    BY <1>17 DEF Output
  <2>2. CornIs'
    BY <1>2, <2>1 DEF CornIs
  <2>3. ~pl[i].blind
    BY <1>2, <1>3, <1>4, <1>17 DEF TypesAre, Plane
  <2>4. \/ FullRun(Reached)
        \/ last_surface' = Reached /\ UNCHANGED pl_surf
    BY <1>17 DEF Output, Reached
  <2>5. \A k \in Reached .. i : ~pl[k].blind
    <3>1. CASE last_surface = -1
      BY <1>4, <2>3, <3>1 DEF Reached
    <3>2. CASE last_surface # -1
      <4>1. \A k \in last_surface .. i : k = i \/ k \in last_surface .. i - 1
        BY <1>4, <1>5
      <4> QED
        BY <1>5, <2>3, <3>2, <4>1 DEF Reached
    <3> QED
      BY <3>1, <3>2
  <2>6. CASE FullRun(Reached)
    <3>1. pl_surf' = Append(pl_surf, Run(i, i)) /\ last_surface' = -1
      BY <2>6 DEF FullRun
    <3>2. RunIs' /\ Reached' = i + 1
      BY <1>16, <3>1
    <3>3. i \in Reached .. i /\ i + 1 \in Int /\ i + 1 <= i + 1
      BY <1>4, <1>13
    <3>4. SurfIs' /\ EndsAreReached'
      BY <1>14, <2>5, <3>1, <3>2, <3>3
    <3> QED
      BY <2>2, <3>2, <3>4
  <2>7. CASE last_surface' = Reached /\ UNCHANGED pl_surf
    <3>1. Reached' = Reached /\ Reached # -1
      BY <1>13, <2>7 DEF Reached
    <3>2. SurfIs' /\ EndsAreReached'
      BY <1>13, <1>15, <2>7, <3>1
    <3>3. i' - 1 = i
      BY <1>1, <1>4
    <3>4. RunIs'
      BY <1>1, <1>3, <1>4, <1>13, <2>5, <2>7, <3>1, <3>3 DEF RunIs
    <3> QED
      BY <2>2, <3>2, <3>4
  <2> QED
    BY <2>4, <2>6, <2>7
<1>18. CASE ftype[i] \notin Plane
  <2>1. /\ pl_corn' = IF ftype[i] \in {"Edge_Jump", "Edge_Plane"}
                        THEN Append(pl_corn, pl[i]) ELSE pl_corn
        /\ pl_surf' = IF last_surface = -1 THEN pl_surf
                      ELSE Append(pl_surf, Run(last_surface, i - 1))
        /\ last_surface' = -1
    BY <1>18 DEF Output
  <2>2. RunIs' /\ Reached' = i + 1
    BY <1>16, <2>1
  <2>3. CornIs'
    <3>1. CASE ftype[i] \in {"Edge_Jump", "Edge_Plane"}
      <4>1. ~pl[i].blind
        BY <1>2, <1>3, <1>4, <3>1 DEF TypesAre
      <4>2. pl_corn' = Append(pl_corn, pl[i])
        BY <2>1, <3>1
      <4>3. /\ IsSeq(pl_corn') /\ Len(pl_corn) \in Nat /\ DOMAIN pl_corn = 1 .. Len(pl_corn)
            /\ DOMAIN pl_corn' = 1 .. Len(pl_corn) + 1
            /\ \A n \in 1 .. Len(pl_corn) : pl_corn'[n] = pl_corn[n]
            /\ pl_corn'[Len(pl_corn) + 1] = pl[i]
        BY <1>2, <4>2, AppendIs DEF CornIs
      <4>4. \A n \in 1 .. Len(pl_corn) + 1 : n \in 1 .. Len(pl_corn) \/ n = Len(pl_corn) + 1
        BY <4>3
      <4> QED
        BY <1>2, <4>1, <4>3, <4>4 DEF CornIs
    <3>2. CASE ftype[i] \notin {"Edge_Jump", "Edge_Plane"}
      BY <1>2, <2>1, <3>2 DEF CornIs
    <3> QED
      BY <3>1, <3>2
  <2>4. SurfIs' /\ EndsAreReached'
    <3>1. CASE last_surface = -1
      <4>1. UNCHANGED pl_surf /\ Reached' \in Int /\ Reached <= Reached'
        BY <1>4, <2>1, <2>2, <3>1 DEF Reached
      <4> QED
        BY <1>15, <4>1
    <3>2. CASE last_surface # -1
      <4>1. Reached = last_surface /\ pl_surf' = Append(pl_surf, Run(Reached, i - 1))
        BY <2>1, <3>2 DEF Reached
      <4>2. /\ i - 1 \in Reached .. i /\ Reached \in Reached .. i - 1
            /\ i - 1 + 1 <= Reached' /\ Reached' \in Int
        BY <1>4, <1>5, <1>13, <2>2, <3>2, <4>1
      <4>3. \A k \in Reached .. i - 1 : ~pl[k].blind
        BY <1>5, <3>2, <4>1
      <4> QED
        BY <1>14, <4>1, <4>2, <4>3
    <3> QED
      BY <3>1, <3>2
  <2> QED
    BY <2>2, <2>3, <2>4
<1> QED
  BY <1>17, <1>18

LEMMA OutputEndKeeps ==
  ASSUME ProcessInv, status = "lines", UNCHANGED FeaturesLeaves, OutputEnd
  PROVE  ProcessInv'
<1>1. /\ phase = "output" /\ phase' = "none"
      /\ UNCHANGED <<lidar_type, feature_enabled, point_filter_num, status, msg, pl_buff, pl,
                     ftype, head, i, last_state, last_surface, stray, plane_to_end, pl_surf,
                     pl_corn>>
  BY DEF OutputEnd, FeaturesLeaves
<1>2. /\ ConfigIs /\ MsgIsScan /\ StagesAre /\ LineIs /\ TypesAre /\ IndexIs /\ RunIs
      /\ StrayAccessesAreKnown /\ OutputIs /\ LinesAre
  BY DEF ProcessInv, FeaturesAre
<1>3. ConfigIs' /\ MsgIsScan' /\ StagesAre' /\ plsize' = plsize
  BY <1>1, <1>2 DEF ConfigIs, MsgIsScan, StagesAre, plsize
<1>4. LineIs' /\ TypesAre' /\ IndexIs' /\ RunIs'
  BY <1>1, <1>2, <1>3 DEF LineIs, TypesAre, IndexIs, RunIs
<1>5. StrayAccessesAreKnown'
  BY <1>1, <1>2, StrayUnchanged
<1>6. OutputIs'
  BY <1>1, <1>2, OutputUnchanged
<1>7. LinesAre'
  <2>1. LinesDone' = LinesDone
    BY <1>1 DEF LinesDone
  <2>2. (\A j \in DOMAIN pl_buff : IsLine(pl_buff[j], LinesDone + j))'
    BY <1>1, <1>2, <2>1, RunsUnchanged DEF LinesAre
  <2>3. \A n \in DOMAIN pl_surf : LineNumber(Last(pl_surf[n]))' < LinesDone
    BY <1>1, <1>2 DEF LinesAre, LineNumber, At
  <2> QED
    BY <1>1, <1>2, <2>1, <2>2, <2>3 DEF LinesAre
<1> QED
  BY <1>3, <1>4, <1>5, <1>6, <1>7 DEF ProcessInv, FeaturesAre

LEMMA ProcessUnchanged ==
  ASSUME ProcessInv, UNCHANGED processVars
  PROVE  ProcessInv'
<1> USE DEF ProcessInv, processVars, config, featureVars, lineVars
<1>1. ConfigIs' /\ MsgIsScan' /\ StagesAre'
  BY DEF ConfigIs, MsgIsScan, StagesAre
<1>2. FeaturesAre' /\ OutputIs'
  BY FeaturesUnchanged, OutputUnchanged
<1>3. LinesAre'
  <2>1. LinesDone' = LinesDone /\ plsize' = plsize /\ Reached' = Reached
    BY DEF LinesDone, plsize, Reached
  <2>2. \A line, l : IsLine(line, l)' <=> IsLine(line, l)
    BY RunsUnchanged
  <2>3. \A p : LineNumber(p)' = LineNumber(p)
    BY PointUnchanged
  <2> QED
    BY <2>1, <2>2, <2>3 DEF LinesAre
<1> QED
  BY <1>1, <1>2, <1>3

LEMMA ProcessKeeps ==
  ASSUME ProcessInv, [ProcessNext]_processVars
  PROVE  ProcessInv'
<1>1. CASE Receive
  BY <1>1, ReceiveKeeps
<1>2. CASE ProcessPoints
  BY <1>2, ProcessPointsKeeps
<1>3. CASE ProcessLines
  BY <1>3, ProcessLinesKeeps
<1>4. CASE NextLine
  BY <1>4, NextLineKeeps
<1>5. CASE Features
  <2>1. status = "lines" /\ GiveFeature /\ UNCHANGED FeaturesLeaves
    BY <1>5 DEF Features, FeaturesLeaves
  <2>2. CASE Planes
    BY <2>1, <2>2, PlanesKeeps
  <2>3. CASE PlanesEnd
    BY <2>1, <2>3, PlanesEndKeeps
  <2>4. CASE Edges
    BY <2>1, <2>4, EdgesKeeps
  <2>5. CASE EdgesEnd
    BY <2>1, <2>5, EdgesEndKeeps
  <2>6. CASE SmallPlanes
    BY <2>1, <2>6, SmallPlanesKeeps
  <2>7. CASE SmallPlanesEnd
    BY <2>1, <2>7, SmallPlanesEndKeeps
  <2>8. CASE Output
    BY <2>1, <2>8, OutputKeeps
  <2>9. CASE OutputEnd
    BY <2>1, <2>9, OutputEndKeeps
  <2> QED
    BY <2>1, <2>2, <2>3, <2>4, <2>5, <2>6, <2>7, <2>8, <2>9 DEF GiveFeature
<1>6. CASE LinesEnd
  BY <1>6, LinesEndKeeps
<1>7. CASE Clear
  BY <1>7, ClearKeeps
<1>8. CASE UNCHANGED processVars
  BY <1>8, ProcessUnchanged
<1> QED
  BY <1>1, <1>2, <1>3, <1>4, <1>5, <1>6, <1>7, <1>8 DEF ProcessNext

\* The invariant holds in every state.
THEOREM ProcessInvAlways == ProcessSpec => []ProcessInv
<1>1. ProcessInit => ProcessInv
  BY ProcessInitially
<1>2. ProcessInv /\ [ProcessNext]_processVars => ProcessInv'
  BY ProcessKeeps
<1> QED
  BY <1>1, <1>2, PTL DEF ProcessSpec

\* Whatever the lidar, the scan, the size of a group and the number of lines: the variables
\* have their types, no blind point is put out, alone or in a mean, and the output follows
\* the scan, each line for itself where lines are classified.
THEOREM OutputIsOfScanAlways == ProcessSpec => []OutputIsOfScan
<1>1. ASSUME ProcessInv PROVE ProcessTypeOK
  <2>1. /\ ConfigIs /\ MsgIsScan /\ StagesAre /\ LineIs /\ TypesAre /\ IndexIs /\ RunIs
    BY <1>1 DEF ProcessInv, FeaturesAre
  <2>2. i \in 0 .. plsize + 3
    <3>1. plsize \in Nat
      BY <2>1 DEF LineIs
    <3> QED
      BY <2>1, <3>1 DEF IndexIs
  <2> QED
    BY <2>1, <2>2 DEF ProcessTypeOK, ConfigIs, MsgIsScan, StagesAre, TypesAre, IndexIs, RunIs
<1>2. ASSUME ProcessInv PROVE NoBlindPointIsUsed
  BY <1>2 DEF ProcessInv, OutputIs, SurfIs, CornIs, IsRun, NoBlindPointIsUsed
<1>3. ASSUME ProcessInv PROVE OutputFollowsScan
  <2> SUFFICES ASSUME NEW m \in DOMAIN pl_surf, NEW n \in DOMAIN pl_surf, m < n,
                      feature_enabled => LineNumber(Last(pl_surf[m]))
                                           = LineNumber(Head(pl_surf[n]))
               PROVE  LET a == Last(pl_surf[m])
                          b == Head(pl_surf[n])
                      IN  a.index < b.index /\ (msg.timed => a.curvature <= b.curvature)
    BY DEF OutputFollowsScan, LineNumber
  <2>1. Last(pl_surf[m]).index < Head(pl_surf[n]).index
    BY <1>3 DEF ProcessInv, OutputIs, SurfIs
  <2>2. /\ IsPoint(Last(pl_surf[m])) /\ Last(pl_surf[m]).index \in Nat
        /\ IsPoint(Head(pl_surf[n])) /\ Head(pl_surf[n]).index \in Nat
    BY <1>3, RunIsOfPoints DEF ProcessInv, OutputIs, SurfIs
  <2> QED
    BY <2>1, <2>2 DEF IsPoint
<1>4. ProcessInv => OutputIsOfScan
  BY <1>1, <1>2, <1>3 DEF OutputIsOfScan
<1> QED
  BY <1>4, ProcessInvAlways, PTL

\* However the lines are classified, give_feature leaves its line only in the three known
\* cases.
THEOREM StrayAccessesAreKnownAlways == ProcessSpec => []StrayAccessesAreKnown
<1>1. ProcessInv => StrayAccessesAreKnown
  BY DEF ProcessInv, FeaturesAre
<1> QED
  BY <1>1, ProcessInvAlways, PTL

\* Where the lidar turns clockwise and not too fast, the times from the yaw are those at
\* which the points were fired, whatever the parts of a turn.
THEOREM TimesFromYawAreExactAlways == ProcessSpec => []TimesFromYawAreExact
<1>1. ASSUME ProcessInv, lidar_type \in {"VELO16", "MID360"}, ~given_offset_time, Rotating,
             NEW n \in DOMAIN pl_surf, NEW k \in DOMAIN pl_surf[n]
      PROVE  pl_surf[n][k].curvature
               = At(pl_surf[n][k].index).turned - At(Min(Before(pl_surf[n][k].index))).turned
  <2>1. IsPoint(pl_surf[n][k])
    BY <1>1 DEF ProcessInv, OutputIs, SurfIs, IsRun
  <2> QED
    BY <1>1, <2>1 DEF IsPoint, SinceFirst
<1>2. ProcessInv => TimesFromYawAreExact
  BY <1>1 DEF TimesFromYawAreExact
<1> QED
  BY <1>2, ProcessInvAlways, PTL
==============================================================================
