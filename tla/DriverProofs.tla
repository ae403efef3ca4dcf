----------------------------- MODULE DriverProofs -----------------------------
(***************************************************************************)
(* The start of the driver: devices are right for any lidars,              *)
(* configuration and number of indices, and no lidar is published before   *)
(* it is configured.                                                       *)
(***************************************************************************)
EXTENDS DriverStart, LivoxConfig, TLAPS

\* Points and samples are taken only when all extrinsics have been filled in: callbacks
\* and thread come after the loop over the configuration.
ThreadAfterDevices ==
  /\ point_thread => mpc \in {"started", "poll", "running"}
  /\ ~point_thread => transformed = {}
  /\ imu_callback => mpc \in {"thread", "started", "poll", "running"}
  /\ ~point_thread /\ ~imu_callback => refused = {}
  /\ info_callback => mpc \notin {"construct", "summary", "parse", "sdk", "fill"}
  /\ adding # {} => info_callback

\* A lidar with extrinsics has an index, so that only an insertion can hide it.
DevicesAreKnown ==
  /\ \A h \in lidar_extrinsics : Known(h)
  /\ adding \cap lidar_extrinsics = {}

SInv == TypeOK /\ IndicesAreDistinct /\ ExtrinsicsPrecedePoints /\ ThreadAfterDevices
          /\ DevicesAreKnown /\ RefusedOnlyForStrangers

\* GetFreeIndex leaves the indices of lidars different, and marked.
LEMMA FreeIndexIsFree ==
  ASSUME TypeOK, IndicesAreDistinct, NEW h \in Handles, GetFreeIndex(h)
  PROVE  /\ map_index' \in [Handles -> Indices \cup {NoIndex}]
         /\ index_cache' \in SUBSET Indices
         /\ IndicesAreDistinct'
         /\ \A g \in Handles : Known(g) => Known(g)'
<1>1. CASE UNCHANGED indexVars
  BY <1>1 DEF indexVars, TypeOK, IndicesAreDistinct, Known
<1>2. ASSUME ~Known(h), NEW i \in Indices, IsFirstFree(i),
             map_index' = [map_index EXCEPT ![h] = i], index_cache' = index_cache \cup {i}
      PROVE  /\ map_index' \in [Handles -> Indices \cup {NoIndex}]
             /\ index_cache' \in SUBSET Indices
             /\ IndicesAreDistinct'
             /\ \A g \in Handles : Known(g) => Known(g)'
  <2>1. /\ map_index' \in [Handles -> Indices \cup {NoIndex}]
        /\ index_cache' \in SUBSET Indices
    BY <1>2 DEF TypeOK
  <2>2. i # NoIndex /\ i \notin index_cache
    BY <1>2, DriverStartAssumption DEF IsFirstFree, Indices, NoIndex
  <2>3. \A g \in Handles : map_index'[g] = IF g = h THEN i ELSE map_index[g]
    BY <1>2 DEF TypeOK
  <2>4. \A g \in Handles : Known(g)' <=> Known(g) \/ g = h
    BY <2>2, <2>3, <1>2 DEF Known
  <2>5. \A g \in Handles : Known(g) => map_index[g] \in index_cache
    BY DEF IndicesAreDistinct
  <2>6. \A g, k \in Handles : (Known(g)' /\ map_index'[g] = map_index'[k]) => g = k
    BY <2>2, <2>3, <2>4, <2>5, <1>2 DEF IndicesAreDistinct, Known
  <2>7. index_cache' = {map_index'[g] : g \in {k \in Handles : Known(k)'}}
    BY <2>3, <2>4, <1>2 DEF IndicesAreDistinct
  <2> QED
    BY <2>1, <2>4, <2>6, <2>7 DEF IndicesAreDistinct
<1> QED
  BY <1>1, <1>2 DEF GetFreeIndex

LEMMA SInvInit == Init => SInv
<1> SUFFICES ASSUME Init PROVE SInv
  OBVIOUS
<1>1. <<>> \in Seq(Handles)
  OBVIOUS
<1>2. TypeOK
  BY <1>1 DEF Init, TypeOK
<1>3. \A h \in Handles : ~Known(h)
  BY DEF Init, Known
<1>4. IndicesAreDistinct
  <2>1. {map_index[h] : h \in {g \in Handles : Known(g)}} = {}
    BY <1>3
  <2> QED
    BY <1>3, <2>1 DEF Init, IndicesAreDistinct
<1>5. ExtrinsicsPrecedePoints /\ ThreadAfterDevices
  BY DEF Init, ExtrinsicsPrecedePoints, ThreadAfterDevices
<1>6. DevicesAreKnown /\ RefusedOnlyForStrangers
  BY DEF Init, DevicesAreKnown, RefusedOnlyForStrangers
<1> QED
  BY <1>2, <1>4, <1>5, <1>6 DEF SInv

\* A step that keeps the indices, devices and points keeps what is said of them.
LEMMA SInvKeeps ==
  ASSUME SInv, TypeOK', UNCHANGED <<map_index, index_cache, lidar_extrinsics, transformed>>,
         ThreadAfterDevices', UNCHANGED <<adding, refused>>
  PROVE  SInv'
BY DEF SInv, IndicesAreDistinct, ExtrinsicsPrecedePoints, DevicesAreKnown,
       RefusedOnlyForStrangers, Known

LEMMA ConstructStep == ASSUME SInv, Construct PROVE SInv'
<1> USE DEF Main, MainKeeps, initVars, indexVars, pubVars
<1>1. CASE FillDevice
  <2>1. Head(configs) \in Handles /\ configs' \in Seq(Handles)
    BY <1>1 DEF FillDevice, SInv, TypeOK
  <2>2. /\ map_index' \in [Handles -> Indices \cup {NoIndex}]
        /\ index_cache' \in SUBSET Indices
        /\ IndicesAreDistinct'
        /\ \A g \in Handles : Known(g) => Known(g)'
    BY <1>1, <2>1, FreeIndexIsFree DEF FillDevice, SInv
  <2>3. TypeOK'
    BY <1>1, <2>1, <2>2 DEF FillDevice, SInv, TypeOK
  <2>4. ~point_thread /\ ~imu_callback /\ transformed' = {} /\ refused' = {} /\ adding' = {}
    BY <1>1 DEF FillDevice, SInv, ThreadAfterDevices
  <2>5. DevicesAreKnown'
    BY <1>1, <2>1, <2>2, <2>4 DEF FillDevice, SInv, TypeOK, DevicesAreKnown, Known
  <2>6. ThreadAfterDevices'
    BY <1>1, <2>4 DEF FillDevice, SInv, ThreadAfterDevices
  <2> QED
    BY <2>2, <2>3, <2>4, <2>5, <2>6 DEF SInv, ExtrinsicsPrecedePoints, RefusedOnlyForStrangers
<1>2. CASE ParseUserConfigs
  <2>1. TypeOK'
    <3>1. Config \in Seq(Handles) /\ <<>> \in Seq(Handles)
      BY DriverStartAssumption
    <3>2. configs' \in Seq(Handles)
      BY <1>2, <3>1 DEF ParseUserConfigs
    <3> QED
      BY <1>2, <3>2 DEF ParseUserConfigs, SInv, TypeOK
  <2>2. ThreadAfterDevices'
    BY <1>2 DEF ParseUserConfigs, SInv, ThreadAfterDevices
  <2> QED
    BY <1>2, <2>1, <2>2, SInvKeeps DEF ParseUserConfigs
<1>3. CASE RegisterLds \/ ParseSummaryConfig \/ SdkInit \/ SetInfoChangeCallback
  <2>1. TypeOK'
    BY <1>3 DEF RegisterLds, ParseSummaryConfig, SdkInit, SetInfoChangeCallback, SInv,
       TypeOK
  <2>2. ThreadAfterDevices'
    BY <1>3 DEF RegisterLds, ParseSummaryConfig, SdkInit, SetInfoChangeCallback, SInv,
                ThreadAfterDevices
  <2> QED
    BY <1>3, <2>1, <2>2, SInvKeeps
       DEF RegisterLds, ParseSummaryConfig, SdkInit, SetInfoChangeCallback
<1>4. CASE \/ SetPointCloudsCallback \/ SetImuDataCallback \/ SetPointCloudConfig
           \/ InitLdsLidarReturns \/ StartPollThreads
  <2>1. TypeOK'
    BY <1>4 DEF SetPointCloudsCallback, SetImuDataCallback, SetPointCloudConfig,
                InitLdsLidarReturns, StartPollThreads, SInv, TypeOK
  <2>2. ThreadAfterDevices'
    BY <1>4 DEF SetPointCloudsCallback, SetImuDataCallback, SetPointCloudConfig,
                InitLdsLidarReturns, StartPollThreads, SInv, ThreadAfterDevices
  <2> QED
    BY <1>4, <2>1, <2>2, SInvKeeps
       DEF SetPointCloudsCallback, SetImuDataCallback, SetPointCloudConfig,
           InitLdsLidarReturns, StartPollThreads
<1> QED
  BY <1>1, <1>2, <1>3, <1>4 DEF Construct

LEMMA ReportStep ==
  ASSUME SInv, AddLidarDevice \/ \E h \in Handles : LidarInfoChange(h)
  PROVE  SInv'
<1> USE DEF ReportKeeps, initVars, indexVars, pubVars
<1>1. ASSUME NEW h \in Handles, LidarInfoChange(h) PROVE SInv'
  <2>1. TypeOK'
    BY <1>1 DEF LidarInfoChange, SInv, TypeOK
  <2>2. IndicesAreDistinct' /\ ExtrinsicsPrecedePoints' /\ ThreadAfterDevices'
    BY <1>1 DEF LidarInfoChange, SInv, IndicesAreDistinct, Known, ExtrinsicsPrecedePoints,
                ThreadAfterDevices
  <2>3. DevicesAreKnown' /\ RefusedOnlyForStrangers'
    BY <1>1 DEF LidarInfoChange, SInv, Known, DevicesAreKnown, RefusedOnlyForStrangers
  <2> QED
    BY <2>1, <2>2, <2>3 DEF SInv
<1>2. CASE AddLidarDevice
  <2>1. PICK h \in Handles : GetFreeIndex(h)
    BY <1>2 DEF AddLidarDevice, SInv, TypeOK
  <2>2. /\ map_index' \in [Handles -> Indices \cup {NoIndex}]
        /\ index_cache' \in SUBSET Indices
        /\ IndicesAreDistinct'
        /\ \A g \in Handles : Known(g) => Known(g)'
    BY <2>1, FreeIndexIsFree DEF SInv
  <2>3. TypeOK'
    BY <1>2, <2>2 DEF AddLidarDevice, SInv, TypeOK
  <2>4. DevicesAreKnown'
    BY <1>2, <2>2 DEF AddLidarDevice, SInv, TypeOK, DevicesAreKnown
  <2> QED
    BY <1>2, <2>2, <2>3, <2>4
       DEF AddLidarDevice, SInv, ThreadAfterDevices, ExtrinsicsPrecedePoints,
           RefusedOnlyForStrangers
<1> QED
  BY <1>1, <1>2

\* A lidar that has extrinsics is refused only while another one is added.
LEMMA StoredKeepsRefusals ==
  ASSUME SInv, NEW h \in Handles, NEW found \in GetIndexFinds(h), Stored(h, found),
         UNCHANGED <<adding, lidar_extrinsics>>
  PROVE  refused' \in SUBSET (Handles \X SUBSET Handles) /\ RefusedOnlyForStrangers'
<1>1. refused' \in SUBSET (Handles \X SUBSET Handles)
  BY DEF Stored, SInv, TypeOK
<1>2. ASSUME h \in lidar_extrinsics, ~found
      PROVE  adding # {} /\ adding \cap lidar_extrinsics = {}
  <2>1. adding # {}
    BY <1>2 DEF GetIndexFinds, SInv, DevicesAreKnown, Inserting, Known
  <2> QED
    BY <2>1 DEF SInv, DevicesAreKnown
<1> QED
  BY <1>1, <1>2 DEF Stored, SInv, RefusedOnlyForStrangers

LEMMA DataStep ==
  ASSUME SInv, ProcessPacket \/ \E h \in Handles : PointPacket(h) \/ ImuPacket(h)
  PROVE  SInv'
<1> USE DEF DataKeeps, initVars, indexVars
<1>1. ASSUME NEW h \in Handles, PointPacket(h) PROVE SInv'
  BY <1>1, SInvKeeps DEF PointPacket, SInv, TypeOK, ThreadAfterDevices
<1>2. ASSUME NEW h \in Handles, ImuPacket(h) PROVE SInv'
  <2>1. refused' \in SUBSET (Handles \X SUBSET Handles) /\ RefusedOnlyForStrangers'
    BY <1>2, StoredKeepsRefusals DEF ImuPacket
  <2>2. TypeOK' /\ ThreadAfterDevices'
    BY <1>2, <2>1 DEF ImuPacket, SInv, TypeOK, ThreadAfterDevices
  <2> QED
    BY <1>2, <2>1, <2>2 DEF ImuPacket, SInv, IndicesAreDistinct, ExtrinsicsPrecedePoints,
                            DevicesAreKnown, Known
<1>3. CASE ProcessPacket
  <2> DEFINE h == Head(raw_packet_queue)
  <2>1. h \in Handles /\ raw_packet_queue' \in Seq(Handles)
    BY <1>3 DEF ProcessPacket, SInv, TypeOK
  <2>2. transformed' = transformed \cup {<<h, h \in extrinsic_set'>>}
    BY <1>3 DEF ProcessPacket
  <2>3. extrinsic_set' = extrinsic_set \cup ({h} \cap lidar_extrinsics)
    BY <1>3 DEF ProcessPacket
  <2>4. refused' \in SUBSET (Handles \X SUBSET Handles) /\ RefusedOnlyForStrangers'
    BY <1>3, <2>1, StoredKeepsRefusals DEF ProcessPacket
  <2>5. TypeOK'
    <3>1. extrinsic_set' \in SUBSET Handles /\ transformed' \in SUBSET (Handles \X BOOLEAN)
      <4> HIDE DEF h
      <4>1. (h \in extrinsic_set') \in BOOLEAN
        OBVIOUS
      <4>2. <<h, h \in extrinsic_set'>> \in Handles \X BOOLEAN
        BY <2>1, <4>1
      <4>3. extrinsic_set' \in SUBSET Handles
        BY <2>1, <2>3 DEF SInv, TypeOK
      <4> QED
        BY <2>2, <4>2, <4>3 DEF SInv, TypeOK
    <3> QED
      BY <1>3, <2>1, <2>4, <3>1 DEF ProcessPacket, SInv, TypeOK
  <2>6. ExtrinsicsPrecedePoints'
    <3>1. ASSUME NEW g \in lidar_extrinsics, <<g, FALSE>> = <<h, h \in extrinsic_set'>>
          PROVE  FALSE
      BY <3>1, <2>3
    <3> QED
      BY <1>3, <2>2, <3>1 DEF ProcessPacket, SInv, ExtrinsicsPrecedePoints
  <2>7. ThreadAfterDevices' /\ IndicesAreDistinct' /\ DevicesAreKnown'
    BY <1>3 DEF ProcessPacket, SInv, ThreadAfterDevices, IndicesAreDistinct,
                DevicesAreKnown, Known
  <2> QED
    BY <2>4, <2>5, <2>6, <2>7 DEF SInv
<1> QED
  BY <1>1, <1>2, <1>3

LEMMA SInvStep == ASSUME SInv, [Next]_vars PROVE SInv'
<1>1. CASE UNCHANGED vars
  BY <1>1, SInvKeeps DEF SInv, TypeOK, ThreadAfterDevices, vars, initVars, indexVars,
                         pubVars
<1> QED
  BY <1>1, ConstructStep, ReportStep, DataStep DEF Next

\* Whatever fails at the start and whatever the network has, no two lidars share an index
\* and no configured lidar's points are transformed without its extrinsics (CacheIndex,
\* InitLivoxLidar, SetLidarPubHandle).
THEOREM DevicesStayRight == Spec => []DevicesAreRight
<1>1. SInv => DevicesAreRight
  BY DEF SInv, DevicesAreRight
<1> QED
  BY <1>1, SInvInit, SInvStep, PTL DEF Spec

\* A lidar of the configuration never loses a frame or a sample to the unlocked search of
\* GetIndex but while a lidar without configuration is being added.
THEOREM RefusalsAreExplained == Spec => []RefusedOnlyForStrangers
<1>1. SInv => RefusedOnlyForStrangers
  BY DEF SInv
<1> QED
  BY <1>1, SInvInit, SInvStep, PTL DEF Spec

------------------------------------------------------------------------------
(***************************************************************************)
(* What LivoxConfig adds to the start: no lidar is published unconfigured, *)
(* for any lidars, any keys, any number of reports, timeouts and refusals. *)
(***************************************************************************)
\* The types the proof needs.
CTypes ==
  /\ config_mutex_ \in Lidars \cup {"none"} /\ todo \subseteq Keys
  /\ set_bits \in [Lidars -> SUBSET Keys]
  /\ accepted \in [Lidars -> SUBSET Keys]
  /\ requests \in [Lidars -> [Keys -> Nat]] /\ reports \in [Lidars -> Nat]
  /\ connect_state \in [Lidars -> {"Off", "Sampling"}]
  /\ ignored \in [Lidars -> SUBSET Keys]

\* Once a lidar has been reported, each of its keys is accepted, pending or about to be
\* requested, and the last only while the mutex is held for it.
KeysAreCovered ==
  \A l \in Lidars : reports[l] > 0 =>
    Configured[l] \subseteq
      accepted[l] \cup set_bits[l] \cup (IF config_mutex_ = l THEN todo ELSE {})

\* Only configured keys are requested, and only of a lidar that has been reported.
RequestsAreConfigured ==
  /\ \A l \in Lidars : accepted[l] \subseteq Configured[l]
  /\ \A l \in Lidars : \A k \in Keys :
       requests[l][k] > 0 => reports[l] > 0 /\ k \in Configured[l]
  /\ \A l \in Lidars : config_mutex_ = l => reports[l] > 0 /\ todo \subseteq Configured[l]

CInv == CTypes /\ KeysAreCovered /\ RequestsAreConfigured /\ SamplingIsConfigured

\* Before the first report nothing is requested and no lidar publishes.
LEMMA CInvInit == ConfigInit => CInv
<1> SUFFICES ASSUME ConfigInit PROVE CInv
  OBVIOUS
<1>1. CTypes
  BY DEF ConfigInit, CTypes
<1>2. KeysAreCovered
  BY DEF ConfigInit, KeysAreCovered
<1>3. RequestsAreConfigured
  BY ConfigAssumption DEF ConfigInit, RequestsAreConfigured
<1>4. SamplingIsConfigured
  BY DEF ConfigInit, SamplingIsConfigured
<1> QED
  BY <1>1, <1>2, <1>3, <1>4 DEF CInv

\* Every step of the handlers and the answers preserves the invariant.
LEMMA CInvStep == CInv /\ [ConfigNext]_configVars => CInv'
<1> SUFFICES ASSUME CInv, [ConfigNext]_configVars PROVE CInv'
  OBVIOUS
<1> USE ConfigAssumption
      DEF CInv, CTypes, KeysAreCovered, RequestsAreConfigured, SamplingIsConfigured, otherVars
<1>1. ASSUME NEW l \in Lidars, LidarReported(l) PROVE CInv'
  BY <1>1 DEF LidarReported
<1>2. ASSUME NEW l \in Lidars, Set(l) PROVE CInv'
  <2>1. PICK k \in todo : /\ set_bits' = [set_bits EXCEPT ![l] = @ \cup {k}]
                          /\ requests' = [requests EXCEPT ![l][k] = @ + 1]
                          /\ todo' = todo \ {k}
    BY <1>2 DEF Set
  <2>2. /\ config_mutex_ = l /\ k \in Configured[l] /\ k \in Keys /\ reports[l] > 0
        /\ UNCHANGED <<config_mutex_, connect_state, reports, timeouts, accepted, otherVars>>
    BY <1>2 DEF Set
  <2>3. CTypes'
    BY <2>1, <2>2
  <2>4. KeysAreCovered'
    BY <2>1, <2>2
  <2>5. RequestsAreConfigured'
    BY <2>1, <2>2
  <2>6. SamplingIsConfigured'
    BY <2>2
  <2> QED
    BY <2>3, <2>4, <2>5, <2>6
<1>3. ASSUME NEW l \in Lidars, Release(l) PROVE CInv'
  BY <1>3 DEF Release
<1>4. ASSUME NEW l \in Lidars, NEW k \in Keys, Success(l, k) PROVE CInv'
  <2>1. /\ config_mutex_ = "none" /\ requests[l][k] > 0
        /\ requests' = [requests EXCEPT ![l][k] = @ - 1]
        /\ set_bits' = [set_bits EXCEPT ![l] = @ \ {k}]
        /\ connect_state' = IF set_bits'[l] = {}
                              THEN [connect_state EXCEPT ![l] = "Sampling"]
                              ELSE connect_state
        /\ accepted' = [accepted EXCEPT ![l] = @ \cup {k}]
        /\ UNCHANGED <<config_mutex_, todo, reports, timeouts, otherVars>>
    BY <1>4 DEF Success, Clear, Answered
  <2>2. reports[l] > 0 /\ k \in Configured[l] /\ "none" \notin Lidars
    BY <2>1
  <2>3. CTypes'
    BY <2>1
  <2>4. KeysAreCovered'
    BY <2>1, <2>2
  <2>5. RequestsAreConfigured'
    BY <2>1, <2>2
  <2>6. SamplingIsConfigured'
    BY <2>1, <2>2, <2>4, <2>5
  <2> QED
    BY <2>3, <2>4, <2>5, <2>6
<1>5. ASSUME NEW l \in Lidars, NEW k \in Keys, Timeout(l, k) PROVE CInv'
  BY <1>5 DEF Timeout
<1>6. ASSUME NEW l \in Lidars, NEW k \in Keys, Failure(l, k) PROVE CInv'
  BY <1>6 DEF Failure, Answered
<1>7. ASSUME NEW l \in Lidars, NEW k \in Keys, Ignored(l, k) PROVE CInv'
  BY <1>7 DEF Ignored, Answered
<1>8. CASE OtherReported \/ OtherAdded
  BY <1>8 DEF OtherReported, OtherAdded, OthersKeep
<1>9. CASE UNCHANGED configVars
  BY <1>9 DEF configVars
<1> QED
  BY <1>1, <1>2, <1>3, <1>4, <1>5, <1>6, <1>7, <1>8, <1>9 DEF ConfigNext

\* Whatever the lidars and their configuration, the data of a lidar is published only
\* after it has accepted every configured key.
THEOREM NoUnconfiguredData == ConfigSpec => []SamplingIsConfigured
<1>1. CInv => SamplingIsConfigured
  BY DEF CInv
<1> QED
  BY <1>1, CInvInit, CInvStep, PTL DEF ConfigSpec

\* A report asks for a key at most once, and a key that is pending has a request that
\* will be answered, unless the lidar may refuse it or an answer for it was ignored.
RequestsAreOut ==
  /\ adding_other \in BOOLEAN /\ (adding_other => config_mutex_ = "none")
  /\ \A l \in Lidars :
       /\ reports[l] <= MaxReports
       /\ set_bits[l] \subseteq Configured[l]
       /\ \A k \in Keys :
            requests[l][k] + (IF config_mutex_ = l /\ k \in todo THEN 1 ELSE 0) <= reports[l]
       /\ ignored[l] \subseteq Configured[l]
       /\ l \notin Refusing => \A k \in set_bits[l] \ ignored[l] : requests[l][k] > 0

LEMMA RequestsAreOutStep ==
  CInv /\ RequestsAreOut /\ [ConfigNext]_configVars => RequestsAreOut'
<1> SUFFICES ASSUME CInv, RequestsAreOut, [ConfigNext]_configVars PROVE RequestsAreOut'
  OBVIOUS
<1> USE ConfigAssumption
      DEF CInv, CTypes, RequestsAreConfigured, RequestsAreOut, otherVars
<1>1. ASSUME NEW l \in Lidars, LidarReported(l) PROVE RequestsAreOut'
  BY <1>1 DEF LidarReported
<1>2. ASSUME NEW l \in Lidars, Set(l) PROVE RequestsAreOut'
  <2>1. PICK k \in todo : /\ set_bits' = [set_bits EXCEPT ![l] = @ \cup {k}]
                          /\ requests' = [requests EXCEPT ![l][k] = @ + 1]
                          /\ todo' = todo \ {k}
    BY <1>2 DEF Set
  <2>2. /\ config_mutex_ = l /\ k \in Configured[l] /\ k \in Keys
        /\ UNCHANGED <<config_mutex_, reports, otherVars>>
    BY <1>2 DEF Set
  <2> QED
    BY <2>1, <2>2
<1>3. ASSUME NEW l \in Lidars, Release(l) PROVE RequestsAreOut'
  BY <1>3 DEF Release
<1>4. ASSUME NEW l \in Lidars, NEW k \in Keys, Success(l, k) PROVE RequestsAreOut'
  BY <1>4 DEF Success, Clear, Answered
<1>5. ASSUME NEW l \in Lidars, NEW k \in Keys, Timeout(l, k) PROVE RequestsAreOut'
  BY <1>5 DEF Timeout
<1>6. ASSUME NEW l \in Lidars, NEW k \in Keys, Failure(l, k) PROVE RequestsAreOut'
  BY <1>6 DEF Failure, Answered
<1>7. ASSUME NEW l \in Lidars, NEW k \in Keys, Ignored(l, k) PROVE RequestsAreOut'
  BY <1>7 DEF Ignored, Answered
<1>8. CASE OtherReported \/ OtherAdded
  BY <1>8 DEF OtherReported, OtherAdded, OthersKeep
<1>9. CASE UNCHANGED configVars
  BY <1>9 DEF configVars
<1> QED
  BY <1>1, <1>2, <1>3, <1>4, <1>5, <1>6, <1>7, <1>8, <1>9 DEF ConfigNext

\* However often a lidar is reported and its requests time out, each of its pending keys
\* has a request out: only a refusal, or an answer that came while a lidar without
\* configuration was being added, can keep it from publishing.
THEOREM RequestsStayOut == ConfigSpec => []ConfigTypeOK
<1>1. ASSUME ConfigInit PROVE RequestsAreOut
  <2>1. adding_other = FALSE /\ config_mutex_ = "none" /\ todo = {}
    BY <1>1 DEF ConfigInit
  <2>2. ASSUME NEW l \in Lidars
        PROVE  /\ reports[l] = 0 /\ set_bits[l] = {} /\ ignored[l] = {}
               /\ \A k \in Keys : requests[l][k] = 0
    BY <1>1 DEF ConfigInit
  <2>3. ASSUME NEW l \in Lidars
        PROVE  /\ reports[l] <= MaxReports /\ set_bits[l] \subseteq Configured[l]
               /\ ignored[l] \subseteq Configured[l] /\ set_bits[l] = {}
               /\ \A k \in Keys : requests[l][k]
                    + (IF config_mutex_ = l /\ k \in todo THEN 1 ELSE 0) <= reports[l]
    <3>1. MaxReports \in Nat
      BY ConfigAssumption
    <3> QED
      BY <2>1, <2>2, <3>1
  <2> QED
    BY <2>1, <2>3 DEF RequestsAreOut
<1>2. CInv /\ RequestsAreOut => ConfigTypeOK
  <2> SUFFICES ASSUME CInv, RequestsAreOut PROVE ConfigTypeOK
    OBVIOUS
  <2>1. ASSUME NEW l \in Lidars, NEW k \in Keys PROVE requests[l][k] \in 0 .. MaxReports
    BY ConfigAssumption DEF CInv, CTypes, RequestsAreOut
  <2> QED
    BY <2>1 DEF CInv, CTypes, RequestsAreConfigured, RequestsAreOut, ConfigTypeOK
<1> QED
  BY <1>1, <1>2, CInvInit, CInvStep, RequestsAreOutStep, PTL DEF ConfigSpec
==============================================================================
