------------------------------ MODULE DriverStart ------------------------------
(***************************************************************************)
(* The start of the Livox driver: DriverNode's constructor reads the       *)
(* configuration files, initialises the SDK, gives each configured lidar   *)
(* an index (CacheIndex) and its extrinsics (PubHandler), registers the    *)
(* callbacks and starts the threads.  From then on the SDK's threads       *)
(* report lidars, deliver point packets to the thread RawDataProcess and   *)
(* IMU samples to Lds::StorageImuData, which look the lidar's index up.    *)
(*                                                                         *)
(* GetIndex searches map_index_ before it locks index_mutex_, so a search  *)
(* during an insertion is a data race: it is taken to find the lidar as it *)
(* should, or not to find it.  The frames are those of PubHandler, the     *)
(* answers to the configuration those of LivoxConfig.                      *)
(***************************************************************************)
EXTENDS Integers, Sequences, FiniteSets

CONSTANTS
  Handles,      \* the handles (addresses) of lidars
  Config,       \* the entries of lidar_configs, a sequence of handles
  Network,      \* the lidars that are on the network
  MaxSource,    \* kMaxSourceLidar, the number of indices (32 in the code)
  MaxQueue      \* bound on the packets that wait for RawDataProcess

ASSUME DriverStartAssumption ==
  /\ Config \in Seq(Handles) /\ Network \subseteq Handles
  /\ MaxSource \in Nat \ {0} /\ MaxQueue \in Nat \ {0}

Indices == 0 .. MaxSource - 1
NoIndex == -1

VARIABLES
  mpc,               \* main thread: control point of the constructor
  configs,           \* user_configs still to be filled in
  lds,               \* lddc_ptr_->lds_ is registered
  sdk,               \* the SDK is initialised
  info_callback,     \* SetLivoxLidarInfoChangeCallback has been called
  observer,          \* the point-cloud observer is registered, points_callback_ set
  imu_callback,      \* imu_callback_ is set
  point_thread,      \* point_process_thread_ runs
  is_initialized,    \* is_initialized_
  polling,           \* the two poll threads have been started
  map_index,         \* map_index[h]: map_index_ of h, or NoIndex
  index_cache,       \* index_cache_: the indices in use
  adding,            \* the lidar the SDK's report thread is adding, {} for none
  lidar_extrinsics,  \* the lidars with an entry in lidar_extrinsics_
  raw_packet_queue,  \* the lidars of the packets that wait
  extrinsic_set,     \* lidars whose handler has is_set_extrinsic_params_
  transformed,       \* history: <<h, was the parameter set>> for processed packets
  refused            \* {<<h, adding>>} if the last frame or sample, of h, found no index

initVars == <<configs, lds, sdk, info_callback, observer, imu_callback, point_thread,
              is_initialized, polling>>
indexVars == <<map_index, index_cache>>
pubVars == <<raw_packet_queue, extrinsic_set, transformed, refused>>
vars == <<mpc, initVars, indexVars, adding, lidar_extrinsics, pubVars>>

Init ==
  /\ mpc = "construct" /\ configs = <<>>
  /\ lds = FALSE /\ sdk = FALSE /\ info_callback = FALSE /\ observer = FALSE
  /\ imu_callback = FALSE /\ point_thread = FALSE
  /\ is_initialized = FALSE /\ polling = FALSE
  /\ map_index = [h \in Handles |-> NoIndex] /\ index_cache = {}
  /\ adding = {}
  /\ lidar_extrinsics = {} /\ raw_packet_queue = <<>> /\ extrinsic_set = {}
  /\ transformed = {} /\ refused = {}

------------------------------------------------------------------------------
(***************************************************************************)
(* CacheIndex.                                                             *)
(***************************************************************************)
Known(h) == map_index[h] # NoIndex
Inserting == adding # {}

\* The outcomes of GetIndex's unlocked search; LvxGetIndex searches likewise.
GetIndexFinds(h) == IF Inserting THEN {Known(h), FALSE} ELSE {Known(h)}

\* The first index that is free.
IsFirstFree(i) == i \notin index_cache /\ \A j \in Indices : j < i => j \in index_cache

\* Mutant: the index is not marked as used.
GetFreeIndexUnmarked(h) ==
  IF ~Known(h) /\ \E i \in Indices : IsFirstFree(i)
    THEN /\ \E i \in Indices : IsFirstFree(i) /\ map_index' = [map_index EXCEPT ![h] = i]
         /\ UNCHANGED index_cache
    ELSE UNCHANGED indexVars

\* Mutant: the search does not stop at the last index.
GetFreeIndexUnbounded(h) ==
  IF Known(h)
    THEN UNCHANGED indexVars
    ELSE /\ map_index' = [map_index EXCEPT ![h] = Cardinality(index_cache)]
         /\ index_cache' = index_cache \cup {Cardinality(index_cache)}

\* GetFreeIndex: the index h has, or else the first free one.
GetFreeIndex(h) ==
  IF ~Known(h) /\ \E i \in Indices : IsFirstFree(i)
    THEN \E i \in Indices :
           /\ IsFirstFree(i)
           /\ map_index' = [map_index EXCEPT ![h] = i]
           /\ index_cache' = index_cache \cup {i}
    ELSE UNCHANGED indexVars

------------------------------------------------------------------------------
(***************************************************************************)
(* The constructor, on the main thread.  A failure of any part leads to    *)
(* the poll threads, which are started in any case.                        *)
(***************************************************************************)
Main(from, to) == mpc = from /\ mpc' = to
MainKeeps == UNCHANGED <<adding, pubVars>>

\* Only the data source kSourceRawLidar has an Lds.
RegisterLds ==
  /\ \/ Main("construct", "summary") /\ lds' = TRUE
     \/ Main("construct", "poll") /\ UNCHANGED lds
  /\ UNCHANGED <<configs, sdk, info_callback, observer, imu_callback, point_thread,
                 is_initialized, polling, indexVars, lidar_extrinsics>>
  /\ MainKeeps

\* ParseSummaryInfo: the file fails to parse, names a Livox lidar, or another type.
ParseSummaryConfig ==
  /\ Main("summary", "poll") \/ Main("summary", "parse") \/ Main("summary", "observer")
  /\ UNCHANGED <<initVars, indexVars, lidar_extrinsics>> /\ MainKeeps

\* LivoxLidarConfigParser::Parse: a failure leaves no entry and is only reported.
ParseUserConfigs ==
  /\ Main("parse", "sdk")
  /\ configs' \in {Config, <<>>}
  /\ UNCHANGED <<lds, sdk, info_callback, observer, imu_callback, point_thread,
                 is_initialized, polling, indexVars, lidar_extrinsics>>
  /\ MainKeeps

\* Mutant: the callbacks and the thread are set up with the SDK, before the devices.
SdkInitWithCallbacks ==
  /\ Main("sdk", "fill") /\ sdk' = TRUE
  /\ observer' = TRUE /\ imu_callback' = TRUE /\ point_thread' = TRUE
  /\ UNCHANGED <<configs, lds, info_callback, is_initialized, polling, indexVars,
                 lidar_extrinsics>>
  /\ MainKeeps

SdkInit ==
  /\ \/ Main("sdk", "poll") /\ UNCHANGED sdk
     \/ Main("sdk", "fill") /\ sdk' = TRUE
  /\ UNCHANGED <<configs, lds, info_callback, observer, imu_callback, point_thread,
                 is_initialized, polling, indexVars, lidar_extrinsics>>
  /\ MainKeeps

\* One turn of the loop of InitLivoxLidar: a lidar for which no index is left gets no
\* extrinsics either.
FillDevice ==
  /\ Main("fill", "fill") /\ configs # <<>>
  /\ GetFreeIndex(Head(configs))
  /\ lidar_extrinsics' = IF map_index'[Head(configs)] # NoIndex
                           THEN lidar_extrinsics \cup {Head(configs)}
                           ELSE lidar_extrinsics
  /\ configs' = Tail(configs)
  /\ UNCHANGED <<lds, sdk, info_callback, observer, imu_callback, point_thread,
                 is_initialized, polling>>
  /\ MainKeeps

SetInfoChangeCallback ==
  /\ Main("fill", "observer") /\ configs = <<>>
  /\ info_callback' = TRUE
  /\ UNCHANGED <<configs, lds, sdk, observer, imu_callback, point_thread,
                 is_initialized, polling, indexVars, lidar_extrinsics>>
  /\ MainKeeps

\* SetLidarPubHandle: SetPointCloudsCallback, SetImuDataCallback, SetPointCloudConfig.
SetPointCloudsCallback ==
  /\ Main("observer", "imu")
  /\ observer' = TRUE
  /\ UNCHANGED <<configs, lds, sdk, info_callback, imu_callback, point_thread,
                 is_initialized, polling, indexVars, lidar_extrinsics>>
  /\ MainKeeps

SetImuDataCallback ==
  /\ Main("imu", "thread")
  /\ imu_callback' = TRUE
  /\ UNCHANGED <<configs, lds, sdk, info_callback, observer, point_thread,
                 is_initialized, polling, indexVars, lidar_extrinsics>>
  /\ MainKeeps

SetPointCloudConfig ==
  /\ Main("thread", "started")
  /\ point_thread' = TRUE
  /\ UNCHANGED <<configs, lds, sdk, info_callback, observer, imu_callback,
                 is_initialized, polling, indexVars, lidar_extrinsics>>
  /\ MainKeeps

InitLdsLidarReturns ==
  /\ Main("started", "poll")
  /\ is_initialized' = TRUE
  /\ UNCHANGED <<configs, lds, sdk, info_callback, observer, imu_callback, point_thread,
                 polling, indexVars, lidar_extrinsics>>
  /\ MainKeeps

StartPollThreads ==
  /\ Main("poll", "running")
  /\ polling' = TRUE
  /\ UNCHANGED <<configs, lds, sdk, info_callback, observer, imu_callback, point_thread,
                 is_initialized, indexVars, lidar_extrinsics>>
  /\ MainKeeps

------------------------------------------------------------------------------
(***************************************************************************)
(* The SDK's thread that reports lidars: LidarInfoChangeCallback.          *)
(***************************************************************************)
ReportKeeps == UNCHANGED <<mpc, initVars, lidar_extrinsics, pubVars>>

\* A lidar that has a device is configured (LivoxConfig); another one is added.
LidarInfoChange(h) ==
  /\ info_callback /\ ~Inserting /\ h \in Network /\ ~Known(h)
  /\ adding' = {h}
  /\ UNCHANGED indexVars /\ ReportKeeps

AddLidarDevice ==
  /\ \E h \in adding : GetFreeIndex(h)
  /\ adding' = {}
  /\ ReportKeeps

------------------------------------------------------------------------------
(***************************************************************************)
(* Packets: the SDK's data thread and the thread RawDataProcess.           *)
(***************************************************************************)
DataKeeps == UNCHANGED <<mpc, initVars, indexVars, adding, lidar_extrinsics>>

\* OnLivoxLidarPointCloudCallback for points.
PointPacket(h) ==
  /\ sdk /\ observer /\ h \in Network /\ Len(raw_packet_queue) < MaxQueue
  /\ raw_packet_queue' = Append(raw_packet_queue, h)
  /\ UNCHANGED <<extrinsic_set, transformed, refused>> /\ DataKeeps

Stored(h, found) == refused' = IF found THEN {} ELSE {<<h, adding>>}

\* For an IMU sample, which goes through LidarImuDataCallback to StorageImuData; before
\* imu_callback_ is set it is dropped.
ImuPacket(h) ==
  /\ sdk /\ observer /\ imu_callback /\ h \in Network
  /\ \E found \in GetIndexFinds(h) : Stored(h, found)
  /\ UNCHANGED <<raw_packet_queue, extrinsic_set, transformed>> /\ DataKeeps

\* RawDataProcess for a packet: SetLidarsExtParam takes effect once, the points are
\* transformed, and the frame goes through OnLidarPointClounCb to StoragePointData.
ProcessPacket ==
  /\ point_thread /\ raw_packet_queue # <<>>
  /\ LET h == Head(raw_packet_queue) IN
       /\ raw_packet_queue' = Tail(raw_packet_queue)
       /\ extrinsic_set' = extrinsic_set \cup ({h} \cap lidar_extrinsics)
       /\ transformed' = transformed \cup {<<h, h \in extrinsic_set'>>}
       /\ \E found \in GetIndexFinds(h) : Stored(h, found)
  /\ DataKeeps

------------------------------------------------------------------------------
Construct ==
  \/ RegisterLds \/ ParseSummaryConfig \/ ParseUserConfigs \/ SdkInit \/ FillDevice
  \/ SetInfoChangeCallback \/ SetPointCloudsCallback \/ SetImuDataCallback
  \/ SetPointCloudConfig \/ InitLdsLidarReturns \/ StartPollThreads

Next ==
  \/ Construct
  \/ (\E h \in Handles : LidarInfoChange(h) \/ PointPacket(h) \/ ImuPacket(h))
  \/ AddLidarDevice \/ ProcessPacket

Spec == Init /\ [][Next]_vars

------------------------------------------------------------------------------
(***************************************************************************)
(* Properties.                                                             *)
(***************************************************************************)
\* Every variable has its type.
TypeOK ==
  /\ mpc \in {"construct", "summary", "parse", "sdk", "fill", "observer", "imu",
              "thread", "started", "poll", "running"}
  /\ configs \in Seq(Handles)
  /\ lds \in BOOLEAN /\ sdk \in BOOLEAN /\ info_callback \in BOOLEAN
  /\ observer \in BOOLEAN /\ imu_callback \in BOOLEAN /\ point_thread \in BOOLEAN
  /\ is_initialized \in BOOLEAN /\ polling \in BOOLEAN
  /\ map_index \in [Handles -> Indices \cup {NoIndex}]
  /\ index_cache \in SUBSET Indices
  /\ adding \in SUBSET Handles
  /\ lidar_extrinsics \in SUBSET Handles
  /\ raw_packet_queue \in Seq(Handles)
  /\ extrinsic_set \in SUBSET Handles
  /\ transformed \in SUBSET (Handles \X BOOLEAN)
  /\ refused \in SUBSET (Handles \X SUBSET Handles)

\* No two lidars ever share an index, and with it a ring and an IMU queue, whether they
\* come from the configuration or are found on the network, and an index is marked as
\* used exactly while a lidar has it.
IndicesAreDistinct ==
  /\ \A g, h \in Handles : Known(g) /\ map_index[g] = map_index[h] => g = h
  /\ index_cache = {map_index[h] : h \in {g \in Handles : Known(g)}}

\* The order of the start: the points of a configured lidar are never transformed with
\* anything but its own extrinsics, since these are filled in before the observer is
\* registered.
ExtrinsicsPrecedePoints ==
  \A h \in lidar_extrinsics : <<h, FALSE>> \notin transformed

\* The unlocked search of GetIndex costs a lidar of the configuration a frame or a sample
\* only while another lidar, one without configuration, is being added: never before the
\* first is reported and never between two insertions.
RefusedOnlyForStrangers ==
  \A h \in lidar_extrinsics : \A added \in SUBSET Handles :
    <<h, added>> \in refused => added # {} /\ added \cap lidar_extrinsics = {}

\* Devices are right from the first packet on: indices are distinct, and extrinsics there.
DevicesAreRight == TypeOK /\ IndicesAreDistinct /\ ExtrinsicsPrecedePoints
==============================================================================
