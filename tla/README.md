# Verification of robot_nav

TLA+ modules, TLC configurations and TLAPS proofs for the concurrent and
stateful parts of this repository: a legged/wheeled robot that localises itself
with a Livox lidar and drives with Nav2. Every definition is translated from
the source; `PROJECT.json` ("map") names the lines each one stands for, and
"hazards" what in this code is hard to test, at its line.

## 1. The system

Data flows from the lidar to the wheels through five processes, each built in
a workspace of its own:

```
lidar --UDP--> livox_ros_driver2 --/livox/lidar, /livox/imu--> fastlio_mapping
      --/Odometry, /cloud_registered_1--> global_localization --TF map->odom-->
      Nav2 (nav2_custom_planner, nav2_custom_controller) <--goal-- nav_manager
```

### 1.1 Components

`L` = `livox_ws/src/livox_ros_driver2/src`, `F` = `mid360s_ws/src/FAST_LIO_ROS2`,
`O` = `fastlio_localization/.../open3d_loc`, `W` = `luckrobot_ws/src`.

| component | state | operations | hard behaviour | what makes it correct | modelled in |
|---|---|---|---|---|---|
| point-cloud rings and poll thread (`L/lds.cpp`, `lddc.cpp`, `comm/ldq.cpp`, `comm/semaphore.cpp`, `driver_node.cpp`) | one ring per lidar with free-running 32-bit indices, a semaphore count, an exit promise | store a frame, poll and publish, exit | lock-free ring, a count read without its lock, wraparound, exit while blocked | frames whole, once and in order; no lost wakeup | `PointCloudPipeline` |
| frames from packets (`L/comm/pub_handler.cpp`) | a packet queue, points per lidar, the last publishing time, one flag for synchronised clocks | packet in, timer, frame out, `Uninit` | a wait without predicate, catch-up of late frames, exact remainders of stamps, clocks of two kinds | each point in exactly one frame; frames neither too long nor too many; `Uninit` returns | `PubHandler` |
| the node's start and `CacheIndex` (`L/driver_node.cpp`, `lds_lidar.cpp`, `comm/cache_index.cpp`, `parse_cfg_file`) | the callbacks that are set, handle-to-index map, free slots, extrinsics | construct step by step, report a lidar, store points or a sample | packets arrive during the start; the map is read without the mutex it is written under | one lidar per index; extrinsics before points | `DriverStart` |
| bringing a lidar up (`L/call_back`) | `set_bits` and `connect_state` per lidar, `config_mutex_` | a lidar is reported; each key is requested, answered, times out, fails | answers in any order on SDK threads, a lidar reported again in the middle | data is published only from a configured lidar; every lidar that can gets there | `LivoxConfig` |
| IMU queue (`L/comm/lidar_imu_data_queue.cpp`, `lddc.cpp:140-160`) | a list under a mutex, a semaphore | push, pop, poll | as the rings, with a lock | samples once and in order | `DriverStart` (who gets in) |
| preprocessing (`F/src/preprocess.cpp`) | the lines of a scan, types of points, output | a message of five kinds of lidar; four passes over each line | indices next to both ends of a line, loops that move their own index, times computed from angles | no near point used, order kept, times right, nothing outside the line touched | `Preprocess`, `ScanFeatures` |
| FAST-LIO node: buffering and times (`F/src/laserMapping.cpp`, `IMU_Processing.hpp`) | scan, time and IMU buffers, the measurement, filter times | two subscriptions, a 100 Hz timer | topics in any order, lost messages, empty scans, stamps going back | each sample used for its scan, propagation equals elapsed time, a transform for every scan | `LioSync` |
| FAST-LIO node: update and local map (`F/src/laserMapping.cpp`) | the cube kept, neighbours of each point, the published place | segment the map, match, update, publish, add points | neighbours of an earlier iteration or of deleted points, a cube that moves | what is matched is in the map, what is mapped is where it was published | `LioMapping`, `LocalMap` |
| iterated filter (`F/include/IKFoM_toolkit/esekfom`) | state, covariance, per update: `converge`, `t`, `valid` | 6 initialisations, predict, change, 7 updates | early ends and skipped iterations of loops that carry the covariance along | the covariance belongs to the state it is left with | `IteratedFilter` |
| ikd-Tree as a data structure (`F/include/ikd-Tree`) | nodes with counts, boxes and lazy marks | build, add, downsampling add, delete box, three searches, rebuild | marks pushed down late, counts and boxes of partly deleted subtrees | the map is the points added and not deleted, searches are exact | `IkdTree`, `PointMap` |
| ikd-Tree's rebuild thread | `Rebuild_Ptr`, `rebuild_flag`, a log, a counter of searches, four mutexes | copy, build, replay, swap | two threads and OpenMP searches on one tree | nobody walks freed nodes; nobody waits for ever; the new tree has what the old one had | `IkdTreeRebuild` |
| localisation (`O/src/global_localization.cpp`) | `mat_odom2map_`, the scan queue and cloud, the initial pose, the fitness | odometry, scan and initial pose callbacks; a registration thread | a lock held through a registration, reads without it, shutdown | no update is lost, an initial pose stays, what is registered is a whole cloud | `GlobalLocalization` |
| navigation manager (`W/wheel_controller/src/nav_manager_node.cpp`) | `current_mode_`, goals under way | a mode is commanded, a goal is answered | blocking wait, overtaken goals | an arrival is reported as the mode it is of | `NavManager` |
| planner (`W/nav2_custom_planner`) | open and closed cells of a search | make a plan | parity of the hexagonal grid, a heuristic that is too large, smoothing | a plan exists when the goal can be reached, and is clear | `CustomPlanner`, `NavStack` |
| controller, registration wrappers, message conversions, launch files | `is_rotating_`; none | numerical; start and stop | thresholds; order by sleeps | - | - |

### 1.2 How they interact

*Inside the driver* the SDK's threads call the configuration callbacks and
hand packets to `PubHandler`, whose thread stores frames in the rings; two poll
threads of the node publish. *Inside the mapping process* one executor thread
runs all callbacks and, during an update, OpenMP threads search the tree; the
rebuild thread is a plain pthread. *Inside the localisation process* the
callbacks share the default (mutually exclusive) callback group, so one runs at
a time although the executor has four threads; `thread_loc_` runs beside them.
*Between processes* there are topics with bounded queues, transforms, and
Nav2's action.

## 2. Modules

```
driver     DriverStart      PubHandler      LivoxConfig      PointCloudPipeline => FrameFifo
mapping    Preprocess (ScanFeatures)   LioSync   LioMapping (IteratedFilter) => LocalMap
           IkdTree => PointMap         IkdTreeRebuild
robot      GlobalLocalization          NavStack (NavManager, CustomPlanner)
```

`A (B)`: A extends B and runs its actions between its own; `A => B`: A is shown
to implement B under a refinement mapping. `MC...` modules hold the values of
constants that a configuration file cannot express, `...Proofs` the theorems.
Definitions keep the names of the source. Each module marks, with the word
*mutant*, the plausible bugs of its actions that the properties have been seen
to reject; they are not part of the specification. A property that is a
conjunction collects statements about one piece of state: its conjuncts are
definitions of their own, each with a comment, and each with a mutant of its own
in `PROJECT.json` where it is more than a type.

### 2.1 PointCloudPipeline

One action per access to memory the producer and the poll thread share; control
points (`ppc`, `cpc`) name the place in the code. A slot is written and read in
two parts, so that a torn frame would show. `count` is the semaphore's count,
read without its lock in `TestCount` and under it in `Signal` and `Wait`.
`StartSampling` is the last success of `LivoxConfig`; `RequestExit`,
`SetExitSignal` and `Join` are the destructor. Frames are never empty: the
producer discards those before.

*Memory model.* `StoreBuffer = FALSE` is sequential consistency. `TRUE` lets the
producer's store of `wr_idx` become visible only after its later load of the
count, the one reordering x86-64 allows here: then the *newest* frame may miss
its wakeup and wait for the next frame, which is why `Backlog` asks for two. A
delayed `rd_idx` only makes the full and empty tests conservative. Between
frames the mutex of `PubHandler` is a fence. On ARM the body of a slot may
become visible after its index; no run covers that.

*Abstract specification.* `FrameFifo`: per lidar a bounded queue that may drop
when full, a frame in hand, the last one published. The mapping takes the ring
between its indices as the queue; that the pipeline implements it is proved.

### 2.2 PubHandler

The SDK's thread (`rpc`) queues a packet under `packet_mutex_` and notifies
`packet_condition_`; `RawDataProcess` (`ppc`) pops or waits. Appending a packet's
points and `CheckTimer` are one action, since no other thread sees their state.
The clock ticks while packets come; a packet covers one tick of its lidar's
clock, and packets are numbered so that `EachPacketOnce` can say where each is: cloud,
thread, queue and callback hold consecutive numbers, in that order. Several ticks make
a millisecond, as the packets of a lidar come more often than that: whether a frame is
closed after the loss of a single packet depends on it. A frame remembers whether two
neighbouring packets of it have been lost (`dense`).
`CheckTimer` has both modes: with synchronised clocks a frame closes when a
stamp, taken in milliseconds, is a multiple of the interval; otherwise when the
host's clock has passed an interval, for all lidars at once. `is_timestamp_sync_` is one
flag for all lidars, so a lidar without synchronisation switches the other over
(`unsynced_seen`). `wait_for` has no predicate: that no wakeup is lost rests on
the queue being tested under the same mutex.

### 2.3 DriverStart

`mpc` follows the constructor of `DriverNode` through `LdsLidar` to the poll
threads, with the failures the code handles; the devices are filled in (`FillDevice`)
before the callbacks are registered. The SDK delivers packets and reports
lidars from the moment its callbacks are set. `GetIndex` searches `map_index_`
without `index_mutex_`: during an insertion (`adding`) it finds the lidar or does
not; `refused` keeps which lidar was refused and which were being added then. Lidars without configuration (`strangers`) are given an index when they are
reported. IMU samples go straight to `StorageImuData`, points through the queue
and `RawDataProcess`, which takes the extrinsics over once (`extrinsic_set`).

### 2.4 LivoxConfig

`todo` are the keys the handler that holds `config_mutex_` has still to request,
`set_bits` the bits of those without an accepted answer. Success clears a bit
under the mutex, timeout asks again, failure leaves the bit. Each callback first looks
its device up and returns when it does not find it: the bit stays set and nothing is
asked for again (`Ignored`). That can happen while a lidar without configuration is
inserted (`adding_other`, from `OtherReported` to `OtherAdded`), since the search takes no lock;
`ignored` keeps the keys. The SDK is
external: it may report a lidar again, and answers in any order. Requests
without a bit (attitude, work mode, IMU) change none of this state. Its specification
is `ConfigInit`, `ConfigNext`, `ConfigSpec`, so that one module can extend it together
with `DriverStart`.

### 2.5 Preprocess and ScanFeatures

A message of one of five lidar types is one action (`ProcessPoints`) when each
point is judged alone, and `ProcessLines` plus one run of `give_feature` per line
when features are on. `ScanFeatures` is `give_feature`: four passes with the loop
index, the types and `last_surface` as variables, one action per turn of a loop. Where
geometry decides (is a group flat, does a jump lie here) the outcome is free; where
an index, a blind test or a state of the loop decides, it is kept. `stray` records
every index touched outside the line. Times come from the message or from the
yaw (`TimesFromYawAreExact`). `Turn`, the parts of a turn, stands for the floating-point
angle. The specification is `ProcessInit`, `ProcessNext`, `ProcessSpec`, so that one module of
proofs can extend it together with `LioSync`; points are put in order and timed by recursive
functions (`InOrder`, `TimeFromYaw`), which can be proved about.

### 2.6 LioSync

Time in ticks. `livox_pcl_cbk` and `imu_cbk` append; `timer_callback` is one
action per path through `sync_packages`, `ImuProcess::Process` and the branches
after it (first scan, no samples, filter initialisation, first map, few points,
map update), because one executor thread runs all three. `Propagated` is the
time `UndistortPcl` feeds the filter, added up sample by sample as the loop does
(`PropagatedTo`, a recursive function, so that it can be proved about).
`last_lidar_end_time_` starts with any of `Uninitialized`.

### 2.7 IteratedFilter, LioMapping, LocalMap

`IteratedFilter` is `esekf`: `x_` on a line, and of `P_` the state in whose tangent
space it is given and whether its S2 block is `skewed`. An update is a `Begin`, iterations,
and an end; `valid`, `converge` and `t` decide as in the code how the seven updates go on or
skip. A transport of the covariance (`Transported`) is given the difference, and for the S2
block also the state that the difference starts from: on a sphere it matters where a
correction starts. At the start of an iteration that state is right; at the end of the
update the code takes `x_propagated`, while the difference is the last correction, so the
block is skewed unless that correction was the first (section 4). The
loops over `SO3_state` and `S2_state` run once per list entry, and an
initialisation builds these lists without clearing them (`lists`). What an update must
end with is said by `EndsInPlace`, `EndsFolded` and `EndsMatched`, and the properties that
they hold of each step.

`LioMapping` extends it with what `timer_callback` does from the propagated state
on: `lasermap_fov_segment`, `h_share_model` as the filter's measurement (search when
`converge` is set, else the neighbours of before), publishing, `map_incremental`.
The world is one-dimensional; a scan is a sequence of places seen from the lidar
(`MCLioMapping` has those that are checked). `Nearest_Search` takes the points to which
fewer than `NUM_MATCH_POINTS` others are nearer, ties going to the smaller coordinate.
`Add_Points` downsamples point by point; `Downsampled` says in one expression what is
left when all have been added: of a cell the point nearest to its middle, of those as
near a new one before an old one, and of new ones the last.

`LocalMap` is what the node promises of its map: the cube is moved away from a
side that is too near and what it leaves is deleted. Its invariants are proved
for any number of axes, and that `LioMapping` implements it too. `CubeParameters`
has the lengths and what is assumed of them. `mov_dist` is computed in the code
from the other two; the assumption is what the computation yields for the
mid360 configuration (cube 1000, range 100, so margin 150 and distance 315). It
fails for the defaults (200, 300) and for `avia.yaml`: there the margin is longer
than the cube, which moves in every scan.

### 2.8 IkdTree

The tree is a recursive record with the code's fields. Operators with the code's
names (`Update`, `Push_Down`, `BuildTree`, `Delete_by_range`, `Add_by_point`, `Search`,
`Search_by_range`, `Search_by_radius`, `Flatten`, the heap) are functional: a tree in,
a tree out, since every visit may push marks down. Actions are the calls of the
mapping thread. It stays below `Multi_Thread_Rebuild_Point_Num`, so no other
thread takes part. `PointMap`, a bag of points with the downsampling rule, is its
abstract specification. Squared integers replace floating-point distances and
cross-multiplied ratios the criterion. `RECURSIVE` keeps it out of proofs.

### 2.9 IkdTreeRebuild

The tree is its root with two subtrees; a rebuild takes the whole tree or one
of them, which is enough for both kinds of target the code tells apart (the
root, which `Add_Points` and the searches test for, and a node met on the way
down). No downsample cell is cut by the root's plane: a cell that is has its search in
both sons, one after the other, which the model does not follow. Sizes are left out, so
`Criterion_Check` may hold whenever it is evaluated. Critical sections under
`working_flag_mutex` are single actions; `search_flag_mutex` and the counter are explicit
because searches interleave with them. A search reads the boxes of both sons
(`calc_box_dist`) before it counts itself, and compares the pointer to a son with
`*Rebuild_Ptr` without a lock, so it may walk one that was loaded before the swap
(`EnterUncounted`): the pointers of a search (`where[s].nodes`) are loaded one by one and may be
of nodes that are outdated or freed meanwhile (`Status`). Each search keeps the nodes it is
counted on too, so that `CounterIsExact` can say what the counter counts.
`push_down_mutex_lock` of a node and the order in which a search prunes are left out. `Rebuild_Logger` holds
operations, replayed one at a time by `run_operation`; what several leave in the end is
`RunAll`, where for each point the last that reaches it decides (`RunAllAppend` in the
proofs: one more operation is one more step).
A subtree of which every point has been deleted copies to nothing, and the swap
dereferences a null pointer: the model ends there (`rpc = "crashed"`), and
liveness is claimed for behaviours that do not. `races` records when the mapping
thread changes the tree in a way the log does not see, and `expected` the points
the operations so far leave.

### 2.10 GlobalLocalization

A pose is the place it puts the robot at and where it comes from (given,
a good or a poor fit). A read of `mat_odom2map_` without its lock while it is
written yields the old value, the new one or `Torn`. The thread holds the lock
from `Guess` to `Store`; the loop's read of the scan cloud is under `lock_scan_`.
`InitRegister` accepts every result, as `LocalizationInitialize` does, and
ends at the second success in a row; `Register` only a fit above the threshold.
Against a part of the map cropped around another place nothing fits (`Fits`).
`guess` and `result` go out of scope at the end of each round, so that they do
not multiply the states. Its specification is `LocInit`, `LocNext`, `LocSpec` (with
fairness `LocFairSpec`), so that one module of proofs can extend it together with
`NavStack`.

### 2.11 NavManager, CustomPlanner, NavStack

`Take` is `mode_callback` up to the wait for the server, `send_nav_goal` and
`NotReady` its two ends; nothing else of the node runs meanwhile. Nav2 is
external: it accepts or rejects, a goal it accepts aborts the one before, and
answers are delivered in any order.

`CustomPlanner` is `createPlan`, an operator: the search over cells whose
diagonal neighbours depend on the parity of the row, with the penalties for
obstacles and turns, and the smoothing along a line of sight. `Turn` is one turn of
the loop of the search; `Search` takes `MaxTurns` of them, and a turn after the end
changes nothing. Each turn takes a node from the queue, and only closing a cell puts
in more, six at most: that `MaxTurns` are enough is proved. `Corners` walks along the
path in the same way. Cells are closed
when first taken, and the heuristic may exceed what a diagonal step costs, so
the path found need not be the cheapest; that there is one at all is checked, and
proved, against reachability defined without a search. `NavStack` runs the manager's
actions and the planner together: Nav2 accepts a goal, plans on the costmap of
the moment, and plans again from any cell that a leg of the plan touches (`Poses`,
`Crossed`): the poses that fill up a leg lie on a straight line, and `createPlan` does not
look at the cell it starts in. `Crossed` are the cells between the two ends whose square
the line meets, corners of squares included. The cells that can be reached so, whatever the
costmaps, are `EverReachable`: besides free neighbours there are the cells beside a free
one, since a leg through it may cut the corner.

## 3. Runs

| run | bounds | shows |
|---|---|---|
| `pipeline_wrap` | 1 lidar, 2 slots, indices modulo 4, 6 frames, store buffer | `IInv` (among it types, `SignalOnlyAtZero`, `RingBound`), `NoLostWakeup`, `ImplementsFifo`, `BacklogDrains`, `ShutdownStopsOnlyInWait` |
| `pub_frames` | a synchronised lidar and one that is not, interval of 4 ticks, 9 ticks, 2 packets waiting | `PubInv` (`EachPacketOnce`, `NoLostWakeup`), `FramesAreTimely` (`SingleLossIsAbsorbed`, `RateBound`), `ThreadIsNotLost` (`UninitReturns`, `PacketsAreProcessed`) |
| `driver_start` | 2 configured lidars, one named twice, a stranger, 2 indices, 2 packets waiting | `DevicesAreRight` (`IndicesAreDistinct`, `ExtrinsicsPrecedePoints`), `RefusedOnlyForStrangers` |
| `livox_bring_up` | 2 lidars with 2 keys each, one refusing, 2 reports each, 1 timeout, 2 lidars without configuration | `SamplingIsConfigured`, `ReportedLidarsSample` |
| `scan_handlers` | every scan of up to 4 points per kind of lidar without features; lines of up to 8 points, planes of 2, with features | `OutputIsOfScan` (`NoBlindPointIsUsed`, `OutputFollowsScan`), `TimesFromYawAreExact`, `StrayAccessesAreKnown`, `ScansAreProcessed` |
| `lio_gaps` | scans every 2 ticks up to tick 7, sample gaps up to 2 ticks, empty or full scans | `TimeIsUsedOnce` (`WindowsAreDisjoint`, `PropagationFollowsScans`), `EveryScanIsUndistorted`, `ScansGoThrough` (`ScansAreConsumed`, `OdometryStampsIncrease`, `OdometryOfEachScan`) |
| `filter_updates` | corrections of -1, 0, 1, 3 iterations, all 7 updates | `CovarianceFollowsState`, `FoldsWhatItSees`, `MatchesAreFresh` |
| `lio_mapping` (`MCLioMapping`) | 4 scans, motions of 2, cube of 14, margin 3, moved by 4, 2 neighbours | `MapIsSound` (`NeighboursAreInMap`, `LidarInCube`, `MapInCube`), `MappedWherePublished`, `ImplementsLocalMap` |
| `ikd_operations` | 5 points, 2 in one cell, 4 boxes, rebuilt from 4 points, 5 operations | `NodesAreRight` (`CountsAreExact`, `RangesAreTight`, `RootIsNotNullWhenRead`, `RecordedOnce`), `SearchesAreExact` (`NearestIsNearest`, `RangeSearchIsExact`), `ImplementsMap` |
| `ikd_threads` | 3 points, 3 operations, 2 searchers | `SearchesAreSafe` (`SearchExclusion`, `LockedRangeSearchIsSafe`), `RebuildsAreExact` (`ReplayCatchesUp`, `MapIsExact`), `EverybodyGetsOn` (`RebuildEnds`, `OperationsEnd`) |
| `loc_registration` | 2 places, 2 initial poses, clouds of 2 scans, 4 scans | `RegistrationBuildsOnItsGuess`, `UserPoseIsKept`, `InitializedPoseIsTrusted`, `ScanIsWhole`, `EverybodyEnds` (`CallbacksEnd`, `ThreadEnds`) |
| `nav_commands` | 4x3 cells, modes 0 to 3 and an unknown one, queue of 2, 3 commands; beforehand plans to the far corner and to a side on 3^7 maps each, and across on 2^10 | `LatestArrivalReportsItsMode`, `PlansAreRight` (`PlanFoundIffReachable`, `PlanIsClear`), `ArrivalsAreReachable`, `EveryGoalIsAnswered` |

*Why the bounds are enough.*

* `pipeline_wrap`: the indices wrap while frames are stored and while the ring is
  full and empty; six frames go once and a half round. More lidars share only
  the semaphore; `NoLostWakeup` is proved for any number of them.
* `pub_frames`: nine ticks are two intervals on either clock. While all packets are
  synchronised any of them may be lost; once one without synchronisation has come, in
  the first three ticks (`MixedTime`), at most four packets come in all (`MixedPackets`) and
  the clock advances by two (`MixedTicks`). That is enough for the timer to start, for a
  silence of two intervals, and for three packets after it: two frames catch up, the
  third packet must close none. Two packets wait in the queue, one is in the
  callback and one in the thread (`MaxQueue`); a stop may come in the first interval.
* `driver_start`: as many indices as configured lidars, so that the stranger gets
  the last one when a lidar fails to be configured, or none.
* `livox_bring_up`: an answer can be ignored in either insertion, before and after a
  lidar is reported again; one of the two lidars refuses nothing.
* `scan_handlers`: without features four points are two more than any test
  compares; with features a line of eight holds two planes, an edge between
  them, and the blind points next to either, as well as the ends of the line.
* `lio_gaps`: initialisation, the first map and two registered scans with a gap at
  each place.
* `filter_updates`: three iterations are the least in which an update can
  converge, match again, and converge again.
* `lio_mapping`: the cube moves twice, and scans of none, one and three points
  take each branch.
* `ikd_operations`: five operations are a deletion, an addition over it, a rebuild
  by both criteria, and another deletion; the boxes hold a cell, cut through
  one, miss the root's point, and hold everything.
* `ikd_threads`: a search can read the boxes of a son, or hold a pointer to it, across the
  copy, the swap and the freeing of its nodes; both searchers can be counted on different subtrees while the
  root or a son waits to be rebuilt; three operations are one before, one during
  (logged) and one after a rebuild.
* `loc_registration`: the second initial pose can come at each place of the thread
  after the first has been taken, and the cloud is refilled once while it may be copied.
* `nav_commands`: three commands are one overtaken, one refused and one driven to;
  three rows have both parities with an even row on either side of an odd one. Legs of
  up to three columns cut corners; on the map the robot drives on, a leg touches an
  unknown cell that it may plan anew from.

*Deadlock* is checked for the tree's threads, whose rebuild thread polls for
ever, and for `scan_handlers`, where a callback that has ended takes the next
message. The other systems really may stop: the pipeline and `PubHandler` after
the join or with no lidar sending, the localisation after a shutdown, the filter
and the tree at the bound on their operations, and each of them with nobody
outside doing anything more (the bounds on frames, stamps, poses, commands and
reports). That they do not stop half way is what their liveness properties say.

*Fairness.* Threads run (`WF` of their steps); a timer or an executor calls what
is due; a callback that was entered runs to its end (`scan_handlers`). Locks get `SF`
where a waiting thread competes with one that takes the
lock again and again: the rebuild thread sleeps between polls and drains, and
the localisation thread copies a cloud between registrations, so the lock is
free for long times, though nothing in the code makes it fair. In `PubHandler`
the wait ends after 500 ms at the latest, which is why `Uninit` returns although
it does not notify. Nobody promises
that a lidar sends frames, that a user gives a pose or that the node is
stopped. In `LivoxConfig` the SDK answers each request in the end and timeouts
are few; in `NavManager` and `NavStack` Nav2 ends a goal it drives to, by arriving or
by giving up.

## 4. Where the code disagrees with what it says

For each of these a property and a configuration are kept
(`tlc -config <file>.cfg <module>` shows the counterexample); the runs of section
3 state what does hold beside them.

| configuration, module | property | what happens |
|---|---|---|
| `IkdLostUpdate`, `IkdTreeRebuild` | `UpdatesReachNewTree` | `Add_Points` tests once that the root is not being rebuilt and then deletes and adds; the deletion can hand the root to the rebuild thread, and the point added next reaches the old tree only |
| `IkdStaleLog`, `IkdTreeRebuild` | `LoggerEmptyAtStart` | an update waiting for the swap is logged before `rebuild_flag` is reset (`ikd_Tree.cpp:352`), and replayed in the next rebuild |
| `IkdDiscarded`, `IkdTreeRebuild` | `DiscardedNodesUnused` | the box search from a root being rebuilt (`:501`) walks nodes that are deleted (`:354`) |
| `IkdUncounted`, `IkdTreeRebuild` | `DiscardedNodesUnsearched` | a nearest-neighbour search reads the boxes of both sons before it counts itself (`ikd_Tree.cpp:1097-1098`), and follows pointers loaded before the swap (`:1103-1108`): nodes that `delete_tree_nodes` frees (`:354`) |
| `LivoxLostAnswer`, `MCLivoxConfig` | `LidarsAlwaysSample` | an answer that comes while another lidar is inserted may find no device (`livox_lidar_callback.cpp:131`, `:164`, `:197`, `:230`) and is dropped: the bit stays set, nothing is asked for again, and the lidar is never published |
| `LioLoopBack`, `LioSync` | `ScanKeepsItsTime` | "clear buffer" clears the scans but not their times |
| `LioUninitialized`, `LioSync` | `PropagationIsComplete` | `last_lidar_end_time_` is read before it is written (`IMU_Processing.hpp:249`) |
| `LioNoTransform`, `LioSync` | `TooFewPointsStillPublish` | before the first map a sparse scan returns without a transform (`laserMapping.cpp:1020`) |
| `FilterSphere`, `IteratedFilter` | `SphereFollowsState` | at the end of an update the S2 block is transported along the last correction from `x_propagated`; `x_before`, computed as the start of that correction, is used in none of the seven (`esekfom.hpp:494`/`:554`, ..., `:1816`/`:1879`) |
| `LocLostPose`, `GlobalLocalization` | `UserPoseIsKept` | an initial pose during the unlocked copy at `global_localization.cpp:754` is overwritten |
| `LocTwoReads`, `GlobalLocalization` | `PoseAndTransformAgree` | pose and transform come from two reads of `mat_odom2map_` (`:478`, `:488`) |
| `NavCorners`, `MCNavStack` | `CornersAreNotCut` | `nav2_custom_planner.hpp:61` says that `isSightValid` keeps from cutting inner corners; the line of sight looks at one cell a column, and the poses on the straight leg (`nav2_custom_planner.cpp:154-164`) lie in others too: from (0,0) to (2,1) past a lethal (1,0) |
| `NavOvertaken`, `NavManager` | `ArrivalReportsItsMode` | the mode published on arrival is the one commanded last, not the one of the waypoint reached |

`MapIsExact` and `ReplayCatchesUp` are stated for behaviours without these races
(`Clean`), `ReportedLidarsSample` for lidars none of whose answers is ignored,
`PlanIsClear` for the cells that a leg passes nearest to in each column, `UserPoseIsKept` in `loc_registration` with `PoseDuringCopy = FALSE`, and
`lio_gaps` with `LoopBack = FALSE`.

Others were met while modelling and are part of the models:

* `StrayAccessesAreKnown` lists what `give_feature` touches outside its line: a
  plane that reaches the end marks the entry behind it (`preprocess.cpp:632-640`),
  the search for a first far point has no bound (`:602`), an empty Ouster line
  indexes -1. `disB` is never set (`:14-15` sets `disA` twice).
* A frame runs on when the packets with the closing stamp are lost; `SingleLossIsAbsorbed`
  says how far.
* A search of `CacheIndex` during an insertion can cost a configured lidar a frame:
  only while a lidar without configuration is being added, says `RefusedOnlyForStrangers`.
* The first scan, and scans before there is a map, get no odometry; with a map every scan
  gets that of its end (`OdometryOfEachScan`).
* A step of the search to a diagonal neighbour cuts corners as well, past two obstacle
  cells even; `CornersAreNotCut` leaves single steps out.
* An arrival can be reported beyond an obstacle that is one cell thick: a leg cuts a
  corner of it, and the next plan starts in the obstacle, unasked, and leads out on the other
  side. `ArrivalsAreReachable` says that no more than that happens.
* An update of the filter whose last iteration finds no measurement leaves the
  covariance in the tangent space of an earlier state (`CovarianceFollowsState`), and one
  whose last correction did not start where it began leaves the S2 block skewed.
* A deletion by downsampling that covers a whole subtree drops points deleted
  earlier from the record of removed points (`RecordedOnce` is the half that holds).

## 5. Proofs

Checked by `tlapm` for all values of the constants that satisfy the modules'
assumptions.

**PointCloudPipelineProofs.** `IInv` = `TypeOK` and five parts: the frames still to
be stored fit in their bound; the count is at most one and zero while the
producer is about to signal; the poll thread's index names a lidar inside the
loop; rings are allocated before they are used, and without a store buffer both
threads read the same index; a ring never holds more than `Size` frames, one
less while one is being stored; and `WakeupCovers`, the strengthening of
`NoLostWakeup`. The last cannot be proved alone: that the poll thread's scan
*will* come to a lidar needs its index in range, and that a skipped signal is no
loss needs the count to be positive when it was read *or* the scan still
to come. `NoSlotRace` needs arithmetic modulo the index range: `RingBound` and
the divisibility of `IndexRange` by `Size` give two indices that differ by
less than `Size` different slots (`SlotDistinct`). Theorems: `PipelineInvariant`,
`TypeCorrect`, `SemaphoreBounded`, `NoWakeupIsLost` (for `~StoreBuffer`),
`SlotsDoNotRace`.

The refinement of `FrameFifo` (`PipelineImplementsFifo`) rests on `FInv`: `IInv`, and where
frames are. What a ring holds, the poll thread has in hand, or was published has been
stored whole and before the frame being stored (`Whole`), so the numbers of frames grow
along the queue and a new one may be accepted; the slot being written is none of the
queue's, and what has been read of a slot is what is in it (`WrittenInParts`,
`ReadInParts`). Then the store of `wr_idx` is `Accept`, that of `rd_idx` is `Take`, the
publication is `Deliver`, and every other step leaves the queue as it is. It holds with
the store buffer and without.

**DriverProofs** extends `DriverStart` and `LivoxConfig` and has a section for each.
`SInv` adds to types and the three properties that points and samples are taken only
after the loop over the configuration (`ThreadAfterDevices`), so that extrinsics are
added while nothing has been transformed or refused, and afterwards a configured
lidar's parameter is there when its first packet is; and that a lidar with extrinsics
has an index and a lidar being added is a stranger (`DevicesAreKnown`), so that only an
insertion that goes on at that moment can hide it. `FreeIndexIsFree` is the lemma about `GetFreeIndex`. Theorems:
`DevicesStayRight`, `RefusalsAreExplained`, for any lidars, configuration and number of
indices. `CInv`: while no handler runs, a configured key is accepted or its bit is set
for every lidar that has been reported; while one runs, or it is among those still to
be requested. The last success finds no bit and, holding the mutex, no handler, so all
keys are accepted (`NoUnconfiguredData`). `RequestsAreOut` counts requests: a report asks
for a key at most once, and a key whose bit is set has a request out that will be
answered, unless the lidar has refused one or an answer to it was ignored
(`RequestsStayOut`); while a lidar is inserted the reporting thread handles no report, so the
requests counted are all there are.

**PubHandlerProofs.** `PacketsAreKept`: `PInv` = types, `EachPacketOnce` and `NoLostWakeup`
with two facts about the clock (a lidar has sent no more packets than there were ticks,
which keeps the numbers in range, and the timer is as many intervals from its start as
it closed frames, never ahead of the clock). `FramesStayTimely` needs two more: until a
packet without synchronisation comes, the thread finds the flag set (`InSync`), so each
packet is judged by its stamp; and a dense cloud left open has not come to the
millisecond that closes it (`CloudsAreYoung`). That a packet is at most two ticks
after the one before, with at least two ticks to a millisecond, makes it land in
that millisecond or before: the number lemmas are about remainders of quotients.

**IkdTreeRebuildProofs.** Searches first. `SInv` = types, `CounterIsExact` and two parts:
a search is counted on nodes it is in only, and on each that was to be rebuilt when it
came there, and nobody is counted while searches are locked out (`SearchInv`); a range
search above the sons has had its nodes replaced only by a rebuild of the root, and one
that holds the mutex only while the swap waits for it (`RangeInv`). The counter is the
cardinality of a set of pairs, which each search changes by one element
(`SearchSafety`). What it says is about nodes a search is counted on: of pointers loaded and
boxes read without being counted nothing of the kind holds (`IkdUncounted`). For `RebuildExactness` the invariant is `IInv`: `SInv`; what a rebuild has in
hand at each of its places (`RebuildInv`); that the mapping thread, where it waits,
waits for the subtree being rebuilt (`MainInv`); that what is replayed on a son is of that
son (`LogInv`), since a replay does not ask; `ReplayCatchesUp`; and, as long as nothing has
raced (`Clean`), that the tree with what the mapping thread has left to do is what is
expected (`ContentInv`). Each is needed for the next: the swap keeps the contents because the log
is empty and has been replayed, and the replay is right because each operation
below a subtree being rebuilt went through the log. Lemmas about `RunAll` replace an
induction: an operation more is a step more, and one that has been run first may be
forgotten.

**LocalMapProofs.** Under `CubeAssumption` and for any number of axes, `LInv` = types,
`CubeSide` (the cube keeps its length), `NothingYet` (no map before there is a
cube), `LidarInCube`, `MapInCube`. The first two make the last two inductive: moving
the cube away from one side leaves room to the other only if its length is
known, and the slabs deleted cover what it leaves only if the move is
shorter than it. Theorems: `LidarStaysInCube`, `MapStaysInCube`.

**LioMappingProofs.** The filter first, alone (`FilterSpec`). `FilterInv` = types; bounds of the
loop's counters; in the loop the covariance is one correction behind the state
(`CovarianceIsBehind`: each iteration starts again from `P_propagated`, so what it is
behind by is the last correction and not the sum); a measurement that is missing, and
not looked for again, is remembered (`MissesAreRemembered`); and `MatchIsDue`, which
ties `converge`, `t` and the count of iterations together: after a small correction
there is a new match or has been one, and the modified update has one before it in
its last iteration. From it the three action properties (`CovarianceStaysWithState`,
`UpdatesFold`, `UpdatesRematch`) for all seven updates at once: `IterateIsRight` is about an
iteration with any flags. Then the node. `NodeInv` = `FilterInv`, types, `NeighboursAreInMap`, and
that while a scan is worked on the cube has been placed and what the lidar sees is
within the margin of where the map was segmented (`ScanIsInReach`). Neighbours of an earlier scan stay
in the vector, so `NeighboursAreInMap` needs `MatchIsDue`: the first iteration searches. Each
step is then one of `LocalMap` or none (`NodeImplementsLocalMap`), and `LocalMapProofs`, instantiated
with one axis, gives the cube (`NodeMapIsSound`). `ScansMapWherePublished` is the action property of
`map_incremental`. That the corrections keep the lidar within the margin is in the guards
of `LioMapping`, as section 2.7 says: the code takes it for granted.

**LioFrontProofs** has a part for each half of the node's front, and extends `LioSync` and
`Preprocess`.

*LioSync.* Everything is proved for `~LoopBack`, that is while no scan's
stamp goes back: after that scans no longer have their times (`LioLoopBack`, section 4). `IInv` = types,
`WindowsAreDisjoint`, `PropagationFollowsScans`, `EveryScanIsUndistorted` and four parts, all
of them relative to the end of the scan measured last (`done.to`). Scans that wait have
their times, are a period apart, and start at that end or later (`ScansAreApart`);
samples that wait lie behind it, in order and at most `MaxGap` apart (`SamplesAreDense`); what
has been pushed is the first scan that waits (`PushedIsFirst`); the filter has come to that end,
and its last sample lies before it (`FilterIsBehind`). The first two make the measurement's
window disjoint from the next: `MeasuredSamples` is about what the loop over the samples takes and
what it leaves. That the filter moves by the time between the ends is
`PropagatedToIsDistance`: over samples in order, the sum over the loop's cases telescopes. A
scan whose measurement has no sample is told apart by the gap: samples dense from one end to
the next leave none out of a longer window, which is what `EveryScanIsUndistorted`
needs. Theorems: `SyncInvariant`, `EachSampleOnce`, `ScansAreUndistorted`, `OdometryGoesOn`.

*Preprocess.* `ProcessInv` holds for every lidar and every set of scans. `StagesAre` says in which stage
lines are classified and the output is empty; `LineIs` and `IndexIs` how far the index of each pass
gets: `Planes` jumps to the end of a plane, which `PlaneJudgeIs` bounds, the passes over edges and small
planes begin 3 and 1 behind `head` and stop that far before the end, and so leave nothing
of `StrayAccessesAreKnown` to prove but what `Planes` and `StartLine` touch. `TypesAre`: a blind point keeps
the type `Nor`; so the run that `last_surface` began holds none (`RunIs`), and neither does
the mean over it. What is put out are runs of points of the scan (`SurfIs`), and it ends
before `Reached`, the first point of the line not put out yet, or on a line that is
done (`LinesAre`): a run that is appended follows all that is of its line (`RunFollows`). `IsPoint`
ties a point's time to its index, or, from the yaw, to what has been turned since the
first point of its line: `AngleIs` and `SinceFirstStep` say what one angle is worth while the lidar turns as
`Rotating` says, and `TimeFromYawIsTurned` adds them up. Induction over the points
is done on sets of numbers with a least member. Theorems: `OutputIsOfScanAlways`,
`StrayAccessesAreKnownAlways`, `TimesFromYawAreExactAlways`.

**NavigationProofs** has a section for each of planner, manager, both together, and
localisation; it extends `NavStack` and `GlobalLocalization`.

*Planner.* For a map of any size with any costs, `createPlanIsRight`: there is a plan just when the
goal can be reached, it leads from the start to the goal, and each leg is clear as
`LegIsClear` says. The search
keeps up `SearchState`: every node's path is a way over valid neighbours from the
start; the start, and every valid neighbour of a closed cell, is closed or waits in the
queue; the goal is not closed. So when the queue is empty the closed cells let nothing
out, and the goal, not being among them, cannot be reached: `Reachable`, which
the property defines by growing a set, is the least set with the start that no free
neighbour leaves (`ReachableIsLeastEnclosed`; that neighbours of neighbours lead back is
`NeighboursAreAdjacent`, where the parity of rows enters). No cost enters, so neither the
heuristic nor cells closed too early matter. `Rank`, nodes that wait and six for each
open cell, falls with each turn, so `MaxTurns` turns empty the queue
or find a path (`SearchEnds`). The corners are places ever further along the path, each the
next or in sight (`CornerPlaces`). That a line of sight is clear is arithmetic of the line: k
cells along, `LineIterator` is at the cell it is `Nearest` to across, and what the leg touches
there is that cell or one beside it (`NearestIsNear`, `LinePassesNearest`). Induction over turns and corners is done on
sets of numbers with a least member, since a function defined recursively is one
that satisfies its equation (`Iterates`).

*Manager.* `NInv` adds that a goal is numbered with a mode already taken and, if it is
the last one, is for the mode kept: a mode taken gets a number above every goal's, and
`send_nav_goal` runs before the next is taken (`LatestArrival`).

*Both.* `SInv` = `NInv` and where the robot is: in `EverReachable`, the least set with the first
waypoint that neither a cell free on some costmap touches from outside nor a cell lies
outside beside a free one (`Surrounded`). A leg that starts in such a set stays in it with all
cells it touches (`LegStays`): the line goes from free cell to free cell, one along and at
most one across, and what it touches lies beside one of them. One goal at most is driven to
(`OneIsActive`); the plan belongs to it (`PlanIsOfActiveGoal`) and was made from a cell in that
set, so its poses are there (`PosesStay`), and what has succeeded too (`SuccessIsReachable`).
Theorems: `PlansRightAlways`, `ArrivalsReachable`. `StackImplementsManager`: a step of the
composition is one of `NavManager` or leaves its variables alone, so what is proved of the
manager holds there, where the run checks it.

*Localisation.* `LInv` ties the transform to the thread's place: from
guess to store it is the guess, because a callback stores only while the lock is
free; after two successes in a row it is a good fit or the user's. From it
`NoUpdateIsLost` and `InitializedIsTrusted`. `UserPoseStays` adds the assumption
`~PoseDuringCopy` and an invariant for the places of guess and result. `WInv`: the queue
holds the scans received last, and the cloud is, while a callback fills it, the front
of a full queue, and otherwise whole (`WholeScansAreRegistered`).

*Only model-checked*:

* liveness (`BacklogDrains`, `ShutdownStopsOnlyInWait`, `EverybodyGetsOn`,
  `ThreadIsNotLost`, `EverybodyEnds`, ...), which under fairness is out of the prover's
  reach;
* `IkdTree` and its refinement of `PointMap` (`NodesAreRight`, `SearchesAreExact`,
  `ImplementsMap`): trees are recursive records, its operators `RECURSIVE`, and what they
  compute would need an induction over trees.

## 6. Not modelled

* *Numbers*: gains, residuals and manifolds of the filter, the plane fits, the
  registration and its conversions (Open3D), the coordinates of points. The models
  take their outcomes as choices.
* *The controller plug-in*: a threshold on angles with hysteresis in floating
  point. Its lookahead does not look at the costmap.
* *Code nothing calls*: `Delete_Points` and `Add_Point_Boxes` of the tree,
  `CacheIndex::ResetIndex`. *Code the configurations switch off*: self
  synchronisation, `filter_odom2map`, `publish_map` (whose cloud grows without
  bound), and publishing PCL messages (`xfer_format` 2), whose loop never pops.
* *Of the tree's two threads*: sizes, and with them the unlocked reset of `Rebuild_Ptr`
  when the node becomes small, a `working_flag` left by an early return, and the log's
  capacity of a million.
* *Ends of processes*: `thread_loc_` is never joined (`global_localization.cpp:414-419`), so
  destroying the node terminates the process; `EverybodyEnds` is about the thread's own loop.
* *Switches of what is published*: `map_incremental` and the odometry do not depend on
  `dense_pub_en` (`laserMapping.cpp:493`), which chooses the cloud that is published.
* *Parameters, publishers, launch files, scripts*: read or started once.

## 7. Plan

1. Done: the modules of section 2, in the order of what would hurt most, with the
   proofs of section 5.
2. Done: proofs of the safety of every component but `IkdTree`.
