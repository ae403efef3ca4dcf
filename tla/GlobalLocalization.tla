--------------------------- MODULE GlobalLocalization ---------------------------
(***************************************************************************)
(* The localisation node: its callbacks, of which the executor runs one at *)
(* a time (they share the default callback group), and thread_loc_, which  *)
(* registers the latest scans against the map.  What they share is the     *)
(* transform mat_odom2map_, written by the thread and by an initial pose   *)
(* under lock_mat_odom2map_, and read by the odometry callback without it. *)
(*                                                                         *)
(* A pose is the place it puts the robot at and where it comes from.       *)
(* Places are further apart than a registration or the robot moves a pose, *)
(* so a registration keeps the place it starts from.  A matrix read while  *)
(* it is written may hold parts of both values: it is then Torn.           *)
(***************************************************************************)
EXTENDS Naturals, Sequences, SequencesExt

CONSTANTS
  UserPlaces,     \* places an initial pose may be given at
  MaxPoses,       \* bound on the initial poses given
  queue_maxsize_, \* scans that make up a cloud to register
  MaxScans,       \* bound on the scans received
  PoseDuringCopy  \* whether an initial pose may come while the configured one is copied

ASSUME LocAssumption ==
  /\ UserPlaces \cap {"identity", "config", "torn", "unset"} = {}
  /\ MaxPoses \in Nat /\ MaxScans \in Nat /\ queue_maxsize_ \in Nat \ {0}
  /\ PoseDuringCopy \in BOOLEAN

VARIABLES
  mat_odom2map_, mat_initialpose_,
  mat_baselink2map_,   \* the place of the pose last computed from odometry
  odometry_new,        \* whether timestamp_odom_ differs from the thread's time_last
  que_pcd_scan_, pcd_scan_cur_,
  loc_initialized_, loc_fitness_,
  ok,                  \* rclcpp::ok()
  cb,                  \* the callback in progress and how far it is
  pc,                  \* where thread_loc_ is
  pcd_scan,            \* its copy of pcd_scan_cur_
  submap,              \* the place map_fine_crop is cropped around
  guess, result,       \* reg_matrix before and after the registration; NoPose out of scope
  count_success,
  published,           \* the pose and the transform published with the last odometry
  poses, scans,        \* numbers of initial poses and scans so far
  updated              \* place of the last "*** update mat_odom2map_" (history)

poseVars == <<mat_odom2map_, mat_initialpose_>>
odomVars == <<mat_baselink2map_, published>>
scanVars == <<que_pcd_scan_, pcd_scan_cur_, scans>>
locVars == <<loc_initialized_, loc_fitness_>>
threadVars == <<pc, pcd_scan, submap, guess, result, count_success>>
userVars == <<poses, updated>>
nodeVars == <<poseVars, odomVars, odometry_new, scanVars, locVars, ok, cb, threadVars, userVars>>

Given(place) == [place |-> place, from |-> "given"]
Registered(place, fitness) ==
  [place |-> place, from |-> IF fitness = "poor" THEN "poor" ELSE "good"]
Torn == [place |-> "torn", from |-> "torn"]
NoPose == [place |-> "unset", from |-> "unset"]

Places == UserPlaces \cup {"identity", "config", "torn"}
Pose == [place : Places, from : {"given", "poor", "good", "torn"}]
\* Against the thresholds, and above the 0.99 from which initial poses are ignored.
Fitness == {"poor", "good", "perfect"}

LocInit ==
  /\ mat_odom2map_ = Given("identity") /\ mat_initialpose_ = Given("config")
  /\ mat_baselink2map_ = "unset" /\ odometry_new = FALSE
  /\ que_pcd_scan_ = <<>> /\ pcd_scan_cur_ = <<>>
  /\ loc_initialized_ = FALSE /\ loc_fitness_ = "poor"
  /\ ok = TRUE /\ cb = "none"
  /\ pc = "wait_odometry" /\ pcd_scan = <<>> /\ submap = "unset"
  /\ guess = NoPose /\ result = NoPose /\ count_success = 0
  /\ published = [pose |-> Given("identity"), transform |-> Given("identity")]
  /\ poses = 0 /\ scans = 0 /\ updated = "none"

\* thread_loc_ holds lock_mat_odom2map_ from the guess to the stored result; what the
\* callbacks do under it is one step.
Storing == pc \in {"init_store", "store"}
Locked == Storing \/ pc \in {"init_register", "register"}

------------------------------------------------------------------------------
(***************************************************************************)
(* The callbacks.  After the shutdown none begins.                         *)
(***************************************************************************)
Begin == ok /\ cb = "none"

\* What a read of mat_odom2map_ without its lock may return.
Read == IF Storing THEN {mat_odom2map_, result, Torn}
        ELSE IF pc = "copying" THEN {mat_odom2map_, guess, Torn}
        ELSE {mat_odom2map_}

\* CallbackBaselink2Odom stores the stamp, then the pose, then publishes the transform.
OdometryStamp ==
  /\ Begin /\ cb' = "odometry" /\ odometry_new' = TRUE
  /\ UNCHANGED <<poseVars, odomVars, scanVars, locVars, ok, threadVars, userVars>>

OdometryPose ==
  /\ cb = "odometry" /\ cb' = "pose"
  /\ \E pose \in Read : /\ mat_baselink2map_' = pose.place
                        /\ published' = [published EXCEPT !.pose = pose]
  /\ UNCHANGED <<poseVars, odometry_new, scanVars, locVars, ok, threadVars, userVars>>

OdometryTransform ==
  /\ cb = "pose" /\ cb' = "none"
  /\ \E transform \in Read : published' = [published EXCEPT !.transform = transform]
  /\ UNCHANGED <<poseVars, mat_baselink2map_, odometry_new, scanVars, locVars, ok,
                 threadVars, userVars>>

\* CallbackScan, when the queue is full: under lock_scan_ pcd_scan_cur_ is cleared and
\* filled from the queue scan by scan, then the oldest gives way to the newest.
ScanQueued ==
  /\ Begin /\ scans < MaxScans /\ Len(que_pcd_scan_) < queue_maxsize_
  /\ que_pcd_scan_' = Append(que_pcd_scan_, scans) /\ scans' = scans + 1
  /\ UNCHANGED <<poseVars, odomVars, odometry_new, pcd_scan_cur_, locVars, ok, cb,
                 threadVars, userVars>>

ScanClear ==
  /\ Begin /\ scans < MaxScans /\ Len(que_pcd_scan_) >= queue_maxsize_
  /\ cb' = "scan" /\ pcd_scan_cur_' = <<>>
  /\ UNCHANGED <<poseVars, odomVars, odometry_new, que_pcd_scan_, scans, locVars, ok,
                 threadVars, userVars>>

ScanAppend ==
  /\ cb = "scan" /\ Len(pcd_scan_cur_) < Len(que_pcd_scan_)
  /\ pcd_scan_cur_' = Append(pcd_scan_cur_, que_pcd_scan_[Len(pcd_scan_cur_) + 1])
  /\ UNCHANGED <<poseVars, odomVars, odometry_new, que_pcd_scan_, scans, locVars, ok, cb,
                 threadVars, userVars>>

\* Mutant: the oldest scan stays in the queue.
ScanEndKeepsOldest ==
  /\ cb = "scan" /\ Len(pcd_scan_cur_) = Len(que_pcd_scan_) /\ cb' = "none"
  /\ que_pcd_scan_' = Append(que_pcd_scan_, scans) /\ scans' = scans + 1
  /\ UNCHANGED <<poseVars, odomVars, odometry_new, pcd_scan_cur_, locVars, ok,
                 threadVars, userVars>>

ScanEnd ==
  /\ cb = "scan" /\ Len(pcd_scan_cur_) = Len(que_pcd_scan_) /\ cb' = "none"
  /\ que_pcd_scan_' = Append(Tail(que_pcd_scan_), scans) /\ scans' = scans + 1
  /\ UNCHANGED <<poseVars, odomVars, odometry_new, pcd_scan_cur_, locVars, ok,
                 threadVars, userVars>>

\* CallbackInitialPose: a pose is ignored once the localisation is sure of its own.
InitialPose(place) ==
  /\ Begin /\ poses < MaxPoses /\ ~(loc_initialized_ /\ loc_fitness_ = "perfect")
  /\ pc = "copying" => PoseDuringCopy
  /\ mat_initialpose_' = Given(place) /\ cb' = "initialpose" /\ poses' = poses + 1
  /\ UNCHANGED <<mat_odom2map_, odomVars, odometry_new, scanVars, locVars, ok,
                 threadVars, updated>>

\* Mutant: the pose is stored without the lock.
StoreInitialPose(free) ==
  /\ cb = "initialpose" /\ free /\ cb' = "none"
  /\ mat_odom2map_' = mat_initialpose_ /\ updated' = mat_initialpose_.place
  /\ UNCHANGED <<mat_initialpose_, odomVars, odometry_new, scanVars, locVars, ok,
                 threadVars, poses>>
InitialPoseUnlocked == StoreInitialPose(TRUE)

InitialPoseStore == StoreInitialPose(~Locked)

Shutdown ==
  /\ ok /\ ok' = FALSE
  /\ UNCHANGED <<poseVars, odomVars, odometry_new, scanVars, locVars, cb, threadVars,
                 userVars>>

------------------------------------------------------------------------------
(***************************************************************************)
(* thread_loc_.                                                            *)
(***************************************************************************)
shared == <<odomVars, scanVars, ok, cb, userVars>>
OutOfScope == guess' = NoPose /\ result' = NoPose

\* Mutant: the wait does not look at rclcpp::ok().
WaitForOdometryForever ==
  /\ pc = "wait_odometry" /\ odometry_new /\ pc' = "wait_scan"
  /\ UNCHANGED <<shared, poseVars, odometry_new, locVars, pcd_scan, submap, guess,
                 result, count_success>>

WaitForOdometry ==
  /\ pc = "wait_odometry" /\ (odometry_new \/ ~ok) /\ pc' = "wait_scan"
  /\ UNCHANGED <<shared, poseVars, odometry_new, locVars, pcd_scan, submap, guess,
                 result, count_success>>

\* The test takes lock_scan_, which a callback holds while it fills pcd_scan_cur_.
WaitForScan ==
  /\ pc = "wait_scan" /\ (~ok \/ (cb # "scan" /\ pcd_scan_cur_ # <<>>)) /\ pc' = "copy"
  /\ UNCHANGED <<shared, poseVars, odometry_new, locVars, pcd_scan, submap, guess,
                 result, count_success>>

\* mat_odom2map_ = mat_initialpose_, without the lock.
Copy ==
  /\ pc = "copy" /\ pc' = "copying" /\ guess' = mat_initialpose_
  /\ (cb = "initialpose" => PoseDuringCopy)
  /\ UNCHANGED <<shared, poseVars, odometry_new, locVars, pcd_scan, submap, result,
                 count_success>>

Copied ==
  /\ pc = "copying" /\ pc' = "init"
  /\ mat_odom2map_' \in (IF mat_initialpose_ = guess THEN {guess}
                         ELSE {guess, mat_initialpose_, Torn})
  /\ OutOfScope
  /\ UNCHANGED <<shared, mat_initialpose_, odometry_new, locVars, pcd_scan, submap,
                 count_success>>

\* The scans and the pose to crop around, which the odometry callback may be writing.
\* Mutant: lock_scan_ is not taken.
TakeScanUnlocked(next) ==
  /\ pcd_scan_cur_ # <<>>
  /\ pcd_scan' = pcd_scan_cur_ /\ pc' = next
  /\ submap' \in {mat_baselink2map_} \cup (IF cb = "odometry" THEN {"torn"} ELSE {})

TakeScan(next) ==
  /\ cb # "scan" /\ pcd_scan_cur_ # <<>>
  /\ pcd_scan' = pcd_scan_cur_ /\ pc' = next
  /\ submap' \in {mat_baselink2map_} \cup (IF cb = "odometry" THEN {"torn"} ELSE {})

\* The map is cropped around the pose; in Localization only when it has moved.
InitScan ==
  /\ pc = "init" /\ ok /\ TakeScan("init_lock")
  /\ UNCHANGED <<shared, poseVars, odometry_new, locVars, guess, result, count_success>>

\* lock_mat_odom2map_ is taken, which no callback keeps.
Guess(from, to) ==
  /\ pc = from /\ pc' = to /\ guess' = mat_odom2map_
  /\ UNCHANGED <<shared, poseVars, odometry_new, locVars, pcd_scan, submap, result,
                 count_success>>

\* Against a part of the map that is somewhere else nothing fits.
Fits(fitness) == submap # guess.place => fitness = "poor"

\* LocalizationInitialize takes every result, and ends with the second success in a row.
InitRegister(fitness) ==
  /\ pc = "init_register" /\ Fits(fitness) /\ pc' = "init_store"
  /\ result' = Registered(guess.place, fitness)
  /\ count_success' = IF fitness = "poor" THEN 0 ELSE count_success + 1
  /\ UNCHANGED <<shared, poseVars, odometry_new, locVars, pcd_scan, submap, guess>>

InitStore ==
  /\ pc = "init_store" /\ mat_odom2map_' = result
  /\ pc' = IF count_success >= 2 THEN "initialized" ELSE "init"
  /\ OutOfScope
  /\ UNCHANGED <<shared, mat_initialpose_, odometry_new, locVars, pcd_scan, submap,
                 count_success>>

InitShutdown ==
  /\ pc = "init" /\ ~ok /\ pc' = "initialized"
  /\ UNCHANGED <<shared, poseVars, odometry_new, locVars, pcd_scan, submap, guess,
                 result, count_success>>

\* time_last starts three seconds before the stamp, and last_loc_ far from any place.
Initialized ==
  /\ pc = "initialized" /\ pc' = "loop"
  /\ loc_initialized_' = TRUE /\ odometry_new' = TRUE /\ submap' = "unset"
  /\ UNCHANGED <<shared, poseVars, loc_fitness_, pcd_scan, guess, result,
                 count_success>>

\* Only new odometry is acted on; the thread then sleeps until it is time.
NewOdometry ==
  /\ pc = "loop" /\ ok /\ odometry_new /\ odometry_new' = FALSE /\ pc' = "scan"
  /\ UNCHANGED <<shared, poseVars, locVars, pcd_scan, submap, guess, result,
                 count_success>>

Scan ==
  /\ pc = "scan" /\ TakeScan("lock")
  /\ UNCHANGED <<shared, poseVars, odometry_new, locVars, guess, result, count_success>>

\* A result is taken only when it fits better than the threshold.
\* Mutants: it is tried again under the lock until it fits; it is always taken.
RegisterAgain(fitness) ==
  /\ pc = "register" /\ Fits(fitness)
  /\ loc_fitness_' = fitness
  /\ IF fitness = "poor" THEN UNCHANGED <<pc, result>>
     ELSE pc' = "store" /\ result' = Registered(guess.place, fitness)
  /\ UNCHANGED <<shared, poseVars, odometry_new, loc_initialized_, pcd_scan, submap, guess,
                 count_success>>

RegisterAll(fitness) ==
  /\ pc = "register" /\ Fits(fitness)
  /\ loc_fitness_' = fitness /\ result' = Registered(guess.place, fitness) /\ pc' = "store"
  /\ UNCHANGED <<shared, poseVars, odometry_new, loc_initialized_, pcd_scan, submap,
                 guess, count_success>>

Register(fitness) ==
  /\ pc = "register" /\ Fits(fitness)
  /\ loc_fitness_' = fitness
  /\ IF fitness = "poor"
       THEN pc' = "loop" /\ OutOfScope
       ELSE pc' = "store" /\ result' = Registered(guess.place, fitness) /\ UNCHANGED guess
  /\ UNCHANGED <<shared, poseVars, odometry_new, loc_initialized_, pcd_scan, submap,
                 count_success>>

Store ==
  /\ pc = "store" /\ mat_odom2map_' = result /\ pc' = "loop" /\ OutOfScope
  /\ UNCHANGED <<shared, mat_initialpose_, odometry_new, locVars, pcd_scan, submap,
                 count_success>>

LoopShutdown ==
  /\ pc = "loop" /\ ~ok /\ pc' = "done"
  /\ UNCHANGED <<shared, poseVars, odometry_new, locVars, pcd_scan, submap, guess,
                 result, count_success>>

LocalizationInitialize ==
  \/ InitScan \/ Guess("init_lock", "init_register")
  \/ \E fitness \in Fitness : InitRegister(fitness)
  \/ InitStore \/ InitShutdown

Localization ==
  \/ WaitForOdometry \/ WaitForScan \/ Copy \/ Copied
  \/ LocalizationInitialize
  \/ Initialized \/ NewOdometry \/ Scan \/ Guess("lock", "register")
  \/ \E fitness \in Fitness : Register(fitness)
  \/ Store \/ LoopShutdown

------------------------------------------------------------------------------
LocNext ==
  \/ OdometryStamp \/ OdometryPose \/ OdometryTransform
  \/ ScanQueued \/ ScanClear \/ ScanAppend \/ ScanEnd
  \/ \E place \in UserPlaces : InitialPose(place)
  \/ InitialPoseStore
  \/ Shutdown
  \/ Localization

LocSpec == LocInit /\ [][LocNext]_nodeVars

\* Callbacks and the thread run to their end.  lock_mat_odom2map_ is free for as long as
\* it takes to copy a cloud between two registrations, so a waiting callback gets it.
LocFairSpec ==
  /\ LocSpec
  /\ WF_nodeVars(OdometryPose) /\ WF_nodeVars(OdometryTransform)
  /\ WF_nodeVars(ScanAppend) /\ WF_nodeVars(ScanEnd)
  /\ SF_nodeVars(InitialPoseStore)
  /\ WF_nodeVars(Localization)

------------------------------------------------------------------------------
(***************************************************************************)
(* Properties.                                                             *)
(***************************************************************************)
\* Every variable has its type: the scans to register are never more than a queue
\* holds, and a pose that is torn is only ever read, never stored.
LocTypeOK ==
  /\ {mat_odom2map_, mat_initialpose_} \subseteq Pose \ {Torn}
  /\ {guess, result} \subseteq (Pose \cup {NoPose}) \ {Torn}
  /\ {published.pose, published.transform} \subseteq Pose
  /\ {mat_baselink2map_, submap} \subseteq Places \cup {"unset"}
  /\ {odometry_new, loc_initialized_, ok} \subseteq BOOLEAN /\ loc_fitness_ \in Fitness
  /\ Len(que_pcd_scan_) <= queue_maxsize_ /\ Len(pcd_scan_cur_) <= queue_maxsize_
  /\ cb \in {"none", "odometry", "pose", "scan", "initialpose"}
  /\ count_success \in 0 .. 2 /\ updated \in UserPlaces \cup {"none"}

\* No update of the transform is lost to a registration: what it corrects and then
\* writes back is still the transform it started from.
RegistrationBuildsOnItsGuess == Locked => mat_odom2map_ = guess

\* An initial pose that has been reported as taken is the one localisation goes on
\* from, until the next one.
UserPoseIsKept ==
  updated # "none" /\ cb # "initialpose" => mat_odom2map_.place = updated

\* Once initialised, the transform comes from a registration that fitted or from the
\* user, never from the configuration or from a poor fit.
InitializedPoseIsTrusted ==
  loc_initialized_ /\ ok =>
    mat_odom2map_.from = "good" \/ mat_odom2map_ = Given(updated)

\* What is registered is a whole cloud: queue_maxsize_ scans in a row.
ScanIsWhole ==
  pcd_scan # <<>> =>
    /\ Len(pcd_scan) = queue_maxsize_
    /\ \A i \in 1 .. Len(pcd_scan) : pcd_scan[i] = pcd_scan[1] + i - 1

\* A callback ends, so the executor goes on to the next: one that waits for the
\* transform gets it though the thread registers without a pause.
CallbacksEnd == cb # "none" ~> cb = "none"

\* After a shutdown the thread ends, whatever it is waiting for.
ThreadEnds == ~ok ~> pc = "done"

\* "baselink2map = mat_odom2map * mat_baselink2odom": the pose and the transform
\* published with one stamp agree.
PoseAndTransformAgree == cb = "none" => published.pose = published.transform

\* Neither the callbacks nor the thread wait for ever.
EverybodyEnds == CallbacksEnd /\ ThreadEnds
==============================================================================
