------------------------------- MODULE LivoxConfig -------------------------------
(***************************************************************************)
(* How the driver brings a lidar up.  When the SDK reports a lidar, each   *)
(* configured key is requested under config_mutex_ and its bit set in      *)
(* set_bits; each answer comes to a callback on a thread of the SDK, and   *)
(* the one that clears the last bit makes the lidar's data be published    *)
(* (kConnectStateSampling, StartSampling of PointCloudPipeline).  The SDK  *)
(* is external: it may report a lidar again and answers in any order.      *)
(*                                                                         *)
(* A callback whose lidar GetLidarDevice does not find returns at once.    *)
(* That is so only while the reporting thread inserts a lidar without      *)
(* configuration, during which the search, which takes no lock, may miss   *)
(* the lidar (GetIndexFinds of DriverStart).                               *)
(***************************************************************************)
EXTENDS Naturals

CONSTANTS
  Lidars,       \* the lidars of the configuration file
  Configured,   \* Configured[l]: the keys that are not -1 for lidar l
  Refusing,     \* lidars that may answer a key with a failure
  MaxReports,   \* bound on the reports of each lidar
  MaxTimeouts,  \* bound on the requests that time out
  MaxOthers     \* bound on the lidars without configuration that are added

\* The keys, in the order in which they are requested.
Order == [DataType |-> 1, ScanPattern |-> 2, BlindSpot |-> 3, DualEmit |-> 4]
Keys == DOMAIN Order

ASSUME ConfigAssumption ==
  /\ Configured \in [Lidars -> SUBSET Keys] /\ Refusing \subseteq Lidars
  /\ "none" \notin Lidars /\ MaxReports \in Nat /\ MaxTimeouts \in Nat
  /\ MaxOthers \in Nat

VARIABLES
  config_mutex_,   \* the lidar whose report is being handled, or "none"
  todo,            \* the keys that handler has still to request
  set_bits,
  connect_state,
  requests,        \* requests[l][k]: requests for key k that are not answered
  adding_other,    \* the reporting thread is inserting another lidar
  reports, timeouts, others, \* how many there have been
  accepted,        \* accepted[l]: keys the lidar has accepted (history)
  ignored          \* ignored[l]: keys an answer to which was ignored (history)

otherVars == <<adding_other, others, ignored>>
configVars == <<config_mutex_, todo, set_bits, connect_state, requests, reports,
                timeouts, accepted, otherVars>>

ConfigInit ==
  /\ config_mutex_ = "none" /\ todo = {}
  /\ set_bits = [l \in Lidars |-> {}]
  /\ connect_state = [l \in Lidars |-> "Off"]
  /\ requests = [l \in Lidars |-> [k \in Keys |-> 0]]
  /\ reports = [l \in Lidars |-> 0] /\ timeouts = 0
  /\ accepted = [l \in Lidars |-> {}] /\ ignored = [l \in Lidars |-> {}]
  /\ adding_other = FALSE /\ others = 0

------------------------------------------------------------------------------
(***************************************************************************)
(* LidarInfoChangeCallback.                                                *)
(***************************************************************************)
LidarReported(l) ==
  /\ config_mutex_ = "none" /\ ~adding_other /\ reports[l] < MaxReports
  /\ config_mutex_' = l /\ reports' = [reports EXCEPT ![l] = @ + 1]
  /\ todo' = Configured[l]
  /\ UNCHANGED <<set_bits, connect_state, requests, timeouts, accepted, otherVars>>

Set(l) ==
  /\ config_mutex_ = l
  /\ \E k \in todo :
       /\ \A j \in todo : Order[k] <= Order[j]
       /\ set_bits' = [set_bits EXCEPT ![l] = @ \cup {k}]
       /\ requests' = [requests EXCEPT ![l][k] = @ + 1]
       /\ todo' = todo \ {k}
  /\ UNCHANGED <<config_mutex_, connect_state, reports, timeouts, accepted, otherVars>>

\* The mutex is freed.  Attitude, work mode and IMU are requested then, without a bit:
\* what their callbacks do, asking again, changes nothing here.
Release(l) ==
  /\ config_mutex_ = l /\ todo = {} /\ config_mutex_' = "none"
  /\ UNCHANGED <<todo, set_bits, connect_state, requests, reports, timeouts, accepted,
                 otherVars>>

\* A lidar that is not in the configuration is given an index (AddLidarDevice of
\* DriverStart).
OthersKeep == UNCHANGED <<config_mutex_, todo, set_bits, connect_state, requests, reports,
                          timeouts, accepted, ignored>>

OtherReported ==
  /\ config_mutex_ = "none" /\ ~adding_other /\ others < MaxOthers
  /\ adding_other' = TRUE /\ others' = others + 1
  /\ OthersKeep

OtherAdded ==
  /\ adding_other /\ adding_other' = FALSE
  /\ UNCHANGED others /\ OthersKeep

------------------------------------------------------------------------------
(***************************************************************************)
(* The callbacks of the keys.                                              *)
(***************************************************************************)
Answered(l, k) ==
  /\ requests[l][k] > 0 /\ requests' = [requests EXCEPT ![l][k] = @ - 1]

Clear(l, k, free) ==
  /\ free /\ Answered(l, k)
  /\ set_bits' = [set_bits EXCEPT ![l] = @ \ {k}]
  /\ connect_state' = IF set_bits'[l] = {} THEN [connect_state EXCEPT ![l] = "Sampling"]
                      ELSE connect_state
  /\ accepted' = [accepted EXCEPT ![l] = @ \cup {k}]
  /\ UNCHANGED <<config_mutex_, todo, reports, timeouts, otherVars>>

\* Mutant: the callback does not wait for the mutex.
SuccessUnlocked(l, k) == Clear(l, k, TRUE)

Success(l, k) == Clear(l, k, config_mutex_ = "none")

\* A request that has timed out is sent again.  Mutant: it is given up.
TimeoutGivesUp(l, k) ==
  /\ timeouts < MaxTimeouts /\ timeouts' = timeouts + 1 /\ Answered(l, k)
  /\ UNCHANGED <<config_mutex_, todo, set_bits, connect_state, reports, accepted, otherVars>>

Timeout(l, k) ==
  /\ timeouts < MaxTimeouts /\ timeouts' = timeouts + 1 /\ requests[l][k] > 0
  /\ UNCHANGED <<config_mutex_, todo, set_bits, connect_state, requests, reports, accepted,
                 otherVars>>

\* One that has failed is not, and its bit stays set.
Failure(l, k) ==
  /\ l \in Refusing /\ Answered(l, k)
  /\ UNCHANGED <<config_mutex_, todo, set_bits, connect_state, reports, timeouts, accepted,
                 otherVars>>

\* The device is not found: whatever the answer is, the bit stays set and the key is not
\* requested again.
Ignored(l, k) ==
  /\ adding_other /\ Answered(l, k)
  /\ ignored' = [ignored EXCEPT ![l] = @ \cup {k}]
  /\ UNCHANGED <<config_mutex_, todo, set_bits, connect_state, reports, timeouts, accepted,
                 adding_other, others>>

------------------------------------------------------------------------------
ConfigNext ==
  \/ OtherReported \/ OtherAdded
  \/ \E l \in Lidars :
       \/ LidarReported(l) \/ Set(l) \/ Release(l)
       \/ \E k \in Keys :
            Success(l, k) \/ Timeout(l, k) \/ Failure(l, k) \/ Ignored(l, k)

ConfigSpec == ConfigInit /\ [][ConfigNext]_configVars

\* Handlers run to their end, and a lidar that refuses nothing answers in the end.  The
\* mutex is held only to send requests, and there are few of them.
ConfigFairSpec ==
  /\ ConfigSpec /\ WF_configVars(OtherAdded)
  /\ \A l \in Lidars :
       /\ WF_configVars(Set(l)) /\ WF_configVars(Release(l))
       /\ \A k \in Configured[l] : SF_configVars(Success(l, k))

------------------------------------------------------------------------------
(***************************************************************************)
(* Properties.                                                             *)
(***************************************************************************)
\* Every variable has its type; only configured keys are ever pending, and each of them
\* has a request that will be answered, unless the lidar may refuse it or an answer for it
\* came while another lidar was being added and was ignored.
ConfigTypeOK ==
  /\ config_mutex_ \in Lidars \cup {"none"} /\ todo \subseteq Keys
  /\ connect_state \in [Lidars -> {"Off", "Sampling"}]
  /\ \A l \in Lidars :
       /\ set_bits[l] \cup accepted[l] \subseteq Configured[l]
       /\ \A k \in Keys : requests[l][k] \in 0 .. MaxReports
       /\ ignored[l] \subseteq Configured[l]
       /\ l \notin Refusing => \A k \in set_bits[l] \ ignored[l] : requests[l][k] > 0
  /\ adding_other \in BOOLEAN /\ (adding_other => config_mutex_ = "none")

\* The data of a lidar is published only after it has accepted every configured key, in
\* whatever order and however often it is reported, timed out and answered.
SamplingIsConfigured ==
  \A l \in Lidars : connect_state[l] = "Sampling" => accepted[l] = Configured[l]

\* A lidar that refuses nothing ends up publishing, however the others answer and however
\* often it is reported, unless one of its answers comes while another lidar is added.
ReportedLidarsSample ==
  \A l \in Lidars \ Refusing :
    Configured[l] # {} =>
      (reports[l] > 0 ~> connect_state[l] = "Sampling" \/ ignored[l] # {})

\* "try again": a lidar that refuses nothing ends up publishing, timeouts or not.
LidarsAlwaysSample ==
  \A l \in Lidars \ Refusing :
    Configured[l] # {} => (reports[l] > 0 ~> connect_state[l] = "Sampling")
==============================================================================
