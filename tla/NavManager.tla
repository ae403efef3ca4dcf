------------------------------- MODULE NavManager -------------------------------
(***************************************************************************)
(* The node that takes a mode number from /cmd_mode, sends the robot to    *)
(* that mode's waypoint with a Nav2 goal and, when it has arrived,         *)
(* publishes the mode on /cmd_vel_mode.  One thread spins it.  Nav2 is     *)
(* external: it drives to one goal at a time, a goal it accepts ends the   *)
(* one before, and its answers reach the node later, in any order.         *)
(***************************************************************************)
EXTENDS Naturals, Sequences, SequencesExt

CONSTANTS
  Known,        \* modes in target_locations_
  Unknown,      \* other numbers that may be published
  Depth,        \* depth of the subscription's queue
  MaxCommands   \* bound on the numbers published

ASSUME NavAssumption ==
  /\ Known \subseteq Nat /\ Unknown \subseteq Nat /\ Known \cap Unknown = {}
  /\ 0 \in Known /\ Depth \in Nat \ {0} /\ MaxCommands \in Nat

VARIABLES
  cmd_mode,      \* numbers received and not yet taken
  commands,      \* how many have been published
  current_mode_,
  waiting,       \* send_nav_goal waits for the action server, at most 3 seconds
  goals,         \* the goals sent: the mode, its number among those taken, and how
                 \* far Nav2 is with it
  taken,         \* how many modes have been taken (history)
  cmd_vel_mode   \* the last mode published, and the goal it answers

vars == <<cmd_mode, commands, current_mode_, waiting, goals, taken, cmd_vel_mode>>

Ended == {"succeeded", "aborted", "canceled"}
State == {"sent", "active", "rejected", "answered"} \cup Ended
NoMode == [mode |-> 0, of |-> 0, latest |-> FALSE]

Init ==
  /\ cmd_mode = <<>> /\ commands = 0 /\ current_mode_ = 0 /\ waiting = FALSE
  /\ goals = <<>> /\ taken = 0 /\ cmd_vel_mode = NoMode

------------------------------------------------------------------------------
(***************************************************************************)
(* The node.                                                               *)
(***************************************************************************)
\* A number is published; the queue keeps the last Depth of them.
Command(mode) ==
  /\ commands < MaxCommands /\ commands' = commands + 1
  /\ LET all == Append(cmd_mode, mode) IN
     cmd_mode' = IF Len(all) > Depth THEN Tail(all) ELSE all
  /\ UNCHANGED <<current_mode_, waiting, goals, taken, cmd_vel_mode>>

\* The mode kept is an argument.  Mutant: a number is kept before it is looked up.
Take(mode) ==
  /\ cmd_mode # <<>> /\ ~waiting
  /\ cmd_mode' = Tail(cmd_mode) /\ current_mode_' = mode
  /\ waiting' = (Head(cmd_mode) \in Known)
  /\ taken' = IF Head(cmd_mode) \in Known THEN taken + 1 ELSE taken
  /\ UNCHANGED <<commands, goals, cmd_vel_mode>>
mode_callbackKeepsUnknown == cmd_mode # <<>> /\ Take(Head(cmd_mode))

\* An unknown number is ignored.
mode_callback ==
  /\ cmd_mode # <<>>
  /\ Take(IF Head(cmd_mode) \in Known THEN Head(cmd_mode) ELSE current_mode_)

\* The waypoint's coordinates, here its mode, are those of the callback.
send_nav_goal ==
  /\ waiting /\ waiting' = FALSE
  /\ goals' = Append(goals, [mode |-> current_mode_, number |-> taken, state |-> "sent"])
  /\ UNCHANGED <<cmd_mode, commands, current_mode_, taken, cmd_vel_mode>>

\* The server has not come up.
NotReady ==
  /\ waiting /\ waiting' = FALSE
  /\ UNCHANGED <<cmd_mode, commands, current_mode_, goals, taken, cmd_vel_mode>>

\* Only a goal that succeeded is reported, with the mode taken last.
Answer(g, codes) ==
  /\ ~waiting /\ goals[g].state \in codes
  /\ goals' = [goals EXCEPT ![g].state = "answered"]
  /\ cmd_vel_mode' = IF goals[g].state # "succeeded" THEN cmd_vel_mode
                     ELSE [mode |-> current_mode_, of |-> goals[g].mode,
                           latest |-> goals[g].number = taken]
  /\ UNCHANGED <<cmd_mode, commands, current_mode_, waiting, taken>>

\* Mutant: a goal that did not succeed is not dealt with.
result_callbackOfSuccess(g) == Answer(g, {"succeeded"})

result_callback(g) == Answer(g, Ended)

------------------------------------------------------------------------------
(***************************************************************************)
(* Nav2.                                                                   *)
(***************************************************************************)
Nav2(states) ==
  /\ goals' = states
  /\ UNCHANGED <<cmd_mode, commands, current_mode_, waiting, taken, cmd_vel_mode>>

\* The goal before is aborted.
Accept(g) ==
  /\ goals[g].state = "sent"
  /\ Nav2([i \in DOMAIN goals |->
             IF i = g THEN [goals[i] EXCEPT !.state = "active"]
             ELSE IF goals[i].state = "active" THEN [goals[i] EXCEPT !.state = "aborted"]
             ELSE goals[i]])

Reject(g) == goals[g].state = "sent" /\ Nav2([goals EXCEPT ![g].state = "rejected"])

End(g, how) == goals[g].state = "active" /\ Nav2([goals EXCEPT ![g].state = how])

------------------------------------------------------------------------------
Next ==
  \/ \E mode \in Known \cup Unknown : Command(mode)
  \/ mode_callback \/ send_nav_goal \/ NotReady
  \/ \E g \in DOMAIN goals : \/ result_callback(g)
                             \/ Accept(g) \/ Reject(g)
                             \/ \E how \in Ended : End(g, how)

Spec == Init /\ [][Next]_vars

\* The node takes what is in its queue, Nav2 accepts or rejects a goal it is sent and
\* ends one it drives to, and the answer is delivered.
FairSpec ==
  /\ Spec
  /\ WF_vars(mode_callback) /\ WF_vars(send_nav_goal \/ NotReady)
  /\ \A g \in 1 .. MaxCommands :
       /\ SF_vars(g \in DOMAIN goals /\ result_callback(g))
       /\ WF_vars(g \in DOMAIN goals /\ (Accept(g) \/ Reject(g)))
       /\ WF_vars(g \in DOMAIN goals /\ \E how \in Ended : End(g, how))

------------------------------------------------------------------------------
(***************************************************************************)
(* Properties.                                                             *)
(***************************************************************************)
\* Every variable has its type; the mode kept is always one that has a waypoint.
TypeOK ==
  /\ cmd_mode \in Seq(Known \cup Unknown) /\ Len(cmd_mode) <= Depth
  /\ commands \in 0 .. MaxCommands /\ taken \in 0 .. commands
  /\ current_mode_ \in Known /\ waiting \in BOOLEAN
  /\ goals \in Seq([mode : Known, number : 1 .. taken, state : State])
  /\ cmd_vel_mode \in [mode : Known, of : Known, latest : BOOLEAN]

\* An arrival at the waypoint of the mode taken last is reported as that mode, whatever
\* numbers without a waypoint, or answers to earlier goals, came while the robot drove.
LatestArrivalReportsItsMode == cmd_vel_mode.latest => cmd_vel_mode.mode = cmd_vel_mode.of

\* Every number taken is done with: the node ends up idle, with every goal answered.
EveryGoalIsAnswered ==
  <>[](/\ cmd_mode = <<>> /\ ~waiting
       /\ \A g \in DOMAIN goals : goals[g].state \in {"answered", "rejected"})

\* "publishes /cmd_vel_mode on arrival": the mode published is that of the waypoint the
\* robot has arrived at.
ArrivalReportsItsMode == cmd_vel_mode.mode = cmd_vel_mode.of
==============================================================================
