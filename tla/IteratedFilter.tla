----------------------------- MODULE IteratedFilter -----------------------------
(***************************************************************************)
(* esekf, the error-state Kalman filter of the IKFoM toolkit: a state x_   *)
(* on a manifold, its covariance P_ in the tangent space of a state, and   *)
(* seven iterated updates that differ in how they get the measurement.     *)
(*                                                                         *)
(* The manifold is a line: boxplus adds, boxminus subtracts.  Of P_ it is  *)
(* kept in the tangent space of which state it is given, which every       *)
(* transport (the loops over SO3_state and S2_state) changes by the        *)
(* difference it was given, once for each entry a list has for its block.  *)
(* The transport of an S2 block also takes the state it starts from and    *)
(* the one it leads to: it is skewed when the difference does not lead     *)
(* from the one to the other.                                              *)
(* Gains, residuals and noise are left out: an iteration corrects x_ by at *)
(* most MaxStep.                                                           *)
(***************************************************************************)
EXTENDS Integers

CONSTANTS
  MaxStep,      \* most that a prediction or a correction changes the state
  limit,        \* a correction of at most this is small
  maximum_iter,
  MaxX,         \* bound on the state
  MaxDrift      \* bound on how far the covariance's state is from it

ASSUME FilterAssumption ==
  MaxStep \in Nat /\ limit \in Nat /\ maximum_iter \in Nat /\ MaxX \in Nat /\ MaxDrift \in Nat

VARIABLES
  x_,      \* the state: its value v, and lists, how often its lists of blocks were built
  P_,      \* the covariance: the state in whose tangent space it is given, and whether
           \* its S2 block has been through a skewed transport
  model,   \* the init function called, which says where measurements come from
  upd      \* the locals of the update that runs or ran last, and its history

filterVars == <<x_, P_, model, upd>>

Abs(n) == IF n < 0 THEN -n ELSE n
Steps == -MaxStep .. MaxStep
State == -MaxX .. MaxX
NoModel == "none"

\* The update functions that use what an init function has set.
Updates ==
  [init |-> {"update_iterated"},
   init_dyn |-> {"update_iterated_dyn"},
   init_dyn_runtime |-> {"update_iterated_dyn_runtime"},
   init_share |-> {"update_iterated_share"},
   init_dyn_share |-> {"update_iterated_dyn_share", "update_iterated_dyn_share_modified"},
   init_dyn_runtime_share |-> {"update_iterated_dyn_runtime_share"}]

\* running: in the loop; valid, converge, i, t: its variables; propagated: x_ and P_ when
\* it began.  History: moves, the corrections made; searched, how many of them were made
\* when the model was last called with converge set; ok, whether the model found a
\* measurement in the last iteration; failed, whether it ever did not; last, the last
\* correction; folded, whether P_ was reduced.
NewUpdate(name) ==
  [name |-> name, running |-> name # NoModel, i |-> -1, t |-> 0, valid |-> TRUE,
   converge |-> TRUE, propagated |-> [x |-> x_.v, P |-> P_],
   moves |-> 0, searched |-> 0, ok |-> TRUE, failed |-> FALSE, last |-> 0, folded |-> FALSE]

FilterInit ==
  /\ x_ = [v |-> 0, lists |-> 0]
  /\ P_ = [at |-> 0, skewed |-> FALSE]
  /\ model = NoModel
  /\ upd = NewUpdate(NoModel)

Build(x) == [x EXCEPT !.lists = @ + 1]

\* An init function sets the model and builds the lists, without clearing them: a filter
\* is initialised once.
Initialise(name) ==
  /\ model = NoModel
  /\ model' = name
  /\ x_' = Build(x_)
  /\ UNCHANGED <<P_, upd>>

init == Initialise("init")
init_dyn == Initialise("init_dyn")
init_dyn_runtime == Initialise("init_dyn_runtime")
init_share == Initialise("init_share")
init_dyn_share == Initialise("init_dyn_share")
init_dyn_runtime_share == Initialise("init_dyn_runtime_share")

Idle == model # NoModel /\ ~upd.running

\* What P gets to by a transport along dx from base, where the S2 block is to be that of to.
Transported(P, base, dx, to) ==
  [at |-> P.at + x_.lists * dx, skewed |-> P.skewed \/ (x_.lists > 0 /\ base + dx # to)]

\* The state moves by what f says, and the covariance with it.
predict(f) ==
  /\ Idle
  /\ x_.v + f \in State
  /\ x_' = [x_ EXCEPT !.v = @ + f]
  /\ P_' = Transported(P_, x_.v, f, x_.v + f)
  /\ UNCHANGED <<model, upd>>

\* A state that comes without its lists gets them.
ListedAgain(x) == Build(x)                             \* mutant
Listed(x) == IF x.lists = 0 THEN Build(x) ELSE x

\* The state is replaced by a copy of itself, changed by step, or by one newly made whose
\* lists are empty; lists that are empty are built.  The covariance is to be replaced
\* next.
change_x(step, copied) ==
  /\ Idle
  /\ x_.v + step \in State /\ Abs(P_.at - (x_.v + step)) <= MaxDrift
  /\ LET input_state == [v |-> x_.v + step, lists |-> IF copied THEN x_.lists ELSE 0]
     IN  x_' = Listed(input_state)
  /\ UNCHANGED <<P_, model, upd>>

change_P ==
  /\ Idle
  /\ P_' = [at |-> x_.v, skewed |-> FALSE]
  /\ UNCHANGED <<x_, model, upd>>

Begin(name) ==
  /\ Idle /\ name \in Updates[model]
  /\ Abs(P_.at - x_.v) <= MaxDrift
  /\ upd' = NewUpdate(name)
  /\ UNCHANGED <<x_, P_, model>>

MeasuredOnce(u, resets, ok) ==                         \* mutant
  [u EXCEPT !.valid = ok /\ u.valid, !.ok = ok, !.failed = @ \/ ~ok,
            !.searched = IF u.converge THEN u.moves ELSE @]

\* The model is called with the state and with converge; it clears valid when it finds no
\* measurement, and does not set it.
Measured(u, resets, ok) ==
  [u EXCEPT !.valid = ok /\ (resets \/ u.valid), !.ok = ok, !.failed = @ \/ ~ok,
            !.searched = IF u.converge THEN u.moves ELSE @]

ContinueOn(u) == [u EXCEPT !.i = @ + 1]                \* mutant

\* The next value of i, unless that ends the loop.
Continue(u) ==
  [u EXCEPT !.i = IF u.i = maximum_iter - 1 THEN @ ELSE @ + 1,
            !.running = u.i # maximum_iter - 1]

CorrectedInTheLast(u, rematches, dx) ==                \* mutant
  LET small == Abs(dx) <= limit
      t == IF small THEN u.t + 1 ELSE u.t
  IN  [u EXCEPT !.t = t, !.moves = @ + 1, !.last = dx,
                !.converge = small \/ (rematches /\ t = 0 /\ u.i = maximum_iter - 1)]

\* A correction by dx: t counts the small ones.
Corrected(u, rematches, dx) ==
  LET small == Abs(dx) <= limit
      t == IF small THEN u.t + 1 ELSE u.t
  IN  [u EXCEPT !.t = t, !.moves = @ + 1, !.last = dx,
                !.converge = small \/ (rematches /\ t = 0 /\ u.i = maximum_iter - 2)]

\* The covariance as it was when the update began, in the tangent space of the state.
ToHere(P) == Transported(P, upd.propagated.x, x_.v - upd.propagated.x, x_.v)
HereFromLast == ToHere(P_)                                 \* mutant
Here == ToHere(upd.propagated.P)

\* At the end it is taken along the last correction, which starts from x_; the transport of
\* the S2 block starts from x_propagated all the same, x_before being computed and not used.
Folded(dx) == Transported(Here, upd.propagated.x, dx, x_.v + dx)

\* One iteration.  resets: valid is set before the model is called; rematches: converge
\* is set for the last iteration when no correction was small.
Iterate(name, resets, rematches, ok, dx) ==
  /\ upd.running /\ upd.name = name
  /\ LET measured == Measured(upd, resets, ok)
         corrected == Corrected(measured, rematches, dx)
         ends == corrected.t > 1 \/ upd.i = maximum_iter - 1
     IN  IF measured.valid
         THEN /\ x_.v + dx \in State
              /\ x_' = [x_ EXCEPT !.v = @ + dx]
              /\ IF ends
                 THEN /\ P_' = Folded(dx)
                      /\ upd' = [corrected EXCEPT !.running = FALSE, !.folded = TRUE]
                 ELSE P_' = Here /\ upd' = Continue(corrected)
         ELSE upd' = Continue(measured) /\ UNCHANGED <<x_, P_>>
  /\ UNCHANGED model

update_iterated(ok, dx) == Iterate("update_iterated", FALSE, FALSE, ok, dx)
update_iterated_share(ok, dx) == Iterate("update_iterated_share", FALSE, FALSE, ok, dx)
update_iterated_dyn(ok, dx) == Iterate("update_iterated_dyn", TRUE, FALSE, ok, dx)
update_iterated_dyn_share(ok, dx) == Iterate("update_iterated_dyn_share", TRUE, FALSE, ok, dx)
update_iterated_dyn_runtime(ok, dx) ==
  Iterate("update_iterated_dyn_runtime", TRUE, FALSE, ok, dx)
update_iterated_dyn_runtime_share(ok, dx) ==
  Iterate("update_iterated_dyn_runtime_share", TRUE, FALSE, ok, dx)
update_iterated_dyn_share_modified(ok, dx) ==
  Iterate("update_iterated_dyn_share_modified", TRUE, TRUE, ok, dx)

FilterNext ==
  \/ init \/ init_dyn \/ init_dyn_runtime
  \/ init_share \/ init_dyn_share \/ init_dyn_runtime_share
  \/ \E f \in Steps : predict(f)
  \/ \E step \in Steps, copied \in BOOLEAN : change_x(step, copied)
  \/ change_P
  \/ \E name \in UNION {Updates[m] : m \in DOMAIN Updates} : Begin(name)
  \/ \E ok \in BOOLEAN, dx \in Steps :
       \/ update_iterated(ok, dx) \/ update_iterated_share(ok, dx)
       \/ update_iterated_dyn(ok, dx) \/ update_iterated_dyn_share(ok, dx)
       \/ update_iterated_dyn_runtime(ok, dx) \/ update_iterated_dyn_runtime_share(ok, dx)
       \/ update_iterated_dyn_share_modified(ok, dx)

FilterSpec == FilterInit /\ [][FilterNext]_filterVars

FilterTypeOK ==
  /\ x_.v \in State /\ x_.lists \in 0 .. 1
  /\ P_ \in [at : Int, skewed : BOOLEAN]
  /\ model \in DOMAIN Updates \cup {NoModel}
  /\ upd.i \in -1 .. maximum_iter /\ upd.t \in 0 .. 2
  /\ upd.searched \in 0 .. upd.moves /\ upd.moves \in 0 .. maximum_iter + 1

Ends == upd.running /\ ~upd'.running

\* What an update leaves of its covariance, of what it saw and of its matches.
EndsInPlace ==
  Ends =>
    /\ P_'.at - x_'.v = upd.propagated.P.at - upd.propagated.x
                          - IF upd'.folded THEN 0 ELSE upd'.last
    /\ P_'.skewed <=>
         upd.propagated.P.skewed \/ (upd'.folded /\ x_.v # upd.propagated.x)
EndsFolded ==
  Ends => \/ upd'.folded \/ ~upd'.ok
          \/ upd'.name \in {"update_iterated", "update_iterated_share"} /\ upd'.failed
EndsMatched ==
  Ends /\ upd'.folded /\ maximum_iter > 0 =>
    /\ upd.i < maximum_iter - 1 => upd'.searched > 0 /\ Abs(upd'.last) <= limit
    /\ upd'.name = "update_iterated_dyn_share_modified" /\ ~upd'.failed
         => upd'.searched > 0

\* However many iterations an update made, each corrected and some without a measurement,
\* its covariance ends in the tangent space of the state it leaves, as far from it as it
\* was before; unless the last iteration had none: then it stays in that of the state
\* before the last correction (P_ = P_propagated and the transports of every iteration).
\* The S2 block, gravity, does so only when the last correction started where the update
\* began; otherwise the last transport starts from the wrong state (x_propagated instead of
\* x_before) and skews it.
CovarianceFollowsState == [][EndsInPlace]_filterVars

\* "state x_before = x_": every block is taken along the last correction from the state that
\* was corrected, so that no update skews the S2 block.
SphereFollowsState == [][Ends /\ ~upd.propagated.P.skewed => ~P_'.skewed]_filterVars

\* An update that leaves the covariance as large as it was found no measurement in its
\* last iteration, or, where valid is not set again, in any of them (the continue that
\* also skips the end of the last iteration).
FoldsWhatItSees == [][EndsFolded]_filterVars

\* The measurement an update ends on was matched after a correction, not where the state
\* was predicted: an update ends early only when a small correction has been followed by
\* a new match and another small one, and the modified one matches again in its last
\* iteration when no correction was small (converge, t, rematch).
MatchesAreFresh == [][EndsMatched]_filterVars
==============================================================================
