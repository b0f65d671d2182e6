------------------------------- MODULE MCChoices -------------------------------
(***************************************************************************)
(* What a user chooses at the device, a mode (ModeChannel) or a setpoint   *)
(* (SetpointChannel).  The two share no state, so each runs alone: `part`  *)
(* names the one that moves, the other rests in its initial state.         *)
(***************************************************************************)
EXTENDS MCModeChannel

CONSTANTS
  Top, Settle, Default, SetpointPlans, Adopt, Period, SetpointWindow, SettleMin, Throttle,
  Liveness, SetpointDepth, SetpointFaults

VARIABLES part, spUp, spEnabled, spPlan, spHold, spMem, spDev, spDeaf, spFlight, spFresh,
          spAstray, spCalm

setpoint == <<spUp, spEnabled, spPlan, spHold, spMem, spDev, spDeaf, spFlight, spFresh,
              spAstray, spCalm>>

\* Instantiated through its proofs, so that its theorems speak of this channel.  They
\* speak of its watchdog as well, which MCWriteConvergence has and which sleeps here.
Setpoint == INSTANCE SetpointChannelProofs WITH
  Plans <- SetpointPlans, Window <- SetpointWindow, Depth <- SetpointDepth,
  Faults <- SetpointFaults, FailWrites <- 1, FailMin <- 0, Ttl <- 0, dog <- None,
  up <- spUp, enabled <- spEnabled, plan <- spPlan, hold <- spHold, mem <- spMem,
  dev <- spDev, deaf <- spDeaf, flight <- spFlight, fresh <- spFresh, astray <- spAstray,
  calm <- spCalm

ASSUME PartsAssumption == Setpoint!SetpointAssumption

\* For the runs: a comfort plan, and an idle one with the device on its own schedule; a
\* device that settles where it is told.  (MCWriteConvergence adds an open window.)
Comfort == [sp |-> Top, lo |-> 1, hi |-> Top, mode |-> "heat", safety |-> FALSE, sched |-> FALSE]
ComfortOrIdle == {Comfort, [Comfort EXCEPT !.sp = 1, !.mode = "idle", !.sched = TRUE]}
Exact == [v \in 0 .. Top |-> v]
-----------------------------------------------------------------------------
PartsInit ==
  /\ part \in {"mode", "setpoint"}
  /\ IF part = "mode" THEN spPlan = CHOOSE p \in SetpointPlans : TRUE
     ELSE policy = "schedule" /\ mode = "off" /\ plan = [want |-> "heat", safety |-> FALSE] /\ tags = TRUE
  /\ Init /\ Setpoint!Init /\ (part = "mode" => spDev.sp = 0 /\ (tags \/ policy = "schedule"))

\* The policy is changed on devices that keep the Context of a command.
PartsNext ==
  \/ part = "mode" /\ Next /\ (IF tags THEN TRUE ELSE policy' = policy)
     /\ UNCHANGED <<part, setpoint>>
  \/ part = "setpoint" /\ Setpoint!Next /\ UNCHANGED <<part, vars>>

PartsSpec == PartsInit /\ [][PartsNext]_<<part, vars, setpoint>>
-----------------------------------------------------------------------------
\* One setpoint choice, one hold, and no command repeated over a choice that the
\* echo window still keeps undecided (override.py, pipeline_actuate.py).
SetpointChoiceIsHeard ==
  /\ [](part = "setpoint" => Setpoint!TypeOK)
  /\ [][part = "setpoint" => Setpoint!TakesAChoice /\ Setpoint!SparesChoice]_setpoint
=============================================================================
