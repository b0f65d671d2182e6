------------------------------- MODULE MCDevice -------------------------------
(***************************************************************************)
(* How a zone treats its device: the compressor guard (CompressorGuard),   *)
(* the fan-first stage (FanFirst), the order of a tick's commands          *)
(* (TickProgram) and the alarm for a device that works without effect      *)
(* (FailureAlarm).  The four share no state, so each runs alone: `part`    *)
(* names the one that moves, the others rest in an initial state.          *)
(***************************************************************************)
EXTENDS MCCompressorGuard

CONSTANTS
  EchoTimeout, DwellMin, Budget, ReentryBlock, EchoWindow,   \* of FanFirst
  Stage, FanModes, Depth, Circulates,
  Floor, Plans, Choices, Compressor, Errors,                 \* of TickProgram
  Rooms, Targets, Span, CmdDelta, MinRise, Outages        \* of FailureAlarm

VARIABLES
  part,
  stage, fanMem, fanDev, fanSent, demand, pick,
  pc, tick, user, stamps, unit, hand, errors, ghost,
  warmth, target, working, broken, det, raised, issue, past

fan == <<stage, fanMem, fanDev, fanSent, demand, pick>>
program == <<pc, tick, user, stamps, unit, hand, errors, ghost>>
alarm == <<warmth, target, working, broken, det, raised, issue, past>>
-----------------------------------------------------------------------------
Fan == INSTANCE FanFirst WITH
  ff <- stage, ext <- fanMem, dev <- fanDev, flight <- fanSent, zone <- demand, choice <- pick

Program == INSTANCE TickProgram WITH ledger <- stamps, dev <- unit

Alarm == INSTANCE FailureAlarm WITH
  Setpoints <- Targets, Window <- Span, Faults <- Outages,
  room <- warmth, setpoint <- target, running <- working, fault <- broken,
  ledger <- raised, seen <- past

\* A device that heats to 20 degrees or cools to 26.
HeatOrCool == {[mode |-> "heat", sp |-> 20], [mode |-> "cool", sp |-> 26]}

ASSUME PartsAssumption ==
  Fan!FanAssumption /\ Program!PlansAssumption /\ Alarm!ScaleAssumption
-----------------------------------------------------------------------------
\* The parts at rest start in one of their initial states.
One(S) == CHOOSE x \in S : TRUE

PartsInit ==
  /\ part \in {"compressor", "fan", "program", "alarm"}
  /\ Init /\ (part # "compressor" => wish = One(Wishes) /\ mode = One(Supported))
  /\ Fan!Init /\ (part # "fan" => fanDev.fan = Stage)
  /\ Program!Init /\ (part # "program" => unit.mode = "off")
  /\ Alarm!Init
  /\ part # "alarm" => warmth = One(Rooms) /\ target = One(Targets) /\ ~working

PartsNext ==
  \/ part = "compressor" /\ Next /\ UNCHANGED <<part, fan, program, alarm>>
  \/ part = "fan" /\ Fan!Next /\ UNCHANGED <<part, vars, program, alarm>>
  \/ part = "program" /\ Program!Next /\ UNCHANGED <<part, vars, fan, alarm>>
  \/ part = "alarm" /\ Alarm!Next /\ UNCHANGED <<part, vars, fan, program>>

PartsSpec == PartsInit /\ [][PartsNext]_<<part, vars, fan, program, alarm>>
-----------------------------------------------------------------------------
\* A sequence nobody disturbed leaves the fan as it found it, and the stage of
\* Poise does not duel with a hand at the fan (fan_first.py _restore_target).
FanIsGivenBack ==
  /\ [](part = "fan" => Fan!TypeOK /\ Fan!StageComesBack)
  /\ [][part = "fan" => Fan!LeavesTheFan]_fan

\* What Poise believes of the device is so, and what it tells of a hold is so,
\* although users, device and errors come between the awaits of a tick
\* (tick_orchestrator.py, phase_actuate.py): a change of mode carries its setpoint,
\* a tick that adopts off, or in whose awaits off was held, writes no setpoint after
\* it, and every hold that ends is told once.
TickKeepsItsBooks ==
  /\ [](part = "program" => Program!TypeOK /\ Program!LedgerMatchesDevice)
  /\ [][part = "program" =>
          Program!CarriesTheSetpoint /\ Program!SparesOff /\ Program!TellsTheEnd]_program

\* A stall is told, the alarm survives a flicker, and the issue is the verdict,
\* across blind ticks and restarts (heating_failure.py, ha/health_reporter.py).
AlarmIsHonest ==
  /\ [](part = "alarm" => Alarm!TypeOK /\ Alarm!StallIsTold)
  /\ [][part = "alarm" => Alarm!Latches /\ Alarm!TellsTheVerdict]_alarm
=============================================================================
