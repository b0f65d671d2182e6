------------------------------ MODULE MCZoneServes ------------------------------
(***************************************************************************)
(* What a zone must get done in the end: a wish held back by the guard of  *)
(* CompressorGuard is served, and in SensorSource the valve follows the    *)
(* room sensor while there is one and is released when there is none.  The *)
(* two share no state, so each runs alone: `part` names the one that       *)
(* moves, the other rests in an initial state.                             *)
(***************************************************************************)
EXTENDS MCCompressorGuard

VARIABLES part, sensor, valve, runtime, troubles

source == <<sensor, valve, runtime, troubles>>

Source == INSTANCE SensorSource WITH
  Temps <- {0, 1}, SafeAfter <- 2, Retry <- 2, Keepalive <- 2, Configured <- FALSE,
  Troubles <- 1, Faults <- {"away", "reboot", "flip", "lost", "restart", "park"},
  device <- valve, rt <- runtime

ASSUME Source!TimesAssumption /\ Source!ChoicesAssumption
-----------------------------------------------------------------------------
PartsInit ==
  /\ part \in {"compressor", "source"}
  /\ Init /\ Source!Init
  /\ part # "compressor" => wish = Cool /\ mode = "off"
  /\ part # "source" => sensor.shown = 0 /\ valve.source = "internal"

PartsNext ==
  \/ part = "compressor" /\ (Next \/ CalmDown) /\ UNCHANGED <<part, source>>
  \/ part = "source" /\ Source!Next /\ UNCHANGED <<part, vars>>

PartsSpec == PartsInit /\ [][PartsNext]_<<part, vars, source>>

\* The fairness of each part, while it is the one that moves.
Compressor(A) == part = "compressor" /\ A /\ UNCHANGED <<part, source>>
PartsFairSpec ==
  /\ PartsSpec
  /\ WF_<<part, vars, source>>(Compressor(TimerTick))
  /\ WF_<<part, vars, source>>(Compressor(Start))
  /\ WF_<<part, vars, source>>(Compressor(Returns))
  /\ WF_<<part, vars, source>>(Compressor(Land))
  /\ WF_<<part, vars, source>>(part = "source" /\ Source!TimerTick /\ UNCHANGED <<part, vars>>)
-----------------------------------------------------------------------------
\* A room sensor that stays away releases a valve we claim, one that is there
\* is what the valve regulates by in the end, and the first release of an
\* outage is immediate, whatever calls were lost and whoever restarted
\* (ha/phase_actuate.py, sensor_watchdog.py sensor_source_handback_target).
SourceFollowsTheRoom ==
  /\ [](part = "source" => Source!TypeOK) /\ Source!FirstReleaseIsImmediate
  /\ part = "source" => Source!OutageReleases /\ Source!RegainsRoom
=============================================================================
