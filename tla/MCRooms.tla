-------------------------------- MODULE MCRooms --------------------------------
(***************************************************************************)
(* What is read of rooms, and what is said of them: the demand of the      *)
(* zones at the hub (HubDemand), the room and its window as a zone         *)
(* observes them (RoomObservation), the ventilation advice and the episode *)
(* of an airing (VentAdvice, VentEpisode).  The four share no state, so    *)
(* each runs alone: `part` names the one that moves, the others rest in an *)
(* initial state.                                                          *)
(***************************************************************************)
EXTENDS MCHubDemand, MCVentAirs

CONSTANTS
  RoomLevels, DefaultRoom, Contact, Thresholds, Scale, MaxSlope, MinPoints, MaxDuration,
  MinRise, Longest,                                        \* of RoomObservation
  Airs, AdviceCools, AdviceFaults,                         \* of VentTable, VentAdvice
  EpisodeCools, RequestTtl, ReminderEvery, UnknownRelease, MaxTick, MinuteCap,
  PhaseCap, EpisodeCap, Cooldown                           \* of VentEpisode

VARIABLES
  part,
  contact, bypass, wa, learn, verdict, out, taint, heldOpen,
  air, ajar, latch, announced, note, optin, turns,
  airing, card, heard, glimpse, rung

observation == <<contact, bypass, wa, learn, verdict, out, taint, heldOpen>>
advice == <<air, ajar, latch, announced, note, optin, turns>>
episode == <<airing, card, heard, glimpse, rung>>
-----------------------------------------------------------------------------
Observation == INSTANCE RoomObservation WITH
  Levels <- RoomLevels, window <- verdict, held <- heldOpen

Advice == INSTANCE VentAdvice WITH
  FreeCoolZone <- AdviceCools, Faults <- AdviceFaults, open <- ajar, last <- announced
AnyAir == CHOOSE moment \in Airs : TRUE

Table == INSTANCE VentTable WITH FreeCoolZone <- EpisodeCools
Answered == Table!Answers

Episode == INSTANCE VentEpisode WITH
  FreeCoolZone <- EpisodeCools, Verdicts <- Answered,
  st <- airing, out <- card, seen <- glimpse

\* One airing for comfort and two for protection in a phase, one more in an
\* episode; the pauses after the causes differ.
OneOrTwo == [p \in BOOLEAN |-> IF p THEN 2 ELSE 1]
TwoOrThree == [p \in BOOLEAN |-> IF p THEN 3 ELSE 2]
Pauses == [regular |-> 1, manual |-> 1, expired |-> 2, emergency |-> 3]

ASSUME RoomsAssumption ==
  /\ Observation!ObservationAssumption
  /\ Advice!AirsAssumption /\ Advice!VentFaultsAssumption /\ Episode!EpisodeAssumption
-----------------------------------------------------------------------------
PartsInit ==
  /\ part \in {"demand", "observation", "advice", "episode"}
  /\ IF part = "advice" THEN TRUE ELSE air = AnyAir /\ optin = FALSE
  /\ ZonesInit /\ Observation!Init /\ Advice!Init /\ Episode!Init

PartsNext ==
  \/ part = "demand" /\ ZonesNext /\ UNCHANGED <<part, observation, advice, episode>>
  \/ part = "observation" /\ Observation!Next
       /\ UNCHANGED <<part, zone, advice, episode>>
  \/ part = "advice" /\ Advice!Next
       /\ UNCHANGED <<part, zone, observation, episode>>
  \/ part = "episode" /\ Episode!Next
       /\ UNCHANGED <<part, zone, observation, advice>>

PartsSpec ==
  PartsInit /\ [][PartsNext]_<<part, zone, observation, advice, episode>>
-----------------------------------------------------------------------------
\* The learners integrate no interval that held a pause; the window verdict clears
\* in time when it sticks and yields to a healthy contact, across contacts that
\* vanish, failing sensors and restarts (window_auto.py, pipeline_prepare.py).  What
\* feeds the slope detector is not restricted: see FabricatedRoomMovesNoWindow.
WindowVerdictIsEarned ==
  /\ [](part = "observation" =>
         Observation!TypeOK /\ Observation!StuckVerdictClears /\ Observation!HealthyContactWins)
  /\ Observation!CleanInterval

\* What the advice tells: the notification is current; in air that stands still,
\* outside free cooling and with no floor engaged, the advice turns once at most;
\* and it does not turn against the moisture it was opened for (ventilation.py,
\* ha/phase_prepare.py).
AdviceIsSteady ==
  /\ [](part = "advice" =>
         Advice!TypeOK /\ Advice!NoteIsCurrent /\ Advice!SteadyAirSteadyAdvice)
  /\ Advice!MoistureAiringIsNotReversed

\* What an airing episode tells: an open window is spoken of, a latched reason
\* stands, reminders are bounded, protection is heard, an emergency stop ends when
\* the window is closed or no contact tells any more (vent_episode.py).
EpisodeIsTold ==
  /\ [](part = "episode" =>
         /\ Episode!TypeOK /\ Episode!OpenWindowIsTold /\ Episode!LatchKeepsItsReason
         /\ Episode!RemindersAreBounded /\ Episode!ProtectionIsHeard)
  /\ Episode!LatchedStopEndsCarefully
=============================================================================
