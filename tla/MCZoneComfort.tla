----------------------------- MODULE MCZoneComfort -----------------------------
(***************************************************************************)
(* What a zone wants: what its schedule says of the week                   *)
(* (ComfortSchedule), the base its schedule, preset and people come to     *)
(* (ComfortPlan), and the command a target comes to (ZoneTarget).  Each    *)
(* runs alone: `part` names the one that moves, the others rest in an      *)
(* initial state.                                                          *)
(***************************************************************************)
EXTENDS ComfortPlan

CONSTANTS
  Weeks,                                            \* the schedules the clock is read with
  Indoors, Outdoors, Bands, Moulds, Overrides, Kinds,
  Frost, NormCap, HardCap, ShockDelta, CoolMinOut, HeatMaxOut, Half, SuppressFor
                                                    \* of ZoneTarget

VARIABLES part, kind, indoor, outdoor, band, mould, aired, stuck, override, edge, openFor,
          dev, calm

target == <<kind, indoor, outdoor, band, mould, aired, stuck, override, edge, openFor,
            dev, calm>>
-----------------------------------------------------------------------------
\* A week has two days of five slots.  The plans know no window; one over midnight
\* from Sunday to Monday; one in the day and one over all but a slot.
Slot(a, b, ds) == [start |-> a, end |-> b, days |-> ds]
FewWeeks == {{}, {Slot(4, 1, {1})}, {Slot(2, 4, {0, 1}), Slot(3, 5, {1})}}

\* The clock knows every window, alone and beside some others.
Beside == [start : {0, 2, 4}, end : {1, 3, 5}, days : {{0}, {1}, {0, 1}}]
ManyWeeks == FewWeeks \cup {{w} : w \in Window} \cup {{v, w} : v \in Window, w \in Beside}

\* Comfort and away, in quarters of a kelvin.
Comfort == [heat |-> 84, cool |-> 97]
TwoBands == {Comfort, [heat |-> 72, cool |-> 105]}

Device(h, c, f, climate, min, max) ==
  [heat |-> h, cool |-> c, fan |-> f, climate |-> climate, min |-> min, max |-> max]

\* A radiator valve that reports too low a maximum, an air conditioner that heats
\* and cools, one that may only heat, one with a fan, one that only cools.
Radiator == Device(TRUE, FALSE, FALSE, "auto", 20, 80)
FiveKinds == {Radiator,
              Device(TRUE, TRUE, FALSE, "auto", 64, 120),
              Device(TRUE, TRUE, FALSE, "heat_only", 64, 120),
              Device(TRUE, TRUE, TRUE, "auto", 64, 120),
              Device(FALSE, TRUE, FALSE, "auto", 72, 120)}

Target == INSTANCE ZoneTarget WITH
  Rooms <- Indoors, room <- indoor, window <- aired, frozen <- stuck, open <- openFor
AnyKind == CHOOSE k \in Kinds : TRUE
AnyReading == [indoor |-> CHOOSE t \in Indoors : TRUE,
               outdoor |-> CHOOSE t \in Outdoors : TRUE, band |-> CHOOSE e \in Bands : TRUE]

ASSUME ClockAssumption == WeekAssumption /\ Weeks \subseteq SUBSET Window
ASSUME PartsAssumption == PlanAssumption /\ Target!ScaleAssumption
ASSUME HorizonIsEnough == HorizonAssumption
-----------------------------------------------------------------------------
PartsInit ==
  /\ part \in {"clock", "plan", "target"}
  /\ windows \in IF part = "clock" THEN Weeks ELSE Schedules
  /\ now \in 0 .. Week - 1
  /\ IF part = "target" THEN windows = {} /\ now = 0 ELSE TRUE
  /\ IF part = "plan" THEN TRUE ELSE room = 1
  /\ IF part = "target" THEN TRUE
     ELSE /\ kind = AnyKind /\ indoor = AnyReading.indoor
          /\ outdoor = AnyReading.outdoor /\ band = AnyReading.band
  /\ PlanInit /\ Target!Init

PartsNext ==
  \/ part = "clock" /\ Minute
       /\ UNCHANGED <<part, room, user, latches, presence, plan, ghost, target>>
  \/ part = "plan" /\ Next /\ UNCHANGED <<part, target>>
  \/ part = "target" /\ Target!Next /\ UNCHANGED <<part, vars>>

PartsSpec == PartsInit /\ [][PartsNext]_<<part, vars, target>>
-----------------------------------------------------------------------------
\* Everywhere in the week, seam and midnight included, a schedule says what its
\* windows say (schedule.py state_at).
ScheduleIsTheClock == part = "clock" => VerdictIsTheClock

\* The comfort plan takes nothing that was not earned or asked for: a Boost is
\* given back, a room is set back only after it stood empty, coasting starts
\* warm (pipeline_prepare.py, phase_prepare.py).
PlanIsEarned ==
  part = "plan" =>
    TypeOK /\ BoostIsGivenBack /\ EcoIsEarned /\ CoastStartsWarm

\* A world that stands still brings the target to rest, cooling is not undone by
\* a heating setpoint and health is held whatever the user asks (constraints.py,
\* cooling.py, rate_limit).
TargetIsSteady ==
  /\ [](part = "target" => Target!TypeOK)
  /\ Target!SteadyWorldSettles /\ Target!HealthIsHeld /\ Target!CoolingIsNotUndone
=============================================================================
