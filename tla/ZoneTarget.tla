------------------------------ MODULE ZoneTarget ------------------------------
(***************************************************************************)
(* What a zone commands its device to: the comfort decision of a tick, the *)
(* rate-limited cooling edge, the park of an idle device, the floors and   *)
(* caps of the written target, the health floor behind a frozen sensor,    *)
(* the direction of a manual target and the nudge that puts the device     *)
(* into its mode.  Every tick is a function of what it reads, of the mode  *)
(* the device reports and of two memories: the cooling edge of the last    *)
(* tick and the age of the open window.                                    *)
(*                                                                         *)
(* Temperatures are counted in quarters of a kelvin.  The operative bands  *)
(* of decide (category, schedule, presence, comfort slider, operative      *)
(* temperature) are one choice out of Bands, the pair of air-side edges    *)
(* they come to before the hard floors.  The device follows what it is     *)
(* told; the guard, the holds and the throttles of the write path are      *)
(* modelled in CompressorGuard, ModeChannel and SetpointChannel.  The      *)
(* arbitration of drying and of the fan-first stage against cooling        *)
(* (comfort/mode_seam.py) is not part of it.                               *)
(***************************************************************************)
EXTENDS Integers, FiniteSets, FiniteSetsExt

CONSTANTS
  Rooms, Outdoors,       \* readings
  Bands,                 \* the records [heat, cool] of the comfort edges
  Moulds,                \* mould floors, besides none
  Overrides,             \* manual targets, besides none
  Kinds,                 \* records [heat, cool, fan, climate, min, max]: what a
                         \* device can do and its limits, the zone's climate mode
  Frost,                 \* FROST_FLOOR_C
  NormCap,               \* ASR_MAX_ROOM_C
  HardCap, ShockDelta,   \* cool_hard_cap, thermal_shock_delta
  CoolMinOut, HeatMaxOut,\* the outdoor lockouts
  Half,                  \* half a kelvin: the hysteresis and the step per tick
  SuppressFor            \* WINDOW_MOULD_SUPPRESS_S, in ticks

Unset == -1

\* What the constants must be: assumed where they get their values.
ScaleAssumption ==
  /\ Rooms \cup Outdoors \cup Moulds \cup Overrides \subseteq Nat
  /\ Bands \subseteq [heat : Nat, cool : Nat]
  /\ {Frost, NormCap, HardCap, ShockDelta, Half} \subseteq Nat
  /\ Kinds \subseteq [heat : BOOLEAN, cool : BOOLEAN, fan : BOOLEAN,
                      climate : {"auto", "heat_only", "cool_only"},
                      min : Nat, max : Nat]
  /\ SuppressFor \in Nat \ {0}

VARIABLES
  kind,       \* what the actuator can do, and the zone's climate mode
  room, outdoor, band, mould, window, frozen,  \* what the tick reads
  override,   \* the manual target
  edge,       \* cool_sp_eff_prev
  open,       \* ticks since window_open_since
  dev,        \* the device: mode and setpoint
  calm        \* history: the last step was a tick

world == <<room, outdoor, band, mould, window, frozen, override>>
vars == <<kind, world, edge, open, dev, calm>>

-----------------------------------------------------------------------------
(* comfort/dual_setpoint.py, control/cooling.py *)

\* decide: the hard floors under the heating edge, and no inverted band.
HeatSp == Max({band.heat, Frost, mould})
CoolSp == Max({band.cool, HeatSp})

decide_mode(heat, cool) ==
  LET heatOk == kind.heat /\ kind.climate # "cool_only" /\ outdoor =< HeatMaxOut
      coolOk == kind.cool /\ kind.climate # "heat_only" /\ outdoor >= CoolMinOut
  IN  IF heatOk /\ room < heat THEN "heat"
      ELSE IF coolOk /\ room > cool THEN "cool" ELSE "idle"

Decision == decide_mode(HeatSp, CoolSp)

\* adaptive_cool_setpoint: raised toward the outdoor air, below the caps.
Raised ==
  Min({Max({CoolSp, outdoor - ShockDelta}),
       Max({CoolSp, Min({kind.max, HardCap})})})

rate_limit(prev, target) ==
  IF prev = Unset THEN target
  ELSE IF target > prev THEN Min({target, prev + Half})
       ELSE Max({target, prev - Half})

-----------------------------------------------------------------------------
(* control/tick_resolve.py, constraints.py *)

\* A device already cooling keeps cooling.
FlipsBack == FALSE
KeepsCooling == dev.mode = "cool"

\* idle_park: the mode and the setpoint of a device that has nothing to do.
idle_park(cool) ==
  LET twiceMid == HeatSp + cool
      atHeat == [mode |-> "heat", sp |-> HeatSp]
      atCool == [mode |-> "cool", sp |-> cool]
  IN  IF ~kind.cool THEN atHeat
      ELSE IF kind.fan /\ ~(kind.heat /\ 2 * room < twiceMid - 2 * Half)
           THEN [mode |-> "fan_only", sp |-> cool]
      ELSE IF ~kind.heat \/ KeepsCooling THEN atCool
      ELSE IF 2 * room > twiceMid + 2 * Half THEN atCool ELSE atHeat

\* resolve_constraints: the binding floor and the binding cap; where they cross
\* the higher precedence wins, the floor among equals.  0 is SAFETY, 1 HEALTH,
\* 2 COMFORT; a bound is its value and its rank.
FloorOf(bounds) ==
  CHOOSE f \in bounds : \A g \in bounds :
    f[1] > g[1] \/ (f[1] = g[1] /\ f[2] =< g[2])
CapOf(bounds) ==
  CHOOSE c \in bounds : \A d \in bounds :
    c[1] < d[1] \/ (c[1] = d[1] /\ c[2] =< d[2])
resolve_constraints(desired, floors, caps) ==
  LET f == FloorOf(floors)
      c == CapOf(caps)
  IN  IF f[1] > c[1] THEN (IF f[2] =< c[2] THEN f[1] ELSE c[1])
      ELSE Min({Max({desired, f[1]}), c[1]})

\* The device's own limits as bounds of the target: the cap gives way to a health
\* floor the device reports itself unable to reach, unless it cools.
DeviceFloor == kind.min
DeviceCap(mode, floor) ==
  IF mode = "cool" THEN kind.max ELSE Max({kind.max, floor})

\* The unconditional envelope of resolve_write_target.
Enveloped(desired, mode, mouldWrite) ==
  LET floor == Max({Frost, mouldWrite})
      norm == IF mode = "cool" THEN [floors |-> {}, caps |-> {}]
              ELSE [floors |-> {<<floor, 1>>}, caps |-> {<<NormCap, 2>>}]
  IN  resolve_constraints(desired,
        {<<DeviceFloor, 0>>} \cup norm.floors,
        {<<DeviceCap(mode, floor), 0>>} \cup norm.caps)

\* A manual target is held to the comfort band; one that cannot cool has no upper
\* edge.
Manual(cool) ==
  LET atLeast == Max({override, HeatSp})
  IN  IF kind.cool THEN Min({atLeast, cool}) ELSE atLeast

\* The mould floor of the write: not for the first ticks of an open window.
MouldWrite == IF window /\ open' < SuppressFor THEN Unset ELSE mould

\* resolve_desired_mode
resolve_desired_mode(final, park) ==
  IF final \in {"heat", "cool", "fan_only"} THEN final
  ELSE IF final = "off" THEN (IF kind.heat THEN "heat" ELSE "off")
  ELSE IF final = "idle" /\ park # "" THEN park
  ELSE IF kind.cool /\ dev.mode \in {"heat", "cool"} THEN dev.mode ELSE "heat"

Supported == (IF kind.heat THEN {"heat"} ELSE {})
             \cup (IF kind.cool THEN {"cool"} ELSE {})
             \cup (IF kind.fan THEN {"fan_only"} ELSE {}) \cup {"off"}

-----------------------------------------------------------------------------
(* The tick: _stage_write_target, stage_mode_resolution, nudge and write *)

\* The target and the mode of the write, before the direction of a manual one.
Written(cool, park) ==
  IF frozen /\ kind.heat THEN [sp |-> Max({Frost, mould, kind.min}), mode |-> "heat"]
  ELSE LET mode == IF window THEN "off"
                   ELSE IF override # Unset THEN "manual" ELSE Decision
           desired == IF window THEN Max({Frost, MouldWrite})
                      ELSE IF override # Unset THEN Manual(cool)
                      ELSE IF Decision = "cool" THEN cool
                      ELSE IF Decision = "idle" THEN park.sp
                      ELSE HeatSp
       IN  [sp |-> Enveloped(desired, mode, MouldWrite),
            mode |-> IF frozen THEN "off" ELSE mode]

\* stage_mode_resolution: a manual target drives the direction.
Final(wt) ==
  IF override # Unset /\ ~window /\ ~frozen
  THEN decide_mode(wt.sp - Half, wt.sp + Half) ELSE wt.mode

Tick ==
  LET cool == rate_limit(edge, Raised)
      park == IF Decision = "idle" THEN idle_park(cool) ELSE [mode |-> "", sp |-> 0]
      wt == Written(cool, park)
      desired == resolve_desired_mode(Final(wt), park.mode)
  IN  /\ open' = IF ~window THEN Unset
                 ELSE IF open = Unset THEN 0
                 ELSE IF open < SuppressFor THEN open + 1 ELSE open
      /\ edge' = cool
      /\ dev' = [mode |-> IF desired \in Supported THEN desired ELSE dev.mode,
                 sp |-> wt.sp]
      /\ calm' = TRUE
      /\ UNCHANGED <<kind, world>>

\* What a tick reads changes between two ticks.
Weather ==
  /\ \/ room' \in Rooms /\ UNCHANGED <<outdoor, band, mould, window, frozen, override>>
     \/ outdoor' \in Outdoors
        /\ UNCHANGED <<room, band, mould, window, frozen, override>>
     \/ band' \in Bands /\ UNCHANGED <<room, outdoor, mould, window, frozen, override>>
     \/ mould' \in Moulds \cup {Unset}
        /\ UNCHANGED <<room, outdoor, band, window, frozen, override>>
     \/ window' \in BOOLEAN /\ UNCHANGED <<room, outdoor, band, mould, frozen, override>>
     \/ frozen' \in BOOLEAN /\ UNCHANGED <<room, outdoor, band, mould, window, override>>
  /\ calm' = FALSE
  /\ UNCHANGED <<kind, edge, open, dev>>

SetOverride ==
  /\ override' \in Overrides \cup {Unset}
  /\ calm' = FALSE
  /\ UNCHANGED <<kind, room, outdoor, band, mould, window, frozen, edge, open, dev>>

Init ==
  /\ kind \in Kinds
  /\ room \in Rooms /\ outdoor \in Outdoors /\ band \in Bands
  /\ mould = Unset /\ window = FALSE /\ frozen = FALSE /\ override = Unset
  /\ edge = Unset /\ open = Unset
  /\ dev \in [mode : Supported, sp : {kind.min}]
  /\ calm = FALSE

Next == Tick \/ Weather \/ SetOverride

Spec == Init /\ [][Next]_vars

-----------------------------------------------------------------------------
(* Properties *)

\* Every variable keeps its type, and no target leaves the device's range but
\* for a health floor above it (resolve_write_target).
TypeOK ==
  /\ kind \in Kinds
  /\ room \in Rooms /\ outdoor \in Outdoors /\ band \in Bands
  /\ mould \in Moulds \cup {Unset} /\ override \in Overrides \cup {Unset}
  /\ window \in BOOLEAN /\ frozen \in BOOLEAN /\ calm \in BOOLEAN
  /\ edge \in Nat \cup {Unset} /\ open \in -1..SuppressFor
  /\ dev.mode \in Supported
  /\ dev.sp >= kind.min
  /\ dev.sp > kind.max => dev.sp \in {Frost} \cup Moulds

\* tick_resolve.resolve_write_target: "the unconditional norm envelope", "health
\* is never undercut".  Whatever is asked for, a tick that leaves the device
\* heating leaves it at the frost and the mould floor at least; only the mould
\* floor waits, for the first ticks of an open window.
HealthIsHeld ==
  [][ calm' /\ dev'.mode = "heat"
      => /\ dev'.sp >= Frost
         /\ dev'.sp >= mould \/ (window /\ ~frozen /\ open' < SuppressFor) ]_vars

\* tick_resolve.idle_park: "a device already cooling keeps cooling", "flipping
\* to heat would only thrash the compressor".  Only a room in want of heat, a
\* window, a frozen sensor or a hand turns a cooling device to heating.
CoolingIsNotUndone ==
  [][ calm' /\ dev.mode = "cool" /\ dev'.mode = "heat"
      => window \/ frozen \/ override # Unset \/ Decision = "heat" ]_vars

\* A second tick over an unchanged world repeats the command of the first; only
\* the rate-limited cooling edge still comes nearer to where it is going, and an
\* open window reaches the age at which the mould floor is written again.
SteadyWorldSettles ==
  [][ calm /\ calm' /\ dev' # dev
      => \/ edge' # edge /\ (edge < Raised <=> edge < edge')
                        /\ (edge' < Raised => edge < Raised)
                        /\ (edge' > Raised => edge > Raised)
         \/ window /\ open' = SuppressFor /\ open < open' ]_vars

\* control/cooling.py: "hard outdoor lockouts and device-capability gating
\* prevent heating when it is mild outside, cooling when it is cold, or acting in
\* a direction the device cannot do".  Without a manual target, a tick does not
\* leave a device set to cool the room below its reading while the climate mode
\* or the outdoor lockout rules cooling out.
LockoutHolds ==
  [][ calm' /\ override = Unset /\ ~window /\ ~frozen
      /\ (kind.climate = "heat_only" \/ outdoor < CoolMinOut)
      => ~(dev'.mode = "cool" /\ dev'.sp < room) ]_vars

=============================================================================
