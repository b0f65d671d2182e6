---------------------------- MODULE SensorSource ----------------------------
(***************************************************************************)
(* Whose thermometer the thermostat regulates by.  A radiator valve with   *)
(* an external-temperature input can be switched from its own sensor to    *)
(* the room sensor Poise feeds it.  Poise claims the switch whenever it    *)
(* feeds, must give it back when the room sensor is lost for longer than   *)
(* SafeAfter, and takes it again when the sensor returns.  In between the  *)
(* valve may be away, restart, flip the switch by itself, or not take a    *)
(* call; calls are dispatched without waiting for the device.              *)
(*                                                                         *)
(* Time is counted in ticks of the coordinator's timer; an event may cause *)
(* a further tick at the same instant.                                     *)
(***************************************************************************)
EXTENDS Integers

CONSTANTS
  Temps,        \* what the room sensor may show
  SafeAfter,    \* UNAVAILABLE_SAFE_AFTER_S
  Retry,        \* SELECT_HANDBACK_RETRY_S
  Keepalive,    \* EXTERNAL_FEED_KEEPALIVE_S
  Configured,   \* the feed target is configured, not only found on the device
  Troubles,     \* bound: lost or refused calls and flips of the switch
  Faults        \* subset of {"away", "reboot", "flip", "lost", "restart", "park"}

Unset == -1

\* What the constants must be: assumed where they get their values.
TimesAssumption ==
  /\ Temps \subseteq Nat
  /\ Retry \in Nat \ {0} /\ SafeAfter \in Nat /\ Keepalive \in Nat \ {0}
  /\ Retry =< SafeAfter
ChoicesAssumption == Configured \in BOOLEAN /\ Troubles \in Nat

VARIABLES
  sensor,    \* the room sensor: its state and the temperature it shows last
  device,    \* the valve: reachable, sensor source, fed input, what it holds
  rt,        \* the zone's runtime
  troubles   \* what went wrong so far

vars == <<sensor, device, rt, troubles>>

-----------------------------------------------------------------------------
(* Decisions *)

\* A runtime as a set-up zone starts with it: the feed and the stamps are not
\* persisted, the user's switch is.
Fresh(enabled) == [up |-> TRUE, enabled |-> enabled, last_fed |-> Unset,
                   fed_age |-> 0, outage |-> Unset, handback |-> Unset]

Older(age, limit) == IF age = Unset \/ age = limit THEN age ELSE age + 1

\* The runtime's clocks dt timer ticks later; every age stops counting where
\* nothing asks for more.
Later(r, dt) ==
  IF dt = 0 THEN r
  ELSE [r EXCEPT !.fed_age = Older(@, Keepalive), !.handback = Older(@, Retry),
                 !.outage = Older(@, SafeAfter)]

Claimed(r) == Configured \/ r.last_fed # Unset

HandbackDueOnce(r, d) ==
  Claimed(r) /\ d.online /\ d.source = "external" /\ r.handback = Unset

\* sensor_source_handback_target: our claim, a reachable switch that reads
\* external, and no attempt within the retry interval.
HandbackDue(r, d) ==
  /\ Claimed(r)
  /\ d.online /\ d.source = "external"
  /\ r.handback = Unset \/ r.handback >= Retry

\* external_feed_due
FeedDue(r, fed) == r.last_fed # fed \/ r.fed_age >= Keepalive

Engaged(r) == r.outage # Unset /\ r.outage >= SafeAfter

-----------------------------------------------------------------------------
(* The three ends of a tick.  `taken` says which calls reach the valve,     *)
(* `raised` which are refused at the call; a refused call is not taken.     *)

\* _stage_ext_temp_feed with run_ext_temp and its commit: claim the switch,
\* skip the feed on the tick that does, feed when due, stamp a feed that was
\* not refused.  Without a reachable target nothing happens.
Feeds(r, d, taken, raised) ==
  LET claims   == d.online /\ d.source # "external"
      switched == claims /\ "select" \notin raised
      feeds    == d.online /\ ~switched /\ FeedDue(r, sensor.shown)
  IN  /\ device' = [d EXCEPT
           !.source = IF claims /\ "select" \in taken THEN "external" ELSE @,
           !.input  = IF feeds /\ "feed" \in taken THEN sensor.shown ELSE @]
      /\ rt' = IF feeds /\ "feed" \notin raised
               THEN [r EXCEPT !.last_fed = sensor.shown, !.fed_age = 0] ELSE r

\* write_unavailable_safe_state: the release first, its stamp whatever becomes
\* of the call, then the floor.  A zone switched off takes this path as well.
SafeState(r, d, taken) ==
  LET releases == HandbackDue(r, d)
  IN  /\ device' = [d EXCEPT
           !.source = IF releases /\ "select" \in taken THEN "internal" ELSE @,
           !.holds  = IF d.online THEN "floor" ELSE @]
      /\ rt' = IF releases THEN [r EXCEPT !.handback = 0] ELSE r

\* A call that does not reach its goal is a trouble, whoever is to blame.
Outcomes(taken, raised) ==
  /\ taken \cap raised = {}
  /\ IF taken = {"select", "feed"} THEN troubles' = troubles
     ELSE "lost" \in Faults /\ troubles < Troubles /\ troubles' = troubles + 1

Tick(dt, taken, raised, rescued) ==
  LET r == Later(rt, dt)
      d == [device EXCEPT !.holds =
              IF ~device.online THEN @
              ELSE IF rt.enabled
                   THEN IF sensor.state = "frozen" THEN "floor" ELSE "comfort"
                   ELSE IF rescued THEN "floor" ELSE @]
  IN  /\ rt.up
      /\ Outcomes(taken, raised)
      /\ UNCHANGED sensor
      /\ \/ \* _run_unavailable_tick
            /\ sensor.state = "gone"
            /\ LET blind == IF r.outage = Unset THEN [r EXCEPT !.outage = 0] ELSE r
               IN  IF Engaged(blind) THEN SafeState(blind, device, taken)
                   ELSE rt' = blind /\ UNCHANGED device
         \/ \* the enabled path writes the setpoint, then feeds
            /\ sensor.state # "gone" /\ rt.enabled
            /\ Feeds([r EXCEPT !.outage = Unset], d, taken, raised)
         \/ \* the switched-off path rescues at most and feeds nothing
            /\ sensor.state # "gone" /\ ~rt.enabled
            /\ rt' = [r EXCEPT !.outage = Unset] /\ device' = d

TimerTick ==
  \E taken, raised \in SUBSET {"select", "feed"}, rescued \in BOOLEAN :
    Tick(1, taken, raised, rescued)
EventTick ==
  \E taken, raised \in SUBSET {"select", "feed"}, rescued \in BOOLEAN :
    Tick(0, taken, raised, rescued)

-----------------------------------------------------------------------------
(* The rest of the house *)

RoomSensor ==
  /\ \E t \in Temps, s \in {"live", "frozen", "gone"} :
       /\ s # "live" => t = sensor.shown
       /\ sensor' = [state |-> s, shown |-> t]
  /\ UNCHANGED <<device, rt, troubles>>

\* switch.py / climate.py: the user turns Poise off or on for this zone.
UserSwitch ==
  /\ rt.up
  /\ rt' = [rt EXCEPT !.enabled = ~@]
  /\ UNCHANGED <<sensor, device, troubles>>

DeviceAway ==
  /\ "away" \in Faults
  /\ device' = [device EXCEPT !.online = ~@]
  /\ UNCHANGED <<sensor, rt, troubles>>

\* A valve that restarts is back on its own sensor with no input.
DeviceReboot ==
  /\ "reboot" \in Faults
  /\ device' = [device EXCEPT !.source = "internal", !.input = Unset]
  /\ UNCHANGED <<sensor, rt, troubles>>

\* The valve flips its switch by itself (sensor_source_handback_target's
\* docstring on the SONOFF TRVZB).
DeviceFlips ==
  /\ "flip" \in Faults /\ troubles < Troubles
  /\ device' = [device EXCEPT !.source =
                  IF @ = "external" THEN "internal" ELSE "external"]
  /\ troubles' = troubles + 1
  /\ UNCHANGED <<sensor, rt>>

Restart ==
  /\ "restart" \in Faults /\ rt.up
  /\ rt' = Fresh(rt.enabled)
  /\ UNCHANGED <<sensor, device, troubles>>

\* park_actuator: the entry is disabled or its valve exchanged; the switch goes
\* back whoever moved it, without a second attempt.
Park ==
  /\ "park" \in Faults /\ rt.up
  /\ rt' = [Fresh(rt.enabled) EXCEPT !.up = FALSE]
  /\ device' = IF device.online
               THEN [device EXCEPT !.source = "internal", !.holds = "floor"]
               ELSE device
  /\ UNCHANGED <<sensor, troubles>>

SetUp ==
  /\ ~rt.up
  /\ rt' = Fresh(rt.enabled)
  /\ UNCHANGED <<sensor, device, troubles>>

Init ==
  /\ \E t \in Temps : sensor = [state |-> "live", shown |-> t]
  /\ \E s \in {"internal", "external"} :
       device = [online |-> TRUE, source |-> s, input |-> Unset,
                 holds |-> "comfort"]
  /\ rt = Fresh(TRUE)
  /\ troubles = 0

Next ==
  \/ TimerTick \/ EventTick
  \/ RoomSensor \/ UserSwitch
  \/ DeviceAway \/ DeviceReboot \/ DeviceFlips
  \/ Restart \/ Park \/ SetUp

Spec == Init /\ [][Next]_vars

\* The coordinator's timer keeps ticking while the zone is set up.
FairSpec == Spec /\ WF_vars(TimerTick)

-----------------------------------------------------------------------------
(* Properties *)

\* Every variable keeps its type; no age is counted further than anyone asks,
\* and a fed value was shown by the sensor (runtime/state.py ActuatorRuntime).
TypeOK ==
  /\ sensor \in [state : {"live", "frozen", "gone"}, shown : Temps]
  /\ device \in [online : BOOLEAN, source : {"internal", "external"},
                 input : Temps \cup {Unset}, holds : {"comfort", "floor"}]
  /\ rt \in [up : BOOLEAN, enabled : BOOLEAN, last_fed : Temps \cup {Unset},
             fed_age : 0..Keepalive, outage : -1..SafeAfter,
             handback : -1..Retry]
  /\ troubles \in 0..Troubles

\* sensor_source_handback_target: "The FIRST attempt therefore stays immediate".
\* The tick an outage engages on releases a claimed switch that reads external
\* and can be reached, whatever an earlier outage tried and when.
FirstReleaseIsImmediate ==
  [][ /\ ~Engaged(rt) /\ Engaged(rt')
      /\ Claimed(rt) /\ device.online /\ device.source = "external"
      => rt'.handback = 0 ]_vars

\* A room sensor that stays away is answered in the end: a reachable valve we
\* claim comes back to its own sensor and stays there, although calls get lost
\* and it flips the switch by itself (for as long as that ends).
OutageReleases ==
  <>[](rt.up /\ sensor.state = "gone" /\ device.online /\ Claimed(rt))
    => <>[](device.source = "internal")

\* A room sensor that is back, or was never lost, is what the valve regulates
\* by in the end: external source, and the input is what the sensor shows,
\* after any number of outages, restarts and reboots.
RegainsRoom ==
  /\ <>[](rt.up /\ rt.enabled /\ sensor.state = "live" /\ device.online)
  /\ <>[][UNCHANGED sensor]_vars /\ <>[][~DeviceReboot]_vars
  => <>[](device.source = "external" /\ device.input = sensor.shown)

\* safety/sensor_watchdog.py on a frozen sensor: "a heat-capable device holds
\* the health floor (frost/mould, kept by the actuator's own sensor, fail
\* toward warmth)".  After a tick that put the floor for want of a true room
\* reading the reachable valve is on its own sensor, unless a call got lost.
FloorIsKeptByOwnSensor ==
  [][ /\ TimerTick /\ troubles' = troubles
      /\ sensor.state = "frozen" /\ rt.enabled /\ device.online
      => device'.source = "internal" ]_vars

=============================================================================
