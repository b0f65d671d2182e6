------------------------------ MODULE BoilerStep ------------------------------
(***************************************************************************)
(* The pure boiler state machine of control/hub_aggregate.py: the          *)
(* activation latch, the activation delay, the min-on/min-off gate and the *)
(* keep-alive re-assert, folded into one step.                             *)
(*                                                                         *)
(* The code keeps time stamps and only ever compares now - stamp with a    *)
(* threshold.  The model keeps that difference, the AGE of the stamp, and  *)
(* lets it saturate at the largest threshold it is compared with, so that  *)
(* no comparison can tell the saturated age from the true one.             *)
(***************************************************************************)
EXTENDS Naturals

CONSTANTS
  DwellFloor,   \* BOILER_MIN_DWELL_FLOOR_S
  MinOnCfg,     \* the configured minimum run time, before the clamp
  MinOffCfg,    \* the configured minimum rest, before the clamp
  Delay,        \* activation delay: continuous demand needed to switch on
  Keepalive,    \* re-assert period, 0 = off
  NoLatch       \* demand_true_since is None

ASSUME TimersAssumption ==
  /\ DwellFloor \in Nat
  /\ MinOnCfg \in Nat
  /\ MinOffCfg \in Nat
  /\ Delay \in Nat
  /\ Keepalive \in Nat
  /\ NoLatch \notin Nat
-----------------------------------------------------------------------------
AtLeast(a, b) == IF a < b THEN b ELSE a
AtMost(a, b) == IF a < b THEN a ELSE b

\* The hub clamps both dwells UP to the floor when it reads its configuration.
MinOn == AtLeast(DwellFloor, MinOnCfg)
MinOff == AtLeast(DwellFloor, MinOffCfg)

\* The largest dwell: where the age of the last switch saturates.
Dwell == AtLeast(MinOn, MinOff)

\* The age d later, saturated at cap.
Aged(age, d, cap) == AtMost(age + d, cap)

Call == {"none", "on", "off"}
CallFor(on) == IF on THEN "on" ELSE "off"

BoilerState ==
  [on : BOOLEAN,               \* the commanded state the hub believes in
   age : 0 .. Dwell,           \* now - last_switch_mono
   latch : (0 .. Delay) \cup {NoLatch},   \* now - demand_true_since
   ka : 0 .. Keepalive]        \* now - last_keepalive_mono

\* BoilerState(): every stamp lies far in the past.
DefaultBoiler == [on |-> FALSE, age |-> Dwell, latch |-> NoLatch, ka |-> Keepalive]

\* d time units pass for a boiler state the hub holds.
AgedBoiler(b, d) ==
  [b EXCEPT !.age = Aged(@, d, Dwell),
            !.latch = IF @ = NoLatch THEN @ ELSE Aged(@, d, Delay),
            !.ka = Aged(@, d, Keepalive)]
-----------------------------------------------------------------------------
\* Hold the state until its minimum dwell is over.
GateMinCycle(desired, on, age) ==
  IF desired = on THEN on
  ELSE IF on THEN age < MinOn
  ELSE age >= MinOff

\* Switching on waits for Delay of continuous demand, switching off does not.
TargetBoilerState(demand, on, latch, age) ==
  LET ready == demand /\ latch # NoLatch /\ latch >= Delay
  IN  GateMinCycle(IF on THEN demand ELSE ready, on, age)

Latched(demand, latch) ==
  IF ~demand THEN NoLatch ELSE IF latch = NoLatch THEN 0 ELSE latch

\* Seeded faults: the keep-alive re-asserts only an OFF, or only an ON.
StepBoilerRepeatsOff(b, demand, allowKeepalive) ==
  LET latch == Latched(demand, b.latch)
      target == TargetBoilerState(demand, b.on, latch, b.age)
      repeat == allowKeepalive /\ ~b.on /\ Keepalive > 0 /\ b.ka >= Keepalive
  IN  IF target # b.on
      THEN [state |-> [on |-> target, age |-> 0, latch |-> latch, ka |-> 0],
            call |-> CallFor(target)]
      ELSE [state |-> [b EXCEPT !.latch = latch, !.ka = IF repeat THEN 0 ELSE @],
            call |-> IF repeat THEN "off" ELSE "none"]
StepBoilerRepeatsOn(b, demand, allowKeepalive) ==
  LET latch == Latched(demand, b.latch)
      target == TargetBoilerState(demand, b.on, latch, b.age)
      repeat == allowKeepalive /\ b.on /\ Keepalive > 0 /\ b.ka >= Keepalive
  IN  IF target # b.on
      THEN [state |-> [on |-> target, age |-> 0, latch |-> latch, ka |-> 0],
            call |-> CallFor(target)]
      ELSE [state |-> [b EXCEPT !.latch = latch, !.ka = IF repeat THEN 0 ELSE @],
            call |-> IF repeat THEN "on" ELSE "none"]

\* One tick: the next state and the call to make.
StepBoiler(b, demand, allowKeepalive) ==
  LET latch == Latched(demand, b.latch)
      target == TargetBoilerState(demand, b.on, latch, b.age)
      repeat == allowKeepalive /\ Keepalive > 0 /\ b.ka >= Keepalive
  IN  IF target # b.on
      THEN [state |-> [on |-> target, age |-> 0, latch |-> latch, ka |-> 0],
            call |-> CallFor(target)]
      ELSE IF repeat
      THEN [state |-> [b EXCEPT !.latch = latch, !.ka = 0],
            call |-> CallFor(b.on)]
      ELSE [state |-> [b EXCEPT !.latch = latch], call |-> "none"]
=============================================================================
