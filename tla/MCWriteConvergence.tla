-------------------------- MODULE MCWriteConvergence -------------------------
(* A small zone for TLC under the watchdog of its setpoint channel: a device *)
(* that settles exactly where it is told, a comfort plan, an idle one with   *)
(* the device on its own schedule and a narrower band, and an open window.   *)
EXTENDS WriteConvergence

Exact == [v \in Setpoints |-> v]

Comfort ==
  {[sp |-> Top, lo |-> 1, hi |-> Top, mode |-> "heat", safety |-> FALSE, sched |-> FALSE],
   [sp |-> 1, lo |-> 1, hi |-> 2, mode |-> "idle", safety |-> FALSE, sched |-> TRUE],
   [sp |-> 0, lo |-> 1, hi |-> Top, mode |-> "off", safety |-> TRUE, sched |-> FALSE]}
=============================================================================
