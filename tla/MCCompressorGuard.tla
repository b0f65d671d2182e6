--------------------------- MODULE MCCompressorGuard ---------------------------
(* CompressorGuard with the wishes a summer day may bring: cooling, drying, *)
(* heating, an open window, an idle room, a manual setpoint, a device held  *)
(* off.                                                                     *)
EXTENDS CompressorGuard

Cool == [final |-> "cool", park |-> None, hold |-> None,
         safety |-> FALSE, override |-> FALSE, enabled |-> TRUE]
Dry == [Cool EXCEPT !.final = "dry"]
Heat == [Cool EXCEPT !.final = "heat"]
Window == [Cool EXCEPT !.final = "off", !.safety = TRUE]
Idle == [Cool EXCEPT !.final = "idle", !.park = "fan_only"]
Override == [Cool EXCEPT !.override = TRUE]
HeldOff == [Cool EXCEPT !.hold = "off"]

CoolingDay == {Cool, Dry, Heat, Window, Idle, Override}
TwoWishes == {Cool, HeldOff}
=============================================================================
