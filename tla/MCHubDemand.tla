------------------------------ MODULE MCHubDemand ------------------------------
(* HubDemand with two boiler zones and one that is not opted in.           *)
EXTENDS HubDemand

CONSTANTS a, b, c

MCPower == [z \in {a, b, c} |-> IF z = a THEN 3 ELSE 1]

Base == [available |-> TRUE, unavailableSafe |-> FALSE, stamped |-> TRUE,
         heating |-> FALSE, frozen |-> FALSE, band |-> "warm", duty |-> NoDuty]

Heating == [Base EXCEPT !.heating = TRUE]
Frosty == [Base EXCEPT !.band = "frost"]
Park == [Base EXCEPT !.available = FALSE, !.unavailableSafe = TRUE,
                     !.stamped = FALSE, !.band = "none"]

\* The kinds of data a zone publishes: idle, heating, heating at half duty, in
\* the frost band, a frozen sensor warm or cold, a faulty reading, no stamp,
\* unavailable, and unavailable with the frost park engaged.
MCSnapshots ==
  {Base, Heating, [Heating EXCEPT !.duty = 1], Frosty,
   [Heating EXCEPT !.frozen = TRUE], [Frosty EXCEPT !.heating = TRUE, !.frozen = TRUE],
   [Heating EXCEPT !.band = "fault"], [Heating EXCEPT !.stamped = FALSE],
   [Park EXCEPT !.unavailableSafe = FALSE], Park}
=============================================================================
