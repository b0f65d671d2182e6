------------------------------- MODULE MCPoiseHub -------------------------------
(* PoiseHub with one or two zones that are idle, heating or parked.        *)
EXTENDS PoiseHub

MCNoPower == [z \in Zones |-> 0]

Base == [available |-> TRUE, unavailableSafe |-> FALSE, stamped |-> TRUE,
         heating |-> FALSE, frozen |-> FALSE, band |-> "warm", duty |-> NoDuty]
Heating == [Base EXCEPT !.heating = TRUE]
Park == [Base EXCEPT !.available = FALSE, !.unavailableSafe = TRUE,
                     !.stamped = FALSE, !.band = "none"]

OnOff == {Base, Heating}
OnOffPark == {Heating, Park}

\* The hub under which the promise is made: nobody else switches the boiler (the
\* faults of the run), and no tick outlives its hub.
SoleNext == Next /\ orphan' = NoOrphan
SoleSpec == Init /\ [][SoleNext]_vars
=============================================================================
