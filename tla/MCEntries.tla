------------------------------- MODULE MCEntries -------------------------------
(***************************************************************************)
(* The lives of config entries: a room's (ZoneLifecycle), through every    *)
(* failure its code provides for, and the system entry's (PoiseHub), which *)
(* is removed while a call or a save is under way.  The two share no       *)
(* state, so each runs alone: `part` names the one that moves.             *)
(***************************************************************************)
EXTENDS ZoneLifecycle

CONSTANTS
  Zones, ControlsBoiler, DeclaredPower, CountThreshold, PowerThreshold, FullDuty,
  StaleAfter, Snapshots, DwellFloor, MinOnCfg, MinOffCfg, Delay, Keepalive,
  CallTimeout, WallBack,
  HubFaults    \* what may go wrong in the life of the system entry

VARIABLES
  part, system, wired, pc, boiler, restored, reconciled, acted, pend, callAge, landed,
  store, ghostly, power, held, lost, fired, settled, zone

hub == <<system, wired, pc, boiler, restored, reconciled, acted, pend, callAge, landed,
         store, ghostly, power, held, lost, fired, settled, zone>>

\* Instantiated through its proofs, so that its theorems speak of this hub.
Hub == INSTANCE PoiseHubProofs WITH
  NoDuty <- None, NoData <- None, NoLatch <- None, Faults <- HubFaults,
  entry <- system, disk <- store, orphan <- ghostly, calm <- settled

ASSUME PartsAssumption ==
  Hub!HubAssumption /\ Hub!DemandAssumption /\ Hub!TimersAssumption

\* For the runs: a zone that calls for heat or does not, of no declared power.
Base == [available |-> TRUE, unavailableSafe |-> FALSE, stamped |-> TRUE,
         heating |-> FALSE, frozen |-> FALSE, band |-> "warm", duty |-> None]
OnOff == {Base, [Base EXCEPT !.heating = TRUE]}
NoPower == [z \in Zones |-> 0]
-----------------------------------------------------------------------------
PartsInit ==
  /\ part \in {"room", "hub"}
  /\ Init
  /\ Hub!Init /\ (part # "hub" => ~power)

PartsNext ==
  \/ part = "room" /\ Next /\ UNCHANGED <<part, hub>>
  \/ part = "hub" /\ Hub!Next /\ UNCHANGED <<part, vars>>

PartsSpec == PartsInit /\ [][PartsNext]_<<part, vars, hub>>
-----------------------------------------------------------------------------
\* Removing, disabling or unwiring a hub turns its boiler off, with a call or a save
\* under way as well, and nothing of the unloaded entry turns it on again but the ON of
\* a tick that was under way (__init__.py async_unload_entry, _remove_hub_entry).
RemovalLeavesItOff == [][part = "hub" => Hub!LeavesItOff]_hub
=============================================================================
