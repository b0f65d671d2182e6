------------------------------ MODULE MCHubServes ------------------------------
(***************************************************************************)
(* What the hub and a room owe in the end: the boiler follows the call for *)
(* heat (PoiseHub), and a room brings the user's intent to disk and his    *)
(* options into effect (ZoneLifecycle).  The two share no state, so each   *)
(* runs alone: `part` names the one that moves.                            *)
(***************************************************************************)
EXTENDS MCPoiseHub

VARIABLES
  part, roomEntry, goal, shut, lock, doing, live, counts, store, payload, issues,
  ledger, device, intent, spoilt, widow, settled

room == <<roomEntry, goal, shut, lock, doing, live, counts, store, payload, issues,
          ledger, device, intent, spoilt, widow, settled>>

Room == INSTANCE ZoneLifecycle WITH
  SaveEvery <- 2, SaveLimit <- 1, TickLimit <- 1, Waiting <- 2, Faults <- {},
  None <- NoData, entry <- roomEntry, step <- doing, disk <- store, wish <- intent,
  orphan <- widow, calm <- settled
-----------------------------------------------------------------------------
PartsInit ==
  /\ part \in {"hub", "room"}
  /\ Init /\ (part # "hub" => ~power)
  /\ Room!Init

PartsNext ==
  \/ part = "hub" /\ Next /\ UNCHANGED <<part, room>>
  \/ part = "room" /\ Room!Next /\ UNCHANGED <<part, vars>>

all == <<part, vars, room>>
PartsSpec == PartsInit /\ [][PartsNext]_all

\* The fairness of each part, while it is the one that moves.
OfHub(A) == part = "hub" /\ A /\ UNCHANGED <<part, room>>
OfRoom(A) == part = "room" /\ A /\ UNCHANGED <<part, vars>>
PartsFairSpec ==
  /\ PartsSpec
  /\ WF_all(OfHub(Tick)) /\ WF_all(OfHub(Land)) /\ WF_all(OfHub(CallReturns)) /\ WF_all(OfHub(Save))
  /\ WF_all(OfHub(Setup)) /\ WF_all(OfHub(Elapse))
  /\ WF_all(OfHub(OrphanLands)) /\ WF_all(OfHub(OrphanEnds))
  /\ WF_all(OfRoom(Room!Holder)) /\ WF_all(OfRoom(Room!SetUp)) /\ WF_all(OfRoom(Room!ComesUp))
  /\ WF_all(OfRoom(Room!Refresh)) /\ SF_all(OfRoom(Room!TickFinishes(TRUE)))
-----------------------------------------------------------------------------
\* Zones that hang release the boiler and a parked one is heated for
\* (hub_coordinator.py _collect_requests).
LostZonesAreAnswered == HungZonesRelease /\ ParkedZoneIsHeated

\* A loaded room brings every command of the user to disk, and his options into
\* effect although ticks, saves and an unload compete for the lock
\* (coordinator.py _maybe_save, async_apply_options).
RoomKeepsUp == Room!IntentReachesDisk /\ Room!OptionsAreApplied
=============================================================================
