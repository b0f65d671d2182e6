------------------------------- MODULE HubDemand -------------------------------
(***************************************************************************)
(* What the hub sees of the zones and the call for heat it derives from    *)
(* it: PoiseHubCoordinator._collect_requests followed by                   *)
(* aggregate_boiler_demand.  A zone's coordinator is modelled by what it   *)
(* exposes to the hub: the data of its last tick, whether the last update  *)
(* succeeded, and the age of the data's monotonic stamp.                   *)
(***************************************************************************)
EXTENDS Naturals, FiniteSets, Functions

CONSTANTS
  Zones,            \* the room entries of the installation
  ControlsBoiler,   \* the zones opted in to the shared boiler
  DeclaredPower,    \* rated power per zone, 0 = unknown
  CountThreshold,   \* boiler_count_threshold
  PowerThreshold,   \* boiler_power_threshold, 0 = not configured
  FullDuty,         \* the duty that means 1.0 (duties are fractions of it)
  NoDuty,           \* tpi_duty is None or not a finite number
  StaleAfter,       \* HUB_ZONE_STALE_AFTER_S
  Snapshots,        \* the data dicts a zone may publish
  NoData            \* the zone is not loaded: no runtime_data, or data not a dict

\* A room temperature: absent, a sensor fault (below the plausible minimum),
\* in the frost band, or above it.
Bands == {"none", "fault", "frost", "warm"}

SnapshotType ==
  [available : BOOLEAN, unavailableSafe : BOOLEAN, stamped : BOOLEAN,
   heating : BOOLEAN, frozen : BOOLEAN, band : Bands,
   duty : (0 .. FullDuty) \cup {NoDuty}]

ASSUME DemandAssumption ==
  /\ IsFiniteSet(Zones)
  /\ ControlsBoiler \subseteq Zones
  /\ DeclaredPower \in [Zones -> Nat]
  /\ CountThreshold \in Nat
  /\ PowerThreshold \in Nat
  /\ FullDuty \in Nat \ {0}
  /\ StaleAfter \in Nat
  /\ Snapshots \subseteq SnapshotType
  /\ NoData \notin SnapshotType

VARIABLE zone       \* zone[z]: what the hub can read of z's coordinator

ZoneView == [data : Snapshots \cup {NoData}, ok : BOOLEAN, age : 0 .. StaleAfter + 1]
-----------------------------------------------------------------------------
\* zone_heat_demand, clamped to [0, 1] by the aggregation.
HeatDemand(d) ==
  IF d.frozen THEN 0
  ELSE IF d.duty # NoDuty THEN d.duty
  ELSE IF d.heating THEN FullDuty ELSE 0

\* Seeded faults: a frozen sensor still heats, or loses its frost protection.
RequestFrozenHeats(d) ==
  [heating |-> d.heating, demand |-> HeatDemand(d),
   frost |-> d.band = "frost", powered |-> TRUE]

\* zone_request_from_data: a frozen sensor calls for no comfort heat, frost is
\* read from the room temperature alone.
RequestFromData(d) ==
  [heating |-> d.heating /\ ~d.frozen, demand |-> HeatDemand(d),
   frost |-> d.band = "frost", powered |-> TRUE]

\* frost_heat_request: the synthetic call of a zone parked at the frost floor.
FrostHeatRequest == [heating |-> TRUE, demand |-> FullDuty, frost |-> TRUE, powered |-> FALSE]

\* Seeded faults: a failed update reads as parked, a stale stamp as fresh.
ParkedOrFailed(v) ==
  v.data # NoData /\ (~v.ok \/ (~v.data.available /\ v.data.unavailableSafe))
CurrentForEver(v) ==
  v.data # NoData /\ v.data.available /\ v.ok /\ v.data.stamped

Parked(v) == v.data # NoData /\ ~v.data.available /\ v.data.unavailableSafe
Current(v) ==
  /\ v.data # NoData
  /\ v.data.available
  /\ v.ok
  /\ v.data.stamped
  /\ v.age <= StaleAfter

\* The zones that hand the hub a request, given their views.
Collected(views) ==
  {z \in Zones : Current(views[z]) \/ (z \in ControlsBoiler /\ Parked(views[z]))}

Request(views, z) ==
  IF Parked(views[z]) THEN FrostHeatRequest ELSE RequestFromData(views[z].data)
-----------------------------------------------------------------------------
Participating(views) == Collected(views) \cap ControlsBoiler
Calling(views) == {z \in Participating(views) : Request(views, z).heating}

Share(views) ==
  [z \in Calling(views) |->
     (IF Request(views, z).powered THEN DeclaredPower[z] ELSE 0) * Request(views, z).demand]
WeightedDemand(views) == SumFunction(Share(views))

FrostOverride(views) == \E z \in Participating(views) : Request(views, z).frost

\* The freezing zones the boiler does not serve: reported, never fired for.
FrostExcluded(views) ==
  {z \in Collected(views) \ ControlsBoiler : Request(views, z).frost}

\* aggregate_boiler_demand(...).active
DemandOf(views) ==
  \/ FrostOverride(views)
  \/ Cardinality(Calling(views)) >= CountThreshold
  \/ PowerThreshold > 0 /\ WeightedDemand(views) >= PowerThreshold * FullDuty

Demand == DemandOf(zone)
-----------------------------------------------------------------------------
\* A zone tick succeeds: fresh data, a fresh stamp.
Publish(z, d) ==
  zone' = [zone EXCEPT ![z] = [data |-> d, ok |-> TRUE, age |-> 0]]

\* A zone tick raises: its coordinator keeps the data of the last good tick.
UpdateFails(z) ==
  /\ zone[z].data # NoData
  /\ zone' = [zone EXCEPT ![z].ok = FALSE]

\* The zone's entry is unloaded.
UnloadZone(z) ==
  /\ zone[z].data # NoData
  /\ zone' = [zone EXCEPT ![z] = [data |-> NoData, ok |-> TRUE, age |-> 0]]

ZoneStep(z) ==
  \/ \E d \in Snapshots : Publish(z, d)
  \/ UpdateFails(z)
  \/ UnloadZone(z)

\* Time passes: every stamp ages, saturated just above the staleness limit.
AgedZones ==
  [z \in Zones |->
     IF zone[z].data = NoData \/ zone[z].age > StaleAfter THEN zone[z]
     ELSE [zone[z] EXCEPT !.age = @ + 1]]

ZonesInit == zone = [z \in Zones |-> [data |-> NoData, ok |-> TRUE, age |-> 0]]
ZonesNext ==
  \/ \E z \in Zones : ZoneStep(z)
  \/ zone' = AgedZones
ZonesSpec == ZonesInit /\ [][ZonesNext]_zone
-----------------------------------------------------------------------------
ZonesTypeOK == zone \in [Zones -> ZoneView]

(***************************************************************************)
(* Losing sight of zones never raises the call for heat: neither the mere  *)
(* passing of time nor a failing zone update turns the demand on.  Hangs   *)
(* and failures may only ever take requests away (H3/ADR-0038).            *)
(***************************************************************************)
SilenceLowersDemand ==
  (zone' = AgedZones \/ \E z \in Zones : UpdateFails(z)) => (Demand' => Demand)

(***************************************************************************)
(* A zone that does not control the boiler has no influence on it, however *)
(* cold it is or however hard it heats: a step of such a zone leaves the   *)
(* call for heat as it was (ADR-0039, correction #3).                      *)
(***************************************************************************)
OutsiderChangesNothing ==
  (\A z \in ControlsBoiler : zone'[z] = zone[z]) => (Demand' <=> Demand)

(***************************************************************************)
(* Neither zones that fall silent nor zones that are not the hub's raise   *)
(* the call for heat (hub_coordinator.py _collect_requests).               *)
(***************************************************************************)
OutsidersHaveNoSay == [][OutsiderChangesNothing]_zone
DemandIsNotRaised == [][SilenceLowersDemand /\ OutsiderChangesNothing]_zone

(***************************************************************************)
(* A dead sensor does not pin the boiler: a zone whose room sensor is      *)
(* frozen counts exactly as if it were not heating at all, so only the     *)
(* frost band of its last reading can still fire the boiler (ADR-0039,     *)
(* addendum #4).                                                           *)
(***************************************************************************)
FrozenSensorsDoNotHeat ==
  LET quiet(v) == IF v.data # NoData /\ v.data.available /\ v.data.frozen
                  THEN [v EXCEPT !.data.heating = FALSE, !.data.duty = 0] ELSE v
  IN  Demand <=> DemandOf([z \in Zones |-> quiet(zone[z])])

(***************************************************************************)
(* Frost is protected however the thresholds are configured: as long as a  *)
(* zone the boiler serves last reported a freezing room, and that report   *)
(* is neither stale nor followed by a failure, the boiler is called for.   *)
(***************************************************************************)
FrostIsNeverOutvoted ==
  (\E z \in ControlsBoiler : Current(zone[z]) /\ zone[z].data.band = "frost") => Demand

(***************************************************************************)
(* The call for heat is right about sensors: one that is frozen does not   *)
(* heat, and frost is not outvoted (control/hub_aggregate.py).             *)
(***************************************************************************)
DemandIsSound == ZonesTypeOK /\ FrozenSensorsDoNotHeat /\ FrostIsNeverOutvoted
=============================================================================
