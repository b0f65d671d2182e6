------------------------------- MODULE PoiseHub -------------------------------
(***************************************************************************)
(* The boiler hub: the life of its config entry, its tick (collect, then   *)
(* reconcile, step, call, commit, persist), the boiler it switches and the *)
(* store it keeps.  A tick is not atomic: it waits for the blocking        *)
(* service call and then for the save, and while it waits time passes,     *)
(* zones publish, the call lands or is lost, Home Assistant stops or the   *)
(* entry is unloaded.                                                      *)
(*                                                                         *)
(* Time is counted in units chosen by the constants; a service call that   *)
(* takes effect does so within CallTimeout of the tick that made it.       *)
(***************************************************************************)
EXTENDS Integers, BoilerStep, HubDemand

CONSTANTS
  CallTimeout,   \* _BOILER_CALL_TIMEOUT_S
  WallBack,      \* how far the wall clock may jump back across restarts
  Faults         \* what may go wrong in a run, see FaultKinds

\* foreign:  someone else switches the boiler
\* callFails: a service call raises or times out without effect
\* lateCall: a service call raises or times out although it took effect
\* midCall:  the entry is unloaded while a tick waits for its call or save
\* saveFails, loadFails: the store raises
FaultKinds == {"foreign", "callFails", "lateCall", "midCall", "saveFails", "loadFails"}

ASSUME HubAssumption ==
  /\ CallTimeout \in Nat
  /\ WallBack \in Nat
  /\ Faults \subseteq FaultKinds

VARIABLES
  entry,       \* the system entry: "absent", "disabled", "enabled"
  wired,       \* both boiler actions parse: actuation is on
  pc,          \* the hub: "down" (not loaded), "idle", "calling", "saving"
  boiler,      \* _boiler, ages as of now
  restored,    \* _restored
  reconciled,  \* _reconciled
  acted,       \* _has_actuated
  pend,        \* the step whose call is under way, ages as of its tick's start
  callAge,     \* time since the start of the tick that waits
  landed,      \* the call under way has taken effect
  disk,        \* the store's payload
  orphan,      \* the unfinished tick of an unloaded instance
  power,       \* the boiler really runs
  held,        \* time since it really switched, saturated at Dwell
  lost,        \* switches the store has no true stamp of, 0 .. 2 (no program variable)
  fired,       \* a call of this entry was acknowledged and recorded (same)
  calm         \* from here on nothing goes wrong (same)

hub == <<boiler, restored, reconciled, acted>>
tick == <<pend, callAge, landed>>
plant == <<power, held>>
vars == <<entry, wired, pc, hub, tick, disk, orphan, plant, lost, fired, calm, zone>>

Fault(f) == f \in Faults /\ ~calm
-----------------------------------------------------------------------------
NoStep == [state |-> DefaultBoiler, call |-> "none"]
Step == [state : BoilerState, call : Call]

\* boiler_state_to_payload's dict; its wall stamp is kept as an age.
Payload == [kept : BOOLEAN, on : BOOLEAN, age : (-WallBack) .. Dwell, acted : BOOLEAN]
NoPayload == [kept |-> FALSE, on |-> FALSE, age |-> 0, acted |-> FALSE]

\* max(0, now_mono - last_switch) as of the tick's start, against a wall clock
\* read after the call.
ToPayload(s) == [kept |-> TRUE, on |-> s.on, age |-> s.age, acted |-> TRUE]

\* Seeded fault: a stamp of the future is not clamped.
FromPayloadUnclamped(p) ==
  IF p.kept THEN [DefaultBoiler EXCEPT !.on = p.on, !.age = p.age] ELSE DefaultBoiler

\* restore_boiler_state: a stamp the wall clock puts in the future reads as now.
FromPayload(p) ==
  IF p.kept
  THEN [on |-> p.on, age |-> AtLeast(p.age, 0), latch |-> NoLatch, ka |-> Keepalive]
  ELSE DefaultBoiler

NoOrphan == [step |-> NoStep, saves |-> FALSE, landed |-> FALSE, age |-> 0]
Orphan == [step : Step, saves : BOOLEAN, landed : BOOLEAN, age : 0 .. CallTimeout]

\* The boiler really switches (or is found as it is).
Switch(p) ==
  /\ power' = p
  /\ held' = IF p = power THEN held ELSE 0
  /\ lost' = IF p = power THEN lost ELSE AtMost(lost + 1, 2)

\* A new PoiseHubCoordinator; the tick of a previous one is gone.
FreshHub ==
  /\ boiler' = DefaultBoiler
  /\ restored' = FALSE
  /\ reconciled' = FALSE
  /\ acted' = FALSE
  /\ pend' = NoStep
  /\ callAge' = 0
  /\ landed' = FALSE
-----------------------------------------------------------------------------
(* The tick.                                                               *)

\* reconcile_boiler_on applied to the state of the ON action's entity.
Readings == IF calm THEN {CallFor(power)} ELSE {CallFor(power), "none"}

\* Seeded fault: any divergence is stamped long ago, a running boiler too.
ReconcileForgetsRun(b, reading) ==
  [b EXCEPT !.on = reading = "on", !.age = IF (reading = "on") = b.on THEN @ ELSE Dwell,
            !.ka = 0]

\* The one-time reconciliation of _actuate.  A boiler found running is stamped
\* now, one found off long ago, a belief that was right keeps its stamp.
Reconcile(b, reading) ==
  LET real == reading = "on"
      stamp == IF real = b.on THEN b.age
               ELSE IF real THEN 0
               ELSE Dwell
  IN  [on |-> real, age |-> stamp, latch |-> b.latch, ka |-> 0]

Tick ==
  /\ pc = "idle"
  /\ wired
  /\ \E loadOk \in BOOLEAN, reading \in Readings :
       /\ loadOk \/ (~restored /\ Fault("loadFails"))
       /\ LET loaded == IF restored THEN boiler
                        ELSE IF loadOk THEN FromPayload(disk) ELSE DefaultBoiler
              rec == reconciled \/ reading # "none"
              b == IF ~reconciled /\ reading # "none"
                   THEN Reconcile(loaded, reading) ELSE loaded
              s == StepBoiler(b, Demand, rec)
          IN  /\ restored' = TRUE
              /\ reconciled' = rec
              /\ acted' = IF restored THEN acted ELSE loadOk /\ disk.acted
              /\ lost' = IF loadOk THEN lost ELSE AtLeast(lost, 1)
              /\ IF s.call = "none"
                 THEN boiler' = s.state /\ UNCHANGED <<pc, tick>>
                 ELSE /\ boiler' = b
                      /\ pc' = "calling"
                      /\ pend' = s /\ callAge' = 0 /\ landed' = FALSE
  /\ UNCHANGED <<entry, wired, disk, orphan, plant, fired, calm, zone>>

\* The boiler obeys the call under way.
Land ==
  /\ pc = "calling" /\ ~landed
  /\ Switch(pend.call = "on")
  /\ landed' = TRUE
  /\ UNCHANGED <<entry, wired, pc, hub, pend, callAge, disk, orphan, fired, calm, zone>>

\* The tick is over.
TickDone == pc' = "idle" /\ pend' = NoStep /\ callAge' = 0 /\ landed' = FALSE

\* Seeded fault: only flips are saved.
SavesOnlyFlips == pend.state.on # boiler.on

\* Whether the acknowledged call is worth a save: the first one ever, or a flip.
Saves == ~acted \/ pend.state.on # boiler.on

\* The call returns: the step is committed.
CallReturns ==
  /\ pc = "calling" /\ landed
  /\ boiler' = AgedBoiler(pend.state, callAge)
  /\ acted' = TRUE
  /\ fired' = (fired \/ ~Saves)
  /\ IF Saves THEN pc' = "saving" /\ UNCHANGED tick ELSE TickDone
  /\ UNCHANGED <<entry, wired, restored, reconciled, disk, orphan, plant, lost, calm,
                 zone>>

\* Seeded fault: the step is committed although its call failed.
CallFailsCommitted ==
  /\ pc = "calling"
  /\ IF landed THEN Fault("lateCall") ELSE Fault("callFails")
  /\ boiler' = AgedBoiler(pend.state, callAge)
  /\ TickDone
  /\ UNCHANGED <<entry, wired, restored, reconciled, acted, disk, orphan, plant, lost,
                 fired, calm, zone>>

\* The call raises or times out: nothing is committed, the next tick retries.
CallFails ==
  /\ pc = "calling"
  /\ IF landed THEN Fault("lateCall") ELSE Fault("callFails")
  /\ TickDone
  /\ UNCHANGED <<entry, wired, hub, disk, orphan, plant, lost, fired, calm, zone>>

\* _persist.  A flip is stamped by the tick that made it; a save without one
\* (the first call, a re-assert) copies the stamp the hub had, true or not.
Save ==
  /\ pc = "saving"
  /\ disk' = ToPayload(pend.state)
  /\ lost' = IF pend.state.age = 0 THEN 0 ELSE lost
  /\ fired' = TRUE
  /\ TickDone
  /\ UNCHANGED <<entry, wired, hub, orphan, plant, calm, zone>>

\* A store that raises is logged and forgotten.
SaveFails ==
  /\ pc = "saving"
  /\ Fault("saveFails")
  /\ TickDone
  /\ UNCHANGED <<entry, wired, hub, disk, orphan, plant, lost, fired, calm, zone>>
-----------------------------------------------------------------------------
(* The life of the entry.                                                  *)

\* async_setup_entry; the first refresh is the first Tick.
Setup ==
  /\ entry = "enabled" /\ pc = "down"
  /\ pc' = "idle"
  /\ FreshHub
  /\ UNCHANGED <<entry, wired, disk, orphan, plant, lost, fired, calm, zone>>

\* The tick an unload overtakes goes on without its hub.
LeaveTick ==
  IF pc = "idle" THEN UNCHANGED orphan
  ELSE /\ Fault("midCall")
       /\ orphan = NoOrphan
       /\ orphan' = [step |-> pend, landed |-> landed, age |-> callAge,
                     saves |-> pc = "saving" \/ Saves]

\* resolve_hub_unload_off: the hand-over OFF belongs to a genuine hand-over.
HandsOver(reason) == wired /\ reason \in {"disable", "unwire", "retarget"}

\* The boiler after a (blocking, best-effort) OFF, if one is sent.
MaybeOff(sent) ==
  \/ sent /\ Switch(FALSE)
  \/ (sent => Fault("callFails")) /\ UNCHANGED <<plant, lost>>

\* async_unload_entry because the entry is disabled, or its data changed and
\* the update listener scheduled a reload: a plain change, actions removed or
\* added.
Unload(reason) ==
  /\ ~calm /\ entry = "enabled" /\ pc # "down"
  /\ LeaveTick
  /\ MaybeOff(HandsOver(reason))
  /\ entry' = IF reason = "disable" THEN "disabled" ELSE "enabled"
  /\ wired' = IF reason = "unwire" THEN FALSE ELSE IF reason = "wire" THEN TRUE ELSE wired
  /\ pc' = "down"
  /\ FreshHub
  /\ UNCHANGED <<disk, fired, calm, zone>>

\* The reconfigured actions name another boiler: the OFF goes to the old one.
Retarget ==
  /\ ~calm /\ wired /\ pc = "idle" /\ orphan = NoOrphan
  /\ power' \in BOOLEAN /\ held' = Dwell /\ lost' = 2
  /\ pc' = "down"
  /\ FreshHub
  /\ UNCHANGED <<entry, wired, disk, orphan, fired, calm, zone>>

Enable ==
  /\ ~calm /\ entry = "disabled"
  /\ entry' = "enabled"
  /\ UNCHANGED <<wired, pc, hub, tick, disk, orphan, plant, lost, fired, calm, zone>>

\* _remove_hub_entry, after a plain unload if the entry is loaded.  A load that
\* raises sends no OFF; the store is left where it is.
Remove ==
  /\ ~calm /\ entry # "absent"
  /\ entry = "enabled" => pc # "down"
  /\ IF entry = "enabled" THEN LeaveTick ELSE UNCHANGED orphan
  /\ \E loadOk \in BOOLEAN :
       /\ loadOk \/ Fault("loadFails")
       /\ MaybeOff(wired /\ loadOk /\ disk.kept /\ disk.acted)
  /\ entry' = "absent"
  /\ pc' = "down"
  /\ FreshHub
  /\ UNCHANGED <<wired, disk, fired, calm, zone>>

\* A new system entry is configured, with or without boiler actions.
Create ==
  /\ ~calm /\ entry = "absent"
  /\ entry' = "enabled"
  /\ wired' \in BOOLEAN
  /\ fired' = FALSE
  /\ UNCHANGED <<pc, hub, tick, disk, orphan, plant, lost, calm, zone>>

\* Home Assistant stops or crashes: every tick dies with it.  When it is back,
\* the wall clock may show an earlier time.
HaStop ==
  /\ ~calm
  /\ pc' = "down"
  /\ FreshHub
  /\ orphan' = NoOrphan
  /\ \E j \in 0 .. WallBack :
       /\ disk.age - j >= -WallBack
       /\ disk' = [disk EXCEPT !.age = IF disk.kept THEN @ - j ELSE @]
  /\ zone' = [z \in Zones |-> [data |-> NoData, ok |-> TRUE, age |-> 0]]
  /\ UNCHANGED <<entry, wired, plant, lost, fired, calm>>
-----------------------------------------------------------------------------
(* The unfinished tick of an instance that is already unloaded.            *)

OrphanLands ==
  /\ orphan.step.call # "none" /\ ~orphan.landed
  /\ Switch(orphan.step.call = "on")
  /\ orphan' = [orphan EXCEPT !.landed = TRUE]
  /\ UNCHANGED <<entry, wired, pc, hub, tick, disk, fired, calm, zone>>

\* It saves its own state over whatever the store holds by now.
OrphanEnds ==
  /\ orphan.step.call # "none"
  /\ IF orphan.landed
     THEN disk' = IF orphan.saves THEN ToPayload(orphan.step.state) ELSE disk
     ELSE Fault("callFails") /\ UNCHANGED disk
  /\ orphan' = NoOrphan
  /\ UNCHANGED <<entry, wired, pc, hub, tick, plant, lost, fired, calm, zone>>
-----------------------------------------------------------------------------
(* The surroundings.                                                       *)

Older(p) == [p EXCEPT !.age = IF p.kept THEN Aged(@, 1, Dwell) ELSE @]

\* One unit of time; a call is answered or given up within CallTimeout.
Elapse ==
  /\ pc # "saving"
  /\ pc = "calling" => callAge < CallTimeout
  /\ orphan # NoOrphan => orphan.age < CallTimeout
  /\ boiler' = IF pc = "down" THEN boiler ELSE AgedBoiler(boiler, 1)
  /\ callAge' = IF pc = "calling" THEN callAge + 1 ELSE callAge
  /\ orphan' = IF orphan = NoOrphan THEN orphan ELSE [orphan EXCEPT !.age = @ + 1]
  /\ disk' = Older(disk)
  /\ held' = Aged(held, 1, Dwell)
  /\ zone' = AgedZones
  /\ UNCHANGED <<entry, wired, pc, restored, reconciled, acted, pend, landed,
                 power, lost, fired, calm>>

Zone ==
  /\ \E z \in Zones : ZoneStep(z)
  /\ UNCHANGED <<entry, wired, pc, hub, tick, disk, orphan, plant, lost, fired, calm>>

Foreign ==
  /\ Fault("foreign")
  /\ Switch(~power)
  /\ UNCHANGED <<entry, wired, pc, hub, tick, disk, orphan, fired, calm, zone>>

CalmDown ==
  /\ ~calm /\ entry = "enabled" /\ wired
  /\ calm' = TRUE
  /\ UNCHANGED <<entry, wired, pc, hub, tick, disk, orphan, plant, lost, fired, zone>>
-----------------------------------------------------------------------------
Init ==
  /\ entry = "absent" /\ wired = FALSE /\ pc = "down"
  /\ boiler = DefaultBoiler /\ restored = FALSE /\ reconciled = FALSE /\ acted = FALSE
  /\ pend = NoStep /\ callAge = 0 /\ landed = FALSE
  /\ disk = NoPayload /\ orphan = NoOrphan
  /\ power \in BOOLEAN /\ held = Dwell /\ lost = 2
  /\ fired = FALSE /\ calm = FALSE
  /\ ZonesInit

UnloadReasons == {"disable", "reload", "unwire", "wire"}

Next ==
  \/ Tick \/ Land \/ CallReturns \/ CallFails \/ Save \/ SaveFails
  \/ Setup \/ (\E reason \in UnloadReasons : Unload(reason)) \/ Retarget
  \/ Enable \/ Remove \/ Create \/ HaStop
  \/ OrphanLands \/ OrphanEnds
  \/ Elapse \/ Zone \/ Foreign \/ CalmDown

Spec == Init /\ [][Next]_vars

\* The timer keeps firing whatever the entities do (F2), Home Assistant sets
\* up an enabled entry, time passes, and a call that nothing prevents arrives
\* and returns.  Zones owe the hub nothing: they may hang for ever.
Fairness ==
  /\ WF_vars(Tick) /\ WF_vars(Land) /\ WF_vars(CallReturns) /\ WF_vars(Save)
  /\ WF_vars(Setup) /\ WF_vars(Elapse)
  /\ WF_vars(OrphanLands) /\ WF_vars(OrphanEnds)

FairSpec == Spec /\ Fairness
-----------------------------------------------------------------------------
TypeOK ==
  /\ entry \in {"absent", "disabled", "enabled"}
  /\ wired \in BOOLEAN
  /\ pc \in {"down", "idle", "calling", "saving"}
  /\ boiler \in BoilerState
  /\ restored \in BOOLEAN /\ reconciled \in BOOLEAN /\ acted \in BOOLEAN
  /\ pend \in Step /\ callAge \in 0 .. CallTimeout /\ landed \in BOOLEAN
  /\ disk \in Payload
  /\ orphan \in Orphan
  /\ power \in BOOLEAN /\ held \in 0 .. Dwell /\ lost \in 0 .. 2
  /\ fired \in BOOLEAN /\ calm \in BOOLEAN
  /\ ZonesTypeOK

(***************************************************************************)
(* The boiler's view: while the hub is in charge, a run lasts MinOn and a  *)
(* rest MinOff, less the time a call may take to arrive -- across failed   *)
(* calls, retries, keep-alives, reloads and restarts, as long as the       *)
(* switches were saved.  Both dwells are the clamped ones, so a configured *)
(* value below the floor cannot undercut it (F9, ADR-0039 addendum #5).    *)
(***************************************************************************)
Less(a, b) == IF a > b THEN a - b ELSE 0
InCharge == entry = "enabled" /\ wired /\ pc # "down"

Promise == INSTANCE BoilerPromise WITH
  RunTime <- Less(MinOn, CallTimeout), RestTime <- Less(MinOff, CallTimeout),
  Horizon <- Dwell, on <- power, held <- held, unknown <- lost, charge <- InCharge

KeepsPromise == Promise!PSpec

(***************************************************************************)
(* Once reconciled, a resting hub knows what its boiler does: failed calls *)
(* commit nothing and acknowledged ones are committed, so belief and       *)
(* boiler cannot drift apart (reviews 2.3, V2a, V2b).                      *)
(***************************************************************************)
BeliefIsTrue == reconciled /\ pc = "idle" => boiler.on = power

(***************************************************************************)
(* The dead-man OFF: removing a hub that has commanded the boiler turns it *)
(* off, and so does disabling it or taking its actions away, provided the  *)
(* store and the OFF call work (AR-15, F27, F4).  The gate of a removal is *)
(* read from the store, so the first acknowledged call must have been      *)
(* saved even when it flipped nothing.  Nothing of an entry that is        *)
(* unloaded turns the boiler on again -- but for a tick whose ON was under *)
(* way: the unload only ends the timer (__init__.py 402), so that ON may   *)
(* still arrive.  No other removal, unload or step leaves one behind.      *)
(***************************************************************************)
UnderWay == pc = "calling" /\ pend.call = "on" /\ ~landed
Overtaken == orphan.step.call = "on" /\ ~orphan.landed

RemovedIsOff == entry # "absent" /\ entry' = "absent" /\ fired /\ wired => ~power'
HandedOverIsOff ==
  entry = "enabled" /\ wired /\ (entry' = "disabled" \/ ~wired') => ~power'
StaysOff == pc = "down" /\ ~power /\ power' => Overtaken \/ Fault("foreign")
OnlyWhatWasUnderWay == Overtaken' => Overtaken \/ UnderWay

LeavesItOff == RemovedIsOff /\ HandedOverIsOff /\ StaysOff /\ OnlyWhatWasUnderWay
RemovalLeavesItOff == [][LeavesItOff]_vars

(***************************************************************************)
(* What the comment on the unload says (__init__.py 397: no tick may       *)
(* "switch the boiler back ON after we relinquish it").  No run lists it:  *)
(* an unload that overtakes a tick refutes it, as would somebody else at   *)
(* the boiler.                                                             *)
(***************************************************************************)
Relinquished == entry = "absent" /\ fired /\ wired => ~power

(***************************************************************************)
(* After the last disturbance, a call for heat that stays gets the boiler  *)
(* running and one that stays away gets it off, whatever was lost or done  *)
(* behind the hub's back before (V2b, review 2.3: "can never leave the     *)
(* physical boiler stuck on").  Needs the keep-alive.                      *)
(***************************************************************************)
HeatArrives == (<>calm /\ <>[]Demand) => <>[]power
BoilerRests == (<>calm /\ <>[](~Demand)) => <>[](~power)

(***************************************************************************)
(* Hung room loops release the boiler: if from some time on no zone update *)
(* succeeds and no zone is parked at its frost floor, the boiler goes off  *)
(* for good (H3/ADR-0038), and a zone that stays parked and served keeps   *)
(* it running although it never stamps its data again (AR-05).             *)
(***************************************************************************)
HungZonesRelease ==
  (<>calm /\ <>[][~ \E z \in Zones, d \in Snapshots : Publish(z, d)]_zone
          /\ <>[](\A z \in ControlsBoiler : ~Parked(zone[z])))
     => <>[](~power)
ParkedZoneIsHeated ==
  (<>calm /\ \E z \in ControlsBoiler : <>[]Parked(zone[z])) => <>[]power

(***************************************************************************)
(* __init__.py:551, AR-15: "a shadow-only hub (or one that never reached   *)
(* actuation) must never turn off a boiler a foreign automation runs".     *)
(***************************************************************************)
UnusedHubTurnsNothingOff ==
  [][ entry # "absent" /\ entry' = "absent" /\ ~fired => (power => power') ]_vars

(***************************************************************************)
(* __init__.py:396, AR-02: the tick is cancelled first so that it cannot   *)
(* "switch the boiler back ON after we relinquish it".                     *)
(***************************************************************************)
RelinquishedStaysOff ==
  [][ entry # "enabled" /\ ~power => ~power' ]_vars
=============================================================================
