---------------------------- MODULE FailureAlarm ----------------------------
(***************************************************************************)
(* The alarm for a heating (or, sign-mirrored, a cooling) that runs        *)
(* without effect: the detector of safety/heating_failure.py, the stage of *)
(* the tick that asks it, and the repair issue it raises and clears        *)
(* through the ledger of the entry.  Ticks that see no room reading or     *)
(* that fail before the stage pass the detector by while time goes on.     *)
(*                                                                         *)
(* Time is counted in ticks of the coordinator's timer; an event may cause *)
(* a further tick at the same instant.  The monotonic clock a tick carries *)
(* never goes back, so the detector's re-anchoring for a clock that does   *)
(* is left out.                                                            *)
(***************************************************************************)
EXTENDS Integers

CONSTANTS
  Rooms,       \* room temperatures, on the scale of the side: more is better
  Setpoints,   \* what the room is commanded to, on the same scale
  Window,      \* DEFAULT_DELAY_H
  CmdDelta,    \* DEFAULT_CMD_DELTA
  MinRise,     \* DEFAULT_MIN_RISE
  Faults       \* subset of {"blind", "abort", "restart", "alarm"}

Unset == -1

\* What the constants must be: assumed where they get their values.
ScaleAssumption ==
  /\ Rooms \subseteq Nat /\ Setpoints \subseteq Nat
  /\ Window \in Nat \ {0} /\ CmdDelta \in Nat \ {0} /\ MinRise \in Nat \ {0}

VARIABLES
  room, setpoint,  \* what the next tick reads and commands
  running,         \* the device's reported action, or the intent without one
  fault,           \* the device's own alarm (heating side only)
  det,             \* the detector: window start, its room, idle since, verdict
  ledger,          \* the entry believes its issue raised
  issue,           \* the issue stands in the registry
  seen             \* history: what the ticks have seen, for the properties

world == <<room, setpoint, running, fault>>
vars == <<world, det, ledger, issue, seen>>

-----------------------------------------------------------------------------
(* The detector.  Its two anchors are kept as ages, which stop counting at  *)
(* Window: nothing asks for more.                                           *)

NewDetector == [start |-> Unset, room0 |-> 0, idle |-> Unset, failed |-> FALSE]

Capped(n, limit) == IF n < limit THEN n + 1 ELSE limit
Older(age) == IF age = Unset THEN Unset ELSE Capped(age, Window)
Later(d, dt) == IF dt = 0 THEN d
                ELSE [d EXCEPT !.start = Older(@), !.idle = Older(@)]

Demand == running /\ setpoint - room >= CmdDelta

\* update without demand: after a whole idle window everything is forgotten.
Idle(d) ==
  IF d.idle = Unset THEN [d EXCEPT !.idle = 0]
  ELSE IF d.idle >= Window THEN NewDetector ELSE d

\* update under demand: judge the window that is over and open the next.
WorkNoRearm(d) ==
  IF d.start = Unset THEN [d EXCEPT !.idle = Unset, !.start = 0, !.room0 = room]
  ELSE IF d.start < Window THEN [d EXCEPT !.idle = Unset]
  ELSE [d EXCEPT !.idle = Unset, !.failed = room - d.room0 < MinRise]
Work(d) ==
  IF d.start = Unset THEN [d EXCEPT !.idle = Unset, !.start = 0, !.room0 = room]
  ELSE IF d.start < Window THEN [d EXCEPT !.idle = Unset]
  ELSE [start |-> 0, room0 |-> room, idle |-> Unset,
        failed |-> room - d.room0 < MinRise]

update(d) == IF Demand THEN Work(d) ELSE Idle(d)

-----------------------------------------------------------------------------
(* Ticks *)

\* HealthReporter.issue: the registry is touched on transitions of the ledger.
Notify(active) ==
  /\ ledger' = active
  /\ issue' = IF active = ledger THEN issue ELSE active

NewSeen == [demand |-> 0, stalled |-> 0, idle |-> 0, low |-> Unset, room |-> Unset]

\* Units of unbroken demand, of demand without any gain, and without demand, at
\* the ticks that reach the stage; the coldest room since the alarm.
Seen(dt, failed) ==
  LET unbroken == Demand /\ seen.room # Unset /\ seen.demand # Unset
      Grown(n, limit) == IF dt = 0 THEN n ELSE Capped(n, limit)
  IN  [demand  |-> IF ~Demand THEN Unset
                   ELSE IF unbroken THEN Grown(seen.demand, Window) ELSE 0,
       stalled |-> IF unbroken /\ room =< seen.room
                   THEN Grown(seen.stalled, 2 * Window) ELSE 0,
       idle    |-> IF Demand THEN 0 ELSE Grown(seen.idle, Window),
       low     |-> IF ~failed THEN Unset
                   ELSE IF seen.low = Unset \/ room < seen.low THEN room
                        ELSE seen.low,
       room    |-> room]

\* _stage_failure_detect of a tick that has a room reading.
LiveTick(dt) ==
  /\ det' = update(Later(det, dt))
  /\ Notify(det'.failed \/ fault)
  /\ seen' = Seen(dt, det'.failed)
  /\ UNCHANGED world

\* A tick that never gets to the stage: the room sensor is away, or an earlier
\* stage raised.  The time passes for the detector all the same.
MissedTick ==
  /\ Faults \cap {"blind", "abort"} # {}
  /\ det' = Later(det, 1)
  /\ seen' = [seen EXCEPT !.demand = Unset, !.stalled = 0, !.room = Unset,
                          !.idle = Capped(@, Window)]
  /\ UNCHANGED <<world, ledger, issue>>

\* Home Assistant restarts without unloading the entry: the detector is new,
\* async_bootstrap adopts what stands in the registry.

Restart ==
  /\ "restart" \in Faults
  /\ det' = NewDetector
  /\ ledger' = issue
  /\ seen' = NewSeen
  /\ UNCHANGED <<world, issue>>

\* async_prepare_unload deletes what the ledger names; the setup after it finds
\* no issue of the entry.
Reload ==
  /\ "restart" \in Faults
  /\ det' = NewDetector
  /\ issue' = (issue /\ ~ledger)
  /\ ledger' = issue'
  /\ seen' = NewSeen
  /\ UNCHANGED world

Weather ==
  /\ room' \in Rooms /\ setpoint' \in Setpoints /\ running' \in BOOLEAN
  /\ fault' \in (IF "alarm" \in Faults THEN BOOLEAN ELSE {FALSE})
  /\ UNCHANGED <<det, ledger, issue, seen>>

Init ==
  /\ room \in Rooms /\ setpoint \in Setpoints /\ running \in BOOLEAN
  /\ fault = FALSE
  /\ det = NewDetector
  /\ ledger = FALSE /\ issue = FALSE
  /\ seen = NewSeen

Next ==
  \/ \E dt \in {0, 1} : LiveTick(dt)
  \/ MissedTick \/ Restart \/ Reload \/ Weather

Spec == Init /\ [][Next]_vars

-----------------------------------------------------------------------------
(* Properties *)

\* Every variable keeps its type, and the detector's anchors hang together: no
\* verdict without a window, no window of no age (HeatingFailureDetector).
TypeOK ==
  /\ room \in Rooms /\ setpoint \in Setpoints
  /\ running \in BOOLEAN /\ fault \in BOOLEAN
  /\ det \in [start : -1..Window, room0 : Rooms \cup {0}, idle : -1..Window,
              failed : BOOLEAN]
  /\ det.failed => det.start # Unset
  /\ ledger \in BOOLEAN /\ issue \in BOOLEAN

\* A device that runs without effect is reported: demand at every tick for two
\* windows and not the least gain in between raises the issue, however the
\* windows of the detector lie and whatever happened before
\* (HeatingFailureDetector.update: "a failure that begins mid-episode is caught").
StallIsTold == seen.stalled >= 2 * Window => det.failed /\ issue

\* HeatingFailureDetector.update: "a detected failure latches".  While the
\* program runs a verdict is taken back only after a whole window without
\* demand, or with the room above its coldest since the alarm by the rise asked
\* for; a flicker of the running state or a missed tick does not do it.
Latches ==
  det.failed /\ ~det'.failed
    => \/ Restart \/ Reload
       \/ seen'.idle >= Window
       \/ room >= seen.low + MinRise
AlarmSurvivesFlicker == [][Latches]_vars

\* Whatever stood in the registry before a restart: after the next tick that
\* reaches the stage the issue stands exactly if the verdict does (IssueLedger,
\* coordinator.async_bootstrap).
TellsTheVerdict == (\E dt \in {0, 1} : LiveTick(dt)) => issue' = (det'.failed \/ fault)
IssueIsTheVerdict == [][TellsTheVerdict]_vars

\* safety/heating_failure.py: a failure is flagged "if the room is commanded
\* well above its temperature for a sustained period but does not actually warm
\* up".  A new verdict has a whole window of unbroken demand behind it.
AlarmIsEarned ==
  [][ ~det.failed /\ det'.failed => seen'.demand >= Window ]_vars

=============================================================================
