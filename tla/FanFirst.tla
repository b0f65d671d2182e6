----------------------------- MODULE FanFirst -----------------------------
(***************************************************************************)
(* Fan-first cooling: before a zone starts the compressor it lets the fan  *)
(* have a chance (control/fan_first.py), through the tick that observes    *)
(* the device, steps the machine, arbitrates the mode and writes at most   *)
(* one fan stage; commands travel to the device and are observed later.    *)
(***************************************************************************)
EXTENDS Integers, Sequences, FiniteSets

CONSTANTS
  EchoTimeout, DwellMin, Budget, ReentryBlock, EchoWindow,   \* in ticks
  Stage,       \* the stage select_fan_stage picks: known and within the clamp
  FanModes,    \* the stages the device has
  Depth,       \* commands under way
  Circulates   \* the idle circulation of the fan is configured

NoFan == "none"
\* What the constants must be: assumed where they get their values.
FanAssumption ==
  /\ {EchoTimeout, DwellMin, Budget, ReentryBlock, EchoWindow} \subseteq Nat \ {0}
  /\ Stage \in FanModes /\ NoFan \notin FanModes /\ Depth \in Nat \ {0}
  /\ Circulates \in BOOLEAN

VARIABLES
  ff,       \* FanFirstState
  ext,      \* last_commanded_fan, minutes since its change, prev_device_fan
  dev,      \* the device: mode, fan stage, cooling (or not telling), own Context
  flight,   \* commands under way
  zone,     \* demand to cool (never with a window open), normal intent, enabled,
            \* active_comfort
  choice    \* ghost: the stage before the sequence or picked since, whether the
            \* pick was made against a stage of Poise's, and whether the
            \* sequence ran undisturbed

vars == <<ff, ext, dev, flight, zone, choice>>

Engaged(f) == f.phase \in {"await_fan_only", "await_stage", "dwell"}
Idle == [phase |-> "idle", engaged |-> 0, at |-> 0, stage |-> NoFan, entry |-> NoFan,
         blocked |-> 0]
Blocked == [Idle EXCEPT !.blocked = ReentryBlock]

Init ==
  /\ ff = Idle
  /\ ext = [fan |-> NoFan, age |-> EchoWindow, prev |-> NoFan]
  /\ \E s \in FanModes :
       /\ dev = [mode |-> "cool", fan |-> s, cooling |-> FALSE, own |-> FALSE]
       /\ choice = [stage |-> s, standing |-> FALSE, clean |-> TRUE]
  /\ flight = <<>>
  /\ zone = [cool |-> FALSE, normal |-> TRUE, on |-> TRUE, option |-> TRUE]
----------------------------------------------------------------------------
\* observe_fan_foreign: no own Context, no echo, and a move against the
\* reference, which stands still while the echo window is open.
EchoOpen(age) == ext.fan # NoFan /\ age < EchoWindow
Foreign(age) ==
  /\ ~dev.own /\ ext.fan # NoFan /\ dev.fan # ext.fan
  /\ ~EchoOpen(age) /\ dev.fan # ext.prev

\* _restore_target: only a stage of ours that the device still shows.
RestoreTarget(f) ==
  IF f.stage = NoFan \/ dev.fan # f.stage \/ f.entry = dev.fan THEN NoFan ELSE f.entry

\* A decision: the state, what it commands, what it restores.
Decision(f, command, restore) == [ff |-> f, command |-> command, restore |-> restore]
Released(restore) == Decision(Blocked, "release", restore)

\* Mutant: the compressor takes over and nobody thinks of the fan.
YieldedFanAndAll(f, restore) ==
  Decision([f EXCEPT !.phase = "yielded", !.engaged = 0, !.at = 0], "cool", NoFan)

Yielded(f, restore) == Decision([f EXCEPT !.phase = "yielded", !.engaged = 0, !.at = 0], "cool", restore)

\* What a tick reads: the age of the last fan command, the room against the
\* temperature at entry, its heat (chilly: no stage is within the clamp;
\* hot: the limit).
Readings(age) ==
  {[age |-> age, rise |-> r, room |-> q] : r \in {"below", "level", "risen"},
                                           q \in {"chilly", "mild", "hot"}}

\* The guards of an engaged sequence, in the order of the code.
GuardLost(in) == ~zone.normal \/ in.room = "hot"
Interrupts(f, in) ==
  \/ Foreign(in.age) \/ ~zone.cool \/ GuardLost(in)
  \/ f.engaged > Budget \/ in.rise = "risen"
Interrupted(f, in) ==
  CASE Foreign(in.age) -> Released(NoFan)
    [] ~Foreign(in.age) /\ ~zone.cool -> Released(RestoreTarget(f))
    [] OTHER -> Yielded(f, RestoreTarget(f))

EntryOk(f, in) ==
  /\ zone.cool /\ zone.normal /\ in.room = "mild"
  /\ ~dev.cooling /\ f.blocked = 0
Engages(f, in) ==
  IF EntryOk(f, in)
  THEN Decision([Idle EXCEPT !.phase = "await_fan_only", !.entry = dev.fan], "fan_only", NoFan)
  ELSE Decision(f, "none", NoFan)

\* fan_only, then the stage: each is observed before the next.
Late(f) == IF f.at > EchoTimeout THEN Yielded(f, RestoreTarget(f))
           ELSE Decision(f, "none", NoFan)

AwaitsFanOnly(f, in) ==
  IF dev.mode # "fan_only" THEN Late(f)
  ELSE IF in.room = "chilly" THEN Yielded(f, RestoreTarget(f))
  ELSE IF dev.fan = Stage
  THEN Decision([f EXCEPT !.phase = "dwell", !.stage = Stage, !.at = 0], "none", NoFan)
  ELSE Decision([f EXCEPT !.phase = "await_stage", !.stage = Stage, !.at = 0], "stage", NoFan)
AwaitsStage(f) ==
  IF dev.fan = f.stage THEN Decision([f EXCEPT !.phase = "dwell", !.at = 0], "none", NoFan)
  ELSE Late(f)
Dwells(f, in) ==
  IF f.at >= DwellMin /\ in.rise # "below" THEN Yielded(f, RestoreTarget(f))
  ELSE Decision(f, "none", NoFan)

fan_first_decision(f, in) ==
  IF Engaged(f) /\ Interrupts(f, in) THEN Interrupted(f, in)
  ELSE CASE f.phase = "idle" -> Engages(f, in)
         [] f.phase = "await_fan_only" -> AwaitsFanOnly(f, in)
         [] f.phase = "await_stage" -> AwaitsStage(f)
         [] f.phase = "dwell" -> Dwells(f, in)
         [] f.phase = "yielded" -> Decision(IF zone.cool THEN f ELSE Blocked, "none", NoFan)
----------------------------------------------------------------------------
Lower(a, b) == IF a < b THEN a ELSE b

\* One tick older.
Older(f) ==
  [f EXCEPT !.engaged = IF Engaged(f) THEN Lower(@ + 1, Budget + 1) ELSE 0,
            !.at = IF Engaged(f) THEN Lower(@ + 1, EchoTimeout + DwellMin) ELSE 0,
            !.blocked = IF @ > 0 THEN @ - 1 ELSE 0]

\* mode_arbitration: a normal cool is intercepted to the fan.
Arbitrated(requested) ==
  IF ~zone.cool THEN "idle"
  ELSE IF requested /\ zone.normal THEN "fan_only" ELSE "cool"

Command(mode, fan) == [mode |-> mode, fan |-> fan]
ModeCommand(mode) ==
  IF zone.on /\ mode \in {"cool", "fan_only"} /\ dev.mode # mode
  THEN <<Command(mode, NoFan)>> ELSE <<>>

\* _stage_fan_write: the stage, or the restore, or the idle circulation.
Circulation(d, age) ==
  IF /\ Circulates /\ zone.option /\ d.ff.phase = "idle"
     /\ dev.mode = "fan_only" /\ ~Foreign(age) /\ dev.fan # "low" /\ ext.fan # "low"
  THEN "low" ELSE NoFan
FanWrite(d, age) ==
  IF ~zone.on THEN NoFan
  ELSE IF d.command = "stage" THEN d.ff.stage
  ELSE IF d.restore # NoFan THEN d.restore
  ELSE Circulation(d, age)

\* Commit of a fan write: the echo window opens on a change of stage only.
Stamped(fan, age) ==
  IF fan = NoFan THEN [ext EXCEPT !.age = age]
  ELSE [ext EXCEPT !.fan = fan, !.age = IF fan # ext.fan THEN 0 ELSE age]

\* The coordinator's tick; with the option off the machine is reset. A tick
\* while a command is still under way disturbs the sequence.
Tick ==
  \E in \in Readings(Lower(ext.age + 1, EchoWindow)) :
    LET d == IF zone.option THEN fan_first_decision(Older(ff), in)
             ELSE Decision(Idle, "disabled", NoFan)
        fan == FanWrite(d, in.age)
    IN /\ ff' = d.ff
       /\ ext' = [Stamped(fan, in.age) EXCEPT !.prev = IF EchoOpen(in.age) THEN @ ELSE dev.fan]
       /\ flight' = flight \o ModeCommand(Arbitrated(d.command = "fan_only" \/ Engaged(d.ff)))
                          \o (IF fan # NoFan THEN <<Command(NoFan, fan)>> ELSE <<>>)
       /\ Len(flight') <= Depth
       /\ choice' = IF Engaged(d.ff) /\ ~Engaged(ff)
                    THEN [stage |-> dev.fan, standing |-> FALSE, clean |-> flight = <<>>]
                    ELSE [choice EXCEPT !.clean = @ /\ flight = <<>> /\ zone.on /\ zone.option]
       /\ UNCHANGED <<dev, zone>>

\* The device follows the oldest command.
Land ==
  /\ flight # <<>>
  /\ LET c == Head(flight)
     IN dev' = [dev EXCEPT !.mode = IF c.mode # NoFan THEN c.mode ELSE @,
                           !.fan = IF c.fan # NoFan THEN c.fan ELSE @,
                           !.cooling = @ /\ c.mode # "fan_only",
                           !.own = TRUE]
  /\ flight' = Tail(flight)
  /\ UNCHANGED <<ff, ext, zone, choice>>

\* A command never reaches the device.
Lose ==
  /\ flight # <<>>
  /\ flight' = Tail(flight)
  /\ choice' = [choice EXCEPT !.clean = FALSE]
  /\ UNCHANGED <<ff, ext, dev, zone>>

\* The device reports anew: the Context is gone, the compressor starts or stops.
Report ==
  /\ \E c \in BOOLEAN : dev' = [dev EXCEPT !.own = FALSE, !.cooling = c /\ dev.mode = "cool"]
  /\ UNCHANGED <<ff, ext, flight, zone, choice>>

\* At the device.
UserSetsFan ==
  /\ \E s \in FanModes \ {dev.fan} :
       /\ dev' = [dev EXCEPT !.fan = s, !.own = FALSE]
       /\ choice' = [stage |-> s, clean |-> FALSE,
                      standing |-> ff.stage # NoFan /\ s # Stage /\ flight = <<>>]
  /\ UNCHANGED <<ff, ext, flight, zone>>

\* The demand, the intent, the zone's switch and the option.
ZoneChanges ==
  /\ \E what \in DOMAIN zone : zone' = [zone EXCEPT ![what] = ~@]
  /\ UNCHANGED <<ff, ext, dev, flight, choice>>

\* The machine is transient, the commanded stage is stored with a closed window.
Restart ==
  /\ ff' = Idle
  /\ ext' = [ext EXCEPT !.age = EchoWindow, !.prev = NoFan]
  /\ flight' = <<>>
  /\ dev' = [dev EXCEPT !.own = FALSE]
  /\ choice' = [choice EXCEPT !.clean = @ /\ ~Engaged(ff) /\ flight = <<>>]
  /\ UNCHANGED <<zone>>

Next == Tick \/ Land \/ Lose \/ Report \/ UserSetsFan \/ ZoneChanges \/ Restart

Spec == Init /\ [][Next]_vars
----------------------------------------------------------------------------
\* Types, and what the code asserts: an engaged sequence knows where it came
\* from, a stage is only awaited or held once it was chosen.
TypeOK ==
  /\ ff \in [phase : {"idle", "await_fan_only", "await_stage", "dwell", "yielded"},
             engaged : 0..Budget + 1, at : 0..EchoTimeout + DwellMin, stage : {NoFan, Stage},
             entry : {NoFan} \cup FanModes, blocked : 0..ReentryBlock]
  /\ Engaged(ff) => ff.entry # NoFan
  /\ ff.phase \in {"await_stage", "dwell"} => ff.stage = Stage
  /\ ext \in [fan : {NoFan} \cup FanModes, age : 0..EchoWindow, prev : {NoFan} \cup FanModes]
  /\ dev \in [mode : {"cool", "fan_only"}, fan : FanModes, cooling : BOOLEAN, own : BOOLEAN]
  /\ Len(flight) <= Depth
  /\ zone \in [cool : BOOLEAN, normal : BOOLEAN, on : BOOLEAN,
               option : BOOLEAN]
  /\ choice \in [stage : FanModes, standing : BOOLEAN, clean : BOOLEAN]

\* A sequence that ran undisturbed (no command lost or late, no restart, no
\* hand at the fan, the zone and the option on) leaves the fan at the stage it
\* found, however it ended: yield, release, timeout, lost guard.
StageComesBack ==
  choice.clean /\ flight = <<>> /\ ~Engaged(ff) => dev.fan = choice.stage

\* Never a duel: once the user has answered Poise's stage with another one, the
\* sequence does not write the fan again, inside the echo window or after it.
LeavesTheFan ==
  choice.standing /\ Engaged(ff) /\ Len(flight') > Len(flight)
    => flight'[Len(flight')].fan = NoFan
NoDuel == [][LeavesTheFan]_vars
=============================================================================
