---------------------------- MODULE WriteConvergence ----------------------------
(***************************************************************************)
(* The watchdog of the setpoint channel (safety/write_convergence.py):     *)
(* commands go out unacknowledged, so a device that never follows shows    *)
(* only as repetitions, and the write economy swallows most of those.      *)
(* It is folded into every enabled tick, before the commit.  A tick        *)
(* without a room temperature leaves it alone and is left out here.        *)
(***************************************************************************)
EXTENDS SetpointChannel

CONSTANTS
  FailWrites,  \* CONV_FAIL_WRITES
  FailMin,     \* CONV_FAIL_MIN_S, in ticks
  Ttl          \* CONV_EVIDENCE_TTL_S

ASSUME ConvergenceAssumption ==
  FailWrites \in Nat \ {0} /\ FailMin \in Nat /\ Ttl \in Nat /\ FailMin <= Ttl

VARIABLE
  dog  \* diverged writes, ages of the first and of the last; the repair issue

watched == <<vars, dog>>

Quiet == [count |-> 0, since |-> None, evidence |-> None, issue |-> FALSE]
DogOlder(w, d) ==
  [w EXCEPT !.since = Aged(@, d, FailMin), !.evidence = Aged(@, d, Ttl + 1)]

\* _expire_sp.
Unexpired(w) == IF w.evidence # None /\ w.evidence > Ttl THEN [Quiet EXCEPT !.issue = w.issue] ELSE w

\* A state that is not newer than the last write, or that confirms an older
\* command, says nothing.
IsEvidence(m) ==
  /\ Actual # None /\ m.cmd # None
  /\ dev.mark # "ours"
  /\ m.age # None => dev.newer

\* observe_setpoint.  Seeded fault: a repetition that was swallowed is none.
ObserveWritesOnly(w, v) ==
  IF ~IsEvidence(v.mem) THEN w
  ELSE IF Actual - v.mem.cmd \in -1 .. 1 THEN [Quiet EXCEPT !.issue = w.issue]
  ELSE IF v.writes
       THEN [w EXCEPT !.count = Min2(@ + 1, FailWrites), !.evidence = 0,
                      !.since = IF @ = None THEN 0 ELSE @]
  ELSE w
Observe(w, v) ==
  IF ~IsEvidence(v.mem) THEN w
  ELSE IF Actual - v.mem.cmd \in -1 .. 1 THEN [Quiet EXCEPT !.issue = w.issue]
  ELSE IF v.writes \/ v.suppressed
       THEN [w EXCEPT !.count = Min2(@ + 1, FailWrites), !.evidence = 0,
                      !.since = IF @ = None THEN 0 ELSE @]
  ELSE w

\* escalated, notify_convergence.  Seeded fault: the count alone.
EscalatedAtOnce(w) == w.count >= FailWrites
Escalated(w) == w.count >= FailWrites /\ w.since # None /\ w.since >= FailMin
Reported(w) == [w EXCEPT !.issue = Escalated(w)]

Watch(d, c) ==
  dog' = IF enabled THEN Reported(Observe(Unexpired(DogOlder(dog, d)), Found(d, c)))
         ELSE Quiet

WInit == Init /\ dog = Quiet

\* The thermometer of the device makes it report in every interval once the
\* disturbances are over: without a report newer than the write there is no
\* evidence, and the watchdog says nothing of a device that is silent.
Interval(c) ==
  /\ calm /\ dev.online => dev.newer
  /\ TimerTick(c) /\ Watch(1, c)

WNext ==
  \/ \E c \in Cases : Interval(c)
  \/ \E c \in Cases : EventTick(c) /\ Watch(0, c)
  \/ Start /\ dog' = Quiet
  \/ Surroundings /\ ~Start /\ UNCHANGED dog

WSpec == WInit /\ [][WNext]_watched

\* As in SetpointChannel, and the reports.
WFairSpec ==
  /\ WSpec
  /\ WF_watched(Interval(Undisturbed))
  /\ WF_watched(Start /\ dog' = Quiet) /\ WF_watched(Returns /\ UNCHANGED dog)
  /\ WF_watched(Land /\ UNCHANGED dog) /\ WF_watched(Reports /\ UNCHANGED dog)
-----------------------------------------------------------------------------
WatchTypeOK ==
  /\ dog \in [count : 0 .. FailWrites, since : (0 .. FailMin) \cup {None},
           evidence : (0 .. Ttl + 1) \cup {None}, issue : BOOLEAN]
  /\ (dog.count = 0) = (dog.since = None) /\ (dog.since = None) = (dog.evidence = None)

(***************************************************************************)
(* A device that has stopped listening is reported and stays so, however   *)
(* few of the repetitions are really sent (the T2 fold of                  *)
(* _stage_setpoint_write).                                                 *)
(***************************************************************************)
Ignores ==
  /\ calm /\ deaf /\ up /\ enabled /\ dev.online
  /\ hold = None /\ dev.sp - plan.sp \notin -1 .. 1 /\ ~plan.safety
DeafIsReported == [](Ignores => <>dog.issue)

(***************************************************************************)
(* Nobody is accused of a command that arrived within its tick: without a  *)
(* fault and without a hand at the device there is no issue; and the count,*)
(* its clock and its evidence always begin and end together.               *)
(***************************************************************************)
NotAccused == WatchTypeOK /\ (~astray => ~dog.issue)
=============================================================================
