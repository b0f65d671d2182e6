----------------------------- MODULE DeviceProofs -----------------------------
(***************************************************************************)
(* What a zone does to its device, for every device, timer and constant:   *)
(* the compressor guard, the books a tick keeps while users, device and    *)
(* errors come in between, the alarm for a device that works without       *)
(* effect, and the fan stage.  Each is proved of the component or of its   *)
(* part of MCDevice.                                                       *)
(***************************************************************************)
EXTENDS MCDevice, Sequences, TLAPS

-----------------------------------------------------------------------------
(* The compressor guard.  For all timers, devices, wishes and clocks its   *)
(* types hold; for a device that reports its action and stays reachable    *)
(* and a Home Assistant that is stopped in order, it keeps min-off and     *)
(* mode hold.                                                              *)

USE DEF AtMost, Aged

\* Ages stay in their range.
LEMMA AgedInRange ==
  ASSUME NEW least \in Int, NEW cap \in Int, NEW d \in Nat,
         NEW age \in (least .. cap) \cup {None}
  PROVE  Aged(age, d, cap) \in (least .. cap) \cup {None}
BY GuardAssumption

\* So do the lifecycles that are made of them.
LEMMA AgedLifecycleType ==
  ASSUME NEW least \in Int, NEW l \in Lifecycle(least), NEW d \in Nat
  PROVE  AgedLifecycle(l, d) \in Lifecycle(least)
<1>1. MinOff \in Int /\ ModeHold \in Int
  BY GuardAssumption
<1>2. Aged(l.off, d, MinOff) \in (least .. MinOff) \cup {None}
  BY <1>1, AgedInRange DEF Lifecycle
<1>3. Aged(l.changed, d, ModeHold) \in (least .. ModeHold) \cup {None}
  BY <1>1, AgedInRange DEF Lifecycle
<1> QED
  BY <1>2, <1>3 DEF AgedLifecycle, Lifecycle

\* A fold writes the stamp of now, or leaves what it found.
LEMMA ObserveType ==
  ASSUME NEW least \in Int, least <= 0, NEW l \in Lifecycle(least),
         NEW conditioning \in BOOLEAN, NEW m \in Modes \cup {None}
  PROVE  Observe(l, conditioning, m) \in Lifecycle(least)
<1>1. 0 \in least .. MinOff /\ 0 \in least .. ModeHold
  BY GuardAssumption
<1> QED
  BY <1>1 DEF Observe, Lifecycle

\* Only modes are sent.
LEMMA CommandIsMode ==
  ASSUME NEW l, NEW age
  PROVE  Command(l, age) \subseteq Modes \cup {None}
BY GuardAssumption DEF Command, Nudge, FrostRescue, NeedsModeNudge, Modes

\* A lifecycle that was written later may be read where an older one is allowed.
LEMMA LifecycleWidens ==
  ASSUME NEW a \in Int, NEW b \in Int, b <= a, NEW l \in Lifecycle(a)
  PROVE  l \in Lifecycle(b)
<1>1. MinOff \in Int /\ ModeHold \in Int
  BY GuardAssumption
<1>2. (a .. MinOff) \subseteq (b .. MinOff) /\ (a .. ModeHold) \subseteq (b .. ModeHold)
  BY <1>1
<1> QED
  BY <1>2 DEF Lifecycle

\* What the history holds of the device, aged and after a look.
LEMMA SeenType ==
  ASSUME seen \in Seen, mode \in Modes, NEW d \in Nat
  PROVE  AgedSeen(d) \in Seen /\ Look(AgedSeen(d)) \in Seen
<1>1. MinOff \in Nat /\ ModeHold \in Nat /\ Running \notin Int
  BY GuardAssumption
<1>2. AgedSeen(d) \in Seen
  <2> DEFINE watch == IF seen.watch = Running THEN seen.watch ELSE AtMost(seen.watch + d, MinOff)
  <2>1. seen.watch \in (0 .. MinOff) \cup {Running} /\ seen.since \in 0 .. ModeHold
    BY DEF Seen
  <2>2. watch \in (0 .. MinOff) \cup {Running}
    BY <1>1, <2>1
  <2>3. AtMost(seen.since + d, ModeHold) \in 0 .. ModeHold
    BY <1>1, <2>1
  <2>4. AgedSeen(d) = [seen EXCEPT !.watch = watch, !.since = AtMost(seen.since + d, ModeHold)]
    BY DEF AgedSeen
  <2> HIDE DEF watch
  <2> QED
    BY <2>2, <2>3, <2>4 DEF Seen
<1>3. 0 \in 0 .. MinOff /\ 0 \in 0 .. ModeHold
  BY <1>1
<1> QED
  BY <1>2, <1>3 DEF Look, Seen
-----------------------------------------------------------------------------
\* The records of a store stay records when they age, and what is written is one.
LEMMA AgedDiskType ==
  ASSUME NEW d \in Nat
  PROVE  /\ disk \in DiskType => AgedDisk(d) \in DiskType
         /\ disk \in DiskType \cup {None} => AgedDisk(d) \in DiskType \cup {None}
<1>1. ASSUME disk \in DiskType PROVE AgedDisk(d) \in DiskType
  <2>1. -(Skew + WallBack) \in Int
    BY GuardAssumption
  <2>2. AgedLifecycle(disk.lc, d) \in Lifecycle(-(Skew + WallBack))
    BY <1>1, <2>1, AgedLifecycleType DEF DiskType
  <2> QED
    BY <1>1, <2>2 DEF AgedDisk, DiskType
<1>2. disk = None => AgedDisk(d) = None
  BY DEF AgedDisk
<1> QED
  BY <1>1, <1>2

LEMMA RecordType ==
  ASSUME NEW l \in Lifecycle(-Skew), NEW cmd \in Modes \cup {None}
  PROVE  Record(l, cmd) \in DiskType
<1>1. -Skew \in Int /\ -(Skew + WallBack) \in Int /\ -(Skew + WallBack) <= -Skew
  BY GuardAssumption
<1>2. l \in Lifecycle(-(Skew + WallBack))
  BY <1>1, LifecycleWidens
<1> QED
  BY <1>2 DEF Record, DiskType

\* A stamp read back, whatever happened to the clock, is not far in the future.
LEMMA FromDictType ==
  ASSUME NEW l \in Lifecycle(-(Skew + WallBack))
  PROVE  FromDict(l) \in Lifecycle(-Skew)
<1>1. MinOff \in Nat /\ ModeHold \in Nat /\ Skew \in Nat /\ WallBack \in Nat /\ None \notin Int
  BY GuardAssumption
<1>2. ASSUME NEW cap \in Nat, NEW age \in (-(Skew + WallBack) .. cap) \cup {None}
      PROVE  Unfuture(age) \in (-Skew .. cap) \cup {None}
  BY <1>1, <1>2 DEF Unfuture
<1>3. Unfuture(l.off) \in (-Skew .. MinOff) \cup {None}
  BY <1>1, <1>2 DEF Lifecycle
<1>4. Unfuture(l.changed) \in (-Skew .. ModeHold) \cup {None}
  BY <1>1, <1>2 DEF Lifecycle
<1> QED
  BY <1>3, <1>4 DEF FromDict, Lifecycle
-----------------------------------------------------------------------------
(* Type correctness.                                                       *)

\* The types, and a record in the store of a zone that is down or may crash.
TypeInv == TypeOK /\ (~up \/ "crash" \in Faults => disk \in DiskType)

LEMMA TypeInit == Init => TypeInv
<1> SUFFICES ASSUME Init PROVE TypeInv
  OBVIOUS
<1>1. MinOff \in Nat /\ ModeHold \in Nat /\ Skew \in Nat /\ WallBack \in Nat /\ Reassert \in Nat
  BY GuardAssumption
<1>2. NewLifecycle \in Lifecycle(-Skew)
  BY DEF NewLifecycle, Lifecycle
<1>3. disk \in DiskType
  BY <1>2, RecordType DEF Init
<1>4. mode \in Modes /\ run \in BOOLEAN
  BY GuardAssumption DEF Init
<1>5. seen \in Seen
  BY <1>1 DEF Init, Seen
<1> QED
  BY <1>2, <1>3, <1>4, <1>5 DEF Init, TypeInv, TypeOK, DiskType

\* What every refresh of the zone keeps, whatever it sends.
LEMMA RefreshType ==
  ASSUME TypeInv, NEW d \in Nat, NEW sent \in Modes \cup {None}, up, Refresh(d, sent)
  PROVE  TypeInv'
<1>1. Skew \in Nat /\ Reassert \in Nat /\ -Skew \in Int /\ -Skew <= 0 /\ 0 \in 0 .. Reassert
  BY GuardAssumption
<1>2. nudged' \in (0 .. Reassert) \cup {None}
  <2>1. Aged(nudged, d, Reassert) \in (0 .. Reassert) \cup {None}
    BY <1>1, AgedInRange DEF TypeInv, TypeOK
  <2> HIDE DEF Aged
  <2> QED
    BY <1>1, <2>1 DEF Refresh
<1>3. lc' \in Lifecycle(-Skew)
  <2>1. AgedLifecycle(lc, d) \in Lifecycle(-Skew)
    BY <1>1, AgedLifecycleType DEF TypeInv, TypeOK
  <2>2. CompressorRunning(wish.final) \in BOOLEAN
    <3>1. (wish.final \in Compressing) \in BOOLEAN
      OBVIOUS
    <3>2. run \in BOOLEAN
      BY DEF TypeInv, TypeOK
    <3> QED
      BY <3>1, <3>2, Zenon DEF CompressorRunning
  <2>3. (IF online THEN mode ELSE None) \in Modes \cup {None}
    BY DEF TypeInv, TypeOK
  <2> QED
    BY <1>1, <2>1, <2>2, <2>3, ObserveType DEF Refresh
<1>4. lastCmd' \in Modes \cup {None}
  BY DEF Refresh, TypeInv, TypeOK
<1>5. disk' \in DiskType \cup {None} /\ ("crash" \in Faults => disk' \in DiskType)
  <2>1. /\ AgedDisk(d) \in DiskType \cup {None}
        /\ "crash" \in Faults => AgedDisk(d) \in DiskType
    BY AgedDiskType DEF TypeInv, TypeOK, DiskType
  <2>2. Record(lc', lastCmd') \in DiskType
    BY <1>3, <1>4, RecordType
  <2> QED
    BY <2>1, <2>2 DEF Refresh, IfCrash
<1>6. seen' \in Seen
  BY SeenType DEF Refresh, TypeInv, TypeOK
<1>7. up' /\ wish' \in Wishes /\ mode' \in Modes /\ run' \in BOOLEAN
      /\ online' \in BOOLEAN /\ calm' \in BOOLEAN
  BY DEF Refresh, TypeInv, TypeOK, device
<1>8. flight' \in Modes \cup {None}
  BY DEF Refresh
<1> QED
  BY <1>2, <1>3, <1>4, <1>5, <1>6, <1>7, <1>8 DEF TypeInv, TypeOK, DiskType

\* Reading the store at a start.
LEMMA StartType == ASSUME TypeInv, Start PROVE TypeInv'
<1>1. /\ MinOff \in Nat /\ ModeHold \in Nat /\ Skew \in Nat /\ WallBack \in Nat
      /\ None \notin Int
  BY GuardAssumption
<1>2. disk.lc \in Lifecycle(-(Skew + WallBack)) /\ disk.cmd \in Modes \cup {None}
  BY DEF TypeInv, Start, DiskType
<1>3. ASSUME NEW j \in 0 .. WallBack, NEW cap \in Nat,
             NEW age \in (-(Skew + WallBack) .. cap) \cup {None},
             NEW read \in SetBack(age, cap, j),
             read # None => read >= -(Skew + WallBack)
      PROVE  read \in (-(Skew + WallBack) .. cap) \cup {None}
  BY <1>1, <1>3 DEF SetBack
<1>4. PICK j \in 0 .. WallBack :
        \E off \in SetBack(disk.lc.off, MinOff, j),
           changed \in SetBack(disk.lc.changed, ModeHold, j) :
             /\ \A age \in {off, changed} \ {None} : age >= -(Skew + WallBack)
             /\ LET l == [disk.lc EXCEPT !.off = off, !.changed = changed]
                IN  /\ lc' = FromDict(l)
                    /\ disk' = IfCrash(Record(l, disk.cmd))
  BY DEF Start
<1>5. PICK off \in SetBack(disk.lc.off, MinOff, j),
           changed \in SetBack(disk.lc.changed, ModeHold, j) :
             /\ \A age \in {off, changed} \ {None} : age >= -(Skew + WallBack)
             /\ lc' = FromDict([disk.lc EXCEPT !.off = off, !.changed = changed])
             /\ disk' = IfCrash(Record([disk.lc EXCEPT !.off = off, !.changed = changed], disk.cmd))
  BY <1>4
<1> DEFINE l == [disk.lc EXCEPT !.off = off, !.changed = changed]
<1>6. l \in Lifecycle(-(Skew + WallBack))
  <2>1. /\ disk.lc.off \in (-(Skew + WallBack) .. MinOff) \cup {None}
        /\ disk.lc.changed \in (-(Skew + WallBack) .. ModeHold) \cup {None}
    BY <1>2 DEF Lifecycle
  <2>2. off \in (-(Skew + WallBack) .. MinOff) \cup {None}
    BY <1>1, <1>3, <1>5, <2>1
  <2>3. changed \in (-(Skew + WallBack) .. ModeHold) \cup {None}
    BY <1>1, <1>3, <1>5, <2>1
  <2> QED
    BY <1>2, <2>2, <2>3 DEF Lifecycle
<1>7. lc' \in Lifecycle(-Skew)
  BY <1>5, <1>6, FromDictType
<1>8. disk' \in DiskType \cup {None} /\ ("crash" \in Faults => disk' \in DiskType)
  BY <1>2, <1>5, <1>6 DEF IfCrash, Record, DiskType
<1>9. up' /\ lastCmd' \in Modes \cup {None} /\ nudged' = None
  BY <1>2 DEF Start
<1> QED
  BY <1>7, <1>8, <1>9 DEF Start, TypeInv, TypeOK, DiskType, device

LEMMA TypeNext == ASSUME TypeInv, Next \/ CalmDown \/ UNCHANGED vars PROVE TypeInv'
<1> USE DEF TypeInv, TypeOK, device, zone
<1>1. CASE TimerTick \/ EventTick
  <2>1. PICK d \in Nat : Tick(d)
    BY <1>1 DEF TimerTick, EventTick
  <2>2. PICK sent \in Due(d) : up /\ Refresh(d, sent)
    BY <2>1 DEF Tick
  <2>3. sent \in Modes \cup {None}
    BY <2>2, CommandIsMode DEF Due
  <2> QED
    BY <2>2, <2>3, RefreshType
<1>2. CASE FailedTick
  BY <1>2, RefreshType DEF FailedTick
<1>3. CASE BlindTick
  <2>1. /\ MinOff \in Nat /\ Reassert \in Nat /\ -Skew \in Int
    BY GuardAssumption
  <2>2. flight' \in Modes \cup {None}
    BY <1>3 DEF BlindTick, SafeMode, Modes
  <2>3. lc' \in Lifecycle(-Skew)
    BY <1>3, <2>1, AgedLifecycleType DEF BlindTick
  <2>4. nudged' \in (0 .. Reassert) \cup {None}
    <3>1. Aged(nudged, 1, Reassert) \in (0 .. Reassert) \cup {None}
      BY <2>1, AgedInRange
    <3> QED
      BY <1>3, <3>1 DEF BlindTick
  <2>5. seen' \in Seen
    BY <1>3, SeenType DEF BlindTick
  <2>6. disk' \in DiskType \cup {None} /\ ("crash" \in Faults => disk' \in DiskType)
    <3>1. Record(lc', lastCmd') \in DiskType
      BY <1>3, <2>2, <2>3, RecordType DEF BlindTick
    <3>2. /\ AgedDisk(1) \in DiskType \cup {None}
          /\ "crash" \in Faults => AgedDisk(1) \in DiskType
      BY AgedDiskType
    <3> QED
      BY <1>3, <3>1, <3>2 DEF BlindTick, IfCrash
  <2>7. /\ up' /\ wish' \in Wishes /\ mode' \in Modes /\ run' \in BOOLEAN
        /\ online' \in BOOLEAN /\ calm' \in BOOLEAN /\ lastCmd' \in Modes \cup {None}
    BY <1>3, <2>2 DEF BlindTick
  <2> QED
    BY <2>2, <2>3, <2>4, <2>5, <2>6, <2>7 DEF DiskType
<1>4. CASE WishChanges
  BY <1>4 DEF WishChanges
<1>5. CASE Land
  BY <1>5 DEF Land, Enter
<1>6. CASE Lost
  BY <1>6 DEF Lost
<1>7. CASE DeviceCycles
  BY <1>7 DEF DeviceCycles
<1>8. CASE Foreign
  BY <1>8, GuardAssumption DEF Foreign, Enter
<1>9. CASE Vanishes \/ Returns
  BY <1>9 DEF Vanishes, Returns
<1>10. CASE Stop
  <2>1. disk' \in DiskType
    BY <1>10, RecordType DEF Stop
  <2>2. NewLifecycle \in Lifecycle(-Skew)
    BY DEF NewLifecycle, Lifecycle
  <2> QED
    BY <1>10, <2>1, <2>2 DEF Stop, NewZone, DiskType
<1>11. CASE Crash
  <2>1. NewLifecycle \in Lifecycle(-Skew)
    BY DEF NewLifecycle, Lifecycle
  <2>2. disk \in DiskType
    BY <1>11 DEF Crash, Fault
  <2> QED
    BY <1>11, <2>1, <2>2 DEF Crash, NewZone
<1>12. CASE Start
  BY <1>12, StartType
<1>13. CASE Elapse
  <2>1. disk' \in DiskType /\ seen' \in Seen
    BY <1>13, AgedDiskType, SeenType DEF Elapse
  <2> QED
    BY <1>13, <2>1 DEF Elapse, DiskType
<1>14. CASE CalmDown
  BY <1>14 DEF CalmDown
<1>15. CASE UNCHANGED vars
  BY <1>15 DEF vars
<1> QED
  BY <1>1, <1>2, <1>3, <1>4, <1>5, <1>6, <1>7, <1>8, <1>9, <1>10, <1>11, <1>12,
     <1>13, <1>14, <1>15 DEF Next

\* The types hold in every behaviour (TypeOK of CompressorGuard).
THEOREM TypeCorrect == Spec => []TypeOK
<1>1. Init => TypeInv
  BY TypeInit
<1>2. TypeInv /\ [Next]_vars => TypeInv'
  BY TypeNext
<1>3. TypeInv => TypeOK
  BY DEF TypeInv
<1> QED
  BY <1>1, <1>2, <1>3, PTL DEF Spec
-----------------------------------------------------------------------------
(* The guard keeps its word.                                               *)

\* A device that reports its action and stays reachable, a guard that is on,
\* and a Home Assistant that is stopped in order.
Trustworthy == ~Silent /\ Guarded /\ "offline" \notin Faults /\ "crash" \notin Faults

\* The lifecycle knows no less than the ticks have seen: it takes the
\* compressor for running when they saw it run, never believes in a longer
\* rest than they saw, and has forgotten a stop only when it is long past.
KnowsRest(l, s) ==
  /\ l.isOn <=> s.watch = Running
  /\ ~l.isOn /\ l.off = None => s.watch = MinOff
  /\ ~l.isOn /\ l.off # None => l.off <= s.watch

\* The same for the mode it is in and the time it has been there.
KnowsMode(l, s) ==
  /\ l.mode = s.mode
  /\ l.changed = None => s.since = ModeHold
  /\ l.changed # None => l.changed <= s.since

Knows(l, s) == KnowsRest(l, s) /\ KnowsMode(l, s)

LockInv ==
  /\ TypeInv /\ online
  /\ up => Knows(lc, seen)
  /\ ~up => Knows(disk.lc, seen)

\* Time passes alike for both.
LEMMA KnowsAged ==
  ASSUME NEW least \in Int, NEW l \in Lifecycle(least), seen \in Seen, NEW d \in Nat,
         Knows(l, seen)
  PROVE  Knows(AgedLifecycle(l, d), AgedSeen(d))
<1>1. /\ MinOff \in Nat /\ ModeHold \in Nat /\ None \notin Int /\ Running \notin Int
  BY GuardAssumption
<1>2. /\ l.off \in (least .. MinOff) \cup {None} /\ l.changed \in (least .. ModeHold) \cup {None}
      /\ seen.watch \in (0 .. MinOff) \cup {Running} /\ seen.since \in 0 .. ModeHold
  BY DEF Lifecycle, Seen
<1> DEFINE a == AgedLifecycle(l, d)
           s == AgedSeen(d)
<1>3. /\ a.isOn = l.isOn /\ a.mode = l.mode
      /\ a.off = Aged(l.off, d, MinOff) /\ a.changed = Aged(l.changed, d, ModeHold)
  BY DEF AgedLifecycle, Lifecycle
<1>4. /\ s.mode = seen.mode /\ s.since = AtMost(seen.since + d, ModeHold)
      /\ s.watch = IF seen.watch = Running THEN Running ELSE AtMost(seen.watch + d, MinOff)
  BY DEF AgedSeen, Seen
<1> HIDE DEF a, s
<1>5. KnowsRest(a, s)
  BY <1>1, <1>2, <1>3, <1>4 DEF Knows, KnowsRest
<1>6. KnowsMode(a, s)
  BY <1>1, <1>2, <1>3, <1>4 DEF Knows, KnowsMode
<1> QED
  BY <1>5, <1>6 DEF Knows, a, s

\* A fold sees what a look sees.
LEMMA KnowsFolded ==
  ASSUME NEW least \in Int, NEW l \in Lifecycle(least), NEW s \in Seen, Knows(l, s),
         mode \in Modes, run \in BOOLEAN
  PROVE  Knows(Observe(l, run, mode), Look(s))
<1>1. /\ MinOff \in Nat /\ ModeHold \in Nat /\ None \notin Int /\ Running \notin Int
      /\ None \notin Modes
  BY GuardAssumption
<1>2. /\ l.off \in (least .. MinOff) \cup {None} /\ l.changed \in (least .. ModeHold) \cup {None}
      /\ l.isOn \in BOOLEAN
      /\ s.watch \in (0 .. MinOff) \cup {Running} /\ s.since \in 0 .. ModeHold
  BY DEF Lifecycle, Seen
<1>3. KnowsRest(Observe(l, run, mode), Look(s))
  BY <1>1, <1>2 DEF Knows, KnowsRest, Observe, Look
<1>4. KnowsMode(Observe(l, run, mode), Look(s))
  BY <1>1, <1>2 DEF Knows, KnowsMode, Observe, Look
<1> QED
  BY <1>3, <1>4 DEF Knows

\* A restart reads stamps that are no older than the ones written.
LEMMA KnowsRead ==
  ASSUME NEW j \in Nat, NEW l \in Lifecycle(-(Skew + WallBack)), seen \in Seen,
         Knows(l, seen),
         NEW off \in SetBack(l.off, MinOff, j), NEW changed \in SetBack(l.changed, ModeHold, j)
  PROVE  Knows(FromDict([l EXCEPT !.off = off, !.changed = changed]), seen)
<1>1. /\ MinOff \in Nat /\ ModeHold \in Nat /\ Skew \in Nat /\ WallBack \in Nat
      /\ None \notin Int /\ Running \notin Int
  BY GuardAssumption
<1>2. /\ l.off \in (-(Skew + WallBack) .. MinOff) \cup {None}
      /\ l.changed \in (-(Skew + WallBack) .. ModeHold) \cup {None}
      /\ seen.watch \in (0 .. MinOff) \cup {Running} /\ seen.since \in 0 .. ModeHold
  BY DEF Lifecycle, Seen
<1>3. ASSUME NEW cap \in Nat, NEW age \in (-(Skew + WallBack) .. cap) \cup {None},
             NEW read \in SetBack(age, cap, j), NEW bound \in 0 .. cap,
             age # None => age <= bound
      PROVE  /\ Unfuture(read) = None <=> age = None
             /\ age # None => Unfuture(read) <= bound
  BY <1>1, <1>3 DEF SetBack, Unfuture
<1> DEFINE r == FromDict([l EXCEPT !.off = off, !.changed = changed])
<1>4. /\ r.isOn = l.isOn /\ r.mode = l.mode
      /\ r.off = Unfuture(off) /\ r.changed = Unfuture(changed)
  BY DEF FromDict, Lifecycle
<1>5. KnowsRest(r, seen)
  <2>1. CASE l.isOn
    BY <1>4, <2>1 DEF Knows, KnowsRest
  <2>2. CASE ~l.isOn
    <3>1. seen.watch \in 0 .. MinOff
      BY <1>2, <2>2 DEF Knows, KnowsRest
    <3>2. l.off # None => l.off <= seen.watch
      BY <2>2 DEF Knows, KnowsRest
    <3>3. Unfuture(off) = None <=> l.off = None
      BY <1>1, <1>2, <1>3, <3>1, <3>2
    <3>4. l.off # None => Unfuture(off) <= seen.watch
      BY <1>1, <1>2, <1>3, <3>1, <3>2
    <3> QED
      BY <1>4, <2>2, <3>3, <3>4 DEF Knows, KnowsRest
  <2> QED
    BY <2>1, <2>2
<1>6. KnowsMode(r, seen)
  <2>1. l.changed # None => l.changed <= seen.since
    BY DEF Knows, KnowsMode
  <2>2. Unfuture(changed) = None <=> l.changed = None
    BY <1>1, <1>2, <1>3, <2>1
  <2>3. l.changed # None => Unfuture(changed) <= seen.since
    BY <1>1, <1>2, <1>3, <2>1
  <2> QED
    BY <1>4, <2>2, <2>3 DEF Knows, KnowsMode
<1> QED
  BY <1>5, <1>6 DEF Knows

LEMMA LockInit == Init /\ Trustworthy => LockInv
<1> SUFFICES ASSUME Init PROVE LockInv
  OBVIOUS
<1>1. Running \notin Int /\ MinOff \in Nat
  BY GuardAssumption
<1>2. disk.lc = NewLifecycle
  BY DEF Init, Record
<1>3. Knows(NewLifecycle, seen)
  BY <1>1 DEF Init, NewLifecycle, Knows, KnowsRest, KnowsMode
<1> QED
  BY <1>2, <1>3, TypeInit DEF Init, LockInv

\* A refresh leaves the lifecycle with what it has seen.
LEMMA RefreshKnows ==
  ASSUME Trustworthy, LockInv, NEW d \in Nat, NEW sent, up, Refresh(d, sent)
  PROVE  Knows(lc', seen')
<1>1. -Skew \in Int /\ lc \in Lifecycle(-Skew) /\ seen \in Seen /\ mode \in Modes /\ run \in BOOLEAN
  BY GuardAssumption DEF LockInv, TypeInv, TypeOK
<1>2. Knows(AgedLifecycle(lc, d), AgedSeen(d))
  BY <1>1, KnowsAged DEF LockInv
<1>3. AgedLifecycle(lc, d) \in Lifecycle(-Skew) /\ AgedSeen(d) \in Seen
  BY <1>1, AgedLifecycleType, SeenType
<1>4. Knows(Observe(AgedLifecycle(lc, d), run, mode), Look(AgedSeen(d)))
  BY <1>1, <1>2, <1>3, KnowsFolded
<1>5. online /\ CompressorRunning(wish.final) = run
  BY DEF LockInv, Trustworthy, CompressorRunning
<1> QED
  BY <1>4, <1>5 DEF Refresh

LEMMA LockNext ==
  ASSUME Trustworthy, LockInv, [Next]_vars
  PROVE  LockInv'
<1> USE DEF LockInv, device, zone
<1>1. TypeInv'
  BY TypeNext
<1>2. CASE TimerTick \/ EventTick \/ FailedTick
  <2>1. PICK d \in Nat : \E sent : up /\ Refresh(d, sent)
    BY <1>2 DEF TimerTick, EventTick, FailedTick, Tick
  <2>2. up' /\ online'
    BY <2>1 DEF Refresh
  <2> QED
    BY <1>1, <2>1, <2>2, RefreshKnows
<1>3. CASE BlindTick
  <2>1. -Skew \in Int
    BY GuardAssumption
  <2>2. Knows(AgedLifecycle(lc, 1), AgedSeen(1))
    BY <1>3, <2>1, KnowsAged DEF BlindTick, TypeInv, TypeOK
  <2> QED
    BY <1>1, <1>3, <2>2 DEF BlindTick
<1>4. CASE Stop
  BY <1>1, <1>4 DEF Stop, Record
<1>5. CASE Start
  <2>1. disk.lc \in Lifecycle(-(Skew + WallBack)) /\ seen \in Seen
    BY <1>5 DEF Start, TypeInv, TypeOK, DiskType
  <2>2. PICK j \in 0 .. WallBack :
        \E off \in SetBack(disk.lc.off, MinOff, j),
           changed \in SetBack(disk.lc.changed, ModeHold, j) :
             lc' = FromDict([disk.lc EXCEPT !.off = off, !.changed = changed])
    BY <1>5 DEF Start
  <2>3. j \in Nat
    BY GuardAssumption
  <2>4. Knows(lc', seen)
    BY <1>5, <2>1, <2>2, <2>3, KnowsRead DEF Start
  <2> QED
    BY <1>1, <1>5, <2>4 DEF Start
<1>6. CASE Elapse
  <2>1. disk \in DiskType /\ seen \in Seen /\ -(Skew + WallBack) \in Int
    BY <1>6, GuardAssumption DEF Elapse, TypeInv, TypeOK
  <2>2. Knows(AgedLifecycle(disk.lc, 1), AgedSeen(1))
    BY <1>6, <2>1, KnowsAged DEF Elapse, DiskType
  <2>3. disk'.lc = AgedLifecycle(disk.lc, 1)
    BY <1>6, <2>1, NoRecordAssumption DEF Elapse, AgedDisk
  <2> QED
    BY <1>1, <1>6, <2>2, <2>3 DEF Elapse
<1>7. CASE WishChanges \/ Land \/ Lost \/ DeviceCycles \/ Foreign \/ Returns \/ UNCHANGED vars
  <2>1. up' = up /\ lc' = lc /\ disk' = disk /\ seen' = seen
    BY <1>7 DEF WishChanges, Land, Lost, DeviceCycles, Foreign, Returns, vars
  <2>2. online'
    BY <1>7 DEF WishChanges, Land, Lost, DeviceCycles, Foreign, Returns, vars
  <2> QED
    BY <1>1, <2>1, <2>2
<1>8. ~Crash /\ ~Vanishes
  BY DEF Trustworthy, Crash, Vanishes, Fault
<1> QED
  BY <1>2, <1>3, <1>4, <1>5, <1>6, <1>7, <1>8 DEF Next

\* What a refresh sends, the guard has let pass.
LEMMA SentIsDue ==
  ASSUME TypeInv, Next, flight = None, flight' \in Conditioning
  PROVE  \E d \in Nat :
           /\ up /\ Refresh(d, flight')
           /\ flight' = Desired /\ (Exempt \/ ~GuardBlocks(AgedLifecycle(lc, d), Desired))
<1>1. None \notin Conditioning
  BY GuardAssumption DEF Conditioning, Modes
<1>2. TimerTick \/ EventTick
  BY <1>1 DEF Next, FailedTick, Refresh, BlindTick, SafeMode, Conditioning, WishChanges, Land,
              Lost, DeviceCycles, Foreign, Vanishes, Returns, Stop, Crash, Start, Elapse, NewZone,
              zone, device
<1>3. PICK d \in Nat : Tick(d)
  BY <1>2 DEF TimerTick, EventTick
<1>4. up /\ flight' \in Due(d) /\ Refresh(d, flight')
  BY <1>3 DEF Tick, Refresh
<1>5. flight' = Desired /\ (Exempt \/ ~GuardBlocks(AgedLifecycle(lc, d), Desired))
  BY <1>1, <1>4 DEF Due, Command, Nudge, FrostRescue, Conditioning
<1> QED
  BY <1>4, <1>5

LEMMA LockStep ==
  ASSUME Trustworthy, LockInv, Next
  PROVE  /\ StartIsAllowed
         /\ Flips => seen.mode # mode \/ seen'.since >= ModeHold
<1>1. /\ MinOff \in Nat /\ ModeHold \in Nat /\ None \notin Int /\ Running \notin Int
      /\ -Skew \in Int
  BY GuardAssumption
<1>2. lc \in Lifecycle(-Skew) /\ seen \in Seen /\ mode \in Modes /\ online
  BY DEF LockInv, TypeInv, TypeOK
<1>3. ASSUME Starts \/ Flips
      PROVE  \E d \in Nat : /\ up /\ Refresh(d, flight') /\ flight' = Desired
                            /\ ~GuardBlocks(AgedLifecycle(lc, d), Desired)
  BY <1>3, SentIsDue DEF Starts, Flips, LockInv
<1>4. ASSUME NEW d \in Nat, up
      PROVE  /\ AgedLifecycle(lc, d) \in Lifecycle(-Skew) /\ AgedSeen(d) \in Seen
             /\ Knows(AgedLifecycle(lc, d), AgedSeen(d))
  BY <1>1, <1>2, <1>4, AgedLifecycleType, SeenType, KnowsAged DEF LockInv
<1>5. ASSUME Starts, ~run, seen.watch # Running
      PROVE  seen'.watch >= MinOff
  <2>1. PICK d \in Nat : /\ up /\ Refresh(d, flight') /\ flight' = Desired
                         /\ ~GuardBlocks(AgedLifecycle(lc, d), Desired)
    BY <1>3, <1>5
  <2> DEFINE l == AgedLifecycle(lc, d)
             s == AgedSeen(d)
  <2>2. up
    BY <2>1
  <2>3. ~MinOffActive(l)
    BY <1>5, <2>1 DEF Starts, Trustworthy, GuardBlocks
  <2>4. s.watch # Running
    BY <1>1, <1>2, <1>5 DEF AgedSeen, Seen
  <2>5. s.watch >= MinOff
    BY <1>1, <1>4, <2>2, <2>3, <2>4 DEF MinOffActive, Knows, KnowsRest, Lifecycle, Seen
  <2>6. seen' = Look(s)
    BY <1>2, <2>1 DEF Refresh
  <2> QED
    BY <1>5, <2>4, <2>5, <2>6 DEF Look
<1>6. ASSUME Flips, seen.mode = mode
      PROVE  seen'.since >= ModeHold
  <2>1. PICK d \in Nat : /\ up /\ Refresh(d, flight') /\ flight' = Desired
                         /\ ~GuardBlocks(AgedLifecycle(lc, d), Desired)
    BY <1>3, <1>6
  <2> DEFINE l == AgedLifecycle(lc, d)
             s == AgedSeen(d)
  <2>2. up
    BY <2>1
  <2>3. ~ModeHoldActive(l)
    BY <1>6, <2>1 DEF Flips, Trustworthy, GuardBlocks
  <2>4. s.mode = mode
    BY <1>6 DEF AgedSeen, Seen
  <2>5. s.since >= ModeHold
    BY <1>1, <1>4, <2>2, <2>3 DEF ModeHoldActive, Knows, KnowsMode, Lifecycle, Seen
  <2>6. seen' = Look(s)
    BY <1>2, <2>1 DEF Refresh
  <2> QED
    BY <2>4, <2>5, <2>6 DEF Look
<1> QED
  BY <1>5, <1>6 DEF StartIsAllowed

(***************************************************************************)
(* Whatever the timers, the wishes, foreign hands and lost commands, and   *)
(* however far restarts set the wall clock back: the guard never starts a  *)
(* compressor inside its min-off (LockHolds).                              *)
(***************************************************************************)
THEOREM LockIsKept == ASSUME Trustworthy PROVE Spec => LockHolds
<1>1. Init => LockInv
  BY LockInit
<1>2. LockInv /\ [Next]_vars => LockInv'
  BY LockNext
<1>3. LockInv /\ [Next]_vars => [StartIsAllowed]_vars
  BY LockStep
<1> QED
  BY <1>1, <1>2, <1>3, PTL DEF Spec, LockHolds

\* Nor does it flip a device inside its mode hold (FlipsAreHeld).
THEOREM HoldIsKept == ASSUME Trustworthy PROVE Spec => FlipsAreHeld
<1>1. Init => LockInv
  BY LockInit
<1>2. LockInv /\ [Next]_vars => LockInv'
  BY LockNext
<1>3. LockInv /\ [Next]_vars
        => [Flips => seen.mode # mode \/ seen'.since >= ModeHold]_vars
  BY LockStep
<1> QED
  BY <1>1, <1>2, <1>3, PTL DEF Spec, FlipsAreHeld
-----------------------------------------------------------------------------
(* Nor does the guard protect too much.                                    *)

\* The lifecycle forgets no part of a rest the ticks have seen.
CountsAll(l, s) == ~l.isOn /\ l.off # None => s.watch <= l.off

ThriftInv ==
  /\ LockInv
  /\ up => CountsAll(lc, seen)
  /\ ~up => CountsAll(disk.lc, seen)

LEMMA CountsAged ==
  ASSUME NEW least \in Int, NEW l \in Lifecycle(least), seen \in Seen, NEW d \in Nat,
         Knows(l, seen), CountsAll(l, seen)
  PROVE  CountsAll(AgedLifecycle(l, d), AgedSeen(d))
<1>1. MinOff \in Nat /\ None \notin Int /\ Running \notin Int
  BY GuardAssumption
<1>2. /\ l.off \in (least .. MinOff) \cup {None}
      /\ seen.watch \in (0 .. MinOff) \cup {Running}
  BY DEF Lifecycle, Seen
<1> DEFINE a == AgedLifecycle(l, d)
           s == AgedSeen(d)
<1>3. a.isOn = l.isOn /\ a.off = Aged(l.off, d, MinOff)
  BY DEF AgedLifecycle, Lifecycle
<1>4. s.watch = IF seen.watch = Running THEN Running ELSE AtMost(seen.watch + d, MinOff)
  BY DEF AgedSeen, Seen
<1> HIDE DEF a, s
<1>5. CountsAll(a, s)
  BY <1>1, <1>2, <1>3, <1>4 DEF CountsAll, Knows, KnowsRest
<1> QED
  BY <1>5 DEF a, s

LEMMA CountsFolded ==
  ASSUME NEW least \in Int, NEW l \in Lifecycle(least), NEW s \in Seen,
         Knows(l, s), CountsAll(l, s), run \in BOOLEAN
  PROVE  CountsAll(Observe(l, run, mode), Look(s))
<1>1. MinOff \in Nat /\ None \notin Int /\ Running \notin Int
  BY GuardAssumption
<1>2. l.isOn \in BOOLEAN
  BY DEF Lifecycle
<1> QED
  BY <1>1, <1>2 DEF CountsAll, Knows, KnowsRest, Observe, Look

\* A clock that is not set back reads the stamps as they were written.
LEMMA CountsRead ==
  ASSUME WallBack = 0, NEW l \in Lifecycle(-(Skew + WallBack)), seen \in Seen,
         CountsAll(l, seen), NEW off \in SetBack(l.off, MinOff, 0), NEW changed
  PROVE  CountsAll(FromDict([l EXCEPT !.off = off, !.changed = changed]), seen)
<1>1. MinOff \in Nat /\ Skew \in Nat /\ None \notin Int
  BY GuardAssumption
<1>2. l.off \in (-(Skew + WallBack) .. MinOff) \cup {None}
  BY DEF Lifecycle
<1>3. off = l.off
  BY <1>1, <1>2 DEF SetBack
<1>4. Unfuture(off) = off
  BY <1>1, <1>2, <1>3 DEF Unfuture
<1> DEFINE r == FromDict([l EXCEPT !.off = off, !.changed = changed])
<1>5. r.isOn = l.isOn /\ r.off = off
  BY <1>4 DEF FromDict, Lifecycle
<1> QED
  BY <1>3, <1>5 DEF CountsAll

LEMMA ThriftInit == Init /\ Trustworthy => ThriftInv
<1> SUFFICES ASSUME Init, Trustworthy PROVE ThriftInv
  OBVIOUS
<1>1. disk.lc.off = None /\ up = FALSE
  BY DEF Init, Record, NewLifecycle
<1> QED
  BY <1>1, LockInit DEF ThriftInv, CountsAll

LEMMA ThriftNext ==
  ASSUME Trustworthy, WallBack = 0, ThriftInv, [Next]_vars
  PROVE  ThriftInv'
<1> USE DEF ThriftInv, device, zone
<1>1. LockInv'
  BY LockNext
<1>2. /\ up => lc \in Lifecycle(-Skew) /\ Knows(lc, seen) /\ CountsAll(lc, seen)
      /\ ~up => /\ disk \in DiskType /\ disk.lc \in Lifecycle(-(Skew + WallBack))
                /\ Knows(disk.lc, seen) /\ CountsAll(disk.lc, seen)
      /\ seen \in Seen /\ run \in BOOLEAN /\ mode \in Modes /\ online
      /\ -Skew \in Int /\ -(Skew + WallBack) \in Int
  BY GuardAssumption DEF LockInv, TypeInv, TypeOK, DiskType
<1>3. CASE TimerTick \/ EventTick \/ FailedTick
  <2>1. PICK d \in Nat : \E sent : up /\ Refresh(d, sent)
    BY <1>3 DEF TimerTick, EventTick, FailedTick, Tick
  <2>2. /\ AgedLifecycle(lc, d) \in Lifecycle(-Skew) /\ AgedSeen(d) \in Seen
        /\ Knows(AgedLifecycle(lc, d), AgedSeen(d)) /\ CountsAll(AgedLifecycle(lc, d), AgedSeen(d))
    BY <1>2, <2>1, AgedLifecycleType, SeenType, KnowsAged, CountsAged
  <2>3. CountsAll(Observe(AgedLifecycle(lc, d), run, mode), Look(AgedSeen(d)))
    BY <1>2, <2>2, CountsFolded
  <2>4. CompressorRunning(wish.final) = run
    BY <1>2 DEF Trustworthy, CompressorRunning
  <2> QED
    BY <1>1, <1>2, <2>1, <2>3, <2>4 DEF Refresh
<1>4. CASE BlindTick
  <2>1. CountsAll(AgedLifecycle(lc, 1), AgedSeen(1))
    BY <1>2, <1>4, CountsAged DEF BlindTick
  <2> QED
    BY <1>1, <1>4, <2>1 DEF BlindTick
<1>5. CASE Stop
  BY <1>1, <1>5 DEF Stop, Record
<1>6. CASE Start
  <2>1. \E j \in 0 .. WallBack :
          \E off \in SetBack(disk.lc.off, MinOff, j),
             changed \in SetBack(disk.lc.changed, ModeHold, j) :
               lc' = FromDict([disk.lc EXCEPT !.off = off, !.changed = changed])
    BY <1>6 DEF Start
  <2>2. PICK off \in SetBack(disk.lc.off, MinOff, 0),
           changed \in SetBack(disk.lc.changed, ModeHold, 0) :
          lc' = FromDict([disk.lc EXCEPT !.off = off, !.changed = changed])
    <3>1. PICK j \in 0 .. WallBack :
            \E off \in SetBack(disk.lc.off, MinOff, j),
               changed \in SetBack(disk.lc.changed, ModeHold, j) :
                 lc' = FromDict([disk.lc EXCEPT !.off = off, !.changed = changed])
      BY <2>1
    <3>2. j = 0
      BY <3>1
    <3> QED
      BY <3>1, <3>2
  <2>3. CountsAll(lc', seen)
    BY <1>2, <1>6, <2>2, CountsRead DEF Start
  <2> QED
    BY <1>1, <1>6, <2>3 DEF Start
<1>7. CASE Elapse
  <2>1. CountsAll(AgedLifecycle(disk.lc, 1), AgedSeen(1))
    BY <1>2, <1>7, CountsAged DEF Elapse
  <2>2. disk'.lc = AgedLifecycle(disk.lc, 1)
    BY <1>2, <1>7, NoRecordAssumption DEF Elapse, AgedDisk, DiskType
  <2> QED
    BY <1>1, <1>7, <2>1, <2>2 DEF Elapse
<1>8. CASE WishChanges \/ Land \/ Lost \/ DeviceCycles \/ Foreign \/ Returns \/ UNCHANGED vars
  <2>1. up' = up /\ lc' = lc /\ disk' = disk /\ seen' = seen
    BY <1>8 DEF WishChanges, Land, Lost, DeviceCycles, Foreign, Returns, vars
  <2> QED
    BY <1>1, <2>1
<1>9. ~Crash /\ ~Vanishes
  BY DEF Trustworthy, Crash, Vanishes, Fault
<1> QED
  BY <1>3, <1>4, <1>5, <1>6, <1>7, <1>8, <1>9 DEF Next

\* A start that is due and not sent was blocked by a rest that is not over.
LEMMA ThriftStep ==
  ASSUME Trustworthy, ThriftInv, TimerTick \/ EventTick, StartIsDue, ~run, flight' = None
  PROVE  seen'.watch < MinOff
<1>1. PICK d \in Nat : Tick(d)
  BY DEF TimerTick, EventTick
<1>2. /\ up /\ None \in Due(d) /\ Refresh(d, None)
  BY <1>1 DEF Tick, Refresh
<1>3. /\ MinOff \in Nat /\ None \notin Int /\ Running \notin Int /\ -Skew \in Int
      /\ None \notin Conditioning
  BY GuardAssumption DEF Conditioning, Modes
<1>4. lc \in Lifecycle(-Skew) /\ seen \in Seen /\ mode \in Modes /\ run \in BOOLEAN /\ online
  BY DEF ThriftInv, LockInv, TypeInv, TypeOK
<1> DEFINE l == AgedLifecycle(lc, d)
           s == AgedSeen(d)
<1>5. l \in Lifecycle(-Skew) /\ s \in Seen /\ Knows(l, s) /\ CountsAll(l, s)
  BY <1>2, <1>3, <1>4, AgedLifecycleType, SeenType, KnowsAged, CountsAged DEF ThriftInv, LockInv
<1>6. GuardBlocks(l, Desired)
  BY <1>2, <1>3 DEF Due, Command, Nudge, StartIsDue, ReassertThrottled
<1>7. MinOffActive(l)
  BY <1>6 DEF GuardBlocks, StartIsDue
<1>8. seen' = Look(s)
  BY <1>2, <1>4 DEF Refresh
<1>9. s.watch \in 0 .. MinOff /\ s.watch < MinOff
  BY <1>3, <1>5, <1>7 DEF MinOffActive, Knows, KnowsRest, CountsAll, Lifecycle, Seen
<1> HIDE DEF l, s
<1> QED
  BY <1>3, <1>8, <1>9 DEF Look

\* As long as the clock is not set back either, a start that is due is held back
\* only inside the min-off (HeldOnlyInside; ADR-0046, "pure suppression").
THEOREM GuardOnlyDelays == ASSUME Trustworthy, WallBack = 0 PROVE Spec => HeldOnlyInside
<1>1. Init => ThriftInv
  BY ThriftInit
<1>2. ThriftInv /\ [Next]_vars => ThriftInv'
  BY ThriftNext
<1>3. ThriftInv /\ [Next]_vars =>
        [(TimerTick \/ EventTick) /\ StartIsDue /\ ~run /\ flight' = None
           => seen'.watch < MinOff]_vars
  BY ThriftStep
<1> QED
  BY <1>1, <1>2, <1>3, PTL DEF Spec, HeldOnlyInside

-----------------------------------------------------------------------------
(* The failure alarm.  The invariant ties the detector's window to what    *)
(* the ticks have seen: how long the room has stalled decides which        *)
(* windows must have failed.                                               *)

DetType ==
  [start : -1 .. Span, room0 : Rooms \cup {0}, idle : -1 .. Span, failed : BOOLEAN]
HistoryType ==
  [demand : -1 .. Span, stalled : 0 .. 2 * Span, idle : 0 .. Span,
   low : Rooms \cup {-1}, room : Rooms \cup {-1}]

\* The last tick reached the stage and found demand.
Demanded == past.room # Alarm!Unset /\ past.demand # Alarm!Unset

\* A window opened within a stall has gained nothing since, one that also ended
\* within it has failed.
Stalls ==
  /\ ~Demanded => past.stalled = 0
  /\ Demanded =>
       /\ det.start \in 0 .. Span - 1
       /\ det.start < past.stalled => det.room0 >= past.room
       /\ det.start + Span < past.stalled => det.failed

\* The verdict was taken with the room no warmer than the window under way began.
Verdicts ==
  det.failed => det.start # Alarm!Unset /\ past.low # Alarm!Unset /\ past.low <= det.room0 /\ issue

AlarmInv ==
  /\ warmth \in Rooms /\ target \in Targets /\ working \in BOOLEAN /\ broken \in BOOLEAN
  /\ det \in DetType /\ past \in HistoryType
  /\ raised \in BOOLEAN /\ issue = raised
  /\ Stalls /\ Verdicts
  /\ det.idle # Alarm!Unset => det.idle <= past.idle

LEMMA RoomsAreNumbers ==
  ASSUME Alarm!ScaleAssumption
  PROVE  /\ \A r \in Rooms : r \in Nat /\ r \in Int
         /\ \A r \in Rooms \cup {-1} : r \in Int
         /\ \A r \in Rooms \cup {0} : r \in Nat /\ r \in Int
<1>1. \A r \in Rooms : r \in Nat
  BY DEF Alarm!ScaleAssumption
<1> QED
  BY <1>1

LEMMA LaterFacts ==
  ASSUME Alarm!ScaleAssumption, det \in DetType, NEW dt \in {0, 1}
  PROVE  LET d == Alarm!Later(det, dt)
         IN  /\ d \in DetType /\ d.room0 = det.room0 /\ d.failed = det.failed
             /\ (d.start = Alarm!Unset) = (det.start = Alarm!Unset)
             /\ (d.idle = Alarm!Unset) = (det.idle = Alarm!Unset)
             /\ det.start \in 0 .. Span - 1 => d.start = det.start + dt
             /\ det.idle # Alarm!Unset =>
                  d.idle = IF det.idle + dt <= Span THEN det.idle + dt ELSE Span
<1>1. /\ Span \in Nat \ {0} /\ det.start \in -1 .. Span /\ det.idle \in -1 .. Span
      /\ det.room0 \in Rooms \cup {0} /\ det.failed \in BOOLEAN
  BY DEF Alarm!ScaleAssumption, DetType
<1>2. \A a \in -1 .. Span :
        /\ Alarm!Older(a) \in -1 .. Span /\ (Alarm!Older(a) = Alarm!Unset) = (a = Alarm!Unset)
        /\ a # Alarm!Unset => Alarm!Older(a) = IF a + 1 <= Span THEN a + 1 ELSE Span
  BY <1>1 DEF Alarm!Older, Alarm!Capped, Alarm!Unset
<1>3. CASE dt = 0
  BY <1>1, <1>3 DEF Alarm!Later, Alarm!Unset
<1>4. CASE dt = 1
  <2> DEFINE s == Alarm!Older(det.start)
             i == Alarm!Older(det.idle)
  <2>1. Alarm!Later(det, dt) = [det EXCEPT !.start = s, !.idle = i]
    BY <1>4 DEF Alarm!Later
  <2>2. s \in -1 .. Span /\ i \in -1 .. Span
    BY <1>1, <1>2
  <2> HIDE DEF s, i
  <2>3. /\ Alarm!Later(det, dt) \in DetType /\ Alarm!Later(det, dt).start = s
        /\ Alarm!Later(det, dt).idle = i
        /\ Alarm!Later(det, dt).room0 = det.room0 /\ Alarm!Later(det, dt).failed = det.failed
    BY <2>1, <2>2 DEF DetType
  <2>4. /\ (s = Alarm!Unset) = (det.start = Alarm!Unset) /\ (i = Alarm!Unset) = (det.idle = Alarm!Unset)
        /\ det.start \in 0 .. Span - 1 => s = det.start + 1
        /\ det.idle # Alarm!Unset => i = IF det.idle + 1 <= Span THEN det.idle + 1 ELSE Span
    BY <1>1, <1>2 DEF s, i, Alarm!Unset
  <2> QED
    BY <1>4, <2>3, <2>4
<1> QED
  BY <1>3, <1>4

\* What a tick notes, field by field.
LEMMA SeenFacts ==
  ASSUME Alarm!ScaleAssumption, warmth \in Rooms, past \in HistoryType,
         NEW dt \in {0, 1}, NEW f \in BOOLEAN
  PROVE  LET s == Alarm!Seen(dt, f)
         IN  /\ s \in HistoryType /\ s.room = warmth
             /\ s.demand # Alarm!Unset <=> Alarm!Demand
             /\ Alarm!Demand /\ Demanded /\ warmth <= past.room =>
                  s.stalled = IF past.stalled + dt <= 2 * Span THEN past.stalled + dt ELSE 2 * Span
             /\ ~(Alarm!Demand /\ Demanded /\ warmth <= past.room) => s.stalled = 0
             /\ ~Alarm!Demand => s.idle = IF past.idle + dt <= Span THEN past.idle + dt ELSE Span
             /\ f => /\ s.low # Alarm!Unset /\ s.low <= warmth
                     /\ (past.low # Alarm!Unset => s.low <= past.low)
<1> DEFINE unbroken == Alarm!Demand /\ past.room # Alarm!Unset /\ past.demand # Alarm!Unset
           dm == IF ~Alarm!Demand THEN Alarm!Unset
                 ELSE IF unbroken
                      THEN (IF dt = 0 THEN past.demand ELSE Alarm!Capped(past.demand, Span))
                      ELSE 0
           st == IF unbroken /\ warmth =< past.room
                 THEN (IF dt = 0 THEN past.stalled ELSE Alarm!Capped(past.stalled, 2 * Span)) ELSE 0
           id == IF Alarm!Demand THEN 0
                 ELSE (IF dt = 0 THEN past.idle ELSE Alarm!Capped(past.idle, Span))
           lo == IF ~f THEN Alarm!Unset
                 ELSE IF past.low = Alarm!Unset \/ warmth < past.low THEN warmth ELSE past.low
<1>1. Alarm!Seen(dt, f) = [demand |-> dm, stalled |-> st, idle |-> id, low |-> lo, room |-> warmth]
  BY DEF Alarm!Seen
<1>2. /\ Span \in Nat \ {0} /\ Rooms \subseteq Nat /\ warmth \in Nat
      /\ past.demand \in -1 .. Span /\ past.stalled \in 0 .. 2 * Span /\ past.idle \in 0 .. Span
      /\ past.low \in Rooms \cup {-1} /\ past.room \in Rooms \cup {-1}
  BY DEF Alarm!ScaleAssumption, HistoryType
<1>3. dm \in -1 .. Span /\ (dm # Alarm!Unset <=> Alarm!Demand)
  <2>1. CASE ~Alarm!Demand
    BY <1>2, <2>1 DEF Alarm!Unset
  <2>2. CASE Alarm!Demand
    <3>1. dm \in 0 .. Span
      BY <1>2, <2>2 DEF Alarm!Capped, Alarm!Unset
    <3> QED
      BY <1>2, <2>2, <3>1 DEF Alarm!Unset
  <2> QED
    BY <2>1, <2>2
<1>4. /\ st \in 0 .. 2 * Span
      /\ Alarm!Demand /\ Demanded /\ warmth <= past.room =>
           st = IF past.stalled + dt <= 2 * Span THEN past.stalled + dt ELSE 2 * Span
      /\ ~(Alarm!Demand /\ Demanded /\ warmth <= past.room) => st = 0
  BY <1>2 DEF Alarm!Capped, Demanded
<1>5. /\ id \in 0 .. Span
      /\ ~Alarm!Demand => id = IF past.idle + dt <= Span THEN past.idle + dt ELSE Span
  BY <1>2 DEF Alarm!Capped
<1>6. /\ lo \in Rooms \cup {-1}
      /\ f => lo # Alarm!Unset /\ lo <= warmth /\ (past.low # Alarm!Unset => lo <= past.low)
  <2>1. CASE ~f
    BY <1>2, <2>1 DEF Alarm!Unset
  <2>2. CASE f
    <3>1. lo = IF past.low = Alarm!Unset \/ warmth < past.low THEN warmth ELSE past.low
      BY <2>2
    <3>2. warmth # Alarm!Unset /\ (past.low = Alarm!Unset \/ past.low \in Rooms)
      BY <1>2 DEF Alarm!Unset
    <3>3. past.low \in Int
      BY <1>2, RoomsAreNumbers
    <3> QED
      BY <1>2, <3>1, <3>2, <3>3
  <2> QED
    BY <2>1, <2>2
<1> HIDE DEF unbroken, dm, st, id, lo
<1> QED
  BY <1>1, <1>3, <1>4, <1>5, <1>6 DEF HistoryType

\* What the detector concludes.
LEMMA WorkFacts ==
  ASSUME Alarm!ScaleAssumption, warmth \in Rooms, NEW d \in DetType
  PROVE  /\ Alarm!Work(d) \in DetType /\ Alarm!Work(d).idle = Alarm!Unset
         /\ Alarm!Work(d).start \in 0 .. Span - 1
         /\ d.start = Alarm!Unset =>
              /\ Alarm!Work(d).failed = d.failed /\ Alarm!Work(d).room0 = warmth
              /\ Alarm!Work(d).start = 0
         /\ d.start \in 0 .. Span - 1 =>
              /\ Alarm!Work(d).failed = d.failed /\ Alarm!Work(d).room0 = d.room0
              /\ Alarm!Work(d).start = d.start
         /\ d.start = Span =>
              /\ Alarm!Work(d).failed = (warmth - d.room0 < MinRise) /\ Alarm!Work(d).room0 = warmth
              /\ Alarm!Work(d).start = 0
<1>1. /\ Span \in Nat \ {0} /\ d.start \in -1 .. Span /\ -1 \in -1 .. Span /\ 0 \in -1 .. Span
      /\ 0 \in 0 .. Span - 1 /\ warmth \in Rooms \cup {0} /\ Alarm!Unset = -1 /\ 0 # -1
  BY DEF Alarm!ScaleAssumption, DetType, Alarm!Unset
<1>2. CASE d.start = Alarm!Unset
  <2>1. Alarm!Work(d) = [d EXCEPT !.idle = Alarm!Unset, !.start = 0, !.room0 = warmth]
    BY <1>2 DEF Alarm!Work
  <2>2. /\ Alarm!Work(d) \in DetType /\ Alarm!Work(d).idle = Alarm!Unset /\ Alarm!Work(d).start = 0
        /\ Alarm!Work(d).room0 = warmth /\ Alarm!Work(d).failed = d.failed
    BY <1>1, <2>1 DEF DetType
  <2> QED
    BY <1>1, <1>2, <2>2
<1>3. CASE d.start \in 0 .. Span - 1
  <2>1. Alarm!Work(d) = [d EXCEPT !.idle = Alarm!Unset]
    BY <1>1, <1>3 DEF Alarm!Work
  <2> QED
    BY <1>1, <1>3, <2>1 DEF DetType
<1>4. CASE d.start = Span
  <2> DEFINE f == warmth - d.room0 < MinRise
  <2>1. Alarm!Work(d) = [start |-> 0, room0 |-> warmth, idle |-> Alarm!Unset, failed |-> f]
    BY <1>1, <1>4 DEF Alarm!Work
  <2>2. f \in BOOLEAN
    OBVIOUS
  <2> HIDE DEF f
  <2>3. /\ Alarm!Work(d) \in DetType /\ Alarm!Work(d).idle = Alarm!Unset /\ Alarm!Work(d).start = 0
        /\ Alarm!Work(d).failed = f /\ Alarm!Work(d).room0 = warmth
    BY <1>1, <2>1, <2>2 DEF DetType
  <2> QED
    BY <1>1, <1>4, <2>3 DEF f
<1> QED
  BY <1>1, <1>2, <1>3, <1>4

LEMMA IdleFacts ==
  ASSUME Alarm!ScaleAssumption, NEW d \in DetType
  PROVE  /\ Alarm!Idle(d) \in DetType
         /\ \/ Alarm!Idle(d) = Alarm!NewDetector /\ d.idle = Span
            \/ /\ Alarm!Idle(d).idle = (IF d.idle = Alarm!Unset THEN 0 ELSE d.idle)
               /\ Alarm!Idle(d).start = d.start /\ Alarm!Idle(d).room0 = d.room0
               /\ Alarm!Idle(d).failed = d.failed
<1>1. /\ Span \in Nat \ {0} /\ d.idle \in -1 .. Span /\ -1 \in -1 .. Span /\ 0 \in -1 .. Span
      /\ Alarm!Unset = -1
  BY DEF Alarm!ScaleAssumption, DetType, Alarm!Unset
<1>2. Alarm!NewDetector \in DetType
  BY <1>1 DEF Alarm!NewDetector, DetType
<1> QED
  BY <1>1, <1>2 DEF Alarm!Idle, DetType

LEMMA LiveTickKeeps ==
  ASSUME Alarm!ScaleAssumption, AlarmInv, NEW dt \in {0, 1}, Alarm!LiveTick(dt)
  PROVE  AlarmInv' /\ Alarm!Latches /\ issue' = (det'.failed \/ broken)
<1> DEFINE d == Alarm!Later(det, dt)
<1>1. /\ warmth \in Rooms /\ det \in DetType /\ past \in HistoryType /\ issue = raised
      /\ raised \in BOOLEAN /\ broken \in BOOLEAN
  BY DEF AlarmInv
<1>2. /\ Span \in Nat \ {0} /\ MinRise \in Nat \ {0} /\ Rooms \subseteq Nat /\ Alarm!Unset = -1
      /\ det.start \in -1 .. Span /\ det.room0 \in Nat /\ det.idle \in -1 .. Span
      /\ past.stalled \in 0 .. 2 * Span /\ past.idle \in 0 .. Span /\ warmth \in Nat
      /\ past.room \in Int /\ past.low \in Int
  <2>1. /\ Span \in Nat \ {0} /\ MinRise \in Nat \ {0} /\ Rooms \subseteq Nat /\ Alarm!Unset = -1
        /\ det.start \in -1 .. Span /\ det.room0 \in Rooms \cup {0} /\ det.idle \in -1 .. Span
        /\ past.stalled \in 0 .. 2 * Span /\ past.idle \in 0 .. Span
        /\ past.room \in Rooms \cup {-1} /\ past.low \in Rooms \cup {-1}
    BY <1>1 DEF Alarm!ScaleAssumption, DetType, HistoryType, Alarm!Unset
  <2> QED
    BY <1>1, <2>1, RoomsAreNumbers
<1>3. /\ d \in DetType /\ d.room0 = det.room0 /\ d.failed = det.failed
      /\ (d.start = Alarm!Unset) = (det.start = Alarm!Unset)
      /\ (d.idle = Alarm!Unset) = (det.idle = Alarm!Unset)
      /\ det.start \in 0 .. Span - 1 => d.start = det.start + dt
      /\ det.idle # Alarm!Unset => d.idle = IF det.idle + dt <= Span THEN det.idle + dt ELSE Span
  BY <1>1, LaterFacts
<1>4. d.start \in -1 .. Span /\ d.idle \in -1 .. Span /\ d.room0 \in Nat
  BY <1>2, <1>3 DEF DetType
<1>5. det' = Alarm!update(d) /\ past' = Alarm!Seen(dt, det'.failed) /\ UNCHANGED Alarm!world
  BY DEF Alarm!LiveTick
<1> HIDE DEF d
<1>6. det' \in DetType
  BY <1>1, <1>3, <1>5, WorkFacts, IdleFacts DEF Alarm!update
<1>7. det'.failed \in BOOLEAN
  BY <1>6 DEF DetType
<1>8. /\ past' \in HistoryType /\ past'.room = warmth
      /\ past'.demand # Alarm!Unset <=> Alarm!Demand
      /\ Alarm!Demand /\ Demanded /\ warmth <= past.room =>
           past'.stalled = IF past.stalled + dt <= 2 * Span THEN past.stalled + dt ELSE 2 * Span
      /\ ~(Alarm!Demand /\ Demanded /\ warmth <= past.room) => past'.stalled = 0
      /\ ~Alarm!Demand => past'.idle = IF past.idle + dt <= Span THEN past.idle + dt ELSE Span
      /\ det'.failed => /\ past'.low # Alarm!Unset /\ past'.low <= warmth
                        /\ past.low # Alarm!Unset => past'.low <= past.low
  BY <1>1, <1>5, <1>7, SeenFacts
<1>9. past'.low \in Int /\ past'.idle \in 0 .. Span
  <2>1. past'.low \in Rooms \cup {-1} /\ past'.idle \in 0 .. Span
    BY <1>8 DEF HistoryType
  <2> QED
    BY <2>1, RoomsAreNumbers
<1>10. Demanded' <=> Alarm!Demand
  BY <1>2, <1>8 DEF Demanded
<1>11. raised' \in BOOLEAN /\ issue' = raised' /\ issue' = (det'.failed \/ broken)
  BY <1>1, <1>7 DEF Alarm!LiveTick, Alarm!Notify
<1>12. CASE ~Alarm!Demand
  <2>1. det' = Alarm!Idle(d) /\ past'.stalled = 0
    BY <1>5, <1>8, <1>12 DEF Alarm!update
  <2>2. \/ det' = Alarm!NewDetector /\ d.idle = Span
        \/ /\ det'.idle = (IF d.idle = Alarm!Unset THEN 0 ELSE d.idle)
           /\ det'.start = d.start /\ det'.room0 = d.room0 /\ det'.failed = d.failed
    BY <1>3, <2>1, IdleFacts
  <2>3. Stalls'
    BY <1>10, <1>12, <2>1 DEF Stalls
  <2>4. Verdicts'
    <3>1. CASE det' = Alarm!NewDetector
      BY <3>1 DEF Alarm!NewDetector, Verdicts
    <3>2. CASE det'.start = d.start /\ det'.room0 = d.room0 /\ det'.failed = d.failed
      <4> SUFFICES ASSUME det'.failed
                   PROVE  /\ det'.start # Alarm!Unset /\ past'.low # Alarm!Unset
                          /\ past'.low <= det'.room0 /\ issue'
        BY DEF Verdicts
      <4>1. det.failed /\ det.start # Alarm!Unset /\ past.low # Alarm!Unset /\ past.low <= det.room0
        BY <1>3, <3>2 DEF Verdicts, AlarmInv
      <4>2. past'.low # Alarm!Unset /\ past'.low <= past.low
        BY <1>8, <4>1
      <4>3. issue' = TRUE
        BY <1>7, <1>11
      <4> QED
        BY <1>2, <1>3, <1>9, <3>2, <4>1, <4>2, <4>3
    <3> QED
      BY <2>2, <3>1, <3>2
  <2>5. det'.idle # Alarm!Unset => det'.idle <= past'.idle
    <3>1. CASE det' = Alarm!NewDetector
      BY <3>1 DEF Alarm!NewDetector
    <3>2. CASE det'.idle = (IF d.idle = Alarm!Unset THEN 0 ELSE d.idle)
      BY <1>2, <1>3, <1>4, <1>8, <1>9, <1>12, <3>2 DEF AlarmInv
    <3> QED
      BY <2>2, <3>1, <3>2
  <2>6. Alarm!Latches
    <3>1. CASE det' = Alarm!NewDetector /\ d.idle = Span
      <4>1. det.idle # Alarm!Unset /\ det.idle + dt >= Span
        BY <1>2, <1>3, <3>1
      <4>2. past'.idle >= Span
        BY <1>2, <1>8, <1>12, <4>1 DEF AlarmInv
      <4> QED
        BY <4>2 DEF Alarm!Latches
    <3>2. CASE det'.failed = d.failed
      BY <1>3, <3>2 DEF Alarm!Latches
    <3> QED
      BY <2>2, <3>1, <3>2
  <2> QED
    BY <1>5, <1>6, <1>8, <1>11, <2>3, <2>4, <2>5, <2>6 DEF AlarmInv, Alarm!world
<1>13. CASE Alarm!Demand
  <2>1. det' = Alarm!Work(d)
    BY <1>5, <1>13 DEF Alarm!update
  <2>2. /\ det'.idle = Alarm!Unset /\ det'.start \in 0 .. Span - 1
        /\ d.start = Alarm!Unset => det'.failed = d.failed /\ det'.room0 = warmth /\ det'.start = 0
        /\ d.start \in 0 .. Span - 1 =>
             /\ det'.failed = d.failed /\ det'.room0 = d.room0 /\ det'.start = d.start
        /\ d.start = Span =>
             /\ det'.failed = (warmth - d.room0 < MinRise) /\ det'.room0 = warmth
             /\ det'.start = 0
    BY <1>1, <1>3, <2>1, WorkFacts
  <2>3. d.start = Alarm!Unset \/ d.start \in 0 .. Span - 1 \/ d.start = Span
    BY <1>2, <1>4
  <2>4. Stalls'
    <3>1. CASE past'.stalled = 0
      BY <1>2, <1>10, <1>13, <2>2, <3>1 DEF Stalls
    <3>2. CASE past'.stalled # 0
      <4>1. Demanded /\ warmth <= past.room
        BY <1>8, <3>2
      <4>2. /\ det.start \in 0 .. Span - 1 /\ d.start = det.start + dt
            /\ det.start < past.stalled => det.room0 >= past.room
            /\ det.start + Span < past.stalled => det.failed
        BY <1>3, <4>1 DEF AlarmInv, Stalls
      <4>3. past'.stalled <= past.stalled + dt /\ past'.stalled \in 0 .. 2 * Span
        BY <1>2, <1>8, <1>13, <4>1
      <4>4. CASE d.start = Span
        <5>1. det.start = Span - 1 /\ dt = 1 /\ det'.start = 0 /\ det'.room0 = warmth
          BY <1>2, <2>2, <4>2, <4>4
        <5>2. Span < past'.stalled => det'.failed
          <6> SUFFICES ASSUME Span < past'.stalled PROVE det'.failed
            OBVIOUS
          <6>1. det.start < past.stalled
            BY <1>2, <4>3, <5>1
          <6>2. warmth - d.room0 < MinRise
            BY <1>2, <1>3, <4>1, <4>2, <6>1
          <6> QED
            BY <2>2, <4>4, <6>2
        <5> QED
          BY <1>2, <1>8, <1>10, <1>13, <2>2, <4>3, <5>1, <5>2 DEF Stalls
      <4>5. CASE d.start \in 0 .. Span - 1
        <5>1. det'.start = det.start + dt /\ det'.room0 = det.room0 /\ det'.failed = det.failed
          BY <1>3, <2>2, <4>2, <4>5
        <5>2. det'.start < past'.stalled => det'.room0 >= past'.room
          BY <1>2, <1>8, <4>1, <4>2, <4>3, <5>1
        <5>3. det'.start + Span < past'.stalled => det'.failed
          BY <1>2, <4>2, <4>3, <5>1
        <5> QED
          BY <1>10, <1>13, <2>2, <5>2, <5>3 DEF Stalls
      <4> QED
        BY <1>2, <2>3, <4>2, <4>4, <4>5
    <3> QED
      BY <3>1, <3>2
  <2>5. Verdicts'
    <3> SUFFICES ASSUME det'.failed
                 PROVE  /\ det'.start # Alarm!Unset /\ past'.low # Alarm!Unset
                        /\ past'.low <= det'.room0 /\ issue'
      BY DEF Verdicts
    <3>a. issue' = TRUE
      BY <1>11
    <3>1. det'.start # Alarm!Unset /\ past'.low # Alarm!Unset /\ issue' /\ past'.low <= warmth
      BY <1>2, <1>8, <2>2, <3>a
    <3>2. CASE det'.room0 = warmth
      BY <3>1, <3>2
    <3>3. CASE det'.room0 = d.room0 /\ det'.failed = d.failed
      <4>1. past.low # Alarm!Unset /\ past.low <= det.room0
        BY <1>3, <3>3 DEF AlarmInv, Verdicts
      <4> QED
        BY <1>2, <1>3, <1>8, <1>9, <3>1, <3>3, <4>1
    <3> QED
      BY <2>2, <2>3, <3>2, <3>3
  <2>6. Alarm!Latches
    <3> SUFFICES ASSUME det.failed, ~det'.failed PROVE warmth >= past.low + MinRise
      BY DEF Alarm!Latches
    <3>1. d.start = Span
      BY <1>3, <2>2, <2>3
    <3>2. warmth - det.room0 >= MinRise
      <4>1. ~(warmth - det.room0 < MinRise)
        BY <1>3, <2>2, <3>1
      <4> QED
        BY <1>2, <4>1
    <3>3. past.low <= det.room0
      BY DEF AlarmInv, Verdicts
    <3> QED
      BY <1>2, <3>2, <3>3
  <2> QED
    BY <1>5, <1>6, <1>8, <1>11, <2>2, <2>4, <2>5, <2>6 DEF AlarmInv, Alarm!world
<1> QED
  BY <1>11, <1>12, <1>13

LEMMA MissedTickKeeps ==
  ASSUME Alarm!ScaleAssumption, AlarmInv, Alarm!MissedTick
  PROVE  AlarmInv' /\ det'.failed = det.failed
<1>1. det \in DetType /\ past \in HistoryType /\ Span \in Nat \ {0} /\ Alarm!Unset = -1
  BY DEF AlarmInv, Alarm!ScaleAssumption, Alarm!Unset
<1>2. /\ det' \in DetType /\ det'.room0 = det.room0 /\ det'.failed = det.failed
      /\ (det'.start = Alarm!Unset) = (det.start = Alarm!Unset)
      /\ (det'.idle = Alarm!Unset) = (det.idle = Alarm!Unset)
      /\ det.idle # Alarm!Unset => det'.idle = IF det.idle + 1 <= Span THEN det.idle + 1 ELSE Span
  BY <1>1, LaterFacts DEF Alarm!MissedTick
<1> DEFINE i == Alarm!Capped(past.idle, Span)
<1>3. past.idle \in 0 .. Span /\ i = IF past.idle + 1 <= Span THEN past.idle + 1 ELSE Span
  BY <1>1 DEF HistoryType, Alarm!Capped
<1>4. i \in 0 .. Span /\ 0 \in 0 .. 2 * Span /\ -1 \in -1 .. Span /\ det.idle \in -1 .. Span
  BY <1>1, <1>3 DEF DetType
<1>5. past' = [past EXCEPT !.demand = Alarm!Unset, !.stalled = 0, !.room = Alarm!Unset, !.idle = i]
  BY DEF Alarm!MissedTick
<1> HIDE DEF i
<1>6. /\ past' \in HistoryType /\ past'.demand = Alarm!Unset /\ past'.stalled = 0
      /\ past'.room = Alarm!Unset
      /\ past'.idle = i /\ past'.low = past.low
  BY <1>1, <1>4, <1>5 DEF HistoryType
<1>7. Stalls'
  BY <1>6 DEF Stalls, Demanded
<1>8. UNCHANGED <<Alarm!world, raised, issue>>
  BY DEF Alarm!MissedTick
<1>9. Verdicts'
  BY <1>2, <1>6, <1>8 DEF Verdicts, AlarmInv
<1>10. det'.idle # Alarm!Unset => det'.idle <= past'.idle
  BY <1>1, <1>2, <1>3, <1>4, <1>6 DEF AlarmInv
<1> QED
  BY <1>2, <1>6, <1>7, <1>8, <1>9, <1>10 DEF AlarmInv, Alarm!world

LEMMA FreshFacts ==
  ASSUME Alarm!ScaleAssumption, det' = Alarm!NewDetector, past' = Alarm!NewSeen
  PROVE  /\ det' \in DetType /\ past' \in HistoryType
         /\ Stalls' /\ Verdicts' /\ det'.idle = Alarm!Unset
BY DEF Alarm!ScaleAssumption, Alarm!NewDetector, Alarm!NewSeen, DetType, HistoryType, Stalls,
       Demanded, Verdicts, Alarm!Unset

LEMMA AlarmStarts == Alarm!ScaleAssumption /\ Alarm!Init => AlarmInv
<1> SUFFICES ASSUME Alarm!ScaleAssumption, Alarm!Init PROVE AlarmInv
  OBVIOUS
<1>1. /\ det \in DetType /\ past \in HistoryType /\ Stalls /\ Verdicts /\ det.idle = Alarm!Unset
  BY DEF Alarm!Init, Alarm!ScaleAssumption, Alarm!NewDetector, Alarm!NewSeen, DetType,
         HistoryType, Stalls, Demanded, Verdicts, Alarm!Unset
<1> QED
  BY <1>1 DEF Alarm!Init, AlarmInv

LEMMA AlarmSteps ==
  Alarm!ScaleAssumption /\ AlarmInv /\ [Alarm!Next]_(Alarm!vars)
    => AlarmInv' /\ [Alarm!Latches]_(Alarm!vars) /\ [Alarm!TellsTheVerdict]_(Alarm!vars)
<1> SUFFICES ASSUME Alarm!ScaleAssumption, AlarmInv, [Alarm!Next]_(Alarm!vars)
             PROVE  AlarmInv' /\ Alarm!Latches /\ Alarm!TellsTheVerdict
  OBVIOUS
<1>1. Alarm!TellsTheVerdict
  BY LiveTickKeeps DEF Alarm!TellsTheVerdict
<1>2. CASE \E dt \in {0, 1} : Alarm!LiveTick(dt)
  BY <1>1, <1>2, LiveTickKeeps
<1>3. CASE Alarm!MissedTick
  BY <1>1, <1>3, MissedTickKeeps DEF Alarm!Latches
<1>4. CASE Alarm!Restart
  <2>1. raised' = issue /\ issue' = issue /\ UNCHANGED Alarm!world
    BY <1>4 DEF Alarm!Restart
  <2> QED
    BY <1>1, <1>4, <2>1, FreshFacts DEF AlarmInv, Alarm!world, Alarm!Restart, Alarm!Latches
<1>5. CASE Alarm!Reload
  <2>1. raised' = issue' /\ issue' \in BOOLEAN /\ UNCHANGED Alarm!world
    BY <1>5 DEF Alarm!Reload
  <2> QED
    BY <1>1, <1>5, <2>1, FreshFacts DEF AlarmInv, Alarm!world, Alarm!Reload, Alarm!Latches
<1>6. CASE Alarm!Weather \/ UNCHANGED Alarm!vars
  <2>1. /\ warmth' \in Rooms /\ target' \in Targets /\ working' \in BOOLEAN /\ broken' \in BOOLEAN
        /\ UNCHANGED <<det, raised, issue, past>>
    BY <1>6 DEF Alarm!Weather, Alarm!vars, Alarm!world, AlarmInv
  <2> QED
    BY <1>1, <2>1 DEF AlarmInv, Stalls, Demanded, Verdicts, Alarm!Latches
<1> QED
  BY <1>2, <1>3, <1>4, <1>5, <1>6 DEF Alarm!Next

LEMMA AlarmTells ==
  ASSUME Alarm!ScaleAssumption, AlarmInv
  PROVE  Alarm!TypeOK /\ Alarm!StallIsTold
<1>1. Alarm!TypeOK
  BY DEF AlarmInv, DetType, Verdicts, Alarm!TypeOK
<1>2. Alarm!StallIsTold
  <2> SUFFICES ASSUME past.stalled >= 2 * Span PROVE det.failed /\ issue
    BY DEF Alarm!StallIsTold
  <2>1. Span \in Nat \ {0}
    BY DEF Alarm!ScaleAssumption
  <2>2. det.start \in 0 .. Span - 1 /\ (det.start + Span < past.stalled => det.failed)
    BY <2>1 DEF AlarmInv, Stalls
  <2>3. past.stalled \in Int
    BY <2>1 DEF AlarmInv, HistoryType
  <2> QED
    BY <2>1, <2>2, <2>3 DEF AlarmInv, Verdicts
<1> QED
  BY <1>1, <1>2

LEMMA AlarmSound == ASSUME Alarm!ScaleAssumption PROVE Alarm!Spec => []AlarmInv
BY AlarmStarts, AlarmSteps, PTL DEF Alarm!Spec
-----------------------------------------------------------------------------
(***************************************************************************)
(* Every variable keeps its type, and a device that runs without effect    *)
(* for two windows is reported, for all windows and temperatures, however  *)
(* the windows of the detector lie (HeatingFailureDetector.update).        *)
(***************************************************************************)
THEOREM StallsAreTold ==
  ASSUME Alarm!ScaleAssumption
  PROVE  Alarm!Spec => [](Alarm!TypeOK /\ Alarm!StallIsTold)
BY AlarmSound, AlarmTells, PTL

(***************************************************************************)
(* A verdict is taken back only for a reason: a whole window of rest, the  *)
(* rise that was asked for, or a new start of the program; missed ticks    *)
(* and a flicker of the running state are none ("a detected failure        *)
(* latches", HeatingFailureDetector.update).                               *)
(***************************************************************************)
THEOREM VerdictsLatch == ASSUME Alarm!ScaleAssumption PROVE Alarm!Spec => Alarm!AlarmSurvivesFlicker
BY AlarmSound, AlarmSteps, PTL DEF Alarm!Spec, Alarm!AlarmSurvivesFlicker

(***************************************************************************)
(* After a tick that reaches the stage the issue stands exactly if the     *)
(* verdict or the device's own alarm does, whatever stood in the registry  *)
(* before a restart (IssueLedger, coordinator.async_bootstrap).            *)
(***************************************************************************)
THEOREM IssueTellsTheVerdict == ASSUME Alarm!ScaleAssumption PROVE Alarm!Spec => Alarm!IssueIsTheVerdict
BY AlarmSound, AlarmSteps, PTL DEF Alarm!Spec, Alarm!IssueIsTheVerdict
-----------------------------------------------------------------------------
(* The order of a tick, for every plan, choice and floor and any number of *)
(* errors, wherever the user, the device and an error come in.             *)

ModeOrNone == Program!Modes \cup {None}
UserType == [enabled : BOOLEAN, override : Choices \cup {None}, mode : ModeOrNone]
LedgerType == [mode : ModeOrNone, sp : Program!Setpoints \cup {None}, regime : {"heat", "cool", None}]
DeviceType == [mode : Program!Modes, sp : Program!Setpoints \cup {Floor}]
HandType == [mode : ModeOrNone, sp : Choices \cup {None}]
TickType ==
  [final : {"heat", "cool", None}, mode : ModeOrNone, sp : Program!Setpoints \cup {None},
   seen : [mode : ModeOrNone, sp : Program!Setpoints \cup {Floor, None}], hand : HandType,
   held : BOOLEAN, resumed : BOOLEAN, nudged : BOOLEAN, blocked : BOOLEAN, ok : BOOLEAN]
GhostType == [event : BOOLEAN, moved : BOOLEAN, parted : BOOLEAN]

\* What a tick has decided once it has read the device.
Shape ==
  /\ pc \in Program!Awaits \cup {"adopt", "dispatch_mode", "observe", "dispatch_sp", "protect"}
  /\ user \in UserType /\ stamps \in LedgerType /\ unit \in DeviceType /\ hand \in HandType
  /\ tick \in TickType /\ ghost \in GhostType /\ errors \in 0 .. Errors
  /\ pc \notin {"idle", "forecast"} => tick.final \in {"heat", "cool"} /\ tick.sp \in Program!Setpoints
  /\ pc = "dispatch_mode" => tick.mode \in Program!Modes

\* The mode of the device: as stamped, or about to be, or moved by a hand.
ModeKnown == unit.mode = stamps.mode \/ ghost.moved
ModeInv ==
  /\ pc \notin {"nudge", "rescue"} => ModeKnown
  /\ pc = "nudge" /\ tick.ok => unit.mode = tick.mode \/ ghost.moved
  /\ pc = "nudge" /\ ~tick.ok => ModeKnown
  /\ pc = "rescue" /\ tick.mode = "heat" => unit.mode = "heat" \/ ghost.moved
  /\ pc = "rescue" /\ tick.mode # "heat" => ModeKnown

\* The same of its setpoint, and of what the tick has read.
SetpointKnown == stamps.sp = None \/ unit.sp = stamps.sp \/ ghost.parted
SetpointInv ==
  /\ pc \notin {"setpoint", "rescue"} => SetpointKnown
  /\ pc = "setpoint" /\ tick.ok => unit.sp = tick.sp \/ ghost.parted
  /\ pc \in {"setpoint", "rescue"} /\ ~tick.ok => SetpointKnown
  /\ pc \in {"adopt", "dispatch_mode", "nudge", "fan", "observe"} =>
       unit.sp = tick.seen.sp \/ ghost.parted

\* A tick that rescues a zone held off finds it held off at its end; one that
\* commands a setpoint does not; and one that the guard holds back nudges nothing.
HoldInv ==
  /\ pc \in {"protect", "rescue"} /\ tick.held => user.mode = "off"
  /\ pc = "dispatch_sp" => user.mode # "off"
  /\ pc \in {"dispatch_mode", "nudge", "fan", "observe"} => ~(tick.nudged /\ tick.blocked)

ProgramInv == Shape /\ ModeInv /\ SetpointInv /\ HoldInv
-----------------------------------------------------------------------------
(* Holds.                                                                  *)

LEMMA Distinct ==
  ASSUME Program!PlansAssumption
  PROVE  /\ None \notin Program!Modes /\ None \notin Choices /\ None \notin Program!Setpoints
         /\ \A p \in Plans : p.mode \in {"heat", "cool"} /\ p.sp \in Program!Setpoints
         /\ Choices \subseteq Program!Setpoints
BY DEF Program!PlansAssumption, Program!Modes, Program!Setpoints

\* Ending a hold ends it, and is seen exactly if there was one.
LEMMA EndsHold ==
  ASSUME NEW u \in UserType
  PROVE  /\ Program!EndHold(u) \in UserType /\ ~Program!Holds(Program!EndHold(u))
         /\ Program!EndHold(u).mode = None /\ Program!EndHold(u).override = None
         /\ (Program!EndHold(u) # u) <=> Program!Holds(u)
<1>1. /\ Program!EndHold(u) \in UserType
      /\ Program!EndHold(u).mode = None /\ Program!EndHold(u).override = None
  BY DEF Program!EndHold, UserType, ModeOrNone
<1>2. ASSUME ~Program!Holds(u) PROVE Program!EndHold(u) = u
  BY <1>2 DEF Program!EndHold, UserType, Program!Holds
<1> QED
  BY <1>1, <1>2 DEF Program!Holds

LEMMA ExpireFacts ==
  ASSUME NEW u \in UserType, NEW over \in BOOLEAN
  PROVE  /\ Program!Expire(u, over) \in UserType
         /\ (Program!Expire(u, over) # u) => Program!Holds(u) /\ ~Program!Holds(Program!Expire(u, over))
BY EndsHold DEF Program!Expire
-----------------------------------------------------------------------------
(* The tick.                                                               *)

LEMMA BeginKeeps ==
  ASSUME ProgramInv, Program!Begin
  PROVE  ProgramInv' /\ Program!TellsTheEnd
<1>1. Shape'
  BY DEF ProgramInv, Shape, Program!Begin, Program!Goto, Program!Quiet, Program!Fires,
         Program!Awaits, GhostType
<1>2. ModeInv' /\ SetpointInv' /\ HoldInv'
  BY DEF ProgramInv, Shape, GhostType, ModeInv, ModeKnown, SetpointInv, SetpointKnown, HoldInv,
         Program!Begin, Program!Goto, Program!Quiet, Program!Fires
<1>3. Program!TellsTheEnd
  BY DEF ProgramInv, Shape, GhostType, Program!Begin, Program!Quiet, Program!Fires,
         Program!TellsTheEnd, Program!Holds
<1> QED
  BY <1>1, <1>2, <1>3 DEF ProgramInv

LEMMA ResumeKeeps ==
  ASSUME Program!PlansAssumption, ProgramInv, NEW plan \in Plans,
         NEW over \in BOOLEAN, NEW own \in BOOLEAN,
         NEW dir \in {"heat", "cool"}, Program!Resume(plan, over, own, dir)
  PROVE  ProgramInv' /\ Program!TellsTheEnd
<1> DEFINE alive == Program!Expire(user, over)
           resumed == Program!IsResumed(alive, own)
           back == IF resumed THEN Program!EndHold(alive) ELSE alive
<1>1. /\ alive \in UserType /\ (alive # user => Program!Holds(user) /\ ~Program!Holds(alive))
  BY ExpireFacts DEF ProgramInv, Shape
<1>2. resumed => Program!Holds(alive)
  BY <1>1, Distinct DEF Program!IsResumed, Program!Holds, Program!Modes
<1>3. /\ back \in UserType /\ (back # alive => Program!Holds(alive) /\ ~Program!Holds(back))
      /\ resumed => back # alive
  BY <1>1, <1>2, EndsHold
<1>4. /\ pc = "forecast" /\ user' = back
      /\ pc' = IF back.enabled /\ back.mode # "off" THEN "adopt" ELSE "protect"
      /\ ghost' = [ghost EXCEPT !.event = alive # user \/ back # alive]
      /\ UNCHANGED <<stamps, unit, hand, errors>>
  BY Zenon DEF Program!Resume, Program!Goto, Program!Fires
<1>5. tick' = [Program!NoTick EXCEPT !.final = IF alive.override # None THEN dir ELSE plan.mode,
                             !.sp = IF alive.override # None THEN alive.override ELSE plan.sp,
                             !.seen = unit, !.hand = hand, !.held = back.mode = "off",
                             !.resumed = resumed]
  BY Zenon DEF Program!Resume
<1>6. resumed \in BOOLEAN
  BY DEF Program!IsResumed
<1> HIDE DEF alive, resumed, back
<1>7. /\ tick' \in TickType /\ tick'.final \in {"heat", "cool"} /\ tick'.sp \in Program!Setpoints
      /\ tick'.seen = unit /\ tick'.held = (back.mode = "off")
  <2> DEFINE f == IF alive.override # None THEN dir ELSE plan.mode
             v == IF alive.override # None THEN alive.override ELSE plan.sp
             off == back.mode = "off"
  <2>1. f \in {"heat", "cool"} /\ v \in Program!Setpoints /\ off \in BOOLEAN
    BY <1>1, Distinct DEF UserType
  <2>2. hand \in HandType /\ unit \in [mode : ModeOrNone, sp : Program!Setpoints \cup {Floor, None}]
    BY DEF ProgramInv, Shape, DeviceType, ModeOrNone
  <2>3. tick' = [Program!NoTick EXCEPT !.final = f, !.sp = v, !.seen = unit, !.hand = hand,
                               !.held = off, !.resumed = resumed]
    BY <1>5
  <2> HIDE DEF f, v, off
  <2>4. tick' = [final |-> f, mode |-> None, sp |-> v, seen |-> unit, hand |-> hand, held |-> off,
                 resumed |-> resumed, nudged |-> FALSE, blocked |-> FALSE, ok |-> FALSE]
    BY <2>3 DEF Program!NoTick
  <2>5. tick' \in TickType
    BY <1>6, <2>1, <2>2, <2>4 DEF TickType, ModeOrNone
  <2>6. tick'.final = f /\ tick'.sp = v /\ tick'.seen = unit /\ tick'.held = off
    BY <2>4
  <2>7. tick'.held = (back.mode = "off")
    BY <2>6 DEF off
  <2> QED
    BY <2>1, <2>5, <2>6, <2>7
<1>8. ghost' \in GhostType /\ ghost'.moved = ghost.moved /\ ghost'.parted = ghost.parted
      /\ ghost'.event = (alive # user \/ back # alive)
  BY <1>4 DEF ProgramInv, Shape, GhostType
<1>9. Shape'
  BY <1>3, <1>4, <1>7, <1>8 DEF ProgramInv, Shape, Program!Awaits
<1>10. ModeInv' /\ SetpointInv' /\ HoldInv'
  BY <1>4, <1>7, <1>8 DEF ProgramInv, ModeInv, ModeKnown, SetpointInv, SetpointKnown, HoldInv
<1>11. Program!TellsTheEnd
  BY <1>1, <1>3, <1>4, <1>8 DEF Program!TellsTheEnd
<1> QED
  BY <1>9, <1>10, <1>11 DEF ProgramInv

\* What a stage leaves alone keeps its type.
LEMMA GhostSteps ==
  ASSUME ghost \in GhostType, NEW e \in BOOLEAN, Program!Fires(e)
  PROVE  /\ ghost' \in GhostType /\ ghost'.event = e
         /\ ghost'.moved = ghost.moved /\ ghost'.parted = ghost.parted
BY DEF GhostType, Program!Fires

LEMMA AdoptModeKeeps ==
  ASSUME Program!PlansAssumption, ProgramInv, NEW safe \in BOOLEAN, NEW guarded \in BOOLEAN,
         NEW throttled \in BOOLEAN, Program!AdoptMode(safe, guarded, throttled)
  PROVE  ProgramInv' /\ Program!TellsTheEnd
<1> DEFINE next == Program!Adopted(user, safe)
           wants == IF next.mode # None /\ ~safe THEN next.mode ELSE tick.final
           needs == tick.seen.mode # wants
           held == guarded /\ needs /\ Compressor /\ next.override = None /\ ~safe
           nudges == needs /\ ~held /\ ~throttled
           told == ~safe /\ ~Program!Adopts /\ Program!Realigns
<1>1. /\ pc = "adopt" /\ user \in UserType /\ tick \in TickType /\ hand \in HandType
      /\ ghost \in GhostType /\ tick.final \in {"heat", "cool"}
  BY DEF ProgramInv, Shape, Program!AdoptMode
<1>2. /\ next \in UserType
      /\ (Program!Holds(user) /\ ~Program!Holds(next)) <=> told
  <2>1. CASE safe
    BY <1>1, <2>1 DEF Program!Adopted
  <2>2. CASE ~safe /\ Program!Adopts
    <3>1. next = [user EXCEPT !.mode = tick.hand.mode]
      BY <2>2 DEF Program!Adopted
    <3>2. tick.hand.mode \in ModeOrNone /\ tick.hand.mode # None
      BY <1>1, <2>2 DEF Program!Adopts, TickType, HandType
    <3> QED
      BY <1>1, <2>2, <3>1, <3>2 DEF UserType, Program!Holds
  <2>3. CASE ~safe /\ ~Program!Adopts /\ Program!Realigns
    <3>1. next = Program!EndHold(user)
      BY <2>3 DEF Program!Adopted
    <3>2. Program!Holds(user)
      BY <2>3 DEF Program!Realigns, Program!Holds
    <3> QED
      BY <1>1, <2>3, <3>1, <3>2, EndsHold
  <2>4. CASE ~safe /\ ~Program!Adopts /\ ~Program!Realigns
    <3>1. next = user
      BY <2>4 DEF Program!Adopted
    <3> QED
      BY <1>1, <2>4, <3>1
  <2> QED
    BY <2>1, <2>2, <2>3, <2>4
<1>3. /\ tick' = [tick EXCEPT !.mode = wants, !.blocked = held, !.nudged = nudges]
      /\ pc' = IF tick'.nudged THEN "dispatch_mode" ELSE "fan"
      /\ user' = next
      /\ hand' = IF hand.mode = tick.hand.mode THEN [hand EXCEPT !.mode = None] ELSE hand
      /\ Program!Fires(told) /\ UNCHANGED <<stamps, unit, errors>>
  BY Zenon DEF Program!AdoptMode, Program!Goto
<1>4. wants \in Program!Modes
  BY <1>1, <1>2 DEF UserType, ModeOrNone, Program!Modes
<1>5. held \in BOOLEAN /\ nudges \in BOOLEAN /\ ~(nudges /\ held) /\ told \in BOOLEAN
  BY Distinct DEF Program!PlansAssumption, Program!Adopts, Program!Realigns
<1> HIDE DEF next, wants, needs, held, nudges, told
<1>6. /\ tick' \in TickType /\ tick'.mode = wants /\ tick'.blocked = held /\ tick'.nudged = nudges
      /\ tick'.final = tick.final /\ tick'.sp = tick.sp /\ tick'.seen = tick.seen
  BY <1>1, <1>3, <1>4, <1>5 DEF TickType, ModeOrNone
<1>7. hand' \in HandType
  BY <1>1, <1>3 DEF HandType, ModeOrNone
<1>8. /\ ghost' \in GhostType /\ ghost'.event = told
      /\ ghost'.moved = ghost.moved /\ ghost'.parted = ghost.parted
  BY <1>1, <1>3, <1>5, GhostSteps
<1>9. Shape'
  BY <1>1, <1>2, <1>3, <1>4, <1>6, <1>7, <1>8 DEF ProgramInv, Shape, Program!Awaits
<1>10. ModeInv' /\ SetpointInv' /\ HoldInv'
  BY <1>1, <1>3, <1>5, <1>6, <1>8 DEF ProgramInv, ModeInv, ModeKnown, SetpointInv, SetpointKnown,
                                      HoldInv
<1>11. Program!TellsTheEnd
  BY <1>2, <1>3, <1>8 DEF Program!TellsTheEnd
<1> QED
  BY <1>9, <1>10, <1>11 DEF ProgramInv

LEMMA DispatchModeKeeps ==
  ASSUME Program!PlansAssumption, ProgramInv, NEW ok \in BOOLEAN, Program!DispatchMode(ok)
  PROVE  ProgramInv' /\ Program!TellsTheEnd
<1>1. /\ pc = "dispatch_mode" /\ pc' = "nudge" /\ UNCHANGED <<user, stamps, hand>>
      /\ tick \in TickType /\ unit \in DeviceType /\ ghost \in GhostType /\ tick.mode \in Program!Modes
      /\ errors' \in 0 .. Errors
  BY DEF ProgramInv, Shape, Program!DispatchMode, Program!Goto, Program!PlansAssumption
<1>2. /\ tick' \in TickType /\ tick'.ok = ok /\ tick'.mode = tick.mode /\ tick'.final = tick.final
      /\ tick'.sp = tick.sp /\ tick'.seen = tick.seen
      /\ tick'.nudged = tick.nudged /\ tick'.blocked = tick.blocked
  BY <1>1 DEF Program!DispatchMode, TickType
<1>3. /\ unit' \in DeviceType /\ unit'.sp = unit.sp /\ unit'.mode = IF ok THEN tick.mode ELSE unit.mode
  BY <1>1 DEF Program!DispatchMode, DeviceType
<1>4. /\ ghost' \in GhostType /\ ghost'.event = FALSE /\ ghost'.parted = ghost.parted
      /\ ~ok => ghost'.moved = ghost.moved
  BY <1>1 DEF Program!DispatchMode, GhostType
<1>5. Shape'
  BY <1>1, <1>2, <1>3, <1>4 DEF ProgramInv, Shape, Program!Awaits
<1>6. ModeInv' /\ SetpointInv' /\ HoldInv'
  BY <1>1, <1>2, <1>3, <1>4
     DEF ProgramInv, ModeInv, ModeKnown, SetpointInv, SetpointKnown, HoldInv
<1>7. Program!TellsTheEnd
  BY <1>1, <1>4 DEF Program!TellsTheEnd
<1> QED
  BY <1>5, <1>6, <1>7 DEF ProgramInv

LEMMA NudgeDoneKeeps ==
  ASSUME ProgramInv, Program!NudgeDone
  PROVE  ProgramInv' /\ Program!TellsTheEnd
<1>1. /\ pc = "nudge" /\ pc' = "fan" /\ UNCHANGED <<tick, user, unit, hand, errors>>
      /\ tick \in TickType /\ stamps \in LedgerType
      /\ ghost' \in GhostType /\ ghost'.event = FALSE
      /\ ghost'.moved = ghost.moved /\ ghost'.parted = ghost.parted
  BY GhostSteps DEF ProgramInv, Shape, Program!NudgeDone, Program!Goto, Program!Quiet
<1>2. /\ stamps' \in LedgerType /\ stamps'.sp = stamps.sp
      /\ stamps'.mode = IF tick.ok THEN tick.mode ELSE stamps.mode
  BY <1>1 DEF Program!NudgeDone, Program!CommitMode, LedgerType, TickType
<1>3. Shape'
  BY <1>1, <1>2 DEF ProgramInv, Shape, Program!Awaits
<1>4. ModeInv' /\ SetpointInv' /\ HoldInv'
  BY <1>1, <1>2 DEF ProgramInv, ModeInv, ModeKnown, SetpointInv, SetpointKnown, HoldInv
<1>5. Program!TellsTheEnd
  BY <1>1 DEF Program!TellsTheEnd
<1> QED
  BY <1>3, <1>4, <1>5 DEF ProgramInv

LEMMA FanDoneKeeps ==
  ASSUME ProgramInv, Program!FanDone
  PROVE  ProgramInv' /\ Program!TellsTheEnd
<1>1. /\ pc = "fan" /\ pc' = "observe" /\ UNCHANGED <<tick, user, stamps, unit, hand, errors>>
      /\ ghost' \in GhostType /\ ghost'.event = FALSE
      /\ ghost'.moved = ghost.moved /\ ghost'.parted = ghost.parted
  BY GhostSteps DEF ProgramInv, Shape, Program!FanDone, Program!Goto, Program!Quiet
<1>2. Shape'
  BY <1>1 DEF ProgramInv, Shape, Program!Awaits
<1>3. ModeInv' /\ SetpointInv' /\ HoldInv'
  BY <1>1 DEF ProgramInv, ModeInv, ModeKnown, SetpointInv, SetpointKnown, HoldInv
<1>4. Program!TellsTheEnd
  BY <1>1 DEF Program!TellsTheEnd
<1> QED
  BY <1>2, <1>3, <1>4 DEF ProgramInv

\* What the setpoint stage leaves unwritten is at its setpoint, or parted from it.
LEMMA ObserveKeeps ==
  ASSUME Program!PlansAssumption, ProgramInv, NEW throttled \in BOOLEAN, Program!Observe(throttled)
  PROVE  ProgramInv' /\ Program!TellsTheEnd /\ Program!CarriesTheSetpoint
<1> DEFINE adopted == tick.hand.sp # None
           writes == Program!Writes(adopted, throttled)
<1>1. /\ pc = "observe" /\ UNCHANGED <<tick, stamps, unit, errors>>
      /\ pc' = IF writes THEN "dispatch_sp" ELSE "save"
      /\ user' = IF adopted THEN [user EXCEPT !.override = tick.hand.sp] ELSE user
      /\ hand' = IF hand.sp = tick.hand.sp THEN [hand EXCEPT !.sp = None] ELSE hand
      /\ ghost' = [ghost EXCEPT !.event = FALSE, !.parted = @ \/ adopted]
      /\ throttled => Program!MayBeThrottled
  BY DEF Program!Observe, Program!Goto
<1>2. /\ user \in UserType /\ tick \in TickType /\ hand \in HandType /\ ghost \in GhostType
      /\ tick.hand \in HandType /\ tick.sp \in Program!Setpoints
  BY <1>1 DEF ProgramInv, Shape, TickType
<1>3. /\ user' \in UserType /\ user'.mode = user.mode
      /\ adopted => Program!Holds(user')
      /\ ~adopted => user' = user
  BY <1>1, <1>2 DEF UserType, HandType, Program!Holds
<1>4. /\ ghost' \in GhostType /\ ghost'.event = FALSE /\ ghost'.moved = ghost.moved
      /\ (adopted \/ ghost.parted) <=> ghost'.parted
  BY <1>1, <1>2 DEF GhostType
<1>5. hand' \in HandType
  BY <1>1, <1>2 DEF HandType
<1>6. writes => ~adopted /\ user.mode # "off"
  BY DEF Program!Writes, Program!OffNow
<1>7. Program!CarriesTheSetpoint
  <2> SUFFICES ASSUME tick.nudged, user'.mode # "off", ~writes, ~adopted
               PROVE  unit.sp = tick.sp \/ ghost'.parted
    BY <1>1, <1>4 DEF Program!CarriesTheSetpoint
  <2>1. ~tick.blocked /\ user.mode # "off"
    BY <1>1, <1>3 DEF ProgramInv, HoldInv
  <2>2. throttled \/ tick.seen.sp = tick.sp
    BY <2>1 DEF Program!Writes, Program!OffNow
  <2>3. CASE throttled
    <3>1. tick.sp = stamps.sp
      BY <1>1, <2>3 DEF Program!MayBeThrottled
    <3>2. stamps.sp # None
      BY <1>2, <3>1, Distinct
    <3> QED
      BY <1>1, <1>4, <3>1, <3>2 DEF ProgramInv, SetpointInv, SetpointKnown
  <2>4. CASE tick.seen.sp = tick.sp
    BY <1>1, <1>4, <2>4 DEF ProgramInv, SetpointInv
  <2> QED
    BY <2>2, <2>3, <2>4
<1> HIDE DEF adopted, writes
<1>8. Shape'
  BY <1>1, <1>2, <1>3, <1>4, <1>5 DEF ProgramInv, Shape, Program!Awaits
<1>9. ModeInv' /\ SetpointInv' /\ HoldInv'
  BY <1>1, <1>3, <1>4, <1>6 DEF ProgramInv, ModeInv, ModeKnown, SetpointInv, SetpointKnown, HoldInv
<1>10. Program!TellsTheEnd
  BY <1>3, <1>4 DEF Program!TellsTheEnd
<1> QED
  BY <1>7, <1>8, <1>9, <1>10 DEF ProgramInv

LEMMA DispatchSetpointKeeps ==
  ASSUME Program!PlansAssumption, ProgramInv, NEW ok \in BOOLEAN, Program!DispatchSetpoint(ok)
  PROVE  ProgramInv' /\ Program!TellsTheEnd
<1>1. /\ pc = "dispatch_sp" /\ pc' = "setpoint" /\ UNCHANGED <<user, stamps, hand>>
      /\ tick \in TickType /\ unit \in DeviceType /\ ghost \in GhostType
      /\ tick.sp \in Program!Setpoints
      /\ errors' \in 0 .. Errors
  BY DEF ProgramInv, Shape, Program!DispatchSetpoint, Program!Goto, Program!PlansAssumption
<1>2. /\ tick' \in TickType /\ tick'.ok = ok /\ tick'.final = tick.final /\ tick'.sp = tick.sp
  BY <1>1 DEF Program!DispatchSetpoint, TickType
<1>3. /\ unit' \in DeviceType /\ unit'.mode = unit.mode /\ unit'.sp = IF ok THEN tick.sp ELSE unit.sp
  BY <1>1 DEF Program!DispatchSetpoint, DeviceType
<1>4. /\ ghost' \in GhostType /\ ghost'.event = FALSE /\ ghost'.moved = ghost.moved
      /\ ~ok => ghost'.parted
  BY <1>1 DEF Program!DispatchSetpoint, GhostType
<1>5. Shape'
  BY <1>1, <1>2, <1>3, <1>4 DEF ProgramInv, Shape, Program!Awaits
<1>6. ModeInv' /\ SetpointInv' /\ HoldInv'
  BY <1>1, <1>2, <1>3, <1>4
     DEF ProgramInv, ModeInv, ModeKnown, SetpointInv, SetpointKnown, HoldInv
<1>7. Program!TellsTheEnd
  BY <1>1, <1>4 DEF Program!TellsTheEnd
<1> QED
  BY <1>5, <1>6, <1>7 DEF ProgramInv

LEMMA SetpointDoneKeeps ==
  ASSUME ProgramInv, Program!SetpointDone
  PROVE  ProgramInv' /\ Program!TellsTheEnd
<1>1. /\ pc = "setpoint" /\ pc' = "save" /\ UNCHANGED <<tick, user, unit, hand, errors>>
      /\ tick \in TickType /\ stamps \in LedgerType
      /\ tick.final \in {"heat", "cool"} /\ tick.sp \in Program!Setpoints
      /\ ghost' \in GhostType /\ ghost'.event = FALSE
      /\ ghost'.moved = ghost.moved /\ ghost'.parted = ghost.parted
  BY GhostSteps DEF ProgramInv, Shape, Program!SetpointDone, Program!Goto, Program!Quiet
<1>2. /\ stamps' \in LedgerType /\ stamps'.mode = stamps.mode
      /\ stamps'.sp = IF tick.ok THEN tick.sp ELSE stamps.sp
  BY <1>1 DEF Program!SetpointDone, LedgerType
<1>3. Shape'
  BY <1>1, <1>2 DEF ProgramInv, Shape, Program!Awaits
<1>4. ModeInv' /\ SetpointInv' /\ HoldInv'
  BY <1>1, <1>2 DEF ProgramInv, ModeInv, ModeKnown, SetpointInv, SetpointKnown, HoldInv
<1>5. Program!TellsTheEnd
  BY <1>1 DEF Program!TellsTheEnd
<1> QED
  BY <1>3, <1>4, <1>5 DEF ProgramInv

LEMMA RescueKeeps ==
  ASSUME Program!PlansAssumption, ProgramInv, NEW modeOk \in BOOLEAN,
         NEW spOk \in BOOLEAN, Program!Rescue(modeOk, spOk)
  PROVE  ProgramInv' /\ Program!TellsTheEnd
<1>1. /\ pc = "protect" /\ pc' = "rescue" /\ UNCHANGED <<user, stamps, hand>>
      /\ tick \in TickType /\ unit \in DeviceType /\ ghost \in GhostType
      /\ errors' \in 0 .. Errors
  BY DEF ProgramInv, Shape, Program!Rescue, Program!Goto, Program!PlansAssumption
<1>2. /\ tick' \in TickType /\ tick'.ok = spOk /\ tick'.final = tick.final /\ tick'.sp = tick.sp
      /\ tick'.held = tick.held /\ tick'.mode = IF modeOk THEN "heat" ELSE None
  BY <1>1 DEF Program!Rescue, TickType, ModeOrNone, Program!Modes
<1>3. /\ unit' \in DeviceType /\ unit'.mode = IF modeOk THEN "heat" ELSE unit.mode
      /\ unit'.sp = IF spOk THEN Floor ELSE unit.sp
  BY <1>1 DEF Program!Rescue, DeviceType, Program!Modes
<1>4. /\ ghost' \in GhostType /\ ghost'.event = FALSE /\ ghost'.parted = ghost.parted
      /\ ~modeOk => ghost'.moved = ghost.moved
  BY <1>1 DEF Program!Rescue, GhostType
<1>5. None # "heat"
  BY DEF Program!PlansAssumption
<1>6. Shape'
  BY <1>1, <1>2, <1>3, <1>4 DEF ProgramInv, Shape, Program!Awaits
<1>7. ModeInv' /\ SetpointInv' /\ HoldInv'
  BY <1>1, <1>2, <1>3, <1>4, <1>5
     DEF ProgramInv, ModeInv, ModeKnown, SetpointInv, SetpointKnown, HoldInv
<1>8. Program!TellsTheEnd
  BY <1>1, <1>4 DEF Program!TellsTheEnd
<1> QED
  BY <1>6, <1>7, <1>8 DEF ProgramInv

\* The hold a rescue overrules is still there to end.
LEMMA RescueDoneKeeps ==
  ASSUME Program!PlansAssumption, ProgramInv, Program!RescueDone
  PROVE  ProgramInv' /\ Program!TellsTheEnd
<1>1. /\ pc = "rescue" /\ pc' = "save" /\ UNCHANGED <<tick, unit, hand, errors>>
      /\ tick \in TickType /\ stamps \in LedgerType /\ user \in UserType /\ ghost \in GhostType
      /\ user' = IF tick.held THEN Program!EndHold(user) ELSE user
      /\ tick.held \in BOOLEAN /\ Program!Fires(tick.held)
  BY DEF ProgramInv, Shape, Program!RescueDone, Program!Goto, TickType
<1>2. /\ stamps' \in LedgerType
      /\ stamps'.mode = IF tick.mode = "heat" THEN "heat" ELSE stamps.mode
      /\ stamps'.sp = IF tick.ok THEN None ELSE stamps.sp
  BY <1>1 DEF Program!RescueDone, LedgerType, ModeOrNone, Program!Modes
<1>3. /\ ghost' \in GhostType /\ ghost'.event = tick.held
      /\ ghost'.moved = ghost.moved /\ ghost'.parted = ghost.parted
  BY <1>1, GhostSteps
<1>4. user' \in UserType
  BY <1>1, EndsHold
<1>5. tick.held => Program!Holds(user)
  BY <1>1, Distinct DEF ProgramInv, HoldInv, Program!Holds, Program!Modes
<1>6. Shape'
  BY <1>1, <1>2, <1>3, <1>4 DEF ProgramInv, Shape, Program!Awaits
<1>7. ModeInv' /\ SetpointInv' /\ HoldInv'
  BY <1>1, <1>2, <1>3 DEF ProgramInv, ModeInv, ModeKnown, SetpointInv, SetpointKnown, HoldInv
<1>8. Program!TellsTheEnd
  BY <1>1, <1>3, <1>5, EndsHold DEF Program!TellsTheEnd
<1> QED
  BY <1>6, <1>7, <1>8 DEF ProgramInv

\* The tick ends, as it should or where a stage raises.
LEMMA EndKeeps ==
  ASSUME Program!PlansAssumption, ProgramInv, Program!NoRescue \/ Program!Done \/ Program!Abort
  PROVE  ProgramInv' /\ Program!TellsTheEnd
<1>1. /\ user' = user /\ stamps' = stamps /\ unit' = unit /\ hand' = hand
      /\ pc \notin {"nudge", "rescue", "setpoint"} /\ pc' \in {"save", "idle"}
      /\ pc' = "save" => tick' = tick /\ pc = "protect"
      /\ pc' = "idle" => tick' = Program!NoTick
      /\ errors' \in 0 .. Errors
  BY DEF ProgramInv, Shape, Program!NoRescue, Program!Done, Program!Abort, Program!Goto,
         Program!PlansAssumption
<1>2. /\ ghost' \in GhostType /\ ghost'.event = FALSE
      /\ ghost'.moved = ghost.moved /\ ghost'.parted = ghost.parted
  BY GhostSteps DEF ProgramInv, Shape, Program!NoRescue, Program!Done, Program!Abort, Program!Quiet
<1>3. Program!NoTick \in TickType
  BY DEF Program!NoTick, Program!Nothing, TickType, HandType, ModeOrNone
<1>4. Shape'
  BY <1>1, <1>2, <1>3 DEF ProgramInv, Shape, Program!Awaits
<1>5. ModeInv' /\ SetpointInv' /\ HoldInv'
  BY <1>1, <1>2 DEF ProgramInv, ModeInv, ModeKnown, SetpointInv, SetpointKnown, HoldInv
<1>6. Program!TellsTheEnd
  BY <1>1, <1>2 DEF Program!TellsTheEnd
<1> QED
  BY <1>4, <1>5, <1>6 DEF ProgramInv
-----------------------------------------------------------------------------
(* The user and the device, while the tick waits.                          *)

\* At the entity: a hold that is held off stays so, whatever setpoint is chosen.
LEMMA EntityKeeps ==
  ASSUME Program!PlansAssumption, ProgramInv,
         \/ \E v \in Choices : Program!SetOverride(v)
         \/ \E yes \in BOOLEAN : Program!ClearOverride(yes) \/ Program!SetEnabled(yes)
  PROVE  ProgramInv' /\ Program!TellsTheEnd
<1>1. user \in UserType /\ ghost \in GhostType
  BY DEF ProgramInv, Shape
<1>2. /\ Program!Waits /\ UNCHANGED <<pc, tick, stamps, unit, hand, errors>>
      /\ user' \in UserType /\ user'.mode = user.mode
  <2>1. CASE \E v \in Choices : Program!SetOverride(v)
    BY <1>1, <2>1 DEF Program!SetOverride, UserType
  <2>2. CASE \E yes \in BOOLEAN : Program!ClearOverride(yes)
    BY <1>1, <2>2 DEF Program!ClearOverride, UserType
  <2>3. CASE \E yes \in BOOLEAN : Program!SetEnabled(yes)
    BY <1>1, <2>3 DEF Program!SetEnabled, UserType
  <2> QED
    BY <2>1, <2>2, <2>3
<1>3. /\ ghost' \in GhostType /\ ghost'.moved = ghost.moved /\ ghost'.parted = ghost.parted
      /\ ghost'.event <=> (Program!Holds(user) /\ ~Program!Holds(user'))
  <2>1. CASE \E v \in Choices : Program!SetOverride(v)
    <3>1. PICK v \in Choices : Program!SetOverride(v)
      BY <2>1
    <3>2. Program!Holds(user') /\ Program!Fires(FALSE)
      BY <1>1, <3>1, Distinct DEF Program!SetOverride, UserType, Program!Holds, Program!Quiet
    <3> QED
      BY <1>1, <3>2, GhostSteps
  <2>2. CASE \E yes \in BOOLEAN : Program!ClearOverride(yes)
    <3>1. PICK yes \in BOOLEAN : Program!ClearOverride(yes)
      BY <2>2
    <3>2. user'.override = None /\ user'.mode = user.mode
      BY <1>1, <3>1 DEF Program!ClearOverride, UserType
    <3>3. Program!ClearsHold(user) <=> (Program!Holds(user) /\ ~Program!Holds(user'))
      BY <3>2 DEF Program!ClearsHold, Program!Holds
    <3>4. Program!ClearsHold(user) \in BOOLEAN /\ Program!Fires(Program!ClearsHold(user))
      BY <3>1 DEF Program!ClearOverride, Program!ClearsHold
    <3> QED
      BY <1>1, <3>3, <3>4, GhostSteps
  <2>3. CASE \E yes \in BOOLEAN : Program!SetEnabled(yes)
    <3>1. user'.override = user.override /\ user'.mode = user.mode /\ Program!Fires(FALSE)
      BY <1>1, <2>3 DEF Program!SetEnabled, UserType, Program!Quiet
    <3> QED
      BY <1>1, <3>1, GhostSteps DEF Program!Holds
  <2> QED
    BY <2>1, <2>2, <2>3
<1>4. Shape'
  BY <1>2, <1>3 DEF ProgramInv, Shape
<1>5. ModeInv' /\ SetpointInv' /\ HoldInv'
  BY <1>2, <1>3
     DEF ProgramInv, ModeInv, ModeKnown, SetpointInv, SetpointKnown, HoldInv, Program!Waits,
         Program!Awaits
<1> QED
  BY <1>3, <1>4, <1>5 DEF ProgramInv, Program!TellsTheEnd

\* At the device: whoever moves it is remembered.
LEMMA DeviceKeeps ==
  ASSUME Program!PlansAssumption, ProgramInv,
         (\E v \in Choices : Program!Turn(v)) \/ (\E m \in {"off", "heat"} : Program!Switch(m))
  PROVE  ProgramInv' /\ Program!TellsTheEnd
<1>1. /\ unit \in DeviceType /\ hand \in HandType /\ ghost \in GhostType
  BY DEF ProgramInv, Shape
<1>2. CASE \E v \in Choices : Program!Turn(v)
  <2>1. PICK v \in Choices : Program!Turn(v)
    BY <1>2
  <2>2. /\ UNCHANGED <<pc, tick, user, stamps, errors>> /\ Program!Waits
        /\ unit' \in DeviceType /\ unit'.mode = unit.mode /\ hand' \in HandType
        /\ ghost' \in GhostType /\ ghost'.event = FALSE /\ ghost'.moved = ghost.moved
        /\ ghost'.parted
    BY <1>1, <2>1, Distinct DEF Program!Turn, DeviceType, HandType, GhostType
  <2>3. Shape'
    BY <2>2 DEF ProgramInv, Shape
  <2>4. ModeInv' /\ SetpointInv' /\ HoldInv'
    BY <2>2 DEF ProgramInv, ModeInv, ModeKnown, SetpointInv, SetpointKnown, HoldInv
  <2>5. Program!TellsTheEnd
    BY <2>2 DEF Program!TellsTheEnd
  <2> QED
    BY <2>3, <2>4, <2>5 DEF ProgramInv
<1>3. CASE \E m \in {"off", "heat"} : Program!Switch(m)
  <2>1. PICK m \in {"off", "heat"} : Program!Switch(m)
    BY <1>3
  <2>2. /\ UNCHANGED <<pc, tick, user, stamps, errors>> /\ Program!Waits
        /\ unit' \in DeviceType /\ unit'.sp = unit.sp /\ hand' \in HandType
        /\ ghost' \in GhostType /\ ghost'.event = FALSE /\ ghost'.parted = ghost.parted
        /\ ghost'.moved
    BY <1>1, <2>1 DEF Program!Switch, DeviceType, HandType, GhostType, ModeOrNone, Program!Modes
  <2>3. Shape'
    BY <2>2 DEF ProgramInv, Shape
  <2>4. ModeInv' /\ SetpointInv' /\ HoldInv'
    BY <2>2 DEF ProgramInv, ModeInv, ModeKnown, SetpointInv, SetpointKnown, HoldInv
  <2>5. Program!TellsTheEnd
    BY <2>2 DEF Program!TellsTheEnd
  <2> QED
    BY <2>3, <2>4, <2>5 DEF ProgramInv
<1> QED
  BY <1>2, <1>3
-----------------------------------------------------------------------------
(* All together.                                                           *)

LEMMA ProgramStarts ==
  ASSUME Program!PlansAssumption, Program!Init
  PROVE  ProgramInv
<1>1. Program!NoTick \in TickType /\ Program!Nothing \in HandType
  BY DEF Program!NoTick, Program!Nothing, TickType, HandType, ModeOrNone
<1>2. Shape
  BY <1>1 DEF Program!Init, Shape, Program!Awaits, UserType, LedgerType, DeviceType, GhostType,
              ModeOrNone, Program!PlansAssumption
<1>3. ModeInv /\ SetpointInv /\ HoldInv
  BY DEF Program!Init, ModeInv, ModeKnown, SetpointInv, SetpointKnown, HoldInv
<1> QED
  BY <1>2, <1>3 DEF ProgramInv

LEMMA ProgramRests ==
  ASSUME ProgramInv, UNCHANGED Program!vars
  PROVE  ProgramInv'
<1>1. Shape'
  BY DEF ProgramInv, Shape, Program!vars
<1>2. ModeInv' /\ SetpointInv' /\ HoldInv'
  BY DEF Program!vars, ProgramInv, ModeInv, ModeKnown, SetpointInv, SetpointKnown, HoldInv
<1> QED
  BY <1>1, <1>2 DEF ProgramInv

LEMMA ProgramSteps ==
  ASSUME Program!PlansAssumption, ProgramInv, Program!Next
  PROVE  ProgramInv' /\ Program!TellsTheEnd
BY BeginKeeps, ResumeKeeps, AdoptModeKeeps, DispatchModeKeeps, NudgeDoneKeeps, FanDoneKeeps,
   ObserveKeeps, DispatchSetpointKeeps, SetpointDoneKeeps, RescueKeeps, RescueDoneKeeps, EndKeeps, EntityKeeps,
   DeviceKeeps DEF Program!Next

LEMMA ProgramSound ==
  ASSUME Program!PlansAssumption
  PROVE  Program!Spec => []ProgramInv
<1>1. Program!Init => ProgramInv
  BY ProgramStarts
<1>2. ProgramInv /\ [Program!Next]_(Program!vars) => ProgramInv'
  BY ProgramSteps, ProgramRests
<1> QED
  BY <1>1, <1>2, PTL DEF Program!Spec

LEMMA LedgerTells == ProgramInv => Program!TypeOK /\ Program!LedgerMatchesDevice
<1> SUFFICES ASSUME ProgramInv PROVE Program!TypeOK /\ Program!LedgerMatchesDevice
  OBVIOUS
<1>1. Program!TypeOK
  BY DEF ProgramInv, Shape, Program!TypeOK, UserType, LedgerType, DeviceType, HandType, TickType,
         ModeOrNone
<1>2. Program!LedgerMatchesDevice
  BY DEF ProgramInv, ModeInv, ModeKnown, Program!LedgerMatchesDevice
<1> QED
  BY <1>1, <1>2

LEMMA CarriesOnStep ==
  ASSUME Program!PlansAssumption, ProgramInv, [Program!Next]_(Program!vars)
  PROVE  Program!CarriesTheSetpoint
<1> SUFFICES ASSUME pc = "observe", pc' = "save" PROVE Program!CarriesTheSetpoint
  BY DEF Program!CarriesTheSetpoint
<1>1. PICK throttled \in BOOLEAN : Program!Observe(throttled)
  BY DEF Program!Next, Program!vars, Program!Begin, Program!Resume, Program!AdoptMode,
         Program!DispatchMode, Program!DispatchSetpoint, Program!NudgeDone, Program!FanDone,
         Program!SetpointDone, Program!Rescue, Program!RescueDone, Program!NoRescue, Program!Done, Program!Abort,
         Program!SetOverride, Program!Turn, Program!ClearOverride, Program!SetEnabled,
         Program!Switch, Program!Goto, Program!Waits, Program!Awaits
<1> QED
  BY <1>1, ObserveKeeps

LEMMA SparesOnStep ==
  ASSUME ProgramInv, [Program!Next]_(Program!vars)
  PROVE  Program!SparesOff
<1> SUFFICES ASSUME pc' = "setpoint", pc # "setpoint" PROVE user.mode # "off"
  BY DEF Program!SparesOff
<1>1. pc = "dispatch_sp"
  <2>1. ~(\E v \in Choices : Program!SetOverride(v) \/ Program!Turn(v))
        /\ ~(\E yes \in BOOLEAN : Program!ClearOverride(yes) \/ Program!SetEnabled(yes))
        /\ ~(\E m \in {"off", "heat"} : Program!Switch(m)) /\ ~UNCHANGED Program!vars
    BY DEF Program!vars, Program!SetOverride, Program!Turn, Program!ClearOverride,
           Program!SetEnabled, Program!Switch
  <2>2. CASE \E ok \in BOOLEAN : Program!DispatchMode(ok) \/ Program!DispatchSetpoint(ok)
    BY <2>2 DEF Program!DispatchMode, Program!DispatchSetpoint, Program!Goto
  <2>3. CASE \/ Program!Begin \/ Program!NudgeDone \/ Program!FanDone \/ Program!SetpointDone
             \/ Program!RescueDone \/ Program!NoRescue \/ Program!Done \/ Program!Abort
    BY <2>3 DEF Program!Begin, Program!NudgeDone, Program!FanDone, Program!SetpointDone,
                Program!RescueDone, Program!NoRescue, Program!Done, Program!Abort, Program!Goto
  <2>4. CASE \/ \E plan \in Plans, over, own \in BOOLEAN, dir \in {"heat", "cool"} :
                  Program!Resume(plan, over, own, dir)
             \/ \E safe, guarded, throttled \in BOOLEAN :
                  Program!AdoptMode(safe, guarded, throttled)
             \/ \E throttled \in BOOLEAN : Program!Observe(throttled)
             \/ \E modeOk, spOk \in BOOLEAN : Program!Rescue(modeOk, spOk)
    BY <2>4 DEF Program!Resume, Program!AdoptMode, Program!Observe, Program!Rescue, Program!Goto
  <2> QED
    BY <2>1, <2>2, <2>3, <2>4 DEF Program!Next
<1> QED
  BY <1>1 DEF ProgramInv, HoldInv

(***************************************************************************)
(* The mode Poise believes it commanded is the device's mode unless        *)
(* somebody moved the device since, whatever raised in between             *)
(* (run_mode_nudge, commit_execution).                                     *)
(***************************************************************************)
THEOREM LedgerIsTrue ==
  ASSUME Program!PlansAssumption
  PROVE  Program!Spec => [](Program!TypeOK /\ Program!LedgerMatchesDevice)
BY ProgramSound, LedgerTells, PTL

(***************************************************************************)
(* A tick that has switched the device over and sends nothing more leaves  *)
(* it at the setpoint of that mode, unless a dispatch failed or somebody   *)
(* has set the device since (plan_setpoint_write, the throttles).          *)
(***************************************************************************)
THEOREM ModeAlwaysCarriesItsSetpoint ==
  ASSUME Program!PlansAssumption
  PROVE  Program!Spec => Program!ModeCarriesItsSetpoint
BY ProgramSound, CarriesOnStep, PTL DEF Program!Spec, Program!ModeCarriesItsSetpoint

(***************************************************************************)
(* The tick that learns the device was switched off sends no setpoint      *)
(* after it (plan_setpoint_write, held off).                               *)
(***************************************************************************)
THEOREM OffIsAlwaysSpared ==
  ASSUME Program!PlansAssumption
  PROVE  Program!Spec => Program!NoSetpointIntoOff
BY ProgramSound, SparesOnStep, PTL DEF Program!Spec, Program!NoSetpointIntoOff

(***************************************************************************)
(* Every hold that ends is told exactly once, and no end is told of one    *)
(* that goes on, whoever ends it: time, the device, a rescue or the user   *)
(* (end_hold, poise_override_ended).                                       *)
(***************************************************************************)
THEOREM EveryEndIsTold ==
  ASSUME Program!PlansAssumption
  PROVE  Program!Spec => Program!EventsMatchHolds
<1>1. ASSUME ProgramInv, [Program!Next]_(Program!vars) PROVE [Program!TellsTheEnd]_(Program!vars)
  BY <1>1, ProgramSteps
<1> QED
  BY <1>1, ProgramSound, PTL DEF Program!Spec, Program!EventsMatchHolds
-----------------------------------------------------------------------------
(* The parts of MCDevice that move are the components.                     *)

LEMMA ProgramPart ==
  PartsSpec => [](part = "program" => ProgramInv)
<1>1. PartsInit => (part = "program" => ProgramInv)
  BY ProgramStarts, PartsAssumption DEF PartsInit
<1>2. (part = "program" => ProgramInv) /\ [PartsNext]_<<part, vars, fan, program, alarm>>
        => (part = "program" => ProgramInv)'
  <2> SUFFICES ASSUME part' = "program", part = "program" => ProgramInv,
                      [PartsNext]_<<part, vars, fan, program, alarm>>
               PROVE  ProgramInv'
    OBVIOUS
  <2>1. part = "program" /\ ProgramInv /\ (Program!Next \/ UNCHANGED program)
    BY DEF PartsNext
  <2>2. Program!Next \/ UNCHANGED Program!vars
    BY <2>1 DEF program, Program!vars
  <2> QED
    BY <2>1, <2>2, ProgramSteps, ProgramRests, PartsAssumption
<1> QED
  BY <1>1, <1>2, PTL DEF PartsSpec

(***************************************************************************)
(* What Poise believes of the device is so, and what it tells of a hold is *)
(* so, although users, device and errors come between the awaits of a      *)
(* tick: the conjunction of the four theorems above, of the program beside *)
(* the other parts (tick_orchestrator.py, phase_actuate.py).               *)
(***************************************************************************)
THEOREM BooksAreKept == PartsSpec => TickKeepsItsBooks
<1>1. ProgramInv => Program!TypeOK /\ Program!LedgerMatchesDevice
  BY LedgerTells
<1>2. (part = "program" => ProgramInv) /\ [PartsNext]_<<part, vars, fan, program, alarm>>
        => [part = "program" => Program!CarriesTheSetpoint /\ Program!SparesOff
                                /\ Program!TellsTheEnd]_program
  <2> SUFFICES ASSUME part = "program", ProgramInv,
                      [PartsNext]_<<part, vars, fan, program, alarm>>, program' # program
               PROVE  Program!CarriesTheSetpoint /\ Program!SparesOff /\ Program!TellsTheEnd
    OBVIOUS
  <2>1. Program!Next
    BY DEF PartsNext
  <2> QED
    BY <2>1, CarriesOnStep, SparesOnStep, ProgramSteps, PartsAssumption
<1> QED
  BY <1>1, <1>2, ProgramPart, PTL DEF PartsSpec, TickKeepsItsBooks

LEMMA AlarmPart ==
  PartsSpec => [](part = "alarm" => AlarmInv)
<1>1. PartsInit => (part = "alarm" => AlarmInv)
  BY AlarmStarts, PartsAssumption DEF PartsInit
<1>2. (part = "alarm" => AlarmInv) /\ [PartsNext]_<<part, vars, fan, program, alarm>>
        => (part = "alarm" => AlarmInv)'
  <2> SUFFICES ASSUME part' = "alarm", part = "alarm" => AlarmInv,
                      [PartsNext]_<<part, vars, fan, program, alarm>>
               PROVE  AlarmInv'
    OBVIOUS
  <2>1. part = "alarm" /\ AlarmInv /\ (Alarm!Next \/ UNCHANGED alarm)
    BY DEF PartsNext
  <2>2. Alarm!Next \/ UNCHANGED Alarm!vars
    BY <2>1 DEF alarm, Alarm!vars, Alarm!world
  <2> QED
    BY <2>1, <2>2, AlarmSteps, PartsAssumption
<1> QED
  BY <1>1, <1>2, PTL DEF PartsSpec

(***************************************************************************)
(* A stall is told, the alarm survives a flicker, and the issue is the     *)
(* verdict, across blind ticks and restarts, of the alarm beside the other *)
(* parts (heating_failure.py, ha/health_reporter.py).                      *)
(***************************************************************************)
THEOREM AlarmTellsTheTruth == PartsSpec => AlarmIsHonest
<1>1. AlarmInv => Alarm!TypeOK /\ Alarm!StallIsTold
  BY AlarmTells, PartsAssumption
<1>2. (part = "alarm" => AlarmInv) /\ [PartsNext]_<<part, vars, fan, program, alarm>>
        => [part = "alarm" => Alarm!Latches /\ Alarm!TellsTheVerdict]_alarm
  <2> SUFFICES ASSUME part = "alarm", AlarmInv,
                      [PartsNext]_<<part, vars, fan, program, alarm>>, alarm' # alarm
               PROVE  Alarm!Latches /\ Alarm!TellsTheVerdict
    OBVIOUS
  <2>1. Alarm!Next /\ Alarm!vars' # Alarm!vars
    BY DEF PartsNext, alarm, Alarm!vars, Alarm!world
  <2> QED
    BY <2>1, AlarmSteps, PartsAssumption
<1> QED
  BY <1>1, <1>2, AlarmPart, PTL DEF PartsSpec, AlarmIsHonest
-----------------------------------------------------------------------------
-----------------------------------------------------------------------------
(* The fan stage, without the idle circulation (which moves the fan on     *)
(* purpose): what is under way to the fan tells what it comes to once all  *)
(* of it has landed, and who answered the stage is left alone.             *)

FanLevels == FanModes \cup {Fan!NoFan}
FanCommands == [mode : {"cool", "fan_only", Fan!NoFan}, fan : FanLevels]
StageType ==
  [phase : {"idle", "await_fan_only", "await_stage", "dwell", "yielded"},
   engaged : 0 .. Budget + 1, at : 0 .. EchoTimeout + DwellMin, stage : {Fan!NoFan, Stage},
   entry : FanLevels, blocked : 0 .. ReentryBlock]

\* An engaged sequence knows where it came from and which stage it chose.
StageOK(f) ==
  /\ f \in StageType
  /\ Fan!Engaged(f) => f.entry \in FanModes
  /\ f.phase \in {"await_stage", "dwell"} => f.stage = Stage
  /\ f.phase = "await_fan_only" => f.stage = Fan!NoFan

FanTypes ==
  /\ StageOK(stage)
  /\ fanMem \in [fan : FanLevels, age : 0 .. EchoWindow, prev : FanLevels]
  /\ fanDev \in [mode : {"cool", "fan_only"}, fan : FanModes, cooling : BOOLEAN, own : BOOLEAN]
  /\ fanSent \in Seq(FanCommands) /\ Len(fanSent) <= Depth
  /\ demand \in [cool : BOOLEAN, normal : BOOLEAN, on : BOOLEAN, option : BOOLEAN]
  /\ pick \in [stage : FanModes, standing : BOOLEAN, clean : BOOLEAN]

\* The stages under way.
FansOf(q) == {q[i].fan : i \in 1 .. Len(q)}

\* While nothing disturbs it a sequence moves the fan between the stage it found
\* and its own, which it remembers to have commanded; afterwards the fan is back,
\* or the command that brings it back is under way.
Underway(f, known, now, under, found) ==
  IF Fan!Engaged(f)
  THEN /\ found = f.entry /\ now \in {f.entry, f.stage} /\ under \subseteq {Fan!NoFan, f.stage}
       /\ now # f.entry \/ Stage \in under => known = f.stage
  ELSE under \subseteq {Fan!NoFan, found} /\ (now = found \/ found \in under)
Undisturbed ==
  pick.clean => Underway(stage, fanMem.fan, fanDev.fan, FansOf(fanSent), pick.stage)

\* The user has answered the stage with another, and nothing is under way to the fan.
Answered ==
  pick.standing /\ Fan!Engaged(stage) =>
    stage.stage = Stage /\ fanDev.fan # Stage /\ FansOf(fanSent) \subseteq {Fan!NoFan}

FanInv == FanTypes /\ Undisturbed /\ Answered

LEMMA FanConstants ==
  /\ EchoTimeout \in Nat \ {0} /\ DwellMin \in Nat \ {0} /\ Budget \in Nat \ {0}
  /\ ReentryBlock \in Nat \ {0} /\ EchoWindow \in Nat \ {0} /\ Depth \in Nat \ {0}
  /\ Stage \in FanModes /\ Fan!NoFan \notin FanModes /\ Circulates \in BOOLEAN
BY PartsAssumption DEF Fan!FanAssumption

\* What is under way after a command was sent, and after one has landed.
LEMMA FansAppended ==
  ASSUME NEW p \in Seq(FanCommands), NEW q \in Seq(FanCommands)
  PROVE  p \o q \in Seq(FanCommands) /\ FansOf(p \o q) = FansOf(p) \cup FansOf(q)
<1>1. /\ p \o q \in Seq(FanCommands) /\ Len(p \o q) = Len(p) + Len(q)
      /\ Len(p) \in Nat /\ Len(q) \in Nat
  OBVIOUS
<1>2. \A i \in 1 .. Len(p) : (p \o q)[i] = p[i]
  OBVIOUS
<1>3. \A i \in 1 .. Len(q) : (p \o q)[Len(p) + i] = q[i]
  OBVIOUS
<1>4. FansOf(p \o q) \subseteq FansOf(p) \cup FansOf(q)
  <2> SUFFICES ASSUME NEW i \in 1 .. Len(p) + Len(q)
               PROVE  (p \o q)[i].fan \in FansOf(p) \cup FansOf(q)
    BY <1>1 DEF FansOf
  <2>1. CASE i <= Len(p)
    <3>1. i \in 1 .. Len(p) /\ (p \o q)[i] = p[i]
      BY <1>1, <1>2, <2>1
    <3> QED
      BY <3>1 DEF FansOf
  <2>2. CASE i > Len(p)
    <3>1. i - Len(p) \in 1 .. Len(q) /\ i = Len(p) + (i - Len(p))
      BY <1>1, <2>2
    <3>2. (p \o q)[i] = q[i - Len(p)]
      BY <1>3, <3>1
    <3> QED
      BY <3>1, <3>2 DEF FansOf
  <2> QED
    BY <1>1, <2>1, <2>2
<1>5. FansOf(p) \subseteq FansOf(p \o q)
  <2> SUFFICES ASSUME NEW i \in 1 .. Len(p) PROVE p[i].fan \in FansOf(p \o q)
    BY DEF FansOf
  <2>1. i \in 1 .. Len(p \o q) /\ (p \o q)[i] = p[i]
    BY <1>1, <1>2
  <2> QED
    BY <2>1 DEF FansOf
<1>6. FansOf(q) \subseteq FansOf(p \o q)
  <2> SUFFICES ASSUME NEW i \in 1 .. Len(q) PROVE q[i].fan \in FansOf(p \o q)
    BY DEF FansOf
  <2>1. Len(p) + i \in 1 .. Len(p \o q) /\ (p \o q)[Len(p) + i] = q[i]
    BY <1>1, <1>3
  <2> QED
    BY <2>1 DEF FansOf
<1> QED
  BY <1>1, <1>4, <1>5, <1>6

LEMMA FansLanded ==
  ASSUME NEW q \in Seq(FanCommands), q # <<>>
  PROVE  /\ Tail(q) \in Seq(FanCommands) /\ Head(q) \in FanCommands /\ Len(Tail(q)) <= Len(q)
         /\ FansOf(q) = {Head(q).fan} \cup FansOf(Tail(q))
<1>1. /\ Len(q) \in Nat \ {0} /\ Tail(q) \in Seq(FanCommands) /\ Len(Tail(q)) = Len(q) - 1
      /\ Head(q) = q[1] /\ q[1] \in FanCommands
  OBVIOUS
<1>2. \A i \in 1 .. Len(q) - 1 : Tail(q)[i] = q[i + 1]
  OBVIOUS
<1>3. FansOf(q) \subseteq {Head(q).fan} \cup FansOf(Tail(q))
  <2> SUFFICES ASSUME NEW i \in 1 .. Len(q)
               PROVE  q[i].fan \in {Head(q).fan} \cup FansOf(Tail(q))
    BY DEF FansOf
  <2>1. CASE i = 1
    BY <1>1, <2>1
  <2>2. CASE i # 1
    <3>1. i - 1 \in 1 .. Len(q) - 1 /\ (i - 1) + 1 = i
      BY <1>1, <2>2
    <3>2. Tail(q)[i - 1] = q[i]
      BY <1>2, <3>1
    <3> QED
      BY <1>1, <3>1, <3>2 DEF FansOf
  <2> QED
    BY <2>1, <2>2
<1>4. Head(q).fan \in FansOf(q)
  BY <1>1 DEF FansOf
<1>5. FansOf(Tail(q)) \subseteq FansOf(q)
  <2> SUFFICES ASSUME NEW i \in 1 .. Len(q) - 1 PROVE Tail(q)[i].fan \in FansOf(q)
    BY <1>1 DEF FansOf
  <2>1. Tail(q)[i] = q[i + 1] /\ i + 1 \in 1 .. Len(q)
    BY <1>1, <1>2
  <2> QED
    BY <2>1 DEF FansOf
<1> QED
  BY <1>1, <1>3, <1>4, <1>5

LEMMA Zeros ==
  0 \in 0 .. Budget + 1 /\ 0 \in 0 .. EchoTimeout + DwellMin /\ 0 \in 0 .. ReentryBlock
BY FanConstants

\* What a sequence keeps when it moves on to another phase.
Phases == {"idle", "await_fan_only", "await_stage", "dwell", "yielded"}
LEMMA PhaseChanges ==
  ASSUME NEW f \in StageType, NEW p \in Phases
  PROVE  /\ LET g == [f EXCEPT !.phase = p, !.engaged = 0, !.at = 0]
            IN  g \in StageType /\ g.phase = p /\ g.stage = f.stage /\ g.entry = f.entry
         /\ LET g == [f EXCEPT !.phase = p, !.stage = Stage, !.at = 0]
            IN  g \in StageType /\ g.phase = p /\ g.stage = Stage /\ g.entry = f.entry
         /\ LET g == [f EXCEPT !.phase = p, !.at = 0]
            IN  g \in StageType /\ g.phase = p /\ g.stage = f.stage /\ g.entry = f.entry
BY Zeros DEF StageType, Phases

\* What a decision makes of a sequence f: it restores what it must when it lets go
\* of the fan, and commands a stage only where it chose one.
Follows(f, d) ==
  /\ StageOK(d.ff) /\ d.restore \in FanLevels
  /\ Fan!Engaged(d.ff) => d.restore = Fan!NoFan
  /\ ~Fan!Engaged(f) => d.restore = Fan!NoFan /\ d.command # "stage"
  /\ ~Fan!Engaged(f) /\ Fan!Engaged(d.ff) => d.ff.entry = fanDev.fan /\ d.ff.stage = Fan!NoFan
  /\ Fan!Engaged(f) /\ ~Fan!Engaged(d.ff) =>
       /\ d.command # "stage"
       /\ \/ d.restore = Fan!RestoreTarget(f)
          \/ d.restore = Fan!NoFan /\ fanDev.fan # fanMem.fan
  /\ Fan!Engaged(f) /\ Fan!Engaged(d.ff) =>
       /\ d.ff.entry = f.entry
       /\ \/ d.ff.stage = f.stage /\ d.command # "stage"
          \/ /\ f.stage = Fan!NoFan /\ d.ff.stage = Stage
             /\ d.command = "stage" \/ fanDev.fan = Stage

LEMMA RestoresLevel ==
  ASSUME FanTypes, NEW f, StageOK(f)
  PROVE  Fan!RestoreTarget(f) \in FanLevels
BY DEF FanTypes, StageOK, StageType, Fan!RestoreTarget, FanLevels

LEMMA Steps ==
  ASSUME NEW f, NEW c, NEW r
  PROVE  /\ Fan!Decision(f, c, r).ff = f /\ Fan!Decision(f, c, r).command = c
         /\ Fan!Decision(f, c, r).restore = r
BY DEF Fan!Decision

\* A sequence goes on as it is.
LEMMA StaysFollows ==
  ASSUME FanTypes, NEW f, StageOK(f)
  PROVE  Follows(f, Fan!Decision(f, "none", Fan!NoFan))
BY Steps DEF Follows, FanLevels

LEMMA YieldedFollows ==
  ASSUME FanTypes, NEW f, StageOK(f), Fan!Engaged(f)
  PROVE  Follows(f, Fan!Yielded(f, Fan!RestoreTarget(f)))
<1> DEFINE g == [f EXCEPT !.phase = "yielded", !.engaged = 0, !.at = 0]
<1>1. g \in StageType /\ g.phase = "yielded"
  <2>1. f \in StageType /\ "yielded" \in Phases
    BY DEF StageOK, Phases
  <2> QED
    BY <2>1, PhaseChanges
<1>2. Fan!Yielded(f, Fan!RestoreTarget(f)) = Fan!Decision(g, "cool", Fan!RestoreTarget(f))
  BY DEF Fan!Yielded
<1> HIDE DEF g
<1>3. ~Fan!Engaged(g) /\ StageOK(g)
  BY <1>1 DEF Fan!Engaged, StageOK
<1> QED
  BY <1>2, <1>3, Steps, RestoresLevel DEF Follows

LEMMA ReleasedFollows ==
  ASSUME FanTypes, NEW f, StageOK(f), NEW r \in FanLevels,
         Fan!Engaged(f) => r = Fan!RestoreTarget(f) \/ (r = Fan!NoFan /\ fanDev.fan # fanMem.fan),
         ~Fan!Engaged(f) => r = Fan!NoFan
  PROVE  Follows(f, Fan!Released(r))
<1>1. Fan!Blocked \in StageType /\ Fan!Blocked.phase = "idle"
  BY FanConstants DEF Fan!Blocked, Fan!Idle, StageType, FanLevels
<1>2. ~Fan!Engaged(Fan!Blocked) /\ StageOK(Fan!Blocked)
  BY <1>1 DEF Fan!Engaged, StageOK
<1> HIDE DEF Fan!Blocked
<1> QED
  BY <1>2, Steps DEF Follows, Fan!Released

LEMMA InterruptedFollows ==
  ASSUME FanTypes, NEW f, StageOK(f), Fan!Engaged(f), NEW in
  PROVE  Follows(f, Fan!Interrupted(f, in))
<1>1. CASE Fan!Foreign(in.age)
  <2>1. Fan!Interrupted(f, in) = Fan!Released(Fan!NoFan) /\ fanDev.fan # fanMem.fan
    BY <1>1 DEF Fan!Interrupted, Fan!Foreign
  <2> QED
    BY <2>1, ReleasedFollows DEF FanLevels
<1>2. CASE ~Fan!Foreign(in.age) /\ ~demand.cool
  <2>1. Fan!Interrupted(f, in) = Fan!Released(Fan!RestoreTarget(f))
    BY <1>2 DEF Fan!Interrupted
  <2> QED
    BY <2>1, ReleasedFollows, RestoresLevel
<1>3. CASE ~Fan!Foreign(in.age) /\ demand.cool
  <2>1. Fan!Interrupted(f, in) = Fan!Yielded(f, Fan!RestoreTarget(f))
    BY <1>3 DEF Fan!Interrupted
  <2> QED
    BY <2>1, YieldedFollows
<1> QED
  BY <1>1, <1>2, <1>3

LEMMA EngagesFollows ==
  ASSUME FanTypes, NEW f, StageOK(f), ~Fan!Engaged(f), NEW in
  PROVE  Follows(f, Fan!Engages(f, in))
<1>1. CASE Fan!EntryOk(f, in)
  <2> DEFINE g == [Fan!Idle EXCEPT !.phase = "await_fan_only", !.entry = fanDev.fan]
  <2>1. Fan!Idle \in StageType /\ Fan!Idle.stage = Fan!NoFan
    BY Zeros DEF Fan!Idle, StageType, FanLevels
  <2>2. fanDev.fan \in FanModes
    BY DEF FanTypes
  <2> HIDE DEF Fan!Idle
  <2>3. g \in StageType /\ g.phase = "await_fan_only" /\ g.stage = Fan!NoFan
        /\ g.entry = fanDev.fan
    BY <2>1, <2>2 DEF StageType, FanLevels
  <2>4. Fan!Engages(f, in) = Fan!Decision(g, "fan_only", Fan!NoFan)
    BY <1>1 DEF Fan!Engages
  <2> HIDE DEF g
  <2>5. StageOK(g) /\ Fan!Engaged(g)
    BY <2>2, <2>3 DEF StageOK, Fan!Engaged
  <2> QED
    BY <2>3, <2>4, <2>5, Steps DEF Follows, FanLevels
<1>2. CASE ~Fan!EntryOk(f, in)
  BY <1>2, StaysFollows DEF Fan!Engages
<1> QED
  BY <1>1, <1>2

\* A step of a sequence that keeps its entry.
LEMMA MovesOn ==
  ASSUME FanTypes, NEW f, StageOK(f), NEW p \in {"await_stage", "dwell"}, NEW c,
         f.phase = "await_fan_only",
         c = "stage" \/ (c # "stage" /\ fanDev.fan = Stage)
  PROVE  Follows(f, Fan!Decision([f EXCEPT !.phase = p, !.stage = Stage, !.at = 0], c, Fan!NoFan))
<1> DEFINE g == [f EXCEPT !.phase = p, !.stage = Stage, !.at = 0]
<1>1. g \in StageType /\ g.phase = p /\ g.stage = Stage /\ g.entry = f.entry
  <2>1. f \in StageType /\ p \in Phases
    BY DEF StageOK, Phases
  <2> QED
    BY <2>1, PhaseChanges
<1> HIDE DEF g
<1>2. Fan!Engaged(g) /\ Fan!Engaged(f) /\ f.stage = Fan!NoFan
  BY <1>1 DEF Fan!Engaged, StageOK
<1>3. StageOK(g)
  BY <1>1, <1>2 DEF StageOK
<1>4. Follows(f, Fan!Decision(g, c, Fan!NoFan))
  BY <1>1, <1>2, <1>3, Steps DEF Follows, FanLevels
<1> QED
  BY <1>4 DEF g

LEMMA AwaitsFollows ==
  ASSUME FanTypes, NEW f, StageOK(f), NEW in
  PROVE  /\ f.phase = "await_fan_only" => Follows(f, Fan!AwaitsFanOnly(f, in))
         /\ f.phase = "await_stage" => Follows(f, Fan!AwaitsStage(f))
         /\ f.phase = "dwell" => Follows(f, Fan!Dwells(f, in))
<1>1. Fan!Engaged(f) => Follows(f, Fan!Late(f)) /\ Follows(f, Fan!Dwells(f, in))
  BY YieldedFollows, StaysFollows DEF Fan!Late, Fan!Dwells
<1>2. ASSUME f.phase = "await_fan_only" PROVE Follows(f, Fan!AwaitsFanOnly(f, in))
  <2>1. Fan!Engaged(f)
    BY <1>2 DEF Fan!Engaged
  <2>2. CASE fanDev.mode # "fan_only"
    BY <1>1, <2>1, <2>2 DEF Fan!AwaitsFanOnly
  <2>3. CASE fanDev.mode = "fan_only" /\ in.room = "chilly"
    BY <2>1, <2>3, YieldedFollows DEF Fan!AwaitsFanOnly
  <2>4. CASE fanDev.mode = "fan_only" /\ in.room # "chilly" /\ fanDev.fan = Stage
    <3>1. Fan!AwaitsFanOnly(f, in) =
            Fan!Decision([f EXCEPT !.phase = "dwell", !.stage = Stage, !.at = 0], "none", Fan!NoFan)
      BY <2>4 DEF Fan!AwaitsFanOnly
    <3> QED
      BY <1>2, <2>4, <3>1, MovesOn
  <2>5. CASE fanDev.mode = "fan_only" /\ in.room # "chilly" /\ fanDev.fan # Stage
    <3>1. Fan!AwaitsFanOnly(f, in) =
            Fan!Decision([f EXCEPT !.phase = "await_stage", !.stage = Stage, !.at = 0], "stage",
                         Fan!NoFan)
      BY <2>5 DEF Fan!AwaitsFanOnly
    <3> QED
      BY <1>2, <3>1, MovesOn
  <2> QED
    BY <2>2, <2>3, <2>4, <2>5
<1>3. ASSUME f.phase = "await_stage" PROVE Follows(f, Fan!AwaitsStage(f))
  <2>1. Fan!Engaged(f)
    BY <1>3 DEF Fan!Engaged
  <2>2. CASE fanDev.fan # f.stage
    BY <1>1, <2>1, <2>2 DEF Fan!AwaitsStage
  <2>3. CASE fanDev.fan = f.stage
    <3> DEFINE g == [f EXCEPT !.phase = "dwell", !.at = 0]
    <3>1. g \in StageType /\ g.phase = "dwell" /\ g.stage = f.stage /\ g.entry = f.entry
      BY PhaseChanges DEF StageOK, Phases
    <3>2. Fan!AwaitsStage(f) = Fan!Decision(g, "none", Fan!NoFan)
      BY <2>3 DEF Fan!AwaitsStage
    <3> HIDE DEF g
    <3>3. Fan!Engaged(g) /\ StageOK(g)
      BY <1>3, <2>1, <3>1 DEF Fan!Engaged, StageOK
    <3> QED
      BY <2>1, <3>1, <3>2, <3>3, Steps DEF Follows, FanLevels
  <2> QED
    BY <2>2, <2>3
<1>4. f.phase = "dwell" => Fan!Engaged(f)
  BY DEF Fan!Engaged
<1> QED
  BY <1>1, <1>2, <1>3, <1>4

LEMMA DecisionFollows ==
  ASSUME FanTypes, NEW f, StageOK(f), NEW in
  PROVE  Follows(f, Fan!fan_first_decision(f, in))
<1>1. CASE Fan!Engaged(f) /\ Fan!Interrupts(f, in)
  BY <1>1, InterruptedFollows DEF Fan!fan_first_decision
<1>2. CASE ~(Fan!Engaged(f) /\ Fan!Interrupts(f, in))
  <2>1. f.phase \in {"idle", "await_fan_only", "await_stage", "dwell", "yielded"}
    BY DEF StageOK, StageType
  <2>2. CASE f.phase = "idle"
    <3>1. Fan!fan_first_decision(f, in) = Fan!Engages(f, in) /\ ~Fan!Engaged(f)
      BY <1>2, <2>2 DEF Fan!fan_first_decision, Fan!Engaged
    <3> QED
      BY <3>1, EngagesFollows
  <2>3. CASE f.phase = "await_fan_only"
    <3>1. Fan!fan_first_decision(f, in) = Fan!AwaitsFanOnly(f, in)
      BY <1>2, <2>3 DEF Fan!fan_first_decision
    <3> QED
      BY <2>3, <3>1, AwaitsFollows
  <2>4. CASE f.phase = "await_stage"
    <3>1. Fan!fan_first_decision(f, in) = Fan!AwaitsStage(f)
      BY <1>2, <2>4 DEF Fan!fan_first_decision
    <3> QED
      BY <2>4, <3>1, AwaitsFollows
  <2>5. CASE f.phase = "dwell"
    <3>1. Fan!fan_first_decision(f, in) = Fan!Dwells(f, in)
      BY <1>2, <2>5 DEF Fan!fan_first_decision
    <3> QED
      BY <2>5, <3>1, AwaitsFollows
  <2>6. CASE f.phase = "yielded"
    <3>1. /\ Fan!fan_first_decision(f, in) =
               Fan!Decision(IF demand.cool THEN f ELSE Fan!Blocked, "none", Fan!NoFan)
          /\ ~Fan!Engaged(f)
      BY <1>2, <2>6 DEF Fan!fan_first_decision, Fan!Engaged
    <3>2. Fan!Blocked \in StageType /\ Fan!Blocked.phase = "idle"
      BY FanConstants DEF Fan!Blocked, Fan!Idle, StageType, FanLevels
    <3>3. ~Fan!Engaged(Fan!Blocked) /\ StageOK(Fan!Blocked)
      BY <3>2 DEF Fan!Engaged, StageOK
    <3> HIDE DEF Fan!Blocked
    <3>4. CASE demand.cool
      BY <3>1, <3>4, StaysFollows
    <3>5. CASE ~demand.cool
      BY <3>1, <3>3, <3>5, Steps DEF Follows, FanLevels
    <3> QED
      BY <3>4, <3>5
  <2> QED
    BY <2>1, <2>2, <2>3, <2>4, <2>5, <2>6
<1> QED
  BY <1>1, <1>2

LEMMA OlderFacts ==
  ASSUME NEW f, StageOK(f)
  PROVE  LET g == Fan!Older(f)
         IN  /\ StageOK(g) /\ g.phase = f.phase /\ g.stage = f.stage /\ g.entry = f.entry
             /\ Fan!Engaged(g) = Fan!Engaged(f)
<1> DEFINE n == IF Fan!Engaged(f) THEN Fan!Lower(f.engaged + 1, Budget + 1) ELSE 0
           a == IF Fan!Engaged(f) THEN Fan!Lower(f.at + 1, EchoTimeout + DwellMin) ELSE 0
           b == IF f.blocked > 0 THEN f.blocked - 1 ELSE 0
           g == Fan!Older(f)
<1>1. f \in StageType /\ f.engaged \in 0 .. Budget + 1 /\ f.at \in 0 .. EchoTimeout + DwellMin
      /\ f.blocked \in 0 .. ReentryBlock
  BY DEF StageOK, StageType
<1>2. n \in 0 .. Budget + 1
  BY <1>1, FanConstants DEF Fan!Lower
<1>3. a \in 0 .. EchoTimeout + DwellMin
  BY <1>1, FanConstants DEF Fan!Lower
<1>4. b \in 0 .. ReentryBlock
  BY <1>1, FanConstants
<1>5. g = [f EXCEPT !.engaged = n, !.at = a, !.blocked = b]
  BY DEF Fan!Older
<1> HIDE DEF n, a, b, g
<1>6. g \in StageType /\ g.phase = f.phase /\ g.stage = f.stage /\ g.entry = f.entry
  BY <1>1, <1>2, <1>3, <1>4, <1>5 DEF StageType
<1>7. Fan!Engaged(g) = Fan!Engaged(f)
  BY <1>6 DEF Fan!Engaged
<1>8. StageOK(g)
  BY <1>6, <1>7 DEF StageOK
<1> QED
  BY <1>6, <1>7, <1>8 DEF g

\* What a tick writes to the fan.
LEMMA WriteFacts ==
  ASSUME ~Circulates, NEW d, NEW age
  PROVE  Fan!FanWrite(d, age) = IF ~demand.on THEN Fan!NoFan
                                ELSE IF d.command = "stage" THEN d.ff.stage ELSE d.restore
BY DEF Fan!FanWrite, Fan!Circulation

\* A command to the fan and one to the mode.
LEMMA SentFacts ==
  ASSUME NEW level \in FanLevels, NEW m
  PROVE  LET w == IF level # Fan!NoFan THEN <<Fan!Command(Fan!NoFan, level)>> ELSE <<>>
         IN  /\ w \in Seq(FanCommands) /\ Fan!ModeCommand(m) \in Seq(FanCommands)
             /\ FansOf(Fan!ModeCommand(m)) \subseteq {Fan!NoFan}
             /\ FansOf(w) = {level} \ {Fan!NoFan}
<1> DEFINE c == Fan!Command(Fan!NoFan, level)
           w == IF level # Fan!NoFan THEN <<c>> ELSE <<>>
<1>0. FansOf(<<>>) = {} /\ <<>> \in Seq(FanCommands)
  BY DEF FansOf
<1>1. \A x \in FanCommands : <<x>> \in Seq(FanCommands) /\ FansOf(<<x>>) = {x.fan}
  BY DEF FansOf
<1>2. c \in FanCommands /\ c.fan = level
  BY DEF Fan!Command, FanCommands
<1>3. FansOf(w) = {level} \ {Fan!NoFan} /\ w \in Seq(FanCommands)
  <2> HIDE DEF c
  <2> QED
    BY <1>0, <1>1, <1>2
<1>4. /\ Fan!ModeCommand(m) \in Seq(FanCommands)
      /\ FansOf(Fan!ModeCommand(m)) \subseteq {Fan!NoFan}
  <2>1. CASE Fan!ModeCommand(m) = <<>>
    BY <1>0, <2>1
  <2>2. CASE m \in {"cool", "fan_only"} /\ Fan!ModeCommand(m) = <<Fan!Command(m, Fan!NoFan)>>
    <3>1. /\ Fan!Command(m, Fan!NoFan) \in FanCommands
          /\ Fan!Command(m, Fan!NoFan).fan = Fan!NoFan
      BY <2>2 DEF Fan!Command, FanCommands, FanLevels
    <3> QED
      BY <1>1, <2>2, <3>1
  <2> QED
    BY <2>1, <2>2 DEF Fan!ModeCommand
<1> QED
  BY <1>3, <1>4

LEMMA FanTickKeeps ==
  ASSUME ~Circulates, FanInv, Fan!Tick
  PROVE  FanInv' /\ Fan!LeavesTheFan
<1>1. PICK in \in Fan!Readings(Fan!Lower(fanMem.age + 1, EchoWindow)) :
    LET d == IF demand.option THEN Fan!fan_first_decision(Fan!Older(stage), in)
             ELSE Fan!Decision(Fan!Idle, "disabled", Fan!NoFan)
        level == Fan!FanWrite(d, in.age)
    IN  /\ stage' = d.ff
        /\ fanMem' = [Fan!Stamped(level, in.age) EXCEPT
                        !.prev = IF Fan!EchoOpen(in.age) THEN @ ELSE fanDev.fan]
        /\ fanSent' = fanSent
                        \o Fan!ModeCommand(Fan!Arbitrated(d.command = "fan_only"
                                                            \/ Fan!Engaged(d.ff)))
                        \o (IF level # Fan!NoFan THEN <<Fan!Command(Fan!NoFan, level)>> ELSE <<>>)
        /\ Len(fanSent') <= Depth
        /\ pick' = IF Fan!Engaged(d.ff) /\ ~Fan!Engaged(stage)
                   THEN [stage |-> fanDev.fan, standing |-> FALSE, clean |-> fanSent = <<>>]
                   ELSE [pick EXCEPT !.clean = @ /\ fanSent = <<>> /\ demand.on
                                               /\ demand.option]
        /\ UNCHANGED <<fanDev, demand>>
  BY Zenon DEF Fan!Tick
<1> DEFINE f == Fan!Older(stage)
           d == IF demand.option THEN Fan!fan_first_decision(f, in)
                ELSE Fan!Decision(Fan!Idle, "disabled", Fan!NoFan)
           level == Fan!FanWrite(d, in.age)
           asked == Fan!ModeCommand(Fan!Arbitrated(d.command = "fan_only" \/ Fan!Engaged(d.ff)))
           written == IF level # Fan!NoFan THEN <<Fan!Command(Fan!NoFan, level)>> ELSE <<>>
<1>2. /\ FanTypes /\ StageOK(f) /\ f.stage = stage.stage /\ f.entry = stage.entry
      /\ Fan!Engaged(f) = Fan!Engaged(stage) /\ Fan!Engaged(stage) \in BOOLEAN
  BY OlderFacts DEF FanInv, FanTypes, Fan!Engaged
<1>3. demand.option => Follows(f, d)
  BY <1>2, DecisionFollows
<1>4. ~demand.option =>
        /\ StageOK(d.ff) /\ ~Fan!Engaged(d.ff) /\ d.command = "disabled" /\ d.restore = Fan!NoFan
  <2>1. StageOK(Fan!Idle) /\ ~Fan!Engaged(Fan!Idle)
    BY Zeros DEF Fan!Idle, StageOK, StageType, FanLevels, Fan!Engaged
  <2> HIDE DEF Fan!Idle
  <2> QED
    BY <2>1, Steps
<1>5. level = IF ~demand.on THEN Fan!NoFan ELSE IF d.command = "stage" THEN d.ff.stage ELSE d.restore
  BY WriteFacts
<1>6. /\ stage' = d.ff /\ fanSent' = (fanSent \o asked) \o written /\ Len(fanSent') <= Depth
      /\ fanDev' = fanDev /\ demand' = demand
  BY <1>1
<1>7. fanMem' = [Fan!Stamped(level, in.age) EXCEPT
                   !.prev = IF Fan!EchoOpen(in.age) THEN @ ELSE fanDev.fan]
  BY <1>1
<1>8. pick' = IF Fan!Engaged(d.ff) /\ ~Fan!Engaged(stage)
              THEN [stage |-> fanDev.fan, standing |-> FALSE, clean |-> fanSent = <<>>]
              ELSE [pick EXCEPT !.clean = @ /\ fanSent = <<>> /\ demand.on /\ demand.option]
  BY <1>1
<1> HIDE DEF f, d, level
<1>9. StageOK(d.ff) /\ d.restore \in FanLevels /\ d.ff.stage \in FanLevels
  <2>1. StageOK(d.ff) /\ d.restore \in FanLevels
    BY <1>3, <1>4 DEF Follows, FanLevels
  <2> QED
    BY <2>1, FanConstants DEF StageOK, StageType, FanLevels
<1>10. level \in FanLevels
  BY <1>5, <1>9 DEF FanLevels
<1>11. /\ asked \in Seq(FanCommands) /\ written \in Seq(FanCommands)
       /\ FansOf(asked) \subseteq {Fan!NoFan} /\ FansOf(written) = {level} \ {Fan!NoFan}
  BY <1>10, SentFacts
<1> HIDE DEF asked, written
<1>12. /\ fanSent' \in Seq(FanCommands)
       /\ FansOf(fanSent') = (FansOf(fanSent) \cup FansOf(asked)) \cup ({level} \ {Fan!NoFan})
  <2>1. fanSent \in Seq(FanCommands)
    BY <1>2 DEF FanTypes
  <2>2. /\ fanSent \o asked \in Seq(FanCommands)
        /\ FansOf(fanSent \o asked) = FansOf(fanSent) \cup FansOf(asked)
    BY <1>11, <2>1, FansAppended
  <2> QED
    BY <1>6, <1>11, <2>2, FansAppended
<1>13. /\ fanMem' \in [fan : FanLevels, age : 0 .. EchoWindow, prev : FanLevels]
       /\ fanMem'.fan = IF level = Fan!NoFan THEN fanMem.fan ELSE level
  <2>1. /\ fanMem \in [fan : FanLevels, age : 0 .. EchoWindow, prev : FanLevels]
        /\ fanDev.fan \in FanLevels /\ fanMem.age \in 0 .. EchoWindow
    BY <1>2 DEF FanTypes, FanLevels
  <2>2. in.age \in 0 .. EchoWindow /\ 0 \in 0 .. EchoWindow
    BY <2>1, FanConstants DEF Fan!Readings, Fan!Lower
  <2> DEFINE s == Fan!Stamped(level, in.age)
             v == IF Fan!EchoOpen(in.age) THEN s.prev ELSE fanDev.fan
  <2>3. /\ s \in [fan : FanLevels, age : 0 .. EchoWindow, prev : FanLevels]
        /\ s.fan = IF level = Fan!NoFan THEN fanMem.fan ELSE level
    BY <1>10, <2>1, <2>2 DEF Fan!Stamped
  <2>4. fanMem' = [s EXCEPT !.prev = v]
    BY <1>7
  <2> HIDE DEF s
  <2>5. v \in FanLevels
    BY <2>1, <2>3
  <2> HIDE DEF v
  <2> QED
    BY <2>3, <2>4, <2>5
<1>14. /\ pick \in [stage : FanModes, standing : BOOLEAN, clean : BOOLEAN]
       /\ fanDev.fan \in FanModes /\ demand.on \in BOOLEAN /\ demand.option \in BOOLEAN
  BY <1>2 DEF FanTypes
<1>15. /\ pick' \in [stage : FanModes, standing : BOOLEAN, clean : BOOLEAN]
       /\ Fan!Engaged(d.ff) /\ ~Fan!Engaged(stage) =>
            pick'.stage = fanDev.fan /\ ~pick'.standing
       /\ ~(Fan!Engaged(d.ff) /\ ~Fan!Engaged(stage)) =>
            /\ pick'.stage = pick.stage /\ pick'.standing = pick.standing
            /\ pick'.clean => pick.clean /\ fanSent = <<>> /\ demand.on /\ demand.option
       /\ pick'.clean => fanSent = <<>>
  <2>1. CASE Fan!Engaged(d.ff) /\ ~Fan!Engaged(stage)
    <3> DEFINE e == fanSent = <<>>
    <3>1. pick' = [stage |-> fanDev.fan, standing |-> FALSE, clean |-> e] /\ e \in BOOLEAN
      BY <1>8, <2>1
    <3> HIDE DEF e
    <3>2. pick' \in [stage : FanModes, standing : BOOLEAN, clean : BOOLEAN]
          /\ pick'.stage = fanDev.fan /\ pick'.standing = FALSE /\ pick'.clean = e
      BY <1>14, <3>1
    <3> QED
      BY <2>1, <3>2 DEF e
  <2>2. CASE ~(Fan!Engaged(d.ff) /\ ~Fan!Engaged(stage))
    <3> DEFINE e == pick.clean /\ fanSent = <<>> /\ demand.on /\ demand.option
    <3>1. pick' = [pick EXCEPT !.clean = e] /\ e \in BOOLEAN
      BY <1>8, <1>14, <2>2
    <3> HIDE DEF e
    <3>2. pick' \in [stage : FanModes, standing : BOOLEAN, clean : BOOLEAN]
          /\ pick'.stage = pick.stage /\ pick'.standing = pick.standing /\ pick'.clean = e
      BY <1>14, <3>1
    <3> QED
      BY <2>2, <3>2 DEF e
  <2> QED
    BY <2>1, <2>2
<1>16. Stage # Fan!NoFan /\ fanDev.fan # Fan!NoFan
  BY <1>14, FanConstants
<1>17. FanTypes'
  BY <1>2, <1>6, <1>9, <1>12, <1>13, <1>15 DEF FanTypes
\* Who answered the stage is left alone.
<1>18. ASSUME pick.standing, Fan!Engaged(stage) PROVE level = Fan!NoFan
  <2>1. f.stage = Stage /\ fanDev.fan # Stage
    BY <1>2, <1>18 DEF FanInv, Answered
  <2>2. Fan!RestoreTarget(f) = Fan!NoFan
    BY <2>1 DEF Fan!RestoreTarget
  <2>3. CASE demand.option
    BY <1>2, <1>3, <1>5, <1>16, <1>18, <2>1, <2>2, <2>3 DEF Follows
  <2>4. CASE ~demand.option
    BY <1>4, <1>5, <2>4
  <2> QED
    BY <2>3, <2>4
<1>19. Answered'
  <2> SUFFICES ASSUME pick'.standing, Fan!Engaged(d.ff)
               PROVE  /\ d.ff.stage = Stage /\ fanDev.fan # Stage
                      /\ FansOf(fanSent') \subseteq {Fan!NoFan}
    BY <1>6 DEF Answered
  <2>1. Fan!Engaged(stage) /\ pick.standing
    BY <1>15
  <2>2. f.stage = Stage /\ fanDev.fan # Stage /\ FansOf(fanSent) \subseteq {Fan!NoFan}
    BY <1>2, <2>1 DEF FanInv, Answered
  <2>3. d.ff.stage = Stage
    BY <1>2, <1>3, <1>4, <1>16, <2>1, <2>2 DEF Follows
  <2> QED
    BY <1>11, <1>12, <1>18, <2>1, <2>2, <2>3
<1>20. Fan!LeavesTheFan
  <2> SUFFICES ASSUME pick.standing, Fan!Engaged(stage), Len(fanSent') > Len(fanSent)
               PROVE  fanSent'[Len(fanSent')].fan = Fan!NoFan
    BY DEF Fan!LeavesTheFan
  <2>1. FansOf(fanSent) \subseteq {Fan!NoFan} /\ level = Fan!NoFan
    BY <1>18 DEF FanInv, Answered
  <2>2. FansOf(fanSent') \subseteq {Fan!NoFan}
    BY <1>11, <1>12, <2>1
  <2>3. Len(fanSent') \in 1 .. Len(fanSent')
    <3>1. Len(fanSent) \in Nat /\ Len(fanSent') \in Nat
      BY <1>2, <1>12 DEF FanTypes
    <3> QED
      BY <3>1
  <2> QED
    BY <2>2, <2>3 DEF FansOf
<1>21. Undisturbed'
  <2> SUFFICES ASSUME pick'.clean
               PROVE  Underway(d.ff, fanMem'.fan, fanDev.fan, FansOf(fanSent'), pick'.stage)
    BY <1>6 DEF Undisturbed
  <2>1. fanSent = <<>> /\ FansOf(fanSent) = {}
    <3>1. fanSent = <<>>
      BY <1>15
    <3> QED
      BY <3>1 DEF FansOf
  <2>2. FansOf(fanSent') \subseteq {Fan!NoFan, level} /\ (level # Fan!NoFan => level \in FansOf(fanSent'))
    BY <1>11, <1>12, <2>1
  <2>3. CASE Fan!Engaged(d.ff) /\ ~Fan!Engaged(stage)
    <3>1. demand.option /\ ~Fan!Engaged(f)
      BY <1>2, <1>4, <2>3
    <3>2. d.ff.entry = fanDev.fan /\ d.ff.stage = Fan!NoFan /\ level = Fan!NoFan
          /\ pick'.stage = fanDev.fan
      BY <1>3, <1>5, <1>15, <2>3, <3>1 DEF Follows
    <3> QED
      BY <1>16, <2>2, <2>3, <3>2 DEF Underway
  <2>4. CASE ~(Fan!Engaged(d.ff) /\ ~Fan!Engaged(stage))
    <3>1. /\ pick'.stage = pick.stage /\ demand.on /\ demand.option
          /\ Underway(stage, fanMem.fan, fanDev.fan, {}, pick.stage)
      BY <1>15, <2>1, <2>4 DEF FanInv, Undisturbed
    <3>2. Follows(f, d) /\ level = (IF d.command = "stage" THEN d.ff.stage ELSE d.restore)
      BY <1>3, <1>5, <3>1
    <3>3. CASE ~Fan!Engaged(stage)
      <4>1. ~Fan!Engaged(d.ff) /\ level = Fan!NoFan /\ fanDev.fan = pick.stage
        BY <1>2, <2>4, <3>1, <3>2, <3>3 DEF Follows, Underway
      <4> QED
        BY <2>2, <3>1, <4>1 DEF Underway
    <3>4. CASE Fan!Engaged(stage)
      <4>1. /\ pick.stage = f.entry /\ fanDev.fan \in {f.entry, f.stage}
            /\ fanDev.fan # f.entry => fanMem.fan = f.stage
        BY <1>2, <3>1, <3>4 DEF Underway
      <4>2. CASE ~Fan!Engaged(d.ff)
        <5>1. /\ level = d.restore
              /\ \/ d.restore = Fan!RestoreTarget(f)
                 \/ d.restore = Fan!NoFan /\ fanDev.fan # fanMem.fan
          BY <1>2, <3>2, <3>4, <4>2 DEF Follows
        <5>2. \/ level = Fan!NoFan /\ fanDev.fan = f.entry
              \/ level = f.entry /\ level # Fan!NoFan
          <6>1. CASE d.restore = Fan!RestoreTarget(f)
            <7>1. f.entry # Fan!NoFan
              BY <1>2, <3>4, FanConstants DEF StageOK
            <7> QED
              BY <1>16, <4>1, <5>1, <6>1, <7>1 DEF Fan!RestoreTarget
          <6>2. CASE d.restore = Fan!NoFan /\ fanDev.fan # fanMem.fan
            BY <4>1, <5>1, <6>2
          <6> QED
            BY <5>1, <6>1, <6>2
        <5> QED
          BY <2>2, <3>1, <4>1, <4>2, <5>2 DEF Underway
      <4>3. CASE Fan!Engaged(d.ff)
        <5>1. d.ff.entry = f.entry /\ d.restore = Fan!NoFan
          BY <1>2, <3>2, <3>4, <4>3 DEF Follows
        <5>2. CASE d.ff.stage = f.stage /\ d.command # "stage"
          <6>1. level = Fan!NoFan /\ fanMem'.fan = fanMem.fan /\ Stage \notin FansOf(fanSent')
            BY <1>13, <1>16, <2>2, <3>2, <5>1, <5>2
          <6> QED
            BY <2>2, <3>1, <4>1, <4>3, <5>1, <5>2, <6>1 DEF Underway
        <5>3. CASE f.stage = Fan!NoFan /\ d.ff.stage = Stage
          <6>1. fanDev.fan = f.entry
            BY <1>16, <4>1, <5>3
          <6>2. level = Fan!NoFan \/ level = Stage
            BY <3>2, <5>1, <5>3
          <6>3. Stage \in FansOf(fanSent') => fanMem'.fan = Stage
            BY <1>13, <1>16, <2>2, <6>2
          <6> QED
            BY <2>2, <3>1, <4>1, <4>3, <5>1, <5>3, <6>1, <6>2, <6>3 DEF Underway
        <5> QED
          BY <1>2, <3>2, <3>4, <4>3, <5>2, <5>3 DEF Follows
      <4> QED
        BY <4>2, <4>3
    <3> QED
      BY <3>3, <3>4
  <2> QED
    BY <2>3, <2>4
<1> QED
  BY <1>17, <1>19, <1>20, <1>21 DEF FanInv

\* Nothing is sent, and what landed is gone.
LEMMA FanShrinks ==
  ASSUME FanTypes, Len(fanSent') <= Len(fanSent), fanSent' \in Seq(FanCommands)
  PROVE  Fan!LeavesTheFan /\ Len(fanSent') <= Depth
<1>1. Len(fanSent) \in Nat /\ Len(fanSent') \in Nat /\ Len(fanSent) <= Depth /\ Depth \in Nat
  BY FanConstants DEF FanTypes
<1> QED
  BY <1>1 DEF Fan!LeavesTheFan

LEMMA FanLandKeeps ==
  ASSUME FanInv, Fan!Land
  PROVE  FanInv' /\ Fan!LeavesTheFan
<1> DEFINE c == Head(fanSent)
<1>1. /\ fanSent # <<>> /\ fanSent' = Tail(fanSent)
      /\ stage' = stage /\ fanMem' = fanMem /\ demand' = demand /\ pick' = pick
      /\ fanDev' = [fanDev EXCEPT !.mode = IF c.mode # Fan!NoFan THEN c.mode ELSE @,
                                  !.fan = IF c.fan # Fan!NoFan THEN c.fan ELSE @,
                                  !.cooling = @ /\ c.mode # "fan_only",
                                  !.own = TRUE]
  BY DEF Fan!Land
<1>2. FanTypes /\ fanSent \in Seq(FanCommands)
  BY DEF FanInv, FanTypes
<1>3. /\ fanSent' \in Seq(FanCommands) /\ c \in FanCommands /\ Len(fanSent') <= Len(fanSent)
      /\ FansOf(fanSent) = {c.fan} \cup FansOf(fanSent')
  BY <1>1, <1>2, FansLanded
<1> HIDE DEF c
<1>4. /\ fanDev' \in [mode : {"cool", "fan_only"}, fan : FanModes, cooling : BOOLEAN, own : BOOLEAN]
      /\ fanDev'.fan = IF c.fan = Fan!NoFan THEN fanDev.fan ELSE c.fan
  <2> DEFINE m == IF c.mode # Fan!NoFan THEN c.mode ELSE fanDev.mode
             s == IF c.fan # Fan!NoFan THEN c.fan ELSE fanDev.fan
             b == fanDev.cooling /\ c.mode # "fan_only"
  <2>1. fanDev' = [fanDev EXCEPT !.mode = m, !.fan = s, !.cooling = b, !.own = TRUE]
    BY <1>1
  <2>2. fanDev \in [mode : {"cool", "fan_only"}, fan : FanModes, cooling : BOOLEAN, own : BOOLEAN]
    BY <1>2 DEF FanTypes
  <2>3. m \in {"cool", "fan_only"} /\ s \in FanModes /\ b \in BOOLEAN
    BY <1>3, <2>2 DEF FanCommands, FanLevels
  <2>4. s = IF c.fan = Fan!NoFan THEN fanDev.fan ELSE c.fan
    OBVIOUS
  <2> HIDE DEF m, s, b
  <2>5. /\ fanDev' \in [mode : {"cool", "fan_only"}, fan : FanModes, cooling : BOOLEAN,
                        own : BOOLEAN]
        /\ fanDev'.fan = s
    BY <2>1, <2>2, <2>3
  <2> QED
    BY <2>4, <2>5
<1>5. Fan!LeavesTheFan /\ Len(fanSent') <= Depth
  BY <1>2, <1>3, FanShrinks
<1>6. FanTypes'
  BY <1>1, <1>2, <1>3, <1>4, <1>5 DEF FanTypes
<1>7. Answered'
  BY <1>1, <1>3, <1>4 DEF FanInv, Answered
<1>8. Undisturbed'
  <2> SUFFICES ASSUME pick.clean
               PROVE  Underway(stage, fanMem.fan, fanDev'.fan, FansOf(fanSent'), pick.stage)
    BY <1>1 DEF Undisturbed
  <2>1. Underway(stage, fanMem.fan, fanDev.fan, FansOf(fanSent), pick.stage)
    BY DEF FanInv, Undisturbed
  <2>0. /\ stage.stage \in {Fan!NoFan, Stage} /\ pick.stage # Fan!NoFan
        /\ Fan!Engaged(stage) => stage.entry # Fan!NoFan
    BY <1>2, FanConstants DEF FanTypes, StageOK, StageType
  <2>2. CASE Fan!Engaged(stage)
    <3>1. CASE c.fan = Fan!NoFan
      BY <1>3, <1>4, <2>1, <2>2, <3>1 DEF Underway
    <3>2. CASE c.fan # Fan!NoFan
      <4>1. c.fan = Stage /\ stage.stage = Stage /\ Stage \in FansOf(fanSent)
        BY <1>3, <2>0, <2>1, <2>2, <3>2 DEF Underway
      <4> QED
        BY <1>3, <1>4, <2>1, <2>2, <4>1 DEF Underway
    <3> QED
      BY <3>1, <3>2
  <2>3. CASE ~Fan!Engaged(stage)
    <3>1. CASE c.fan = Fan!NoFan
      BY <1>3, <1>4, <2>0, <2>1, <2>3, <3>1 DEF Underway
    <3>2. CASE c.fan # Fan!NoFan
      BY <1>3, <1>4, <2>1, <2>3, <3>2 DEF Underway
    <3> QED
      BY <3>1, <3>2
  <2> QED
    BY <2>2, <2>3
<1> QED
  BY <1>5, <1>6, <1>7, <1>8 DEF FanInv

LEMMA FanLoseKeeps ==
  ASSUME FanInv, Fan!Lose
  PROVE  FanInv' /\ Fan!LeavesTheFan
<1>1. /\ fanSent # <<>> /\ fanSent' = Tail(fanSent)
      /\ stage' = stage /\ fanMem' = fanMem /\ demand' = demand /\ fanDev' = fanDev
      /\ pick' = [pick EXCEPT !.clean = FALSE]
  BY DEF Fan!Lose
<1>2. /\ FanTypes /\ fanSent \in Seq(FanCommands)
      /\ pick \in [stage : FanModes, standing : BOOLEAN, clean : BOOLEAN]
  BY DEF FanInv, FanTypes
<1>3. /\ fanSent' \in Seq(FanCommands) /\ Len(fanSent') <= Len(fanSent)
      /\ FansOf(fanSent') \subseteq FansOf(fanSent)
  BY <1>1, <1>2, FansLanded
<1>4. /\ pick' \in [stage : FanModes, standing : BOOLEAN, clean : BOOLEAN]
      /\ pick'.standing = pick.standing /\ pick'.clean = FALSE
  BY <1>1, <1>2
<1>5. Fan!LeavesTheFan /\ Len(fanSent') <= Depth
  BY <1>2, <1>3, FanShrinks
<1>6. FanTypes'
  BY <1>1, <1>2, <1>3, <1>4, <1>5 DEF FanTypes
<1>7. Answered'
  BY <1>1, <1>3, <1>4 DEF FanInv, Answered
<1>8. Undisturbed'
  BY <1>4 DEF Undisturbed
<1> QED
  BY <1>5, <1>6, <1>7, <1>8 DEF FanInv

LEMMA FanReportKeeps ==
  ASSUME FanInv, Fan!Report
  PROVE  FanInv' /\ Fan!LeavesTheFan
<1>1. PICK c \in BOOLEAN : fanDev' = [fanDev EXCEPT !.own = FALSE, !.cooling = c /\ fanDev.mode = "cool"]
  BY DEF Fan!Report
<1>2. UNCHANGED <<stage, fanMem, fanSent, demand, pick>>
  BY DEF Fan!Report
<1>3. /\ FanTypes /\ fanSent \in Seq(FanCommands)
      /\ fanDev \in [mode : {"cool", "fan_only"}, fan : FanModes, cooling : BOOLEAN, own : BOOLEAN]
  BY DEF FanInv, FanTypes
<1>4. /\ fanDev' \in [mode : {"cool", "fan_only"}, fan : FanModes, cooling : BOOLEAN, own : BOOLEAN]
      /\ fanDev'.fan = fanDev.fan
  <2> DEFINE b == c /\ fanDev.mode = "cool"
  <2>1. fanDev' = [fanDev EXCEPT !.own = FALSE, !.cooling = b] /\ b \in BOOLEAN
    BY <1>1
  <2> HIDE DEF b
  <2> QED
    BY <1>3, <2>1
<1>5. Fan!LeavesTheFan
  BY <1>2, <1>3, FanShrinks
<1>6. FanTypes'
  BY <1>2, <1>3, <1>4 DEF FanTypes
<1>7. Answered' /\ Undisturbed'
  BY <1>2, <1>4 DEF FanInv, Answered, Undisturbed
<1> QED
  BY <1>5, <1>6, <1>7 DEF FanInv

\* A hand at the fan answers the stage when nothing is under way.
LEMMA FanUserKeeps ==
  ASSUME FanInv, Fan!UserSetsFan
  PROVE  FanInv' /\ Fan!LeavesTheFan
<1>1. PICK s \in FanModes \ {fanDev.fan} :
         /\ fanDev' = [fanDev EXCEPT !.fan = s, !.own = FALSE]
         /\ pick' = [stage |-> s, clean |-> FALSE,
                     standing |-> stage.stage # Fan!NoFan /\ s # Stage /\ fanSent = <<>>]
  BY DEF Fan!UserSetsFan
<1>2. UNCHANGED <<stage, fanMem, fanSent, demand>>
  BY DEF Fan!UserSetsFan
<1>3. /\ FanTypes /\ fanSent \in Seq(FanCommands) /\ StageOK(stage)
      /\ fanDev \in [mode : {"cool", "fan_only"}, fan : FanModes, cooling : BOOLEAN, own : BOOLEAN]
  BY DEF FanInv, FanTypes
<1>4. /\ fanDev' \in [mode : {"cool", "fan_only"}, fan : FanModes, cooling : BOOLEAN, own : BOOLEAN]
      /\ fanDev'.fan = s
  BY <1>1, <1>3
<1> DEFINE b == stage.stage # Fan!NoFan /\ s # Stage /\ fanSent = <<>>
<1>5. /\ pick' \in [stage : FanModes, standing : BOOLEAN, clean : BOOLEAN]
      /\ pick'.standing = b /\ pick'.clean = FALSE
  <2>1. pick' = [stage |-> s, clean |-> FALSE, standing |-> b] /\ b \in BOOLEAN /\ s \in FanModes
    BY <1>1
  <2> HIDE DEF b
  <2> QED
    BY <2>1
<1>6. Fan!LeavesTheFan
  BY <1>2, <1>3, FanShrinks
<1>7. FanTypes'
  BY <1>2, <1>3, <1>4, <1>5 DEF FanTypes
<1>8. Answered'
  <2> SUFFICES ASSUME b, Fan!Engaged(stage)
               PROVE  stage.stage = Stage /\ s # Stage /\ FansOf(fanSent) \subseteq {Fan!NoFan}
    BY <1>2, <1>4, <1>5 DEF Answered
  <2>1. stage.stage \in {Fan!NoFan, Stage}
    BY <1>3 DEF StageOK, StageType
  <2> QED
    BY <2>1 DEF FansOf
<1>9. Undisturbed'
  BY <1>5 DEF Undisturbed
<1> QED
  BY <1>6, <1>7, <1>8, <1>9 DEF FanInv

LEMMA FanZoneKeeps ==
  ASSUME FanInv, Fan!ZoneChanges
  PROVE  FanInv' /\ Fan!LeavesTheFan
<1>1. PICK what \in DOMAIN demand : demand' = [demand EXCEPT ![what] = ~demand[what]]
  BY DEF Fan!ZoneChanges
<1>2. UNCHANGED <<stage, fanMem, fanDev, fanSent, pick>>
  BY DEF Fan!ZoneChanges
<1>3. /\ FanTypes /\ fanSent \in Seq(FanCommands)
      /\ demand \in [cool : BOOLEAN, normal : BOOLEAN, on : BOOLEAN, option : BOOLEAN]
  BY DEF FanInv, FanTypes
<1>4. demand' \in [cool : BOOLEAN, normal : BOOLEAN, on : BOOLEAN, option : BOOLEAN]
  BY <1>1, <1>3
<1>5. Fan!LeavesTheFan
  BY <1>2, <1>3, FanShrinks
<1>6. FanTypes'
  BY <1>2, <1>3, <1>4 DEF FanTypes
<1>7. Answered' /\ Undisturbed'
  BY <1>2 DEF FanInv, Answered, Undisturbed
<1> QED
  BY <1>5, <1>6, <1>7 DEF FanInv

LEMMA FanRests == StageOK(Fan!Idle) /\ ~Fan!Engaged(Fan!Idle)
<1>1. Fan!Idle \in StageType /\ Fan!Idle.phase = "idle"
  BY Zeros DEF Fan!Idle, StageType, FanLevels
<1> QED
  BY <1>1 DEF StageOK, Fan!Engaged

\* A restart forgets the sequence and what was under way.
LEMMA FanRestartKeeps ==
  ASSUME FanInv, Fan!Restart
  PROVE  FanInv' /\ Fan!LeavesTheFan
<1>1. /\ stage' = Fan!Idle /\ fanSent' = <<>> /\ demand' = demand
      /\ fanMem' = [fanMem EXCEPT !.age = EchoWindow, !.prev = Fan!NoFan]
      /\ fanDev' = [fanDev EXCEPT !.own = FALSE]
      /\ pick' = [pick EXCEPT !.clean = pick.clean /\ ~Fan!Engaged(stage) /\ fanSent = <<>>]
  BY DEF Fan!Restart
<1>2. /\ FanTypes /\ fanSent \in Seq(FanCommands)
      /\ fanDev \in [mode : {"cool", "fan_only"}, fan : FanModes, cooling : BOOLEAN, own : BOOLEAN]
      /\ fanMem \in [fan : FanLevels, age : 0 .. EchoWindow, prev : FanLevels]
      /\ pick \in [stage : FanModes, standing : BOOLEAN, clean : BOOLEAN]
  BY DEF FanInv, FanTypes
<1>3. /\ fanDev' \in [mode : {"cool", "fan_only"}, fan : FanModes, cooling : BOOLEAN, own : BOOLEAN]
      /\ fanDev'.fan = fanDev.fan
  BY <1>1, <1>2
<1>4. fanMem' \in [fan : FanLevels, age : 0 .. EchoWindow, prev : FanLevels]
  <2>1. EchoWindow \in 0 .. EchoWindow /\ Fan!NoFan \in FanLevels
    BY FanConstants DEF FanLevels
  <2> QED
    BY <1>1, <1>2, <2>1
<1> DEFINE b == pick.clean /\ ~Fan!Engaged(stage) /\ fanSent = <<>>
<1>5. /\ pick' \in [stage : FanModes, standing : BOOLEAN, clean : BOOLEAN]
      /\ pick'.stage = pick.stage /\ pick'.clean = b
  <2>1. pick' = [pick EXCEPT !.clean = b] /\ b \in BOOLEAN
    BY <1>1, <1>2
  <2> HIDE DEF b
  <2> QED
    BY <1>2, <2>1
<1>6. FansOf(<<>>) = {} /\ <<>> \in Seq(FanCommands) /\ Len(<<>>) = 0 /\ Len(fanSent) \in Nat
  BY <1>2 DEF FansOf
<1>7. Fan!LeavesTheFan /\ Len(fanSent') <= Depth
  BY <1>1, <1>2, <1>6, FanShrinks
<1>8. FanTypes'
  BY <1>1, <1>2, <1>3, <1>4, <1>5, <1>6, <1>7, FanRests DEF FanTypes
<1>9. Answered'
  BY <1>1, FanRests DEF Answered
<1>10. Undisturbed'
  <2> SUFFICES ASSUME b
               PROVE  Underway(Fan!Idle, fanMem'.fan, fanDev.fan, {}, pick.stage)
    BY <1>1, <1>3, <1>5, <1>6 DEF Undisturbed
  <2>1. FansOf(fanSent) = {} /\ ~Fan!Engaged(stage)
    BY <1>6
  <2> QED
    BY <2>1, FanRests DEF FanInv, Undisturbed, Underway
<1> QED
  BY <1>7, <1>8, <1>9, <1>10 DEF FanInv

LEMMA FanSteps ==
  ASSUME ~Circulates, FanInv
  PROVE  /\ Fan!Next => FanInv' /\ Fan!LeavesTheFan
         /\ UNCHANGED fan => FanInv'
<1>1. UNCHANGED fan => FanInv'
  BY DEF fan, FanInv, FanTypes, Undisturbed, Answered
<1> QED
  BY <1>1, FanTickKeeps, FanLandKeeps, FanLoseKeeps, FanReportKeeps, FanUserKeeps, FanZoneKeeps,
     FanRestartKeeps DEF Fan!Next

LEMMA FanStarts == Fan!Init => FanInv
<1> SUFFICES ASSUME Fan!Init PROVE FanInv
  OBVIOUS
<1>1. PICK s \in FanModes :
         /\ fanDev = [mode |-> "cool", fan |-> s, cooling |-> FALSE, own |-> FALSE]
         /\ pick = [stage |-> s, standing |-> FALSE, clean |-> TRUE]
  BY DEF Fan!Init
<1>2. /\ stage = Fan!Idle /\ fanSent = <<>>
      /\ fanMem = [fan |-> Fan!NoFan, age |-> EchoWindow, prev |-> Fan!NoFan]
      /\ demand = [cool |-> FALSE, normal |-> TRUE, on |-> TRUE, option |-> TRUE]
  BY DEF Fan!Init
<1>3. EchoWindow \in 0 .. EchoWindow /\ Fan!NoFan \in FanLevels /\ 0 <= Depth
  BY FanConstants DEF FanLevels
<1>4. FansOf(<<>>) = {} /\ <<>> \in Seq(FanCommands) /\ Len(<<>>) = 0
  BY DEF FansOf
<1>5. FanTypes
  BY <1>1, <1>2, <1>3, <1>4, FanRests DEF FanTypes
<1>6. Answered /\ Undisturbed
  BY <1>1, <1>2, <1>4, FanRests DEF Answered, Undisturbed, Underway
<1> QED
  BY <1>5, <1>6 DEF FanInv

LEMMA FanTells == FanInv => Fan!TypeOK /\ Fan!StageComesBack
<1> SUFFICES ASSUME FanInv PROVE Fan!TypeOK /\ Fan!StageComesBack
  OBVIOUS
<1>1. Fan!TypeOK
  BY FanConstants DEF FanInv, FanTypes, StageOK, StageType, FanLevels, Fan!TypeOK
<1>2. Fan!StageComesBack
  <2> SUFFICES ASSUME pick.clean, fanSent = <<>>, ~Fan!Engaged(stage)
               PROVE  fanDev.fan = pick.stage
    BY DEF Fan!StageComesBack
  <2>1. FansOf(fanSent) = {}
    BY DEF FansOf
  <2> QED
    BY <2>1 DEF FanInv, Undisturbed, Underway
<1> QED
  BY <1>1, <1>2

LEMMA FanPart ==
  ASSUME ~Circulates
  PROVE  PartsSpec => [](part = "fan" => FanInv)
<1>1. PartsInit => (part = "fan" => FanInv)
  BY FanStarts DEF PartsInit
<1>2. (part = "fan" => FanInv) /\ [PartsNext]_<<part, vars, fan, program, alarm>>
        => (part = "fan" => FanInv)'
  <2> SUFFICES ASSUME part' = "fan", part = "fan" => FanInv,
                      [PartsNext]_<<part, vars, fan, program, alarm>>
               PROVE  FanInv'
    OBVIOUS
  <2>1. part = "fan" /\ FanInv /\ (Fan!Next \/ UNCHANGED fan)
    BY DEF PartsNext
  <2> QED
    BY <2>1, FanSteps
<1> QED
  BY <1>1, <1>2, PTL DEF PartsSpec

(***************************************************************************)
(* A sequence nobody disturbed leaves the fan as it found it, and once the *)
(* user has answered the stage with another the sequence does not write    *)
(* the fan again (fan_first.py _restore_target, phase_actuate.py           *)
(* _stage_fan_write), where the idle circulation, which moves the fan on   *)
(* purpose, is not configured.                                             *)
(***************************************************************************)
THEOREM FanComesBack ==
  ASSUME ~Circulates
  PROVE  PartsSpec => FanIsGivenBack
<1>1. FanInv => Fan!TypeOK /\ Fan!StageComesBack
  BY FanTells
<1>2. (part = "fan" => FanInv) /\ [PartsNext]_<<part, vars, fan, program, alarm>>
        => [part = "fan" => Fan!LeavesTheFan]_fan
  <2> SUFFICES ASSUME part = "fan", FanInv,
                      [PartsNext]_<<part, vars, fan, program, alarm>>, fan' # fan
               PROVE  Fan!LeavesTheFan
    OBVIOUS
  <2>1. Fan!Next
    BY DEF PartsNext
  <2> QED
    BY <2>1, FanSteps
<1> QED
  BY <1>1, <1>2, FanPart, PTL DEF PartsSpec, FanIsGivenBack
=============================================================================
