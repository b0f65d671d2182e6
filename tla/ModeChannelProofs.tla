--------------------------- MODULE ModeChannelProofs ---------------------------
(***************************************************************************)
(* What the mode channel keeps for every value of its constants and under  *)
(* all its faults: it is always well typed, a hold is whole, a choice of   *)
(* the user is taken over once, and no repetition undoes it meanwhile.     *)
(***************************************************************************)
EXTENDS MCChoices, TLAPS

\* A hold that is typed and whole.
Good(h) ==
  /\ h \in Hold
  /\ IF Held(h) THEN h.set # None /\ h.origin # None ELSE h = NoHold
-----------------------------------------------------------------------------
(* Every operation on a hold leaves a good one.                            *)

LEMMA LongestType == Longest \in Nat /\ TimerFor <= Longest /\ MaxFor <= Longest
BY HoldAssumption DEF Longest

LEMMA NoHoldGood == Good(NoHold)
BY DEF Good, NoHold, Hold, Held

LEMMA AgedHoldGood ==
  ASSUME NEW h, Good(h), NEW d \in Nat
  PROVE  Good(AgedHold(h, d))
<1>1. CASE h = NoHold
  BY <1>1, NoHoldGood DEF AgedHold, NoHold
<1>2. CASE Held(h) /\ h.set # None /\ h.origin # None
  <2>1. h.set \in 0 .. Longest /\ h.left \in (0 .. Longest) \cup {None}
    BY <1>2 DEF Good, Hold
  <2>2. Lesser(h.set + d, Longest) \in 0 .. Longest
    BY <2>1, LongestType DEF Lesser
  <2>3. h.left # None => Less(h.left, d) \in 0 .. Longest
    BY <2>1, LongestType DEF Less
  <2>4. Lesser(h.set + d, Longest) # None
    BY <2>2, HoldAssumption
  <2> QED
    BY <1>2, <2>2, <2>3, <2>4 DEF Good, Hold, Held, AgedHold
<1> QED
  BY <1>1, <1>2 DEF Good

LEMMA ExpiryType ==
  ASSUME NEW p \in Policies, NEW mins \in Points
  PROVE  ResolveHoldExpiry(p, mins) \in (0 .. Longest) \cup {None}
<1>1. mins # None => mins \in Nat
  BY HoldAssumption
<1> QED
  BY <1>1, HoldAssumption, LongestType DEF ResolveHoldExpiry, Lesser, IsPoint

LEMMA AnnounceGood ==
  ASSUME NEW h \in Hold, Held(h), h.origin # None, NEW p \in Policies, NEW mins \in Points
  PROVE  Good(Announce(h, p, mins)) /\ Held(Announce(h, p, mins))
<1>1. 0 \in 0 .. Longest /\ 0 # None
  BY LongestType, HoldAssumption
<1>2. ResolveHoldExpiry(p, mins) \in (0 .. Longest) \cup {None}
  BY ExpiryType
<1>3. (p = "schedule" /\ IsPoint(mins) /\ mins <= MaxFor) \in BOOLEAN
  OBVIOUS
<1> QED
  BY <1>1, <1>2, <1>3 DEF Good, Hold, Held, Announce

LEMMA SetOverrideGood ==
  ASSUME NEW h \in Hold, NEW p \in Policies, NEW mins \in Points
  PROVE  Good(SetOverride(h, p, mins))
<1>1. 0 \in 0 .. Longest /\ 0 # None /\ "ui_setpoint" # None
  BY LongestType, HoldAssumption
<1>2. ResolveHoldExpiry(p, mins) \in (0 .. Longest) \cup {None}
  BY ExpiryType
<1>3. (p = "schedule" /\ IsPoint(mins) /\ mins <= MaxFor) \in BOOLEAN
  OBVIOUS
<1> QED
  BY <1>1, <1>2, <1>3 DEF Good, Hold, Held, Announce, SetOverride

LEMMA ClearOverrideGood ==
  ASSUME NEW h, Good(h)
  PROVE  Good(ClearOverride(h))
BY NoHoldGood DEF Good, Hold, Held, ClearOverride, NoHold

LEMMA SetModeOverrideGood ==
  ASSUME NEW h, Good(h), NEW m \in Modes, NEW p \in Policies, NEW mins \in Points
  PROVE  Good(SetModeOverride(h, m, p, mins))
<1> DEFINE pinned == [h EXCEPT !.mode = m, !.origin = "device_adopt_mode"]
<1>1. m # None /\ "device_adopt_mode" # None
  BY HoldAssumption
<1>2. pinned \in Hold /\ Held(pinned) /\ pinned.origin # None /\ pinned.set = h.set
  BY <1>1 DEF Good, Hold, Held
<1>3. Good(Announce(pinned, p, mins))
  BY <1>2, AnnounceGood
<1>4. h.set # None => Good(pinned)
  BY <1>2 DEF Good
<1> QED
  BY <1>3, <1>4 DEF SetModeOverride

LEMMA RestoreHoldGood ==
  ASSUME NEW h, Good(h), NEW p \in Policies, NEW mins \in Points
  PROVE  Good(RestoreHold(h, p, mins))
<1> DEFINE expiry == ResolveHoldExpiry(p, mins)
<1>1. CASE Held(h) /\ h.left = None /\ h.set # None /\ expiry # None
  <2>1. h.set \in 0 .. Longest /\ expiry \in 0 .. Longest
    BY <1>1, ExpiryType DEF Good, Hold
  <2>2. Less(expiry, h.set) \in 0 .. Longest
    BY <2>1, LongestType DEF Less
  <2> QED
    BY <1>1, <2>2 DEF Good, Hold, Held, RestoreHold
<1> QED
  BY <1>1 DEF RestoreHold

\* What a tick makes of the hold before it looks at the device.
LEMMA LastingGood ==
  ASSUME NEW h, Good(h), NEW d \in Nat, NEW flip, NEW preheat
  PROVE  Good(EndAtPreheat(ExpireHold(AgedHold(h, d), flip), policy, preheat))
BY AgedHoldGood, NoHoldGood DEF ExpireHold, EndAtPreheat
-----------------------------------------------------------------------------
(* The steps.                                                              *)

TypeInv == TypeOK /\ Good(hold)

LEMMA AgedType ==
  ASSUME NEW cap \in Nat, NEW age \in (0 .. cap) \cup {None}, NEW d \in Nat
  PROVE  Aged(age, d, cap) \in (0 .. cap) \cup {None}
BY HoldAssumption DEF Aged, Lesser

LEMMA AppendType ==
  ASSUME NEW S, NEW s \in Seq(S), NEW c \in S
  PROVE  Append(s, c) \in Seq(S) /\ Len(Append(s, c)) = Len(s) + 1
OBVIOUS

LEMMA AtMostOneType ==
  ASSUME NEW S, NEW c, NEW P, P => c \in S
  PROVE  (IF P THEN <<c>> ELSE <<>>) \in Seq(S)
<1>1. <<>> \in Seq(S)
  OBVIOUS
<1>2. c \in S => <<c>> \in Seq(S)
  OBVIOUS
<1> QED
  BY <1>1, <1>2

LEMMA TypeInit == Init => TypeInv
<1> SUFFICES ASSUME Init PROVE TypeInv
  OBVIOUS
<1>1. flight \in Seq(Commands) /\ Len(flight) = 0
  BY DEF Init
<1>2. Len(flight) <= Depth
  BY <1>1, ChannelAssumption
<1>3. Good(hold)
  BY NoHoldGood DEF Init
<1> QED
  BY <1>1, <1>2, <1>3 DEF Init, TypeInv, TypeOK, Good

\* The parts of a tick.
LEMMA TickType ==
  ASSUME TypeInv, NEW d \in Nat, Tick(d)
  PROVE  TypeInv'
<1>1. PICK flip \in BOOLEAN, preheat \in BOOLEAN, rescues \in BOOLEAN, mins \in Points :
        LET age == Aged(cmdAge, d, Window)
            repeat == Aged(nudgeAge, d, Reassert)
            lasting == EndAtPreheat(ExpireHold(AgedHold(hold, d), flip), policy, preheat)
            resumed == Resumed(lasting)
            routed == IF resumed THEN NoHold ELSE lasting
        IN  /\ rescues => CanHeat /\ online
            /\ IF enabled /\ routed.mode # "off"
               THEN /\ hold' = Adoption(routed, age, resumed, mins)
                    /\ Regulate(hold', age, repeat)
               ELSE /\ hold' = IF rescues /\ routed.mode = "off" THEN NoHold ELSE routed
                    /\ Rescue(age, repeat, rescues)
  BY DEF Tick
<1> DEFINE age == Aged(cmdAge, d, Window)
           repeat == Aged(nudgeAge, d, Reassert)
           lasting == EndAtPreheat(ExpireHold(AgedHold(hold, d), flip), policy, preheat)
           resumed == Resumed(lasting)
           routed == IF resumed THEN NoHold ELSE lasting
<1>2. age \in (0 .. Window) \cup {None} /\ repeat \in (0 .. Reassert) \cup {None}
  BY AgedType, ChannelAssumption DEF TypeInv, TypeOK
<1>3. Good(routed)
  BY LastingGood, NoHoldGood DEF TypeInv
<1>4. Reading \in Modes \cup {None, "unavailable"}
  BY ChannelAssumption DEF TypeInv, TypeOK, Reading
<1>5. 0 \in 0 .. Window /\ 0 \in 0 .. Reassert
  BY ChannelAssumption
<1>6. Reference(age) \in Modes \cup {None, "unavailable"}
  BY <1>4 DEF TypeInv, TypeOK, Reference
<1> HIDE DEF age, repeat, lasting, resumed, routed
<1>7. CASE enabled /\ routed.mode # "off"
  <2>1. hold' = Adoption(routed, age, resumed, mins) /\ Regulate(hold', age, repeat)
    BY <1>1, <1>7 DEF age, repeat, lasting, resumed, routed
  <2>2. Good(hold')
    <3>1. CASE Adopts(age, resumed)
      <4>1. Reading \in Modes
        BY <3>1, ChannelAssumption DEF Adopts, IsUserChange
      <4>2. Good(SetModeOverride(routed, Reading, policy, mins))
        BY <4>1, <1>3, SetModeOverrideGood DEF TypeInv, TypeOK
      <4> QED
        BY <2>1, <3>1, <4>2 DEF Adoption
    <3> QED
      BY <2>1, <3>1, <1>3, NoHoldGood DEF Adoption
  <2>3. PICK held \in BOOLEAN, wrote \in BOOLEAN :
          LET m == Desired(hold')
              sends == NeedsNudge(m, repeat) /\ ~held
          IN  /\ lastCmd' = IF sends THEN m ELSE lastCmd
              /\ cmdAge' = IF sends /\ m # lastCmd THEN 0 ELSE age
              /\ nudgeAge' = IF sends THEN 0 ELSE repeat
              /\ flight' = flight \o (IF sends THEN <<Command(m, TRUE)>> ELSE <<>>)
                                  \o (IF wrote THEN <<Command(None, TRUE)>> ELSE <<>>)
              /\ prev' = Reference(age)
              /\ fresh' = (fresh /\ (InWindow(age) \/ ~online))
    BY <2>1 DEF Regulate
  <2> DEFINE m == Desired(hold')
             sends == NeedsNudge(m, repeat) /\ ~held
             nudge == IF sends THEN <<Command(m, TRUE)>> ELSE <<>>
             write == IF wrote THEN <<Command(None, TRUE)>> ELSE <<>>
  <2>4. sends => m \in Supported
    BY DEF NeedsNudge
  <2>5. nudge \in Seq(Commands) /\ write \in Seq(Commands)
    <3>1. Command(None, TRUE) \in Commands
      BY DEF Command, Commands
    <3>2. sends => Command(m, TRUE) \in Commands
      BY <2>4 DEF Command, Commands
    <3> HIDE DEF m, sends
    <3>3. nudge \in Seq(Commands)
      BY <3>2, AtMostOneType
    <3>4. write \in Seq(Commands)
      BY <3>1, AtMostOneType
    <3> QED
      BY <3>3, <3>4
  <2>6. flight' = flight \o nudge \o write
    BY <2>3
  <2> HIDE DEF nudge, write
  <2>7. flight' \in Seq(Commands)
    BY <2>5, <2>6 DEF TypeInv, TypeOK
  <2>8. lastCmd' \in Modes \cup {None}
    BY <2>3, <2>4, ChannelAssumption DEF TypeInv, TypeOK
  <2>9. cmdAge' \in (0 .. Window) \cup {None} /\ nudgeAge' \in (0 .. Reassert) \cup {None}
    BY <2>3, <1>2, <1>5
  <2>10. prev' \in Modes \cup {None, "unavailable"} /\ fresh' \in BOOLEAN
    BY <2>3, <1>6 DEF TypeInv, TypeOK
  <2> QED
    BY <2>2, <2>7, <2>8, <2>9, <2>10 DEF Tick, TypeInv, TypeOK, Good, user, device
<1>8. CASE ~(enabled /\ routed.mode # "off")
  <2>1. /\ hold' = IF rescues /\ routed.mode = "off" THEN NoHold ELSE routed
        /\ Rescue(age, repeat, rescues)
    BY <1>1, <1>8 DEF age, repeat, lasting, resumed, routed
  <2>2. Good(hold')
    BY <2>1, <1>3, NoHoldGood
  <2>3. flight' \in Seq(Commands)
    <3>1. "heat" \in Supported => Append(flight, Command("heat", FALSE)) \in Seq(Commands)
      BY AppendType DEF Command, Commands, TypeInv, TypeOK
    <3> QED
      BY <2>1, <3>1 DEF Rescue, TypeInv, TypeOK
  <2>4. lastCmd' \in Modes \cup {None}
    BY <2>1, ChannelAssumption DEF Rescue, TypeInv, TypeOK
  <2>5. cmdAge' \in (0 .. Window) \cup {None} /\ nudgeAge' \in (0 .. Reassert) \cup {None}
    BY <2>1, <1>2, <1>5 DEF Rescue
  <2> QED
    BY <2>1, <2>2, <2>3, <2>4, <2>5 DEF Rescue, Tick, TypeInv, TypeOK, Good, user, device
<1> QED
  BY <1>7, <1>8

LEMMA TypeNext == ASSUME TypeInv, Next \/ CalmDown \/ UNCHANGED vars PROVE TypeInv'
<1> USE DEF user, device, memory
<1>1. CASE TimerTick
  BY <1>1, TickType DEF TimerTick
<1>2. CASE EventTick
  BY <1>2, TickType DEF EventTick
<1>3. CASE BlindTick
  <2>1. Good(hold')
    BY <1>3, AgedHoldGood DEF BlindTick, TypeInv
  <2>2. /\ cmdAge' \in (0 .. Window) \cup {None}
        /\ nudgeAge' \in (0 .. Reassert) \cup {None}
    BY <1>3, AgedType, ChannelAssumption DEF BlindTick, TypeInv, TypeOK
  <2>3. CASE UNCHANGED <<lastCmd, flight, astray>>
    BY <1>3, <2>1, <2>2, <2>3 DEF BlindTick, TypeInv, TypeOK, Good
  <2>4. CASE /\ SafeMode \in Supported /\ lastCmd' = SafeMode
             /\ flight' = Append(flight, Command(SafeMode, FALSE)) /\ astray' = TRUE
    <3>1. Command(SafeMode, FALSE) \in Commands
      BY <2>4 DEF Command, Commands
    <3>2. flight' \in Seq(Commands) /\ Len(flight') = 1
      <4>1. flight \in Seq(Commands) /\ Len(flight) = 0
        BY <1>3 DEF BlindTick, TypeInv, TypeOK
      <4>2. /\ Append(flight, Command(SafeMode, FALSE)) \in Seq(Commands)
            /\ Len(Append(flight, Command(SafeMode, FALSE))) = Len(flight) + 1
        BY <3>1, <4>1, AppendType, Zenon
      <4>3. flight' = Append(flight, Command(SafeMode, FALSE))
        BY <2>4
      <4>4. flight' \in Seq(Commands) /\ Len(flight') = Len(flight) + 1
        BY <4>2, <4>3, Zenon
      <4>5. Len(flight') = 1
        BY <4>1, <4>4
      <4> QED
        BY <4>4, <4>5
    <3>3. Len(flight') <= Depth /\ lastCmd' \in Modes \cup {None}
      BY <2>4, <3>2, ChannelAssumption
    <3> QED
      BY <1>3, <2>1, <2>2, <2>4, <3>2, <3>3 DEF BlindTick, TypeInv, TypeOK, Good
  <2> QED
    BY <1>3, <2>3, <2>4 DEF BlindTick
<1>4. CASE UserSelects
  BY <1>4 DEF UserSelects, TypeInv, TypeOK
<1>5. CASE SetTemperature
  <2>1. Good(hold')
    BY <1>5, SetOverrideGood DEF SetTemperature, TypeInv, TypeOK
  <2> QED
    BY <1>5, <2>1 DEF SetTemperature, TypeInv, TypeOK, Good
<1>6. CASE Resume
  <2>1. Good(hold')
    BY <1>6, ClearOverrideGood DEF Resume, TypeInv
  <2> QED
    BY <1>6, <2>1 DEF Resume, TypeInv, TypeOK, Good
<1>7. CASE SelectActiveMode
  <2>1. Good(hold')
    BY <1>7, ClearOverrideGood DEF SelectActiveMode, TypeInv
  <2> QED
    BY <1>7, <2>1 DEF SelectActiveMode, TypeInv, TypeOK, Good
<1>8. CASE Toggle \/ ChangePolicy \/ PlanChanges
  BY <1>8 DEF Toggle, ChangePolicy, PlanChanges, TypeInv, TypeOK
<1>9. CASE Land
  <2>1. Head(flight) \in Commands /\ Tail(flight) \in Seq(Commands)
        /\ Len(Tail(flight)) <= Len(flight)
    BY <1>9 DEF Land, TypeInv, TypeOK
  <2>2. Len(Tail(flight)) <= Depth
    BY <2>1, ChannelAssumption DEF TypeInv, TypeOK
  <2>3. mode' \in Supported /\ ctx' \in BOOLEAN /\ fresh' \in BOOLEAN
    BY <1>9, <2>1 DEF Land, Commands, TypeInv, TypeOK
  <2> QED
    BY <1>9, <2>1, <2>2, <2>3 DEF Land, TypeInv, TypeOK
<1>10. CASE Lost
  <2>1. Tail(flight) \in Seq(Commands) /\ Len(Tail(flight)) <= Len(flight)
    BY <1>10 DEF Lost, TypeInv, TypeOK
  <2>2. Len(Tail(flight)) <= Depth
    BY <2>1, ChannelAssumption DEF TypeInv, TypeOK
  <2> QED
    BY <1>10, <2>1, <2>2 DEF Lost, TypeInv, TypeOK
<1>11. CASE Reports \/ Vanishes \/ Returns
  BY <1>11 DEF Reports, Vanishes, Returns, TypeInv, TypeOK
<1>12. CASE Stop
  BY <1>12 DEF Stop, TypeInv, TypeOK
<1>13. CASE Start
  <2>1. Good(hold')
    BY <1>13, RestoreHoldGood DEF Start, TypeInv, TypeOK
  <2>2. cmdAge' \in (0 .. Window) \cup {None}
    BY <1>13, ChannelAssumption DEF Start
  <2> QED
    BY <1>13, <2>1, <2>2 DEF Start, TypeInv, TypeOK, Good
<1>14. CASE Elapse
  <2>1. Good(hold')
    BY <1>14, AgedHoldGood DEF Elapse, TypeInv
  <2> QED
    BY <1>14, <2>1 DEF Elapse, TypeInv, TypeOK, Good
<1>15. CASE CalmDown
  BY <1>15 DEF CalmDown, TypeInv, TypeOK
<1>16. CASE UNCHANGED vars
  BY <1>16 DEF vars, TypeInv, TypeOK
<1> QED
  BY <1>1, <1>2, <1>3, <1>4, <1>5, <1>6, <1>7, <1>8, <1>9, <1>10, <1>11, <1>12, <1>13,
     <1>14, <1>15, <1>16 DEF Next

LEMMA TypeAlways == Spec => []TypeInv
<1>1. Init => TypeInv
  BY TypeInit
<1>2. TypeInv /\ [Next]_vars => TypeInv'
  BY TypeNext
<1> QED
  BY <1>1, <1>2, PTL DEF Spec
-----------------------------------------------------------------------------
(***************************************************************************)
(* Every variable of the mode channel keeps its type, for all devices,     *)
(* policies, clocks and faults: no mode the device does not have is        *)
(* commanded, and no expiry lies beyond the longest hold.                  *)
(***************************************************************************)
THEOREM TypeCorrect == Spec => []TypeOK
<1>1. TypeInv => TypeOK
  BY DEF TypeInv
<1> QED
  BY <1>1, TypeAlways, PTL

(***************************************************************************)
(* A hold is whole, however its two halves are set, joined, cleared,       *)
(* expired and restored.                                                   *)
(***************************************************************************)
THEOREM HoldStaysWhole == Spec => []HoldIsWhole
<1>1. TypeInv => HoldIsWhole
  BY DEF TypeInv, Good, HoldIsWhole
<1> QED
  BY <1>1, TypeAlways, PTL
-----------------------------------------------------------------------------
(* Which choices a tick can mistake.  As long as nothing went astray, the  *)
(* commands under way repeat the last one, or lead to it while its window  *)
(* is open; and a device whose user has chosen nothing since the last      *)
(* decision is where the zone saw it, where the zone sent it, or on its    *)
(* way there with the window open.                                         *)

OnlyRepeats(s, m) == \A i \in 1 .. Len(s) : s[i].mode \in {None, m}

EndsWith(s, m) ==
  \E i \in 1 .. Len(s) : s[i].mode = m /\ \A j \in i + 1 .. Len(s) : s[j].mode = None

Explained(age) ==
  /\ InWindow(age) \/ OnlyRepeats(flight, lastCmd)
  /\ OnlyRepeats(flight, lastCmd) \/ EndsWith(flight, lastCmd)
  /\ lastCmd # None /\ ~fresh =>
       mode \in {prev, lastCmd} \/ (InWindow(age) /\ EndsWith(flight, lastCmd))

ChoiceInv ==
  ~astray =>
    /\ online
    /\ ~up => flight = <<>>
    /\ Explained(cmdAge)

LEMMA ExtendNothing == ASSUME NEW s \in Seq(Commands) PROVE s \o <<>> = s
OBVIOUS

LEMMA ExtendOne ==
  ASSUME NEW s \in Seq(Commands), NEW e \in Commands
  PROVE  s \o <<e>> = Append(s, e)
OBVIOUS

LEMMA Appended ==
  ASSUME NEW s \in Seq(Commands), NEW e \in Commands
  PROVE  /\ Append(s, e) \in Seq(Commands)
         /\ Len(s) \in Nat /\ Len(Append(s, e)) = Len(s) + 1
         /\ \A i \in 1 .. Len(s) : Append(s, e)[i] = s[i]
         /\ Append(s, e)[Len(s) + 1] = e
OBVIOUS

\* A write of a setpoint says nothing of modes.
LEMMA WriteIsNeutral ==
  ASSUME NEW s \in Seq(Commands), NEW e \in Commands, e.mode = None, NEW m
  PROVE  /\ OnlyRepeats(s, m) => OnlyRepeats(Append(s, e), m)
         /\ EndsWith(s, m) => EndsWith(Append(s, e), m)
<1> DEFINE t == Append(s, e)
<1>1. /\ Len(s) \in Nat /\ Len(t) = Len(s) + 1
      /\ \A i \in 1 .. Len(s) : t[i] = s[i]
      /\ t[Len(s) + 1] = e
  BY Appended
<1> HIDE DEF t
<1>2. \A i \in 1 .. Len(t) : i \in 1 .. Len(s) \/ i = Len(s) + 1
  BY <1>1
<1>3. ASSUME OnlyRepeats(s, m) PROVE OnlyRepeats(t, m)
  BY <1>1, <1>2, <1>3 DEF OnlyRepeats
<1>4. ASSUME EndsWith(s, m) PROVE EndsWith(t, m)
  <2>1. PICK i \in 1 .. Len(s) : s[i].mode = m /\ \A j \in i + 1 .. Len(s) : s[j].mode = None
    BY <1>4 DEF EndsWith
  <2>2. i \in 1 .. Len(t) /\ t[i].mode = m
    BY <1>1, <2>1
  <2>3. ASSUME NEW j \in i + 1 .. Len(t) PROVE t[j].mode = None
    BY <1>1, <2>1, <2>3
  <2> QED
    BY <2>2, <2>3 DEF EndsWith
<1> QED
  BY <1>3, <1>4 DEF t

LEMMA NudgeEnds ==
  ASSUME NEW s \in Seq(Commands), NEW e \in Commands
  PROVE  /\ EndsWith(Append(s, e), e.mode)
         /\ OnlyRepeats(s, e.mode) => OnlyRepeats(Append(s, e), e.mode)
<1> DEFINE t == Append(s, e)
<1>1. /\ Len(s) \in Nat /\ Len(t) = Len(s) + 1
      /\ \A i \in 1 .. Len(s) : t[i] = s[i]
      /\ t[Len(s) + 1] = e
  BY Appended
<1> HIDE DEF t
<1>2. EndsWith(t, e.mode)
  <2>1. Len(s) + 1 \in 1 .. Len(t) /\ t[Len(s) + 1].mode = e.mode
    BY <1>1
  <2>2. \A j \in (Len(s) + 1) + 1 .. Len(t) : t[j].mode = None
    BY <1>1
  <2> QED
    BY <2>1, <2>2 DEF EndsWith
<1>3. ASSUME OnlyRepeats(s, e.mode) PROVE OnlyRepeats(t, e.mode)
  BY <1>1, <1>3 DEF OnlyRepeats
<1> QED
  BY <1>2, <1>3 DEF t

\* What a regulated tick sends: a nudge or none, then a write or none.
Writes == {<<>>, <<Command(None, TRUE)>>}

LEMMA WriteSent ==
  ASSUME NEW s \in Seq(Commands), NEW w \in Writes, NEW m
  PROVE  /\ OnlyRepeats(s, m) => OnlyRepeats(s \o w, m)
         /\ EndsWith(s, m) => EndsWith(s \o w, m)
<1>1. Command(None, TRUE) \in Commands /\ Command(None, TRUE).mode = None
  BY DEF Command, Commands
<1>2. CASE w = <<>>
  BY <1>2, ExtendNothing
<1>3. CASE w = <<Command(None, TRUE)>>
  <2> DEFINE e == Command(None, TRUE)
  <2> HIDE DEF e
  <2>1. s \o w = Append(s, e)
    BY <1>1, <1>3, ExtendOne DEF e
  <2>2. /\ OnlyRepeats(s, m) => OnlyRepeats(Append(s, e), m)
        /\ EndsWith(s, m) => EndsWith(Append(s, e), m)
    BY <1>1, WriteIsNeutral, Zenon DEF e
  <2> QED
    BY <2>1, <2>2
<1> QED
  BY <1>2, <1>3 DEF Writes

LEMMA NudgeSent ==
  ASSUME NEW s \in Seq(Commands), NEW w \in Writes, NEW m \in Supported
  PROVE  /\ EndsWith(s \o <<Command(m, TRUE)>> \o w, m)
         /\ OnlyRepeats(s, m) => OnlyRepeats(s \o <<Command(m, TRUE)>> \o w, m)
<1> DEFINE e == Command(m, TRUE)
<1>1. e \in Commands /\ e.mode = m
  BY DEF Command, Commands
<1> HIDE DEF e
<1>2. s \o <<e>> = Append(s, e) /\ Append(s, e) \in Seq(Commands)
  BY <1>1, ExtendOne, Appended, Zenon
<1>3. /\ EndsWith(Append(s, e), m)
      /\ OnlyRepeats(s, m) => OnlyRepeats(Append(s, e), m)
  BY <1>1, NudgeEnds, Zenon
<1>4. /\ EndsWith(Append(s, e) \o w, m)
      /\ OnlyRepeats(s, m) => OnlyRepeats(Append(s, e) \o w, m)
  BY <1>2, <1>3, WriteSent, Zenon
<1> QED
  BY <1>2, <1>4 DEF e

LEMMA Landing ==
  ASSUME NEW s \in Seq(Commands), s # <<>>, NEW m
  PROVE  /\ Head(s) \in Commands
         /\ OnlyRepeats(s, m) => OnlyRepeats(Tail(s), m) /\ Head(s).mode \in {None, m}
         /\ EndsWith(s, m) => \/ Head(s).mode = m /\ OnlyRepeats(Tail(s), m)
                             \/ EndsWith(Tail(s), m)
<1> DEFINE t == Tail(s)
<1>1. /\ Len(s) \in Nat /\ Len(s) > 0 /\ Len(t) = Len(s) - 1
      /\ Head(s) = s[1] /\ Head(s) \in Commands
      /\ \A i \in 1 .. Len(t) : t[i] = s[i + 1]
  OBVIOUS
<1> HIDE DEF t
<1>2. ASSUME OnlyRepeats(s, m) PROVE OnlyRepeats(t, m) /\ Head(s).mode \in {None, m}
  BY <1>1, <1>2 DEF OnlyRepeats
<1>3. ASSUME EndsWith(s, m) PROVE (Head(s).mode = m /\ OnlyRepeats(t, m)) \/ EndsWith(t, m)
  <2>1. PICK i \in 1 .. Len(s) : s[i].mode = m /\ \A j \in i + 1 .. Len(s) : s[j].mode = None
    BY <1>3 DEF EndsWith
  <2>2. CASE i = 1
    BY <1>1, <2>1, <2>2 DEF OnlyRepeats
  <2>3. CASE i > 1
    <3>1. i - 1 \in 1 .. Len(t) /\ t[i - 1].mode = m
      BY <1>1, <2>1, <2>3
    <3>2. ASSUME NEW j \in (i - 1) + 1 .. Len(t) PROVE t[j].mode = None
      <4>1. j + 1 \in i + 1 .. Len(s) /\ t[j] = s[j + 1]
        BY <1>1, <2>1, <3>2
      <4> QED
        BY <2>1, <4>1
    <3> QED
      BY <3>1, <3>2 DEF EndsWith
  <2> QED
    BY <2>1, <2>2, <2>3
<1> QED
  BY <1>1, <1>2, <1>3 DEF t

LEMMA NothingUnderWay ==
  ASSUME NEW m
  PROVE  OnlyRepeats(<<>>, m) /\ ~EndsWith(<<>>, m)
BY DEF OnlyRepeats, EndsWith

\* The window only closes over a device that has caught up.
LEMMA StillExplained ==
  ASSUME TypeInv, ChoiceInv, ~astray, NEW d \in {0, 1}, NEW age, age = Aged(cmdAge, d, Window),
         d = 0 \/ flight = <<>> \/ InWindow(age)
  PROVE  Explained(age)
<1>1. /\ Explained(cmdAge)
      /\ cmdAge \in (0 .. Window) \cup {None}
      /\ Window \in Nat /\ None \notin Int
  BY HoldAssumption, ChannelAssumption DEF ChoiceInv, TypeInv, TypeOK
<1>2. CASE d = 0
  <2>1. age = cmdAge
    BY <1>1, <1>2 DEF Aged, Lesser
  <2> QED
    BY <1>1, <2>1
<1>3. CASE flight = <<>>
  BY <1>1, <1>3, NothingUnderWay DEF Explained
<1>4. CASE InWindow(age)
  <2>1. InWindow(cmdAge)
    BY <1>1, <1>4 DEF InWindow, Aged, Lesser
  <2> QED
    BY <1>1, <1>4, <2>1 DEF Explained
<1> QED
  BY <1>2, <1>3, <1>4

\* Only an adoption takes a mode over.
LEMMA OnlyAdoptionTakes ==
  ASSUME NEW h, NEW routed, routed = NoHold \/ routed.mode \in {None, h.mode},
         NEW age, NEW resumed, NEW mins,
         Adoption(routed, age, resumed, mins).mode \notin {None, h.mode}
  PROVE  Adopts(age, resumed)
BY DEF Adoption, NoHold

LEMMA LastingMode ==
  ASSUME NEW h, Good(h), NEW d \in Nat, NEW flip, NEW preheat
  PROVE  EndAtPreheat(ExpireHold(AgedHold(h, d), flip), policy, preheat).mode \in {None, h.mode}
<1>1. AgedHold(h, d).mode = h.mode
  BY DEF AgedHold, Good, Hold
<1>2. NoHold.mode = None
  BY DEF NoHold
<1> QED
  BY <1>1, <1>2 DEF ExpireHold, EndAtPreheat

LEMMA TickChoice ==
  ASSUME TypeInv, ChoiceInv, NEW d \in {0, 1}, Tick(d),
         d = 0 \/ flight = <<>> \/ InWindow(Aged(cmdAge, d, Window))
  PROVE  ChoiceInv' /\ (Takes => fresh \/ astray)
<1>1. PICK flip \in BOOLEAN, preheat \in BOOLEAN, rescues \in BOOLEAN, mins \in Points :
        LET age == Aged(cmdAge, d, Window)
            repeat == Aged(nudgeAge, d, Reassert)
            lasting == EndAtPreheat(ExpireHold(AgedHold(hold, d), flip), policy, preheat)
            resumed == Resumed(lasting)
            routed == IF resumed THEN NoHold ELSE lasting
        IN  IF enabled /\ routed.mode # "off"
            THEN /\ hold' = Adoption(routed, age, resumed, mins)
                 /\ Regulate(hold', age, repeat)
            ELSE /\ hold' = IF rescues /\ routed.mode = "off" THEN NoHold ELSE routed
                 /\ Rescue(age, repeat, rescues)
  BY DEF Tick
<1> DEFINE age == Aged(cmdAge, d, Window)
           repeat == Aged(nudgeAge, d, Reassert)
           lasting == EndAtPreheat(ExpireHold(AgedHold(hold, d), flip), policy, preheat)
           resumed == Resumed(lasting)
           routed == IF resumed THEN NoHold ELSE lasting
<1>2. SUFFICES ASSUME ~astray PROVE ChoiceInv' /\ (Takes => fresh)
  BY DEF ChoiceInv, Tick
<1>3. Explained(age)
  BY <1>2, StillExplained
<1>4. routed.mode \in {None, hold.mode}
  BY LastingMode DEF TypeInv, NoHold
<1>5. online /\ up /\ UNCHANGED <<up, mode, online, astray>>
  BY <1>2 DEF ChoiceInv, Tick, device
<1>6. Reading = mode /\ InWindow(0)
  BY <1>5, HoldAssumption, ChannelAssumption DEF Reading, InWindow
<1>7. flight \in Seq(Commands)
  BY DEF TypeInv, TypeOK
<1> HIDE DEF age, repeat, lasting, resumed, routed
<1>8. CASE enabled /\ routed.mode # "off"
  <2>1. hold' = Adoption(routed, age, resumed, mins) /\ Regulate(hold', age, repeat)
    BY <1>1, <1>8 DEF age, repeat, lasting, resumed, routed
  <2>2. Adopts(age, resumed) => fresh
    BY <1>3, <1>6 DEF Adopts, IsUserChange, Explained
  <2>3. Takes => fresh
    BY <1>4, <2>1, <2>2, OnlyAdoptionTakes DEF Takes
  <2>4. PICK held \in BOOLEAN, wrote \in BOOLEAN :
          LET m == Desired(hold')
              sends == NeedsNudge(m, repeat) /\ ~held
          IN  /\ lastCmd' = IF sends THEN m ELSE lastCmd
              /\ cmdAge' = IF sends /\ m # lastCmd THEN 0 ELSE age
              /\ flight' = flight \o (IF sends THEN <<Command(m, TRUE)>> ELSE <<>>)
                                  \o (IF wrote THEN <<Command(None, TRUE)>> ELSE <<>>)
              /\ prev' = Reference(age)
              /\ fresh' = (fresh /\ (InWindow(age) \/ ~online))
    BY <2>1 DEF Regulate
  <2> DEFINE m == Desired(hold')
             sends == NeedsNudge(m, repeat) /\ ~held
  <2>5. sends => m \in Supported
    BY DEF NeedsNudge
  <2>6. /\ sends => EndsWith(flight', m)
        /\ sends /\ OnlyRepeats(flight, m) => OnlyRepeats(flight', m)
        /\ ~sends /\ OnlyRepeats(flight, lastCmd) => OnlyRepeats(flight', lastCmd)
        /\ ~sends /\ EndsWith(flight, lastCmd) => EndsWith(flight', lastCmd)
    <3> DEFINE w == IF wrote THEN <<Command(None, TRUE)>> ELSE <<>>
    <3>1. w \in Writes
      BY DEF Writes
    <3>2. flight' = flight \o (IF sends THEN <<Command(m, TRUE)>> ELSE <<>>) \o w
      BY <2>4
    <3> HIDE DEF m, sends, w
    <3>3. CASE sends
      <4>1. flight' = flight \o <<Command(m, TRUE)>> \o w /\ m \in Supported
        BY <2>5, <3>2, <3>3
      <4>2. /\ EndsWith(flight', m)
            /\ OnlyRepeats(flight, m) => OnlyRepeats(flight', m)
        BY <1>7, <3>1, <4>1, NudgeSent, Zenon
      <4> QED
        BY <3>3, <4>2
    <3>4. CASE ~sends
      <4>1. flight' = flight \o w
        BY <1>7, <3>2, <3>4, ExtendNothing
      <4>2. /\ OnlyRepeats(flight, lastCmd) => OnlyRepeats(flight', lastCmd)
            /\ EndsWith(flight, lastCmd) => EndsWith(flight', lastCmd)
        BY <1>7, <3>1, <4>1, WriteSent, Zenon
      <4> QED
        BY <3>4, <4>2
    <3> QED
      BY <3>3, <3>4
  <2>7. /\ lastCmd' = IF sends THEN m ELSE lastCmd
        /\ cmdAge' = IF sends /\ m # lastCmd THEN 0 ELSE age
        /\ prev' = IF InWindow(age) THEN prev ELSE mode
        /\ fresh' = (fresh /\ InWindow(age))
    BY <1>5, <1>6, <2>4 DEF Reference
  <2> HIDE DEF m, sends
  <2>8. Explained(cmdAge)'
    <3>1. CASE sends /\ m # lastCmd
      BY <1>5, <1>6, <2>6, <2>7, <3>1 DEF Explained, InWindow
    <3>2. CASE sends /\ m = lastCmd
      BY <1>3, <1>5, <2>6, <2>7, <3>2 DEF Explained, InWindow
    <3>3. CASE ~sends
      BY <1>3, <1>5, <2>6, <2>7, <3>3 DEF Explained, InWindow
    <3> QED
      BY <3>1, <3>2, <3>3
  <2> QED
    BY <1>5, <2>3, <2>8 DEF ChoiceInv
<1>9. CASE ~(enabled /\ routed.mode # "off")
  <2>1. /\ hold' = IF rescues /\ routed.mode = "off" THEN NoHold ELSE routed
        /\ Rescue(age, repeat, rescues)
    BY <1>1, <1>9 DEF age, repeat, lasting, resumed, routed
  <2>2. ~Takes
    BY <1>4, <2>1 DEF Takes, NoHold
  <2>3. Explained(cmdAge)'
    <3>1. CASE rescues /\ mode # "heat" /\ "heat" \in Supported
      <4>1. Command("heat", FALSE) \in Commands /\ Command("heat", FALSE).mode = "heat"
        BY <3>1 DEF Command, Commands
      <4>2. EndsWith(Append(flight, Command("heat", FALSE)), "heat")
        BY <1>7, <4>1, NudgeEnds, Zenon
      <4>3. flight' = Append(flight, Command("heat", FALSE)) /\ lastCmd' = "heat" /\ cmdAge' = 0
        BY <2>1, <3>1 DEF Rescue
      <4>4. EndsWith(flight', lastCmd')
        BY <4>2, <4>3, Zenon
      <4> QED
        BY <1>6, <4>3, <4>4 DEF Explained, InWindow
    <3>2. CASE ~(rescues /\ mode # "heat" /\ "heat" \in Supported)
      BY <1>3, <1>5, <2>1, <3>2 DEF Rescue, Explained, InWindow
    <3> QED
      BY <3>1, <3>2
  <2> QED
    BY <1>5, <2>2, <2>3 DEF ChoiceInv
<1> QED
  BY <1>8, <1>9

LEMMA LandChoice ==
  ASSUME TypeInv, ChoiceInv, Land
  PROVE  ChoiceInv'
<1> DEFINE c == Head(flight)
<1>1. SUFFICES ASSUME ~astray PROVE ChoiceInv'
  BY DEF ChoiceInv, Land
<1>2. flight \in Seq(Commands) /\ flight # <<>>
  BY DEF TypeInv, TypeOK, Land
<1>3. /\ OnlyRepeats(flight, lastCmd) =>
           OnlyRepeats(flight', lastCmd) /\ c.mode \in {None, lastCmd}
      /\ EndsWith(flight, lastCmd) =>
           \/ c.mode = lastCmd /\ OnlyRepeats(flight', lastCmd)
           \/ EndsWith(flight', lastCmd)
  BY <1>2, Landing DEF Land
<1>4. /\ mode' = IF c.mode \notin {None, mode} THEN c.mode ELSE mode
      /\ fresh' = (fresh /\ c.mode \in {None, mode})
  BY DEF Land
<1>5. online' /\ up /\ up' /\ UNCHANGED <<lastCmd, cmdAge, prev, astray>>
  BY <1>1, <1>2 DEF ChoiceInv, Land, memory
<1>6. Explained(cmdAge)
  BY <1>1 DEF ChoiceInv
<1> HIDE DEF c
<1>7. Explained(cmdAge)'
  BY <1>3, <1>4, <1>5, <1>6 DEF Explained, InWindow
<1> QED
  BY <1>5, <1>7 DEF ChoiceInv

LEMMA ChoiceInit == Init => ChoiceInv
BY NothingUnderWay DEF Init, ChoiceInv, Explained

LEMMA ChoiceNext ==
  ASSUME TypeInv, ChoiceInv, Next \/ UNCHANGED vars
  PROVE  ChoiceInv' /\ (Takes => fresh \/ astray)
<1> USE DEF user, device, memory
<1>1. CASE TimerTick
  <2>1. Tick(1) /\ (flight = <<>> \/ InWindow(Aged(cmdAge, 1, Window)))
    BY <1>1 DEF TimerTick
  <2> QED
    BY <2>1, TickChoice
<1>2. CASE EventTick
  BY <1>2, TickChoice DEF EventTick
<1>3. CASE BlindTick
  <2>1. ~Takes
    BY <1>3 DEF BlindTick, AgedHold, Takes, TypeInv, Good, Hold
  <2>2. CASE ~astray'
    <3>1. UNCHANGED <<lastCmd, flight, astray>>
      BY <1>3, <2>2, Zenon DEF BlindTick
    <3>2. flight = <<>> /\ cmdAge' = Aged(cmdAge, 1, Window)
          /\ UNCHANGED <<up, prev, mode, online, fresh>>
      BY <1>3, Zenon DEF BlindTick
    <3>3. ~astray
      BY <2>2, <3>1
    <3> DEFINE age == Aged(cmdAge, 1, Window)
    <3>4. Explained(age)
      BY <3>2, <3>3, StillExplained
    <3>5. cmdAge' = age
      BY <3>2
    <3> HIDE DEF age
    <3>6. Explained(cmdAge)'
      BY <3>1, <3>2, <3>4, <3>5 DEF Explained, InWindow
    <3>7. online' /\ flight' = <<>>
      BY <3>1, <3>2, <3>3 DEF ChoiceInv
    <3>8. ChoiceInv'
      BY <3>6, <3>7 DEF ChoiceInv
    <3> QED
      BY <2>1, <3>8
  <2> QED
    BY <2>1, <2>2 DEF ChoiceInv
<1>4. CASE UserSelects
  <2>1. online' /\ fresh' /\ UNCHANGED <<up, hold, lastCmd, cmdAge, prev, flight, astray>>
    BY <1>4 DEF UserSelects
  <2> QED
    BY <2>1 DEF ChoiceInv, Explained, InWindow, Takes
<1>5. CASE SetTemperature \/ Resume \/ SelectActiveMode \/ Toggle \/ ChangePolicy \/ PlanChanges
  <2>1. UNCHANGED <<up, lastCmd, cmdAge, prev, mode, online, flight, fresh, astray>>
    BY <1>5 DEF SetTemperature, Resume, SelectActiveMode, Toggle, ChangePolicy, PlanChanges
  <2>2. hold'.mode \in {None, hold.mode}
    <3>1. \A mins : SetOverride(hold, policy, mins).mode = hold.mode
      BY DEF SetOverride, Announce, TypeInv, Good, Hold
    <3>2. ClearOverride(hold).mode \in {None, hold.mode}
      BY DEF ClearOverride, NoHold, TypeInv, Good, Hold
    <3> QED
      BY <1>5, <3>1, <3>2
         DEF SetTemperature, Resume, SelectActiveMode, Toggle, ChangePolicy, PlanChanges
  <2> QED
    BY <2>1, <2>2 DEF ChoiceInv, Explained, InWindow, Takes
<1>6. CASE Land
  <2>1. UNCHANGED hold
    BY <1>6 DEF Land
  <2> QED
    BY <1>6, <2>1, LandChoice DEF Takes
<1>7. CASE Lost \/ Vanishes
  BY <1>7 DEF Lost, Vanishes, ChoiceInv, Takes
<1>8. CASE Reports \/ Returns
  BY <1>8 DEF Reports, Returns, ChoiceInv, Explained, InWindow, Takes
<1>9. CASE Stop
  BY <1>9 DEF Stop, ChoiceInv, Explained, InWindow, Takes
<1>10. CASE Start
  <2>1. CASE ~astray
    <3>1. flight = <<>> /\ Explained(cmdAge) /\ online
      BY <1>10, <2>1 DEF Start, ChoiceInv
    <3> QED
      BY <1>10, <3>1, NothingUnderWay DEF Start, ChoiceInv, Explained, Takes
  <2> QED
    BY <1>10, <2>1 DEF Start, ChoiceInv, Takes
<1>11. CASE Elapse
  BY <1>11 DEF Elapse, ChoiceInv, Explained, InWindow, Takes
<1>12. CASE UNCHANGED vars
  BY <1>12 DEF vars, ChoiceInv, Explained, InWindow, Takes
<1> QED
  BY <1>1, <1>2, <1>3, <1>4, <1>5, <1>6, <1>7, <1>8, <1>9, <1>10, <1>11, <1>12 DEF Next

(***************************************************************************)
(* A mode is taken over as a hold only after the user has chosen it at the *)
(* device, and once: for all windows, repetition limits, devices and plans,*)
(* however many commands are under way, as long as none of them was lost,  *)
(* sent blindly or carried over a reload, and the device stayed reachable. *)
(***************************************************************************)
THEOREM ChoicesAreTakenOnce == Spec => ChoiceIsTakenOnce
<1>1. Init => ChoiceInv
  BY ChoiceInit
<1>2. TypeInv /\ ChoiceInv /\ [Next]_vars => ChoiceInv' /\ [Takes => fresh \/ astray]_vars
  BY ChoiceNext
<1> QED
  BY <1>1, <1>2, TypeAlways, PTL DEF Spec, ChoiceIsTakenOnce
-----------------------------------------------------------------------------
(* No repetition over an undecided choice.                                 *)

\* What is put on its way behind s.
Adds(s, t, c) == \E i \in Len(s) + 1 .. Len(t) : t[i] = c

LEMMA NothingAdded ==
  ASSUME NEW s \in Seq(Commands), NEW c
  PROVE  ~Adds(s, s, c)
BY DEF Adds

LEMMA OneAdded ==
  ASSUME NEW s \in Seq(Commands), NEW e \in Commands, NEW c
  PROVE  Adds(s, Append(s, e), c) => c = e
BY DEF Adds

LEMMA TwoAdded ==
  ASSUME NEW s \in Seq(Commands), NEW e \in Commands, NEW f \in Commands, NEW c
  PROVE  Adds(s, Append(Append(s, e), f), c) => c = e \/ c = f
BY DEF Adds

\* A regulated zone repeats its last command only if it nudges.
LEMMA OnlyNudgesRepeat ==
  ASSUME NEW s \in Seq(Commands), NEW w \in Writes, NEW m \in Supported, NEW sends \in BOOLEAN,
         NEW last, last # None,
         Adds(s, s \o (IF sends THEN <<Command(m, TRUE)>> ELSE <<>>) \o w, Command(last, TRUE))
  PROVE  sends /\ m = last
<1> DEFINE n == Command(m, TRUE)
           e == Command(None, TRUE)
           c == Command(last, TRUE)
<1>1. n \in Commands /\ e \in Commands /\ c # e /\ (c = n => m = last)
  BY DEF Command, Commands
<1> HIDE DEF n, e, c
<1>2. Append(s, n) \in Seq(Commands)
  BY <1>1, Appended, Zenon
<1>3. CASE sends
  <2>1. s \o <<n>> = Append(s, n)
    BY <1>1, ExtendOne, Zenon
  <2>2. CASE w = <<>>
    <3>1. Append(s, n) \o w = Append(s, n)
      BY <1>2, <2>2, ExtendNothing
    <3>2. Adds(s, Append(s, n), c)
      BY <1>3, <2>1, <3>1 DEF n, c
    <3> QED
      BY <1>1, <1>3, <3>2, OneAdded
  <2>3. CASE w = <<e>>
    <3>1. Append(s, n) \o w = Append(Append(s, n), e)
      BY <1>1, <1>2, <2>3, ExtendOne, Zenon
    <3>2. Adds(s, Append(Append(s, n), e), c)
      BY <1>3, <2>1, <3>1 DEF n, c
    <3> QED
      BY <1>1, <1>3, <3>2, TwoAdded
  <2> QED
    BY <2>2, <2>3 DEF Writes, e
<1>4. CASE ~sends
  <2>1. s \o <<>> = s
    BY ExtendNothing
  <2>2. CASE w = <<>>
    <3>1. Adds(s, s, c)
      BY <1>4, <2>1, <2>2 DEF c
    <3> QED
      BY <3>1, NothingAdded
  <2>3. CASE w = <<e>>
    <3>1. s \o w = Append(s, e)
      BY <1>1, <2>3, ExtendOne, Zenon
    <3>2. Adds(s, Append(s, e), c)
      BY <1>4, <2>1, <3>1 DEF c
    <3> QED
      BY <1>1, <3>2, OneAdded
  <2> QED
    BY <2>2, <2>3 DEF Writes, e
<1> QED
  BY <1>3, <1>4

\* The repetition limit outlasts the window that began with the same command.
LEMMA LimitOutlastsWindow ==
  ASSUME NEW c \in (0 .. Window) \cup {None}, NEW d \in Nat,
         c \in (0 .. Reassert) \cup {None}, NEW m, ~Throttled(m, Aged(c, d, Reassert)), m = lastCmd
  PROVE  ~InWindow(Aged(c, d, Window))
<1>1. Window \in Nat /\ Reassert \in Nat /\ Window <= Reassert /\ None \notin Int
  BY ChannelAssumption, HoldAssumption
<1>2. CASE c = None
  BY <1>2 DEF Aged, InWindow
<1>3. CASE c # None
  <2>1. c \in Nat /\ Aged(c, d, Reassert) = Lesser(c + d, Reassert)
        /\ Aged(c, d, Window) = Lesser(c + d, Window)
    BY <1>3 DEF Aged
  <2>2. Lesser(c + d, Reassert) \in Int /\ Lesser(c + d, Reassert) # None
    BY <1>1, <2>1 DEF Lesser
  <2>3. Lesser(c + d, Reassert) >= Reassert
    BY <1>1, <2>1, <2>2 DEF Throttled
  <2>4. Lesser(c + d, Window) >= Window
    BY <1>1, <2>1, <2>3 DEF Lesser
  <2> QED
    BY <1>1, <2>1, <2>4 DEF InWindow, Lesser
<1> QED
  BY <1>2, <1>3

Spares == Repeats /\ fresh /\ ~plan.safety /\ cmdAge = nudgeAge => ~InWindow(cmdAge')

LEMMA TickSpares ==
  ASSUME TypeInv, NEW d \in Nat, Tick(d)
  PROVE  Spares
<1> SUFFICES ASSUME Repeats, cmdAge = nudgeAge PROVE ~InWindow(cmdAge')
  BY DEF Spares
<1>1. PICK flip \in BOOLEAN, preheat \in BOOLEAN, rescues \in BOOLEAN, mins \in Points :
        LET age == Aged(cmdAge, d, Window)
            repeat == Aged(nudgeAge, d, Reassert)
            lasting == EndAtPreheat(ExpireHold(AgedHold(hold, d), flip), policy, preheat)
            resumed == Resumed(lasting)
            routed == IF resumed THEN NoHold ELSE lasting
        IN  IF enabled /\ routed.mode # "off"
            THEN Regulate(hold', age, repeat)
            ELSE Rescue(age, repeat, rescues)
  BY DEF Tick
<1> DEFINE age == Aged(cmdAge, d, Window)
           repeat == Aged(nudgeAge, d, Reassert)
<1>2. Regulate(hold', age, repeat) \/ Rescue(age, repeat, rescues)
  BY <1>1, Zenon
<1>3. lastCmd # None /\ Adds(flight, flight', Command(lastCmd, TRUE))
  BY DEF Repeats, Adds
<1>4. flight \in Seq(Commands) /\ cmdAge \in (0 .. Window) \cup {None}
      /\ nudgeAge \in (0 .. Reassert) \cup {None}
  BY DEF TypeInv, TypeOK
<1> HIDE DEF age, repeat
<1>5. CASE Rescue(age, repeat, rescues)
  <2>1. Command("heat", FALSE) # Command(lastCmd, TRUE)
    BY DEF Command
  <2>2. "heat" \in Supported => Command("heat", FALSE) \in Commands
    BY DEF Command, Commands
  <2>3. \/ flight' = flight
        \/ "heat" \in Supported /\ flight' = Append(flight, Command("heat", FALSE))
    BY <1>5 DEF Rescue
  <2> QED
    BY <1>3, <1>4, <2>1, <2>2, <2>3, NothingAdded, OneAdded
<1>6. CASE Regulate(hold', age, repeat)
  <2>1. PICK held \in BOOLEAN, wrote \in BOOLEAN :
          LET m == Desired(hold')
              sends == NeedsNudge(m, repeat) /\ ~held
          IN  /\ cmdAge' = IF sends /\ m # lastCmd THEN 0 ELSE age
              /\ flight' = flight \o (IF sends THEN <<Command(m, TRUE)>> ELSE <<>>)
                                  \o (IF wrote THEN <<Command(None, TRUE)>> ELSE <<>>)
    BY <1>6 DEF Regulate
  <2> DEFINE m == Desired(hold')
             sends == NeedsNudge(m, repeat) /\ ~held
             w == IF wrote THEN <<Command(None, TRUE)>> ELSE <<>>
             nudge == IF sends THEN <<Command(m, TRUE)>> ELSE <<>>
  <2>2. w \in Writes
    BY DEF Writes
  <2>3. flight' = flight \o nudge \o w
    BY <2>1
  <2>4. sends => m \in Supported
    BY DEF NeedsNudge
  <2>5. cmdAge' = IF sends /\ m # lastCmd THEN 0 ELSE age
    BY <2>1
  <2>6. sends => ~Throttled(m, repeat)
    BY DEF NeedsNudge
  <2> HIDE DEF m, w, sends
  <2>7. sends /\ m = lastCmd
    <3>1. CASE sends
      <4>1. m \in Supported /\ nudge = IF TRUE THEN <<Command(m, TRUE)>> ELSE <<>>
        BY <2>4, <3>1
      <4>2. Adds(flight, flight \o (IF TRUE THEN <<Command(m, TRUE)>> ELSE <<>>) \o w,
                 Command(lastCmd, TRUE))
        BY <1>3, <2>3, <4>1
      <4>3. m = lastCmd
        BY <1>3, <1>4, <2>2, <4>1, <4>2, OnlyNudgesRepeat
      <4> QED
        BY <3>1, <4>3
    <3>2. CASE ~sends
      <4>1. flight' = flight \o w
        BY <1>4, <2>3, <3>2, ExtendNothing
      <4>2. Adds(flight, flight \o w, Command(lastCmd, TRUE))
        BY <1>3, <4>1
      <4>3. Command(None, TRUE) \in Commands /\ Command(None, TRUE) # Command(lastCmd, TRUE)
        BY <1>3 DEF Command, Commands
      <4>4. CASE w = <<>>
        BY <1>4, <4>2, <4>4, ExtendNothing, NothingAdded
      <4>5. CASE w = <<Command(None, TRUE)>>
        <5>1. flight \o w = Append(flight, Command(None, TRUE))
          BY <1>4, <4>3, <4>5, ExtendOne
        <5> QED
          BY <1>4, <4>2, <4>3, <5>1, OneAdded
      <4> QED
        BY <2>2, <4>4, <4>5 DEF Writes
    <3> QED
      BY <3>1, <3>2
  <2>8. cmdAge' = age
    BY <2>5, <2>7
  <2>9. ~Throttled(lastCmd, Aged(cmdAge, d, Reassert))
    BY <2>6, <2>7 DEF repeat
  <2>10. ~InWindow(Aged(cmdAge, d, Window))
    BY <1>4, <2>9, LimitOutlastsWindow
  <2> QED
    BY <2>8, <2>10 DEF age
<1> QED
  BY <1>2, <1>5, <1>6

LEMMA NextSpares ==
  ASSUME TypeInv, Next \/ UNCHANGED vars
  PROVE  Spares
<1> USE DEF user, device, memory
<1>1. flight \in Seq(Commands)
  BY DEF TypeInv, TypeOK
<1>2. CASE TimerTick \/ EventTick
  BY <1>2, TickSpares DEF TimerTick, EventTick
<1>3. CASE BlindTick
  <2>1. \/ flight' = flight
        \/ SafeMode \in Supported /\ flight' = Append(flight, Command(SafeMode, FALSE))
    BY <1>3 DEF BlindTick
  <2>2. SafeMode \in Supported => Command(SafeMode, FALSE) \in Commands
    BY DEF Command, Commands
  <2>3. Command(SafeMode, FALSE) # Command(lastCmd, TRUE)
    BY DEF Command
  <2>4. ~Adds(flight, flight', Command(lastCmd, TRUE))
    BY <1>1, <2>1, <2>2, <2>3, NothingAdded, OneAdded
  <2> QED
    BY <2>4 DEF Spares, Repeats, Adds
<1>4. CASE UNCHANGED flight
  <2>1. ~Adds(flight, flight', Command(lastCmd, TRUE))
    BY <1>1, <1>4, NothingAdded
  <2> QED
    BY <2>1 DEF Spares, Repeats, Adds
<1>5. CASE Land \/ Lost
  <2>1. flight # <<>> /\ flight' = Tail(flight)
    BY <1>5 DEF Land, Lost
  <2>2. Len(flight') < Len(flight) + 1 /\ Len(flight) \in Nat /\ Len(flight') \in Nat
    BY <1>1, <2>1
  <2>3. Len(flight) + 1 .. Len(flight') = {}
    BY <2>2
  <2> QED
    BY <2>3 DEF Spares, Repeats
<1> QED
  BY <1>2, <1>3, <1>4, <1>5
     DEF Next, UserSelects, SetTemperature, Resume, SelectActiveMode, Toggle, ChangePolicy,
         PlanChanges, Reports, Vanishes, Returns, Stop, Start, Elapse, vars

(***************************************************************************)
(* The echo window spares an undecided choice, for all windows and limits: *)
(* a repetition of the command that opened the window never falls into it, *)
(* since the limit on repetitions outlasts it.                             *)
(***************************************************************************)
THEOREM WindowIsSpared == Spec => WindowSparesChoice
<1>1. TypeInv /\ [Next]_vars => [Spares]_vars
  BY NextSpares
<1> QED
  BY <1>1, TypeAlways, PTL DEF Spec, WindowSparesChoice, Spares
-----------------------------------------------------------------------------
(* The other part of the choices: the setpoint.                            *)

\* While the mode moves, the setpoint rests.
LEMMA SetpointPart == PartsSpec => Setpoint!Spec
<1>1. PartsInit => Setpoint!Init
  BY DEF PartsInit
<1>2. [PartsNext]_<<part, vars, setpoint>> => [Setpoint!Next]_(Setpoint!vars)
  BY DEF PartsNext, setpoint, Setpoint!vars
<1> QED
  BY <1>1, <1>2, PTL DEF PartsSpec, Setpoint!Spec

\* In the run of the choices as in the channel of its own, for every grid, plan and
\* threshold, on a device that settles where it is told: one setpoint choice becomes one
\* hold, and no command is repeated over a choice that the echo window keeps undecided
\* (override.py, write_economy.py).
THEOREM SetpointIsHeard ==
  ASSUME Setpoint!PlainDevice
  PROVE  PartsSpec => SetpointChoiceIsHeard
<1>1. Setpoint!SetpointAssumption
  BY PartsAssumption
<1>2. Setpoint!ConvergenceAssumption
  BY DEF Setpoint!ConvergenceAssumption
<1>3. Setpoint!Spec => []Setpoint!TypeOK
  BY <1>1, <1>2, Setpoint!TypeCorrect
<1>4. Setpoint!Spec => Setpoint!ChoiceIsTakenOnce
  BY <1>1, <1>2, Setpoint!SetpointsAreTakenOnce
<1>5. Setpoint!Spec => Setpoint!WindowSparesChoice
  BY <1>1, <1>2, Setpoint!WindowIsSpared
<1>6. [Setpoint!TakesAChoice]_(Setpoint!vars) /\ [Setpoint!SparesChoice]_(Setpoint!vars) =>
        [part = "setpoint" => Setpoint!TakesAChoice /\ Setpoint!SparesChoice]_setpoint
  BY DEF setpoint, Setpoint!vars
<1>7. Setpoint!TypeOK => (part = "setpoint" => Setpoint!TypeOK)
  OBVIOUS
<1> QED
  BY <1>3, <1>4, <1>5, <1>6, <1>7, SetpointPart, PTL
     DEF Setpoint!ChoiceIsTakenOnce, Setpoint!WindowSparesChoice, SetpointChoiceIsHeard
===============================================================================
