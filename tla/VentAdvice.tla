---------------------------- MODULE VentAdvice ----------------------------
(***************************************************************************)
(* The ventilation advice as a zone lives it: the tick composes the        *)
(* verdict (diagnostics/shadows.py, behind its own error boundary), keeps  *)
(* the latch the next tick reads, and announces the change on the bus and  *)
(* as a notification (ha/phase_prepare.py).  The user opens and shuts the  *)
(* window, dismisses the notification, switches it off in the options; the *)
(* room's entry is reloaded, Home Assistant restarts.                      *)
(***************************************************************************)
EXTENDS VentTable

CONSTANTS
  Faults    \* subset of AllFaults a model draws from

AllFaults == {"optout", "reload"}
\* What the constants must be: assumed where they get their values.
VentFaultsAssumption == Faults \subseteq AllFaults

VARIABLES
  air,      \* what the last tick read
  open,     \* the window contact
  latch,    \* humidity.vent_active, vent_reason
  last,     \* humidity.vent_last_action, vent_last_reason
  note,     \* the persistent notification of the zone is up
  optin,    \* the option vent_notify
  turns     \* changes between opening and closing since the air last changed

vars == <<air, open, latch, last, note, optin, turns>>

NotifyReasons == {"mold_guard", "moisture_protect"}
Unannounced == [action |-> "", reason |-> ""]
Announced == {Unannounced} \cup [action : Actions, reason : TableReasons]

TypeOK ==
  /\ air \in Airs /\ open \in BOOLEAN
  /\ latch \in [active : BOOLEAN, reason : {""} \cup TableReasons]
  /\ last \in Announced
  /\ note \in BOOLEAN /\ optin \in BOOLEAN
  /\ turns \in 0..3

Init ==
  /\ air \in Airs /\ open = FALSE
  /\ latch = NoAdvice
  /\ last = Unannounced
  /\ note = FALSE /\ optin \in BOOLEAN
  /\ turns = 0
----------------------------------------------------------------------------
\* The pair is the edge for the reasons that carry an episode of their own.
Key(advice) ==
  <<advice.action, IF advice.reason \in NotifyReasons THEN advice.reason ELSE "">>

Episode(advice) == advice.action = "open" \/ advice.reason \in NotifyReasons

\* advice_transition
Silent(prev, advice) ==
  Key(advice) = Key(prev) \/ (prev.action = "" /\ advice.action = "idle")
Creates(prev, advice) == ~Silent(prev, advice) /\ optin /\ Episode(advice)
Dismisses(prev, advice) ==
  ~Silent(prev, advice) /\ optin /\ Episode(prev) /\ ~Episode(advice)

_announce_vent_advice(advice) ==
  /\ last' = [action |-> advice.action, reason |-> advice.reason]
  /\ note' = IF Creates(last, advice) THEN TRUE
             ELSE IF Dismisses(last, advice) THEN FALSE ELSE note

\* Ghost: how often the advice has turned round in one and the same air.
Turned(advice) ==
  /\ {last.action, advice.action} = {"open", "close"}
Turns(a, advice) ==
  IF a # air THEN 0
  ELSE IF Turned(advice) /\ turns < 3 THEN turns + 1 ELSE turns

\* One tick over the air a: the composition, its latch, the announcement.  A
\* composition that raises publishes no advice and moves nothing.
Tick(a) ==
  LET advice == ventilation_advise(a, open, latch)
  IN /\ air' = a
     /\ latch' = [active |-> advice.action = "open", reason |-> advice.reason]
     /\ _announce_vent_advice(advice)
     /\ turns' = Turns(a, advice)
     /\ UNCHANGED <<open, optin>>

MoveWindow == open' = ~open /\ UNCHANGED <<air, latch, last, note, optin, turns>>

DismissByHand == note /\ note' = FALSE /\ UNCHANGED <<air, open, latch, last, optin, turns>>

\* The option is switched, as the fault "optout" also off.
SwitchOption ==
  /\ optin => "optout" \in Faults
  /\ optin' = ~optin /\ UNCHANGED <<air, open, latch, last, note, turns>>

\* A fresh runtime, of which only vent_active was in the store.  When Home
\* Assistant restarts its notifications are gone; when only the room's entry
\* is reloaded they stay.
FreshRuntime(keepsNotes) ==
  /\ keepsNotes => "reload" \in Faults
  /\ latch' = [latch EXCEPT !.reason = ""]
  /\ last' = Unannounced
  /\ note' = (note /\ keepsNotes)
  /\ turns' = 0
  /\ UNCHANGED <<air, open, optin>>

Next ==
  \/ \E a \in Airs : Tick(a)
  \/ MoveWindow \/ DismissByHand \/ SwitchOption
  \/ \E keepsNotes \in BOOLEAN : FreshRuntime(keepsNotes)

Spec == Init /\ [][Next]_vars
----------------------------------------------------------------------------
(* The notification clears itself (B.5, "self-clearing"): it is up only   *)
(* while the advice last announced is one it stands for, whatever the user*)
(* did to the window, the notification and the option meanwhile.          *)
NoteIsCurrent == note => Episode(last)

(* Following the advice does not turn it round (N6, N6b, N7): in one and  *)
(* the same air, where no mould floor is enforced and the airing is one   *)
(* for moisture, the tick after the user opened the window does not tell  *)
(* the user to close it.                                                  *)
MoistureAiringIsNotReversed ==
  [][ (/\ air' = air /\ ~air.engaged
       /\ last.reason \in {"moisture_out", "moisture_protect", "mold_risk"})
      => last'.action # "close" ]_vars

(* One advice per air: while the air stays as it is, a zone without an    *)
(* enforced floor and without free cooling changes from opening to closing*)
(* at most once, however often the user moves the window.                 *)
SteadyAirSteadyAdvice == (~air.engaged /\ ~FreeCoolZone) => turns <= 1

(* The same without the two exceptions, as N6 and N9 read: the contact    *)
(* alone does not keep turning the advice round.                          *)
ContactDoesNotTurnAdvice == turns <= 2
=============================================================================
