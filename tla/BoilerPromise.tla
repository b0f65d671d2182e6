----------------------------- MODULE BoilerPromise -----------------------------
(***************************************************************************)
(* What the hub promises the boiler, seen from the boiler: while the hub   *)
(* is in charge it never ends a run before MinOn nor a rest before MinOff, *)
(* up to the Slack a service call may take to arrive.  The promise is as   *)
(* good as the hub's record of the past: `unknown' counts, up to two, the  *)
(* switches the hub has no saved record of.  A rest may be cut short after *)
(* one such switch (the hub then reads "off" and must not block a frost    *)
(* call on a guess), a run only after two.                                 *)
(***************************************************************************)
EXTENDS Naturals

CONSTANTS
  RunTime,     \* the promised minimum run
  RestTime,    \* the promised minimum rest
  Horizon      \* ages saturate here

VARIABLES
  on,        \* the boiler runs
  held,      \* time since it last switched, saturated at Horizon
  unknown,   \* switches without a saved record: 0, 1 or "2 and more"
  charge     \* the hub drives the boiler

pvars == <<on, held, unknown, charge>>

More(n) == IF n < 2 THEN n + 1 ELSE 2
-----------------------------------------------------------------------------
PInit ==
  /\ on \in BOOLEAN
  /\ held = Horizon
  /\ unknown = 2
  /\ charge = FALSE

TakeCharge == charge' = TRUE /\ UNCHANGED <<on, held, unknown>>

SwitchOn ==
  /\ charge /\ ~on
  /\ held >= RestTime \/ unknown >= 1
  /\ on' = TRUE /\ held' = 0 /\ unknown' = More(unknown)
  /\ UNCHANGED charge

SwitchOff ==
  /\ charge /\ on
  /\ held >= RunTime \/ unknown = 2
  /\ on' = FALSE /\ held' = 0 /\ unknown' = More(unknown)
  /\ UNCHANGED charge

\* The last switch is saved; the save is lost or unreadable.
Record == unknown' = 0 /\ UNCHANGED <<on, held, charge>>
Doubt == unknown' = 1 /\ unknown = 0 /\ UNCHANGED <<on, held, charge>>

\* Giving the boiler up may switch it off, whatever its run.
LetGo ==
  /\ charge' = FALSE
  /\ \/ UNCHANGED <<on, held, unknown>>
     \/ on /\ on' = FALSE /\ held' = 0 /\ unknown' = More(unknown)

\* Another boiler takes its place.
Replace ==
  /\ charge' = FALSE
  /\ on' \in BOOLEAN /\ held' = Horizon /\ unknown' = 2

Wait ==
  /\ held' = (IF held < Horizon THEN held + 1 ELSE held)
  /\ UNCHANGED <<on, unknown, charge>>

PNext ==
  TakeCharge \/ SwitchOn \/ SwitchOff \/ Record \/ Doubt \/ LetGo \/ Replace \/ Wait

PSpec == PInit /\ [][PNext]_pvars
=============================================================================
