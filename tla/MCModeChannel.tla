----------------------------- MODULE MCModeChannel -----------------------------
(* ModeChannel with a device that heats and cools, and with a radiator that a
   window sensor may shut off.                                             *)
EXTENDS ModeChannel

HeatOrCool == {[want |-> "heat", safety |-> FALSE], [want |-> "cool", safety |-> FALSE],
               [want |-> "heat", safety |-> TRUE]}

Radiator == {[want |-> "heat", safety |-> FALSE], [want |-> "off", safety |-> TRUE]}

\* Under one policy: choices is where the user changes it.
OnePolicy == Next /\ policy' = policy
AgreeSpec ==
  /\ Init /\ [][OnePolicy \/ CalmDown]_vars
  /\ WF_vars(TimerTick) /\ WF_vars(Start) /\ WF_vars(Returns) /\ WF_vars(Land)
=============================================================================
