-------------------------- MODULE MCTrvCalibration --------------------------
(* Two calibration numbers for TLC: the one the room starts with had been   *)
(* given an offset by the user, the one it is moved to had not.             *)
EXTENDS TrvCalibration

CONSTANTS n1, n2

MCOriginal == [e \in {n1, n2} |-> IF e = n1 THEN 1 ELSE 0]
=============================================================================
