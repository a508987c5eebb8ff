------------------------------ MODULE MCDeployment ------------------------------
(* The deployed service for TLC. *)
EXTENDS Deployment, TLC

CONSTANTS k1, k2

(* The first release has one setting and the others add one; or it has     *)
(* none of those that are looked at.                                       *)
AddsSecond == [r \in Releases |-> IF r = 1 THEN {k1} ELSE {k1, k2}]
AddsFirst == [r \in Releases |-> IF r = 1 THEN {} ELSE {k1}]
===============================================================================
