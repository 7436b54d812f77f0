------------------------------ MODULE MCJobQueue ------------------------------
(***************************************************************************)
(* Instances of JobQueue for TLC.                                          *)
(***************************************************************************)
EXTENDS JobQueue, TLC

CONSTANTS w1, w2, s1, s2

\* w2 passes Claim a kind; w1 takes any.
MCIds     == 1..3
MCSlots   == {s1, s2}
MCWorkers == {w1, w2}
MCKinds   == [w \in MCWorkers |-> IF w = w2 THEN {s1} ELSE MCSlots]
===============================================================================
