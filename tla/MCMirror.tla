------------------------------- MODULE MCMirror -------------------------------
(***************************************************************************)
(* Instances of Mirror for TLC.                                            *)
(***************************************************************************)
EXTENDS Mirror

MCKeys == 1..2
MCKey  == {1}
===============================================================================
