------------------------------- MODULE MCOutbox -------------------------------
(***************************************************************************)
(* Instances of Outbox for TLC.                                            *)
(***************************************************************************)
EXTENDS Outbox, TLC

CONSTANTS w1, w2, a1

MCWorkers == {w1, w2}
MCAggs    == {a1}

\* Three events; the second one belongs to no aggregate.
MCIds   == 1..3
MCAggOf == [i \in MCIds |-> IF i = 2 THEN NoAgg ELSE a1]

\* Two events, of one aggregate.
MCIdsPair   == 1..2
MCAggOfPair == [i \in MCIdsPair |-> a1]

\* Two events outside every aggregate.
MCAggOfNone == [i \in MCIdsPair |-> NoAgg]
===============================================================================
