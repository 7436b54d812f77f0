------------------------------- MODULE MCDurable -------------------------------
(***************************************************************************)
(* Instances of the idempotency keys, the saga and the logical source with *)
(* its pump for TLC.  A behaviour exercises one of them, which Init picks; *)
(* the others stay where they start.                                       *)
(***************************************************************************)
EXTENDS Idempotency, Saga, LogicalSource

VARIABLE system

Init ==
    /\ system \in {"idempotency", "saga", "logical"}
    /\ IdemInit /\ SagaInit /\ LogicalInit

others(mine) ==
    /\ mine # "idempotency" => UNCHANGED idemVars
    /\ mine # "saga" => UNCHANGED sagaVars
    /\ mine # "logical" => UNCHANGED logicalVars

Next ==
    /\ UNCHANGED system
    /\ \/ system = "idempotency" /\ IdemNext
       \/ system = "saga" /\ SagaNext
       \/ system = "logical" /\ LogicalNext
    /\ others(system)

\* PostgreSQL's lock queues are fair; the reader and the pump are loops that run
\* until they are stopped.
Spec ==
    /\ Init /\ [][Next]_<<system, idemVars, sagaVars, logicalVars>>
    /\ \A c \in Callers : SF_idemVars(system = "idempotency" /\ RunStep(c) /\ others(system))
    /\ WF_logicalVars(system = "logical" /\ ReaderStep /\ others(system))
    /\ WF_logicalVars(system = "logical" /\ PumpStep /\ others(system))

\* The type invariants of the three.
DurableTypeOK == IdemTypeOK /\ SagaTypeOK /\ LogicalTypeOK
================================================================================
