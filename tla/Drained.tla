-------------------------------- MODULE Drained -------------------------------
(***************************************************************************)
(* What the drain statements of pg/outbox.go return, as operators on sets  *)
(* of event ids; shared by the consumers of the outbox.                    *)
(***************************************************************************)
EXTENDS Naturals, FiniteSets

\* ORDER BY "id" LIMIT n over the candidate rows S.
FirstBatch(S, n) ==
    {C \in SUBSET S : /\ Cardinality(C) <= n
                      /\ Cardinality(C) < n => C = S
                      /\ \A i \in C, j \in S \ C : i < j}

\* The head of a batch, as a set.
Lowest(S) == {i \in S : \A j \in S : i <= j}
===============================================================================
