----------------------------- MODULE OnceRegister -----------------------------
(***************************************************************************)
(* What an idempotency store promises: a key's operation is performed once *)
(* while its record lives, and everybody is told the result of that one    *)
(* performance.  Records are forgotten some time after they expire; a      *)
(* caller that is under way when its record goes is an orphan, and may     *)
(* perform the operation once more, with or without leaving a record.      *)
(***************************************************************************)
CONSTANTS Callers, Keys, Results, NoResult

VARIABLES
    result,   \* result[k]: what the recorded performance of k gave
    told,     \* told[c]: what c was last told
    orphans

onceVars == <<result, told, orphans>>

OnceInit ==
    /\ result = [k \in Keys |-> NoResult]
    /\ told = [c \in Callers |-> NoResult]
    /\ orphans = {}

Perform(c, k, v) ==
    /\ result[k] = NoResult
    /\ result' = [result EXCEPT ![k] = v]
    /\ told' = [told EXCEPT ![c] = v]
    /\ orphans' = orphans \ {c}

\* Performed, and c is left in the dark.
PerformUntold(k, v) ==
    /\ result[k] = NoResult
    /\ result' = [result EXCEPT ![k] = v]
    /\ UNCHANGED <<told, orphans>>

Recall(c, k) ==
    /\ result[k] # NoResult
    /\ told' = [told EXCEPT ![c] = result[k]]
    /\ orphans' = orphans \ {c}
    /\ UNCHANGED result

Forget(k) ==
    /\ result' = [result EXCEPT ![k] = NoResult]
    /\ orphans \subseteq orphans' /\ orphans' \subseteq Callers
    /\ UNCHANGED told

\* An orphan performs k again, behind the back of the record if there is a new one.
Overrun(c, k, v) ==
    /\ c \in orphans
    /\ result' \in {result, [result EXCEPT ![k] = v]}
    /\ told' \in {told, [told EXCEPT ![c] = v]}
    /\ orphans' \in {orphans, orphans \ {c}}

GiveUp(c) == orphans' = orphans \ {c} /\ UNCHANGED <<result, told>>

OnceNext ==
    \/ \E c \in Callers, k \in Keys : Recall(c, k)
    \/ \E c \in Callers, k \in Keys, v \in Results : Perform(c, k, v) \/ Overrun(c, k, v)
    \/ \E k \in Keys, v \in Results : PerformUntold(k, v)
    \/ \E k \in Keys : Forget(k)
    \/ \E c \in Callers : GiveUp(c)

OnceSpec == OnceInit /\ [][OnceNext]_onceVars
===============================================================================
