--------------------------------- MODULE Saga ---------------------------------
(***************************************************************************)
(* Sagas: pg/saga.go, over InTx and its retries (pg/db.go, pg/retry.go).   *)
(*                                                                         *)
(* A step's effect and its compensation are each one transaction.  Of the  *)
(* database the model keeps which steps' effects are in place.  An error   *)
(* of the retryable classes means that nothing was committed; any other    *)
(* error may hide a commit that took effect.                               *)
(***************************************************************************)
EXTENDS Naturals, Sequences, FiniteSets

CONSTANTS
    Steps,       \* how many steps the saga has
    NoComp,      \* the steps whose compensate is nil
    MaxAttempts, \* of the retry policy
    MaxFaults    \* bound on what goes wrong

ASSUME SagaAssumption ==
    /\ Steps \in Nat \ {0} /\ NoComp \subseteq 1..Steps
    /\ MaxAttempts \in Nat \ {0} /\ MaxFaults \in Nat

VARIABLES
    phase,      \* "forward", "compensate", or how Run ended
    at,         \* the step being run or compensated
    attempt,    \* InTx's attempt at it
    completed,  \* the steps that completed
    failures,   \* CompFailures
    inPlace,    \* steps whose effect is in the database
    hidden,     \* history: steps whose commit took effect and reported an error
    undone,     \* history: the order in which compensations took effect
    faults

sagaVars == <<phase, at, attempt, completed, failures, inPlace, hidden, undone, faults>>

SagaTypeOK ==
    /\ phase \in {"forward", "compensate", "ok", "error", "panicked", "crashed"}
    /\ at \in 0..Steps + 1
    /\ attempt \in 1..MaxAttempts
    /\ completed \subseteq 1..Steps /\ failures \subseteq completed
    /\ inPlace \subseteq 1..Steps /\ hidden \subseteq 1..Steps
    /\ undone \in Seq(1..Steps)
    /\ faults \in 0..MaxFaults

SagaInit ==
    /\ phase = "forward" /\ at = 1 /\ attempt = 1
    /\ completed = {} /\ failures = {} /\ inPlace = {} /\ hidden = {} /\ undone = <<>>
    /\ faults = 0

Fault == faults < MaxFaults /\ faults' = faults + 1

-------------------------------------------------------------------------------
(***************************************************************************)
(* Run: the steps forward.                                                 *)
(***************************************************************************)

\* The step's transaction commits and InTx says so.
StepCommits ==
    /\ phase = "forward" /\ at <= Steps
    /\ inPlace' = inPlace \cup {at}
    /\ completed' = completed \cup {at}
    /\ at' = at + 1 /\ attempt' = 1
    /\ UNCHANGED <<phase, failures, hidden, undone, faults>>

\* Where runCompensations begins: the last completed step.
LastCompleted == IF completed = {} THEN 0 ELSE CHOOSE i \in completed : \A j \in completed : j <= i

\* InTx fails in a retryable way and has attempts left: the step is run again.
StepRetried ==
    /\ phase = "forward" /\ at <= Steps /\ attempt < MaxAttempts
    /\ Fault
    /\ attempt' = attempt + 1
    /\ UNCHANGED <<phase, at, completed, failures, inPlace, hidden, undone>>

\* InTx returns an error: rolled back, or committed all the same.
StepFails ==
    /\ phase = "forward" /\ at <= Steps
    /\ Fault
    /\ \/ UNCHANGED <<inPlace, hidden>>
       \/ inPlace' = inPlace \cup {at} /\ hidden' = hidden \cup {at}
    /\ phase' = "compensate" /\ at' = LastCompleted /\ attempt' = 1
    /\ UNCHANGED <<completed, failures, undone>>

\* A step panics: InTx rolls back and the panic leaves Run, compensating nothing.
StepPanics ==
    /\ phase = "forward" /\ at <= Steps
    /\ Fault
    /\ phase' = "panicked"
    /\ UNCHANGED <<at, attempt, completed, failures, inPlace, hidden, undone>>

RunSucceeds ==
    /\ phase = "forward" /\ at = Steps + 1
    /\ phase' = "ok"
    /\ UNCHANGED <<at, attempt, completed, failures, inPlace, hidden, undone, faults>>

-------------------------------------------------------------------------------
(***************************************************************************)
(* runCompensations.                                                       *)
(***************************************************************************)

\* Mutant: a failed compensation ends the loop.
NextAfterAbort(failed) == IF failed THEN 0 ELSE at - 1

\* Mutant: a failed compensation is tried again in place.
NextInPlace(failed) == IF failed THEN at ELSE at - 1

\* The loop goes on whether or not the compensation failed.
NextDown(failed) == at - 1

CompensationSkipped ==
    /\ phase = "compensate" /\ at \in NoComp
    /\ at' = NextDown(FALSE) /\ attempt' = 1
    /\ UNCHANGED <<phase, completed, failures, inPlace, hidden, undone, faults>>

Undo ==
    /\ inPlace' = inPlace \ {at}
    /\ undone' = Append(undone, at)

Compensated ==
    /\ phase = "compensate" /\ at \in 1..Steps \ NoComp
    /\ Undo
    /\ at' = NextDown(FALSE) /\ attempt' = 1
    /\ UNCHANGED <<phase, completed, failures, hidden, faults>>

CompensationRetried ==
    /\ phase = "compensate" /\ at \in 1..Steps \ NoComp /\ attempt < MaxAttempts
    /\ Fault
    /\ attempt' = attempt + 1
    /\ UNCHANGED <<phase, at, completed, failures, inPlace, hidden, undone>>

\* Collected and reported; the commit may have taken effect all the same.
CompensationFails ==
    /\ phase = "compensate" /\ at \in 1..Steps \ NoComp
    /\ Fault
    /\ Undo \/ UNCHANGED <<inPlace, undone>>
    /\ failures' = failures \cup {at}
    /\ at' = NextDown(TRUE) /\ attempt' = 1
    /\ UNCHANGED <<phase, completed, hidden>>

CompensationPanics ==
    /\ phase = "compensate" /\ at \in 1..Steps \ NoComp
    /\ Fault
    /\ phase' = "panicked"
    /\ UNCHANGED <<at, attempt, completed, failures, inPlace, hidden, undone>>

RunFails ==
    /\ phase = "compensate" /\ at = 0
    /\ phase' = "error"
    /\ UNCHANGED <<at, attempt, completed, failures, inPlace, hidden, undone, faults>>

\* Nothing of the saga's progress is persisted: a crash is the end of it.
ProcessDies ==
    /\ phase \in {"forward", "compensate"}
    /\ Fault
    /\ phase' = "crashed"
    /\ UNCHANGED <<at, attempt, completed, failures, inPlace, hidden, undone>>

SagaNext ==
    \/ StepCommits \/ StepRetried \/ StepFails \/ StepPanics \/ RunSucceeds
    \/ CompensationSkipped \/ Compensated \/ CompensationRetried \/ CompensationFails \/ CompensationPanics
    \/ RunFails \/ ProcessDies

SagaSpec == SagaInit /\ [][SagaNext]_sagaVars

-------------------------------------------------------------------------------
(***************************************************************************)
(* Properties.                                                             *)
(***************************************************************************)

\* All or nothing, as far as Run tells: after nil every effect is in place; after
\* a SagaError what is left is named by its CompFailures, has no compensation, or
\* is the failed step's own commit that reported an error.  Effects are undone last
\* first, each at most once, so that no compensation runs while the effect of a
\* later step that will still be compensated is in place.
AllOrReported ==
    /\ phase = "ok" => inPlace = 1..Steps
    /\ phase = "error" => inPlace \subseteq failures \cup NoComp \cup hidden
    /\ \A i, j \in 1..Len(undone) : i < j => undone[i] > undone[j]
===============================================================================
