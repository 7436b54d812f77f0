---------------------------- MODULE TreeMigrations ----------------------------
(***************************************************************************)
(* pg/treemigrate.go: migrations that form a directed acyclic graph, and   *)
(* processes that call Up, UpTo, Checkout, Down and DownTo on one          *)
(* database.  A call reads the applied set once, plans its steps from it,  *)
(* and runs each step in a transaction of its own, which takes the         *)
(* advisory lock and looks whether the step is still to do.                *)
(*                                                                         *)
(* Migrations are numbered in the order of their ids.  The branches table  *)
(* is written and never read, and is left out; so are the checksums.       *)
(***************************************************************************)
EXTENDS Naturals, Sequences, FiniteSets, SequencesExt

CONSTANTS
    Operators,   \* the processes
    MigrationIds,
    Parents,     \* Parents[n]: the parents of n
    MaxPlans,    \* bound on calls
    MaxBreaks    \* bound on failures

\* Validate: no parent is missing, and there is no cycle: whichever migrations are taken,
\* one of them has no parent among them.  An id may sort before its parents'.
ASSUME TreeAssumption ==
    /\ MigrationIds \subseteq Nat /\ IsFiniteSet(MigrationIds) /\ MaxPlans \in Nat /\ MaxBreaks \in Nat
    /\ Parents \in [MigrationIds -> SUBSET MigrationIds]
    /\ \A S \in SUBSET MigrationIds : S # {} => \E n \in S : Parents[n] \cap S = {}

VARIABLES
    appliedSet, \* the rows of the nodes table
    effect,     \* effect[n]: how many times n's changes are in the schema
    plan,       \* plan[o]: the steps that o has still to take
    plans, breaks,
    crossed     \* history: one process applied while another one rolled back

treeVars == <<appliedSet, effect, plan, plans, breaks, crossed>>

TreeStep == [up : BOOLEAN, node : MigrationIds]

TreeTypeOK ==
    /\ appliedSet \subseteq MigrationIds
    /\ effect \in [MigrationIds -> Nat]
    /\ plan \in [Operators -> Seq(TreeStep)]
    /\ plans \in 0..MaxPlans /\ breaks \in 0..MaxBreaks /\ crossed \in BOOLEAN

TreeInit ==
    /\ appliedSet = {} /\ effect = [n \in MigrationIds |-> 0]
    /\ plan = [o \in Operators |-> <<>>]
    /\ plans = 0 /\ breaks = 0 /\ crossed = FALSE

-------------------------------------------------------------------------------
(***************************************************************************)
(* Planning.                                                               *)
(***************************************************************************)

\* Mutant: the lowest, whatever its parents.
FirstById(S) == CHOOSE n \in S : \A m \in S : n <= m

\* The first node of S in Kahn's order: of those with no parent in S, the lowest.
FirstReady(S) == CHOOSE n \in S : /\ Parents[n] \cap S = {}
                                  /\ \A m \in S : Parents[m] \cap S = {} => n <= m

topoSortSubset[S \in SUBSET MigrationIds] ==
    IF S = {} THEN <<>> ELSE <<FirstReady(S)>> \o topoSortSubset[S \ {FirstReady(S)}]

ancestorsOf[n \in MigrationIds] == {n} \cup UNION {ancestorsOf[p] : p \in Parents[n]}
descendantsOf(n) == {m \in MigrationIds \ {n} : n \in ancestorsOf[m]}

\* Applied nodes without an applied child.
computeHeads == {n \in appliedSet : \A m \in appliedSet : n \notin Parents[m]}

Applying(S) == [i \in 1..Len(topoSortSubset[S]) |-> [up |-> TRUE, node |-> topoSortSubset[S][i]]]

RollingBack(S) ==
    [i \in 1..Len(topoSortSubset[S]) |-> [up |-> FALSE, node |-> Reverse(topoSortSubset[S])[i]]]

\* Somebody else is still to take a step in a direction that steps does not take.
Crosses(o, steps) ==
    \E q \in Operators \ {o}, i \in 1..Len(steps) :
        \E j \in 1..Len(plan[q]) : plan[q][j].up # steps[i].up

Planned(o, steps) ==
    /\ plan[o] = <<>> /\ plans < MaxPlans
    /\ plans' = plans + 1
    /\ plan' = [plan EXCEPT ![o] = steps]
    /\ crossed' = (crossed \/ Crosses(o, steps))
    /\ UNCHANGED <<appliedSet, effect, breaks>>

TreeUp(o) == Planned(o, Applying(MigrationIds \ appliedSet))

UpTo(o, n) == n \notin appliedSet /\ Planned(o, Applying(ancestorsOf[n] \ appliedSet))

Checkout(o, n) ==
    Planned(o, RollingBack(appliedSet \ ancestorsOf[n]) \o Applying(ancestorsOf[n] \ appliedSet))

TreeDown(o) == computeHeads # {} /\ Planned(o, RollingBack(computeHeads))

DownTo(o, n) ==
    /\ n \in appliedSet /\ descendantsOf(n) \cap appliedSet # {}
    /\ Planned(o, RollingBack(descendantsOf(n) \cap appliedSet))

-------------------------------------------------------------------------------
(***************************************************************************)
(* The steps: one transaction each, alone under the advisory lock.         *)
(***************************************************************************)

\* Mutant: the step is taken without looking.
StillToDoAlways(s) == TRUE

\* The re-check: nobody else has taken the step.
StillToDo(s) == s.up # (s.node \in appliedSet)

TakeStep(o) ==
    LET s == Head(plan[o]) IN
    /\ plan[o] # <<>>
    /\ IF StillToDo(s)
       THEN /\ appliedSet' = IF s.up THEN appliedSet \cup {s.node} ELSE appliedSet \ {s.node}
            /\ effect' = [effect EXCEPT ![s.node] = IF s.up THEN @ + 1 ELSE @ - 1]
       ELSE UNCHANGED <<appliedSet, effect>>
    /\ plan' = [plan EXCEPT ![o] = Tail(@)]
    /\ UNCHANGED <<plans, breaks, crossed>>

\* applyOne and rollbackOne
applyOne(o)    == plan[o] # <<>> /\ Head(plan[o]).up /\ TakeStep(o)
rollbackOne(o) == plan[o] # <<>> /\ ~Head(plan[o]).up /\ TakeStep(o)

\* A body that fails, a gate that refuses, a migration without Down, or the end of
\* the process: the rest of the plan is not run.
TreeStepFails(o) ==
    /\ plan[o] # <<>> /\ breaks < MaxBreaks
    /\ breaks' = breaks + 1
    /\ plan' = [plan EXCEPT ![o] = <<>>]
    /\ UNCHANGED <<appliedSet, effect, plans, crossed>>

TreeNext ==
    \E o \in Operators :
        \/ TreeUp(o) \/ TreeDown(o)
        \/ \E n \in MigrationIds : UpTo(o, n) \/ Checkout(o, n) \/ DownTo(o, n)
        \/ applyOne(o) \/ rollbackOne(o) \/ TreeStepFails(o)

TreeSpec == TreeInit /\ [][TreeNext]_treeVars

-------------------------------------------------------------------------------
(***************************************************************************)
(* Properties.                                                             *)
(***************************************************************************)

\* "This prevents two processes from migrating concurrently": whoever migrates,
\* no migration is applied without its parents.
ParentsApplied == \A n \in appliedSet : Parents[n] \subseteq appliedSet

\* Processes that all apply, or all roll back, keep the applied set closed under
\* parents, step by step and when they stop half-way, and no change is in the
\* schema twice; only a plan to apply that crosses one to roll back breaks it.
TreeSound ==
    /\ \A n \in MigrationIds : effect[n] = (IF n \in appliedSet THEN 1 ELSE 0)
    /\ crossed \/ ParentsApplied
================================================================================
