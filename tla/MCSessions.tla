------------------------------ MODULE MCSessions ------------------------------
(***************************************************************************)
(* Instances of the replicated driver, the statement registry, the         *)
(* migrators, linear and tree, and the event store for TLC: several        *)
(* sessions on one database.  A behaviour exercises one of them, which     *)
(* Init picks; the others stay where they start.                           *)
(***************************************************************************)
EXTENDS Replicated, StatementRegistry, Migrations, EventStore, TreeMigrations

VARIABLE system

\* main-002, main-003 on top of it, pay-002 beside that, and merge-001, which merges
\* the two and sorts before one of them: 1, 2, 4 and 3.
MCParents == [n \in 1..4 |-> CASE n = 1 -> {} [] n \in {2, 4} -> {1} [] n = 3 -> {2, 4}]

Init ==
    /\ system \in {"replicated", "registry", "migrations", "events", "tree"}
    /\ ReplicatedInit /\ RegistryInit /\ EventInit /\ TreeInit
    /\ MigrationInit /\ (system # "migrations" => engine = "pg")

others(mine) ==
    /\ mine # "replicated" => UNCHANGED replicaVars
    /\ mine # "registry" => UNCHANGED registryVars
    /\ mine # "migrations" => UNCHANGED migrationVars
    /\ mine # "events" => UNCHANGED eventVars
    /\ mine # "tree" => UNCHANGED treeVars

Next ==
    /\ UNCHANGED system
    /\ \/ system = "replicated" /\ ReplicatedNext
       \/ system = "registry" /\ RegistryNext
       \/ system = "migrations" /\ MigrationNext
       \/ system = "events" /\ EventNext
       \/ system = "tree" /\ TreeNext
    /\ others(system)

\* A caller finishes what it has in flight, and a goroutine whose channel was
\* closed gets to run.
Spec ==
    /\ Init /\ [][Next]_<<system, replicaVars, registryVars, migrationVars, eventVars, treeVars>>
    /\ \A e \in Slots : WF_registryVars(system = "registry" /\ Ends(e) /\ others(system))
    /\ \A q \in Quiescers : WF_registryVars(system = "registry" /\ QuiesceReturns(q) /\ others(system))

\* The type invariant of the system at work; a sample of a replica's position is one
\* that the replica can have had.
SessionsTypeOK ==
    CASE system = "replicated" -> ReplicatedTypeOK
      [] system = "registry"   -> RegistryTypeOK
      [] system = "migrations" -> MigrationTypeOK
      [] system = "events"     -> EventTypeOK
      [] system = "tree"       -> TreeTypeOK
===============================================================================
