------------------------------ MODULE Migrations ------------------------------
(***************************************************************************)
(* The migrators: pg/migrate.go and mysql/migrate.go, several processes    *)
(* running Up and Down on one database.                                    *)
(*                                                                         *)
(* The lock lives on a connection of its own while the migrations run on   *)
(* others: it can be lost while its holder goes on.  PostgreSQL runs a     *)
(* migration, its hooks and its history row in one transaction; MySQL      *)
(* commits DDL as it meets it, and brackets the body with a claim and a    *)
(* record.  A body is two statements; half of it may land.                 *)
(***************************************************************************)
EXTENDS Naturals, FiniteSets, FiniteSetsExt

CONSTANTS
    Migrators,
    NoMigrator,
    MaxVersion,  \* registered migrations: 1..MaxVersion, in version order
    MaxRuns,     \* bound on calls of Up and Down
    MaxMishaps   \* bound on failures

ASSUME MigrationAssumption ==
    NoMigrator \notin Migrators /\ {MaxVersion, MaxRuns, MaxMishaps} \subseteq Nat

VARIABLES
    engine,    \* which migrator this is: "pg" or "mysql"
    history,   \* history[v]: the row of v
    schema,    \* schema[v]: how much of v has landed, in statements: 0, 1 or 2
    lock,      \* who holds the migration lock
    job,       \* job[m]: the call m has under way
    runs, mishaps,
    contested, \* history: a lock was lost while its holder was at work
    halfDown   \* history: versions whose Down stopped on the way (MySQL)

migrationVars == <<engine, history, schema, lock, job, runs, mishaps, contested, halfDown>>

MVersions == 1..MaxVersion
NoJob == [step |-> "idle", dir |-> "up", seen |-> {}, at |-> 0]

MigrationTypeOK ==
    /\ engine \in {"pg", "mysql"}
    /\ history \in [MVersions -> {"none", "started", "applied"}]
    /\ schema \in [MVersions -> 0..2]
    /\ lock \in Migrators \cup {NoMigrator}
    /\ job \in [Migrators -> [step : {"idle", "wait", "read", "next", "body", "record"}, dir : {"up", "down"},
                              seen : SUBSET MVersions, at : 0..MaxVersion]]
    /\ runs \in 0..MaxRuns /\ mishaps \in 0..MaxMishaps
    /\ contested \in BOOLEAN /\ halfDown \subseteq MVersions

MigrationInit ==
    /\ engine \in {"pg", "mysql"}
    /\ history = [v \in MVersions |-> "none"]
    /\ schema = [v \in MVersions |-> 0]
    /\ lock = NoMigrator
    /\ job = [m \in Migrators |-> NoJob]
    /\ runs = 0 /\ mishaps = 0
    /\ contested = FALSE /\ halfDown = {}

Mishap == mishaps < MaxMishaps /\ mishaps' = mishaps + 1
database == <<history, schema>>
Applied  == {v \in MVersions : history[v] = "applied"}
Started  == {v \in MVersions : history[v] = "started"}
Unlock(m) == lock' = IF lock = m THEN NoMigrator ELSE lock

-------------------------------------------------------------------------------
(***************************************************************************)
(* withLock.                                                               *)
(***************************************************************************)

CallMigrator(m, dir) ==
    /\ job[m].step = "idle" /\ runs < MaxRuns
    /\ runs' = runs + 1
    /\ job' = [job EXCEPT ![m] = [NoJob EXCEPT !.step = "wait", !.dir = dir]]
    /\ UNCHANGED <<engine, database, lock, mishaps, contested, halfDown>>

\* Mutant: the lock is not waited for.
LockAnyway == TRUE

LockFree == lock = NoMigrator

TakeLock(m) ==
    /\ job[m].step = "wait" /\ LockFree
    /\ lock' = m
    /\ job' = [job EXCEPT ![m].step = "read"]
    /\ UNCHANGED <<engine, database, runs, mishaps, contested, halfDown>>

\* ErrMigrationLocked
LockTimeout(m) ==
    /\ job[m].step = "wait" /\ lock # NoMigrator
    /\ job' = [job EXCEPT ![m] = NoJob]
    /\ UNCHANGED <<engine, database, lock, runs, mishaps, contested, halfDown>>

\* The holder's connection goes; the run, on other connections, does not notice.
LockLost ==
    /\ lock # NoMigrator /\ Mishap
    /\ lock' = NoMigrator
    /\ contested' = TRUE
    /\ UNCHANGED <<engine, database, job, runs, halfDown>>

Leave(m) == Unlock(m) /\ job' = [job EXCEPT ![m] = NoJob]

-------------------------------------------------------------------------------
(***************************************************************************)
(* Up and Down.                                                            *)
(***************************************************************************)

\* MySQL's Up refuses while a migration has started and not finished.
Interrupted(dir) == engine = "mysql" /\ dir = "up" /\ Started # {}

\* The history is read once, for the whole run.
ReadHistory(m) ==
    LET up == job[m].dir = "up" IN
    /\ job[m].step = "read"
    /\ IF Interrupted(job[m].dir) \/ (~up /\ Applied = {})
       THEN Leave(m)
       ELSE /\ job' = [job EXCEPT ![m].step = "next", ![m].seen = Applied,
                                  ![m].at = IF up THEN 0 ELSE Max(Applied)]
            /\ UNCHANGED lock
    /\ UNCHANGED <<engine, database, runs, mishaps, contested, halfDown>>

\* The next migration in version order that the history read did not have.
Pending(m, v) == v \in MVersions \ job[m].seen /\ v > job[m].at
                     /\ \A w \in 1..v - 1 : w \in job[m].seen \/ w <= job[m].at

\* PostgreSQL: hooks, body and history row, in one transaction.  The row's primary
\* key refuses a version that somebody else has recorded.
UpTx(m, v) ==
    /\ engine = "pg" /\ job[m].step = "next" /\ job[m].dir = "up" /\ Pending(m, v)
    /\ IF history[v] = "none"
       THEN /\ schema' = [schema EXCEPT ![v] = 2]
            /\ history' = [history EXCEPT ![v] = "applied"]
            /\ job' = [job EXCEPT ![m].at = v]
            /\ UNCHANGED lock
       ELSE Leave(m) /\ UNCHANGED database
    /\ UNCHANGED <<engine, runs, mishaps, contested, halfDown>>

DownTx(m) ==
    LET v == job[m].at IN
    /\ engine = "pg" /\ job[m].step = "next" /\ job[m].dir = "down"
    /\ IF schema[v] = 2
       THEN schema' = [schema EXCEPT ![v] = 0] /\ history' = [history EXCEPT ![v] = "none"]
       ELSE UNCHANGED database
    /\ Leave(m)
    /\ UNCHANGED <<engine, runs, mishaps, contested, halfDown>>

\* Mutant: the row is written once, before the body.
ClaimedApplied == "applied"

\* The row of a migration under way has no appliedAt.
ClaimedRow == "started"

\* MySQL: the claim.  The primary key refuses a second one.
Claim(m, v) ==
    /\ engine = "mysql" /\ job[m].step = "next" /\ job[m].dir = "up" /\ Pending(m, v)
    /\ IF history[v] = "none"
       THEN /\ history' = [history EXCEPT ![v] = ClaimedRow]
            /\ job' = [job EXCEPT ![m].step = "body", ![m].at = v]
            /\ UNCHANGED lock
       ELSE Leave(m) /\ UNCHANGED history
    /\ UNCHANGED <<engine, schema, runs, mishaps, contested, halfDown>>

StartDown(m) ==
    /\ engine = "mysql" /\ job[m].step = "next" /\ job[m].dir = "down"
    /\ job' = [job EXCEPT ![m].step = "body"]
    /\ halfDown' = halfDown \cup {job[m].at}
    /\ UNCHANGED <<engine, database, lock, runs, mishaps, contested>>

\* One statement of the body, committed as it runs.  A statement that finds its
\* work done already, by a run that should not have been there, fails the run.
Statement(m) ==
    LET v == job[m].at
        up == job[m].dir = "up"
        landed == IF up THEN schema[v] + 1 ELSE schema[v] - 1
    IN
    /\ job[m].step = "body"
    /\ IF landed \in 0..2
       THEN /\ schema' = [schema EXCEPT ![v] = landed]
            /\ job' = [job EXCEPT ![m].step = IF landed = (IF up THEN 2 ELSE 0) THEN "record" ELSE "body"]
            /\ UNCHANGED lock
       ELSE Leave(m) /\ UNCHANGED schema
    /\ UNCHANGED <<engine, history, runs, mishaps, contested, halfDown>>

\* appliedAt is set, or the row of a rolled back migration deleted.
Record(m) ==
    LET v == job[m].at IN
    /\ job[m].step = "record"
    /\ IF job[m].dir = "up"
       THEN /\ history' = [history EXCEPT ![v] = IF @ = "none" THEN "none" ELSE "applied"]
            /\ job' = [job EXCEPT ![m].step = "next"]
            /\ UNCHANGED <<lock, halfDown>>
       ELSE /\ history' = [history EXCEPT ![v] = "none"]
            /\ halfDown' = halfDown \ {v}
            /\ Leave(m)
    /\ UNCHANGED <<engine, schema, runs, mishaps, contested>>

\* Nothing is pending any more.
UpDone(m) ==
    /\ job[m].step = "next" /\ job[m].dir = "up"
    /\ \A v \in MVersions : ~Pending(m, v)
    /\ Leave(m)
    /\ UNCHANGED <<engine, database, runs, mishaps, contested, halfDown>>

\* A statement, a hook or the process fails.  The transaction is rolled back, on
\* PostgreSQL; what MySQL has run stays.
MigrationFails(m) ==
    /\ job[m].step # "idle" /\ Mishap
    /\ Leave(m)
    /\ UNCHANGED <<engine, database, runs, contested, halfDown>>

MigrationNext ==
    \/ \E m \in Migrators :
          \/ \E dir \in {"up", "down"} : CallMigrator(m, dir)
          \/ TakeLock(m) \/ LockTimeout(m) \/ ReadHistory(m)
          \/ \E v \in MVersions : UpTx(m, v) \/ Claim(m, v)
          \/ DownTx(m) \/ StartDown(m) \/ Statement(m) \/ Record(m) \/ UpDone(m) \/ MigrationFails(m)
    \/ LockLost

MigrationSpec == MigrationInit /\ [][MigrationNext]_migrationVars

-------------------------------------------------------------------------------
(***************************************************************************)
(* Properties.                                                             *)
(***************************************************************************)

\* Migrations are applied in version order without a hole.
AppliedInOrder == \A v, w \in MVersions : w < v /\ history[v] = "applied" => history[w] = "applied"

\* The history tells the truth, whoever runs Up and Down and wherever they stop:
\* what it calls applied is there whole, what it does not name is not there at all,
\* and there is no hole below it.  PostgreSQL's rows are right even when the lock is
\* lost; MySQL's may be wrong about a migration whose Down stopped on the way, or
\* when two runs met.
HistoryTellsTruth ==
    /\ contested \/ AppliedInOrder
    /\ \/ engine = "mysql" /\ contested
       \/ \A v \in MVersions \ halfDown :
             /\ history[v] = "applied" => schema[v] = 2
             /\ history[v] = "none" => schema[v] = 0
================================================================================
