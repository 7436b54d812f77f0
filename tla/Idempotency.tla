------------------------------ MODULE Idempotency ------------------------------
(***************************************************************************)
(* Idempotency keys: pg/idempotency.go, over the transactions of pg/db.go. *)
(*                                                                         *)
(* A Run is one READ COMMITTED transaction: INSERT ... ON CONFLICT DO      *)
(* NOTHING, SELECT ... FOR UPDATE, the closure, UPDATE, COMMIT.  A row     *)
(* that is there is completed: it is inserted and completed by one         *)
(* transaction.  A response is the number of the execution it came from.   *)
(***************************************************************************)
EXTENDS Naturals, FiniteSets

CONSTANTS
    Callers, Keys, Nobody,
    MaxExecutions   \* bound on closures run

ASSUME IdempotencyAssumption == Keys # {} /\ Nobody \notin Callers /\ MaxExecutions \in Nat

VARIABLES
    rec,        \* rec[k]: the committed row of k: its response and whether it has expired
    inserted,   \* inserted[k]: the transaction with an uncommitted row for k
    locked,     \* locked[k]: the transaction that holds FOR UPDATE on the committed row
    run,        \* run[c]: the call of Run that c has under way
    told,       \* told[c]: what c's last successful Run returned, 0 for nothing yet
    executions, \* closures run so far
    orphaned    \* history: calls whose row was reclaimed between their INSERT and SELECT

idemVars == <<rec, inserted, locked, run, told, executions, orphaned>>

Row   == [resp : 0..MaxExecutions, expired : BOOLEAN]
NoRow == [resp |-> 0, expired |-> FALSE]

Run   == [step : {"idle", "insert", "select", "fn", "update", "commit", "rollback"},
          key : Keys, out : 0..MaxExecutions]
NoRun == [step |-> "idle", key |-> CHOOSE k \in Keys : TRUE, out |-> 0]

IdemTypeOK ==
    /\ rec \in [Keys -> Row]
    /\ inserted \in [Keys -> Callers \cup {Nobody}]
    /\ locked \in [Keys -> Callers \cup {Nobody}]
    /\ run \in [Callers -> Run]
    /\ told \in [Callers -> 0..MaxExecutions]
    /\ executions \in 0..MaxExecutions
    /\ orphaned \subseteq Callers

IdemInit ==
    /\ rec = [k \in Keys |-> NoRow]
    /\ inserted = [k \in Keys |-> Nobody]
    /\ locked = [k \in Keys |-> Nobody]
    /\ run = [c \in Callers |-> NoRun]
    /\ told = [c \in Callers |-> 0]
    /\ executions = 0
    /\ orphaned = {}

Recorded(k) == rec[k].resp # 0

-------------------------------------------------------------------------------
(***************************************************************************)
(* Run.                                                                    *)
(***************************************************************************)

Begin(c, k) ==
    /\ run[c].step = "idle"
    /\ run' = [run EXCEPT ![c] = [step |-> "insert", key |-> k, out |-> 0]]
    /\ UNCHANGED <<rec, inserted, locked, told, executions, orphaned>>

\* No transaction has an uncommitted row for k.
Settled(k) == inserted[k] = Nobody

\* INSERT waits for another transaction's uncommitted row to be settled; it does
\* nothing beside a committed one, locked or not.
Insert(c) ==
    LET k == run[c].key IN
    /\ run[c].step = "insert"
    /\ Settled(k)
    /\ inserted' = IF Recorded(k) THEN inserted ELSE [inserted EXCEPT ![k] = c]
    /\ run' = [run EXCEPT ![c].step = "select"]
    /\ UNCHANGED <<rec, locked, told, executions, orphaned>>

\* Mutant: the row's completed flag is not looked at.
NotCompleted(c) == FALSE

Completed(c) == Recorded(run[c].key)

\* SELECT ... FOR UPDATE waits for whoever has the row locked.  A completed row is
\* the answer; otherwise, on one's own
\* new row or on no row at all, the closure runs.
Select(c) ==
    LET k == run[c].key IN
    /\ run[c].step = "select"
    /\ Recorded(k) => locked[k] = Nobody
    /\ locked' = IF Recorded(k) THEN [locked EXCEPT ![k] = c] ELSE locked
    /\ IF Completed(c)
       THEN /\ run' = [run EXCEPT ![c].step = "commit"]
            /\ told' = [told EXCEPT ![c] = rec[k].resp]
            /\ orphaned' = orphaned \ {c}
       ELSE /\ run' = [run EXCEPT ![c].step = "fn"]
            /\ UNCHANGED <<told, orphaned>>
    /\ UNCHANGED <<rec, inserted, executions>>

\* The closure succeeds with a response of its own; nothing of it is visible yet.
Fn(c) ==
    /\ run[c].step = "fn" /\ executions < MaxExecutions
    /\ executions' = executions + 1
    /\ run' = [run EXCEPT ![c].step = "update", ![c].out = executions + 1]
    /\ UNCHANGED <<rec, inserted, locked, told, orphaned>>

\* UPDATE: one's own row, or a committed one with that key, if there is any: then
\* it is locked until the end.
Update(c) ==
    LET k == run[c].key
        other == Recorded(k) /\ inserted[k] # c
    IN
    /\ run[c].step = "update"
    /\ other => locked[k] \in {Nobody, c}
    /\ locked' = IF other THEN [locked EXCEPT ![k] = c] ELSE locked
    /\ run' = [run EXCEPT ![c].step = "commit"]
    /\ UNCHANGED <<rec, inserted, told, executions, orphaned>>

\* What the transaction leaves when it commits.
Written(c) ==
    LET k == run[c].key IN
    IF run[c].out = 0 THEN rec
    ELSE IF inserted[k] = c THEN [rec EXCEPT ![k] = [resp |-> run[c].out, expired |-> FALSE]]
    ELSE IF locked[k] = c THEN [rec EXCEPT ![k].resp = run[c].out]
    ELSE rec

\* Mutant: a rolled back transaction keeps its row lock.
ReleasesInserted(c) ==
    /\ inserted' = [k \in Keys |-> IF inserted[k] = c /\ run[c].step = "commit" THEN Nobody ELSE inserted[k]]
    /\ locked' = [k \in Keys |-> IF locked[k] = c THEN Nobody ELSE locked[k]]

\* The end of a transaction releases what it holds.
Releases(c) ==
    /\ inserted' = [k \in Keys |-> IF inserted[k] = c THEN Nobody ELSE inserted[k]]
    /\ locked' = [k \in Keys |-> IF locked[k] = c THEN Nobody ELSE locked[k]]

Commit(c) ==
    /\ run[c].step = "commit"
    /\ rec' = Written(c)
    /\ told' = IF run[c].out = 0 THEN told ELSE [told EXCEPT ![c] = run[c].out]
    /\ Releases(c)
    /\ orphaned' = orphaned \ {c}
    /\ run' = [run EXCEPT ![c] = NoRun]
    /\ UNCHANGED executions

\* The commit takes effect and reports an error: Run fails, and is tried again.
CommitLost(c) ==
    /\ run[c].step = "commit"
    /\ rec' = Written(c)
    /\ Releases(c)
    /\ orphaned' = orphaned \ {c}
    /\ run' = [run EXCEPT ![c] = NoRun]
    /\ UNCHANGED <<told, executions>>

\* The transaction is rolled back.
RolledBack(c) ==
    /\ Releases(c)
    /\ orphaned' = orphaned \ {c}
    /\ run' = [run EXCEPT ![c] = NoRun]
    /\ UNCHANGED <<rec, told, executions>>

\* The closure returns an error, or panics.
FnFails(c) == run[c].step = "fn" /\ RolledBack(c)

\* A statement or the commit fails, or the process dies.
Rollback(c) == run[c].step \notin {"idle", "fn"} /\ RolledBack(c)

-------------------------------------------------------------------------------

Expire(k) ==
    /\ Recorded(k) /\ ~rec[k].expired
    /\ rec' = [rec EXCEPT ![k].expired = TRUE]
    /\ UNCHANGED <<inserted, locked, run, told, executions, orphaned>>

\* Cleanup; the DELETE waits for a locked row.
Cleanup(k) ==
    /\ Recorded(k) /\ rec[k].expired /\ locked[k] = Nobody
    /\ rec' = [rec EXCEPT ![k] = NoRow]
    /\ orphaned' = orphaned \cup {c \in Callers : run[c].step = "select" /\ run[c].key = k}
    /\ UNCHANGED <<inserted, locked, run, told, executions>>

IdemNext ==
    \/ \E c \in Callers :
          \/ \E k \in Keys : Begin(c, k)
          \/ Insert(c) \/ Select(c) \/ Fn(c) \/ FnFails(c) \/ Update(c)
          \/ Commit(c) \/ CommitLost(c) \/ Rollback(c)
    \/ \E k \in Keys : Expire(k) \/ Cleanup(k)

\* A call's own next step; the closure ends one way or the other.
RunStep(c) == Insert(c) \/ Select(c) \/ Fn(c) \/ FnFails(c) \/ Update(c) \/ Commit(c)

IdemSpec == IdemInit /\ [][IdemNext]_idemVars

-------------------------------------------------------------------------------
(***************************************************************************)
(* Properties.                                                             *)
(***************************************************************************)

Once == INSTANCE OnceRegister WITH
    result  <- [k \in Keys |-> rec[k].resp],
    orphans <- orphaned,
    Results <- 1..MaxExecutions,
    NoResult <- 0

\* Run implements a once-only register: concurrent calls, retries, lost commits and
\* rolled back closures included, a key is performed once per record and every
\* caller is told that performance's response, but for callers whose record was
\* reclaimed between their INSERT and their SELECT.
PerformedOnce == Once!OnceSpec

\* Callers on one key never wait for each other for ever: every Run ends.
RunEnds == \A c \in Callers : run[c].step # "idle" ~> run[c].step = "idle"
================================================================================
