------------------------------- MODULE JobQueue -------------------------------
(***************************************************************************)
(* The durable job queue of pg/jobs.go: long jobs in one table, claimed by *)
(* workers that heartbeat while they run, and given back by Reap when the  *)
(* heartbeat stops.                                                        *)
(*                                                                         *)
(* A (kind, key) pair is one `slot'.  Of heartbeatAt the model keeps        *)
(* whether it is recent enough for Reap to leave the row alone (`fresh').  *)
(* Every call is one statement and so one step.  The worker, progress,     *)
(* attempts and lastError columns are written and never read back by the   *)
(* queue; `owner' stands for the worker column.                            *)
(***************************************************************************)
EXTENDS Naturals, FiniteSets, Drained

CONSTANTS
    Ids,        \* job ids, in the order the BIGSERIAL column hands them out
    Slots,      \* (kind, key) pairs
    Workers,
    Kinds,      \* Kinds[w]: the slots of the kinds w passes to Claim
    CountsRows, \* does the driver report RowsAffected?
    NoJob,
    NoWorker,
    MaxFaults   \* bound on crashes and on heartbeats that come too late

ASSUME IdsAssumption == Ids \subseteq Nat /\ NoJob \notin Ids
ASSUME WorkerAssumption == NoWorker \notin Workers /\ Kinds \in [Workers -> SUBSET Slots]
ASSUME FlagAssumption == CountsRows \in BOOLEAN
ASSUME BoundAssumption == MaxFaults \in Nat

VARIABLES
    state,  \* state[i]: the state column, "none" before the INSERT, "gone" after the DELETE
    slot,   \* slot[i]: kind and key
    owner,  \* owner[i]: the worker column
    fresh,  \* running rows whose heartbeatAt is not older than Reap's threshold
    job,    \* job[w]: the job w is working on
    faults,
    shaken  \* history: jobs that were reaped or canceled while some worker was on them

vars == <<state, slot, owner, fresh, job, faults, shaken>>

Live     == {i \in Ids : state[i] \in {"pending", "running"}}
Finished == {i \in Ids : state[i] \in {"done", "failed", "canceled"}}
Busy     == {i \in Ids : \E w \in Workers : job[w] = i}

TypeOK ==
    /\ state \in [Ids -> {"none", "pending", "running", "done", "failed", "canceled", "gone"}]
    /\ slot \in [Ids -> Slots]
    /\ owner \in [Ids -> Workers \cup {NoWorker}]
    /\ fresh \in SUBSET Ids
    /\ job \in [Workers -> Ids \cup {NoJob}]
    /\ faults \in 0..MaxFaults
    /\ shaken \in SUBSET Ids

Init ==
    /\ state = [i \in Ids |-> "none"]
    /\ slot \in [Ids -> Slots]
    /\ owner = [i \in Ids |-> NoWorker]
    /\ fresh = {}
    /\ job = [w \in Workers |-> NoJob]
    /\ faults = 0
    /\ shaken = {}

-------------------------------------------------------------------------------
(***************************************************************************)
(* Callers.                                                                *)
(***************************************************************************)

\* Mutant: the index's predicate names the pending state only.
IndexPendingOnly(i) == \A j \in Live : state[j] = "pending" => slot[j] # slot[i]

\* What the partial unique index on (kind, key) lets an INSERT do.
IndexAllows(i) == \A j \in Live : slot[j] # slot[i]

\* Job i is submitted; ErrJobAlreadyQueued leaves the table alone.
Enqueue(i) ==
    /\ state[i] = "none"
    /\ \A j \in Ids : j < i => state[j] # "none"
    /\ IndexAllows(i)
    /\ state' = [state EXCEPT ![i] = "pending"]
    /\ UNCHANGED <<slot, owner, fresh, job, faults, shaken>>

Cancel(i) ==
    /\ i \in Live
    /\ state' = [state EXCEPT ![i] = "canceled"]
    /\ shaken' = shaken \cup ({i} \cap Busy)
    /\ UNCHANGED <<slot, owner, fresh, job, faults>>

\* The rows Reap moves.
Stale == {i \in Ids : state[i] = "running"} \ fresh

\* Mutant: a state of its own for reaped jobs.
ReapToOwnState ==
    /\ Stale # {}
    /\ state' = [i \in Ids |-> IF i \in Stale THEN "reaped" ELSE state[i]]
    /\ owner' = [i \in Ids |-> IF i \in Stale THEN NoWorker ELSE owner[i]]
    /\ shaken' = shaken \cup (Stale \cap Busy)
    /\ UNCHANGED <<slot, fresh, job, faults>>

\* Mutant: Reap clears the worker and forgets the state.
ReapKeepsState ==
    /\ Stale # {}
    /\ owner' = [i \in Ids |-> IF i \in Stale THEN NoWorker ELSE owner[i]]
    /\ shaken' = shaken \cup (Stale \cap Busy)
    /\ UNCHANGED <<state, slot, fresh, job, faults>>

Reap ==
    /\ Stale # {}
    /\ state' = [i \in Ids |-> IF i \in Stale THEN "pending" ELSE state[i]]
    /\ owner' = [i \in Ids |-> IF i \in Stale THEN NoWorker ELSE owner[i]]
    /\ shaken' = shaken \cup (Stale \cap Busy)
    /\ UNCHANGED <<slot, fresh, job, faults>>

\* DELETE of the rows finished longer ago than the retention.
Cleanup ==
    \E S \in SUBSET Finished :
        /\ S # {}
        /\ state' = [i \in Ids |-> IF i \in S THEN "gone" ELSE state[i]]
        /\ UNCHANGED <<slot, owner, fresh, job, faults, shaken>>

-------------------------------------------------------------------------------
(***************************************************************************)
(* Workers.                                                                *)
(***************************************************************************)

Claimable(w) == {i \in Ids : state[i] = "pending" /\ slot[i] \in Kinds[w]}

Claim(w) ==
    /\ job[w] = NoJob
    /\ \E i \in Lowest(Claimable(w)) :
           /\ state' = [state EXCEPT ![i] = "running"]
           /\ owner' = [owner EXCEPT ![i] = w]
           /\ fresh' = fresh \cup {i}
           /\ job' = [job EXCEPT ![w] = i]
    /\ UNCHANGED <<slot, faults, shaken>>

\* Mutant: updates that name the id alone.
MatchesById(i) == state[i] \notin {"none", "gone"}

\* The WHERE clause of Heartbeat, Complete and Fail.
Matches(i) == state[i] = "running"

\* jobUpdated: does an update of job i answer ErrJobNotRunning?
NotRunning(i) == CountsRows /\ ~Matches(i)

\* A worker told ErrJobNotRunning stops.
Heartbeat(w) ==
    /\ job[w] # NoJob
    /\ fresh' = fresh \cup {i \in {job[w]} : Matches(i)}
    /\ job' = [job EXCEPT ![w] = IF NotRunning(@) THEN NoJob ELSE @]
    /\ UNCHANGED <<state, slot, owner, faults, shaken>>

\* Complete, or Fail: the worker is through with the job whatever the answer.
Finish(w, outcome) ==
    /\ job[w] # NoJob
    /\ state' = [i \in Ids |-> IF i = job[w] /\ Matches(i) THEN outcome ELSE state[i]]
    /\ job' = [job EXCEPT ![w] = NoJob]
    /\ UNCHANGED <<slot, owner, fresh, faults, shaken>>

Complete(w) == Finish(w, "done")
Fail(w)     == Finish(w, "failed")

Fault == faults < MaxFaults /\ faults' = faults + 1

Crash(w) ==
    /\ job[w] # NoJob
    /\ Fault
    /\ job' = [job EXCEPT ![w] = NoJob]
    /\ UNCHANGED <<state, slot, owner, fresh, shaken>>

\* Reap's threshold passes since the last heartbeat: of a job nobody is on, or
\* of one whose worker is slow.
GoStale(i) ==
    /\ state[i] = "running" /\ i \in fresh
    /\ IF i \in Busy THEN Fault ELSE UNCHANGED faults
    /\ fresh' = fresh \ {i}
    /\ UNCHANGED <<state, slot, owner, job, shaken>>

-------------------------------------------------------------------------------
Next ==
    \/ \E i \in Ids : Enqueue(i) \/ Cancel(i) \/ GoStale(i)
    \/ Reap \/ Cleanup
    \/ \E w \in Workers : Claim(w) \/ Heartbeat(w) \/ Complete(w) \/ Fail(w) \/ Crash(w)

Spec == Init /\ [][Next]_vars

\* Workers poll and get through their jobs, somebody reaps on a schedule, and
\* a heartbeat nobody renews goes stale.
FairSpec ==
    /\ Spec
    /\ \A w \in Workers : WF_vars(Claim(w)) /\ WF_vars(Complete(w) \/ Fail(w))
    /\ WF_vars(Reap)
    /\ \A i \in Ids : WF_vars(i \notin Busy /\ GoStale(i))

-------------------------------------------------------------------------------
(***************************************************************************)
(* Properties.                                                             *)
(***************************************************************************)

\* Two workers are on the same (kind, key) only after one of their jobs was
\* reaped or canceled while a worker was on it: the index of Enqueue, the claim
\* and the state guards of Complete and Fail leave no other way to an overlap.
OverlapExcused ==
    \A v, w \in Workers :
        v # w /\ job[v] # NoJob /\ job[w] # NoJob /\ slot[job[v]] = slot[job[w]] =>
            job[v] \in shaken \/ job[w] \in shaken

\* A late Heartbeat, Complete or Fail of a worker that lost its job, or a Reap,
\* never brings a finished or deleted job back, and never changes its outcome.
OutcomeStays ==
    [][\A i \in Ids :
           /\ state[i] \in {"done", "failed", "canceled"} => state'[i] \in {state[i], "gone"}
           /\ state[i] = "gone" => state'[i] = "gone"]_vars

\* Every job ends: Reap finds the jobs of dead workers, whatever crashes.
EveryJobEnds == \A i \in Ids : i \in Live ~> i \notin Live

-------------------------------------------------------------------------------
\* A job that was never shaken is where its worker believes it to be, and a slot
\* has one live job.  Implies OverlapExcused.
JobInv ==
    /\ \A i, j \in Live : slot[i] = slot[j] => i = j
    /\ \A w \in Workers : job[w] # NoJob /\ job[w] \notin shaken =>
           state[job[w]] = "running" /\ owner[job[w]] = w
===============================================================================
