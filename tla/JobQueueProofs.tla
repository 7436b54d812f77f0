---------------------------- MODULE JobQueueProofs ----------------------------
(***************************************************************************)
(* What the job queue guarantees for any number of jobs, slots and workers *)
(* and any number of faults.                                               *)
(***************************************************************************)
EXTENDS JobQueue, TLAPS

\* Every step keeps the types of the table's columns and of the workers' jobs.
LEMMA StepTypeOK == TypeOK /\ [Next]_vars => TypeOK'
<1> SUFFICES ASSUME TypeOK, [Next]_vars PROVE TypeOK'
    OBVIOUS
<1> USE IdsAssumption, WorkerAssumption, BoundAssumption DEF TypeOK
<1>0. Fault => faults' \in 0..MaxFaults
    BY DEF Fault
<1>1. ASSUME NEW i \in Ids, Enqueue(i) \/ Cancel(i) \/ GoStale(i) PROVE TypeOK'
  <2>1. CASE Enqueue(i)
      BY <2>1 DEF Enqueue
  <2>2. CASE Cancel(i)
      BY <2>2 DEF Cancel
  <2>3. CASE GoStale(i)
      BY <1>0, <2>3 DEF GoStale
  <2> QED
      BY <1>1, <2>1, <2>2, <2>3
<1>2. CASE Reap
    BY <1>2 DEF Reap, Stale, Busy
<1>3. CASE Cleanup
    BY <1>3 DEF Cleanup, Finished
<1>4. ASSUME NEW w \in Workers, Claim(w) PROVE TypeOK'
    BY <1>4 DEF Claim, Lowest, Claimable
<1>5. ASSUME NEW w \in Workers, Heartbeat(w) \/ Crash(w) PROVE TypeOK'
  <2>1. CASE Heartbeat(w)
      BY <2>1 DEF Heartbeat
  <2>2. CASE Crash(w)
      BY <1>0, <2>2 DEF Crash
  <2> QED
      BY <1>5, <2>1, <2>2
<1>6. ASSUME NEW w \in Workers, Complete(w) \/ Fail(w) PROVE TypeOK'
    BY <1>6 DEF Complete, Fail, Finish
<1>7. CASE UNCHANGED vars
    BY <1>7 DEF vars
<1> QED
    BY <1>1, <1>2, <1>3, <1>4, <1>5, <1>6, <1>7 DEF Next

\* The table and the workers' jobs keep their types (state column values among
\* the JobState constants) for every number of jobs and workers.
THEOREM TypeCorrect == Spec => []TypeOK
<1>1. Init => TypeOK
    BY BoundAssumption DEF Init, TypeOK
<1> QED
    BY <1>1, StepTypeOK, PTL DEF Spec

-------------------------------------------------------------------------------
\* A step that takes no job out of or into the live states of a slot other than
\* through Enqueue keeps one live job per slot.
LEMMA FewerLive ==
    ASSUME JobInv, slot' = slot, \A i \in Ids : i \in Live' => i \in Live
    PROVE  (\A i, j \in Live : slot[i] = slot[j] => i = j)'
BY DEF JobInv, Live

\* Every step keeps one live job per slot, and keeps the jobs that nobody reaped
\* or canceled running for the worker that claimed them.
LEMMA StepJobInv == TypeOK /\ JobInv /\ [Next]_vars => JobInv'
<1> SUFFICES ASSUME TypeOK, JobInv, [Next]_vars PROVE JobInv'
    OBVIOUS
<1> DEFINE OneLive == \A i, j \in Live : slot[i] = slot[j] => i = j
           Owned(w) == job[w] # NoJob /\ job[w] \notin shaken =>
                           state[job[w]] = "running" /\ owner[job[w]] = w
<1> USE IdsAssumption, WorkerAssumption DEF TypeOK
<1>0. OneLive /\ \A w \in Workers : Owned(w)
    BY DEF JobInv
<1>1. ASSUME NEW i \in Ids, Enqueue(i) PROVE JobInv'
  <2>1. OneLive'
      BY <1>0, <1>1 DEF Enqueue, IndexAllows, Live
  <2>2. ASSUME NEW w \in Workers PROVE Owned(w)'
      BY <1>0, <1>1 DEF Enqueue
  <2> QED
      BY <2>1, <2>2 DEF JobInv
<1>2. ASSUME NEW i \in Ids, Cancel(i) PROVE JobInv'
  <2>1. OneLive'
      BY <1>2, FewerLive DEF Cancel, Live
  <2>2. ASSUME NEW w \in Workers PROVE Owned(w)'
      BY <1>0, <1>2 DEF Cancel, Busy
  <2> QED
      BY <2>1, <2>2 DEF JobInv
<1>3. ASSUME NEW i \in Ids, GoStale(i) PROVE JobInv'
    BY <1>0, <1>3 DEF GoStale, JobInv, Live
<1>4. CASE Reap
  <2>1. OneLive'
      BY <1>4, FewerLive DEF Reap, Stale, Live
  <2>2. ASSUME NEW w \in Workers PROVE Owned(w)'
    <3>1. job' = job /\ shaken' = shaken \cup (Stale \cap Busy)
        BY <1>4 DEF Reap
    <3> SUFFICES ASSUME job[w] # NoJob, job[w] \notin shaken, job[w] \notin Stale \cap Busy
                 PROVE  state'[job[w]] = "running" /\ owner'[job[w]] = w
        BY <3>1
    <3>2. job[w] \in Ids \ Stale
        BY DEF Busy
    <3> QED
        BY <1>0, <1>4, <3>2 DEF Reap
  <2> QED
      BY <2>1, <2>2 DEF JobInv
<1>5. CASE Cleanup
  <2>1. OneLive'
      BY <1>5, FewerLive DEF Cleanup, Finished, Live
  <2>2. ASSUME NEW w \in Workers PROVE Owned(w)'
    <3>1. \A i \in Ids : state[i] = "running" => state'[i] = "running"
        BY <1>5 DEF Cleanup, Finished
    <3>2. job' = job /\ shaken' = shaken /\ owner' = owner
        BY <1>5 DEF Cleanup
    <3> QED
        BY <1>0, <3>1, <3>2
  <2> QED
      BY <2>1, <2>2 DEF JobInv
<1>6. ASSUME NEW w \in Workers, Claim(w) PROVE JobInv'
  <2>0. PICK i \in Ids : /\ state[i] = "pending"
                         /\ state' = [state EXCEPT ![i] = "running"]
                         /\ owner' = [owner EXCEPT ![i] = w]
                         /\ job' = [job EXCEPT ![w] = i]
      BY <1>6 DEF Claim, Lowest, Claimable
  <2>1. OneLive'
      BY <1>6, <2>0, FewerLive DEF Claim, Live
  <2>2. ASSUME NEW v \in Workers PROVE Owned(v)'
      BY <1>0, <1>6, <2>0 DEF Claim
  <2> QED
      BY <2>1, <2>2 DEF JobInv
<1>7. ASSUME NEW w \in Workers, Heartbeat(w) \/ Crash(w) PROVE JobInv'
  <2>1. OneLive'
      BY <1>7, FewerLive DEF Heartbeat, Crash, Live
  <2>2. ASSUME NEW v \in Workers PROVE Owned(v)'
      BY <1>0, <1>7 DEF Heartbeat, Crash
  <2> QED
      BY <2>1, <2>2 DEF JobInv
<1>8. ASSUME NEW w \in Workers, NEW outcome \in {"done", "failed"}, Finish(w, outcome)
      PROVE  JobInv'
  <2>1. OneLive'
      BY <1>8, FewerLive DEF Finish, Live
  <2>2. ASSUME NEW v \in Workers PROVE Owned(v)'
      BY <1>0, <1>8 DEF Finish
  <2> QED
      BY <2>1, <2>2 DEF JobInv
<1>9. CASE UNCHANGED vars
    BY <1>0, <1>9 DEF vars, JobInv, Live
<1> QED
    BY <1>1, <1>2, <1>3, <1>4, <1>5, <1>6, <1>7, <1>8, <1>9 DEF Next, Complete, Fail

\* Nothing but a reap or a cancellation under a worker ever lets two workers be
\* on one (kind, key): the index, the claim and the state guards suffice.
THEOREM OverlapsAreExcused == Spec => []OverlapExcused
<1>1. Init => TypeOK /\ JobInv
    BY BoundAssumption DEF Init, TypeOK, JobInv, Live
<1>2. (TypeOK /\ JobInv) /\ [Next]_vars => (TypeOK /\ JobInv)'
    BY StepTypeOK, StepJobInv
<1>3. TypeOK /\ JobInv => OverlapExcused
    BY DEF TypeOK, JobInv, OverlapExcused, Live
<1> QED
    BY <1>1, <1>2, <1>3, PTL DEF Spec

\* No late call, reap or cleanup changes the outcome of a finished job or brings
\* a deleted one back.
THEOREM OutcomesStay == Spec => OutcomeStays
<1> DEFINE Stays(i) ==
               /\ state[i] \in {"done", "failed", "canceled"} => state'[i] \in {state[i], "gone"}
               /\ state[i] = "gone" => state'[i] = "gone"
<1>1. TypeOK /\ [Next]_vars => [\A i \in Ids : Stays(i)]_vars
  <2> SUFFICES ASSUME TypeOK, Next, NEW i \in Ids PROVE Stays(i)
      OBVIOUS
  <2> USE DEF TypeOK
  <2>1. CASE \E j \in Ids : Enqueue(j) \/ Cancel(j) \/ GoStale(j)
      BY <2>1 DEF Enqueue, Cancel, GoStale, Live
  <2>2. CASE Reap \/ Cleanup
      BY <2>2 DEF Reap, Stale, Cleanup
  <2>3. CASE \E w \in Workers : Claim(w)
      BY <2>3 DEF Claim, Lowest, Claimable
  <2>4. CASE \E w \in Workers : Heartbeat(w) \/ Crash(w)
      BY <2>4 DEF Heartbeat, Crash
  <2>5. CASE \E w \in Workers : Complete(w) \/ Fail(w)
      BY <2>5 DEF Complete, Fail, Finish, Matches
  <2> QED
      BY <2>1, <2>2, <2>3, <2>4, <2>5 DEF Next
<1> QED
    BY <1>1, TypeCorrect, PTL DEF Spec, OutcomeStays
===============================================================================
