----------------------------- MODULE DurableProofs -----------------------------
(***************************************************************************)
(* Theorems about the idempotency keys, the saga and the logical source    *)
(* with its pump, for every value of their constants.                      *)
(***************************************************************************)
EXTENDS MCDurable, SequenceTheorems, TLAPS

-------------------------------------------------------------------------------
(***************************************************************************)
(* Idempotency keys.                                                       *)
(***************************************************************************)

InTransaction(c) == run[c].step \in {"select", "fn", "update", "commit"}

\* The uncommitted row of a key belongs to one transaction on that key, and stands
\* in for a committed one.
InsertedInv ==
    \A k \in Keys : inserted[k] # Nobody =>
        /\ ~Recorded(k)
        /\ run[inserted[k]].key = k
        /\ InTransaction(inserted[k])

\* A row is locked by a transaction that has only its commit before it, and a locked
\* row is there: Cleanup waits.
LockedInv ==
    \A k \in Keys : locked[k] # Nobody =>
        /\ Recorded(k)
        /\ run[locked[k]].key = k
        /\ run[locked[k]].step = "commit"

\* A transaction past its INSERT has its own row or has seen a committed one, unless
\* that was reclaimed; one that has a response of its own has its own row.
ClaimInv ==
    \A c \in Callers : LET k == run[c].key IN
        /\ run[c].step \in {"idle", "insert", "select", "fn"} => run[c].out = 0
        /\ run[c].step = "select" => inserted[k] = c \/ Recorded(k) \/ c \in orphaned
        /\ run[c].step \in {"fn", "update"} \/ run[c].out # 0 => inserted[k] = c \/ c \in orphaned

IdemInv == InsertedInv /\ LockedInv /\ ClaimInv

\* The empty call is well typed: there is a key.
LEMMA NoRunType == NoRun \in Run /\ NoRun.step = "idle" /\ NoRun.out = 0
  BY IdempotencyAssumption DEF NoRun, Run

\* What a commit leaves in the table is well typed.
LEMMA WrittenType ==
    ASSUME IdemTypeOK, NEW c \in Callers
    PROVE  Written(c) \in [Keys -> Row]
  BY DEF IdemTypeOK, Written, Row, Run

\* Every step of the idempotency store keeps the types.
LEMMA IdemStepType ==
    ASSUME IdemTypeOK, [IdemNext]_idemVars
    PROVE  IdemTypeOK'
<1> USE IdempotencyAssumption DEF IdemTypeOK
<1>1. ASSUME NEW c \in Callers, NEW k \in Keys, Begin(c, k) PROVE IdemTypeOK'
  BY <1>1 DEF Begin, Run, Row
<1>2. ASSUME NEW c \in Callers, Insert(c) PROVE IdemTypeOK'
  BY <1>2 DEF Insert, Recorded, Run, Row
<1>3. ASSUME NEW c \in Callers, Select(c) PROVE IdemTypeOK'
  <2>1. locked' \in [Keys -> Callers \cup {Nobody}] /\ rec[run[c].key].resp \in 0..MaxExecutions
    BY <1>3 DEF Select, Run, Row
  <2>2. CASE Completed(c)
    BY <1>3, <2>1, <2>2 DEF Select, Run
  <2>3. CASE ~Completed(c)
    BY <1>3, <2>1, <2>3 DEF Select, Run
  <2> QED BY <2>2, <2>3
<1>4. ASSUME NEW c \in Callers, Fn(c) PROVE IdemTypeOK'
  <2>1. executions + 1 \in 0..MaxExecutions
    BY <1>4 DEF Fn
  <2> QED BY <1>4, <2>1 DEF Fn, Run
<1>5. ASSUME NEW c \in Callers, FnFails(c) PROVE IdemTypeOK'
  BY <1>5, NoRunType DEF FnFails, RolledBack, Releases, Run, Row
<1>6. ASSUME NEW c \in Callers, Update(c) PROVE IdemTypeOK'
  BY <1>6 DEF Update, Run, Row
<1>7. ASSUME NEW c \in Callers, Commit(c) PROVE IdemTypeOK'
  BY <1>7, WrittenType, NoRunType DEF Commit, Releases, Run
<1>8. ASSUME NEW c \in Callers, CommitLost(c) PROVE IdemTypeOK'
  BY <1>8, WrittenType, NoRunType DEF CommitLost, Releases, Run
<1>9. ASSUME NEW c \in Callers, Rollback(c) PROVE IdemTypeOK'
  BY <1>9, NoRunType DEF Rollback, RolledBack, Releases, Run, Row
<1>10. ASSUME NEW k \in Keys, Expire(k) PROVE IdemTypeOK'
  BY <1>10 DEF Expire, Row
<1>11. ASSUME NEW k \in Keys, Cleanup(k) PROVE IdemTypeOK'
  BY <1>11 DEF Cleanup, Row, NoRow
<1>12. CASE UNCHANGED idemVars
  BY <1>12 DEF idemVars
<1> HIDE DEF IdemTypeOK
<1> QED
  BY <1>1, <1>2, <1>3, <1>4, <1>5, <1>6, <1>7, <1>8, <1>9, <1>10, <1>11, <1>12 DEF IdemNext

\* Every step of the idempotency store keeps the invariant.
LEMMA IdemStepInv ==
    ASSUME IdemTypeOK, IdemInv, [IdemNext]_idemVars
    PROVE  IdemInv'
<1> USE IdempotencyAssumption
    DEF IdemTypeOK, IdemInv, InsertedInv, LockedInv, ClaimInv, InTransaction, Recorded
<1>1. ASSUME NEW c \in Callers, NEW k \in Keys, Begin(c, k) PROVE IdemInv'
  BY <1>1 DEF Begin, Run, Row
<1>2. ASSUME NEW c \in Callers, Insert(c) PROVE IdemInv'
  <2>1. UNCHANGED <<rec, locked, orphaned>> /\ run' = [run EXCEPT ![c].step = "select"]
    BY <1>2 DEF Insert
  <2>2. CASE Recorded(run[c].key)
    BY <1>2, <2>1, <2>2 DEF Insert, Run
  <2>3. CASE ~Recorded(run[c].key)
    <3>1. inserted[run[c].key] = Nobody /\ inserted' = [inserted EXCEPT ![run[c].key] = c]
      BY <1>2, <2>3 DEF Insert, Settled
    <3>2. InsertedInv'
      BY <1>2, <2>1, <2>3, <3>1 DEF Insert, Run
    <3>3. LockedInv'
      BY <1>2, <2>1, <2>3, <3>1 DEF Insert, Run
    <3>4. ClaimInv'
      BY <1>2, <2>1, <2>3, <3>1 DEF Insert, Run
    <3> QED BY <3>2, <3>3, <3>4
  <2> QED BY <2>2, <2>3
<1>3. ASSUME NEW c \in Callers, Select(c) PROVE IdemInv'
  <2>1. UNCHANGED <<rec, inserted>> /\ run[c].step = "select"
    BY <1>3 DEF Select
  <2>2. CASE Recorded(run[c].key)
    <3>1. /\ locked' = [locked EXCEPT ![run[c].key] = c]
          /\ run' = [run EXCEPT ![c].step = "commit"]
          /\ orphaned' = orphaned \ {c}
      BY <1>3, <2>2 DEF Select, Completed
    <3> QED BY <2>1, <2>2, <3>1 DEF Run
  <2>3. CASE ~Recorded(run[c].key)
    <3>1. UNCHANGED <<locked, orphaned>> /\ run' = [run EXCEPT ![c].step = "fn"]
      BY <1>3, <2>3 DEF Select, Completed
    <3> QED BY <2>1, <2>3, <3>1 DEF Run
  <2> QED BY <2>2, <2>3
<1>4. ASSUME NEW c \in Callers, Fn(c) PROVE IdemInv'
  BY <1>4 DEF Fn, Run, Row
<1>5. ASSUME NEW c \in Callers, FnFails(c) PROVE IdemInv'
  BY <1>5, NoRunType DEF FnFails, RolledBack, Releases, Run, Row
<1>6. ASSUME NEW c \in Callers, Update(c) PROVE IdemInv'
  BY <1>6 DEF Update, Run, Row
<1>7. ASSUME NEW c \in Callers, Commit(c) PROVE IdemInv'
  BY <1>7, NoRunType DEF Commit, Releases, Written, Run, Row
<1>8. ASSUME NEW c \in Callers, CommitLost(c) PROVE IdemInv'
  BY <1>8, NoRunType DEF CommitLost, Releases, Written, Run, Row
<1>9. ASSUME NEW c \in Callers, Rollback(c) PROVE IdemInv'
  BY <1>9, NoRunType DEF Rollback, RolledBack, Releases, Run, Row
<1>10. ASSUME NEW k \in Keys, Expire(k) PROVE IdemInv'
  BY <1>10 DEF Expire, Row
<1>11. ASSUME NEW k \in Keys, Cleanup(k) PROVE IdemInv'
  BY <1>11 DEF Cleanup, Row, NoRow
<1>12. CASE UNCHANGED idemVars
  BY <1>12 DEF idemVars
<1> HIDE DEF IdemTypeOK, IdemInv
<1> QED
  BY <1>1, <1>2, <1>3, <1>4, <1>5, <1>6, <1>7, <1>8, <1>9, <1>10, <1>11, <1>12 DEF IdemNext

\* The types of the idempotency store, for every number of callers, keys and closures.
THEOREM IdemTypeCorrect == IdemSpec => []IdemTypeOK
<1>1. IdemInit => IdemTypeOK
  BY IdempotencyAssumption, NoRunType DEF IdemInit, IdemTypeOK, Row, NoRow
<1> QED BY <1>1, IdemStepType, PTL DEF IdemSpec

\* One owner per uncommitted row, one per row lock, and no response without the one
\* or an excuse, whatever commits, rollbacks and reclaims come between the statements
\* of a Run.
THEOREM IdemInvCorrect == IdemSpec => []IdemInv
<1>1. IdemInit => IdemInv
  BY NoRunType DEF IdemInit, IdemInv, InsertedInv, LockedInv, ClaimInv
<1> QED BY <1>1, IdemTypeCorrect, IdemStepInv, PTL DEF IdemSpec

\* The recorded responses, which are the abstract register.
Responses == [k \in Keys |-> rec[k].resp]

\* A commit that writes a response performs the operation, or is an orphan's.
LEMMA WrittenFacts ==
    ASSUME IdemTypeOK, IdemInv, NEW c \in Callers, run[c].step = "commit", run[c].out # 0,
           rec' = Written(c)
    PROVE  LET k == run[c].key IN
           /\ run[c].out \in 1..MaxExecutions /\ k \in Keys
           /\ Responses' \in {Responses, [Responses EXCEPT ![k] = run[c].out]}
           /\ \/ c \in orphaned
              \/ Responses[k] = 0 /\ Responses' = [Responses EXCEPT ![k] = run[c].out]
<1> USE DEF Responses
<1>1. run[c].out \in 1..MaxExecutions /\ run[c].key \in Keys
  BY DEF IdemTypeOK, Run
<1>2. CASE inserted[run[c].key] = c
  <2>1. rec' = [rec EXCEPT ![run[c].key] = [resp |-> run[c].out, expired |-> FALSE]]
    BY <1>2 DEF Written
  <2>2. rec[run[c].key].resp = 0
    BY <1>1, <1>2, IdempotencyAssumption DEF IdemInv, InsertedInv, Recorded
  <2> QED BY <1>1, <2>1, <2>2 DEF IdemTypeOK
<1>3. CASE inserted[run[c].key] # c
  <2>1. c \in orphaned
    BY <1>3 DEF IdemInv, ClaimInv
  <2>2. rec' = rec \/ rec' = [rec EXCEPT ![run[c].key].resp = run[c].out]
    BY <1>3 DEF Written
  <2> QED BY <1>1, <2>1, <2>2 DEF IdemTypeOK, Row
<1> QED BY <1>2, <1>3

\* Run implements the once-only register: every step of the store is a step of
\* OnceRegister, or changes nothing that its callers can see.  For every number of
\* callers, keys and closures.
THEOREM PerformedOnceCorrect == IdemSpec => PerformedOnce
<1> USE DEF Responses
<1>1. IdemInit => Once!OnceInit
  BY DEF IdemInit, Once!OnceInit, NoRow
<1>2. ASSUME IdemTypeOK, IdemInv, IdemTypeOK', [IdemNext]_idemVars
      PROVE  [Once!OnceNext]_(Once!onceVars)
  <2> USE <1>2
  <2>1. ASSUME UNCHANGED <<rec, told, orphaned>>
        PROVE  UNCHANGED Once!onceVars
    BY <2>1 DEF Once!onceVars
  <2>2. ASSUME NEW c \in Callers, RolledBack(c)
        PROVE  Once!GiveUp(c)
    BY <2>2 DEF RolledBack, Once!GiveUp
  <2>3. ASSUME NEW c \in Callers, NEW k \in Keys, Begin(c, k)
        PROVE  UNCHANGED Once!onceVars
    BY <2>1, <2>3 DEF Begin
  <2>4. ASSUME NEW c \in Callers, Insert(c) \/ Fn(c) \/ Update(c)
        PROVE  UNCHANGED Once!onceVars
    BY <2>1, <2>4 DEF Insert, Fn, Update
  <2>5. ASSUME NEW c \in Callers, Select(c)
        PROVE  UNCHANGED Once!onceVars \/ \E k \in Keys : Once!Recall(c, k)
    <3>1. CASE Recorded(run[c].key)
      <4>1. run[c].key \in Keys
        BY DEF IdemTypeOK, Run
      <4>2. Once!Recall(c, run[c].key)
        BY <2>5, <3>1, <4>1 DEF Select, Completed, Recorded, Once!Recall
      <4> QED BY <4>1, <4>2
    <3>2. CASE ~Recorded(run[c].key)
      BY <2>1, <2>5, <3>2 DEF Select, Completed
    <3> QED BY <3>1, <3>2
  <2>6. ASSUME NEW c \in Callers, Commit(c)
        PROVE  \/ Once!GiveUp(c)
               \/ \E k \in Keys, v \in 1..MaxExecutions : Once!Perform(c, k, v) \/ Once!Overrun(c, k, v)
    <3>1. CASE run[c].out = 0
      BY <2>6, <3>1 DEF Commit, Written, Once!GiveUp
    <3>2. CASE run[c].out # 0
      <4>1. /\ told' = [told EXCEPT ![c] = run[c].out] /\ orphaned' = orphaned \ {c}
            /\ run[c].step = "commit" /\ rec' = Written(c)
        BY <2>6, <3>2 DEF Commit
      <4>2. PICK k \in Keys, v \in 1..MaxExecutions : k = run[c].key /\ v = run[c].out
        BY <3>2, <4>1, WrittenFacts
      <4>3. Once!Perform(c, k, v) \/ Once!Overrun(c, k, v)
        BY <3>2, <4>1, <4>2, WrittenFacts DEF Once!Perform, Once!Overrun
      <4> QED BY <4>3
    <3> QED BY <3>1, <3>2
  <2>7. ASSUME NEW c \in Callers, CommitLost(c)
        PROVE  \/ Once!GiveUp(c)
               \/ \E k \in Keys, v \in 1..MaxExecutions :
                     Once!PerformUntold(k, v) \/ Once!Overrun(c, k, v)
    <3>1. CASE run[c].out = 0
      BY <2>7, <3>1 DEF CommitLost, Written, Once!GiveUp
    <3>2. CASE run[c].out # 0
      <4>1. /\ UNCHANGED told /\ orphaned' = orphaned \ {c}
            /\ run[c].step = "commit" /\ rec' = Written(c)
        BY <2>7 DEF CommitLost
      <4>2. PICK k \in Keys, v \in 1..MaxExecutions : k = run[c].key /\ v = run[c].out
        BY <3>2, <4>1, WrittenFacts
      <4>3. Once!PerformUntold(k, v) \/ Once!Overrun(c, k, v)
        BY <3>2, <4>1, <4>2, WrittenFacts DEF Once!PerformUntold, Once!Overrun
      <4> QED BY <4>3
    <3> QED BY <3>1, <3>2
  <2>8. ASSUME NEW k \in Keys, Expire(k)
        PROVE  UNCHANGED Once!onceVars
    <3>1. Responses' = Responses
      BY <2>8 DEF Expire, IdemTypeOK, Row
    <3> QED BY <2>8, <3>1 DEF Expire, Once!onceVars
  <2>9. ASSUME NEW k \in Keys, Cleanup(k)
        PROVE  Once!Forget(k)
    <3>1. Responses' = [Responses EXCEPT ![k] = 0]
      BY <2>9 DEF Cleanup, NoRow, IdemTypeOK
    <3> QED BY <2>9, <3>1 DEF Cleanup, Once!Forget, IdemTypeOK
  <2>10. CASE UNCHANGED idemVars
    BY <2>1, <2>10 DEF idemVars
  <2> QED
    BY <2>2, <2>3, <2>4, <2>5, <2>6, <2>7, <2>8, <2>9, <2>10
    DEF IdemNext, FnFails, Rollback, Once!OnceNext
<1> QED
  BY <1>1, <1>2, IdemTypeCorrect, IdemInvCorrect, PTL DEF IdemSpec, PerformedOnce, Once!OnceSpec

-------------------------------------------------------------------------------
(***************************************************************************)
(* Sagas.                                                                  *)
(***************************************************************************)

\* Forward, what is done is exactly the steps before the current one; backward, what
\* is left above the current step is accounted for and undone steps lie above it.
SagaInv ==
    /\ phase = "forward" =>
          /\ at >= 1 /\ completed = 1..at - 1 /\ inPlace = completed
          /\ undone = <<>>
    /\ phase = "ok" => inPlace = 1..Steps
    /\ phase = "compensate" =>
          /\ at <= Steps /\ 1..at \subseteq completed
          /\ \A i \in inPlace : i > at => i \in failures \cup NoComp \cup hidden
          /\ \A i \in 1..Len(undone) : undone[i] > at
    /\ phase = "error" => inPlace \subseteq failures \cup NoComp \cup hidden
    /\ \A i, j \in 1..Len(undone) : i < j => undone[i] > undone[j]

\* Compensation begins at the step before the one that failed.
LEMMA LastCompletedIs ==
    ASSUME NEW n \in Nat, completed = 1..n
    PROVE  LastCompleted = n
<1>1. CASE n = 0
  BY <1>1 DEF LastCompleted
<1>2. CASE n # 0
  <2>1. n \in completed /\ \A j \in completed : j <= n
    BY <1>2
  <2>2. LastCompleted \in completed /\ \A j \in completed : j <= LastCompleted
    BY <2>1 DEF LastCompleted
  <2> QED BY <2>1, <2>2
<1> QED BY <1>1, <1>2

\* Every step of a saga keeps the types and the invariant.
LEMMA SagaStep ==
    ASSUME SagaTypeOK, SagaInv, [SagaNext]_sagaVars
    PROVE  SagaTypeOK' /\ SagaInv'
<1> USE SagaAssumption DEF SagaTypeOK, SagaInv, Fault
<1>1. CASE StepCommits
  BY <1>1 DEF StepCommits
<1>2. CASE StepRetried
  BY <1>2 DEF StepRetried
<1>3. CASE StepFails
  <2>1. at - 1 \in Nat /\ LastCompleted = at - 1
    BY <1>3, LastCompletedIs DEF StepFails
  <2>2. /\ phase = "forward" /\ phase' = "compensate" /\ at' = at - 1 /\ attempt' = 1
        /\ faults' \in 0..MaxFaults /\ UNCHANGED <<completed, failures, undone>>
        /\ at \in 1..Steps
    BY <1>3, <2>1 DEF StepFails
  <2>3. /\ inPlace' \in {inPlace, inPlace \cup {at}} /\ hidden \subseteq hidden'
        /\ hidden' \subseteq 1..Steps
        /\ at \in inPlace' => at \in hidden'
    <3>1. at \notin inPlace
      BY <2>2
    <3>2. \/ UNCHANGED <<inPlace, hidden>>
          \/ inPlace' = inPlace \cup {at} /\ hidden' = hidden \cup {at}
      BY <1>3 DEF StepFails
    <3> QED BY <2>2, <3>1, <3>2
  <2>4. SagaTypeOK'
    BY <2>2, <2>3
  <2>5. SagaInv'
    BY <2>2, <2>3
  <2> QED BY <2>4, <2>5
<1>4. CASE StepPanics
  BY <1>4 DEF StepPanics
<1>5. CASE RunSucceeds
  BY <1>5 DEF RunSucceeds
<1>6. CASE CompensationSkipped
  BY <1>6 DEF CompensationSkipped, NextDown
<1>7. CASE Compensated
  BY <1>7 DEF Compensated, Undo, NextDown
<1>8. CASE CompensationRetried
  BY <1>8 DEF CompensationRetried
<1>9. CASE CompensationFails
  <2>1. /\ phase = "compensate" /\ phase' = phase /\ at \in 1..Steps /\ at' = at - 1
        /\ failures' = failures \cup {at} /\ attempt' = 1 /\ faults' \in 0..MaxFaults
        /\ UNCHANGED <<completed, hidden>>
    BY <1>9 DEF CompensationFails, NextDown
  <2>2. CASE Undo
    BY <2>1, <2>2, SMTT(20) DEF Undo
  <2>3. CASE UNCHANGED <<inPlace, undone>>
    BY <2>1, <2>3
  <2> QED BY <1>9, <2>2, <2>3 DEF CompensationFails
<1>10. CASE CompensationPanics
  BY <1>10 DEF CompensationPanics
<1>11. CASE RunFails
  BY <1>11 DEF RunFails
<1>12. CASE ProcessDies
  BY <1>12 DEF ProcessDies
<1>13. CASE UNCHANGED sagaVars
  BY <1>13 DEF sagaVars
<1> HIDE DEF SagaTypeOK, SagaInv
<1> QED
  BY <1>1, <1>2, <1>3, <1>4, <1>5, <1>6, <1>7,
     <1>8, <1>9, <1>10, <1>11, <1>12, <1>13 DEF SagaNext

\* The types and the accounting of a saga's run.
THEOREM SagaInvCorrect == SagaSpec => [](SagaTypeOK /\ SagaInv)
<1>1. SagaInit => SagaTypeOK /\ SagaInv
  BY SagaAssumption DEF SagaInit, SagaTypeOK, SagaInv
<1> QED BY <1>1, SagaStep, PTL DEF SagaSpec

\* Run is all or nothing as far as it tells, whatever fails, and compensates last
\* first: for every number of steps, attempts and faults.
THEOREM AllOrReportedCorrect == SagaSpec => []AllOrReported
<1>1. SagaTypeOK /\ SagaInv => AllOrReported
  BY DEF SagaInv, AllOrReported
<1> QED BY <1>1, SagaInvCorrect, PTL

-------------------------------------------------------------------------------
(***************************************************************************)
(* The logical source and its pump.                                        *)
(***************************************************************************)

\* The stream is between the slot's position and the end of the log.
ReaderInv ==
    /\ confirmed <= reader.sent /\ reader.sent <= Len(log)
    /\ reader.open => reader.sent < Len(log)

\* The channel is in log order, and a row transaction comes before its keepalives.
ChannelInv ==
    /\ \A i \in 1..Len(txs) : txs[i].lsn <= reader.sent
    /\ \A i, j \in 1..Len(txs) : i < j => txs[i].lsn <= txs[j].lsn
    /\ \A i, j \in 1..Len(txs) : i < j /\ txs[j].kind = "row" => txs[i].lsn < txs[j].lsn

\* The pump holds rows only between Fetch and Ack, acknowledges a position before
\* the rows still in the channel, and does so when all sinks have what it holds.
PumpInv ==
    /\ pump.step \in {"fetch", "stopped"} => pump.rows = {}
    /\ pump.step # "stopped" => pump.attempt < MaxRetry
    /\ pump.ack <= reader.sent
    /\ pump.step = "apply" => pump.sink \in 1..NSinks
    /\ pump.step \in {"apply", "ack"} =>
          \A i \in 1..Len(txs) : txs[i].kind = "row" => pump.ack < txs[i].lsn
    /\ \A s \in 1..NSinks : (pump.step = "apply" /\ s < pump.sink) \/ pump.step = "ack"
                             => pump.rows \subseteq sunk[s]

\* Every row transaction that the stream has sent is in the channel, with the pump,
\* or settled; and settled if it is confirmed.
CareInv ==
    /\ ConfirmedOrDropped
    /\ \A p \in RowTxs : p <= reader.sent =>
          \/ Mirrored(p) \/ p \in dropped
          \/ p \in pump.rows
          \/ \E i \in 1..Len(txs) : txs[i].kind = "row" /\ txs[i].lsn = p

LogicalInv == ReaderInv /\ ChannelInv /\ PumpInv /\ CareInv

PumpType == [step : {"fetch", "apply", "ack", "stopped"}, rows : SUBSET Position, ack : Position,
             sink : 1..NSinks + 1, attempt : 0..MaxRetry]

\* The bounds, one by one, and a pump that holds nothing.
LEMMA LogicalBounds ==
    /\ Width \in Nat /\ Buffer \in Nat /\ NSinks \in Nat /\ MaxRetry \in Nat
    /\ Width > 0 /\ Buffer > 0 /\ NSinks > 0 /\ MaxRetry > 0
    /\ MaxLog \in Nat /\ MaxTrouble \in Nat
  BY LogicalAssumption

LEMMA IdlePumpType == IdlePump \in PumpType
  BY LogicalBounds DEF IdlePump, PumpType, Position

ReaderType == [up : BOOLEAN, sent : Position, open : BOOLEAN, got : 0..Width]

\* The numbers in a well-typed state.
LEMMA LogicalFacts ==
    ASSUME LogicalTypeOK
    PROVE  /\ Len(log) \in Nat /\ Len(log) <= MaxLog /\ Len(txs) \in Nat
           /\ reader \in ReaderType /\ pump \in PumpType
           /\ reader.sent \in Nat /\ confirmed \in Nat /\ pump.ack \in Nat
           /\ \A i \in 1..Len(txs) : txs[i] \in ItemTx /\ txs[i].lsn \in Nat
<1>1. log \in Seq(TxKinds) /\ txs \in Seq(ItemTx)
  BY DEF LogicalTypeOK
<1>2. reader \in ReaderType /\ pump \in PumpType /\ confirmed \in Position /\ Len(log) <= MaxLog
  BY DEF LogicalTypeOK, ReaderType, PumpType
<1>3. \A i \in 1..Len(txs) : txs[i] \in ItemTx
  BY <1>1
<1>4. Len(log) \in Nat /\ Len(txs) \in Nat
  BY <1>1
<1>5. reader.sent \in Nat /\ confirmed \in Nat /\ pump.ack \in Nat
  BY <1>2, LogicalBounds DEF ReaderType, PumpType, Position
<1>6. \A i \in 1..Len(txs) : txs[i].lsn \in Nat
  BY <1>3, LogicalBounds DEF ItemTx, Position
<1> QED BY <1>2, <1>3, <1>4, <1>5, <1>6

\* What handing a transaction to the channel does.
LEMMA SendFacts ==
    ASSUME LogicalTypeOK, NEW x \in ItemTx, txs' = Append(txs, x)
    PROVE  /\ txs' \in Seq(ItemTx) /\ Len(txs') = Len(txs) + 1
           /\ \A i \in 1..Len(txs) : txs'[i] = txs[i]
           /\ txs'[Len(txs) + 1] = x
<1>1. txs \in Seq(ItemTx)
  BY DEF LogicalTypeOK
<1> QED BY <1>1, AppendProperties

\* What taking the first n transactions off the channel leaves.
LEMMA TakeFacts ==
    ASSUME LogicalTypeOK, NEW n \in 1..Len(txs), txs' = SubSeq(txs, n + 1, Len(txs))
    PROVE  /\ txs' \in Seq(ItemTx) /\ Len(txs') = Len(txs) - n
           /\ \A i \in 1..Len(txs) - n : txs'[i] = txs[n + i]
<1>1. txs \in Seq(ItemTx) /\ Len(txs) \in Nat /\ n \in Nat
  BY DEF LogicalTypeOK
<1>2. \A i \in n + 1..Len(txs) : txs[i] \in ItemTx
  BY <1>1
<1>3. n + 1 \in Int /\ Len(txs) \in Int
  BY <1>1
<1>4. /\ SubSeq(txs, n + 1, Len(txs)) \in Seq(ItemTx)
      /\ Len(SubSeq(txs, n + 1, Len(txs))) = IF n + 1 <= Len(txs) THEN Len(txs) - (n + 1) + 1 ELSE 0
      /\ \A i \in 1..Len(txs) - (n + 1) + 1 : SubSeq(txs, n + 1, Len(txs))[i] = txs[(n + 1) + i - 1]
  BY <1>2, <1>3, SubSeqProperties
<1>5. Len(txs') = Len(txs) - n
  BY <1>1, <1>4
<1>6. ASSUME NEW i \in 1..Len(txs) - n PROVE txs'[i] = txs[n + i]
  BY <1>1, <1>4
<1> QED BY <1>4, <1>5, <1>6

\* A failed Step leaves the pump empty-handed, stopped at its budget.
LEMMA StepFailedFacts ==
    ASSUME LogicalTypeOK, LogicalInv, pump.step # "stopped", StepFailed
    PROVE  /\ pump' \in PumpType
           /\ pump'.rows = {} /\ pump'.ack = 0
           /\ pump'.step \in {"fetch", "stopped"}
           /\ pump'.step # "stopped" => pump'.attempt < MaxRetry
<1>1. /\ pump.attempt + 1 \in 0..MaxRetry
      /\ ~(pump.attempt + 1 >= MaxRetry) => pump.attempt + 1 < MaxRetry
  BY LogicalBounds DEF LogicalTypeOK, LogicalInv, PumpInv
<1> QED BY <1>1, IdlePumpType DEF StepFailed, IdlePump, PumpType

\* A restart begins where the slot stands, with nothing in memory.
LEMMA RestartedStep ==
    ASSUME LogicalTypeOK, LogicalInv, Restarted, trouble' \in 0..MaxTrouble
    PROVE  LogicalTypeOK' /\ LogicalInv'
<1> USE LogicalBounds DEF Restarted, LogicalTypeOK, Position
<1>1. txs' = <<>> /\ Len(txs') = 0 /\ txs' \in Seq(ItemTx)
  OBVIOUS
<1>2. LogicalTypeOK'
  <2>1. pump' \in PumpType
    BY IdlePumpType
  <2>2. reader' \in [up : BOOLEAN, sent : Position, open : BOOLEAN, got : 0..Width]
    BY DEF Fresh
  <2>3. dropped' \subseteq Position /\ UNCHANGED <<log, confirmed, sunk>>
    OBVIOUS
  <2>4. txs' \in Seq(ItemTx) /\ Len(txs') <= Buffer
    BY <1>1
  <2> HIDE DEF Restarted, Position
  <2> QED BY <2>1, <2>2, <2>3, <2>4 DEF PumpType
<1>3. ReaderInv' /\ ChannelInv'
  BY <1>1, SMTT(20) DEF LogicalInv, ReaderInv, ChannelInv, Fresh
<1>4. PumpInv'
  BY <1>1 DEF LogicalInv, PumpInv, IdlePump, Fresh
<1>5. CareInv'
  BY <1>1 DEF LogicalInv, CareInv, ConfirmedOrDropped, RowTxs, Mirrored, Fresh
<1> QED BY <1>2, <1>3, <1>4, <1>5 DEF LogicalInv

\* A commit in the database adds one transaction at the end of the log.
LEMMA CommitTxStep ==
    ASSUME LogicalTypeOK, LogicalInv, NEW kind \in TxKinds, CommitTx(kind)
    PROVE  LogicalTypeOK' /\ LogicalInv'
<1> USE LogicalBounds
<1>1. /\ log' \in Seq(TxKinds) /\ Len(log') = Len(log) + 1 /\ Len(log') <= MaxLog
      /\ \A p \in 1..Len(log) : log'[p] = log[p]
  BY AppendProperties DEF CommitTx, LogicalTypeOK
<1>2. UNCHANGED <<confirmed, reader, txs, pump, sunk, dropped, trouble>> /\ Len(log) \in Nat
  BY DEF CommitTx, LogicalTypeOK
<1>3. LogicalTypeOK'
  BY <1>1, <1>2 DEF LogicalTypeOK
<1>4. ReaderInv' /\ ChannelInv' /\ PumpInv'
  BY <1>1, <1>2, SMTT(20) DEF LogicalTypeOK, Position, LogicalInv, ReaderInv, ChannelInv, PumpInv
<1>5. ASSUME NEW p \in RowTxs', p <= reader.sent PROVE p \in RowTxs
  BY <1>1, <1>2, <1>5, SMTT(20) DEF LogicalTypeOK, Position, LogicalInv, ReaderInv, RowTxs
<1>6. confirmed <= reader.sent /\ confirmed \in Nat /\ reader.sent \in Nat
  BY DEF LogicalTypeOK, Position, LogicalInv, ReaderInv
<1>7. RowTxs' \subseteq Nat
  BY DEF RowTxs
<1>8. CareInv'
  <2>1. ConfirmedOrDropped'
    BY <1>2, <1>5, <1>6, <1>7 DEF LogicalInv, CareInv, ConfirmedOrDropped, Mirrored
  <2> QED BY <1>2, <1>5, <2>1 DEF LogicalInv, CareInv, Mirrored
<1> QED BY <1>3, <1>4, <1>8 DEF LogicalInv

\* A step that only moves the stream inside a transaction, or ends it, disturbs nothing.
LEMMA StreamStep ==
    ASSUME LogicalTypeOK, LogicalInv,
           MessageBegin \/ MessageChange \/ StreamFails
    PROVE  LogicalTypeOK' /\ LogicalInv'
<1> USE LogicalBounds
<1>1. UNCHANGED <<log, confirmed, txs, pump, sunk, dropped>>
  BY DEF MessageBegin, MessageChange, StreamFails
<1>2. trouble' \in 0..MaxTrouble
  BY DEF MessageBegin, MessageChange, StreamFails, Troubled, LogicalTypeOK
<1>3. /\ reader' \in ReaderType
      /\ reader'.sent = reader.sent
      /\ reader'.open => reader.open \/ reader.sent < Len(log)
  <2>1. CASE MessageBegin
    <3>1. 0 \in 0..Width
      OBVIOUS
    <3> QED BY <2>1, <3>1, LogicalFacts DEF MessageBegin, ReaderType
  <2>2. CASE MessageChange
    <3>1. reader.got + 1 \in 0..Width
      BY <2>2, LogicalFacts DEF MessageChange, ReaderType
    <3> QED BY <2>2, <3>1, LogicalFacts DEF MessageChange, ReaderType
  <2>3. CASE StreamFails
    BY <2>3, LogicalFacts DEF StreamFails, ReaderType
  <2> QED BY <2>1, <2>2, <2>3
<1>4. LogicalTypeOK'
  BY <1>1, <1>2, <1>3 DEF LogicalTypeOK, ReaderType
<1>5. ReaderInv' /\ ChannelInv' /\ PumpInv'
  BY <1>1, <1>3 DEF LogicalInv, ReaderInv, ChannelInv, PumpInv
<1>6. CareInv'
  BY <1>1, <1>3 DEF LogicalInv, CareInv, ConfirmedOrDropped, RowTxs, Mirrored
<1> QED BY <1>4, <1>5, <1>6 DEF LogicalInv

\* A whole transaction reaches the channel, behind all that is in it.
LEMMA MessageCommitStep ==
    ASSUME LogicalTypeOK, LogicalInv, MessageCommit
    PROVE  LogicalTypeOK' /\ LogicalInv'
<1> USE LogicalBounds
<1> DEFINE x == [lsn |-> reader.sent + 1, kind |-> log[reader.sent + 1], changes |-> Width]
<1>1. /\ UNCHANGED <<log, confirmed, pump, sunk, dropped, trouble>>
      /\ Len(txs) < Buffer /\ txs' = Append(txs, x)
  BY DEF MessageCommit
<1>2. reader.sent \in Nat /\ reader.sent + 1 \in 1..Len(log) /\ Len(log) \in Nat /\ Len(log) <= MaxLog
  BY LogicalFacts, SMTT(20) DEF MessageCommit, LogicalInv, ReaderInv
<1>3. /\ reader' \in ReaderType
      /\ reader'.sent = reader.sent + 1 /\ ~reader'.open
  <2>1. 0 \in 0..Width /\ reader.sent + 1 \in Position
    BY <1>2 DEF Position
  <2> QED BY <2>1, LogicalFacts DEF MessageCommit, ReaderType
<1>4. x \in ItemTx
  <2>1. log[reader.sent + 1] \in TxKinds
    BY <1>2 DEF LogicalTypeOK
  <2>2. reader.sent + 1 \in Position
    BY <1>2 DEF Position
  <2> QED BY <2>1, <2>2 DEF ItemTx
<1>5. /\ txs' \in Seq(ItemTx) /\ Len(txs') = Len(txs) + 1 /\ Len(txs) \in Nat
      /\ \A i \in 1..Len(txs) : txs'[i] = txs[i]
      /\ txs'[Len(txs) + 1].lsn = reader.sent + 1
      /\ txs'[Len(txs) + 1].kind = log[reader.sent + 1]
  BY <1>1, <1>4, SendFacts DEF LogicalTypeOK
<1> HIDE DEF x
<1>6. LogicalTypeOK'
  BY <1>1, <1>3, <1>5, SMTT(20) DEF LogicalTypeOK, ReaderType
<1>7. ReaderInv'
  BY <1>1, <1>2, <1>3, LogicalFacts DEF LogicalInv, ReaderInv
<1>8. \A i \in 1..Len(txs) : txs[i].lsn \in Nat /\ txs[i].lsn <= reader.sent
  BY LogicalFacts DEF LogicalInv, ChannelInv
<1>9. ChannelInv'
  <2>1. ASSUME NEW i \in 1..Len(txs') PROVE txs'[i].lsn <= reader'.sent
    BY <1>2, <1>3, <1>5, <1>8
  <2>2. ASSUME NEW i \in 1..Len(txs'), NEW j \in 1..Len(txs'), i < j
        PROVE  /\ txs'[i].lsn <= txs'[j].lsn
               /\ txs'[j].kind = "row" => txs'[i].lsn < txs'[j].lsn
    <3>1. CASE j = Len(txs) + 1
      BY <1>2, <1>5, <1>8, <2>2, <3>1, SMTT(20)
    <3>2. CASE j \in 1..Len(txs)
      BY <1>5, <2>2, <3>2 DEF LogicalInv, ChannelInv
    <3> QED BY <1>5, <3>1, <3>2
  <2> QED BY <2>1, <2>2 DEF ChannelInv
<1>10. PumpInv'
  <2>1. pump.ack \in Nat /\ pump.ack <= reader.sent /\ pump.ack < reader.sent + 1
    BY <1>2, LogicalFacts DEF LogicalInv, PumpInv
  <2>2. pump'.ack <= reader'.sent
    BY <1>1, <1>2, <1>3, <2>1
  <2>3. ASSUME pump.step \in {"apply", "ack"}, NEW i \in 1..Len(txs'), txs'[i].kind = "row"
        PROVE  pump.ack < txs'[i].lsn
    <3>1. CASE i = Len(txs) + 1
      BY <1>5, <2>1, <3>1
    <3>2. CASE i \in 1..Len(txs)
      BY <1>5, <2>3, <3>2 DEF LogicalInv, PumpInv
    <3> QED BY <1>5, <3>1, <3>2
  <2> QED BY <1>1, <2>2, <2>3 DEF LogicalInv, PumpInv
<1>11. CareInv'
  <2>1. ConfirmedOrDropped'
    BY <1>1 DEF LogicalInv, CareInv, ConfirmedOrDropped, RowTxs, Mirrored
  <2>2. ASSUME NEW p \in RowTxs', p <= reader'.sent
        PROVE  \/ Mirrored(p)' \/ p \in dropped' \/ p \in pump'.rows
               \/ \E i \in 1..Len(txs') : txs'[i].kind = "row" /\ txs'[i].lsn = p
    <3>1. p \in RowTxs /\ p \in Nat
      BY <1>1 DEF RowTxs
    <3>2. CASE p = reader.sent + 1
      BY <1>5, <3>1, <3>2 DEF RowTxs
    <3>3. CASE p <= reader.sent
      BY <1>1, <1>5, <3>1, <3>3 DEF LogicalInv, CareInv, Mirrored
    <3> QED BY <1>2, <1>3, <2>2, <3>1, <3>2, <3>3
  <2> QED BY <2>1, <2>2 DEF CareInv
<1> QED BY <1>6, <1>7, <1>9, <1>10, <1>11 DEF LogicalInv

\* A keepalive goes behind all that is in the channel and stands for no row.
LEMMA KeepaliveStep ==
    ASSUME LogicalTypeOK, LogicalInv, MessageKeepalive
    PROVE  LogicalTypeOK' /\ LogicalInv'
<1> USE LogicalBounds
<1> DEFINE x == [lsn |-> reader.sent, kind |-> "other", changes |-> 0]
<1>1. /\ UNCHANGED <<log, confirmed, reader, pump, sunk, dropped, trouble>>
      /\ Len(txs) < Buffer /\ txs' = Append(txs, x)
  BY DEF MessageKeepalive, KeepalivePassed
<1>2. 0 \in 0..Width /\ reader.sent \in Position
  BY LogicalFacts DEF ReaderType
<1>3. x \in ItemTx
  BY <1>2 DEF ItemTx, TxKinds
<1>4. /\ txs' \in Seq(ItemTx) /\ Len(txs') = Len(txs) + 1 /\ Len(txs) \in Nat
      /\ \A i \in 1..Len(txs) : txs'[i] = txs[i]
      /\ txs'[Len(txs) + 1].lsn = reader.sent
      /\ txs'[Len(txs) + 1].kind # "row"
  BY <1>1, <1>3, LogicalFacts, SendFacts
<1> HIDE DEF x
<1>5. LogicalTypeOK'
  BY <1>1, <1>4 DEF LogicalTypeOK
<1>6. ReaderInv'
  BY <1>1 DEF LogicalInv, ReaderInv
<1>7. reader.sent \in Nat /\ \A i \in 1..Len(txs) : txs[i].lsn \in Nat /\ txs[i].lsn <= reader.sent
  BY LogicalFacts DEF LogicalInv, ChannelInv
<1>8. ChannelInv'
  <2>1. ASSUME NEW i \in 1..Len(txs') PROVE txs'[i].lsn <= reader'.sent
    BY <1>1, <1>4, <1>7
  <2>2. ASSUME NEW i \in 1..Len(txs'), NEW j \in 1..Len(txs'), i < j
        PROVE  /\ txs'[i].lsn <= txs'[j].lsn
               /\ txs'[j].kind = "row" => txs'[i].lsn < txs'[j].lsn
    <3>1. CASE j = Len(txs) + 1
      BY <1>4, <1>7, <2>2, <3>1
    <3>2. CASE j \in 1..Len(txs)
      BY <1>4, <2>2, <3>2 DEF LogicalInv, ChannelInv
    <3> QED BY <1>4, <3>1, <3>2
  <2> QED BY <2>1, <2>2 DEF ChannelInv
<1>9. PumpInv'
  BY <1>1, <1>4 DEF LogicalInv, PumpInv
<1>10. CareInv'
  <2>1. ConfirmedOrDropped' /\ RowTxs' = RowTxs /\ \A p \in RowTxs : Mirrored(p)' = Mirrored(p)
    BY <1>1 DEF LogicalInv, CareInv, ConfirmedOrDropped, RowTxs, Mirrored
  <2>2. \A i \in 1..Len(txs) : i \in 1..Len(txs')
    BY <1>4
  <2> QED BY <1>1, <1>4, <2>1, <2>2 DEF LogicalInv, CareInv
<1> QED BY <1>5, <1>6, <1>8, <1>9, <1>10 DEF LogicalInv

\* What is left in the channel after n transactions are taken off it keeps its order,
\* and a row transaction that was in it is among the n or still there.
LEMMA TakeChannel ==
    ASSUME LogicalTypeOK, LogicalInv, NEW n \in 1..Len(txs),
           txs' = SubSeq(txs, n + 1, Len(txs)), UNCHANGED <<log, reader, confirmed>>
    PROVE  /\ txs' \in Seq(ItemTx) /\ Len(txs') <= Buffer
           /\ ReaderInv' /\ ChannelInv'
           /\ \A i \in 1..Len(txs') : txs'[i].kind = "row" => txs[n].lsn < txs'[i].lsn
           /\ \A i \in 1..Len(txs) : i <= n \/ \E j \in 1..Len(txs') : txs'[j] = txs[i]
           /\ txs[n].lsn \in Position /\ txs[n].lsn <= reader.sent
<1> USE LogicalBounds
<1>1. /\ txs' \in Seq(ItemTx) /\ Len(txs') = Len(txs) - n
      /\ \A i \in 1..Len(txs) - n : txs'[i] = txs[n + i]
  BY TakeFacts
<1>2. Len(txs) \in Nat /\ Len(txs) <= Buffer /\ n \in Nat /\ 1 <= n /\ n <= Len(txs)
  BY LogicalFacts DEF LogicalTypeOK
<1>3. Len(txs') <= Buffer
  BY <1>1, <1>2
<1>4. ReaderInv'
  BY DEF LogicalInv, ReaderInv
<1>5. ASSUME NEW i \in 1..Len(txs') PROVE n + i \in 1..Len(txs) /\ n < n + i /\ txs'[i] = txs[n + i]
  <2>1. i \in 1..Len(txs) - n
    BY <1>1
  <2>2. n + i \in 1..Len(txs) /\ n < n + i
    BY <1>2, <2>1
  <2> QED BY <1>1, <2>1, <2>2
<1>6. ChannelInv'
  <2>1. ASSUME NEW i \in 1..Len(txs') PROVE txs'[i].lsn <= reader'.sent
    BY <1>5 DEF LogicalInv, ChannelInv
  <2>2. ASSUME NEW i \in 1..Len(txs'), NEW j \in 1..Len(txs'), i < j
        PROVE  /\ txs'[i].lsn <= txs'[j].lsn
               /\ txs'[j].kind = "row" => txs'[i].lsn < txs'[j].lsn
    <3>1. n + i < n + j
      BY <1>1, <1>2, <2>2
    <3> QED BY <1>5, <3>1 DEF LogicalInv, ChannelInv
  <2> QED BY <2>1, <2>2 DEF ChannelInv
<1>7. ASSUME NEW i \in 1..Len(txs'), txs'[i].kind = "row" PROVE txs[n].lsn < txs'[i].lsn
  BY <1>5, <1>7 DEF LogicalInv, ChannelInv
<1>8. ASSUME NEW i \in 1..Len(txs), ~(i <= n) PROVE \E j \in 1..Len(txs') : txs'[j] = txs[i]
  <2>1. i \in Nat /\ n < i /\ i <= Len(txs)
    BY <1>2, <1>8
  <2>2. i - n \in 1..Len(txs') /\ n + (i - n) = i
    BY <1>1, <1>2, <2>1
  <2> QED BY <1>5, <2>2
<1>9. txs[n].lsn \in Position /\ txs[n].lsn <= reader.sent
  BY LogicalFacts DEF LogicalInv, ChannelInv, ItemTx
<1> QED BY <1>1, <1>3, <1>4, <1>6, <1>7, <1>8, <1>9

\* A Step may fail when what the pump held, and what is gone from the channel, is in
\* every sink or recorded as dropped.
LEMMA FailedStep ==
    ASSUME LogicalTypeOK, LogicalInv, pump.step # "stopped", StepFailed,
           UNCHANGED <<log, confirmed, reader, sunk>>, trouble' \in 0..MaxTrouble,
           dropped \subseteq dropped', dropped' \subseteq Position,
           txs' \in Seq(ItemTx), Len(txs') <= Buffer, ChannelInv',
           \A p \in pump.rows : Mirrored(p) \/ p \in dropped',
           \A i \in 1..Len(txs) : txs[i].lsn \in dropped' \/ \E j \in 1..Len(txs') : txs'[j] = txs[i]
    PROVE  LogicalTypeOK' /\ LogicalInv'
<1> USE LogicalBounds
<1>1. /\ pump' \in PumpType /\ pump'.rows = {} /\ pump'.ack = 0
      /\ pump'.step \in {"fetch", "stopped"}
      /\ pump'.step # "stopped" => pump'.attempt < MaxRetry
  BY StepFailedFacts
<1>2. LogicalTypeOK'
  BY <1>1 DEF LogicalTypeOK, PumpType
<1>3. ReaderInv'
  BY DEF LogicalInv, ReaderInv
<1>4. PumpInv'
  BY <1>1, LogicalFacts DEF PumpInv
<1>5. RowTxs' = RowTxs /\ \A p : Mirrored(p)' = Mirrored(p)
  BY DEF RowTxs, Mirrored
<1>6. ConfirmedOrDropped'
  BY <1>5 DEF LogicalInv, CareInv, ConfirmedOrDropped
<1>7. ASSUME NEW p \in RowTxs', p <= reader'.sent
      PROVE  \/ Mirrored(p)' \/ p \in dropped'
             \/ \E j \in 1..Len(txs') : txs'[j].kind = "row" /\ txs'[j].lsn = p
  <2>1. \/ Mirrored(p) \/ p \in dropped \/ p \in pump.rows
        \/ \E i \in 1..Len(txs) : txs[i].kind = "row" /\ txs[i].lsn = p
    BY <1>5, <1>7 DEF LogicalInv, CareInv
  <2>2. CASE Mirrored(p) \/ p \in dropped \/ p \in pump.rows
    BY <1>5, <2>2
  <2>3. CASE \E i \in 1..Len(txs) : txs[i].kind = "row" /\ txs[i].lsn = p
    BY <2>3
  <2> QED BY <2>1, <2>2, <2>3
<1>8. CareInv'
  BY <1>6, <1>7 DEF CareInv
<1> QED BY <1>2, <1>3, <1>4, <1>8 DEF LogicalInv

\* Fetch moves the row transactions of a batch from the channel to the pump.
LEMMA FetchStep ==
    ASSUME LogicalTypeOK, LogicalInv, NEW max \in 1..MaxTake, Fetch(max)
    PROVE  LogicalTypeOK' /\ LogicalInv'
<1> USE LogicalBounds
<1>1. PICK n \in 1..Len(txs) :
          /\ pump.step = "fetch"
          /\ txs' = SubSeq(txs, n + 1, Len(txs))
          /\ pump' = [pump EXCEPT !.step = IF RowsIn(n) = {} THEN "ack" ELSE "apply",
                                  !.rows = Positions(n, RowsIn(n)), !.ack = ackLSN(n), !.sink = 1]
          /\ UNCHANGED <<log, confirmed, reader, sunk, dropped, trouble>>
  BY DEF Fetch
<1>2. /\ txs' \in Seq(ItemTx) /\ Len(txs') <= Buffer
      /\ ReaderInv' /\ ChannelInv'
      /\ \A i \in 1..Len(txs') : txs'[i].kind = "row" => txs[n].lsn < txs'[i].lsn
      /\ \A i \in 1..Len(txs) : i <= n \/ \E j \in 1..Len(txs') : txs'[j] = txs[i]
      /\ txs[n].lsn \in Position /\ txs[n].lsn <= reader.sent
  BY <1>1, TakeChannel
<1>3. RowsIn(n) \subseteq 1..Len(txs) /\ \A i \in RowsIn(n) : txs[i].kind = "row"
  BY LogicalFacts DEF RowsIn
<1>4. Positions(n, RowsIn(n)) \subseteq Position
  BY <1>3, LogicalFacts DEF Positions, ItemTx
<1>5. 1 \in 1..NSinks + 1 /\ pump.attempt < MaxRetry
  BY <1>1 DEF LogicalInv, PumpInv
<1>6. /\ pump' \in PumpType /\ pump'.step \in {"ack", "apply"}
      /\ pump'.step = "ack" => pump'.rows = {}
      /\ pump'.rows = Positions(n, RowsIn(n)) /\ pump'.ack = txs[n].lsn /\ pump'.sink = 1
      /\ pump'.attempt = pump.attempt
  <2>1. pump \in PumpType
    BY LogicalFacts
  <2>2. RowsIn(n) = {} => Positions(n, RowsIn(n)) = {}
    BY DEF Positions
  <2> QED BY <1>1, <1>2, <1>4, <1>5, <2>1, <2>2 DEF PumpType, ackLSN
<1>7. LogicalTypeOK'
  BY <1>1, <1>2, <1>6 DEF LogicalTypeOK, PumpType
<1>8. PumpInv'
  <2>1. 1 \in 1..NSinks /\ \A s \in 1..NSinks : ~(s < 1)
    OBVIOUS
  <2>2. reader' = reader
    BY <1>1
  <2>3. \A s \in 1..NSinks : (pump'.step = "apply" /\ s < pump'.sink) \/ pump'.step = "ack"
                                => pump'.rows \subseteq sunk'[s]
    BY <1>6, <2>1
  <2> QED BY <1>2, <1>5, <1>6, <2>1, <2>2, <2>3 DEF PumpInv
<1>9. RowTxs' = RowTxs /\ \A p : Mirrored(p)' = Mirrored(p)
  BY <1>1 DEF RowTxs, Mirrored
<1>10. ASSUME NEW p \in RowTxs', p <= reader'.sent
       PROVE  \/ Mirrored(p)' \/ p \in dropped' \/ p \in pump'.rows
              \/ \E j \in 1..Len(txs') : txs'[j].kind = "row" /\ txs'[j].lsn = p
  <2>1. \/ Mirrored(p) \/ p \in dropped
        \/ \E i \in 1..Len(txs) : txs[i].kind = "row" /\ txs[i].lsn = p
    BY <1>1, <1>9, <1>10 DEF LogicalInv, CareInv, PumpInv
  <2>2. CASE Mirrored(p) \/ p \in dropped
    BY <1>1, <1>9, <2>2
  <2>3. ASSUME NEW i \in 1..Len(txs), txs[i].kind = "row", txs[i].lsn = p
        PROVE  p \in pump'.rows \/ \E j \in 1..Len(txs') : txs'[j].kind = "row" /\ txs'[j].lsn = p
    <3>1. CASE i <= n
      <4>1. i \in RowsIn(n)
        BY <2>3, <3>1 DEF RowsIn
      <4> QED BY <1>6, <2>3, <4>1 DEF Positions
    <3>2. CASE ~(i <= n)
      BY <1>2, <2>3, <3>2
    <3> QED BY <3>1, <3>2
  <2> QED BY <2>1, <2>2, <2>3
<1>11. ConfirmedOrDropped'
  BY <1>1, <1>9 DEF LogicalInv, CareInv, ConfirmedOrDropped
<1>12. CareInv'
  BY <1>10, <1>11 DEF CareInv
<1> QED BY <1>2, <1>7, <1>8, <1>12 DEF LogicalInv

\* A Fetch that meets an undecodable transaction drops all that it has taken.
LEMMA FetchUndecodableStep ==
    ASSUME LogicalTypeOK, LogicalInv, NEW max \in 1..MaxTake, FetchUndecodable(max)
    PROVE  LogicalTypeOK' /\ LogicalInv'
<1>1. PICK n \in 1..Len(txs) :
          /\ pump.step = "fetch"
          /\ txs' = SubSeq(txs, n + 1, Len(txs))
          /\ dropped' = dropped \cup Positions(n, 1..n)
          /\ StepFailed
          /\ UNCHANGED <<log, confirmed, reader, sunk, trouble>>
  BY DEF FetchUndecodable
<1>2. /\ txs' \in Seq(ItemTx) /\ Len(txs') <= Buffer /\ ChannelInv'
      /\ \A i \in 1..Len(txs) : i <= n \/ \E j \in 1..Len(txs') : txs'[j] = txs[i]
  BY <1>1, TakeChannel
<1>3. \A i \in 1..n : i \in 1..Len(txs)
  BY LogicalFacts
<1>4. dropped \subseteq dropped' /\ dropped' \subseteq Position
  <2>1. \A i \in 1..n : txs[i].lsn \in Position
    BY <1>3, LogicalFacts DEF ItemTx
  <2>2. Positions(n, 1..n) \subseteq Position
    BY <2>1 DEF Positions
  <2> QED BY <1>1, <2>2 DEF LogicalTypeOK
<1>5. ASSUME NEW i \in 1..Len(txs), i <= n PROVE txs[i].lsn \in dropped'
  <2>1. i \in 1..n
    BY <1>5
  <2> QED BY <1>1, <2>1 DEF Positions
<1>6. pump.rows = {} /\ trouble' \in 0..MaxTrouble
  BY <1>1 DEF LogicalInv, PumpInv, LogicalTypeOK
<1> QED BY <1>1, <1>2, <1>4, <1>5, <1>6, FailedStep

\* A sink takes the batch.
LEMMA ApplyStep ==
    ASSUME LogicalTypeOK, LogicalInv, Apply
    PROVE  LogicalTypeOK' /\ LogicalInv'
<1> USE LogicalBounds
<1>1. /\ pump.step = "apply" /\ pump.sink \in 1..NSinks /\ pump.attempt < MaxRetry
      /\ UNCHANGED <<log, confirmed, reader, txs, dropped, trouble>>
  BY DEF Apply, LogicalInv, PumpInv
<1>2. pump.sink + 1 \in 1..NSinks + 1 /\ (pump.sink # NSinks => pump.sink + 1 \in 1..NSinks)
  BY <1>1
<1>3. pump \in PumpType /\ sunk \in [1..NSinks -> SUBSET Position]
  BY LogicalFacts DEF LogicalTypeOK
<1>4. /\ pump' \in PumpType /\ pump'.step = IF pump.sink = NSinks THEN "ack" ELSE "apply"
      /\ pump'.sink = pump.sink + 1
      /\ pump'.rows = pump.rows /\ pump'.ack = pump.ack /\ pump'.attempt = pump.attempt
  BY <1>2, <1>3 DEF Apply, PumpType
<1>5. /\ sunk' \in [1..NSinks -> SUBSET Position]
      /\ sunk'[pump.sink] = sunk[pump.sink] \cup pump.rows
      /\ \A s \in 1..NSinks : sunk[s] \subseteq sunk'[s]
  BY <1>1, <1>3 DEF Apply, PumpType
<1>6. LogicalTypeOK'
  BY <1>1, <1>4, <1>5 DEF LogicalTypeOK, PumpType
<1>7. ReaderInv' /\ ChannelInv'
  BY <1>1 DEF LogicalInv, ReaderInv, ChannelInv
<1>8. ASSUME NEW s \in 1..NSinks, (pump'.step = "apply" /\ s < pump'.sink) \/ pump'.step = "ack"
      PROVE  pump'.rows \subseteq sunk'[s]
  <2>1. s <= pump.sink
    BY <1>1, <1>4, <1>8
  <2>2. CASE s = pump.sink
    BY <1>4, <1>5, <2>2
  <2>3. CASE s < pump.sink
    BY <1>1, <1>4, <1>5, <2>3 DEF LogicalInv, PumpInv
  <2> QED BY <1>1, <2>1, <2>2, <2>3
<1>9. PumpInv'
  BY <1>1, <1>2, <1>4, <1>8 DEF LogicalInv, PumpInv
<1>10. RowTxs' = RowTxs /\ \A p : Mirrored(p) => Mirrored(p)'
  BY <1>1, <1>5 DEF RowTxs, Mirrored
<1>11. CareInv'
  <2>1. ConfirmedOrDropped'
    BY <1>1, <1>10 DEF LogicalInv, CareInv, ConfirmedOrDropped
  <2> QED BY <1>1, <1>4, <1>10, <2>1 DEF LogicalInv, CareInv
<1> QED BY <1>6, <1>7, <1>9, <1>11 DEF LogicalInv

\* What the pump acknowledges is settled: the rows it holds are in all sinks and the
\* rows behind them in the channel lie above.
LEMMA AckStep ==
    ASSUME LogicalTypeOK, LogicalInv, Ack
    PROVE  LogicalTypeOK' /\ LogicalInv'
<1> USE LogicalBounds
<1>1. /\ pump.step = "ack" /\ pump' = IdlePump
      /\ confirmed' \in {confirmed, pump.ack}
      /\ UNCHANGED <<log, reader, txs, sunk, dropped, trouble>>
  BY DEF Ack
<1>2. \A p \in pump.rows : Mirrored(p)
  BY <1>1 DEF LogicalInv, PumpInv, Mirrored
<1>3. pump'.step = "fetch" /\ pump'.rows = {} /\ pump'.ack = 0 /\ pump'.attempt = 0 /\ pump' \in PumpType
  BY <1>1, IdlePumpType DEF IdlePump
<1>4. confirmed' \in Position /\ pump.ack <= reader.sent /\ confirmed' <= reader.sent
  BY <1>1, LogicalFacts DEF PumpType, LogicalTypeOK, LogicalInv, PumpInv, ReaderInv
<1>5. LogicalTypeOK'
  BY <1>1, <1>3, <1>4 DEF LogicalTypeOK, PumpType
<1>6. ReaderInv' /\ ChannelInv'
  BY <1>1, <1>4 DEF LogicalInv, ReaderInv, ChannelInv
<1>7. PumpInv'
  BY <1>1, <1>3, LogicalFacts DEF PumpInv
<1>8. RowTxs' = RowTxs /\ RowTxs \subseteq Nat /\ \A p : Mirrored(p)' = Mirrored(p)
  BY <1>1 DEF RowTxs, Mirrored
<1>9. ASSUME NEW p \in RowTxs, p <= pump.ack PROVE Mirrored(p) \/ p \in dropped
  <2>1. p <= reader.sent
    BY <1>4, <1>8, <1>9, LogicalFacts
  <2>2. ~\E i \in 1..Len(txs) : txs[i].kind = "row" /\ txs[i].lsn = p
    BY <1>1, <1>8, <1>9, LogicalFacts DEF LogicalInv, PumpInv
  <2> QED BY <1>2, <2>1, <2>2 DEF LogicalInv, CareInv
<1>10. ConfirmedOrDropped'
  BY <1>1, <1>8, <1>9 DEF LogicalInv, CareInv, ConfirmedOrDropped
<1>11. CareInv'
  BY <1>1, <1>2, <1>8, <1>10 DEF LogicalInv, CareInv
<1> QED BY <1>5, <1>6, <1>7, <1>11 DEF LogicalInv

\* The steps of the pump that fail, and the one that finds nothing to do.
LEMMA PumpFails ==
    ASSUME LogicalTypeOK, LogicalInv, FetchIdle \/ FetchClosed \/ ApplyFails \/ AckFails
    PROVE  LogicalTypeOK' /\ LogicalInv'
<1> USE LogicalBounds
<1>1. CASE FetchIdle
  <2>1. /\ pump \in PumpType /\ pump.step = "fetch" /\ 0 \in 0..MaxRetry /\ 0 < MaxRetry
        /\ pump' = [pump EXCEPT !.attempt = 0]
        /\ UNCHANGED <<log, confirmed, reader, txs, sunk, dropped, trouble>>
    BY <1>1, LogicalFacts DEF FetchIdle
  <2>2. /\ pump' \in PumpType /\ pump'.step = pump.step /\ pump'.rows = pump.rows
        /\ pump'.ack = pump.ack /\ pump'.attempt = 0
    BY <2>1 DEF PumpType
  <2>3. LogicalTypeOK'
    BY <2>1, <2>2 DEF LogicalTypeOK, PumpType
  <2>4. ReaderInv' /\ ChannelInv' /\ PumpInv'
    BY <2>1, <2>2 DEF LogicalInv, ReaderInv, ChannelInv, PumpInv
  <2>5. CareInv'
    BY <2>1, <2>2 DEF LogicalInv, CareInv, ConfirmedOrDropped, RowTxs, Mirrored
  <2> QED BY <2>3, <2>4, <2>5 DEF LogicalInv
<1>2. ASSUME StepFailed, pump.step # "stopped", UNCHANGED <<log, confirmed, reader, txs, sunk>>,
             trouble' \in 0..MaxTrouble, dropped \subseteq dropped', dropped' \subseteq Position,
             \A p \in pump.rows : Mirrored(p) \/ p \in dropped'
      PROVE  LogicalTypeOK' /\ LogicalInv'
  <2>1. txs' \in Seq(ItemTx) /\ Len(txs') <= Buffer /\ ChannelInv'
    BY <1>2 DEF LogicalTypeOK, LogicalInv, ChannelInv
  <2>2. \A i \in 1..Len(txs) : \E j \in 1..Len(txs') : txs'[j] = txs[i]
    BY <1>2
  <2> QED BY <1>2, <2>1, <2>2, FailedStep
<1>3. trouble \in 0..MaxTrouble /\ dropped \subseteq Position /\ pump.rows \subseteq Position
  BY LogicalFacts DEF LogicalTypeOK, PumpType
<1>4. CASE FetchClosed
  <2>1. pump.rows = {}
    BY <1>4 DEF FetchClosed, LogicalInv, PumpInv
  <2> QED BY <1>2, <1>3, <1>4, <2>1 DEF FetchClosed
<1>5. CASE ApplyFails
  BY <1>2, <1>3, <1>5 DEF ApplyFails, Troubled
<1>6. CASE AckFails
  <2>1. \A p \in pump.rows : Mirrored(p)
    BY <1>6 DEF AckFails, LogicalInv, PumpInv, Mirrored
  <2>2. trouble' \in 0..MaxTrouble
    BY <1>3, <1>6 DEF AckFails, Troubled
  <2> QED BY <1>2, <1>3, <1>6, <2>1, <2>2 DEF AckFails
<1> QED BY <1>1, <1>4, <1>5, <1>6

\* Every step of the source and its pump keeps the types and the invariant.
LEMMA LogicalStep ==
    ASSUME LogicalTypeOK, LogicalInv, [LogicalNext]_logicalVars
    PROVE  LogicalTypeOK' /\ LogicalInv'
<1>1. CASE PumpRestart
  BY <1>1, RestartedStep DEF PumpRestart, LogicalTypeOK
<1>2. CASE PumpCrash
  <2>1. trouble' \in 0..MaxTrouble
    BY <1>2, LogicalBounds DEF PumpCrash, Troubled, LogicalTypeOK
  <2> QED BY <1>2, <2>1, RestartedStep DEF PumpCrash
<1>3. CASE UNCHANGED logicalVars
  <2>1. LogicalTypeOK'
    BY <1>3 DEF logicalVars, LogicalTypeOK
  <2>2. LogicalInv'
    BY <1>3 DEF logicalVars, LogicalInv, ReaderInv, ChannelInv, PumpInv, CareInv,
                ConfirmedOrDropped, RowTxs, Mirrored
  <2> QED BY <2>1, <2>2
<1> QED
  BY <1>1, <1>2, <1>3, CommitTxStep, StreamStep, MessageCommitStep, KeepaliveStep, FetchStep,
     FetchUndecodableStep, ApplyStep, AckStep, PumpFails
  DEF LogicalNext

LEMMA LogicalInitially ==
    ASSUME LogicalInit
    PROVE  LogicalTypeOK /\ LogicalInv
<1>1. Len(log) = 0 /\ log \in Seq(TxKinds) /\ Len(txs) = 0 /\ txs \in Seq(ItemTx)
  BY DEF LogicalInit
<1>2. /\ reader.sent = 0 /\ ~reader.open /\ pump \in PumpType /\ pump.step = "fetch"
      /\ pump.rows = {} /\ pump.ack = 0 /\ pump.attempt = 0 /\ confirmed = 0
  BY IdlePumpType DEF LogicalInit, Fresh, IdlePump
<1>3. reader \in ReaderType
  <2>1. 0 \in Position /\ 0 \in 0..Width
    BY LogicalBounds DEF Position
  <2> QED BY <2>1 DEF LogicalInit, Fresh, ReaderType
<1>4. LogicalTypeOK
  <2>1. /\ confirmed \in Position /\ dropped \subseteq Position /\ trouble \in 0..MaxTrouble
        /\ sunk \in [1..NSinks -> SUBSET Position] /\ Len(log) <= MaxLog /\ Len(txs) <= Buffer
    BY <1>1, LogicalBounds DEF LogicalInit, Position
  <2> QED BY <1>1, <1>2, <1>3, <2>1 DEF LogicalTypeOK, PumpType, ReaderType
<1>5. LogicalInv
  BY <1>1, <1>2, LogicalBounds
  DEF LogicalInv, ReaderInv, ChannelInv, PumpInv, CareInv, ConfirmedOrDropped, RowTxs
<1> QED BY <1>4, <1>5

\* The order of the channel, the pump's hand and the custody of every row transaction
\* the stream has sent.
THEOREM LogicalInvCorrect == LogicalSpec => [](LogicalTypeOK /\ LogicalInv)
<1>1. LogicalInit => LogicalTypeOK /\ LogicalInv
  BY LogicalInitially
<1> QED BY <1>1, LogicalStep, PTL DEF LogicalSpec

\* The position confirmed to the server never passes a row transaction that is only in
\* memory, whatever the buffer, the batches, the number of sinks and the failures.
THEOREM ConfirmedOrDroppedCorrect == LogicalSpec => []ConfirmedOrDropped
<1>1. LogicalTypeOK /\ LogicalInv => ConfirmedOrDropped
  BY DEF LogicalInv, CareInv
<1> QED BY <1>1, LogicalInvCorrect, PTL

-------------------------------------------------------------------------------
(***************************************************************************)
(* The three together, as the run exercises them.                          *)
(***************************************************************************)

DurableInv == SagaInv /\ LogicalInv

LEMMA DurableStep ==
    ASSUME DurableTypeOK, DurableInv, [Next]_<<system, idemVars, sagaVars, logicalVars>>
    PROVE  DurableTypeOK' /\ DurableInv'
<1>1. [IdemNext]_idemVars /\ [SagaNext]_sagaVars /\ [LogicalNext]_logicalVars
  BY Zenon DEF Next, others
<1>2. IdemTypeOK'
  BY <1>1, IdemStepType DEF DurableTypeOK
<1>3. SagaTypeOK' /\ SagaInv'
  BY <1>1, SagaStep DEF DurableTypeOK, DurableInv
<1>4. LogicalTypeOK' /\ LogicalInv'
  BY <1>1, LogicalStep DEF DurableTypeOK, DurableInv
<1> QED
  BY <1>2, <1>3, <1>4 DEF DurableTypeOK, DurableInv

\* The idempotency keys, the saga and the logical source keep their types
\* (DurableTypeOK), whichever of them is at work.
THEOREM DurableTypeCorrect == Spec => []DurableTypeOK
<1>1. Init => DurableTypeOK /\ DurableInv
  <2>1. IdemInit => IdemTypeOK
    BY IdempotencyAssumption, NoRunType DEF IdemInit, IdemTypeOK, Row, NoRow
  <2>2. SagaInit => SagaTypeOK /\ SagaInv
    BY SagaAssumption DEF SagaInit, SagaTypeOK, SagaInv
  <2>3. LogicalInit => LogicalTypeOK /\ LogicalInv
    BY LogicalInitially
  <2> QED
    BY <2>1, <2>2, <2>3, Zenon DEF Init, DurableTypeOK, DurableInv
<1> QED
  BY <1>1, DurableStep, PTL DEF Spec
===============================================================================
