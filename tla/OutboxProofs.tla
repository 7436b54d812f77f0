----------------------------- MODULE OutboxProofs -----------------------------
(***************************************************************************)
(* Theorems about Outbox, for every set of events, workers and aggregates  *)
(* and every bound.                                                        *)
(***************************************************************************)
EXTENDS Outbox, TLAPS

USE DEF markVars, tableVars, workVars, histVars

\* The helpers of the actions preserve the types of what they assign.
LEMMA KeepType ==
    ASSUME TypeOK, NEW w \in Workers, NEW C, Keep(w, C)
    PROVE  seen' \in [Workers -> [Ids -> Nat]]
  BY DEF TypeOK, Keep

\* Advance leaves well-typed what a worker holds and where it is.
LEMMA AdvanceType ==
    ASSUME TypeOK, NEW w \in Workers, NEW S, NEW again \in PC, Advance(w, S, again)
    PROVE  /\ hand' \in [Workers -> SUBSET Ids]
           /\ pc' \in [Workers -> PC]
           /\ seen' \in [Workers -> [Ids -> Nat]]
<1>1. seen' \in [Workers -> [Ids -> Nat]]
  BY KeepType DEF Advance
<1> QED BY <1>1 DEF TypeOK, Advance, PC

\* What a worker holds is a set of event ids.
LEMMA HeldType ==
    ASSUME TypeOK, NEW w \in Workers
    PROVE  Held(w) \in SUBSET Ids
  BY DEF TypeOK, Held

\* A fault stays within the bound and excuses event ids only.
LEMMA FaultType ==
    ASSUME TypeOK, NEW w \in Workers, Fault(w)
    PROVE  faults' \in 0..MaxFaults /\ excused' \in SUBSET Ids
<1>1. faults' \in 0..MaxFaults
  BY BoundAssumption DEF TypeOK, Fault
<1>2. excused' \in SUBSET Ids
  <2>1. excused' = excused \cup Held(w)
    BY DEF Fault
  <2> QED BY <2>1, HeldType DEF TypeOK
<1> QED BY <1>1, <1>2

\* The UPDATE of markFailedOn writes column values of the right type.
LEMMA MarkFailedType ==
    ASSUME TypeOK, NEW w \in Workers, NEW S \in SUBSET Ids, markFailedOn(w, S)
    PROVE  /\ attempts' \in [Ids -> Nat]
           /\ failed' \in SUBSET Ids
           /\ visible' \in SUBSET Ids
  BY DEF TypeOK, markFailedOn

\* A handler call is given part of what the worker has drained.
LEMMA NextHandType ==
    ASSUME TypeOK, NEW w \in Workers
    PROVE  NextHand(w) \in SUBSET todo[w] /\ NextHand(w) \in SUBSET Ids
  BY DEF TypeOK, NextHand, Lowest

\* What a drain returns is part of its candidates.
LEMMA ClaimFacts ==
    ASSUME TypeOK, NEW w \in Workers, NEW S \in SUBSET Ids, claim(w, S)
    PROVE  \E C \in SUBSET S :
              /\ Read(w, C)
              /\ visible' = visible \ C
              /\ pc' = [pc EXCEPT ![w] = IF C = {} THEN "idle" ELSE "deliver"]
  BY DEF claim, FirstBatch

\* What Drain and DrainUnaggregated establish: the worker holds available events
\* outside its aggregates, now hidden.
LEMMA DrainFacts ==
    ASSUME TypeOK, NEW w \in Workers, Drain(w) \/ DrainUnaggregated(w)
    PROVE  \E C \in SUBSET Available :
              /\ C \in SUBSET Ids
              /\ DrainUnaggregated(w) => \A i \in C : AggOf[i] = NoAgg
              /\ Read(w, C)
              /\ visible' = visible \ C
              /\ pc' = [pc EXCEPT ![w] = IF C = {} THEN "idle" ELSE "deliver"]
<1>1. Available \in SUBSET Ids /\ {i \in Available : AggOf[i] = NoAgg} \in SUBSET Ids
  BY DEF TypeOK, Available, Pending
<1>2. CASE Drain(w) /\ ~DrainUnaggregated(w)
  BY <1>1, <1>2, ClaimFacts DEF Drain
<1>3. CASE DrainUnaggregated(w)
  BY <1>1, <1>3, ClaimFacts DEF DrainUnaggregated
<1> QED BY <1>2, <1>3

\* What DrainAggregate establishes: the worker holds the lock nobody held and
\* available events of that aggregate.
LEMMA DrainAggregateFacts ==
    ASSUME TypeOK, NEW w \in Workers, NEW a \in Aggs, DrainAggregate(w, a)
    PROVE  \E C \in SUBSET Available :
              /\ C \in SUBSET Ids
              /\ \A i \in C : AggOf[i] = a
              /\ Read(w, C)
<1>1. PICK C \in FirstBatch(AggregateQueue(a), Batch) : Read(w, C)
  BY DEF DrainAggregate
<1>2. C \in SUBSET AggregateQueue(a)
  BY <1>1 DEF FirstBatch
<1> QED BY <1>1, <1>2 DEF TypeOK, AggregateQueue, Available, Pending

\* A failed MarkPublished or MarkFailed moves on as a successful one would.
LEMMA MarkLostFacts ==
    ASSUME NEW w \in Workers, MarkLost(w)
    PROVE  \E S \in SUBSET hand[w] : Advance(w, S, pc[w])
  BY DEF MarkLost, Lowest

\* Every step keeps the types.
LEMMA StepTypeOK ==
    ASSUME TypeOK, [Next]_vars
    PROVE  TypeOK'
<1> USE IdsAssumption, AggAssumption, BoundAssumption DEF TypeOK, PC
<1>1. ASSUME NEW i \in Ids, EmitWith(i) PROVE TypeOK'
  BY <1>1 DEF EmitWith
<1>2. ASSUME NEW i \in Ids, CommitEmit(i) PROVE TypeOK'
  BY <1>2 DEF CommitEmit
<1>3. ASSUME NEW i \in Ids, AbortEmit(i) PROVE TypeOK'
  BY <1>3 DEF AbortEmit
<1>4. ASSUME NEW i \in Ids, BecomeVisible(i) PROVE TypeOK'
  BY <1>4 DEF BecomeVisible
<1>5. ASSUME Cleanup PROVE TypeOK'
  BY <1>5 DEF Cleanup
<1>6. ASSUME NEW w \in Workers, Drain(w) PROVE TypeOK'
  BY <1>6 DEF Drain, claim, Read, FirstBatch, Available, Pending
<1>7. ASSUME NEW w \in Workers, PendingAggregates(w) PROVE TypeOK'
  BY <1>7 DEF PendingAggregates, Available, Pending
<1>8. ASSUME NEW w \in Workers, NEW a \in Aggs, SkipAggregate(w, a) PROVE TypeOK'
  BY <1>8 DEF SkipAggregate
<1>9. ASSUME NEW w \in Workers, NEW a \in Aggs, DrainAggregate(w, a) PROVE TypeOK'
  BY <1>9 DEF DrainAggregate, Read, FirstBatch, AggregateQueue, Available, Pending
<1>10. ASSUME NEW w \in Workers, DrainUnaggregated(w) PROVE TypeOK'
  BY <1>10 DEF DrainUnaggregated, claim, Read, FirstBatch, Available, Pending
<1>11. ASSUME NEW w \in Workers, CallHandler(w) PROVE TypeOK'
  <2>1. NextHand(w) \in SUBSET Ids
    BY NextHandType
  <2>2. CASE pc' = [pc EXCEPT ![w] = "accepted"] /\ done' = done \cup NextHand(w)
             /\ dups' = dups \cup (done \cap NextHand(w)) /\ UNCHANGED rejects
    BY <1>11, <2>1, <2>2 DEF CallHandler
  <2>3. CASE /\ pc' = [pc EXCEPT ![w] = "refused"]
             /\ rejects' = [i \in Ids |-> IF i \in NextHand(w) THEN rejects[i] + 1 ELSE rejects[i]]
             /\ UNCHANGED <<done, dups>>
    BY <1>11, <2>1, <2>3 DEF CallHandler
  <2> QED BY <1>11, <2>2, <2>3 DEF CallHandler
<1>12. ASSUME NEW w \in Workers, MarkPublished(w) PROVE TypeOK'
  BY <1>12, KeepType DEF MarkPublished, markPublishedOn, Advance
<1>13. ASSUME NEW w \in Workers, MarkFailed(w) PROVE TypeOK'
  BY <1>13, KeepType, MarkFailedType DEF MarkFailed, Advance, Lowest
<1>14. ASSUME NEW w \in Workers, MarkPublishedInTx(w) PROVE TypeOK'
  BY <1>14 DEF MarkPublishedInTx
<1>15. ASSUME NEW w \in Workers, MarkFailedInTx(w) PROVE TypeOK'
  BY <1>15 DEF MarkFailedInTx
<1>16. ASSUME NEW w \in Workers, CommitTx(w) PROVE TypeOK'
  BY <1>16, KeepType, MarkFailedType DEF CommitTx, markPublishedOn, LeaveTx, Forget
<1>17. ASSUME NEW w \in Workers, Orphaned(w) PROVE TypeOK'
  BY <1>17 DEF Orphaned, LeaveTx, Forget, Keep
<1>18. ASSUME NEW w \in Workers, Crash(w) PROVE TypeOK'
  <2>1. seen' \in [Workers -> [Ids -> Nat]]
    BY <1>18, KeepType DEF Crash, Forget
  <2>2. faults' \in 0..MaxFaults /\ excused' \in SUBSET Ids
    BY <1>18, FaultType DEF Crash
  <2> QED BY <1>18, <2>1, <2>2 DEF Crash, Fault, Forget
<1>19. ASSUME NEW w \in Workers, MarkLost(w) PROVE TypeOK'
  <2>2. faults' \in 0..MaxFaults /\ excused' \in SUBSET Ids
    BY <1>19, FaultType DEF MarkLost
  <2>3. /\ hand' \in [Workers -> SUBSET Ids]
        /\ pc' \in [Workers -> PC]
        /\ seen' \in [Workers -> [Ids -> Nat]]
    <3>1. "accepted" \in PC /\ "refused" \in PC
      OBVIOUS
    <3> QED BY <1>19, <3>1, AdvanceType DEF MarkLost
  <2> QED BY <1>19, <2>2, <2>3 DEF MarkLost, Fault
<1>20. ASSUME NEW w \in Workers, TxError(w) PROVE TypeOK'
  <2>1. seen' \in [Workers -> [Ids -> Nat]]
    BY <1>20, KeepType DEF TxError, LeaveTx, Forget
  <2>2. faults' \in 0..MaxFaults /\ excused' \in SUBSET Ids
    BY <1>20, FaultType DEF TxError
  <2>3. PICK drop \in {{}, {agg[w]}} : LeaveTx(w, drop)
    BY <1>20 DEF TxError
  <2>4. aggs' \in [Workers -> SUBSET Aggs] /\ pc' \in [Workers -> PC]
    BY <2>3 DEF LeaveTx
  <2> QED BY <1>20, <2>1, <2>2, <2>3, <2>4 DEF TxError, Fault, LeaveTx, Forget
<1>21. ASSUME NEW w \in Workers, SessionLost(w) PROVE TypeOK'
  <2>1. faults' \in 0..MaxFaults /\ excused' \in SUBSET Ids
    BY <1>21, FaultType DEF SessionLost
  <2> QED BY <1>21, <2>1 DEF SessionLost, Fault
<1>22. ASSUME UNCHANGED vars PROVE TypeOK'
  BY <1>22 DEF vars
<1> HIDE DEF TypeOK
<1> QED
  BY <1>1, <1>2, <1>3, <1>4, <1>5, <1>6, <1>7, <1>8, <1>9, <1>10, <1>11, <1>12,
     <1>13, <1>14, <1>15, <1>16, <1>17, <1>18, <1>19, <1>20, <1>21, <1>22
  DEF Next, Step

\* Every step keeps one holder per advisory lock, inside that aggregate's
\* transaction, and the stages of a tick apart.
LEMMA StepWorkerInv ==
    ASSUME TypeOK, WorkerInv, [Next]_vars
    PROVE  WorkerInv'
<1> USE IdsAssumption, AggAssumption, BoundAssumption DEF TypeOK, WorkerInv, InTx, TxAlive, PC, Held
<1>1. ASSUME NEW i \in Ids, EmitWith(i) PROVE WorkerInv'
  BY <1>1 DEF EmitWith
<1>2. ASSUME NEW i \in Ids, CommitEmit(i) PROVE WorkerInv'
  BY <1>2 DEF CommitEmit
<1>3. ASSUME NEW i \in Ids, AbortEmit(i) PROVE WorkerInv'
  BY <1>3 DEF AbortEmit
<1>4. ASSUME NEW i \in Ids, BecomeVisible(i) PROVE WorkerInv'
  BY <1>4 DEF BecomeVisible
<1>5. ASSUME Cleanup PROVE WorkerInv'
  BY <1>5 DEF Cleanup
<1>6. ASSUME NEW w \in Workers, Drain(w) PROVE WorkerInv'
  <2>1. PICK C \in SUBSET Available :
           /\ Read(w, C)
           /\ pc' = [pc EXCEPT ![w] = IF C = {} THEN "idle" ELSE "deliver"]
    BY <1>6, DrainFacts
  <2> QED BY <1>6, <2>1 DEF Drain, Read
<1>7. ASSUME NEW w \in Workers, PendingAggregates(w) PROVE WorkerInv'
  BY <1>7 DEF PendingAggregates
<1>8. ASSUME NEW w \in Workers, NEW a \in Aggs, SkipAggregate(w, a) PROVE WorkerInv'
  BY <1>8 DEF SkipAggregate
<1>9. ASSUME NEW w \in Workers, NEW a \in Aggs, DrainAggregate(w, a) PROVE WorkerInv'
  <2>1. PICK C \in SUBSET Available : Read(w, C)
    BY <1>9, DrainAggregateFacts
  <2>2. hand[w] = {} /\ txPub[w] = {} /\ txFail[w] = {} /\ PerAggregate
    BY <1>9 DEF DrainAggregate
  <2>3. \A u \in Workers, v \in Workers : lock'[u] = lock'[v] /\ lock'[u] # NoAgg => u = v
    BY <1>9 DEF DrainAggregate, Unlocked
  <2> QED BY <1>9, <2>1, <2>2, <2>3 DEF DrainAggregate, Read
<1>10. ASSUME NEW w \in Workers, DrainUnaggregated(w) PROVE WorkerInv'
  <2>1. PICK C \in SUBSET Available :
           /\ Read(w, C)
           /\ pc' = [pc EXCEPT ![w] = IF C = {} THEN "idle" ELSE "deliver"]
    BY <1>10, DrainFacts
  <2> QED BY <1>10, <2>1 DEF DrainUnaggregated, Read
<1>11. ASSUME NEW w \in Workers, CallHandler(w) PROVE WorkerInv'
  <2>1. NextHand(w) \in SUBSET todo[w]
    BY NextHandType
  <2>2. PICK q \in {"accepted", "refused"} : pc' = [pc EXCEPT ![w] = q]
    BY <1>11 DEF CallHandler
  <2> QED BY <1>11, <2>1, <2>2 DEF CallHandler
<1>12. ASSUME NEW w \in Workers, MarkPublished(w) PROVE WorkerInv'
  BY <1>12 DEF MarkPublished, markPublishedOn, Advance, Keep
<1>13. ASSUME NEW w \in Workers, MarkFailed(w) PROVE WorkerInv'
  BY <1>13 DEF MarkFailed, markFailedOn, Advance, Keep, Lowest
<1>14. ASSUME NEW w \in Workers, MarkPublishedInTx(w) PROVE WorkerInv'
  BY <1>14 DEF MarkPublishedInTx
<1>15. ASSUME NEW w \in Workers, MarkFailedInTx(w) PROVE WorkerInv'
  BY <1>15 DEF MarkFailedInTx
<1>16. ASSUME NEW w \in Workers, CommitTx(w) PROVE WorkerInv'
  BY <1>16 DEF CommitTx, markPublishedOn, markFailedOn, LeaveTx, Forget, Keep
<1>17. ASSUME NEW w \in Workers, Orphaned(w) PROVE WorkerInv'
  BY <1>17 DEF Orphaned, LeaveTx, Forget, Keep
<1>18. ASSUME NEW w \in Workers, Crash(w) PROVE WorkerInv'
  BY <1>18 DEF Crash, Fault, Forget, Keep
<1>19. ASSUME NEW w \in Workers, MarkLost(w) PROVE WorkerInv'
  <2>1. PICK S \in SUBSET hand[w] : Advance(w, S, pc[w])
    BY <1>19, MarkLostFacts
  <2>2. pc[w] \in {"accepted", "refused"}
    BY <1>19 DEF MarkLost
  <2> QED BY <1>19, <2>1, <2>2 DEF MarkLost, Fault, Advance
<1>20. ASSUME NEW w \in Workers, TxError(w) PROVE WorkerInv'
  BY <1>20 DEF TxError, Fault, LeaveTx, Forget, Keep
<1>21. ASSUME NEW w \in Workers, SessionLost(w) PROVE WorkerInv'
  BY <1>21 DEF SessionLost, Fault
<1>22. ASSUME UNCHANGED vars PROVE WorkerInv'
  BY <1>22 DEF vars
<1> HIDE DEF TypeOK, WorkerInv
<1> QED
  BY <1>1, <1>2, <1>3, <1>4, <1>5, <1>6, <1>7, <1>8, <1>9, <1>10, <1>11, <1>12,
     <1>13, <1>14, <1>15, <1>16, <1>17, <1>18, <1>19, <1>20, <1>21, <1>22
  DEF Next, Step

\* Every step marks published only what a handler accepted, and hands over only
\* what was committed.
LEMMA StepDeliveryInv ==
    ASSUME TypeOK, DeliveryInv, [Next]_vars
    PROVE  DeliveryInv'
<1> USE IdsAssumption, AggAssumption, BoundAssumption DEF TypeOK, DeliveryInv, Held
<1>1. ASSUME NEW i \in Ids, EmitWith(i) PROVE DeliveryInv'
  BY <1>1 DEF EmitWith
<1>2. ASSUME NEW i \in Ids, CommitEmit(i) PROVE DeliveryInv'
  BY <1>2 DEF CommitEmit
<1>3. ASSUME NEW i \in Ids, AbortEmit(i) PROVE DeliveryInv'
  BY <1>3 DEF AbortEmit
<1>4. ASSUME NEW i \in Ids, BecomeVisible(i) PROVE DeliveryInv'
  BY <1>4 DEF BecomeVisible
<1>5. ASSUME Cleanup PROVE DeliveryInv'
  BY <1>5 DEF Cleanup
<1>6. ASSUME NEW w \in Workers, Drain(w) PROVE DeliveryInv'
  BY <1>6 DEF Drain, claim, Read, FirstBatch, Available, Pending
<1>7. ASSUME NEW w \in Workers, PendingAggregates(w) PROVE DeliveryInv'
  BY <1>7 DEF PendingAggregates
<1>8. ASSUME NEW w \in Workers, NEW a \in Aggs, SkipAggregate(w, a) PROVE DeliveryInv'
  BY <1>8 DEF SkipAggregate
<1>9. ASSUME NEW w \in Workers, NEW a \in Aggs, DrainAggregate(w, a) PROVE DeliveryInv'
  BY <1>9 DEF DrainAggregate, Read, FirstBatch, AggregateQueue, Available, Pending
<1>10. ASSUME NEW w \in Workers, DrainUnaggregated(w) PROVE DeliveryInv'
  BY <1>10 DEF DrainUnaggregated, claim, Read, FirstBatch, Available, Pending
<1>11. ASSUME NEW w \in Workers, CallHandler(w) PROVE DeliveryInv'
  BY <1>11, NextHandType DEF CallHandler
<1>12. ASSUME NEW w \in Workers, MarkPublished(w) PROVE DeliveryInv'
  <2>1. published \subseteq published' /\ published' \subseteq done
    BY <1>12 DEF MarkPublished, markPublishedOn
  <2>2. \A v \in Workers : hand'[v] \subseteq hand[v] /\ (pc'[v] = "accepted" => pc[v] = "accepted")
    BY <1>12 DEF MarkPublished, Advance
  <2> QED BY <1>12, <2>1, <2>2 DEF MarkPublished
<1>13. ASSUME NEW w \in Workers, MarkFailed(w) PROVE DeliveryInv'
  BY <1>13 DEF MarkFailed, Advance, Lowest
<1>14. ASSUME NEW w \in Workers, MarkPublishedInTx(w) PROVE DeliveryInv'
  BY <1>14 DEF MarkPublishedInTx
<1>15. ASSUME NEW w \in Workers, MarkFailedInTx(w) PROVE DeliveryInv'
  BY <1>15 DEF MarkFailedInTx
<1>16. ASSUME NEW w \in Workers, CommitTx(w) PROVE DeliveryInv'
  <2>1. published \subseteq published' /\ published' \subseteq done
    BY <1>16 DEF CommitTx, markPublishedOn
  <2>2. \A v \in Workers :
           /\ todo'[v] \subseteq todo[v] /\ hand'[v] \subseteq hand[v]
           /\ txPub'[v] \subseteq txPub[v] /\ txFail'[v] \subseteq txFail[v]
           /\ pc'[v] = "accepted" => pc[v] = "accepted"
    BY <1>16 DEF CommitTx, LeaveTx, Forget
  <2>3. UNCHANGED <<tx, rows, done, rejects>>
    BY <1>16 DEF CommitTx, histVars
  <2> QED BY <2>1, <2>2, <2>3
<1>17. ASSUME NEW w \in Workers, Orphaned(w) PROVE DeliveryInv'
  BY <1>17 DEF Orphaned, LeaveTx, Forget
<1>18. ASSUME NEW w \in Workers, Crash(w) PROVE DeliveryInv'
  BY <1>18 DEF Crash, Fault, Forget
<1>19. ASSUME NEW w \in Workers, MarkLost(w) PROVE DeliveryInv'
  <2>1. PICK S \in SUBSET hand[w] : Advance(w, S, pc[w])
    BY <1>19, MarkLostFacts
  <2> QED BY <1>19, <2>1 DEF MarkLost, Fault, Advance
<1>20. ASSUME NEW w \in Workers, TxError(w) PROVE DeliveryInv'
  BY <1>20 DEF TxError, Fault, LeaveTx, Forget
<1>21. ASSUME NEW w \in Workers, SessionLost(w) PROVE DeliveryInv'
  BY <1>21 DEF SessionLost, Fault
<1>22. ASSUME UNCHANGED vars PROVE DeliveryInv'
  BY <1>22 DEF vars
<1> HIDE DEF TypeOK, DeliveryInv, Held
<1> QED
  BY <1>1, <1>2, <1>3, <1>4, <1>5, <1>6, <1>7, <1>8, <1>9, <1>10, <1>11, <1>12,
     <1>13, <1>14, <1>15, <1>16, <1>17, <1>18, <1>19, <1>20, <1>21, <1>22
  DEF Next, Step

\* Every step keeps the attempts in the table and in memory at or below the
\* refusals of the handler.
LEMMA StepAttemptsInv ==
    ASSUME TypeOK, WorkerInv, AttemptsInv, [Next]_vars
    PROVE  AttemptsInv'
<1> USE IdsAssumption, AggAssumption, BoundAssumption DEF TypeOK, AttemptsInv
<1>1. ASSUME NEW i \in Ids, EmitWith(i) PROVE AttemptsInv'
  BY <1>1 DEF EmitWith
<1>2. ASSUME NEW i \in Ids, CommitEmit(i) PROVE AttemptsInv'
  BY <1>2 DEF CommitEmit
<1>3. ASSUME NEW i \in Ids, AbortEmit(i) PROVE AttemptsInv'
  BY <1>3 DEF AbortEmit
<1>4. ASSUME NEW i \in Ids, BecomeVisible(i) PROVE AttemptsInv'
  BY <1>4 DEF BecomeVisible
<1>5. ASSUME Cleanup PROVE AttemptsInv'
  BY <1>5 DEF Cleanup
<1>6. ASSUME NEW w \in Workers, Drain(w) PROVE AttemptsInv'
  <2>1. PICK C \in SUBSET Available :
           /\ Read(w, C)
           /\ pc' = [pc EXCEPT ![w] = IF C = {} THEN "idle" ELSE "deliver"]
    BY <1>6, DrainFacts
  <2>2. txFail[w] = {}
    BY <1>6 DEF Drain, WorkerInv, Held
  <2> QED BY <1>6, <2>1, <2>2 DEF Drain, Read
<1>7. ASSUME NEW w \in Workers, PendingAggregates(w) PROVE AttemptsInv'
  BY <1>7 DEF PendingAggregates
<1>8. ASSUME NEW w \in Workers, NEW a \in Aggs, SkipAggregate(w, a) PROVE AttemptsInv'
  BY <1>8 DEF SkipAggregate
<1>9. ASSUME NEW w \in Workers, NEW a \in Aggs, DrainAggregate(w, a) PROVE AttemptsInv'
  <2>1. PICK C \in SUBSET Available : Read(w, C)
    BY <1>9, DrainAggregateFacts
  <2>2. txFail[w] = {}
    BY <1>9 DEF DrainAggregate, WorkerInv, Held
  <2> QED BY <1>9, <2>1, <2>2 DEF DrainAggregate, Read
<1>10. ASSUME NEW w \in Workers, DrainUnaggregated(w) PROVE AttemptsInv'
  <2>1. PICK C \in SUBSET Available :
           /\ Read(w, C)
           /\ pc' = [pc EXCEPT ![w] = IF C = {} THEN "idle" ELSE "deliver"]
    BY <1>10, DrainFacts
  <2>2. txFail[w] = {}
    BY <1>10 DEF DrainUnaggregated, WorkerInv, Held
  <2> QED BY <1>10, <2>1, <2>2 DEF DrainUnaggregated, Read
<1>11. ASSUME NEW w \in Workers, CallHandler(w) PROVE AttemptsInv'
  <2>1. NextHand(w) \in SUBSET Ids
    BY NextHandType
  <2>2. CASE pc' = [pc EXCEPT ![w] = "accepted"] /\ UNCHANGED rejects
    BY <1>11, <2>1, <2>2 DEF CallHandler
  <2>3. CASE /\ pc' = [pc EXCEPT ![w] = "refused"]
             /\ rejects' = [i \in Ids |-> IF i \in NextHand(w) THEN rejects[i] + 1 ELSE rejects[i]]
    BY <1>11, <2>1, <2>3 DEF CallHandler
  <2> QED BY <1>11, <2>2, <2>3 DEF CallHandler
<1>12. ASSUME NEW w \in Workers, MarkPublished(w) PROVE AttemptsInv'
  BY <1>12 DEF MarkPublished, markPublishedOn, Advance, Keep
<1>13. ASSUME NEW w \in Workers, MarkFailed(w) PROVE AttemptsInv'
  <2>1. txFail[w] = {} /\ Lowest(hand[w]) \in SUBSET hand[w]
    BY <1>13 DEF MarkFailed, WorkerInv, Lowest
  <2>2. \A i \in Ids : attempts'[i] <= rejects'[i]
    BY <1>13, <2>1 DEF MarkFailed, markFailedOn
  <2>3. \A i \in failed' : MaxAttempts > 0 /\ rejects'[i] >= MaxAttempts
    BY <1>13, <2>1 DEF MarkFailed, markFailedOn, Terminal
  <2>4. \A v \in Workers, i \in Ids : seen'[v][i] <= rejects'[i]
    BY <1>13 DEF MarkFailed, Advance, Keep
  <2>5. \A v \in Workers : \A i \in hand'[v] : pc'[v] = "refused" => seen'[v][i] < rejects'[i]
    BY <1>13 DEF MarkFailed, Advance, Keep
  <2>6. \A v \in Workers : \A i \in txFail'[v] : seen'[v][i] < rejects'[i]
    BY <1>13, <2>1 DEF MarkFailed, Advance, Keep
  <2> QED BY <2>2, <2>3, <2>4, <2>5, <2>6
<1>14. ASSUME NEW w \in Workers, MarkPublishedInTx(w) PROVE AttemptsInv'
  BY <1>14 DEF MarkPublishedInTx
<1>15. ASSUME NEW w \in Workers, MarkFailedInTx(w) PROVE AttemptsInv'
  BY <1>15 DEF MarkFailedInTx
<1>16. ASSUME NEW w \in Workers, CommitTx(w) PROVE AttemptsInv'
  <2>1. \A i \in Ids : attempts'[i] <= rejects'[i]
    BY <1>16 DEF CommitTx, markFailedOn
  <2>2. \A i \in failed' : MaxAttempts > 0 /\ rejects'[i] >= MaxAttempts
    BY <1>16 DEF CommitTx, markFailedOn, Terminal
  <2>3. \A v \in Workers, i \in Ids : seen'[v][i] <= rejects'[i]
    BY <1>16 DEF CommitTx, LeaveTx, Forget, Keep
  <2>4. \A v \in Workers : \A i \in hand'[v] : pc'[v] = "refused" => seen'[v][i] < rejects'[i]
    BY <1>16 DEF CommitTx, LeaveTx, Forget, Keep
  <2>5. \A v \in Workers : \A i \in txFail'[v] : seen'[v][i] < rejects'[i]
    BY <1>16 DEF CommitTx, LeaveTx, Forget, Keep
  <2> QED BY <2>1, <2>2, <2>3, <2>4, <2>5
<1>17. ASSUME NEW w \in Workers, Orphaned(w) PROVE AttemptsInv'
  BY <1>17 DEF Orphaned, LeaveTx, Forget, Keep
<1>18. ASSUME NEW w \in Workers, Crash(w) PROVE AttemptsInv'
  BY <1>18 DEF Crash, Fault, Forget, Keep
<1>19. ASSUME NEW w \in Workers, MarkLost(w) PROVE AttemptsInv'
  <2>1. PICK S \in SUBSET hand[w] : Advance(w, S, pc[w])
    BY <1>19, MarkLostFacts
  <2>2. txFail[w] = {}
    BY <1>19 DEF MarkLost, WorkerInv
  <2> QED BY <1>19, <2>1, <2>2 DEF MarkLost, Fault, Advance, Keep
<1>20. ASSUME NEW w \in Workers, TxError(w) PROVE AttemptsInv'
  BY <1>20 DEF TxError, Fault, LeaveTx, Forget, Keep
<1>21. ASSUME NEW w \in Workers, SessionLost(w) PROVE AttemptsInv'
  BY <1>21 DEF SessionLost, Fault
<1>22. ASSUME UNCHANGED vars PROVE AttemptsInv'
  BY <1>22 DEF vars
<1> HIDE DEF TypeOK, AttemptsInv
<1> QED
  BY <1>1, <1>2, <1>3, <1>4, <1>5, <1>6, <1>7, <1>8, <1>9, <1>10, <1>11, <1>12,
     <1>13, <1>14, <1>15, <1>16, <1>17, <1>18, <1>19, <1>20, <1>21, <1>22
  DEF Next, Step

\* Every step keeps an unexcused event with one worker, behind its hidden row or
\* its aggregate's lock.
LEMMA StepClaimInv ==
    ASSUME TypeOK, WorkerInv, DeliveryInv, ClaimInv, [Next]_vars
    PROVE  ClaimInv'
<1> USE IdsAssumption, AggAssumption, BoundAssumption DEF TypeOK, ClaimInv, WorkerInv, Held, InTx, TxAlive
<1>1. ASSUME NEW i \in Ids, EmitWith(i) PROVE ClaimInv'
  BY <1>1 DEF EmitWith
<1>2. ASSUME NEW i \in Ids, CommitEmit(i) PROVE ClaimInv'
  <2>1. \A w \in Workers : i \notin Held(w)
    BY <1>2 DEF CommitEmit, DeliveryInv
  <2> QED BY <1>2, <2>1 DEF CommitEmit
<1>3. ASSUME NEW i \in Ids, AbortEmit(i) PROVE ClaimInv'
  BY <1>3 DEF AbortEmit
<1>4. ASSUME NEW i \in Ids, BecomeVisible(i) PROVE ClaimInv'
  BY <1>4 DEF BecomeVisible
<1>5. ASSUME Cleanup PROVE ClaimInv'
  BY <1>5 DEF Cleanup
<1>6. ASSUME NEW w \in Workers, Drain(w) PROVE ClaimInv'
  BY <1>6 DEF Drain, claim, Read, FirstBatch, Available, Pending
<1>7. ASSUME NEW w \in Workers, PendingAggregates(w) PROVE ClaimInv'
  BY <1>7 DEF PendingAggregates
<1>8. ASSUME NEW w \in Workers, NEW a \in Aggs, SkipAggregate(w, a) PROVE ClaimInv'
  BY <1>8 DEF SkipAggregate
<1>9. ASSUME NEW w \in Workers, NEW a \in Aggs, DrainAggregate(w, a) PROVE ClaimInv'
  <2> HIDE DEF TypeOK, ClaimInv, WorkerInv
  <2>1. PICK C \in SUBSET Available :
           C \in SUBSET Ids /\ (\A i \in C : AggOf[i] = a) /\ Read(w, C)
    BY <1>9, DrainAggregateFacts
  <2> USE DEF TypeOK, ClaimInv, WorkerInv
  <2>2. ASSUME NEW i \in C \ excused, NEW v \in Workers PROVE i \notin Held(v)
    <3>1. lock[v] # a /\ i \in visible /\ AggOf[i] = a /\ a # NoAgg
      BY <1>9, <2>1 DEF DrainAggregate, Unlocked, Available, Pending
    <3> QED BY <1>9, <2>1, <3>1 DEF DrainAggregate
  <2>3. \A i \in C \ excused : i \notin published /\ i \notin done
    BY <2>1, <2>2 DEF Available, Pending
  <2>4. todo' = [todo EXCEPT ![w] = C] /\ hand[w] = {} /\ txPub[w] = {} /\ txFail[w] = {}
    BY <1>9, <2>1 DEF DrainAggregate, Read
  <2> QED BY <1>9, <2>1, <2>2, <2>3, <2>4 DEF DrainAggregate
<1>10. ASSUME NEW w \in Workers, DrainUnaggregated(w) PROVE ClaimInv'
  <2>1. PICK C \in SUBSET {i \in Available : AggOf[i] = NoAgg} :
           Read(w, C) /\ visible' = visible \ C
    BY <1>10 DEF DrainUnaggregated, claim, FirstBatch
  <2>2. \A i \in C \ excused : \A v \in Workers : i \notin Held(v)
    BY <2>1 DEF Available, Pending
  <2>3. \A i \in C \ excused : i \notin published /\ i \notin done
    BY <2>1, <2>2 DEF Available, Pending
  <2>4. Held(w) = {} /\ todo'[w] = C /\ pc'[w] # "accepted"
    BY <1>10, <2>1 DEF DrainUnaggregated, claim, Read
  <2> QED BY <1>10, <2>1, <2>2, <2>3, <2>4 DEF DrainUnaggregated, claim, Read, Available, Pending
<1>11. ASSUME NEW w \in Workers, CallHandler(w) PROVE ClaimInv'
  <2>1. NextHand(w) \in SUBSET todo[w]
    BY NextHandType
  <2>2. hand[w] = {} /\ txFail[w] = {}
    BY <1>11 DEF CallHandler
  <2>3. CASE pc' = [pc EXCEPT ![w] = "accepted"] /\ done' = done \cup NextHand(w)
             /\ dups' = dups \cup (done \cap NextHand(w))
    <3>1. dups' \subseteq excused'
      BY <1>11, <2>1, <2>3 DEF CallHandler
    <3>2. \A v \in Workers : Held(v)' = Held(v)
      BY <1>11, <2>1, <2>2 DEF CallHandler
    <3>3. \A v \in Workers : v # w => UNCHANGED <<todo[v], hand[v], txPub[v], txFail[v], pc[v]>>
      BY <1>11, <2>3 DEF CallHandler
    <3>4. /\ todo'[w] = todo[w] \ NextHand(w) /\ hand'[w] = NextHand(w)
          /\ pc'[w] = "accepted" /\ txPub'[w] = txPub[w] /\ txFail'[w] = {}
      BY <1>11, <2>2, <2>3 DEF CallHandler
    <3>5. \A v \in Workers : \A i \in Held(v) \ excused : v # w => i \notin NextHand(w)
      BY <2>1
    <3>6. \A v \in Workers : \A i \in todo'[v] \ excused' : i \notin done'
      BY <1>11, <2>3, <3>3, <3>4, <3>5 DEF CallHandler
    <3>7. \A v \in Workers : \A i \in hand'[v] \ excused' : pc'[v] # "accepted" => i \notin done'
      BY <1>11, <2>3, <3>3, <3>4, <3>5 DEF CallHandler
    <3>8. \A v \in Workers : \A i \in txFail'[v] \ excused' : i \notin done'
      BY <1>11, <2>3, <3>3, <3>4, <3>5 DEF CallHandler
    <3>9. \A i \in done' \ excused' :
             i \in published' \/ \E v \in Workers : i \in hand'[v] \cup txPub'[v]
      BY <1>11, <2>2, <2>3, <3>3, <3>4 DEF CallHandler
    <3>10. \A v \in Workers : \A i \in Held(v)' \ excused' :
              /\ \A u \in Workers : i \in Held(u)' => u = v
              /\ InTx(v)' => lock'[v] = agg'[v] /\ AggOf[i] = agg'[v]
              /\ ~InTx(v)' => i \notin visible' /\ (PerAggregate => AggOf[i] = NoAgg)
              /\ i \notin published'
      BY <1>11, <3>2 DEF CallHandler
    <3> QED BY <3>1, <3>6, <3>7, <3>8, <3>9, <3>10
  <2>4. CASE pc' = [pc EXCEPT ![w] = "refused"] /\ UNCHANGED <<done, dups>>
    BY <1>11, <2>1, <2>2, <2>4 DEF CallHandler
  <2> QED BY <1>11, <2>3, <2>4 DEF CallHandler
<1>12. ASSUME NEW w \in Workers, MarkPublished(w) PROVE ClaimInv'
  <2>1. hand[w] \subseteq published'
    BY <1>12 DEF MarkPublished, markPublishedOn, DeliveryInv
  <2>2. \A v \in Workers \ {w} : \A i \in Held(v) \ excused : i \notin hand[w]
    OBVIOUS
  <2>3. \A i \in todo[w] : i \notin hand[w]
    OBVIOUS
  <2> QED BY <1>12, <2>1, <2>2, <2>3 DEF MarkPublished, markPublishedOn, Advance
<1>13. ASSUME NEW w \in Workers, MarkFailed(w) PROVE ClaimInv'
  BY <1>13 DEF MarkFailed, markFailedOn, Advance, Keep, Lowest
<1>14. ASSUME NEW w \in Workers, MarkPublishedInTx(w) PROVE ClaimInv'
  <2> HIDE DEF TypeOK, ClaimInv, WorkerInv
  <2>1. /\ UNCHANGED <<visible, published, done, dups, excused, todo, txFail, lock, agg>>
        /\ hand'[w] = {} /\ txPub'[w] = txPub[w] \cup hand[w]
    BY <1>14 DEF MarkPublishedInTx, tableVars, markVars, histVars, TypeOK
  <2>2. \A v \in Workers : v # w =>
           hand'[v] = hand[v] /\ txPub'[v] = txPub[v] /\ pc'[v] = pc[v]
    BY <1>14 DEF MarkPublishedInTx, TypeOK
  <2>3. \A v \in Workers : Held(v)' = Held(v) /\ InTx(v)' = InTx(v)
    BY <2>1, <2>2
  <2>4. \A v \in Workers : \A i \in hand'[v] \ excused' : pc'[v] # "accepted" => i \notin done'
    BY <2>1, <2>2 DEF ClaimInv
  <2>5. \A i \in done' \ excused' :
           i \in published' \/ \E v \in Workers : i \in hand'[v] \cup txPub'[v]
    <3>1. \A v \in Workers : hand[v] \cup txPub[v] \subseteq hand'[v] \cup txPub'[v]
      BY <2>1, <2>2
    <3>2. \A i \in done \ excused : i \in published \/ \E v \in Workers : i \in hand[v] \cup txPub[v]
      BY DEF ClaimInv
    <3> HIDE DEF InTx, Held
    <3> QED BY <2>1, <3>1, <3>2
  <2> QED BY <2>1, <2>3, <2>4, <2>5 DEF ClaimInv
<1>15. ASSUME NEW w \in Workers, MarkFailedInTx(w) PROVE ClaimInv'
  BY <1>15 DEF MarkFailedInTx
<1>16. ASSUME NEW w \in Workers, CommitTx(w) PROVE ClaimInv'
  <2>1. /\ txPub[w] \subseteq published' /\ published \subseteq published'
        /\ published' \subseteq published \cup txPub[w]
    <3>1. published' = published \cup (txPub[w] \cap rows)
      BY <1>16 DEF CommitTx, markPublishedOn
    <3>2. \A i \in txPub[w] : i \in rows \/ i \in published
      BY <1>16 DEF DeliveryInv
    <3> QED BY <3>1, <3>2
  <2>2. visible' \subseteq visible
    BY <1>16 DEF CommitTx, markFailedOn
  <2>3. \A v \in Workers \ {w} : \A i \in Held(v) \ excused : i \notin txPub[w]
    OBVIOUS
  <2>4. hand[w] = {}
    BY <1>16 DEF CommitTx
  <2>5. \A v \in Workers : v # w =>
           /\ todo'[v] = todo[v] /\ hand'[v] = hand[v] /\ txPub'[v] = txPub[v]
           /\ txFail'[v] = txFail[v] /\ pc'[v] = pc[v] /\ agg'[v] = agg[v] /\ lock'[v] = lock[v]
    BY <1>16 DEF CommitTx, LeaveTx, Forget
  <2>6. Held(w)' = {}
    BY <1>16 DEF CommitTx, LeaveTx, Forget
  <2>7. UNCHANGED <<done, dups, excused>>
    BY <1>16 DEF CommitTx
  <2>8. \A i \in done' \ excused' :
           i \in published' \/ \E v \in Workers : i \in hand'[v] \cup txPub'[v]
    <3>1. SUFFICES ASSUME NEW i \in done \ excused
                   PROVE  i \in published' \/ \E v \in Workers : i \in hand'[v] \cup txPub'[v]
      BY <2>7
    <3>2. CASE i \in published
      BY <2>1, <3>2
    <3>3. ASSUME NEW v \in Workers, i \in hand[v] \cup txPub[v]
          PROVE  i \in published' \/ i \in hand'[v] \cup txPub'[v]
      BY <2>1, <2>4, <2>5, <3>3
    <3> QED BY <3>2, <3>3
  <2>9. \A v \in Workers : \A i \in Held(v)' \ excused' :
           /\ \A u \in Workers : i \in Held(u)' => u = v
           /\ InTx(v)' => lock'[v] = agg'[v] /\ AggOf[i] = agg'[v]
           /\ ~InTx(v)' => i \notin visible' /\ (PerAggregate => AggOf[i] = NoAgg)
           /\ i \notin published'
    <3>1. SUFFICES ASSUME NEW v \in Workers, NEW i \in Held(v)' \ excused'
                   PROVE  /\ \A u \in Workers : i \in Held(u)' => u = v
                          /\ InTx(v)' => lock'[v] = agg'[v] /\ AggOf[i] = agg'[v]
                          /\ ~InTx(v)' => i \notin visible' /\ (PerAggregate => AggOf[i] = NoAgg)
                          /\ i \notin published'
      OBVIOUS
    <3>2. v # w /\ i \in Held(v) \ excused
      BY <2>5, <2>6, <2>7
    <3>3. \A u \in Workers : i \in Held(u)' => i \in Held(u)
      BY <2>5, <2>6
    <3>4. \A u \in Workers : i \in Held(u)' => u = v
      BY <3>2, <3>3
    <3>5. i \notin published'
      BY <2>1, <2>3, <3>2
    <3>6. (~InTx(v) => i \notin visible') /\ InTx(v)' = InTx(v)
      BY <2>2, <2>5, <3>2
    <3> QED BY <2>5, <3>2, <3>4, <3>5, <3>6
  <2>10. \A v \in Workers : \A i \in todo'[v] \cup txFail'[v] : i \notin excused' => i \notin done'
    BY <2>5, <2>6, <2>7
  <2>11. \A v \in Workers : \A i \in hand'[v] \ excused' : pc'[v] # "accepted" => i \notin done'
    <3>1. hand'[w] = {}
      BY <1>16 DEF CommitTx, LeaveTx, Forget
    <3>2. \A v \in Workers \ {w} : hand'[v] = hand[v] /\ pc'[v] = pc[v]
      BY <2>5
    <3>3. \A v \in Workers : \A i \in hand[v] \ excused : pc[v] # "accepted" => i \notin done
      OBVIOUS
    <3> HIDE DEF ClaimInv, WorkerInv
    <3> QED BY <2>7, <3>1, <3>2, <3>3
  <2> QED BY <2>7, <2>8, <2>9, <2>10, <2>11
<1>17. ASSUME NEW w \in Workers, Orphaned(w) PROVE ClaimInv'
  BY <1>17 DEF Orphaned, LeaveTx, Forget, Keep
<1>18. ASSUME NEW w \in Workers, Crash(w) PROVE ClaimInv'
  BY <1>18 DEF Crash, Fault, Forget, Keep
<1>19. ASSUME NEW w \in Workers, MarkLost(w) PROVE ClaimInv'
  <2>1. PICK S \in SUBSET hand[w] : Advance(w, S, pc[w])
    BY <1>19, MarkLostFacts
  <2>2. Held(w) \subseteq excused'
    BY <1>19 DEF MarkLost, Fault
  <2> QED BY <1>19, <2>1, <2>2 DEF MarkLost, Fault, Advance
<1>20. ASSUME NEW w \in Workers, TxError(w) PROVE ClaimInv'
  BY <1>20 DEF TxError, Fault, LeaveTx, Forget, Keep
<1>21. ASSUME NEW w \in Workers, SessionLost(w) PROVE ClaimInv'
  BY <1>21 DEF SessionLost, Fault
<1>22. ASSUME UNCHANGED vars PROVE ClaimInv'
  BY <1>22 DEF vars
<1> HIDE DEF TypeOK, ClaimInv
<1> QED
  BY <1>1, <1>2, <1>3, <1>4, <1>5, <1>6, <1>7, <1>8, <1>9, <1>10, <1>11, <1>12,
     <1>13, <1>14, <1>15, <1>16, <1>17, <1>18, <1>19, <1>20, <1>21, <1>22
  DEF Next, Step

-------------------------------------------------------------------------------
(***************************************************************************)
(* The theorems.                                                           *)
(***************************************************************************)

\* Every reachable state of the table, the workers and the histories is well
\* typed; in particular attempts never leaves the naturals.
THEOREM TypeCorrect == Spec => []TypeOK
<1>1. Init => TypeOK
  BY BoundAssumption DEF Init, TypeOK, PC
<1>2. TypeOK /\ [Next]_vars => TypeOK'
  BY StepTypeOK
<1> QED BY <1>1, <1>2, PTL DEF Spec

\* The four inductive invariants hold in every reachable state of the outbox.
THEOREM InvCorrect == Spec => [](WorkerInv /\ DeliveryInv /\ AttemptsInv /\ ClaimInv)
<1>1. Init => WorkerInv /\ DeliveryInv /\ AttemptsInv /\ ClaimInv
  <2> SUFFICES ASSUME Init PROVE WorkerInv /\ DeliveryInv /\ AttemptsInv /\ ClaimInv
    OBVIOUS
  <2>1. \A w \in Workers : Held(w) = {}
    BY DEF Init, Held
  <2>2. WorkerInv
    BY <2>1 DEF Init, WorkerInv, InTx
  <2>3. DeliveryInv
    BY <2>1 DEF Init, DeliveryInv
  <2>4. AttemptsInv
    BY DEF Init, AttemptsInv
  <2>5. ClaimInv
    BY <2>1 DEF Init, ClaimInv
  <2> QED BY <2>2, <2>3, <2>4, <2>5
<1>2. /\ TypeOK /\ WorkerInv /\ DeliveryInv /\ AttemptsInv /\ ClaimInv /\ [Next]_vars
      => WorkerInv' /\ DeliveryInv' /\ AttemptsInv' /\ ClaimInv'
  BY StepWorkerInv, StepDeliveryInv, StepAttemptsInv, StepClaimInv
<1> QED BY <1>1, <1>2, TypeCorrect, PTL DEF Spec

\* At-least-once delivery: no interleaving of expired claims, late marks,
\* crashes and Cleanup publishes or deletes an event no handler accepted.
THEOREM NoLoss == Spec => []NoLostEvent
<1>1. DeliveryInv => NoLostEvent
  BY DEF DeliveryInv, NoLostEvent
<1> QED BY <1>1, InvCorrect, PTL

\* The transactional half of the outbox: what a handler sees was committed.
THEOREM CommittedOnly == Spec => []OnlyCommittedDelivered
<1>1. DeliveryInv => OnlyCommittedDelivered
  BY DEF DeliveryInv, OnlyCommittedDelivered
<1> QED BY <1>1, InvCorrect, PTL

\* Duplicates come only from a claim, a session or a statement lost while the
\* event was held, under both orderings and both kinds of handler.
THEOREM DuplicatesExcused == Spec => []NoUnexcusedDuplicate
<1>1. ClaimInv => NoUnexcusedDuplicate
  BY DEF ClaimInv, NoUnexcusedDuplicate
<1> QED BY <1>1, InvCorrect, PTL

\* failOneOn parks no event early, however stale the attempts it was given.
THEOREM ParkingSound == Spec => []ParkedAfterMaxAttempts
<1>1. AttemptsInv => ParkedAfterMaxAttempts
  BY DEF AttemptsInv, ParkedAfterMaxAttempts
<1> QED BY <1>1, InvCorrect, PTL


-------------------------------------------------------------------------------
(***************************************************************************)
(* The order within an aggregate.                                          *)
(***************************************************************************)

\* Event k comes before event i of the same aggregate.
Before(k, i) == AggOf[i] # NoAgg /\ AggOf[k] = AggOf[i] /\ k < i

\* Ids of an aggregate are taken one transaction at a time: while one is open, or
\* not even begun, nothing later has been emitted.
EmitOrder == \A k, i \in Ids : Before(k, i) /\ tx[k] \in {"none", "open"} => tx[i] = "none"

\* What a worker is about to deliver has nothing before it that is neither with
\* it, accepted, nor parked; outside DrainAggregate it has no aggregate.
BatchOrder ==
    \A w \in Workers : \A i \in todo[w] :
        /\ ~InTx(w) => AggOf[i] = NoAgg
        /\ pc[w] \in {"deliver", "accepted"} =>
               \A k \in Ids : Before(k, i) /\ tx[k] = "committed" => k \in todo[w] \cup done \cup failed

\* An accepted event has nothing before it that is neither accepted nor parked.
DoneOrder ==
    \A i \in done, k \in Ids : Before(k, i) /\ tx[k] = "committed" => k \in done \cup failed

OrderInv == EmitOrder /\ BatchOrder /\ DoneOrder

\* A step that emits nothing, parks and accepts only more, and leaves workers with
\* less, keeps the order.
LEMMA OrderKept ==
    ASSUME TypeOK, WorkerInv, OrderInv, tx' = tx, done' = done, failed \subseteq failed',
           \A w \in Workers :
               \/ todo'[w] = {}
               \/ /\ todo'[w] = todo[w] /\ agg'[w] = agg[w]
                  /\ \/ pc'[w] = pc[w] \/ pc'[w] = "refused"
                     \/ pc'[w] = "deliver" /\ (pc[w] = "accepted" \/ ~InTx(w))
    PROVE  OrderInv'
<1>1. EmitOrder'
  BY DEF OrderInv, EmitOrder, Before
<1>2. ASSUME NEW w \in Workers, NEW i \in todo'[w]
      PROVE  /\ ~InTx(w)' => AggOf[i] = NoAgg
             /\ pc'[w] \in {"deliver", "accepted"} =>
                  \A k \in Ids : Before(k, i) /\ tx'[k] = "committed" => k \in todo'[w] \cup done' \cup failed'
  <2>1. todo'[w] = todo[w] /\ agg'[w] = agg[w] /\ i \in todo[w]
    BY <1>2
  <2>2. InTx(w)' <=> InTx(w)
    BY <2>1 DEF InTx
  <2>3. ~InTx(w) => AggOf[i] = NoAgg
    BY <2>1 DEF OrderInv, BatchOrder
  <2>4. ASSUME pc'[w] \in {"deliver", "accepted"}, NEW k \in Ids, Before(k, i), tx'[k] = "committed"
        PROVE  k \in todo'[w] \cup done' \cup failed'
    <3>1. InTx(w)
      BY <2>3, <2>4 DEF Before
    <3>2. pc[w] \in {"deliver", "accepted"}
      BY <1>2, <2>1, <2>4, <3>1
    <3> QED
      BY <2>1, <2>4, <3>2 DEF OrderInv, BatchOrder
  <2> QED
    BY <2>2, <2>3, <2>4
<1>3. DoneOrder'
  BY DEF OrderInv, DoneOrder, Before
<1> QED
  BY <1>1, <1>2, <1>3 DEF OrderInv, BatchOrder, Before

\* Every step keeps the order, when workers drain by aggregate and transactions
\* that emit for one aggregate exclude each other.
LEMMA StepOrderInv ==
    ASSUME PerAggregate, SerialEmitters, TypeOK, WorkerInv, DeliveryInv, OrderInv, [Next]_vars
    PROVE  OrderInv'
<1> USE IdsAssumption, AggAssumption
<1>0. /\ todo \in [Workers -> SUBSET Ids] /\ pc \in [Workers -> PC] /\ agg \in [Workers -> Aggs \cup {NoAgg}]
      /\ hand \in [Workers -> SUBSET Ids] /\ tx \in [Ids -> {"none", "open", "committed", "aborted"}]
      /\ done \subseteq Ids /\ rows \subseteq Ids
  BY DEF TypeOK
<1>1. ASSUME NEW i \in Ids, EmitWith(i) PROVE OrderInv'
  <2>1. UNCHANGED <<todo, done, failed, pc, agg>> /\ tx' = [tx EXCEPT ![i] = "open"]
    BY <1>1 DEF EmitWith
  <2>2. tx[i] = "none"
    BY <1>1 DEF EmitWith
  <2>3. \A j, k \in Ids : tx'[k] = "committed" <=> tx[k] = "committed"
    BY <1>0, <2>1, <2>2
  <2>4. EmitOrder'
    <3> SUFFICES ASSUME NEW k \in Ids, NEW j \in Ids, Before(k, j), tx'[k] \in {"none", "open"}
                 PROVE  tx'[j] = "none"
      BY DEF EmitOrder, Before
    <3>1. tx[k] \in {"none", "open"}
      BY <1>0, <2>1, <2>2
    <3>2. tx[j] = "none"
      BY <3>1 DEF OrderInv, EmitOrder
    <3>3. j # i
      BY <1>1, <3>1, <1>0 DEF EmitWith, Before
    <3> QED
      BY <1>0, <2>1, <3>2, <3>3
  <2>5. BatchOrder'
    BY <1>0, <2>1, <2>3 DEF OrderInv, BatchOrder, Before, InTx
  <2>6. DoneOrder'
    BY <1>0, <2>1, <2>3 DEF OrderInv, DoneOrder, Before
  <2> QED
    BY <2>4, <2>5, <2>6 DEF OrderInv
<1>2. ASSUME NEW i \in Ids, CommitEmit(i) PROVE OrderInv'
  <2>1. UNCHANGED <<todo, done, failed, pc, agg>> /\ tx' = [tx EXCEPT ![i] = "committed"] /\ tx[i] = "open"
    BY <1>2 DEF CommitEmit
  <2>2. \A j \in Ids : Before(i, j) => tx[j] = "none"
    BY <2>1 DEF OrderInv, EmitOrder
  <2>3. \A j \in Ids, k \in Ids : Before(k, j) /\ tx[j] = "committed" /\ tx'[k] = "committed" => tx[k] = "committed"
    BY <1>0, <2>1, <2>2
  <2>4. \A j \in done : j \in Ids /\ tx[j] = "committed"
    BY <1>0 DEF DeliveryInv
  <2>5. \A w \in Workers : \A j \in todo[w] : j \in Ids /\ tx[j] = "committed"
    BY <1>0 DEF DeliveryInv, Held
  <2>6. EmitOrder'
    BY <1>0, <2>1 DEF OrderInv, EmitOrder, Before
  <2>7. BatchOrder'
    BY <1>0, <2>1, <2>3, <2>5 DEF OrderInv, BatchOrder, Before, InTx
  <2>8. DoneOrder'
    BY <1>0, <2>1, <2>3, <2>4 DEF OrderInv, DoneOrder, Before
  <2> QED
    BY <2>6, <2>7, <2>8 DEF OrderInv
<1>3. ASSUME NEW i \in Ids, AbortEmit(i) PROVE OrderInv'
  <2>1. UNCHANGED <<todo, done, failed, pc, agg>> /\ tx' = [tx EXCEPT ![i] = "aborted"] /\ tx[i] = "open"
    BY <1>3 DEF AbortEmit
  <2>2. EmitOrder'
    BY <1>0, <2>1 DEF OrderInv, EmitOrder, Before
  <2>3. BatchOrder'
    BY <1>0, <2>1 DEF OrderInv, BatchOrder, Before, InTx
  <2>4. DoneOrder'
    BY <1>0, <2>1 DEF OrderInv, DoneOrder, Before
  <2> QED
    BY <2>2, <2>3, <2>4 DEF OrderInv
<1>4. ASSUME NEW i \in Ids, BecomeVisible(i) PROVE OrderInv'
  BY <1>4, OrderKept DEF BecomeVisible
<1>5. ASSUME Cleanup PROVE OrderInv'
  BY <1>5, OrderKept DEF Cleanup
<1>6. ASSUME NEW w \in Workers, Drain(w) PROVE OrderInv'
  BY <1>6 DEF Drain
<1>7. ASSUME NEW w \in Workers, PendingAggregates(w) PROVE OrderInv'
  <2>1. todo[w] = {}
    BY <1>7 DEF PendingAggregates, WorkerInv, Held
  <2> QED
    BY <1>0, <1>7, <2>1, OrderKept DEF PendingAggregates
<1>8. ASSUME NEW w \in Workers, NEW a \in Aggs, SkipAggregate(w, a) PROVE OrderInv'
  BY <1>8, OrderKept DEF SkipAggregate
<1>9. ASSUME NEW w \in Workers, NEW a \in Aggs, DrainAggregate(w, a) PROVE OrderInv'
  <2>1. PICK C \in FirstBatch(AggregateQueue(a), Batch) : todo' = [todo EXCEPT ![w] = C]
    BY <1>9 DEF DrainAggregate, Read
  <2>2. /\ agg' = [agg EXCEPT ![w] = a] /\ pc' = [pc EXCEPT ![w] = "deliver"]
        /\ UNCHANGED <<tx, done, failed>>
    BY <1>9 DEF DrainAggregate
  <2>3. C \subseteq AggregateQueue(a) /\ \A i \in C, j \in AggregateQueue(a) \ C : i < j
    BY <2>1 DEF FirstBatch
  <2>4. ASSUME NEW i \in C, NEW k \in Ids, Before(k, i), tx[k] = "committed"
        PROVE  k \in C \cup done \cup failed
    <3>1. i \in Ids /\ AggOf[i] = a /\ \A j \in Pending \ visible : AggOf[j] = a => i < j
      BY <1>0, <2>3, <2>4 DEF AggregateQueue, Available, Pending
    <3>2. AggOf[k] = a /\ k < i /\ k \in Nat /\ i \in Nat /\ ~(i < k)
      BY <2>4, <3>1 DEF Before
    <3>3. CASE k \notin rows
      BY <2>4, <3>3 DEF DeliveryInv
    <3>4. CASE k \in rows /\ k \notin Pending
      BY <3>4 DEF DeliveryInv, Pending
    <3>5. CASE k \in Pending
      <4>1. k \in visible
        BY <3>1, <3>2, <3>5
      <4>2. \A j \in Pending \ visible : AggOf[j] = a => k < j
        <5> SUFFICES ASSUME NEW j \in Pending \ visible, AggOf[j] = a PROVE k < j
          OBVIOUS
        <5>1. i < j /\ j \in Nat
          BY <1>0, <3>1 DEF Pending
        <5> QED
          BY <3>2, <5>1
      <4>3. k \in AggregateQueue(a)
        BY <3>2, <3>5, <4>1, <4>2 DEF AggregateQueue, Available
      <4> QED
        BY <2>3, <2>4, <3>2, <4>3
    <3> QED
      BY <3>3, <3>4, <3>5
  <2>5. EmitOrder'
    BY <2>2 DEF OrderInv, EmitOrder, Before
  <2>6. BatchOrder'
    <3> SUFFICES ASSUME NEW v \in Workers, NEW i \in todo'[v]
                 PROVE  /\ ~InTx(v)' => AggOf[i] = NoAgg
                        /\ pc'[v] \in {"deliver", "accepted"} =>
                             \A k \in Ids : Before(k, i) /\ tx'[k] = "committed" => k \in todo'[v] \cup done' \cup failed'
      BY DEF BatchOrder, Before
    <3>1. CASE v = w
      <4>1. InTx(v)'
        BY <1>0, <2>2, <3>1 DEF InTx
      <4> QED
        BY <1>0, <2>1, <2>2, <2>4, <3>1, <4>1
    <3>2. CASE v # w
      BY <1>0, <2>1, <2>2, <3>2 DEF OrderInv, BatchOrder, InTx
    <3> QED
      BY <3>1, <3>2
  <2>7. DoneOrder'
    BY <2>2 DEF OrderInv, DoneOrder, Before
  <2> QED
    BY <2>5, <2>6, <2>7 DEF OrderInv
<1>10. ASSUME NEW w \in Workers, DrainUnaggregated(w) PROVE OrderInv'
  <2>1. PICK C \in SUBSET {i \in Available : AggOf[i] = NoAgg} :
            /\ todo' = [todo EXCEPT ![w] = C]
            /\ pc' = [pc EXCEPT ![w] = IF C = {} THEN "idle" ELSE "deliver"]
    BY <1>10 DEF DrainUnaggregated, claim, Read, FirstBatch
  <2>2. UNCHANGED <<tx, done, failed, agg>>
    BY <1>10 DEF DrainUnaggregated
  <2>3. \A v \in Workers : v # w => todo'[v] = todo[v] /\ pc'[v] = pc[v]
    BY <1>0, <2>1
  <2>4. \A i \in todo'[w] : AggOf[i] = NoAgg
    BY <1>0, <2>1
  <2>5. EmitOrder'
    BY <2>2 DEF OrderInv, EmitOrder, Before
  <2>6. BatchOrder'
    BY <2>2, <2>3, <2>4 DEF OrderInv, BatchOrder, Before, InTx
  <2>7. DoneOrder'
    BY <2>2 DEF OrderInv, DoneOrder, Before
  <2> QED
    BY <2>5, <2>6, <2>7 DEF OrderInv
<1>11. ASSUME NEW w \in Workers, CallHandler(w) PROVE OrderInv'
  <2> DEFINE H == NextHand(w)
  <2>1. H \subseteq todo[w] /\ H \subseteq Ids /\ pc[w] = "deliver"
    BY <1>11, NextHandType DEF CallHandler
  <2>2. ASSUME NEW i \in H, NEW k \in Ids, Before(k, i), tx[k] = "committed"
        PROVE  k \in H \cup done \cup failed
    <3>1. k \in todo[w] \cup done \cup failed
      BY <2>1, <2>2 DEF OrderInv, BatchOrder
    <3>2. k \in todo[w] => k \in H
      <4>1. k \in Nat /\ i \in Nat /\ k < i
        BY <2>1, <2>2, Zenon DEF Before
      <4>2. H = todo[w] \/ \A j \in todo[w] : i <= j
        BY <2>2 DEF NextHand, Lowest
      <4> QED
        BY <4>1, <4>2
    <3> QED
      BY <3>1, <3>2
  <2>3. /\ todo' = [todo EXCEPT ![w] = @ \ H] /\ UNCHANGED <<tx, failed, agg>>
        /\ \/ done' = done \cup H /\ pc' = [pc EXCEPT ![w] = "accepted"]
           \/ done' = done /\ pc' = [pc EXCEPT ![w] = "refused"]
    BY <1>11 DEF CallHandler
  <2> HIDE DEF H
  <2>4. EmitOrder'
    BY <2>3 DEF OrderInv, EmitOrder, Before
  <2>5. BatchOrder'
    <3> SUFFICES ASSUME NEW v \in Workers, NEW i \in todo'[v]
                 PROVE  /\ ~InTx(v)' => AggOf[i] = NoAgg
                        /\ pc'[v] \in {"deliver", "accepted"} =>
                             \A k \in Ids : Before(k, i) /\ tx'[k] = "committed" => k \in todo'[v] \cup done' \cup failed'
      BY DEF BatchOrder, Before
    <3>0. i \in todo[v] /\ done \subseteq done'
      BY <1>0, <2>3
    <3>1. CASE v = w
      <4>1. ~InTx(v)' => AggOf[i] = NoAgg
        BY <1>0, <2>3, <3>0 DEF OrderInv, BatchOrder, InTx
      <4>2. pc'[v] \in {"deliver", "accepted"} => done' = done \cup H
        BY <1>0, <2>3, <3>1
      <4>3. \A k \in Ids : Before(k, i) /\ tx[k] = "committed" => k \in todo[w] \cup done \cup failed
        BY <2>1, <3>0, <3>1 DEF OrderInv, BatchOrder
      <4>4. todo'[v] = todo[w] \ H
        BY <1>0, <2>3, <3>1
      <4> QED
        BY <2>3, <4>1, <4>2, <4>3, <4>4
    <3>2. CASE v # w
      <4>1. todo'[v] = todo[v] /\ pc'[v] = pc[v] /\ (InTx(v)' <=> InTx(v))
        BY <1>0, <2>3, <3>2 DEF InTx
      <4> QED
        BY <2>3, <3>0, <4>1 DEF OrderInv, BatchOrder
    <3> QED
      BY <3>1, <3>2
  <2>6. DoneOrder'
    <3> SUFFICES ASSUME NEW i \in done', NEW k \in Ids, Before(k, i), tx[k] = "committed"
                 PROVE  k \in done' \cup failed
      BY <2>3 DEF DoneOrder, Before
    <3>1. CASE i \in done
      BY <2>3, <3>1 DEF OrderInv, DoneOrder
    <3>2. CASE i \notin done
      <4>1. done' = done \cup H /\ i \in H
        BY <2>3, <3>2
      <4> QED
        BY <2>2, <4>1
    <3> QED
      BY <3>1, <3>2
  <2> QED
    BY <2>4, <2>5, <2>6 DEF OrderInv
<1>12. ASSUME NEW w \in Workers, MarkPublished(w) PROVE OrderInv'
  BY <1>0, <1>12, OrderKept DEF MarkPublished, Advance
<1>13. ASSUME NEW w \in Workers, MarkFailed(w) PROVE OrderInv'
  BY <1>0, <1>13, OrderKept DEF MarkFailed, Advance, markFailedOn
<1>14. ASSUME NEW w \in Workers, MarkPublishedInTx(w) PROVE OrderInv'
  BY <1>0, <1>14, OrderKept DEF MarkPublishedInTx
<1>15. ASSUME NEW w \in Workers, MarkFailedInTx(w) PROVE OrderInv'
  BY <1>0, <1>15, OrderKept DEF MarkFailedInTx
<1>16. ASSUME NEW w \in Workers, CommitTx(w) PROVE OrderInv'
  BY <1>0, <1>16, OrderKept DEF CommitTx, markFailedOn, LeaveTx, Forget
<1>17. ASSUME NEW w \in Workers, Orphaned(w) PROVE OrderInv'
  BY <1>0, <1>17, OrderKept DEF Orphaned, LeaveTx, Forget
<1>18. ASSUME NEW w \in Workers, Crash(w) PROVE OrderInv'
  BY <1>0, <1>18, OrderKept DEF Crash, Fault, Forget
<1>19. ASSUME NEW w \in Workers, MarkLost(w) PROVE OrderInv'
  <2>1. PICK S \in SUBSET hand[w] : Advance(w, S, pc[w])
    BY <1>19, MarkLostFacts
  <2>2. pc[w] \in {"accepted", "refused"} /\ ~InTx(w)
    BY <1>19 DEF MarkLost
  <2>3. UNCHANGED <<tx, done, failed, todo, agg>>
    BY <1>19 DEF MarkLost, Fault
  <2>4. \/ todo[w] = {} \/ pc'[w] = pc[w] \/ pc'[w] = "deliver"
    BY <1>0, <2>1 DEF Advance
  <2>5. \A v \in Workers : v # w => pc'[v] = pc[v]
    BY <1>0, <2>1 DEF Advance
  <2> QED
    BY <2>2, <2>3, <2>4, <2>5, OrderKept
<1>20. ASSUME NEW w \in Workers, TxError(w) PROVE OrderInv'
  BY <1>0, <1>20, OrderKept DEF TxError, Fault, LeaveTx, Forget
<1>21. ASSUME NEW w \in Workers, SessionLost(w) PROVE OrderInv'
  BY <1>21, OrderKept DEF SessionLost, Fault
<1>22. ASSUME UNCHANGED vars PROVE OrderInv'
  BY <1>22, OrderKept DEF vars
<1> QED
  BY <1>1, <1>2, <1>3, <1>4, <1>5, <1>6, <1>7, <1>8, <1>9, <1>10, <1>11, <1>12,
     <1>13, <1>14, <1>15, <1>16, <1>17, <1>18, <1>19, <1>20, <1>21, <1>22
  DEF Next, Step

\* A handler is given only what its worker has drained.
LEMMA GivenFromBatch ==
    ASSUME TypeOK, [Next]_vars, NEW w \in Workers
    PROVE  hand'[w] \ hand[w] \subseteq todo[w]
<1>0. hand \in [Workers -> SUBSET Ids]
  BY DEF TypeOK
<1>1. ASSUME NEW v \in Workers, CallHandler(v) PROVE hand'[w] \ hand[w] \subseteq todo[w]
  BY <1>0, <1>1, NextHandType DEF CallHandler
<1>2. ASSUME NEW v \in Workers, Drain(v) \/ PendingAggregates(v) \/ DrainUnaggregated(v)
                               \/ \E a \in Aggs : SkipAggregate(v, a) \/ DrainAggregate(v, a)
      PROVE  hand' = hand
  BY <1>2 DEF Drain, PendingAggregates, DrainUnaggregated, SkipAggregate, DrainAggregate
<1>3. ASSUME NEW v \in Workers, MarkPublished(v) \/ MarkFailed(v) \/ MarkLost(v) PROVE hand'[w] \subseteq hand[w]
  BY <1>0, <1>3 DEF MarkPublished, MarkFailed, MarkLost, Advance
<1>4. ASSUME NEW v \in Workers, MarkPublishedInTx(v) \/ MarkFailedInTx(v) \/ SessionLost(v) PROVE hand'[w] \subseteq hand[w]
  BY <1>0, <1>4 DEF MarkPublishedInTx, MarkFailedInTx, SessionLost
<1>5. ASSUME NEW v \in Workers, CommitTx(v) \/ Orphaned(v) \/ Crash(v) \/ TxError(v) PROVE hand'[w] \subseteq hand[w]
  BY <1>0, <1>5 DEF CommitTx, Orphaned, Crash, TxError, LeaveTx, Forget
<1>6. ASSUME \/ \E i \in Ids : EmitWith(i) \/ CommitEmit(i) \/ AbortEmit(i) \/ BecomeVisible(i)
             \/ Cleanup \/ UNCHANGED vars
      PROVE  hand' = hand
  BY <1>6 DEF EmitWith, CommitEmit, AbortEmit, BecomeVisible, Cleanup, vars
<1> QED
  BY <1>1, <1>2, <1>3, <1>4, <1>5, <1>6 DEF Next, Step

\* With workers that drain by aggregate, and transactions that emit for one
\* aggregate excluding each other, every event of an aggregate is accepted for the
\* first time in id order, whatever claims, sessions and processes are lost.
THEOREM AggregatesInOrder ==
    ASSUME PerAggregate, SerialEmitters
    PROVE  Spec => AggregateOrder
<1>1. Init => OrderInv
  BY DEF Init, OrderInv, EmitOrder, BatchOrder, DoneOrder
<1>2. TypeOK /\ WorkerInv /\ DeliveryInv /\ OrderInv /\ [Next]_vars => OrderInv'
  BY StepOrderInv
<1>3. ASSUME TypeOK, DeliveryInv, OrderInv, [Next]_vars
      PROVE  [\A w \in Workers : \A i \in hand'[w] \ hand[w] :
                 AggOf[i] # NoAgg /\ i \notin done /\ i \notin failed =>
                     \A j \in done : AggOf[j] = AggOf[i] => j < i]_vars
  <2> SUFFICES ASSUME NEW w \in Workers, NEW i \in hand'[w] \ hand[w],
                      AggOf[i] # NoAgg, i \notin done, i \notin failed,
                      NEW j \in done, AggOf[j] = AggOf[i]
               PROVE  j < i
    OBVIOUS
  <2>1. i \in todo[w]
    BY <1>3, GivenFromBatch
  <2>2. i \in Ids /\ tx[i] = "committed" /\ j \in Ids /\ i \in Nat /\ j \in Nat
    BY <1>3, <2>1, IdsAssumption DEF TypeOK, DeliveryInv, Held
  <2>3. ~(i < j)
    BY <1>3, <2>2 DEF OrderInv, DoneOrder, Before
  <2> QED
    BY <2>2, <2>3
<1> QED
  BY <1>1, <1>2, <1>3, TypeCorrect, InvCorrect, PTL DEF Spec, AggregateOrder
===============================================================================
