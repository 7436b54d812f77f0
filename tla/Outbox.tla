-------------------------------- MODULE Outbox --------------------------------
(***************************************************************************)
(* The transactional outbox of pg/outbox.go: application transactions emit *)
(* events into a table, and a pool of OutboxWorkers drains it.             *)
(*                                                                         *)
(* Of availableAt the model keeps whether it is past (`visible').  A claim  *)
(* or a retry backoff hides the row and time shows it again               *)
(* (BecomeVisible), however long the handler of the claimer has been       *)
(* running.  Statements are atomic; a worker may lose its process, its     *)
(* database session or a single statement between any two of its steps.    *)
(***************************************************************************)
EXTENDS Naturals, FiniteSets, Drained

CONSTANTS
    Ids,            \* event ids, in the order the BIGSERIAL column hands them out
    Workers,        \* OutboxWorkers draining the table
    Aggs,           \* (aggregateType, aggregateID) pairs
    NoAgg,          \* "aggregateID" IS NULL
    AggOf,          \* the aggregate each event is emitted for
    BatchWorkers,   \* the workers configured with OnBatch; the others use OnEvent
    PerAggregate,   \* WithOrdering(OrderingPerAggregate)?
    SerialEmitters, \* do transactions emitting for one aggregate exclude each other?
    Batch,          \* WithBatch
    MaxAttempts,    \* WithMaxAttempts; 0 = unlimited
    MaxFaults       \* bound on crashes, lost sessions and failed statements

ASSUME IdsAssumption == Ids \subseteq Nat /\ IsFiniteSet(Ids)
ASSUME AggAssumption == NoAgg \notin Aggs /\ AggOf \in [Ids -> Aggs \cup {NoAgg}]
ASSUME WorkerAssumption == BatchWorkers \subseteq Workers
ASSUME FlagAssumption == PerAggregate \in BOOLEAN /\ SerialEmitters \in BOOLEAN
ASSUME BoundAssumption == Batch \in Nat \ {0} /\ MaxAttempts \in Nat /\ MaxFaults \in Nat

VARIABLES
    tx,        \* tx[i]: the emitting transaction: "none", "open", "committed", "aborted"
    rows,      \* the committed rows of the table
    published, \* rows with publishedAt set
    failed,    \* rows with failedAt set
    visible,   \* rows with availableAt <= now()
    attempts,  \* the attempts column
    pc,        \* pc[w]: where worker w is in its tick
    aggs,      \* aggs[w]: aggregates this tick has still to try
    agg,       \* agg[w]: the aggregate being drained, NoAgg outside DrainAggregate
    lock,      \* lock[w]: the aggregate whose advisory lock w's session holds
    todo,      \* todo[w]: drained events not yet given to the handler
    hand,      \* hand[w]: events the handler has returned for, not yet marked
    seen,      \* seen[w]: the attempts column as the drain of w read it
    txPub,     \* txPub[w]: rows marked published in w's open transaction
    txFail,    \* txFail[w]: rows marked failed in w's open transaction
    faults,    \* crashes, lost sessions and failed statements so far
    done,      \* history: events some handler call accepted
    dups,      \* history: events accepted more than once
    excused,   \* history: events whose claim or transaction was lost while held
    rejects    \* history: how often the handler refused each event

markVars == <<published, failed, visible, attempts>>
tableVars == <<tx, rows, markVars>>
workVars == <<pc, aggs, agg, lock, todo, hand, seen, txPub, txFail>>
histVars == <<done, dups, excused, rejects>>
vars     == <<tableVars, workVars, faults, histVars>>

\* "accepted" and "refused": the handler has returned nil, or an error, for hand[w].
PC == {"idle", "aggs", "deliver", "accepted", "refused", "commit"}

TypeOK ==
    /\ tx \in [Ids -> {"none", "open", "committed", "aborted"}]
    /\ rows \in SUBSET Ids
    /\ published \in SUBSET Ids
    /\ failed \in SUBSET Ids
    /\ visible \in SUBSET Ids
    /\ attempts \in [Ids -> Nat]
    /\ pc \in [Workers -> PC]
    /\ aggs \in [Workers -> SUBSET Aggs]
    /\ agg \in [Workers -> Aggs \cup {NoAgg}]
    /\ lock \in [Workers -> Aggs \cup {NoAgg}]
    /\ todo \in [Workers -> SUBSET Ids]
    /\ hand \in [Workers -> SUBSET Ids]
    /\ seen \in [Workers -> [Ids -> Nat]]
    /\ txPub \in [Workers -> SUBSET Ids]
    /\ txFail \in [Workers -> SUBSET Ids]
    /\ faults \in 0..MaxFaults
    /\ done \in SUBSET Ids
    /\ dups \in SUBSET Ids
    /\ excused \in SUBSET Ids
    /\ rejects \in [Ids -> Nat]

Init ==
    /\ tx = [i \in Ids |-> "none"]
    /\ rows = {} /\ published = {} /\ failed = {} /\ visible = {}
    /\ attempts = [i \in Ids |-> 0]
    /\ pc = [w \in Workers |-> "idle"]
    /\ aggs = [w \in Workers |-> {}]
    /\ agg = [w \in Workers |-> NoAgg]
    /\ lock = [w \in Workers |-> NoAgg]
    /\ todo = [w \in Workers |-> {}]
    /\ hand = [w \in Workers |-> {}]
    /\ seen = [w \in Workers |-> [i \in Ids |-> 0]]
    /\ txPub = [w \in Workers |-> {}]
    /\ txFail = [w \in Workers |-> {}]
    /\ faults = 0
    /\ done = {} /\ dups = {} /\ excused = {}
    /\ rejects = [i \in Ids |-> 0]

-------------------------------------------------------------------------------
(***************************************************************************)
(* The emitting transactions.  An id is allocated when the INSERT runs and *)
(* the row appears when its transaction commits.                           *)
(***************************************************************************)

\* Mutant: the INSERT goes through the pool instead of the caller's tx.
EmitThroughPool(i) ==
    /\ tx[i] = "none"
    /\ \A j \in Ids : j < i => tx[j] # "none"
    /\ tx' = [tx EXCEPT ![i] = "open"]
    /\ rows' = rows \cup {i}
    /\ visible' = visible \cup {i}
    /\ UNCHANGED <<published, failed, attempts, workVars, faults, histVars>>

EmitWith(i) ==
    /\ tx[i] = "none"
    /\ \A j \in Ids : j < i => tx[j] # "none"
    /\ SerialEmitters /\ AggOf[i] # NoAgg =>
           \A j \in Ids : AggOf[j] = AggOf[i] => tx[j] # "open"
    /\ tx' = [tx EXCEPT ![i] = "open"]
    /\ UNCHANGED <<rows, markVars, workVars, faults, histVars>>

CommitEmit(i) ==
    /\ tx[i] = "open"
    /\ tx' = [tx EXCEPT ![i] = "committed"]
    /\ rows' = rows \cup {i}
    /\ visible' = visible \cup {i}
    /\ UNCHANGED <<published, failed, attempts, workVars, faults, histVars>>

AbortEmit(i) ==
    /\ tx[i] = "open"
    /\ tx' = [tx EXCEPT ![i] = "aborted"]
    /\ UNCHANGED <<rows, markVars, workVars, faults, histVars>>

-------------------------------------------------------------------------------
(***************************************************************************)
(* The statements on the table.                                            *)
(***************************************************************************)

\* "publishedAt" IS NULL AND "failedAt" IS NULL
Pending == rows \ (published \cup failed)

\* ... AND "availableAt" <= now()
Available == Pending \cap visible

\* What the drain of w reads of the rows it returns.
Read(w, C) ==
    /\ todo' = [todo EXCEPT ![w] = C]
    /\ seen' = [seen EXCEPT ![w] = [i \in Ids |-> IF i \in C THEN attempts[i] ELSE 0]]

\* Mutant: the batch is selected and not hidden.
ClaimWithoutHiding(w, S) ==
    \E C \in FirstBatch(S, Batch) :
        /\ Read(w, C)
        /\ UNCHANGED visible
        /\ pc' = [pc EXCEPT ![w] = IF C = {} THEN "idle" ELSE "deliver"]

\* The statement of Outbox.claim over the candidate rows S: it returns a batch
\* and moves its availableAt past now() by the visibility timeout.
claim(w, S) ==
    \E C \in FirstBatch(S, Batch) :
        /\ Read(w, C)
        /\ visible' = visible \ C
        /\ pc' = [pc EXCEPT ![w] = IF C = {} THEN "idle" ELSE "deliver"]

\* Mutant: a hidden earlier event does not hold back the later ones.
AggregateQueueSkipping(a) == {i \in Available : AggOf[i] = a}

\* The events DrainAggregate selects: available, and before the first event of
\* the aggregate that is pending but not available.
AggregateQueue(a) ==
    {i \in Available : /\ AggOf[i] = a
                       /\ \A j \in Pending \ visible : AggOf[j] = a => i < j}

\* The UPDATE of markPublishedOn: it matches rows by id alone.
markPublishedOn(S) == published' = published \cup (S \cap rows)

\* Mutant: off by one.
TerminalEarly(w, i) == MaxAttempts > 0 /\ seen[w][i] + 2 >= MaxAttempts

\* failOneOn's decision, from the attempts column the drain read.
Terminal(w, i) == MaxAttempts > 0 /\ seen[w][i] + 1 >= MaxAttempts

\* Mutant: a countdown of the attempts left.
MarkFailedCountdown(w, S) ==
    /\ attempts' = [i \in Ids |-> IF i \in S \cap rows THEN seen[w][i] - 1 ELSE attempts[i]]
    /\ failed' = failed \cup {i \in S \cap rows : Terminal(w, i)}
    /\ visible' = visible \ {i \in S \cap rows : ~Terminal(w, i)}

\* The UPDATE of markFailedOn for each event of S: parked, or hidden for a
\* backoff.  It matches rows by id alone.
markFailedOn(w, S) ==
    /\ attempts' = [i \in Ids |-> IF i \in S \cap rows THEN seen[w][i] + 1 ELSE attempts[i]]
    /\ failed' = failed \cup {i \in S \cap rows : Terminal(w, i)}
    /\ visible' = visible \ {i \in S \cap rows : ~Terminal(w, i)}

-------------------------------------------------------------------------------
(***************************************************************************)
(* One tick of a worker: draining.                                         *)
(***************************************************************************)

\* tickNone
Drain(w) ==
    /\ pc[w] = "idle" /\ ~PerAggregate
    /\ claim(w, Available)
    /\ UNCHANGED <<tx, rows, published, failed, attempts, aggs, agg, lock, hand,
                   txPub, txFail, faults, histVars>>

\* SELECT DISTINCT ... LIMIT without an ORDER BY: any Batch of the aggregates
\* with an available event.
PendingAggregates(w) ==
    /\ pc[w] = "idle" /\ PerAggregate
    /\ LET ready == {AggOf[i] : i \in Available} \ {NoAgg}
       IN  \E A \in SUBSET ready :
               /\ Cardinality(A) <= Batch
               /\ Cardinality(A) < Batch => A = ready
               /\ aggs' = [aggs EXCEPT ![w] = A]
    /\ pc' = [pc EXCEPT ![w] = "aggs"]
    /\ UNCHANGED <<tableVars, agg, lock, todo, hand, seen, txPub, txFail, faults, histVars>>

Unlocked(a) == \A v \in Workers : lock[v] # a

\* pg_try_advisory_xact_lock answers false, or the aggregate has nothing to
\* deliver any more: DrainAggregate returns without calling its callback.
SkipAggregate(w, a) ==
    /\ pc[w] = "aggs" /\ a \in aggs[w]
    /\ ~Unlocked(a) \/ AggregateQueue(a) = {}
    /\ aggs' = [aggs EXCEPT ![w] = @ \ {a}]
    /\ UNCHANGED <<tableVars, pc, agg, lock, todo, hand, seen, txPub, txFail, faults, histVars>>

DrainAggregate(w, a) ==
    /\ pc[w] = "aggs" /\ a \in aggs[w]
    /\ Unlocked(a)
    /\ \E C \in FirstBatch(AggregateQueue(a), Batch) : C # {} /\ Read(w, C)
    /\ lock' = [lock EXCEPT ![w] = a]
    /\ agg' = [agg EXCEPT ![w] = a]
    /\ pc' = [pc EXCEPT ![w] = "deliver"]
    /\ UNCHANGED <<tableVars, aggs, hand, txPub, txFail, faults, histVars>>

\* tickUnaggregated, once the aggregates of the tick are through.
DrainUnaggregated(w) ==
    /\ pc[w] = "aggs" /\ aggs[w] = {}
    /\ claim(w, {i \in Available : AggOf[i] = NoAgg})
    /\ UNCHANGED <<tx, rows, published, failed, attempts, aggs, agg, lock, hand,
                   txPub, txFail, faults, histVars>>

-------------------------------------------------------------------------------
(***************************************************************************)
(* One tick of a worker: delivering.                                       *)
(***************************************************************************)

InTx(w) == agg[w] # NoAgg

\* Does the session of w still hold the transaction DrainAggregate opened?
TxAlive(w) == InTx(w) /\ lock[w] = agg[w]

\* What one handler call is given: the whole batch, or the lowest id left.
NextHand(w) == IF w \in BatchWorkers THEN todo[w] ELSE Lowest(todo[w])

\* The handler runs and returns nil, or an error.
CallHandler(w) ==
    /\ pc[w] = "deliver"
    /\ hand' = [hand EXCEPT ![w] = NextHand(w)]
    /\ todo' = [todo EXCEPT ![w] = @ \ NextHand(w)]
    /\ \/ /\ pc' = [pc EXCEPT ![w] = "accepted"]
          /\ done' = done \cup NextHand(w)
          /\ dups' = dups \cup (done \cap NextHand(w))
          /\ UNCHANGED rejects
       \/ /\ pc' = [pc EXCEPT ![w] = "refused"]
          /\ rejects' = [i \in Ids |-> IF i \in NextHand(w) THEN rejects[i] + 1 ELSE rejects[i]]
          /\ UNCHANGED <<done, dups>>
    /\ UNCHANGED <<tableVars, aggs, agg, lock, seen, txPub, txFail, faults, excused>>

\* The OutboxEvents w still has in memory once it holds only C.
Keep(w, C) == seen' = [seen EXCEPT ![w] = [i \in Ids |-> IF i \in C THEN seen[w][i] ELSE 0]]

\* The events S of hand[w] are dealt with: on to the rest of hand[w] at `again',
\* then to the rest of the batch.
Advance(w, S, again) ==
    /\ hand' = [hand EXCEPT ![w] = @ \ S]
    /\ Keep(w, todo[w] \cup (hand[w] \ S))
    /\ pc' = [pc EXCEPT ![w] = IF hand[w] \ S # {} THEN again
                               ELSE IF todo[w] # {} THEN "deliver" ELSE "idle"]

\* deliver and runBatch: one UPDATE for everything the handler accepted.
MarkPublished(w) ==
    /\ pc[w] = "accepted" /\ ~InTx(w)
    /\ markPublishedOn(hand[w])
    /\ Advance(w, hand[w], "accepted")
    /\ UNCHANGED <<tx, rows, failed, visible, attempts, aggs, agg, lock, todo,
                   txPub, txFail, faults, histVars>>

\* failOne: one UPDATE per refused event.
MarkFailed(w) ==
    /\ pc[w] = "refused" /\ ~InTx(w)
    /\ markFailedOn(w, Lowest(hand[w]))
    /\ Advance(w, Lowest(hand[w]), "refused")
    /\ UNCHANGED <<tx, rows, published, aggs, agg, lock, todo, txPub, txFail, faults, histVars>>

\* runSequentialInTx and runBatchInTx, the handler having returned nil.
MarkPublishedInTx(w) ==
    /\ pc[w] = "accepted" /\ TxAlive(w)
    /\ txPub' = [txPub EXCEPT ![w] = @ \cup hand[w]]
    /\ hand' = [hand EXCEPT ![w] = {}]
    /\ pc' = [pc EXCEPT ![w] = IF todo[w] # {} THEN "deliver" ELSE "commit"]
    /\ UNCHANGED <<tableVars, aggs, agg, lock, todo, seen, txFail, faults, histVars>>

\* The same, the handler having failed: the rest of the batch is left alone.
MarkFailedInTx(w) ==
    /\ pc[w] = "refused" /\ TxAlive(w)
    /\ txFail' = [txFail EXCEPT ![w] = hand[w]]
    /\ hand' = [hand EXCEPT ![w] = {}]
    /\ todo' = [todo EXCEPT ![w] = {}]
    /\ pc' = [pc EXCEPT ![w] = "commit"]
    /\ UNCHANGED <<tableVars, aggs, agg, lock, seen, txPub, faults, histVars>>

\* What the process of w has in memory, and its transaction, is gone.
Forget(w) ==
    /\ agg' = [agg EXCEPT ![w] = NoAgg]
    /\ lock' = [lock EXCEPT ![w] = NoAgg]
    /\ todo' = [todo EXCEPT ![w] = {}]
    /\ hand' = [hand EXCEPT ![w] = {}]
    /\ Keep(w, {})
    /\ txPub' = [txPub EXCEPT ![w] = {}]
    /\ txFail' = [txFail EXCEPT ![w] = {}]

\* Mutant: a session-level advisory lock, which outlives the transaction.
LeaveTxLocked(w, drop) ==
    /\ pc' = [pc EXCEPT ![w] = "aggs"]
    /\ aggs' = [aggs EXCEPT ![w] = @ \ drop]
    /\ agg' = [agg EXCEPT ![w] = NoAgg]
    /\ todo' = [todo EXCEPT ![w] = {}]
    /\ hand' = [hand EXCEPT ![w] = {}]
    /\ Keep(w, {})
    /\ txPub' = [txPub EXCEPT ![w] = {}]
    /\ txFail' = [txFail EXCEPT ![w] = {}]
    /\ UNCHANGED lock

\* The end of DrainAggregate's transaction, whichever way.
LeaveTx(w, drop) ==
    /\ pc' = [pc EXCEPT ![w] = "aggs"]
    /\ aggs' = [aggs EXCEPT ![w] = @ \ drop]
    /\ Forget(w)

CommitTx(w) ==
    /\ pc[w] = "commit" /\ TxAlive(w)
    /\ markPublishedOn(txPub[w])
    /\ markFailedOn(w, txFail[w])
    /\ LeaveTx(w, {agg[w]})
    /\ UNCHANGED <<tx, rows, faults, histVars>>

-------------------------------------------------------------------------------
(***************************************************************************)
(* Time, housekeeping and faults.                                          *)
(***************************************************************************)

Held(w) == todo[w] \cup hand[w] \cup txPub[w] \cup txFail[w]

\* The visibility timeout of a claim, or a retry backoff, elapses.
BecomeVisible(i) ==
    /\ i \in Pending \ visible
    /\ visible' = visible \cup {i}
    /\ excused' = excused \cup {j \in {i} : \E w \in Workers : j \in Held(w)}
    /\ UNCHANGED <<tx, rows, published, failed, attempts, workVars, faults, done, dups, rejects>>

\* Mutant: old rows are deleted published or not.
CleanupAll ==
    \E S \in SUBSET rows :
        /\ S # {}
        /\ rows' = rows \ S
        /\ UNCHANGED <<tx, markVars, workVars, faults, histVars>>

\* DELETE of the rows published longer ago than the retention.
Cleanup ==
    \E S \in SUBSET (rows \cap published) :
        /\ S # {}
        /\ rows' = rows \ S
        /\ UNCHANGED <<tx, markVars, workVars, faults, histVars>>

Fault(w) ==
    /\ faults < MaxFaults
    /\ faults' = faults + 1
    /\ excused' = excused \cup Held(w)
    /\ UNCHANGED <<tableVars, done, dups, rejects>>

\* The process dies and is started again.
Crash(w) ==
    /\ pc[w] # "idle"
    /\ Fault(w)
    /\ pc' = [pc EXCEPT ![w] = "idle"]
    /\ aggs' = [aggs EXCEPT ![w] = {}]
    /\ Forget(w)

\* MarkPublished or MarkFailed errors outside a transaction: the error goes to
\* OnError and the loop carries on.
MarkLost(w) ==
    /\ ~InTx(w)
    /\ Fault(w)
    /\ \/ pc[w] = "accepted" /\ Advance(w, hand[w], "accepted")
       \/ pc[w] = "refused" /\ Advance(w, Lowest(hand[w]), "refused")
    /\ UNCHANGED <<aggs, agg, lock, todo, txPub, txFail>>

\* A statement of the transaction, or its COMMIT, errors: everything it did is
\* undone.  InTx may run the callback again at once, so the aggregate may stay
\* on the list.
TxError(w) ==
    /\ pc[w] \in {"accepted", "refused", "commit"} /\ TxAlive(w)
    /\ Fault(w)
    /\ \E drop \in {{}, {agg[w]}} : LeaveTx(w, drop)

\* The session dies under the transaction while the worker is busy with its
\* handler: the server rolls back and frees the lock at once, and the worker
\* finds out at its next statement (Orphaned).
SessionLost(w) ==
    /\ TxAlive(w)
    /\ Fault(w)
    /\ lock' = [lock EXCEPT ![w] = NoAgg]
    /\ txPub' = [txPub EXCEPT ![w] = {}]
    /\ txFail' = [txFail EXCEPT ![w] = {}]
    /\ UNCHANGED <<pc, aggs, agg, todo, hand, seen>>

Orphaned(w) ==
    /\ pc[w] \in {"accepted", "refused", "commit"} /\ InTx(w) /\ ~TxAlive(w)
    /\ LeaveTx(w, {agg[w]})
    /\ UNCHANGED <<tableVars, faults, histVars>>

-------------------------------------------------------------------------------
Step(w) ==
    \/ Drain(w)
    \/ PendingAggregates(w)
    \/ \E a \in Aggs : SkipAggregate(w, a) \/ DrainAggregate(w, a)
    \/ DrainUnaggregated(w)
    \/ CallHandler(w)
    \/ MarkPublished(w)
    \/ MarkFailed(w)
    \/ MarkPublishedInTx(w)
    \/ MarkFailedInTx(w)
    \/ CommitTx(w)
    \/ Orphaned(w)

Next ==
    \/ \E i \in Ids : EmitWith(i) \/ CommitEmit(i) \/ AbortEmit(i) \/ BecomeVisible(i)
    \/ Cleanup
    \/ \E w \in Workers : Step(w) \/ Crash(w) \/ MarkLost(w) \/ TxError(w) \/ SessionLost(w)

Spec == Init /\ [][Next]_vars

\* Timers run out, and a worker's loop keeps ticking and its handler returns.
Fairness ==
    /\ \A i \in Ids : WF_vars(BecomeVisible(i))
    /\ \A w \in Workers : WF_vars(Step(w))

FairSpec == Spec /\ Fairness

-------------------------------------------------------------------------------
(***************************************************************************)
(* Properties.                                                             *)
(***************************************************************************)

\* No event is lost: a row is marked published, or gone from the table, only
\* after some handler call accepted it (MarkPublished and the in-transaction
\* marks act on what the handler returned nil for; Cleanup on published rows),
\* whatever claims expire and whichever worker, session or statement fails.
NoLostEvent ==
    \A i \in Ids :
        tx[i] = "committed" /\ i \notin rows \ published => i \in done

\* An event reaches a handler only if the transaction that emitted it committed
\* (EmitWith inserts through the caller's tx): a rolled-back write announces nothing.
OnlyCommittedDelivered ==
    \A i \in Ids : i \in done \/ rejects[i] > 0 => tx[i] = "committed"

\* A handler accepts an event twice only when a claim on it ran out, or a crash,
\* a lost session or a failed statement hit a worker, while it was held: the
\* claim of Drain and the lock of DrainAggregate stop every other duplicate.
NoUnexcusedDuplicate == dups \subseteq excused

\* An event is parked (failedAt set) only after the handler refused it
\* MaxAttempts times: expired claims and stale attempts read by a second worker
\* never make failOneOn give up early.
ParkedAfterMaxAttempts ==
    \A i \in Ids : i \in failed => MaxAttempts > 0 /\ rejects[i] >= MaxAttempts

\* Under OrderingPerAggregate the first acceptance of each event follows id
\* order within its aggregate: an event not accepted yet and not parked is
\* never handed over after a later event of its aggregate was accepted.
AggregateOrder ==
    [][\A w \in Workers : \A i \in hand'[w] \ hand[w] :
           AggOf[i] # NoAgg /\ i \notin done /\ i \notin failed =>
               \A j \in done : AggOf[j] = AggOf[i] => j < i]_vars

\* Every committed event is eventually published or parked: claims that die
\* with their worker come back, and a poisoned event does not hold its
\* aggregate for ever.
EventuallySettled ==
    \A i \in Ids : tx[i] = "committed" ~>
        i \notin Pending

-------------------------------------------------------------------------------
(***************************************************************************)
(* The inductive invariants behind the safety properties.                  *)
(***************************************************************************)

\* An advisory lock has one holder, which is in the aggregate's transaction; and
\* what a worker holds where in its tick.
WorkerInv ==
    /\ \A w \in Workers : \A v \in Workers : lock[w] = lock[v] /\ lock[w] # NoAgg => w = v
    /\ \A w \in Workers : lock[w] # NoAgg => lock[w] = agg[w]
    /\ \A w \in Workers : InTx(w) \/ pc[w] = "aggs" => PerAggregate
    /\ \A w \in Workers : pc[w] \in {"idle", "aggs"} => Held(w) = {} /\ ~InTx(w)
    /\ \A w \in Workers : ~InTx(w) => txPub[w] = {} /\ txFail[w] = {}
    /\ \A w \in Workers : pc[w] = "deliver" => hand[w] = {} /\ txFail[w] = {}
    /\ \A w \in Workers : pc[w] = "commit" => hand[w] = {} /\ todo[w] = {} /\ InTx(w)
    /\ \A w \in Workers : pc[w] \in {"accepted", "refused"} => txFail[w] = {}
    /\ \A w \in Workers : todo[w] \cap hand[w] = {}

\* Everything on its way to a publishedAt was accepted, and everything a worker
\* holds was committed.  Implies NoLostEvent and OnlyCommittedDelivered.
DeliveryInv ==
    /\ published \subseteq done
    /\ \A i \in Ids : tx[i] = "committed" /\ i \notin rows => i \in published
    /\ \A w \in Workers : pc[w] = "accepted" => hand[w] \subseteq done
    /\ \A w \in Workers : txPub[w] \subseteq done
    /\ \A i \in rows : tx[i] = "committed"
    /\ \A w \in Workers : \A i \in Held(w) : tx[i] = "committed"
    /\ \A i \in Ids : i \in done \/ rejects[i] > 0 => tx[i] = "committed"

\* No attempts value, in the table or in a worker's memory, runs ahead of the
\* handler's refusals.  Implies ParkedAfterMaxAttempts.
AttemptsInv ==
    /\ \A i \in Ids : attempts[i] <= rejects[i]
    /\ \A w \in Workers, i \in Ids : seen[w][i] <= rejects[i]
    /\ \A w \in Workers : \A i \in hand[w] : pc[w] = "refused" => seen[w][i] < rejects[i]
    /\ \A w \in Workers : \A i \in txFail[w] : seen[w][i] < rejects[i]
    /\ \A i \in failed : MaxAttempts > 0 /\ rejects[i] >= MaxAttempts

\* Who may hold an event that nothing excuses: one worker, behind a hidden row
\* or behind its aggregate's lock; and what was accepted is published or about
\* to be by that worker.  Implies NoUnexcusedDuplicate.
ClaimInv ==
    /\ dups \subseteq excused
    /\ \A w \in Workers : \A i \in Held(w) \ excused :
           /\ \A v \in Workers : i \in Held(v) => v = w
           /\ InTx(w) => lock[w] = agg[w] /\ AggOf[i] = agg[w]
           /\ ~InTx(w) => i \notin visible /\ (PerAggregate => AggOf[i] = NoAgg)
           /\ i \notin published
    /\ \A w \in Workers : \A i \in todo[w] \ excused : i \notin done
    /\ \A w \in Workers : \A i \in hand[w] \ excused : pc[w] # "accepted" => i \notin done
    /\ \A w \in Workers : \A i \in txFail[w] \ excused : i \notin done
    /\ \A i \in done \ excused : i \in published \/ \E w \in Workers : i \in hand[w] \cup txPub[w]
===============================================================================
