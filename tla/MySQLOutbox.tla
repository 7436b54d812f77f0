------------------------------ MODULE MySQLOutbox ------------------------------
(***************************************************************************)
(* mysql/outbox.go: what MySQL makes different from the PostgreSQL outbox  *)
(* of module Outbox.  Per-aggregate order rests on GET_LOCK, which belongs *)
(* to the session and has to be released by hand, before the transaction   *)
(* ends; ids come from an AUTO_INCREMENT counter, which a restarted server *)
(* computes anew from the rows that are left.                              *)
(*                                                                         *)
(* There is one aggregate; other events have none.  Workers run with       *)
(* OrderingPerAggregate and OnEvent.                                       *)
(***************************************************************************)
EXTENDS Naturals, FiniteSets, FiniteSetsExt

CONSTANTS
    Workers,
    Nobody,      \* no session holds the lock
    Pool,        \* an idle session of the pool holds it
    MaxEvents,   \* bound on emitted events, and on ids
    Batch,       \* WithBatch
    MaxAttempts, \* WithMaxAttempts, 0 for no limit
    MaxFaults    \* bound on what goes wrong

ASSUME MySQLOutboxAssumption ==
    /\ {Nobody, Pool} \cap Workers = {} /\ Nobody # Pool
    /\ {MaxEvents, Batch, MaxAttempts, MaxFaults} \subseteq Nat /\ Batch > 0

VARIABLES
    rows,       \* the committed rows
    emitting,   \* rows of transactions that have not committed
    counter,    \* the next AUTO_INCREMENT value
    lock,       \* who holds the aggregate's named lock
    work,       \* work[w]: the tick of w
    floor,      \* the floor that a Cleanup under way has read, 0 for none
    emitted,    \* events so far
    faults,
    delivered,  \* history: deliveries, as pairs of an id and an event
    excused,    \* history: ids that may be delivered again
    jumped,     \* history: an event of the aggregate was delivered before an earlier one
    again,      \* history: one was delivered twice without an excuse
    unreleased  \* history: a RELEASE_LOCK failed

myVars == <<rows, emitting, counter, lock, work, floor, emitted, faults, delivered, excused, jumped, again, unreleased>>
myHistory == <<delivered, excused, jumped, again, unreleased>>

Row == [id : 1..MaxEvents, event : 1..MaxEvents, agg : BOOLEAN, state : {"pending", "published", "failed"},
        due : BOOLEAN, attempts : 0..MaxAttempts + MaxFaults]
IdleWork == [step |-> "idle", batch |-> {}, marks |-> {}, keep |-> FALSE]

MySQLTypeOK ==
    /\ rows \subseteq Row /\ emitting \subseteq Row
    /\ \A r, s \in rows \cup emitting : r.id = s.id => r = s
    /\ counter \in 1..MaxEvents + 1
    /\ lock \in Workers \cup {Nobody, Pool}
    /\ work \in [Workers -> [step : {"idle", "select", "deliver", "release", "end", "plain"},
                             batch : SUBSET Row, marks : SUBSET Row, keep : BOOLEAN]]
    /\ floor \in 0..MaxEvents /\ emitted \in 0..MaxEvents /\ faults \in 0..MaxFaults
    /\ delivered \subseteq (1..MaxEvents) \X (1..MaxEvents) /\ excused \subseteq 1..MaxEvents
    /\ {jumped, again, unreleased} \subseteq BOOLEAN

MySQLInit ==
    /\ rows = {} /\ emitting = {} /\ counter = 1
    /\ lock = Nobody
    /\ work = [w \in Workers |-> IdleWork]
    /\ floor = 0 /\ emitted = 0 /\ faults = 0
    /\ delivered = {} /\ excused = {} /\ jumped = FALSE /\ again = FALSE /\ unreleased = FALSE

Mishap == faults < MaxFaults /\ faults' = faults + 1
PendingRows == {r \in rows : r.state = "pending"}

\* S with the marks written.  No mark unsets publishedAt.
Marked(S, marks) ==
    LET touched == {r \in S : r.state # "published" /\ \E m \in marks : m.id = r.id}
    IN  (S \ touched) \cup {m \in marks : \E r \in touched : r.id = m.id}

-------------------------------------------------------------------------------
(***************************************************************************)
(* Emit, inside the business transaction.  Those of one aggregate exclude  *)
(* each other with the row they change.                                    *)
(***************************************************************************)

EmitWith(agg) ==
    /\ emitted < MaxEvents /\ counter <= MaxEvents
    /\ agg => \A r \in emitting : ~r.agg
    /\ emitted' = emitted + 1
    /\ counter' = counter + 1
    /\ emitting' = emitting \cup {[id |-> counter, event |-> emitted + 1, agg |-> agg, state |-> "pending",
                                   due |-> TRUE, attempts |-> 0]}
    /\ UNCHANGED <<rows, lock, work, floor, faults, myHistory>>

CommitEmit(r) ==
    /\ r \in emitting
    /\ emitting' = emitting \ {r} /\ rows' = rows \cup {r}
    /\ UNCHANGED <<counter, lock, work, floor, emitted, faults, myHistory>>

RollbackEmit(r) ==
    /\ r \in emitting
    /\ emitting' = emitting \ {r}
    /\ UNCHANGED <<rows, counter, lock, work, floor, emitted, faults, myHistory>>

\* A retry becomes due.
BecomesDue(r) ==
    /\ r \in PendingRows /\ ~r.due
    /\ \A w \in Workers : \A m \in work[w].marks : m.id # r.id
    /\ rows' = (rows \ {r}) \cup {[r EXCEPT !.due = TRUE]}
    /\ UNCHANGED <<emitting, counter, lock, work, floor, emitted, faults, myHistory>>

-------------------------------------------------------------------------------
(***************************************************************************)
(* tickPerAggregate, DrainAggregate and runSequentialInTx.                 *)
(***************************************************************************)

Step(w, step) == work' = [work EXCEPT ![w].step = step]
InBatch(S) == {r \in S : Cardinality({q \in S : q.id < r.id}) < Batch}
First(S)   == CHOOSE r \in S : \A q \in S : r.id <= q.id

\* GET_LOCK with no timeout: a worker that does not get it goes on to the events
\* without an aggregate.
tryNamedLock(w) ==
    /\ work[w].step = "idle" /\ \E r \in PendingRows : r.agg /\ r.due
    /\ IF lock = Nobody THEN lock' = w /\ Step(w, "select") ELSE UNCHANGED <<lock, work>>
    /\ UNCHANGED <<rows, emitting, counter, floor, emitted, faults, myHistory>>

\* Mutant: events that are due are taken past one that is not.
AllDue == {r \in PendingRows : r.agg /\ r.due}

\* The due events of the aggregate up to the first that is not.
DueInOrder == {r \in PendingRows : r.agg /\ r.due /\ \A q \in PendingRows : q.agg /\ q.id < r.id => q.due}

DrainAggregate(w) ==
    /\ work[w].step = "select"
    /\ work' = [work EXCEPT ![w].batch = InBatch(DueInOrder), ![w].keep = TRUE,
                            ![w].step = IF DueInOrder = {} THEN "release" ELSE "deliver"]
    /\ UNCHANGED <<rows, emitting, counter, lock, floor, emitted, faults, myHistory>>

Deliver(r) ==
    /\ delivered' = delivered \cup {<<r.id, r.event>>}
    /\ jumped' = (jumped \/ (r.agg /\ <<r.id, r.event>> \notin delivered
                                   /\ \E q \in PendingRows : q.agg /\ q.id < r.id /\ <<q.id, q.event>> \notin delivered))
    /\ again' = (again \/ (r.agg /\ <<r.id, r.event>> \in delivered /\ r.id \notin excused))

\* The row, after a failure: due later, or parked.
Failed(r) ==
    IF MaxAttempts > 0 /\ r.attempts + 1 >= MaxAttempts
    THEN [r EXCEPT !.attempts = @ + 1, !.state = "failed"]
    ELSE [r EXCEPT !.attempts = @ + 1, !.due = FALSE]

\* No other transaction has marked the row and not ended.
Unlocked(w, r) == \A v \in Workers \ {w} : \A m \in work[v].marks : m.id # r.id

\* markPublishedOn, in the transaction
HandlerSucceeds(w) ==
    LET r == First(work[w].batch) IN
    /\ work[w].step = "deliver" /\ Unlocked(w, r)
    /\ Deliver(r)
    /\ work' = [work EXCEPT ![w].batch = @ \ {r}, ![w].marks = @ \cup {[r EXCEPT !.state = "published"]},
                            ![w].step = IF work[w].batch = {r} THEN "release" ELSE "deliver"]
    /\ UNCHANGED <<rows, emitting, counter, lock, floor, emitted, faults, excused, unreleased>>

\* failOneOn, in the transaction: the batch ends there.
HandlerFails(w) ==
    LET r == First(work[w].batch) IN
    /\ work[w].step = "deliver" /\ Unlocked(w, r) /\ Mishap
    /\ work' = [work EXCEPT ![w].batch = {}, ![w].marks = @ \cup {Failed(r)}, ![w].step = "release"]
    /\ UNCHANGED <<rows, emitting, counter, lock, floor, emitted, myHistory>>

\* The caller's context ends, or a statement fails: fn returns the error.
DrainFails(w) ==
    /\ work[w].step \in {"select", "deliver"} /\ Mishap
    /\ work' = [work EXCEPT ![w].step = "release", ![w].keep = FALSE, ![w].batch = {}]
    /\ UNCHANGED <<rows, emitting, counter, lock, floor, emitted, myHistory>>

\* Mutant: RELEASE_LOCK runs on the caller's context, which may have ended.
ReleaseIfAlive(w) == IF work[w].keep THEN Nobody ELSE Pool

\* The detached release gives the lock back whatever became of fn.
Released(w) == Nobody

\* The deferred release, ahead of the end of the transaction.
releaseNamedLock(w) ==
    /\ work[w].step = "release"
    /\ lock' = Released(w)
    /\ Step(w, "end")
    /\ UNCHANGED <<rows, emitting, counter, floor, emitted, faults, myHistory>>

ReleaseFails(w) ==
    /\ work[w].step = "release" /\ Mishap
    /\ lock' = Pool /\ unreleased' = TRUE
    /\ Step(w, "end")
    /\ UNCHANGED <<rows, emitting, counter, floor, emitted, delivered, excused, jumped, again>>

\* What another worker has read since the release, and will deliver again.
Overlap(w) == {m.id : m \in {x \in work[w].marks : \E v \in Workers \ {w} : \E r \in work[v].batch : r.id = x.id}}

CommitDrain(w) ==
    /\ work[w].step = "end" /\ work[w].keep
    /\ rows' = Marked(rows, work[w].marks)
    /\ work' = [work EXCEPT ![w] = IdleWork]
    /\ excused' = excused \cup Overlap(w)
    /\ UNCHANGED <<emitting, counter, lock, floor, emitted, faults, delivered, jumped, again, unreleased>>

\* The transaction is rolled back, or its commit fails: what was delivered is
\* pending again.
RollbackDrain(w) ==
    /\ work[w].step = "end"
    /\ IF work[w].keep THEN Mishap ELSE UNCHANGED faults
    /\ excused' = excused \cup {m.id : m \in work[w].marks}
    /\ work' = [work EXCEPT ![w] = IdleWork]
    /\ UNCHANGED <<rows, emitting, counter, lock, floor, emitted, delivered, jumped, again, unreleased>>

\* The process dies: its session goes, and with it the lock and the transaction.
WorkerDies(w) ==
    /\ work[w].step # "idle" /\ Mishap
    /\ lock' = IF lock = w THEN Nobody ELSE lock
    /\ excused' = excused \cup {m.id : m \in work[w].marks}
    /\ work' = [work EXCEPT ![w] = IdleWork]
    /\ UNCHANGED <<rows, emitting, counter, floor, emitted, delivered, jumped, again, unreleased>>

-------------------------------------------------------------------------------
(***************************************************************************)
(* tickUnaggregated: the SELECT's locks end with it, and every mark is a   *)
(* transaction of its own.                                                 *)
(***************************************************************************)

DrainUnaggregated(w) ==
    LET plain == {r \in PendingRows : ~r.agg /\ r.due} IN
    /\ work[w].step = "idle" /\ plain # {}
    /\ work' = [work EXCEPT ![w].step = "plain", ![w].batch = InBatch(plain)]
    /\ UNCHANGED <<rows, emitting, counter, lock, floor, emitted, faults, myHistory>>

NextPlain(w, r) ==
    work' = [work EXCEPT ![w] = IF work[w].batch = {r} THEN IdleWork ELSE [work[w] EXCEPT !.batch = @ \ {r}]]

\* The handler, and MarkPublished, which may fail and is only reported.
PlainSucceeds(w) ==
    LET r == First(work[w].batch) IN
    /\ work[w].step = "plain"
    /\ Deliver(r)
    /\ \/ rows' = Marked(rows, {[r EXCEPT !.state = "published"]})
          /\ UNCHANGED faults
       \/ Mishap /\ UNCHANGED rows
    /\ NextPlain(w, r)
    /\ UNCHANGED <<emitting, counter, lock, floor, emitted, excused, unreleased>>

\* MarkFailed, on the row as it is by now.
PlainFails(w) ==
    LET r == First(work[w].batch) IN
    /\ work[w].step = "plain" /\ Mishap
    /\ rows' = Marked(rows, {Failed(r)})
    /\ NextPlain(w, r)
    /\ UNCHANGED <<emitting, counter, lock, floor, emitted, myHistory>>

-------------------------------------------------------------------------------
(***************************************************************************)
(* Cleanup, and the server.                                                *)
(***************************************************************************)

maxID == Max({r.id : r \in rows} \cup {0})

ReadFloor ==
    /\ floor = 0 /\ maxID > 0
    /\ floor' = maxID
    /\ UNCHANGED <<rows, emitting, counter, lock, work, emitted, faults, myHistory>>

\* Mutant: the newest row goes too.
UpToFloor(r) == r.state = "published" /\ r.id <= floor

Removable(r) == r.state = "published" /\ r.id < floor

\* DELETE, of those published long enough ago.
Cleanup ==
    /\ floor # 0
    /\ \E old \in SUBSET {r \in rows : Removable(r)} : rows' = rows \ old
    /\ floor' = 0
    /\ UNCHANGED <<emitting, counter, lock, work, emitted, faults, myHistory>>

\* The server starts again: no session and no open transaction survives, and the
\* counter is computed from the rows.
ServerRestarts ==
    /\ Mishap
    /\ emitting' = {} /\ lock' = Nobody /\ floor' = 0
    /\ work' = [w \in Workers |-> IdleWork]
    /\ excused' = excused \cup UNION {{m.id : m \in work[w].marks} : w \in Workers}
    /\ counter' = maxID + 1
    /\ UNCHANGED <<rows, emitted, delivered, jumped, again, unreleased>>

MySQLNext ==
    \/ \E agg \in BOOLEAN : EmitWith(agg)
    \/ \E r \in emitting : CommitEmit(r) \/ RollbackEmit(r)
    \/ \E r \in rows : BecomesDue(r)
    \/ \E w \in Workers :
          \/ tryNamedLock(w) \/ DrainAggregate(w) \/ HandlerSucceeds(w) \/ HandlerFails(w) \/ DrainFails(w)
          \/ releaseNamedLock(w) \/ ReleaseFails(w) \/ CommitDrain(w) \/ RollbackDrain(w) \/ WorkerDies(w)
          \/ DrainUnaggregated(w) \/ PlainSucceeds(w) \/ PlainFails(w)
    \/ ReadFloor \/ Cleanup \/ ServerRestarts

MySQLSpec == MySQLInit /\ [][MySQLNext]_myVars

-------------------------------------------------------------------------------
(***************************************************************************)
(* Properties.                                                             *)
(***************************************************************************)

\* An id that has been delivered names one event for ever, restarts included: a
\* consumer, or the mirror, can tell events by it.
IdNamesOneEvent == \A d, e \in delivered : d[1] = e[1] => d = e

\* The lock is only left with an idle session when RELEASE_LOCK itself failed.
NoLockLeaks == lock = Pool => unreleased

\* The MySQL outbox keeps the promises of the other one with MySQL's means: ids name
\* one event, an aggregate's events are first delivered in order, they are delivered
\* again only after a failure or when another worker drained between the release of
\* the lock and the commit, and no aggregate is skipped for ever.
MySQLOutboxSound == IdNamesOneEvent /\ ~jumped /\ ~again /\ NoLockLeaks
================================================================================
