----------------------------- MODULE LogicalSource -----------------------------
(***************************************************************************)
(* A mirror fed from the write-ahead log: pg/logical.go (ReassembleDeferred*)
(* over a replication stream), mirror/logical.go and the pump's Step and   *)
(* Run (mirror/pump.go) over it.                                           *)
(*                                                                         *)
(* The log is a sequence of committed transactions and a position an index *)
(* into it.  A transaction changes mirrored rows ("row"), only tables that *)
(* are not mirrored ("other"), or carries a change without its key column  *)
(* ("bad").  The stream delivers each as begin, Width changes, commit.     *)
(***************************************************************************)
EXTENDS Naturals, Sequences, FiniteSets

CONSTANTS
    Width,     \* changes in a transaction
    Buffer,    \* LogicalOptions.Buffer
    NSinks,
    MaxRetry,  \* WithMaxAttempts
    MaxTake,   \* the pump's batch, in transactions
    MaxLog,    \* bound on committed transactions
    MaxTrouble \* bound on failures

ASSUME LogicalAssumption ==
    /\ {Width, Buffer, NSinks, MaxRetry, MaxTake} \subseteq Nat \ {0}
    /\ {MaxLog, MaxTrouble} \subseteq Nat

VARIABLES
    log,       \* committed transactions, oldest first
    confirmed, \* the slot's confirmed position
    reader,    \* the goroutine in LogicalSource.Run, and its stream
    txs,       \* the channel of whole transactions
    pump,      \* where Step is, and Run's attempt count
    sunk,      \* sunk[s]: the positions sink s has taken
    dropped,   \* history: positions taken off the channel and given up
    trouble

logicalVars == <<log, confirmed, reader, txs, pump, sunk, dropped, trouble>>

TxKinds == {"row", "other", "bad"}
Position == 0..MaxLog
ItemTx  == [lsn : Position, kind : TxKinds, changes : 0..Width]

Fresh(from) == [up |-> TRUE, sent |-> from, open |-> FALSE, got |-> 0]
IdlePump    == [step |-> "fetch", rows |-> {}, ack |-> 0, sink |-> 1, attempt |-> 0]

LogicalTypeOK ==
    /\ log \in Seq(TxKinds) /\ Len(log) <= MaxLog
    /\ confirmed \in Position
    /\ reader \in [up : BOOLEAN, sent : Position, open : BOOLEAN, got : 0..Width]
    /\ txs \in Seq(ItemTx) /\ Len(txs) <= Buffer
    /\ pump \in [step : {"fetch", "apply", "ack", "stopped"}, rows : SUBSET Position, ack : Position,
                 sink : 1..NSinks + 1, attempt : 0..MaxRetry]
    /\ sunk \in [1..NSinks -> SUBSET Position]
    /\ dropped \subseteq Position
    /\ trouble \in 0..MaxTrouble

LogicalInit ==
    /\ log = <<>> /\ confirmed = 0
    /\ reader = Fresh(0) /\ txs = <<>>
    /\ pump = IdlePump
    /\ sunk = [s \in 1..NSinks |-> {}]
    /\ dropped = {} /\ trouble = 0

Troubled == trouble < MaxTrouble /\ trouble' = trouble + 1

-------------------------------------------------------------------------------
(***************************************************************************)
(* The database, and the stream up to the channel: reassemble.             *)
(***************************************************************************)

CommitTx(kind) ==
    /\ Len(log) < MaxLog
    /\ log' = Append(log, kind)
    /\ UNCHANGED <<confirmed, reader, txs, pump, sunk, dropped, trouble>>

MessageBegin ==
    /\ reader.up /\ ~reader.open /\ reader.sent < Len(log)
    /\ reader' = [reader EXCEPT !.open = TRUE, !.got = 0]
    /\ UNCHANGED <<log, confirmed, txs, pump, sunk, dropped, trouble>>

MessageChange ==
    /\ reader.up /\ reader.open /\ reader.got < Width
    /\ reader' = [reader EXCEPT !.got = @ + 1]
    /\ UNCHANGED <<log, confirmed, txs, pump, sunk, dropped, trouble>>

\* The whole transaction is handed over, which blocks while the channel is full.
MessageCommit ==
    /\ reader.up /\ reader.open /\ reader.got = Width
    /\ Len(txs) < Buffer
    /\ txs' = Append(txs, [lsn |-> reader.sent + 1, kind |-> log[reader.sent + 1], changes |-> Width])
    /\ reader' = [reader EXCEPT !.open = FALSE, !.sent = @ + 1, !.got = 0]
    /\ UNCHANGED <<log, confirmed, pump, sunk, dropped, trouble>>

\* Mutant: keepalives are passed on inside a transaction too.
KeepalivePassedAlways == TRUE

\* A keepalive inside an open transaction is ignored.
KeepalivePassed == ~reader.open

\* A keepalive travels as an empty transaction at the position sent so far: within
\* a transaction that is the one whose changes are under way.
MessageKeepalive ==
    /\ reader.up /\ Len(txs) < Buffer
    /\ KeepalivePassed
    /\ txs' = Append(txs, [lsn |-> IF reader.open THEN reader.sent + 1 ELSE reader.sent,
                           kind |-> "other", changes |-> 0])
    /\ UNCHANGED <<log, confirmed, reader, pump, sunk, dropped, trouble>>

\* Next fails: Run returns and closes the channel.
StreamFails ==
    /\ reader.up /\ Troubled
    /\ reader' = [reader EXCEPT !.up = FALSE]
    /\ UNCHANGED <<log, confirmed, txs, pump, sunk, dropped>>

-------------------------------------------------------------------------------
(***************************************************************************)
(* Step.                                                                   *)
(***************************************************************************)

\* Mutant: one retry more than the budget has.
StepFailedAgain ==
    pump' = [IdlePump EXCEPT !.attempt = pump.attempt + 1,
                             !.step = IF pump.attempt > MaxRetry THEN "stopped" ELSE "fetch"]

\* Run after a failed Step: try again, or give up at the budget.
StepFailed ==
    pump' = [IdlePump EXCEPT !.attempt = pump.attempt + 1,
                             !.step = IF pump.attempt + 1 >= MaxRetry THEN "stopped" ELSE "fetch"]

RowsIn(n) == {i \in 1..n : txs[i].kind = "row"}
BadIn(n)  == {i \in 1..n : txs[i].kind = "bad"}

\* Fetch with a floor of `max` row transactions takes the first n off the channel:
\* until there are enough or the channel is empty.
TakesUpTo(n, max) ==
    /\ Cardinality(RowsIn(n - 1)) < max \/ n = 1
    /\ Cardinality(RowsIn(n)) >= max \/ n = Len(txs)

Positions(n, I) == {txs[i].lsn : i \in I}

\* Mutant: the acknowledgement is for the newest position read from the stream.
AckNewest(n) == reader.sent

\* finish: the batch's last commit.
ackLSN(n) == txs[n].lsn

Fetch(max) ==
    \E n \in 1..Len(txs) :
        /\ pump.step = "fetch"
        /\ TakesUpTo(n, max) /\ BadIn(n) = {}
        /\ txs' = SubSeq(txs, n + 1, Len(txs))
        /\ pump' = [pump EXCEPT !.step = IF RowsIn(n) = {} THEN "ack" ELSE "apply",
                                !.rows = Positions(n, RowsIn(n)), !.ack = ackLSN(n), !.sink = 1]
        /\ UNCHANGED <<log, confirmed, reader, sunk, dropped, trouble>>

\* decode fails on a transaction: Fetch returns the error and what it had taken off
\* the channel is gone.
FetchUndecodable(max) ==
    \E n \in 1..Len(txs) :
        /\ pump.step = "fetch"
        /\ TakesUpTo(n, max) \/ Cardinality(RowsIn(n - 1)) < max
        /\ BadIn(n) = {n}
        /\ txs' = SubSeq(txs, n + 1, Len(txs))
        /\ dropped' = dropped \cup Positions(n, 1..n)
        /\ StepFailed
        /\ UNCHANGED <<log, confirmed, reader, sunk, trouble>>

\* Nothing within Wait.
FetchIdle ==
    /\ pump.step = "fetch" /\ txs = <<>> /\ reader.up
    /\ pump' = [pump EXCEPT !.attempt = 0]
    /\ UNCHANGED <<log, confirmed, reader, txs, sunk, dropped, trouble>>

\* Mutant: a closed channel is taken for one with nothing in it.
ClosedTakenForIdle ==
    /\ pump.step = "fetch" /\ txs = <<>> /\ ~reader.up
    /\ pump' = [pump EXCEPT !.attempt = 0]
    /\ UNCHANGED <<log, confirmed, reader, txs, sunk, dropped, trouble>>

\* The channel is closed and drained.
FetchClosed ==
    /\ pump.step = "fetch" /\ txs = <<>> /\ ~reader.up
    /\ StepFailed
    /\ UNCHANGED <<log, confirmed, reader, txs, sunk, dropped, trouble>>

Apply ==
    /\ pump.step = "apply"
    /\ sunk' = [sunk EXCEPT ![pump.sink] = @ \cup pump.rows]
    /\ pump' = [pump EXCEPT !.sink = @ + 1, !.step = IF pump.sink = NSinks THEN "ack" ELSE "apply"]
    /\ UNCHANGED <<log, confirmed, reader, txs, dropped, trouble>>

\* A sink refuses the batch.  The source has no way to hand it out again.
ApplyFails ==
    /\ pump.step = "apply" /\ Troubled
    /\ dropped' = dropped \cup pump.rows
    /\ StepFailed
    /\ UNCHANGED <<log, confirmed, reader, txs, sunk>>

\* Acknowledging is cumulative.
Ack ==
    /\ pump.step = "ack" /\ reader.up
    /\ confirmed' = IF pump.ack > confirmed THEN pump.ack ELSE confirmed
    /\ pump' = IdlePump
    /\ UNCHANGED <<log, reader, txs, sunk, dropped, trouble>>

AckFails ==
    /\ pump.step = "ack"
    /\ IF reader.up THEN Troubled ELSE UNCHANGED trouble
    /\ StepFailed
    /\ UNCHANGED <<log, confirmed, reader, txs, sunk, dropped>>

\* The process dies, or is started again after Run gave up: the slot's position is
\* all there is, and what lies behind it comes again.
Restarted ==
    /\ reader' = Fresh(confirmed) /\ txs' = <<>> /\ pump' = IdlePump
    /\ dropped' = {p \in dropped : p <= confirmed}
    /\ UNCHANGED <<log, confirmed, sunk>>

PumpRestart  == pump.step = "stopped" /\ Restarted /\ UNCHANGED trouble
PumpCrash    == Troubled /\ Restarted

LogicalNext ==
    \/ \E kind \in TxKinds : CommitTx(kind)
    \/ MessageBegin \/ MessageChange \/ MessageCommit \/ MessageKeepalive \/ StreamFails
    \/ \E max \in 1..MaxTake : Fetch(max) \/ FetchUndecodable(max)
    \/ FetchIdle \/ FetchClosed \/ Apply \/ ApplyFails \/ Ack \/ AckFails
    \/ PumpRestart \/ PumpCrash

\* What has to go on: the reader, and the pump with whoever restarts it.
ReaderStep == MessageBegin \/ MessageChange \/ MessageCommit
PumpStep ==
    \/ \E max \in 1..MaxTake : Fetch(max) \/ FetchUndecodable(max)
    \/ FetchClosed \/ Apply \/ Ack \/ (~reader.up /\ AckFails) \/ PumpRestart

LogicalSpec == LogicalInit /\ [][LogicalNext]_logicalVars

-------------------------------------------------------------------------------
(***************************************************************************)
(* Properties.                                                             *)
(***************************************************************************)

Mirrored(p) == \A s \in 1..NSinks : p \in sunk[s]
RowTxs == {p \in 1..Len(log) : log[p] = "row"}

\* "A batch that fails is retried ... dropping a change is not": no position is
\* confirmed to the server before every sink has the transactions up to it.
ConfirmedIsMirrored == \A p \in RowTxs : p <= confirmed => Mirrored(p)

\* What is confirmed is in every sink, but for batches taken off the channel and
\* then refused: neither keepalives, empty transactions, a full buffer, a failed
\* acknowledgement nor a restart confirms a transaction still in memory.
ConfirmedOrDropped == \A p \in RowTxs : p <= confirmed => Mirrored(p) \/ p \in dropped

\* Every committed transaction gets to every sink, or is dropped, through crashes
\* and stops of the pump; an undecodable transaction may block what is behind it.
EventuallyMirrored ==
    \A p \in 1..MaxLog :
        (p \in RowTxs) ~> (Mirrored(p) \/ p \in dropped \/ \E q \in 1..Len(log) : log[q] = "bad")
================================================================================
