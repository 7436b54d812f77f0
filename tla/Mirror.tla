-------------------------------- MODULE Mirror --------------------------------
(***************************************************************************)
(* The mirror package: a Pump copies changes that transactions emitted     *)
(* into the outbox to a ClickHouse table and a Qdrant collection, while a  *)
(* Reseeder walks the source table to fill in or repair rows.              *)
(*                                                                         *)
(* A row's content is the id of the event that wrote it; rows older than   *)
(* the mirror have content 0.  A writer of a row holds its lock from the   *)
(* UPDATE to the commit, so one key's ids are in commit order and a write  *)
(* is one step.  As in Outbox, `visible' is availableAt <= now().          *)
(***************************************************************************)
EXTENDS Integers, FiniteSets, Sequences, Drained

CONSTANTS
    Keys,       \* primary keys, integers (a reseed walks them in order)
    OldKeys,    \* keys with a row from before the mirror
    Modes,      \* which Reseeders may run beside the pump: "fill", "repair", or "none"
    Down,       \* sinks that refuse every batch
    MaxEvents,  \* bound on the outbox
    MaxForeign, \* bound on the events of other consumers in it
    MaxPasses,  \* bound on Reseeder.Run calls
    Batch,      \* Pump.WithBatch
    MaxRetry,   \* Pump.WithMaxAttempts; 0 = retry for ever
    MaxFaults   \* bound on failed fetches, applies and commits, and on restarts

SinkNames == <<"clickhouse", "qdrant">>

ASSUME KeysAssumption == Keys \subseteq Nat \ {0} /\ IsFiniteSet(Keys) /\ OldKeys \subseteq Keys
ASSUME ModeAssumption == Modes \subseteq {"none", "fill", "repair"} /\ Down \subseteq {"clickhouse", "qdrant"}
ASSUME BoundAssumption ==
    /\ MaxEvents \in Nat /\ MaxForeign \in Nat /\ MaxPasses \in Nat /\ Batch \in Nat \ {0}
    /\ MaxRetry \in Nat /\ MaxFaults \in Nat

VARIABLES
    events,    \* the outbox in id order: [kind, key, row], row = Absent for a delete
    published, \* ids with publishedAt set
    visible,   \* ids with availableAt <= now()
    src,       \* src[k]: the content of row k at the source
    ch,        \* ch[k]: what a FINAL read of ClickHouse returns, and its version
    qd,        \* qd[k]: the content of point k in Qdrant
    pc,        \* the pump: "fetch", "apply", "commit" or "stopped"
    batch,     \* ids of the changes the pump holds
    sink,      \* index of the next sink to apply them to
    attempt,   \* the attempt counter of Run
    mode,      \* the Reseeder of this behaviour
    rpc,       \* the reseeder: "idle", "chunk", "read", "apply", "persist" or "done"
    pass,      \* seed version of its current Run
    cursor,    \* last key it persisted
    chunk,     \* the key and content it has read, not yet written
    faults,
    applied    \* history: applied[s] = ids sink s has accepted

outbox   == <<events, published, visible>>
pump     == <<pc, batch, sink, attempt>>
reseeder == <<rpc, pass, cursor, chunk>>
vars     == <<events, published, visible, src, ch, qd, pc, batch, sink, attempt,
              mode, rpc, pass, cursor, chunk, faults, applied>>

Absent == -1
Row    == {Absent} \cup 0..MaxEvents
NoKey  == 0
Ids    == 1..Len(events)
Live   == {i \in Ids : events[i].kind = "mirror"}

(***************************************************************************)
(* Versions (change.go).  The seed band is 1..MaxSeedVersion, and a change *)
(* numbered by its outbox id lies above it.                                *)
(***************************************************************************)
MaxSeedVersion  == MaxPasses
LiveVersionBase == MaxSeedVersion + 1

\* Mutant: live changes are numbered inside the seed band.
UnbandedVersion(id) == id

LiveVersion(id) == LiveVersionBase + id

TypeOK ==
    /\ events \in Seq([kind : {"mirror", "foreign"}, key : Keys \cup {NoKey}, row : Row])
    /\ Len(events) <= MaxEvents
    /\ published \subseteq Ids /\ visible \subseteq Ids
    /\ src \in [Keys -> Row]
    /\ ch \in [Keys -> [version : 0..LiveVersion(MaxEvents), row : Row]]
    /\ qd \in [Keys -> Row]
    /\ pc \in {"fetch", "apply", "commit", "stopped"}
    /\ batch \subseteq Ids /\ sink \in 1..Len(SinkNames)
    /\ attempt \in Nat /\ (MaxRetry > 0 => attempt <= MaxRetry)
    /\ mode \in Modes
    /\ rpc \in {"idle", "chunk", "read", "apply", "persist", "done"}
    /\ pass \in 0..MaxPasses /\ cursor \in Keys \cup {NoKey}
    /\ chunk \in [key : Keys \cup {NoKey}, row : Row]
    /\ faults \in 0..MaxFaults
    /\ applied \in [{"clickhouse", "qdrant"} -> SUBSET Ids]

NoChunk == [key |-> NoKey, row |-> Absent]

Init ==
    /\ events = <<>> /\ published = {} /\ visible = {}
    /\ src = [k \in Keys |-> IF k \in OldKeys THEN 0 ELSE Absent]
    /\ ch = [k \in Keys |-> [version |-> 0, row |-> Absent]]
    /\ qd = [k \in Keys |-> Absent]
    /\ pc = "fetch" /\ batch = {} /\ sink = 1 /\ attempt = 0
    /\ mode \in Modes
    /\ rpc = "idle" /\ pass = 0 /\ cursor = NoKey /\ chunk = NoChunk
    /\ faults = 0
    /\ applied = [s \in {"clickhouse", "qdrant"} |-> {}]

-------------------------------------------------------------------------------
(***************************************************************************)
(* The application.                                                        *)
(***************************************************************************)

Emit(kind, k, r) ==
    /\ Len(events) < MaxEvents
    /\ events' = Append(events, [kind |-> kind, key |-> k, row |-> r])
    /\ visible' = visible \cup {Len(events) + 1}

\* A transaction that writes or deletes a row and calls EmitChange.
WriteRow(k, r) ==
    /\ src' = [src EXCEPT ![k] = r]
    /\ Emit("mirror", k, r)
    /\ UNCHANGED <<published, ch, qd, pump, reseeder, faults, applied>>

Put(k)    == WriteRow(k, Len(events) + 1)
Delete(k) == src[k] # Absent /\ WriteRow(k, Absent)

\* Someone else's event in the same outbox table.
EmitForeign ==
    /\ Cardinality(Ids \ Live) < MaxForeign
    /\ Emit("foreign", NoKey, Absent)
    /\ UNCHANGED <<published, src, ch, qd, pump, reseeder, faults, applied>>

\* The visibility timeout of a claim elapses.
BecomeVisible(i) ==
    /\ i \in Ids \ (published \cup visible)
    /\ visible' = visible \cup {i}
    /\ UNCHANGED <<events, published, src, ch, qd, pump, reseeder, faults, applied>>

-------------------------------------------------------------------------------
(***************************************************************************)
(* The sinks.                                                              *)
(***************************************************************************)

\* The last change to key k among the ids B, as a set.
LastOf(B, k) == {i \in B : events[i].key = k /\ \A j \in B : events[j].key = k => j <= i}

\* ClickHouse appends every change; ReplacingMergeTree keeps, per key, the row
\* with the highest version.
ReplacingMerge(k, v, r) ==
    IF v >= ch[k].version THEN [version |-> v, row |-> r] ELSE ch[k]

ClickHouseApply(B) ==
    ch' = [k \in Keys |->
              IF LastOf(B, k) = {} THEN ch[k]
              ELSE LET i == CHOOSE i \in LastOf(B, k) : TRUE
                   IN  ReplacingMerge(k, LiveVersion(i), events[i].row)]

\* Mutant: all upserts of the batch, then all its deletes.
QdrantGrouped(B) ==
    qd' = [k \in Keys |->
              IF LastOf(B, k) = {} THEN qd[k]
              ELSE IF \E i \in B : events[i].key = k /\ events[i].row = Absent THEN Absent
              ELSE events[CHOOSE i \in LastOf(B, k) : TRUE].row]

\* Qdrant overwrites the point, or deletes it, whatever it holds.
QdrantApply(B) ==
    qd' = [k \in Keys |->
              IF LastOf(B, k) = {} THEN qd[k]
              ELSE events[CHOOSE i \in LastOf(B, k) : TRUE].row]

IsDelete(i) == events[i].row = Absent

\* What a failed QdrantSink.Apply may have written: one request per run of
\* upserts or of deletes, in order, up to the one that failed (which may have
\* reached the server).
QdrantPrefixes(B) ==
    {P \in SUBSET B : /\ \A i \in P, j \in B \ P : i < j
                      /\ \A i \in P, j \in B \ P :
                             (\A m \in P : m <= i) /\ (\A m \in B \ P : j <= m)
                                 => IsDelete(i) # IsDelete(j)}

-------------------------------------------------------------------------------
(***************************************************************************)
(* The pump: Run calls Step in a loop.                                     *)
(***************************************************************************)

\* Mutant: the zero that means "retry for ever" taken as a budget.
StepErrorZeroBudget ==
    /\ attempt' = IF MaxRetry = 0 THEN 0 ELSE attempt + 1
    /\ pc' = IF attempt + 1 >= MaxRetry THEN "stopped" ELSE "fetch"
    /\ batch' = {} /\ sink' = 1

\* Step returned an error: Run counts it, and gives up at MaxRetry.
StepError ==
    /\ attempt' = IF MaxRetry = 0 THEN 0 ELSE attempt + 1
    /\ pc' = IF MaxRetry > 0 /\ attempt + 1 >= MaxRetry THEN "stopped" ELSE "fetch"
    /\ batch' = {} /\ sink' = 1

\* Step returned n changes: whatever n, Run starts counting afresh.
StepDone ==
    /\ attempt' = 0
    /\ pc' = "fetch" /\ batch' = {} /\ sink' = 1

Fault == faults < MaxFaults /\ faults' = faults + 1

\* Mutant: every drained id goes into the commit, also other consumers'.
FetchAll ==
    /\ pc = "fetch"
    /\ \E C \in FirstBatch(visible \ published, Batch) :
           /\ visible' = visible \ C
           /\ published' = published \cup (C \ Live)
           /\ IF C \cap Live = {} THEN StepDone
              ELSE /\ pc' = "apply" /\ batch' = C \cap Live
                   /\ sink' = 1 /\ UNCHANGED attempt
    /\ UNCHANGED <<events, src, ch, qd, reseeder, faults, applied>>

\* OutboxSource.Fetch: Drain hides the rows it returns, whatever their kind;
\* only the mirror's are passed on and later acknowledged.
Fetch ==
    /\ pc = "fetch"
    /\ \E C \in FirstBatch(visible \ published, Batch) :
           /\ visible' = visible \ C
           /\ IF C \cap Live = {} THEN StepDone
              ELSE /\ pc' = "apply" /\ batch' = C \cap Live
                   /\ sink' = 1 /\ UNCHANGED attempt
    /\ UNCHANGED <<events, published, src, ch, qd, reseeder, faults, applied>>

\* Drain errors, before or after its statement took effect, or an event of the
\* drained batch does not decode.
FetchError ==
    /\ pc = "fetch"
    /\ Fault
    /\ \E C \in FirstBatch(visible \ published, Batch) \cup {{}} : visible' = visible \ C
    /\ StepError
    /\ UNCHANGED <<events, published, src, ch, qd, reseeder, applied>>

\* Mutant: the loop over the sinks runs one too far.
ApplyPastLast ==
    /\ pc = "apply"
    /\ LET s == SinkNames[sink]
       IN  /\ s \notin Down
           /\ \/ s = "clickhouse" /\ ClickHouseApply(batch) /\ UNCHANGED qd
              \/ s = "qdrant" /\ QdrantApply(batch) /\ UNCHANGED ch
           /\ applied' = [applied EXCEPT ![s] = @ \cup batch]
    /\ IF sink <= Len(SinkNames) THEN sink' = sink + 1 /\ UNCHANGED pc
                                 ELSE pc' = "commit" /\ UNCHANGED sink
    /\ UNCHANGED <<outbox, src, batch, attempt, reseeder, faults>>

Apply ==
    /\ pc = "apply"
    /\ LET s == SinkNames[sink]
       IN  /\ s \notin Down
           /\ \/ s = "clickhouse" /\ ClickHouseApply(batch) /\ UNCHANGED qd
              \/ s = "qdrant" /\ QdrantApply(batch) /\ UNCHANGED ch
           /\ applied' = [applied EXCEPT ![s] = @ \cup batch]
    /\ IF sink < Len(SinkNames) THEN sink' = sink + 1 /\ UNCHANGED pc
                                ELSE pc' = "commit" /\ UNCHANGED sink
    /\ UNCHANGED <<outbox, src, batch, attempt, reseeder, faults>>

\* A sink errors; the later sinks are not tried and nothing is acknowledged.
ApplyError ==
    /\ pc = "apply"
    /\ LET s == SinkNames[sink]
       IN  \/ s \in Down /\ UNCHANGED <<ch, qd, faults>>
           \/ s = "clickhouse" /\ Fault /\ (ClickHouseApply(batch) \/ UNCHANGED ch) /\ UNCHANGED qd
           \/ s = "qdrant" /\ Fault /\ (\E P \in QdrantPrefixes(batch) : QdrantApply(P)) /\ UNCHANGED ch
    /\ StepError
    /\ UNCHANGED <<outbox, src, reseeder, applied>>

\* The commit of the batch: MarkPublished.
Commit ==
    /\ pc = "commit"
    /\ published' = published \cup batch
    /\ StepDone
    /\ UNCHANGED <<events, visible, src, ch, qd, reseeder, faults, applied>>

CommitError ==
    /\ pc = "commit"
    /\ Fault
    /\ StepError
    /\ UNCHANGED <<outbox, src, ch, qd, reseeder, applied>>

\* The process dies and Run is started again.
Restart ==
    /\ Fault
    /\ StepDone
    /\ rpc' = IF rpc = "done" THEN "done" ELSE "idle"
    /\ chunk' = NoChunk
    /\ UNCHANGED <<outbox, src, ch, qd, pass, cursor, applied>>

-------------------------------------------------------------------------------
(***************************************************************************)
(* The reseeder: a pg.Backfill over the source's keys, in chunks of one.   *)
(***************************************************************************)

\* Run: a fill takes the next seed version, higher than any before it as far as
\* the clock moves forward across restarts.
ReseedRun ==
    /\ mode # "none" /\ rpc = "idle" /\ pass < MaxPasses
    /\ pass' = pass + 1
    /\ rpc' = "chunk"
    /\ UNCHANGED <<outbox, src, ch, qd, pump, cursor, chunk, faults, applied>>

NextKey == {k \in Keys : /\ k > cursor /\ src[k] # Absent
                         /\ \A j \in Keys : j > cursor /\ src[j] # Absent => k <= j}

\* fetchKeys: the next key, read outside the chunk's transaction.
FetchKeys(k) ==
    /\ rpc = "chunk" /\ k \in NextKey
    /\ chunk' = [key |-> k, row |-> Absent]
    /\ rpc' = "read"
    /\ UNCHANGED <<outbox, src, ch, qd, pump, pass, cursor, faults, applied>>

\* processChunk finds the row gone: the cursor moves past it.
ChunkEmpty ==
    /\ rpc = "read" /\ src[chunk.key] = Absent
    /\ rpc' = "persist"
    /\ UNCHANGED <<outbox, src, ch, qd, pump, pass, cursor, chunk, faults, applied>>

\* The read of a fill holds no lock: the row may change before it is written.
FillRead ==
    /\ mode = "fill" /\ rpc = "read" /\ src[chunk.key] # Absent
    /\ chunk' = [chunk EXCEPT !.row = src[chunk.key]]
    /\ rpc' = "apply"
    /\ UNCHANGED <<outbox, src, ch, qd, pump, pass, cursor, faults, applied>>

\* A fill writes to the sink directly, at the pass's seed version.
FillApply ==
    /\ rpc = "apply"
    /\ ch' = [ch EXCEPT ![chunk.key] = ReplacingMerge(chunk.key, pass, chunk.row)]
    /\ rpc' = "persist"
    /\ UNCHANGED <<outbox, src, qd, pump, pass, cursor, chunk, faults, applied>>

\* A repair emits the row it holds FOR SHARE; the transaction excludes writers.
RepairChunk ==
    /\ mode = "repair" /\ rpc = "read" /\ src[chunk.key] # Absent
    /\ Emit("mirror", chunk.key, src[chunk.key])
    /\ rpc' = "persist"
    /\ UNCHANGED <<published, src, ch, qd, pump, pass, cursor, chunk, faults, applied>>

\* persistProgress, a statement of its own after the chunk's transaction.
PersistProgress ==
    /\ rpc = "persist"
    /\ cursor' = chunk.key
    /\ chunk' = NoChunk
    /\ rpc' = "chunk"
    /\ UNCHANGED <<outbox, src, ch, qd, pump, pass, faults, applied>>

\* No key is left: persistComplete.
ReseedComplete ==
    /\ rpc = "chunk" /\ NextKey = {}
    /\ rpc' = "done"
    /\ UNCHANGED <<outbox, src, ch, qd, pump, pass, cursor, chunk, faults, applied>>

\* A chunk fails and Run returns; the cursor stays.
ReseedError ==
    /\ rpc \in {"chunk", "read", "apply", "persist"}
    /\ Fault
    /\ rpc' = "idle"
    /\ chunk' = NoChunk
    /\ UNCHANGED <<outbox, src, ch, qd, pump, pass, cursor, applied>>

-------------------------------------------------------------------------------
App == EmitForeign \/ \E k \in Keys : Put(k) \/ Delete(k)

Pump == Fetch \/ Apply \/ ApplyError \/ Commit

Reseeder == \/ ReseedRun \/ ChunkEmpty \/ FillRead \/ FillApply \/ RepairChunk
            \/ PersistProgress \/ ReseedComplete
            \/ \E k \in Keys : FetchKeys(k)

Next ==
    /\ \/ App
       \/ Pump \/ FetchError \/ CommitError \/ Restart
       \/ Reseeder \/ ReseedError
       \/ \E i \in 1..MaxEvents : BecomeVisible(i)
    /\ UNCHANGED mode

Spec == Init /\ [][Next]_vars

\* The pump's loop keeps turning and visibility timeouts run out.
FairSpec ==
    /\ Spec
    /\ WF_vars(Pump /\ UNCHANGED mode)
    /\ \A i \in 1..MaxEvents : WF_vars(BecomeVisible(i) /\ UNCHANGED mode)

-------------------------------------------------------------------------------
(***************************************************************************)
(* Properties.                                                             *)
(***************************************************************************)

\* An event is acknowledged only after every sink has accepted it, and another
\* consumer's event never is (Step commits after its sinks; Fetch commits only
\* the mirror's ids).
AckedEverywhere ==
    \A s \in {"clickhouse", "qdrant"} : published \subseteq applied[s]

\* Every change of key k that reached the outbox is acknowledged.
Acked(k)   == \A i \in Live \ published : events[i].key # k
Changed(k) == \E i \in Live : events[i].key = k

\* Once all changes of a key are acknowledged, ClickHouse answers what the
\* source holds, through replays, reordered batches and a concurrent fill; and
\* once a reseed is done, it does so for rows that never changed as well.
ClickHouseMatches ==
    \A k \in Keys : Acked(k) /\ (Changed(k) \/ rpc = "done") => ch[k].row = src[k]

\* The same for Qdrant, whose sink ignores versions and trusts the order in
\* which the pump hands it changes.
QdrantMatches ==
    \A k \in Keys : Acked(k) /\ (Changed(k) \/ (mode = "repair" /\ rpc = "done")) => qd[k] = src[k]

\* The order the pump hands over is good enough for Qdrant as long as no step of
\* it fails, whatever a repair emits beside it.
QdrantMatchesUnfailed == faults = 0 => QdrantMatches

\* Every change is eventually acknowledged: a batch that failed in a sink, at
\* the commit or with its process comes back.  (Other consumers' events leave
\* room in a batch: MaxForeign < Batch.)
EveryChangeAcked ==
    \A i \in 1..MaxEvents : i \in Live ~> i \in published
===============================================================================
