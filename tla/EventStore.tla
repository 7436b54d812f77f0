------------------------------ MODULE EventStore ------------------------------
(***************************************************************************)
(* The event store, its snapshots and a projection: pg/eventstore.go.      *)
(*                                                                         *)
(* Writers read a stream's head, append behind it in a transaction of      *)
(* their own and commit whenever they like.  Ids come from a sequence, so  *)
(* they are handed out at the INSERT and become visible at the commit.     *)
(* An aggregate's state is the set of versions applied to it.              *)
(***************************************************************************)
EXTENDS Integers, FiniteSets, FiniteSetsExt

CONSTANTS
    Streams, Appenders, Readers,
    MaxId,      \* bound on events
    MaxLimit,   \* the projection's limit
    MaxBatch    \* events in one Append

ASSUME EventStoreAssumption == Streams # {} /\ {MaxId, MaxLimit, MaxBatch} \subseteq Nat \ {0}

VARIABLES
    events,    \* the committed rows
    lastId,    \* the sequence
    append,    \* append[w]: what writer w is doing
    offset,    \* the projection's watermark
    applied,   \* the ids the projection has applied
    late,      \* history: ids committed below the watermark
    snapshot,  \* snapshot[s]: the version the stored snapshot of s stands at, -1 for none
    rebuild    \* rebuild[r]: an aggregate being rebuilt, and maybe saved as a snapshot

eventVars == <<events, lastId, append, offset, applied, late, snapshot, rebuild>>

Versions == 0..MaxId - 1
Event    == [id : 1..MaxId, stream : Streams, version : Versions]
AnyStream == CHOOSE s \in Streams : TRUE

NoAppend  == [step |-> "idle", stream |-> AnyStream, expected |-> -1, rows |-> {}]
NoRebuild == [step |-> "idle", stream |-> AnyStream, from |-> -1, head |-> -1, state |-> {}]

EventTypeOK ==
    /\ events \subseteq Event
    /\ lastId \in 0..MaxId
    /\ append \in [Appenders -> [step : {"idle", "loaded", "inserted"}, stream : Streams,
                               expected : -1..MaxId - 1, rows : SUBSET Event]]
    /\ offset \in 0..MaxId
    /\ applied \subseteq 1..MaxId /\ late \subseteq 1..MaxId
    /\ snapshot \in [Streams -> -1..MaxId - 1]
    /\ rebuild \in [Readers -> [step : {"idle", "load", "done"}, stream : Streams, from : -1..MaxId - 1,
                                head : -1..MaxId - 1, state : SUBSET Versions]]

EventInit ==
    /\ events = {} /\ lastId = 0
    /\ append = [w \in Appenders |-> NoAppend]
    /\ offset = 0 /\ applied = {} /\ late = {}
    /\ snapshot = [s \in Streams |-> -1]
    /\ rebuild = [r \in Readers |-> NoRebuild]

-------------------------------------------------------------------------------
(***************************************************************************)
(* Appending.                                                              *)
(***************************************************************************)

VersionsOf(rows, s) == {e.version : e \in {x \in rows : x.stream = s}}

\* LatestVersion: -1 for an empty stream.
LatestVersion(s) == Max(VersionsOf(events, s) \cup {-1})

ReadHead(w, s) ==
    /\ append[w].step = "idle"
    /\ append' = [append EXCEPT ![w] = [NoAppend EXCEPT !.step = "loaded", !.stream = s,
                                                        !.expected = LatestVersion(s)]]
    /\ UNCHANGED <<events, lastId, offset, applied, late, snapshot, rebuild>>

\* The rows of an Append of n events.
NewRows(w, n) == {[id |-> lastId + i, stream |-> append[w].stream, version |-> append[w].expected + i] : i \in 1..n}

\* Mutant: the index is not unique.
ClashesNever(w, n, rows) == FALSE

\* The unique index over stream and version.
Clashes(w, n, rows) == VersionsOf(NewRows(w, n), append[w].stream) \cap VersionsOf(rows, append[w].stream) # {}

\* Append: the INSERT waits for an open transaction it clashes with.
AppendRows(w, n) ==
    /\ append[w].step = "loaded" /\ lastId + n <= MaxId
    /\ ~Clashes(w, n, events)
    /\ \A x \in Appenders \ {w} : ~Clashes(w, n, append[x].rows)
    /\ lastId' = lastId + n
    /\ append' = [append EXCEPT ![w].step = "inserted", ![w].rows = NewRows(w, n)]
    /\ UNCHANGED <<events, offset, applied, late, snapshot, rebuild>>

\* ErrConcurrencyConflict: another writer committed that version.
AppendConflicts(w, n) ==
    /\ append[w].step = "loaded"
    /\ Clashes(w, n, events)
    /\ append' = [append EXCEPT ![w] = NoAppend]
    /\ UNCHANGED <<events, lastId, offset, applied, late, snapshot, rebuild>>

CommitAppend(w) ==
    /\ append[w].step = "inserted"
    /\ events' = events \cup append[w].rows
    /\ late' = late \cup {e.id : e \in {x \in append[w].rows : x.id <= offset}}
    /\ append' = [append EXCEPT ![w] = NoAppend]
    /\ UNCHANGED <<lastId, offset, applied, snapshot, rebuild>>

RollbackAppend(w) ==
    /\ append[w].step # "idle"
    /\ append' = [append EXCEPT ![w] = NoAppend]
    /\ UNCHANGED <<events, lastId, offset, applied, late, snapshot, rebuild>>

-------------------------------------------------------------------------------
(***************************************************************************)
(* Stream, by a projection that persists the last offset it applied.       *)
(***************************************************************************)

\* The first `limit` of the events after the watermark.
Batch(limit) ==
    LET next == {e.id : e \in {x \in events : x.id > offset}}
    IN  {i \in next : Cardinality({j \in next : j < i}) < limit}

\* Mutant: the watermark is the newest id there is, not the newest read.
WatermarkAtHead(batch) == lastId

Watermark(batch) == Max(batch)

Project(limit) ==
    LET batch == Batch(limit) IN
    /\ batch # {}
    /\ applied' = applied \cup batch
    /\ offset' = Watermark(batch)
    /\ UNCHANGED <<events, lastId, append, late, snapshot, rebuild>>

-------------------------------------------------------------------------------
(***************************************************************************)
(* Rebuilding an aggregate: LoadSnapshot, Load, and SaveSnapshot.          *)
(***************************************************************************)

\* Mutant: the whole stream is asked for with 0.
ResumeFromZero(s) == IF snapshot[s] = -1 THEN 0 ELSE snapshot[s]

\* LoadSnapshot: resume after the snapshot, or from -1 when there is none.
ResumeFrom(s) == snapshot[s]

LoadSnapshot(r, s) ==
    /\ rebuild[r].step = "idle"
    /\ rebuild' = [rebuild EXCEPT ![r] = [step |-> "load", stream |-> s, from |-> ResumeFrom(s),
                                          head |-> LatestVersion(s), state |-> 0..snapshot[s]]]
    /\ UNCHANGED <<events, lastId, append, offset, applied, late, snapshot>>

\* Load: the versions strictly after.
Load(r) ==
    LET s == rebuild[r].stream
        newer == {v \in VersionsOf(events, s) : v > rebuild[r].from}
    IN
    /\ rebuild[r].step = "load"
    /\ rebuild' = [rebuild EXCEPT ![r].step = "done", ![r].state = @ \cup newer]
    /\ UNCHANGED <<events, lastId, append, offset, applied, late, snapshot>>

\* SaveSnapshot replaces whatever is stored, an older or a newer one.
SaveSnapshot(r) ==
    /\ rebuild[r].step = "done" /\ rebuild[r].state # {}
    /\ snapshot' = [snapshot EXCEPT ![rebuild[r].stream] = Max(rebuild[r].state)]
    /\ rebuild' = [rebuild EXCEPT ![r] = NoRebuild]
    /\ UNCHANGED <<events, lastId, append, offset, applied, late>>

Discard(r) ==
    /\ rebuild[r].step = "done"
    /\ rebuild' = [rebuild EXCEPT ![r] = NoRebuild]
    /\ UNCHANGED <<events, lastId, append, offset, applied, late, snapshot>>

EventNext ==
    \/ \E w \in Appenders :
          \/ \E s \in Streams : ReadHead(w, s)
          \/ \E n \in 1..MaxBatch : AppendRows(w, n) \/ AppendConflicts(w, n)
          \/ CommitAppend(w) \/ RollbackAppend(w)
    \/ \E limit \in 1..MaxLimit : Project(limit)
    \/ \E r \in Readers :
          \/ \E s \in Streams : LoadSnapshot(r, s)
          \/ Load(r) \/ SaveSnapshot(r) \/ Discard(r)

EventSpec == EventInit /\ [][EventNext]_eventVars

-------------------------------------------------------------------------------
(***************************************************************************)
(* Properties.                                                             *)
(***************************************************************************)

\* A rebuilt aggregate is its stream from the first event on, at least as far as it
\* went when the rebuild began: stale snapshots and events appended between the
\* two reads included.
RebuiltWhole ==
    \A r \in Readers : rebuild[r].step = "done" =>
        \E v \in -1..MaxId - 1 : v >= rebuild[r].head /\ rebuild[r].state = 0..v

\* Optimistic concurrency keeps every stream whole: its versions are 0, 1, 2, ...
\* without a gap, each once, and their ids rise with them, so that the log shows
\* every stream in its own order; and so is what LoadSnapshot and Load make of it.
StreamsWhole ==
    /\ \A s \in Streams : VersionsOf(events, s) = 0..LatestVersion(s)
    /\ \A e, f \in events : e.stream = f.stream /\ e # f => (e.version < f.version <=> e.id < f.id)
                                                           /\ e.version # f.version
    /\ RebuiltWhole

\* The projection has applied every event up to its watermark, but for those that
\* were committed when it had already passed them.
SkipsOnlyLate == \A e \in events : e.id <= offset => e.id \in applied \cup late
===============================================================================
