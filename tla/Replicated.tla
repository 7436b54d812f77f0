------------------------------ MODULE Replicated ------------------------------
(***************************************************************************)
(* Replica routing with read-your-writes: pg/replica.go, replica_lsn.go.   *)
(* One session (a context made by WithReadYourWrites) used by several      *)
(* goroutines, a primary, and replicas that replay its WAL at their own    *)
(* pace.  LSN tracking and a write delay are on.                           *)
(*                                                                         *)
(* A position is the number of commits in the WAL.  Of the time since the  *)
(* last write the model keeps the part of the window it falls in: the      *)
(* write delay ("delay"), the rest of the window ("sticky"), past it       *)
(* ("over"), or never written ("none").  The cursor's round robin is a     *)
(* free choice.                                                            *)
(***************************************************************************)
EXTENDS Naturals, FiniteSets

CONSTANTS
    Goroutines,
    Replicas,
    Primary,
    MaxWAL,      \* bound on commits
    MaxOps,      \* bound on the session's statements
    MaxGaps      \* bound on errors and odd statements

ASSUME ReplicaAssumption == Primary \notin Replicas /\ {MaxWAL, MaxOps, MaxGaps} \subseteq Nat

VARIABLES
    wal,      \* the primary's position
    replay,   \* replay[r]: how far r has replayed
    sample,   \* sample[r]: the cached replay position of r, with its freshness
    window,   \* time since the session's lastWrite
    writeLSN, \* the session's required position, 0 for none
    stmt,     \* stmt[g]: the statement g has under way
    ops,
    done,     \* history: the newest commit of the session whose statement has returned
    gaps,     \* history: the ways in which a write escaped the window, so far
    missed    \* history: a read inside the window did not see such a commit

replicaVars == <<wal, replay, sample, window, writeLSN, stmt, ops, done, gaps, missed>>

Nodes == Replicas \cup {Primary}
Gaps  == {"lost capture", "late capture", "lost commit", "hidden write", "early capture"}

\* mine: the commit a write made; lsn: what it captured; need: the commits a read
\* must see; sticky: the read was routed inside the window.
Stmt == [step : {"idle", "tx", "mark", "capture", "save", "rows", "read"},
         mine : 0..MaxWAL, lsn : 0..MaxWAL, need : 0..MaxWAL, at : Nodes, sticky : BOOLEAN]
NoStmt == [step |-> "idle", mine |-> 0, lsn |-> 0, need |-> 0, at |-> Primary, sticky |-> FALSE]

ReplicatedTypeOK ==
    /\ wal \in 0..MaxWAL
    /\ replay \in [Replicas -> 0..MaxWAL]
    /\ sample \in [Replicas -> [lsn : 0..MaxWAL, fresh : BOOLEAN]]
    /\ window \in {"none", "delay", "sticky", "over"}
    /\ writeLSN \in 0..MaxWAL
    /\ stmt \in [Goroutines -> Stmt]
    /\ ops \in 0..MaxOps
    /\ done \in 0..MaxWAL
    /\ gaps \subseteq Gaps
    /\ missed \in BOOLEAN

ReplicatedInit ==
    /\ wal = 0
    /\ replay = [r \in Replicas |-> 0]
    /\ sample = [r \in Replicas |-> [lsn |-> 0, fresh |-> FALSE]]
    /\ window = "none"
    /\ writeLSN = 0
    /\ stmt = [g \in Goroutines |-> NoStmt]
    /\ ops = 0
    /\ done = 0
    /\ gaps = {}
    /\ missed = FALSE

-------------------------------------------------------------------------------
(***************************************************************************)
(* Writes: Exec, a writing Query, Commit of a transaction that wrote.      *)
(***************************************************************************)

cluster == <<replay, sample>>

Begins(g) == stmt[g].step = "idle" /\ ops < MaxOps /\ ops' = ops + 1

Larger(x, y) == IF x > y THEN x ELSE y

\* The statement of g has returned: a commit it made counts.
Returned(g) ==
    /\ done' = Larger(done, stmt[g].mine)
    /\ stmt' = [stmt EXCEPT ![g] = NoStmt]

Gap(kind) == Cardinality(gaps) < MaxGaps /\ gaps' = gaps \cup {kind}

\* The primary executes and commits; Exec, Query and rywTx.Commit go on to mark.
Exec(g) ==
    /\ Begins(g) /\ wal < MaxWAL
    /\ wal' = wal + 1
    /\ stmt' = [stmt EXCEPT ![g] = [NoStmt EXCEPT !.step = "mark", !.mine = wal + 1]]
    /\ UNCHANGED <<cluster, window, writeLSN, done, gaps, missed>>

\* A RETURNING statement: Query hands out the rows, marks and captures before
\* the statement has committed; the caller closes the rows afterwards.
QueryReturning(g) ==
    /\ Begins(g)
    /\ Gap("early capture")
    /\ stmt' = [stmt EXCEPT ![g] = [NoStmt EXCEPT !.step = "mark"]]
    /\ UNCHANGED <<wal, cluster, window, writeLSN, done, missed>>

CloseRows(g) ==
    /\ stmt[g].step = "rows" /\ wal < MaxWAL
    /\ wal' = wal + 1
    /\ done' = wal + 1
    /\ stmt' = [stmt EXCEPT ![g] = NoStmt]
    /\ UNCHANGED <<cluster, window, writeLSN, ops, gaps, missed>>

\* The commit took effect and reports an error: rywTx.Commit returns at once.
CommitLost(g) ==
    /\ Begins(g) /\ wal < MaxWAL
    /\ Gap("lost commit")
    /\ wal' = wal + 1
    /\ done' = wal + 1
    /\ UNCHANGED <<cluster, window, writeLSN, stmt, missed>>

\* mark
Mark(g) ==
    /\ stmt[g].step = "mark"
    /\ window' = "delay"
    /\ stmt' = [stmt EXCEPT ![g].step = "capture"]
    /\ UNCHANGED <<wal, cluster, writeLSN, ops, done, gaps, missed>>

\* captureWriteLSN: the primary's position is read ...
Capture(g) ==
    /\ stmt[g].step = "capture"
    /\ stmt' = [stmt EXCEPT ![g].step = "save", ![g].lsn = wal]
    /\ UNCHANGED <<wal, cluster, window, writeLSN, ops, done, gaps, missed>>

After(g) ==
    IF stmt[g].mine = 0 THEN stmt' = [stmt EXCEPT ![g] = [NoStmt EXCEPT !.step = "rows"]] /\ UNCHANGED done
                        ELSE Returned(g)

\* ... and stored, over whatever is there.
SaveLSN(g) ==
    /\ stmt[g].step = "save"
    /\ IF stmt[g].lsn < writeLSN THEN Gap("late capture") ELSE UNCHANGED gaps
    /\ writeLSN' = stmt[g].lsn
    /\ After(g)
    /\ UNCHANGED <<wal, cluster, window, ops, missed>>

\* The required position is not raised to cover a write that took effect: the last
\* one stays, or an older one that a concurrent write has read is yet to be stored.
\* With none at all reads stay on the primary, which is the intended fallback.
NotCovered ==
    IF writeLSN # 0 \/ \E h \in Goroutines : stmt[h].step = "save"
    THEN Gap("lost capture") ELSE UNCHANGED gaps

CaptureFails(g) ==
    /\ stmt[g].step = "capture"
    /\ NotCovered
    /\ After(g)
    /\ UNCHANGED <<wal, cluster, window, writeLSN, ops, missed>>

\* Exec or a writing Query reports an error: the window is armed and nothing is
\* captured, whether or not the statement took effect.
ExecFails(g) ==
    /\ Begins(g)
    /\ window' = "delay"
    /\ \/ UNCHANGED <<wal, done, gaps>>
       \/ wal < MaxWAL /\ wal' = wal + 1 /\ done' = wal + 1 /\ NotCovered
    /\ UNCHANGED <<cluster, writeLSN, stmt, missed>>

-------------------------------------------------------------------------------
(***************************************************************************)
(* Reads.                                                                  *)
(***************************************************************************)

ActiveFor == window \in {"delay", "sticky"}

\* Mutant: the position parsed is one past the one replayed.
replicaLSNAhead(r) == IF sample[r].fresh THEN sample[r].lsn ELSE replay[r] + 1

\* replicaLSN: the cached position while it is fresh, else the replica's own.
replicaLSN(r) == IF sample[r].fresh THEN sample[r].lsn ELSE replay[r]

\* Mutant: one position short is good enough.
CaughtUpAlmost(r) == replicaLSN(r) + 1 >= writeLSN

\* pickLSNReplica's test of a replica.
CaughtUp(r) == replicaLSN(r) >= writeLSN

\* routeRead: a read may go to n after the positions of the replicas `asked` were
\* looked at.  A replica that could not tell its position is passed over.
Routed(n, asked) ==
    IF ~ActiveFor THEN n \in Replicas /\ asked = {}
    ELSE IF window = "delay" \/ writeLSN = 0 THEN n = Primary /\ asked = {}
    ELSE /\ n = Primary \/ (n \in asked /\ CaughtUp(n))
         /\ \A r \in asked \ {n} : ~CaughtUp(r)

\* Query of a statement that reads, or BeginReadOnly.
Query(g) ==
    /\ Begins(g)
    /\ \E n \in Nodes, asked \in SUBSET Replicas :
          /\ Routed(n, asked)
          /\ sample' = [r \in Replicas |-> IF r \in asked THEN [lsn |-> replicaLSN(r), fresh |-> TRUE]
                                                         ELSE sample[r]]
          /\ stmt' = [stmt EXCEPT ![g] = [NoStmt EXCEPT !.step = "read", !.need = done, !.at = n,
                                                        !.sticky = ActiveFor]]
    /\ UNCHANGED <<wal, replay, window, writeLSN, done, gaps, missed>>

Position(n) == IF n = Primary THEN wal ELSE replay[n]

Read(g) ==
    /\ stmt[g].step = "read"
    /\ missed' = (missed \/ (stmt[g].sticky /\ gaps = {} /\ Position(stmt[g].at) < stmt[g].need))
    /\ stmt' = [stmt EXCEPT ![g] = NoStmt]
    /\ UNCHANGED <<wal, cluster, window, writeLSN, ops, done, gaps>>

\* The statement turns out to write (a function call).  A replica refuses it and
\* it goes to the primary as a write would; routed to the primary it just runs.
ReadWrites(g) ==
    /\ stmt[g].step = "read" /\ wal < MaxWAL
    /\ wal' = wal + 1
    /\ IF stmt[g].at # Primary
       THEN /\ stmt' = [stmt EXCEPT ![g] = [NoStmt EXCEPT !.step = "mark", !.mine = wal + 1]]
            /\ UNCHANGED <<done, gaps>>
       ELSE /\ Gap("hidden write")
            /\ done' = wal + 1
            /\ stmt' = [stmt EXCEPT ![g] = NoStmt]
    /\ UNCHANGED <<cluster, window, writeLSN, ops, missed>>

-------------------------------------------------------------------------------
(***************************************************************************)
(* Time, replication, and everybody else's writes.                         *)
(***************************************************************************)

Elapse ==
    /\ ActiveFor
    /\ window' = IF window = "delay" THEN "sticky" ELSE "over"
    /\ UNCHANGED <<wal, cluster, writeLSN, stmt, ops, done, gaps, missed>>

SampleExpires(r) ==
    /\ sample[r].fresh
    /\ sample' = [sample EXCEPT ![r] = [lsn |-> 0, fresh |-> FALSE]]
    /\ UNCHANGED <<wal, replay, window, writeLSN, stmt, ops, done, gaps, missed>>

Replay(r) ==
    /\ replay[r] < wal
    /\ replay' = [replay EXCEPT ![r] = @ + 1]
    /\ UNCHANGED <<wal, sample, window, writeLSN, stmt, ops, done, gaps, missed>>

OtherWrite ==
    /\ wal < MaxWAL
    /\ wal' = wal + 1
    /\ UNCHANGED <<cluster, window, writeLSN, stmt, ops, done, gaps, missed>>

ReplicatedNext ==
    \/ \E g \in Goroutines :
          \/ Exec(g) \/ ExecFails(g) \/ QueryReturning(g) \/ CloseRows(g) \/ CommitLost(g)
          \/ Mark(g) \/ Capture(g) \/ SaveLSN(g) \/ CaptureFails(g)
          \/ Query(g) \/ Read(g) \/ ReadWrites(g)
    \/ \E r \in Replicas : SampleExpires(r) \/ Replay(r)
    \/ Elapse \/ OtherWrite

ReplicatedSpec == ReplicatedInit /\ [][ReplicatedNext]_replicaVars

-------------------------------------------------------------------------------
(***************************************************************************)
(* Properties.                                                             *)
(***************************************************************************)

\* A read inside the window sees every commit the session's finished statements
\* made, whichever replica it was sent to, as long as no write has escaped: its
\* capture failed or was stored after a later one's, its commit reported an
\* error, the statement did not look like a write, or it committed after Query
\* returned.
ReadsOwnWrites == ~missed
===============================================================================
