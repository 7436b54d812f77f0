-------------------------------- MODULE Verify --------------------------------
(***************************************************************************)
(* mirror/verify.go: the Verifier walks the key space of a source table    *)
(* and of its mirror range by range and reports the keys on which they     *)
(* disagree, while writers change the source and the pump the mirror.      *)
(* A pass that stopped is carried on from its Resume; Recheck reads the    *)
(* keys a walk named once more.                                            *)
(*                                                                         *)
(* Keys are numbers.  A row is the number of changes its key has seen:     *)
(* inserted, updated, deleted, inserted, ...; in the mirror, the version   *)
(* of the winning row, a tombstone after a delete, 0 for none.             *)
(***************************************************************************)
EXTENDS Naturals, FiniteSets, FiniteSetsExt

CONSTANTS
    MaxKey,
    RangeSize,
    MaxReport,   \* MaxDivergences
    MaxChanges,  \* bound on the changes of a key
    MaxMoves     \* bound on what happens around the Verifier: writes, deliveries

ASSUME VerifyAssumption == RangeSize \in Nat \ {0} /\ {MaxKey, MaxReport, MaxChanges, MaxMoves} \subseteq Nat

VARIABLES
    source,    \* source[k]: changes of k so far
    mirror,    \* mirror[k]: changes of k that the pump has delivered
    pass,      \* the call of Verify or Recheck under way
    report,    \* its VerifyReport
    named,     \* the divergences the walk counted, in stopped passes too
    moves,
    moved,     \* history: keys that changed on either side since the walk began
    held,      \* history: the source when the walk ended
    owed       \* history: keys of which part had not been delivered when Recheck began

verifyVars == <<source, mirror, pass, report, named, moves, moved, held, owed>>

VKeys == 1..MaxKey
Live(n) == n % 3 # 0
Differs(m, s) == Live(m) # Live(s) \/ (Live(m) /\ m # s)

\* What a read returned: the rows of some keys.
Rows == UNION {[S -> 0..MaxChanges] : S \in SUBSET VKeys}
NoRows == [k \in {} |-> 0]

NoPass == [step |-> "idle", after |-> 0, mir |-> NoRows, keys |-> {}]
NoReport == [found |-> {}, resume |-> 0, settled |-> {}]

\* A divergence that did not fit the report is counted and not listed.
Divergence == [key : VKeys, version : 0..MaxChanges, listed : BOOLEAN]

VerifyTypeOK ==
    /\ source \in [VKeys -> 0..MaxChanges] /\ mirror \in [VKeys -> 0..MaxChanges]
    /\ pass \in [step : {"idle", "mirror", "source", "stopped", "ended", "recheckM", "recheckS", "rechecked"},
                 after : 0..MaxKey, mir : Rows, keys : SUBSET VKeys]
    /\ report \in [found : SUBSET Divergence, resume : 0..MaxKey, settled : SUBSET VKeys]
    /\ named \subseteq Divergence
    /\ moves \in 0..MaxMoves
    /\ moved \subseteq VKeys /\ owed \subseteq VKeys
    /\ held \in [VKeys -> 0..MaxChanges]

VerifyInit ==
    /\ source \in [VKeys -> 0..MaxChanges] /\ mirror \in [VKeys -> 0..MaxChanges]
    /\ \A k \in VKeys : mirror[k] <= source[k]
    /\ pass = NoPass /\ report = NoReport /\ named = {}
    /\ moves = 0 /\ moved = {}
    /\ held = [k \in VKeys |-> 0] /\ owed = {}

-------------------------------------------------------------------------------
(***************************************************************************)
(* The application and the pump, while a walk is under way.                *)
(***************************************************************************)

Moves(k) ==
    /\ pass.step \notin {"idle", "rechecked"} /\ moves < MaxMoves
    /\ moves' = moves + 1
    /\ moved' = moved \cup {k}
    /\ UNCHANGED <<pass, report, named, held, owed>>

SourceChanges(k) ==
    /\ source[k] < MaxChanges
    /\ source' = [source EXCEPT ![k] = @ + 1]
    /\ Moves(k) /\ UNCHANGED mirror

PumpDelivers(k) ==
    /\ mirror[k] < source[k]
    /\ mirror' = [mirror EXCEPT ![k] = @ + 1]
    /\ Moves(k) /\ UNCHANGED source

-------------------------------------------------------------------------------
(***************************************************************************)
(* Verify.                                                                 *)
(***************************************************************************)

tables == <<source, mirror, moves, moved>>

BeginVerify ==
    /\ pass.step = "idle"
    /\ pass' = [NoPass EXCEPT !.step = "mirror"]
    /\ UNCHANGED <<tables, report, named, held, owed>>

\* The first RangeSize of the keys in S past the cursor.
Page(S) ==
    LET past == {k \in S : k > pass.after}
    IN  {k \in past : Cardinality({j \in past : j < k}) < RangeSize}

\* The winning rows, tombstones included.
readMirrorRange ==
    /\ pass.step = "mirror"
    /\ pass' = [pass EXCEPT !.step = "source",
                            !.mir = [k \in Page({k \in VKeys : mirror[k] # 0}) |-> mirror[k]]]
    /\ UNCHANGED <<tables, report, named, held, owed>>

Full(S) == Cardinality(S) = RangeSize

\* Mutant: the range ends where the longer of the two reads does.
rangeEndLast(M, S) == IF ~Full(M) /\ ~Full(S) THEN MaxKey ELSE Max({0} \cup M \cup S)

\* The lower of the last keys of the sides that ran into the limit, or the end.
rangeEnd(M, S) ==
    IF Full(M) /\ Full(S) THEN Min({Max(M), Max(S)})
    ELSE IF Full(M) THEN Max(M)
    ELSE IF Full(S) THEN Max(S)
    ELSE MaxKey

\* The keys of a range on which the rows read disagree.
Disagree(M, mir, src) == {k \in M \cup DOMAIN src :
    Differs(IF k \in M THEN mir[k] ELSE 0, IF k \in DOMAIN src THEN src[k] ELSE 0)}

\* record, for each key of D: counted always, listed while there is room.
record(rep, D, mir) ==
    LET room == MaxReport - Cardinality({d \in rep.found : d.listed})
        Fits(k) == Cardinality({j \in D : j < k}) < room
    IN  {[key |-> k, version |-> IF k \in DOMAIN mir THEN mir[k] ELSE 0, listed |-> Fits(k)] : k \in D}

\* readSourceRange, the trimming of both sides, and compareRange.  The range runs
\* to the end of the key space when neither side ran into the limit.
compareRange ==
    LET src == [k \in Page({k \in VKeys : Live(source[k])}) |-> source[k]]
        M == DOMAIN pass.mir
        bounded == Full(M) \/ Full(DOMAIN src)
        through == rangeEnd(M, DOMAIN src)
        D == Disagree({k \in M : k <= through}, pass.mir,
                      [k \in {j \in DOMAIN src : j <= through} |-> src[k]])
        new == record(report, D, pass.mir)
    IN
    /\ pass.step = "source"
    /\ report' = [report EXCEPT !.found = @ \cup new, !.resume = IF bounded THEN through ELSE 0]
    /\ named' = named \cup new
    /\ pass' = [NoPass EXCEPT !.step = IF bounded THEN "mirror" ELSE "ended",
                              !.after = IF bounded THEN through ELSE 0]
    /\ held' = IF bounded THEN held ELSE source
    /\ UNCHANGED <<tables, owed>>

\* A cancelled context or a failed read: the report so far, with its Resume.
VerifyStops ==
    /\ pass.step \in {"mirror", "source"} /\ moves < MaxMoves
    /\ moves' = moves + 1
    /\ pass' = [NoPass EXCEPT !.step = "stopped"]
    /\ UNCHANGED <<source, mirror, moved, report, named, held, owed>>

\* The report of a pass that has compared nothing yet resumes where the pass began.
NewReport(from) == [NoReport EXCEPT !.resume = from]

\* From(Resume), where an empty Resume is the head of the key space.
VerifyFrom ==
    /\ pass.step = "stopped"
    /\ pass' = [NoPass EXCEPT !.step = "mirror", !.after = report.resume]
    /\ report' = NewReport(report.resume)
    /\ UNCHANGED <<tables, named, held, owed>>

-------------------------------------------------------------------------------
(***************************************************************************)
(* Recheck of everything the walk named, in chunks of RangeSize.           *)
(***************************************************************************)

BeginRecheck ==
    /\ pass.step = "ended"
    /\ pass' = [NoPass EXCEPT !.step = "recheckM", !.keys = {d.key : d \in {e \in named : e.listed}}]
    /\ report' = NoReport
    /\ owed' = {k \in VKeys : mirror[k] < held[k]}
    /\ UNCHANGED <<tables, named, held>>

Chunk == {k \in pass.keys : Cardinality({j \in pass.keys : j < k}) < RangeSize}

readMirrorKeys ==
    /\ pass.step = "recheckM" /\ pass.keys # {}
    /\ pass' = [pass EXCEPT !.step = "recheckS",
                            !.mir = [k \in {j \in Chunk : mirror[j] # 0} |-> mirror[k]]]
    /\ UNCHANGED <<tables, report, named, held, owed>>

\* Mutant: what is compared is whether there is a row.
SettledByPresence(k, mir) ==
    \E d \in named : d.key = k /\ (d.version # 0) = (k \in DOMAIN mir)

\* The mirror's version for k is what it was when the walk named k.
Settled(k, mir) ==
    \E d \in named : d.key = k /\ d.version = (IF k \in DOMAIN mir THEN mir[k] ELSE 0)

RecheckKeys ==
    LET src == [k \in {j \in Chunk : Live(source[j])} |-> source[k]]
        D == Disagree(DOMAIN pass.mir, pass.mir, src)
    IN
    /\ pass.step = "recheckS"
    /\ report' = [report EXCEPT !.found = @ \cup record(report, D, pass.mir),
                                !.settled = @ \cup {k \in D : Settled(k, pass.mir)}]
    /\ pass' = [pass EXCEPT !.step = "recheckM", !.keys = @ \ Chunk, !.mir = NoRows]
    /\ UNCHANGED <<tables, named, held, owed>>

RecheckEnds ==
    /\ pass.step = "recheckM" /\ pass.keys = {}
    /\ pass' = [NoPass EXCEPT !.step = "rechecked"]
    /\ UNCHANGED <<tables, report, named, held, owed>>

VerifyNext ==
    \/ \E k \in VKeys : SourceChanges(k) \/ PumpDelivers(k)
    \/ BeginVerify \/ readMirrorRange \/ compareRange \/ VerifyStops \/ VerifyFrom
    \/ BeginRecheck \/ readMirrorKeys \/ RecheckKeys \/ RecheckEnds

VerifySpec == VerifyInit /\ [][VerifyNext]_verifyVars

-------------------------------------------------------------------------------
(***************************************************************************)
(* Properties.                                                             *)
(***************************************************************************)

\* A walk that reached the end, in however many passes, counted every key on which
\* the two tables disagreed all along and none on which they agreed all along,
\* wherever rows that came and went meanwhile moved the ends of its ranges.
DefectsCounted ==
    pass.step = "ended" =>
        \A k \in VKeys \ moved : Differs(mirror[k], source[k]) <=> \E d \in named : d.key = k

\* Recheck discharges lag: a key is settled only if something the source held when
\* the walk ended had still not been delivered when Recheck began.
SettledIsOwed == report.settled \subseteq owed
================================================================================
