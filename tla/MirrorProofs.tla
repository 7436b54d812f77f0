----------------------------- MODULE MirrorProofs -----------------------------
(***************************************************************************)
(* Theorems about Mirror, for every set of keys, every set of sinks that   *)
(* are down and every bound.                                               *)
(***************************************************************************)
EXTENDS Mirror, WellFoundedInduction, TLAPS

Sinks == {"clickhouse", "qdrant"}
Event == [kind : {"mirror", "foreign"}, key : Keys \cup {NoKey}, row : Row]
Copy  == [version : 0..LiveVersion(MaxEvents), row : Row]
Piece == [key : Keys \cup {NoKey}, row : Row]

\* Some change of key k is among the ids B.
Has(B, k) == \E i \in B : events[i].key = k

\* The source holds what the last change of a key wrote, and what it held before
\* the mirror when there is none.
SourceInv ==
    \A k \in Keys :
        /\ Changed(k) => \E l \in LastOf(Live, k) : src[k] = events[l].row
        /\ ~Changed(k) => src[k] = IF k \in OldKeys THEN 0 ELSE Absent

\* What the pump holds and has acknowledged are the mirror's own events, and
\* follow the order of the sinks; a pump that runs has attempts left.
PumpInv ==
    /\ batch \subseteq Live
    /\ \A s \in Sinks : applied[s] \subseteq Live /\ published \subseteq applied[s]
    /\ pc \in {"fetch", "stopped"} => batch = {} /\ sink = 1
    /\ pc = "apply" /\ sink = 2 => batch \subseteq applied["clickhouse"]
    /\ pc = "commit" => \A s \in Sinks : batch \subseteq applied[s]
    /\ MaxRetry > 0 /\ pc # "stopped" => attempt < MaxRetry

\* With a sink down nothing gets past it.
DownInv ==
    Down # {} => /\ applied["qdrant"] = {} /\ pc # "commit"
                 /\ sink = 2 => "clickhouse" \notin Down

\* A version above the seed band names the live change that wrote the row, no
\* accepted change is newer than the row, and a row no change has touched is
\* what a fill wrote.
ClickHouseInv ==
    \A k \in Keys :
        /\ ch[k].version > MaxSeedVersion =>
               \E i \in Live : /\ events[i].key = k
                               /\ ch[k] = [version |-> LiveVersion(i), row |-> events[i].row]
        /\ \A i \in applied["clickhouse"] : events[i].key = k => LiveVersion(i) <= ch[k].version
        /\ ~Changed(k) => \/ ch[k] = [version |-> 0, row |-> Absent]
                          \/ ch[k].version >= 1 /\ ch[k].row = 0 /\ k \in OldKeys /\ mode = "fill"

\* The reseed need not come back to key k.
Covered(k) == Changed(k) \/ k \notin OldKeys \/ ch[k].version >= 1

\* The keys up to the cursor are covered, and so are those between it and the
\* chunk in hand.
ReseedInv ==
    /\ rpc \in {"chunk", "read", "apply", "persist"} => pass >= 1
    /\ \A k \in Keys : k <= cursor => Covered(k)
    /\ rpc \in {"read", "apply", "persist"} =>
           chunk.key \in Keys /\ \A k \in Keys : cursor < k /\ k < chunk.key => Covered(k)
    /\ rpc = "apply" => /\ mode = "fill"
                        /\ Changed(chunk.key) \/ (chunk.row = 0 /\ chunk.key \in OldKeys)
    /\ rpc = "persist" => Covered(chunk.key)
    /\ rpc = "done" => \A k \in Keys : Covered(k)

\* Without a failure the pump hands Qdrant the changes in id order, each once.
InOrder ==
    /\ applied["qdrant"] = IF pc = "commit" THEN published \cup batch ELSE published
    /\ Live \ (published \cup batch) \subseteq visible
    /\ \A i \in published \cup batch, j \in Live \ (published \cup batch) : i < j
    /\ \A i \in published, j \in batch : i < j

\* A point holds the last change that reached Qdrant.
PointsInv ==
    \A k \in Keys :
        /\ Has(applied["qdrant"], k) =>
               \E l \in LastOf(applied["qdrant"], k) : qd[k] = events[l].row
        /\ ~Has(applied["qdrant"], k) => qd[k] = Absent

QdrantInv == faults = 0 => PointsInv /\ (Down = {} => InOrder)

MirrorInv == SourceInv /\ PumpInv /\ DownInv /\ ClickHouseInv /\ ReseedInv /\ QdrantInv

-------------------------------------------------------------------------------
(***************************************************************************)
(* Least and greatest ids.                                                 *)
(***************************************************************************)

\* A nonempty set of naturals has a least element.
LEMMA LeastNatural ==
    ASSUME NEW T, T \subseteq Nat, T # {}
    PROVE  \E m \in T : \A n \in T : m <= n
<1> DEFINE R == OpToRel(<, Nat)
<1>1. IsWellFoundedOn(R, Nat)
  BY NatLessThanWellFounded, Zenon
<1>2. \A x, y \in Nat : x < y => <<x, y>> \in R
  BY Zenon DEF OpToRel
<1> HIDE DEF R
<1>3. PICK m \in T : \A n \in T : ~(<<n, m>> \in R)
  BY <1>1, WFMin, Zenon
<1>4. \A n \in T : ~(n < m)
  BY <1>2, <1>3, Zenon
<1>5. \A n \in T : m <= n
  BY <1>4
<1> QED
  BY <1>5

\* A nonempty set of numbers up to n has a greatest element.
LEMMA GreatestUpTo ==
    ASSUME NEW n \in Nat, NEW S, S \subseteq 1..n, S # {}
    PROVE  \E m \in S : \A x \in S : x <= m
<1> DEFINE T == {n - x : x \in S}
<1>1. T \subseteq Nat
  OBVIOUS
<1>2. T # {}
  BY Zenon
<1>3. PICK m \in T : \A x \in T : m <= x
  <2> HIDE DEF T
  <2> QED
    BY <1>1, <1>2, LeastNatural
<1>4. PICK x \in S : m = n - x
  BY <1>3
<1>5. \A y \in S : y <= x
  <2> TAKE y \in S
  <2>1. m <= n - y
    BY <1>3
  <2> QED
    BY <1>4, <2>1
<1> QED
  BY <1>5

-------------------------------------------------------------------------------
(***************************************************************************)
(* Types.                                                                  *)
(***************************************************************************)

\* The constants are numbers.
LEMMA Numbers ==
    /\ MaxEvents \in Nat /\ MaxPasses \in Nat /\ MaxRetry \in Nat /\ MaxFaults \in Nat
    /\ Keys \subseteq Nat \ {0} /\ OldKeys \subseteq Keys
    /\ Absent \in Row /\ 0 \in Row /\ Absent # 0
    /\ \A n \in 1..MaxEvents : n \in Row
    /\ LiveVersion(MaxEvents) = MaxPasses + 1 + MaxEvents
    /\ \A n : LiveVersion(n) = MaxPasses + 1 + n
    /\ MaxSeedVersion = MaxPasses
<1>1. MaxEvents \in Nat /\ MaxPasses \in Nat /\ MaxRetry \in Nat /\ MaxFaults \in Nat
  BY BoundAssumption
<1>2. Keys \subseteq Nat \ {0} /\ OldKeys \subseteq Keys
  BY KeysAssumption
<1>3. Absent \in Row /\ 0 \in Row /\ Absent # 0 /\ \A n \in 1..MaxEvents : n \in Row
  BY <1>1 DEF Absent, Row
<1>4. \A n : LiveVersion(n) = MaxPasses + 1 + n
  BY DEF LiveVersion, LiveVersionBase, MaxSeedVersion
<1> QED
  BY <1>1, <1>2, <1>3, <1>4 DEF MaxSeedVersion

\* Ids are numbers, and Live is a set of them.
LEMMA IdsAreNumbers ==
    ASSUME TypeOK
    PROVE  /\ Len(events) \in Nat /\ Len(events) <= MaxEvents
           /\ Ids = 1..Len(events) /\ Ids \subseteq Nat \ {0} /\ Ids \subseteq 1..MaxEvents
           /\ Live \subseteq Ids
           /\ \A i \in Ids : events[i] \in Event /\ events[i].row \in Row
<1>1. events \in Seq(Event) /\ Len(events) <= MaxEvents
  BY DEF TypeOK, Event
<1>2. Len(events) \in Nat /\ \A i \in 1..Len(events) : events[i] \in Event
  BY <1>1
<1>3. MaxEvents \in Nat
  BY Numbers
<1>4. Ids = 1..Len(events) /\ Live \subseteq Ids
  BY DEF Ids, Live
<1> QED
  BY <1>1, <1>2, <1>3, <1>4 DEF Event

\* The change of a key that comes last in a set of ids exists when there is one.
LEMMA LastExists ==
    ASSUME TypeOK, NEW B, B \subseteq Ids, NEW k
    PROVE  /\ Has(B, k) <=> LastOf(B, k) # {}
           /\ \A i \in LastOf(B, k) : i \in B /\ events[i].key = k
                                      /\ \A j \in B : events[j].key = k => j <= i
<1> DEFINE S == {i \in B : events[i].key = k}
<1>1. ASSUME Has(B, k) PROVE LastOf(B, k) # {}
  <2>1. S # {} /\ S \subseteq 1..Len(events) /\ Len(events) \in Nat
    BY <1>1, IdsAreNumbers DEF Has
  <2>2. PICK m \in S : \A x \in S : x <= m
    <3> HIDE DEF S
    <3> QED
      BY <2>1, GreatestUpTo
  <2>3. m \in LastOf(B, k)
    BY <2>2 DEF LastOf
  <2> QED
    BY <2>3
<1>2. \A i \in LastOf(B, k) : i \in B /\ events[i].key = k
                              /\ \A j \in B : events[j].key = k => j <= i
  BY DEF LastOf
<1> QED
  BY <1>1, <1>2 DEF Has

\* Emit appends one event and changes no other.
LEMMA EmitFacts ==
    ASSUME TypeOK, NEW kind \in {"mirror", "foreign"}, NEW k \in Keys \cup {NoKey}, NEW r \in Row,
           Emit(kind, k, r)
    PROVE  /\ events' \in Seq(Event) /\ Len(events') = Len(events) + 1
           /\ Len(events) + 1 <= MaxEvents
           /\ Ids' = Ids \cup {Len(events) + 1} /\ Len(events) + 1 \notin Ids
           /\ \A i \in Ids : events'[i] = events[i] /\ i < Len(events) + 1
           /\ events'[Len(events) + 1] = [kind |-> kind, key |-> k, row |-> r]
           /\ Live' = IF kind = "mirror" THEN Live \cup {Len(events) + 1} ELSE Live
           /\ visible' = visible \cup {Len(events) + 1}
<1> DEFINE e == [kind |-> kind, key |-> k, row |-> r]
           n == Len(events) + 1
<1>1. e \in Event
  BY DEF Event
<1>2. events \in Seq(Event) /\ Len(events) \in Nat /\ Ids = 1..Len(events)
  BY IdsAreNumbers DEF TypeOK, Event
<1>3. events' = Append(events, e) /\ Len(events) < MaxEvents /\ visible' = visible \cup {n}
  BY DEF Emit
<1>4. events' \in Seq(Event) /\ Len(events') = n
      /\ (\A i \in 1..Len(events) : events'[i] = events[i]) /\ events'[n] = e
  <2> HIDE DEF e
  <2> QED
    BY <1>1, <1>2, <1>3
<1>5. n <= MaxEvents
  BY <1>2, <1>3, Numbers
<1>6. Ids' = Ids \cup {n} /\ n \notin Ids /\ \A i \in Ids : i < n
  BY <1>2, <1>4 DEF Ids
<1>7. \A i \in Ids : events'[i] = events[i]
  BY <1>2, <1>4
<1>8. e.kind = kind
  OBVIOUS
<1>9. Live' = IF kind = "mirror" THEN Live \cup {n} ELSE Live
  <2>1. Live' = {i \in Ids \cup {n} : events'[i].kind = "mirror"}
    BY <1>6 DEF Live
  <2> HIDE DEF e, n
  <2> QED
    BY <2>1, <1>4, <1>6, <1>7, <1>8 DEF Live
<1> QED
  BY <1>3, <1>4, <1>5, <1>6, <1>7, <1>9

\* What an Emit changes of the sets of changes: the key of a mirror event becomes
\* changed, with that event as its last change.
LEMMA EmitKeeps ==
    ASSUME TypeOK, NEW kind \in {"mirror", "foreign"}, NEW k \in Keys \cup {NoKey}, NEW r \in Row,
           Emit(kind, k, r)
    PROVE  /\ Live \subseteq Live'
           /\ \A j : Changed(j)' <=> (Changed(j) \/ (kind = "mirror" /\ j = k))
           /\ \A j : (kind = "mirror" => j # k) => LastOf(Live, j)' = LastOf(Live, j)
           /\ kind = "mirror" => Len(events) + 1 \in LastOf(Live, k)'
<1> DEFINE n == Len(events) + 1
<1>1. /\ \A i \in Ids : events'[i] = events[i] /\ i < n
      /\ events'[n].key = k /\ n \in Nat /\ Ids \subseteq Nat
      /\ Live' = IF kind = "mirror" THEN Live \cup {n} ELSE Live
      /\ Live \subseteq Ids
  <2>1. events'[n] = [kind |-> kind, key |-> k, row |-> r]
    BY EmitFacts
  <2>2. events'[n].key = k
    BY <2>1
  <2>3. n \in Nat /\ Ids \subseteq Nat /\ Live \subseteq Ids
    BY IdsAreNumbers
  <2>4. (\A i \in Ids : events'[i] = events[i] /\ i < n)
        /\ Live' = IF kind = "mirror" THEN Live \cup {n} ELSE Live
    BY EmitFacts
  <2> QED
    BY <2>2, <2>3, <2>4
<1> HIDE DEF n
<1>2. \A j : Changed(j)' <=> (Changed(j) \/ (kind = "mirror" /\ j = k))
  BY <1>1 DEF Changed
<1>3. ASSUME NEW j, kind = "mirror" => j # k PROVE LastOf(Live, j)' = LastOf(Live, j)
  BY <1>1, <1>3 DEF LastOf
<1>4. ASSUME kind = "mirror" PROVE n \in LastOf(Live, k)'
  <2>1. \A i \in Live' : i <= n
    BY <1>1, <1>4
  <2> QED
    BY <2>1, <1>1, <1>4 DEF LastOf
<1> QED
  BY <1>1, <1>2, <1>3, <1>4 DEF n

\* A step that leaves the outbox's events leaves the sets of changes.
LEMMA EventsKept ==
    ASSUME UNCHANGED events
    PROVE  /\ Ids' = Ids /\ Live' = Live
           /\ \A k : Changed(k)' <=> Changed(k)
           /\ \A k : LastOf(Live, k)' = LastOf(Live, k)
<1>1. Ids' = Ids /\ Live' = Live
  BY DEF Ids, Live
<1> QED
  BY <1>1 DEF Changed, LastOf

\* The type invariant in terms of named record sets.
LEMMA Named ==
    TypeOK <=>
      /\ events \in Seq(Event) /\ Len(events) <= MaxEvents
      /\ published \subseteq Ids /\ visible \subseteq Ids
      /\ src \in [Keys -> Row] /\ ch \in [Keys -> Copy] /\ qd \in [Keys -> Row]
      /\ pc \in {"fetch", "apply", "commit", "stopped"}
      /\ batch \subseteq Ids /\ sink \in 1..2
      /\ attempt \in Nat /\ (MaxRetry > 0 => attempt <= MaxRetry)
      /\ mode \in Modes
      /\ rpc \in {"idle", "chunk", "read", "apply", "persist", "done"}
      /\ pass \in 0..MaxPasses /\ cursor \in Keys \cup {NoKey}
      /\ chunk \in Piece
      /\ faults \in 0..MaxFaults
      /\ applied \in [Sinks -> SUBSET Ids]
  BY DEF TypeOK, Event, Copy, Piece, Sinks, SinkNames

\* The records in which the tables and the pieces of work live.
LEMMA Records ==
    /\ NoChunk \in Piece /\ NoChunk.key = NoKey
    /\ \A k \in Keys \cup {NoKey}, r \in Row : [key |-> k, row |-> r] \in Piece
    /\ \A v \in 0..LiveVersion(MaxEvents), r \in Row :
           [version |-> v, row |-> r] \in Copy
    /\ \A c \in Copy : /\ c.version \in 0..LiveVersion(MaxEvents) /\ c.version \in Nat /\ c.row \in Row
                       /\ c = [version |-> c.version, row |-> c.row]
    /\ \A c \in Piece : c.key \in Keys \cup {NoKey} /\ c.row \in Row
    /\ \A v \in 0..MaxPasses : v \in 0..LiveVersion(MaxEvents)
    /\ \A i \in 1..MaxEvents : LiveVersion(i) \in 0..LiveVersion(MaxEvents)
                               /\ LiveVersion(i) \in Nat /\ LiveVersion(i) > MaxPasses
<1>1. NoChunk \in Piece /\ NoChunk.key = NoKey
  BY Numbers DEF NoChunk, Piece
<1>2. \A c \in Copy : c.version \in 0..LiveVersion(MaxEvents) /\ c.row \in Row
                      /\ c = [version |-> c.version, row |-> c.row]
  BY DEF Copy
<1>3. 0..LiveVersion(MaxEvents) \subseteq Nat
  BY Numbers
<1>4. /\ \A v \in 0..MaxPasses : v \in 0..LiveVersion(MaxEvents)
      /\ \A i \in 1..MaxEvents : LiveVersion(i) \in 0..LiveVersion(MaxEvents)
                                 /\ LiveVersion(i) \in Nat /\ LiveVersion(i) > MaxPasses
  BY Numbers
<1>5. /\ \A k \in Keys \cup {NoKey}, r \in Row : [key |-> k, row |-> r] \in Piece
      /\ \A c \in Piece : c.key \in Keys \cup {NoKey} /\ c.row \in Row
      /\ \A v \in 0..LiveVersion(MaxEvents), r \in Row : [version |-> v, row |-> r] \in Copy
  BY DEF Piece, Copy
<1> QED
  BY <1>1, <1>2, <1>3, <1>4, <1>5

-------------------------------------------------------------------------------
(***************************************************************************)
(* What the helpers of the actions do.                                     *)
(***************************************************************************)

\* A batch of changes in ClickHouse: the last change of a key replaces the row
\* unless the row is newer.
LEMMA ClickHouseFacts ==
    ASSUME TypeOK, NEW B, B \subseteq Ids, ClickHouseApply(B)
    PROVE  /\ ch' \in [Keys -> Copy]
           /\ \A k \in Keys :
                 /\ ~Has(B, k) => ch'[k] = ch[k]
                 /\ Has(B, k) => \E i \in LastOf(B, k) :
                        ch'[k] = IF LiveVersion(i) >= ch[k].version
                                 THEN [version |-> LiveVersion(i), row |-> events[i].row]
                                 ELSE ch[k]
<1>1. ch \in [Keys -> Copy]
  BY Named
<1>2. ASSUME NEW k \in Keys, ~Has(B, k) PROVE ch'[k] = ch[k]
  <2>1. LastOf(B, k) = {}
    BY <1>2, LastExists
  <2> QED
    BY <2>1 DEF ClickHouseApply
<1>3. ASSUME NEW k \in Keys, Has(B, k)
      PROVE  \E i \in LastOf(B, k) : ch'[k] = ReplacingMerge(k, LiveVersion(i), events[i].row)
  <2>1. LastOf(B, k) # {}
    BY <1>3, LastExists
  <2> DEFINE i == CHOOSE i \in LastOf(B, k) : TRUE
  <2>2. i \in LastOf(B, k)
    BY <2>1
  <2>3. ch'[k] = ReplacingMerge(k, LiveVersion(i), events[i].row)
    BY <2>1 DEF ClickHouseApply
  <2> QED
    BY <2>2, <2>3
<1>4. ASSUME NEW k \in Keys PROVE ch'[k] \in Copy
  <2>1. CASE ~Has(B, k)
    BY <1>1, <1>2, <2>1
  <2>2. CASE Has(B, k)
    <3>1. PICK i \in LastOf(B, k) : ch'[k] = ReplacingMerge(k, LiveVersion(i), events[i].row)
      BY <1>3, <2>2
    <3>2. i \in Ids /\ i \in 1..MaxEvents /\ events[i].row \in Row
      BY <3>1, LastExists, IdsAreNumbers
    <3>3. [version |-> LiveVersion(i), row |-> events[i].row] \in Copy
      BY <3>2, Records
    <3> QED
      BY <1>1, <3>1, <3>3 DEF ReplacingMerge
  <2> QED
    BY <2>1, <2>2
<1>5. ch' \in [Keys -> Copy]
  <2>1. ch' = [k \in Keys |-> ch'[k]]
    BY DEF ClickHouseApply
  <2> QED
    BY <2>1, <1>4
<1> QED
  BY <1>2, <1>3, <1>5 DEF ReplacingMerge

\* A batch of changes in Qdrant: the last change of a key is what its point holds.
LEMMA QdrantFacts ==
    ASSUME TypeOK, NEW B, B \subseteq Ids, QdrantApply(B)
    PROVE  /\ qd' \in [Keys -> Row]
           /\ \A k \in Keys :
                 /\ ~Has(B, k) => qd'[k] = qd[k]
                 /\ Has(B, k) => \E i \in LastOf(B, k) : qd'[k] = events[i].row
<1>1. qd \in [Keys -> Row]
  BY Named
<1>2. ASSUME NEW k \in Keys, ~Has(B, k) PROVE qd'[k] = qd[k]
  <2>1. LastOf(B, k) = {}
    BY <1>2, LastExists
  <2> QED
    BY <2>1 DEF QdrantApply
<1>3. ASSUME NEW k \in Keys, Has(B, k)
      PROVE  \E i \in LastOf(B, k) : qd'[k] = events[i].row
  <2>1. LastOf(B, k) # {}
    BY <1>3, LastExists
  <2> DEFINE i == CHOOSE i \in LastOf(B, k) : TRUE
  <2>2. i \in LastOf(B, k)
    BY <2>1
  <2>3. qd'[k] = events[i].row
    BY <2>1 DEF QdrantApply
  <2> QED
    BY <2>2, <2>3
<1>4. ASSUME NEW k \in Keys PROVE qd'[k] \in Row
  <2>1. CASE ~Has(B, k)
    BY <1>1, <1>2, <2>1
  <2>2. CASE Has(B, k)
    <3>1. PICK i \in LastOf(B, k) : qd'[k] = events[i].row
      BY <1>3, <2>2
    <3> QED
      BY <3>1, LastExists, IdsAreNumbers
  <2> QED
    BY <2>1, <2>2
<1>5. qd' \in [Keys -> Row]
  <2>1. qd' = [k \in Keys |-> qd'[k]]
    BY DEF QdrantApply
  <2> QED
    BY <2>1, <1>4
<1> QED
  BY <1>2, <1>3, <1>5

\* However Step ends, the pump lets go of its batch and, unless it stops, has
\* attempts left.
LetGo ==
    /\ pc' \in {"fetch", "stopped"} /\ batch' = {} /\ sink' = 1
    /\ attempt' \in Nat /\ (MaxRetry > 0 => attempt' <= MaxRetry)
    /\ MaxRetry > 0 /\ pc' # "stopped" => attempt' < MaxRetry

LEMMA StepErrorFacts ==
    ASSUME TypeOK, PumpInv, pc # "stopped", StepError
    PROVE  LetGo
<1>1. attempt \in Nat /\ MaxRetry \in Nat /\ (MaxRetry > 0 => attempt < MaxRetry)
  BY Named, Numbers DEF PumpInv
<1>2. /\ attempt' = IF MaxRetry = 0 THEN 0 ELSE attempt + 1
      /\ pc' = IF MaxRetry > 0 /\ attempt + 1 >= MaxRetry THEN "stopped" ELSE "fetch"
      /\ batch' = {} /\ sink' = 1
  BY DEF StepError
<1> QED
  BY <1>1, <1>2 DEF LetGo

LEMMA StepDoneFacts ==
    ASSUME StepDone
    PROVE  LetGo /\ pc' = "fetch"
<1>1. attempt' = 0 /\ pc' = "fetch" /\ batch' = {} /\ sink' = 1
  BY DEF StepDone
<1> QED
  BY <1>1, Numbers DEF LetGo

\* What Fetch does with the batch C that Drain returned.
LEMMA FetchFacts ==
    ASSUME TypeOK, Fetch
    PROVE  \E C \in SUBSET (visible \ published) :
              /\ \A i \in C, j \in (visible \ published) \ C : i < j
              /\ visible' = visible \ C
              /\ \/ C \cap Live = {} /\ StepDone
                 \/ /\ C \cap Live # {} /\ pc' = "apply" /\ batch' = C \cap Live /\ sink' = 1
                    /\ attempt' = attempt
<1>1. PICK C \in FirstBatch(visible \ published, Batch) :
           /\ visible' = visible \ C
           /\ IF C \cap Live = {} THEN StepDone
              ELSE /\ pc' = "apply" /\ batch' = C \cap Live
                   /\ sink' = 1 /\ UNCHANGED attempt
  BY DEF Fetch
<1>2. C \in SUBSET (visible \ published) /\ \A i \in C, j \in (visible \ published) \ C : i < j
  BY <1>1, Zenon DEF FirstBatch
<1> QED
  BY <1>1, <1>2, Zenon

\* A fault is one more, within the bound.
LEMMA FaultFacts ==
    ASSUME TypeOK, Fault
    PROVE  faults' \in 0..MaxFaults /\ faults' # 0
<1>1. faults \in 0..MaxFaults /\ MaxFaults \in Nat
  BY Named, Numbers
<1> QED
  BY <1>1 DEF Fault

-------------------------------------------------------------------------------
(***************************************************************************)
(* Type correctness.                                                       *)
(***************************************************************************)

IdsTyped    == published \subseteq Ids /\ visible \subseteq Ids /\ batch \subseteq Ids
               /\ applied \in [Sinks -> SUBSET Ids]
EventsTyped == events \in Seq(Event) /\ Len(events) <= MaxEvents
CopiesTyped == src \in [Keys -> Row] /\ ch \in [Keys -> Copy] /\ qd \in [Keys -> Row]
PumpTyped   == /\ pc \in {"fetch", "apply", "commit", "stopped"} /\ sink \in 1..2
               /\ attempt \in Nat /\ (MaxRetry > 0 => attempt <= MaxRetry)
ReseedTyped == /\ rpc \in {"idle", "chunk", "read", "apply", "persist", "done"}
               /\ pass \in 0..MaxPasses /\ cursor \in Keys \cup {NoKey} /\ chunk \in Piece
RestTyped   == mode \in Modes /\ faults \in 0..MaxFaults

\* The type invariant in parts.
LEMMA Parts ==
    TypeOK <=> IdsTyped /\ EventsTyped /\ CopiesTyped /\ PumpTyped /\ ReseedTyped /\ RestTyped
  BY Named DEF IdsTyped, EventsTyped, CopiesTyped, PumpTyped, ReseedTyped, RestTyped

LEMMA PartsNext ==
    IdsTyped' /\ EventsTyped' /\ CopiesTyped' /\ PumpTyped' /\ ReseedTyped' /\ RestTyped'
      => TypeOK'
  BY DEF IdsTyped, EventsTyped, CopiesTyped, PumpTyped, ReseedTyped, RestTyped,
         TypeOK, Event, Copy, Piece, Sinks, SinkNames

\* An emit keeps the types of the outbox and of the sets of ids.
LEMMA EmitTyped ==
    ASSUME TypeOK, NEW kind \in {"mirror", "foreign"}, NEW k \in Keys \cup {NoKey}, NEW r \in Row,
           Emit(kind, k, r), UNCHANGED <<published, batch, applied>>
    PROVE  IdsTyped' /\ EventsTyped'
<1>1. /\ events' \in Seq(Event) /\ Len(events') <= MaxEvents
      /\ Ids \subseteq Ids' /\ visible' = visible \cup {Len(events) + 1} /\ Len(events) + 1 \in Ids'
  BY EmitFacts
<1>2. IdsTyped
  BY Parts
<1> QED
  BY <1>1, <1>2 DEF IdsTyped, EventsTyped

\* The rows that the application and a repair write are rows.
LEMMA NewRow ==
    ASSUME TypeOK, Len(events) < MaxEvents
    PROVE  Len(events) + 1 \in Row
<1>1. Len(events) \in Nat /\ MaxEvents \in Nat
  BY IdsAreNumbers, Numbers
<1>2. Len(events) + 1 \in 1..MaxEvents
  BY <1>1
<1> QED
  BY <1>2, Numbers

\* What the application's writes do, in one form.
LEMMA WriteFacts ==
    ASSUME TypeOK, NEW k \in Keys, Put(k) \/ Delete(k)
    PROVE  \E r \in Row : WriteRow(k, r)
<1>1. Put(k) => Len(events) + 1 \in Row
  BY NewRow DEF Put, WriteRow, Emit
<1> QED
  BY <1>1, Numbers DEF Put, Delete

USE DEF outbox, pump, reseeder

\* One step of any action keeps the types.
LEMMA TypeNext ==
    ASSUME TypeOK, PumpInv, ReseedInv, Next
    PROVE  TypeOK'
<1> USE DEF PumpTyped, ReseedTyped, RestTyped, CopiesTyped
<1>0. /\ IdsTyped /\ EventsTyped /\ CopiesTyped /\ PumpTyped /\ ReseedTyped /\ RestTyped
      /\ mode' = mode
  BY Parts DEF Next
<1>1. ASSUME NEW k \in Keys, NEW r \in Row, WriteRow(k, r) PROVE TypeOK'
  <2>1. Emit("mirror", k, r) /\ UNCHANGED <<published, ch, qd, pump, reseeder, faults, applied>>
    BY <1>1 DEF WriteRow
  <2>2. IdsTyped' /\ EventsTyped'
    BY <2>1, EmitTyped, Zenon
  <2>3. src' \in [Keys -> Row]
    BY <1>0, <1>1 DEF WriteRow
  <2> QED
    BY <1>0, <2>1, <2>2, <2>3, PartsNext
<1>2. ASSUME EmitForeign PROVE TypeOK'
  <2>1. Emit("foreign", NoKey, Absent)
        /\ UNCHANGED <<published, src, ch, qd, pump, reseeder, faults, applied>>
    BY <1>2 DEF EmitForeign
  <2>2. IdsTyped' /\ EventsTyped'
    BY <2>1, EmitTyped, Numbers, Zenon
  <2> QED
    BY <1>0, <2>1, <2>2, PartsNext
<1>3. ASSUME RepairChunk PROVE TypeOK'
  <2>1. /\ Emit("mirror", chunk.key, src[chunk.key]) /\ rpc = "read" /\ rpc' = "persist"
        /\ UNCHANGED <<published, src, ch, qd, pump, pass, cursor, chunk, faults, applied>>
    BY <1>3 DEF RepairChunk
  <2>2. chunk.key \in Keys \cup {NoKey} /\ src[chunk.key] \in Row
    BY <1>0, <2>1 DEF ReseedInv
  <2>3. IdsTyped' /\ EventsTyped'
    BY <2>1, <2>2, EmitTyped, Zenon
  <2> QED
    BY <1>0, <2>1, <2>3, PartsNext
<1>4. ASSUME NEW i, BecomeVisible(i) PROVE TypeOK'
  <2>1. i \in Ids /\ visible' = visible \cup {i}
        /\ UNCHANGED <<events, published, src, ch, qd, pump, reseeder, faults, applied>>
    BY <1>4 DEF BecomeVisible
  <2>2. IdsTyped' /\ EventsTyped'
    BY <1>0, <2>1, EventsKept DEF IdsTyped, EventsTyped
  <2> QED
    BY <1>0, <2>1, <2>2, PartsNext
<1>5. ASSUME UNCHANGED <<events, applied>>, published' \subseteq Ids, visible' \subseteq Ids,
             batch' \subseteq Ids
      PROVE  IdsTyped' /\ EventsTyped'
  BY <1>0, <1>5, EventsKept DEF IdsTyped, EventsTyped
<1>6. ASSUME Fetch PROVE TypeOK'
  <2>1. UNCHANGED <<events, published, src, ch, qd, reseeder, faults, applied>> /\ pc = "fetch"
    BY <1>6 DEF Fetch
  <2>2. PICK C \in SUBSET (visible \ published) :
              /\ visible' = visible \ C
              /\ \/ C \cap Live = {} /\ StepDone
                 \/ /\ C \cap Live # {} /\ pc' = "apply" /\ batch' = C \cap Live /\ sink' = 1
                    /\ attempt' = attempt
    BY <1>6, FetchFacts
  <2>3. PumpTyped' /\ batch' \subseteq Ids
    <3>1. CASE StepDone
      BY <3>1, StepDoneFacts DEF LetGo
    <3>2. CASE pc' = "apply" /\ batch' = C \cap Live /\ sink' = 1 /\ attempt' = attempt
      BY <1>0, <3>2, IdsAreNumbers
    <3> QED
      BY <2>2, <3>1, <3>2
  <2>4. IdsTyped' /\ EventsTyped'
    BY <1>0, <1>5, <2>1, <2>2, <2>3 DEF IdsTyped
  <2> QED
    BY <1>0, <2>1, <2>3, <2>4, PartsNext
<1>7. ASSUME LetGo PROVE PumpTyped' /\ batch' \subseteq Ids
  BY <1>7 DEF LetGo
<1>8. ASSUME FetchError PROVE TypeOK'
  <2>1. /\ UNCHANGED <<events, published, src, ch, qd, reseeder, applied>> /\ Fault
        /\ LetGo
    BY <1>8, StepErrorFacts DEF FetchError
  <2>2. visible' \subseteq visible
    BY <1>8, Zenon DEF FetchError
  <2>3. IdsTyped' /\ EventsTyped'
    BY <1>0, <1>5, <1>7, <2>1, <2>2 DEF IdsTyped
  <2> QED
    BY <1>0, <1>7, <2>1, <2>3, FaultFacts, PartsNext
<1>9. ASSUME Apply PROVE TypeOK'
  <2> DEFINE s == SinkNames[sink]
  <2>1. /\ pc = "apply" /\ UNCHANGED <<outbox, src, batch, attempt, reseeder, faults>>
        /\ \/ s = "clickhouse" /\ ClickHouseApply(batch) /\ UNCHANGED qd
           \/ s = "qdrant" /\ QdrantApply(batch) /\ UNCHANGED ch
        /\ applied' = [applied EXCEPT ![s] = @ \cup batch]
        /\ IF sink < 2 THEN sink' = sink + 1 /\ UNCHANGED pc
                       ELSE pc' = "commit" /\ UNCHANGED sink
    BY <1>9 DEF Apply, SinkNames
  <2> HIDE DEF s
  <2>2. CopiesTyped'
    BY <1>0, <2>1, ClickHouseFacts, QdrantFacts DEF IdsTyped
  <2>3. IdsTyped' /\ EventsTyped'
    BY <1>0, <2>1, EventsKept DEF IdsTyped, EventsTyped
  <2>4. PumpTyped'
    BY <1>0, <2>1
  <2> QED
    BY <1>0, <2>1, <2>2, <2>3, <2>4, PartsNext
<1>10. ASSUME ApplyError PROVE TypeOK'
  <2>1. UNCHANGED <<outbox, src, reseeder, applied>> /\ LetGo
    BY <1>10, StepErrorFacts DEF ApplyError
  <2>2. CopiesTyped' /\ faults' \in 0..MaxFaults
    <3>1. CASE UNCHANGED <<ch, qd, faults>>
      BY <1>0, <2>1, <3>1
    <3>2. CASE Fault /\ (ClickHouseApply(batch) \/ UNCHANGED ch) /\ UNCHANGED qd
      BY <1>0, <2>1, <3>2, ClickHouseFacts, FaultFacts DEF IdsTyped
    <3>3. CASE Fault /\ (\E P \in QdrantPrefixes(batch) : QdrantApply(P)) /\ UNCHANGED ch
      <4>1. PICK P \in SUBSET batch : QdrantApply(P)
        BY <3>3, Zenon DEF QdrantPrefixes
      <4> QED
        BY <1>0, <2>1, <3>3, <4>1, QdrantFacts, FaultFacts DEF IdsTyped
    <3> QED
      BY <1>10, <3>1, <3>2, <3>3 DEF ApplyError
  <2>3. IdsTyped' /\ EventsTyped'
    BY <1>0, <1>5, <1>7, <2>1 DEF IdsTyped
  <2> QED
    BY <1>0, <1>7, <2>1, <2>2, <2>3, PartsNext
<1>11. ASSUME Commit \/ CommitError PROVE TypeOK'
  <2>1. /\ UNCHANGED <<events, visible, src, ch, qd, reseeder, applied>> /\ LetGo
        /\ published' \in {published, published \cup batch}
        /\ Fault \/ UNCHANGED faults
    BY <1>11, StepErrorFacts, StepDoneFacts DEF Commit, CommitError
  <2>2. IdsTyped' /\ EventsTyped'
    BY <1>0, <1>5, <1>7, <2>1 DEF IdsTyped
  <2> QED
    BY <1>0, <1>7, <2>1, <2>2, FaultFacts, PartsNext
<1>12. ASSUME Restart PROVE TypeOK'
  <2>1. /\ UNCHANGED <<outbox, src, ch, qd, pass, cursor, applied>> /\ LetGo /\ Fault
        /\ rpc' \in {"idle", "done"} /\ chunk' = NoChunk
    BY <1>12, StepDoneFacts DEF Restart
  <2>2. IdsTyped' /\ EventsTyped'
    BY <1>0, <1>5, <1>7, <2>1 DEF IdsTyped
  <2> QED
    BY <1>0, <1>7, <2>1, <2>2, FaultFacts, Records, PartsNext
<1>13. ASSUME UNCHANGED <<outbox, src, qd, pump, applied>>, ch' \in [Keys -> Copy],
              rpc' \in {"idle", "chunk", "read", "apply", "persist", "done"},
              pass' \in 0..MaxPasses, cursor' \in Keys \cup {NoKey}, chunk' \in Piece,
              faults' \in 0..MaxFaults
       PROVE  TypeOK'
  <2>1. IdsTyped' /\ EventsTyped'
    BY <1>0, <1>5, <1>13 DEF IdsTyped
  <2> QED
    BY <1>0, <1>13, <2>1, PartsNext
<1>14. ASSUME ReseedRun PROVE TypeOK'
  <2>1. pass + 1 \in 0..MaxPasses
    BY <1>0, <1>14, Numbers DEF ReseedRun
  <2> QED
    BY <1>0, <1>13, <1>14, <2>1 DEF ReseedRun
<1>15. ASSUME NEW k \in Keys, FetchKeys(k) PROVE TypeOK'
  <2>1. [key |-> k, row |-> Absent] \in Piece
    BY Records, Numbers
  <2> QED
    BY <1>0, <1>13, <1>15, <2>1 DEF FetchKeys
<1>16. ASSUME ChunkEmpty \/ ReseedComplete PROVE TypeOK'
  BY <1>0, <1>13, <1>16 DEF ChunkEmpty, ReseedComplete
<1>17. ASSUME FillRead PROVE TypeOK'
  <2>1. chunk.key \in Keys /\ src[chunk.key] \in Row
    BY <1>0, <1>17 DEF FillRead, ReseedInv
  <2>2. [chunk EXCEPT !.row = src[chunk.key]] \in Piece
    BY <1>0, <2>1 DEF Piece
  <2> QED
    BY <1>0, <1>13, <1>17, <2>2 DEF FillRead
<1>18. ASSUME FillApply PROVE TypeOK'
  <2>1. chunk.key \in Keys /\ chunk.row \in Row /\ pass \in 0..LiveVersion(MaxEvents)
    BY <1>0, <1>18, Records DEF FillApply, ReseedInv
  <2>2. ReplacingMerge(chunk.key, pass, chunk.row) \in Copy
    BY <1>0, <2>1, Records DEF ReplacingMerge
  <2>3. ch' \in [Keys -> Copy]
    BY <1>0, <1>18, <2>1, <2>2 DEF FillApply
  <2> QED
    BY <1>0, <1>13, <1>18, <2>3 DEF FillApply
<1>19. ASSUME PersistProgress PROVE TypeOK'
  <2>1. chunk.key \in Keys
    BY <1>19 DEF PersistProgress, ReseedInv
  <2> QED
    BY <1>0, <1>13, <1>19, <2>1, Records DEF PersistProgress
<1>20. ASSUME ReseedError PROVE TypeOK'
  BY <1>0, <1>13, <1>20, Records, FaultFacts DEF ReseedError
<1>21. ASSUME App PROVE TypeOK'
  BY <1>21, <1>1, <1>2, WriteFacts DEF App
<1> QED
  BY <1>3, <1>4, <1>6, <1>8, <1>9, <1>10, <1>11, <1>12, <1>14, <1>15, <1>16, <1>17, <1>18,
     <1>19, <1>20, <1>21, Zenon DEF Next, Pump, Reseeder

-------------------------------------------------------------------------------
(***************************************************************************)
(* Steps that emit an event.                                               *)
(***************************************************************************)

\* The sets of ids that the invariants speak of hold ids.
LEMMA SetsOfIds ==
    ASSUME TypeOK, PumpInv
    PROVE  /\ applied["clickhouse"] \subseteq Live /\ applied["qdrant"] \subseteq Live
           /\ published \subseteq applied["clickhouse"] /\ published \subseteq applied["qdrant"]
           /\ published \subseteq Live /\ batch \subseteq Live
           /\ Live \subseteq Ids /\ Live \subseteq Nat
           /\ applied \in [Sinks -> SUBSET Ids]
<1>1. Live \subseteq Ids /\ Ids \subseteq Nat
  BY IdsAreNumbers
<1> QED
  BY <1>1, Named DEF PumpInv, Sinks

\* What a set of ids says of the events is the same after an emit.
LEMMA EmitKeepsSet ==
    ASSUME TypeOK, NEW kind \in {"mirror", "foreign"}, NEW k \in Keys \cup {NoKey}, NEW r \in Row,
           Emit(kind, k, r), applied["qdrant"] \subseteq Ids, UNCHANGED applied
    PROVE  \A j : /\ Has(applied["qdrant"], j)' <=> Has(applied["qdrant"], j)
                  /\ LastOf(applied["qdrant"], j)' = LastOf(applied["qdrant"], j)
<1>1. \A i \in applied["qdrant"] : events'[i] = events[i]
  BY EmitFacts
<1> QED
  BY <1>1 DEF Has, LastOf

\* A step that emits an event and moves neither the pump nor a sink keeps the
\* invariant, but for the reseeder's part, when the source holds what it emits.
LEMMA EmitStep ==
    ASSUME TypeOK, MirrorInv,
           NEW kind \in {"mirror", "foreign"}, NEW k \in Keys \cup {NoKey}, NEW r \in Row,
           Emit(kind, k, r),
           kind = "mirror" => src'[k] = r,
           \A j \in Keys : (kind = "mirror" => j # k) => src'[j] = src[j],
           UNCHANGED <<published, ch, qd, pump, mode, faults, applied>>
    PROVE  SourceInv' /\ PumpInv' /\ DownInv' /\ ClickHouseInv' /\ QdrantInv'
<1> DEFINE n == Len(events) + 1
<1>0. /\ SourceInv /\ PumpInv /\ DownInv /\ ClickHouseInv /\ QdrantInv
      /\ applied["clickhouse"] \subseteq Live /\ applied["qdrant"] \subseteq Live
      /\ published \subseteq Live /\ batch \subseteq Live
      /\ Live \subseteq Ids /\ Live \subseteq Nat
  BY SetsOfIds DEF MirrorInv
<1>1. /\ \A i \in Ids : events'[i] = events[i] /\ i < n
      /\ Live' = IF kind = "mirror" THEN Live \cup {n} ELSE Live
      /\ visible' = visible \cup {n}
  BY EmitFacts
<1>2. events'[n] = [kind |-> kind, key |-> k, row |-> r]
  BY EmitFacts
<1>3. events'[n].row = r
  BY <1>2
<1>4. /\ Live \subseteq Live'
      /\ \A j : Changed(j)' <=> (Changed(j) \/ (kind = "mirror" /\ j = k))
      /\ \A j : (kind = "mirror" => j # k) => LastOf(Live, j)' = LastOf(Live, j)
      /\ kind = "mirror" => n \in LastOf(Live, k)'
  BY EmitKeeps
<1> HIDE DEF n
<1>5. SourceInv'
  <2> SUFFICES ASSUME NEW j \in Keys
               PROVE  /\ Changed(j)' => \E l \in LastOf(Live, j)' : src'[j] = events'[l].row
                      /\ ~Changed(j)' => src'[j] = IF j \in OldKeys THEN 0 ELSE Absent
    BY DEF SourceInv
  <2>1. CASE kind = "mirror" /\ j = k
    BY <1>3, <1>4, <2>1
  <2>2. CASE kind = "mirror" => j # k
    <3>1. src'[j] = src[j] /\ (Changed(j)' <=> Changed(j)) /\ LastOf(Live, j)' = LastOf(Live, j)
      BY <1>4, <2>2
    <3>2. ASSUME NEW l \in LastOf(Live, j) PROVE events'[l] = events[l]
      BY <1>0, <1>1, <3>2 DEF LastOf
    <3> QED
      BY <1>0, <3>1, <3>2 DEF SourceInv
  <2> QED
    BY <2>1, <2>2
<1>6. PumpInv'
  BY <1>0, <1>4 DEF PumpInv
<1>7. DownInv'
  BY <1>0 DEF DownInv
<1>8. ClickHouseInv'
  <2> SUFFICES ASSUME NEW j \in Keys
      PROVE
        /\ ch[j].version > MaxSeedVersion =>
               \E i \in Live' : /\ events'[i].key = j
                                /\ ch[j] = [version |-> LiveVersion(i), row |-> events'[i].row]
        /\ \A i \in applied["clickhouse"] : events'[i].key = j => LiveVersion(i) <= ch[j].version
        /\ ~Changed(j)' => \/ ch[j] = [version |-> 0, row |-> Absent]
                           \/ ch[j].version >= 1 /\ ch[j].row = 0 /\ j \in OldKeys /\ mode = "fill"
    BY DEF ClickHouseInv
  <2>1. /\ ch[j].version > MaxSeedVersion =>
               \E i \in Live : /\ events[i].key = j
                               /\ ch[j] = [version |-> LiveVersion(i), row |-> events[i].row]
        /\ \A i \in applied["clickhouse"] : events[i].key = j => LiveVersion(i) <= ch[j].version
        /\ ~Changed(j) => \/ ch[j] = [version |-> 0, row |-> Absent]
                          \/ ch[j].version >= 1 /\ ch[j].row = 0 /\ j \in OldKeys /\ mode = "fill"
    BY <1>0 DEF ClickHouseInv
  <2>2. \A i \in Live : i \in Live' /\ events'[i] = events[i]
    BY <1>0, <1>1, <1>4
  <2> QED
    BY <1>0, <1>4, <2>1, <2>2, Zenon
<1>9. QdrantInv'
  <2>1. /\ \A j : Has(applied["qdrant"], j)' <=> Has(applied["qdrant"], j)
        /\ \A j : LastOf(applied["qdrant"], j)' = LastOf(applied["qdrant"], j)
    BY <1>0, EmitKeepsSet
  <2>2. \A j : \A l \in LastOf(applied["qdrant"], j) : events'[l] = events[l]
    BY <1>0, <1>1 DEF LastOf
  <2>3. PointsInv => PointsInv'
    BY <2>1, <2>2 DEF PointsInv
  <2>4. InOrder => InOrder'
    <3>1. \A i \in published \cup batch : i < n
      BY <1>0, <1>1
    <3> QED
      BY <3>1, <1>1 DEF InOrder
  <2> QED
    BY <1>0, <2>3, <2>4 DEF QdrantInv
<1> QED
  BY <1>5, <1>6, <1>7, <1>8, <1>9

-------------------------------------------------------------------------------
(***************************************************************************)
(* Steps of the pump, the reseeder and the clock.                          *)
(***************************************************************************)

\* Live changes are numbered above the seed band, in the order of their ids.
LEMMA Versions ==
    ASSUME TypeOK
    PROVE  /\ \A i \in Live : LiveVersion(i) \in Nat /\ LiveVersion(i) > MaxPasses
           /\ \A i, j \in Live : i <= j => LiveVersion(i) <= LiveVersion(j)
           /\ \A i, j \in Live : LiveVersion(i) <= LiveVersion(j) => i <= j
           /\ \A i, j \in Live : LiveVersion(i) = LiveVersion(j) => i = j
<1>1. Live \subseteq Nat /\ MaxPasses \in Nat /\ \A i : LiveVersion(i) = MaxPasses + 1 + i
  BY IdsAreNumbers, Numbers
<1> QED
  BY <1>1

\* The parts of the invariant that a step keeps by leaving its state alone.
LEMMA Stays ==
    ASSUME UNCHANGED <<events, mode>>
    PROVE  /\ SourceInv /\ UNCHANGED src => SourceInv'
           /\ ClickHouseInv /\ UNCHANGED <<ch, applied["clickhouse"]>> => ClickHouseInv'
           /\ PointsInv /\ UNCHANGED <<qd, applied["qdrant"]>> => PointsInv'
<1>1. /\ Ids' = Ids /\ Live' = Live
      /\ \A k : Changed(k)' <=> Changed(k)
      /\ \A k : LastOf(Live, k)' = LastOf(Live, k)
  BY EventsKept
<1>2. SourceInv /\ UNCHANGED src => SourceInv'
  BY <1>1 DEF SourceInv
<1>3. ClickHouseInv /\ UNCHANGED <<ch, applied["clickhouse"]>> => ClickHouseInv'
  <2> SUFFICES ASSUME ClickHouseInv, UNCHANGED <<ch, applied["clickhouse"]>> PROVE ClickHouseInv'
    OBVIOUS
  <2> QED
    BY <1>1 DEF ClickHouseInv
<1>4. PointsInv /\ UNCHANGED <<qd, applied["qdrant"]>> => PointsInv'
  BY DEF PointsInv, Has, LastOf
<1> QED
  BY <1>2, <1>3, <1>4

\* The reseeder's part, when no row loses its version.
LEMMA ReseedStays ==
    ASSUME UNCHANGED <<events, mode, reseeder>>, ReseedInv,
           \A k \in Keys : ch[k].version >= 1 => ch'[k].version >= 1
    PROVE  ReseedInv'
<1>1. \A k : Changed(k)' <=> Changed(k)
  BY EventsKept
<1>2. \A k \in Keys : Covered(k) => Covered(k)'
  BY <1>1 DEF Covered
<1> QED
  BY <1>1, <1>2 DEF ReseedInv

\* A batch that the pump holds, written to ClickHouse: recorded as accepted, or
\* lost with the answer.
LEMMA ClickHouseStep ==
    ASSUME TypeOK, MirrorInv, ClickHouseApply(batch), UNCHANGED <<events, mode>>,
           applied'["clickhouse"] \in {applied["clickhouse"], applied["clickhouse"] \cup batch}
    PROVE  /\ ClickHouseInv'
           /\ \A k \in Keys : ch[k].version >= 1 => ch'[k].version >= 1
<1>0. /\ batch \subseteq Live /\ Live \subseteq Ids /\ Live \subseteq Nat
      /\ applied["clickhouse"] \subseteq Live
      /\ Live' = Live /\ (\A k : Changed(k)' <=> Changed(k))
      /\ MaxPasses \in Nat
      /\ \A i \in Live : LiveVersion(i) \in Nat /\ LiveVersion(i) > MaxPasses
      /\ \A i, j \in Live : i <= j => LiveVersion(i) <= LiveVersion(j)
  BY SetsOfIds, EventsKept, Numbers, Versions DEF MirrorInv
<1> SUFFICES ASSUME NEW k \in Keys
      PROVE
        /\ ch[k].version >= 1 => ch'[k].version >= 1
        /\ ch'[k].version > MaxSeedVersion =>
               \E i \in Live : /\ events[i].key = k
                               /\ ch'[k] = [version |-> LiveVersion(i), row |-> events[i].row]
        /\ \A i \in applied["clickhouse"] \cup batch :
               events[i].key = k => LiveVersion(i) <= ch'[k].version
        /\ ~Changed(k) => \/ ch'[k] = [version |-> 0, row |-> Absent]
                          \/ ch'[k].version >= 1 /\ ch'[k].row = 0 /\ k \in OldKeys /\ mode = "fill"
  BY <1>0 DEF ClickHouseInv
<1>1. /\ ch[k].version > MaxSeedVersion =>
               \E i \in Live : /\ events[i].key = k
                               /\ ch[k] = [version |-> LiveVersion(i), row |-> events[i].row]
      /\ \A i \in applied["clickhouse"] : events[i].key = k => LiveVersion(i) <= ch[k].version
      /\ ~Changed(k) => \/ ch[k] = [version |-> 0, row |-> Absent]
                        \/ ch[k].version >= 1 /\ ch[k].row = 0 /\ k \in OldKeys /\ mode = "fill"
  BY DEF MirrorInv, ClickHouseInv
<1>2. ch[k].version \in Nat
  BY Named, Records
<1>3. CASE ~Has(batch, k)
  <2>1. ch'[k] = ch[k]
    BY <1>0, <1>3, ClickHouseFacts
  <2> QED
    BY <1>1, <1>3, <2>1, Zenon DEF Has
<1>4. CASE Has(batch, k)
  <2>1. PICK i \in LastOf(batch, k) :
           ch'[k] = IF LiveVersion(i) >= ch[k].version
                    THEN [version |-> LiveVersion(i), row |-> events[i].row]
                    ELSE ch[k]
    BY <1>0, <1>4, ClickHouseFacts
  <2>2. i \in batch /\ events[i].key = k /\ \A j \in batch : events[j].key = k => j <= i
    BY DEF LastOf
  <2>3. i \in Live /\ i \in Nat /\ Changed(k)
    BY <1>0, <2>2 DEF Changed
  <2>4. \A j \in batch : events[j].key = k => LiveVersion(j) <= LiveVersion(i)
    BY <1>0, <2>2, <2>3
  <2>5. LiveVersion(i) \in Nat /\ LiveVersion(i) >= 1
    BY <1>0, <2>3
  <2>6. CASE LiveVersion(i) >= ch[k].version
    <3>1. ch'[k] = [version |-> LiveVersion(i), row |-> events[i].row]
      BY <2>1, <2>6
    <3>2. ch'[k].version = LiveVersion(i)
      BY <3>1
    <3>3. \A j \in applied["clickhouse"] \cup batch :
               events[j].key = k => LiveVersion(j) <= ch'[k].version
      <4> SUFFICES ASSUME NEW j \in applied["clickhouse"] \cup batch, events[j].key = k
                   PROVE  LiveVersion(j) <= LiveVersion(i)
        BY <3>2
      <4>1. j \in Live /\ LiveVersion(j) \in Nat
        BY <1>0
      <4>2. j \in batch \/ LiveVersion(j) <= ch[k].version
        BY <1>1
      <4> QED
        BY <1>2, <2>4, <2>5, <2>6, <4>1, <4>2
    <3> QED
      BY <2>2, <2>3, <2>5, <3>1, <3>2, <3>3
  <2>7. CASE ~(LiveVersion(i) >= ch[k].version)
    <3>1. ch'[k] = ch[k] /\ LiveVersion(i) <= ch[k].version
      BY <1>2, <2>1, <2>5, <2>7
    <3>2. \A j \in batch : events[j].key = k => LiveVersion(j) <= ch'[k].version
      <4> SUFFICES ASSUME NEW j \in batch, events[j].key = k
                   PROVE  LiveVersion(j) <= ch[k].version
        BY <3>1
      <4>1. j \in Live /\ LiveVersion(j) \in Nat /\ LiveVersion(j) <= LiveVersion(i)
        BY <1>0, <2>4
      <4> QED
        BY <1>2, <2>5, <3>1, <4>1
    <3> QED
      BY <1>1, <3>1, <3>2, <2>3
  <2> QED
    BY <2>6, <2>7
<1> QED
  BY <1>3, <1>4

\* A fill writes below every live version, and only what no change has touched.
LEMMA FillStep ==
    ASSUME TypeOK, MirrorInv, FillApply, UNCHANGED mode
    PROVE  ClickHouseInv' /\ ReseedInv'
<1> DEFINE c == chunk.key
<1>0. /\ rpc = "apply" /\ rpc' = "persist"
      /\ ch' = [ch EXCEPT ![c] = ReplacingMerge(c, pass, chunk.row)]
      /\ UNCHANGED <<events, published, visible, pass, cursor, chunk, applied>>
  BY DEF FillApply
<1>1. /\ Live' = Live /\ (\A k : Changed(k)' <=> Changed(k))
      /\ Live \subseteq Nat /\ applied["clickhouse"] \subseteq Live
      /\ MaxPasses \in Nat /\ MaxSeedVersion = MaxPasses
      /\ \A i \in Live : LiveVersion(i) \in Nat
  BY <1>0, EventsKept, SetsOfIds, Numbers, Versions DEF MirrorInv
<1>2. /\ c \in Keys /\ pass \in 1..MaxPasses /\ mode = "fill"
      /\ Changed(c) \/ (chunk.row = 0 /\ c \in OldKeys)
  BY <1>0, <1>1, Named DEF MirrorInv, ReseedInv
<1>3. \A k \in Keys : ch[k] \in Copy /\ ch[k].version \in Nat
  BY Named, Records
<1>4. \A k \in Keys : k # c => ch'[k] = ch[k]
  BY <1>0, <1>2, Named
<1>5. \/ ch'[c] = ch[c] /\ pass < ch[c].version
      \/ ch'[c] = [version |-> pass, row |-> chunk.row] /\ pass >= ch[c].version
  <2>1. ch'[c] = ReplacingMerge(c, pass, chunk.row)
    BY <1>0, <1>2, Named
  <2> QED
    BY <1>2, <1>3, <2>1 DEF ReplacingMerge
<1> HIDE DEF c
<1>6. /\ ch'[c].version >= 1 /\ (ch[c].version > MaxPasses => ch'[c] = ch[c])
      /\ ch'[c].version >= ch[c].version
      /\ ch'[c].version > MaxPasses => ch'[c] = ch[c]
      /\ ~Changed(c) => ch'[c].row = 0 \/ ch'[c] = ch[c]
  BY <1>1, <1>2, <1>3, <1>5
<1>7. ClickHouseInv'
  <2> SUFFICES ASSUME NEW k \in Keys
      PROVE
        /\ ch'[k].version > MaxSeedVersion =>
               \E i \in Live : /\ events[i].key = k
                               /\ ch'[k] = [version |-> LiveVersion(i), row |-> events[i].row]
        /\ \A i \in applied["clickhouse"] : events[i].key = k => LiveVersion(i) <= ch'[k].version
        /\ ~Changed(k) => \/ ch'[k] = [version |-> 0, row |-> Absent]
                          \/ ch'[k].version >= 1 /\ ch'[k].row = 0 /\ k \in OldKeys /\ mode = "fill"
    BY <1>0, <1>1 DEF ClickHouseInv
  <2>1. /\ ch[k].version > MaxSeedVersion =>
               \E i \in Live : /\ events[i].key = k
                               /\ ch[k] = [version |-> LiveVersion(i), row |-> events[i].row]
        /\ \A i \in applied["clickhouse"] : events[i].key = k => LiveVersion(i) <= ch[k].version
        /\ ~Changed(k) => \/ ch[k] = [version |-> 0, row |-> Absent]
                          \/ ch[k].version >= 1 /\ ch[k].row = 0 /\ k \in OldKeys /\ mode = "fill"
    BY DEF MirrorInv, ClickHouseInv
  <2>2. CASE k # c
    BY <1>4, <2>1, <2>2
  <2>3. CASE k = c
    <3>1. ch'[c].version > MaxSeedVersion =>
               \E i \in Live : /\ events[i].key = c
                               /\ ch'[c] = [version |-> LiveVersion(i), row |-> events[i].row]
      BY <1>1, <1>6, <2>1, <2>3
    <3>2. \A i \in applied["clickhouse"] : events[i].key = c => LiveVersion(i) <= ch'[c].version
      <4> TAKE i \in applied["clickhouse"]
      <4>1. LiveVersion(i) \in Nat
        BY <1>1
      <4>2. events[i].key = c => LiveVersion(i) <= ch[c].version
        BY <2>1, <2>3
      <4>3. ch[c].version \in Nat /\ ch'[c].version \in Nat
        BY <1>2, <1>3, <1>5 DEF c
      <4> QED
        BY <1>6, <4>1, <4>2, <4>3
    <3>3. ~Changed(c) => ch'[c].row = 0 /\ c \in OldKeys
      <4> HAVE ~Changed(c)
      <4>1. c \in OldKeys /\ chunk.row = 0
        BY <1>2 DEF c
      <4>2. CASE ch'[c] = ch[c] /\ pass < ch[c].version
        <5>1. ch[c].version # 0
          BY <1>2, <1>3, <4>2
        <5>2. ch[c] # [version |-> 0, row |-> Absent]
          BY <5>1
        <5> QED
          BY <2>1, <2>3, <4>1, <4>2, <5>2
      <4>3. CASE ch'[c] = [version |-> pass, row |-> chunk.row]
        BY <4>1, <4>3
      <4> QED
        BY <1>5, <4>2, <4>3
    <3> QED
      BY <1>2, <1>6, <2>3, <3>1, <3>2, <3>3
  <2> QED
    BY <2>2, <2>3
<1>8. ReseedInv'
  <2>1. \A k \in Keys : Covered(k) => Covered(k)'
    BY <1>1, <1>4, <1>6 DEF Covered
  <2>2. Covered(c)'
    BY <1>0, <1>6 DEF Covered, c
  <2>3. ReseedInv
    BY DEF MirrorInv
  <2> QED
    BY <1>0, <1>2, <2>1, <2>2, <2>3 DEF ReseedInv, c
<1> QED
  BY <1>7, <1>8

\* A pump that lets go of its batch has acknowledged what every sink has accepted.
LEMMA LetGoStep ==
    ASSUME TypeOK, MirrorInv, LetGo, UNCHANGED <<events, applied, mode>>,
           \/ published' = published
           \/ pc = "commit" /\ published' = published \cup batch
    PROVE  PumpInv' /\ DownInv'
<1>1. Live' = Live
  BY EventsKept
<1>2. PumpInv'
  <2>1. PumpInv
    BY DEF MirrorInv
  <2>2. \A s \in Sinks : published' \subseteq applied[s]
    BY <2>1 DEF PumpInv
  <2> QED
    BY <1>1, <2>1, <2>2 DEF PumpInv, LetGo
<1>3. DownInv'
  <2>1. pc' # "commit" /\ sink' # 2
    BY DEF LetGo
  <2> QED
    BY <2>1 DEF DownInv, MirrorInv
<1> QED
  BY <1>2, <1>3

\* A batch in order, written to Qdrant: it overrules all that came before.
LEMMA QdrantStep ==
    ASSUME TypeOK, PumpInv, PointsInv, InOrder, pc = "apply", QdrantApply(batch),
           UNCHANGED <<events, mode>>,
           applied' = [applied EXCEPT !["qdrant"] = @ \cup batch]
    PROVE  PointsInv'
<1>1. /\ batch \subseteq Ids /\ applied["qdrant"] \subseteq Ids /\ Ids \subseteq Nat
      /\ applied'["qdrant"] = applied["qdrant"] \cup batch
  BY SetsOfIds, IdsAreNumbers DEF Sinks
<1>2. \A i \in applied["qdrant"], j \in batch : i < j
  BY DEF InOrder
<1> SUFFICES ASSUME NEW k \in Keys
      PROVE  /\ Has(applied["qdrant"], k)' =>
                    \E l \in LastOf(applied["qdrant"], k)' : qd'[k] = events[l].row
             /\ ~Has(applied["qdrant"], k)' => qd'[k] = Absent
  BY DEF PointsInv
<1>3. CASE Has(batch, k)
  <2>1. PICK i \in LastOf(batch, k) : qd'[k] = events[i].row
    BY <1>1, <1>3, QdrantFacts
  <2>2. i \in batch /\ events[i].key = k /\ \A j \in batch : events[j].key = k => j <= i
    BY DEF LastOf
  <2>3. \A j \in applied["qdrant"] \cup batch : events[j].key = k => j <= i
    <3> TAKE j \in applied["qdrant"] \cup batch
    <3>1. i \in Nat /\ j \in Nat
      BY <1>1, <2>2
    <3> QED
      BY <1>2, <2>2, <3>1
  <2>4. i \in LastOf(applied["qdrant"], k)'
    BY <1>1, <2>2, <2>3 DEF LastOf
  <2>5. Has(applied["qdrant"], k)'
    BY <1>1, <2>2 DEF Has
  <2> QED
    BY <2>1, <2>4, <2>5
<1>4. CASE ~Has(batch, k)
  <2>1. qd'[k] = qd[k]
    BY <1>1, <1>4, QdrantFacts
  <2>2. Has(applied["qdrant"], k)' <=> Has(applied["qdrant"], k)
    BY <1>1, <1>4 DEF Has
  <2>3. LastOf(applied["qdrant"], k) \subseteq LastOf(applied["qdrant"], k)'
    BY <1>1, <1>4 DEF LastOf, Has
  <2> QED
    BY <2>1, <2>2, <2>3 DEF PointsInv
<1> QED
  BY <1>3, <1>4

\* One step of any action keeps the invariant.
LEMMA MirrorNext ==
    ASSUME TypeOK, MirrorInv, Next
    PROVE  MirrorInv'
<1>0. /\ SourceInv /\ PumpInv /\ DownInv /\ ClickHouseInv /\ ReseedInv /\ QdrantInv
      /\ mode' = mode
  BY DEF MirrorInv, Next
<1>1. /\ applied["clickhouse"] \subseteq Live /\ applied["qdrant"] \subseteq Live
      /\ published \subseteq applied["clickhouse"] /\ published \subseteq applied["qdrant"]
      /\ published \subseteq Live /\ batch \subseteq Live
      /\ Live \subseteq Ids /\ Live \subseteq Nat
      /\ applied \in [Sinks -> SUBSET Ids]
  BY <1>0, SetsOfIds
<1>2. ASSUME NEW kind \in {"mirror", "foreign"}, NEW k \in Keys \cup {NoKey}, NEW r \in Row,
             Emit(kind, k, r), UNCHANGED <<ch, pass, cursor, chunk, mode>>,
             rpc' = rpc \/ (rpc = "read" /\ rpc' = "persist" /\ Covered(chunk.key)')
      PROVE  ReseedInv'
  <2>1. \A j : Changed(j) => Changed(j)'
    BY <1>2, EmitKeeps
  <2>2. \A j \in Keys : Covered(j) => Covered(j)'
    BY <1>2, <2>1 DEF Covered
  <2>3. Covered(chunk.key) => Covered(chunk.key)'
    BY <1>2, <2>1 DEF Covered
  <2> QED
    BY <1>0, <1>2, <2>1, <2>2, <2>3 DEF ReseedInv
<1>3. ASSUME NEW k \in Keys, Put(k) \/ Delete(k) PROVE MirrorInv'
  <2>1. PICK r \in Row : WriteRow(k, r)
    BY <1>3, WriteFacts
  <2>2. /\ Emit("mirror", k, r) /\ src' = [src EXCEPT ![k] = r]
        /\ UNCHANGED <<published, ch, qd, pump, reseeder, faults, applied>>
    BY <2>1 DEF WriteRow
  <2>3. src'[k] = r /\ \A j \in Keys : j # k => src'[j] = src[j]
    BY <2>2, Named
  <2>4. ReseedInv'
    BY <1>0, <1>2, <2>2
  <2>5. SourceInv' /\ PumpInv' /\ DownInv' /\ ClickHouseInv' /\ QdrantInv'
    BY <1>0, <2>2, <2>3, EmitStep
  <2> QED
    BY <2>4, <2>5 DEF MirrorInv
<1>4. ASSUME EmitForeign PROVE MirrorInv'
  <2>1. /\ Emit("foreign", NoKey, Absent) /\ Absent \in Row
        /\ UNCHANGED <<published, src, ch, qd, pump, reseeder, faults, applied>>
    BY <1>4, Numbers DEF EmitForeign
  <2>2. ReseedInv'
    BY <1>0, <1>2, <2>1
  <2>3. SourceInv' /\ PumpInv' /\ DownInv' /\ ClickHouseInv' /\ QdrantInv'
    BY <1>0, <2>1, EmitStep
  <2> QED
    BY <2>2, <2>3 DEF MirrorInv
<1>5. ASSUME RepairChunk PROVE MirrorInv'
  <2>1. /\ Emit("mirror", chunk.key, src[chunk.key]) /\ rpc = "read" /\ rpc' = "persist"
        /\ UNCHANGED <<published, src, ch, qd, pump, pass, cursor, chunk, faults, applied>>
    BY <1>5 DEF RepairChunk
  <2>2. chunk.key \in Keys /\ src[chunk.key] \in Row
    BY <1>0, <2>1, Named DEF ReseedInv
  <2>3. Covered(chunk.key)'
    <3>1. Changed(chunk.key)'
      BY <2>1, <2>2, EmitKeeps
    <3> QED
      BY <3>1 DEF Covered
  <2>4. ReseedInv'
    BY <1>0, <1>2, <2>1, <2>2, <2>3
  <2>5. SourceInv' /\ PumpInv' /\ DownInv' /\ ClickHouseInv' /\ QdrantInv'
    BY <1>0, <2>1, <2>2, EmitStep
  <2> QED
    BY <2>4, <2>5 DEF MirrorInv
<1>6. ASSUME UNCHANGED events
      PROVE  Live' = Live /\ Ids' = Ids /\ \A k : Changed(k)' <=> Changed(k)
  BY <1>6, EventsKept
<1>7. ASSUME NEW i, BecomeVisible(i) PROVE MirrorInv'
  <2>1. visible' = visible \cup {i}
        /\ UNCHANGED <<events, published, src, ch, qd, pump, reseeder, faults, applied>>
    BY <1>7 DEF BecomeVisible
  <2>2. SourceInv' /\ ClickHouseInv' /\ (PointsInv => PointsInv') /\ ReseedInv'
    BY <1>0, <2>1, Stays, ReseedStays
  <2>3. PumpInv' /\ DownInv' /\ (InOrder => InOrder')
    BY <1>0, <1>6, <2>1 DEF PumpInv, DownInv, InOrder
  <2> QED
    BY <1>0, <2>1, <2>2, <2>3 DEF MirrorInv, QdrantInv
<1>8. ASSUME Fetch PROVE MirrorInv'
  <2>1. /\ pc = "fetch" /\ UNCHANGED <<events, published, src, ch, qd, reseeder, faults, applied>>
        /\ batch = {} /\ sink = 1
    BY <1>0, <1>8 DEF Fetch, PumpInv
  <2>2. PICK C \in SUBSET (visible \ published) :
              /\ \A i \in C, j \in (visible \ published) \ C : i < j
              /\ visible' = visible \ C
              /\ \/ C \cap Live = {} /\ StepDone
                 \/ /\ C \cap Live # {} /\ pc' = "apply" /\ batch' = C \cap Live /\ sink' = 1
                    /\ attempt' = attempt
    BY <1>8, FetchFacts
  <2>3. SourceInv' /\ ClickHouseInv' /\ (PointsInv => PointsInv') /\ ReseedInv'
    BY <1>0, <2>1, Stays, ReseedStays
  <2>4. PumpInv' /\ DownInv' /\ batch' = C \cap Live /\ pc' # "commit"
    <3>1. CASE StepDone /\ C \cap Live = {}
      <4>1. LetGo /\ pc' = "fetch" /\ batch' = {}
        BY <3>1, StepDoneFacts DEF LetGo
      <4>2. PumpInv' /\ DownInv'
        BY <1>0, <2>1, <4>1, LetGoStep
      <4> QED
        BY <3>1, <4>1, <4>2
    <3>2. CASE pc' = "apply" /\ batch' = C \cap Live /\ sink' = 1 /\ attempt' = attempt
      <4>1. PumpInv'
        BY <1>0, <1>6, <2>1, <3>2 DEF PumpInv
      <4>2. DownInv'
        BY <1>0, <2>1, <3>2 DEF DownInv
      <4> QED
        BY <3>2, <4>1, <4>2
    <3> QED
      BY <2>2, <3>1, <3>2
  <2>5. InOrder => InOrder'
    <3> HAVE InOrder
    <3>1. /\ applied["qdrant"] = published /\ Live \ published \subseteq visible
          /\ \A i \in published, j \in Live \ published : i < j
      BY <2>1 DEF InOrder
    <3>2. \A i \in batch', j \in Live \ (published \cup batch') : i < j
      BY <2>2, <2>4, <3>1
    <3>3. Live' = Live /\ published' = published /\ applied' = applied
      BY <1>6, <2>1
    <3>4. Live \ (published \cup batch') \subseteq visible'
      BY <2>2, <2>4, <3>1
    <3>5. \A i \in published, j \in batch' : i < j
      BY <2>2, <2>4, <3>1
    <3>6. \A i \in published \cup batch', j \in Live \ (published \cup batch') : i < j
      BY <3>1, <3>2
    <3> QED
      BY <2>4, <3>1, <3>3, <3>4, <3>5, <3>6 DEF InOrder
  <2> QED
    BY <1>0, <2>1, <2>3, <2>4, <2>5 DEF MirrorInv, QdrantInv
<1>9. ASSUME LetGo, faults' # 0, UNCHANGED <<events, published, src, ch, reseeder, applied>>
      PROVE  MirrorInv'
  <2>1. SourceInv' /\ ClickHouseInv' /\ ReseedInv' /\ PumpInv' /\ DownInv'
    BY <1>0, <1>9, Stays, ReseedStays, LetGoStep
  <2> QED
    BY <1>9, <2>1 DEF MirrorInv, QdrantInv
<1>10. ASSUME FetchError PROVE MirrorInv'
  BY <1>0, <1>9, <1>10, StepErrorFacts, FaultFacts DEF FetchError
<1>11. ASSUME CommitError PROVE MirrorInv'
  BY <1>0, <1>9, <1>11, StepErrorFacts, FaultFacts DEF CommitError
<1>12. ASSUME ApplyError PROVE MirrorInv'
  <2>1. pc = "apply" /\ UNCHANGED <<outbox, src, reseeder, applied>> /\ LetGo
    BY <1>0, <1>12, StepErrorFacts DEF ApplyError
  <2>2. SourceInv' /\ PumpInv' /\ DownInv'
    BY <1>0, <2>1, Stays, LetGoStep
  <2>3. CASE SinkNames[sink] \in Down /\ UNCHANGED <<ch, qd, faults>>
    <3>1. ClickHouseInv' /\ (PointsInv => PointsInv') /\ ReseedInv'
      BY <1>0, <2>1, <2>3, Stays, ReseedStays
    <3>2. Down # {}
      BY <2>3
    <3> QED
      BY <1>0, <2>2, <2>3, <3>1, <3>2 DEF MirrorInv, QdrantInv
  <2>4. CASE Fault /\ (ClickHouseApply(batch) \/ UNCHANGED ch)
    <3>1. ClickHouseInv' /\ ReseedInv'
      <4>1. CASE ClickHouseApply(batch)
        <5>1. ClickHouseInv' /\ \A k \in Keys : ch[k].version >= 1 => ch'[k].version >= 1
          BY <1>0, <2>1, <4>1, ClickHouseStep
        <5> QED
          BY <1>0, <2>1, <5>1, ReseedStays
      <4>2. CASE UNCHANGED ch
        BY <1>0, <2>1, <4>2, Stays, ReseedStays
      <4> QED
        BY <2>4, <4>1, <4>2
    <3> QED
      BY <2>2, <2>4, <3>1, FaultFacts DEF MirrorInv, QdrantInv
  <2>5. CASE Fault /\ UNCHANGED ch
    BY <1>9, <2>1, <2>5, FaultFacts
  <2> QED
    BY <1>12, <2>3, <2>4, <2>5 DEF ApplyError
<1>13. ASSUME Apply PROVE MirrorInv'
  <2> DEFINE s == SinkNames[sink]
  <2>1. /\ pc = "apply" /\ UNCHANGED <<outbox, src, batch, attempt, reseeder, faults>>
        /\ s \notin Down
        /\ \/ s = "clickhouse" /\ ClickHouseApply(batch) /\ UNCHANGED qd
           \/ s = "qdrant" /\ QdrantApply(batch) /\ UNCHANGED ch
        /\ applied' = [applied EXCEPT ![s] = @ \cup batch]
        /\ IF sink < 2 THEN sink' = sink + 1 /\ UNCHANGED pc
                       ELSE pc' = "commit" /\ UNCHANGED sink
    BY <1>13 DEF Apply, SinkNames
  <2>2. sink \in 1..2 /\ (s = "clickhouse" <=> sink = 1) /\ (s = "qdrant" <=> sink = 2)
    BY Named DEF SinkNames
  <2> HIDE DEF s
  <2>3. SourceInv'
    BY <1>0, <2>1, Stays
  <2>4. CASE s = "clickhouse"
    <3>1. /\ ClickHouseApply(batch) /\ UNCHANGED qd /\ sink' = 2 /\ UNCHANGED pc
          /\ applied'["clickhouse"] = applied["clickhouse"] \cup batch
          /\ applied'["qdrant"] = applied["qdrant"]
          /\ "clickhouse" \notin Down
      BY <1>1, <2>1, <2>2, <2>4 DEF Sinks
    <3>2. ClickHouseInv' /\ \A k \in Keys : ch[k].version >= 1 => ch'[k].version >= 1
      BY <1>0, <2>1, <3>1, ClickHouseStep
    <3>3. ReseedInv'
      BY <1>0, <2>1, <3>2, ReseedStays
    <3>4. PumpInv' /\ DownInv'
      BY <1>0, <1>1, <1>6, <2>1, <3>1 DEF PumpInv, DownInv, Sinks
    <3>5. PointsInv => PointsInv'
      BY <1>0, <2>1, <3>1, Stays
    <3>6. InOrder => InOrder'
      BY <1>6, <2>1, <3>1 DEF InOrder
    <3> QED
      BY <1>0, <2>1, <2>3, <3>2, <3>3, <3>4, <3>5, <3>6 DEF MirrorInv, QdrantInv
  <2>5. CASE s = "qdrant"
    <3>1. /\ QdrantApply(batch) /\ UNCHANGED ch /\ pc' = "commit" /\ sink = 2 /\ sink' = sink
          /\ applied'["clickhouse"] = applied["clickhouse"]
          /\ applied'["qdrant"] = applied["qdrant"] \cup batch
          /\ applied' = [applied EXCEPT !["qdrant"] = @ \cup batch]
      BY <1>1, <2>1, <2>2, <2>5 DEF Sinks
    <3>2. Down = {}
      <4>1. "clickhouse" \notin Down
        BY <1>0, <3>1 DEF DownInv
      <4> QED
        BY <2>1, <2>5, <4>1, ModeAssumption
    <3>3. ClickHouseInv' /\ ReseedInv'
      BY <1>0, <2>1, <3>1, Stays, ReseedStays
    <3>4. PumpInv' /\ DownInv'
      BY <1>0, <1>1, <1>6, <2>1, <3>1, <3>2 DEF PumpInv, DownInv, Sinks
    <3>5. faults = 0 => PointsInv' /\ InOrder'
      <4> HAVE faults = 0
      <4>1. PointsInv /\ InOrder
        BY <1>0, <3>2 DEF QdrantInv
      <4>2. PointsInv'
        BY <1>0, <2>1, <3>1, <4>1, QdrantStep
      <4>3. InOrder'
        BY <1>6, <2>1, <3>1, <4>1 DEF InOrder
      <4> QED
        BY <4>2, <4>3
    <3> QED
      BY <2>1, <2>3, <3>3, <3>4, <3>5 DEF MirrorInv, QdrantInv
  <2> QED
    BY <2>1, <2>4, <2>5
<1>14. ASSUME Commit PROVE MirrorInv'
  <2>1. /\ pc = "commit" /\ published' = published \cup batch /\ LetGo /\ pc' = "fetch"
        /\ UNCHANGED <<events, visible, src, ch, qd, reseeder, faults, applied>>
    BY <1>14, StepDoneFacts DEF Commit
  <2>2. SourceInv' /\ ClickHouseInv' /\ ReseedInv' /\ PumpInv' /\ DownInv'
        /\ (PointsInv => PointsInv')
    BY <1>0, <2>1, Stays, ReseedStays, LetGoStep
  <2>3. InOrder => InOrder'
    <3>1. batch' = {}
      BY <2>1 DEF LetGo
    <3> QED
      BY <1>6, <2>1, <3>1 DEF InOrder
  <2> QED
    BY <1>0, <2>1, <2>2, <2>3 DEF MirrorInv, QdrantInv
<1>15. ASSUME UNCHANGED <<outbox, src, ch, applied, cursor>>,
              \/ rpc' = rpc /\ UNCHANGED <<pass, chunk>>
              \/ rpc' = "idle"
              \/ rpc' = "done" /\ \A k \in Keys : Covered(k)
       PROVE  ReseedInv'
  <2>1. \A k : Covered(k)' <=> Covered(k)
    BY <1>6, <1>15 DEF Covered
  <2>2. \A k : Changed(k)' <=> Changed(k)
    BY <1>6, <1>15
  <2>3. CASE rpc' = rpc /\ UNCHANGED <<pass, chunk>>
    <3>1. Covered(chunk.key)' <=> Covered(chunk.key)
      BY <2>2, <2>3, <1>15 DEF Covered
    <3>2. Changed(chunk.key)' <=> Changed(chunk.key)
      BY <2>2, <2>3
    <3> QED
      BY <1>0, <1>15, <2>1, <2>3, <3>1, <3>2 DEF ReseedInv
  <2>4. CASE rpc' \in {"idle", "done"} /\ (rpc' = "done" => \A k \in Keys : Covered(k))
    BY <1>0, <1>15, <2>1, <2>4 DEF ReseedInv
  <2> QED
    BY <1>15, <2>3, <2>4
<1>16. ASSUME Restart PROVE MirrorInv'
  <2>1. /\ LetGo /\ Fault /\ rpc' = (IF rpc = "done" THEN "done" ELSE "idle")
        /\ UNCHANGED <<outbox, src, ch, qd, pass, cursor, applied>>
    BY <1>16, StepDoneFacts DEF Restart
  <2>2. SourceInv' /\ ClickHouseInv' /\ PumpInv' /\ DownInv'
    BY <1>0, <2>1, Stays, LetGoStep
  <2>3. rpc = "done" => \A k \in Keys : Covered(k)
    BY <1>0 DEF ReseedInv
  <2>4. ReseedInv'
    BY <1>15, <2>1, <2>3
  <2> QED
    BY <2>1, <2>2, <2>4, FaultFacts DEF MirrorInv, QdrantInv
<1>17. ASSUME UNCHANGED <<outbox, src, qd, pump, applied>>, ClickHouseInv', ReseedInv',
              faults' = 0 => faults = 0
       PROVE  MirrorInv'
  <2>1. SourceInv' /\ (PointsInv => PointsInv')
    BY <1>0, <1>17, Stays
  <2>2. PumpInv' /\ DownInv' /\ (InOrder => InOrder')
    BY <1>0, <1>6, <1>17 DEF PumpInv, DownInv, InOrder
  <2> QED
    BY <1>0, <1>17, <2>1, <2>2 DEF MirrorInv, QdrantInv
<1>18. ASSUME ReseedError PROVE MirrorInv'
  <2>1. /\ rpc' = "idle" /\ Fault
        /\ UNCHANGED <<outbox, src, ch, qd, pump, pass, cursor, applied>>
    BY <1>18 DEF ReseedError
  <2> QED
    BY <1>0, <1>15, <1>17, <2>1, Stays, FaultFacts
<1>19. ASSUME UNCHANGED <<outbox, src, qd, pump, ch, applied, faults>>, ReseedInv'
       PROVE  MirrorInv'
  BY <1>0, <1>17, <1>19, Stays
<1>20. ASSUME UNCHANGED <<events, ch>>
       PROVE  /\ \A k : Covered(k)' <=> Covered(k)
              /\ Covered(chunk.key)' <=> (Changed(chunk'.key) \/ chunk'.key \notin OldKeys
                                          \/ ch[chunk'.key].version >= 1)
              /\ Changed(chunk.key)' <=> Changed(chunk'.key)
  BY <1>6, <1>20 DEF Covered, Changed
<1>21. \A k \in Keys : src[k] = Absent => Covered(k)
  <2> SUFFICES ASSUME NEW k \in Keys, src[k] = Absent, ~Changed(k) PROVE k \notin OldKeys
    BY DEF Covered
  <2> QED
    BY <1>0, Numbers DEF SourceInv
<1>N. cursor \in Nat /\ Keys \subseteq Nat
  <2>1. cursor \in Keys \cup {NoKey}
    BY Named
  <2> QED
    BY <2>1, Numbers DEF NoKey
<1>22. ASSUME ReseedRun PROVE MirrorInv'
  <2>1. /\ rpc' = "chunk" /\ pass' = pass + 1 /\ UNCHANGED <<cursor, chunk>>
        /\ UNCHANGED <<outbox, src, ch, qd, pump, faults, applied>>
    BY <1>22 DEF ReseedRun
  <2>2. pass' >= 1
    BY <2>1, Named
  <2>3. ReseedInv'
    BY <1>0, <1>20, <2>1, <2>2 DEF ReseedInv
  <2> QED
    BY <1>19, <2>1, <2>3
<1>23. ASSUME NEW k \in Keys, FetchKeys(k) PROVE MirrorInv'
  <2>1. /\ rpc = "chunk" /\ rpc' = "read" /\ chunk' = [key |-> k, row |-> Absent]
        /\ UNCHANGED <<outbox, src, ch, qd, pump, pass, cursor, faults, applied>>
    BY <1>23 DEF FetchKeys
  <2>2. \A j \in Keys : cursor < j /\ j < k => Covered(j)
    <3> SUFFICES ASSUME NEW j \in Keys, cursor < j, j < k PROVE src[j] = Absent
      BY <1>21
    <3>1. j > cursor /\ src[j] # Absent => k <= j
      BY <1>23 DEF FetchKeys, NextKey
    <3>2. j \in Nat /\ k \in Nat /\ cursor \in Nat
      BY <1>N
    <3> QED
      BY <3>1, <3>2
  <2>3. chunk'.key = k
    BY <2>1
  <2>4. ReseedInv'
    BY <1>0, <1>20, <2>1, <2>2, <2>3 DEF ReseedInv
  <2> QED
    BY <1>19, <2>1, <2>4
<1>24. ASSUME ChunkEmpty PROVE MirrorInv'
  <2>1. /\ rpc = "read" /\ rpc' = "persist" /\ src[chunk.key] = Absent
        /\ UNCHANGED <<outbox, src, ch, qd, pump, pass, cursor, chunk, faults, applied>>
    BY <1>24 DEF ChunkEmpty
  <2>2. Covered(chunk.key)
    BY <1>0, <1>21, <2>1 DEF ReseedInv
  <2>3. Covered(chunk.key)'
    BY <1>20, <2>1, <2>2 DEF Covered
  <2>4. ReseedInv'
    BY <1>0, <1>20, <2>1, <2>3 DEF ReseedInv
  <2> QED
    BY <1>19, <2>1, <2>4
<1>25. ASSUME FillRead PROVE MirrorInv'
  <2>1. /\ mode = "fill" /\ rpc = "read" /\ rpc' = "apply"
        /\ chunk' = [chunk EXCEPT !.row = src[chunk.key]] /\ src[chunk.key] # Absent
        /\ UNCHANGED <<outbox, src, ch, qd, pump, pass, cursor, faults, applied>>
    BY <1>25 DEF FillRead
  <2>2. chunk.key \in Keys
    BY <1>0, <2>1 DEF ReseedInv
  <2>3. chunk \in Piece
    BY Named
  <2>4. chunk'.key = chunk.key /\ chunk'.row = src[chunk.key]
    BY <2>1, <2>3 DEF Piece
  <2>5. Changed(chunk.key) \/ (chunk'.row = 0 /\ chunk.key \in OldKeys)
    BY <1>0, <2>1, <2>2, <2>4 DEF SourceInv
  <2>6. Changed(chunk.key)' \/ (chunk'.row = 0 /\ chunk'.key \in OldKeys)
    BY <1>20, <2>1, <2>4, <2>5
  <2>7. ReseedInv'
    BY <1>0, <1>20, <2>1, <2>4, <2>6 DEF ReseedInv
  <2> QED
    BY <1>19, <2>1, <2>7
<1>26. ASSUME FillApply PROVE MirrorInv'
  <2>1. ClickHouseInv' /\ ReseedInv'
    BY <1>0, <1>26, FillStep
  <2> QED
    BY <1>17, <1>26, <2>1 DEF FillApply
<1>27. ASSUME PersistProgress PROVE MirrorInv'
  <2>1. /\ rpc = "persist" /\ rpc' = "chunk" /\ cursor' = chunk.key /\ chunk' = NoChunk
        /\ UNCHANGED <<outbox, src, ch, qd, pump, pass, faults, applied>>
    BY <1>27 DEF PersistProgress
  <2>2. \A k \in Keys : k <= chunk.key => Covered(k)
    <3> SUFFICES ASSUME NEW k \in Keys, k <= chunk.key PROVE Covered(k)
      OBVIOUS
    <3>1. chunk.key \in Keys
      BY <1>0, <2>1 DEF ReseedInv
    <3>2. k \in Nat /\ chunk.key \in Nat /\ cursor \in Nat
      BY <3>1, <1>N
    <3>3. k <= cursor \/ (cursor < k /\ k < chunk.key) \/ k = chunk.key
      BY <3>2
    <3> QED
      BY <1>0, <2>1, <3>3 DEF ReseedInv
  <2>3. ReseedInv'
    BY <1>0, <1>20, <2>1, <2>2 DEF ReseedInv
  <2> QED
    BY <1>19, <2>1, <2>3
<1>28. ASSUME ReseedComplete PROVE MirrorInv'
  <2>1. /\ rpc = "chunk" /\ rpc' = "done" /\ NextKey = {}
        /\ UNCHANGED <<outbox, src, ch, qd, pump, pass, cursor, chunk, faults, applied>>
    BY <1>28 DEF ReseedComplete
  <2>2. \A k \in Keys : k > cursor => src[k] = Absent
    <3> DEFINE T == {k \in Keys : k > cursor /\ src[k] # Absent}
    <3>1. T \subseteq Nat
      BY Numbers
    <3>2. ASSUME T # {} PROVE FALSE
      <4>1. PICK m \in T : \A n \in T : m <= n
        <5> HIDE DEF T
        <5> QED
          BY <3>1, <3>2, LeastNatural
      <4>2. m \in NextKey
        BY <4>1 DEF NextKey
      <4> QED
        BY <2>1, <4>2
    <3> QED
      BY <3>2
  <2>3. \A k \in Keys : Covered(k)
    <3> SUFFICES ASSUME NEW k \in Keys PROVE Covered(k)
      OBVIOUS
    <3>1. k \in Nat /\ cursor \in Nat
      BY <1>N
    <3>2. k <= cursor \/ k > cursor
      BY <3>1
    <3> QED
      BY <1>0, <1>21, <2>2, <3>2 DEF ReseedInv
  <2>4. ReseedInv'
    BY <1>15, <2>1, <2>3
  <2> QED
    BY <1>19, <2>1, <2>4
<1>29. ASSUME App PROVE MirrorInv'
  BY <1>3, <1>4, <1>29 DEF App
<1> QED
  BY <1>5, <1>7, <1>8, <1>10, <1>11, <1>12, <1>13, <1>14, <1>16, <1>18, <1>22, <1>23, <1>24,
     <1>25, <1>26, <1>27, <1>28, <1>29, Zenon DEF Next, Pump, Reseeder

-------------------------------------------------------------------------------
(***************************************************************************)
(* The theorems.                                                           *)
(***************************************************************************)

\* The initial states are typed and satisfy the invariant.
LEMMA MirrorInitial ==
    ASSUME Init
    PROVE  TypeOK /\ MirrorInv
<1>1. /\ events = <<>> /\ published = {} /\ visible = {}
      /\ src = [k \in Keys |-> IF k \in OldKeys THEN 0 ELSE Absent]
      /\ ch = [k \in Keys |-> [version |-> 0, row |-> Absent]]
      /\ qd = [k \in Keys |-> Absent]
      /\ pc = "fetch" /\ batch = {} /\ sink = 1 /\ attempt = 0 /\ mode \in Modes
      /\ rpc = "idle" /\ pass = 0 /\ cursor = NoKey /\ chunk = NoChunk /\ faults = 0
      /\ applied = [s \in Sinks |-> {}]
  BY DEF Init, Sinks
<1>2. Ids = {} /\ Live = {} /\ (\A k : ~Changed(k)) /\ \A k : ~Has(applied["qdrant"], k)
  BY <1>1 DEF Ids, Live, Changed, Has, Sinks
<1>3. TypeOK
  <2>1. MaxRetry \in Nat /\ 0 \in 0..MaxPasses /\ 0 \in 0..MaxFaults /\ 0 \in 0..LiveVersion(MaxEvents)
    BY Numbers
  <2>2. [version |-> 0, row |-> Absent] \in Copy
    BY <2>1, Records, Numbers
  <2>3. src \in [Keys -> Row] /\ ch \in [Keys -> Copy] /\ qd \in [Keys -> Row]
    BY <1>1, <2>2, Numbers
  <2>4. events \in Seq(Event) /\ Len(events) <= MaxEvents
    BY <1>1, Numbers
  <2>5. applied \in [Sinks -> SUBSET Ids]
    BY <1>1
  <2>6. chunk \in Piece
    BY <1>1, Records
  <2> QED
    BY <1>1, <2>1, <2>3, <2>4, <2>5, <2>6, Named
<1>4. SourceInv
  BY <1>1, <1>2 DEF SourceInv
<1>5. PumpInv
  BY <1>1, Numbers DEF PumpInv
<1>6. DownInv
  BY <1>1 DEF DownInv, Sinks
<1>7. ClickHouseInv
  <2>1. \A k \in Keys : ch[k] = [version |-> 0, row |-> Absent] /\ ch[k].version = 0
    BY <1>1
  <2>2. applied["clickhouse"] = {} /\ ~(0 > MaxSeedVersion)
    BY <1>1, Numbers DEF Sinks
  <2> QED
    BY <2>1, <2>2 DEF ClickHouseInv
<1>8. ReseedInv
  <2>1. \A k \in Keys : ~(k <= cursor)
    BY <1>1, Numbers DEF NoKey
  <2> QED
    BY <1>1, <2>1 DEF ReseedInv
<1>9. QdrantInv
  <2>1. PointsInv
    BY <1>1, <1>2 DEF PointsInv
  <2>2. InOrder
    BY <1>1, <1>2 DEF InOrder, Sinks
  <2> QED
    BY <2>1, <2>2 DEF QdrantInv
<1> QED
  BY <1>3, <1>4, <1>5, <1>6, <1>7, <1>8, <1>9 DEF MirrorInv

\* A step that changes nothing keeps both.
LEMMA MirrorStutter ==
    ASSUME TypeOK, MirrorInv, UNCHANGED vars
    PROVE  TypeOK' /\ MirrorInv'
<1>1. UNCHANGED <<events, published, visible, src, ch, qd, pc, batch, sink, attempt,
                  mode, rpc, pass, cursor, chunk, faults, applied>>
  BY DEF vars
<1>2. Ids' = Ids /\ Live' = Live
  BY <1>1, EventsKept
<1>3. TypeOK'
  BY <1>1, <1>2 DEF TypeOK
<1>4. SourceInv' /\ ClickHouseInv' /\ (PointsInv => PointsInv') /\ ReseedInv'
  BY <1>1, Stays, ReseedStays DEF MirrorInv
<1>5. PumpInv' /\ DownInv' /\ (InOrder => InOrder')
  BY <1>1, <1>2 DEF PumpInv, DownInv, InOrder, MirrorInv
<1> QED
  BY <1>1, <1>3, <1>4, <1>5 DEF MirrorInv, QdrantInv

\* Pump, sinks and reseeder keep their types and the inductive invariant in
\* every behaviour (pump.go's Step and Run, reseed.go's Run).
THEOREM MirrorInvCorrect == Spec => [](TypeOK /\ MirrorInv)
<1>1. Init => TypeOK /\ MirrorInv
  BY MirrorInitial
<1>2. TypeOK /\ MirrorInv /\ [Next]_vars => (TypeOK /\ MirrorInv)'
  <2> SUFFICES ASSUME TypeOK, MirrorInv, [Next]_vars PROVE TypeOK' /\ MirrorInv'
    OBVIOUS
  <2>1. CASE Next
    BY <2>1, TypeNext, MirrorNext DEF MirrorInv
  <2>2. CASE UNCHANGED vars
    BY <2>2, MirrorStutter
  <2> QED
    BY <2>1, <2>2
<1> QED
  BY <1>1, <1>2, PTL DEF Spec

\* Types alone, as the runs check them.
THEOREM MirrorTypeCorrect == Spec => []TypeOK
<1>1. TypeOK /\ MirrorInv => TypeOK
  OBVIOUS
<1> QED
  BY <1>1, MirrorInvCorrect, PTL

\* An id that is published, for the mirror's own events only, has been accepted
\* by every sink (Step commits last, after the loop over the sinks).
THEOREM AckedEverywhereCorrect == Spec => []AckedEverywhere
<1>1. TypeOK /\ MirrorInv => AckedEverywhere
  BY DEF MirrorInv, PumpInv, AckedEverywhere, Sinks
<1> QED
  BY <1>1, MirrorInvCorrect, PTL

\* When the last change of a key is acknowledged, a set of accepted changes that
\* holds every acknowledged one has the same last change.
LEMMA LastAcked ==
    ASSUME TypeOK, NEW k, Acked(k), NEW B, published \subseteq B, B \subseteq Live
    PROVE  /\ \A i \in Live : events[i].key = k => i \in B
           /\ Has(B, k) <=> Changed(k)
           /\ \A l \in LastOf(B, k), m \in LastOf(Live, k) : l = m
<1>1. \A i \in Live : events[i].key = k => i \in B
  BY DEF Acked
<1>2. Live \subseteq Nat
  BY IdsAreNumbers
<1>3. ASSUME NEW l \in LastOf(B, k), NEW m \in LastOf(Live, k) PROVE l = m
  <2>1. l \in Live /\ m \in B /\ l <= m /\ m <= l
    BY <1>1 DEF LastOf
  <2> QED
    BY <1>2, <2>1
<1> QED
  BY <1>1, <1>3 DEF Has, Changed

\* A key whose changes are all acknowledged reads in ClickHouse as at the source,
\* whatever was replayed, reordered by visibility timeouts or written by a fill
\* meanwhile; after a reseed so does a key that never changed.
THEOREM ClickHouseMatchesCorrect == Spec => []ClickHouseMatches
<1>1. TypeOK /\ MirrorInv => ClickHouseMatches
  <2> SUFFICES ASSUME TypeOK, MirrorInv, NEW k \in Keys, Acked(k), Changed(k) \/ rpc = "done"
               PROVE  ch[k].row = src[k]
    BY DEF ClickHouseMatches
  <2>1. /\ SourceInv /\ PumpInv /\ ClickHouseInv /\ ReseedInv
        /\ applied["clickhouse"] \subseteq Live /\ published \subseteq applied["clickhouse"]
    BY SetsOfIds DEF MirrorInv
  <2>2. CASE Changed(k)
    <3>1. PICK l \in LastOf(Live, k) : src[k] = events[l].row
      BY <2>1, <2>2 DEF SourceInv
    <3>2. l \in Live /\ events[l].key = k /\ \A j \in Live : events[j].key = k => j <= l
      BY DEF LastOf
    <3>3. l \in applied["clickhouse"]
      BY <2>1, <3>2, LastAcked
    <3>4. LiveVersion(l) <= ch[k].version /\ LiveVersion(l) > MaxSeedVersion
      BY <2>1, <3>2, <3>3, Versions, Numbers DEF ClickHouseInv
    <3>5. ch[k].version \in Nat /\ LiveVersion(l) \in Nat /\ MaxSeedVersion \in Nat
      BY <3>2, Named, Records, Versions, Numbers
    <3>6. PICK i \in Live : /\ events[i].key = k
                            /\ ch[k] = [version |-> LiveVersion(i), row |-> events[i].row]
      <4>1. ch[k].version > MaxSeedVersion
        BY <3>4, <3>5
      <4> QED
        BY <2>1, <4>1 DEF ClickHouseInv
    <3>7. i <= l /\ LiveVersion(l) <= LiveVersion(i)
      BY <3>2, <3>4, <3>6
    <3>8. l <= i
      BY <3>2, <3>6, <3>7, Versions
    <3>9. i = l
      <4>1. i \in Nat /\ l \in Nat
        BY <3>2, <3>6, IdsAreNumbers
      <4> QED
        BY <3>7, <3>8, <4>1
    <3> QED
      BY <3>1, <3>6, <3>9
  <2>3. CASE ~Changed(k)
    <3>1. Covered(k) /\ src[k] = IF k \in OldKeys THEN 0 ELSE Absent
      BY <2>1, <2>3 DEF ReseedInv, SourceInv
    <3>2. \/ ch[k] = [version |-> 0, row |-> Absent]
          \/ ch[k].version >= 1 /\ ch[k].row = 0 /\ k \in OldKeys
      BY <2>1, <2>3 DEF ClickHouseInv
    <3>3. CASE ch[k] = [version |-> 0, row |-> Absent]
      <4>1. ch[k].version = 0 /\ ch[k].row = Absent
        BY <3>3
      <4> QED
        BY <2>3, <3>1, <4>1 DEF Covered
    <3> QED
      BY <3>1, <3>2, <3>3
  <2> QED
    BY <2>2, <2>3
<1> QED
  BY <1>1, MirrorInvCorrect, PTL

\* Qdrant, which keeps no versions, agrees with the source on acknowledged keys
\* as long as nothing failed: then the pump applies each change once, in order.
THEOREM QdrantMatchesUnfailedCorrect == Spec => []QdrantMatchesUnfailed
<1>1. TypeOK /\ MirrorInv => QdrantMatchesUnfailed
  <2> SUFFICES ASSUME TypeOK, MirrorInv, faults = 0, NEW k \in Keys, Acked(k),
                      Changed(k) \/ (mode = "repair" /\ rpc = "done")
               PROVE  qd[k] = src[k]
    BY DEF QdrantMatchesUnfailed, QdrantMatches
  <2>1. /\ SourceInv /\ PumpInv /\ DownInv /\ ClickHouseInv /\ ReseedInv /\ PointsInv
        /\ applied["qdrant"] \subseteq Live /\ published \subseteq applied["qdrant"]
    BY SetsOfIds DEF MirrorInv, QdrantInv
  <2>2. Has(applied["qdrant"], k) <=> Changed(k)
    BY <2>1, LastAcked
  <2>3. CASE Changed(k)
    <3>1. PICK l \in LastOf(Live, k) : src[k] = events[l].row
      BY <2>1, <2>3 DEF SourceInv
    <3>2. PICK m \in LastOf(applied["qdrant"], k) : qd[k] = events[m].row
      BY <2>1, <2>2, <2>3 DEF PointsInv
    <3>3. m = l
      BY <2>1, LastAcked
    <3> QED
      BY <3>1, <3>2, <3>3
  <2>4. CASE ~Changed(k)
    <3>1. Covered(k) /\ mode # "fill" /\ src[k] = IF k \in OldKeys THEN 0 ELSE Absent
      BY <2>1, <2>4 DEF ReseedInv, SourceInv
    <3>2. ch[k] = [version |-> 0, row |-> Absent]
      BY <2>1, <2>4, <3>1 DEF ClickHouseInv
    <3>3. ch[k].version = 0
      BY <3>2
    <3>4. k \notin OldKeys
      BY <2>4, <3>1, <3>3 DEF Covered
    <3> QED
      BY <2>1, <2>2, <2>4, <3>1, <3>4 DEF PointsInv
  <2> QED
    BY <2>3, <2>4
<1> QED
  BY <1>1, MirrorInvCorrect, PTL
===============================================================================
