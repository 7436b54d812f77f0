----------------------------- MODULE CopiesProofs -----------------------------
(***************************************************************************)
(* Proofs about the Verifier (Verify): a walk counts every defect that was *)
(* there all along and no other, and Recheck settles only what was owed,   *)
(* for any number of keys, any range size and any number of changes.       *)
(* And about the MySQL outbox (MySQLOutbox): what it promises of ids, of   *)
(* order, of repeats and of the named lock holds for any number of workers *)
(* and events, any batch and any limit of attempts.                        *)
(***************************************************************************)
EXTENDS Verify, MySQLOutbox, FiniteSetTheorems, WellFoundedInduction, TLAPS

-------------------------------------------------------------------------------
(***************************************************************************)
(* Least and greatest.                                                     *)
(***************************************************************************)

\* A nonempty set of naturals has a least element.
LEMMA LeastOfNaturals ==
    ASSUME NEW T, T \subseteq Nat, T # {}
    PROVE  \E m \in T : \A n \in T : m <= n
<1> DEFINE R == OpToRel(<, Nat)
<1>1. IsWellFoundedOn(R, Nat)
  BY NatLessThanWellFounded, Zenon
<1>2. \A x, y \in Nat : x < y => <<x, y>> \in R
  BY Zenon DEF OpToRel
<1> HIDE DEF R
<1>3. PICK m \in T : \A n \in T : ~(<<n, m>> \in R)
  BY <1>1, WFMin, Zenon
<1>4. \A n \in T : ~(n < m)
  BY <1>2, <1>3, Zenon
<1>5. \A n \in T : m <= n
  BY <1>4
<1> QED
  BY <1>5

\* Max of a nonempty set of naturals below a bound is its greatest element.
LEMMA MaxOfBounded ==
    ASSUME NEW b \in Nat, NEW S, S \subseteq 0..b, S # {}
    PROVE  Max(S) \in S /\ \A x \in S : x <= Max(S)
<1> DEFINE T == {b - x : x \in S}
<1>1. T \subseteq Nat
  OBVIOUS
<1>2. T # {}
  BY Zenon
<1>3. PICK m \in T : \A n \in T : m <= n
  <2> HIDE DEF T
  <2> QED
    BY <1>1, <1>2, LeastOfNaturals
<1>4. PICK x \in S : m = b - x
  BY <1>3
<1>5. \A y \in S : x >= y
  <2> TAKE y \in S
  <2>1. m <= b - y
    BY <1>3
  <2> QED
    BY <1>4, <2>1
<1> QED
  BY <1>4, <1>5 DEF Max

\* Min of two numbers is one of them, and no larger than either.
LEMMA MinOfTwo ==
    ASSUME NEW a \in Int, NEW b \in Int
    PROVE  Min({a, b}) \in {a, b} /\ Min({a, b}) <= a /\ Min({a, b}) <= b
<1>1. \E x \in {a, b} : \A y \in {a, b} : x <= y
  <2>1. CASE a <= b
    BY <2>1
  <2>2. CASE b <= a
    BY <2>2
  <2> QED
    BY <2>1, <2>2
<1> DEFINE P(x) == \A y \in {a, b} : x <= y
<1>2. Min({a, b}) = CHOOSE x \in {a, b} : P(x)
  BY DEF Min
<1>3. \E x \in {a, b} : P(x)
  BY <1>1
<1> HIDE DEF P
<1>4. Min({a, b}) \in {a, b} /\ P(Min({a, b}))
  BY <1>2, <1>3
<1> QED
  BY <1>4 DEF P

-------------------------------------------------------------------------------
(***************************************************************************)
(* What a bounded read returns: the first RangeSize of P.                  *)
(***************************************************************************)

FirstOf(P) == {k \in P : Cardinality({j \in P : j < k}) < RangeSize}

LEMMA FirstFacts ==
    ASSUME NEW P, P \subseteq VKeys
    PROVE  /\ RangeSize \in Nat /\ RangeSize > 0 /\ MaxKey \in Nat
           /\ IsFiniteSet(P) /\ FirstOf(P) \subseteq P /\ IsFiniteSet(FirstOf(P))
           /\ \A k \in P : k \in Nat /\ k \in 0..MaxKey
<1>1. RangeSize \in Nat /\ RangeSize > 0 /\ MaxKey \in Nat
  BY VerifyAssumption
<1>2. IsFiniteSet(VKeys)
  BY <1>1, FS_Interval DEF VKeys
<1>3. FirstOf(P) \subseteq P
  BY Zenon DEF FirstOf
<1>4. IsFiniteSet(P) /\ IsFiniteSet(FirstOf(P))
  BY <1>2, <1>3, FS_Subset
<1>5. \A k \in P : k \in Nat /\ k \in 0..MaxKey
  BY <1>1 DEF VKeys
<1> QED
  BY <1>1, <1>3, <1>4, <1>5

\* A read has no hole: a key of P below one that was read was read.
LEMMA FirstDown ==
    ASSUME NEW P, P \subseteq VKeys, NEW x \in FirstOf(P), NEW k \in P, k <= x
    PROVE  k \in FirstOf(P)
<1> DEFINE low == {j \in P : j < k}
           high == {j \in P : j < x}
<1>1. IsFiniteSet(P) /\ \A j \in P : j \in Nat
  BY FirstFacts
<1>2. x \in P /\ Cardinality(high) < RangeSize
  BY DEF FirstOf
<1>3. low \in SUBSET high
  <2>1. \A j \in P : j < k => j < x
    BY <1>1, <1>2
  <2> QED
    BY <2>1, Zenon
<1>4. high \in SUBSET P
  BY Zenon
<1> HIDE DEF low, high
<1>5. IsFiniteSet(high)
  BY <1>1, <1>4, FS_Subset
<1>6. Cardinality(low) <= Cardinality(high) /\ Cardinality(low) \in Nat /\ Cardinality(high) \in Nat
  BY <1>3, <1>5, FS_Subset, FS_CardinalityType
<1>7. RangeSize \in Nat
  BY FirstFacts
<1>8. Cardinality(low) < RangeSize
  BY <1>2, <1>6, <1>7
<1> QED
  BY <1>8, Zenon DEF FirstOf, low

\* A read that did not run into the limit returned all of P.
LEMMA FirstAll ==
    ASSUME NEW P, P \subseteq VKeys, ~Full(FirstOf(P))
    PROVE  FirstOf(P) = P
<1> DEFINE F == FirstOf(P)
           Missed == P \ F
<1>1. /\ RangeSize \in Nat /\ RangeSize > 0 /\ MaxKey \in Nat
      /\ IsFiniteSet(P) /\ F \subseteq P /\ IsFiniteSet(F)
      /\ \A j \in P : j \in Nat /\ j \in 0..MaxKey
  BY FirstFacts
<1> SUFFICES ASSUME Missed # {} PROVE FALSE
  BY <1>1
<1>2. PICK k \in Missed : \A n \in Missed : k <= n
  <2>1. Missed \subseteq Nat
    BY <1>1
  <2> HIDE DEF Missed
  <2> QED
    BY <2>1, LeastOfNaturals
<1> DEFINE below == {j \in P : j < k}
<1>3. k \in P /\ k \notin F /\ k \in Nat
  BY <1>1, <1>2
<1>4. ~(Cardinality(below) < RangeSize)
  BY <1>3, Zenon DEF FirstOf
<1>5. below = F
  <2>1. ASSUME NEW j \in below PROVE j \in F
    <3>1. j \in P /\ j < k /\ j \in Nat
      BY <1>1, <2>1
    <3>2. j \notin Missed
      BY <1>2, <1>3, <3>1
    <3> QED
      BY <3>1, <3>2
  <2>2. ASSUME NEW j \in F PROVE j \in below
    <3>1. j \in P /\ j \in Nat
      BY <1>1, <2>2
    <3>2. ~(k <= j)
      BY <1>3, <2>2, FirstDown
    <3>3. j < k
      BY <1>3, <3>1, <3>2
    <3> QED
      BY <3>1, <3>3
  <2> QED
    BY <2>1, <2>2
<1> HIDE DEF below, Missed
<1>6. Cardinality(F) \in Nat
  BY <1>1, FS_CardinalityType
<1>7. Cardinality(F) >= RangeSize
  BY <1>1, <1>4, <1>5, <1>6
<1>8. F # {}
  <2>1. Cardinality({}) = 0
    BY FS_EmptySet
  <2> HIDE DEF F
  <2> QED
    BY <1>1, <1>7, <2>1
<1>9. Max(F) \in F /\ \A j \in F : j <= Max(F)
  <2>1. F \subseteq 0..MaxKey
    BY <1>1
  <2> HIDE DEF F
  <2> QED
    BY <1>1, <1>8, <2>1, MaxOfBounded
<1>10. PICK x \in F : \A j \in F : j <= x
  BY <1>9
<1> DEFINE rest == {j \in P : j < x}
<1>11. Cardinality(rest) < RangeSize
  BY <1>10, Zenon DEF FirstOf
<1>12. F \subseteq rest \cup {x} /\ x \notin rest /\ rest \subseteq P
  <2>1. x \in Nat /\ x \in P
    BY <1>1, <1>10
  <2>2. \A j \in F : j # x => j < x
    <3> TAKE j \in F
    <3>1. j \in Nat /\ j <= x
      BY <1>1, <1>10
    <3> QED
      BY <2>1, <3>1
  <2>3. ~(x < x)
    BY <2>1
  <2> QED
    BY <1>1, <2>2, <2>3, Zenon
<1> HIDE DEF rest, F
<1>13. IsFiniteSet(rest)
  BY <1>1, <1>12, FS_Subset
<1>14. IsFiniteSet(rest \cup {x}) /\ Cardinality(rest \cup {x}) = Cardinality(rest) + 1
  BY <1>12, <1>13, FS_AddElement
<1>15. Cardinality(F) <= Cardinality(rest \cup {x}) /\ Cardinality(rest) \in Nat
  BY <1>12, <1>13, <1>14, FS_Subset, FS_CardinalityType
<1>16. Cardinality(F) = RangeSize
  BY <1>1, <1>6, <1>7, <1>11, <1>14, <1>15
<1> QED
  BY <1>16 DEF Full, F

\* Every key of P up to the end of a read, or any key when the read did not run into
\* the limit, was read.
LEMMA ReadComplete ==
    ASSUME NEW P, P \subseteq VKeys, NEW k \in P,
           Full(FirstOf(P)) => k <= Max(FirstOf(P))
    PROVE  k \in FirstOf(P)
<1>1. CASE ~Full(FirstOf(P))
  BY <1>1, FirstAll
<1>2. CASE Full(FirstOf(P))
  <2>1. /\ RangeSize \in Nat /\ RangeSize > 0 /\ MaxKey \in Nat /\ FirstOf(P) \subseteq P
        /\ \A j \in P : j \in Nat /\ j \in 0..MaxKey
    BY FirstFacts
  <2>2. FirstOf(P) # {}
    BY <1>2, <2>1, FS_EmptySet DEF Full
  <2>3. FirstOf(P) \subseteq 0..MaxKey
    BY <2>1
  <2>4. Max(FirstOf(P)) \in FirstOf(P)
    BY <2>1, <2>2, <2>3, MaxOfBounded
  <2> QED
    BY <1>2, <2>4, FirstDown
<1> QED
  BY <1>1, <1>2

-------------------------------------------------------------------------------
(***************************************************************************)
(* The inductive invariant.                                                *)
(***************************************************************************)

Walking    == pass.step \in {"idle", "mirror", "source", "stopped"}
Rechecking == pass.step \in {"recheckM", "recheckS", "rechecked"}

Named(k) == \E d \in named : d.key = k

\* The version of k in what was read, 0 for no row.
VersionIn(mir, k) == IF k \in DOMAIN mir THEN mir[k] ELSE 0

\* Of the keys that have not moved, those up to n that differ have been counted.
CountedTo(n) ==
    \A k \in VKeys \ moved : k <= n /\ Differs(mirror[k], source[k]) => Named(k)

\* The pump never runs ahead of the source.
BehindInv == \A k \in VKeys : mirror[k] <= source[k]

\* The report resumes where the pass has got to; all before it is counted, and
\* nothing else is that has not moved.
WalkInv ==
    /\ pass.step = "idle" => report.resume = 0
    /\ pass.step \in {"mirror", "source"} => report.resume = pass.after
    /\ pass.step \in {"mirror", "source", "stopped"} => CountedTo(report.resume)
    /\ pass.step = "ended" => CountedTo(MaxKey)
    /\ ~Rechecking => \A k \in VKeys \ moved : Named(k) => Differs(mirror[k], source[k])

\* The range of the mirror that was read: of a key that has not moved it has the row,
\* and it lacks none before its end.
ReadInv ==
    pass.step = "source" =>
        /\ \A k \in DOMAIN pass.mir : k > pass.after /\ pass.mir[k] <= mirror[k]
        /\ \A k \in VKeys \ moved :
              /\ k \in DOMAIN pass.mir => pass.mir[k] = mirror[k]
              /\ /\ k \notin DOMAIN pass.mir /\ k > pass.after
                 /\ Full(DOMAIN pass.mir) => k <= Max(DOMAIN pass.mir)
                 => mirror[k] = 0

\* A divergence was named at a version that the source had gone past.
VersionInv ==
    /\ Walking => \A d \in named : d.version < source[d.key]
    /\ ~Walking => \A d \in named : d.version < held[d.key]

\* What is not owed has been delivered, and so is what Recheck reads of it.
OwedInv ==
    /\ Rechecking => \A k \in VKeys \ owed : held[k] <= mirror[k]
    /\ pass.step = "recheckS" =>
          /\ DOMAIN pass.mir \subseteq Chunk
          /\ \A k \in Chunk \ owed : held[k] <= VersionIn(pass.mir, k)

SettledInv == SettledIsOwed /\ (~Rechecking => report.settled = {})

VerifyInv == BehindInv /\ WalkInv /\ ReadInv /\ VersionInv /\ OwedInv /\ SettledInv

PassRecord == [step : {"idle", "mirror", "source", "stopped", "ended", "recheckM", "recheckS", "rechecked"},
               after : 0..MaxKey, mir : Rows, keys : SUBSET VKeys]
ReportRecord == [found : SUBSET Divergence, resume : 0..MaxKey, settled : SUBSET VKeys]

-------------------------------------------------------------------------------
(***************************************************************************)
(* Facts the steps share.                                                  *)
(***************************************************************************)

LEMMA VerifyFacts ==
    ASSUME VerifyTypeOK
    PROVE  /\ source \in [VKeys -> 0..MaxChanges] /\ mirror \in [VKeys -> 0..MaxChanges]
           /\ held \in [VKeys -> 0..MaxChanges]
           /\ \A k \in VKeys : source[k] \in Nat /\ mirror[k] \in Nat /\ held[k] \in Nat
           /\ pass \in PassRecord /\ report \in ReportRecord /\ named \subseteq Divergence
           /\ MaxKey \in Nat /\ MaxChanges \in Nat /\ RangeSize \in Nat /\ RangeSize > 0
           /\ \A k \in VKeys : k \in Nat /\ k <= MaxKey /\ k \in 0..MaxKey
<1>1. MaxKey \in Nat /\ MaxChanges \in Nat /\ RangeSize \in Nat /\ RangeSize > 0
  BY VerifyAssumption
<1>2. /\ source \in [VKeys -> 0..MaxChanges] /\ mirror \in [VKeys -> 0..MaxChanges]
      /\ held \in [VKeys -> 0..MaxChanges]
      /\ pass \in PassRecord /\ report \in ReportRecord /\ named \subseteq Divergence
  BY DEF VerifyTypeOK, PassRecord, ReportRecord
<1>3. \A k \in VKeys : source[k] \in Nat /\ mirror[k] \in Nat /\ held[k] \in Nat
  BY <1>1, <1>2
<1>4. \A k \in VKeys : k \in Nat /\ k <= MaxKey /\ k \in 0..MaxKey
  BY <1>1 DEF VKeys
<1> QED
  BY <1>1, <1>2, <1>3, <1>4

\* What the type of a read says.
LEMMA RowsFacts ==
    ASSUME NEW f \in Rows
    PROVE  DOMAIN f \subseteq VKeys /\ \A k \in DOMAIN f : f[k] \in 0..MaxChanges
<1>1. PICK S \in SUBSET VKeys : f \in [S -> 0..MaxChanges]
  BY Zenon DEF Rows
<1> QED
  BY <1>1

LEMMA RowsType ==
    ASSUME NEW S, S \subseteq VKeys, NEW f \in [S -> 0..MaxChanges]
    PROVE  f \in Rows
  BY Zenon DEF Rows

LEMMA NoRowsType == NoRows \in Rows /\ DOMAIN NoRows = {}
<1>1. NoRows \in [{} -> 0..MaxChanges] /\ DOMAIN NoRows = {}
  BY DEF NoRows
<1> QED
  BY <1>1, RowsType

\* A pass that has read nothing.
LEMMA FreshPass ==
    ASSUME MaxKey \in Nat
    PROVE  /\ NoPass \in PassRecord
           /\ NoPass.step = "idle" /\ NoPass.after = 0 /\ NoPass.mir = NoRows /\ NoPass.keys = {}
  BY NoRowsType DEF NoPass, PassRecord

\* Two versions that differ are not the same; a row that is not live is as good as
\* none.
LEMMA DiffersFacts ==
    /\ ~Live(0)
    /\ \A m, s \in Nat : Differs(m, s) => m # s
    /\ \A m, s \in Nat : ~Live(s) => (Differs(m, 0) <=> Differs(m, s))
    /\ \A s \in Nat : ~Live(s) => ~Differs(0, s)
    /\ \A s \in Nat : Differs(0, s) => Live(s)
<1>1. ~Live(0)
  BY DEF Live
<1>3. ASSUME NEW m \in Nat, NEW s \in Nat, Differs(m, s) PROVE m # s
  BY <1>3 DEF Differs
<1>4. ASSUME NEW m \in Nat, NEW s \in Nat, ~Live(s) PROVE Differs(m, 0) <=> Differs(m, s)
  BY <1>1, <1>4 DEF Differs, Live
<1>5. ASSUME NEW s \in Nat PROVE Differs(0, s) <=> Live(s)
  BY <1>1, <1>5 DEF Differs, Live
<1> QED
  BY <1>1, <1>3, <1>4, <1>5

-------------------------------------------------------------------------------
(***************************************************************************)
(* One lemma per action.                                                   *)
(***************************************************************************)

\* Either table moves: versions only grow, and only those of a key that counts as
\* moved from then on.
LEMMA MoveStep ==
    ASSUME VerifyTypeOK, VerifyInv, NEW k \in VKeys, Moves(k),
           source' \in [VKeys -> 0..MaxChanges], mirror' \in [VKeys -> 0..MaxChanges],
           \A j \in VKeys : mirror'[j] <= source'[j] /\ source[j] <= source'[j] /\ mirror[j] <= mirror'[j],
           \A j \in VKeys \ {k} : source'[j] = source[j] /\ mirror'[j] = mirror[j]
    PROVE  VerifyTypeOK' /\ VerifyInv'
<1>1. /\ \A j \in VKeys : source[j] \in Nat /\ mirror[j] \in Nat /\ held[j] \in Nat
      /\ pass \in PassRecord /\ named \subseteq Divergence /\ MaxChanges \in Nat
  BY VerifyFacts
<1>2. /\ pass' = pass /\ report' = report /\ named' = named /\ held' = held /\ owed' = owed
      /\ moved' = moved \cup {k}
  BY DEF Moves
<1>3. moves' \in 0..MaxMoves
  <2>1. MaxMoves \in Nat /\ moves \in 0..MaxMoves
    BY VerifyAssumption DEF VerifyTypeOK
  <2>2. moves < MaxMoves /\ moves' = moves + 1
    BY DEF Moves
  <2> QED
    BY <2>1, <2>2
<1>4. VerifyTypeOK'
  BY <1>2, <1>3 DEF VerifyTypeOK
<1>5. \A j \in VKeys \ moved' : j \in VKeys \ moved /\ source'[j] = source[j] /\ mirror'[j] = mirror[j]
  BY <1>2
<1>6. \A j \in VKeys : source'[j] \in Nat /\ mirror'[j] \in Nat
  BY <1>1
<1>7. BehindInv'
  BY DEF BehindInv
<1>8. WalkInv'
  BY <1>2, <1>5 DEF VerifyInv, WalkInv, CountedTo, Named, Rechecking
<1>9. ReadInv'
  <2> SUFFICES ASSUME pass.step = "source" PROVE ReadInv'
    BY <1>2 DEF ReadInv
  <2>1. DOMAIN pass.mir \subseteq VKeys /\ \A j \in DOMAIN pass.mir : pass.mir[j] \in Nat
    <3>1. pass.mir \in Rows
      BY <1>1 DEF PassRecord
    <3> QED
      BY <1>1, <3>1, RowsFacts
  <2>2. \A j \in DOMAIN pass.mir : j > pass.after /\ pass.mir[j] <= mirror'[j]
    <3> TAKE j \in DOMAIN pass.mir
    <3>1. j > pass.after /\ pass.mir[j] <= mirror[j]
      BY DEF VerifyInv, ReadInv
    <3>2. mirror[j] <= mirror'[j] /\ mirror[j] \in Nat /\ mirror'[j] \in Nat /\ pass.mir[j] \in Nat
      BY <1>1, <1>6, <2>1
    <3> QED
      BY <3>1, <3>2
  <2>3. \A j \in VKeys \ moved' :
              /\ j \in DOMAIN pass.mir => pass.mir[j] = mirror'[j]
              /\ /\ j \notin DOMAIN pass.mir /\ j > pass.after
                 /\ Full(DOMAIN pass.mir) => j <= Max(DOMAIN pass.mir)
                 => mirror'[j] = 0
    BY <1>5 DEF VerifyInv, ReadInv
  <2> QED
    BY <1>2, <2>2, <2>3 DEF ReadInv
<1>10. VersionInv'
  <2>1. \A d \in named : d.key \in VKeys /\ d.version \in Nat
    BY <1>1 DEF Divergence
  <2>2. ASSUME Walking, NEW d \in named PROVE d.version < source'[d.key]
    <3>1. d.version < source[d.key] /\ source[d.key] <= source'[d.key]
      BY <2>1, <2>2 DEF VerifyInv, VersionInv
    <3>2. d.version \in Nat /\ source[d.key] \in Nat /\ source'[d.key] \in Nat
      BY <1>1, <1>6, <2>1
    <3> QED
      BY <3>1, <3>2
  <2> QED
    BY <1>2, <2>2 DEF VerifyInv, VersionInv, Walking
<1>11. OwedInv'
  <2>1. ASSUME Rechecking, NEW j \in VKeys \ owed PROVE held[j] <= mirror'[j]
    <3>1. held[j] <= mirror[j] /\ mirror[j] <= mirror'[j]
      BY <2>1 DEF VerifyInv, OwedInv
    <3> QED
      BY <1>1, <1>6, <3>1
  <2> QED
    BY <1>2, <2>1 DEF VerifyInv, OwedInv, Rechecking, Chunk
<1>12. SettledInv'
  BY <1>2 DEF VerifyInv, SettledInv, SettledIsOwed, Rechecking
<1> QED
  BY <1>4, <1>7, <1>8, <1>9, <1>10, <1>11, <1>12 DEF VerifyInv

LEMMA SourceChangesStep ==
    ASSUME VerifyTypeOK, VerifyInv, NEW k \in VKeys, SourceChanges(k)
    PROVE  VerifyTypeOK' /\ VerifyInv'
<1>1. /\ source \in [VKeys -> 0..MaxChanges] /\ mirror \in [VKeys -> 0..MaxChanges] /\ MaxChanges \in Nat
      /\ \A j \in VKeys : source[j] \in Nat /\ mirror[j] \in Nat
  BY VerifyFacts
<1>2. /\ source[k] < MaxChanges /\ source' = [source EXCEPT ![k] = source[k] + 1] /\ mirror' = mirror
      /\ Moves(k)
  BY DEF SourceChanges
<1>3. source[k] + 1 \in 0..MaxChanges
  BY <1>1, <1>2
<1>4. source' \in [VKeys -> 0..MaxChanges] /\ source'[k] = source[k] + 1
      /\ \A j \in VKeys \ {k} : source'[j] = source[j]
  BY <1>1, <1>2, <1>3
<1>5. ASSUME NEW j \in VKeys
      PROVE  mirror'[j] <= source'[j] /\ source[j] <= source'[j] /\ mirror[j] <= mirror'[j]
  <2>1. source[j] \in Nat /\ mirror[j] \in Nat /\ mirror[j] <= source[j]
    BY <1>1 DEF VerifyInv, BehindInv
  <2>2. source'[j] \in {source[j], source[j] + 1}
    BY <1>4
  <2> QED
    BY <1>2, <2>1, <2>2
<1> QED
  BY <1>1, <1>2, <1>4, <1>5, MoveStep

LEMMA PumpDeliversStep ==
    ASSUME VerifyTypeOK, VerifyInv, NEW k \in VKeys, PumpDelivers(k)
    PROVE  VerifyTypeOK' /\ VerifyInv'
<1>1. /\ source \in [VKeys -> 0..MaxChanges] /\ mirror \in [VKeys -> 0..MaxChanges] /\ MaxChanges \in Nat
      /\ \A j \in VKeys : source[j] \in Nat /\ mirror[j] \in Nat
  BY VerifyFacts
<1>2. /\ mirror[k] < source[k] /\ mirror' = [mirror EXCEPT ![k] = mirror[k] + 1] /\ source' = source
      /\ Moves(k)
  BY DEF PumpDelivers
<1>3. mirror[k] + 1 \in 0..MaxChanges
  <2>1. source[k] \in 0..MaxChanges
    BY <1>1
  <2> QED
    BY <1>1, <1>2, <2>1
<1>4. mirror' \in [VKeys -> 0..MaxChanges] /\ mirror'[k] = mirror[k] + 1
      /\ \A j \in VKeys \ {k} : mirror'[j] = mirror[j]
  BY <1>1, <1>2, <1>3
<1>5. ASSUME NEW j \in VKeys
      PROVE  mirror'[j] <= source'[j] /\ source[j] <= source'[j] /\ mirror[j] <= mirror'[j]
  <2>1. source[j] \in Nat /\ mirror[j] \in Nat /\ mirror[j] <= source[j]
    BY <1>1 DEF VerifyInv, BehindInv
  <2>2. CASE j = k
    BY <1>2, <1>4, <2>1, <2>2
  <2>3. CASE j # k
    BY <1>2, <1>4, <2>1, <2>3
  <2> QED
    BY <2>2, <2>3
<1> QED
  BY <1>1, <1>2, <1>4, <1>5, MoveStep

LEMMA BeginVerifyStep ==
    ASSUME VerifyTypeOK, VerifyInv, BeginVerify
    PROVE  VerifyTypeOK' /\ VerifyInv'
<1>1. /\ pass.step = "idle" /\ pass' = [NoPass EXCEPT !.step = "mirror"]
      /\ source' = source /\ mirror' = mirror /\ moves' = moves /\ moved' = moved
      /\ report' = report /\ named' = named /\ held' = held /\ owed' = owed
  BY DEF BeginVerify, tables
<1>2. MaxKey \in Nat /\ \A k \in VKeys : k \in Nat /\ k > 0
  BY VerifyFacts DEF VKeys
<1>3. pass' \in PassRecord /\ pass'.step = "mirror" /\ pass'.after = 0
  BY <1>1, <1>2, FreshPass DEF PassRecord
<1>4. VerifyTypeOK'
  BY <1>1, <1>3 DEF VerifyTypeOK, PassRecord
<1>5. BehindInv' /\ SettledInv'
  BY <1>1, <1>3 DEF VerifyInv, BehindInv, SettledInv, SettledIsOwed, Rechecking
<1>6. report.resume = 0
  BY <1>1 DEF VerifyInv, WalkInv
<1>7. CountedTo(report.resume)'
  BY <1>1, <1>2, <1>6 DEF CountedTo
<1>8. WalkInv'
  BY <1>1, <1>3, <1>6, <1>7 DEF VerifyInv, WalkInv, Rechecking, Named
<1>9. ReadInv' /\ OwedInv' /\ VersionInv'
  BY <1>1, <1>3 DEF VerifyInv, ReadInv, OwedInv, VersionInv, Walking, Rechecking
<1> QED
  BY <1>4, <1>5, <1>8, <1>9 DEF VerifyInv

LEMMA VerifyStopsStep ==
    ASSUME VerifyTypeOK, VerifyInv, VerifyStops
    PROVE  VerifyTypeOK' /\ VerifyInv'
<1>1. /\ pass.step \in {"mirror", "source"} /\ pass' = [NoPass EXCEPT !.step = "stopped"]
      /\ source' = source /\ mirror' = mirror /\ moved' = moved
      /\ report' = report /\ named' = named /\ held' = held /\ owed' = owed
  BY DEF VerifyStops
<1>2. MaxKey \in Nat
  BY VerifyFacts
<1>3. pass' \in PassRecord /\ pass'.step = "stopped"
  BY <1>1, <1>2, FreshPass DEF PassRecord
<1>4. moves' \in 0..MaxMoves
  <2>1. MaxMoves \in Nat /\ moves \in 0..MaxMoves
    BY VerifyAssumption DEF VerifyTypeOK
  <2>2. moves < MaxMoves /\ moves' = moves + 1
    BY DEF VerifyStops
  <2> QED
    BY <2>1, <2>2
<1>5. VerifyTypeOK'
  BY <1>1, <1>3, <1>4 DEF VerifyTypeOK, PassRecord
<1>6. BehindInv' /\ SettledInv'
  BY <1>1, <1>3 DEF VerifyInv, BehindInv, SettledInv, SettledIsOwed, Rechecking
<1>7. CountedTo(report.resume)'
  BY <1>1 DEF VerifyInv, WalkInv, CountedTo, Named
<1>8. WalkInv'
  BY <1>1, <1>3, <1>7 DEF VerifyInv, WalkInv, Rechecking, Named
<1>9. ReadInv' /\ OwedInv' /\ VersionInv'
  BY <1>1, <1>3 DEF VerifyInv, ReadInv, OwedInv, VersionInv, Walking, Rechecking
<1> QED
  BY <1>5, <1>6, <1>8, <1>9 DEF VerifyInv

\* A report that lists nothing.
LEMMA FreshReport ==
    ASSUME MaxKey \in Nat
    PROVE  /\ NoReport \in ReportRecord
           /\ NoReport.found = {} /\ NoReport.resume = 0 /\ NoReport.settled = {}
  BY DEF NoReport, ReportRecord

LEMMA VerifyFromStep ==
    ASSUME VerifyTypeOK, VerifyInv, VerifyFrom
    PROVE  VerifyTypeOK' /\ VerifyInv'
<1>1. /\ pass.step = "stopped" /\ pass' = [NoPass EXCEPT !.step = "mirror", !.after = report.resume]
      /\ report' = [NoReport EXCEPT !.resume = report.resume]
      /\ source' = source /\ mirror' = mirror /\ moves' = moves /\ moved' = moved
      /\ named' = named /\ held' = held /\ owed' = owed
  BY DEF VerifyFrom, tables, NewReport
<1>2. MaxKey \in Nat /\ report.resume \in 0..MaxKey
  BY VerifyFacts DEF ReportRecord
<1>3. pass' \in PassRecord /\ pass'.step = "mirror" /\ pass'.after = report.resume
  BY <1>1, <1>2, FreshPass DEF PassRecord
<1>4. report' \in ReportRecord /\ report'.resume = report.resume /\ report'.settled = {}
  BY <1>1, <1>2, FreshReport DEF ReportRecord
<1>5. VerifyTypeOK'
  BY <1>1, <1>3, <1>4 DEF VerifyTypeOK, PassRecord, ReportRecord
<1>6. BehindInv' /\ SettledInv'
  BY <1>1, <1>3, <1>4 DEF VerifyInv, BehindInv, SettledInv, SettledIsOwed, Rechecking
<1>7. CountedTo(report.resume)
  BY <1>1 DEF VerifyInv, WalkInv
<1>8. CountedTo(report.resume)'
  BY <1>1, <1>4, <1>7 DEF CountedTo, Named
<1>9. WalkInv'
  BY <1>1, <1>3, <1>4, <1>8 DEF VerifyInv, WalkInv, Rechecking, Named
<1>10. ReadInv' /\ OwedInv' /\ VersionInv'
  BY <1>1, <1>3 DEF VerifyInv, ReadInv, OwedInv, VersionInv, Walking, Rechecking
<1> QED
  BY <1>5, <1>6, <1>9, <1>10 DEF VerifyInv

LEMMA readMirrorRangeStep ==
    ASSUME VerifyTypeOK, VerifyInv, readMirrorRange
    PROVE  VerifyTypeOK' /\ VerifyInv'
<1> DEFINE there == {k \in VKeys : mirror[k] # 0}
           P == {k \in there : k > pass.after}
           f == [k \in FirstOf(P) |-> mirror[k]]
<1>1. Page(there) = FirstOf(P)
  BY Zenon DEF Page, FirstOf
<1>2. /\ pass.step = "mirror" /\ pass' = [pass EXCEPT !.step = "source", !.mir = f]
      /\ source' = source /\ mirror' = mirror /\ moves' = moves /\ moved' = moved
      /\ report' = report /\ named' = named /\ held' = held /\ owed' = owed
  BY <1>1 DEF readMirrorRange, tables
<1>3. P \subseteq VKeys /\ \A k \in VKeys : k \in P <=> mirror[k] # 0 /\ k > pass.after
  BY Zenon
<1> HIDE DEF P, there
<1>4. FirstOf(P) \subseteq P
  BY <1>3, FirstFacts
<1>5. /\ pass \in PassRecord /\ mirror \in [VKeys -> 0..MaxChanges]
      /\ \A k \in VKeys : mirror[k] \in Nat
  BY VerifyFacts
<1>6. f \in Rows /\ DOMAIN f = FirstOf(P) /\ \A k \in FirstOf(P) : f[k] = mirror[k]
  <2>1. f \in [FirstOf(P) -> 0..MaxChanges]
    BY <1>3, <1>4, <1>5
  <2>2. FirstOf(P) \subseteq VKeys
    BY <1>3, <1>4
  <2>3. f \in Rows
    BY <2>1, <2>2, RowsType
  <2> QED
    BY <2>3
<1> HIDE DEF f
<1>7. /\ pass' \in PassRecord /\ pass'.step = "source" /\ pass'.after = pass.after /\ pass'.mir = f
      /\ pass'.keys = pass.keys
  BY <1>2, <1>5, <1>6 DEF PassRecord
<1>8. VerifyTypeOK'
  BY <1>2, <1>7 DEF VerifyTypeOK, PassRecord
<1>9. BehindInv' /\ SettledInv'
  BY <1>2, <1>7 DEF VerifyInv, BehindInv, SettledInv, SettledIsOwed, Rechecking
<1>10. CountedTo(report.resume)'
  BY <1>2 DEF VerifyInv, WalkInv, CountedTo, Named
<1>11. WalkInv'
  BY <1>2, <1>7, <1>10 DEF VerifyInv, WalkInv, Rechecking, Named
<1>12. ReadInv'
  <2>1. \A k \in FirstOf(P) : k > pass.after /\ f[k] <= mirror[k]
    BY <1>3, <1>4, <1>5, <1>6
  <2>2. ASSUME NEW k \in VKeys, k \notin FirstOf(P), k > pass.after,
               Full(FirstOf(P)) => k <= Max(FirstOf(P))
        PROVE  mirror[k] = 0
    <3>1. k \notin P
      BY <1>3, <2>2, ReadComplete
    <3> QED
      BY <1>3, <2>2, <3>1
  <2> QED
    BY <1>2, <1>6, <1>7, <2>1, <2>2 DEF ReadInv
<1>13. OwedInv' /\ VersionInv'
  BY <1>2, <1>7 DEF VerifyInv, OwedInv, VersionInv, Walking, Rechecking
<1> QED
  BY <1>8, <1>9, <1>11, <1>12, <1>13 DEF VerifyInv

\* A read that ran into the limit has a last key.
LEMMA FullMax ==
    ASSUME MaxKey \in Nat, RangeSize \in Nat, RangeSize > 0, NEW S, S \subseteq VKeys, Full(S)
    PROVE  Max(S) \in S /\ Max(S) \in 0..MaxKey /\ Max(S) \in Nat
<1>1. S # {}
  BY FS_EmptySet DEF Full
<1>2. S \subseteq 0..MaxKey
  BY DEF VKeys
<1> DEFINE top == Max(S)
<1>3. top \in S
  BY <1>1, <1>2, MaxOfBounded
<1> HIDE DEF top
<1>4. top \in 0..MaxKey
  BY <1>2, <1>3
<1>5. top \in Nat
  BY <1>4
<1> QED
  BY <1>3, <1>4, <1>5 DEF top

\* Where a range ends: not past the last key of a read that ran into the limit.
LEMMA RangeEnd ==
    ASSUME MaxKey \in Nat, RangeSize \in Nat, RangeSize > 0,
           NEW M, M \subseteq VKeys, NEW N, N \subseteq VKeys
    PROVE  /\ rangeEnd(M, N) \in 0..MaxKey
           /\ Full(M) => rangeEnd(M, N) <= Max(M)
           /\ Full(N) => rangeEnd(M, N) <= Max(N)
           /\ ~Full(M) /\ ~Full(N) => rangeEnd(M, N) = MaxKey
<1>1. ASSUME NEW S, S \subseteq VKeys, Full(S) PROVE Max(S) \in 0..MaxKey /\ Max(S) \in Int
  BY <1>1, FullMax
<1>2. CASE Full(M) /\ Full(N)
  <2>1. Max(M) \in 0..MaxKey /\ Max(N) \in 0..MaxKey /\ Max(M) \in Int /\ Max(N) \in Int
    BY <1>1, <1>2
  <2>2. /\ Min({Max(M), Max(N)}) \in {Max(M), Max(N)}
        /\ Min({Max(M), Max(N)}) <= Max(M) /\ Min({Max(M), Max(N)}) <= Max(N)
    BY <2>1, MinOfTwo
  <2>3. rangeEnd(M, N) = Min({Max(M), Max(N)})
    BY <1>2 DEF rangeEnd
  <2> QED
    BY <1>2, <2>1, <2>2, <2>3
<1>3. CASE Full(M) /\ ~Full(N)
  <2>1. Max(M) \in 0..MaxKey
    BY <1>1, <1>3
  <2>2. rangeEnd(M, N) = Max(M)
    BY <1>3 DEF rangeEnd
  <2> QED
    BY <1>3, <2>1, <2>2
<1>4. CASE ~Full(M) /\ Full(N)
  <2>1. Max(N) \in 0..MaxKey
    BY <1>1, <1>4
  <2>2. rangeEnd(M, N) = Max(N)
    BY <1>4 DEF rangeEnd
  <2> QED
    BY <1>4, <2>1, <2>2
<1>5. CASE ~Full(M) /\ ~Full(N)
  BY <1>5 DEF rangeEnd
<1> QED
  BY <1>2, <1>3, <1>4, <1>5

\* What record adds: one divergence for every key of D, at the version read.
LEMMA RecordFacts ==
    ASSUME NEW rep, NEW D, D \subseteq VKeys, NEW mir \in Rows, MaxChanges \in Nat
    PROVE  /\ record(rep, D, mir) \subseteq Divergence
           /\ \A d \in record(rep, D, mir) : d.key \in D /\ d.version = VersionIn(mir, d.key)
           /\ \A k \in D : \E d \in record(rep, D, mir) : d.key = k
<1> DEFINE room == MaxReport - Cardinality({d \in rep.found : d.listed})
           fits(k) == Cardinality({j \in D : j < k}) < room
           entry(k) == [key |-> k, version |-> VersionIn(mir, k), listed |-> fits(k)]
<1>1. record(rep, D, mir) = {entry(k) : k \in D}
  BY Zenon DEF record, VersionIn
<1>2. \A k : fits(k) \in BOOLEAN
  OBVIOUS
<1>3. DOMAIN mir \subseteq VKeys /\ \A k \in DOMAIN mir : mir[k] \in 0..MaxChanges
  BY RowsFacts
<1>4. \A k : VersionIn(mir, k) \in 0..MaxChanges
  BY <1>3 DEF VersionIn
<1> HIDE DEF fits
<1>5. \A k \in D : /\ entry(k) \in Divergence /\ entry(k).key = k
                   /\ entry(k).version = VersionIn(mir, k)
  BY <1>2, <1>4 DEF Divergence
<1> HIDE DEF entry
<1> QED
  BY <1>1, <1>5

\* The keys of the source that compareRange reads, the end of its range, and the keys
\* on which the range disagrees.
SourceKeys == Page({k \in VKeys : Live(source[k])})
Through == rangeEnd(DOMAIN pass.mir, SourceKeys)
Defects == Disagree({k \in DOMAIN pass.mir : k <= Through}, pass.mir,
                    [k \in {j \in SourceKeys : j <= Through} |-> source[k]])

\* The keys on which a range disagrees.  Of the keys that have not moved they are
\* those on which the tables do, and each was read at a version the source is past.
LEMMA RangeCompared ==
    ASSUME VerifyTypeOK, VerifyInv, pass.step = "source"
    PROVE  /\ Defects \subseteq VKeys /\ SourceKeys \subseteq VKeys /\ Through \in 0..MaxKey
           /\ Full(DOMAIN pass.mir) \/ Full(SourceKeys) \/ Through = MaxKey
           /\ \A k \in Defects : VersionIn(pass.mir, k) < source[k]
           /\ \A k \in VKeys \ moved : k > pass.after /\ k <= Through =>
                 (k \in Defects <=> Differs(mirror[k], source[k]))
           /\ \A k \in Defects : k > pass.after /\ k <= Through
<1> DEFINE N == SourceKeys
           through == Through
           D == Defects
           M == DOMAIN pass.mir
           Q == {k \in {j \in VKeys : Live(source[j])} : k > pass.after}
           Mt == {k \in M : k <= through}
           Nt == {j \in N : j <= through}
           g == [k \in Nt |-> source[k]]
           other(k) == IF k \in Nt THEN source[k] ELSE 0
<1>1. /\ MaxKey \in Nat /\ MaxChanges \in Nat /\ RangeSize \in Nat /\ RangeSize > 0
      /\ \A k \in VKeys : source[k] \in Nat /\ mirror[k] \in Nat /\ k \in Nat
      /\ pass \in PassRecord
  BY VerifyFacts
<1>2. N = FirstOf(Q)
  BY Zenon DEF SourceKeys, Page, FirstOf
<1>3. Q \subseteq VKeys /\ \A k \in VKeys : k \in Q <=> Live(source[k]) /\ k > pass.after
  BY Zenon
<1> HIDE DEF Q
<1>4. N \subseteq Q /\ N \subseteq VKeys
  BY <1>2, <1>3, FirstFacts
<1>5. pass.mir \in Rows
  BY <1>1 DEF PassRecord
<1>6. M \subseteq VKeys /\ \A k \in M : pass.mir[k] \in Nat
  BY <1>1, <1>5, RowsFacts
<1>7. /\ through \in 0..MaxKey
      /\ Full(M) => through <= Max(M)
      /\ Full(N) => through <= Max(N)
      /\ ~Full(M) /\ ~Full(N) => through = MaxKey
  BY <1>1, <1>4, <1>6, RangeEnd DEF Through
<1>8. \A k : k \in D <=> k \in Mt \cup Nt /\ Differs(IF k \in Mt THEN pass.mir[k] ELSE 0, other(k))
  <2>1. DOMAIN g = Nt /\ \A k \in Nt : g[k] = source[k]
    OBVIOUS
  <2>2. D = {k \in Mt \cup Nt : Differs(IF k \in Mt THEN pass.mir[k] ELSE 0, other(k))}
    <3>1. D = Disagree(Mt, pass.mir, g)
      BY Zenon DEF Defects
    <3>2. \A k : (IF k \in DOMAIN g THEN g[k] ELSE 0) = other(k)
      BY <2>1
    <3> HIDE DEF Mt, Nt, g, other
    <3>3. D = {k \in Mt \cup DOMAIN g : Differs(IF k \in Mt THEN pass.mir[k] ELSE 0, IF k \in DOMAIN g THEN g[k] ELSE 0)}
      BY <3>1, Zenon DEF Disagree
    <3> QED
      BY <2>1, <3>2, <3>3
  <2> HIDE DEF Mt, Nt, g, other
  <2> QED
    BY <2>2
<1>9. \A k \in M : k > pass.after /\ pass.mir[k] <= mirror[k]
  BY DEF VerifyInv, ReadInv
<1>10. D \subseteq VKeys /\ \A k \in D : k > pass.after /\ k <= through /\ k \in Mt \cup Nt
  BY <1>3, <1>4, <1>6, <1>8, <1>9
<1>11. \A k \in VKeys : k <= through => (k \in Mt <=> k \in M) /\ (k \in Nt <=> k \in N)
  OBVIOUS
<1> HIDE DEF Mt, Nt
\* A key past the cursor and within the range that the read of the source does not
\* have is not live there.
<1>12. ASSUME NEW k \in VKeys, k > pass.after, k <= through, k \notin N
       PROVE  ~Live(source[k])
  <2>1. Full(N) => k <= Max(N)
    <3> SUFFICES ASSUME Full(N) PROVE k <= Max(N)
      OBVIOUS
    <3>1. through <= Max(N) /\ through \in Nat /\ k \in Nat
      BY <1>1, <1>7
    <3>2. Max(N) \in Nat
      BY <1>1, <1>4, FullMax
    <3> QED
      BY <1>12, <3>1, <3>2
  <2>2. k \notin Q
    BY <1>2, <1>3, <1>12, <2>1, ReadComplete
  <2> QED
    BY <1>3, <1>12, <2>2
<1>13. ASSUME NEW k \in VKeys, k > pass.after, k <= through, NEW v \in Nat
       PROVE  Differs(v, other(k)) <=> Differs(v, source[k])
  <2>1. CASE k \in Nt
    BY <2>1
  <2>2. CASE k \notin Nt
    <3>1. ~Live(source[k]) /\ source[k] \in Nat
      BY <1>1, <1>11, <1>12, <1>13, <2>2
    <3>2. other(k) = 0
      BY <2>2
    <3> HIDE DEF other
    <3> QED
      BY <3>1, <3>2, DiffersFacts
  <2> QED
    BY <2>1, <2>2
<1> HIDE DEF other
<1>14. ASSUME NEW k \in D PROVE VersionIn(pass.mir, k) < source[k]
  <2> DEFINE v == VersionIn(pass.mir, k)
  <2>1. k \in VKeys /\ k > pass.after /\ k <= through
    BY <1>10
  <2>2. v = (IF k \in Mt THEN pass.mir[k] ELSE 0) /\ v \in Nat /\ v <= mirror[k]
    BY <1>1, <1>6, <1>9, <1>11, <2>1 DEF VersionIn
  <2> HIDE DEF v
  <2>3. Differs(v, source[k])
    BY <1>8, <1>13, <2>1, <2>2
  <2>4. v # source[k] /\ source[k] \in Nat
    BY <1>1, <2>1, <2>2, <2>3, DiffersFacts
  <2>5. mirror[k] <= source[k] /\ mirror[k] \in Nat
    BY <1>1, <2>1 DEF VerifyInv, BehindInv
  <2>6. v < source[k]
    BY <2>2, <2>4, <2>5
  <2> QED
    BY <2>6 DEF v
<1>15. ASSUME NEW k \in VKeys \ moved, k > pass.after, k <= through
       PROVE  k \in D <=> Differs(mirror[k], source[k])
  <2> DEFINE v == IF k \in Mt THEN pass.mir[k] ELSE 0
  <2>1. v = mirror[k] /\ v \in Nat
    <3>1. CASE k \in M
      BY <1>1, <1>11, <1>15, <3>1 DEF VerifyInv, ReadInv
    <3>2. CASE k \notin M
      <4>1. Full(M) => k <= Max(M)
        <5> SUFFICES ASSUME Full(M) PROVE k <= Max(M)
          OBVIOUS
        <5>1. through <= Max(M) /\ through \in Nat /\ k \in Nat
          BY <1>1, <1>7
        <5>2. Max(M) \in Nat
          BY <1>1, <1>6, FullMax
        <5> QED
          BY <1>15, <5>1, <5>2
      <4>2. mirror[k] = 0
        BY <1>15, <3>2, <4>1 DEF VerifyInv, ReadInv
      <4> QED
        BY <1>11, <1>15, <3>2, <4>2
    <3> QED
      BY <3>1, <3>2
  <2>2. k \in D <=> k \in Mt \cup Nt /\ Differs(v, other(k))
    BY <1>8
  <2> HIDE DEF v
  <2>3. k \in D <=> k \in Mt \cup Nt /\ Differs(mirror[k], source[k])
    BY <1>13, <1>15, <2>1, <2>2
  <2>4. ASSUME k \notin Mt, k \notin Nt PROVE ~Differs(mirror[k], source[k])
    <3>1. v = 0
      BY <2>4 DEF v
    <3>2. ~Live(source[k]) /\ source[k] \in Nat
      BY <1>1, <1>11, <1>12, <1>15, <2>4
    <3> QED
      BY <2>1, <3>1, <3>2, DiffersFacts
  <2> QED
    BY <2>3, <2>4
<1> QED
  BY <1>4, <1>7, <1>10, <1>14, <1>15

LEMMA compareRangeStep ==
    ASSUME VerifyTypeOK, VerifyInv, compareRange
    PROVE  VerifyTypeOK' /\ VerifyInv'
<1> DEFINE S == {k \in VKeys : Live(source[k])}
           src == [k \in Page(S) |-> source[k]]
           N == SourceKeys
           M == DOMAIN pass.mir
           bounded == Full(M) \/ Full(N)
           through == Through
           Nt == {j \in N : j <= through}
           D == Defects
           new == record(report, D, pass.mir)
<1>1. DOMAIN src = N /\ \A k \in N : src[k] = source[k]
  BY DEF SourceKeys
<1>2. /\ pass.step = "source"
      /\ report' = [report EXCEPT !.found = @ \cup new, !.resume = IF bounded THEN through ELSE 0]
      /\ named' = named \cup new
      /\ pass' = [NoPass EXCEPT !.step = IF bounded THEN "mirror" ELSE "ended",
                                !.after = IF bounded THEN through ELSE 0]
      /\ held' = IF bounded THEN held ELSE source
      /\ source' = source /\ mirror' = mirror /\ moves' = moves /\ moved' = moved /\ owed' = owed
  <2>1. /\ pass.step = "source"
        /\ source' = source /\ mirror' = mirror /\ moves' = moves /\ moved' = moved /\ owed' = owed
    BY DEF compareRange, tables
  <2> DEFINE B == Full(M) \/ Full(DOMAIN src)
             T == rangeEnd(M, DOMAIN src)
             E == Disagree({k \in M : k <= T}, pass.mir, [k \in {j \in DOMAIN src : j <= T} |-> src[k]])
             added == record(report, E, pass.mir)
  <2>2. /\ report' = [report EXCEPT !.found = @ \cup added, !.resume = IF B THEN T ELSE 0]
        /\ named' = named \cup added
        /\ pass' = [NoPass EXCEPT !.step = IF B THEN "mirror" ELSE "ended",
                                  !.after = IF B THEN T ELSE 0]
        /\ held' = IF B THEN held ELSE source
    BY Zenon DEF compareRange
  <2> HIDE DEF src
  <2>3. B = bounded /\ T = through
    BY <1>1 DEF Through
  <2>4. E = D
    <3>1. [k \in {j \in DOMAIN src : j <= T} |-> src[k]] = [k \in Nt |-> source[k]]
      <4>1. {j \in DOMAIN src : j <= T} = Nt
        BY <1>1, <2>3, Zenon
      <4>2. Nt \subseteq N
        BY Zenon
      <4> HIDE DEF Nt, T
      <4> QED
        BY <1>1, <4>1, <4>2
    <3>2. {k \in M : k <= T} = {k \in M : k <= through}
      BY <2>3, Zenon
    <3> HIDE DEF T
    <3> QED
      BY <3>1, <3>2, Zenon DEF Defects
  <2> HIDE DEF E, D, B, T, bounded, through
  <2> QED
    BY <2>1, <2>2, <2>3, <2>4
<1>3. /\ pass \in PassRecord /\ report \in ReportRecord /\ named \subseteq Divergence
      /\ source \in [VKeys -> 0..MaxChanges] /\ held \in [VKeys -> 0..MaxChanges]
      /\ MaxKey \in Nat /\ MaxChanges \in Nat /\ \A k \in VKeys : k \in Nat /\ k <= MaxKey
  BY VerifyFacts
<1>4. pass.mir \in Rows /\ report.resume = pass.after /\ CountedTo(report.resume) /\ pass.after \in Nat
  BY <1>2, <1>3 DEF VerifyInv, WalkInv, PassRecord
<1>5. /\ D \subseteq VKeys /\ N \subseteq VKeys /\ through \in 0..MaxKey
      /\ Full(M) \/ Full(N) \/ through = MaxKey
      /\ \A k \in D : VersionIn(pass.mir, k) < source[k]
      /\ \A k \in VKeys \ moved : k > pass.after /\ k <= through =>
            (k \in D <=> Differs(mirror[k], source[k]))
      /\ \A k \in D : k > pass.after /\ k <= through
  BY <1>2, RangeCompared, Zenon
<1>6. bounded \/ through = MaxKey
  BY <1>5
<1>7. bounded \in BOOLEAN
  BY DEF Full
<1> HIDE DEF S, src, N, M, bounded, through, Nt, D
<1>8. /\ new \subseteq Divergence
      /\ \A d \in new : d.key \in D /\ d.version = VersionIn(pass.mir, d.key)
      /\ \A k \in D : \E d \in new : d.key = k
  BY <1>3, <1>4, <1>5, RecordFacts
<1> HIDE DEF new
<1>9. named' \subseteq Divergence /\ \A k : Named(k)' <=> Named(k) \/ k \in D
  BY <1>2, <1>3, <1>8 DEF Named
<1>10. \A k \in VKeys \ moved : k <= through /\ Differs(mirror[k], source[k]) => Named(k)'
  <2> TAKE k \in VKeys \ moved
  <2> HAVE k <= through /\ Differs(mirror[k], source[k])
  <2>1. CASE k <= pass.after
    BY <1>4, <1>9, <2>1 DEF CountedTo
  <2>2. CASE ~(k <= pass.after)
    <3>1. k > pass.after
      BY <1>3, <1>4, <2>2
    <3> QED
      BY <1>5, <1>9, <3>1
  <2> QED
    BY <2>1, <2>2
<1>11. \A k \in VKeys \ moved : Named(k)' => Differs(mirror[k], source[k])
  <2> TAKE k \in VKeys \ moved
  <2> HAVE Named(k)'
  <2>1. CASE Named(k)
    BY <1>2, <2>1 DEF VerifyInv, WalkInv, Rechecking
  <2>2. CASE k \in D
    BY <1>5, <2>2
  <2> QED
    BY <1>9, <2>1, <2>2
<1>12. \A d \in named' : d.version < source[d.key]
  <2> TAKE d \in named'
  <2>1. CASE d \in named
    BY <1>2, <2>1 DEF VerifyInv, VersionInv, Walking
  <2>2. CASE d \in new
    BY <1>5, <1>8, <2>2
  <2> QED
    BY <1>2, <2>1, <2>2
<1>13. report.found \subseteq Divergence /\ report.settled \subseteq VKeys /\ report.settled = {}
  BY <1>2, <1>3 DEF ReportRecord, VerifyInv, SettledInv, Rechecking
<1>14. CASE bounded
  <2>1. /\ pass' = [NoPass EXCEPT !.step = "mirror", !.after = through]
        /\ report' = [report EXCEPT !.found = @ \cup new, !.resume = through] /\ held' = held
    BY <1>2, <1>14
  <2>2. pass' \in PassRecord /\ pass'.step = "mirror" /\ pass'.after = through
    BY <1>3, <1>5, <2>1, FreshPass DEF PassRecord
  <2>3. report' \in ReportRecord /\ report'.resume = through /\ report'.settled = {}
    BY <1>3, <1>5, <1>8, <1>13, <2>1 DEF ReportRecord
  <2>4. VerifyTypeOK'
    BY <1>2, <1>9, <2>1, <2>2, <2>3 DEF VerifyTypeOK, PassRecord, ReportRecord
  <2>5. BehindInv' /\ SettledInv'
    BY <1>2, <2>2, <2>3 DEF VerifyInv, BehindInv, SettledInv, SettledIsOwed, Rechecking
  <2>6. CountedTo(report.resume)'
    BY <1>2, <1>10, <2>3 DEF CountedTo
  <2>7. WalkInv'
    BY <1>2, <1>11, <2>2, <2>3, <2>6 DEF WalkInv
  <2>8. ReadInv' /\ OwedInv' /\ VersionInv'
    BY <1>2, <1>12, <2>2 DEF ReadInv, OwedInv, VersionInv, Walking, Rechecking
  <2> QED
    BY <2>4, <2>5, <2>7, <2>8 DEF VerifyInv
<1>15. CASE ~bounded
  <2>1. /\ pass' = [NoPass EXCEPT !.step = "ended", !.after = 0]
        /\ report' = [report EXCEPT !.found = @ \cup new, !.resume = 0] /\ held' = source
    BY <1>2, <1>15
  <2>2. pass' \in PassRecord /\ pass'.step = "ended"
    BY <1>3, <2>1, FreshPass DEF PassRecord
  <2>3. report' \in ReportRecord /\ report'.settled = {}
    <3>1. 0 \in 0..MaxKey /\ report.found \cup new \in SUBSET Divergence
      BY <1>3, <1>8, <1>13
    <3> QED
      BY <1>3, <1>13, <2>1, <3>1 DEF ReportRecord
  <2>4. VerifyTypeOK'
    BY <1>2, <1>3, <1>9, <2>1, <2>2, <2>3 DEF VerifyTypeOK, PassRecord, ReportRecord
  <2>5. BehindInv' /\ SettledInv'
    BY <1>2, <2>2, <2>3 DEF VerifyInv, BehindInv, SettledInv, SettledIsOwed, Rechecking
  <2>6. CountedTo(MaxKey)'
    BY <1>2, <1>6, <1>10, <1>15 DEF CountedTo
  <2>7. WalkInv'
    BY <1>2, <1>11, <2>2, <2>6 DEF WalkInv
  <2>8. ReadInv' /\ OwedInv' /\ VersionInv'
    BY <1>2, <1>12, <2>1, <2>2 DEF ReadInv, OwedInv, VersionInv, Walking, Rechecking
  <2> QED
    BY <2>4, <2>5, <2>7, <2>8 DEF VerifyInv
<1> QED
  BY <1>14, <1>15

LEMMA BeginRecheckStep ==
    ASSUME VerifyTypeOK, VerifyInv, BeginRecheck
    PROVE  VerifyTypeOK' /\ VerifyInv'
<1> DEFINE K == {d.key : d \in {e \in named : e.listed}}
<1>1. /\ pass.step = "ended" /\ pass' = [NoPass EXCEPT !.step = "recheckM", !.keys = K]
      /\ report' = NoReport /\ owed' = {k \in VKeys : mirror[k] < held[k]}
      /\ source' = source /\ mirror' = mirror /\ moves' = moves /\ moved' = moved
      /\ named' = named /\ held' = held
  BY DEF BeginRecheck, tables
<1>2. /\ MaxKey \in Nat /\ named \subseteq Divergence
      /\ \A k \in VKeys : mirror[k] \in Nat /\ held[k] \in Nat
  BY VerifyFacts
<1>3. K \in SUBSET VKeys
  BY <1>2 DEF Divergence
<1> HIDE DEF K
<1>4. pass' \in PassRecord /\ pass'.step = "recheckM"
  BY <1>1, <1>2, <1>3, FreshPass DEF PassRecord
<1>5. report' \in ReportRecord /\ report'.settled = {}
  BY <1>1, <1>2, FreshReport
<1>6. VerifyTypeOK'
  BY <1>1, <1>4, <1>5 DEF VerifyTypeOK, PassRecord, ReportRecord
<1>7. BehindInv' /\ SettledInv'
  BY <1>1, <1>4, <1>5 DEF VerifyInv, BehindInv, SettledInv, SettledIsOwed, Rechecking
<1>8. WalkInv' /\ ReadInv'
  BY <1>4 DEF WalkInv, ReadInv, Rechecking
<1>9. VersionInv'
  BY <1>1, <1>4 DEF VerifyInv, VersionInv, Walking
<1>10. OwedInv'
  BY <1>1, <1>2, <1>4 DEF OwedInv
<1> QED
  BY <1>6, <1>7, <1>8, <1>9, <1>10 DEF VerifyInv

LEMMA readMirrorKeysStep ==
    ASSUME VerifyTypeOK, VerifyInv, readMirrorKeys
    PROVE  VerifyTypeOK' /\ VerifyInv'
<1> DEFINE C == {j \in Chunk : mirror[j] # 0}
           f == [k \in C |-> mirror[k]]
<1>1. /\ pass.step = "recheckM" /\ pass' = [pass EXCEPT !.step = "recheckS", !.mir = f]
      /\ source' = source /\ mirror' = mirror /\ moves' = moves /\ moved' = moved
      /\ report' = report /\ named' = named /\ held' = held /\ owed' = owed
  BY DEF readMirrorKeys, tables
<1>2. /\ pass \in PassRecord /\ mirror \in [VKeys -> 0..MaxChanges]
      /\ \A k \in VKeys : mirror[k] \in Nat /\ held[k] \in Nat
  BY VerifyFacts
<1>3. Chunk \subseteq VKeys
  BY <1>2 DEF Chunk, PassRecord
<1>4. f \in Rows /\ DOMAIN f = C /\ \A k \in C : f[k] = mirror[k]
  <2>1. C \subseteq VKeys
    BY <1>3
  <2>2. f \in [C -> 0..MaxChanges]
    BY <1>2, <2>1
  <2>3. f \in Rows
    BY <2>1, <2>2, RowsType
  <2> QED
    BY <2>3
<1>5. C \subseteq Chunk /\ \A k \in Chunk : k \notin C => mirror[k] = 0
  BY Zenon
<1> HIDE DEF f, C
<1>6. pass' \in PassRecord /\ pass'.step = "recheckS" /\ pass'.mir = f /\ pass'.keys = pass.keys
  BY <1>1, <1>2, <1>4 DEF PassRecord
<1>7. Chunk' = Chunk
  BY <1>6 DEF Chunk
<1>8. VerifyTypeOK'
  BY <1>1, <1>6 DEF VerifyTypeOK, PassRecord
<1>9. BehindInv' /\ SettledInv' /\ WalkInv' /\ ReadInv' /\ VersionInv'
  BY <1>1, <1>6 DEF VerifyInv, BehindInv, SettledInv, SettledIsOwed, WalkInv, ReadInv, VersionInv, Walking, Rechecking
<1>10. \A k \in VKeys \ owed : held[k] <= mirror[k]
  BY <1>1 DEF VerifyInv, OwedInv, Rechecking
<1>11. \A k \in Chunk \ owed : held[k] <= VersionIn(f, k)
  <2> TAKE k \in Chunk \ owed
  <2>1. held[k] <= mirror[k]
    BY <1>3, <1>10
  <2>2. VersionIn(f, k) = mirror[k]
    BY <1>4, <1>5 DEF VersionIn
  <2> QED
    BY <2>1, <2>2
<1>12. OwedInv'
  BY <1>1, <1>4, <1>5, <1>6, <1>7, <1>10, <1>11 DEF OwedInv
<1> QED
  BY <1>8, <1>9, <1>12 DEF VerifyInv

LEMMA RecheckKeysStep ==
    ASSUME VerifyTypeOK, VerifyInv, RecheckKeys
    PROVE  VerifyTypeOK' /\ VerifyInv'
<1> DEFINE C == {j \in Chunk : Live(source[j])}
           src == [k \in C |-> source[k]]
           D == Disagree(DOMAIN pass.mir, pass.mir, src)
           new == record(report, D, pass.mir)
           done == {k \in D : Settled(k, pass.mir)}
<1>1. /\ pass.step = "recheckS"
      /\ report' = [report EXCEPT !.found = @ \cup new, !.settled = @ \cup done]
      /\ pass' = [pass EXCEPT !.step = "recheckM", !.keys = @ \ Chunk, !.mir = NoRows]
      /\ source' = source /\ mirror' = mirror /\ moves' = moves /\ moved' = moved
      /\ named' = named /\ held' = held /\ owed' = owed
  BY DEF RecheckKeys, tables
<1>2. /\ pass \in PassRecord /\ report \in ReportRecord /\ named \subseteq Divergence
      /\ MaxChanges \in Nat /\ \A k \in VKeys : held[k] \in Nat
  BY VerifyFacts
<1>3. Chunk \subseteq VKeys /\ pass.mir \in Rows
  BY <1>2 DEF Chunk, PassRecord
<1>4. /\ DOMAIN pass.mir \subseteq Chunk
      /\ \A k \in Chunk \ owed : held[k] <= VersionIn(pass.mir, k)
  BY <1>1 DEF VerifyInv, OwedInv
<1>5. D \subseteq Chunk
  <2>1. DOMAIN src \subseteq Chunk
    BY Zenon
  <2> HIDE DEF src
  <2> QED
    BY <1>4, <2>1 DEF Disagree
<1> HIDE DEF C, src, D
<1>6. new \subseteq Divergence
  BY <1>2, <1>3, <1>5, RecordFacts
<1>7. done \subseteq owed
  <2> SUFFICES ASSUME NEW k \in done, k \notin owed PROVE FALSE
    OBVIOUS
  <2>1. k \in Chunk /\ k \in VKeys /\ Settled(k, pass.mir)
    BY <1>3, <1>5
  <2>2. PICK d \in named : d.key = k /\ d.version = VersionIn(pass.mir, k)
    BY <2>1, Zenon DEF Settled, VersionIn
  <2>3. d.version < held[k]
    BY <1>1, <2>2 DEF VerifyInv, VersionInv, Walking
  <2>4. held[k] <= d.version
    BY <1>4, <2>1, <2>2
  <2>5. d.version \in Nat /\ held[k] \in Nat
    BY <1>2, <2>1 DEF Divergence
  <2> QED
    BY <2>3, <2>4, <2>5
<1>8. done \subseteq VKeys
  BY <1>3, <1>5
<1> HIDE DEF new, done
<1>9. pass' \in PassRecord /\ pass'.step = "recheckM"
  <2>1. pass.keys \ Chunk \in SUBSET VKeys
    BY <1>2 DEF PassRecord
  <2> QED
    BY <1>1, <1>2, <2>1, NoRowsType DEF PassRecord
<1>10. report' \in ReportRecord /\ report'.settled = report.settled \cup done
  BY <1>1, <1>2, <1>6, <1>8 DEF ReportRecord
<1>11. VerifyTypeOK'
  BY <1>1, <1>9, <1>10 DEF VerifyTypeOK, PassRecord, ReportRecord
<1>12. BehindInv' /\ WalkInv' /\ ReadInv' /\ VersionInv'
  BY <1>1, <1>9 DEF VerifyInv, BehindInv, WalkInv, ReadInv, VersionInv, Walking, Rechecking
<1>13. SettledInv'
  BY <1>1, <1>7, <1>9, <1>10 DEF VerifyInv, SettledInv, SettledIsOwed, Rechecking
<1>14. OwedInv'
  BY <1>1, <1>9 DEF VerifyInv, OwedInv, Rechecking
<1> QED
  BY <1>11, <1>12, <1>13, <1>14 DEF VerifyInv

LEMMA RecheckEndsStep ==
    ASSUME VerifyTypeOK, VerifyInv, RecheckEnds
    PROVE  VerifyTypeOK' /\ VerifyInv'
<1>1. /\ pass.step = "recheckM" /\ pass' = [NoPass EXCEPT !.step = "rechecked"]
      /\ source' = source /\ mirror' = mirror /\ moves' = moves /\ moved' = moved
      /\ report' = report /\ named' = named /\ held' = held /\ owed' = owed
  BY DEF RecheckEnds, tables
<1>2. MaxKey \in Nat
  BY VerifyFacts
<1>3. pass' \in PassRecord /\ pass'.step = "rechecked"
  BY <1>1, <1>2, FreshPass DEF PassRecord
<1>4. VerifyTypeOK'
  BY <1>1, <1>3 DEF VerifyTypeOK, PassRecord
<1>5. BehindInv' /\ SettledInv' /\ WalkInv' /\ ReadInv' /\ VersionInv'
  BY <1>1, <1>3 DEF VerifyInv, BehindInv, SettledInv, SettledIsOwed, WalkInv, ReadInv, VersionInv, Walking, Rechecking
<1>6. OwedInv'
  BY <1>1, <1>3 DEF VerifyInv, OwedInv, Rechecking
<1> QED
  BY <1>4, <1>5, <1>6 DEF VerifyInv

-------------------------------------------------------------------------------
(***************************************************************************)
(* The theorems.                                                           *)
(***************************************************************************)

LEMMA VerifyInitially ==
    ASSUME VerifyInit
    PROVE  VerifyTypeOK /\ VerifyInv
<1>1. MaxKey \in Nat /\ MaxChanges \in Nat /\ MaxMoves \in Nat
  BY VerifyAssumption
<1>2. NoPass \in PassRecord /\ NoPass.step = "idle"
  BY <1>1, FreshPass
<1>3. NoReport \in ReportRecord /\ NoReport.resume = 0 /\ NoReport.settled = {}
  BY <1>1, FreshReport
<1>4. /\ pass = NoPass /\ report = NoReport /\ named = {} /\ moves = 0 /\ moved = {} /\ owed = {}
      /\ held \in [VKeys -> 0..MaxChanges]
      /\ source \in [VKeys -> 0..MaxChanges] /\ mirror \in [VKeys -> 0..MaxChanges]
      /\ \A k \in VKeys : mirror[k] <= source[k]
  BY <1>1 DEF VerifyInit
<1>5. VerifyTypeOK
  <2>1. moves \in 0..MaxMoves
    BY <1>1, <1>4
  <2> QED
    BY <1>2, <1>3, <1>4, <2>1 DEF VerifyTypeOK, PassRecord, ReportRecord
<1>6. VerifyInv
  BY <1>2, <1>3, <1>4 DEF VerifyInv, BehindInv, WalkInv, ReadInv, VersionInv, OwedInv, SettledInv, SettledIsOwed,
      Walking, Rechecking, Named
<1> QED
  BY <1>5, <1>6

LEMMA VerifyStep ==
    ASSUME VerifyTypeOK, VerifyInv, [VerifyNext]_verifyVars
    PROVE  VerifyTypeOK' /\ VerifyInv'
<1>1. CASE UNCHANGED verifyVars
  <2>1. /\ source' = source /\ mirror' = mirror /\ moves' = moves /\ moved' = moved /\ pass' = pass
        /\ report' = report /\ named' = named /\ held' = held /\ owed' = owed
    BY <1>1 DEF verifyVars
  <2>2. VerifyTypeOK' /\ BehindInv' /\ WalkInv'
    BY <2>1 DEF VerifyTypeOK, VerifyInv, BehindInv, WalkInv, CountedTo, Named, Rechecking
  <2>3. ReadInv' /\ VersionInv' /\ SettledInv' /\ OwedInv'
    BY <2>1 DEF VerifyInv, ReadInv, VersionInv, SettledInv, SettledIsOwed, OwedInv, Chunk, Walking, Rechecking
  <2> QED
    BY <2>2, <2>3 DEF VerifyInv
<1>2. ASSUME NEW k \in VKeys, SourceChanges(k) \/ PumpDelivers(k)
      PROVE  VerifyTypeOK' /\ VerifyInv'
  BY <1>2, SourceChangesStep, PumpDeliversStep
<1>3. CASE BeginVerify \/ readMirrorRange \/ compareRange \/ VerifyStops \/ VerifyFrom
  BY <1>3, BeginVerifyStep, readMirrorRangeStep, compareRangeStep, VerifyStopsStep, VerifyFromStep
<1>4. CASE BeginRecheck \/ readMirrorKeys \/ RecheckKeys \/ RecheckEnds
  BY <1>4, BeginRecheckStep, readMirrorKeysStep, RecheckKeysStep, RecheckEndsStep
<1> QED
  BY <1>1, <1>2, <1>3, <1>4, Zenon DEF VerifyNext

\* The variables of the Verifier keep their types and the inductive invariant holds:
\* the report is right about the part of the key space the walk has behind it.
THEOREM VerifyInvCorrect == VerifySpec => [](VerifyTypeOK /\ VerifyInv)
<1>1. VerifyInit => VerifyTypeOK /\ VerifyInv
  BY VerifyInitially
<1>2. VerifyTypeOK /\ VerifyInv /\ [VerifyNext]_verifyVars => VerifyTypeOK' /\ VerifyInv'
  BY VerifyStep
<1> QED
  BY <1>1, <1>2, PTL DEF VerifySpec

\* A walk that reached the end counted exactly the keys on which the tables disagreed
\* all along (DefectsCounted), in however many passes and ranges.
THEOREM DefectsCountedCorrect == VerifySpec => []DefectsCounted
<1>1. VerifyTypeOK /\ VerifyInv => DefectsCounted
  <2> SUFFICES ASSUME VerifyTypeOK, VerifyInv, pass.step = "ended", NEW k \in VKeys \ moved
               PROVE  Differs(mirror[k], source[k]) <=> \E d \in named : d.key = k
    BY DEF DefectsCounted
  <2>1. k <= MaxKey
    BY VerifyFacts
  <2>2. Differs(mirror[k], source[k]) => Named(k)
    BY <2>1 DEF VerifyInv, WalkInv, CountedTo
  <2>3. Named(k) => Differs(mirror[k], source[k])
    BY DEF VerifyInv, WalkInv, Rechecking
  <2> QED
    BY <2>2, <2>3 DEF Named
<1> QED
  BY <1>1, VerifyInvCorrect, PTL

\* Recheck settles a key only if something the source held when the walk ended had
\* not been delivered when Recheck began (SettledIsOwed).
THEOREM SettledIsOwedCorrect == VerifySpec => []SettledIsOwed
<1>1. VerifyInv => SettledIsOwed
  BY DEF VerifyInv, SettledInv
<1> QED
  BY <1>1, VerifyInvCorrect, PTL

-------------------------------------------------------------------------------
(***************************************************************************)
(* The MySQL outbox: the inductive invariant.                              *)
(***************************************************************************)

\* Where the tick of a worker is, what it has read and not handled, and what it has
\* marked in its transaction.
StepOf(w)  == work[w].step
BatchOf(w) == work[w].batch
MarksOf(w) == work[w].marks

\* A worker between GET_LOCK and its release holds the lock; what a worker holds when.
LockedInv ==
    /\ lock = Pool => unreleased
    /\ \A w \in Workers : StepOf(w) \in {"select", "deliver", "release"} => lock = w
    /\ \A w \in Workers : BatchOf(w) # {} <=> StepOf(w) \in {"deliver", "plain"}
    /\ \A w \in Workers : StepOf(w) \in {"idle", "select", "plain"} => MarksOf(w) = {}

\* What a worker has read is pending, and has the aggregate or none, as its tick
\* goes; what it has marked has it.  No row is in a worker's hands twice, and no two
\* workers have marked the same one.
MarksInv ==
    /\ \A w \in Workers : \A x \in BatchOf(w) : x.state = "pending" /\ (x.agg <=> StepOf(w) = "deliver")
    /\ \A w \in Workers : \A m \in MarksOf(w) : m.agg
    /\ \A w \in Workers : \A x, y \in BatchOf(w) : x.id = y.id => x = y
    /\ \A w \in Workers : \A x, y \in MarksOf(w) : x.id = y.id => x = y
    /\ \A w \in Workers : \A x \in BatchOf(w), m \in MarksOf(w) : x.id # m.id
    /\ \A v, w \in Workers : v # w => \A m \in MarksOf(v), n \in MarksOf(w) : m.id # n.id

\* Every copy of a row, in the table, in a transaction or in a worker's memory.
Known == {x \in Row : x \in rows \/ x \in emitting \/ \E w \in Workers : x \in BatchOf(w) \/ x \in MarksOf(w)}

\* Two copies of one row.
Same(x, y) == x.id = y.id /\ x.event = y.event /\ (x.agg <=> y.agg)

\* An id stands for one event, wherever it turns up.
NamesInv ==
    /\ \A x, y \in Known : x.id = y.id => Same(x, y)
    /\ \A x \in Known, d \in delivered : d[1] = x.id => d[2] = x.event
    /\ IdNamesOneEvent

\* The counter is ahead of every id.  An id that was delivered, one about to be, and
\* the floor that Cleanup read lie at or below that of some row, which is what a
\* restarted server computes the counter from.
CounterInv ==
    /\ \A x \in Known : x.id < counter
    /\ \A d \in delivered : \E r \in rows : d[1] <= r.id
    /\ \A w \in Workers : \A x \in BatchOf(w) : \E r \in rows : x.id <= r.id
    /\ floor # 0 => \E r \in rows : floor <= r.id

\* Copy x is not of the row e, and before it if both are of the aggregate.
Behind(x, e) == x.id # e.id /\ (x.agg /\ e.agg => x.id < e.id)

\* One transaction emits for the aggregate at a time, behind all its events; and what
\* is not committed nobody has seen.
EmittingInv ==
    /\ \A e, f \in emitting : e.agg /\ f.agg => e = f
    /\ \A e \in emitting, r \in rows : Behind(r, e)
    /\ \A e \in emitting, w \in Workers : \A x \in BatchOf(w) \cup MarksOf(w) : Behind(x, e)
    /\ \A e \in emitting, d \in delivered : d[1] # e.id
    /\ \A e \in emitting : e.state = "pending"

Spent(x) == MaxAttempts > 0 /\ x.attempts >= MaxAttempts

\* Copy y is at most one failure ahead of copy x.
Near(x, y) == x.attempts <= y.attempts /\ y.attempts <= x.attempts + 1

\* The attempts of an unpublished row of the aggregate, as its readers and its marks
\* have them.  No mark brings a parked row back.
ParkedInv ==
    /\ \A r \in rows : r.state = "failed" => Spent(r)
    /\ \A w \in Workers : \A m \in MarksOf(w) : /\ m.state = "pending" => ~Spent(m)
                                                /\ m.state = "failed" => Spent(m)
    /\ \A w \in Workers : \A m \in MarksOf(w), r \in rows :
          m.state # "published" /\ r.state # "published" /\ r.id = m.id => Near(r, m)
    /\ \A w \in Workers : \A x \in BatchOf(w), r \in rows :
          x.agg /\ r.state # "published" /\ r.id = x.id => Near(x, r)
    /\ \A v, w \in Workers : \A x \in BatchOf(w), m \in MarksOf(v) :
          x.agg /\ m.state # "published" /\ m.id = x.id => Near(x, m)

IsDelivered(x) == <<x.id, x.event>> \in delivered
MarkedBy(V, x) == \E v \in V : \E m \in MarksOf(v) : m.id = x.id

\* An event of the aggregate before one in a batch is in the batch or was delivered.
OrderInv ==
    \A w \in Workers : StepOf(w) = "deliver" =>
        \A x \in BatchOf(w), q \in PendingRows : q.agg /\ q.id < x.id =>
            IsDelivered(q) \/ \E y \in BatchOf(w) : y.id = q.id

\* What was delivered and is pending is excused, or somebody's mark on it is on the way.
AgainInv ==
    /\ \A r \in PendingRows : r.agg /\ IsDelivered(r) => r.id \in excused \/ MarkedBy(Workers, r)
    /\ \A w \in Workers : \A x \in BatchOf(w) :
          x.agg /\ IsDelivered(x) => x.id \in excused \/ MarkedBy(Workers \ {w}, x)
    /\ \A w \in Workers : \A m \in MarksOf(w) :
          m.state # "published" /\ IsDelivered(m) => m.id \in excused

\* Every attempt counted is a fault, and the sets are finite.
FewInv ==
    /\ \A x \in Known : x.attempts <= faults
    /\ IsFiniteSet(rows) /\ \A w \in Workers : IsFiniteSet(MarksOf(w))

MySQLInv ==
    /\ LockedInv /\ MarksInv /\ NamesInv /\ CounterInv /\ EmittingInv /\ ParkedInv
    /\ OrderInv /\ AgainInv /\ FewInv
    /\ ~jumped /\ ~again

WorkerTick == [step : {"idle", "select", "deliver", "release", "end", "plain"},
         batch : SUBSET Row, marks : SUBSET Row, keep : BOOLEAN]

-------------------------------------------------------------------------------
(***************************************************************************)
(* The MySQL outbox: facts the steps share.                                *)
(***************************************************************************)

\* The constants, as the assumption has them.
LEMMA MyBounds ==
    /\ MaxEvents \in Nat /\ Batch \in Nat /\ Batch > 0 /\ MaxAttempts \in Nat /\ MaxFaults \in Nat
    /\ Nobody \notin Workers /\ Pool \notin Workers /\ Nobody # Pool
  BY MySQLOutboxAssumption

\* The fields of a row.
LEMMA RowFacts ==
    ASSUME NEW x \in Row
    PROVE  /\ x.id \in Nat /\ x.id > 0 /\ x.id <= MaxEvents /\ x.event \in 1..MaxEvents
           /\ x.agg \in BOOLEAN /\ x.due \in BOOLEAN
           /\ x.state \in {"pending", "published", "failed"}
           /\ x.attempts \in Nat
  BY MyBounds DEF Row

\* What the type invariant says of the variables, one by one.
LEMMA MyFacts ==
    ASSUME MySQLTypeOK
    PROVE  /\ rows \subseteq Row /\ emitting \subseteq Row
           /\ \A r, s \in rows \cup emitting : r.id = s.id => r = s
           /\ counter \in Nat /\ counter >= 1 /\ floor \in Nat /\ faults \in Nat /\ faults <= MaxFaults
           /\ work \in [Workers -> WorkerTick]
           /\ \A w \in Workers : BatchOf(w) \subseteq Row /\ MarksOf(w) \subseteq Row
           /\ \A d \in delivered : d[1] \in Nat /\ d[1] > 0
           /\ {jumped, again, unreleased} \subseteq BOOLEAN
<1>1. work \in [Workers -> WorkerTick]
  BY DEF MySQLTypeOK, WorkerTick
<1>2. \A w \in Workers : BatchOf(w) \subseteq Row /\ MarksOf(w) \subseteq Row
  BY <1>1 DEF WorkerTick, BatchOf, MarksOf
<1>3. \A d \in delivered : d[1] \in Nat /\ d[1] > 0
  BY MyBounds DEF MySQLTypeOK
<1>4. counter \in Nat /\ counter >= 1 /\ floor \in Nat /\ faults \in Nat /\ faults <= MaxFaults
  BY MyBounds DEF MySQLTypeOK
<1> QED
  BY <1>1, <1>2, <1>3, <1>4 DEF MySQLTypeOK

\* All but worker w are where they were.
OthersStay(w) == \A v \in Workers \ {w} : work'[v] = work[v]

\* The tick of w goes to step s, with batch b and marks m.
Becomes(w, s, b, m) ==
    /\ work' \in [Workers -> WorkerTick]
    /\ OthersStay(w)
    /\ work'[w].step = s /\ work'[w].batch = b /\ work'[w].marks = m

\* The same, as the invariants speak of it.
LEMMA BecomesFacts ==
    ASSUME MySQLTypeOK, NEW w \in Workers, NEW s, NEW b, NEW m, Becomes(w, s, b, m)
    PROVE  /\ StepOf(w)' = s /\ BatchOf(w)' = b /\ MarksOf(w)' = m
           /\ \A v \in Workers : v # w => StepOf(v)' = StepOf(v) /\ BatchOf(v)' = BatchOf(v) /\ MarksOf(v)' = MarksOf(v)
  BY DEF Becomes, OthersStay, StepOf, BatchOf, MarksOf

\* Copies everywhere are copies of rows known before, and no attempt is counted
\* that is not a fault.
KnownKept ==
    \A x \in Known' : \E y \in Known : Same(x, y) /\ x.attempts + faults <= y.attempts + faults'

\* Deliveries are those of before, and of what some worker had read.
DeliveredKept ==
    /\ delivered \subseteq delivered'
    /\ \A d \in delivered' : \/ d \in delivered
                             \/ \E w \in Workers : \E x \in BatchOf(w) : d = <<x.id, x.event>>

\* Where copies of a row are, they are rows.
LEMMA KnownFacts ==
    ASSUME MySQLTypeOK
    PROVE  /\ rows \subseteq Known /\ emitting \subseteq Known
           /\ \A w \in Workers : BatchOf(w) \subseteq Known /\ MarksOf(w) \subseteq Known
           /\ Known \subseteq Row
  BY MyFacts DEF Known

\* Ids go on naming one event when no copy of a new row appears and only what was
\* read is delivered.
LEMMA NamesKept ==
    ASSUME MySQLTypeOK, NamesInv, KnownKept, DeliveredKept
    PROVE  NamesInv'
<1>1. ASSUME NEW x \in Known', NEW y \in Known', x.id = y.id PROVE Same(x, y)
  <2>1. PICK p \in Known : Same(x, p)
    BY DEF KnownKept
  <2>2. PICK q \in Known : Same(y, q)
    BY DEF KnownKept
  <2>3. p.id = q.id
    BY <1>1, <2>1, <2>2 DEF Same
  <2>4. Same(p, q)
    BY <2>3 DEF NamesInv
  <2> QED
    BY <2>1, <2>2, <2>4 DEF Same
<1>2. \A d \in delivered' : \E p : (d \in delivered \/ (p \in Known /\ d[1] = p.id /\ d[2] = p.event))
  BY KnownFacts DEF DeliveredKept
<1>3. ASSUME NEW x \in Known', NEW d \in delivered', d[1] = x.id PROVE d[2] = x.event
  <2>1. PICK y \in Known : Same(x, y)
    BY DEF KnownKept
  <2>2. CASE d \in delivered
    BY <1>3, <2>1, <2>2 DEF NamesInv, Same
  <2>3. CASE d \notin delivered
    <3>1. PICK p \in Known : d[1] = p.id /\ d[2] = p.event
      BY <1>2, <2>3
    <3> QED
      BY <1>3, <2>1, <3>1 DEF NamesInv, Same
  <2> QED
    BY <2>2, <2>3
<1>4. ASSUME NEW d \in delivered', NEW e \in delivered', d[1] = e[1] PROVE d = e
  <2>1. CASE d \in delivered /\ e \in delivered
    BY <1>4, <2>1 DEF NamesInv, IdNamesOneEvent
  <2>2. CASE d \notin delivered /\ e \in delivered
    <3>1. PICK w \in Workers : \E x \in BatchOf(w) : d = <<x.id, x.event>>
      BY <2>2 DEF DeliveredKept
    <3>2. PICK x \in BatchOf(w) : d = <<x.id, x.event>>
      BY <3>1
    <3>3. x \in Known /\ e[1] = x.id
      BY <1>4, <3>2, KnownFacts
    <3>4. e[2] = x.event
      BY <2>2, <3>3 DEF NamesInv
    <3>5. e = <<e[1], e[2]>>
      BY <2>2 DEF MySQLTypeOK
    <3> QED
      BY <3>2, <3>3, <3>4, <3>5
  <2>3. CASE d \in delivered /\ e \notin delivered
    <3>1. PICK w \in Workers : \E x \in BatchOf(w) : e = <<x.id, x.event>>
      BY <2>3 DEF DeliveredKept
    <3>2. PICK x \in BatchOf(w) : e = <<x.id, x.event>>
      BY <3>1
    <3>3. x \in Known /\ d[1] = x.id
      BY <1>4, <3>2, KnownFacts
    <3>4. d[2] = x.event
      BY <2>3, <3>3 DEF NamesInv
    <3>5. d = <<d[1], d[2]>>
      BY <2>3 DEF MySQLTypeOK
    <3> QED
      BY <3>2, <3>3, <3>4, <3>5
  <2>4. CASE d \notin delivered /\ e \notin delivered
    <3>1. PICK p \in Known : d = <<p.id, p.event>>
      BY <2>4, KnownFacts DEF DeliveredKept
    <3>2. PICK q \in Known : e = <<q.id, q.event>>
      BY <2>4, KnownFacts DEF DeliveredKept
    <3>3. p.id = q.id
      BY <1>4, <3>1, <3>2
    <3> QED
      BY <3>1, <3>2, <3>3 DEF NamesInv, Same
  <2> QED
    BY <2>1, <2>2, <2>3, <2>4
<1> QED
  BY <1>1, <1>3, <1>4 DEF NamesInv, IdNamesOneEvent, Same

\* Batches are as they were or smaller, or read from the table.
BatchesKept ==
    \A w \in Workers : \A x \in BatchOf(w)' : x \in BatchOf(w) \/ x \in rows

\* The counter stays ahead of the ids when no id leaves the table.
LEMMA CounterKept ==
    ASSUME MySQLTypeOK, CounterInv, KnownKept, DeliveredKept, BatchesKept, counter' = counter,
           \A r \in rows : \E s \in rows' : s.id = r.id,
           floor' # 0 => \E r \in rows : floor' <= r.id
    PROVE  CounterInv'
<1>1. \A x \in Known' : x.id < counter'
  BY DEF KnownKept, CounterInv, Same
<1>2. ASSUME NEW d \in delivered' PROVE \E r \in rows' : d[1] <= r.id
  <2>1. \E r \in rows : d[1] <= r.id
    BY <1>2 DEF DeliveredKept, CounterInv
  <2> QED
    BY <2>1
<1>3. ASSUME NEW w \in Workers, NEW x \in BatchOf(w)' PROVE \E r \in rows' : x.id <= r.id
  <2>1. x \in BatchOf(w) \/ (x \in rows /\ x.id \in Nat)
    BY MyFacts, RowFacts DEF BatchesKept
  <2>2. \E r \in rows : x.id <= r.id
    BY <2>1 DEF CounterInv
  <2> QED
    BY <2>2
<1>4. floor' # 0 => \E r \in rows' : floor' <= r.id
  OBVIOUS
<1> QED
  BY <1>1, <1>2, <1>3, <1>4 DEF CounterInv

\* What is not committed stays unseen when no copy of a new row appears.
LEMMA EmittingKept ==
    ASSUME MySQLTypeOK, EmittingInv, DeliveredKept, BatchesKept, emitting' \subseteq emitting,
           \A r \in rows' : \E s \in rows : Same(r, s),
           \A w \in Workers : \A m \in MarksOf(w)' : m \in MarksOf(w) \/ \E x \in BatchOf(w) : Same(m, x)
    PROVE  EmittingInv'
<1>1. ASSUME NEW e \in emitting', NEW r \in rows' PROVE Behind(r, e)
  <2>1. PICK s \in rows : Same(r, s)
    OBVIOUS
  <2>2. Behind(s, e)
    BY DEF EmittingInv
  <2> QED
    BY <2>1, <2>2 DEF Behind, Same
<1>2. ASSUME NEW e \in emitting', NEW w \in Workers, NEW x \in BatchOf(w)' PROVE Behind(x, e)
  BY <1>2 DEF EmittingInv, BatchesKept
<1>3. ASSUME NEW e \in emitting', NEW w \in Workers, NEW m \in MarksOf(w)' PROVE Behind(m, e)
  <2>1. PICK x \in BatchOf(w) \cup MarksOf(w) : Same(m, x)
    BY DEF Same
  <2>2. Behind(x, e)
    BY DEF EmittingInv
  <2> QED
    BY <2>1, <2>2 DEF Behind, Same
<1>4. ASSUME NEW e \in emitting', NEW d \in delivered' PROVE d[1] # e.id
  <2>1. CASE d \in delivered
    BY <2>1 DEF EmittingInv
  <2>2. CASE \E w \in Workers : \E x \in BatchOf(w) : d = <<x.id, x.event>>
    BY <2>2 DEF EmittingInv, Behind
  <2> QED
    BY <2>1, <2>2 DEF DeliveredKept
<1> QED
  BY <1>1, <1>2, <1>3, <1>4 DEF EmittingInv, Behind

\* Rows are those of before, in the same state.
RowsKept ==
    \A r \in rows' : \E s \in rows : Same(r, s) /\ r.state = s.state /\ r.attempts = s.attempts

\* Batches and marks are those of before, or fewer.
WorkKept ==
    \A w \in Workers : BatchOf(w)' \subseteq BatchOf(w) /\ MarksOf(w)' \subseteq MarksOf(w)

\* Attempts keep their order when neither rows nor marks gain one.
LEMMA ParkedKept ==
    ASSUME MySQLTypeOK, ParkedInv, RowsKept, WorkKept
    PROVE  ParkedInv'
<1>1. \A r \in rows' : r.state = "failed" => Spent(r)
  BY DEF ParkedInv, RowsKept, Spent
<1>2. ASSUME NEW w \in Workers, NEW m \in MarksOf(w)', NEW r \in rows',
             m.state # "published", r.state # "published", r.id = m.id
      PROVE  Near(r, m)
  <2>1. PICK s \in rows : Same(r, s) /\ r.state = s.state /\ r.attempts = s.attempts
    BY DEF RowsKept
  <2>2. Near(s, m)
    BY <1>2, <2>1 DEF ParkedInv, WorkKept, Same
  <2> QED
    BY <2>1, <2>2 DEF Near
<1>3. ASSUME NEW w \in Workers, NEW x \in BatchOf(w)', NEW r \in rows', x.agg, r.state # "published", r.id = x.id
      PROVE  Near(x, r)
  <2>1. PICK s \in rows : Same(r, s) /\ r.state = s.state /\ r.attempts = s.attempts
    BY DEF RowsKept
  <2>2. Near(x, s)
    BY <1>3, <2>1 DEF ParkedInv, WorkKept, Same
  <2> QED
    BY <2>1, <2>2 DEF Near
<1>4. /\ \A w \in Workers : \A m \in MarksOf(w)' : /\ m.state = "pending" => ~Spent(m)
                                                   /\ m.state = "failed" => Spent(m)
      /\ \A v, w \in Workers : \A x \in BatchOf(w)', m \in MarksOf(v)' :
            x.agg /\ m.state # "published" /\ m.id = x.id => Near(x, m)
  BY DEF ParkedInv, WorkKept
<1> QED
  BY <1>1, <1>2, <1>3, <1>4 DEF ParkedInv, Near, Spent

\* The pending rows of the aggregate are those of before, or fewer.
PendingKept ==
    \A q \in PendingRows' : q.agg => \E p \in PendingRows : Same(q, p)

\* Batches stay in order when no row of the aggregate becomes pending.
LEMMA OrderKept ==
    ASSUME MySQLTypeOK, OrderInv, PendingKept, delivered \subseteq delivered',
           \A w \in Workers : StepOf(w)' = "deliver" => StepOf(w) = "deliver" /\ BatchOf(w)' = BatchOf(w)
    PROVE  OrderInv'
<1> SUFFICES ASSUME NEW w \in Workers, StepOf(w)' = "deliver", NEW x \in BatchOf(w)',
                    NEW q \in PendingRows', q.agg, q.id < x.id
             PROVE  IsDelivered(q)' \/ \E y \in BatchOf(w)' : y.id = q.id
  BY DEF OrderInv
<1>1. PICK p \in PendingRows : Same(q, p)
  BY DEF PendingKept
<1>2. IsDelivered(p) \/ \E y \in BatchOf(w) : y.id = p.id
  BY <1>1 DEF OrderInv, Same
<1> QED
  BY <1>1, <1>2 DEF Same, IsDelivered

\* What is delivered now and was not has no aggregate.
PlainDelivered ==
    \A d \in delivered' : d \in delivered \/ \E b \in Known : ~b.agg /\ d[1] = b.id

\* What was delivered stays accounted for when the marks that go are excused.
LEMMA AgainKept ==
    ASSUME MySQLTypeOK, NamesInv, AgainInv, MarksInv, PendingKept, PlainDelivered, excused \subseteq excused',
           \A w \in Workers : \A x \in BatchOf(w)' : x \in BatchOf(w) \/ ~x.agg,
           \A w \in Workers : MarksOf(w)' \subseteq MarksOf(w),
           \A w \in Workers : \A m \in MarksOf(w) : m \in MarksOf(w)' \/ m.id \in excused'
    PROVE  AgainInv'
<1>0. ASSUME NEW x \in Known, x.agg, <<x.id, x.event>> \in delivered' PROVE IsDelivered(x)
  <2>1. ASSUME NEW b \in Known, ~b.agg PROVE b.id # x.id
    BY <1>0, <2>1 DEF NamesInv, Same
  <2>2. <<x.id, x.event>>[1] = x.id
    OBVIOUS
  <2> QED
    BY <1>0, <2>1, <2>2 DEF PlainDelivered, IsDelivered
<1>1. \A x : \A V \in SUBSET Workers : MarkedBy(V, x) => MarkedBy(V, x)' \/ x.id \in excused'
  BY DEF MarkedBy
<1>2. ASSUME NEW r \in PendingRows', r.agg, IsDelivered(r)'
      PROVE  r.id \in excused' \/ MarkedBy(Workers, r)'
  <2>1. PICK p \in PendingRows : Same(r, p)
    BY <1>2 DEF PendingKept
  <2>2. p \in Known /\ p.agg
    BY <1>2, <2>1, KnownFacts DEF PendingRows, Same
  <2>3. IsDelivered(p)
    BY <1>0, <1>2, <2>1, <2>2 DEF IsDelivered, Same
  <2>4. p.id \in excused \/ MarkedBy(Workers, p)
    BY <2>2, <2>3 DEF AgainInv
  <2>5. p.id \in excused' \/ MarkedBy(Workers, p)'
    BY <1>1, <2>4
  <2> QED
    BY <2>1, <2>5 DEF Same, MarkedBy
<1>3. ASSUME NEW w \in Workers, NEW x \in BatchOf(w)', x.agg, IsDelivered(x)'
      PROVE  x.id \in excused' \/ MarkedBy(Workers \ {w}, x)'
  <2>1. x \in BatchOf(w) /\ x \in Known
    BY <1>3, KnownFacts
  <2>2. IsDelivered(x)
    BY <1>0, <1>3, <2>1 DEF IsDelivered
  <2>3. x.id \in excused \/ MarkedBy(Workers \ {w}, x)
    BY <1>3, <2>1, <2>2 DEF AgainInv
  <2> QED
    BY <1>1, <2>3
<1>4. ASSUME NEW w \in Workers, NEW m \in MarksOf(w)', m.state # "published", IsDelivered(m)'
      PROVE  m.id \in excused'
  <2>1. m \in MarksOf(w) /\ m \in Known /\ m.agg
    BY <1>4, KnownFacts DEF MarksInv
  <2>2. IsDelivered(m)
    BY <1>0, <1>4, <2>1 DEF IsDelivered
  <2> QED
    BY <1>4, <2>1, <2>2 DEF AgainInv
<1> QED
  BY <1>2, <1>3, <1>4 DEF AgainInv

\* Steps that leave the table and the histories alone, and workers with less.
Quiet ==
    /\ rows' = rows /\ emitting' \subseteq emitting /\ delivered' = delivered
    /\ UNCHANGED <<jumped, again>>
    /\ excused \subseteq excused' /\ faults <= faults' /\ faults' \in Nat
    /\ \A w \in Workers : \/ BatchOf(w)' = BatchOf(w) /\ (StepOf(w)' = "deliver" <=> StepOf(w) = "deliver")
                          \/ BatchOf(w)' = {} /\ StepOf(w)' # "deliver"
    /\ \A w \in Workers : \/ MarksOf(w)' = MarksOf(w)
                          \/ MarksOf(w)' = {} /\ \A m \in MarksOf(w) : m.id \in excused'

MyCore == NamesInv /\ EmittingInv /\ ParkedInv /\ OrderInv /\ AgainInv /\ FewInv /\ ~jumped /\ ~again

\* A quiet step keeps all that does not speak of the lock, the counter or the tick.
LEMMA QuietChange ==
    ASSUME MySQLTypeOK, MySQLInv, Quiet
    PROVE  /\ MyCore' /\ KnownKept /\ DeliveredKept /\ BatchesKept
<1>1. Known' \subseteq Known
  BY MyFacts DEF Known, Quiet
<1>2. KnownKept
  <2> SUFFICES ASSUME NEW x \in Known' PROVE Same(x, x) /\ x.attempts + faults <= x.attempts + faults'
    BY <1>1 DEF KnownKept
  <2>1. x.attempts \in Nat
    BY <1>1, KnownFacts, RowFacts
  <2> QED
    BY <2>1, MyFacts DEF Same, Quiet
<1>3. DeliveredKept /\ BatchesKept /\ RowsKept /\ WorkKept /\ PendingKept /\ PlainDelivered
  <2>1. DeliveredKept /\ PlainDelivered
    BY DEF DeliveredKept, PlainDelivered, Quiet
  <2>2. BatchesKept /\ WorkKept
    BY DEF BatchesKept, WorkKept, Quiet
  <2>3. RowsKept /\ PendingKept
    BY DEF RowsKept, PendingKept, Quiet, Same, PendingRows
  <2> QED
    BY <2>1, <2>2, <2>3
<1>4. NamesInv'
  BY <1>2, <1>3, NamesKept DEF MySQLInv
<1>5. EmittingInv'
  <2>1. \A r \in rows' : \E s \in rows : Same(r, s)
    BY DEF Quiet, Same
  <2>2. \A w \in Workers : \A m \in MarksOf(w)' : m \in MarksOf(w)
    BY DEF Quiet
  <2> QED
    BY <1>3, <2>1, <2>2, EmittingKept DEF MySQLInv, Quiet
<1>6. ParkedInv'
  BY <1>3, ParkedKept DEF MySQLInv
<1>7. OrderInv'
  <2>1. \A w \in Workers : StepOf(w)' = "deliver" => StepOf(w) = "deliver" /\ BatchOf(w)' = BatchOf(w)
    BY DEF Quiet
  <2> QED
    BY <1>3, <2>1, OrderKept DEF MySQLInv, Quiet
<1>8. AgainInv'
  <2>1. /\ \A w \in Workers : \A x \in BatchOf(w)' : x \in BatchOf(w)
        /\ \A w \in Workers : MarksOf(w)' \subseteq MarksOf(w)
        /\ \A w \in Workers : \A m \in MarksOf(w) : m \in MarksOf(w)' \/ m.id \in excused'
        /\ excused \subseteq excused'
    BY DEF Quiet
  <2> QED
    BY <1>3, <2>1, AgainKept DEF MySQLInv
<1>9. FewInv'
  <2>1. \A x \in Known' : x.attempts <= faults'
    <3> TAKE x \in Known'
    <3>1. x.attempts \in Nat /\ x.attempts <= faults
      BY <1>1, KnownFacts, RowFacts DEF MySQLInv, FewInv
    <3> QED
      BY <3>1, MyFacts DEF Quiet
  <2>2. IsFiniteSet(rows') /\ \A w \in Workers : IsFiniteSet(MarksOf(w)')
    BY FS_EmptySet DEF MySQLInv, FewInv, Quiet
  <2> QED
    BY <2>1, <2>2 DEF FewInv
<1>10. ~jumped' /\ ~again'
  BY DEF MySQLInv, Quiet
<1> QED
  BY <1>2, <1>3, <1>4, <1>5, <1>6, <1>7, <1>8, <1>9, <1>10 DEF MyCore

-------------------------------------------------------------------------------
(***************************************************************************)
(* The MySQL outbox: the steps of a worker that take no row any further.   *)
(***************************************************************************)

\* Smaller batches and fewer marks are as disjoint as before.
LEMMA MarksKept ==
    ASSUME MarksInv, WorkKept,
           \A w \in Workers : BatchOf(w)' # {} => (StepOf(w)' = "deliver" <=> StepOf(w) = "deliver")
    PROVE  MarksInv'
<1>1. \A w \in Workers : \A x \in BatchOf(w)' : x.state = "pending" /\ (x.agg <=> StepOf(w)' = "deliver")
  <2> TAKE w \in Workers
  <2> TAKE x \in BatchOf(w)'
  <2>1. x \in BatchOf(w)
    BY DEF WorkKept
  <2>2. StepOf(w)' = "deliver" <=> StepOf(w) = "deliver"
    OBVIOUS
  <2> QED
    BY <2>1, <2>2 DEF MarksInv
<1>2. \A w \in Workers : \A m \in MarksOf(w)' : m.agg
  BY DEF MarksInv, WorkKept
<1>3. \A w \in Workers : \A x, y \in BatchOf(w)' : x.id = y.id => x = y
  BY DEF MarksInv, WorkKept
<1>4. \A w \in Workers : \A x, y \in MarksOf(w)' : x.id = y.id => x = y
  BY DEF MarksInv, WorkKept
<1>5. \A w \in Workers : \A x \in BatchOf(w)', m \in MarksOf(w)' : x.id # m.id
  BY DEF MarksInv, WorkKept
<1>6. \A v, w \in Workers : v # w => \A m \in MarksOf(v)', n \in MarksOf(w)' : m.id # n.id
  BY DEF MarksInv, WorkKept
<1> QED
  BY <1>1, <1>2, <1>3, <1>4, <1>5, <1>6 DEF MarksInv

\* What a worker may hold at a step.
MayHold(w, s, b, m) ==
    /\ s \in {"select", "deliver", "release"} => lock' = w
    /\ b # {} <=> s \in {"deliver", "plain"}
    /\ s \in {"idle", "select", "plain"} => m = {}

\* A worker that goes on with the lock it needs leaves the others theirs.
LEMMA LockedKept ==
    ASSUME MySQLTypeOK, LockedInv, NEW w \in Workers, NEW s, NEW b, NEW m, Becomes(w, s, b, m), MayHold(w, s, b, m),
           lock' = Pool => unreleased',
           \A v \in Workers \ {w} : lock = v => lock' = v
    PROVE  LockedInv'
<1> USE BecomesFacts
<1>1. \A v \in Workers : StepOf(v)' \in {"select", "deliver", "release"} => lock' = v
  BY DEF LockedInv, MayHold
<1>2. \A v \in Workers : BatchOf(v)' # {} <=> StepOf(v)' \in {"deliver", "plain"}
  BY DEF LockedInv, MayHold
<1>3. \A v \in Workers : StepOf(v)' \in {"idle", "select", "plain"} => MarksOf(v)' = {}
  BY DEF LockedInv, MayHold
<1> QED
  BY <1>1, <1>2, <1>3 DEF LockedInv

\* A step of w that leaves the rows alone, and w with its batch and its marks or none.
LEMMA QuietBecomes ==
    ASSUME MySQLTypeOK, MySQLInv, NEW w \in Workers, NEW s, NEW b, NEW m, Becomes(w, s, b, m), MayHold(w, s, b, m),
           UNCHANGED <<rows, emitting, counter, floor, emitted, delivered, jumped, again>>,
           UNCHANGED faults \/ Mishap,
           excused \subseteq excused', excused' \subseteq 1..MaxEvents,
           lock' \in Workers \cup {Nobody, Pool}, unreleased' \in BOOLEAN, lock' = Pool => unreleased',
           \A v \in Workers \ {w} : lock = v => lock' = v,
           \/ b = BatchOf(w) /\ (s = "deliver" <=> StepOf(w) = "deliver")
           \/ b = {} /\ s # "deliver",
           \/ m = MarksOf(w)
           \/ m = {} /\ \A n \in MarksOf(w) : n.id \in excused'
    PROVE  MySQLTypeOK' /\ MySQLInv'
<1>1. faults' \in Nat /\ faults <= faults' /\ faults' \in 0..MaxFaults
  BY MyFacts, MyBounds DEF Mishap
<1>2. /\ \A v \in Workers : \/ BatchOf(v)' = BatchOf(v) /\ (StepOf(v)' = "deliver" <=> StepOf(v) = "deliver")
                            \/ BatchOf(v)' = {} /\ StepOf(v)' # "deliver"
      /\ \A v \in Workers : \/ MarksOf(v)' = MarksOf(v)
                            \/ MarksOf(v)' = {} /\ \A n \in MarksOf(v) : n.id \in excused'
  BY BecomesFacts
<1>3. Quiet
  BY <1>1, <1>2 DEF Quiet
<1>4. MySQLTypeOK'
  BY <1>1 DEF MySQLTypeOK, Becomes, WorkerTick
<1>5. MyCore' /\ KnownKept /\ DeliveredKept /\ BatchesKept
  BY <1>3, QuietChange
<1>6. CounterInv'
  BY <1>5, CounterKept DEF MySQLInv, CounterInv
<1>7. MarksInv'
  BY <1>2, MarksKept DEF WorkKept, MySQLInv
<1>8. LockedInv'
  BY LockedKept DEF MySQLInv
<1> QED
  BY <1>4, <1>5, <1>6, <1>7, <1>8 DEF MySQLInv, MyCore

\* GET_LOCK gives a free lock to one worker.
LEMMA TryNamedLock ==
    ASSUME MySQLTypeOK, MySQLInv, NEW w \in Workers, tryNamedLock(w)
    PROVE  MySQLTypeOK' /\ MySQLInv'
<1>1. BatchOf(w) = {} /\ MarksOf(w) = {} /\ StepOf(w) = "idle"
  BY DEF MySQLInv, LockedInv, StepOf, tryNamedLock
<1>2. UNCHANGED <<rows, emitting, counter, floor, emitted, faults, delivered, excused, jumped, again, unreleased>>
  BY DEF tryNamedLock, myHistory
<1>3. excused' \subseteq 1..MaxEvents /\ unreleased' \in BOOLEAN /\ lock' \in Workers \cup {Nobody, Pool}
  BY <1>2 DEF MySQLTypeOK, tryNamedLock
<1>4. CASE lock = Nobody
  <2>1. lock' = w
    BY <1>4 DEF tryNamedLock
  <2>2. Becomes(w, "select", {}, {})
    BY <1>1, <1>4, MyFacts DEF tryNamedLock, Step, Becomes, OthersStay, BatchOf, MarksOf, WorkerTick
  <2>3. MayHold(w, "select", {}, {})
    BY <2>1 DEF MayHold
  <2> QED
    BY <1>1, <1>2, <1>3, <1>4, <2>1, <2>2, <2>3, MyBounds, QuietBecomes
<1>5. CASE lock # Nobody
  <2>1. lock' = lock /\ work' = work
    BY <1>5 DEF tryNamedLock
  <2>2. Becomes(w, "idle", {}, {})
    BY <1>1, <2>1, MyFacts DEF Becomes, OthersStay, BatchOf, MarksOf, StepOf
  <2>3. MayHold(w, "idle", {}, {})
    BY DEF MayHold
  <2>4. lock' = Pool => unreleased'
    BY <1>2, <2>1 DEF MySQLInv, LockedInv
  <2> QED
    BY <1>1, <1>2, <1>3, <2>1, <2>2, <2>3, <2>4, QuietBecomes
<1> QED
  BY <1>4, <1>5

\* A failed drain keeps its marks until the transaction ends.
LEMMA DrainFailing ==
    ASSUME MySQLTypeOK, MySQLInv, NEW w \in Workers, DrainFails(w)
    PROVE  MySQLTypeOK' /\ MySQLInv'
<1>1. StepOf(w) \in {"select", "deliver"} /\ lock = w
  BY DEF MySQLInv, LockedInv, StepOf, DrainFails
<1>2. UNCHANGED <<rows, emitting, counter, floor, emitted, delivered, excused, jumped, again, unreleased>> /\ Mishap
  BY DEF DrainFails, myHistory
<1>3. excused' \subseteq 1..MaxEvents /\ unreleased' \in BOOLEAN /\ lock' \in Workers \cup {Nobody, Pool} /\ lock' = lock
  BY <1>2 DEF MySQLTypeOK, DrainFails
<1>4. Becomes(w, "release", {}, MarksOf(w))
  <2> DEFINE tick == [work[w] EXCEPT !.step = "release", !.keep = FALSE, !.batch = {}]
  <2>1. work[w] \in WorkerTick
    BY MyFacts
  <2>2. tick \in WorkerTick /\ tick.step = "release" /\ tick.batch = {} /\ tick.marks = work[w].marks
    BY <2>1 DEF WorkerTick
  <2>3. work' = [work EXCEPT ![w] = tick]
    BY MyFacts DEF DrainFails
  <2> HIDE DEF tick
  <2>4. work' \in [Workers -> WorkerTick] /\ work'[w] = tick /\ OthersStay(w)
    BY <2>2, <2>3, MyFacts DEF OthersStay
  <2> QED
    BY <2>2, <2>4 DEF Becomes, MarksOf
<1>5. MayHold(w, "release", {}, MarksOf(w))
  BY <1>1, <1>3 DEF MayHold
<1> QED
  BY <1>1, <1>2, <1>3, <1>4, <1>5, MyBounds, QuietBecomes

\* What the two releases share.
LEMMA EndOfRelease ==
    ASSUME MySQLTypeOK, MySQLInv, NEW w \in Workers, work[w].step = "release", Step(w, "end")
    PROVE  /\ lock = w /\ StepOf(w) = "release" /\ BatchOf(w) = {}
           /\ Becomes(w, "end", {}, MarksOf(w)) /\ MayHold(w, "end", {}, MarksOf(w))
<1>1. lock = w /\ StepOf(w) = "release" /\ BatchOf(w) = {}
  BY DEF MySQLInv, LockedInv, StepOf
<1>2. Becomes(w, "end", {}, MarksOf(w))
  BY <1>1, MyFacts DEF Step, Becomes, OthersStay, BatchOf, MarksOf, WorkerTick
<1> QED
  BY <1>1, <1>2 DEF MayHold

\* A release frees the lock; the marks wait for the commit.
LEMMA ReleaseNamedLock ==
    ASSUME MySQLTypeOK, MySQLInv, NEW w \in Workers, releaseNamedLock(w)
    PROVE  MySQLTypeOK' /\ MySQLInv'
<1>1. /\ lock = w /\ StepOf(w) = "release" /\ BatchOf(w) = {}
      /\ Becomes(w, "end", {}, MarksOf(w)) /\ MayHold(w, "end", {}, MarksOf(w))
  BY EndOfRelease DEF releaseNamedLock
<1>2. /\ UNCHANGED <<rows, emitting, counter, floor, emitted, faults, delivered, excused, jumped, again, unreleased>>
      /\ lock' = Nobody
  BY DEF releaseNamedLock, Released, myHistory
<1>3. excused' \subseteq 1..MaxEvents /\ unreleased' \in BOOLEAN
  BY <1>2 DEF MySQLTypeOK
<1> QED
  BY <1>1, <1>2, <1>3, MyBounds, QuietBecomes

\* A failed release leaves the lock with the pool, and says so.
LEMMA ReleaseFailing ==
    ASSUME MySQLTypeOK, MySQLInv, NEW w \in Workers, ReleaseFails(w)
    PROVE  MySQLTypeOK' /\ MySQLInv'
<1>1. /\ lock = w /\ StepOf(w) = "release" /\ BatchOf(w) = {}
      /\ Becomes(w, "end", {}, MarksOf(w)) /\ MayHold(w, "end", {}, MarksOf(w))
  BY EndOfRelease DEF ReleaseFails
<1>2. /\ UNCHANGED <<rows, emitting, counter, floor, emitted, delivered, excused, jumped, again>> /\ Mishap
      /\ lock' = Pool /\ unreleased' = TRUE
  BY DEF ReleaseFails
<1>3. excused' \subseteq 1..MaxEvents
  BY <1>2 DEF MySQLTypeOK
<1> QED
  BY <1>1, <1>2, <1>3, QuietBecomes

\* What the two ends of a transaction without its marks share.
LEMMA EndOfMarks ==
    ASSUME MySQLTypeOK, MySQLInv, NEW w \in Workers, work' = [work EXCEPT ![w] = IdleWork],
           excused' = excused \cup {m.id : m \in work[w].marks}
    PROVE  /\ Becomes(w, "idle", {}, {}) /\ MayHold(w, "idle", {}, {})
           /\ excused \subseteq excused' /\ excused' \subseteq 1..MaxEvents
           /\ \A n \in MarksOf(w) : n.id \in excused'
<1>1. IdleWork \in WorkerTick
  BY DEF IdleWork, WorkerTick
<1>2. Becomes(w, "idle", {}, {}) /\ MayHold(w, "idle", {}, {})
  <2>1. work' \in [Workers -> WorkerTick]
    BY <1>1, MyFacts
  <2>2. work'[w] = IdleWork /\ OthersStay(w)
    BY MyFacts DEF OthersStay
  <2> QED
    BY <2>1, <2>2 DEF Becomes, IdleWork, MayHold
<1>3. \A n \in MarksOf(w) : n.id \in 1..MaxEvents
  BY MyFacts, RowFacts, MyBounds
<1> QED
  BY <1>2, <1>3 DEF MarksOf, MySQLTypeOK

\* A rollback excuses what the transaction had marked.
LEMMA RollbackDraining ==
    ASSUME MySQLTypeOK, MySQLInv, NEW w \in Workers, RollbackDrain(w)
    PROVE  MySQLTypeOK' /\ MySQLInv'
<1>1. /\ UNCHANGED <<rows, emitting, counter, lock, floor, emitted, delivered, jumped, again, unreleased>>
      /\ UNCHANGED faults \/ Mishap
  BY DEF RollbackDrain
<1>2. /\ Becomes(w, "idle", {}, {}) /\ MayHold(w, "idle", {}, {})
      /\ excused \subseteq excused' /\ excused' \subseteq 1..MaxEvents
      /\ \A n \in MarksOf(w) : n.id \in excused'
  BY EndOfMarks DEF RollbackDrain
<1>3. unreleased' \in BOOLEAN /\ lock' \in Workers \cup {Nobody, Pool} /\ (lock' = Pool => unreleased')
  BY <1>1 DEF MySQLTypeOK, MySQLInv, LockedInv
<1> QED
  BY <1>1, <1>2, <1>3, QuietBecomes

\* A death frees the lock and excuses what the transaction had marked.
LEMMA WorkerDying ==
    ASSUME MySQLTypeOK, MySQLInv, NEW w \in Workers, WorkerDies(w)
    PROVE  MySQLTypeOK' /\ MySQLInv'
<1>1. /\ UNCHANGED <<rows, emitting, counter, floor, emitted, delivered, jumped, again, unreleased>> /\ Mishap
      /\ lock' = IF lock = w THEN Nobody ELSE lock
  BY DEF WorkerDies
<1>2. /\ Becomes(w, "idle", {}, {}) /\ MayHold(w, "idle", {}, {})
      /\ excused \subseteq excused' /\ excused' \subseteq 1..MaxEvents
      /\ \A n \in MarksOf(w) : n.id \in excused'
  BY EndOfMarks DEF WorkerDies
<1>3. unreleased' \in BOOLEAN /\ lock' \in Workers \cup {Nobody, Pool} /\ (lock' = Pool => unreleased')
  BY <1>1, MyBounds DEF MySQLTypeOK, MySQLInv, LockedInv
<1>4. \A v \in Workers \ {w} : lock = v => lock' = v
  BY <1>1
<1> QED
  BY <1>1, <1>2, <1>3, <1>4, QuietBecomes

-------------------------------------------------------------------------------
(***************************************************************************)
(* The MySQL outbox: what happens outside the workers.                     *)
(***************************************************************************)

\* A step that leaves the rows and the workers alone, and no more transactions open.
LEMMA QuietTables ==
    ASSUME MySQLTypeOK, MySQLInv, emitting' \subseteq emitting,
           UNCHANGED <<rows, lock, work, emitted, faults, delivered, excused, jumped, again, unreleased>>
    PROVE  /\ MyCore' /\ KnownKept /\ DeliveredKept /\ BatchesKept /\ LockedInv' /\ MarksInv'
<1>1. \A w \in Workers : BatchOf(w)' = BatchOf(w) /\ StepOf(w)' = StepOf(w) /\ MarksOf(w)' = MarksOf(w)
  BY DEF BatchOf, StepOf, MarksOf
<1>2. Quiet
  BY <1>1, MyFacts DEF Quiet
<1>3. MarksInv'
  BY <1>1, MarksKept DEF WorkKept, MySQLInv
<1>4. LockedInv'
  BY <1>1 DEF LockedInv, MySQLInv
<1> QED
  BY <1>2, <1>3, <1>4, QuietChange

\* A rolled back emission was seen by nobody.
LEMMA RollbackEmitting ==
    ASSUME MySQLTypeOK, MySQLInv, NEW r, RollbackEmit(r)
    PROVE  MySQLTypeOK' /\ MySQLInv'
<1>1. /\ emitting' \subseteq emitting
      /\ UNCHANGED <<rows, counter, floor, lock, work, emitted, faults, delivered, excused, jumped, again, unreleased>>
  BY DEF RollbackEmit, myHistory
<1>2. MyCore' /\ KnownKept /\ DeliveredKept /\ BatchesKept /\ LockedInv' /\ MarksInv'
  BY <1>1, QuietTables
<1>3. CounterInv'
  BY <1>1, <1>2, CounterKept DEF MySQLInv, CounterInv
<1>4. MySQLTypeOK'
  BY <1>1 DEF MySQLTypeOK
<1> QED
  BY <1>2, <1>3, <1>4 DEF MySQLInv, MyCore

\* Nothing changes.
LEMMA MyStuttering ==
    ASSUME MySQLTypeOK, MySQLInv, UNCHANGED myVars
    PROVE  MySQLTypeOK' /\ MySQLInv'
<1>1. /\ emitting' \subseteq emitting
      /\ UNCHANGED <<rows, emitting, counter, floor, lock, work, emitted, faults, delivered, excused, jumped, again, unreleased>>
  BY DEF myVars
<1>2. MyCore' /\ KnownKept /\ DeliveredKept /\ BatchesKept /\ LockedInv' /\ MarksInv'
  BY <1>1, QuietTables
<1>3. CounterInv'
  BY <1>1, <1>2, CounterKept DEF MySQLInv, CounterInv
<1>4. MySQLTypeOK'
  BY <1>1 DEF MySQLTypeOK
<1> QED
  BY <1>2, <1>3, <1>4 DEF MySQLInv, MyCore

\* maxID is the greatest id of the table, 0 when there is none.
LEMMA MaxIDFacts ==
    ASSUME MySQLTypeOK
    PROVE  /\ maxID \in 0..MaxEvents
           /\ \A r \in rows : r.id <= maxID
           /\ maxID # 0 => \E r \in rows : r.id = maxID
<1> DEFINE S == {r.id : r \in rows} \cup {0}
<1>1. S \subseteq 0..MaxEvents /\ S # {}
  <2>1. \A r \in rows : r.id \in 0..MaxEvents
    BY MyFacts, RowFacts, MyBounds
  <2> QED
    BY <2>1, MyBounds
<1>2. Max(S) \in S /\ \A x \in S : x <= Max(S)
  <2> HIDE DEF S
  <2> QED
    BY <1>1, MaxOfBounded, MyBounds
<1>3. maxID = Max(S)
  BY DEF maxID
<1>4. maxID \in S /\ \A x \in S : x <= maxID
  BY <1>2, <1>3, Zenon
<1> QED
  BY <1>1, <1>4

\* The floor that Cleanup reads is the id of a row.
LEMMA ReadingFloor ==
    ASSUME MySQLTypeOK, MySQLInv, ReadFloor
    PROVE  MySQLTypeOK' /\ MySQLInv'
<1>1. /\ emitting' \subseteq emitting /\ floor' = maxID
      /\ UNCHANGED <<rows, emitting, counter, lock, work, emitted, faults, delivered, excused, jumped, again, unreleased>>
  BY DEF ReadFloor, myHistory
<1>2. MyCore' /\ KnownKept /\ DeliveredKept /\ BatchesKept /\ LockedInv' /\ MarksInv'
  BY <1>1, QuietTables
<1>3. floor' # 0 => \E r \in rows : floor' <= r.id
  BY <1>1, MaxIDFacts
<1>4. CounterInv'
  BY <1>1, <1>2, <1>3, CounterKept DEF MySQLInv
<1>5. MySQLTypeOK'
  BY <1>1, MaxIDFacts DEF MySQLTypeOK
<1> QED
  BY <1>2, <1>4, <1>5 DEF MySQLInv, MyCore

\* The counter computed anew is ahead of every id that was seen, since the newest row
\* is still there; what was emitted and not committed is gone.
LEMMA ServerRestarting ==
    ASSUME MySQLTypeOK, MySQLInv, ServerRestarts
    PROVE  MySQLTypeOK' /\ MySQLInv'
<1>1. /\ Mishap /\ emitting' = {} /\ lock' = Nobody /\ floor' = 0 /\ counter' = maxID + 1
      /\ work' = [w \in Workers |-> IdleWork]
      /\ excused' = excused \cup UNION {{m.id : m \in work[w].marks} : w \in Workers}
      /\ UNCHANGED <<rows, emitted, delivered, jumped, again, unreleased>>
  BY DEF ServerRestarts
<1>2. faults' \in Nat /\ faults <= faults' /\ faults' \in 0..MaxFaults
  BY <1>1, MyFacts, MyBounds DEF Mishap
<1>3. \A w \in Workers : StepOf(w)' = "idle" /\ BatchOf(w)' = {} /\ MarksOf(w)' = {}
  BY <1>1 DEF StepOf, BatchOf, MarksOf, IdleWork
<1>4. \A w \in Workers : \A m \in MarksOf(w) : m.id \in excused'
  BY <1>1 DEF MarksOf
<1>5. excused' \subseteq 1..MaxEvents
  <2>1. \A w \in Workers : \A m \in MarksOf(w) : m.id \in 1..MaxEvents
    BY MyFacts, RowFacts, MyBounds
  <2>2. \A i \in excused' : i \in excused \/ \E w \in Workers : \E m \in MarksOf(w) : i = m.id
    BY <1>1 DEF MarksOf
  <2>3. excused \subseteq 1..MaxEvents
    BY DEF MySQLTypeOK
  <2> QED
    BY <2>1, <2>2, <2>3
<1>6. Quiet
  BY <1>1, <1>2, <1>3, <1>4 DEF Quiet
<1>7. MyCore'
  BY <1>6, QuietChange
<1>8. CounterInv'
  <2>1. ASSUME NEW x \in Known' PROVE x.id < counter'
    <3>1. x \in rows
      BY <1>1, <1>3 DEF Known
    <3>2. x.id \in Nat /\ x.id <= maxID
      BY <3>1, MaxIDFacts, MyFacts, RowFacts
    <3> QED
      BY <1>1, <3>2, MaxIDFacts, MyBounds
  <2>2. \A d \in delivered' : \E r \in rows' : d[1] <= r.id
    BY <1>1 DEF MySQLInv, CounterInv
  <2> QED
    BY <1>1, <1>3, <2>1, <2>2 DEF CounterInv
<1>9. MarksInv'
  BY <1>3, MarksKept DEF WorkKept, MySQLInv
<1>10. LockedInv'
  BY <1>1, <1>3, MyBounds DEF LockedInv
<1>11. MySQLTypeOK'
  <2>1. IdleWork \in WorkerTick
    BY DEF IdleWork, WorkerTick
  <2>2. work' \in [Workers -> WorkerTick]
    BY <1>1, <2>1
  <2>3. counter' \in 1..MaxEvents + 1
    BY <1>1, MaxIDFacts, MyBounds
  <2>4. rows' \subseteq Row /\ emitting' \subseteq Row /\ \A r, s \in rows' \cup emitting' : r.id = s.id => r = s
    BY <1>1, MyFacts
  <2> QED
    BY <1>1, <1>2, <1>5, <2>2, <2>3, <2>4, MyBounds DEF MySQLTypeOK, WorkerTick
<1> QED
  BY <1>7, <1>8, <1>9, <1>10, <1>11 DEF MySQLInv, MyCore

\* Cleanup leaves the row at the floor or one above it, so ids seen stay below some row.
LEMMA CleaningUp ==
    ASSUME MySQLTypeOK, MySQLInv, Cleanup
    PROVE  MySQLTypeOK' /\ MySQLInv'
<1>1. /\ floor # 0 /\ floor' = 0
      /\ UNCHANGED <<emitting, counter, lock, work, emitted, faults, delivered, excused, jumped, again, unreleased>>
  BY DEF Cleanup, myHistory
<1>2. rows' \subseteq rows /\ \A r \in rows \ rows' : Removable(r)
  BY DEF Cleanup
<1>3. \A w \in Workers : BatchOf(w)' = BatchOf(w) /\ StepOf(w)' = StepOf(w) /\ MarksOf(w)' = MarksOf(w)
  BY <1>1 DEF BatchOf, StepOf, MarksOf
<1>4. Known' \subseteq Known
  BY <1>1, <1>2, <1>3, MyFacts DEF Known
<1>5. KnownKept
  <2> SUFFICES ASSUME NEW x \in Known' PROVE Same(x, x) /\ x.attempts + faults <= x.attempts + faults'
    BY <1>4 DEF KnownKept
  <2>1. x.attempts \in Nat
    BY <1>4, KnownFacts, RowFacts
  <2> QED
    BY <1>1, <2>1, MyFacts DEF Same
<1>6. DeliveredKept /\ PlainDelivered
  BY <1>1 DEF DeliveredKept, PlainDelivered
<1>7. BatchesKept /\ WorkKept
  BY <1>3 DEF BatchesKept, WorkKept
<1>8. RowsKept /\ PendingKept
  BY <1>2 DEF RowsKept, PendingKept, PendingRows, Same
<1>9. NamesInv'
  BY <1>5, <1>6, NamesKept DEF MySQLInv
<1>10. EmittingInv'
  BY <1>1, <1>2, <1>3, <1>6, <1>7, EmittingKept DEF MySQLInv, Same
<1>11. ParkedInv'
  BY <1>7, <1>8, ParkedKept DEF MySQLInv
<1>12. OrderInv'
  BY <1>1, <1>3, <1>8, OrderKept DEF MySQLInv
<1>13. AgainInv'
  BY <1>1, <1>3, <1>6, <1>8, AgainKept DEF MySQLInv
<1>14. FewInv'
  <2>1. \A x \in Known' : x.attempts <= faults'
    BY <1>1, <1>4 DEF MySQLInv, FewInv
  <2>2. IsFiniteSet(rows')
    BY <1>2, FS_Subset DEF MySQLInv, FewInv
  <2> QED
    BY <1>3, <2>1, <2>2 DEF MySQLInv, FewInv
<1>15. CounterInv'
  <2>1. \A r \in rows : r.id \in Nat
    BY MyFacts, RowFacts
  <2>2. PICK top \in rows : floor <= top.id
    BY <1>1 DEF MySQLInv, CounterInv
  <2>3. top \in rows'
    BY <1>2, <2>1, <2>2, MyFacts DEF Removable
  <2>4. ASSUME NEW n \in Nat, \E r \in rows : n <= r.id PROVE \E r \in rows' : n <= r.id
    <3>1. PICK r \in rows : n <= r.id
      BY <2>4
    <3>2. CASE r \notin rows'
      <4>1. r.id < floor
        BY <1>2, <3>2 DEF Removable
      <4> QED
        BY <2>1, <2>2, <2>3, <3>1, <4>1, MyFacts
    <3> QED
      BY <3>1, <3>2
  <2>5. \A d \in delivered' : \E r \in rows' : d[1] <= r.id
    BY <1>1, <2>4, MyFacts DEF MySQLInv, CounterInv
  <2>6. ASSUME NEW w \in Workers, NEW x \in BatchOf(w)' PROVE \E r \in rows' : x.id <= r.id
    <3>1. x.id \in Nat /\ x \in BatchOf(w)
      BY <1>3, MyFacts, RowFacts
    <3> QED
      BY <2>4, <3>1 DEF MySQLInv, CounterInv
  <2>7. \A x \in Known' : x.id < counter'
    BY <1>1, <1>4 DEF MySQLInv, CounterInv
  <2> QED
    BY <1>1, <2>5, <2>6, <2>7 DEF CounterInv
<1>16. MarksInv'
  BY <1>3, <1>7, MarksKept DEF MySQLInv
<1>17. LockedInv'
  BY <1>1, <1>3 DEF LockedInv, MySQLInv
<1>18. MySQLTypeOK'
  BY <1>1, <1>2, MyBounds DEF MySQLTypeOK
<1>19. ~jumped' /\ ~again'
  BY <1>1 DEF MySQLInv
<1> QED
  BY <1>9, <1>10, <1>11, <1>12, <1>13, <1>14, <1>15, <1>16, <1>17, <1>18, <1>19 DEF MySQLInv

\* A new row takes an id that nobody has seen, behind the aggregate's others.
LEMMA Emitting ==
    ASSUME MySQLTypeOK, MySQLInv, NEW agg \in BOOLEAN, EmitWith(agg)
    PROVE  MySQLTypeOK' /\ MySQLInv'
<1> DEFINE new == [id |-> counter, event |-> emitted + 1, agg |-> agg, state |-> "pending", due |-> TRUE, attempts |-> 0]
<1>1. /\ emitted < MaxEvents /\ counter <= MaxEvents /\ emitted' = emitted + 1 /\ counter' = counter + 1
      /\ UNCHANGED <<rows, lock, work, floor, faults, delivered, excused, jumped, again, unreleased>>
  BY DEF EmitWith, myHistory
<1>2. emitting' = emitting \cup {new} /\ (agg => \A r \in emitting : ~r.agg)
  BY DEF EmitWith
<1>3. new \in Row /\ new.id = counter /\ new.agg = agg /\ new.state = "pending" /\ new.attempts = 0
  <2>1. counter \in 1..MaxEvents /\ emitted + 1 \in 1..MaxEvents /\ 0 \in 0..MaxAttempts + MaxFaults
    BY <1>1, MyBounds DEF MySQLTypeOK
  <2> QED
    BY <2>1 DEF Row
<1> HIDE DEF new
<1>4. \A w \in Workers : BatchOf(w)' = BatchOf(w) /\ StepOf(w)' = StepOf(w) /\ MarksOf(w)' = MarksOf(w)
  BY <1>1 DEF BatchOf, StepOf, MarksOf
<1>5. Known' = Known \cup {new}
  BY <1>1, <1>2, <1>3, <1>4 DEF Known
<1>6. \A x \in Known : x.id < new.id
  BY <1>3 DEF MySQLInv, CounterInv
<1>7. \A x \in Known' : x.id \in Nat
  BY <1>3, <1>5, KnownFacts, RowFacts
<1>8. \A d \in delivered : d[1] < new.id
  <2> TAKE d \in delivered
  <2>1. PICK r \in rows : d[1] <= r.id
    BY DEF MySQLInv, CounterInv
  <2>2. r.id < new.id /\ r.id \in Nat
    BY <1>5, <1>6, <1>7, KnownFacts
  <2> QED
    BY <2>1, <2>2, <1>5, <1>7, MyFacts
<1>9. \A x \in Known : x.id # new.id
  BY <1>5, <1>6, <1>7
<1>10. \A d \in delivered : d[1] # new.id
  BY <1>5, <1>7, <1>8, MyFacts
<1>11. NamesInv'
  <2>1. ASSUME NEW x \in Known', NEW y \in Known', x.id = y.id PROVE Same(x, y)
    BY <1>5, <1>9, <2>1 DEF MySQLInv, NamesInv, Same
  <2>2. ASSUME NEW x \in Known', NEW d \in delivered', d[1] = x.id PROVE d[2] = x.event
    BY <1>1, <1>5, <1>10, <2>2 DEF MySQLInv, NamesInv
  <2>3. IdNamesOneEvent'
    BY <1>1 DEF MySQLInv, NamesInv, IdNamesOneEvent
  <2> QED
    BY <2>1, <2>2, <2>3 DEF NamesInv, Same
<1>12. CounterInv'
  <2>1. \A x \in Known' : x.id < counter'
    <3> TAKE x \in Known'
    <3>1. x.id <= counter
      BY <1>3, <1>5, <1>6, <1>7, MyFacts
    <3> QED
      BY <1>1, <1>7, <3>1, MyFacts
  <2>2. \A w \in Workers : \A x \in BatchOf(w)' : \E r \in rows' : x.id <= r.id
    BY <1>1, <1>4 DEF MySQLInv, CounterInv
  <2> QED
    BY <1>1, <2>1, <2>2 DEF MySQLInv, CounterInv
<1>13. EmittingInv'
  <2>1. \A x \in Known : Behind(x, new)
    BY <1>6, <1>9 DEF Behind
  <2>2. \A e, f \in emitting' : e.agg /\ f.agg => e = f
    BY <1>2, <1>3 DEF MySQLInv, EmittingInv
  <2>3. \A e \in emitting', r \in rows' : Behind(r, e)
    BY <1>1, <1>2, <2>1, KnownFacts DEF MySQLInv, EmittingInv
  <2>4. \A e \in emitting', w \in Workers : \A x \in BatchOf(w)' \cup MarksOf(w)' : Behind(x, e)
    BY <1>2, <1>4, <2>1, KnownFacts DEF MySQLInv, EmittingInv
  <2>5. \A e \in emitting', d \in delivered' : d[1] # e.id
    BY <1>1, <1>2, <1>10 DEF MySQLInv, EmittingInv
  <2>6. \A e \in emitting' : e.state = "pending"
    BY <1>2, <1>3 DEF MySQLInv, EmittingInv
  <2> QED
    BY <2>2, <2>3, <2>4, <2>5, <2>6 DEF EmittingInv, Behind
<1>14. WorkKept /\ RowsKept /\ PendingKept /\ PlainDelivered
  BY <1>1, <1>4 DEF WorkKept, RowsKept, PendingKept, PlainDelivered, PendingRows, Same
<1>15. ParkedInv'
  BY <1>14, ParkedKept DEF MySQLInv
<1>16. OrderInv'
  BY <1>1, <1>4, <1>14, OrderKept DEF MySQLInv
<1>17. AgainInv'
  BY <1>1, <1>4, <1>14, AgainKept DEF MySQLInv
<1>18. FewInv'
  <2>1. \A x \in Known' : x.attempts <= faults'
    BY <1>1, <1>3, <1>5, MyFacts DEF MySQLInv, FewInv
  <2> QED
    BY <1>1, <1>4, <2>1 DEF MySQLInv, FewInv
<1>19. MarksInv'
  BY <1>4, <1>14, MarksKept DEF MySQLInv
<1>20. LockedInv'
  BY <1>1, <1>4 DEF LockedInv, MySQLInv
<1>21. MySQLTypeOK'
  <2>1. rows' \subseteq Row /\ emitting' \subseteq Row
    BY <1>1, <1>2, <1>3, MyFacts
  <2>2. \A r, s \in rows' \cup emitting' : r.id = s.id => r = s
    BY <1>1, <1>2, <1>9, KnownFacts, MyFacts
  <2>3. counter' \in 1..MaxEvents + 1 /\ emitted' \in 0..MaxEvents
    BY <1>1, MyBounds DEF MySQLTypeOK
  <2> QED
    BY <1>1, <2>1, <2>2, <2>3 DEF MySQLTypeOK
<1> QED
  BY <1>1, <1>11, <1>12, <1>13, <1>15, <1>16, <1>17, <1>18, <1>19, <1>20, <1>21 DEF MySQLInv

\* A commit puts the row behind the aggregate's others: no batch overtakes it.
LEMMA CommittingEmit ==
    ASSUME MySQLTypeOK, MySQLInv, NEW e, CommitEmit(e)
    PROVE  MySQLTypeOK' /\ MySQLInv'
<1>1. /\ e \in emitting /\ emitting' = emitting \ {e} /\ rows' = rows \cup {e}
      /\ UNCHANGED <<counter, lock, work, floor, emitted, faults, delivered, excused, jumped, again, unreleased>>
  BY DEF CommitEmit, myHistory
<1>2. \A w \in Workers : BatchOf(w)' = BatchOf(w) /\ StepOf(w)' = StepOf(w) /\ MarksOf(w)' = MarksOf(w)
  BY <1>1 DEF BatchOf, StepOf, MarksOf
<1>3. Known' \subseteq Known
  BY <1>1, <1>2, MyFacts DEF Known
<1>4. KnownKept
  <2> SUFFICES ASSUME NEW x \in Known' PROVE Same(x, x) /\ x.attempts + faults <= x.attempts + faults'
    BY <1>3 DEF KnownKept
  <2>1. x.attempts \in Nat
    BY <1>3, KnownFacts, RowFacts
  <2> QED
    BY <1>1, <2>1, MyFacts DEF Same
<1>5. DeliveredKept /\ BatchesKept /\ WorkKept
  BY <1>1, <1>2 DEF DeliveredKept, BatchesKept, WorkKept
<1>6. NamesInv'
  BY <1>4, <1>5, NamesKept DEF MySQLInv
<1>7. CounterInv'
  BY <1>1, <1>4, <1>5, CounterKept DEF MySQLInv, CounterInv
<1>8. /\ e.state = "pending"
      /\ \A w \in Workers : \A x \in BatchOf(w) \cup MarksOf(w) : Behind(x, e)
      /\ \A d \in delivered : d[1] # e.id
  BY <1>1 DEF MySQLInv, EmittingInv
<1>9. EmittingInv'
  <2>1. \A f \in emitting' : Behind(e, f)
    BY <1>1, MyFacts DEF MySQLInv, EmittingInv, Behind
  <2>2. \A f \in emitting', r \in rows' : Behind(r, f)
    BY <1>1, <2>1 DEF MySQLInv, EmittingInv
  <2>3. \A f \in emitting', w \in Workers : \A x \in BatchOf(w)' \cup MarksOf(w)' : Behind(x, f)
    BY <1>1, <1>2 DEF MySQLInv, EmittingInv
  <2>4. /\ \A f, g \in emitting' : f.agg /\ g.agg => f = g
        /\ \A f \in emitting', d \in delivered' : d[1] # f.id
        /\ \A f \in emitting' : f.state = "pending"
    BY <1>1 DEF MySQLInv, EmittingInv
  <2> QED
    BY <2>2, <2>3, <2>4 DEF EmittingInv, Behind
<1>10. ParkedInv'
  <2>1. \A r \in rows' : r.state = "failed" => Spent(r)
    BY <1>1, <1>8 DEF MySQLInv, ParkedInv
  <2>2. \A w \in Workers : \A m \in MarksOf(w)', r \in rows' :
          m.state # "published" /\ r.state # "published" /\ r.id = m.id => Near(r, m)
    BY <1>1, <1>2, <1>8 DEF MySQLInv, ParkedInv, Behind
  <2>3. \A w \in Workers : \A x \in BatchOf(w)', r \in rows' :
          x.agg /\ r.state # "published" /\ r.id = x.id => Near(x, r)
    BY <1>1, <1>2, <1>8 DEF MySQLInv, ParkedInv, Behind
  <2>4. /\ \A w \in Workers : \A m \in MarksOf(w)' : /\ m.state = "pending" => ~Spent(m)
                                                     /\ m.state = "failed" => Spent(m)
        /\ \A v, w \in Workers : \A x \in BatchOf(w)', m \in MarksOf(v)' :
              x.agg /\ m.state # "published" /\ m.id = x.id => Near(x, m)
    BY <1>2 DEF MySQLInv, ParkedInv
  <2> QED
    BY <2>1, <2>2, <2>3, <2>4 DEF ParkedInv, Near, Spent
<1>11. OrderInv'
  <2> SUFFICES ASSUME NEW w \in Workers, StepOf(w)' = "deliver", NEW x \in BatchOf(w)',
                      NEW q \in PendingRows', q.agg, q.id < x.id
               PROVE  IsDelivered(q)' \/ \E y \in BatchOf(w)' : y.id = q.id
    BY DEF OrderInv
  <2>1. x \in BatchOf(w) /\ x \in Row /\ x.agg /\ StepOf(w) = "deliver"
    BY <1>2, MyFacts DEF MySQLInv, MarksInv
  <2>2. q # e
    <3>1. e.id \in Nat /\ x.id \in Nat
      BY <1>1, <2>1, MyFacts, RowFacts
    <3>2. e.agg => x.id < e.id
      BY <1>8, <2>1 DEF Behind
    <3> QED
      BY <3>1, <3>2
  <2>3. q \in PendingRows
    BY <1>1, <2>2 DEF PendingRows
  <2>4. IsDelivered(q) \/ \E y \in BatchOf(w) : y.id = q.id
    BY <2>1, <2>3 DEF MySQLInv, OrderInv
  <2> QED
    BY <1>1, <1>2, <2>4 DEF IsDelivered
<1>12. AgainInv'
  <2>1. \A x : (IsDelivered(x)' <=> IsDelivered(x)) /\ \A V \in SUBSET Workers : MarkedBy(V, x)' <=> MarkedBy(V, x)
    BY <1>1, <1>2 DEF IsDelivered, MarkedBy
  <2>2. ~IsDelivered(e)
    <3>1. <<e.id, e.event>>[1] = e.id
      OBVIOUS
    <3> QED
      BY <1>8, <3>1 DEF IsDelivered
  <2>3. ASSUME NEW r \in PendingRows', r.agg, IsDelivered(r)' PROVE r.id \in excused' \/ MarkedBy(Workers, r)'
    <3>1. r \in PendingRows /\ IsDelivered(r)
      BY <1>1, <2>1, <2>2, <2>3 DEF PendingRows
    <3>2. r.id \in excused \/ MarkedBy(Workers, r)
      BY <2>3, <3>1 DEF MySQLInv, AgainInv
    <3> QED
      BY <1>1, <2>1, <3>2
  <2>4. ASSUME NEW w \in Workers, NEW x \in BatchOf(w)', x.agg, IsDelivered(x)'
        PROVE  x.id \in excused' \/ MarkedBy(Workers \ {w}, x)'
    <3>1. x.id \in excused \/ MarkedBy(Workers \ {w}, x)
      BY <1>2, <2>1, <2>4 DEF MySQLInv, AgainInv
    <3> QED
      BY <1>1, <2>1, <3>1
  <2>5. \A w \in Workers : \A m \in MarksOf(w)' : m.state # "published" /\ IsDelivered(m)' => m.id \in excused'
    BY <1>1, <1>2, <2>1 DEF MySQLInv, AgainInv
  <2> QED
    BY <2>3, <2>4, <2>5 DEF AgainInv
<1>13. FewInv'
  <2>1. \A x \in Known' : x.attempts <= faults'
    BY <1>1, <1>3 DEF MySQLInv, FewInv
  <2>2. IsFiniteSet(rows')
    BY <1>1, FS_AddElement DEF MySQLInv, FewInv
  <2> QED
    BY <1>2, <2>1, <2>2 DEF MySQLInv, FewInv
<1>14. MarksInv'
  BY <1>2, <1>5, MarksKept DEF MySQLInv
<1>15. LockedInv'
  BY <1>1, <1>2 DEF LockedInv, MySQLInv
<1>16. MySQLTypeOK'
  <2>1. rows' \subseteq Row /\ emitting' \subseteq Row
    BY <1>1, MyFacts
  <2>2. \A r, s \in rows' \cup emitting' : r.id = s.id => r = s
    BY <1>1, MyFacts
  <2> QED
    BY <1>1, <2>1, <2>2 DEF MySQLTypeOK
<1> QED
  BY <1>1, <1>6, <1>7, <1>9, <1>10, <1>11, <1>12, <1>13, <1>14, <1>15, <1>16 DEF MySQLInv

\* A row that becomes due is the row it was in all but that.
LEMMA BecomingDue ==
    ASSUME MySQLTypeOK, MySQLInv, NEW r, BecomesDue(r)
    PROVE  MySQLTypeOK' /\ MySQLInv'
<1> DEFINE new == [r EXCEPT !.due = TRUE]
<1>1. /\ r \in rows /\ r.state = "pending" /\ rows' = (rows \ {r}) \cup {new}
      /\ UNCHANGED <<emitting, counter, lock, work, floor, emitted, faults, delivered, excused, jumped, again, unreleased>>
  BY DEF BecomesDue, PendingRows, myHistory
<1>2. new \in Row /\ Same(new, r) /\ new.state = "pending" /\ new.attempts = r.attempts
  <2>1. r \in Row
    BY <1>1, MyFacts
  <2> QED
    BY <1>1, <2>1 DEF Row, Same
<1> HIDE DEF new
<1>3. \A w \in Workers : BatchOf(w)' = BatchOf(w) /\ StepOf(w)' = StepOf(w) /\ MarksOf(w)' = MarksOf(w)
  BY <1>1 DEF BatchOf, StepOf, MarksOf
<1>4. r \in Known /\ Known' \subseteq Known \cup {new}
  BY <1>1, <1>3, KnownFacts DEF Known
<1>5. \A x \in Known' : \E y \in Known : Same(x, y) /\ x.attempts = y.attempts
  BY <1>2, <1>4 DEF Same
<1>6. KnownKept
  <2> SUFFICES ASSUME NEW x \in Known' PROVE \E y \in Known : Same(x, y) /\ x.attempts + faults <= y.attempts + faults'
    BY DEF KnownKept
  <2>1. PICK y \in Known : Same(x, y) /\ x.attempts = y.attempts
    BY <1>5
  <2>2. y.attempts \in Nat
    BY KnownFacts, RowFacts
  <2> QED
    BY <1>1, <2>1, <2>2, MyFacts
<1>7. DeliveredKept /\ BatchesKept /\ WorkKept /\ PlainDelivered
  BY <1>1, <1>3 DEF DeliveredKept, BatchesKept, WorkKept, PlainDelivered
<1>8. RowsKept
  BY <1>1, <1>2 DEF RowsKept, Same
<1>9. PendingKept
  BY <1>1, <1>2 DEF PendingKept, PendingRows, Same
<1>10. NamesInv'
  BY <1>6, <1>7, NamesKept DEF MySQLInv
<1>11. \A p \in rows : \E s \in rows' : s.id = p.id
  BY <1>1, <1>2 DEF Same
<1>12. CounterInv'
  BY <1>1, <1>6, <1>7, <1>11, CounterKept DEF MySQLInv, CounterInv
<1>13. EmittingInv'
  BY <1>1, <1>3, <1>7, <1>8, EmittingKept DEF MySQLInv, RowsKept
<1>14. ParkedInv'
  BY <1>7, <1>8, ParkedKept DEF MySQLInv
<1>15. OrderInv'
  BY <1>1, <1>3, <1>9, OrderKept DEF MySQLInv
<1>16. AgainInv'
  BY <1>1, <1>3, <1>7, <1>9, AgainKept DEF MySQLInv
<1>17. FewInv'
  <2>1. \A x \in Known' : x.attempts <= faults'
    BY <1>1, <1>5 DEF MySQLInv, FewInv
  <2>2. IsFiniteSet(rows \ {r})
    BY FS_Subset DEF MySQLInv, FewInv
  <2>3. IsFiniteSet(rows')
    BY <1>1, <2>2, FS_AddElement
  <2> QED
    BY <1>3, <2>1, <2>3 DEF MySQLInv, FewInv
<1>18. MarksInv'
  BY <1>3, <1>7, MarksKept DEF MySQLInv
<1>19. LockedInv'
  BY <1>1, <1>3 DEF LockedInv, MySQLInv
<1>20. MySQLTypeOK'
  <2>1. rows' \subseteq Row /\ emitting' \subseteq Row
    BY <1>1, <1>2, MyFacts
  <2>2. \A p, s \in rows' \cup emitting' : p.id = s.id => p = s
    <3>1. new.id = r.id /\ \A s \in rows' \cup emitting' : s = new \/ (s \in rows \cup emitting /\ (s = r => s \in emitting))
      BY <1>1, <1>2 DEF Same
    <3>2. \A s \in emitting : s.id # r.id
      BY <1>1 DEF MySQLInv, EmittingInv, Behind
    <3> QED
      BY <1>1, <3>1, <3>2, MyFacts
  <2> QED
    BY <1>1, <2>1, <2>2 DEF MySQLTypeOK
<1> QED
  BY <1>1, <1>10, <1>12, <1>13, <1>14, <1>15, <1>16, <1>17, <1>18, <1>19, <1>20 DEF MySQLInv

-------------------------------------------------------------------------------
(***************************************************************************)
(* The MySQL outbox: a worker reads.                                       *)
(***************************************************************************)

\* First is the element with the least id.
LEMMA EarliestFacts ==
    ASSUME NEW S \in SUBSET Row, S # {}
    PROVE  First(S) \in S /\ \A q \in S : First(S).id <= q.id
<1> DEFINE T == {r.id : r \in S}
<1>1. T \subseteq Nat /\ T # {}
  BY RowFacts
<1>2. PICK m \in T : \A n \in T : m <= n
  <2> HIDE DEF T
  <2> QED
    BY <1>1, LeastOfNaturals
<1>3. \E r \in S : \A q \in S : r.id <= q.id
  BY <1>2
<1> QED
  BY <1>3 DEF First

\* A batch is the beginning of what it is taken from.
LEMMA InBatchFacts ==
    ASSUME NEW S \in SUBSET Row, IsFiniteSet(S)
    PROVE  /\ InBatch(S) \subseteq S
           /\ S # {} => InBatch(S) # {}
           /\ \A x \in InBatch(S), q \in S : q.id < x.id => q \in InBatch(S)
<1>1. InBatch(S) \subseteq S
  BY DEF InBatch
<1>2. ASSUME S # {} PROVE InBatch(S) # {}
  <2>1. First(S) \in S /\ \A q \in S : First(S).id <= q.id
    BY <1>2, EarliestFacts
  <2>2. \A q \in S : ~(q.id < First(S).id)
    <3> TAKE q \in S
    <3>1. q.id \in Nat /\ First(S).id \in Nat
      BY <2>1, RowFacts
    <3> QED
      BY <2>1, <3>1
  <2>3. {q \in S : q.id < First(S).id} = {}
    BY <2>2
  <2>4. Cardinality({q \in S : q.id < First(S).id}) < Batch
    BY <2>3, FS_EmptySet, MyBounds
  <2> QED
    BY <2>1, <2>4 DEF InBatch
<1>3. ASSUME NEW x \in InBatch(S), NEW q \in S, q.id < x.id PROVE q \in InBatch(S)
  <2> DEFINE A == {p \in S : p.id < q.id}
  <2> DEFINE B == {p \in S : p.id < x.id}
  <2>1. A \subseteq B
    <3> SUFFICES ASSUME NEW p \in S, p.id < q.id PROVE p.id < x.id
      OBVIOUS
    <3>1. p.id \in Nat /\ q.id \in Nat /\ x.id \in Nat
      BY <1>1, RowFacts
    <3> QED
      BY <1>3, <3>1
  <2>2. IsFiniteSet(B)
    BY FS_Subset
  <2>3. Cardinality(B) < Batch
    BY DEF InBatch
  <2> HIDE DEF A, B
  <2>4. IsFiniteSet(A) /\ Cardinality(A) <= Cardinality(B)
    BY <2>1, <2>2, FS_Subset
  <2>5. Cardinality(A) \in Nat /\ Cardinality(B) \in Nat
    BY <2>2, <2>4, FS_CardinalityType
  <2>6. Cardinality(A) < Batch
    BY <2>3, <2>4, <2>5, MyBounds
  <2> QED
    BY <2>6 DEF InBatch, A
<1> QED
  BY <1>1, <1>2, <1>3

\* Worker w reads batch b of the rows, and has marked none yet.
LEMMA Reading ==
    ASSUME MySQLTypeOK, MySQLInv, NEW w \in Workers, NEW s, NEW b, Becomes(w, s, b, {}), MayHold(w, s, b, {}),
           UNCHANGED <<rows, emitting, counter, lock, floor, emitted, faults, delivered, excused, jumped, again, unreleased>>,
           BatchOf(w) = {}, MarksOf(w) = {}, b \subseteq PendingRows,
           \A x \in b : x.agg <=> s = "deliver",
           s = "deliver" => \A x \in b, q \in PendingRows : q.agg /\ q.id < x.id => q \in b
    PROVE  MySQLTypeOK' /\ MySQLInv'
<1>1. /\ StepOf(w)' = s /\ BatchOf(w)' = b /\ \A v \in Workers : MarksOf(v)' = MarksOf(v)
      /\ \A v \in Workers : v # w => StepOf(v)' = StepOf(v) /\ BatchOf(v)' = BatchOf(v)
  BY BecomesFacts
<1>2. b \subseteq rows /\ \A x \in b : x.state = "pending"
  BY DEF PendingRows
<1>3. Known' \subseteq Known
  <2>1. \A x \in Known' : x \in rows \/ x \in emitting \/ x \in b \/ \E v \in Workers : x \in BatchOf(v) \/ x \in MarksOf(v)
    BY <1>1 DEF Known
  <2> QED
    BY <1>2, <2>1, KnownFacts
<1>4. KnownKept
  <2> SUFFICES ASSUME NEW x \in Known' PROVE Same(x, x) /\ x.attempts + faults <= x.attempts + faults'
    BY <1>3 DEF KnownKept
  <2>1. x.attempts \in Nat
    BY <1>3, KnownFacts, RowFacts
  <2> QED
    BY <2>1, MyFacts DEF Same
<1>5. DeliveredKept /\ BatchesKept
  BY <1>1, <1>2 DEF DeliveredKept, BatchesKept
<1>6. NamesInv'
  BY <1>4, <1>5, NamesKept DEF MySQLInv
<1>7. CounterInv'
  BY <1>4, <1>5, CounterKept DEF MySQLInv, CounterInv
<1>8. EmittingInv'
  BY <1>1, <1>5, EmittingKept DEF MySQLInv, Same
<1>9. ParkedInv'
  <2>1. /\ \A r \in rows' : r.state = "failed" => Spent(r)
        /\ \A v \in Workers : \A m \in MarksOf(v)' : /\ m.state = "pending" => ~Spent(m)
                                                     /\ m.state = "failed" => Spent(m)
        /\ \A v \in Workers : \A m \in MarksOf(v)', r \in rows' :
              m.state # "published" /\ r.state # "published" /\ r.id = m.id => Near(r, m)
    BY <1>1 DEF MySQLInv, ParkedInv
  <2>2. ASSUME NEW v \in Workers, NEW x \in BatchOf(v)', NEW r \in rows', x.agg, r.state # "published", r.id = x.id
        PROVE  Near(x, r)
    <3>1. CASE v = w
      <4>1. x = r /\ x \in Row
        BY <1>1, <1>2, <2>2, <3>1, MyFacts
      <4> QED
        BY <4>1, RowFacts DEF Near
    <3> QED
      BY <1>1, <2>2, <3>1 DEF MySQLInv, ParkedInv
  <2>3. ASSUME NEW u \in Workers, NEW v \in Workers, NEW x \in BatchOf(v)', NEW m \in MarksOf(u)',
               x.agg, m.state # "published", m.id = x.id
        PROVE  Near(x, m)
    <3>1. CASE v = w
      BY <1>1, <1>2, <2>3, <3>1 DEF MySQLInv, ParkedInv
    <3> QED
      BY <1>1, <2>3, <3>1 DEF MySQLInv, ParkedInv
  <2> QED
    BY <2>1, <2>2, <2>3 DEF ParkedInv, Near, Spent
<1>10. OrderInv'
  <2> SUFFICES ASSUME NEW v \in Workers, StepOf(v)' = "deliver", NEW x \in BatchOf(v)',
                      NEW q \in PendingRows', q.agg, q.id < x.id
               PROVE  IsDelivered(q)' \/ \E y \in BatchOf(v)' : y.id = q.id
    BY DEF OrderInv
  <2>1. q \in PendingRows
    BY DEF PendingRows
  <2>2. CASE v = w
    BY <1>1, <2>1, <2>2
  <2>3. CASE v # w
    <3>1. IsDelivered(q) \/ \E y \in BatchOf(v) : y.id = q.id
      BY <1>1, <2>1, <2>3 DEF MySQLInv, OrderInv
    <3> QED
      BY <1>1, <2>3, <3>1 DEF IsDelivered
  <2> QED
    BY <2>2, <2>3
<1>11. AgainInv'
  <2>1. \A x : (IsDelivered(x)' <=> IsDelivered(x)) /\ \A V \in SUBSET Workers : MarkedBy(V, x)' <=> MarkedBy(V, x)
    BY <1>1 DEF IsDelivered, MarkedBy
  <2>2. ASSUME NEW r \in PendingRows', r.agg, IsDelivered(r)' PROVE r.id \in excused' \/ MarkedBy(Workers, r)'
    <3>1. r.id \in excused \/ MarkedBy(Workers, r)
      BY <2>1, <2>2 DEF MySQLInv, AgainInv, PendingRows
    <3> QED
      BY <2>1, <3>1
  <2>3. ASSUME NEW v \in Workers, NEW x \in BatchOf(v)', x.agg, IsDelivered(x)'
        PROVE  x.id \in excused' \/ MarkedBy(Workers \ {v}, x)'
    <3>1. CASE v = w
      <4>1. x.id \in excused \/ MarkedBy(Workers, x)
        BY <1>1, <2>1, <2>3, <3>1 DEF MySQLInv, AgainInv
      <4>2. MarkedBy(Workers, x) => MarkedBy(Workers \ {v}, x)
        BY <3>1 DEF MarkedBy
      <4> QED
        BY <2>1, <4>1, <4>2
    <3>2. CASE v # w
      <4>1. x.id \in excused \/ MarkedBy(Workers \ {v}, x)
        BY <1>1, <2>1, <2>3, <3>2 DEF MySQLInv, AgainInv
      <4> QED
        BY <2>1, <4>1
    <3> QED
      BY <3>1, <3>2
  <2>4. \A v \in Workers : \A m \in MarksOf(v)' : m.state # "published" /\ IsDelivered(m)' => m.id \in excused'
    BY <1>1, <2>1 DEF MySQLInv, AgainInv
  <2> QED
    BY <2>2, <2>3, <2>4 DEF AgainInv
<1>12. FewInv'
  <2>1. \A x \in Known' : x.attempts <= faults'
    BY <1>3 DEF MySQLInv, FewInv
  <2> QED
    BY <1>1, <2>1 DEF MySQLInv, FewInv
<1>13. MarksInv'
  <2>1. \A v \in Workers : \A x \in BatchOf(v)' : x.state = "pending" /\ (x.agg <=> StepOf(v)' = "deliver")
    BY <1>1, <1>2 DEF MySQLInv, MarksInv
  <2>2. \A v \in Workers : \A x, y \in BatchOf(v)' : x.id = y.id => x = y
    BY <1>1, <1>2, MyFacts DEF MySQLInv, MarksInv
  <2>3. \A v \in Workers : \A x \in BatchOf(v)', m \in MarksOf(v)' : x.id # m.id
    BY <1>1 DEF MySQLInv, MarksInv
  <2>4. /\ \A v \in Workers : \A m \in MarksOf(v)' : m.agg
        /\ \A v \in Workers : \A x, y \in MarksOf(v)' : x.id = y.id => x = y
        /\ \A u, v \in Workers : u # v => \A m \in MarksOf(u)', n \in MarksOf(v)' : m.id # n.id
    BY <1>1 DEF MySQLInv, MarksInv
  <2> QED
    BY <2>1, <2>2, <2>3, <2>4 DEF MarksInv
<1>14. LockedInv'
  <2>1. lock' = Pool => unreleased'
    BY DEF MySQLInv, LockedInv
  <2> QED
    BY <2>1, LockedKept DEF MySQLInv
<1>15. MySQLTypeOK'
  BY DEF MySQLTypeOK, Becomes, WorkerTick
<1> QED
  BY <1>6, <1>7, <1>8, <1>9, <1>10, <1>11, <1>12, <1>13, <1>14, <1>15 DEF MySQLInv

\* The batch is the beginning of the aggregate's pending rows.
LEMMA DrainingAggregate ==
    ASSUME MySQLTypeOK, MySQLInv, NEW w \in Workers, DrainAggregate(w)
    PROVE  MySQLTypeOK' /\ MySQLInv'
<1> DEFINE b == InBatch(DueInOrder)
<1> DEFINE s == IF DueInOrder = {} THEN "release" ELSE "deliver"
<1>1. /\ UNCHANGED <<rows, emitting, counter, lock, floor, emitted, faults, delivered, excused, jumped, again, unreleased>>
      /\ work' = [work EXCEPT ![w].batch = b, ![w].keep = TRUE, ![w].step = s]
  BY DEF DrainAggregate, myHistory
<1>2. lock = w /\ BatchOf(w) = {} /\ MarksOf(w) = {}
  BY DEF DrainAggregate, MySQLInv, LockedInv, StepOf
<1>3. DueInOrder \subseteq PendingRows /\ PendingRows \subseteq rows /\ DueInOrder \in SUBSET Row /\ IsFiniteSet(DueInOrder)
  <2>1. DueInOrder \subseteq PendingRows /\ PendingRows \subseteq rows
    BY DEF DueInOrder, PendingRows
  <2>2. IsFiniteSet(DueInOrder)
    BY <2>1, FS_Subset DEF MySQLInv, FewInv
  <2> QED
    BY <2>1, <2>2, MyFacts
<1>4. /\ b \subseteq DueInOrder
      /\ DueInOrder # {} => b # {}
      /\ \A x \in b, q \in DueInOrder : q.id < x.id => q \in b
  BY <1>3, InBatchFacts
<1> HIDE DEF b
<1>5. ASSUME NEW x \in DueInOrder, NEW q \in PendingRows, q.agg, q.id < x.id PROVE q \in DueInOrder
  <2>1. q.due
    BY <1>5 DEF DueInOrder
  <2>2. ASSUME NEW p \in PendingRows, p.agg, p.id < q.id PROVE p.due
    <3>1. p.id \in Nat /\ q.id \in Nat /\ x.id \in Nat
      BY <1>3, RowFacts, MyFacts
    <3>2. p.id < x.id
      BY <1>5, <2>2, <3>1
    <3> QED
      BY <2>2, <3>2 DEF DueInOrder
  <2> QED
    BY <1>5, <2>1, <2>2 DEF DueInOrder
<1>6. Becomes(w, s, b, {})
  <2>1. b \subseteq Row
    BY <1>3, <1>4
  <2>2. s \in {"release", "deliver"}
    OBVIOUS
  <2> HIDE DEF s
  <2>3. work[w] \in WorkerTick /\ work[w].marks = {}
    BY <1>2, MyFacts DEF MarksOf
  <2>4. work' \in [Workers -> WorkerTick]
    <3>1. [work[w] EXCEPT !.batch = b, !.keep = TRUE, !.step = s] \in WorkerTick
      BY <2>1, <2>2, <2>3 DEF WorkerTick
    <3>2. work' = [work EXCEPT ![w] = [work[w] EXCEPT !.batch = b, !.keep = TRUE, !.step = s]]
      BY <1>1, MyFacts
    <3> QED
      BY <3>1, <3>2, MyFacts
  <2>5. work'[w].step = s /\ work'[w].batch = b /\ work'[w].marks = {}
    BY <1>1, <2>3, MyFacts DEF WorkerTick
  <2> QED
    BY <1>1, <2>4, <2>5, MyFacts DEF Becomes, OthersStay
<1>7. MayHold(w, s, b, {})
  BY <1>1, <1>2, <1>4 DEF MayHold
<1>8. /\ \A x \in b : x.agg <=> s = "deliver"
      /\ s = "deliver" => \A x \in b, q \in PendingRows : q.agg /\ q.id < x.id => q \in b
  <2>1. \A x \in b : x.agg = TRUE /\ s = "deliver"
    BY <1>3, <1>4, RowFacts DEF DueInOrder
  <2> QED
    BY <1>4, <1>5, <2>1
<1>9. b \subseteq PendingRows
  BY <1>3, <1>4
<1> HIDE DEF s
<1> QED
  BY <1>1, <1>2, <1>6, <1>7, <1>8, <1>9, Reading

\* A batch without aggregate is under no promise of order.
LEMMA DrainingUnaggregated ==
    ASSUME MySQLTypeOK, MySQLInv, NEW w \in Workers, DrainUnaggregated(w)
    PROVE  MySQLTypeOK' /\ MySQLInv'
<1> DEFINE plain == {r \in PendingRows : ~r.agg /\ r.due}
<1> DEFINE b == InBatch(plain)
<1>1. /\ UNCHANGED <<rows, emitting, counter, lock, floor, emitted, faults, delivered, excused, jumped, again, unreleased>>
      /\ work' = [work EXCEPT ![w].step = "plain", ![w].batch = b] /\ plain # {}
  BY DEF DrainUnaggregated, myHistory
<1>2. BatchOf(w) = {} /\ MarksOf(w) = {}
  BY DEF DrainUnaggregated, MySQLInv, LockedInv, StepOf
<1>3. plain \subseteq PendingRows /\ PendingRows \subseteq rows /\ plain \in SUBSET Row /\ IsFiniteSet(plain)
  <2>1. plain \subseteq PendingRows /\ PendingRows \subseteq rows
    BY DEF PendingRows
  <2>2. IsFiniteSet(plain)
    <3> HIDE DEF plain
    <3> QED
      BY <2>1, FS_Subset DEF MySQLInv, FewInv
  <2> QED
    BY <2>1, <2>2, MyFacts
<1>4. b \subseteq plain /\ b # {} /\ \A x \in plain : ~x.agg
  BY <1>1, <1>3, InBatchFacts
<1> HIDE DEF b, plain
<1>5. Becomes(w, "plain", b, {})
  <2>1. b \subseteq Row
    BY <1>3, <1>4
  <2>2. work[w] \in WorkerTick /\ work[w].marks = {}
    BY <1>2, MyFacts DEF MarksOf
  <2>3. work' \in [Workers -> WorkerTick]
    <3>1. [work[w] EXCEPT !.step = "plain", !.batch = b] \in WorkerTick
      BY <2>1, <2>2 DEF WorkerTick
    <3>2. work' = [work EXCEPT ![w] = [work[w] EXCEPT !.step = "plain", !.batch = b]]
      BY <1>1, MyFacts
    <3> QED
      BY <3>1, <3>2, MyFacts
  <2>4. work'[w].step = "plain" /\ work'[w].batch = b /\ work'[w].marks = {}
    BY <1>1, <2>2, MyFacts DEF WorkerTick
  <2> QED
    BY <1>1, <2>3, <2>4, MyFacts DEF Becomes, OthersStay
<1>6. MayHold(w, "plain", b, {})
  BY <1>4 DEF MayHold
<1>7. b \subseteq PendingRows /\ \A x \in b : ~x.agg
  BY <1>3, <1>4
<1> QED
  BY <1>1, <1>2, <1>5, <1>6, <1>7, Reading

-------------------------------------------------------------------------------
(***************************************************************************)
(* The MySQL outbox: a worker handles an event of the aggregate.           *)
(***************************************************************************)

\* The worker that delivers has the lock, so no other delivers for the aggregate; the
\* event it is at is the first of its batch, and no mark is on it.
LEMMA HandlerFacts ==
    ASSUME MySQLTypeOK, MySQLInv, NEW w \in Workers, StepOf(w) = "deliver",
           NEW r, r = First(BatchOf(w)), Unlocked(w, r)
    PROVE  /\ r \in BatchOf(w) /\ r \in Row /\ r \in Known /\ r.agg /\ r.state = "pending" /\ lock = w
           /\ \A q \in BatchOf(w) : r.id <= q.id
           /\ \A v \in Workers : v # w => StepOf(v) # "deliver" /\ \A x \in BatchOf(v) : ~x.agg
           /\ \A v \in Workers : \A m \in MarksOf(v) : m.id # r.id
           /\ IsDelivered(r) => r.id \in excused
<1>1. lock = w /\ BatchOf(w) # {}
  BY DEF MySQLInv, LockedInv
<1>2. BatchOf(w) \in SUBSET Row
  BY MyFacts
<1>3. r \in BatchOf(w) /\ \A q \in BatchOf(w) : r.id <= q.id
  BY <1>1, <1>2, EarliestFacts
<1>4. r \in Row /\ r \in Known /\ r.agg /\ r.state = "pending"
  BY <1>2, <1>3, KnownFacts DEF MySQLInv, MarksInv
<1>5. \A v \in Workers : v # w => StepOf(v) # "deliver"
  BY <1>1 DEF MySQLInv, LockedInv
<1>6. \A v \in Workers : v # w => \A x \in BatchOf(v) : ~x.agg
  BY <1>5 DEF MySQLInv, MarksInv
<1>7. \A v \in Workers \ {w} : \A m \in MarksOf(v) : m.id # r.id
  BY DEF Unlocked, MarksOf
<1>8. \A m \in MarksOf(w) : m.id # r.id
  BY <1>3 DEF MySQLInv, MarksInv
<1>9. IsDelivered(r) => r.id \in excused
  BY <1>3, <1>4, <1>7 DEF MySQLInv, AgainInv, MarkedBy
<1> QED
  BY <1>1, <1>3, <1>4, <1>5, <1>6, <1>7, <1>8, <1>9

\* The worker marks the event it is at as n, and goes on with b.
LEMMA HandlerStep ==
    ASSUME MySQLTypeOK, MySQLInv, NEW w \in Workers, StepOf(w) = "deliver",
           NEW r, r = First(BatchOf(w)), Unlocked(w, r),
           NEW s, NEW b, NEW n \in Row, Same(n, r), b \subseteq BatchOf(w) \ {r},
           s \in {"deliver", "release"}, b # {} <=> s = "deliver",
           Becomes(w, s, b, MarksOf(w) \cup {n}),
           UNCHANGED <<rows, emitting, counter, lock, floor, emitted, excused, unreleased>>,
           UNCHANGED faults \/ Mishap,
           n.attempts + faults <= r.attempts + faults',
           delivered \subseteq delivered', delivered' \subseteq delivered \cup {<<r.id, r.event>>},
           jumped' \in BOOLEAN, again' \in BOOLEAN
    PROVE  /\ MySQLTypeOK' /\ NamesInv' /\ CounterInv' /\ EmittingInv' /\ FewInv' /\ MarksInv' /\ LockedInv'
<1>1. /\ r \in BatchOf(w) /\ r \in Row /\ r \in Known /\ r.agg /\ r.state = "pending" /\ lock = w
      /\ \A v \in Workers : \A m \in MarksOf(v) : m.id # r.id
  BY HandlerFacts
<1>2. /\ StepOf(w)' = s /\ BatchOf(w)' = b /\ MarksOf(w)' = MarksOf(w) \cup {n}
      /\ \A v \in Workers : v # w => StepOf(v)' = StepOf(v) /\ BatchOf(v)' = BatchOf(v) /\ MarksOf(v)' = MarksOf(v)
  BY BecomesFacts
<1>3. faults' \in Nat /\ faults <= faults' /\ faults' \in 0..MaxFaults
  BY MyFacts, MyBounds DEF Mishap
<1>4. \A x \in Known' : x \in Known \/ x = n
  <2>1. \A v \in Workers : BatchOf(v)' \subseteq BatchOf(v) /\ MarksOf(v)' \subseteq MarksOf(v) \cup {n}
    BY <1>2
  <2> QED
    BY <2>1 DEF Known
<1>5. KnownKept
  <2> SUFFICES ASSUME NEW x \in Known' PROVE \E y \in Known : Same(x, y) /\ x.attempts + faults <= y.attempts + faults'
    BY DEF KnownKept
  <2>1. CASE x = n
    BY <1>1, <2>1
  <2>2. CASE x \in Known
    <3>1. x.attempts \in Nat
      BY <2>2, KnownFacts, RowFacts
    <3>2. Same(x, x) /\ x.attempts + faults <= x.attempts + faults'
      BY <1>3, <3>1, MyFacts DEF Same
    <3> QED
      BY <2>2, <3>2
  <2> QED
    BY <1>4, <2>1, <2>2
<1>6. DeliveredKept
  BY <1>1 DEF DeliveredKept
<1>7. BatchesKept
  BY <1>2 DEF BatchesKept
<1>8. NamesInv'
  BY <1>5, <1>6, NamesKept DEF MySQLInv
<1>9. CounterInv'
  BY <1>5, <1>6, <1>7, CounterKept DEF MySQLInv, CounterInv
<1>10. EmittingInv'
  <2>1. \A v \in Workers : \A m \in MarksOf(v)' : m \in MarksOf(v) \/ \E x \in BatchOf(v) : Same(m, x)
    BY <1>1, <1>2
  <2>2. \A p \in rows' : \E q \in rows : Same(p, q)
    BY DEF Same
  <2> QED
    BY <1>6, <1>7, <2>1, <2>2, EmittingKept DEF MySQLInv
<1>11. FewInv'
  <2>1. ASSUME NEW x \in Known' PROVE x.attempts <= faults'
    <3>1. PICK y \in Known : Same(x, y) /\ x.attempts + faults <= y.attempts + faults'
      BY <1>5 DEF KnownKept
    <3>2. y.attempts <= faults /\ y.attempts \in Nat /\ x.attempts \in Nat
      BY <1>4, KnownFacts, RowFacts DEF MySQLInv, FewInv
    <3> QED
      BY <1>3, <3>1, <3>2, MyFacts
  <2>2. \A v \in Workers : IsFiniteSet(MarksOf(v)')
    <3>1. IsFiniteSet(MarksOf(w) \cup {n})
      BY FS_AddElement DEF MySQLInv, FewInv
    <3> QED
      BY <1>2, <3>1 DEF MySQLInv, FewInv
  <2> QED
    BY <2>1, <2>2 DEF MySQLInv, FewInv
<1>12. MarksInv'
  <2>1. n.id = r.id /\ n.agg
    BY <1>1 DEF Same
  <2>2. \A v \in Workers : \A x \in BatchOf(v)' : x.state = "pending" /\ (x.agg <=> StepOf(v)' = "deliver")
    <3> TAKE v \in Workers
    <3> TAKE x \in BatchOf(v)'
    <3>1. x \in BatchOf(v) /\ (StepOf(v)' = "deliver" <=> StepOf(v) = "deliver")
      BY <1>2
    <3> QED
      BY <3>1 DEF MySQLInv, MarksInv
  <2>3. \A v \in Workers : \A m \in MarksOf(v)' : m.agg
    BY <1>2, <2>1 DEF MySQLInv, MarksInv
  <2>4. \A v \in Workers : \A x, y \in BatchOf(v)' : x.id = y.id => x = y
    BY <1>2 DEF MySQLInv, MarksInv
  <2>5. \A v \in Workers : \A x, y \in MarksOf(v)' : x.id = y.id => x = y
    BY <1>1, <1>2, <2>1 DEF MySQLInv, MarksInv
  <2>6. \A v \in Workers : \A x \in BatchOf(v)', m \in MarksOf(v)' : x.id # m.id
    BY <1>1, <1>2, <2>1 DEF MySQLInv, MarksInv
  <2>7. \A u, v \in Workers : u # v => \A m \in MarksOf(u)', k \in MarksOf(v)' : m.id # k.id
    BY <1>1, <1>2, <2>1 DEF MySQLInv, MarksInv
  <2> QED
    BY <2>2, <2>3, <2>4, <2>5, <2>6, <2>7 DEF MarksInv
<1>13. LockedInv'
  <2>1. MayHold(w, s, b, MarksOf(w) \cup {n})
    BY <1>1 DEF MayHold
  <2>2. lock' = Pool => unreleased'
    BY DEF MySQLInv, LockedInv
  <2> QED
    BY <2>1, <2>2, LockedKept DEF MySQLInv
<1>14. MySQLTypeOK'
  <2>1. delivered' \subseteq (1..MaxEvents) \X (1..MaxEvents)
    <3>1. r.id \in 1..MaxEvents /\ r.event \in 1..MaxEvents
      BY <1>1, RowFacts, MyBounds
    <3> QED
      BY <3>1 DEF MySQLTypeOK
  <2>2. work' \in [Workers -> WorkerTick]
    BY DEF Becomes
  <2> QED
    BY <1>3, <2>1, <2>2 DEF MySQLTypeOK, WorkerTick
<1> QED
  BY <1>8, <1>9, <1>10, <1>11, <1>12, <1>13, <1>14

\* The first of the batch is delivered after all before it, and again only with an excuse.
LEMMA HandlerSucceeding ==
    ASSUME MySQLTypeOK, MySQLInv, NEW w \in Workers, HandlerSucceeds(w)
    PROVE  MySQLTypeOK' /\ MySQLInv'
<1> DEFINE r == First(BatchOf(w))
<1> DEFINE n == [r EXCEPT !.state = "published"]
<1> DEFINE b == BatchOf(w) \ {r}
<1> DEFINE s == IF BatchOf(w) = {r} THEN "release" ELSE "deliver"
<1>1. /\ StepOf(w) = "deliver" /\ Unlocked(w, r) /\ Deliver(r)
      /\ work' = [work EXCEPT ![w].batch = @ \ {r}, ![w].marks = @ \cup {n}, ![w].step = s]
      /\ UNCHANGED <<rows, emitting, counter, lock, floor, emitted, faults, excused, unreleased>>
  BY DEF HandlerSucceeds, BatchOf, StepOf
<1>2. /\ r \in BatchOf(w) /\ r \in Row /\ r \in Known /\ r.agg /\ r.state = "pending" /\ lock = w
      /\ \A q \in BatchOf(w) : r.id <= q.id
      /\ \A v \in Workers : v # w => StepOf(v) # "deliver" /\ \A x \in BatchOf(v) : ~x.agg
      /\ \A v \in Workers : \A m \in MarksOf(v) : m.id # r.id
      /\ IsDelivered(r) => r.id \in excused
  BY <1>1, HandlerFacts
<1>3. n \in Row /\ Same(n, r) /\ n.state = "published" /\ n.attempts = r.attempts
  BY <1>2 DEF Row, Same
<1>4. b \subseteq BatchOf(w) \ {r} /\ s \in {"deliver", "release"} /\ (b # {} <=> s = "deliver")
  BY <1>2
<1> HIDE DEF r, n
<1>5. Becomes(w, s, b, MarksOf(w) \cup {n})
  <2> HIDE DEF s
  <2>1. work[w] \in WorkerTick
    BY MyFacts
  <2>2. [work[w] EXCEPT !.batch = @ \ {r}, !.marks = @ \cup {n}, !.step = s] \in WorkerTick
    BY <1>3, <1>4, <2>1 DEF WorkerTick
  <2>3. work' = [work EXCEPT ![w] = [work[w] EXCEPT !.batch = @ \ {r}, !.marks = @ \cup {n}, !.step = s]]
    BY <1>1, MyFacts
  <2>4. work'[w] = [work[w] EXCEPT !.batch = @ \ {r}, !.marks = @ \cup {n}, !.step = s]
    BY <2>3, MyFacts
  <2>5. work' \in [Workers -> WorkerTick] /\ OthersStay(w)
    BY <2>2, <2>3, MyFacts DEF OthersStay
  <2> QED
    BY <2>1, <2>4, <2>5 DEF Becomes, BatchOf, MarksOf, WorkerTick
<1>6. delivered' = delivered \cup {<<r.id, r.event>>}
  BY <1>1 DEF Deliver
<1>7. ~jumped' /\ ~again'
  <2>1. ASSUME NEW q \in PendingRows, q.agg, q.id < r.id PROVE IsDelivered(q)
    <3>1. IsDelivered(q) \/ \E y \in BatchOf(w) : y.id = q.id
      BY <1>1, <1>2, <2>1 DEF MySQLInv, OrderInv
    <3>2. q.id \in Nat /\ r.id \in Nat
      BY <1>2, RowFacts, MyFacts DEF PendingRows
    <3>3. \A y \in BatchOf(w) : y.id # q.id
      BY <1>2, <2>1, <3>2
    <3> QED
      BY <3>1, <3>3
  <2>2. ~(r.agg /\ <<r.id, r.event>> \notin delivered
               /\ \E q \in PendingRows : q.agg /\ q.id < r.id /\ <<q.id, q.event>> \notin delivered)
    BY <2>1 DEF IsDelivered
  <2>3. ~(r.agg /\ <<r.id, r.event>> \in delivered /\ r.id \notin excused)
    BY <1>2 DEF IsDelivered
  <2>4. ~jumped /\ ~again
    BY DEF MySQLInv
  <2>5. /\ jumped' = (jumped \/ (r.agg /\ <<r.id, r.event>> \notin delivered
                                      /\ \E q \in PendingRows : q.agg /\ q.id < r.id /\ <<q.id, q.event>> \notin delivered))
        /\ again' = (again \/ (r.agg /\ <<r.id, r.event>> \in delivered /\ r.id \notin excused))
    BY <1>1 DEF Deliver
  <2> QED
    BY <2>2, <2>3, <2>4, <2>5
<1>8. jumped' \in BOOLEAN /\ again' \in BOOLEAN
  BY <1>1 DEF Deliver
<1>9. n.attempts + faults <= r.attempts + faults'
  BY <1>1, <1>2, <1>3, RowFacts, MyFacts
<1>10. /\ MySQLTypeOK' /\ NamesInv' /\ CounterInv' /\ EmittingInv' /\ FewInv' /\ MarksInv' /\ LockedInv'
  <2> HIDE DEF s, b
  <2>1. r = First(BatchOf(w))
    BY DEF r
  <2> QED
    BY <1>1, <1>3, <1>4, <1>5, <1>6, <1>8, <1>9, <2>1, HandlerStep
<1>11. /\ StepOf(w)' = s /\ BatchOf(w)' = b /\ MarksOf(w)' = MarksOf(w) \cup {n}
       /\ \A v \in Workers : v # w => StepOf(v)' = StepOf(v) /\ BatchOf(v)' = BatchOf(v) /\ MarksOf(v)' = MarksOf(v)
  BY <1>5, BecomesFacts
<1> HIDE DEF s, b
<1>12. ParkedInv'
  <2>1. \A r1 \in rows' : r1.state = "failed" => Spent(r1)
    BY <1>1 DEF MySQLInv, ParkedInv
  <2>2. \A v \in Workers : \A m \in MarksOf(v)' : m.state # "published" => m \in MarksOf(v)
    BY <1>3, <1>11
  <2>3. \A v \in Workers : \A m \in MarksOf(v)' : /\ m.state = "pending" => ~Spent(m)
                                                  /\ m.state = "failed" => Spent(m)
    BY <2>2 DEF MySQLInv, ParkedInv
  <2>4. \A v \in Workers : \A m \in MarksOf(v)', p \in rows' :
          m.state # "published" /\ p.state # "published" /\ p.id = m.id => Near(p, m)
    BY <1>1, <2>2 DEF MySQLInv, ParkedInv
  <2>5. \A v \in Workers : BatchOf(v)' \subseteq BatchOf(v)
    BY <1>4, <1>11
  <2>6. \A v \in Workers : \A x \in BatchOf(v)', p \in rows' :
          x.agg /\ p.state # "published" /\ p.id = x.id => Near(x, p)
    BY <1>1, <2>5 DEF MySQLInv, ParkedInv
  <2>7. \A u, v \in Workers : \A x \in BatchOf(v)', m \in MarksOf(u)' :
          x.agg /\ m.state # "published" /\ m.id = x.id => Near(x, m)
    BY <2>2, <2>5 DEF MySQLInv, ParkedInv
  <2> QED
    BY <2>1, <2>3, <2>4, <2>6, <2>7 DEF ParkedInv, Near, Spent
<1>13. OrderInv'
  <2> SUFFICES ASSUME NEW v \in Workers, StepOf(v)' = "deliver", NEW x \in BatchOf(v)',
                      NEW q \in PendingRows', q.agg, q.id < x.id
               PROVE  IsDelivered(q)' \/ \E y \in BatchOf(v)' : y.id = q.id
    BY DEF OrderInv
  <2>1. v = w /\ x \in BatchOf(w) /\ q \in PendingRows
    BY <1>1, <1>2, <1>4, <1>11 DEF PendingRows
  <2>2. IsDelivered(q) \/ \E y \in BatchOf(w) : y.id = q.id
    BY <1>1, <2>1 DEF MySQLInv, OrderInv
  <2>3. CASE q.id = r.id
    <3>1. q \in Known
      BY <2>1, KnownFacts DEF PendingRows
    <3>2. q.event = r.event
      BY <1>2, <2>3, <3>1 DEF MySQLInv, NamesInv, Same
    <3> QED
      BY <1>6, <2>3, <3>2 DEF IsDelivered
  <2>4. CASE q.id # r.id
    BY <1>6, <1>11, <2>1, <2>2, <2>4 DEF IsDelivered, b
  <2> QED
    BY <2>3, <2>4
<1>14. AgainInv'
  <2>1. ASSUME NEW x \in Known, IsDelivered(x)' PROVE IsDelivered(x) \/ x.id = r.id
    BY <1>6, <2>1 DEF IsDelivered
  <2>2. n.id = r.id
    BY <1>3 DEF Same
  <2>3. ASSUME NEW p \in PendingRows', p.agg, IsDelivered(p)' PROVE p.id \in excused' \/ MarkedBy(Workers, p)'
    <3>1. p \in PendingRows /\ p \in Known
      BY <1>1, KnownFacts DEF PendingRows
    <3>2. CASE p.id = r.id
      BY <1>11, <2>2, <3>2 DEF MarkedBy
    <3>3. CASE IsDelivered(p)
      <4>1. p.id \in excused \/ MarkedBy(Workers, p)
        BY <2>3, <3>1, <3>3 DEF MySQLInv, AgainInv
      <4>2. MarkedBy(Workers, p) => MarkedBy(Workers, p)'
        BY <1>11 DEF MarkedBy
      <4> QED
        BY <1>1, <4>1, <4>2
    <3> QED
      BY <2>1, <2>3, <3>1, <3>2, <3>3
  <2>4. ASSUME NEW v \in Workers, NEW x \in BatchOf(v)', x.agg, IsDelivered(x)'
        PROVE  x.id \in excused' \/ MarkedBy(Workers \ {v}, x)'
    <3>1. v = w /\ x \in BatchOf(w) /\ x # r
      BY <1>2, <1>11, <2>4 DEF b
    <3>2. x.id # r.id /\ x \in Known
      BY <1>2, <3>1, KnownFacts DEF MySQLInv, MarksInv
    <3>3. x.id \in excused \/ MarkedBy(Workers \ {v}, x)
      BY <2>1, <2>4, <3>1, <3>2 DEF MySQLInv, AgainInv
    <3>4. MarkedBy(Workers \ {v}, x) => MarkedBy(Workers \ {v}, x)'
      BY <1>11, <3>1 DEF MarkedBy
    <3> QED
      BY <1>1, <3>3, <3>4
  <2>5. ASSUME NEW v \in Workers, NEW m \in MarksOf(v)', m.state # "published", IsDelivered(m)' PROVE m.id \in excused'
    <3>1. m \in MarksOf(v) /\ m \in Known
      BY <1>3, <1>11, <2>5, KnownFacts
    <3>2. IsDelivered(m)
      BY <1>2, <2>1, <2>5, <3>1
    <3> QED
      BY <1>1, <2>5, <3>1, <3>2 DEF MySQLInv, AgainInv
  <2> QED
    BY <2>3, <2>4, <2>5 DEF AgainInv
<1> QED
  BY <1>7, <1>10, <1>12, <1>13, <1>14 DEF MySQLInv

\* A failure counts one attempt, and parks the row when that was the last.
LEMMA FailedFacts ==
    ASSUME MySQLTypeOK, MySQLInv, NEW r \in Known, r.state = "pending", faults < MaxFaults
    PROVE  /\ Failed(r) \in Row /\ Same(Failed(r), r) /\ Failed(r).attempts = r.attempts + 1
           /\ Failed(r).state \in {"pending", "failed"}
           /\ Failed(r).state = "pending" => ~Spent(Failed(r))
           /\ Failed(r).state = "failed" => Spent(Failed(r))
<1>1. r \in Row /\ r.attempts \in Nat /\ r.attempts <= faults
  BY KnownFacts, RowFacts DEF MySQLInv, FewInv
<1>2. r.attempts + 1 \in 0..MaxAttempts + MaxFaults /\ r.attempts + 1 \in Nat
  BY <1>1, MyFacts, MyBounds
<1> DEFINE f == [r EXCEPT !.attempts = @ + 1, !.state = "failed"]
<1> DEFINE g == [r EXCEPT !.attempts = @ + 1, !.due = FALSE]
<1>3. f \in Row /\ f.attempts = r.attempts + 1 /\ f.state = "failed" /\ Same(f, r)
  BY <1>1, <1>2 DEF Row, Same
<1>4. g \in Row /\ g.attempts = r.attempts + 1 /\ g.state = "pending" /\ Same(g, r)
  BY <1>1, <1>2 DEF Row, Same
<1>5. Failed(r) = IF MaxAttempts > 0 /\ r.attempts + 1 >= MaxAttempts THEN f ELSE g
  BY DEF Failed
<1> HIDE DEF f, g
<1>6. CASE MaxAttempts > 0 /\ r.attempts + 1 >= MaxAttempts
  BY <1>3, <1>5, <1>6 DEF Spent
<1>7. CASE ~(MaxAttempts > 0 /\ r.attempts + 1 >= MaxAttempts)
  BY <1>4, <1>5, <1>7 DEF Spent
<1> QED
  BY <1>6, <1>7

\* A failure leaves a mark one attempt ahead, and ends the batch.
LEMMA HandlerFailing ==
    ASSUME MySQLTypeOK, MySQLInv, NEW w \in Workers, HandlerFails(w)
    PROVE  MySQLTypeOK' /\ MySQLInv'
<1> DEFINE r == First(BatchOf(w))
<1> DEFINE n == Failed(r)
<1>1. /\ StepOf(w) = "deliver" /\ Unlocked(w, r) /\ Mishap
      /\ work' = [work EXCEPT ![w].batch = {}, ![w].marks = @ \cup {n}, ![w].step = "release"]
      /\ UNCHANGED <<rows, emitting, counter, lock, floor, emitted, delivered, excused, jumped, again, unreleased>>
  BY DEF HandlerFails, BatchOf, StepOf, myHistory
<1>2. /\ r \in BatchOf(w) /\ r \in Row /\ r \in Known /\ r.agg /\ r.state = "pending" /\ lock = w
      /\ \A v \in Workers : v # w => StepOf(v) # "deliver" /\ \A x \in BatchOf(v) : ~x.agg
      /\ \A v \in Workers : \A m \in MarksOf(v) : m.id # r.id
      /\ IsDelivered(r) => r.id \in excused
  BY <1>1, HandlerFacts
<1>3. /\ n \in Row /\ Same(n, r) /\ n.attempts = r.attempts + 1
      /\ n.state \in {"pending", "failed"}
      /\ n.state = "pending" => ~Spent(n)
      /\ n.state = "failed" => Spent(n)
  BY <1>1, <1>2, FailedFacts DEF Mishap
<1> HIDE DEF r, n
<1>4. Becomes(w, "release", {}, MarksOf(w) \cup {n})
  <2>1. work[w] \in WorkerTick
    BY MyFacts
  <2>2. [work[w] EXCEPT !.batch = {}, !.marks = @ \cup {n}, !.step = "release"] \in WorkerTick
    BY <1>3, <2>1 DEF WorkerTick
  <2>3. work' = [work EXCEPT ![w] = [work[w] EXCEPT !.batch = {}, !.marks = @ \cup {n}, !.step = "release"]]
    BY <1>1, MyFacts
  <2>4. work'[w] = [work[w] EXCEPT !.batch = {}, !.marks = @ \cup {n}, !.step = "release"]
    BY <2>3, MyFacts
  <2>5. work' \in [Workers -> WorkerTick] /\ OthersStay(w)
    BY <2>2, <2>3, MyFacts DEF OthersStay
  <2> QED
    BY <2>1, <2>4, <2>5 DEF Becomes, BatchOf, MarksOf, WorkerTick
<1>5. n.attempts + faults <= r.attempts + faults'
  BY <1>1, <1>2, <1>3, RowFacts, MyFacts DEF Mishap
<1>6. jumped' \in BOOLEAN /\ again' \in BOOLEAN
  BY <1>1, MyFacts
<1>7. /\ MySQLTypeOK' /\ NamesInv' /\ CounterInv' /\ EmittingInv' /\ FewInv' /\ MarksInv' /\ LockedInv'
  <2>1. r = First(BatchOf(w))
    BY DEF r
  <2> QED
    BY <1>1, <1>3, <1>4, <1>5, <1>6, <2>1, HandlerStep
<1>8. /\ StepOf(w)' = "release" /\ BatchOf(w)' = {} /\ MarksOf(w)' = MarksOf(w) \cup {n}
      /\ \A v \in Workers : v # w => StepOf(v)' = StepOf(v) /\ BatchOf(v)' = BatchOf(v) /\ MarksOf(v)' = MarksOf(v)
  BY <1>4, BecomesFacts
<1>9. \A v \in Workers : StepOf(v)' # "deliver" /\ \A x \in BatchOf(v)' : ~x.agg
  BY <1>2, <1>8
<1>10. ParkedInv'
  <2>1. \A p \in rows' : p.state = "failed" => Spent(p)
    BY <1>1 DEF MySQLInv, ParkedInv
  <2>2. \A v \in Workers : \A m \in MarksOf(v)' : /\ m.state = "pending" => ~Spent(m)
                                                  /\ m.state = "failed" => Spent(m)
    BY <1>3, <1>8 DEF MySQLInv, ParkedInv
  <2>3. ASSUME NEW p \in rows, p.state # "published", p.id = r.id PROVE Near(p, n)
    <3>1. Near(r, p)
      BY <1>2, <2>3 DEF MySQLInv, ParkedInv
    <3>2. r.attempts \in Nat /\ p.attempts \in Nat
      BY <1>2, MyFacts, RowFacts
    <3> QED
      BY <1>3, <3>1, <3>2 DEF Near
  <2>4. \A v \in Workers : \A m \in MarksOf(v)', p \in rows' :
          m.state # "published" /\ p.state # "published" /\ p.id = m.id => Near(p, m)
    BY <1>1, <1>3, <1>8, <2>3 DEF MySQLInv, ParkedInv, Same
  <2> QED
    BY <1>9, <2>1, <2>2, <2>4 DEF ParkedInv, Near, Spent
<1>11. OrderInv'
  BY <1>9 DEF OrderInv
<1>12. AgainInv'
  <2>1. \A x : IsDelivered(x)' <=> IsDelivered(x)
    BY <1>1 DEF IsDelivered
  <2>2. ASSUME NEW p \in PendingRows', p.agg, IsDelivered(p)' PROVE p.id \in excused' \/ MarkedBy(Workers, p)'
    <3>1. p.id \in excused \/ MarkedBy(Workers, p)
      BY <1>1, <2>1, <2>2 DEF MySQLInv, AgainInv, PendingRows
    <3>2. MarkedBy(Workers, p) => MarkedBy(Workers, p)'
      BY <1>8 DEF MarkedBy
    <3> QED
      BY <1>1, <3>1, <3>2
  <2>3. ASSUME NEW v \in Workers, NEW m \in MarksOf(v)', m.state # "published", IsDelivered(m)' PROVE m.id \in excused'
    <3>1. CASE m = n
      BY <1>1, <1>2, <1>3, <2>1, <2>3, <3>1 DEF IsDelivered, Same
    <3>2. CASE m \in MarksOf(v)
      BY <1>1, <2>1, <2>3, <3>2 DEF MySQLInv, AgainInv
    <3> QED
      BY <1>8, <3>1, <3>2
  <2> QED
    BY <1>9, <2>2, <2>3 DEF AgainInv
<1>13. ~jumped' /\ ~again'
  BY <1>1 DEF MySQLInv
<1> QED
  BY <1>7, <1>10, <1>11, <1>12, <1>13 DEF MySQLInv

-------------------------------------------------------------------------------
(***************************************************************************)
(* The MySQL outbox: marks reach the table.                                *)
(***************************************************************************)

\* Marks replace unpublished rows of their ids, and no id goes.
LEMMA MarkedFacts ==
    ASSUME NEW S, NEW M
    PROVE  /\ \A p \in Marked(S, M) : \/ p \in S /\ (p.state = "published" \/ \A m \in M : m.id # p.id)
                                      \/ p \in M /\ \E q \in S : q.state # "published" /\ q.id = p.id
           /\ \A q \in S : \E p \in Marked(S, M) : p.id = q.id
<1> DEFINE touched == {r \in S : r.state # "published" /\ \E m \in M : m.id = r.id}
<1>1. Marked(S, M) = (S \ touched) \cup {m \in M : \E r \in touched : r.id = m.id}
  BY DEF Marked
<1>2. \A p \in Marked(S, M) : \/ p \in S /\ (p.state = "published" \/ \A m \in M : m.id # p.id)
                              \/ p \in M /\ \E q \in S : q.state # "published" /\ q.id = p.id
  BY <1>1
<1>3. ASSUME NEW q \in S PROVE \E p \in Marked(S, M) : p.id = q.id
  <2>1. CASE q \in touched
    <3>1. PICK m \in M : m.id = q.id
      BY <2>1
    <3>2. m \in Marked(S, M)
      BY <1>1, <2>1, <3>1
    <3> QED
      BY <3>1, <3>2
  <2>2. CASE q \notin touched
    BY <1>1, <2>2
  <2> QED
    BY <2>1, <2>2
<1> QED
  BY <1>2, <1>3

\* The commit writes the marks: none brings a parked row back, and what another worker
\* read meanwhile is excused.
LEMMA CommittingDrain ==
    ASSUME MySQLTypeOK, MySQLInv, NEW w \in Workers, CommitDrain(w)
    PROVE  MySQLTypeOK' /\ MySQLInv'
<1> DEFINE M == MarksOf(w)
<1>1. /\ StepOf(w) = "end" /\ rows' = Marked(rows, M) /\ work' = [work EXCEPT ![w] = IdleWork]
      /\ excused' = excused \cup Overlap(w)
      /\ UNCHANGED <<emitting, counter, lock, floor, emitted, faults, delivered, jumped, again, unreleased>>
  BY DEF CommitDrain, StepOf, MarksOf
<1>2. Becomes(w, "idle", {}, {}) /\ MayHold(w, "idle", {}, {})
  <2>1. IdleWork \in WorkerTick
    BY DEF IdleWork, WorkerTick
  <2>2. work' \in [Workers -> WorkerTick]
    BY <1>1, <2>1, MyFacts
  <2>3. work'[w] = IdleWork /\ OthersStay(w)
    BY <1>1, MyFacts DEF OthersStay
  <2> QED
    BY <2>2, <2>3 DEF Becomes, IdleWork, MayHold
<1>3. /\ StepOf(w)' = "idle" /\ BatchOf(w)' = {} /\ MarksOf(w)' = {} /\ BatchOf(w) = {}
      /\ \A v \in Workers : v # w => StepOf(v)' = StepOf(v) /\ BatchOf(v)' = BatchOf(v) /\ MarksOf(v)' = MarksOf(v)
  BY <1>1, <1>2, BecomesFacts DEF MySQLInv, LockedInv
<1> HIDE DEF M
<1>4. /\ \A p \in rows' : \/ p \in rows /\ (p.state = "published" \/ \A m \in M : m.id # p.id)
                          \/ p \in M /\ \E q \in rows : q.state # "published" /\ q.id = p.id
      /\ \A q \in rows : \E p \in rows' : p.id = q.id
  BY <1>1, MarkedFacts
<1>5. M \subseteq Row /\ M \subseteq Known /\ rows \subseteq Known
  BY MyFacts, KnownFacts DEF M
<1>6. Known' \subseteq Known
  <2>1. \A x \in Known' : x \in rows' \/ x \in emitting \/ \E v \in Workers : x \in BatchOf(v) \/ x \in MarksOf(v)
    BY <1>1, <1>3 DEF Known
  <2> QED
    BY <1>4, <1>5, <2>1, KnownFacts
<1>7. KnownKept
  <2> SUFFICES ASSUME NEW x \in Known' PROVE Same(x, x) /\ x.attempts + faults <= x.attempts + faults'
    BY <1>6 DEF KnownKept
  <2>1. x.attempts \in Nat
    BY <1>6, KnownFacts, RowFacts
  <2> QED
    BY <1>1, <2>1, MyFacts DEF Same
<1>8. DeliveredKept /\ BatchesKept
  BY <1>1, <1>3 DEF DeliveredKept, BatchesKept
<1>9. NamesInv'
  BY <1>7, <1>8, NamesKept DEF MySQLInv
<1>10. CounterInv'
  BY <1>1, <1>4, <1>7, <1>8, CounterKept DEF MySQLInv, CounterInv
<1>11. \A p \in rows' : \E q \in rows : Same(p, q)
  <2> TAKE p \in rows'
  <2>1. CASE p \in rows
    BY <2>1 DEF Same
  <2>2. CASE p \in M /\ \E q \in rows : q.state # "published" /\ q.id = p.id
    BY <1>5, <2>2 DEF MySQLInv, NamesInv
  <2> QED
    BY <1>4, <2>1, <2>2
<1>12. EmittingInv'
  BY <1>1, <1>3, <1>8, <1>11, EmittingKept DEF MySQLInv
<1>13. /\ \A m \in M : /\ m.state = "pending" => ~Spent(m)
                       /\ m.state = "failed" => Spent(m)
       /\ \A m \in M, p \in rows : m.state # "published" /\ p.state # "published" /\ p.id = m.id => Near(p, m)
       /\ \A v \in Workers : \A x \in BatchOf(v), m \in M :
             x.agg /\ m.state # "published" /\ m.id = x.id => Near(x, m)
       /\ \A v \in Workers : v # w => \A m \in M, k \in MarksOf(v) : m.id # k.id
       /\ \A m \in M : m.state # "published" /\ IsDelivered(m) => m.id \in excused
  BY DEF MySQLInv, ParkedInv, MarksInv, AgainInv, M
<1>14. ParkedInv'
  <2>1. \A p \in rows' : p.state = "failed" => Spent(p)
    BY <1>4, <1>13 DEF MySQLInv, ParkedInv
  <2>2. \A v \in Workers : \A m \in MarksOf(v)' : /\ m.state = "pending" => ~Spent(m)
                                                  /\ m.state = "failed" => Spent(m)
    BY <1>3 DEF MySQLInv, ParkedInv
  <2>3. \A v \in Workers : \A m \in MarksOf(v)', p \in rows' :
          m.state # "published" /\ p.state # "published" /\ p.id = m.id => Near(p, m)
    BY <1>3, <1>4, <1>13 DEF MySQLInv, ParkedInv
  <2>4. \A v \in Workers : \A x \in BatchOf(v)', p \in rows' :
          x.agg /\ p.state # "published" /\ p.id = x.id => Near(x, p)
    BY <1>3, <1>4, <1>13 DEF MySQLInv, ParkedInv
  <2>5. \A u, v \in Workers : \A x \in BatchOf(v)', m \in MarksOf(u)' :
          x.agg /\ m.state # "published" /\ m.id = x.id => Near(x, m)
    BY <1>3 DEF MySQLInv, ParkedInv
  <2> QED
    BY <2>1, <2>2, <2>3, <2>4, <2>5 DEF ParkedInv, Near, Spent
<1>15. PendingKept
  <2> SUFFICES ASSUME NEW p \in PendingRows', p.agg PROVE \E q \in PendingRows : Same(p, q)
    BY DEF PendingKept
  <2>1. p \in rows' /\ p.state = "pending"
    BY DEF PendingRows
  <2>2. CASE p \in rows
    BY <2>1, <2>2 DEF PendingRows, Same
  <2>3. CASE p \in M /\ \E q \in rows : q.state # "published" /\ q.id = p.id
    <3>1. PICK q \in rows : q.state # "published" /\ q.id = p.id
      BY <2>3
    <3>2. Near(q, p) /\ ~Spent(p)
      BY <1>13, <2>1, <2>3, <3>1
    <3>3. q.attempts \in Nat /\ p.attempts \in Nat
      BY <1>5, <2>3, MyFacts, RowFacts
    <3>4. ~Spent(q)
      BY <3>2, <3>3, MyBounds DEF Near, Spent
    <3>5. q.state = "pending"
      BY <3>1, <3>4, MyFacts, RowFacts DEF MySQLInv, ParkedInv
    <3>6. Same(p, q)
      BY <1>5, <2>3, <3>1 DEF MySQLInv, NamesInv
    <3> QED
      BY <3>5, <3>6 DEF PendingRows
  <2> QED
    BY <1>4, <2>1, <2>2, <2>3
<1>16. OrderInv'
  <2>1. \A v \in Workers : StepOf(v)' = "deliver" => StepOf(v) = "deliver" /\ BatchOf(v)' = BatchOf(v)
    BY <1>3
  <2> QED
    BY <1>1, <1>15, <2>1, OrderKept DEF MySQLInv
<1>17. AgainInv'
  <2>1. \A x : IsDelivered(x)' <=> IsDelivered(x)
    BY <1>1 DEF IsDelivered
  <2>2. ASSUME NEW p \in PendingRows', p.agg, IsDelivered(p)' PROVE p.id \in excused' \/ MarkedBy(Workers, p)'
    <3>1. p \in rows' /\ p.state = "pending"
      BY DEF PendingRows
    <3>2. CASE p \in M
      BY <1>1, <1>13, <2>1, <2>2, <3>1, <3>2
    <3>3. CASE p \in rows /\ \A m \in M : m.id # p.id
      <4>1. p.id \in excused \/ MarkedBy(Workers, p)
        BY <2>1, <2>2, <3>1, <3>3 DEF MySQLInv, AgainInv, PendingRows
      <4>2. MarkedBy(Workers, p) => MarkedBy(Workers, p)'
        BY <1>3, <3>3 DEF MarkedBy, M
      <4> QED
        BY <1>1, <4>1, <4>2
    <3> QED
      BY <1>4, <3>1, <3>2, <3>3
  <2>3. ASSUME NEW v \in Workers, NEW x \in BatchOf(v)', x.agg, IsDelivered(x)'
        PROVE  x.id \in excused' \/ MarkedBy(Workers \ {v}, x)'
    <3>1. v # w /\ x \in BatchOf(v)
      BY <1>3, <2>3
    <3>2. x.id \in excused \/ MarkedBy(Workers \ {v}, x)
      BY <2>1, <2>3, <3>1 DEF MySQLInv, AgainInv
    <3>3. ASSUME NEW m \in M, m.id = x.id PROVE x.id \in Overlap(w)
      BY <3>1, <3>3 DEF Overlap, M, MarksOf, BatchOf
    <3>4. MarkedBy(Workers \ {v}, x) => MarkedBy(Workers \ {v}, x)' \/ x.id \in Overlap(w)
      BY <1>3, <3>3 DEF MarkedBy, M
    <3> QED
      BY <1>1, <3>2, <3>4
  <2>4. \A v \in Workers : \A m \in MarksOf(v)' : m.state # "published" /\ IsDelivered(m)' => m.id \in excused'
    BY <1>1, <1>3, <2>1 DEF MySQLInv, AgainInv
  <2> QED
    BY <2>2, <2>3, <2>4 DEF AgainInv
<1>18. FewInv'
  <2>1. \A x \in Known' : x.attempts <= faults'
    BY <1>1, <1>6 DEF MySQLInv, FewInv
  <2>2. IsFiniteSet(rows \cup M)
    BY FS_Union DEF MySQLInv, FewInv, M
  <2>3. rows' \subseteq rows \cup M
    BY <1>4
  <2>4. IsFiniteSet(rows')
    BY <2>2, <2>3, FS_Subset
  <2>5. \A v \in Workers : IsFiniteSet(MarksOf(v)')
    BY <1>3, FS_EmptySet DEF MySQLInv, FewInv
  <2> QED
    BY <2>1, <2>4, <2>5 DEF FewInv
<1>19. MarksInv'
  <2>1. WorkKept /\ \A v \in Workers : BatchOf(v)' # {} => (StepOf(v)' = "deliver" <=> StepOf(v) = "deliver")
    BY <1>3 DEF WorkKept
  <2> QED
    BY <2>1, MarksKept DEF MySQLInv
<1>20. LockedInv'
  <2>1. lock' = Pool => unreleased'
    BY <1>1 DEF MySQLInv, LockedInv
  <2> QED
    BY <1>1, <1>2, <2>1, LockedKept DEF MySQLInv
<1>21. MySQLTypeOK'
  <2>1. rows' \subseteq Row /\ emitting' \subseteq Row
    BY <1>1, <1>4, <1>5, MyFacts
  <2>2. \A p, q \in rows' : p.id = q.id => p = q
    <3>1. \A p, q \in M : p.id = q.id => p = q
      BY DEF MySQLInv, MarksInv, M
    <3>2. ASSUME NEW p \in rows', NEW q \in rows', p.id = q.id, p \in rows,
                 p.state = "published" \/ \A m \in M : m.id # p.id,
                 q \in M, NEW k \in rows, k.state # "published", k.id = q.id
          PROVE  FALSE
      <4>1. k = p
        BY <3>2, MyFacts
      <4> QED
        BY <3>2, <4>1
    <3> QED
      BY <1>4, <3>1, <3>2, MyFacts
  <2>3. \A p \in rows', e \in emitting' : p.id # e.id
    BY <1>1, <1>11 DEF MySQLInv, EmittingInv, Behind, Same
  <2>4. \A p, q \in rows' \cup emitting' : p.id = q.id => p = q
    BY <1>1, <2>2, <2>3, MyFacts
  <2>5. excused' \subseteq 1..MaxEvents
    <3>1. Overlap(w) \subseteq {m.id : m \in M}
      BY DEF Overlap, M, MarksOf
    <3>2. \A m \in M : m.id \in 1..MaxEvents
      BY <1>5, RowFacts, MyBounds
    <3>3. excused \subseteq 1..MaxEvents
      BY DEF MySQLTypeOK
    <3> QED
      BY <1>1, <3>1, <3>2, <3>3
  <2>6. work' \in [Workers -> WorkerTick]
    BY <1>2 DEF Becomes
  <2> QED
    BY <1>1, <2>1, <2>4, <2>5, <2>6 DEF MySQLTypeOK, WorkerTick
<1>22. ~jumped' /\ ~again'
  BY <1>1 DEF MySQLInv
<1> QED
  BY <1>9, <1>10, <1>12, <1>14, <1>16, <1>17, <1>18, <1>19, <1>20, <1>21, <1>22 DEF MySQLInv

\* A worker of events without an aggregate: it has no marks, and its first event goes.
LEMMA PlainFacts ==
    ASSUME MySQLTypeOK, MySQLInv, NEW w \in Workers, StepOf(w) = "plain", NEW r, r = First(BatchOf(w))
    PROVE  r \in BatchOf(w) /\ r \in Row /\ r \in Known /\ ~r.agg /\ r.state = "pending" /\ MarksOf(w) = {}
<1>1. BatchOf(w) # {} /\ MarksOf(w) = {}
  BY DEF MySQLInv, LockedInv
<1>2. BatchOf(w) \in SUBSET Row
  BY MyFacts
<1>3. r \in BatchOf(w)
  BY <1>1, <1>2, EarliestFacts
<1> QED
  BY <1>1, <1>2, <1>3, KnownFacts DEF MySQLInv, MarksInv

\* The worker handles its first event, and writes it as n or does not.
LEMMA PlainStep ==
    ASSUME MySQLTypeOK, MySQLInv, NEW w \in Workers, StepOf(w) = "plain", NEW r, r = First(BatchOf(w)), NextPlain(w, r),
           NEW n \in Row, Same(n, r), n.state = "failed" => Spent(n),
           rows' = rows \/ (rows' = Marked(rows, {n}) /\ n.attempts + faults <= r.attempts + faults'),
           UNCHANGED faults \/ Mishap,
           delivered \subseteq delivered', delivered' \subseteq delivered \cup {<<r.id, r.event>>},
           UNCHANGED <<emitting, counter, lock, floor, emitted, excused, jumped, again, unreleased>>
    PROVE  MySQLTypeOK' /\ MySQLInv'
<1>1. r \in BatchOf(w) /\ r \in Row /\ r \in Known /\ ~r.agg /\ r.state = "pending" /\ MarksOf(w) = {}
  BY PlainFacts
<1> DEFINE s == IF BatchOf(w) = {r} THEN "idle" ELSE "plain"
<1> DEFINE b == BatchOf(w) \ {r}
<1>2. Becomes(w, s, b, {}) /\ MayHold(w, s, b, {})
  <2> DEFINE tick == IF work[w].batch = {r} THEN IdleWork ELSE [work[w] EXCEPT !.batch = @ \ {r}]
  <2>1. work[w] \in WorkerTick /\ work[w].step = "plain" /\ work[w].marks = {} /\ work[w].batch = BatchOf(w)
    BY <1>1, MyFacts DEF StepOf, BatchOf, MarksOf
  <2>2. tick \in WorkerTick /\ tick.step = s /\ tick.batch = b /\ tick.marks = {}
    <3>1. CASE BatchOf(w) = {r}
      BY <2>1, <3>1 DEF WorkerTick, IdleWork
    <3>2. CASE BatchOf(w) # {r}
      BY <2>1, <3>2 DEF WorkerTick
    <3> QED
      BY <3>1, <3>2
  <2>3. work' = [work EXCEPT ![w] = tick]
    BY DEF NextPlain
  <2>4. b # {} <=> s = "plain"
    BY <1>1
  <2> HIDE DEF tick, b, s
  <2>5. work' \in [Workers -> WorkerTick] /\ work'[w] = tick /\ OthersStay(w)
    BY <2>2, <2>3, MyFacts DEF OthersStay
  <2>6. Becomes(w, s, b, {})
    BY <2>2, <2>5 DEF Becomes
  <2>7. s \in {"idle", "plain"}
    BY DEF s
  <2> QED
    BY <2>4, <2>6, <2>7 DEF MayHold
<1>3. /\ StepOf(w)' = s /\ BatchOf(w)' = b /\ MarksOf(w)' = {} /\ s \in {"idle", "plain"} /\ b \subseteq BatchOf(w)
      /\ \A v \in Workers : v # w => StepOf(v)' = StepOf(v) /\ BatchOf(v)' = BatchOf(v) /\ MarksOf(v)' = MarksOf(v)
  BY <1>2, BecomesFacts
<1> HIDE DEF s, b
<1>4. /\ \A v \in Workers : BatchOf(v)' \subseteq BatchOf(v) /\ MarksOf(v)' = MarksOf(v)
      /\ \A v \in Workers : StepOf(v)' = "deliver" <=> StepOf(v) = "deliver"
      /\ \A v \in Workers : StepOf(v) = "deliver" => BatchOf(v)' = BatchOf(v)
  BY <1>1, <1>3
<1>5. faults' \in Nat /\ faults <= faults' /\ faults' \in 0..MaxFaults
  BY MyFacts, MyBounds DEF Mishap
<1>6. /\ \A p \in rows' : p \in rows \/ (p = n /\ rows' = Marked(rows, {n}) /\ \E q \in rows : q.state # "published" /\ q.id = p.id)
      /\ \A q \in rows : \E p \in rows' : p.id = q.id
  BY MarkedFacts
<1>7. n.id = r.id /\ ~n.agg
  BY <1>1 DEF Same
<1>8. \A x \in Known : x.agg => x.id # n.id
  BY <1>1, <1>7 DEF MySQLInv, NamesInv, Same
<1>9. \A x \in Known' : x \in Known \/ (x = n /\ rows' = Marked(rows, {n}))
  <2>1. \A x \in Known' : x \in rows' \/ x \in emitting \/ \E v \in Workers : x \in BatchOf(v) \/ x \in MarksOf(v)
    BY <1>4 DEF Known
  <2> QED
    BY <1>6, <2>1, KnownFacts
<1>10. KnownKept
  <2> SUFFICES ASSUME NEW x \in Known' PROVE \E y \in Known : Same(x, y) /\ x.attempts + faults <= y.attempts + faults'
    BY DEF KnownKept
  <2>1. CASE x \in Known
    <3>1. x.attempts \in Nat
      BY <2>1, KnownFacts, RowFacts
    <3>2. Same(x, x) /\ x.attempts + faults <= x.attempts + faults'
      BY <1>5, <3>1, MyFacts DEF Same
    <3> QED
      BY <2>1, <3>2
  <2>2. CASE x \notin Known
    <3>1. x = n /\ rows' # rows
      BY <1>9, <2>2, <1>4, KnownFacts DEF Known
    <3> QED
      BY <1>1, <3>1
  <2> QED
    BY <2>1, <2>2
<1>11. DeliveredKept /\ PlainDelivered
  <2>1. DeliveredKept
    BY <1>1 DEF DeliveredKept
  <2>2. <<r.id, r.event>>[1] = r.id
    OBVIOUS
  <2> QED
    BY <1>1, <2>1, <2>2 DEF PlainDelivered
<1>12. BatchesKept /\ WorkKept
  BY <1>4 DEF BatchesKept, WorkKept
<1>13. NamesInv'
  BY <1>10, <1>11, NamesKept DEF MySQLInv
<1>14. CounterInv'
  BY <1>6, <1>10, <1>11, <1>12, CounterKept DEF MySQLInv, CounterInv
<1>15. \A p \in rows' : \E q \in rows : Same(p, q)
  <2> TAKE p \in rows'
  <2>1. CASE p \in rows
    BY <2>1 DEF Same
  <2>2. CASE p = n /\ \E q \in rows : q.state # "published" /\ q.id = p.id
    <3>1. PICK q \in rows : q.id = r.id
      BY <1>7, <2>2
    <3>2. Same(r, q)
      BY <1>1, <3>1, KnownFacts DEF MySQLInv, NamesInv
    <3> QED
      BY <2>2, <3>2 DEF Same
  <2> QED
    BY <1>6, <2>1, <2>2
<1>16. EmittingInv'
  BY <1>4, <1>11, <1>12, <1>15, EmittingKept DEF MySQLInv
<1>17. \A p \in rows' : p \in rows \/ p = n
  BY <1>6
<1>18. ParkedInv'
  <2>1. \A p \in rows' : p.state = "failed" => Spent(p)
    BY <1>17 DEF MySQLInv, ParkedInv
  <2>2. \A v \in Workers : \A m \in MarksOf(v)' : /\ m.state = "pending" => ~Spent(m)
                                                  /\ m.state = "failed" => Spent(m)
    BY <1>4 DEF MySQLInv, ParkedInv
  <2>3. \A v \in Workers : \A m \in MarksOf(v) : m.id # n.id
    BY <1>8, KnownFacts DEF MySQLInv, MarksInv
  <2>4. \A v \in Workers : \A m \in MarksOf(v)', p \in rows' :
          m.state # "published" /\ p.state # "published" /\ p.id = m.id => Near(p, m)
    BY <1>4, <1>17, <2>3 DEF MySQLInv, ParkedInv
  <2>5. \A v \in Workers : \A x \in BatchOf(v)', p \in rows' :
          x.agg /\ p.state # "published" /\ p.id = x.id => Near(x, p)
    BY <1>4, <1>8, <1>17, KnownFacts DEF MySQLInv, ParkedInv
  <2>6. \A u, v \in Workers : \A x \in BatchOf(v)', m \in MarksOf(u)' :
          x.agg /\ m.state # "published" /\ m.id = x.id => Near(x, m)
    BY <1>4 DEF MySQLInv, ParkedInv
  <2> QED
    BY <2>1, <2>2, <2>4, <2>5, <2>6 DEF ParkedInv, Near, Spent
<1>19. PendingKept
  BY <1>7, <1>17 DEF PendingKept, PendingRows, Same
<1>20. OrderInv'
  BY <1>4, <1>19, OrderKept DEF MySQLInv
<1>21. AgainInv'
  BY <1>4, <1>11, <1>19, AgainKept DEF MySQLInv
<1>22. FewInv'
  <2>1. ASSUME NEW x \in Known' PROVE x.attempts <= faults'
    <3>1. PICK y \in Known : Same(x, y) /\ x.attempts + faults <= y.attempts + faults'
      BY <1>10 DEF KnownKept
    <3>2. y.attempts <= faults /\ y.attempts \in Nat /\ x.attempts \in Nat
      BY <1>9, KnownFacts, RowFacts DEF MySQLInv, FewInv
    <3> QED
      BY <1>5, <3>1, <3>2, MyFacts
  <2>2. IsFiniteSet(rows \cup {n})
    BY FS_AddElement DEF MySQLInv, FewInv
  <2>3. IsFiniteSet(rows')
    BY <1>17, <2>2, FS_Subset
  <2> QED
    BY <1>4, <2>1, <2>3 DEF MySQLInv, FewInv
<1>23. MarksInv'
  BY <1>4, <1>12, MarksKept DEF MySQLInv
<1>24. LockedInv'
  <2>1. lock' = Pool => unreleased'
    BY DEF MySQLInv, LockedInv
  <2> QED
    BY <1>2, <2>1, LockedKept DEF MySQLInv
<1>25. MySQLTypeOK'
  <2>1. rows' \subseteq Row /\ emitting' \subseteq Row
    BY <1>17, MyFacts
  <2>2. \A p, q \in rows' : p.id = q.id => p = q
    <3>1. CASE rows' = rows
      BY <3>1, MyFacts
    <3>2. CASE rows' = Marked(rows, {n})
      <4>1. \A p \in rows' : \/ p \in rows /\ (p.state = "published" \/ n.id # p.id)
                             \/ p = n /\ \E q \in rows : q.state # "published" /\ q.id = n.id
        BY <3>2, MarkedFacts
      <4> QED
        BY <4>1, MyFacts
    <3> QED
      BY <3>1, <3>2
  <2>3. \A p \in rows', e \in emitting' : p.id # e.id
    BY <1>15 DEF MySQLInv, EmittingInv, Behind, Same
  <2>4. \A p, q \in rows' \cup emitting' : p.id = q.id => p = q
    BY <2>2, <2>3, MyFacts
  <2>5. delivered' \subseteq (1..MaxEvents) \X (1..MaxEvents)
    <3>1. r.id \in 1..MaxEvents /\ r.event \in 1..MaxEvents
      BY <1>1, RowFacts, MyBounds
    <3> QED
      BY <3>1 DEF MySQLTypeOK
  <2>6. work' \in [Workers -> WorkerTick]
    BY <1>2 DEF Becomes
  <2> QED
    BY <1>5, <2>1, <2>4, <2>5, <2>6 DEF MySQLTypeOK, WorkerTick
<1>26. ~jumped' /\ ~again'
  BY DEF MySQLInv
<1> QED
  BY <1>13, <1>14, <1>16, <1>18, <1>20, <1>21, <1>22, <1>23, <1>24, <1>25, <1>26 DEF MySQLInv

\* A delivery without aggregate touches nothing the aggregate's events rest on.
LEMMA PlainSucceeding ==
    ASSUME MySQLTypeOK, MySQLInv, NEW w \in Workers, PlainSucceeds(w)
    PROVE  MySQLTypeOK' /\ MySQLInv'
<1> DEFINE r == First(BatchOf(w))
<1> DEFINE n == [r EXCEPT !.state = "published"]
<1>1. /\ StepOf(w) = "plain" /\ Deliver(r) /\ NextPlain(w, r)
      /\ (rows' = Marked(rows, {n}) /\ UNCHANGED faults) \/ (Mishap /\ UNCHANGED rows)
      /\ UNCHANGED <<emitting, counter, lock, floor, emitted, excused, unreleased>>
  BY DEF PlainSucceeds, BatchOf, StepOf
<1>2. r \in Row /\ ~r.agg
  BY <1>1, PlainFacts
<1>3. n \in Row /\ Same(n, r) /\ n.state = "published" /\ n.attempts = r.attempts
  BY <1>2 DEF Row, Same
<1> HIDE DEF n
<1>4. delivered' = delivered \cup {<<r.id, r.event>>} /\ jumped' = jumped /\ again' = again
  <2>1. jumped \in BOOLEAN /\ again \in BOOLEAN
    BY MyFacts
  <2> QED
    BY <1>1, <1>2, <2>1 DEF Deliver
<1>5. rows' = rows \/ (rows' = Marked(rows, {n}) /\ n.attempts + faults <= r.attempts + faults')
  <2>1. r.attempts \in Nat
    BY <1>2, RowFacts
  <2> QED
    BY <1>1, <1>3, <2>1, MyFacts
<1>6. r = First(BatchOf(w))
  OBVIOUS
<1> HIDE DEF r
<1> QED
  BY <1>1, <1>3, <1>4, <1>5, <1>6, PlainStep

\* Nor does a failed one.
LEMMA PlainFailing ==
    ASSUME MySQLTypeOK, MySQLInv, NEW w \in Workers, PlainFails(w)
    PROVE  MySQLTypeOK' /\ MySQLInv'
<1> DEFINE r == First(BatchOf(w))
<1> DEFINE n == Failed(r)
<1>1. /\ StepOf(w) = "plain" /\ Mishap /\ NextPlain(w, r) /\ rows' = Marked(rows, {n})
      /\ UNCHANGED <<emitting, counter, lock, floor, emitted, delivered, excused, jumped, again, unreleased>>
  BY DEF PlainFails, BatchOf, StepOf, myHistory
<1>2. r \in Row /\ r \in Known /\ r.state = "pending"
  BY <1>1, PlainFacts
<1>3. /\ n \in Row /\ Same(n, r) /\ n.attempts = r.attempts + 1
      /\ n.state = "failed" => Spent(n)
  BY <1>1, <1>2, FailedFacts DEF Mishap
<1> HIDE DEF n
<1>4. n.attempts + faults <= r.attempts + faults'
  BY <1>1, <1>2, <1>3, RowFacts, MyFacts DEF Mishap
<1>5. r = First(BatchOf(w))
  OBVIOUS
<1> HIDE DEF r
<1> QED
  BY <1>1, <1>3, <1>4, <1>5, PlainStep

-------------------------------------------------------------------------------
(***************************************************************************)
(* The MySQL outbox: the theorems.                                         *)
(***************************************************************************)

\* The empty outbox satisfies the invariant.
LEMMA MySQLStarts == MySQLInit => MySQLTypeOK /\ MySQLInv
<1> SUFFICES ASSUME MySQLInit PROVE MySQLTypeOK /\ MySQLInv
  OBVIOUS
<1> USE DEF MySQLInit
<1>1. MySQLTypeOK
  <2>1. IdleWork \in WorkerTick
    BY DEF IdleWork, WorkerTick
  <2>2. work \in [Workers -> WorkerTick]
    BY <2>1
  <2>3. 1 \in 1..MaxEvents + 1 /\ 0 \in 0..MaxEvents /\ 0 \in 0..MaxFaults
    BY MyBounds
  <2>4. /\ rows \subseteq Row /\ emitting \subseteq Row
        /\ delivered \subseteq (1..MaxEvents) \X (1..MaxEvents) /\ excused \subseteq 1..MaxEvents
    OBVIOUS
  <2>5. \A r, s \in rows \cup emitting : r.id = s.id => r = s
    OBVIOUS
  <2>6. {jumped, again, unreleased} \subseteq BOOLEAN
    OBVIOUS
  <2> QED
    BY <2>2, <2>3, <2>4, <2>5, <2>6 DEF MySQLTypeOK, WorkerTick
<1>2. \A w \in Workers : StepOf(w) = "idle" /\ BatchOf(w) = {} /\ MarksOf(w) = {}
  BY DEF StepOf, BatchOf, MarksOf, IdleWork
<1>3. Known = {} /\ PendingRows = {}
  BY <1>2 DEF Known, PendingRows
<1>4. LockedInv /\ MarksInv
  BY <1>2, MyBounds DEF LockedInv, MarksInv
<1>5. NamesInv /\ CounterInv /\ EmittingInv
  BY <1>2, <1>3 DEF NamesInv, IdNamesOneEvent, CounterInv, EmittingInv
<1>6. ParkedInv /\ OrderInv /\ AgainInv
  BY <1>2, <1>3 DEF ParkedInv, OrderInv, AgainInv
<1>7. FewInv
  BY <1>2, <1>3, FS_EmptySet DEF FewInv
<1> QED
  BY <1>1, <1>4, <1>5, <1>6, <1>7 DEF MySQLInv

\* Every step keeps the type and the invariant.
LEMMA MySQLStep ==
    ASSUME MySQLTypeOK, MySQLInv, [MySQLNext]_myVars
    PROVE  MySQLTypeOK' /\ MySQLInv'
<1>1. ASSUME NEW agg \in BOOLEAN, EmitWith(agg) PROVE MySQLTypeOK' /\ MySQLInv'
  BY <1>1, Emitting
<1>2. ASSUME NEW r \in emitting, CommitEmit(r) \/ RollbackEmit(r) PROVE MySQLTypeOK' /\ MySQLInv'
  BY <1>2, CommittingEmit, RollbackEmitting
<1>3. ASSUME NEW r \in rows, BecomesDue(r) PROVE MySQLTypeOK' /\ MySQLInv'
  BY <1>3, BecomingDue
<1>4. ASSUME NEW w \in Workers,
             \/ tryNamedLock(w) \/ DrainAggregate(w) \/ HandlerSucceeds(w) \/ HandlerFails(w) \/ DrainFails(w)
      PROVE  MySQLTypeOK' /\ MySQLInv'
  BY <1>4, TryNamedLock, DrainingAggregate, HandlerSucceeding, HandlerFailing, DrainFailing
<1>5. ASSUME NEW w \in Workers,
             releaseNamedLock(w) \/ ReleaseFails(w) \/ CommitDrain(w) \/ RollbackDrain(w) \/ WorkerDies(w)
      PROVE  MySQLTypeOK' /\ MySQLInv'
  BY <1>5, ReleaseNamedLock, ReleaseFailing, CommittingDrain, RollbackDraining, WorkerDying
<1>6. ASSUME NEW w \in Workers, DrainUnaggregated(w) \/ PlainSucceeds(w) \/ PlainFails(w)
      PROVE  MySQLTypeOK' /\ MySQLInv'
  BY <1>6, DrainingUnaggregated, PlainSucceeding, PlainFailing
<1>7. ASSUME ReadFloor \/ Cleanup \/ ServerRestarts PROVE MySQLTypeOK' /\ MySQLInv'
  BY <1>7, ReadingFloor, CleaningUp, ServerRestarting
<1>8. CASE UNCHANGED myVars
  BY <1>8, MyStuttering
<1> QED
  BY <1>1, <1>2, <1>3, <1>4, <1>5, <1>6, <1>7, <1>8 DEF MySQLNext

\* The invariant above holds of every behaviour of the MySQL outbox: of emitters,
\* workers, retries, failures, cleanups and restarts in any order.
THEOREM MySQLInvCorrect == MySQLSpec => [](MySQLTypeOK /\ MySQLInv)
<1>1. MySQLInit => MySQLTypeOK /\ MySQLInv
  BY MySQLStarts
<1>2. (MySQLTypeOK /\ MySQLInv) /\ [MySQLNext]_myVars => (MySQLTypeOK /\ MySQLInv)'
  BY MySQLStep
<1> QED
  BY <1>1, <1>2, PTL DEF MySQLSpec

\* mysql/outbox.go, for any number of workers and events, any batch and any number of
\* attempts: an id names one event though a restarted server computes the counter
\* anew, the aggregate's events are first delivered in order, one is delivered again
\* only after a failure or an overlap, and only a failed RELEASE_LOCK leaves the lock
\* with an idle session.
THEOREM MySQLOutboxSoundCorrect == MySQLSpec => []MySQLOutboxSound
<1>1. MySQLTypeOK /\ MySQLInv => MySQLOutboxSound
  BY DEF MySQLInv, NamesInv, LockedInv, MySQLOutboxSound, NoLockLeaks
<1> QED
  BY <1>1, MySQLInvCorrect, PTL
===============================================================================
