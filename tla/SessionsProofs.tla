---------------------------- MODULE SessionsProofs ----------------------------
(***************************************************************************)
(* Proofs about the sessions on one database (MCSessions): the statement   *)
(* registry, the replicated driver, the event store and the migrators.     *)
(* The specifications share nothing; each has its own inductive invariant, *)
(* and nobody's step touches what is another's.  For any number of         *)
(* processes, statements, versions, migrations, calls and failures.        *)
(***************************************************************************)
EXTENDS MCSessions, FiniteSetTheorems, SequenceTheorems, WellFoundedInduction, TLAPS

-------------------------------------------------------------------------------
(***************************************************************************)
(* The statement registry.                                                 *)
(***************************************************************************)

\* While the registry is quiesced on behalf of somebody it admits nothing; that is
\* what makes an emptied registry stay empty and a sweep stay complete.
RefusesInv ==
    /\ \A q \in Quiescers : drain[q].clean => ~admit
    /\ swept # "none" => ~admit
    /\ cancelling.clean => ~admit

\* A call that was woken, or that found nothing in flight, has an empty registry
\* behind it until somebody resumes.
WokenInv == \A q \in Quiescers : drain[q].clean /\ (drain[q].woken \/ drain[q].call = "idle") => entries = {}

\* A cancelWhere under way on a quiesced registry still holds every entry in its
\* scope that it has not cancelled.
SweepInv ==
    cancelling.clean =>
        \A e \in entries : cancelling.scope = "all" \/ (cancelling.scope = "writes" /\ about[e].write)
                              => about[e].dead \/ e \in cancelling.victims

RegistryInv == RefusesInv /\ WokenInv /\ SweepInv /\ CancelReachesAll

\* Cancelling a set of contexts leaves every entry what it was; it is dead if it was
\* dead before, and if it is one of the set.
LEMMA CancelledFacts ==
    ASSUME RegistryTypeOK, NEW S
    PROVE  /\ Cancelled(S) \in [Slots -> Entry]
           /\ \A e \in Slots : /\ Cancelled(S)[e].write = about[e].write
                               /\ Cancelled(S)[e].dead <=> (about[e].dead \/ e \in Derived(S))
           /\ S \subseteq Derived(S)
<1>1. about \in [Slots -> Entry]
  BY DEF RegistryTypeOK
<1>2. S \subseteq Derived(S)
  BY Zenon DEF Derived
<1> HIDE DEF Derived
<1>3. \A e \in Slots : [about[e] EXCEPT !.dead = @ \/ e \in Derived(S)]
                          = [kind |-> about[e].kind, write |-> about[e].write, within |-> about[e].within,
                             dead |-> about[e].dead \/ e \in Derived(S)]
  BY <1>1 DEF Entry
<1> QED
  BY <1>1, <1>2, <1>3 DEF Cancelled, Entry

LEMMA RegistryInitInv == RegistryInit => RegistryTypeOK /\ RegistryInv
  BY SlotAssumption DEF RegistryInit, RegistryTypeOK, RegistryInv, RefusesInv, WokenInv, SweepInv,
       CancelReachesAll, Entry, Gone, Kinds, Drain, NoDrain, Scopes

\* register is let in only while nobody has quiesced the registry, so there is
\* nothing that it could disturb.
LEMMA RegisterInv ==
    ASSUME RegistryTypeOK, RegistryInv, NEW e \in Slots, NEW kind \in Kinds, NEW write \in BOOLEAN,
           NEW within \in Slots \cup {NoSlot}, register(e, kind, write, within)
    PROVE  RegistryTypeOK' /\ RegistryInv'
<1>1. admit /\ (\A q \in Quiescers : ~drain[q].clean) /\ swept = "none" /\ ~cancelling.clean
  BY DEF register, RegistryInv, RefusesInv
<1>2. /\ drain' = drain /\ swept' = swept /\ cancelling' = cancelling /\ admit' = admit
      /\ entries' = entries \cup {e}
  BY DEF register
<1>3. about' \in [Slots -> Entry]
  <2>1. about \in [Slots -> Entry]
    BY DEF RegistryTypeOK
  <2>2. (within # NoSlot /\ about[within].dead) \in BOOLEAN /\ (write \/ kind = "tx") \in BOOLEAN
    BY <2>1 DEF Entry
  <2>3. [kind |-> kind, write |-> write \/ kind = "tx", within |-> within,
         dead |-> within # NoSlot /\ about[within].dead] \in Entry
    BY <2>2 DEF Entry
  <2> QED
    BY <2>1, <2>3 DEF register
<1>4. RegistryTypeOK'
  BY <1>2, <1>3 DEF RegistryTypeOK
<1>5. RegistryInv'
  BY <1>1, <1>2 DEF RegistryInv, RefusesInv, WokenInv, SweepInv, CancelReachesAll
<1> QED
  BY <1>4, <1>5

\* Whatever leaves takes itself off the sweep; the rest only get more dead.
LEMMA DeregisterInv ==
    ASSUME RegistryTypeOK, RegistryInv, NEW e \in Slots, deregister(e)
    PROVE  RegistryTypeOK' /\ RegistryInv'
<1>1. /\ entries' = entries \ {e} /\ admit' = admit /\ swept' = swept
      /\ cancelling' = [cancelling EXCEPT !.victims = @ \ {e}]
  BY DEF deregister
<1>2. /\ cancelling \in [scope : Scopes, victims : SUBSET entries, clean : BOOLEAN]
      /\ cancelling'.scope = cancelling.scope /\ cancelling'.clean = cancelling.clean
      /\ cancelling'.victims = cancelling.victims \ {e}
      /\ cancelling' \in [scope : Scopes, victims : SUBSET entries', clean : BOOLEAN]
  BY <1>1 DEF RegistryTypeOK
<1>3. /\ about' \in [Slots -> Entry]
      /\ \A x \in Slots \ {e} : about'[x].write = about[x].write /\ (about[x].dead => about'[x].dead)
  <2> DEFINE C == Cancelled({e})
  <2>1. C \in [Slots -> Entry] /\ \A x \in Slots : C[x].write = about[x].write /\ (about[x].dead => C[x].dead)
    BY CancelledFacts
  <2>2. about' = [x \in Slots |-> IF x = e THEN Gone
                                  ELSE [C[x] EXCEPT !.within = IF @ = e THEN NoSlot ELSE @]]
    BY DEF deregister
  <2> HIDE DEF C
  <2>3. Gone \in Entry
    BY DEF Gone, Entry, Kinds
  <2>4. \A x \in Slots : [C[x] EXCEPT !.within = IF @ = e THEN NoSlot ELSE @]
                            = [kind |-> C[x].kind, write |-> C[x].write,
                               within |-> IF C[x].within = e THEN NoSlot ELSE C[x].within, dead |-> C[x].dead]
    BY <2>1 DEF Entry
  <2> QED
    BY <2>1, <2>2, <2>3, <2>4 DEF Entry
<1>4. /\ drain \in [Quiescers -> Drain] /\ drain' \in [Quiescers -> Drain]
      /\ \A q \in Quiescers : /\ drain'[q].call = drain[q].call /\ drain'[q].clean = drain[q].clean
                              /\ drain'[q].woken => drain[q].woken \/ entries' = {}
  <2>1. drain \in [Quiescers -> Drain]
    BY DEF RegistryTypeOK
  <2>2. CASE entries' = {}
    <3>1. drain' = [q \in Quiescers |-> [drain[q] EXCEPT !.woken = @ \/ drain[q].call = "waiting"]]
      BY <2>2 DEF deregister, Wakes
    <3> QED
      BY <2>1, <2>2, <3>1 DEF Drain
  <2>3. CASE entries' # {}
    BY <2>1, <2>3 DEF deregister, Wakes
  <2> QED
    BY <2>2, <2>3
<1>5. RegistryTypeOK'
  BY <1>1, <1>2, <1>3, <1>4 DEF RegistryTypeOK
<1>6. entries \subseteq Slots
  BY DEF RegistryTypeOK
<1>7. RefusesInv'
  BY <1>1, <1>2, <1>4 DEF RegistryInv, RefusesInv
<1>8. WokenInv'
  BY <1>1, <1>4 DEF RegistryInv, WokenInv
<1>9. SweepInv'
  BY <1>1, <1>2, <1>3, <1>6 DEF RegistryInv, SweepInv
<1>10. CancelReachesAll'
  BY <1>1, <1>3, <1>6 DEF RegistryInv, CancelReachesAll
<1> QED
  BY <1>5, <1>7, <1>8, <1>9, <1>10 DEF RegistryInv

\* The calls of Quiesce and Resume.
LEMMA DrainInv ==
    ASSUME RegistryTypeOK, RegistryInv,
           \/ \E q \in Quiescers : Quiesce(q) \/ QuiesceReturns(q) \/ QuiesceGivesUp(q)
           \/ Resume
    PROVE  RegistryTypeOK' /\ RegistryInv'
<1>1. /\ drain \in [Quiescers -> Drain] /\ entries' = entries /\ about' = about
      /\ cancelling \in [scope : Scopes, victims : SUBSET entries, clean : BOOLEAN]
  BY DEF RegistryTypeOK, Quiesce, QuiesceReturns, QuiesceGivesUp, Resume
<1>2. ASSUME NEW q \in Quiescers, Quiesce(q)
      PROVE  RegistryTypeOK' /\ RegistryInv'
  <2>1. /\ admit' = FALSE /\ cancelling' = cancelling /\ swept' = swept
        /\ drain' = [drain EXCEPT ![q] = [call |-> IF entries = {} THEN "idle" ELSE "waiting",
                                          woken |-> FALSE, clean |-> TRUE]]
    BY <1>2 DEF Quiesce
  <2>2. drain' \in [Quiescers -> Drain]
    BY <1>1, <2>1 DEF Drain
  <2>3. WokenInv'
    BY <1>1, <2>1 DEF RegistryInv, WokenInv
  <2> QED
    BY <1>1, <2>1, <2>2, <2>3 DEF RegistryTypeOK, RegistryInv, RefusesInv, SweepInv, CancelReachesAll
<1>3. ASSUME NEW q \in Quiescers, QuiesceReturns(q) \/ QuiesceGivesUp(q)
      PROVE  RegistryTypeOK' /\ RegistryInv'
  <2>1. /\ admit' = admit /\ cancelling' = cancelling /\ swept' = swept
        /\ \E c \in {"idle", "ctx"} : /\ drain' = [drain EXCEPT ![q].call = c]
                                      /\ c = "idle" => drain[q].woken
    BY <1>3 DEF QuiesceReturns, QuiesceGivesUp
  <2>2. /\ drain' \in [Quiescers -> Drain]
        /\ \A p \in Quiescers : /\ drain'[p].clean = drain[p].clean /\ drain'[p].woken = drain[p].woken
                                /\ drain'[p].call = "idle" => drain[p].call = "idle" \/ drain[p].woken
    BY <1>1, <2>1 DEF Drain
  <2> QED
    BY <1>1, <2>1, <2>2 DEF RegistryTypeOK, RegistryInv, RefusesInv, WokenInv, SweepInv, CancelReachesAll
<1>4. ASSUME Resume
      PROVE  RegistryTypeOK' /\ RegistryInv'
  <2>1. /\ admit' = TRUE /\ swept' = "none"
        /\ cancelling' = [cancelling EXCEPT !.clean = FALSE]
        /\ drain' = [q \in Quiescers |-> IF drain[q].call = "waiting" THEN [drain[q] EXCEPT !.clean = FALSE]
                                                                     ELSE NoDrain]
    BY <1>4 DEF Resume
  <2>2. drain' \in [Quiescers -> Drain] /\ \A q \in Quiescers : ~drain'[q].clean
    BY <1>1, <2>1 DEF Drain, NoDrain
  <2>3. cancelling' \in [scope : Scopes, victims : SUBSET entries, clean : BOOLEAN] /\ ~cancelling'.clean
    BY <1>1, <2>1
  <2> QED
    BY <1>1, <2>1, <2>2, <2>3
       DEF RegistryTypeOK, RegistryInv, RefusesInv, WokenInv, SweepInv, CancelReachesAll, Scopes
<1> QED
  BY <1>2, <1>3, <1>4

\* cancelWhere, its three parts.
LEMMA SweepStepInv ==
    ASSUME RegistryTypeOK, RegistryInv,
           \/ \E scope \in {"all", "writes"} : CancelWhere(scope)
           \/ \E e \in Slots : CancelOne(e)
           \/ CancelDone
    PROVE  RegistryTypeOK' /\ RegistryInv'
<1>1. /\ entries \subseteq Slots /\ admit \in BOOLEAN
      /\ cancelling \in [scope : Scopes, victims : SUBSET entries, clean : BOOLEAN]
      /\ entries' = entries /\ admit' = admit /\ drain' = drain
  BY DEF RegistryTypeOK, CancelWhere, CancelOne, CancelDone
<1>2. ASSUME NEW scope \in {"all", "writes"}, CancelWhere(scope)
      PROVE  RegistryTypeOK' /\ RegistryInv'
  <2>1. /\ about' = about /\ swept' = swept
        /\ cancelling' = [scope |-> scope, victims |-> {e \in entries : scope = "all" \/ about[e].write},
                          clean |-> ~admit]
    BY <1>2 DEF CancelWhere, Picked
  <2> QED
    BY <1>1, <2>1 DEF RegistryTypeOK, RegistryInv, RefusesInv, WokenInv, SweepInv, CancelReachesAll, Scopes
<1>3. ASSUME NEW e \in Slots, CancelOne(e)
      PROVE  RegistryTypeOK' /\ RegistryInv'
  <2>1. /\ swept' = swept /\ about' = Cancelled({e})
        /\ cancelling' = [cancelling EXCEPT !.victims = @ \ {e}]
    BY <1>3 DEF CancelOne
  <2>2. /\ cancelling' \in [scope : Scopes, victims : SUBSET entries, clean : BOOLEAN]
        /\ cancelling'.scope = cancelling.scope /\ cancelling'.clean = cancelling.clean
        /\ cancelling'.victims = cancelling.victims \ {e}
    BY <1>1, <2>1
  <2>3. /\ about' \in [Slots -> Entry] /\ about'[e].dead
        /\ \A x \in Slots : about'[x].write = about[x].write /\ (about[x].dead => about'[x].dead)
    BY <2>1, CancelledFacts
  <2>4. SweepInv'
    BY <1>1, <2>2, <2>3 DEF RegistryInv, SweepInv
  <2>5. CancelReachesAll'
    BY <1>1, <2>1, <2>3 DEF RegistryInv, CancelReachesAll
  <2> QED
    BY <1>1, <2>1, <2>2, <2>3, <2>4, <2>5 DEF RegistryTypeOK, RegistryInv, RefusesInv, WokenInv
<1>4. ASSUME CancelDone
      PROVE  RegistryTypeOK' /\ RegistryInv'
  <2>1. /\ cancelling.victims = {} /\ about' = about
        /\ swept' = IF cancelling.clean THEN cancelling.scope ELSE swept
        /\ cancelling' = [scope |-> "none", victims |-> {}, clean |-> FALSE]
    BY <1>4 DEF CancelDone
  <2> QED
    BY <1>1, <2>1 DEF RegistryTypeOK, RegistryInv, RefusesInv, WokenInv, SweepInv, CancelReachesAll, Scopes
<1> QED
  BY <1>2, <1>3, <1>4

\* Every step of the registry keeps it.
LEMMA RegistryStepInv ==
    ASSUME RegistryTypeOK, RegistryInv, [RegistryNext]_registryVars
    PROVE  (RegistryTypeOK /\ RegistryInv)'
<1>1. ASSUME NEW e \in Slots, StartExec(e) \/ StartQuery(e) \/ StartTx(e)
      PROVE  (RegistryTypeOK /\ RegistryInv)'
  <2>1. Transactions \subseteq Slots
    BY DEF Transactions, RegistryTypeOK
  <2>2. PICK kind \in Kinds, write \in BOOLEAN, within \in Slots \cup {NoSlot} : register(e, kind, write, within)
    BY <1>1, <2>1, Zenon DEF StartExec, StartQuery, StartTx, Kinds
  <2> QED
    BY <2>2, RegisterInv
<1>2. ASSUME NEW e \in Slots, Ends(e)
      PROVE  (RegistryTypeOK /\ RegistryInv)'
  BY <1>2, DeregisterInv DEF Ends
<1>3. CASE \/ \E q \in Quiescers : Quiesce(q) \/ QuiesceReturns(q) \/ QuiesceGivesUp(q)
           \/ Resume
  BY <1>3, DrainInv
<1>4. CASE \/ \E scope \in {"all", "writes"} : CancelWhere(scope)
           \/ \E e \in Slots : CancelOne(e)
           \/ CancelDone
  BY <1>4, SweepStepInv
<1>5. CASE UNCHANGED registryVars
  BY <1>5 DEF registryVars, RegistryTypeOK, RegistryInv, RefusesInv, WokenInv, SweepInv, CancelReachesAll
<1> QED
  BY <1>1, <1>2, <1>3, <1>4, <1>5, Zenon DEF RegistryNext

\* The registry's invariant, for any number of entries and of Quiesce calls.
THEOREM RegistryInvCorrect == RegistrySpec => [](RegistryTypeOK /\ RegistryInv)
<1>1. RegistryTypeOK /\ RegistryInv /\ [RegistryNext]_registryVars => (RegistryTypeOK /\ RegistryInv)'
  BY RegistryStepInv
<1> QED
  BY RegistryInitInv, <1>1, PTL DEF RegistrySpec

\* A nil from Quiesce means that nothing is in flight and a finished cancel that
\* nothing in its scope runs uncancelled, until somebody resumes: pg/statements.go,
\* Quiesce, deregister and cancelWhere.
THEOREM RegistryDrainsCorrect == RegistrySpec => []RegistryDrains
<1>1. RegistryInv => RegistryDrains
  BY DEF RegistryInv, WokenInv, RegistryDrains, QuiescedMeansIdle
<1> QED
  BY <1>1, RegistryInvCorrect, PTL

-------------------------------------------------------------------------------
(***************************************************************************)
(* The replicated driver.                                                  *)
(***************************************************************************)

\* No position is ahead of the primary's, and no sample ahead of its replica.
PositionsInv ==
    /\ done <= wal /\ writeLSN <= wal
    /\ \A r \in Replicas : replay[r] <= wal /\ sample[r].lsn <= replay[r]
    /\ \A g \in Goroutines : stmt[g].mine <= wal /\ stmt[g].lsn <= wal /\ stmt[g].need <= wal

\* A write that commits after it was marked is a gap; any other captures a
\* position that covers its own commit.
WritesInv ==
    \A g \in Goroutines :
        /\ stmt[g].step = "rows" => gaps # {}
        /\ stmt[g].step \in {"mark", "capture", "save"} /\ stmt[g].mine = 0 => gaps # {}
        /\ stmt[g].step = "save" => stmt[g].mine <= stmt[g].lsn

\* Without a gap the required position covers the commits whose statements have
\* returned, and so does any position about to be stored over it.
CoveredInv ==
    gaps = {} =>
        /\ writeLSN # 0 => done <= writeLSN
        /\ \A g \in Goroutines : stmt[g].step = "save" => done <= stmt[g].lsn \/ stmt[g].lsn < writeLSN

\* A read inside the window stands at a node that has replayed what it must see.
RoutedInv ==
    gaps = {} =>
        \A g \in Goroutines : stmt[g].step = "read" /\ stmt[g].sticky => stmt[g].need <= Position(stmt[g].at)

ReplicatedInv == PositionsInv /\ WritesInv /\ CoveredInv /\ RoutedInv /\ ReadsOwnWrites

\* What the proofs use of the type invariant.
LEMMA ReplicatedFacts ==
    ASSUME ReplicatedTypeOK
    PROVE  /\ MaxWAL \in Nat /\ MaxOps \in Nat
           /\ wal \in Nat /\ wal <= MaxWAL /\ done \in Nat /\ writeLSN \in Nat
           /\ stmt \in [Goroutines -> Stmt] /\ NoStmt \in Stmt
           /\ replay \in [Replicas -> Nat]
           /\ \A r \in Replicas : sample[r].lsn \in Nat
           /\ \A g \in Goroutines : /\ stmt[g].mine \in Nat /\ stmt[g].lsn \in Nat /\ stmt[g].need \in Nat
                                    /\ stmt[g].at \in Nodes
           /\ Primary \notin Replicas
<1>1. MaxWAL \in Nat /\ MaxOps \in Nat /\ Primary \notin Replicas
  BY ReplicaAssumption
<1>2. 0 \in 0..MaxWAL /\ 0..MaxWAL \subseteq Nat
  BY <1>1
<1>3. NoStmt \in Stmt
  BY <1>2 DEF NoStmt, Stmt, Nodes
<1> QED
  BY <1>1, <1>2, <1>3 DEF ReplicatedTypeOK, Stmt

LEMMA ReplicatedInitInv == ReplicatedInit => ReplicatedTypeOK /\ ReplicatedInv
<1> SUFFICES ASSUME ReplicatedInit PROVE ReplicatedTypeOK /\ ReplicatedInv
  OBVIOUS
<1>1. 0 \in 0..MaxWAL /\ 0 \in 0..MaxOps
  BY ReplicaAssumption
<1>2. ReplicatedTypeOK
  BY <1>1 DEF ReplicatedInit, ReplicatedTypeOK, Stmt, NoStmt, Nodes
<1>3. ReplicatedInv
  BY DEF ReplicatedInit, ReplicatedInv, PositionsInv, WritesInv, CoveredInv, RoutedInv, ReadsOwnWrites, NoStmt
<1> QED
  BY <1>2, <1>3

\* One goroutine's statement becomes s, while the cluster stands still and the primary
\* does not go back: what is left to show of the positions, the writes and the routes is about s.
LEMMA StmtStep ==
    ASSUME ReplicatedTypeOK, ReplicatedInv, NEW g \in Goroutines, NEW s \in Stmt,
           stmt' = [stmt EXCEPT ![g] = s], UNCHANGED cluster,
           wal' \in 0..MaxWAL, wal <= wal', done' <= wal', writeLSN' <= wal', gaps \subseteq gaps',
           s.mine <= wal', s.lsn <= wal', s.need <= wal',
           s.step # "read", s.step = "rows" => gaps' # {},
           s.step \in {"mark", "capture", "save"} /\ s.mine = 0 => gaps' # {},
           s.step = "save" => s.mine <= s.lsn
    PROVE  /\ stmt' \in [Goroutines -> Stmt] /\ stmt'[g] = s
           /\ \A h \in Goroutines : h # g => stmt'[h] = stmt[h]
           /\ PositionsInv' /\ WritesInv' /\ RoutedInv'
<1>1. /\ stmt' \in [Goroutines -> Stmt] /\ stmt'[g] = s
      /\ \A h \in Goroutines : h # g => stmt'[h] = stmt[h]
  BY DEF ReplicatedTypeOK
<1>2. replay' = replay /\ sample' = sample /\ wal' \in Nat
  BY ReplicatedFacts DEF cluster
<1>3. PositionsInv'
  <2>1. \A r \in Replicas : replay'[r] <= wal' /\ sample'[r].lsn <= replay'[r]
    BY <1>2, ReplicatedFacts DEF ReplicatedInv, PositionsInv
  <2>2. \A h \in Goroutines : stmt'[h].mine <= wal' /\ stmt'[h].lsn <= wal' /\ stmt'[h].need <= wal'
    <3> TAKE h \in Goroutines
    <3>1. CASE h = g
      BY <1>1, <3>1
    <3>2. CASE h # g
      <4>1. stmt[h].mine <= wal /\ stmt[h].lsn <= wal /\ stmt[h].need <= wal
        BY DEF ReplicatedInv, PositionsInv
      <4> QED
        BY <1>1, <1>2, <3>2, <4>1, ReplicatedFacts
    <3> QED
      BY <3>1, <3>2
  <2> QED
    BY <2>1, <2>2 DEF PositionsInv
<1>4. WritesInv'
  BY <1>1 DEF ReplicatedInv, WritesInv
<1>5. RoutedInv'
  <2> SUFFICES ASSUME gaps' = {}, NEW h \in Goroutines, stmt'[h].step = "read", stmt'[h].sticky
               PROVE  stmt'[h].need <= IF stmt'[h].at = Primary THEN wal' ELSE replay'[stmt'[h].at]
    BY DEF RoutedInv, Position
  <2>1. h # g /\ stmt'[h] = stmt[h] /\ gaps = {}
    BY <1>1
  <2>2. stmt[h].need <= IF stmt[h].at = Primary THEN wal ELSE replay[stmt[h].at]
    BY <2>1 DEF ReplicatedInv, RoutedInv, Position
  <2>3. stmt[h].need \in Nat /\ wal \in Nat /\ wal' \in Nat
    BY <1>2, ReplicatedFacts
  <2> QED
    BY <1>2, <2>1, <2>2, <2>3
<1> QED
  BY <1>1, <1>3, <1>4, <1>5

\* A commit moves the primary one position on.
LEMMA CommitBound ==
    ASSUME ReplicatedTypeOK, wal < MaxWAL
    PROVE  wal + 1 \in 0..MaxWAL /\ wal + 1 # 0 /\ wal <= wal + 1
  BY ReplicatedFacts

LEMMA BeginsBound ==
    ASSUME ReplicatedTypeOK, NEW g, Begins(g)
    PROVE  ops' \in 0..MaxOps /\ stmt[g].step = "idle"
<1>1. ops \in 0..MaxOps /\ MaxOps \in Nat
  BY ReplicatedFacts DEF ReplicatedTypeOK
<1> QED
  BY <1>1 DEF Begins

\* Exec, and a read that a replica refused: the write has committed and is yet to
\* be marked.
LEMMA MarkedNextInv ==
    ASSUME ReplicatedTypeOK, ReplicatedInv, NEW g \in Goroutines, wal < MaxWAL, ops' \in 0..MaxOps,
           wal' = wal + 1,
           stmt' = [stmt EXCEPT ![g] = [NoStmt EXCEPT !.step = "mark", !.mine = wal + 1]],
           UNCHANGED <<cluster, window, writeLSN, done, gaps, missed>>
    PROVE  ReplicatedTypeOK' /\ ReplicatedInv'
<1>1. wal + 1 \in 0..MaxWAL /\ wal + 1 # 0 /\ wal <= wal + 1
  BY CommitBound
<1>2. PICK s : /\ s = [NoStmt EXCEPT !.step = "mark", !.mine = wal + 1] /\ s \in Stmt
               /\ s.step = "mark" /\ s.mine = wal + 1 /\ s.lsn = 0 /\ s.need = 0
  <2> DEFINE s == [NoStmt EXCEPT !.step = "mark", !.mine = wal + 1]
  <2>1. s.step = "mark" /\ s.mine = wal + 1 /\ s.lsn = 0 /\ s.need = 0
    BY DEF NoStmt
  <2>2. s \in Stmt
    BY <1>1, ReplicatedFacts DEF Stmt
  <2> QED
    BY <2>1, <2>2, Zenon
<1>3. /\ wal' \in 0..MaxWAL /\ wal <= wal' /\ done' <= wal' /\ writeLSN' <= wal' /\ gaps \subseteq gaps'
      /\ s.mine <= wal' /\ s.lsn <= wal' /\ s.need <= wal' /\ s.mine # 0
  BY <1>1, <1>2, ReplicatedFacts DEF ReplicatedInv, PositionsInv
<1>4. /\ stmt' \in [Goroutines -> Stmt] /\ stmt'[g] = s
      /\ \A h \in Goroutines : h # g => stmt'[h] = stmt[h]
      /\ PositionsInv' /\ WritesInv' /\ RoutedInv'
  BY <1>2, <1>3, StmtStep
<1>5. ReplicatedTypeOK'
  BY <1>3, <1>4 DEF ReplicatedTypeOK, cluster
<1>6. CoveredInv'
  BY <1>2, <1>4 DEF ReplicatedInv, CoveredInv
<1> QED
  BY <1>4, <1>5, <1>6 DEF ReplicatedInv, ReadsOwnWrites

\* A write escapes: whatever it does to the window and the required position, there is
\* a gap from here on, and nothing is promised.
LEMMA GapInv ==
    ASSUME ReplicatedTypeOK, NEW kind \in Gaps, Gap(kind)
    PROVE  gaps' \subseteq Gaps /\ gaps' # {} /\ gaps \subseteq gaps'
  BY DEF Gap, ReplicatedTypeOK

\* The same for a step that changes no statement.
LEMMA NoStmtStep ==
    ASSUME ReplicatedTypeOK, ReplicatedInv, UNCHANGED <<cluster, stmt>>,
           wal' \in 0..MaxWAL, wal <= wal', done' <= wal', writeLSN' <= wal', gaps \subseteq gaps'
    PROVE  PositionsInv' /\ WritesInv' /\ RoutedInv'
<1>1. replay' = replay /\ sample' = sample /\ stmt' = stmt /\ wal' \in Nat
  BY ReplicatedFacts DEF cluster
<1>2. PositionsInv'
  <2>1. \A g \in Goroutines : stmt[g].mine <= wal' /\ stmt[g].lsn <= wal' /\ stmt[g].need <= wal'
    BY <1>1, ReplicatedFacts DEF ReplicatedInv, PositionsInv
  <2>2. \A r \in Replicas : replay[r] <= wal' /\ sample[r].lsn <= replay[r]
    BY <1>1, ReplicatedFacts DEF ReplicatedInv, PositionsInv
  <2> QED
    BY <1>1, <2>1, <2>2 DEF PositionsInv
<1>3. WritesInv'
  BY <1>1 DEF ReplicatedInv, WritesInv
<1>4. RoutedInv'
  <2> SUFFICES ASSUME gaps' = {}, NEW h \in Goroutines, stmt[h].step = "read", stmt[h].sticky
               PROVE  stmt[h].need <= IF stmt[h].at = Primary THEN wal' ELSE replay[stmt[h].at]
    BY <1>1 DEF RoutedInv, Position
  <2>1. stmt[h].need <= IF stmt[h].at = Primary THEN wal ELSE replay[stmt[h].at]
    BY DEF ReplicatedInv, RoutedInv, Position
  <2> QED
    BY <1>1, <2>1, ReplicatedFacts
<1> QED
  BY <1>2, <1>3, <1>4

\* A RETURNING statement, and the commit of its rows.
LEMMA ReturningInv ==
    ASSUME ReplicatedTypeOK, ReplicatedInv, NEW g \in Goroutines, QueryReturning(g) \/ CloseRows(g)
    PROVE  ReplicatedTypeOK' /\ ReplicatedInv'
<1>1. PICK s : /\ s \in Stmt /\ stmt' = [stmt EXCEPT ![g] = s]
               /\ s.step \in {"idle", "mark"} /\ s.mine = 0 /\ s.lsn = 0 /\ s.need = 0
  <2>1. CASE QueryReturning(g)
    <3> DEFINE s == [NoStmt EXCEPT !.step = "mark"]
    <3>1. s.step = "mark" /\ s.mine = 0 /\ s.lsn = 0 /\ s.need = 0
      BY DEF NoStmt
    <3>2. s \in Stmt
      BY ReplicatedFacts DEF Stmt
    <3> QED
      BY <2>1, <3>1, <3>2, Zenon DEF QueryReturning
  <2>2. CASE CloseRows(g)
    <3>1. NoStmt.step = "idle" /\ NoStmt.mine = 0 /\ NoStmt.lsn = 0 /\ NoStmt.need = 0
      BY DEF NoStmt
    <3>2. NoStmt \in Stmt /\ stmt' = [stmt EXCEPT ![g] = NoStmt]
      BY <2>2, ReplicatedFacts DEF CloseRows
    <3> QED
      BY <3>1, <3>2
  <2> QED
    BY <2>1, <2>2
<1>2. /\ gaps' \subseteq Gaps /\ gaps' # {} /\ gaps \subseteq gaps'
      /\ ops' \in 0..MaxOps /\ done' \in 0..MaxWAL
      /\ wal' \in 0..MaxWAL /\ wal <= wal' /\ done' <= wal'
      /\ UNCHANGED <<cluster, window, writeLSN, missed>>
  <2>1. CASE QueryReturning(g)
    <3>1. gaps' \subseteq Gaps /\ gaps' # {} /\ gaps \subseteq gaps'
      BY <2>1, GapInv DEF QueryReturning, Gaps
    <3>2. ops' \in 0..MaxOps
      BY <2>1, BeginsBound DEF QueryReturning
    <3>3. UNCHANGED <<wal, cluster, window, writeLSN, done, missed>>
      BY <2>1 DEF QueryReturning
    <3>4. done \in 0..MaxWAL /\ wal \in 0..MaxWAL /\ done <= wal /\ wal <= wal
      BY ReplicatedFacts DEF ReplicatedInv, PositionsInv, ReplicatedTypeOK
    <3> QED
      BY <3>1, <3>2, <3>3, <3>4
  <2>2. CASE CloseRows(g)
    BY <2>2, CommitBound, ReplicatedFacts DEF CloseRows, ReplicatedInv, WritesInv, ReplicatedTypeOK
  <2> QED
    BY <2>1, <2>2
<1>3. s.mine <= wal' /\ s.lsn <= wal' /\ s.need <= wal' /\ writeLSN' <= wal'
  BY <1>1, <1>2, ReplicatedFacts DEF ReplicatedInv, PositionsInv
<1>4. stmt' \in [Goroutines -> Stmt] /\ PositionsInv' /\ WritesInv' /\ RoutedInv'
  BY <1>1, <1>2, <1>3, StmtStep
<1>5. ReplicatedTypeOK'
  BY <1>2, <1>4 DEF ReplicatedTypeOK, cluster
<1> QED
  BY <1>2, <1>4, <1>5 DEF ReplicatedInv, CoveredInv, ReadsOwnWrites

\* mark, and the position read for captureWriteLSN: it covers everything the session
\* has committed so far.
LEMMA CaptureInv ==
    ASSUME ReplicatedTypeOK, ReplicatedInv, NEW g \in Goroutines, Mark(g) \/ Capture(g)
    PROVE  ReplicatedTypeOK' /\ ReplicatedInv'
<1>1. /\ UNCHANGED <<wal, cluster, writeLSN, ops, done, gaps, missed>>
      /\ window' \in {"none", "delay", "sticky", "over"}
      /\ stmt[g].step \in {"mark", "capture"}
  BY DEF Mark, Capture, ReplicatedTypeOK
<1>2. PICK s : /\ s \in Stmt /\ stmt' = [stmt EXCEPT ![g] = s]
               /\ s.mine = stmt[g].mine /\ s.need = stmt[g].need
               /\ \/ s.step = "capture" /\ s.lsn = stmt[g].lsn
                  \/ s.step = "save" /\ s.lsn = wal
  <2>1. stmt[g] \in Stmt
    BY ReplicatedFacts
  <2>2. CASE Mark(g)
    <3> DEFINE s == [stmt[g] EXCEPT !.step = "capture"]
    <3>1. s \in Stmt /\ s.step = "capture" /\ s.mine = stmt[g].mine /\ s.need = stmt[g].need /\ s.lsn = stmt[g].lsn
      BY <2>1 DEF Stmt
    <3> QED
      BY <2>2, <3>1, Zenon DEF Mark
  <2>3. CASE Capture(g)
    <3> DEFINE s == [stmt[g] EXCEPT !.step = "save", !.lsn = wal]
    <3>1. s \in Stmt /\ s.step = "save" /\ s.mine = stmt[g].mine /\ s.need = stmt[g].need /\ s.lsn = wal
      <4>1. wal \in 0..MaxWAL
        BY DEF ReplicatedTypeOK
      <4> QED
        BY <2>1, <4>1 DEF Stmt
    <3>2. stmt' = [stmt EXCEPT ![g] = s]
      BY <2>3, ReplicatedFacts DEF Capture
    <3> QED
      BY <3>1, <3>2, Zenon
  <2> QED
    BY <2>2, <2>3
<1>3. /\ s.mine <= wal' /\ s.lsn <= wal' /\ s.need <= wal' /\ (s.step = "save" => s.mine <= s.lsn)
      /\ done' <= wal' /\ writeLSN' <= wal' /\ wal' \in 0..MaxWAL /\ wal <= wal' /\ gaps \subseteq gaps'
      /\ s.mine = 0 => gaps' # {}
  BY <1>1, <1>2, ReplicatedFacts DEF ReplicatedInv, PositionsInv, WritesInv, ReplicatedTypeOK
<1>4. /\ stmt' \in [Goroutines -> Stmt] /\ stmt'[g] = s
      /\ \A h \in Goroutines : h # g => stmt'[h] = stmt[h]
      /\ PositionsInv' /\ WritesInv' /\ RoutedInv'
  BY <1>1, <1>2, <1>3, StmtStep
<1>5. ReplicatedTypeOK'
  BY <1>1, <1>4 DEF ReplicatedTypeOK, cluster
<1>6. CoveredInv'
  BY <1>1, <1>2, <1>4 DEF ReplicatedInv, CoveredInv, PositionsInv
<1> QED
  BY <1>1, <1>4, <1>5, <1>6 DEF ReplicatedInv, ReadsOwnWrites

\* A statement that is over, or waits for its rows to be closed.
LEMMA AfterFacts ==
    ASSUME ReplicatedTypeOK, ReplicatedInv, NEW g \in Goroutines, After(g), stmt[g].step \in {"capture", "save"}
    PROVE  /\ \E s : /\ s \in Stmt /\ stmt' = [stmt EXCEPT ![g] = s]
                     /\ s.step \in {"idle", "rows"} /\ s.mine = 0 /\ s.lsn = 0 /\ s.need = 0
                     /\ s.step = "rows" => gaps # {}
           /\ done' = Larger(done, stmt[g].mine)
<1>1. CASE stmt[g].mine = 0
  <2> DEFINE s == [NoStmt EXCEPT !.step = "rows"]
  <2>1. s.step = "rows" /\ s.mine = 0 /\ s.lsn = 0 /\ s.need = 0
    BY DEF NoStmt
  <2>2. s \in Stmt
    BY ReplicatedFacts DEF Stmt
  <2>3. stmt' = [stmt EXCEPT ![g] = s] /\ done' = done
    BY <1>1 DEF After
  <2>4. done' = Larger(done, stmt[g].mine)
    BY <1>1, <2>3, ReplicatedFacts DEF Larger
  <2>5. gaps # {}
    BY <1>1 DEF ReplicatedInv, WritesInv
  <2> HIDE DEF s
  <2> QED
    BY <2>1, <2>2, <2>3, <2>4, <2>5
<1>2. CASE stmt[g].mine # 0
  BY <1>2, ReplicatedFacts DEF After, Returned, NoStmt
<1> QED
  BY <1>1, <1>2

\* The position is stored, or could not be read.  A store that would take the
\* required position back is a gap, and so is a failed read that leaves one behind;
\* any other store covers the statement's own commit and all before it.
LEMMA SavedInv ==
    ASSUME ReplicatedTypeOK, ReplicatedInv, NEW g \in Goroutines, SaveLSN(g) \/ CaptureFails(g)
    PROVE  ReplicatedTypeOK' /\ ReplicatedInv'
<1>1. /\ UNCHANGED <<wal, cluster, window, ops, missed>> /\ After(g)
      /\ stmt[g].step \in {"capture", "save"}
      /\ stmt[g].step = "save" => stmt[g].mine <= stmt[g].lsn
  BY DEF SaveLSN, CaptureFails, ReplicatedInv, WritesInv
<1>2. PICK s : /\ s \in Stmt /\ stmt' = [stmt EXCEPT ![g] = s]
               /\ s.step \in {"idle", "rows"} /\ s.mine = 0 /\ s.lsn = 0 /\ s.need = 0
               /\ s.step = "rows" => gaps # {}
  BY <1>1, AfterFacts
<1>3. /\ gaps \subseteq gaps' /\ gaps' \subseteq Gaps
      /\ \/ gaps' # {}
         \/ gaps' = gaps /\ writeLSN' = stmt[g].lsn /\ stmt[g].step = "save" /\ ~(stmt[g].lsn < writeLSN)
         \/ /\ gaps' = gaps /\ writeLSN' = writeLSN /\ writeLSN = 0
            /\ \A h \in Goroutines : stmt[h].step # "save"
  <2>1. CASE SaveLSN(g)
    <3>1. CASE stmt[g].lsn < writeLSN
      BY <2>1, <3>1, GapInv DEF SaveLSN, Gaps
    <3>2. CASE ~(stmt[g].lsn < writeLSN)
      BY <2>1, <3>2 DEF SaveLSN, ReplicatedTypeOK
    <3> QED
      BY <3>1, <3>2
  <2>2. CASE CaptureFails(g)
    <3>1. CASE writeLSN # 0 \/ \E h \in Goroutines : stmt[h].step = "save"
      BY <2>2, <3>1, GapInv DEF CaptureFails, NotCovered, Gaps
    <3>2. CASE ~(writeLSN # 0 \/ \E h \in Goroutines : stmt[h].step = "save")
      BY <2>2, <3>2 DEF CaptureFails, NotCovered, ReplicatedTypeOK
    <3> QED
      BY <3>1, <3>2
  <2> QED
    BY <2>1, <2>2
<1>4. /\ done' = Larger(done, stmt[g].mine) /\ done' \in 0..MaxWAL /\ done' <= wal'
      /\ writeLSN' \in 0..MaxWAL /\ writeLSN' <= wal' /\ wal' \in 0..MaxWAL /\ wal <= wal'
  <2>1. done' = Larger(done, stmt[g].mine)
    BY <1>1, AfterFacts
  <2>2. stmt[g].mine \in 0..MaxWAL /\ stmt[g].lsn \in 0..MaxWAL
    BY DEF ReplicatedTypeOK, Stmt
  <2>3. writeLSN' \in {writeLSN, stmt[g].lsn}
    BY DEF SaveLSN, CaptureFails
  <2> QED
    BY <1>1, <2>1, <2>2, <2>3, ReplicatedFacts DEF Larger, ReplicatedInv, PositionsInv, ReplicatedTypeOK
<1>5. s.mine <= wal' /\ s.lsn <= wal' /\ s.need <= wal' /\ (s.step = "rows" => gaps' # {})
  BY <1>2, <1>3, <1>4, ReplicatedFacts
<1>6. /\ stmt' \in [Goroutines -> Stmt] /\ stmt'[g] = s
      /\ \A h \in Goroutines : h # g => stmt'[h] = stmt[h]
      /\ PositionsInv' /\ WritesInv' /\ RoutedInv'
  BY <1>1, <1>2, <1>3, <1>4, <1>5, StmtStep
<1>7. ReplicatedTypeOK'
  BY <1>1, <1>3, <1>4, <1>6 DEF ReplicatedTypeOK, cluster
<1>8. CoveredInv'
  <2> SUFFICES ASSUME gaps' = {}
               PROVE  /\ writeLSN' # 0 => done' <= writeLSN'
                      /\ \A h \in Goroutines : stmt'[h].step = "save" =>
                            done' <= stmt'[h].lsn \/ stmt'[h].lsn < writeLSN'
    BY DEF CoveredInv
  <2>1. /\ writeLSN # 0 => done <= writeLSN
        /\ \A h \in Goroutines : stmt[h].step = "save" => done <= stmt[h].lsn \/ stmt[h].lsn < writeLSN
    BY <1>3 DEF ReplicatedInv, CoveredInv
  <2>2. CASE writeLSN' = stmt[g].lsn /\ stmt[g].step = "save" /\ ~(stmt[g].lsn < writeLSN)
    <3>1. done' <= writeLSN' /\ writeLSN <= writeLSN' /\ stmt[g].mine <= writeLSN'
      BY <1>1, <1>4, <2>1, <2>2, ReplicatedFacts DEF Larger
    <3>2. ASSUME NEW h \in Goroutines, h # g, stmt[h].step = "save"
          PROVE  done' <= stmt[h].lsn \/ stmt[h].lsn < writeLSN'
      <4>1. done <= stmt[h].lsn \/ stmt[h].lsn < writeLSN
        BY <2>1, <3>2
      <4>2. {done, stmt[h].lsn, stmt[g].mine, writeLSN, writeLSN'} \subseteq Nat
        BY <2>2, ReplicatedFacts
      <4> QED
        BY <1>4, <3>1, <4>1, <4>2 DEF Larger
    <3> QED
      BY <1>2, <1>6, <3>1, <3>2
  <2>3. CASE writeLSN' = 0 /\ \A h \in Goroutines : stmt[h].step # "save"
    BY <1>2, <1>6, <2>3
  <2> QED
    BY <1>3, <2>2, <2>3
<1> QED
  BY <1>1, <1>6, <1>7, <1>8 DEF ReplicatedInv, ReadsOwnWrites

\* Errors: a commit that reports one, and an Exec that does.
LEMMA FailureInv ==
    ASSUME ReplicatedTypeOK, ReplicatedInv, NEW g \in Goroutines, CommitLost(g) \/ ExecFails(g)
    PROVE  ReplicatedTypeOK' /\ ReplicatedInv'
<1>1. /\ UNCHANGED <<cluster, writeLSN, stmt, missed>> /\ ops' \in 0..MaxOps
      /\ window' \in {"none", "delay", "sticky", "over"}
  BY BeginsBound DEF CommitLost, ExecFails, ReplicatedTypeOK
<1>2. /\ gaps \subseteq gaps' /\ gaps' \subseteq Gaps
      /\ \/ UNCHANGED <<wal, done, gaps>>
         \/ /\ wal < MaxWAL /\ wal' = wal + 1 /\ done' = wal + 1
            /\ \/ gaps' # {}
               \/ writeLSN = 0 /\ \A h \in Goroutines : stmt[h].step # "save"
  <2>1. CASE CommitLost(g)
    BY <2>1, GapInv DEF CommitLost, Gaps
  <2>2. CASE ExecFails(g) /\ UNCHANGED <<wal, done, gaps>>
    BY <2>2 DEF ReplicatedTypeOK
  <2>3. CASE /\ ExecFails(g) /\ wal < MaxWAL /\ wal' = wal + 1 /\ done' = wal + 1 /\ NotCovered
    <3>1. CASE writeLSN # 0 \/ \E h \in Goroutines : stmt[h].step = "save"
      BY <2>3, <3>1, GapInv DEF NotCovered, Gaps
    <3>2. CASE ~(writeLSN # 0 \/ \E h \in Goroutines : stmt[h].step = "save")
      BY <2>3, <3>2 DEF NotCovered, ReplicatedTypeOK
    <3> QED
      BY <3>1, <3>2
  <2> QED
    BY <2>1, <2>2, <2>3 DEF ExecFails
<1>3. /\ wal' \in 0..MaxWAL /\ wal <= wal' /\ done' <= wal' /\ writeLSN' <= wal' /\ done' \in 0..MaxWAL
  BY <1>1, <1>2, CommitBound, ReplicatedFacts DEF ReplicatedInv, PositionsInv, ReplicatedTypeOK
<1>4. PositionsInv' /\ WritesInv' /\ RoutedInv'
  BY <1>1, <1>2, <1>3, NoStmtStep
<1>5. ReplicatedTypeOK'
  BY <1>1, <1>2, <1>3 DEF ReplicatedTypeOK, cluster
<1>6. CoveredInv'
  BY <1>1, <1>2 DEF ReplicatedInv, CoveredInv
<1> QED
  BY <1>1, <1>4, <1>5, <1>6 DEF ReplicatedInv, ReadsOwnWrites

\* A read is routed: to a node that has what the session's finished statements
\* committed, when it is inside the window and no write has escaped.
LEMMA QueryInv ==
    ASSUME ReplicatedTypeOK, ReplicatedInv, NEW g \in Goroutines, Query(g)
    PROVE  ReplicatedTypeOK' /\ ReplicatedInv'
<1>1. UNCHANGED <<wal, replay, window, writeLSN, done, gaps, missed>> /\ ops' \in 0..MaxOps
  BY BeginsBound DEF Query
<1>2. PICK n \in Nodes, asked \in SUBSET Replicas :
          /\ Routed(n, asked)
          /\ sample' = [r \in Replicas |-> IF r \in asked THEN [lsn |-> replicaLSN(r), fresh |-> TRUE]
                                                         ELSE sample[r]]
          /\ stmt' = [stmt EXCEPT ![g] = [NoStmt EXCEPT !.step = "read", !.need = done, !.at = n,
                                                        !.sticky = ActiveFor]]
  BY DEF Query
<1>3. PICK s : /\ s \in Stmt /\ stmt' = [stmt EXCEPT ![g] = s] /\ s.step = "read"
               /\ s.mine = 0 /\ s.lsn = 0 /\ s.need = done /\ s.at = n /\ (s.sticky <=> ActiveFor)
  <2> DEFINE s == [NoStmt EXCEPT !.step = "read", !.need = done, !.at = n, !.sticky = ActiveFor]
  <2>1. s.step = "read" /\ s.mine = 0 /\ s.lsn = 0 /\ s.need = done /\ s.at = n /\ s.sticky = ActiveFor
    BY DEF NoStmt
  <2>2. s \in Stmt
    <3>1. ActiveFor \in BOOLEAN /\ done \in 0..MaxWAL
      BY DEF ActiveFor, ReplicatedTypeOK
    <3> QED
      BY <3>1, ReplicatedFacts DEF Stmt
  <2> HIDE DEF s
  <2>3. stmt' = [stmt EXCEPT ![g] = s]
    BY <1>2 DEF s
  <2> QED
    BY <2>1, <2>2, <2>3
<1>4. /\ stmt' \in [Goroutines -> Stmt] /\ stmt'[g] = s
      /\ \A h \in Goroutines : h # g => stmt'[h] = stmt[h]
  BY <1>3 DEF ReplicatedTypeOK
<1>5. \A r \in Replicas : replicaLSN(r) \in 0..MaxWAL /\ replicaLSN(r) <= replay[r]
  BY ReplicatedFacts DEF replicaLSN, ReplicatedInv, PositionsInv, ReplicatedTypeOK
<1>6. /\ sample' \in [Replicas -> [lsn : 0..MaxWAL, fresh : BOOLEAN]]
      /\ \A r \in Replicas : sample'[r].lsn <= replay[r]
  <2>1. /\ sample \in [Replicas -> [lsn : 0..MaxWAL, fresh : BOOLEAN]]
        /\ \A r \in Replicas : sample[r].lsn <= replay[r]
    BY DEF ReplicatedTypeOK, ReplicatedInv, PositionsInv
  <2> HIDE DEF replicaLSN
  <2> QED
    BY <1>2, <1>5, <2>1
<1>7. ReplicatedTypeOK'
  BY <1>1, <1>4, <1>6 DEF ReplicatedTypeOK
<1>8. PositionsInv'
  BY <1>1, <1>3, <1>4, <1>6, ReplicatedFacts DEF ReplicatedInv, PositionsInv
<1>9. WritesInv' /\ CoveredInv'
  BY <1>1, <1>3, <1>4 DEF ReplicatedInv, WritesInv, CoveredInv
<1>10. gaps = {} /\ ActiveFor => done <= IF n = Primary THEN wal ELSE replay[n]
  <2> SUFFICES ASSUME gaps = {}, ActiveFor, n # Primary
               PROVE  done <= replay[n]
    BY DEF ReplicatedInv, PositionsInv
  <2>1. n \in Replicas /\ writeLSN # 0 /\ CaughtUp(n)
    BY <1>2 DEF Routed
  <2>2. done <= writeLSN
    BY <2>1 DEF ReplicatedInv, CoveredInv
  <2>3. {done, writeLSN, replicaLSN(n), replay[n]} \subseteq Nat
    BY <1>5, <2>1, ReplicatedFacts
  <2> QED
    BY <1>5, <2>1, <2>2, <2>3 DEF CaughtUp
<1>11. RoutedInv'
  <2> SUFFICES ASSUME gaps = {}, NEW h \in Goroutines, stmt'[h].step = "read", stmt'[h].sticky
               PROVE  stmt'[h].need <= IF stmt'[h].at = Primary THEN wal ELSE replay[stmt'[h].at]
    BY <1>1 DEF RoutedInv, Position
  <2>1. CASE h = g
    BY <1>3, <1>4, <1>10, <2>1
  <2>2. CASE h # g
    BY <1>4, <2>2 DEF ReplicatedInv, RoutedInv, Position
  <2> QED
    BY <2>1, <2>2
<1> QED
  BY <1>1, <1>7, <1>8, <1>9, <1>11 DEF ReplicatedInv, ReadsOwnWrites

\* A read runs, or turns out to write.
LEMMA ReadInv ==
    ASSUME ReplicatedTypeOK, ReplicatedInv, NEW g \in Goroutines, Read(g) \/ ReadWrites(g)
    PROVE  ReplicatedTypeOK' /\ ReplicatedInv'
<1>1. CASE ReadWrites(g) /\ stmt[g].at # Primary
  <2>1. ops' \in 0..MaxOps
    BY <1>1 DEF ReadWrites, ReplicatedTypeOK
  <2> QED
    BY <1>1, <2>1, MarkedNextInv DEF ReadWrites
<1>2. CASE Read(g) \/ (ReadWrites(g) /\ stmt[g].at = Primary)
  <2>1. /\ stmt' = [stmt EXCEPT ![g] = NoStmt] /\ UNCHANGED <<cluster, window, writeLSN, ops>>
        /\ stmt[g].step = "read"
    BY <1>2 DEF Read, ReadWrites
  <2>2. NoStmt \in Stmt /\ NoStmt.step = "idle" /\ NoStmt.mine = 0 /\ NoStmt.lsn = 0 /\ NoStmt.need = 0
    <3>1. NoStmt \in Stmt
      BY ReplicatedFacts
    <3> QED
      BY <3>1 DEF NoStmt
  <2>3. /\ gaps \subseteq gaps' /\ gaps' \subseteq Gaps
        /\ \/ UNCHANGED <<wal, done, gaps>>
           \/ wal < MaxWAL /\ wal' = wal + 1 /\ done' = wal + 1 /\ gaps' # {}
    <3>1. CASE Read(g)
      BY <3>1 DEF Read, ReplicatedTypeOK
    <3>2. CASE ReadWrites(g) /\ stmt[g].at = Primary
      BY <3>2, GapInv DEF ReadWrites, Gaps
    <3> QED
      BY <1>2, <3>1, <3>2
  <2>4. missed' = FALSE
    <3>0. missed = FALSE
      BY DEF ReplicatedInv, ReadsOwnWrites, ReplicatedTypeOK
    <3>1. CASE Read(g)
      <4>1. stmt[g].sticky /\ gaps = {} => stmt[g].need <= Position(stmt[g].at)
        BY <2>1 DEF ReplicatedInv, RoutedInv
      <4>2. stmt[g].need \in Nat /\ Position(stmt[g].at) \in Nat
        <5>1. stmt[g].at \in Nodes
          BY ReplicatedFacts
        <5> QED
          BY <5>1, ReplicatedFacts DEF Position, Nodes
      <4>3. ~(stmt[g].sticky /\ gaps = {} /\ Position(stmt[g].at) < stmt[g].need)
        BY <4>1, <4>2
      <4>4. missed' = (missed \/ (stmt[g].sticky /\ gaps = {} /\ Position(stmt[g].at) < stmt[g].need))
        BY <3>1 DEF Read
      <4> QED
        BY <3>0, <4>3, <4>4, Zenon
    <3>2. CASE ReadWrites(g)
      BY <3>0, <3>2 DEF ReadWrites
    <3> QED
      BY <1>2, <3>1, <3>2
  <2>5. /\ wal' \in 0..MaxWAL /\ wal <= wal' /\ done' <= wal' /\ writeLSN' <= wal' /\ done' \in 0..MaxWAL
    BY <2>1, <2>3, CommitBound, ReplicatedFacts DEF ReplicatedInv, PositionsInv, ReplicatedTypeOK
  <2>6. NoStmt.mine <= wal' /\ NoStmt.lsn <= wal' /\ NoStmt.need <= wal'
    BY <2>2, <2>5, ReplicatedFacts
  <2>7. /\ stmt' \in [Goroutines -> Stmt] /\ stmt'[g] = NoStmt
        /\ \A h \in Goroutines : h # g => stmt'[h] = stmt[h]
        /\ PositionsInv' /\ WritesInv' /\ RoutedInv'
    BY <2>1, <2>2, <2>3, <2>5, <2>6, StmtStep
  <2>8. ReplicatedTypeOK'
    BY <2>1, <2>3, <2>4, <2>5, <2>7 DEF ReplicatedTypeOK, cluster
  <2>9. CoveredInv'
    BY <2>1, <2>2, <2>3, <2>7 DEF ReplicatedInv, CoveredInv
  <2> QED
    BY <2>4, <2>7, <2>8, <2>9 DEF ReplicatedInv, ReadsOwnWrites
<1> QED
  BY <1>1, <1>2

\* Time passes, a sample expires, a replica replays, somebody else writes.
LEMMA ElsewhereInv ==
    ASSUME ReplicatedTypeOK, ReplicatedInv,
           \/ \E r \in Replicas : SampleExpires(r) \/ Replay(r)
           \/ Elapse \/ OtherWrite
    PROVE  ReplicatedTypeOK' /\ ReplicatedInv'
<1>1. UNCHANGED <<writeLSN, stmt, ops, done, gaps, missed>>
  BY DEF SampleExpires, Replay, Elapse, OtherWrite
<1>2. CASE Elapse \/ OtherWrite
  <2>1. /\ UNCHANGED cluster /\ wal' \in 0..MaxWAL /\ wal <= wal'
        /\ window' \in {"none", "delay", "sticky", "over"}
    BY <1>2, CommitBound, ReplicatedFacts DEF Elapse, OtherWrite, ReplicatedTypeOK
  <2>2. done' <= wal' /\ writeLSN' <= wal' /\ gaps \subseteq gaps'
    BY <1>1, <2>1, ReplicatedFacts DEF ReplicatedInv, PositionsInv
  <2>3. PositionsInv' /\ WritesInv' /\ RoutedInv'
    BY <1>1, <2>1, <2>2, NoStmtStep
  <2> QED
    BY <1>1, <2>1, <2>3 DEF ReplicatedTypeOK, ReplicatedInv, CoveredInv, ReadsOwnWrites, cluster
<1>3. ASSUME NEW r \in Replicas, SampleExpires(r) \/ Replay(r)
      PROVE  ReplicatedTypeOK' /\ ReplicatedInv'
  <2>1. wal' = wal /\ window' = window
    BY <1>3 DEF SampleExpires, Replay
  <2>2. /\ replay' \in [Replicas -> 0..MaxWAL]
        /\ sample' \in [Replicas -> [lsn : 0..MaxWAL, fresh : BOOLEAN]]
        /\ \A x \in Replicas : replay[x] <= replay'[x] /\ replay'[x] <= wal /\ sample'[x].lsn <= replay'[x]
    <3>1. /\ replay \in [Replicas -> 0..MaxWAL]
          /\ sample \in [Replicas -> [lsn : 0..MaxWAL, fresh : BOOLEAN]]
          /\ \A x \in Replicas : replay[x] <= wal /\ sample[x].lsn <= replay[x]
          /\ wal \in Nat /\ MaxWAL \in Nat /\ wal <= MaxWAL
      BY ReplicatedFacts DEF ReplicatedTypeOK, ReplicatedInv, PositionsInv
    <3>2. CASE SampleExpires(r)
      <4>1. replay' = replay /\ sample' = [sample EXCEPT ![r] = [lsn |-> 0, fresh |-> FALSE]]
        BY <3>2 DEF SampleExpires
      <4> QED
        BY <3>1, <4>1
    <3>3. CASE Replay(r)
      <4>1. sample' = sample /\ replay' = [replay EXCEPT ![r] = @ + 1] /\ replay[r] < wal
        BY <3>3 DEF Replay
      <4> QED
        BY <3>1, <4>1
    <3> QED
      BY <1>3, <3>2, <3>3
  <2>3. ReplicatedTypeOK'
    BY <1>1, <2>1, <2>2 DEF ReplicatedTypeOK
  <2>4. PositionsInv'
    BY <1>1, <2>1, <2>2 DEF ReplicatedInv, PositionsInv
  <2>5. RoutedInv'
    <3> SUFFICES ASSUME gaps = {}, NEW h \in Goroutines, stmt[h].step = "read", stmt[h].sticky
                 PROVE  stmt[h].need <= IF stmt[h].at = Primary THEN wal ELSE replay'[stmt[h].at]
      BY <1>1, <2>1 DEF RoutedInv, Position
    <3>1. stmt[h].need <= IF stmt[h].at = Primary THEN wal ELSE replay[stmt[h].at]
      BY DEF ReplicatedInv, RoutedInv, Position
    <3>2. stmt[h].at = Primary \/ stmt[h].at \in Replicas
      BY ReplicatedFacts DEF Nodes
    <3> QED
      BY <2>2, <3>1, <3>2, ReplicatedFacts
  <2> QED
    BY <1>1, <2>1, <2>3, <2>4, <2>5 DEF ReplicatedInv, WritesInv, CoveredInv, ReadsOwnWrites
<1> QED
  BY <1>2, <1>3

\* Every step of the replicated driver keeps it.
LEMMA ReplicatedStepInv ==
    ASSUME ReplicatedTypeOK, ReplicatedInv, [ReplicatedNext]_replicaVars
    PROVE  (ReplicatedTypeOK /\ ReplicatedInv)'
<1>1. ASSUME NEW g \in Goroutines, Exec(g)
      PROVE  (ReplicatedTypeOK /\ ReplicatedInv)'
  <2>1. ops' \in 0..MaxOps
    BY <1>1, BeginsBound DEF Exec
  <2> QED
    BY <1>1, <2>1, MarkedNextInv DEF Exec
<1>2. ASSUME NEW g \in Goroutines, QueryReturning(g) \/ CloseRows(g)
      PROVE  (ReplicatedTypeOK /\ ReplicatedInv)'
  BY <1>2, ReturningInv
<1>3. ASSUME NEW g \in Goroutines, Mark(g) \/ Capture(g)
      PROVE  (ReplicatedTypeOK /\ ReplicatedInv)'
  BY <1>3, CaptureInv
<1>4. ASSUME NEW g \in Goroutines, SaveLSN(g) \/ CaptureFails(g)
      PROVE  (ReplicatedTypeOK /\ ReplicatedInv)'
  BY <1>4, SavedInv
<1>5. ASSUME NEW g \in Goroutines, CommitLost(g) \/ ExecFails(g)
      PROVE  (ReplicatedTypeOK /\ ReplicatedInv)'
  BY <1>5, FailureInv
<1>6. ASSUME NEW g \in Goroutines, Query(g)
      PROVE  (ReplicatedTypeOK /\ ReplicatedInv)'
  BY <1>6, QueryInv
<1>7. ASSUME NEW g \in Goroutines, Read(g) \/ ReadWrites(g)
      PROVE  (ReplicatedTypeOK /\ ReplicatedInv)'
  BY <1>7, ReadInv
<1>8. CASE (\E r \in Replicas : SampleExpires(r) \/ Replay(r)) \/ Elapse \/ OtherWrite
  BY <1>8, ElsewhereInv
<1>9. CASE UNCHANGED replicaVars
  BY <1>9 DEF replicaVars, ReplicatedTypeOK, ReplicatedInv, PositionsInv, WritesInv, CoveredInv, RoutedInv,
              ReadsOwnWrites, Position
<1> QED
  BY <1>1, <1>2, <1>3, <1>4, <1>5, <1>6, <1>7, <1>8, <1>9, Zenon DEF ReplicatedNext

\* The replicated driver's invariant, for any number of goroutines, replicas and
\* statements.
THEOREM ReplicatedInvCorrect == ReplicatedSpec => [](ReplicatedTypeOK /\ ReplicatedInv)
<1>1. ReplicatedTypeOK /\ ReplicatedInv /\ [ReplicatedNext]_replicaVars => (ReplicatedTypeOK /\ ReplicatedInv)'
  BY ReplicatedStepInv
<1> QED
  BY ReplicatedInitInv, <1>1, PTL DEF ReplicatedSpec

\* A read inside the window sees every commit of the session's finished statements
\* as long as no write has escaped it: pg/replica.go routeRead, pg/replica_lsn.go
\* captureWriteLSN and pickLSNReplica.
THEOREM ReadsOwnWritesCorrect == ReplicatedSpec => []ReadsOwnWrites
<1>1. ReplicatedInv => ReadsOwnWrites
  BY DEF ReplicatedInv
<1> QED
  BY <1>1, ReplicatedInvCorrect, PTL

-------------------------------------------------------------------------------
(***************************************************************************)
(* The event store.                                                        *)
(***************************************************************************)

\* The version that stream s stands at in the rows E: LatestVersion(s) is HeadIn(events, s).
HeadIn(E, s) == Max(VersionsOf(E, s) \cup {-1})

\* The rows of an Append of n events to s behind version v, with the ids after base.
RowsAt(base, s, v, n) == {[id |-> base + i, stream |-> s, version |-> v + i] : i \in 1..n}

\* Ids rise with versions, and no version is there twice.
Ordered(E) ==
    \A e, f \in E : e.stream = f.stream /\ e # f => (e.version < f.version <=> e.id < f.id)
                                                   /\ e.version # f.version

\* The versions of a stream have no gap; an event has an id the sequence has handed
\* out, above its version.
StreamInv ==
    /\ \A s \in Streams : HeadIn(events, s) \in -1..MaxId - 1 /\ VersionsOf(events, s) = 0..HeadIn(events, s)
    /\ \A e \in events : e.id <= lastId /\ e.version < e.id
    /\ Ordered(events)

\* A writer a while the rows E are committed and the sequence stands at last.  One
\* that waits for its commit stands right behind its stream's head, and its ids
\* come after the stream's.
AppendOK(a, E, last) ==
    /\ a.step # "inserted" => a.rows = {}
    /\ a.step = "loaded" => a.expected <= HeadIn(E, a.stream)
    /\ a.step = "inserted" =>
          /\ a.expected = HeadIn(E, a.stream)
          /\ \E base \in 0..MaxId, n \in 1..MaxBatch :
                /\ a.rows = RowsAt(base, a.stream, a.expected, n)
                /\ a.expected < base /\ base + n <= last
                /\ \A e \in E : e.stream = a.stream => e.id <= base

\* Two writers that wait for their commits are on two streams.
AppendInv ==
    /\ \A w \in Appenders : AppendOK(append[w], events, lastId)
    /\ \A w, x \in Appenders : w # x /\ append[w].step = "inserted" /\ append[x].step = "inserted"
                                  => append[w].stream # append[x].stream

\* An aggregate b under rebuild is a prefix of its stream in the rows E.
RebuildOK(b, E) ==
    /\ b.step = "load" => b.state = 0..b.from /\ b.from <= HeadIn(E, b.stream) /\ b.head <= HeadIn(E, b.stream)
    /\ b.step = "done" => \E v \in -1..MaxId - 1 : b.head <= v /\ v <= HeadIn(E, b.stream) /\ b.state = 0..v

RebuildInv ==
    /\ \A s \in Streams : snapshot[s] <= HeadIn(events, s)
    /\ \A r \in Readers : RebuildOK(rebuild[r], events)

EventInv == StreamInv /\ AppendInv /\ RebuildInv /\ SkipsOnlyLate

AppendType  == [step : {"idle", "loaded", "inserted"}, stream : Streams,
                expected : -1..MaxId - 1, rows : SUBSET Event]
RebuildType == [step : {"idle", "load", "done"}, stream : Streams, from : -1..MaxId - 1,
                head : -1..MaxId - 1, state : SUBSET Versions]

\* A nonempty set of naturals has a least element: well-foundedness of < stands in for
\* induction here, which takes a predicate as a parameter.
LEMMA LeastNatural ==
    ASSUME NEW T, T \subseteq Nat, T # {}
    PROVE  \E m \in T : \A n \in T : m <= n
<1> DEFINE R == OpToRel(<, Nat)
<1>1. IsWellFoundedOn(R, Nat)
  BY NatLessThanWellFounded, Zenon
<1>2. \A x, y \in Nat : x < y => <<x, y>> \in R
  BY Zenon DEF OpToRel
<1> HIDE DEF R
<1>3. PICK m \in T : \A n \in T : ~(<<n, m>> \in R)
  BY <1>1, WFMin, Zenon
<1>4. \A n \in T : ~(n < m)
  BY <1>2, <1>3, Zenon
<1>5. \A n \in T : m <= n
  BY <1>4
<1> QED
  BY <1>5

\* A nonempty set of naturals below a bound has a largest element, and Max is it.
LEMMA MaxOfBounded ==
    ASSUME NEW b \in Nat, NEW S, S \subseteq 0..b, S # {}
    PROVE  Max(S) \in S /\ \A x \in S : x <= Max(S)
<1> DEFINE T == {b - x : x \in S}
<1>1. T \subseteq Nat
  OBVIOUS
<1>2. T # {}
  BY Zenon
<1>3. PICK m \in T : \A n \in T : m <= n
  <2> HIDE DEF T
  <2> QED
    BY <1>1, <1>2, LeastNatural
<1>4. PICK x \in S : m = b - x
  BY <1>3
<1>5. \A y \in S : x >= y
  <2> TAKE y \in S
  <2>1. m <= b - y
    BY <1>3
  <2> QED
    BY <1>4, <2>1
<1> QED
  BY <1>4, <1>5 DEF Max

\* LatestVersion of a stream without a gap is its last version, -1 when it is empty.
LEMMA HeadOfWhole ==
    ASSUME NEW E, NEW s, NEW n \in Int, n >= -1, VersionsOf(E, s) = 0..n
    PROVE  HeadIn(E, s) = n
<1> DEFINE V == 0..n \cup {-1}
<1>1. n \in V /\ \A y \in V : n >= y
  OBVIOUS
<1>2. \A x \in V : (\A y \in V : x >= y) => x = n
  BY <1>1
<1> HIDE DEF V
<1>3. Max(V) = n
  BY <1>1, <1>2 DEF Max
<1> QED
  BY <1>3 DEF V, HeadIn

LEMMA MaxOfInterval ==
    ASSUME NEW n \in Nat
    PROVE  Max(0..n) = n
<1>1. n \in 0..n /\ \A y \in 0..n : n >= y
  OBVIOUS
<1>2. \A x \in 0..n : (\A y \in 0..n : x >= y) => x = n
  BY <1>1
<1> QED
  BY <1>1, <1>2 DEF Max

\* Adding rows to a stream adds their versions.
LEMMA VersionsOfUnion ==
    ASSUME NEW E, NEW F, NEW s
    PROVE  VersionsOf(E \cup F, s) = VersionsOf(E, s) \cup VersionsOf(F, s)
  BY DEF VersionsOf

\* The versions of the rows of an Append: those right behind the expected one, in its
\* own stream and in no other.
LEMMA VersionsOfRows ==
    ASSUME NEW base \in Int, NEW s, NEW v \in Int, NEW n \in Nat
    PROVE  /\ VersionsOf(RowsAt(base, s, v, n), s) = v + 1..v + n
           /\ \A t : t # s => VersionsOf(RowsAt(base, s, v, n), t) = {}
<1> DEFINE R == RowsAt(base, s, v, n)
<1>1. \A e : e \in R <=> \E i \in 1..n : e = [id |-> base + i, stream |-> s, version |-> v + i]
  BY Zenon DEF RowsAt
<1>2. \A e \in R : e.stream = s /\ e.version \in v + 1..v + n
  BY <1>1
<1>3. \A k \in v + 1..v + n : \E e \in R : e.stream = s /\ e.version = k
  <2> TAKE k \in v + 1..v + n
  <2>1. k - v \in 1..n /\ v + (k - v) = k
    OBVIOUS
  <2>2. [id |-> base + (k - v), stream |-> s, version |-> k] \in R
    BY <1>1, <2>1
  <2> QED
    BY <2>2
<1> HIDE DEF R
<1>4. VersionsOf(R, s) = v + 1..v + n
  BY <1>2, <1>3 DEF VersionsOf
<1>5. \A t : t # s => VersionsOf(R, t) = {}
  BY <1>2 DEF VersionsOf
<1> QED
  BY <1>4, <1>5 DEF R

LEMMA EventFacts ==
    ASSUME EventTypeOK
    PROVE  /\ MaxId \in Nat /\ MaxId >= 1 /\ MaxBatch \in Nat
           /\ lastId \in Nat /\ lastId <= MaxId
           /\ append \in [Appenders -> AppendType] /\ rebuild \in [Readers -> RebuildType]
           /\ NoAppend \in AppendType /\ NoRebuild \in RebuildType
           /\ NoAppend.step = "idle" /\ NoAppend.rows = {} /\ NoRebuild.step = "idle"
<1>1. MaxId \in Nat /\ MaxId >= 1 /\ MaxBatch \in Nat
  BY EventStoreAssumption
<1>2. AnyStream \in Streams
  BY EventStoreAssumption DEF AnyStream
<1>3. -1 \in -1..MaxId - 1
  BY <1>1
<1>4. NoAppend \in AppendType /\ NoRebuild \in RebuildType
  BY <1>2, <1>3 DEF NoAppend, NoRebuild, AppendType, RebuildType
<1>5. NoAppend.step = "idle" /\ NoAppend.rows = {} /\ NoRebuild.step = "idle"
  BY DEF NoAppend, NoRebuild
<1> QED
  BY <1>1, <1>4, <1>5 DEF EventTypeOK, AppendType, RebuildType

LEMMA EventInitInv == EventInit => EventTypeOK /\ EventInv
<1> SUFFICES ASSUME EventInit PROVE EventTypeOK /\ EventInv
  OBVIOUS
<1>1. MaxId \in Nat /\ MaxId >= 1 /\ -1 \in -1..MaxId - 1 /\ 0 \in 0..MaxId
  BY EventStoreAssumption
<1>2. AnyStream \in Streams
  BY EventStoreAssumption DEF AnyStream
<1>3. EventTypeOK
  <2>1. NoAppend \in AppendType /\ NoRebuild \in RebuildType
    BY <1>1, <1>2 DEF NoAppend, NoRebuild, AppendType, RebuildType
  <2>2. append \in [Appenders -> AppendType] /\ rebuild \in [Readers -> RebuildType]
    BY <2>1 DEF EventInit
  <2> QED
    BY <1>1, <2>2 DEF EventInit, EventTypeOK, AppendType, RebuildType
<1>4. \A s \in Streams : VersionsOf(events, s) = 0..-1 /\ HeadIn(events, s) = -1
  <2> TAKE s \in Streams
  <2>1. VersionsOf(events, s) = {}
    BY DEF VersionsOf, EventInit
  <2>2. VersionsOf(events, s) = 0..-1
    BY <2>1
  <2>3. -1 \in Int /\ -1 >= -1
    OBVIOUS
  <2> QED
    BY <2>2, <2>3, HeadOfWhole
<1>5. StreamInv
  BY <1>1, <1>4 DEF EventInit, StreamInv, Ordered
<1>6. AppendInv
  BY DEF EventInit, AppendInv, AppendOK, NoAppend
<1>7. RebuildInv
  BY <1>4 DEF EventInit, RebuildInv, RebuildOK, NoRebuild
<1>8. SkipsOnlyLate
  BY DEF EventInit, SkipsOnlyLate
<1> QED
  BY <1>3, <1>5, <1>6, <1>7, <1>8 DEF EventInv

\* A writer that changes while the rows stay: the invariant is about that writer only.
LEMMA WriterStep ==
    ASSUME EventTypeOK, EventInv, NEW w \in Appenders, NEW a \in AppendType,
           append' = [append EXCEPT ![w] = a],
           UNCHANGED <<events, offset, applied, late, snapshot, rebuild>>,
           lastId' \in 0..MaxId, lastId <= lastId',
           AppendOK(a, events, lastId'),
           a.step = "inserted" => \A x \in Appenders \ {w} : append[x].step = "inserted" => append[x].stream # a.stream
    PROVE  EventTypeOK' /\ EventInv'
<1>1. /\ append' \in [Appenders -> AppendType] /\ append'[w] = a
      /\ \A x \in Appenders : x # w => append'[x] = append[x]
  BY EventFacts
<1>2. EventTypeOK'
  BY <1>1 DEF EventTypeOK, AppendType
<1>3. StreamInv'
  <2>1. \A e \in events : e.id <= lastId' /\ e.version < e.id
    <3> TAKE e \in events
    <3>1. e.id <= lastId /\ e.version < e.id /\ e.id \in Nat /\ lastId \in Nat /\ lastId' \in Nat
      BY EventFacts DEF EventInv, StreamInv, EventTypeOK, Event
    <3> QED
      BY <3>1
  <2> QED
    BY <2>1 DEF EventInv, StreamInv
<1>4. AppendInv'
  <2>1. ASSUME NEW x \in Appenders
        PROVE  AppendOK(append'[x], events, lastId')
    <3>1. CASE x = w
      BY <1>1, <3>1
    <3>2. CASE x # w
      <4>1. AppendOK(append[x], events, lastId)
        BY DEF EventInv, AppendInv
      <4>2. \A base \in 0..MaxId, n \in 1..MaxBatch : base + n <= lastId => base + n <= lastId'
        BY EventFacts
      <4>3. AppendOK(append[x], events, lastId')
        BY <4>1, <4>2, Zenon DEF AppendOK
      <4> QED
        BY <1>1, <3>2, <4>3
    <3> QED
      BY <3>1, <3>2
  <2>2. \A v, x \in Appenders : v # x /\ append'[v].step = "inserted" /\ append'[x].step = "inserted"
                                  => append'[v].stream # append'[x].stream
    BY <1>1 DEF EventInv, AppendInv
  <2> QED
    BY <2>1, <2>2 DEF AppendInv
<1>5. RebuildInv' /\ SkipsOnlyLate'
  BY DEF EventInv, RebuildInv, SkipsOnlyLate
<1> QED
  BY <1>2, <1>3, <1>4, <1>5 DEF EventInv

\* A head is read, or the attempt is given up.
LEMMA ReadHeadInv ==
    ASSUME EventTypeOK, EventInv, NEW w \in Appenders,
           \/ \E s \in Streams : ReadHead(w, s)
           \/ \E n \in 1..MaxBatch : AppendConflicts(w, n)
           \/ RollbackAppend(w)
    PROVE  EventTypeOK' /\ EventInv'
<1>1. lastId' \in 0..MaxId /\ lastId <= lastId' /\ UNCHANGED <<events, offset, applied, late, snapshot, rebuild>>
  <2>1. UNCHANGED <<events, lastId, offset, applied, late, snapshot, rebuild>>
    BY DEF ReadHead, AppendConflicts, RollbackAppend
  <2> QED
    BY <2>1, EventFacts
<1>2. ASSUME NEW s \in Streams, ReadHead(w, s)
      PROVE  EventTypeOK' /\ EventInv'
  <2> DEFINE a == [NoAppend EXCEPT !.step = "loaded", !.stream = s, !.expected = LatestVersion(s)]
  <2>1. LatestVersion(s) = HeadIn(events, s) /\ LatestVersion(s) \in -1..MaxId - 1
    BY DEF LatestVersion, HeadIn, EventInv, StreamInv
  <2>2. a.step = "loaded" /\ a.stream = s /\ a.expected = HeadIn(events, s) /\ a.rows = {}
    BY <2>1 DEF NoAppend
  <2>3. a \in AppendType
    BY <2>1, EventFacts DEF AppendType
  <2>4. append' = [append EXCEPT ![w] = a]
    BY <1>2 DEF ReadHead
  <2> HIDE DEF a
  <2>5. a.expected <= a.expected
    BY <2>1, <2>2
  <2>6. AppendOK(a, events, lastId')
    BY <2>2, <2>5 DEF AppendOK
  <2> QED
    BY <1>1, <2>2, <2>3, <2>4, <2>6, WriterStep
<1>3. ASSUME append' = [append EXCEPT ![w] = NoAppend]
      PROVE  EventTypeOK' /\ EventInv'
  <2>1. NoAppend \in AppendType /\ NoAppend.step = "idle" /\ NoAppend.rows = {}
    BY EventFacts
  <2>2. AppendOK(NoAppend, events, lastId')
    BY <2>1 DEF AppendOK
  <2> QED
    BY <1>1, <1>3, <2>1, <2>2, WriterStep
<1> QED
  BY <1>2, <1>3 DEF AppendConflicts, RollbackAppend

\* The INSERT goes through only right behind the head, and alone on its stream: any other
\* expected version, and any other open append, clashes with the version after it.
LEMMA AppendRowsInv ==
    ASSUME EventTypeOK, EventInv, NEW w \in Appenders, NEW n \in 1..MaxBatch, AppendRows(w, n)
    PROVE  EventTypeOK' /\ EventInv'
<1> DEFINE s == append[w].stream
           v == append[w].expected
           R == RowsAt(lastId, s, v, n)
           a == [append[w] EXCEPT !.step = "inserted", !.rows = R]
<1>1. /\ append[w] \in AppendType /\ append[w].step = "loaded" /\ lastId + n <= MaxId /\ lastId' = lastId + n
      /\ s \in Streams /\ v \in -1..MaxId - 1 /\ v \in Int /\ n \in Nat /\ lastId \in Int
  BY EventFacts DEF AppendRows, AppendType
<1>2. lastId' \in 0..MaxId /\ lastId <= lastId' /\ UNCHANGED <<events, offset, applied, late, snapshot, rebuild>>
  BY <1>1, EventFacts DEF AppendRows
<1>3. NewRows(w, n) = R
  BY DEF NewRows, RowsAt
<1>4. VersionsOf(R, s) = v + 1..v + n
  BY <1>1, VersionsOfRows
<1>5. /\ (v + 1..v + n) \cap VersionsOf(events, s) = {}
      /\ \A x \in Appenders \ {w} : (v + 1..v + n) \cap VersionsOf(append[x].rows, s) = {}
  <2>1. ~Clashes(w, n, events) /\ \A x \in Appenders \ {w} : ~Clashes(w, n, append[x].rows)
    BY DEF AppendRows
  <2> HIDE DEF R, s, v
  <2>2. append[w].stream = s
    BY DEF s
  <2> QED
    BY <1>3, <1>4, <2>1, <2>2 DEF Clashes
<1>6. v = HeadIn(events, s)
  <2>1. v <= HeadIn(events, s) /\ HeadIn(events, s) \in -1..MaxId - 1 /\ VersionsOf(events, s) = 0..HeadIn(events, s)
    BY <1>1 DEF EventInv, AppendInv, AppendOK, StreamInv
  <2>2. v + 1 \in v + 1..v + n
    BY <1>1
  <2>3. v + 1 \notin 0..HeadIn(events, s)
    BY <1>5, <2>1, <2>2
  <2> QED
    BY <1>1, <2>1, <2>3
<1>7. v < lastId
  <2>1. CASE v = -1
    BY <1>1, <2>1, EventFacts
  <2>2. CASE v # -1
    <3>1. v \in VersionsOf(events, s)
      BY <1>1, <1>6, <2>2 DEF EventInv, StreamInv
    <3>2. PICK e \in events : e.version = v
      BY <3>1 DEF VersionsOf
    <3>3. e.id <= lastId /\ e.version < e.id /\ e.id \in Nat
      BY DEF EventInv, StreamInv, EventTypeOK, Event
    <3> QED
      BY <1>1, <3>2, <3>3
  <2> QED
    BY <2>1, <2>2
<1>8. R \subseteq Event
  <2>1. \A i \in 1..n : lastId + i \in 1..MaxId /\ v + i \in 0..MaxId - 1
    BY <1>1, <1>7, EventFacts
  <2> QED
    BY <1>1, <2>1 DEF RowsAt, Event, Versions
<1>9. a.step = "inserted" /\ a.stream = s /\ a.expected = v /\ a.rows = R /\ a \in AppendType
  BY <1>1, <1>8 DEF AppendType
<1>10. append' = [append EXCEPT ![w] = a]
  BY <1>3, EventFacts DEF AppendRows
<1> HIDE DEF R, a
<1>11. AppendOK(a, events, lastId')
  <2>1. \A e \in events : e.id <= lastId
    BY DEF EventInv, StreamInv
  <2>2. lastId \in 0..MaxId /\ lastId + n <= lastId'
    BY <1>1, EventFacts
  <2>3. a.rows = RowsAt(lastId, a.stream, a.expected, n) /\ a.expected < lastId
    BY <1>7, <1>9 DEF R
  <2> QED
    BY <1>6, <1>9, <2>1, <2>2, <2>3 DEF AppendOK
<1>12. ASSUME NEW x \in Appenders \ {w}, append[x].step = "inserted"
       PROVE  append[x].stream # s
  <2> SUFFICES ASSUME append[x].stream = s
               PROVE  FALSE
    OBVIOUS
  <2>1. AppendOK(append[x], events, lastId)
    BY DEF EventInv, AppendInv
  <2>2. append[x].expected = v
    BY <1>6, <1>12, <2>1 DEF AppendOK
  <2>3. PICK base \in 0..MaxId, m \in 1..MaxBatch : append[x].rows = RowsAt(base, s, v, m)
    BY <1>12, <2>1, <2>2 DEF AppendOK
  <2>4. VersionsOf(append[x].rows, s) = v + 1..v + m
    BY <1>1, <2>3, VersionsOfRows, EventFacts
  <2>5. v + 1 \in v + 1..v + n /\ v + 1 \in v + 1..v + m
    BY <1>1, EventFacts
  <2> QED
    BY <1>5, <2>4, <2>5
<1> QED
  BY <1>2, <1>9, <1>10, <1>11, <1>12, WriterStep

\* The rows of an Append rise together in id and version.
LEMMA RowsAtFacts ==
    ASSUME NEW base \in Int, NEW s, NEW v \in Int, NEW n \in Nat
    PROVE  /\ \A e \in RowsAt(base, s, v, n) :
                 /\ e.stream = s /\ e.id \in base + 1..base + n /\ e.version \in v + 1..v + n
                 /\ e.id - base = e.version - v
           /\ \A e, f \in RowsAt(base, s, v, n) : e # f => e.version # f.version
<1> DEFINE R == RowsAt(base, s, v, n)
<1>1. \A e \in R : \E i \in 1..n : e = [id |-> base + i, stream |-> s, version |-> v + i]
  BY Zenon DEF RowsAt
<1>2. ASSUME NEW e \in R
      PROVE  /\ e.stream = s /\ e.id \in base + 1..base + n /\ e.version \in v + 1..v + n
             /\ e.id - base = e.version - v
  <2>1. PICK i \in 1..n : e = [id |-> base + i, stream |-> s, version |-> v + i]
    BY <1>1
  <2> QED
    BY <2>1
<1>3. ASSUME NEW e \in R, NEW f \in R, e.version = f.version
      PROVE  e = f
  <2>1. PICK i \in 1..n : e = [id |-> base + i, stream |-> s, version |-> v + i]
    BY <1>1
  <2>2. PICK j \in 1..n : f = [id |-> base + j, stream |-> s, version |-> v + j]
    BY <1>1
  <2>3. i = j
    BY <1>3, <2>1, <2>2
  <2> QED
    BY <2>1, <2>2, <2>3
<1> HIDE DEF R
<1>4. /\ \A e \in R : /\ e.stream = s /\ e.id \in base + 1..base + n /\ e.version \in v + 1..v + n
                      /\ e.id - base = e.version - v
      /\ \A e, f \in R : e # f => e.version # f.version
  BY <1>2, <1>3, Zenon
<1> QED
  BY <1>4 DEF R

\* The commit puts the rows behind the head they were inserted after: nobody else
\* can have committed to the stream since.
LEMMA CommitAppendInv ==
    ASSUME EventTypeOK, EventInv, NEW w \in Appenders, CommitAppend(w)
    PROVE  EventTypeOK' /\ EventInv'
<1> DEFINE s == append[w].stream
           v == append[w].expected
           R == append[w].rows
<1>1. /\ append[w] \in AppendType /\ append[w].step = "inserted" /\ s \in Streams /\ R \subseteq Event
      /\ v \in -1..MaxId - 1 /\ v \in Int /\ MaxId \in Nat /\ lastId \in 0..MaxId
  BY EventFacts DEF CommitAppend, AppendType, EventTypeOK
<1>2. /\ v = HeadIn(events, s)
      /\ \E base \in 0..MaxId, n \in 1..MaxBatch :
            /\ R = RowsAt(base, s, v, n)
            /\ v < base /\ base + n <= lastId
            /\ \A e \in events : e.stream = s => e.id <= base
  BY <1>1 DEF EventInv, AppendInv, AppendOK
<1>3. PICK base \in 0..MaxId, n \in 1..MaxBatch :
            /\ R = RowsAt(base, s, v, n)
            /\ v < base /\ base + n <= lastId
            /\ \A e \in events : e.stream = s => e.id <= base
  BY <1>2
<1>4. base \in Int /\ base \in Nat /\ n \in Nat /\ n >= 1
  BY EventFacts
<1>5. /\ events' = events \cup R /\ append' = [append EXCEPT ![w] = NoAppend]
      /\ late' = late \cup {e.id : e \in {x \in R : x.id <= offset}}
      /\ UNCHANGED <<lastId, offset, applied, snapshot, rebuild>>
  BY DEF CommitAppend
<1>6. /\ append' \in [Appenders -> AppendType] /\ append'[w] = NoAppend
      /\ \A x \in Appenders : x # w => append'[x] = append[x]
  BY <1>5, EventFacts
<1>7. /\ \A e \in R : /\ e.stream = s /\ e.id \in base + 1..base + n /\ e.version \in v + 1..v + n
                      /\ e.id - base = e.version - v
      /\ \A e, f \in R : e # f => e.version # f.version
  BY <1>1, <1>3, <1>4, RowsAtFacts
<1>8. /\ VersionsOf(R, s) = v + 1..v + n
      /\ \A t : t # s => VersionsOf(R, t) = {}
  BY <1>1, <1>3, <1>4, VersionsOfRows
<1> HIDE DEF R, s, v
<1>9. /\ HeadIn(events', s) = v + n /\ v + n \in -1..MaxId - 1
      /\ VersionsOf(events', s) = 0..v + n
  <2>1. VersionsOf(events', s) = 0..v \cup (v + 1..v + n)
    <3>1. VersionsOf(events, s) = 0..v
      BY <1>1, <1>2 DEF EventInv, StreamInv
    <3>2. VersionsOf(events \cup R, s) = VersionsOf(events, s) \cup VersionsOf(R, s)
      BY VersionsOfUnion
    <3> QED
      BY <1>5, <1>8, <3>1, <3>2
  <2>2. 0..v \cup (v + 1..v + n) = 0..v + n
    BY <1>1, <1>4
  <2>3. v + n \in -1..MaxId - 1 /\ v + n \in Int /\ v + n >= -1
    BY <1>1, <1>3, <1>4
  <2>4. HeadIn(events', s) = v + n
    BY <2>1, <2>2, <2>3, HeadOfWhole
  <2> QED
    BY <2>1, <2>2, <2>3, <2>4
<1>10. \A t \in Streams : t # s => VersionsOf(events', t) = VersionsOf(events, t) /\ HeadIn(events', t) = HeadIn(events, t)
  <2> SUFFICES ASSUME NEW t \in Streams, t # s
               PROVE  VersionsOf(events', t) = VersionsOf(events, t) /\ HeadIn(events', t) = HeadIn(events, t)
    OBVIOUS
  <2>1. VersionsOf(events', t) = VersionsOf(events, t) \cup VersionsOf(R, t)
    BY <1>5, VersionsOfUnion
  <2>2. VersionsOf(events', t) = VersionsOf(events, t)
    BY <1>8, <2>1
  <2> QED
    BY <2>2 DEF HeadIn
<1>11. \A t \in Streams : HeadIn(events, t) <= HeadIn(events', t) /\ HeadIn(events, t) \in Int /\ HeadIn(events', t) \in Int
  BY <1>1, <1>2, <1>4, <1>9, <1>10 DEF EventInv, StreamInv
<1>12. EventTypeOK'
  <2>1. events' \subseteq Event
    BY <1>1, <1>5 DEF EventTypeOK
  <2>2. late' \subseteq 1..MaxId
    BY <1>1, <1>5 DEF EventTypeOK, Event
  <2> QED
    BY <1>5, <1>6, <2>1, <2>2 DEF EventTypeOK, AppendType
<1>13. StreamInv'
  <2>1. \A t \in Streams : HeadIn(events', t) \in -1..MaxId - 1 /\ VersionsOf(events', t) = 0..HeadIn(events', t)
    BY <1>9, <1>10 DEF EventInv, StreamInv
  <2>2. \A e \in R : e.id <= lastId /\ e.version < e.id
    BY <1>1, <1>3, <1>4, <1>7
  <2>3. \A e \in events : e.id <= lastId /\ e.version < e.id
    BY DEF EventInv, StreamInv
  <2>4. Ordered(events')
    <3> SUFFICES ASSUME NEW e \in events', NEW f \in events', e.stream = f.stream, e # f
                 PROVE  (e.version < f.version <=> e.id < f.id) /\ e.version # f.version
      BY DEF Ordered
    <3>0. \A x \in events, y \in R : x.stream = y.stream =>
             x.version < y.version /\ x.id < y.id /\ x.version \in Int /\ y.version \in Int /\ x.id \in Int /\ y.id \in Int
      <4> SUFFICES ASSUME NEW x \in events, NEW y \in R, x.stream = s
                   PROVE  /\ x.version < y.version /\ x.id < y.id
                          /\ x.version \in Int /\ y.version \in Int /\ x.id \in Int /\ y.id \in Int
        BY <1>7
      <4>1. x.id <= base /\ x.id \in Int
        BY <1>3 DEF EventTypeOK, Event
      <4>2. x.version \in 0..v
        <5>1. x.version \in VersionsOf(events, s)
          BY DEF VersionsOf
        <5> QED
          BY <1>1, <1>2, <5>1 DEF EventInv, StreamInv
      <4> QED
        BY <1>1, <1>4, <1>7, <4>1, <4>2
    <3>1. CASE e \in events /\ f \in events
      BY <3>1 DEF EventInv, StreamInv, Ordered
    <3>2. CASE e \in R /\ f \in R
      <4>1. /\ e.id \in Int /\ f.id \in Int /\ e.version \in Int /\ f.version \in Int
            /\ e.id - base = e.version - v /\ f.id - base = f.version - v /\ e.version # f.version
        BY <1>1, <1>4, <1>7, <3>2
      <4> QED
        BY <1>1, <1>4, <4>1
    <3>3. CASE e \in events /\ f \in R
      BY <3>0, <3>3
    <3>4. CASE e \in R /\ f \in events
      <4>1. f.version < e.version /\ f.id < e.id
            /\ f.version \in Int /\ e.version \in Int /\ f.id \in Int /\ e.id \in Int
        BY <3>0, <3>4
      <4> QED
        BY <4>1
    <3> QED
      BY <1>5, <3>1, <3>2, <3>3, <3>4
  <2> QED
    BY <1>5, <2>1, <2>2, <2>3, <2>4 DEF StreamInv
<1>14. AppendInv'
  <2>1. ASSUME NEW x \in Appenders
        PROVE  AppendOK(append'[x], events', lastId')
    <3>1. CASE x = w
      BY <1>6, <3>1, EventFacts DEF AppendOK
    <3>2. CASE x # w /\ append[x].step # "inserted"
      <4>1. AppendOK(append[x], events, lastId) /\ append'[x] = append[x] /\ append[x] \in AppendType
        BY <1>6, <3>2, EventFacts DEF EventInv, AppendInv
      <4>2. append[x].step = "loaded" => append[x].expected <= HeadIn(events', append[x].stream)
        <5>1. append[x].stream \in Streams /\ append[x].expected \in Int
          BY <4>1 DEF AppendType
        <5>2. append[x].step = "loaded" => append[x].expected <= HeadIn(events, append[x].stream)
          BY <4>1 DEF AppendOK
        <5> QED
          BY <1>11, <5>1, <5>2
      <4> QED
        BY <3>2, <4>1, <4>2 DEF AppendOK
    <3>3. CASE x # w /\ append[x].step = "inserted"
      <4>1. AppendOK(append[x], events, lastId) /\ append'[x] = append[x] /\ append[x].stream # s
        BY <1>1, <1>6, <3>3 DEF EventInv, AppendInv, s
      <4>2. append[x].stream \in Streams
        BY EventFacts DEF AppendType
      <4>3. HeadIn(events', append[x].stream) = HeadIn(events, append[x].stream)
        BY <1>10, <4>1, <4>2
      <4>4. \A e \in events' : e.stream = append[x].stream => e \in events
        BY <1>5, <1>7, <4>1
      <4>5. PICK b \in 0..MaxId, m \in 1..MaxBatch :
                /\ append[x].rows = RowsAt(b, append[x].stream, append[x].expected, m)
                /\ append[x].expected < b /\ b + m <= lastId
                /\ \A e \in events : e.stream = append[x].stream => e.id <= b
        BY <3>3, <4>1 DEF AppendOK
      <4>6. \A e \in events' : e.stream = append[x].stream => e.id <= b
        BY <4>4, <4>5
      <4>7. append[x].expected = HeadIn(events', append[x].stream)
        BY <3>3, <4>1, <4>3 DEF AppendOK
      <4> QED
        BY <1>5, <3>3, <4>1, <4>5, <4>6, <4>7 DEF AppendOK
    <3> QED
      BY <3>1, <3>2, <3>3
  <2>2. \A x, y \in Appenders : x # y /\ append'[x].step = "inserted" /\ append'[y].step = "inserted"
                                  => append'[x].stream # append'[y].stream
    BY <1>6, EventFacts DEF EventInv, AppendInv
  <2> QED
    BY <2>1, <2>2 DEF AppendInv
<1>15. RebuildInv'
  <2>1. \A t \in Streams : snapshot[t] <= HeadIn(events', t)
    <3> TAKE t \in Streams
    <3>1. snapshot[t] <= HeadIn(events, t) /\ snapshot[t] \in Int
      BY EventFacts DEF EventInv, RebuildInv, EventTypeOK
    <3> QED
      BY <1>11, <3>1
  <2>2. ASSUME NEW r \in Readers
        PROVE  RebuildOK(rebuild[r], events')
    <3>1. RebuildOK(rebuild[r], events) /\ rebuild[r] \in RebuildType
      BY EventFacts DEF EventInv, RebuildInv
    <3>2. rebuild[r].stream \in Streams /\ rebuild[r].from \in Int /\ rebuild[r].head \in Int
      BY <3>1 DEF RebuildType
    <3>3. \A k \in Int : k <= HeadIn(events, rebuild[r].stream) => k <= HeadIn(events', rebuild[r].stream)
      BY <1>11, <3>2
    <3>4. -1..MaxId - 1 \subseteq Int
      OBVIOUS
    <3> QED
      BY <3>1, <3>2, <3>3, <3>4 DEF RebuildOK
  <2> QED
    BY <1>5, <2>1, <2>2 DEF RebuildInv
<1>16. SkipsOnlyLate'
  BY <1>5 DEF EventInv, SkipsOnlyLate
<1> QED
  BY <1>12, <1>13, <1>14, <1>15, <1>16 DEF EventInv

\* A batch of the projection has no hole: whatever is committed up to its largest id,
\* and behind the watermark, is in it.
LEMMA BatchWhole ==
    ASSUME EventTypeOK, NEW limit \in Nat, Batch(limit) # {}
    PROVE  /\ Batch(limit) \subseteq 1..MaxId /\ Max(Batch(limit)) \in Batch(limit)
           /\ \A e \in events : offset < e.id /\ e.id <= Max(Batch(limit)) => e.id \in Batch(limit)
<1> DEFINE next == {e.id : e \in {x \in events : x.id > offset}}
           B == {i \in next : Cardinality({j \in next : j < i}) < limit}
<1>1. B = Batch(limit)
  BY Zenon DEF Batch
<1>2. next \subseteq 1..MaxId /\ MaxId \in Nat /\ offset \in Int
  BY EventFacts DEF EventTypeOK, Event
<1>3. \A e \in events : offset < e.id => e.id \in next
  BY EventFacts DEF EventTypeOK, Event
<1> HIDE DEF next
<1>4. B \subseteq 1..MaxId /\ B \subseteq 0..MaxId
  <2>1. B \subseteq next
    BY Zenon
  <2> HIDE DEF B
  <2> QED
    BY <1>2, <2>1
<1>5. Max(B) \in B /\ \A i \in B : i <= Max(B)
  <2> HIDE DEF B
  <2> QED
    BY <1>1, <1>2, <1>4, MaxOfBounded
<1>6. ASSUME NEW i \in next, i <= Max(B)
      PROVE  i \in B
  <2> DEFINE low == {j \in next : j < i}
             high == {j \in next : j < Max(B)}
  <2>1. IsFiniteSet(high)
    <3>1. IsFiniteSet(1..MaxId)
      BY <1>2, FS_Interval
    <3>2. high \in SUBSET (1..MaxId)
      BY <1>2
    <3> HIDE DEF high
    <3> QED
      BY <3>1, <3>2, FS_Subset
  <2>2. low \in SUBSET high
    <3>1. Max(B) \in Int /\ i \in Int /\ \A j \in next : j \in Int
      BY <1>2, <1>4, <1>5
    <3> HIDE DEF B
    <3>2. \A j \in next : j < i => j < Max(B)
      BY <1>6, <3>1
    <3> QED
      BY <3>2, Zenon
  <2>3. Cardinality(high) < limit
    BY <1>5
  <2> HIDE DEF low, high
  <2>4. Cardinality(low) <= Cardinality(high) /\ Cardinality(low) \in Nat /\ Cardinality(high) \in Nat
    BY <2>1, <2>2, FS_Subset, FS_CardinalityType
  <2>5. Cardinality(low) < limit
    BY <2>3, <2>4
  <2> QED
    BY <2>5 DEF low
<1> HIDE DEF B
<1> QED
  BY <1>1, <1>3, <1>4, <1>5, <1>6

LEMMA ProjectInv ==
    ASSUME EventTypeOK, EventInv, NEW limit \in 1..MaxLimit, Project(limit)
    PROVE  EventTypeOK' /\ EventInv'
<1>1. /\ Batch(limit) # {} /\ applied' = applied \cup Batch(limit) /\ offset' = Max(Batch(limit))
      /\ UNCHANGED <<events, lastId, append, late, snapshot, rebuild>>
  BY Zenon DEF Project, Watermark
<1>2. limit \in Nat
  BY EventStoreAssumption
<1>3. /\ Batch(limit) \subseteq 1..MaxId /\ Max(Batch(limit)) \in Batch(limit)
      /\ \A e \in events : offset < e.id /\ e.id <= Max(Batch(limit)) => e.id \in Batch(limit)
  BY <1>1, <1>2, BatchWhole
<1>4. offset' \in 0..MaxId
  BY <1>1, <1>3, EventFacts
<1>5. EventTypeOK'
  BY <1>1, <1>3, <1>4 DEF EventTypeOK
<1>6. SkipsOnlyLate'
  <2> SUFFICES ASSUME NEW e \in events, e.id <= offset'
               PROVE  e.id \in applied' \cup late
    BY <1>1 DEF SkipsOnlyLate
  <2>1. CASE e.id <= offset
    BY <1>1, <2>1 DEF EventInv, SkipsOnlyLate
  <2>2. CASE ~(e.id <= offset)
    <3>1. e.id \in Int /\ offset \in Int
      BY EventFacts DEF EventTypeOK, Event
    <3> QED
      BY <1>1, <1>3, <2>2, <3>1
  <2> QED
    BY <2>1, <2>2
<1>7. StreamInv' /\ AppendInv' /\ RebuildInv'
  BY <1>1 DEF EventInv, StreamInv, AppendInv, RebuildInv
<1> QED
  BY <1>5, <1>6, <1>7 DEF EventInv

\* One reader's rebuild becomes b, maybe with a new snapshot.
LEMMA ReaderStep ==
    ASSUME EventTypeOK, EventInv, NEW r \in Readers, NEW b \in RebuildType,
           rebuild' = [rebuild EXCEPT ![r] = b],
           UNCHANGED <<events, lastId, append, offset, applied, late>>,
           snapshot' \in [Streams -> -1..MaxId - 1], \A s \in Streams : snapshot'[s] <= HeadIn(events, s),
           RebuildOK(b, events)
    PROVE  EventTypeOK' /\ EventInv'
<1>1. /\ rebuild' \in [Readers -> RebuildType] /\ rebuild'[r] = b
      /\ \A x \in Readers : x # r => rebuild'[x] = rebuild[x]
  BY EventFacts
<1>2. EventTypeOK'
  BY <1>1 DEF EventTypeOK, RebuildType
<1>3. RebuildInv'
  BY <1>1 DEF EventInv, RebuildInv
<1>4. StreamInv' /\ AppendInv' /\ SkipsOnlyLate'
  BY DEF EventInv, StreamInv, AppendInv, SkipsOnlyLate
<1> QED
  BY <1>2, <1>3, <1>4 DEF EventInv

\* LoadSnapshot, Load, SaveSnapshot and a rebuild that is not saved.
LEMMA RebuildStepInv ==
    ASSUME EventTypeOK, EventInv, NEW r \in Readers,
           (\E s \in Streams : LoadSnapshot(r, s)) \/ Load(r) \/ SaveSnapshot(r) \/ Discard(r)
    PROVE  EventTypeOK' /\ EventInv'
<1>1. UNCHANGED <<events, lastId, append, offset, applied, late>>
  BY DEF LoadSnapshot, Load, SaveSnapshot, Discard
<1>2. /\ snapshot \in [Streams -> -1..MaxId - 1] /\ \A s \in Streams : snapshot[s] <= HeadIn(events, s)
      /\ rebuild[r] \in RebuildType /\ RebuildOK(rebuild[r], events) /\ MaxId \in Nat
      /\ NoRebuild \in RebuildType /\ NoRebuild.step = "idle"
  BY EventFacts DEF EventTypeOK, EventInv, RebuildInv
<1>3. \A s \in Streams : HeadIn(events, s) \in -1..MaxId - 1 /\ VersionsOf(events, s) = 0..HeadIn(events, s)
  BY DEF EventInv, StreamInv
<1>4. \A n \in -1..MaxId - 1 : 0..n \in SUBSET Versions
  BY <1>2 DEF Versions
<1>5. ASSUME NEW s \in Streams, LoadSnapshot(r, s)
      PROVE  EventTypeOK' /\ EventInv'
  <2> DEFINE b == [step |-> "load", stream |-> s, from |-> snapshot[s], head |-> HeadIn(events, s),
                   state |-> 0..snapshot[s]]
  <2>1. rebuild' = [rebuild EXCEPT ![r] = b] /\ snapshot' = snapshot
    BY <1>5 DEF LoadSnapshot, ResumeFrom, LatestVersion, HeadIn
  <2>2. b \in RebuildType
    BY <1>2, <1>3, <1>4 DEF RebuildType
  <2>3. HeadIn(events, s) <= HeadIn(events, s)
    BY <1>3
  <2>4. RebuildOK(b, events)
    BY <1>2, <2>3 DEF RebuildOK
  <2> HIDE DEF b
  <2> QED
    BY <1>1, <1>2, <2>1, <2>2, <2>4, ReaderStep
<1>6. ASSUME Load(r)
      PROVE  EventTypeOK' /\ EventInv'
  <2> DEFINE s == rebuild[r].stream
             from == rebuild[r].from
             top == HeadIn(events, s)
             b == [rebuild[r] EXCEPT !.step = "done", !.state = 0..top]
  <2>1. /\ rebuild[r].step = "load" /\ snapshot' = snapshot
        /\ rebuild' = [rebuild EXCEPT ![r].step = "done",
                         ![r].state = @ \cup {v \in VersionsOf(events, s) : v > from}]
    BY <1>6 DEF Load
  <2>2. /\ s \in Streams /\ from \in -1..MaxId - 1 /\ rebuild[r].head \in -1..MaxId - 1
        /\ top \in -1..MaxId - 1 /\ VersionsOf(events, s) = 0..top
    BY <1>2, <1>3 DEF RebuildType
  <2>3. rebuild[r].state = 0..from /\ from <= top /\ rebuild[r].head <= top
    BY <1>2, <2>1 DEF RebuildOK
  <2>4. rebuild[r].state \cup {v \in VersionsOf(events, s) : v > from} = 0..top
    <3> HIDE DEF from, top
    <3>1. 0..from \cup {v \in 0..top : v > from} = 0..top
      BY <2>2, <2>3
    <3> QED
      BY <2>2, <2>3, <3>1
  <2>5. rebuild' = [rebuild EXCEPT ![r] = b]
    BY <2>1, <2>4, EventFacts
  <2>6. b \in RebuildType /\ b.step = "done" /\ b.state = 0..top /\ b.stream = s /\ b.head = rebuild[r].head
    BY <1>2, <1>4, <2>2 DEF RebuildType
  <2> HIDE DEF b, top, s
  <2>7. RebuildOK(b, events)
    <3>1. b.head <= top /\ top <= HeadIn(events, b.stream) /\ b.state = 0..top
      BY <2>2, <2>3, <2>6 DEF top
    <3> QED
      BY <2>2, <2>6, <3>1 DEF RebuildOK
  <2> QED
    BY <1>1, <1>2, <2>1, <2>5, <2>6, <2>7, ReaderStep
<1>7. ASSUME rebuild' = [rebuild EXCEPT ![r] = NoRebuild], SaveSnapshot(r) \/ Discard(r)
      PROVE  EventTypeOK' /\ EventInv'
  <2>1. RebuildOK(NoRebuild, events)
    BY <1>2 DEF RebuildOK
  <2>2. snapshot' \in [Streams -> -1..MaxId - 1] /\ \A s \in Streams : snapshot'[s] <= HeadIn(events, s)
    <3>1. CASE Discard(r)
      BY <1>2, <3>1 DEF Discard
    <3>2. CASE SaveSnapshot(r)
      <4>1. /\ rebuild[r].step = "done" /\ rebuild[r].state # {}
            /\ snapshot' = [snapshot EXCEPT ![rebuild[r].stream] = Max(rebuild[r].state)]
        BY <3>2 DEF SaveSnapshot
      <4>2. PICK v \in -1..MaxId - 1 : v <= HeadIn(events, rebuild[r].stream) /\ rebuild[r].state = 0..v
        BY <1>2, <4>1 DEF RebuildOK
      <4>3. v \in Nat
        BY <4>1, <4>2
      <4>4. Max(rebuild[r].state) = v
        BY <4>2, <4>3, MaxOfInterval
      <4>5. rebuild[r].stream \in Streams
        BY <1>2 DEF RebuildType
      <4> QED
        BY <1>2, <4>1, <4>2, <4>4, <4>5
    <3> QED
      BY <1>7, <3>1, <3>2
  <2> QED
    BY <1>1, <1>2, <1>7, <2>1, <2>2, ReaderStep
<1> QED
  BY <1>5, <1>6, <1>7 DEF SaveSnapshot, Discard

\* Every step of the event store keeps it.
LEMMA EventStepInv ==
    ASSUME EventTypeOK, EventInv, [EventNext]_eventVars
    PROVE  (EventTypeOK /\ EventInv)'
<1>1. ASSUME NEW w \in Appenders,
             \/ \E s \in Streams : ReadHead(w, s)
             \/ \E n \in 1..MaxBatch : AppendConflicts(w, n)
             \/ RollbackAppend(w)
      PROVE  (EventTypeOK /\ EventInv)'
  BY <1>1, ReadHeadInv
<1>2. ASSUME NEW w \in Appenders, NEW n \in 1..MaxBatch, AppendRows(w, n)
      PROVE  (EventTypeOK /\ EventInv)'
  BY <1>2, AppendRowsInv
<1>3. ASSUME NEW w \in Appenders, CommitAppend(w)
      PROVE  (EventTypeOK /\ EventInv)'
  BY <1>3, CommitAppendInv
<1>4. ASSUME NEW limit \in 1..MaxLimit, Project(limit)
      PROVE  (EventTypeOK /\ EventInv)'
  BY <1>4, ProjectInv
<1>5. ASSUME NEW r \in Readers,
             (\E s \in Streams : LoadSnapshot(r, s)) \/ Load(r) \/ SaveSnapshot(r) \/ Discard(r)
      PROVE  (EventTypeOK /\ EventInv)'
  BY <1>5, RebuildStepInv
<1>6. CASE UNCHANGED eventVars
  BY <1>6 DEF eventVars, EventTypeOK, EventInv, StreamInv, AppendInv, RebuildInv, SkipsOnlyLate
<1> QED
  BY <1>1, <1>2, <1>3, <1>4, <1>5, <1>6, Zenon DEF EventNext

\* The event store's invariant, for any number of streams, writers and readers.
THEOREM EventInvCorrect == EventSpec => [](EventTypeOK /\ EventInv)
<1>1. EventTypeOK /\ EventInv /\ [EventNext]_eventVars => (EventTypeOK /\ EventInv)'
  BY EventStepInv
<1> QED
  BY EventInitInv, <1>1, PTL DEF EventSpec

\* Optimistic concurrency keeps every stream and every rebuilt aggregate whole:
\* pg/eventstore.go, Append, LatestVersion, LoadSnapshot and Load.
THEOREM StreamsWholeCorrect == EventSpec => []StreamsWhole
<1>1. EventTypeOK /\ EventInv => StreamsWhole
  <2> SUFFICES ASSUME EventTypeOK, EventInv
               PROVE  StreamsWhole
    OBVIOUS
  <2>1. \A s \in Streams : VersionsOf(events, s) = 0..LatestVersion(s)
    BY DEF LatestVersion, HeadIn, EventInv, StreamInv
  <2>2. RebuiltWhole
    <3> SUFFICES ASSUME NEW r \in Readers, rebuild[r].step = "done"
                 PROVE  \E v \in -1..MaxId - 1 : v >= rebuild[r].head /\ rebuild[r].state = 0..v
      BY DEF RebuiltWhole
    <3>1. PICK v \in -1..MaxId - 1 : rebuild[r].head <= v /\ rebuild[r].state = 0..v
      BY DEF EventInv, RebuildInv, RebuildOK
    <3>2. rebuild[r].head \in Int
      BY EventFacts DEF RebuildType
    <3> QED
      BY <3>1, <3>2
  <2> QED
    BY <2>1, <2>2 DEF StreamsWhole, EventInv, StreamInv, Ordered
<1> QED
  BY <1>1, EventInvCorrect, PTL

\* The projection passes over no event that was there to be read: pg/eventstore.go,
\* Stream, and a caller that keeps the last offset it applied.
THEOREM SkipsOnlyLateCorrect == EventSpec => []SkipsOnlyLate
<1>1. EventInv => SkipsOnlyLate
  BY DEF EventInv
<1> QED
  BY <1>1, EventInvCorrect, PTL

-------------------------------------------------------------------------------
(***************************************************************************)
(* The linear migrators.                                                   *)
(***************************************************************************)

\* What Down rolls back: the greatest version the history calls applied.
LEMMA MaxApplied ==
    ASSUME Applied # {}
    PROVE  /\ Max(Applied) \in MVersions /\ history[Max(Applied)] = "applied"
           /\ \A v \in MVersions : history[v] = "applied" => v <= Max(Applied)
<1>1. MaxVersion \in Nat
  BY MigrationAssumption
<1>2. Applied \subseteq 0..MaxVersion
  BY <1>1 DEF Applied, MVersions
<1>3. Max(Applied) \in Applied /\ \A x \in Applied : x <= Max(Applied)
  BY <1>1, <1>2, MaxOfBounded
<1> DEFINE top == Max(Applied)
<1>4. top \in Applied /\ \A x \in Applied : x <= top
  BY <1>3
<1> HIDE DEF top
<1>5. /\ top \in MVersions /\ history[top] = "applied"
      /\ \A v \in MVersions : history[v] = "applied" => v <= top
  BY <1>4 DEF Applied
<1> QED
  BY <1>5 DEF top

-------------------------------------------------------------------------------
(***************************************************************************)
(* The inductive invariant.  What holds on PostgreSQL holds whatever       *)
(* becomes of the lock; the rest, while no lock has been lost.             *)
(***************************************************************************)

Working(m) == job[m].step \notin {"idle", "wait"}

\* PostgreSQL: between transactions a row and its migration agree.
PgInv ==
    engine = "pg" =>
        /\ halfDown = {}
        /\ \A m \in Migrators : job[m].step \in {"idle", "wait", "read", "next"}
        /\ \A v \in MVersions : \/ history[v] = "applied" /\ schema[v] = 2
                                \/ history[v] = "none" /\ schema[v] = 0

\* A run that is at a migration is at one that exists.
AtInv ==
    \A m \in Migrators :
        \/ job[m].step \in {"body", "record"}
        \/ job[m].step = "next" /\ job[m].dir = "down"
        => job[m].at \in MVersions

\* A run at work holds the lock.
LockInv == \A m \in Migrators : Working(m) => lock = m

\* A row tells the truth, or is that of a Down that stopped on the way.
RowsInv ==
    \A v \in MVersions :
        /\ v \in halfDown => history[v] = "applied"
        /\ v \notin halfDown => /\ history[v] = "applied" => schema[v] = 2
                                /\ history[v] = "none" => schema[v] = 0

\* What a run of Up knows: the history it read, and what it has applied since, is
\* the history.
UpKnows(m) ==
    job[m].dir = "up" =>
        /\ job[m].step = "next" =>
              \A v \in MVersions : history[v] = "applied" <=> v \in job[m].seen \/ v <= job[m].at
        /\ job[m].step \in {"body", "record"} =>
              /\ history[job[m].at] = "started"
              /\ \A v \in MVersions : history[v] = "applied" <=> v \in job[m].seen \/ v < job[m].at
        /\ job[m].step = "record" => schema[job[m].at] = 2

\* What a run of Down knows: its migration is the last one applied, and is counted
\* as half down from its first statement on.
DownKnows(m) ==
    job[m].dir = "down" =>
        /\ job[m].step \in {"next", "body", "record"} =>
              /\ history[job[m].at] = "applied"
              /\ \A v \in MVersions : history[v] = "applied" => v <= job[m].at
        /\ job[m].step \in {"body", "record"} => job[m].at \in halfDown
        /\ job[m].step = "record" => schema[job[m].at] = 0

Knows == \A m \in Migrators : UpKnows(m) /\ DownKnows(m)

Calm == AppliedInOrder /\ LockInv /\ RowsInv /\ Knows

MigInv == PgInv /\ AtInv /\ (~contested => Calm)

JobRecord == [step : {"idle", "wait", "read", "next", "body", "record"}, dir : {"up", "down"},
              seen : SUBSET MVersions, at : 0..MaxVersion]

-------------------------------------------------------------------------------
(***************************************************************************)
(* Facts the steps share.                                                  *)
(***************************************************************************)

LEMMA MigFacts ==
    ASSUME MigrationTypeOK
    PROVE  /\ job \in [Migrators -> JobRecord] /\ DOMAIN job = Migrators
           /\ history \in [MVersions -> {"none", "started", "applied"}]
           /\ schema \in [MVersions -> 0..2]
           /\ lock \in Migrators \cup {NoMigrator} /\ halfDown \subseteq MVersions
           /\ engine \in {"pg", "mysql"} /\ contested \in BOOLEAN
           /\ MaxVersion \in Nat /\ NoMigrator \notin Migrators
           /\ \A v \in MVersions : v \in Nat /\ v \in 0..MaxVersion
  BY MigrationAssumption DEF MigrationTypeOK, JobRecord, MVersions

\* Without a lost lock, one run at most is at work.
LEMMA Alone ==
    ASSUME LockInv, NEW m \in Migrators, Working(m)
    PROVE  \A n \in Migrators \ {m} : ~Working(n)
  BY DEF LockInv

\* A run that is not at work knows nothing.
LEMMA Ignorant ==
    ASSUME NEW m \in Migrators, ~Working(m)
    PROVE  UpKnows(m) /\ DownKnows(m)
  BY DEF Working, UpKnows, DownKnows

\* Only m's job changes.
OnlyJob(m) == \A n \in Migrators \ {m} : job'[n] = job[n]

\* A run ends, or is given up: the database is as it was.
LEMMA EndStep ==
    ASSUME MigrationTypeOK, MigInv, NEW m \in Migrators,
           job' = [job EXCEPT ![m] = NoJob],
           lock' \in {lock, NoMigrator}, \A n \in Migrators \ {m} : lock = n => lock' = n,
           UNCHANGED <<engine, database, contested, halfDown>>
    PROVE  lock' \in Migrators \cup {NoMigrator} /\ job' \in [Migrators -> JobRecord] /\ MigInv'
<1>1. /\ job \in [Migrators -> JobRecord]
      /\ lock \in Migrators \cup {NoMigrator} /\ MaxVersion \in Nat
  BY MigFacts
<1>2. NoJob \in JobRecord
  BY <1>1 DEF NoJob, JobRecord
<1>3. job' \in [Migrators -> JobRecord] /\ job'[m] = NoJob /\ OnlyJob(m)
  BY <1>1, <1>2 DEF OnlyJob
<1>4. lock' \in Migrators \cup {NoMigrator}
  BY <1>1
<1>5. job'[m].step = "idle"
  BY <1>3 DEF NoJob
<1>6. history' = history /\ schema' = schema /\ engine' = engine /\ contested' = contested
          /\ halfDown' = halfDown
  BY DEF database
<1>7. PgInv'
  BY <1>3, <1>5, <1>6 DEF MigInv, PgInv, OnlyJob
<1>8. AtInv'
  BY <1>3, <1>5 DEF MigInv, AtInv, OnlyJob
<1>9. ASSUME ~contested' PROVE Calm'
  <2>1. Calm
    BY <1>6, <1>9 DEF MigInv
  <2>2. AppliedInOrder' /\ RowsInv'
    BY <1>6, <2>1 DEF Calm, AppliedInOrder, RowsInv
  <2>3. LockInv'
    BY <1>3, <1>5, <2>1 DEF Calm, LockInv, Working, OnlyJob
  <2>4. Knows'
    <3> SUFFICES ASSUME NEW n \in Migrators PROVE (UpKnows(n) /\ DownKnows(n))'
      BY DEF Knows
    <3>1. CASE n = m
      BY <1>5, <3>1 DEF UpKnows, DownKnows
    <3>2. CASE n # m
      <4>1. job'[n] = job[n]
        BY <1>3, <3>2 DEF OnlyJob
      <4>2. UpKnows(n) /\ DownKnows(n)
        BY <2>1 DEF Calm, Knows
      <4> QED
        BY <1>6, <4>1, <4>2 DEF UpKnows, DownKnows
    <3> QED
      BY <3>1, <3>2
  <2> QED
    BY <2>2, <2>3, <2>4 DEF Calm
<1> QED
  BY <1>3, <1>4, <1>7, <1>8, <1>9 DEF MigInv

LEMMA LeaveStep ==
    ASSUME MigrationTypeOK, MigInv, NEW m \in Migrators, Leave(m),
           UNCHANGED <<engine, database, contested, halfDown>>
    PROVE  lock' \in Migrators \cup {NoMigrator} /\ job' \in [Migrators -> JobRecord] /\ MigInv'
<1>1. job' = [job EXCEPT ![m] = NoJob]
  BY DEF Leave
<1>2. lock' \in {lock, NoMigrator} /\ \A n \in Migrators \ {m} : lock = n => lock' = n
  BY DEF Leave, Unlock
<1> QED
  BY <1>1, <1>2, EndStep

\* The step that leaves the job of m at work alone, with the lock it had: what has
\* to be shown of the new state.
LEMMA WorkStep ==
    ASSUME MigrationTypeOK, MigInv, NEW m \in Migrators, Working(m),
           OnlyJob(m), lock' = lock \/ ~Working(m)', contested' = contested,
           \A n \in Migrators \ {m} : lock = n => lock' = n,
           ~contested => AppliedInOrder' /\ RowsInv' /\ (UpKnows(m) /\ DownKnows(m))'
    PROVE  ~contested' => Calm'
<1> SUFFICES ASSUME ~contested PROVE Calm'
  OBVIOUS
<1>1. LockInv
  BY DEF MigInv, Calm
<1>2. \A n \in Migrators \ {m} : ~Working(n) /\ ~Working(n)'
  BY <1>1, Alone DEF OnlyJob, Working
<1>3. lock = m
  BY <1>1 DEF LockInv
<1>4. LockInv'
  BY <1>2, <1>3 DEF LockInv
<1>5. Knows'
  <2> SUFFICES ASSUME NEW n \in Migrators PROVE (UpKnows(n) /\ DownKnows(n))'
    BY DEF Knows
  <2>1. CASE n = m
    BY <2>1
  <2>2. CASE n # m
    <3>1. job'[n].step \in {"idle", "wait"}
      BY <1>2, <2>2 DEF Working
    <3> QED
      BY <3>1 DEF UpKnows, DownKnows
  <2> QED
    BY <2>1, <2>2
<1> QED
  BY <1>4, <1>5 DEF Calm

-------------------------------------------------------------------------------
(***************************************************************************)
(* One lemma per action.                                                   *)
(***************************************************************************)

LEMMA CallStep ==
    ASSUME MigrationTypeOK, MigInv, NEW m \in Migrators, NEW dir \in {"up", "down"}, CallMigrator(m, dir)
    PROVE  MigrationTypeOK' /\ MigInv'
<1>1. /\ job \in [Migrators -> JobRecord] /\ MaxVersion \in Nat
  BY MigFacts
<1> DEFINE r == [NoJob EXCEPT !.step = "wait", !.dir = dir]
<1>2. r \in JobRecord /\ r.step = "wait"
  <2>1. NoJob \in JobRecord
    BY <1>1 DEF NoJob, JobRecord
  <2>2. \A q \in JobRecord : LET s == [q EXCEPT !.step = "wait", !.dir = dir]
                              IN  s \in JobRecord /\ s.step = "wait"
    BY DEF JobRecord
  <2> QED
    BY <2>1, <2>2
<1>3. job' = [job EXCEPT ![m] = r]
  BY DEF CallMigrator
<1> HIDE DEF r
<1>4. job' \in [Migrators -> JobRecord] /\ job'[m].step = "wait" /\ OnlyJob(m)
  BY <1>1, <1>2, <1>3 DEF OnlyJob
<1>5. /\ history' = history /\ schema' = schema /\ engine' = engine /\ contested' = contested
      /\ halfDown' = halfDown /\ lock' = lock /\ mishaps' = mishaps
  BY DEF CallMigrator, database
<1>6. runs' \in 0..MaxRuns
  <2>1. MaxRuns \in Nat /\ runs \in 0..MaxRuns
    BY MigrationAssumption DEF MigrationTypeOK
  <2>2. runs < MaxRuns /\ runs' = runs + 1
    BY DEF CallMigrator
  <2> QED
    BY <2>1, <2>2
<1>7. MigrationTypeOK'
  BY <1>4, <1>5, <1>6 DEF MigrationTypeOK, JobRecord
<1>8. PgInv' /\ AtInv'
  BY <1>4, <1>5 DEF MigInv, PgInv, AtInv, OnlyJob
<1>9. ASSUME ~contested' PROVE Calm'
  <2>1. Calm
    BY <1>5, <1>9 DEF MigInv
  <2>2. AppliedInOrder' /\ RowsInv'
    BY <1>5, <2>1 DEF Calm, AppliedInOrder, RowsInv
  <2>3. LockInv'
    BY <1>4, <1>5, <2>1 DEF Calm, LockInv, Working, OnlyJob
  <2>4. Knows'
    <3> SUFFICES ASSUME NEW n \in Migrators PROVE (UpKnows(n) /\ DownKnows(n))'
      BY DEF Knows
    <3>1. CASE n = m
      BY <1>4, <3>1 DEF UpKnows, DownKnows
    <3>2. CASE n # m
      <4>1. job'[n] = job[n]
        BY <1>4, <3>2 DEF OnlyJob
      <4>2. UpKnows(n) /\ DownKnows(n)
        BY <2>1 DEF Calm, Knows
      <4> QED
        BY <1>5, <4>1, <4>2 DEF UpKnows, DownKnows
    <3> QED
      BY <3>1, <3>2
  <2> QED
    BY <2>2, <2>3, <2>4 DEF Calm
<1> QED
  BY <1>7, <1>8, <1>9 DEF MigInv

LEMMA TakeLockStep ==
    ASSUME MigrationTypeOK, MigInv, NEW m \in Migrators, TakeLock(m)
    PROVE  MigrationTypeOK' /\ MigInv'
<1>1. /\ job \in [Migrators -> JobRecord] /\ job[m] \in JobRecord /\ NoMigrator \notin Migrators
  BY MigFacts
<1>2. job' = [job EXCEPT ![m].step = "read"] /\ lock' = m /\ lock = NoMigrator
  BY DEF TakeLock, LockFree
<1>3. job' \in [Migrators -> JobRecord] /\ job'[m].step = "read" /\ OnlyJob(m)
  <2>1. [job[m] EXCEPT !.step = "read"] \in JobRecord
    BY <1>1 DEF JobRecord
  <2>2. job' = [job EXCEPT ![m] = [job[m] EXCEPT !.step = "read"]]
    BY <1>2
  <2> QED
    BY <1>1, <2>1, <2>2 DEF OnlyJob, JobRecord
<1>4. /\ history' = history /\ schema' = schema /\ engine' = engine /\ contested' = contested
      /\ halfDown' = halfDown /\ runs' = runs /\ mishaps' = mishaps
  BY DEF TakeLock, database
<1>5. MigrationTypeOK'
  BY <1>2, <1>3, <1>4 DEF MigrationTypeOK, JobRecord
<1>6. PgInv' /\ AtInv'
  BY <1>3, <1>4 DEF MigInv, PgInv, AtInv, OnlyJob
<1>7. ASSUME ~contested' PROVE Calm'
  <2>1. Calm
    BY <1>4, <1>7 DEF MigInv
  <2>2. AppliedInOrder' /\ RowsInv'
    BY <1>4, <2>1 DEF Calm, AppliedInOrder, RowsInv
  <2>3. \A n \in Migrators : ~Working(n)
    BY <1>1, <1>2, <2>1 DEF Calm, LockInv
  <2>4. LockInv'
    BY <1>2, <1>3, <2>3 DEF LockInv, Working, OnlyJob
  <2>5. Knows'
    <3> SUFFICES ASSUME NEW n \in Migrators PROVE (UpKnows(n) /\ DownKnows(n))'
      BY DEF Knows
    <3>1. job'[n].step \in {"idle", "wait", "read"}
      BY <1>3, <2>3 DEF OnlyJob, Working
    <3> QED
      BY <3>1 DEF UpKnows, DownKnows
  <2> QED
    BY <2>2, <2>4, <2>5 DEF Calm
<1> QED
  BY <1>5, <1>6, <1>7 DEF MigInv

LEMMA LockTimeoutStep ==
    ASSUME MigrationTypeOK, MigInv, NEW m \in Migrators, LockTimeout(m)
    PROVE  MigrationTypeOK' /\ MigInv'
<1>1. lock' \in Migrators \cup {NoMigrator} /\ job' \in [Migrators -> JobRecord] /\ MigInv'
  BY EndStep DEF LockTimeout
<1> QED
  BY <1>1 DEF MigrationTypeOK, JobRecord, LockTimeout, database

LEMMA LockLostStep ==
    ASSUME MigrationTypeOK, MigInv, LockLost
    PROVE  MigrationTypeOK' /\ MigInv'
<1>1. mishaps' \in 0..MaxMishaps
  <2>1. MaxMishaps \in Nat /\ mishaps \in 0..MaxMishaps
    BY MigrationAssumption DEF MigrationTypeOK
  <2>2. mishaps < MaxMishaps /\ mishaps' = mishaps + 1
    BY DEF LockLost, Mishap
  <2> QED
    BY <2>1, <2>2
<1>2. MigrationTypeOK'
  BY <1>1 DEF MigrationTypeOK, LockLost, database
<1>3. PgInv' /\ AtInv' /\ contested'
  BY DEF MigInv, PgInv, AtInv, LockLost, database
<1> QED
  BY <1>2, <1>3 DEF MigInv

LEMMA MigrationFailsStep ==
    ASSUME MigrationTypeOK, MigInv, NEW m \in Migrators, MigrationFails(m)
    PROVE  MigrationTypeOK' /\ MigInv'
<1>1. lock' \in Migrators \cup {NoMigrator} /\ job' \in [Migrators -> JobRecord] /\ MigInv'
  BY LeaveStep DEF MigrationFails
<1>2. mishaps' \in 0..MaxMishaps
  <2>1. MaxMishaps \in Nat /\ mishaps \in 0..MaxMishaps
    BY MigrationAssumption DEF MigrationTypeOK
  <2>2. mishaps < MaxMishaps /\ mishaps' = mishaps + 1
    BY DEF MigrationFails, Mishap
  <2> QED
    BY <2>1, <2>2
<1> QED
  BY <1>1, <1>2 DEF MigrationTypeOK, JobRecord, MigrationFails, database

LEMMA UpDoneStep ==
    ASSUME MigrationTypeOK, MigInv, NEW m \in Migrators, UpDone(m)
    PROVE  MigrationTypeOK' /\ MigInv'
<1>1. lock' \in Migrators \cup {NoMigrator} /\ job' \in [Migrators -> JobRecord] /\ MigInv'
  BY LeaveStep DEF UpDone
<1> QED
  BY <1>1 DEF MigrationTypeOK, JobRecord, UpDone, database

LEMMA ReadHistoryStep ==
    ASSUME MigrationTypeOK, MigInv, NEW m \in Migrators, ReadHistory(m)
    PROVE  MigrationTypeOK' /\ MigInv'
<1>1. UNCHANGED <<engine, database, runs, mishaps, contested, halfDown>>
  BY DEF ReadHistory
<1>2. CASE Leave(m)
  <2>1. lock' \in Migrators \cup {NoMigrator} /\ job' \in [Migrators -> JobRecord] /\ MigInv'
    BY <1>1, <1>2, LeaveStep
  <2> QED
    BY <1>1, <2>1 DEF MigrationTypeOK, JobRecord, database
<1>3. CASE ~Leave(m)
  <2> DEFINE up == job[m].dir = "up"
             top == IF up THEN 0 ELSE Max(Applied)
             r == [job[m] EXCEPT !.step = "next", !.seen = Applied, !.at = top]
  <2>1. /\ job \in [Migrators -> JobRecord] /\ job[m] \in JobRecord /\ NoMigrator \notin Migrators
        /\ MaxVersion \in Nat
    BY MigFacts
  <2>2. /\ job[m].step = "read" /\ lock' = lock
        /\ job' = [job EXCEPT ![m].step = "next", ![m].seen = Applied, ![m].at = top]
        /\ up \/ Applied # {}
    BY <1>3 DEF ReadHistory
  <2>3. job' = [job EXCEPT ![m] = r]
    BY <2>1, <2>2
  <2>4. /\ top \in 0..MaxVersion
        /\ ~up => /\ top \in MVersions /\ history[top] = "applied"
                  /\ \A v \in MVersions : history[v] = "applied" => v <= top
    <3>1. CASE up
      BY <2>1, <3>1
    <3>2. CASE ~up
      <4>1. /\ Max(Applied) \in MVersions /\ history[Max(Applied)] = "applied"
            /\ \A v \in MVersions : history[v] = "applied" => v <= Max(Applied)
        BY <2>2, <3>2, MaxApplied
      <4>2. top = Max(Applied)
        BY <3>2
      <4> HIDE DEF top
      <4>3. /\ top \in MVersions /\ history[top] = "applied"
            /\ \A v \in MVersions : history[v] = "applied" => v <= top
        BY <4>1, <4>2
      <4> QED
        BY <2>1, <3>2, <4>3 DEF MVersions
    <3> QED
      BY <3>1, <3>2
  <2>5. up => top = 0
    OBVIOUS
  <2> HIDE DEF top
  <2>6. /\ r \in JobRecord /\ r.step = "next" /\ r.dir = job[m].dir /\ r.seen = Applied /\ r.at = top
    BY <2>1, <2>4 DEF JobRecord, Applied
  <2> HIDE DEF r
  <2>7. job' \in [Migrators -> JobRecord] /\ job'[m] = r /\ OnlyJob(m)
    BY <2>1, <2>3, <2>6 DEF OnlyJob
  <2>8. /\ history' = history /\ schema' = schema /\ engine' = engine /\ contested' = contested
        /\ halfDown' = halfDown /\ runs' = runs /\ mishaps' = mishaps
    BY <1>1 DEF database
  <2>9. MigrationTypeOK'
    BY <2>2, <2>7, <2>8 DEF MigrationTypeOK, JobRecord
  <2>10. PgInv'
    BY <2>6, <2>7, <2>8 DEF MigInv, PgInv, OnlyJob
  <2>11. AtInv'
    <3> SUFFICES ASSUME NEW n \in Migrators,
                        \/ job'[n].step \in {"body", "record"}
                        \/ job'[n].step = "next" /\ job'[n].dir = "down"
                 PROVE  job'[n].at \in MVersions
      BY DEF AtInv
    <3>1. CASE n = m
      BY <2>4, <2>6, <2>7, <3>1
    <3>2. CASE n # m
      BY <2>7, <3>2 DEF MigInv, AtInv, OnlyJob
    <3> QED
      BY <3>1, <3>2
  <2>12. ~contested' => Calm'
    <3>1. Working(m)
      BY <2>2 DEF Working
    <3>2. ASSUME ~contested PROVE AppliedInOrder' /\ RowsInv'
      BY <2>8, <3>2 DEF MigInv, Calm, AppliedInOrder, RowsInv
    <3>3. UpKnows(m)'
      <4> SUFFICES ASSUME up, NEW v \in MVersions
                   PROVE  history[v] = "applied" <=> v \in Applied \/ v <= 0
        BY <2>5, <2>6, <2>7, <2>8 DEF UpKnows
      <4>1. ~(v <= 0)
        BY <2>1 DEF MVersions
      <4> QED
        BY <4>1 DEF Applied
    <3>4. DownKnows(m)'
      BY <2>4, <2>6, <2>7, <2>8 DEF DownKnows
    <3> QED
      BY <2>2, <2>7, <2>8, <3>1, <3>2, <3>3, <3>4, WorkStep
  <2> QED
    BY <2>9, <2>10, <2>11, <2>12 DEF MigInv
<1> QED
  BY <1>2, <1>3

LEMMA UpTxStep ==
    ASSUME MigrationTypeOK, MigInv, NEW m \in Migrators, NEW v \in MVersions, UpTx(m, v)
    PROVE  MigrationTypeOK' /\ MigInv'
<1>1. UNCHANGED <<engine, runs, mishaps, contested, halfDown>> /\ engine = "pg"
      /\ job[m].step = "next" /\ job[m].dir = "up" /\ Pending(m, v)
  BY DEF UpTx
<1>2. CASE history[v] # "none"
  <2>1. Leave(m) /\ UNCHANGED database
    BY <1>2 DEF UpTx
  <2>2. lock' \in Migrators \cup {NoMigrator} /\ job' \in [Migrators -> JobRecord] /\ MigInv'
    BY <1>1, <2>1, LeaveStep
  <2> QED
    BY <1>1, <2>1, <2>2 DEF MigrationTypeOK, JobRecord, database
<1>3. CASE history[v] = "none"
  <2>1. /\ job \in [Migrators -> JobRecord] /\ job[m] \in JobRecord /\ MaxVersion \in Nat
        /\ history \in [MVersions -> {"none", "started", "applied"}] /\ schema \in [MVersions -> 0..2]
        /\ v \in Nat /\ v \in 0..MaxVersion /\ \A w \in MVersions : w \in Nat
    BY MigFacts
  <2>2. /\ schema' = [schema EXCEPT ![v] = 2] /\ history' = [history EXCEPT ![v] = "applied"]
        /\ job' = [job EXCEPT ![m].at = v] /\ lock' = lock
    BY <1>3 DEF UpTx
  <2> DEFINE r == [job[m] EXCEPT !.at = v]
  <2>3. job' = [job EXCEPT ![m] = r]
    BY <2>1, <2>2
  <2>4. r \in JobRecord /\ r.step = "next" /\ r.dir = "up" /\ r.seen = job[m].seen /\ r.at = v
    BY <1>1, <2>1 DEF JobRecord
  <2> HIDE DEF r
  <2>5. job' \in [Migrators -> JobRecord] /\ job'[m] = r /\ OnlyJob(m)
    BY <2>1, <2>3, <2>4 DEF OnlyJob
  <2>6. /\ schema' \in [MVersions -> 0..2] /\ history' \in [MVersions -> {"none", "started", "applied"}]
        /\ schema'[v] = 2 /\ history'[v] = "applied"
        /\ \A w \in MVersions \ {v} : schema'[w] = schema[w] /\ history'[w] = history[w]
    BY <2>1, <2>2
  <2>7. MigrationTypeOK'
    BY <1>1, <2>2, <2>5, <2>6 DEF MigrationTypeOK, JobRecord
  <2>8. PgInv'
    BY <1>1, <2>4, <2>5, <2>6 DEF MigInv, PgInv, OnlyJob
  <2>9. AtInv'
    BY <2>4, <2>5 DEF MigInv, AtInv, OnlyJob
  <2>10. ~contested' => Calm'
    <3>1. Working(m)
      BY <1>1 DEF Working
    <3>2. ASSUME ~contested PROVE AppliedInOrder' /\ RowsInv' /\ (UpKnows(m) /\ DownKnows(m))'
      <4>1. UpKnows(m) /\ AppliedInOrder /\ RowsInv
        BY <3>2 DEF MigInv, Calm, Knows
      <4>2. \A w \in MVersions : history[w] = "applied" <=> w \in job[m].seen \/ w <= job[m].at
        BY <1>1, <4>1 DEF UpKnows
      <4>3. job[m].at \in Nat /\ v > job[m].at
        BY <1>1, <2>1 DEF Pending, JobRecord
      <4>4. \A w \in MVersions : w < v => history[w] = "applied"
        <5> SUFFICES ASSUME NEW w \in MVersions, w < v PROVE history[w] = "applied"
          OBVIOUS
        <5>1. w \in 1..v - 1
          BY <2>1 DEF MVersions
        <5>2. w \in job[m].seen \/ w <= job[m].at
          BY <1>1, <5>1 DEF Pending
        <5> QED
          BY <4>2, <5>2
      <4>5. AppliedInOrder'
        <5> SUFFICES ASSUME NEW x \in MVersions, NEW w \in MVersions, w < x, history'[x] = "applied"
                     PROVE  history'[w] = "applied"
          BY DEF AppliedInOrder
        <5>1. CASE w = v
          BY <2>6, <5>1
        <5>2. CASE x = v /\ w # v
          BY <2>6, <4>4, <5>2
        <5>3. CASE x # v /\ w # v
          BY <2>6, <4>1, <5>3 DEF AppliedInOrder
        <5> QED
          BY <5>1, <5>2, <5>3
      <4>6. v \notin halfDown
        BY <1>3, <4>1 DEF RowsInv
      <4>7. RowsInv'
        BY <1>1, <2>6, <4>1, <4>6 DEF RowsInv
      <4>8. \A w \in MVersions : history'[w] = "applied" <=> w \in job[m].seen \/ w <= v
        <5> TAKE w \in MVersions
        <5>1. CASE w = v
          BY <2>1, <2>6, <5>1
        <5>2. CASE w # v
          <6>1. w <= v <=> w < v
            BY <2>1, <5>2
          <6>2. w <= job[m].at => w < v
            <7>1. w \in Nat /\ v \in Nat /\ job[m].at \in Nat /\ v > job[m].at
              BY <2>1, <4>3
            <7> QED
              BY <7>1
          <6> QED
            BY <2>6, <4>2, <4>4, <5>2, <6>1, <6>2
        <5> QED
          BY <5>1, <5>2
      <4>9. UpKnows(m)' /\ DownKnows(m)'
        BY <2>4, <2>5, <4>8 DEF UpKnows, DownKnows
      <4> QED
        BY <4>5, <4>7, <4>9
    <3> QED
      BY <1>1, <2>2, <2>5, <3>1, <3>2, WorkStep
  <2> QED
    BY <2>7, <2>8, <2>9, <2>10 DEF MigInv
<1> QED
  BY <1>2, <1>3

LEMMA ClaimStep ==
    ASSUME MigrationTypeOK, MigInv, NEW m \in Migrators, NEW v \in MVersions, Claim(m, v)
    PROVE  MigrationTypeOK' /\ MigInv'
<1>1. UNCHANGED <<engine, schema, runs, mishaps, contested, halfDown>> /\ engine = "mysql"
      /\ job[m].step = "next" /\ job[m].dir = "up" /\ Pending(m, v)
  BY DEF Claim
<1>2. CASE history[v] # "none"
  <2>1. Leave(m) /\ UNCHANGED database
    BY <1>1, <1>2 DEF Claim, database
  <2>2. lock' \in Migrators \cup {NoMigrator} /\ job' \in [Migrators -> JobRecord] /\ MigInv'
    BY <1>1, <2>1, LeaveStep
  <2> QED
    BY <1>1, <2>1, <2>2 DEF MigrationTypeOK, JobRecord, database
<1>3. CASE history[v] = "none"
  <2>1. /\ job \in [Migrators -> JobRecord] /\ job[m] \in JobRecord /\ MaxVersion \in Nat
        /\ history \in [MVersions -> {"none", "started", "applied"}] /\ schema \in [MVersions -> 0..2]
        /\ v \in Nat /\ v \in 0..MaxVersion /\ \A w \in MVersions : w \in Nat
    BY MigFacts
  <2>2. /\ history' = [history EXCEPT ![v] = "started"]
        /\ job' = [job EXCEPT ![m].step = "body", ![m].at = v] /\ lock' = lock
    BY <1>3 DEF Claim, ClaimedRow
  <2> DEFINE r == [job[m] EXCEPT !.step = "body", !.at = v]
  <2>3. job' = [job EXCEPT ![m] = r]
    BY <2>1, <2>2
  <2>4. r \in JobRecord /\ r.step = "body" /\ r.dir = "up" /\ r.seen = job[m].seen /\ r.at = v
    BY <1>1, <2>1 DEF JobRecord
  <2> HIDE DEF r
  <2>5. job' \in [Migrators -> JobRecord] /\ job'[m] = r /\ OnlyJob(m)
    BY <2>1, <2>3, <2>4 DEF OnlyJob
  <2>6. /\ history' \in [MVersions -> {"none", "started", "applied"}] /\ history'[v] = "started"
        /\ \A w \in MVersions \ {v} : history'[w] = history[w]
    BY <2>1, <2>2
  <2>7. MigrationTypeOK'
    BY <1>1, <2>2, <2>5, <2>6 DEF MigrationTypeOK, JobRecord
  <2>8. PgInv'
    BY <1>1 DEF PgInv
  <2>9. AtInv'
    BY <2>4, <2>5 DEF MigInv, AtInv, OnlyJob
  <2>10. ~contested' => Calm'
    <3>1. Working(m)
      BY <1>1 DEF Working
    <3>2. ASSUME ~contested PROVE AppliedInOrder' /\ RowsInv' /\ (UpKnows(m) /\ DownKnows(m))'
      <4>1. UpKnows(m) /\ AppliedInOrder /\ RowsInv
        BY <3>2 DEF MigInv, Calm, Knows
      <4>2. \A w \in MVersions : history[w] = "applied" <=> w \in job[m].seen \/ w <= job[m].at
        BY <1>1, <4>1 DEF UpKnows
      <4>3. job[m].at \in Nat /\ v > job[m].at /\ v \notin job[m].seen
        BY <1>1, <2>1 DEF Pending, JobRecord
      <4>4. \A w \in MVersions : w < v => history[w] = "applied"
        <5> SUFFICES ASSUME NEW w \in MVersions, w < v PROVE history[w] = "applied"
          OBVIOUS
        <5>1. w \in 1..v - 1
          BY <2>1 DEF MVersions
        <5>2. w \in job[m].seen \/ w <= job[m].at
          BY <1>1, <5>1 DEF Pending
        <5> QED
          BY <4>2, <5>2
      <4>5. AppliedInOrder'
        <5> SUFFICES ASSUME NEW x \in MVersions, NEW w \in MVersions, w < x, history'[x] = "applied"
                     PROVE  history'[w] = "applied"
          BY DEF AppliedInOrder
        <5>1. x # v /\ history[x] = "applied"
          BY <2>6
        <5>2. history[w] = "applied"
          BY <4>1, <5>1 DEF AppliedInOrder
        <5> QED
          BY <1>3, <2>6, <5>2
      <4>6. v \notin halfDown
        BY <1>3, <4>1 DEF RowsInv
      <4>7. RowsInv'
        BY <1>1, <2>6, <4>1, <4>6 DEF RowsInv
      <4>8. \A w \in MVersions : history'[w] = "applied" <=> w \in job[m].seen \/ w < v
        <5> TAKE w \in MVersions
        <5>1. CASE w = v
          BY <2>1, <2>6, <4>3, <5>1
        <5>2. CASE w # v
          <6>2. w <= job[m].at => w < v
            <7>1. w \in Nat /\ v \in Nat /\ job[m].at \in Nat /\ v > job[m].at
              BY <2>1, <4>3
            <7> QED
              BY <7>1
          <6> QED
            BY <2>6, <4>2, <4>4, <5>2, <6>2
        <5> QED
          BY <5>1, <5>2
      <4>9. UpKnows(m)' /\ DownKnows(m)'
        BY <2>4, <2>5, <2>6, <4>8 DEF UpKnows, DownKnows
      <4> QED
        BY <4>5, <4>7, <4>9
    <3> QED
      BY <1>1, <2>2, <2>5, <3>1, <3>2, WorkStep
  <2> QED
    BY <2>7, <2>8, <2>9, <2>10 DEF MigInv
<1> QED
  BY <1>2, <1>3

LEMMA StartDownStep ==
    ASSUME MigrationTypeOK, MigInv, NEW m \in Migrators, StartDown(m)
    PROVE  MigrationTypeOK' /\ MigInv'
<1> DEFINE v == job[m].at
           r == [job[m] EXCEPT !.step = "body"]
<1>1. /\ UNCHANGED <<engine, database, lock, runs, mishaps, contested>> /\ engine = "mysql"
      /\ job[m].step = "next" /\ job[m].dir = "down" /\ halfDown' = halfDown \cup {v}
      /\ job' = [job EXCEPT ![m].step = "body"]
  BY DEF StartDown
<1>2. /\ job \in [Migrators -> JobRecord] /\ job[m] \in JobRecord /\ halfDown \subseteq MVersions
  BY MigFacts
<1>3. job' = [job EXCEPT ![m] = r]
  BY <1>1, <1>2
<1>4. r \in JobRecord /\ r.step = "body" /\ r.dir = "down" /\ r.at = v
  BY <1>1, <1>2 DEF JobRecord
<1>5. v \in MVersions
  BY <1>1 DEF MigInv, AtInv
<1> HIDE DEF r, v
<1>6. job' \in [Migrators -> JobRecord] /\ job'[m] = r /\ OnlyJob(m)
  BY <1>2, <1>3, <1>4 DEF OnlyJob
<1>7. history' = history /\ schema' = schema
  BY <1>1 DEF database
<1>8. halfDown' \subseteq MVersions
  BY <1>1, <1>2, <1>5
<1>9. MigrationTypeOK'
  BY <1>1, <1>6, <1>7, <1>8 DEF MigrationTypeOK, JobRecord
<1>10. PgInv'
  BY <1>1 DEF PgInv
<1>11. AtInv'
  BY <1>4, <1>5, <1>6 DEF MigInv, AtInv, OnlyJob
<1>12. ~contested' => Calm'
  <2>1. Working(m)
    BY <1>1 DEF Working
  <2>2. ASSUME ~contested PROVE AppliedInOrder' /\ RowsInv' /\ (UpKnows(m) /\ DownKnows(m))'
    <3>1. DownKnows(m) /\ AppliedInOrder /\ RowsInv
      BY <2>2 DEF MigInv, Calm, Knows
    <3>2. history[v] = "applied" /\ \A w \in MVersions : history[w] = "applied" => w <= v
      BY <1>1, <3>1 DEF DownKnows, v
    <3>3. AppliedInOrder' /\ RowsInv'
      BY <1>1, <1>7, <3>1, <3>2 DEF AppliedInOrder, RowsInv
    <3>4. v \in halfDown'
      BY <1>1
    <3>5. UpKnows(m)'
      BY <1>4, <1>6 DEF UpKnows
    <3>6. DownKnows(m)'
      BY <1>4, <1>6, <1>7, <3>2, <3>4 DEF DownKnows
    <3> QED
      BY <3>3, <3>5, <3>6
  <2> QED
    BY <1>1, <1>6, <2>1, <2>2, WorkStep
<1> QED
  BY <1>9, <1>10, <1>11, <1>12 DEF MigInv

LEMMA DownTxStep ==
    ASSUME MigrationTypeOK, MigInv, NEW m \in Migrators, DownTx(m)
    PROVE  MigrationTypeOK' /\ MigInv'
<1> DEFINE v == job[m].at
<1>1. /\ UNCHANGED <<engine, runs, mishaps, contested, halfDown>> /\ engine = "pg" /\ Leave(m)
      /\ job[m].step = "next" /\ job[m].dir = "down"
      /\ \/ schema' = [schema EXCEPT ![v] = 0] /\ history' = [history EXCEPT ![v] = "none"]
         \/ UNCHANGED database
  BY DEF DownTx
<1>2. v \in MVersions
  BY <1>1 DEF MigInv, AtInv
<1> HIDE DEF v
<1>3. CASE UNCHANGED database
  <2>1. lock' \in Migrators \cup {NoMigrator} /\ job' \in [Migrators -> JobRecord] /\ MigInv'
    BY <1>1, <1>3, LeaveStep
  <2> QED
    BY <1>1, <1>3, <2>1 DEF MigrationTypeOK, JobRecord, database
<1>4. CASE schema' = [schema EXCEPT ![v] = 0] /\ history' = [history EXCEPT ![v] = "none"]
  <2>1. /\ job \in [Migrators -> JobRecord] /\ lock \in Migrators \cup {NoMigrator}
        /\ history \in [MVersions -> {"none", "started", "applied"}] /\ schema \in [MVersions -> 0..2]
        /\ MaxVersion \in Nat /\ \A w \in MVersions : w \in Nat
    BY MigFacts
  <2>2. NoJob \in JobRecord
    BY <2>1 DEF NoJob, JobRecord
  <2>3. job' \in [Migrators -> JobRecord] /\ job'[m] = NoJob /\ OnlyJob(m)
    BY <1>1, <2>1, <2>2 DEF OnlyJob, Leave
  <2>4. lock' \in Migrators \cup {NoMigrator} /\ \A n \in Migrators \ {m} : lock = n => lock' = n
    BY <1>1, <2>1 DEF Leave, Unlock
  <2>5. job'[m].step = "idle" /\ ~Working(m)'
    BY <2>3 DEF NoJob, Working
  <2>6. /\ schema' \in [MVersions -> 0..2] /\ history' \in [MVersions -> {"none", "started", "applied"}]
        /\ schema'[v] = 0 /\ history'[v] = "none"
        /\ \A w \in MVersions \ {v} : schema'[w] = schema[w] /\ history'[w] = history[w]
    BY <1>2, <1>4, <2>1
  <2>7. MigrationTypeOK'
    BY <1>1, <2>3, <2>4, <2>6 DEF MigrationTypeOK, JobRecord
  <2>8. PgInv'
    BY <1>1, <2>3, <2>5, <2>6 DEF MigInv, PgInv, OnlyJob
  <2>9. AtInv'
    BY <2>3, <2>5 DEF MigInv, AtInv, OnlyJob
  <2>10. ~contested' => Calm'
    <3>1. Working(m)
      BY <1>1 DEF Working
    <3>2. ASSUME ~contested PROVE AppliedInOrder' /\ RowsInv' /\ (UpKnows(m) /\ DownKnows(m))'
      <4>1. DownKnows(m) /\ AppliedInOrder /\ RowsInv
        BY <3>2 DEF MigInv, Calm, Knows
      <4>2. \A w \in MVersions : history[w] = "applied" => w <= v
        BY <1>1, <4>1 DEF DownKnows, v
      <4>3. AppliedInOrder'
        <5> SUFFICES ASSUME NEW x \in MVersions, NEW w \in MVersions, w < x, history'[x] = "applied"
                     PROVE  history'[w] = "applied"
          BY DEF AppliedInOrder
        <5>1. x # v /\ history[x] = "applied"
          BY <2>6
        <5>2. history[w] = "applied" /\ x <= v
          BY <4>1, <4>2, <5>1 DEF AppliedInOrder
        <5>3. w # v
          <6>1. x \in Nat /\ w \in Nat /\ v \in Nat
            BY <1>2, <2>1
          <6> QED
            BY <5>2, <6>1
        <5> QED
          BY <2>6, <5>2, <5>3
      <4>4. halfDown = {} /\ halfDown' = {}
        BY <1>1 DEF MigInv, PgInv
      <4>5. RowsInv'
        BY <2>6, <4>1, <4>4 DEF RowsInv
      <4>6. UpKnows(m)' /\ DownKnows(m)'
        BY <2>5 DEF UpKnows, DownKnows
      <4> QED
        BY <4>3, <4>5, <4>6
    <3> QED
      BY <1>1, <2>3, <2>4, <2>5, <3>1, <3>2, WorkStep
  <2> QED
    BY <2>7, <2>8, <2>9, <2>10 DEF MigInv
<1> QED
  BY <1>1, <1>3, <1>4

LEMMA StatementStep ==
    ASSUME MigrationTypeOK, MigInv, NEW m \in Migrators, Statement(m)
    PROVE  MigrationTypeOK' /\ MigInv'
<1> DEFINE v == job[m].at
           up == job[m].dir = "up"
           landed == IF up THEN schema[v] + 1 ELSE schema[v] - 1
           whole == landed = (IF up THEN 2 ELSE 0)
           r == [job[m] EXCEPT !.step = IF whole THEN "record" ELSE "body"]
<1>1. /\ UNCHANGED <<engine, history, runs, mishaps, contested, halfDown>> /\ job[m].step = "body"
      /\ \/ /\ landed \in 0..2 /\ schema' = [schema EXCEPT ![v] = landed] /\ lock' = lock
            /\ job' = [job EXCEPT ![m].step = IF whole THEN "record" ELSE "body"]
         \/ Leave(m) /\ schema' = schema
  BY DEF Statement
<1>2. v \in MVersions
  BY <1>1 DEF MigInv, AtInv
<1>3. /\ job \in [Migrators -> JobRecord] /\ job[m] \in JobRecord
      /\ history \in [MVersions -> {"none", "started", "applied"}] /\ schema \in [MVersions -> 0..2]
      /\ engine \in {"pg", "mysql"}
  BY MigFacts
<1>4. engine = "mysql"
  BY <1>1, <1>3 DEF MigInv, PgInv
<1>5. (up /\ whole => landed = 2) /\ (~up /\ whole => landed = 0)
  BY DEF whole
<1> HIDE DEF v, landed, whole
<1>6. CASE Leave(m) /\ schema' = schema
  <2>1. UNCHANGED database
    BY <1>1, <1>6 DEF database
  <2>2. lock' \in Migrators \cup {NoMigrator} /\ job' \in [Migrators -> JobRecord] /\ MigInv'
    BY <1>1, <1>6, <2>1, LeaveStep
  <2> QED
    BY <1>1, <2>1, <2>2 DEF MigrationTypeOK, JobRecord, database
<1>7. CASE /\ landed \in 0..2 /\ schema' = [schema EXCEPT ![v] = landed] /\ lock' = lock
           /\ job' = [job EXCEPT ![m].step = IF whole THEN "record" ELSE "body"]
  <2>1. job' = [job EXCEPT ![m] = r]
    BY <1>3, <1>7
  <2>2. /\ r \in JobRecord /\ r.dir = job[m].dir /\ r.seen = job[m].seen /\ r.at = v
        /\ r.step \in {"body", "record"} /\ (r.step = "record" => whole)
    BY <1>3 DEF JobRecord, v
  <2> HIDE DEF r
  <2>3. job' \in [Migrators -> JobRecord] /\ job'[m] = r /\ OnlyJob(m)
    BY <1>3, <2>1, <2>2 DEF OnlyJob
  <2>4. /\ schema' \in [MVersions -> 0..2] /\ schema'[v] = landed
        /\ \A w \in MVersions \ {v} : schema'[w] = schema[w]
    BY <1>2, <1>3, <1>7
  <2>5. history' = history /\ halfDown' = halfDown /\ engine' = engine /\ contested' = contested
        /\ lock' = lock
    BY <1>1, <1>7
  <2>6. MigrationTypeOK'
    BY <1>1, <1>7, <2>3, <2>4 DEF MigrationTypeOK, JobRecord
  <2>7. PgInv'
    BY <1>4, <2>5 DEF PgInv
  <2>8. AtInv'
    BY <1>2, <2>2, <2>3 DEF MigInv, AtInv, OnlyJob
  <2>9. ~contested' => Calm'
    <3>1. Working(m)
      BY <1>1 DEF Working
    <3>2. ASSUME ~contested PROVE AppliedInOrder' /\ RowsInv' /\ (UpKnows(m) /\ DownKnows(m))'
      <4>1. UpKnows(m) /\ DownKnows(m) /\ AppliedInOrder /\ RowsInv
        BY <3>2 DEF MigInv, Calm, Knows
      <4>2. AppliedInOrder'
        BY <2>5, <4>1 DEF AppliedInOrder
      <4>3. CASE up
        <5>1. /\ history[v] = "started"
              /\ \A w \in MVersions : history[w] = "applied" <=> w \in job[m].seen \/ w < v
          BY <1>1, <4>1, <4>3 DEF UpKnows, v
        <5>2. RowsInv'
          BY <2>4, <2>5, <4>1, <5>1 DEF RowsInv
        <5>3. r.step = "record" => schema'[v] = 2
          BY <1>5, <2>2, <2>4, <4>3
        <5>4. UpKnows(m)'
          BY <2>2, <2>3, <2>5, <5>1, <5>3 DEF UpKnows
        <5>5. DownKnows(m)'
          BY <2>2, <2>3, <4>3 DEF DownKnows
        <5> QED
          BY <4>2, <5>2, <5>4, <5>5
      <4>4. CASE ~up
        <5>0. job[m].dir = "down"
          BY <1>3, <4>4 DEF JobRecord
        <5>1. /\ history[v] = "applied" /\ v \in halfDown
              /\ \A w \in MVersions : history[w] = "applied" => w <= v
          BY <1>1, <4>1, <5>0 DEF DownKnows, v
        <5>2. RowsInv'
          BY <2>4, <2>5, <4>1, <5>1 DEF RowsInv
        <5>3. r.step = "record" => schema'[v] = 0
          BY <1>5, <2>2, <2>4, <4>4
        <5>4. DownKnows(m)'
          BY <2>2, <2>3, <2>5, <5>1, <5>3 DEF DownKnows
        <5>5. UpKnows(m)'
          BY <2>2, <2>3, <5>0 DEF UpKnows
        <5> QED
          BY <4>2, <5>2, <5>4, <5>5
      <4> QED
        BY <4>3, <4>4
    <3> QED
      BY <2>3, <2>5, <3>1, <3>2, WorkStep
  <2> QED
    BY <2>6, <2>7, <2>8, <2>9 DEF MigInv
<1> QED
  BY <1>1, <1>6, <1>7

LEMMA RecordStep ==
    ASSUME MigrationTypeOK, MigInv, NEW m \in Migrators, Record(m)
    PROVE  MigrationTypeOK' /\ MigInv'
<1> DEFINE v == job[m].at
<1>1. /\ UNCHANGED <<engine, schema, runs, mishaps, contested>> /\ job[m].step = "record"
      /\ \/ /\ job[m].dir = "up" /\ lock' = lock /\ halfDown' = halfDown
            /\ history' = [history EXCEPT ![v] = IF @ = "none" THEN "none" ELSE "applied"]
            /\ job' = [job EXCEPT ![m].step = "next"]
         \/ /\ job[m].dir # "up" /\ Leave(m) /\ halfDown' = halfDown \ {v}
            /\ history' = [history EXCEPT ![v] = "none"]
  BY DEF Record
<1>2. v \in MVersions
  BY <1>1 DEF MigInv, AtInv
<1>3. /\ job \in [Migrators -> JobRecord] /\ job[m] \in JobRecord
      /\ history \in [MVersions -> {"none", "started", "applied"}] /\ schema \in [MVersions -> 0..2]
      /\ engine \in {"pg", "mysql"} /\ lock \in Migrators \cup {NoMigrator}
      /\ halfDown \subseteq MVersions /\ MaxVersion \in Nat
      /\ \A w \in MVersions : w \in Nat
  BY MigFacts
<1>4. engine = "mysql" /\ engine' = engine /\ contested' = contested /\ schema' = schema
  BY <1>1, <1>3 DEF MigInv, PgInv
<1>5. PgInv' /\ Working(m)
  BY <1>1, <1>4 DEF PgInv, Working
<1> DEFINE r == [job[m] EXCEPT !.step = "next"]
<1>6. /\ r \in JobRecord /\ r.dir = job[m].dir /\ r.seen = job[m].seen /\ r.at = v /\ r.step = "next"
  BY <1>3 DEF JobRecord
<1>7. ~contested => UpKnows(m) /\ DownKnows(m) /\ AppliedInOrder /\ RowsInv
  BY DEF MigInv, Calm, Knows
<1>8. CASE job[m].dir = "up"
  <2>1. /\ lock' = lock /\ halfDown' = halfDown /\ job' = [job EXCEPT ![m] = r]
        /\ history' = [history EXCEPT ![v] = IF @ = "none" THEN "none" ELSE "applied"]
    BY <1>1, <1>3, <1>8
  <2> HIDE DEF r, v
  <2>2. job' \in [Migrators -> JobRecord] /\ job'[m] = r /\ OnlyJob(m)
    BY <1>3, <1>6, <2>1 DEF OnlyJob
  <2>3. /\ history' \in [MVersions -> {"none", "started", "applied"}]
        /\ history[v] = "started" => history'[v] = "applied"
        /\ \A w \in MVersions \ {v} : history'[w] = history[w]
    BY <1>2, <1>3, <2>1
  <2>4. MigrationTypeOK'
    BY <1>1, <2>1, <2>2, <2>3 DEF MigrationTypeOK, JobRecord
  <2>5. AtInv'
    BY <1>2, <1>6, <2>2 DEF MigInv, AtInv, OnlyJob
  <2>6. ASSUME ~contested PROVE AppliedInOrder' /\ RowsInv' /\ (UpKnows(m) /\ DownKnows(m))'
    <3>1. /\ history[v] = "started" /\ schema[v] = 2
          /\ \A w \in MVersions : history[w] = "applied" <=> w \in job[m].seen \/ w < v
      BY <1>1, <1>7, <1>8, <2>6 DEF UpKnows, v
    <3>2. history'[v] = "applied"
      BY <2>3, <3>1
    <3>3. AppliedInOrder'
      <4> SUFFICES ASSUME NEW x \in MVersions, NEW w \in MVersions, w < x, history'[x] = "applied"
                   PROVE  history'[w] = "applied"
        BY DEF AppliedInOrder
      <4>1. CASE w = v
        BY <3>2, <4>1
      <4>2. CASE x = v /\ w # v
        BY <2>3, <3>1, <4>2
      <4>3. CASE x # v /\ w # v
        BY <1>7, <2>3, <2>6, <4>3 DEF AppliedInOrder
      <4> QED
        BY <4>1, <4>2, <4>3
    <3>4. RowsInv'
      BY <1>4, <1>7, <2>1, <2>3, <2>6, <3>1, <3>2 DEF RowsInv
    <3>5. \A w \in MVersions : history'[w] = "applied" <=> w \in job[m].seen \/ w <= v
      <4> TAKE w \in MVersions
      <4>1. w \in Nat /\ v \in Nat
        BY <1>2, <1>3
      <4>2. CASE w = v
        BY <3>2, <4>1, <4>2
      <4>3. CASE w # v
        <5>1. w <= v <=> w < v
          BY <4>1, <4>3
        <5> QED
          BY <2>3, <3>1, <4>3, <5>1
      <4> QED
        BY <4>2, <4>3
    <3>6. UpKnows(m)' /\ DownKnows(m)'
      BY <1>6, <1>8, <2>2, <3>5 DEF UpKnows, DownKnows
    <3> QED
      BY <3>3, <3>4, <3>6
  <2>7. ~contested' => Calm'
    BY <1>4, <1>5, <2>1, <2>2, <2>6, WorkStep
  <2> QED
    BY <1>5, <2>4, <2>5, <2>7 DEF MigInv
<1>9. CASE job[m].dir = "down"
  <2>1. /\ Leave(m) /\ halfDown' = halfDown \ {v} /\ history' = [history EXCEPT ![v] = "none"]
    BY <1>1, <1>9
  <2> HIDE DEF r, v
  <2>2. NoJob \in JobRecord
    BY <1>3 DEF NoJob, JobRecord
  <2>3. job' \in [Migrators -> JobRecord] /\ job'[m] = NoJob /\ OnlyJob(m)
    BY <1>3, <2>1, <2>2 DEF OnlyJob, Leave
  <2>4. lock' \in Migrators \cup {NoMigrator} /\ \A n \in Migrators \ {m} : lock = n => lock' = n
    BY <1>3, <2>1 DEF Leave, Unlock
  <2>5. job'[m].step = "idle" /\ ~Working(m)'
    BY <2>3 DEF NoJob, Working
  <2>6. /\ history' \in [MVersions -> {"none", "started", "applied"}] /\ history'[v] = "none"
        /\ \A w \in MVersions \ {v} : history'[w] = history[w]
    BY <1>2, <1>3, <2>1
  <2>7. halfDown' \subseteq MVersions
    BY <1>3, <2>1
  <2>8. MigrationTypeOK'
    BY <1>1, <2>3, <2>4, <2>6, <2>7 DEF MigrationTypeOK, JobRecord
  <2>9. AtInv'
    BY <2>3, <2>5 DEF MigInv, AtInv, OnlyJob
  <2>10. ASSUME ~contested PROVE AppliedInOrder' /\ RowsInv' /\ (UpKnows(m) /\ DownKnows(m))'
    <3>1. /\ history[v] = "applied" /\ schema[v] = 0
          /\ \A w \in MVersions : history[w] = "applied" => w <= v
      BY <1>1, <1>7, <1>9, <2>10 DEF DownKnows, v
    <3>2. AppliedInOrder'
      <4> SUFFICES ASSUME NEW x \in MVersions, NEW w \in MVersions, w < x, history'[x] = "applied"
                   PROVE  history'[w] = "applied"
        BY DEF AppliedInOrder
      <4>1. x # v /\ history[x] = "applied"
        BY <2>6
      <4>2. history[w] = "applied" /\ x <= v
        BY <1>7, <2>10, <3>1, <4>1 DEF AppliedInOrder
      <4>3. w # v
        <5>1. x \in Nat /\ w \in Nat /\ v \in Nat
          BY <1>2, <1>3
        <5> QED
          BY <4>2, <5>1
      <4> QED
        BY <2>6, <4>2, <4>3
    <3>3. RowsInv'
      BY <1>4, <1>7, <2>1, <2>6, <2>10, <3>1 DEF RowsInv
    <3>4. UpKnows(m)' /\ DownKnows(m)'
      BY <2>5 DEF UpKnows, DownKnows
    <3> QED
      BY <3>2, <3>3, <3>4
  <2>11. ~contested' => Calm'
    BY <1>4, <1>5, <2>3, <2>4, <2>5, <2>10, WorkStep
  <2> QED
    BY <1>5, <2>8, <2>9, <2>11 DEF MigInv
<1> QED
  BY <1>3, <1>8, <1>9 DEF JobRecord

-------------------------------------------------------------------------------
(***************************************************************************)
(* The theorems.                                                           *)
(***************************************************************************)

LEMMA MigrationInitially ==
    ASSUME MigrationInit
    PROVE  MigrationTypeOK /\ MigInv
<1>1. {MaxVersion, MaxRuns, MaxMishaps} \subseteq Nat
  BY MigrationAssumption
<1>2. NoJob \in JobRecord /\ NoJob.step = "idle"
  BY <1>1 DEF NoJob, JobRecord
<1>3. \A m \in Migrators : job[m] = NoJob
  BY DEF MigrationInit
<1>4. MigrationTypeOK
  <2>1. job \in [Migrators -> JobRecord]
    BY <1>2 DEF MigrationInit
  <2>2. runs \in 0..MaxRuns /\ mishaps \in 0..MaxMishaps
    BY <1>1 DEF MigrationInit
  <2>3. schema \in [MVersions -> 0..2] /\ history \in [MVersions -> {"none", "started", "applied"}]
    BY DEF MigrationInit
  <2> QED
    BY <2>1, <2>2, <2>3 DEF MigrationInit, MigrationTypeOK, JobRecord
<1>5. PgInv /\ AtInv
  BY <1>2, <1>3 DEF MigrationInit, PgInv, AtInv
<1>6. AppliedInOrder /\ RowsInv
  BY DEF MigrationInit, AppliedInOrder, RowsInv
<1>7. \A m \in Migrators : ~Working(m)
  BY <1>2, <1>3 DEF Working
<1>8. LockInv /\ Knows
  BY <1>7, Ignorant DEF LockInv, Knows
<1> QED
  BY <1>4, <1>5, <1>6, <1>8 DEF MigInv, Calm

LEMMA MigrationStep ==
    ASSUME MigrationTypeOK, MigInv, [MigrationNext]_migrationVars
    PROVE  MigrationTypeOK' /\ MigInv'
<1>1. CASE UNCHANGED migrationVars
  <2>1. /\ engine' = engine /\ history' = history /\ schema' = schema /\ lock' = lock /\ job' = job
        /\ runs' = runs /\ mishaps' = mishaps /\ contested' = contested /\ halfDown' = halfDown
    BY <1>1 DEF migrationVars
  <2>2. MigrationTypeOK'
    BY <2>1 DEF MigrationTypeOK
  <2>3. PgInv' /\ AtInv'
    BY <2>1 DEF MigInv, PgInv, AtInv
  <2>4. (~contested => Calm)'
    BY <2>1 DEF MigInv, Calm, AppliedInOrder, LockInv, Working, RowsInv, Knows, UpKnows, DownKnows
  <2> QED
    BY <2>2, <2>3, <2>4 DEF MigInv
<1>2. CASE LockLost
  BY <1>2, LockLostStep
<1>3. ASSUME NEW m \in Migrators, NEW dir \in {"up", "down"}, CallMigrator(m, dir)
      PROVE  MigrationTypeOK' /\ MigInv'
  BY <1>3, CallStep
<1>4. ASSUME NEW m \in Migrators, NEW v \in MVersions, UpTx(m, v) \/ Claim(m, v)
      PROVE  MigrationTypeOK' /\ MigInv'
  BY <1>4, UpTxStep, ClaimStep
<1>5. ASSUME NEW m \in Migrators, TakeLock(m) \/ LockTimeout(m) \/ ReadHistory(m)
      PROVE  MigrationTypeOK' /\ MigInv'
  BY <1>5, TakeLockStep, LockTimeoutStep, ReadHistoryStep
<1>6. ASSUME NEW m \in Migrators, DownTx(m) \/ StartDown(m) \/ Statement(m)
      PROVE  MigrationTypeOK' /\ MigInv'
  BY <1>6, DownTxStep, StartDownStep, StatementStep
<1>7. ASSUME NEW m \in Migrators, Record(m) \/ UpDone(m) \/ MigrationFails(m)
      PROVE  MigrationTypeOK' /\ MigInv'
  BY <1>7, RecordStep, UpDoneStep, MigrationFailsStep
<1> QED
  BY <1>1, <1>2, <1>3, <1>4, <1>5, <1>6, <1>7, Zenon DEF MigrationNext

\* The variables of the migrators keep their types and the inductive invariant
\* holds: what a run of Up or Down read of the history stays true while it works.
THEOREM MigInvCorrect == MigrationSpec => [](MigrationTypeOK /\ MigInv)
<1>1. MigrationInit => MigrationTypeOK /\ MigInv
  BY MigrationInitially
<1>2. MigrationTypeOK /\ MigInv /\ [MigrationNext]_migrationVars => MigrationTypeOK' /\ MigInv'
  BY MigrationStep
<1> QED
  BY <1>1, <1>2, PTL DEF MigrationSpec

\* The history of migrations tells the truth (HistoryTellsTruth): applied is there
\* whole, unnamed is not there at all and there is no hole, on PostgreSQL even when
\* the lock is lost, on MySQL unless a run lost the lock or a Down stopped halfway.
THEOREM HistoryTellsTruthCorrect == MigrationSpec => []HistoryTellsTruth
<1>1. MigrationTypeOK /\ MigInv => HistoryTellsTruth
  <2> SUFFICES ASSUME MigrationTypeOK, MigInv PROVE HistoryTellsTruth
    OBVIOUS
  <2>1. engine \in {"pg", "mysql"}
    BY MigFacts
  <2>2. contested \/ AppliedInOrder
    BY DEF MigInv, Calm
  <2>3. CASE engine = "pg"
    BY <2>2, <2>3 DEF MigInv, PgInv, HistoryTellsTruth
  <2>4. CASE engine = "mysql" /\ contested
    BY <2>2, <2>4 DEF HistoryTellsTruth
  <2>5. CASE ~contested
    BY <2>2, <2>5 DEF MigInv, Calm, RowsInv, HistoryTellsTruth
  <2> QED
    BY <2>1, <2>3, <2>4, <2>5
<1> QED
  BY <1>1, MigInvCorrect, PTL

-------------------------------------------------------------------------------
(***************************************************************************)
(* The tree migrator.                                                      *)
(***************************************************************************)

\* What holds of the pending steps while no two calls have crossed.  A call applies
\* after it has rolled back, and two calls go one way.
OneWay ==
    \A o, q \in Operators : \A i \in 1..Len(plan[o]), j \in 1..Len(plan[q]) :
        plan[o][i].up /\ ~plan[q][j].up => o = q /\ j < i

\* A migration still to apply has its parents applied, or before it in its plan,
\* and none of them is about to be rolled back.
ParentsFirst ==
    /\ \A o \in Operators : \A i \in 1..Len(plan[o]) : plan[o][i].up =>
           \A p \in Parents[plan[o][i].node] \ appliedSet :
               \E k \in 1..(i - 1) : plan[o][k].up /\ plan[o][k].node = p
    /\ \A o \in Operators : \A i, j \in 1..Len(plan[o]) :
           plan[o][i].up /\ ~plan[o][j].up => plan[o][j].node \notin Parents[plan[o][i].node]

\* A migration still to roll back has its children gone, or before it in its plan.
ChildrenFirst ==
    \A o \in Operators : \A i \in 1..Len(plan[o]) : ~plan[o][i].up =>
        \A m \in appliedSet : plan[o][i].node \in Parents[m] =>
            \E k \in 1..(i - 1) : ~plan[o][k].up /\ plan[o][k].node = m

TreeInv ==
    /\ \A n \in MigrationIds : effect[n] = (IF n \in appliedSet THEN 1 ELSE 0)
    /\ crossed \/ (ParentsApplied /\ OneWay /\ ParentsFirst /\ ChildrenFirst)

-------------------------------------------------------------------------------
(***************************************************************************)
(* The graph: ancestors and the order of application.                      *)
(***************************************************************************)

\* ancestorsOf is the function its equation describes: the least sets that hold the
\* node and are closed under parents satisfy it.
LEMMA AncestorsEquation ==
    /\ DOMAIN ancestorsOf = MigrationIds
    /\ \A n \in MigrationIds : ancestorsOf[n] = {n} \cup UNION {ancestorsOf[p] : p \in Parents[n]}
<1> DEFINE Closed(C) == \A x \in C : Parents[x] \subseteq C
           Least(n) == {m \in MigrationIds : \A C \in SUBSET MigrationIds : n \in C /\ Closed(C) => m \in C}
           anc == [n \in MigrationIds |-> Least(n)]
<1>1. ASSUME NEW n \in MigrationIds
      PROVE  Least(n) = {n} \cup UNION {Least(p) : p \in Parents[n]}
  <2> DEFINE D == {n} \cup UNION {Least(p) : p \in Parents[n]}
  <2>1. Parents[n] \subseteq MigrationIds
    BY TreeAssumption
  <2>2. \A p \in MigrationIds : p \in Least(p) /\ Closed(Least(p))
    BY TreeAssumption
  <2>3. D \subseteq MigrationIds /\ n \in D
    BY <2>1
  <2>4. Closed(D)
    <3> SUFFICES ASSUME NEW x \in D PROVE Parents[x] \subseteq D
      OBVIOUS
    <3>1. CASE x = n
      BY <2>1, <2>2, <3>1
    <3>2. CASE x # n
      <4>1. PICK p \in Parents[n] : x \in Least(p)
        BY <3>2
      <4>2. Parents[x] \subseteq Least(p)
        BY <2>1, <2>2, <4>1
      <4> QED
        BY <4>2
    <3> QED
      BY <3>1, <3>2
  <2>5. Least(n) \subseteq D
    BY <2>3, <2>4
  <2>6. \A p \in Parents[n] : Least(p) \subseteq Least(n)
    <3> TAKE p \in Parents[n]
    <3>1. \A C : n \in C /\ Closed(C) => p \in C
      OBVIOUS
    <3> QED
      BY <3>1
  <2>7. D \subseteq Least(n)
    BY <2>2, <2>6
  <2> QED
    BY <2>5, <2>7
<1>2. anc = [n \in MigrationIds |-> {n} \cup UNION {anc[p] : p \in Parents[n]}]
  <2>1. \A n \in MigrationIds : Parents[n] \subseteq MigrationIds
    BY TreeAssumption
  <2> HIDE DEF Least
  <2>2. \A n \in MigrationIds : {Least(p) : p \in Parents[n]} = {anc[p] : p \in Parents[n]}
    BY <2>1
  <2>3. \A n \in MigrationIds : Least(n) = {n} \cup UNION {anc[p] : p \in Parents[n]}
    BY <1>1, <2>2
  <2> QED
    BY <2>3
<1> HIDE DEF anc
<1>3. ancestorsOf = [n \in MigrationIds |-> {n} \cup UNION {ancestorsOf[p] : p \in Parents[n]}]
  BY <1>2, Zenon DEF ancestorsOf
<1> QED
  BY <1>3, Zenon

\* The ancestors of a node are registered and closed under parents.
LEMMA AncestorFacts ==
    ASSUME NEW n \in MigrationIds
    PROVE  /\ ancestorsOf[n] \subseteq MigrationIds /\ n \in ancestorsOf[n]
           /\ \A x \in ancestorsOf[n] : Parents[x] \subseteq ancestorsOf[n]
<1> DEFINE Good(m) == /\ ancestorsOf[m] \subseteq MigrationIds /\ m \in ancestorsOf[m]
                      /\ \A x \in ancestorsOf[m] : Parents[x] \subseteq ancestorsOf[m]
           T == {m \in MigrationIds : ~Good(m)}
<1> SUFFICES ASSUME T # {} PROVE FALSE
  OBVIOUS
<1>1. T \in SUBSET MigrationIds
  OBVIOUS
<1>2. PICK m \in T : Parents[m] \cap T = {}
  <2> HIDE DEF T
  <2> QED
    BY <1>1, TreeAssumption
<1>3. ancestorsOf[m] = {m} \cup UNION {ancestorsOf[p] : p \in Parents[m]}
  BY AncestorsEquation
<1>4. Parents[m] \subseteq MigrationIds
  BY TreeAssumption
<1>5. \A p \in Parents[m] : Good(p)
  BY <1>2, <1>4
<1>6. ancestorsOf[m] \subseteq MigrationIds /\ m \in ancestorsOf[m]
  BY <1>3, <1>5
<1>7. ASSUME NEW x \in ancestorsOf[m] PROVE Parents[x] \subseteq ancestorsOf[m]
  <2>1. CASE x = m
    BY <1>3, <1>5, <2>1
  <2>2. CASE x # m
    <3>1. PICK p \in Parents[m] : x \in ancestorsOf[p]
      BY <1>3, <2>2
    <3>2. Parents[x] \subseteq ancestorsOf[p]
      BY <1>5, <3>1
    <3> QED
      BY <1>3, <3>2
  <2> QED
    BY <2>1, <2>2
<1>8. Good(m)
  BY <1>6, <1>7
<1> QED
  BY <1>8

\* No node is an ancestor of one of its parents: else the nodes of which it is a proper
\* ancestor would each have a parent among them.
LEMMA NoOwnAncestor ==
    ASSUME NEW n \in MigrationIds, NEW p \in Parents[n]
    PROVE  n \notin ancestorsOf[p]
<1> DEFINE C == {x \in MigrationIds : \E q \in Parents[x] : n \in ancestorsOf[q]}
<1> SUFFICES ASSUME n \in ancestorsOf[p] PROVE FALSE
  OBVIOUS
<1>1. n \in C
  OBVIOUS
<1>2. ASSUME NEW x \in C PROVE Parents[x] \cap C # {}
  <2>1. PICK q \in Parents[x] : n \in ancestorsOf[q]
    OBVIOUS
  <2>2. q \in MigrationIds
    BY TreeAssumption
  <2>3. ancestorsOf[q] = {q} \cup UNION {ancestorsOf[r] : r \in Parents[q]}
    BY <2>2, AncestorsEquation
  <2>4. q \in C
    BY <1>1, <2>1, <2>2, <2>3
  <2> QED
    BY <2>4
<1>3. C \in SUBSET MigrationIds
  OBVIOUS
<1> HIDE DEF C
<1> QED
  BY <1>1, <1>2, <1>3, TreeAssumption

\* A nonempty set of migrations has a lowest one among those that wait for no other.
LEMMA FirstReadyFacts ==
    ASSUME NEW S \in SUBSET MigrationIds, S # {}
    PROVE  FirstReady(S) \in S /\ Parents[FirstReady(S)] \cap S = {}
<1> DEFINE Ready == {n \in S : Parents[n] \cap S = {}}
<1>1. S \subseteq Nat
  BY TreeAssumption
<1>2. PICK m \in S : Parents[m] \cap S = {}
  BY TreeAssumption
<1>3. Ready # {} /\ Ready \subseteq Nat
  BY <1>1, <1>2
<1>4. PICK r \in Ready : \A k \in Ready : r <= k
  <2> HIDE DEF Ready
  <2> QED
    BY <1>3, LeastNatural
<1>5. r \in S /\ Parents[r] \cap S = {} /\ \A m2 \in S : Parents[m2] \cap S = {} => r <= m2
  BY <1>4
<1> QED
  BY <1>5 DEF FirstReady

\* topoSortSubset is the function its equation describes, on the finite sets that the
\* subsets of the registered migrations are.
LEMMA TopoSortEquation ==
    \A S \in SUBSET MigrationIds :
        topoSortSubset[S] = IF S = {} THEN <<>>
                            ELSE <<FirstReady(S)>> \o topoSortSubset[S \ {FirstReady(S)}]
<1> DEFINE Below(n) == {S \in SUBSET MigrationIds : Cardinality(S) <= n}
           Body(g, S) == IF S = {} THEN <<>> ELSE <<FirstReady(S)>> \o g[S \ {FirstReady(S)}]
           Solves(g, n) == \A S \in Below(n) : g[S] = Body(g, S)
           T == {n \in Nat : ~\E g : Solves(g, n)}
<1>1. \A S \in SUBSET MigrationIds : IsFiniteSet(S) /\ Cardinality(S) \in Nat
  BY TreeAssumption, FS_Subset, FS_CardinalityType, Zenon
<1>2. ASSUME NEW S \in SUBSET MigrationIds, S # {}
      PROVE  /\ S \ {FirstReady(S)} \in SUBSET MigrationIds
             /\ Cardinality(S \ {FirstReady(S)}) = Cardinality(S) - 1
  <2>1. FirstReady(S) \in S
    BY <1>2, FirstReadyFacts
  <2>2. IsFiniteSet(S)
    BY <1>1
  <2> QED
    BY <2>1, <2>2, FS_RemoveElement
<1>3. T = {}
  <2> SUFFICES ASSUME T # {} PROVE FALSE
    OBVIOUS
  <2>1. T \subseteq Nat
    OBVIOUS
  <2>2. PICK n \in T : \A k \in T : n <= k
    <3> HIDE DEF T
    <3> QED
      BY <2>1, LeastNatural
  <2>3. n # 0
    <3> SUFFICES ASSUME n = 0 PROVE FALSE
      OBVIOUS
    <3>1. \A S \in Below(0) : S = {}
      <4> TAKE S \in Below(0)
      <4>1. Cardinality(S) = 0
        BY <1>1
      <4> QED
        BY <1>1, <4>1, FS_EmptySet
    <3>2. Solves([S \in SUBSET MigrationIds |-> <<>>], 0)
      BY <3>1
    <3> QED
      BY <3>2
  <2>4. n - 1 \in Nat /\ n - 1 \notin T
    <3>1. n \in Nat
      BY <2>1, <2>2
    <3>2. n - 1 \in Nat /\ ~(n <= n - 1)
      BY <2>3, <3>1
    <3> HIDE DEF T
    <3> QED
      BY <2>2, <3>2
  <2>5. PICK g : Solves(g, n - 1)
    BY <2>4
  <2> DEFINE h == [S \in SUBSET MigrationIds |-> Body(g, S)]
  <2>6. ASSUME NEW S \in Below(n) PROVE h[S] = Body(h, S)
    <3>1. CASE S = {}
      BY <3>1
    <3>2. CASE S # {}
      <4> DEFINE R == S \ {FirstReady(S)}
      <4>1. R \in SUBSET MigrationIds /\ Cardinality(R) = Cardinality(S) - 1
        BY <1>2, <3>2
      <4>2. R \in Below(n - 1)
        BY <1>1, <4>1
      <4>3. g[R] = Body(g, R)
        BY <2>5, <4>2
      <4>4. h[R] = Body(g, R) /\ h[S] = Body(g, S)
        <5> HIDE DEF Body, R
        <5> QED
          BY <4>1
      <4>5. Body(h, S) = <<FirstReady(S)>> \o h[R] /\ Body(g, S) = <<FirstReady(S)>> \o g[R]
        <5> HIDE DEF h
        <5> QED
          BY <3>2
      <4> QED
        <5> HIDE DEF Body, h, R
        <5> QED
          BY <4>3, <4>4, <4>5
    <3> QED
      BY <3>1, <3>2
  <2>7. Solves(h, n)
    <3> HIDE DEF h, Body
    <3> QED
      BY <2>6
  <2> QED
    <3> HIDE DEF h, Body
    <3> QED
      BY <2>2, <2>7
<1> DEFINE N == Cardinality(MigrationIds)
<1>4. N \in Nat
  BY <1>1
<1>5. PICK g : Solves(g, N)
  BY <1>3, <1>4
<1>6. \A S \in SUBSET MigrationIds : S \in Below(N)
  BY TreeAssumption, FS_Subset
<1> DEFINE f == [S \in SUBSET MigrationIds |-> g[S]]
<1>7. ASSUME NEW S \in SUBSET MigrationIds PROVE f[S] = Body(f, S)
  <2>1. g[S] = Body(g, S)
    BY <1>5, <1>6
  <2>2. S # {} => S \ {FirstReady(S)} \in SUBSET MigrationIds
    OBVIOUS
  <2> QED
    BY <2>1, <2>2
<1>8. f = [S \in SUBSET MigrationIds |-> Body(f, S)]
  <2>1. f = [S \in SUBSET MigrationIds |-> f[S]]
    OBVIOUS
  <2> HIDE DEF f, Body
  <2> QED
    BY <1>7, <2>1
<1>9. topoSortSubset = [S \in SUBSET MigrationIds |-> Body(topoSortSubset, S)]
  <2> HIDE DEF f
  <2> QED
    BY <1>8, Zenon DEF topoSortSubset
<1> QED
  BY <1>9, Zenon

\* The order of application enumerates the set, and no node comes before its parent.
LEMMA TopoSortFacts ==
    ASSUME NEW S \in SUBSET MigrationIds
    PROVE  /\ topoSortSubset[S] \in Seq(S)
           /\ \A x \in S : \E i \in 1..Len(topoSortSubset[S]) : topoSortSubset[S][i] = x
           /\ \A i, k \in 1..Len(topoSortSubset[S]) :
                 topoSortSubset[S][i] \in Parents[topoSortSubset[S][k]] => i < k
<1> DEFINE Good(s, U) == /\ s \in Seq(U)
                         /\ \A x \in U : \E i \in 1..Len(s) : s[i] = x
                         /\ \A i, k \in 1..Len(s) : s[i] \in Parents[s[k]] => i < k
           T == {n \in Nat : \E U \in SUBSET MigrationIds :
                                Cardinality(U) = n /\ ~Good(topoSortSubset[U], U)}
<1>1. \A U \in SUBSET MigrationIds : IsFiniteSet(U) /\ Cardinality(U) \in Nat
  BY TreeAssumption, FS_Subset, FS_CardinalityType, Zenon
<1>2. T = {}
  <2> SUFFICES ASSUME T # {} PROVE FALSE
    OBVIOUS
  <2>1. T \subseteq Nat
    OBVIOUS
  <2>2. PICK n \in T : \A k \in T : n <= k
    <3> HIDE DEF T
    <3> QED
      BY <2>1, LeastNatural
  <2>3. PICK U \in SUBSET MigrationIds : Cardinality(U) = n /\ ~Good(topoSortSubset[U], U)
    BY <2>2
  <2>4. U # {}
    <3> SUFFICES ASSUME U = {} PROVE FALSE
      OBVIOUS
    <3>1. topoSortSubset[U] = <<>>
      BY TopoSortEquation
    <3>2. Good(<<>>, {})
      OBVIOUS
    <3> QED
      BY <2>3, <3>1, <3>2
  <2> DEFINE r == FirstReady(U)
             V == U \ {r}
             v == topoSortSubset[V]
             u == <<r>> \o v
  <2>5. r \in U /\ Parents[r] \cap U = {}
    BY <2>4, FirstReadyFacts
  <2>6. V \in SUBSET MigrationIds /\ Cardinality(V) = n - 1
    BY <1>1, <2>3, <2>5, FS_RemoveElement
  <2>7. topoSortSubset[U] = u
    BY <2>4, TopoSortEquation
  <2>8. Good(v, V)
    <3>1. n \in Nat /\ Cardinality(V) \in Nat /\ Cardinality(V) < n
      BY <1>1, <2>3, <2>6
    <3>2. Cardinality(V) \notin T
      <4>1. ~(n <= Cardinality(V))
        BY <3>1
      <4> HIDE DEF T
      <4> QED
        BY <2>2, <4>1
    <3> QED
      BY <2>6, <3>1, <3>2
  <2> HIDE DEF r, v, V
  <2>9. V \subseteq U /\ V \cup {r} = U
    BY <2>5 DEF V
  <2>10. v \in Seq(U) /\ Len(v) \in Nat /\ \A i \in 1..Len(v) : v[i] \in V
    BY <2>8, <2>9, ElementOfSeq, LenProperties
  <2>11. /\ u \in Seq(U) /\ Len(u) = Len(v) + 1
         /\ u[1] = r /\ \A i \in 2..Len(u) : u[i] = v[i - 1]
    <3>1. <<r>> \in Seq(U) /\ Len(<<r>>) = 1 /\ <<r>>[1] = r
      BY <2>5
    <3>2. /\ u \in Seq(U) /\ Len(u) = Len(<<r>>) + Len(v)
          /\ \A i \in 1..(Len(<<r>>) + Len(v)) :
                u[i] = IF i <= Len(<<r>>) THEN <<r>>[i] ELSE v[i - Len(<<r>>)]
      BY <2>10, <3>1, ConcatProperties
    <3> QED
      BY <2>10, <3>1, <3>2
  <2> HIDE DEF u
  <2>12. \A x \in U : \E i \in 1..Len(u) : u[i] = x
    <3> TAKE x \in U
    <3>1. CASE x = r
      BY <2>10, <2>11, <3>1
    <3>2. CASE x # r
      <4>1. PICK i \in 1..Len(v) : v[i] = x
        BY <2>8, <2>9, <3>2
      <4>2. i + 1 \in 2..Len(u) /\ i + 1 \in 1..Len(u) /\ (i + 1) - 1 = i
        BY <2>10, <2>11
      <4>3. u[i + 1] = v[i]
        BY <2>11, <4>2
      <4> QED
        BY <4>1, <4>2, <4>3
    <3> QED
      BY <3>1, <3>2
  <2>13. ASSUME NEW i \in 1..Len(u), NEW k \in 1..Len(u), u[i] \in Parents[u[k]] PROVE i < k
    <3>1. CASE k = 1
      <4>1. u[i] \in U
        BY <2>11, ElementOfSeq
      <4> QED
        BY <2>5, <2>11, <2>13, <3>1, <4>1
    <3>2. CASE k # 1 /\ i = 1
      BY <3>2, <2>10, <2>11
    <3>3. CASE k # 1 /\ i # 1
      <4>1. i - 1 \in 1..Len(v) /\ k - 1 \in 1..Len(v) /\ i \in 2..Len(u) /\ k \in 2..Len(u)
        BY <2>10, <2>11, <3>3
      <4>2. v[i - 1] \in Parents[v[k - 1]]
        BY <2>11, <2>13, <4>1
      <4>3. i - 1 < k - 1
        BY <2>8, <4>1, <4>2
      <4> QED
        BY <2>10, <4>1, <4>3
    <3> QED
      BY <3>1, <3>2, <3>3
  <2>14. Good(u, U)
    BY <2>11, <2>12, <2>13
  <2> QED
    BY <2>3, <2>7, <2>14
<1> QED
  BY <1>1, <1>2

-------------------------------------------------------------------------------
(***************************************************************************)
(* Plans.                                                                  *)
(***************************************************************************)

\* A plan to apply a set: all of it, parents before their children.
LEMMA ApplyingFacts ==
    ASSUME NEW S \in SUBSET MigrationIds
    PROVE  /\ Applying(S) \in Seq(TreeStep) /\ Len(Applying(S)) \in Nat
           /\ \A i \in 1..Len(Applying(S)) : Applying(S)[i].up /\ Applying(S)[i].node \in S
           /\ \A x \in S : \E i \in 1..Len(Applying(S)) : Applying(S)[i].node = x
           /\ \A i, k \in 1..Len(Applying(S)) :
                 Applying(S)[i].node \in Parents[Applying(S)[k].node] => i < k
<1> DEFINE s == topoSortSubset[S]
           t == Applying(S)
<1>1. /\ s \in Seq(S)
      /\ \A x \in S : \E i \in 1..Len(s) : s[i] = x
      /\ \A i, k \in 1..Len(s) : s[i] \in Parents[s[k]] => i < k
  BY TopoSortFacts
<1> HIDE DEF s
<1>2. Len(s) \in Nat /\ \A i \in 1..Len(s) : s[i] \in S /\ s[i] \in MigrationIds
  BY <1>1, ElementOfSeq, LenProperties
<1>3. t = [i \in 1..Len(s) |-> [up |-> TRUE, node |-> s[i]]]
  BY DEF Applying, s
<1>4. \A i \in 1..Len(s) : [up |-> TRUE, node |-> s[i]] \in TreeStep
  BY <1>2 DEF TreeStep
<1>5. t \in Seq(TreeStep) /\ Len(t) = Len(s)
  BY <1>2, <1>3, <1>4
<1>6. \A i \in 1..Len(s) : t[i].up /\ t[i].node = s[i]
  BY <1>3
<1> HIDE DEF t
<1>7. /\ t \in Seq(TreeStep) /\ Len(t) \in Nat
      /\ \A i \in 1..Len(t) : t[i].up /\ t[i].node \in S
      /\ \A x \in S : \E i \in 1..Len(t) : t[i].node = x
      /\ \A i, k \in 1..Len(t) : t[i].node \in Parents[t[k].node] => i < k
  BY <1>1, <1>2, <1>5, <1>6
<1> QED
  BY <1>7 DEF t

\* A plan to roll a set back: all of it, children before their parents.
LEMMA RollingBackFacts ==
    ASSUME NEW S \in SUBSET MigrationIds
    PROVE  /\ RollingBack(S) \in Seq(TreeStep) /\ Len(RollingBack(S)) \in Nat
           /\ \A i \in 1..Len(RollingBack(S)) : ~RollingBack(S)[i].up /\ RollingBack(S)[i].node \in S
           /\ \A x \in S : \E i \in 1..Len(RollingBack(S)) : RollingBack(S)[i].node = x
           /\ \A i, k \in 1..Len(RollingBack(S)) :
                 RollingBack(S)[i].node \in Parents[RollingBack(S)[k].node] => k < i
<1> DEFINE s == topoSortSubset[S]
           t == RollingBack(S)
<1>1. /\ s \in Seq(S)
      /\ \A x \in S : \E i \in 1..Len(s) : s[i] = x
      /\ \A i, k \in 1..Len(s) : s[i] \in Parents[s[k]] => i < k
  BY TopoSortFacts
<1> HIDE DEF s
<1>2. Len(s) \in Nat /\ \A i \in 1..Len(s) : s[i] \in S /\ s[i] \in MigrationIds
  BY <1>1, ElementOfSeq, LenProperties
<1>3. \A i \in 1..Len(s) : (Len(s) - i) + 1 \in 1..Len(s) /\ (Len(s) - ((Len(s) - i) + 1)) + 1 = i
  BY <1>2
<1>4. \A i \in 1..Len(s) : Reverse(s)[i] = s[(Len(s) - i) + 1]
  BY DEF Reverse
<1>5. t = [i \in 1..Len(s) |-> [up |-> FALSE, node |-> s[(Len(s) - i) + 1]]]
  BY <1>4 DEF RollingBack, s
<1>6. \A i \in 1..Len(s) : [up |-> FALSE, node |-> s[(Len(s) - i) + 1]] \in TreeStep
  BY <1>2, <1>3 DEF TreeStep
<1>7. t \in Seq(TreeStep) /\ Len(t) = Len(s)
  BY <1>2, <1>5, <1>6
<1>8. \A i \in 1..Len(s) : ~t[i].up /\ t[i].node = s[(Len(s) - i) + 1]
  BY <1>5
<1> HIDE DEF t
<1>9. \A i \in 1..Len(t) : ~t[i].up /\ t[i].node \in S
  BY <1>2, <1>3, <1>7, <1>8
<1>10. ASSUME NEW x \in S PROVE \E i \in 1..Len(t) : t[i].node = x
  <2>1. PICK i \in 1..Len(s) : s[i] = x
    BY <1>1
  <2>2. t[(Len(s) - i) + 1].node = x /\ (Len(s) - i) + 1 \in 1..Len(t)
    BY <1>3, <1>7, <1>8, <2>1
  <2> QED
    BY <2>2
<1>11. ASSUME NEW i \in 1..Len(t), NEW k \in 1..Len(t), t[i].node \in Parents[t[k].node] PROVE k < i
  <2> DEFINE a == (Len(s) - i) + 1
             b == (Len(s) - k) + 1
  <2>1. a \in 1..Len(s) /\ b \in 1..Len(s) /\ t[i].node = s[a] /\ t[k].node = s[b]
    BY <1>3, <1>7, <1>8
  <2>2. a < b
    <3> HIDE DEF a, b
    <3> QED
      BY <1>1, <1>11, <2>1
  <2> QED
    BY <1>2, <1>7, <2>2
<1>12. /\ t \in Seq(TreeStep) /\ Len(t) \in Nat
       /\ \A i \in 1..Len(t) : ~t[i].up /\ t[i].node \in S
       /\ \A x \in S : \E i \in 1..Len(t) : t[i].node = x
       /\ \A i, k \in 1..Len(t) : t[i].node \in Parents[t[k].node] => k < i
  BY <1>2, <1>7, <1>9, <1>10, <1>11
<1> QED
  BY <1>12 DEF t

\* No migrations, no steps.
LEMMA NothingToDo == Applying({}) = <<>> /\ RollingBack({}) = <<>>
<1>1. topoSortSubset[{}] = <<>>
  BY TopoSortEquation
<1>2. Len(topoSortSubset[{}]) = 0 /\ 1..0 = {}
  BY <1>1
<1> QED
  BY <1>2 DEF Applying, RollingBack

\* What a plan made from the applied set promises: it applies after it has rolled
\* back, parents are there first, and children are gone first.
Fits(steps) ==
    /\ steps \in Seq(TreeStep)
    /\ \A i, j \in 1..Len(steps) :
          steps[i].up /\ ~steps[j].up => j < i /\ steps[j].node \notin Parents[steps[i].node]
    /\ \A i \in 1..Len(steps) : steps[i].up =>
          \A p \in Parents[steps[i].node] \ appliedSet :
              \E k \in 1..(i - 1) : steps[k].up /\ steps[k].node = p
    /\ \A i \in 1..Len(steps) : ~steps[i].up =>
          \A m \in appliedSet : steps[i].node \in Parents[m] =>
              \E k \in 1..(i - 1) : ~steps[k].up /\ steps[k].node = m

\* A plan that rolls D back and then applies U fits if U brings its parents, none of
\* which are in D, and D takes its children.
LEMMA PlanFits ==
    ASSUME NEW D \in SUBSET MigrationIds, NEW U \in SUBSET MigrationIds,
           \A u \in U : Parents[u] \subseteq appliedSet \cup U /\ Parents[u] \cap D = {},
           \A d \in D, m \in appliedSet : d \in Parents[m] => m \in D
    PROVE  Fits(RollingBack(D) \o Applying(U))
<1> DEFINE r == RollingBack(D)
           a == Applying(U)
           s == r \o a
<1>1. /\ r \in Seq(TreeStep) /\ Len(r) \in Nat
      /\ \A i \in 1..Len(r) : ~r[i].up /\ r[i].node \in D
      /\ \A x \in D : \E i \in 1..Len(r) : r[i].node = x
      /\ \A i, k \in 1..Len(r) : r[i].node \in Parents[r[k].node] => k < i
  BY RollingBackFacts
<1>2. /\ a \in Seq(TreeStep) /\ Len(a) \in Nat
      /\ \A i \in 1..Len(a) : a[i].up /\ a[i].node \in U
      /\ \A x \in U : \E i \in 1..Len(a) : a[i].node = x
      /\ \A i, k \in 1..Len(a) : a[i].node \in Parents[a[k].node] => i < k
  BY ApplyingFacts
<1> HIDE DEF r, a
<1>3. /\ s \in Seq(TreeStep) /\ Len(s) = Len(r) + Len(a)
      /\ \A i \in 1..(Len(r) + Len(a)) : s[i] = IF i <= Len(r) THEN r[i] ELSE a[i - Len(r)]
  BY <1>1, <1>2, ConcatProperties
<1> HIDE DEF s
<1>4. \A i \in 1..Len(r) : i \in 1..Len(s) /\ s[i] = r[i]
  BY <1>1, <1>2, <1>3
<1>5. \A i \in 1..Len(a) : Len(r) + i \in 1..Len(s) /\ s[Len(r) + i] = a[i]
  <2> TAKE i \in 1..Len(a)
  <2>1. /\ Len(r) + i \in 1..(Len(r) + Len(a)) /\ ~(Len(r) + i <= Len(r))
        /\ (Len(r) + i) - Len(r) = i
    BY <1>1, <1>2
  <2> QED
    BY <1>3, <2>1
<1>6. \A i \in 1..Len(s) : s[i].up => /\ i - Len(r) \in 1..Len(a) /\ s[i] = a[i - Len(r)]
                                      /\ Len(r) < i /\ s[i].node \in U
  <2> TAKE i \in 1..Len(s)
  <2>1. CASE i <= Len(r)
    BY <1>1, <1>4, <2>1
  <2>2. CASE ~(i <= Len(r))
    <3>1. i - Len(r) \in 1..Len(a) /\ Len(r) < i
      BY <1>1, <1>2, <1>3, <2>2
    <3>2. s[i] = a[i - Len(r)]
      BY <1>3, <2>2
    <3> QED
      BY <1>2, <3>1, <3>2
  <2> QED
    BY <2>1, <2>2
<1>7. \A i \in 1..Len(s) : ~s[i].up => i \in 1..Len(r) /\ s[i] = r[i] /\ s[i].node \in D
  <2> TAKE i \in 1..Len(s)
  <2>1. CASE i <= Len(r)
    <3>1. i \in 1..Len(r)
      BY <1>1, <2>1
    <3> QED
      BY <1>1, <1>4, <3>1
  <2>2. CASE ~(i <= Len(r))
    <3>1. i - Len(r) \in 1..Len(a) /\ Len(r) < i
      BY <1>1, <1>2, <1>3, <2>2
    <3>2. s[i] = a[i - Len(r)]
      BY <1>3, <2>2
    <3> QED
      BY <1>2, <3>1, <3>2
  <2> QED
    BY <2>1, <2>2
<1>8. ASSUME NEW i \in 1..Len(s), NEW j \in 1..Len(s), s[i].up, ~s[j].up
      PROVE  j < i /\ s[j].node \notin Parents[s[i].node]
  <2>1. Len(r) < i /\ s[i].node \in U /\ j \in 1..Len(r) /\ s[j].node \in D
    BY <1>6, <1>7, <1>8
  <2>2. j < i
    BY <1>1, <2>1
  <2> QED
    BY <2>1, <2>2
<1>9. ASSUME NEW i \in 1..Len(s), s[i].up, NEW p \in Parents[s[i].node] \ appliedSet
      PROVE  \E k \in 1..(i - 1) : s[k].up /\ s[k].node = p
  <2>1. i - Len(r) \in 1..Len(a) /\ s[i] = a[i - Len(r)] /\ s[i].node \in U
    BY <1>6, <1>9
  <2>2. p \in U
    BY <2>1
  <2>3. PICK k \in 1..Len(a) : a[k].node = p
    BY <1>2, <2>2
  <2>4. k < i - Len(r)
    BY <1>2, <2>1, <2>3
  <2>5. Len(r) + k \in 1..(i - 1)
    BY <1>1, <1>2, <2>4
  <2> QED
    BY <1>2, <1>5, <2>3, <2>5
<1>10. ASSUME NEW i \in 1..Len(s), ~s[i].up, NEW m \in appliedSet, s[i].node \in Parents[m]
       PROVE  \E k \in 1..(i - 1) : ~s[k].up /\ s[k].node = m
  <2>1. i \in 1..Len(r) /\ s[i] = r[i] /\ s[i].node \in D
    BY <1>7, <1>10
  <2>2. m \in D
    BY <1>10, <2>1
  <2>3. PICK k \in 1..Len(r) : r[k].node = m
    BY <1>1, <2>2
  <2>4. k < i
    BY <1>1, <1>10, <2>1, <2>3
  <2>5. k \in 1..(i - 1)
    BY <1>1, <2>1, <2>4
  <2> QED
    BY <1>1, <1>4, <2>3, <2>5
<1>11. Fits(s)
  BY <1>3, <1>8, <1>9, <1>10 DEF Fits
<1> QED
  BY <1>11 DEF s, r, a

\* A plan that only applies.
LEMMA ApplyingFits ==
    ASSUME NEW U \in SUBSET MigrationIds, \A u \in U : Parents[u] \subseteq appliedSet \cup U
    PROVE  Fits(Applying(U))
<1>1. Fits(RollingBack({}) \o Applying(U))
  BY PlanFits
<1>2. Applying(U) \in Seq(TreeStep)
  BY ApplyingFacts
<1> QED
  BY <1>1, <1>2, NothingToDo, ConcatEmptySeq

\* A plan that only rolls back.
LEMMA RollingBackFits ==
    ASSUME NEW D \in SUBSET MigrationIds, \A d \in D, m \in appliedSet : d \in Parents[m] => m \in D
    PROVE  Fits(RollingBack(D))
<1>1. Fits(RollingBack(D) \o Applying({}))
  BY PlanFits
<1>2. RollingBack(D) \in Seq(TreeStep)
  BY RollingBackFacts
<1> QED
  BY <1>1, <1>2, NothingToDo, ConcatEmptySeq

-------------------------------------------------------------------------------
(***************************************************************************)
(* The steps.                                                              *)
(***************************************************************************)

\* A call that plans steps that fit.
LEMMA PlannedInv ==
    ASSUME TreeTypeOK, TreeInv, NEW o \in Operators, NEW steps, Fits(steps), Planned(o, steps)
    PROVE  TreeTypeOK' /\ TreeInv'
<1>1. plan' = [plan EXCEPT ![o] = steps] /\ plan \in [Operators -> Seq(TreeStep)]
  BY DEF Planned, TreeTypeOK
<1>2. plan'[o] = steps /\ \A q \in Operators \ {o} : plan'[q] = plan[q]
  BY <1>1
<1>3. appliedSet' = appliedSet /\ effect' = effect /\ breaks' = breaks
  BY DEF Planned
<1>4. TreeTypeOK'
  <2>1. plan' \in [Operators -> Seq(TreeStep)]
    BY <1>1 DEF Fits
  <2>2. plans' \in 0..MaxPlans
    BY TreeAssumption DEF Planned, TreeTypeOK
  <2>3. crossed' \in BOOLEAN
    BY DEF Planned, TreeTypeOK
  <2> QED
    BY <1>3, <2>1, <2>2, <2>3 DEF TreeTypeOK
<1>5. ASSUME ~crossed' PROVE (ParentsApplied /\ OneWay /\ ParentsFirst /\ ChildrenFirst)'
  <2>1. ~crossed /\ ~Crosses(o, steps)
    BY <1>5 DEF Planned
  <2>2. ParentsApplied /\ OneWay /\ ParentsFirst /\ ChildrenFirst
    BY <2>1 DEF TreeInv
  <2>3. ParentsApplied'
    BY <1>3, <2>2 DEF ParentsApplied
  <2>4. OneWay'
    <3> SUFFICES ASSUME NEW p \in Operators, NEW q \in Operators,
                        NEW i \in 1..Len(plan'[p]), NEW j \in 1..Len(plan'[q]),
                        plan'[p][i].up, ~plan'[q][j].up
                 PROVE  p = q /\ j < i
      BY DEF OneWay
    <3>1. CASE p = o /\ q = o
      BY <1>2, <3>1 DEF Fits
    <3>2. CASE p = o /\ q # o
      BY <1>2, <2>1, <3>2 DEF Crosses
    <3>3. CASE p # o /\ q = o
      BY <1>2, <2>1, <3>3 DEF Crosses
    <3>4. CASE p # o /\ q # o
      BY <1>2, <2>2, <3>4 DEF OneWay
    <3> QED
      BY <3>1, <3>2, <3>3, <3>4
  <2>5. ParentsFirst'
    <3>1. ASSUME NEW q \in Operators, NEW i \in 1..Len(plan'[q]), plan'[q][i].up,
                 NEW p \in Parents[plan'[q][i].node] \ appliedSet
          PROVE  \E k \in 1..(i - 1) : plan'[q][k].up /\ plan'[q][k].node = p
      <4>1. CASE q = o
        BY <1>2, <3>1, <4>1 DEF Fits
      <4>2. CASE q # o
        BY <1>2, <2>2, <3>1, <4>2 DEF ParentsFirst
      <4> QED
        BY <4>1, <4>2
    <3>2. ASSUME NEW q \in Operators, NEW i \in 1..Len(plan'[q]), NEW j \in 1..Len(plan'[q]),
                 plan'[q][i].up, ~plan'[q][j].up
          PROVE  plan'[q][j].node \notin Parents[plan'[q][i].node]
      <4>1. CASE q = o
        BY <1>2, <3>2, <4>1 DEF Fits
      <4>2. CASE q # o
        BY <1>2, <2>2, <3>2, <4>2 DEF ParentsFirst
      <4> QED
        BY <4>1, <4>2
    <3> QED
      BY <1>3, <3>1, <3>2 DEF ParentsFirst
  <2>6. ChildrenFirst'
    <3> SUFFICES ASSUME NEW q \in Operators, NEW i \in 1..Len(plan'[q]), ~plan'[q][i].up,
                        NEW m \in appliedSet, plan'[q][i].node \in Parents[m]
                 PROVE  \E k \in 1..(i - 1) : ~plan'[q][k].up /\ plan'[q][k].node = m
      BY <1>3 DEF ChildrenFirst
    <3>1. CASE q = o
      BY <1>2, <3>1 DEF Fits
    <3>2. CASE q # o
      BY <1>2, <2>2, <3>2 DEF ChildrenFirst
    <3> QED
      BY <3>1, <3>2
  <2> QED
    BY <2>3, <2>4, <2>5, <2>6
<1>6. TreeInv'
  BY <1>3, <1>5 DEF TreeInv
<1> QED
  BY <1>4, <1>6

\* A call of any kind plans steps that fit.
LEMMA CallInv ==
    ASSUME TreeTypeOK, TreeInv, NEW o \in Operators,
           \/ TreeUp(o) \/ TreeDown(o)
           \/ \E n \in MigrationIds : UpTo(o, n) \/ Checkout(o, n) \/ DownTo(o, n)
    PROVE  TreeTypeOK' /\ TreeInv'
<1>1. appliedSet \subseteq MigrationIds
  BY DEF TreeTypeOK
<1>2. \A n \in MigrationIds : Parents[n] \subseteq MigrationIds
  BY TreeAssumption
<1>3. CASE TreeUp(o)
  <2>1. Fits(Applying(MigrationIds \ appliedSet))
    <3>1. \A u \in MigrationIds \ appliedSet :
             Parents[u] \subseteq appliedSet \cup (MigrationIds \ appliedSet)
      BY <1>2
    <3> QED
      BY <3>1, ApplyingFits
  <2> QED
    BY <1>3, <2>1, PlannedInv DEF TreeUp
<1>4. CASE TreeDown(o)
  <2>1. Fits(RollingBack(computeHeads))
    <3>1. computeHeads \in SUBSET MigrationIds
      BY <1>1 DEF computeHeads
    <3>2. \A d \in computeHeads, m \in appliedSet : d \notin Parents[m]
      BY DEF computeHeads
    <3> QED
      BY <3>1, <3>2, RollingBackFits
  <2> QED
    BY <1>4, <2>1, PlannedInv DEF TreeDown
<1>5. ASSUME NEW n \in MigrationIds, UpTo(o, n) PROVE TreeTypeOK' /\ TreeInv'
  <2>1. Fits(Applying(ancestorsOf[n] \ appliedSet))
    <3>1. ancestorsOf[n] \ appliedSet \in SUBSET MigrationIds
      BY AncestorFacts
    <3>2. \A u \in ancestorsOf[n] \ appliedSet :
             Parents[u] \subseteq appliedSet \cup (ancestorsOf[n] \ appliedSet)
      BY AncestorFacts
    <3> QED
      BY <3>1, <3>2, ApplyingFits
  <2> QED
    BY <1>5, <2>1, PlannedInv DEF UpTo
<1>6. ASSUME NEW n \in MigrationIds, Checkout(o, n) PROVE TreeTypeOK' /\ TreeInv'
  <2> DEFINE D == appliedSet \ ancestorsOf[n]
             U == ancestorsOf[n] \ appliedSet
  <2>1. D \in SUBSET MigrationIds /\ U \in SUBSET MigrationIds
    BY <1>1, AncestorFacts
  <2>2. \A u \in U : Parents[u] \subseteq appliedSet \cup U /\ Parents[u] \cap D = {}
    BY AncestorFacts
  <2>3. \A d \in D, m \in appliedSet : d \in Parents[m] => m \in D
    BY AncestorFacts
  <2>4. Planned(o, RollingBack(D) \o Applying(U))
    BY <1>6 DEF Checkout
  <2> HIDE DEF D, U
  <2>5. Fits(RollingBack(D) \o Applying(U))
    BY <2>1, <2>2, <2>3, PlanFits
  <2> QED
    BY <2>4, <2>5, PlannedInv
<1>7. ASSUME NEW n \in MigrationIds, DownTo(o, n) PROVE TreeTypeOK' /\ TreeInv'
  <2> DEFINE D == descendantsOf(n) \cap appliedSet
  <2>1. D \in SUBSET MigrationIds
    BY <1>1
  <2>2. ASSUME NEW d \in D, NEW m \in appliedSet, d \in Parents[m] PROVE m \in D
    <3>1. d \in MigrationIds /\ m \in MigrationIds /\ n \in ancestorsOf[d]
      BY <1>1, <2>2 DEF descendantsOf
    <3>2. m \notin ancestorsOf[d]
      BY <2>2, <3>1, NoOwnAncestor
    <3>3. m # n
      BY <3>1, <3>2
    <3>4. ancestorsOf[m] = {m} \cup UNION {ancestorsOf[p] : p \in Parents[m]}
      BY <3>1, AncestorsEquation
    <3>5. n \in ancestorsOf[m]
      BY <2>2, <3>1, <3>4
    <3> QED
      BY <2>2, <3>1, <3>3, <3>5 DEF descendantsOf
  <2>3. Planned(o, RollingBack(D))
    BY <1>7 DEF DownTo
  <2> HIDE DEF D
  <2>4. Fits(RollingBack(D))
    BY <2>1, <2>2, RollingBackFits
  <2> QED
    BY <2>3, <2>4, PlannedInv
<1> QED
  BY <1>3, <1>4, <1>5, <1>6, <1>7

\* A plan that has lost its first step, or all of them.
LEMMA TailFacts ==
    ASSUME NEW s \in Seq(TreeStep), s # <<>>
    PROVE  /\ Head(s) = s[1] /\ s[1] \in TreeStep /\ 1 \in 1..Len(s) /\ Tail(s) \in Seq(TreeStep)
           /\ Len(s) \in Nat /\ Len(Tail(s)) = Len(s) - 1
           /\ \A i \in 1..Len(Tail(s)) : i + 1 \in 1..Len(s) /\ Tail(s)[i] = s[i + 1]
<1>1. Len(s) \in Nat /\ Len(s) # 0
  BY LenProperties, EmptySeq
<1>2. /\ Head(s) \in TreeStep /\ Tail(s) \in Seq(TreeStep) /\ Len(Tail(s)) = Len(s) - 1
      /\ \A i \in 1..Len(Tail(s)) : Tail(s)[i] = s[i + 1]
  BY HeadTailProperties
<1>3. Head(s) = s[1]
  OBVIOUS
<1>4. \A i \in 1..Len(Tail(s)) : i + 1 \in 1..Len(s)
  BY <1>1, <1>2
<1>5. 1 \in 1..Len(s)
  BY <1>1
<1> QED
  BY <1>1, <1>2, <1>3, <1>4, <1>5


\* A step taken keeps the types and the count of effects.
LEMMA TakeStepTypes ==
    ASSUME TreeTypeOK, TreeInv, NEW o \in Operators, TakeStep(o)
    PROVE  /\ TreeTypeOK' /\ \A n \in MigrationIds : effect'[n] = (IF n \in appliedSet' THEN 1 ELSE 0)
           /\ appliedSet' = IF plan[o][1].up THEN appliedSet \cup {plan[o][1].node}
                                             ELSE appliedSet \ {plan[o][1].node}
<1> DEFINE s == plan[o][1]
<1>1. plan \in [Operators -> Seq(TreeStep)] /\ plan[o] \in Seq(TreeStep) /\ plan[o] # <<>>
  BY DEF TreeTypeOK, TakeStep
<1>2. s = Head(plan[o]) /\ s \in TreeStep /\ Tail(plan[o]) \in Seq(TreeStep)
  BY <1>1, TailFacts
<1>3. s.up \in BOOLEAN /\ s.node \in MigrationIds
  BY <1>2 DEF TreeStep
<1>4. plan' = [plan EXCEPT ![o] = Tail(plan[o])]
  BY <1>1 DEF TakeStep
<1>5. plan' \in [Operators -> Seq(TreeStep)]
  BY <1>1, <1>2, <1>4
<1>6. IF StillToDo(s)
      THEN /\ appliedSet' = IF s.up THEN appliedSet \cup {s.node} ELSE appliedSet \ {s.node}
           /\ effect' = [effect EXCEPT ![s.node] = IF s.up THEN @ + 1 ELSE @ - 1]
      ELSE UNCHANGED <<appliedSet, effect>>
  BY <1>2 DEF TakeStep
<1>7. /\ appliedSet \subseteq MigrationIds /\ effect \in [MigrationIds -> Nat]
      /\ \A n \in MigrationIds : effect[n] = (IF n \in appliedSet THEN 1 ELSE 0)
  BY DEF TreeTypeOK, TreeInv
<1> HIDE DEF s
<1>8. appliedSet' = IF s.up THEN appliedSet \cup {s.node} ELSE appliedSet \ {s.node}
  BY <1>3, <1>6 DEF StillToDo
<1>9. CASE StillToDo(s)
  <2>1. \A n \in MigrationIds : effect'[n] = IF n = s.node THEN (IF s.up THEN effect[n] + 1 ELSE effect[n] - 1)
                                                           ELSE effect[n]
    BY <1>3, <1>6, <1>7, <1>9
  <2>2. s.up # (s.node \in appliedSet)
    BY <1>9 DEF StillToDo
  <2>3. \A n \in MigrationIds : effect'[n] = (IF n \in appliedSet' THEN 1 ELSE 0)
    BY <1>3, <1>7, <1>8, <2>1, <2>2
  <2>4. DOMAIN effect' = MigrationIds /\ effect' = [n \in MigrationIds |-> effect'[n]]
    BY <1>6, <1>7, <1>9
  <2>5. effect' \in [MigrationIds -> Nat]
    BY <2>3, <2>4
  <2> QED
    BY <1>2, <1>3, <1>5, <1>7, <1>8, <2>3, <2>5 DEF TreeTypeOK, TakeStep, s
<1>10. CASE ~StillToDo(s)
  BY <1>3, <1>5, <1>6, <1>7, <1>8, <1>10 DEF TreeTypeOK, TakeStep, s
<1> QED
  BY <1>9, <1>10

\* A step taken keeps the order of the steps to come, and the parents applied.
LEMMA TakeStepInv ==
    ASSUME TreeTypeOK, TreeInv, NEW o \in Operators, TakeStep(o)
    PROVE  TreeTypeOK' /\ TreeInv'
<1> DEFINE s == plan[o][1]
<1>1. plan \in [Operators -> Seq(TreeStep)] /\ plan[o] \in Seq(TreeStep) /\ plan[o] # <<>>
  BY DEF TreeTypeOK, TakeStep
<1>2. plan' = [plan EXCEPT ![o] = Tail(plan[o])] /\ crossed' = crossed
  BY <1>1 DEF TakeStep
<1>3. plan'[o] = Tail(plan[o]) /\ \A q \in Operators \ {o} : plan'[q] = plan[q]
  BY <1>1, <1>2
<1>4. /\ TreeTypeOK' /\ \A n \in MigrationIds : effect'[n] = (IF n \in appliedSet' THEN 1 ELSE 0)
      /\ appliedSet' = IF s.up THEN appliedSet \cup {s.node} ELSE appliedSet \ {s.node}
  BY TakeStepTypes
<1>5. /\ s \in TreeStep /\ 1 \in 1..Len(plan[o])
      /\ \A i \in 1..Len(plan'[o]) : i + 1 \in 1..Len(plan[o]) /\ plan'[o][i] = plan[o][i + 1]
  BY <1>1, <1>3, TailFacts
<1>6. s.up \in BOOLEAN /\ s.node \in MigrationIds
  BY <1>5 DEF TreeStep
<1>7. Len(plan'[o]) \in Nat /\ \A q \in Operators : Len(plan[q]) \in Nat
  BY <1>1, <1>3, TailFacts, LenProperties
<1>8. ASSUME ~crossed PROVE (ParentsApplied /\ OneWay /\ ParentsFirst /\ ChildrenFirst)'
  <2>1. ParentsApplied /\ OneWay /\ ParentsFirst /\ ChildrenFirst
    BY <1>8 DEF TreeInv
  <2>2. s.up => Parents[s.node] \subseteq appliedSet
    <3> SUFFICES ASSUME s.up, NEW p \in Parents[s.node] \ appliedSet PROVE FALSE
      OBVIOUS
    <3>1. \E k \in 1..(1 - 1) : plan[o][k].up /\ plan[o][k].node = p
      BY <1>5, <2>1 DEF ParentsFirst
    <3> QED
      BY <3>1
  <2>3. ~s.up => \A m \in appliedSet : s.node \notin Parents[m]
    <3> SUFFICES ASSUME ~s.up, NEW m \in appliedSet, s.node \in Parents[m] PROVE FALSE
      OBVIOUS
    <3>1. \E k \in 1..(1 - 1) : ~plan[o][k].up /\ plan[o][k].node = m
      BY <1>5, <2>1 DEF ChildrenFirst
    <3> QED
      BY <3>1
  <2>4. s.up => \A q \in Operators : \A j \in 1..Len(plan[q]) : plan[q][j].up
    <3> SUFFICES ASSUME s.up, NEW q \in Operators, NEW j \in 1..Len(plan[q]), ~plan[q][j].up PROVE FALSE
      OBVIOUS
    <3>1. j < 1
      BY <1>5, <2>1 DEF OneWay
    <3> QED
      BY <3>1
  <2>5. ~s.up => \A q \in Operators : \A i \in 1..Len(plan[q]) :
                    plan[q][i].up => s.node \notin Parents[plan[q][i].node]
    <3> SUFFICES ASSUME ~s.up, NEW q \in Operators, NEW i \in 1..Len(plan[q]), plan[q][i].up
                 PROVE  s.node \notin Parents[plan[q][i].node]
      OBVIOUS
    <3>1. q = o
      BY <1>5, <2>1 DEF OneWay
    <3> QED
      BY <1>5, <2>1, <3>1 DEF ParentsFirst
  <2> HIDE DEF s
  <2>6. ParentsApplied'
    <3>1. CASE s.up
      BY <1>4, <2>1, <2>2, <3>1 DEF ParentsApplied
    <3>2. CASE ~s.up
      BY <1>4, <2>1, <2>3, <3>2 DEF ParentsApplied
    <3> QED
      BY <3>1, <3>2
  <2>7. OneWay'
    <3> SUFFICES ASSUME NEW p \in Operators, NEW q \in Operators,
                        NEW i \in 1..Len(plan'[p]), NEW j \in 1..Len(plan'[q]),
                        plan'[p][i].up, ~plan'[q][j].up
                 PROVE  p = q /\ j < i
      BY DEF OneWay
    <3>1. CASE p = o /\ q = o
      <4>1. j + 1 < i + 1
        BY <1>5, <2>1, <3>1 DEF OneWay
      <4> QED
        BY <3>1, <4>1
    <3>2. CASE p = o /\ q # o
      <4>1. i + 1 \in 1..Len(plan[p]) /\ plan[p][i + 1].up
        BY <1>5, <3>2
      <4>2. j \in 1..Len(plan[q]) /\ ~plan[q][j].up
        BY <1>3, <3>2
      <4> QED
        BY <2>1, <3>2, <4>1, <4>2 DEF OneWay
    <3>3. CASE p # o /\ q = o
      <4>1. i \in 1..Len(plan[p]) /\ plan[p][i].up
        BY <1>3, <3>3
      <4>2. j + 1 \in 1..Len(plan[q]) /\ ~plan[q][j + 1].up
        BY <1>5, <3>3
      <4> QED
        BY <2>1, <3>3, <4>1, <4>2 DEF OneWay
    <3>4. CASE p # o /\ q # o
      BY <1>3, <2>1, <3>4 DEF OneWay
    <3> QED
      BY <3>1, <3>2, <3>3, <3>4
  <2>8. ParentsFirst'
    <3>1. ASSUME NEW q \in Operators, NEW i \in 1..Len(plan'[q]), plan'[q][i].up,
                 NEW p \in Parents[plan'[q][i].node] \ appliedSet'
          PROVE  \E k \in 1..(i - 1) : plan'[q][k].up /\ plan'[q][k].node = p
      <4>1. CASE q = o
        <5>1. i + 1 \in 1..Len(plan[o]) /\ plan'[o][i] = plan[o][i + 1] /\ plan[o][i + 1].up
          BY <1>5, <3>1, <4>1
        <5>2. p \notin appliedSet
          BY <1>4, <2>5, <3>1, <4>1, <5>1
        <5>3. PICK k \in 1..((i + 1) - 1) : plan[o][k].up /\ plan[o][k].node = p
          BY <2>1, <3>1, <4>1, <5>1, <5>2 DEF ParentsFirst
        <5>4. k # 1
          BY <1>4, <3>1, <5>3 DEF s
        <5>5. k - 1 \in 1..(i - 1) /\ k - 1 \in 1..Len(plan'[o]) /\ (k - 1) + 1 = k
          BY <1>7, <4>1, <5>3, <5>4
        <5>6. plan'[o][k - 1] = plan[o][k]
          BY <1>5, <5>5
        <5> QED
          BY <4>1, <5>3, <5>5, <5>6
      <4>2. CASE q # o
        <5>1. plan'[q] = plan[q]
          BY <1>3, <4>2
        <5>2. p \notin appliedSet
          BY <1>4, <2>5, <3>1, <5>1
        <5>3. i \in 1..Len(plan[q]) /\ plan[q][i].up /\ p \in Parents[plan[q][i].node] \ appliedSet
          BY <3>1, <5>1, <5>2
        <5>4. \E k \in 1..(i - 1) : plan[q][k].up /\ plan[q][k].node = p
          BY <2>1, <5>3 DEF ParentsFirst
        <5> QED
          BY <5>1, <5>4
      <4> QED
        BY <4>1, <4>2
    <3>2. ASSUME NEW q \in Operators, NEW i \in 1..Len(plan'[q]), NEW j \in 1..Len(plan'[q]),
                 plan'[q][i].up, ~plan'[q][j].up
          PROVE  plan'[q][j].node \notin Parents[plan'[q][i].node]
      <4>1. CASE q = o
        <5>1. /\ i + 1 \in 1..Len(plan[q]) /\ plan'[q][i] = plan[q][i + 1]
              /\ j + 1 \in 1..Len(plan[q]) /\ plan'[q][j] = plan[q][j + 1]
          BY <1>5, <4>1
        <5> QED
          BY <2>1, <3>2, <5>1 DEF ParentsFirst
      <4>2. CASE q # o
        BY <1>3, <2>1, <3>2, <4>2 DEF ParentsFirst
      <4> QED
        BY <4>1, <4>2
    <3> QED
      BY <3>1, <3>2 DEF ParentsFirst
  <2>9. ChildrenFirst'
    <3> SUFFICES ASSUME NEW q \in Operators, NEW i \in 1..Len(plan'[q]), ~plan'[q][i].up,
                        NEW m \in appliedSet', plan'[q][i].node \in Parents[m]
                 PROVE  \E k \in 1..(i - 1) : ~plan'[q][k].up /\ plan'[q][k].node = m
      BY DEF ChildrenFirst
    <3>1. ~s.up
      BY <1>3, <1>5, <2>4
    <3>2. m \in appliedSet /\ m # s.node
      BY <1>4, <3>1
    <3>3. CASE q = o
      <4>1. i + 1 \in 1..Len(plan[o]) /\ plan'[o][i] = plan[o][i + 1]
        BY <1>5, <3>3
      <4>2. PICK k \in 1..((i + 1) - 1) : ~plan[o][k].up /\ plan[o][k].node = m
        BY <2>1, <3>2, <3>3, <4>1 DEF ChildrenFirst
      <4>3. k # 1
        BY <3>2, <4>2 DEF s
      <4>4. k - 1 \in 1..(i - 1) /\ k - 1 \in 1..Len(plan'[o]) /\ (k - 1) + 1 = k
        BY <1>7, <3>3, <4>2, <4>3
      <4>5. plan'[o][k - 1] = plan[o][k]
        BY <1>5, <4>4
      <4> QED
        BY <3>3, <4>2, <4>4, <4>5
    <3>4. CASE q # o
      BY <1>3, <2>1, <3>2, <3>4 DEF ChildrenFirst
    <3> QED
      BY <3>3, <3>4
  <2> QED
    BY <2>6, <2>7, <2>8, <2>9
<1>9. TreeInv'
  BY <1>2, <1>4, <1>8 DEF TreeInv
<1> QED
  BY <1>4, <1>9

\* A plan given up.
LEMMA TreeStepFailsInv ==
    ASSUME TreeTypeOK, TreeInv, NEW o \in Operators, TreeStepFails(o)
    PROVE  TreeTypeOK' /\ TreeInv'
<1>1. plan' = [plan EXCEPT ![o] = <<>>] /\ plan \in [Operators -> Seq(TreeStep)]
  BY DEF TreeStepFails, TreeTypeOK
<1>2. Len(plan'[o]) = 0 /\ \A q \in Operators \ {o} : plan'[q] = plan[q]
  BY <1>1
<1>3. appliedSet' = appliedSet /\ effect' = effect /\ plans' = plans /\ crossed' = crossed
  BY DEF TreeStepFails
<1>4. TreeTypeOK'
  <2>1. plan' \in [Operators -> Seq(TreeStep)]
    BY <1>1
  <2>2. breaks' \in 0..MaxBreaks
    BY TreeAssumption DEF TreeStepFails, TreeTypeOK
  <2> QED
    BY <1>3, <2>1, <2>2 DEF TreeTypeOK
<1>5. \A q \in Operators : \A i \in 1..Len(plan'[q]) : q # o
  BY <1>2
<1>6. OneWay => OneWay'
  BY <1>2, <1>5 DEF OneWay
<1>7. ASSUME ParentsFirst PROVE ParentsFirst'
  <2>1. \A q \in Operators \ {o} : \A i \in 1..Len(plan[q]) : plan[q][i].up =>
           \A p \in Parents[plan[q][i].node] \ appliedSet :
               \E k \in 1..(i - 1) : plan[q][k].up /\ plan[q][k].node = p
    BY <1>7 DEF ParentsFirst
  <2>2. \A q \in Operators \ {o} : \A i, j \in 1..Len(plan[q]) :
           plan[q][i].up /\ ~plan[q][j].up => plan[q][j].node \notin Parents[plan[q][i].node]
    BY <1>7 DEF ParentsFirst
  <2>3. \A q \in Operators : \A i \in 1..Len(plan'[q]) : plan'[q][i].up =>
           \A p \in Parents[plan'[q][i].node] \ appliedSet' :
               \E k \in 1..(i - 1) : plan'[q][k].up /\ plan'[q][k].node = p
    BY <1>2, <1>3, <1>5, <2>1
  <2>4. \A q \in Operators : \A i, j \in 1..Len(plan'[q]) :
           plan'[q][i].up /\ ~plan'[q][j].up => plan'[q][j].node \notin Parents[plan'[q][i].node]
    BY <1>2, <1>5, <2>2
  <2> QED
    BY <2>3, <2>4 DEF ParentsFirst
<1>8. ChildrenFirst => ChildrenFirst'
  BY <1>2, <1>3, <1>5 DEF ChildrenFirst
<1>9. ParentsApplied => ParentsApplied'
  BY <1>3 DEF ParentsApplied
<1>10. TreeInv'
  BY <1>3, <1>6, <1>7, <1>8, <1>9 DEF TreeInv
<1> QED
  BY <1>4, <1>10

\* The tree migrator keeps its invariant, step by step.
LEMMA TreeInitInv == TreeInit => TreeTypeOK /\ TreeInv
<1> SUFFICES ASSUME TreeInit PROVE TreeTypeOK /\ TreeInv
  OBVIOUS
<1>1. TreeTypeOK
  <2>1. plans \in 0..MaxPlans /\ breaks \in 0..MaxBreaks
    BY TreeAssumption DEF TreeInit
  <2>2. plan \in [Operators -> Seq(TreeStep)]
    BY EmptySeq DEF TreeInit
  <2>3. effect \in [MigrationIds -> Nat]
    BY DEF TreeInit
  <2> QED
    BY <2>1, <2>2, <2>3 DEF TreeInit, TreeTypeOK
<1>2. \A q \in Operators : Len(plan[q]) = 0
  BY DEF TreeInit
<1>3. \A q \in Operators : 1..Len(plan[q]) = {}
  BY <1>2
<1>4. OneWay /\ ParentsFirst /\ ChildrenFirst
  BY <1>3 DEF OneWay, ParentsFirst, ChildrenFirst
<1> QED
  BY <1>1, <1>4 DEF TreeInit, TreeInv, ParentsApplied

LEMMA TreeStepInv ==
    ASSUME TreeTypeOK, TreeInv, [TreeNext]_treeVars
    PROVE  TreeTypeOK' /\ TreeInv'
<1>1. CASE UNCHANGED treeVars
  <2>1. /\ appliedSet' = appliedSet /\ effect' = effect /\ plan' = plan /\ plans' = plans
        /\ breaks' = breaks /\ crossed' = crossed
    BY <1>1 DEF treeVars
  <2>2. TreeTypeOK'
    BY <2>1 DEF TreeTypeOK
  <2>3. ParentsApplied => ParentsApplied'
    BY <2>1 DEF ParentsApplied
  <2>4. OneWay => OneWay'
    BY <2>1 DEF OneWay
  <2>5. ParentsFirst => ParentsFirst'
    BY <2>1 DEF ParentsFirst
  <2>6. ChildrenFirst => ChildrenFirst'
    BY <2>1 DEF ChildrenFirst
  <2> QED
    BY <2>1, <2>2, <2>3, <2>4, <2>5, <2>6 DEF TreeInv
<1>2. ASSUME NEW o \in Operators,
             \/ TreeUp(o) \/ TreeDown(o)
             \/ \E n \in MigrationIds : UpTo(o, n) \/ Checkout(o, n) \/ DownTo(o, n)
      PROVE  TreeTypeOK' /\ TreeInv'
  BY <1>2, CallInv
<1>3. ASSUME NEW o \in Operators, applyOne(o) \/ rollbackOne(o)
      PROVE  TreeTypeOK' /\ TreeInv'
  BY <1>3, TakeStepInv DEF applyOne, rollbackOne
<1>4. ASSUME NEW o \in Operators, TreeStepFails(o)
      PROVE  TreeTypeOK' /\ TreeInv'
  BY <1>4, TreeStepFailsInv
<1> QED
  BY <1>1, <1>2, <1>3, <1>4 DEF TreeNext

\* While no two calls have crossed, pending migrations are in an order that keeps the
\* applied set closed under parents.
THEOREM TreeInvCorrect == TreeSpec => [](TreeTypeOK /\ TreeInv)
<1>1. TreeTypeOK /\ TreeInv /\ [TreeNext]_treeVars => TreeTypeOK' /\ TreeInv'
  BY TreeStepInv
<1> QED
  BY <1>1, TreeInitInv, PTL DEF TreeSpec

\* Processes that all apply, or all roll back, never leave a migration without its
\* parents, and no migration is in the schema twice.
THEOREM TreeSoundCorrect == TreeSpec => []TreeSound
<1>1. TreeTypeOK /\ TreeInv => TreeSound
  BY DEF TreeInv, TreeSound
<1> QED
  BY <1>1, TreeInvCorrect, PTL

-------------------------------------------------------------------------------
(***************************************************************************)
(* The sessions together.                                                  *)
(***************************************************************************)

\* The invariant of every system, whichever is at work.
SessionsInv ==
    /\ ReplicatedTypeOK /\ ReplicatedInv /\ RegistryTypeOK /\ RegistryInv
    /\ MigrationTypeOK /\ MigInv /\ EventTypeOK /\ EventInv /\ TreeTypeOK /\ TreeInv
    /\ system \in {"replicated", "registry", "migrations", "events", "tree"}

\* A step of the composition is a step of each system or leaves that system alone.
LEMMA SessionsStep ==
    ASSUME SessionsInv, [Next]_<<system, replicaVars, registryVars, migrationVars, eventVars, treeVars>>
    PROVE  SessionsInv'
<1>1. /\ [ReplicatedNext]_replicaVars /\ [RegistryNext]_registryVars /\ [MigrationNext]_migrationVars
      /\ [EventNext]_eventVars /\ [TreeNext]_treeVars /\ system' = system
  <2>1. CASE Next
    BY <2>1, Zenon DEF Next, others
  <2>2. CASE UNCHANGED <<system, replicaVars, registryVars, migrationVars, eventVars, treeVars>>
    BY <2>2, Zenon
  <2> QED
    BY <2>1, <2>2
<1>2. (ReplicatedTypeOK /\ ReplicatedInv)'
  BY <1>1, ReplicatedStepInv, Zenon DEF SessionsInv
<1>3. (RegistryTypeOK /\ RegistryInv)'
  BY <1>1, RegistryStepInv, Zenon DEF SessionsInv
<1>4. MigrationTypeOK' /\ MigInv'
  BY <1>1, MigrationStep, Zenon DEF SessionsInv
<1>5. (EventTypeOK /\ EventInv)'
  BY <1>1, EventStepInv, Zenon DEF SessionsInv
<1>6. TreeTypeOK' /\ TreeInv'
  BY <1>1, TreeStepInv, Zenon DEF SessionsInv
<1> QED
  BY <1>1, <1>2, <1>3, <1>4, <1>5, <1>6, Zenon DEF SessionsInv

\* The systems of MCSessions keep their types and their invariants side by side.
THEOREM SessionsInvCorrect == Spec => []SessionsInv
<1>1. Init => SessionsInv
  <2> SUFFICES ASSUME Init PROVE SessionsInv
    OBVIOUS
  <2>1. ReplicatedTypeOK /\ ReplicatedInv /\ RegistryTypeOK /\ RegistryInv
    BY ReplicatedInitInv, RegistryInitInv, Zenon DEF Init
  <2>2. EventTypeOK /\ EventInv /\ TreeTypeOK /\ TreeInv
    BY EventInitInv, TreeInitInv, Zenon DEF Init
  <2>3. MigrationTypeOK /\ MigInv
    BY MigrationInitially, Zenon DEF Init
  <2> QED
    BY <2>1, <2>2, <2>3, Zenon DEF Init, SessionsInv
<1>2. SessionsInv /\ [Next]_<<system, replicaVars, registryVars, migrationVars, eventVars, treeVars>> => SessionsInv'
  BY SessionsStep
<1> QED
  BY <1>1, <1>2, PTL DEF Spec

\* Whichever system is at work keeps to its types: a replica's sample never names a
\* position out of range, a statement's transaction is a slot, a job's version and a
\* pending step's migration exist.
THEOREM SessionsTypeCorrect == Spec => []SessionsTypeOK
<1>1. SessionsInv => SessionsTypeOK
  BY Zenon DEF SessionsInv, SessionsTypeOK
<1> QED
  BY <1>1, SessionsInvCorrect, PTL
===============================================================================
