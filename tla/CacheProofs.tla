------------------------------ MODULE CacheProofs ------------------------------
(***************************************************************************)
(* Theorems about the caches: TieredCache, EntityCache, Topics and         *)
(* MemoryCache, for every set of callers, readers, writers and keys and    *)
(* every bound.                                                            *)
(***************************************************************************)
EXTENDS Herds, Topics, MemoryCache, FiniteSetTheorems, SequenceTheorems, TLAPS

(***************************************************************************)
(* The tiered cache.                                                       *)
(***************************************************************************)

\* A caller that holds a value it is about to store.
Holds(c) == req[c].step \in {"askTTL", "backfill", "setL2", "setL1"}

LeaderSteps == {"getL1", "getL2", "askTTL", "backfill", "load", "setL2", "setL1", "release", "unlink"}

\* One caller leads the call that the map holds, and takes it out when it is done.
FlightInv ==
    /\ \A c \in Callers : req[c].leads => /\ req[c].step \in LeaderSteps
                                          /\ req[c].step # "unlink" => flight = "open"
                                          /\ req[c].step = "unlink" => flight = "done"
    /\ \A c \in Callers : req[c].step \in {"load", "release", "unlink"} => req[c].leads
    /\ \A c, d \in Callers : req[c].leads /\ req[d].leads => c = d
    /\ flight # "none" => \E c \in Callers : req[c].leads
    /\ \A c \in Callers : req[c].step = "wait" => flight = "open"

\* Unless L2 lost the value, it has it or the leader is about to store it.
DueInv ==
    /\ due \/ Alive(far) \/ \E c \in Callers : req[c].leads /\ req[c].step = "setL2"
    /\ \A c \in Callers : req[c].step = "load" => due

\* While a Delete is between the tiers, L2 and all holders are as new as it is;
\* after it, the near tier is too.
DeleteInv ==
    /\ deleted <= origin /\ \A c \in Callers : req[c].val <= origin
    /\ Alive(far) => far.val <= origin
    /\ ~tainted =>
          /\ Alive(far) => /\ deleted <= far.val
                           /\ \A c \in Callers : req[c].step = "delL1" => req[c].val <= far.val
          /\ Alive(near) => deleted <= near.val
          /\ \A d \in Callers : Holds(d) =>
                 /\ deleted <= req[d].val
                 /\ \A c \in Callers : req[c].step = "delL1" => req[c].val <= req[d].val

\* Lifetimes stay within what was asked for.
LifeInv ==
    /\ far.exp = Never => lasting
    /\ far.exp # Never => far.exp <= now + MaxTTL
    /\ \A c \in Callers : req[c].step = "setL1" /\ req[c].ttl = 0 => lasting
    /\ \A c \in Callers : req[c].step = "backfill" /\ l1ttl = 0 /\ req[c].ttl = 0
                              => lasting \/ vanished
    /\ NearExpires

TieredInv == FlightInv /\ DueInv /\ DeleteInv /\ LifeInv

(***************************************************************************)
(* The entity cache.                                                       *)
(***************************************************************************)

GroupSteps == {"recheck", "query", "fill", "done", "unlink"}

\* One getter leads the flight; a flight without one is a flight that panicked.
GroupInv ==
    /\ \A g \in Getters : get[g].step \in GroupSteps =>
           group = IF get[g].step = "unlink" THEN "done" ELSE "open"
    /\ \A g, h \in Getters : get[g].step \in GroupSteps /\ get[h].step \in GroupSteps => g = h
    /\ group = "open" => panicked \/ \E g \in Getters : get[g].step \in GroupSteps \ {"unlink"}
    /\ \A g \in Getters : get[g].step = "wait" => group = "open"

\* Whoever holds a row to cache it holds the committed one, or one that was overtaken.
RowInv ==
    /\ \A g \in Getters : get[g].step = "fill" => get[g].row \in {stored} \cup overtaken
    /\ \A u \in Updaters : write[u].step = "cache" /\ ~write[u].drops /\ ~write[u].tx
                            => write[u].row \in {stored} \cup overtaken
    /\ CachedRowCurrent

EntityInv == GroupInv /\ RowInv

(***************************************************************************)
(* Topics.                                                                 *)
(***************************************************************************)

\* Numbers are minted once, and one that its reader has yet to store is nowhere else.
MintInv ==
    /\ \A t \in TopicSet : gen[t] <= minted[t]
    /\ \A t \in TopicSet : \A e \in answers : e.stamp[t] <= minted[t]
    /\ \A t \in TopicSet : \A r \in Readers : reader[r].stamp[t] <= minted[t]
    /\ \A r \in Readers : reader[r].step # "mint" => reader[r].fresh = {}
    /\ \A r \in Readers : \A t \in reader[r].fresh :
           /\ reader[r].stamp[t] # gen[t] /\ reader[r].stamp[t] # 0
           /\ \A e \in answers : e.stamp[t] # reader[r].stamp[t]
           /\ \A s \in Readers : s # r => reader[s].stamp[t] # reader[r].stamp[t]

\* Every topic a query depends on has a generation in its stamp.
StampInv ==
    /\ \A e \in answers : \A t \in DependsOn(e.query) : e.stamp[t] # 0
    /\ \A r \in Readers : reader[r].step \in {"mint", "lookup", "query", "store"} =>
           \A t \in DependsOn(reader[r].query) : reader[r].stamp[t] # 0

\* A transaction that has written keeps the row for itself.
WriterInv ==
    /\ \A v, w \in Writers : writer[v].tx /\ writer[v].step # "idle"
                             /\ writer[w].tx /\ writer[w].step # "idle" => v = w
    /\ \A w \in Writers : writer[w].tx /\ writer[w].step # "idle" =>
           /\ writer[w].topics = Touches(row, writer[w].row)
           /\ row # NoRow \/ writer[w].row # NoRow
    /\ \A w \in Writers : writer[w].step = "open" => writer[w].tx
    /\ \A w \in Writers : writer[w].topics \subseteq TopicSet

\* The answer a to query q under stamp s is right, cannot be found, or is excused.
Excused(q, s, a) ==
    \/ a = Answer(q)
    \/ unheard
    \/ \E t \in DependsOn(q) : s[t] # gen[t]
    \/ \E t \in DependsOn(q) : <<t, s[t]>> \in suspect
    \/ \E w \in Writers : /\ writer[w].step = "invalidate" /\ ~writer[w].tx
                          /\ writer[w].topics \cap DependsOn(q) # {}

AnswerInv ==
    /\ \A e \in answers : Excused(e.query, e.stamp, e.answer)
    /\ \A r \in Readers : reader[r].step = "store" =>
           Excused(reader[r].query, reader[r].stamp, reader[r].answer)

TopicsInv == MintInv /\ StampInv /\ WriterInv /\ AnswerInv

-------------------------------------------------------------------------------
(***************************************************************************)
(* The entity cache: proofs.                                               *)
(***************************************************************************)

Getting == [Getters -> GetState]
Writing == [Updaters -> WriteState]

\* The bounds are numbers, and the first row is within them.
LEMMA EntityNumbers ==
    /\ MaxRow \in Nat /\ MaxGets \in Nat /\ MaxTrouble \in Nat
    /\ 0 \in 0..MaxRow /\ 1 \in 0..MaxRow /\ 0 \in 0..MaxGets /\ 0 \in 0..MaxTrouble
<1>1. MaxRow \in Nat /\ MaxGets \in Nat /\ MaxTrouble \in Nat /\ MaxRow > 0
  BY EntityBounds
<1> QED
  BY <1>1

\* The records of getters and writers.
LEMMA EntityRecords ==
    /\ \A s \in {"idle", "read", "do", "wait", "woken", "recheck", "query", "fill", "done", "unlink"},
          n \in 0..MaxRow : [step |-> s, row |-> n] \in GetState
    /\ NoGet \in GetState /\ NoGet.step = "idle"
    /\ NoWrite \in WriteState /\ NoWrite.step = "idle"
    /\ \A s \in {"idle", "cache", "open", "unheard"}, x, d \in BOOLEAN, n \in 0..MaxRow :
          [step |-> s, tx |-> x, drops |-> d, row |-> n] \in WriteState
<1>1. 0 \in 0..MaxRow
  BY EntityNumbers
<1> QED
  BY <1>1 DEF GetState, WriteState, NoGet, NoWrite

\* Moving a getter on changes its step and no other getter.
LEMMA ToFacts ==
    ASSUME get \in Getting, NEW g \in Getters,
           NEW s \in {"idle", "read", "do", "wait", "woken", "recheck", "query", "fill", "done", "unlink"},
           To(g, s)
    PROVE  /\ get' \in Getting
           /\ get'[g].step = s /\ get'[g].row = get[g].row
           /\ \A h \in Getters : h # g => get'[h] = get[h]
<1>1. [get[g] EXCEPT !.step = s] \in GetState
  BY DEF Getting, GetState
<1>2. get' = [get EXCEPT ![g] = [get[g] EXCEPT !.step = s]]
  BY DEF To
<1>3. [get[g] EXCEPT !.step = s].step = s /\ [get[g] EXCEPT !.step = s].row = get[g].row
  BY DEF Getting, GetState
<1> QED
  BY <1>1, <1>2, <1>3 DEF Getting

\* What a getter's step may do to the flight and to the rows held, in one form: the
\* getter ends in state r; the others stay where they are.
LEMMA GetterStep ==
    ASSUME EntityTypeOK, EntityInv, NEW g \in Getters, GetterUnchanged,
           get' \in Getting, \A h \in Getters : h # g => get'[h] = get[h],
           panicked => panicked',
           entry' = entry \/ (get[g].step = "fill" /\ entry' = get[g].row),
           get'[g].step = "fill" => get'[g].row = stored,
           \* the flight
           \/ /\ group' = group /\ get[g].step \notin GroupSteps /\ get'[g].step \notin GroupSteps
              /\ get'[g].step = "wait" => group = "open"
           \/ /\ group = "none" /\ group' = "open" /\ get'[g].step = "recheck"
           \/ /\ group' = group /\ get[g].step \in GroupSteps \ {"unlink"}
              /\ \/ get'[g].step \in GroupSteps \ {"unlink"}
                 \/ get'[g].step = "idle" /\ panicked'
           \/ get[g].step = "unlink" /\ group' = "none" /\ get'[g].step = "idle"
    PROVE  EntityInv'
<1>1. GroupInv /\ RowInv
  BY DEF EntityInv
<1>2. UNCHANGED <<stored, write, wrote, overtaken, leaked, outlived>>
  BY DEF GetterUnchanged
<1>3. GroupInv'
  <2>1. CASE /\ group' = group /\ get[g].step \notin GroupSteps /\ get'[g].step \notin GroupSteps
             /\ get'[g].step = "wait" => group = "open"
    BY <1>1, <2>1 DEF GroupInv
  <2>2. CASE group = "none" /\ group' = "open" /\ get'[g].step = "recheck"
    <3>1. \A h \in Getters : get[h].step \notin GroupSteps /\ get[h].step # "wait"
      BY <1>1, <2>2 DEF GroupInv
    <3> QED
      BY <2>2, <3>1 DEF GroupInv, GroupSteps
  <2>3. CASE /\ group' = group /\ get[g].step \in GroupSteps \ {"unlink"}
             /\ \/ get'[g].step \in GroupSteps \ {"unlink"}
                \/ get'[g].step = "idle" /\ panicked'
    <3>1. \A h \in Getters : h # g => get[h].step \notin GroupSteps
      BY <1>1, <2>3 DEF GroupInv
    <3>2. group = "open"
      BY <1>1, <2>3 DEF GroupInv
    <3> QED
      BY <1>1, <2>3, <3>1, <3>2 DEF GroupInv, GroupSteps
  <2>4. CASE get[g].step = "unlink" /\ group' = "none" /\ get'[g].step = "idle"
    <3>1. \A h \in Getters : h # g => get[h].step \notin GroupSteps
      BY <1>1, <2>4 DEF GroupInv, GroupSteps
    <3>2. group = "done"
      BY <1>1, <2>4 DEF GroupInv, GroupSteps
    <3> QED
      BY <1>1, <2>4, <3>1, <3>2 DEF GroupInv, GroupSteps
  <2> QED
    BY <2>1, <2>2, <2>3, <2>4
<1>4. RowInv'
  <2>1. CachedRowCurrent'
    BY <1>1, <1>2 DEF RowInv, CachedRowCurrent
  <2> QED
    BY <1>1, <1>2, <2>1 DEF RowInv
<1> QED
  BY <1>3, <1>4 DEF EntityInv

\* A getter's step keeps types and invariant.
LEMMA GetterNext ==
    ASSUME EntityTypeOK, EntityInv, NEW g \in Getters,
           \/ BeginGet(g) \/ ReadPK(g) \/ EnterGroup(g) \/ GetWoken(g) \/ RecheckPK(g)
           \/ QueryRow(g) \/ QueryFails(g) \/ QueryPanics(g) \/ FillPK(g)
           \/ GroupDone(g) \/ LeaveGroup(g)
    PROVE  EntityTypeOK' /\ EntityInv'
<1>0. /\ get \in Getting /\ write \in Writing
      /\ stored \in 0..MaxRow /\ entry \in 0..MaxRow /\ wrote \in 0..MaxRow
      /\ group \in {"none", "open", "done"} /\ gets \in 0..MaxGets /\ trouble \in 0..MaxTrouble
      /\ {overtaken, leaked, outlived} \subseteq SUBSET (0..MaxRow) /\ panicked \in BOOLEAN
      /\ get[g].row \in 0..MaxRow
  BY DEF EntityTypeOK, Getting, Writing, GetState
<1>1. ASSUME get' \in Getting, GetterUnchanged, entry' \in 0..MaxRow,
             group' \in {"none", "open", "done"}, gets' \in 0..MaxGets,
             trouble' \in 0..MaxTrouble, panicked' \in BOOLEAN
      PROVE  EntityTypeOK'
  BY <1>0, <1>1 DEF EntityTypeOK, GetterUnchanged, Getting, Writing
<1>2. ASSUME BeginGet(g) PROVE EntityTypeOK' /\ EntityInv'
  <2>1. /\ To(g, "read") /\ get[g].step = "idle" /\ GetterUnchanged
        /\ UNCHANGED <<entry, group, trouble, panicked>>
    BY <1>2 DEF BeginGet
  <2>2. gets' \in 0..MaxGets
    BY <1>0, <1>2, EntityNumbers DEF BeginGet
  <2> QED
    BY <1>0, <1>1, <2>1, <2>2, ToFacts, GetterStep DEF GroupSteps
<1>3. ASSUME ReadPK(g) PROVE EntityTypeOK' /\ EntityInv'
  <2>1. /\ To(g, "idle") \/ To(g, "do")
        /\ get[g].step = "read" /\ GetterUnchanged
        /\ UNCHANGED <<entry, group, gets, trouble, panicked>>
    BY <1>3 DEF ReadPK, Hits
  <2> QED
    BY <1>0, <1>1, <2>1, ToFacts, GetterStep DEF GroupSteps
<1>4. ASSUME EnterGroup(g) PROVE EntityTypeOK' /\ EntityInv'
  <2>1. /\ get[g].step = "do" /\ GetterUnchanged /\ UNCHANGED <<entry, gets, trouble, panicked>>
        /\ \/ group = "none" /\ To(g, "recheck") /\ group' = "open"
           \/ group = "done" /\ To(g, "woken") /\ UNCHANGED group
           \/ group = "open" /\ To(g, "wait") /\ UNCHANGED group
    BY <1>0, <1>4 DEF EnterGroup
  <2> QED
    BY <1>0, <1>1, <2>1, ToFacts, GetterStep DEF GroupSteps
<1>5. ASSUME GetWoken(g) PROVE EntityTypeOK' /\ EntityInv'
  <2>1. /\ To(g, "idle") /\ get[g].step = "woken" /\ GetterUnchanged
        /\ UNCHANGED <<entry, group, gets, trouble, panicked>>
    BY <1>5 DEF GetWoken
  <2> QED
    BY <1>0, <1>1, <2>1, ToFacts, GetterStep DEF GroupSteps
<1>6. ASSUME RecheckPK(g) PROVE EntityTypeOK' /\ EntityInv'
  <2>1. /\ To(g, "done") \/ To(g, "query")
        /\ get[g].step = "recheck" /\ GetterUnchanged
        /\ UNCHANGED <<entry, group, gets, trouble, panicked>>
    BY <1>6 DEF RecheckPK, Hits
  <2> QED
    BY <1>0, <1>1, <2>1, ToFacts, GetterStep DEF GroupSteps
<1>7. ASSUME QueryRow(g) PROVE EntityTypeOK' /\ EntityInv'
  <2>1. PICK r \in {[step |-> "done", row |-> 0], [step |-> "fill", row |-> stored]} :
           /\ get' = [get EXCEPT ![g] = r]
           /\ get[g].step = "query" /\ GetterUnchanged
           /\ UNCHANGED <<entry, group, gets, trouble, panicked>>
    BY <1>7 DEF QueryRow
  <2>2. r \in GetState /\ r.step \in {"done", "fill"} /\ (r.step = "fill" => r.row = stored)
    BY <1>0, EntityRecords, EntityNumbers
  <2>3. get' \in Getting /\ get'[g] = r /\ \A h \in Getters : h # g => get'[h] = get[h]
    BY <1>0, <2>1, <2>2 DEF Getting
  <2> HIDE DEF Getting
  <2> QED
    BY <1>0, <1>1, <2>1, <2>2, <2>3, GetterStep DEF GroupSteps
<1>8. ASSUME QueryFails(g) PROVE EntityTypeOK' /\ EntityInv'
  <2>1. /\ To(g, "done") /\ get[g].step = "query" /\ GetterUnchanged
        /\ UNCHANGED <<entry, group, gets, panicked>>
    BY <1>8 DEF QueryFails
  <2>2. trouble' \in 0..MaxTrouble
    BY <1>0, <1>8, EntityNumbers DEF QueryFails
  <2> QED
    BY <1>0, <1>1, <2>1, <2>2, ToFacts, GetterStep DEF GroupSteps
<1>9. ASSUME QueryPanics(g) PROVE EntityTypeOK' /\ EntityInv'
  <2>1. /\ To(g, "idle") /\ get[g].step = "query" /\ GetterUnchanged /\ panicked' = TRUE
        /\ UNCHANGED <<entry, group, gets>>
    BY <1>9 DEF QueryPanics
  <2>2. trouble' \in 0..MaxTrouble
    BY <1>0, <1>9, EntityNumbers DEF QueryPanics
  <2> QED
    BY <1>0, <1>1, <2>1, <2>2, ToFacts, GetterStep DEF GroupSteps
<1>10. ASSUME FillPK(g) PROVE EntityTypeOK' /\ EntityInv'
  <2> DEFINE r == [step |-> "done", row |-> 0]
  <2>1. /\ get' = [get EXCEPT ![g] = r] /\ get[g].step = "fill" /\ GetterUnchanged
        /\ entry' \in {get[g].row, entry} /\ UNCHANGED <<group, gets, trouble, panicked>>
    BY <1>10 DEF FillPK
  <2>2. r \in GetState /\ r.step = "done"
    BY EntityRecords, EntityNumbers
  <2> HIDE DEF r
  <2>3. get' \in Getting /\ get'[g] = r /\ \A h \in Getters : h # g => get'[h] = get[h]
    BY <1>0, <2>1, <2>2 DEF Getting
  <2> QED
    BY <1>0, <1>1, <2>1, <2>2, <2>3, GetterStep DEF GroupSteps
<1>11. ASSUME GroupDone(g) PROVE EntityTypeOK' /\ EntityInv'
  <2>1. /\ get[g].step = "done" /\ group' = "done" /\ GetterUnchanged
        /\ get' = [h \in Getters |-> IF h = g THEN [get[h] EXCEPT !.step = "unlink"]
                                     ELSE IF get[h].step = "wait"
                                          THEN [get[h] EXCEPT !.step = "woken"]
                                     ELSE get[h]]
        /\ UNCHANGED <<entry, gets, trouble, panicked>>
    BY <1>11 DEF GroupDone
  <2>2. \A h \in Getters : /\ [get[h] EXCEPT !.step = "unlink"] \in GetState
                           /\ [get[h] EXCEPT !.step = "woken"] \in GetState
                           /\ [get[h] EXCEPT !.step = "unlink"].step = "unlink"
                           /\ [get[h] EXCEPT !.step = "woken"].step = "woken"
    BY <1>0 DEF Getting, GetState
  <2>3. get' \in Getting
    BY <1>0, <2>1, <2>2 DEF Getting
  <2>4. /\ get'[g].step = "unlink"
        /\ \A h \in Getters : /\ h # g /\ get[h].step = "wait" => get'[h].step = "woken"
                              /\ h # g /\ get[h].step # "wait" => get'[h] = get[h]
    BY <2>1, <2>2
  <2>5. EntityTypeOK'
    BY <1>1, <1>0, <2>1, <2>3
  <2>6. GroupInv /\ RowInv
    BY DEF EntityInv
  <2>7. \A h \in Getters : h # g => get[h].step \notin GroupSteps
    BY <2>1, <2>6 DEF GroupInv, GroupSteps
  <2>8. \A h \in Getters : h # g => get'[h].step \notin GroupSteps /\ get'[h].step # "wait"
    BY <2>4, <2>7 DEF GroupSteps
  <2>9. GroupInv'
    BY <2>1, <2>4, <2>8 DEF GroupInv, GroupSteps
  <2>10. RowInv'
    <3>1. \A h \in Getters : get'[h].step # "fill"
      BY <2>4, <2>8 DEF GroupSteps
    <3>2. CachedRowCurrent'
      BY <2>1, <2>6 DEF RowInv, CachedRowCurrent, GetterUnchanged
    <3> QED
      BY <2>1, <2>6, <3>1, <3>2 DEF RowInv, GetterUnchanged
  <2> QED
    BY <2>5, <2>9, <2>10 DEF EntityInv
<1>12. ASSUME LeaveGroup(g) PROVE EntityTypeOK' /\ EntityInv'
  <2>1. /\ To(g, "idle") /\ get[g].step = "unlink" /\ GetterUnchanged /\ group' = "none"
        /\ UNCHANGED <<entry, gets, trouble, panicked>>
    BY <1>12 DEF LeaveGroup
  <2> QED
    BY <1>0, <1>1, <2>1, ToFacts, GetterStep DEF GroupSteps
<1> QED
  BY <1>2, <1>3, <1>4, <1>5, <1>6, <1>7, <1>8, <1>9, <1>10, <1>11, <1>12

\* A writer's step leaves the flight alone.
LEMMA UpdaterKeepsGroup ==
    ASSUME GroupInv, UpdaterUnchanged
    PROVE  GroupInv'
  BY DEF GroupInv, UpdaterUnchanged

\* The types after a writer's step.
LEMMA UpdaterType ==
    ASSUME EntityTypeOK, UpdaterUnchanged, write' \in Writing,
           stored' \in 0..MaxRow, entry' \in 0..MaxRow, wrote' \in 0..MaxRow,
           {overtaken', leaked', outlived'} \subseteq SUBSET (0..MaxRow)
    PROVE  EntityTypeOK'
  BY DEF EntityTypeOK, UpdaterUnchanged, Writing

\* What a write's call to the cache leaves of it, whether it is heard or not.
LEMMA CachedFacts ==
    ASSUME write \in Writing, NEW u \in Updaters, Cached(u) \/ Unheard(u)
    PROVE  /\ write' \in Writing
           /\ \A v \in Updaters : v # u => write'[v] = write[v]
           /\ write'[u].step # "cache"
<1> DEFINE o == [write[u] EXCEPT !.step = "open"]
           h == [write[u] EXCEPT !.step = "unheard"]
<1>1. /\ o \in WriteState /\ o.step = "open"
      /\ h \in WriteState /\ h.step = "unheard"
  BY DEF Writing, WriteState
<1>2. NoWrite \in WriteState /\ NoWrite.step = "idle"
  BY EntityRecords
<1>3. \/ write' = [write EXCEPT ![u] = IF write[u].tx THEN o ELSE NoWrite]
      \/ write' = [write EXCEPT ![u] = IF write[u].tx THEN h ELSE NoWrite]
  BY DEF Cached, Unheard
<1> HIDE DEF o, h
<1>4. PICK r \in {o, h, NoWrite} : write' = [write EXCEPT ![u] = r]
  BY <1>3
<1>5. r \in WriteState /\ r.step # "cache"
  BY <1>1, <1>2
<1> QED
  BY <1>4, <1>5 DEF Writing

\* Rows that others hold are rows, and the change that replaces them records them.
LEMMA HeldFacts ==
    ASSUME get \in Getting, write \in Writing, NEW u \in Updaters
    PROVE  /\ HeldRows(u) \subseteq 0..MaxRow
           /\ \A g \in Getters : get[g].step = "fill" => get[g].row \in HeldRows(u)
           /\ \A v \in Updaters : v # u /\ write[v].step = "cache" /\ ~write[v].drops
                                  => write[v].row \in HeldRows(u)
  BY DEF HeldRows, Getting, Writing, GetState, WriteState

\* A call that failed leaves the entry, under its name if it is stale now.
LEMMA UnheardFacts ==
    ASSUME NEW u \in Updaters, write \in Writing, entry \in 0..MaxRow, outlived \subseteq 0..MaxRow,
           Unheard(u)
    PROVE  /\ UNCHANGED <<entry, leaked>>
           /\ outlived' \subseteq 0..MaxRow /\ outlived \subseteq outlived'
           /\ ~write[u].tx /\ entry \notin {0, stored} => entry \in outlived'
<1>1. CASE write[u].tx
  BY <1>1 DEF Unheard
<1>2. CASE ~write[u].tx
  BY <1>2 DEF Unheard
<1> QED
  BY <1>1, <1>2

\* A write's call to the cache keeps the invariant, with the rows it puts there or
\* leaves there excused.
LEMMA CacheCall ==
    ASSUME EntityTypeOK, EntityInv, NEW u \in Updaters, write[u].step = "cache",
           Cached(u) \/ Unheard(u), UpdaterUnchanged, UNCHANGED <<stored, wrote, overtaken>>,
           entry' \in 0..MaxRow, leaked' \subseteq 0..MaxRow, outlived' \subseteq 0..MaxRow,
           leaked \subseteq leaked', outlived \subseteq outlived',
           \/ entry' \in {0, stored} \cup overtaken \cup leaked'
           \/ entry' = entry /\ write[u].tx
           \/ entry' = entry /\ entry \in {0, stored} \cup outlived'
    PROVE  EntityTypeOK' /\ EntityInv'
<1>1. /\ write \in Writing /\ overtaken \subseteq 0..MaxRow /\ stored \in 0..MaxRow
      /\ wrote \in 0..MaxRow /\ GroupInv /\ RowInv
  BY DEF EntityTypeOK, EntityInv, Writing
<1>2. /\ write' \in Writing /\ \A v \in Updaters : v # u => write'[v] = write[v]
      /\ write'[u].step # "cache"
  BY <1>1, CachedFacts
<1>3. EntityTypeOK'
  BY <1>1, <1>2, UpdaterType
<1>4. CachedRowCurrent'
  BY <1>1, <1>2 DEF RowInv, CachedRowCurrent
<1>5. RowInv'
  BY <1>1, <1>2, <1>4 DEF RowInv, UpdaterUnchanged
<1> QED
  BY <1>1, <1>3, <1>5, UpdaterKeepsGroup DEF EntityInv

\* A write's step keeps types and invariant.
LEMMA UpdaterNext ==
    ASSUME EntityTypeOK, EntityInv, NEW u \in Updaters,
           \/ \E method \in {"save", "patch", "delete"}, tx \in BOOLEAN : WriteRow(u, method, tx)
           \/ refreshPK(u) \/ invalidatePK(u) \/ CommitRow(u) \/ RollbackRow(u)
    PROVE  EntityTypeOK' /\ EntityInv'
<1>0. /\ get \in Getting /\ write \in Writing
      /\ stored \in 0..MaxRow /\ entry \in 0..MaxRow /\ wrote \in 0..MaxRow
      /\ overtaken \subseteq 0..MaxRow /\ leaked \subseteq 0..MaxRow /\ outlived \subseteq 0..MaxRow
      /\ write[u].row \in 0..MaxRow
      /\ \A v \in Updaters : write[v].tx \in BOOLEAN /\ write[v].drops \in BOOLEAN
      /\ GroupInv /\ RowInv
  BY DEF EntityTypeOK, Getting, Writing, WriteState, EntityInv
<1>1. ASSUME NEW method \in {"save", "patch", "delete"}, NEW tx \in BOOLEAN, WriteRow(u, method, tx)
      PROVE  EntityTypeOK' /\ EntityInv'
  <2> DEFINE new == IF method = "delete" \/ (method = "patch" /\ stored = 0) THEN 0 ELSE wrote + 1
             r   == [step |-> "cache", tx |-> tx, drops |-> method # "save", row |-> new]
  <2>1. /\ write[u].step = "idle" /\ wrote < MaxRow /\ wrote' = wrote + 1
        /\ write' = [write EXCEPT ![u] = r]
        /\ stored' = (IF tx THEN stored ELSE new)
        /\ overtaken' = (IF tx THEN overtaken ELSE overtaken \cup HeldRows(u))
        /\ UpdaterUnchanged /\ UNCHANGED <<entry, leaked, outlived>>
    BY <1>1 DEF WriteRow
  <2>2. wrote + 1 \in 0..MaxRow /\ new \in 0..MaxRow
    BY <1>0, <2>1, EntityNumbers
  <2> HIDE DEF new
  <2>3. (method # "save") \in BOOLEAN
    OBVIOUS
  <2>4. r \in WriteState /\ r.step = "cache" /\ r.tx = tx /\ r.row = new
    BY <2>2, <2>3, EntityRecords DEF WriteState
  <2> HIDE DEF r
  <2>5. write' \in Writing /\ write'[u] = r /\ \A v \in Updaters : v # u => write'[v] = write[v]
    BY <1>0, <2>1, <2>4 DEF Writing
  <2>6. overtaken' \subseteq 0..MaxRow /\ overtaken \subseteq overtaken'
    BY <1>0, <2>1, HeldFacts
  <2>7. EntityTypeOK'
    BY <1>0, <2>1, <2>2, <2>5, <2>6, UpdaterType
  <2>8. RowInv'
    <3>1. CASE tx
      <4>1. stored' = stored /\ r.tx
        BY <2>1, <2>4, <3>1
      <4>2. CachedRowCurrent'
        BY <1>0, <2>1, <2>4, <2>5, <2>6, <4>1 DEF RowInv, CachedRowCurrent
      <4> QED
        BY <1>0, <2>1, <2>4, <2>5, <2>6, <4>1, <4>2 DEF RowInv, UpdaterUnchanged
    <3>2. CASE ~tx
      <4>1. stored' = new /\ ~r.tx /\ HeldRows(u) \subseteq overtaken'
        BY <2>1, <2>4, <3>2
      <4>2. CachedRowCurrent'
        BY <2>4, <2>5, <4>1 DEF CachedRowCurrent
      <4>3. \A g \in Getters : get'[g].step = "fill" => get'[g].row \in overtaken'
        BY <1>0, <2>1, <4>1, HeldFacts DEF UpdaterUnchanged
      <4>4. \A v \in Updaters : v # u /\ write'[v].step = "cache" /\ ~write'[v].drops
                                => write'[v].row \in overtaken'
        BY <1>0, <2>5, <4>1, HeldFacts
      <4> QED
        BY <2>4, <2>5, <4>1, <4>2, <4>3, <4>4 DEF RowInv
    <3> QED
      BY <3>1, <3>2
  <2> QED
    BY <1>0, <2>1, <2>7, <2>8, UpdaterKeepsGroup DEF EntityInv
<1>2. ASSUME refreshPK(u) PROVE EntityTypeOK' /\ EntityInv'
  <2>1. /\ write[u].step = "cache" /\ ~write[u].drops
        /\ UpdaterUnchanged /\ UNCHANGED <<stored, wrote, overtaken>>
    BY <1>2 DEF refreshPK
  <2>2. CASE /\ entry' = write[u].row /\ Cached(u)
             /\ leaked' = IF write[u].tx THEN leaked \cup {write[u].row} ELSE leaked
    <3>1. outlived' = outlived /\ leaked' \subseteq 0..MaxRow /\ leaked \subseteq leaked'
      BY <1>0, <2>2 DEF Cached
    <3>2. write[u].row \in {stored} \cup overtaken \cup leaked'
      BY <1>0, <2>1, <2>2 DEF RowInv
    <3> QED
      BY <1>0, <2>1, <2>2, <3>1, <3>2, CacheCall
  <2>3. CASE Unheard(u)
    BY <1>0, <2>1, <2>3, UnheardFacts, CacheCall
  <2> QED
    BY <1>2, <2>2, <2>3 DEF refreshPK
<1>3. ASSUME invalidatePK(u) PROVE EntityTypeOK' /\ EntityInv'
  <2>1. /\ write[u].step = "cache" /\ UpdaterUnchanged /\ UNCHANGED <<stored, wrote, overtaken>>
    BY <1>3 DEF invalidatePK
  <2>2. CASE entry' = 0 /\ Cached(u) /\ UNCHANGED leaked
    <3>1. outlived' = outlived
      BY <2>2 DEF Cached
    <3> QED
      BY <1>0, <2>1, <2>2, <3>1, CacheCall, EntityNumbers
  <2>3. CASE Unheard(u)
    BY <1>0, <2>1, <2>3, UnheardFacts, CacheCall
  <2> QED
    BY <1>3, <2>2, <2>3 DEF invalidatePK
<1>4. ASSUME CommitRow(u) \/ RollbackRow(u)
      PROVE  /\ write' \in Writing /\ write'[u].step = "idle"
             /\ \A v \in Updaters : v # u => write'[v] = write[v]
  <2>1. write' = [write EXCEPT ![u] = NoWrite]
    BY <1>4 DEF CommitRow, RollbackRow
  <2> QED
    BY <1>0, <2>1, EntityRecords DEF Writing
<1>5. ASSUME CommitRow(u) PROVE EntityTypeOK' /\ EntityInv'
  <2> DEFINE old == {entry} \ {0, write[u].row}
  <2>1. /\ stored' = write[u].row /\ leaked' = leaked \ {write[u].row}
        /\ \/ overtaken' = overtaken \cup HeldRows(u) \cup old /\ UNCHANGED outlived
           \/ overtaken' = overtaken \cup HeldRows(u) /\ outlived' = outlived \cup old
        /\ UpdaterUnchanged /\ UNCHANGED <<entry, wrote>>
    BY <1>5 DEF CommitRow
  <2>2. /\ overtaken' \subseteq 0..MaxRow /\ leaked' \subseteq 0..MaxRow /\ outlived' \subseteq 0..MaxRow
        /\ HeldRows(u) \subseteq overtaken' /\ old \subseteq overtaken' \cup outlived'
    BY <1>0, <2>1, HeldFacts
  <2>3. EntityTypeOK'
    BY <1>0, <1>4, <1>5, <2>1, <2>2, UpdaterType
  <2>4. CachedRowCurrent'
    BY <2>1, <2>2 DEF CachedRowCurrent
  <2>5. \A g \in Getters : get'[g].step = "fill" => get'[g].row \in overtaken'
    BY <1>0, <2>1, <2>2, HeldFacts DEF UpdaterUnchanged
  <2>6. \A v \in Updaters : v # u /\ write'[v].step = "cache" /\ ~write'[v].drops
                            => write'[v].row \in overtaken'
    BY <1>0, <1>4, <1>5, <2>2, HeldFacts
  <2>7. RowInv'
    BY <1>4, <1>5, <2>4, <2>5, <2>6 DEF RowInv
  <2> QED
    BY <1>0, <2>1, <2>3, <2>7, UpdaterKeepsGroup DEF EntityInv
<1>6. ASSUME RollbackRow(u) PROVE EntityTypeOK' /\ EntityInv'
  <2>1. /\ write[u].tx /\ UpdaterUnchanged
        /\ UNCHANGED <<stored, entry, wrote, overtaken, leaked, outlived>>
    BY <1>6 DEF RollbackRow
  <2>2. EntityTypeOK'
    BY <1>0, <1>4, <1>6, <2>1, UpdaterType
  <2>3. CachedRowCurrent'
    BY <1>0, <1>4, <1>6, <2>1 DEF RowInv, CachedRowCurrent
  <2>4. RowInv'
    BY <1>0, <1>4, <1>6, <2>1, <2>3 DEF RowInv, UpdaterUnchanged
  <2> QED
    BY <1>0, <2>1, <2>2, <2>4, UpdaterKeepsGroup DEF EntityInv
<1> QED
  BY <1>1, <1>2, <1>3, <1>5, <1>6

\* The inductive invariant holds at the start, and every step keeps it.
LEMMA EntityInitInv == EntityInit => EntityTypeOK /\ EntityInv
<1> SUFFICES ASSUME EntityInit PROVE EntityTypeOK /\ EntityInv
  OBVIOUS
<1>1. EntityTypeOK
  BY EntityNumbers, EntityRecords DEF EntityInit, EntityTypeOK
<1>2. (\A g \in Getters : get[g].step = "idle") /\ \A u \in Updaters : write[u].step = "idle"
  BY EntityRecords DEF EntityInit
<1>3. GroupInv /\ RowInv
  BY <1>2 DEF EntityInit, GroupInv, RowInv, GroupSteps, CachedRowCurrent
<1> QED
  BY <1>1, <1>3 DEF EntityInv

LEMMA EntityStepInv == EntityTypeOK /\ EntityInv /\ [EntityNext]_entityVars => (EntityTypeOK /\ EntityInv)'
<1> SUFFICES ASSUME EntityTypeOK, EntityInv, [EntityNext]_entityVars
             PROVE  EntityTypeOK' /\ EntityInv'
  OBVIOUS
<1>1. CASE EvictPK
  <2>1. entry' = 0 /\ UNCHANGED <<stored, get, group, write, wrote, gets, trouble, overtaken,
                                  leaked, outlived, panicked>>
    BY <1>1 DEF EvictPK
  <2>2. EntityTypeOK'
    BY <2>1, EntityNumbers DEF EntityTypeOK
  <2>3. EntityInv'
    BY <2>1 DEF EntityInv, GroupInv, RowInv, CachedRowCurrent
  <2> QED
    BY <2>2, <2>3
<1>2. CASE UNCHANGED entityVars
  <2>1. UNCHANGED <<stored, entry, get, group, write, wrote, gets, trouble, overtaken,
                    leaked, outlived, panicked>>
    BY <1>2 DEF entityVars
  <2>2. EntityTypeOK'
    BY <2>1 DEF EntityTypeOK
  <2>3. EntityInv'
    BY <2>1 DEF EntityInv, GroupInv, RowInv, CachedRowCurrent
  <2> QED
    BY <2>2, <2>3
<1> QED
  BY <1>1, <1>2, GetterNext, UpdaterNext, Zenon DEF EntityNext

\* The entity cache keeps its types and inductive invariant in every behaviour.
THEOREM EntityInvCorrect == EntitySpec => [](EntityTypeOK /\ EntityInv)
BY EntityInitInv, EntityStepInv, PTL DEF EntitySpec

\* The row an entity's cache answers is the committed one, except in the moment between
\* a write and its call to the cache; any other row in it was put there by somebody
\* whom a write overtook or by an open transaction, or was left there by a call to the
\* cache that failed unheard (refreshPK, invalidatePK).
THEOREM CachedRowCorrect == EntitySpec => []CachedRowCurrent
<1>1. EntityTypeOK /\ EntityInv => CachedRowCurrent
  BY DEF EntityInv, RowInv
<1> QED
  BY <1>1, EntityInvCorrect, PTL

\* A herd of misses runs one query, and no getter waits for a flight that nobody
\* leads, unless fn panicked (sfGroup.do has no deferred teardown).
THEOREM GroupSoundCorrect == EntitySpec => []GroupSound
<1>1. EntityTypeOK /\ EntityInv => GroupSound
  <2> SUFFICES ASSUME GroupInv PROVE GroupSound
    BY DEF EntityInv
  <2>1. OneQuery
    BY DEF GroupInv, GroupSteps, OneQuery
  <2>2. NobodyWaitsForNobody
    BY DEF GroupInv, GroupSteps, NobodyWaitsForNobody
  <2> QED
    BY <2>1, <2>2 DEF GroupSound
<1> QED
  BY <1>1, EntityInvCorrect, PTL

-------------------------------------------------------------------------------
(***************************************************************************)
(* The tiered cache: proofs.                                               *)
(***************************************************************************)

Steps == {"idle", "getL1", "getL2", "askTTL", "backfill", "do", "wait", "woken", "load",
          "setL2", "setL1", "release", "unlink", "delL2", "delL1"}
HoldSteps == {"askTTL", "backfill", "setL2", "setL1"}

\* The bounds are numbers, and no expiry that the clock can lead to is Never.
LEMMA TieredNumbers ==
    /\ MaxNow \in Nat /\ MaxVersion \in Nat /\ MaxCalls \in Nat /\ MaxFails \in Nat
    /\ MaxTTL \in Nat /\ Never \in Nat /\ Never > MaxNow + MaxTTL
    /\ 0 \in 0..MaxVersion /\ 1 \in 1..MaxVersion /\ 0 \in 0..Never /\ 0 \in 0..MaxTTL
    /\ 0 \in 0..MaxNow /\ 0 \in 0..MaxCalls /\ 0 \in 0..MaxFails /\ Never # 0
    /\ L1TTLs \subseteq 0..MaxTTL /\ TTLs \subseteq 0..MaxTTL
    /\ \A v \in 1..MaxVersion : v \in 0..MaxVersion
<1>1. /\ MaxNow \in Nat \ {0} /\ MaxVersion \in Nat \ {0} /\ MaxCalls \in Nat \ {0}
      /\ MaxFails \in Nat \ {0} /\ MaxTTL \in Nat
  BY TieredBounds, TTLAssumption
<1>2. Never \in Nat /\ Never > MaxNow + MaxTTL
  BY <1>1 DEF Never
<1> QED
  BY <1>1, <1>2, TTLAssumption

\* The types, with the world's part spelled out.
LEMMA TieredFacts ==
    ASSUME TieredTypeOK
    PROVE  /\ l1ttl \in 0..MaxTTL /\ life \in 0..MaxTTL /\ now \in 0..MaxNow
           /\ origin \in 1..MaxVersion /\ origin \in 0..MaxVersion
           /\ near \in Entry /\ far \in Entry /\ req \in [Callers -> Request]
           /\ flight \in {"none", "open", "done"} /\ calls \in 0..MaxCalls /\ fails \in 0..MaxFails
           /\ deleted \in 0..MaxVersion
           /\ due \in BOOLEAN /\ tainted \in BOOLEAN /\ lasting \in BOOLEAN /\ vanished \in BOOLEAN
           /\ near.val \in 0..MaxVersion /\ near.exp \in 0..Never
           /\ far.val \in 0..MaxVersion /\ far.exp \in 0..Never
           /\ \A c \in Callers : /\ req[c].step \in Steps /\ req[c].loads \in BOOLEAN
                                 /\ req[c].leads \in BOOLEAN /\ req[c].val \in 0..MaxVersion
                                 /\ req[c].ttl \in 0..MaxTTL
  BY TieredNumbers DEF TieredTypeOK, Entry, Request, Steps

\* An entry written now.
LEMMA StoredFacts ==
    ASSUME now \in 0..MaxNow, NEW v \in 0..MaxVersion, NEW t \in 0..MaxTTL
    PROVE  /\ Stored(v, t) \in Entry /\ Stored(v, t).val = v
           /\ Stored(v, t).exp = Never <=> t = 0
           /\ Stored(v, t).exp # Never => Stored(v, t).exp <= now + MaxTTL
           /\ Stored(v, t).exp > now
<1> DEFINE e == IF t = 0 THEN Never ELSE now + t
<1>1. /\ e \in 0..Never /\ e > now /\ (e = Never <=> t = 0)
      /\ e # Never => e <= now + MaxTTL
  BY TieredNumbers
<1> HIDE DEF e
<1>2. Stored(v, t) = [val |-> v, exp |-> e]
  BY DEF Stored, e
<1> QED
  BY <1>1, <1>2 DEF Entry

LEMMA EmptyFacts ==
    Empty \in Entry /\ Empty.val = 0 /\ Empty.exp = 0
  BY TieredNumbers DEF Empty, Entry

\* The records of the calls.
LEMMA Requests ==
    /\ \A s \in Steps, l, d \in BOOLEAN, v \in 0..MaxVersion, t \in 0..MaxTTL :
          [step |-> s, loads |-> l, leads |-> d, val |-> v, ttl |-> t] \in Request
    /\ Idle \in Request
    /\ Idle.step = "idle" /\ ~Idle.loads /\ ~Idle.leads /\ Idle.val = 0 /\ Idle.ttl = 0
<1>1. 0 \in 0..MaxVersion /\ 0 \in 0..MaxTTL
  BY TieredNumbers
<1> QED
  BY <1>1 DEF Request, Idle, Steps

\* Moving a caller on changes its step.
LEMMA GotoFacts ==
    ASSUME req \in [Callers -> Request], NEW c \in Callers, NEW s \in Steps, Goto(c, s)
    PROVE  \E r \in Request :
              /\ req' = [req EXCEPT ![c] = r]
              /\ r.step = s /\ r.leads = req[c].leads /\ r.val = req[c].val /\ r.ttl = req[c].ttl
<1> DEFINE r == [req[c] EXCEPT !.step = s]
<1>1. r \in Request
  BY DEF Request, Steps
<1>2. r.step = s /\ r.leads = req[c].leads /\ r.val = req[c].val /\ r.ttl = req[c].ttl
  BY DEF Request
<1>3. req' = [req EXCEPT ![c] = r]
  BY DEF Goto
<1> QED
  BY <1>1, <1>2, <1>3

\* A call that is over is idle, or has a flight to tear down.
LEMMA ReturnFacts ==
    ASSUME req \in [Callers -> Request], NEW c \in Callers, Return(c)
    PROVE  \E r \in Request :
              /\ req' = [req EXCEPT ![c] = r]
              /\ r.leads = req[c].leads /\ r.val = 0 /\ r.ttl = 0
              /\ r.step = IF r.leads THEN "release" ELSE "idle"
<1> DEFINE q == [Idle EXCEPT !.step = "release", !.leads = TRUE]
           r == IF req[c].leads THEN q ELSE Idle
<1>1. req[c].leads \in BOOLEAN
  BY DEF Request
<1>2. q \in Request /\ q.step = "release" /\ q.leads = TRUE /\ q.val = 0 /\ q.ttl = 0
  BY TieredNumbers DEF Request, Idle
<1>3. req' = [req EXCEPT ![c] = r]
  BY DEF Return
<1> HIDE DEF q
<1>4. r \in Request /\ r.leads = req[c].leads /\ r.val = 0 /\ r.ttl = 0
      /\ r.step = IF r.leads THEN "release" ELSE "idle"
  <2>1. CASE req[c].leads = TRUE
    <3>1. r = q
      BY <2>1
    <3> QED
      BY <1>2, <2>1, <3>1
  <2>2. CASE req[c].leads = FALSE
    <3>1. r = Idle
      BY <2>2
    <3>2. Idle.leads = FALSE
      BY DEF Idle
    <3> QED
      BY <2>2, <3>1, <3>2, Requests
  <2> QED
    BY <1>1, <2>1, <2>2
<1> QED
  BY <1>3, <1>4

\* A call's step and the flight: it leads on, stays out, enters, or takes the
\* flight out of the map.
LEMMA FlightStep ==
    ASSUME TieredTypeOK, FlightInv, NEW c \in Callers, NEW r \in Request,
           req' = [req EXCEPT ![c] = r],
           \/ /\ flight' = flight /\ r.leads = req[c].leads
              /\ r.leads => r.step \in LeaderSteps \ {"unlink"} /\ req[c].step # "unlink"
              /\ ~r.leads => r.step \notin {"load", "release", "unlink"}
              /\ r.step = "wait" => flight = "open"
           \/ /\ flight = "none" /\ flight' = "open" /\ r.leads
              /\ r.step \in LeaderSteps \ {"unlink"}
           \/ /\ req[c].step = "unlink" /\ flight' = "none" /\ ~r.leads /\ r.step = "idle"
    PROVE  FlightInv'
<1>0. /\ req'[c] = r /\ \A d \in Callers : d # c => req'[d] = req[d]
      /\ r.leads \in BOOLEAN /\ \A d \in Callers : req[d].leads \in BOOLEAN
  BY TieredFacts DEF Request
<1>1. CASE /\ flight' = flight /\ r.leads = req[c].leads
           /\ r.leads => r.step \in LeaderSteps \ {"unlink"} /\ req[c].step # "unlink"
           /\ ~r.leads => r.step \notin {"load", "release", "unlink"}
           /\ r.step = "wait" => flight = "open"
  BY <1>0, <1>1 DEF FlightInv
<1>2. CASE /\ flight = "none" /\ flight' = "open" /\ r.leads
           /\ r.step \in LeaderSteps \ {"unlink"}
  <2>1. \A d \in Callers : ~req[d].leads /\ req[d].step # "wait"
    BY <1>2 DEF FlightInv
  <2> QED
    BY <1>0, <1>2, <2>1 DEF FlightInv, LeaderSteps
<1>3. CASE req[c].step = "unlink" /\ flight' = "none" /\ ~r.leads /\ r.step = "idle"
  <2>1. req[c].leads /\ flight = "done"
    BY <1>3 DEF FlightInv
  <2>2. \A d \in Callers : d # c => ~req[d].leads /\ req[d].step # "wait"
    BY <2>1 DEF FlightInv
  <2> QED
    BY <1>0, <1>3, <2>1, <2>2 DEF FlightInv
<1> QED
  BY <1>1, <1>2, <1>3

\* A call's step and the need for a load.
LEMMA DueStep ==
    ASSUME TieredTypeOK, FlightInv, DueInv, NEW c \in Callers, NEW r \in Request,
           req' = [req EXCEPT ![c] = r],
           r.step = "load" => due',
           (due => due') \/ req[c].leads,
           \/ due'
           \/ far'.exp > now'
           \/ r.leads /\ r.step = "setL2"
           \/ /\ due' = due /\ far' = far /\ now' = now
              /\ ~(req[c].leads /\ req[c].step = "setL2")
    PROVE  DueInv'
<1>0. req'[c] = r /\ \A d \in Callers : d # c => req'[d] = req[d]
  BY TieredFacts
<1>1. \A d \in Callers : req'[d].step = "load" => due'
  <2> SUFFICES ASSUME NEW d \in Callers, d # c, req[d].step = "load" PROVE due'
    BY <1>0
  <2>1. due /\ req[d].leads
    BY DEF DueInv, FlightInv
  <2>2. ~req[c].leads
    BY <2>1 DEF FlightInv
  <2> QED
    BY <2>1, <2>2
<1>2. due' \/ Alive(far)' \/ \E d \in Callers : req'[d].leads /\ req'[d].step = "setL2"
  <2>1. CASE due' \/ far'.exp > now' \/ (r.leads /\ r.step = "setL2")
    BY <1>0, <2>1 DEF Alive
  <2>2. CASE /\ due' = due /\ far' = far /\ now' = now
             /\ ~(req[c].leads /\ req[c].step = "setL2")
    BY <1>0, <2>2 DEF DueInv, Alive
  <2> QED
    BY <2>1, <2>2
<1> QED
  BY <1>1, <1>2 DEF DueInv

\* A call's step and the versions: what is stored or held comes from what was.
LEMMA DeleteStep ==
    ASSUME TieredTypeOK, DeleteInv, NEW c \in Callers, NEW r \in Request,
           req' = [req EXCEPT ![c] = r],
           UNCHANGED <<origin, now, tainted, deleted>>,
           r.val <= origin,
           r.step = "delL1" => r.val = 0 \/ (req[c].step = "delL1" /\ r.val = req[c].val),
           \/ far' = far
           \/ far'.val = req[c].val /\ Holds(c),
           \/ near' = near \/ near'.exp = 0
           \/ near'.val = req[c].val /\ Holds(c),
           r.step \in HoldSteps => \/ r.val = origin
                                   \/ Holds(c) /\ r.val = req[c].val
                                   \/ Alive(far) /\ r.val = far.val
    PROVE  DeleteInv'
<1>0. /\ req'[c] = r /\ \A d \in Callers : d # c => req'[d] = req[d]
      /\ origin \in Nat /\ deleted \in Nat /\ near.val \in Nat /\ far.val \in Nat /\ now \in Nat
      /\ r.val \in Nat /\ \A d \in Callers : req[d].val \in Nat
  BY TieredFacts DEF Request
<1>1. /\ deleted <= origin /\ \A d \in Callers : req[d].val <= origin
      /\ Alive(far) => far.val <= origin
  BY DEF DeleteInv
<1>2. \A d \in Callers : req'[d].val <= origin
  BY <1>0, <1>1
<1>3. Alive(far)' => far'.val <= origin
  BY <1>0, <1>1 DEF Alive
<1>4. ASSUME ~tainted
      PROVE  /\ Alive(far)' => deleted <= far'.val
             /\ Alive(near)' => deleted <= near'.val
             /\ \A d \in Callers : req'[d].step \in HoldSteps => deleted <= req'[d].val
  <2>1. /\ Alive(far) => deleted <= far.val
        /\ Alive(near) => deleted <= near.val
        /\ \A d \in Callers : Holds(d) => deleted <= req[d].val
    BY <1>4 DEF DeleteInv
  <2>2. ~(0 > now)
    BY <1>0
  <2>3. (Alive(far)' => deleted <= far'.val) /\ (Alive(near)' => deleted <= near'.val)
    BY <2>1, <2>2 DEF Alive
  <2>4. \A d \in Callers : req'[d].step \in HoldSteps => deleted <= req'[d].val
    BY <1>0, <1>1, <2>1 DEF Holds, HoldSteps
  <2> QED
    BY <2>3, <2>4
<1>5. ASSUME ~tainted, NEW d \in Callers, req'[d].step = "delL1"
      PROVE  /\ Alive(far)' => req'[d].val <= far'.val
             /\ \A e \in Callers : req'[e].step \in HoldSteps => req'[d].val <= req'[e].val
  <2>1. CASE req'[d].val = 0
    <3>1. far'.val \in Nat /\ \A e \in Callers : req'[e].val \in Nat
      BY <1>0
    <3> QED
      BY <2>1, <3>1
  <2>2. CASE req[d].step = "delL1" /\ req'[d].val = req[d].val
    <3>1. /\ Alive(far) => req[d].val <= far.val
          /\ \A e \in Callers : Holds(e) => req[d].val <= req[e].val
          /\ req[d].val <= origin
      BY <1>1, <1>5, <2>2 DEF DeleteInv
    <3>2. Alive(far)' => req[d].val <= far'.val
      BY <3>1 DEF Alive
    <3>3. \A e \in Callers : req'[e].step \in HoldSteps => req[d].val <= req'[e].val
      BY <1>0, <3>1 DEF Holds, HoldSteps
    <3> QED
      BY <2>2, <3>2, <3>3
  <2> QED
    BY <1>0, <1>5, <2>1, <2>2
<1> QED
  BY <1>1, <1>2, <1>3, <1>4, <1>5 DEF DeleteInv, Holds, HoldSteps

\* A call's step and the lifetimes.
LEMMA LifeStep ==
    ASSUME TieredTypeOK, LifeInv, NEW c \in Callers, NEW r \in Request,
           req' = [req EXCEPT ![c] = r],
           UNCHANGED <<now, l1ttl>>,
           lasting => lasting', vanished => vanished',
           \/ far' = far
           \/ /\ far'.exp = Never => lasting'
              /\ far'.exp # Never => far'.exp <= now + MaxTTL,
           near' = near \/ (near'.exp = Never => lasting' \/ vanished'),
           r.step = "setL1" /\ r.ttl = 0 => lasting',
           r.step = "backfill" /\ l1ttl = 0 /\ r.ttl = 0 => lasting' \/ vanished'
    PROVE  LifeInv'
<1>0. req'[c] = r /\ \A d \in Callers : d # c => req'[d] = req[d]
  BY TieredFacts
<1> QED
  BY <1>0 DEF LifeInv, NearExpires

\* The types after a call's step.
LEMMA TieredType ==
    ASSUME TieredTypeOK, NEW c \in Callers, NEW r \in Request, req' = [req EXCEPT ![c] = r],
           UNCHANGED world, near' \in Entry, far' \in Entry, flight' \in {"none", "open", "done"},
           calls' \in 0..MaxCalls, fails' \in 0..MaxFails, deleted' \in 0..MaxVersion,
           due' \in BOOLEAN, tainted' \in BOOLEAN, lasting' \in BOOLEAN, vanished' \in BOOLEAN
    PROVE  TieredTypeOK'
<1>1. req' \in [Callers -> Request]
  BY TieredFacts
<1> QED
  BY <1>1 DEF TieredTypeOK, world

\* One more call, one more failure: within the bounds.
LEMMA CountFacts ==
    ASSUME TieredTypeOK
    PROVE  /\ calls < MaxCalls /\ calls' = calls + 1 => calls' \in 0..MaxCalls
           /\ Fail => fails' \in 0..MaxFails
  BY TieredFacts, TieredNumbers DEF Fail

\* A step of a call that touches no tier and no history.
LEMMA QuietStep ==
    ASSUME TieredTypeOK, TieredInv, NEW c \in Callers, NEW r \in Request,
           req' = [req EXCEPT ![c] = r],
           UNCHANGED <<world, near, far, history>>,
           flight' \in {"none", "open", "done"}, calls' \in 0..MaxCalls, fails' \in 0..MaxFails,
           FlightInv',
           r.step = "load" => due,
           ~(req[c].leads /\ req[c].step = "setL2") \/ due,
           r.val <= origin,
           r.step = "delL1" => r.val = 0 \/ (req[c].step = "delL1" /\ r.val = req[c].val),
           r.step \in HoldSteps => \/ r.val = origin
                                   \/ Holds(c) /\ r.val = req[c].val
                                   \/ Alive(far) /\ r.val = far.val,
           r.step = "setL1" /\ r.ttl = 0 => lasting,
           r.step = "backfill" /\ l1ttl = 0 /\ r.ttl = 0 => lasting \/ vanished
    PROVE  TieredTypeOK' /\ TieredInv'
<1>1. /\ UNCHANGED <<l1ttl, life, now, origin, near, far, due, deleted, tainted, lasting, vanished>>
      /\ FlightInv /\ DueInv /\ DeleteInv /\ LifeInv
  BY DEF world, history, TieredInv
<1>2. TieredTypeOK'
  BY <1>1, TieredFacts, TieredType
<1>3. DueInv'
  BY <1>1, DueStep
<1>4. DeleteInv'
  BY <1>1, DeleteStep
<1>5. LifeInv'
  BY <1>1, LifeStep
<1> QED
  BY <1>2, <1>3, <1>4, <1>5 DEF TieredInv

\* The steps of a call that only move it on.
LEMMA QuietNext ==
    ASSUME TieredTypeOK, TieredInv, NEW c \in Callers,
           \/ Get(c) \/ Delete(c) \/ GetOrLoad(c, life) \/ Set(c, life)
           \/ GetL1(c) \/ GetL2(c) \/ Do(c) \/ Woken(c) \/ LoadFails(c) \/ Unlink(c) \/ DelL2Fails(c)
    PROVE  TieredTypeOK' /\ TieredInv'
<1>0. /\ FlightInv /\ DueInv /\ DeleteInv /\ LifeInv
      /\ req \in [Callers -> Request] /\ req[c].val <= origin /\ req[c].val \in Nat
      /\ req[c].leads \in BOOLEAN /\ req[c].val \in 0..MaxVersion /\ req[c].ttl \in 0..MaxTTL
      /\ flight \in {"none", "open", "done"} /\ calls \in 0..MaxCalls /\ fails \in 0..MaxFails
      /\ origin \in Nat /\ origin \in 0..MaxVersion /\ life \in 0..MaxTTL
      /\ far.val \in 0..MaxVersion
  BY TieredFacts DEF TieredInv, DeleteInv
<1>1. ASSUME NEW r \in Request, Begin(c, r), r.leads = FALSE,
             r.step \in {"getL1", "setL2", "delL2"}, r.val \in {0, origin},
             r.step = "setL2" => r.val = origin
      PROVE  TieredTypeOK' /\ TieredInv'
  <2>2. /\ req[c].step = "idle" /\ calls' \in 0..MaxCalls /\ req' = [req EXCEPT ![c] = r]
        /\ UNCHANGED <<world, near, far, flight, fails, history>>
    BY <1>1, CountFacts DEF Begin, At
  <2>3. ~req[c].leads
    BY <1>0, <2>2 DEF FlightInv, LeaderSteps
  <2>4. FlightInv'
    BY <1>0, <1>1, <2>2, <2>3, FlightStep
  <2>5. r.val <= origin
    BY <1>0, <1>1
  <2> QED
    BY <1>0, <1>1, <2>2, <2>3, <2>4, <2>5, QuietStep DEF HoldSteps
<1>2. ASSUME Get(c) \/ Delete(c) \/ GetOrLoad(c, life) \/ Set(c, life)
      PROVE  TieredTypeOK' /\ TieredInv'
  <2> DEFINE g == [Idle EXCEPT !.step = "getL1"]
             d == [Idle EXCEPT !.step = "delL2", !.val = origin]
             l == [Idle EXCEPT !.step = "getL1", !.loads = TRUE, !.ttl = life]
             s == [Idle EXCEPT !.step = "setL2", !.val = origin, !.ttl = life]
  <2>1. /\ g \in Request /\ g.leads = FALSE /\ g.step = "getL1" /\ g.val = 0
        /\ d \in Request /\ d.leads = FALSE /\ d.step = "delL2" /\ d.val = origin
        /\ l \in Request /\ l.leads = FALSE /\ l.step = "getL1" /\ l.val = 0
        /\ s \in Request /\ s.leads = FALSE /\ s.step = "setL2" /\ s.val = origin
    BY <1>0, TieredNumbers DEF Idle, Request
  <2>3. CASE Get(c)
    BY <1>1, <2>1, <2>3 DEF Get
  <2>4. CASE Delete(c)
    BY <1>1, <2>1, <2>4 DEF Delete
  <2>5. CASE GetOrLoad(c, life)
    BY <1>1, <2>1, <2>5 DEF GetOrLoad
  <2>6. CASE Set(c, life)
    BY <1>1, <2>1, <2>6 DEF Set
  <2> QED
    BY <1>2, <2>3, <2>4, <2>5, <2>6
<1>3. ASSUME UNCHANGED <<world, near, far, flight, calls, history>>, fails' \in 0..MaxFails,
             NEW s \in {"getL2", "load", "do", "wait", "woken"}, Goto(c, s),
             req[c].step \in {"getL1", "getL2", "do"},
             s \in {"do", "wait", "woken"} => ~req[c].leads,
             s = "wait" => flight = "open",
             s = "load" => due /\ req[c].leads
      PROVE  TieredTypeOK' /\ TieredInv'
  <2>0. s \in Steps
    BY <1>3 DEF Steps
  <2>1. PICK r \in Request :
              /\ req' = [req EXCEPT ![c] = r]
              /\ r.step = s /\ r.leads = req[c].leads /\ r.val = req[c].val /\ r.ttl = req[c].ttl
    BY <1>0, <1>3, <2>0, GotoFacts
  <2>2. r.leads => r.step \in LeaderSteps \ {"unlink"} /\ req[c].step # "unlink"
    BY <1>3, <2>1 DEF LeaderSteps
  <2>3. ~r.leads => r.step \notin {"load", "release", "unlink"}
    BY <1>3, <2>1
  <2>4. r.step = "wait" => flight = "open"
    BY <1>3, <2>1
  <2>5. flight' = flight
    BY <1>3
  <2>6. FlightInv'
    BY <1>0, <2>1, <2>2, <2>3, <2>4, <2>5, FlightStep
  <2>7. /\ r.step \notin HoldSteps /\ r.step # "delL1" /\ r.step # "setL1" /\ r.step # "backfill"
        /\ req[c].step # "setL2" /\ (r.step = "load" => due) /\ r.val <= origin
    BY <1>0, <1>3, <2>1 DEF HoldSteps
  <2>8. /\ UNCHANGED <<world, near, far, history>> /\ flight' \in {"none", "open", "done"}
        /\ calls' \in 0..MaxCalls /\ fails' \in 0..MaxFails
    BY <1>0, <1>3
  <2> QED
    BY <2>1, <2>6, <2>7, <2>8, QuietStep
<1>4. ASSUME UNCHANGED <<world, near, far, flight, calls, history>>, fails' \in 0..MaxFails,
             Return(c), req[c].step \notin {"unlink", "setL2"}
      PROVE  TieredTypeOK' /\ TieredInv'
  <2>1. PICK r \in Request :
              /\ req' = [req EXCEPT ![c] = r]
              /\ r.leads = req[c].leads /\ r.val = 0 /\ r.ttl = 0
              /\ r.step = IF r.leads THEN "release" ELSE "idle"
    BY <1>0, <1>4, ReturnFacts
  <2>2. FlightInv'
    BY <1>0, <1>4, <2>1, FlightStep DEF LeaderSteps
  <2>3. /\ r.step \notin HoldSteps /\ r.step # "load" /\ r.step # "delL1" /\ r.step # "setL1"
        /\ r.step # "backfill" /\ req[c].step # "setL2" /\ r.val <= origin
    BY <1>0, <1>4, <2>1 DEF HoldSteps
  <2>4. /\ UNCHANGED <<world, near, far, history>> /\ flight' \in {"none", "open", "done"}
        /\ calls' \in 0..MaxCalls /\ fails' \in 0..MaxFails
    BY <1>0, <1>4
  <2> QED
    BY <2>1, <2>2, <2>3, <2>4, QuietStep
<1>5. ASSUME GetL1(c) PROVE TieredTypeOK' /\ TieredInv'
  BY <1>0, <1>3, <1>4, <1>5 DEF GetL1, At
<1>6. ASSUME GetL2(c) PROVE TieredTypeOK' /\ TieredInv'
  <2>1. req[c].step = "getL2" /\ UNCHANGED <<world, near, far, flight, calls, fails, history>>
    BY <1>6 DEF GetL2, At
  <2>2. CASE Alive(far)
    <3> DEFINE r == [req[c] EXCEPT !.val = far.val,
                                   !.step = IF l1ttl = 0 THEN "askTTL" ELSE "backfill"]
    <3>1. req' = [req EXCEPT ![c] = r]
      BY <1>6, <2>2 DEF GetL2
    <3>2. r \in Request /\ r.val = far.val /\ r.leads = req[c].leads /\ r.ttl = req[c].ttl
          /\ r.step = IF l1ttl = 0 THEN "askTTL" ELSE "backfill"
      BY <1>0 DEF Request
    <3> HIDE DEF r
    <3>3. FlightInv'
      BY <1>0, <2>1, <3>1, <3>2, FlightStep DEF LeaderSteps
    <3>4. far.val <= origin
      BY <1>0, <2>2 DEF DeleteInv
    <3> QED
      BY <1>0, <2>1, <2>2, <3>1, <3>2, <3>3, <3>4, QuietStep
  <2>3. CASE ~Alive(far)
    <3>1. req[c].leads => due
      BY <1>0, <2>1, <2>3 DEF DueInv, FlightInv
    <3>2. \/ req[c].leads /\ Goto(c, "load")
          \/ ~req[c].leads /\ Goto(c, "do")
          \/ Return(c)
      BY <1>6, <2>3 DEF GetL2, Missed
    <3> QED
      BY <1>0, <1>3, <1>4, <2>1, <3>1, <3>2
  <2> QED
    BY <2>2, <2>3
<1>7. ASSUME Do(c) PROVE TieredTypeOK' /\ TieredInv'
  <2>1. req[c].step = "do" /\ UNCHANGED <<world, near, far, calls, fails, history>>
    BY <1>7 DEF Do, At
  <2>2. ~req[c].leads
    BY <1>0, <2>1 DEF FlightInv, LeaderSteps
  <2>3. CASE flight = "none"
    <3> DEFINE r == [req[c] EXCEPT !.leads = TRUE, !.step = "getL1"]
    <3>1. flight' = "open" /\ req' = [req EXCEPT ![c] = r]
      BY <1>7, <2>3 DEF Do, Lead
    <3>2. r \in Request /\ r.val = req[c].val /\ r.leads = TRUE /\ r.step = "getL1"
      BY <1>0 DEF Request
    <3> HIDE DEF r
    <3>3. FlightInv'
      BY <1>0, <2>3, <3>1, <3>2, FlightStep DEF LeaderSteps
    <3> QED
      BY <1>0, <2>1, <3>1, <3>2, <3>3, QuietStep DEF HoldSteps
  <2>4. CASE flight # "none"
    <3>1. /\ flight' = flight
          /\ \/ flight = "done" /\ Goto(c, "woken")
             \/ flight = "open" /\ Goto(c, "wait")
      BY <1>0, <1>7, <2>4 DEF Do, Join
    <3> QED
      BY <1>0, <1>3, <2>1, <2>2, <3>1
  <2> QED
    BY <2>3, <2>4
<1>8. ASSUME Woken(c) PROVE TieredTypeOK' /\ TieredInv'
  BY <1>0, <1>4, <1>8 DEF Woken, At
<1>9. ASSUME LoadFails(c) PROVE TieredTypeOK' /\ TieredInv'
  BY <1>0, <1>4, <1>9, CountFacts DEF LoadFails, At
<1>10. ASSUME Unlink(c) PROVE TieredTypeOK' /\ TieredInv'
  <2>1. /\ req[c].step = "unlink" /\ flight' = "none" /\ req' = [req EXCEPT ![c] = Idle]
        /\ UNCHANGED <<world, near, far, calls, fails, history>>
    BY <1>10 DEF Unlink, At
  <2>2. FlightInv'
    BY <1>0, <2>1, Requests, FlightStep
  <2>3. 0 <= origin
    BY <1>0
  <2> QED
    BY <1>0, <2>1, <2>2, <2>3, Requests, QuietStep DEF HoldSteps
<1>11. ASSUME DelL2Fails(c) PROVE TieredTypeOK' /\ TieredInv'
  <2> DEFINE r == [req[c] EXCEPT !.val = 0, !.step = "delL1"]
  <2>1. /\ req[c].step = "delL2" /\ fails' \in 0..MaxFails /\ req' = [req EXCEPT ![c] = r]
        /\ UNCHANGED <<world, near, far, flight, calls, history>>
    BY <1>11, CountFacts DEF DelL2Fails, At
  <2>2. r \in Request /\ r.val = 0 /\ r.leads = req[c].leads /\ r.step = "delL1"
    BY <1>0, TieredNumbers DEF Request
  <2> HIDE DEF r
  <2>3. ~req[c].leads
    BY <1>0, <2>1 DEF FlightInv, LeaderSteps
  <2>4. FlightInv'
    BY <1>0, <2>1, <2>2, <2>3, FlightStep
  <2>5. 0 <= origin
    BY <1>0
  <2> QED
    BY <1>0, <2>1, <2>2, <2>3, <2>4, <2>5, QuietStep DEF HoldSteps
<1> QED
  BY <1>2, <1>5, <1>6, <1>7, <1>8, <1>9, <1>10, <1>11

\* What the steps that store or load have in common.
LEMMA LoudStep ==
    ASSUME TieredTypeOK, TieredInv, NEW c \in Callers, NEW r \in Request,
           req' = [req EXCEPT ![c] = r],
           UNCHANGED <<world, flight, calls, tainted, deleted>>, fails' \in 0..MaxFails,
           near' \in Entry, far' \in Entry,
           due' \in BOOLEAN, lasting' \in BOOLEAN, vanished' \in BOOLEAN,
           req[c].step # "unlink", r.leads = req[c].leads,
           r.leads => r.step \in LeaderSteps \ {"unlink"},
           ~r.leads => r.step \notin {"load", "release", "unlink", "wait"},
           DueInv', DeleteInv', LifeInv'
    PROVE  TieredTypeOK' /\ TieredInv'
<1>1. FlightInv /\ UNCHANGED <<l1ttl, life, now, origin>>
  BY DEF TieredInv, world
<1>2. /\ flight' \in {"none", "open", "done"} /\ calls' \in 0..MaxCalls
      /\ deleted' \in 0..MaxVersion /\ tainted' \in BOOLEAN
  BY TieredFacts
<1>3. TieredTypeOK'
  BY <1>2, TieredType
<1>4. r.leads \in BOOLEAN
  BY DEF Request
<1>5. r.step # "wait"
  BY <1>4 DEF LeaderSteps
<1>6. FlightInv'
  BY <1>1, <1>4, <1>5, FlightStep
<1> QED
  BY <1>3, <1>6 DEF TieredInv

\* The steps of a call that load, store, or find L2 failing.
LEMMA LoudNext ==
    ASSUME TieredTypeOK, TieredInv, NEW c \in Callers,
           \/ GetL2Fails(c) \/ AskTTL(c) \/ Backfill(c) \/ Load(c)
           \/ SetL2(c) \/ SetL2Fails(c) \/ SetL1(c)
    PROVE  TieredTypeOK' /\ TieredInv'
<1>0. /\ FlightInv /\ DueInv /\ DeleteInv /\ LifeInv
      /\ req \in [Callers -> Request] /\ req[c].val <= origin /\ req[c].val \in Nat
      /\ req[c].leads \in BOOLEAN /\ req[c].val \in 0..MaxVersion /\ req[c].ttl \in 0..MaxTTL
      /\ fails \in 0..MaxFails /\ now \in 0..MaxNow /\ l1ttl \in 0..MaxTTL
      /\ origin \in Nat /\ origin \in 0..MaxVersion /\ near \in Entry /\ far \in Entry
      /\ due \in BOOLEAN /\ lasting \in BOOLEAN /\ vanished \in BOOLEAN
      /\ far.exp \in 0..Never
  BY TieredFacts DEF TieredInv, DeleteInv
<1>1. ASSUME GetL2Fails(c) PROVE TieredTypeOK' /\ TieredInv'
  <2>1. /\ req[c].step = "getL2" /\ fails' \in 0..MaxFails /\ due' = TRUE
        /\ UNCHANGED <<world, near, far, flight, calls, deleted, tainted, lasting, vanished>>
    BY <1>1, CountFacts DEF GetL2Fails, At
  <2>2. PICK r \in Request :
           /\ req' = [req EXCEPT ![c] = r]
           /\ r.leads = req[c].leads /\ (r.val = req[c].val \/ r.val = 0)
           /\ (r.leads => r.step = "load") /\ (~r.leads => r.step = "idle")
    <3>1. CASE req[c].leads = TRUE
      <4>1. Goto(c, "load") /\ "load" \in Steps
        BY <1>1, <3>1 DEF GetL2Fails, Steps
      <4> QED
        BY <1>0, <3>1, <4>1, GotoFacts
    <3>2. CASE req[c].leads = FALSE
      <4>1. Return(c)
        BY <1>1, <3>2 DEF GetL2Fails
      <4> QED
        BY <1>0, <3>2, <4>1, ReturnFacts
    <3> QED
      BY <1>0, <3>1, <3>2
  <2>3. r.val <= origin /\ r.step \notin HoldSteps /\ r.step # "delL1" /\ r.step # "setL1"
        /\ r.step # "backfill"
    BY <1>0, <2>2 DEF HoldSteps
  <2>4. DueInv'
    BY <1>0, <2>1, <2>2, DueStep
  <2>5. DeleteInv' /\ LifeInv'
    BY <1>0, <2>1, <2>2, <2>3, DeleteStep, LifeStep DEF world
  <2> QED
    BY <1>0, <2>1, <2>2, <2>4, <2>5, LoudStep DEF LeaderSteps
<1>2. ASSUME AskTTL(c) PROVE TieredTypeOK' /\ TieredInv'
  <2> DEFINE r == [req[c] EXCEPT !.ttl = Remaining, !.step = "backfill"]
  <2>1. /\ req[c].step = "askTTL" /\ req' = [req EXCEPT ![c] = r]
        /\ vanished' = (vanished \/ ~Alive(far))
        /\ UNCHANGED <<world, near, far, flight, calls, fails, due, deleted, tainted, lasting>>
    BY <1>2 DEF AskTTL, At
  <2>2. Remaining \in 0..MaxTTL /\ (Remaining = 0 => far.exp = Never \/ ~Alive(far))
    <3>1. CASE Alive(far) /\ far.exp # Never
      <4>1. far.exp <= now + MaxTTL /\ far.exp > now
        BY <1>0, <3>1 DEF LifeInv, Alive
      <4>2. Remaining = far.exp - now
        BY <3>1 DEF Remaining
      <4> QED
        BY <1>0, <4>1, <4>2, TieredNumbers
    <3>2. CASE ~(Alive(far) /\ far.exp # Never)
      BY <3>2, TieredNumbers DEF Remaining
    <3> QED
      BY <3>1, <3>2
  <2>3. r \in Request /\ r.step = "backfill" /\ r.val = req[c].val /\ r.leads = req[c].leads
        /\ r.ttl = Remaining
    BY <1>0, <2>2 DEF Request
  <2> HIDE DEF r
  <2>4. vanished' \in BOOLEAN /\ (vanished => vanished') /\ (r.ttl = 0 => lasting \/ vanished')
    BY <1>0, <2>1, <2>2, <2>3 DEF LifeInv
  <2>5. Holds(c)
    BY <2>1 DEF Holds
  <2>6. DueInv'
    BY <1>0, <2>1, <2>3, DueStep DEF world
  <2>7. DeleteInv'
    BY <1>0, <2>1, <2>3, <2>5, DeleteStep DEF world
  <2>8. LifeInv'
    BY <1>0, <2>1, <2>3, <2>4, LifeStep DEF world
  <2> QED
    BY <1>0, <2>1, <2>3, <2>4, <2>6, <2>7, <2>8, LoudStep DEF LeaderSteps
<1>3. ASSUME Backfill(c) PROVE TieredTypeOK' /\ TieredInv'
  <2> DEFINE t == IF l1ttl = 0 THEN req[c].ttl ELSE l1ttl
  <2>1. /\ req[c].step = "backfill" /\ near' = Stored(req[c].val, t) /\ Return(c)
        /\ UNCHANGED <<world, far, flight, calls, fails, history>>
    BY <1>3 DEF Backfill, At
  <2>2. t \in 0..MaxTTL /\ (t = 0 => l1ttl = 0 /\ req[c].ttl = 0)
    BY <1>0
  <2>3. t = 0 => lasting \/ vanished
    BY <1>0, <2>1, <2>2 DEF LifeInv
  <2> HIDE DEF t
  <2>4. near' \in Entry /\ near'.val = req[c].val /\ (near'.exp = Never => lasting \/ vanished)
    BY <1>0, <2>1, <2>2, <2>3, StoredFacts
  <2>5. PICK r \in Request :
           /\ req' = [req EXCEPT ![c] = r]
           /\ r.leads = req[c].leads /\ r.val = 0 /\ r.ttl = 0
           /\ r.step = IF r.leads THEN "release" ELSE "idle"
    BY <1>0, <2>1, ReturnFacts
  <2>6. r.val <= origin /\ r.step \notin HoldSteps /\ r.step # "delL1" /\ r.step # "setL1"
        /\ r.step # "backfill" /\ r.step # "load"
        /\ (r.leads => r.step = "release") /\ (~r.leads => r.step = "idle")
    BY <1>0, <2>5 DEF HoldSteps
  <2>7. Holds(c) /\ UNCHANGED <<l1ttl, now, origin, due, deleted, tainted, lasting, vanished>>
    BY <2>1 DEF Holds, world, history
  <2>8. DueInv'
    BY <1>0, <2>1, <2>5, <2>6, <2>7, DueStep
  <2>9. DeleteInv'
    BY <1>0, <2>1, <2>4, <2>5, <2>6, <2>7, DeleteStep
  <2>10. LifeInv'
    BY <1>0, <2>1, <2>4, <2>5, <2>6, <2>7, LifeStep
  <2> QED
    BY <1>0, <2>1, <2>4, <2>5, <2>6, <2>7, <2>8, <2>9, <2>10, LoudStep DEF LeaderSteps
<1>4. ASSUME Load(c) PROVE TieredTypeOK' /\ TieredInv'
  <2> DEFINE r == [req[c] EXCEPT !.val = origin, !.step = "setL2"]
  <2>1. /\ req[c].step = "load" /\ req' = [req EXCEPT ![c] = r] /\ due' = FALSE
        /\ UNCHANGED <<world, near, far, flight, calls, fails, deleted, tainted, lasting, vanished>>
    BY <1>4 DEF Load, At
  <2>2. r \in Request /\ r.step = "setL2" /\ r.val = origin /\ r.leads = req[c].leads
    BY <1>0 DEF Request
  <2> HIDE DEF r
  <2>3. req[c].leads
    BY <1>0, <2>1 DEF FlightInv
  <2>4. UNCHANGED <<l1ttl, now, origin>> /\ r.val <= origin
    BY <1>0, <2>1, <2>2 DEF world
  <2>5. DueInv'
    BY <1>0, <2>1, <2>2, <2>3, DueStep
  <2>6. DeleteInv' /\ LifeInv'
    BY <1>0, <2>1, <2>2, <2>4, DeleteStep, LifeStep
  <2> QED
    BY <1>0, <2>1, <2>2, <2>3, <2>5, <2>6, LoudStep DEF LeaderSteps
<1>5. ASSUME SetL2(c) PROVE TieredTypeOK' /\ TieredInv'
  <2>1. /\ req[c].step = "setL2" /\ far' = Stored(req[c].val, req[c].ttl)
        /\ lasting' = (lasting \/ req[c].ttl = 0)
        /\ Goto(c, "setL1") /\ "setL1" \in Steps
        /\ UNCHANGED <<world, near, flight, calls, fails, due, deleted, tainted, vanished>>
    BY <1>5 DEF SetL2, At, Steps
  <2>2. PICK r \in Request :
           /\ req' = [req EXCEPT ![c] = r]
           /\ r.step = "setL1" /\ r.leads = req[c].leads /\ r.val = req[c].val
           /\ r.ttl = req[c].ttl
    BY <1>0, <2>1, GotoFacts
  <2>3. /\ far' \in Entry /\ far'.val = req[c].val /\ far'.exp > now
        /\ (far'.exp = Never => req[c].ttl = 0) /\ (far'.exp # Never => far'.exp <= now + MaxTTL)
    BY <1>0, <2>1, StoredFacts
  <2>4. Holds(c) /\ UNCHANGED <<l1ttl, now, origin>>
    BY <2>1 DEF Holds, world
  <2>5. lasting' \in BOOLEAN /\ (lasting => lasting') /\ (req[c].ttl = 0 => lasting')
    BY <1>0, <2>1
  <2>6. DueInv'
    BY <1>0, <2>1, <2>2, <2>3, <2>4, DueStep
  <2>7. DeleteInv'
    BY <1>0, <2>1, <2>2, <2>3, <2>4, DeleteStep
  <2>8. LifeInv'
    BY <1>0, <2>1, <2>2, <2>3, <2>4, <2>5, LifeStep
  <2> QED
    BY <1>0, <2>1, <2>2, <2>3, <2>5, <2>6, <2>7, <2>8, LoudStep DEF LeaderSteps
<1>6. ASSUME SetL2Fails(c) PROVE TieredTypeOK' /\ TieredInv'
  <2>1. /\ req[c].step = "setL2" /\ fails' \in 0..MaxFails /\ due' = TRUE /\ Return(c)
        /\ UNCHANGED <<world, near, far, flight, calls, deleted, tainted, lasting, vanished>>
    BY <1>6, CountFacts DEF SetL2Fails, At
  <2>2. PICK r \in Request :
           /\ req' = [req EXCEPT ![c] = r]
           /\ r.leads = req[c].leads /\ r.val = 0 /\ r.ttl = 0
           /\ r.step = IF r.leads THEN "release" ELSE "idle"
    BY <1>0, <2>1, ReturnFacts
  <2>3. r.val <= origin /\ r.step \notin HoldSteps /\ r.step # "delL1" /\ r.step # "setL1"
        /\ r.step # "backfill" /\ r.step # "load"
        /\ (r.leads => r.step = "release") /\ (~r.leads => r.step = "idle")
    BY <1>0, <2>2 DEF HoldSteps
  <2>4. UNCHANGED <<l1ttl, now, origin>>
    BY <2>1 DEF world
  <2>5. DueInv'
    BY <1>0, <2>1, <2>2, <2>3, DueStep
  <2>6. DeleteInv' /\ LifeInv'
    BY <1>0, <2>1, <2>2, <2>3, <2>4, DeleteStep, LifeStep
  <2> QED
    BY <1>0, <2>1, <2>2, <2>3, <2>5, <2>6, LoudStep DEF LeaderSteps
<1>7. ASSUME SetL1(c) PROVE TieredTypeOK' /\ TieredInv'
  <2> DEFINE t == l1TTLFor(req[c].ttl)
  <2>1. /\ req[c].step = "setL1" /\ near' = Stored(req[c].val, t) /\ Return(c)
        /\ UNCHANGED <<world, far, flight, calls, fails, history>>
    BY <1>7 DEF SetL1, At
  <2>2. t \in 0..MaxTTL /\ (t = 0 => req[c].ttl = 0)
    BY <1>0 DEF l1TTLFor
  <2>3. t = 0 => lasting
    BY <1>0, <2>1, <2>2 DEF LifeInv
  <2> HIDE DEF t
  <2>4. near' \in Entry /\ near'.val = req[c].val /\ (near'.exp = Never => lasting)
    BY <1>0, <2>1, <2>2, <2>3, StoredFacts
  <2>5. PICK r \in Request :
           /\ req' = [req EXCEPT ![c] = r]
           /\ r.leads = req[c].leads /\ r.val = 0 /\ r.ttl = 0
           /\ r.step = IF r.leads THEN "release" ELSE "idle"
    BY <1>0, <2>1, ReturnFacts
  <2>6. r.val <= origin /\ r.step \notin HoldSteps /\ r.step # "delL1" /\ r.step # "setL1"
        /\ r.step # "backfill" /\ r.step # "load"
        /\ (r.leads => r.step = "release") /\ (~r.leads => r.step = "idle")
    BY <1>0, <2>5 DEF HoldSteps
  <2>7. Holds(c) /\ UNCHANGED <<l1ttl, now, origin, due, deleted, tainted, lasting, vanished>>
    BY <2>1 DEF Holds, world, history
  <2>8. DueInv'
    BY <1>0, <2>1, <2>5, <2>6, <2>7, DueStep
  <2>9. DeleteInv'
    BY <1>0, <2>1, <2>4, <2>5, <2>6, <2>7, DeleteStep
  <2>10. LifeInv'
    BY <1>0, <2>1, <2>4, <2>5, <2>6, <2>7, LifeStep
  <2> QED
    BY <1>0, <2>1, <2>4, <2>5, <2>6, <2>7, <2>8, <2>9, <2>10, LoudStep DEF LeaderSteps
<1> QED
  BY <1>1, <1>2, <1>3, <1>4, <1>5, <1>6, <1>7

\* The teardown wakes those who wait and leaves the values alone.
LEMMA ReleaseNext ==
    ASSUME TieredTypeOK, TieredInv, NEW c \in Callers, Release(c)
    PROVE  TieredTypeOK' /\ TieredInv'
<1>0. /\ FlightInv /\ DueInv /\ DeleteInv /\ LifeInv /\ req \in [Callers -> Request]
  BY TieredFacts DEF TieredInv
<1>1. /\ req[c].step = "release" /\ flight' = "done"
      /\ req' = [d \in Callers |-> IF d = c THEN [req[d] EXCEPT !.step = "unlink"]
                                   ELSE IF req[d].step = "wait" THEN [req[d] EXCEPT !.step = "woken"]
                                   ELSE req[d]]
      /\ UNCHANGED <<l1ttl, life, now, origin, near, far, calls, fails, due, deleted, tainted,
                     lasting, vanished>>
  BY DEF Release, At, world, history
<1>2. \A d \in Callers, s \in {"unlink", "woken"} :
         LET r == [req[d] EXCEPT !.step = s]
         IN  r \in Request /\ r.step = s /\ r.leads = req[d].leads /\ r.val = req[d].val
             /\ r.ttl = req[d].ttl
  BY <1>0 DEF Request
<1>3. \A d \in Callers : req'[d] = IF d = c THEN [req[d] EXCEPT !.step = "unlink"]
                                   ELSE IF req[d].step = "wait" THEN [req[d] EXCEPT !.step = "woken"]
                                   ELSE req[d]
  BY <1>1
<1>4. \A d \in Callers : /\ req'[d].leads = req[d].leads /\ req'[d].val = req[d].val
                         /\ req'[d].ttl = req[d].ttl
                         /\ d = c => req'[d].step = "unlink"
                         /\ d # c /\ req[d].step = "wait" => req'[d].step = "woken"
                         /\ d # c /\ req[d].step # "wait" => req'[d].step = req[d].step
  <2> TAKE d \in Callers
  <2>1. CASE d = c
    <3>1. req'[d] = [req[d] EXCEPT !.step = "unlink"]
      BY <1>3, <2>1
    <3> QED
      BY <1>2, <2>1, <3>1
  <2>2. CASE d # c /\ req[d].step = "wait"
    <3>1. req'[d] = [req[d] EXCEPT !.step = "woken"]
      BY <1>3, <2>2
    <3> QED
      BY <1>2, <2>2, <3>1
  <2>3. CASE d # c /\ req[d].step # "wait"
    <3>1. req'[d] = req[d]
      BY <1>3, <2>3
    <3> QED
      BY <2>3, <3>1
  <2> QED
    BY <2>1, <2>2, <2>3
<1>5. req' \in [Callers -> Request]
  <2>1. \A d \in Callers : req'[d] \in Request
    BY <1>0, <1>2, <1>3
  <2> QED
    BY <1>1, <2>1
<1>6. TieredTypeOK'
  <2>1. flight' = "done" /\ UNCHANGED <<l1ttl, life, now, origin, near, far, calls, fails, due, deleted,
                                       tainted, lasting, vanished>>
    BY <1>1
  <2>2. "done" \in {"none", "open", "done"}
    OBVIOUS
  <2> QED
    BY <1>5, <2>1, <2>2 DEF TieredTypeOK
<1>7. req[c].leads /\ \A d \in Callers : d # c => ~req[d].leads
  BY <1>0, <1>1 DEF FlightInv
<1>8. FlightInv'
  <2>1. \A d \in Callers : d # c => req[d].step \notin {"load", "release", "unlink"}
    BY <1>0, <1>7 DEF FlightInv
  <2>2. \A d \in Callers : d # c => req'[d].step \notin {"load", "release", "unlink", "wait"}
    BY <1>4, <2>1
  <2>3. \A d \in Callers : req'[d].leads <=> d = c
    BY <1>4, <1>7
  <2>4. req'[c].step = "unlink" /\ flight' = "done"
    BY <1>1, <1>4
  <2> QED
    BY <2>2, <2>3, <2>4 DEF FlightInv, LeaderSteps
<1>9. DueInv'
  <2>1. due \/ Alive(far)
    BY <1>0, <1>1, <1>7 DEF DueInv
  <2>2. \A d \in Callers : req'[d].step = "load" => due
    BY <1>0, <1>4 DEF DueInv
  <2> QED
    BY <1>1, <2>1, <2>2 DEF DueInv, Alive
<1>10. \A d \in Callers, s \in {"delL1", "setL1", "backfill"} \cup HoldSteps :
          req'[d].step = s => req[d].step = s
  BY <1>4 DEF HoldSteps
<1>11. DeleteInv'
  <2>1. \A d \in Callers : Holds(d)' => Holds(d)
    BY <1>10 DEF Holds, HoldSteps
  <2>2. \A d \in Callers : req'[d].step = "delL1" => req[d].step = "delL1"
    BY <1>10
  <2>3. (Alive(far)' <=> Alive(far)) /\ (Alive(near)' <=> Alive(near))
    BY <1>1 DEF Alive
  <2> QED
    BY <1>0, <1>1, <1>4, <2>1, <2>2, <2>3 DEF DeleteInv
<1>12. LifeInv'
  <2>1. \A d \in Callers : /\ req'[d].step = "setL1" => req[d].step = "setL1"
                           /\ req'[d].step = "backfill" => req[d].step = "backfill"
    BY <1>10
  <2> QED
    BY <1>0, <1>1, <1>4, <2>1 DEF LifeInv, NearExpires
<1> QED
  BY <1>6, <1>8, <1>9, <1>11, <1>12 DEF TieredInv

\* While nobody holds an outdated value, the holders are as new as the origin.
LEMMA NotOutdated ==
    ASSUME TieredTypeOK, ~Outdated, NEW d \in Callers, Holds(d)
    PROVE  origin <= req[d].val
<1>1. req[d].val \in Nat /\ origin \in Nat
  BY TieredFacts
<1> QED
  BY <1>1 DEF Outdated, Holds

\* The steps of a Delete.
LEMMA DeleteNext ==
    ASSUME TieredTypeOK, TieredInv, NEW c \in Callers, DelL2(c) \/ DelL1(c)
    PROVE  TieredTypeOK' /\ TieredInv'
<1>0. /\ FlightInv /\ DueInv /\ DeleteInv /\ LifeInv /\ req \in [Callers -> Request]
      /\ origin \in Nat /\ deleted \in Nat /\ near.val \in Nat /\ far.val \in Nat /\ now \in Nat
      /\ near \in Entry /\ far \in Entry /\ deleted \in 0..MaxVersion /\ tainted \in BOOLEAN
      /\ due \in BOOLEAN /\ lasting \in BOOLEAN /\ vanished \in BOOLEAN
      /\ flight \in {"none", "open", "done"} /\ calls \in 0..MaxCalls /\ fails \in 0..MaxFails
      /\ \A d \in Callers : req[d].val \in Nat /\ req[d].val \in 0..MaxVersion
      /\ req[c].leads \in BOOLEAN
  BY TieredFacts DEF TieredInv
<1>1. /\ deleted <= origin /\ \A d \in Callers : req[d].val <= origin
  BY <1>0 DEF DeleteInv
<1>2. ~(0 > now)
  BY <1>0
<1>3. ASSUME DelL2(c) PROVE TieredTypeOK' /\ TieredInv'
  <2>1. /\ req[c].step = "delL2" /\ far' = Empty /\ due' = TRUE
        /\ tainted' = (tainted \/ Outdated) /\ Goto(c, "delL1") /\ "delL1" \in Steps
        /\ UNCHANGED <<world, l1ttl, life, now, origin, near, flight, calls, fails, deleted,
                       lasting, vanished>>
    BY <1>3 DEF DelL2, At, Steps, world
  <2>2. PICK r \in Request :
           /\ req' = [req EXCEPT ![c] = r]
           /\ r.step = "delL1" /\ r.leads = req[c].leads /\ r.val = req[c].val
           /\ r.ttl = req[c].ttl
    BY <1>0, <2>1, GotoFacts
  <2>3. req'[c] = r /\ \A d \in Callers : d # c => req'[d] = req[d]
    BY <1>0, <2>2
  <2>4. ~req[c].leads /\ r.step # "load"
    BY <1>0, <2>1, <2>2 DEF FlightInv, LeaderSteps
  <2>5. tainted' \in BOOLEAN /\ (~tainted' => ~tainted /\ ~Outdated)
    BY <1>0, <2>1
  <2>6. TieredTypeOK'
    BY <1>0, <2>1, <2>2, <2>5, EmptyFacts, TieredType
  <2>7. FlightInv'
    BY <1>0, <2>1, <2>2, <2>4, FlightStep
  <2>8. DueInv'
    <3>1. due' /\ r.step # "load"
      BY <2>1, <2>2
    <3> QED
      BY <1>0, <2>2, <3>1, DueStep
  <2>9. LifeInv'
    <3>1. far'.exp # Never /\ far'.exp <= now + MaxTTL /\ r.step # "setL1" /\ r.step # "backfill"
      BY <1>0, <2>1, <2>2, EmptyFacts, TieredNumbers
    <3>2. UNCHANGED <<now, l1ttl, lasting, vanished, near>>
      BY <2>1
    <3> QED
      BY <1>0, <2>2, <3>1, <3>2, LifeStep
  <2>10. DeleteInv'
    <3>1. \A d \in Callers : req'[d].val <= origin /\ req'[d].val \in Nat
      BY <1>0, <1>1, <2>2, <2>3
    <3>2. ~Alive(far)'
      BY <1>2, <2>1, EmptyFacts DEF Alive
    <3>3. ASSUME ~tainted'
          PROVE  /\ Alive(near)' => deleted <= near.val
                 /\ \A d \in Callers : Holds(d)' => origin <= req'[d].val
      <4>1. Alive(near)' => deleted <= near.val
        BY <1>0, <2>1, <2>5, <3>3 DEF DeleteInv, Alive
      <4>2. \A d \in Callers : Holds(d)' => d # c /\ Holds(d)
        BY <2>2, <2>3 DEF Holds
      <4>3. \A d \in Callers : Holds(d)' => origin <= req'[d].val
        BY <2>3, <2>5, <3>3, <4>2, NotOutdated
      <4> QED
        BY <4>1, <4>3
    <3>4. ASSUME ~tainted', NEW d \in Callers, Holds(d)'
          PROVE  /\ deleted <= req'[d].val
                 /\ \A e \in Callers : req'[e].step = "delL1" => req'[e].val <= req'[d].val
      BY <1>0, <1>1, <3>1, <3>3, <3>4
    <3> QED
      BY <1>1, <2>1, <3>1, <3>2, <3>3, <3>4 DEF DeleteInv
  <2> QED
    BY <2>6, <2>7, <2>8, <2>9, <2>10 DEF TieredInv
<1>4. ASSUME DelL1(c) PROVE TieredTypeOK' /\ TieredInv'
  <2>1. /\ req[c].step = "delL1" /\ near' = Empty
        /\ deleted' = (IF req[c].val > deleted THEN req[c].val ELSE deleted)
        /\ tainted' = (tainted \/ Outdated) /\ Return(c)
        /\ UNCHANGED <<world, l1ttl, life, now, origin, far, flight, calls, fails, due, lasting,
                       vanished>>
    BY <1>4 DEF DelL1, At, world
  <2>2. PICK r \in Request :
           /\ req' = [req EXCEPT ![c] = r]
           /\ r.leads = req[c].leads /\ r.val = 0 /\ r.ttl = 0
           /\ r.step = IF r.leads THEN "release" ELSE "idle"
    BY <1>0, <2>1, ReturnFacts
  <2>3. req'[c] = r /\ \A d \in Callers : d # c => req'[d] = req[d]
    BY <1>0, <2>2
  <2>4. ~req[c].leads /\ r.step = "idle"
    <3>1. ~req[c].leads
      BY <1>0, <2>1 DEF FlightInv, LeaderSteps
    <3> QED
      BY <2>2, <3>1
  <2>5. tainted' \in BOOLEAN /\ (~tainted' => ~tainted /\ ~Outdated)
    BY <1>0, <2>1
  <2>6. deleted' \in 0..MaxVersion /\ deleted' \in Nat /\ deleted' <= origin
        /\ deleted' \in {req[c].val, deleted}
    BY <1>0, <1>1, <2>1
  <2>7. TieredTypeOK'
    BY <1>0, <2>1, <2>2, <2>5, <2>6, EmptyFacts, TieredType
  <2>8. FlightInv'
    BY <1>0, <2>1, <2>2, <2>4, FlightStep
  <2>9. DueInv'
    BY <1>0, <2>1, <2>2, <2>4, DueStep
  <2>10. LifeInv'
    BY <1>0, <2>1, <2>2, <2>4, EmptyFacts, TieredNumbers, LifeStep
  <2>11. DeleteInv'
    <3>1. \A d \in Callers : req'[d].val <= origin /\ req'[d].val \in Nat
      BY <1>0, <1>1, <2>2, <2>3
    <3>2. ~Alive(near)'
      BY <1>2, <2>1, EmptyFacts DEF Alive
    <3>3. Alive(far)' => Alive(far) /\ far.val <= origin
      BY <1>0, <2>1 DEF DeleteInv, Alive
    <3>4. ASSUME ~tainted', Alive(far)
          PROVE  /\ deleted' <= far.val
                 /\ \A e \in Callers : req'[e].step = "delL1" => req'[e].val <= far.val
      <4>1. /\ deleted <= far.val
            /\ \A e \in Callers : req[e].step = "delL1" => req[e].val <= far.val
        BY <1>0, <2>5, <3>4 DEF DeleteInv
      <4>2. \A e \in Callers : req'[e].step = "delL1" => e # c
        BY <2>3, <2>4
      <4> QED
        BY <2>1, <2>3, <2>6, <4>1, <4>2
    <3>5. ASSUME ~tainted', NEW d \in Callers, Holds(d)'
          PROVE  /\ deleted' <= req'[d].val
                 /\ \A e \in Callers : req'[e].step = "delL1" => req'[e].val <= req'[d].val
      <4>1. d # c /\ Holds(d)
        BY <2>3, <2>4, <3>5 DEF Holds
      <4>2. origin <= req'[d].val
        BY <2>3, <2>5, <3>5, <4>1, NotOutdated
      <4> QED
        BY <1>0, <2>6, <3>1, <4>2
    <3> QED
      BY <2>1, <2>6, <3>1, <3>2, <3>3, <3>4, <3>5 DEF DeleteInv
  <2> QED
    BY <2>7, <2>8, <2>9, <2>10, <2>11 DEF TieredInv
<1> QED
  BY <1>3, <1>4

\* Outside: the origin moves on, time passes, entries go, other processes write.
LEMMA OutsideNext ==
    ASSUME TieredTypeOK, TieredInv, OriginWrite \/ Tick \/ EvictL1 \/ Remote
    PROVE  TieredTypeOK' /\ TieredInv'
<1>0. /\ FlightInv /\ DueInv /\ DeleteInv /\ LifeInv /\ TieredTypeOK
      /\ origin \in Nat /\ deleted \in Nat /\ near.val \in Nat /\ far.val \in Nat /\ now \in Nat
      /\ near.exp \in Nat /\ far.exp \in Nat /\ origin \in 1..MaxVersion /\ origin \in 0..MaxVersion
      /\ now \in 0..MaxNow /\ life \in 0..MaxTTL /\ MaxTTL \in Nat /\ Never \in Nat
      /\ MaxNow \in Nat /\ MaxVersion \in Nat
      /\ due \in BOOLEAN /\ lasting \in BOOLEAN
      /\ \A d \in Callers : req[d].val \in Nat
  BY TieredFacts, TieredNumbers DEF TieredInv
<1>1. ASSUME OriginWrite PROVE TieredTypeOK' /\ TieredInv'
  <2>1. /\ origin' = origin + 1 /\ origin' \in 1..MaxVersion
        /\ UNCHANGED <<l1ttl, life, now, near, far, req, flight, calls, fails, due, deleted,
                       tainted, lasting, vanished>>
    BY <1>0, <1>1 DEF OriginWrite, history
  <2>2. TieredTypeOK'
    BY <1>0, <2>1 DEF TieredTypeOK
  <2>3. FlightInv' /\ DueInv' /\ LifeInv'
    BY <1>0, <2>1 DEF FlightInv, DueInv, LifeInv, NearExpires, Alive
  <2>4. DeleteInv'
    <3>1. deleted <= origin' /\ \A d \in Callers : req[d].val <= origin'
      BY <1>0, <2>1 DEF DeleteInv
    <3>2. Alive(far) => far.val <= origin'
      BY <1>0, <2>1 DEF DeleteInv
    <3> QED
      BY <1>0, <2>1, <3>1, <3>2 DEF DeleteInv, Alive, Holds
  <2> QED
    BY <2>2, <2>3, <2>4 DEF TieredInv
<1>2. ASSUME Tick PROVE TieredTypeOK' /\ TieredInv'
  <2>1. /\ now' = now + 1 /\ now' \in 0..MaxNow /\ due' = (due \/ far.exp = now')
        /\ UNCHANGED <<l1ttl, life, origin, near, far, req, flight, calls, fails, deleted,
                       tainted, lasting, vanished>>
    BY <1>0, <1>2 DEF Tick
  <2>2. due' \in BOOLEAN /\ (due => due')
    BY <1>0, <2>1
  <2>3. TieredTypeOK'
    BY <1>0, <2>1, <2>2 DEF TieredTypeOK
  <2>4. FlightInv'
    BY <1>0, <2>1 DEF FlightInv
  <2>5. /\ Alive(far)' => Alive(far)
        /\ Alive(near)' => Alive(near)
        /\ Alive(far) => due' \/ Alive(far)'
    <3>1. \A n, e \in Nat : /\ e > n + 1 => e > n
                           /\ e > n => e = n + 1 \/ e > n + 1
      OBVIOUS
    <3>2. far.exp = now' => due'
      BY <2>1
    <3>3. far' = far /\ near' = near /\ now' = now + 1
      BY <2>1
    <3> QED
      BY <1>0, <3>1, <3>2, <3>3 DEF Alive
  <2>6. DueInv'
    BY <1>0, <2>1, <2>2, <2>5 DEF DueInv
  <2>7. DeleteInv'
    BY <1>0, <2>1, <2>5 DEF DeleteInv, Holds
  <2>8. LifeInv'
    <3>1. far.exp # Never => far.exp <= now' + MaxTTL
      BY <1>0, <2>1 DEF LifeInv
    <3> QED
      BY <1>0, <2>1, <3>1 DEF LifeInv, NearExpires
  <2> QED
    BY <2>3, <2>4, <2>6, <2>7, <2>8 DEF TieredInv
<1>3. ASSUME EvictL1 PROVE TieredTypeOK' /\ TieredInv'
  <2>1. /\ near' = Empty
        /\ UNCHANGED <<l1ttl, life, now, origin, far, req, flight, calls, fails, due, deleted,
                       tainted, lasting, vanished>>
    BY <1>3 DEF EvictL1, world, history
  <2>2. near' \in Entry /\ near'.exp = 0 /\ near'.exp # Never /\ ~Alive(near)'
    BY <1>0, <2>1, EmptyFacts, TieredNumbers DEF Alive
  <2>3. TieredTypeOK'
    BY <1>0, <2>1, <2>2 DEF TieredTypeOK
  <2>4. FlightInv'
    BY <1>0, <2>1 DEF FlightInv
  <2>5. DueInv'
    BY <1>0, <2>1 DEF DueInv, Alive
  <2>6. LifeInv'
    BY <1>0, <2>1, <2>2 DEF LifeInv, NearExpires
  <2>7. Alive(far)' <=> Alive(far)
    BY <2>1 DEF Alive
  <2>8. DeleteInv'
    BY <1>0, <2>1, <2>2, <2>7 DEF DeleteInv, Holds
  <2> QED
    BY <2>3, <2>4, <2>5, <2>6, <2>8 DEF TieredInv
<1>4. ASSUME Remote PROVE TieredTypeOK' /\ TieredInv'
  <2>1. /\ far' \in {Empty, Stored(origin, life)}
        /\ due' = (due \/ far' = Empty) /\ lasting' = (lasting \/ far'.exp = Never)
        /\ fails' \in 0..MaxFails
        /\ UNCHANGED <<l1ttl, life, now, origin, near, req, flight, calls, deleted,
                       tainted, vanished>>
    BY <1>4, CountFacts DEF Remote, world
  <2>2. /\ far' \in Entry /\ due' \in BOOLEAN /\ lasting' \in BOOLEAN
        /\ (due => due') /\ (lasting => lasting') /\ (far'.exp = Never => lasting')
    BY <1>0, <2>1, StoredFacts, EmptyFacts
  <2>3. /\ due' \/ far'.exp > now
        /\ far'.exp # Never => far'.exp <= now + MaxTTL
        /\ far'.exp > now => far'.val = origin
    <3>1. CASE far' = Empty
      <4>1. due' /\ far'.exp = 0
        BY <2>1, <3>1, EmptyFacts
      <4> QED
        BY <1>0, <4>1
    <3>2. CASE far' = Stored(origin, life)
      BY <1>0, <3>2, StoredFacts
    <3> QED
      BY <2>1, <3>1, <3>2
  <2>4. TieredTypeOK'
    BY <1>0, <2>1, <2>2 DEF TieredTypeOK
  <2>5. FlightInv'
    BY <1>0, <2>1 DEF FlightInv
  <2>6. DueInv'
    BY <1>0, <2>1, <2>2, <2>3 DEF DueInv, Alive
  <2>7. LifeInv'
    BY <1>0, <2>1, <2>2, <2>3 DEF LifeInv, NearExpires
  <2>8. DeleteInv'
    <3>1. Alive(far)' => far'.val = origin
      BY <2>1, <2>3 DEF Alive
    <3>2. Alive(near)' <=> Alive(near)
      BY <2>1 DEF Alive
    <3> QED
      BY <1>0, <2>1, <3>1, <3>2 DEF DeleteInv, Holds
  <2> QED
    BY <2>4, <2>5, <2>6, <2>7, <2>8 DEF TieredInv
<1> QED
  BY <1>1, <1>2, <1>3, <1>4

\* The inductive invariant holds at the start, and every step keeps it.
LEMMA TieredInitInv == TieredInit => TieredTypeOK /\ TieredInv
<1> SUFFICES ASSUME TieredInit PROVE TieredTypeOK /\ TieredInv
  OBVIOUS
<1>1. /\ l1ttl \in L1TTLs /\ life \in TTLs /\ now = 0 /\ origin = 1
      /\ near = Empty /\ far = Empty /\ req = [c \in Callers |-> Idle]
      /\ flight = "none" /\ calls = 0 /\ fails = 0 /\ due = TRUE /\ deleted = 0
      /\ tainted = FALSE /\ lasting = FALSE /\ vanished = FALSE
  BY DEF TieredInit
<1>2. req \in [Callers -> Request] /\ \A c \in Callers : req[c] = Idle
  BY <1>1, Requests
<1>3. /\ now \in 0..MaxNow /\ origin \in 1..MaxVersion /\ near \in Entry /\ far \in Entry
      /\ calls \in 0..MaxCalls /\ fails \in 0..MaxFails /\ deleted \in 0..MaxVersion
      /\ near.exp = 0 /\ far.exp = 0 /\ Never # 0
  BY <1>1, TieredNumbers, EmptyFacts
<1>4. TieredTypeOK
  BY <1>1, <1>2, <1>3 DEF TieredTypeOK
<1>5. \A c \in Callers : req[c].step = "idle" /\ ~req[c].leads /\ req[c].val = 0
  BY <1>2, Requests
<1>6. FlightInv
  BY <1>1, <1>5 DEF FlightInv
<1>7. DueInv
  BY <1>1, <1>5 DEF DueInv
<1>8. ~Alive(far) /\ ~Alive(near)
  BY <1>1, <1>3 DEF Alive
<1>9. DeleteInv
  BY <1>1, <1>5, <1>8 DEF DeleteInv, Holds
<1>10. far.exp <= now + MaxTTL
  BY <1>1, <1>3, TieredNumbers
<1>11. LifeInv
  BY <1>3, <1>5, <1>10 DEF LifeInv, NearExpires
<1> QED
  BY <1>4, <1>6, <1>7, <1>9, <1>11 DEF TieredInv

LEMMA TieredStepInv == TieredTypeOK /\ TieredInv /\ [TieredNext]_tieredVars => TieredTypeOK' /\ TieredInv'
<1> SUFFICES ASSUME TieredTypeOK, TieredInv, [TieredNext]_tieredVars
             PROVE  TieredTypeOK' /\ TieredInv'
  OBVIOUS
<1>1. CASE UNCHANGED tieredVars
  <2>1. UNCHANGED <<l1ttl, life, now, origin, near, far, req, flight, calls, fails, due, deleted,
                    tainted, lasting, vanished>>
    BY <1>1 DEF tieredVars, world, history
  <2>2. TieredTypeOK'
    BY <2>1 DEF TieredTypeOK
  <2>3. FlightInv' /\ DueInv' /\ DeleteInv' /\ LifeInv'
    BY <2>1 DEF TieredInv, FlightInv, DueInv, DeleteInv, LifeInv, NearExpires, Alive, Holds
  <2> QED
    BY <2>2, <2>3 DEF TieredInv
<1>2. CASE TieredNext
  BY <1>2, QuietNext, LoudNext, ReleaseNext, DeleteNext, OutsideNext, Zenon
     DEF TieredNext, Proceed
<1> QED
  BY <1>1, <1>2

\* The types and the four parts of the invariant hold in every state.
THEOREM TieredInvCorrect == TieredSpec => [](TieredTypeOK /\ TieredInv)
BY TieredInitInv, TieredStepInv, PTL DEF TieredSpec

\* A burst of misses costs one load, and no caller waits for a flight that nobody
\* leads: GetOrLoad's teardown is deferred, so it runs whatever load does.
THEOREM SingleFlightCorrect == TieredSpec => []SingleFlight
<1>1. TieredTypeOK /\ TieredInv => SingleFlight
  <2> SUFFICES ASSUME TieredInv PROVE SingleFlight
    OBVIOUS
  <2>1. OneLoad
    BY DEF TieredInv, FlightInv, OneLoad
  <2>2. NoNeedlessLoad
    BY DEF TieredInv, DueInv, NoNeedlessLoad, At
  <2>3. WaitersHaveLeader
    BY DEF TieredInv, FlightInv, WaitersHaveLeader, At
  <2> QED
    BY <2>1, <2>2, <2>3 DEF SingleFlight
<1> QED
  BY <1>1, TieredInvCorrect, PTL

\* What Delete took is not served from L1, and what L2 lets expire does not stay
\* there, but for the races the flags name.
THEOREM NearFollowsFarCorrect == TieredSpec => []NearFollowsFar
<1>1. TieredTypeOK /\ TieredInv => NearFollowsFar
  <2> SUFFICES ASSUME TieredTypeOK, TieredInv PROVE NearFollowsFar
    OBVIOUS
  <2>1. DeletedStaysDeleted
    <3> SUFFICES ASSUME NEW e \in {near, far}, Alive(e), e.val < deleted, ~tainted PROVE FALSE
      BY DEF DeletedStaysDeleted
    <3>1. e.val \in Nat /\ deleted \in Nat
      BY TieredFacts
    <3>2. deleted <= e.val
      BY DEF TieredInv, DeleteInv
    <3> QED
      BY <3>1, <3>2
  <2>2. NearExpires
    BY DEF TieredInv, LifeInv
  <2> QED
    BY <2>1, <2>2 DEF NearFollowsFar
<1> QED
  BY <1>1, TieredInvCorrect, PTL

-------------------------------------------------------------------------------
(***************************************************************************)
(* Topics: proofs.                                                         *)
(***************************************************************************)

Values       == Columns \cup {NoRow}
StoredAnswer == [query : Queries, stamp : Stamps, answer : Values]

\* The answer that a table with row x gives.
AnswerOf(q, x) == IF q = "all" THEN x ELSE IF x = q THEN q ELSE NoRow

\* s has a generation for every topic of q.
Stamped(q, s) == \A t \in DependsOn(q) : s[t] # 0

\* The types, in the terms of the steps.
LEMMA TopicFacts ==
    ASSUME TopicsTypeOK
    PROVE  /\ row \in Values /\ gen \in Stamps /\ minted \in Stamps /\ answers \subseteq StoredAnswer
           /\ reader \in [Readers -> Reader] /\ writer \in [Writers -> Writer]
           /\ queries \in 0..MaxQueries /\ writes \in 0..MaxWrites /\ lost \in 0..MaxLost
           /\ unheard \in BOOLEAN /\ suspect \subseteq TopicSet \X (1..MaxGen)
  BY DEF TopicsTypeOK, Values, StoredAnswer

\* The counters keep within the bounds.
LEMMA TopicNumbers ==
    /\ MaxGen \in Nat /\ MaxQueries \in Nat /\ MaxWrites \in Nat /\ MaxLost \in Nat
  BY TopicBounds

\* A stamp's numbers.
LEMMA StampFacts ==
    /\ \A s \in Stamps, t \in TopicSet : s[t] \in 0..MaxGen /\ s[t] \in Nat
    /\ NoStamp \in Stamps /\ \A t \in TopicSet : NoStamp[t] = 0
<1>1. MaxGen \in Nat
  BY TopicNumbers
<1> QED
  BY <1>1 DEF Stamps, NoStamp

\* The topics of a query are topics.
LEMMA TopicsOfQuery ==
    ASSUME NEW q \in Queries
    PROVE  DependsOn(q) \subseteq TopicSet
  BY DEF Queries, DependsOn, TopicSet

\* A write that changes the answer to a query touches one of its topics.
LEMMA TouchesFacts ==
    ASSUME NEW old \in Values, NEW new \in Values, old # NoRow \/ new # NoRow
    PROVE  /\ Touches(old, new) \subseteq TopicSet
           /\ \A q \in Queries : AnswerOf(q, old) # AnswerOf(q, new) =>
                                     Touches(old, new) \cap DependsOn(q) # {}
<1>1. NoRow \notin Columns
  BY ColumnAssumption
<1>2. CASE old = NoRow
  <2>1. new \in Columns /\ Touches(old, new) = {"any", new}
    BY <1>2 DEF Values, Touches
  <2>2. ASSUME NEW q \in Queries, AnswerOf(q, old) # AnswerOf(q, new)
        PROVE  Touches(old, new) \cap DependsOn(q) # {}
    <3>1. CASE q = "all"
      <4>1. "any" \in Touches(old, new) /\ "any" \in DependsOn(q)
        BY <2>1, <3>1 DEF DependsOn
      <4> QED
        BY <4>1
    <3>2. CASE q # "all"
      <4>1. q \in Columns
        BY <3>2 DEF Queries
      <4>2. new = q
        BY <1>1, <1>2, <2>2, <3>2, <4>1 DEF AnswerOf
      <4>3. q \in Touches(old, new) /\ q \in DependsOn(q)
        BY <2>1, <3>2, <4>2 DEF DependsOn
      <4> QED
        BY <4>3
    <3> QED
      BY <3>1, <3>2
  <2> QED
    BY <2>1, <2>2 DEF TopicSet
<1>3. CASE old # NoRow
  <2>1. Touches(old, new) = {"any", "unscoped"}
    BY <1>3 DEF Touches
  <2>2. ASSUME NEW q \in Queries PROVE Touches(old, new) \cap DependsOn(q) # {}
    <3>1. "any" \in DependsOn(q) \/ "unscoped" \in DependsOn(q)
      BY DEF DependsOn
    <3> QED
      BY <2>1, <3>1
  <2> QED
    BY <2>1, <2>2 DEF TopicSet
<1> QED
  BY <1>2, <1>3

\* If whatever is excused stays so, so are the answers and those about to be stored.
LEMMA AnswersKept ==
    ASSUME TopicsTypeOK, StampInv, AnswerInv,
           \A q \in Queries, s \in Stamps, a \in Values :
              Stamped(q, s) /\ Excused(q, s, a) => Excused(q, s, a)'
    PROVE  /\ \A e \in answers : Excused(e.query, e.stamp, e.answer)'
           /\ \A r \in Readers : reader'[r] = reader[r] /\ reader'[r].step = "store" =>
                  Excused(reader[r].query, reader[r].stamp, reader[r].answer)'
<1>1. ASSUME NEW e \in answers PROVE Excused(e.query, e.stamp, e.answer)'
  <2>1. e.query \in Queries /\ e.stamp \in Stamps /\ e.answer \in Values
    BY TopicFacts DEF StoredAnswer
  <2>2. Stamped(e.query, e.stamp) /\ Excused(e.query, e.stamp, e.answer)
    BY DEF StampInv, AnswerInv, Stamped
  <2> QED
    BY <2>1, <2>2
<1>2. ASSUME NEW r \in Readers, reader'[r] = reader[r], reader'[r].step = "store"
      PROVE  Excused(reader[r].query, reader[r].stamp, reader[r].answer)'
  <2> DEFINE q == reader[r].query
             s == reader[r].stamp
             a == reader[r].answer
  <2>1. q \in Queries /\ s \in Stamps /\ a \in Values
    BY TopicFacts DEF Reader, Values
  <2>2. Stamped(q, s) /\ Excused(q, s, a)
    BY <1>2 DEF StampInv, AnswerInv, Stamped
  <2>3. PICK p \in Queries, u \in Stamps, b \in Values : p = q /\ u = s /\ b = a
    BY <2>1
  <2>4. Excused(p, u, b)'
    BY <2>2, <2>3
  <2>5. reader'[r].query = p /\ reader'[r].stamp = u /\ reader'[r].answer = b
    BY <1>2, <2>3
  <2> HIDE DEF q, s, a
  <2> QED
    BY <2>4, <2>5 DEF Excused, Answer
<1> QED
  BY <1>1, <1>2

\* The types after a reader's step to x.
LEMMA ReaderType ==
    ASSUME TopicsTypeOK, NEW r \in Readers, NEW x \in Reader, reader' = [reader EXCEPT ![r] = x],
           ReaderUnchanged, gen' \in Stamps, minted' \in Stamps, answers' \subseteq StoredAnswer,
           queries' \in 0..MaxQueries, lost' \in 0..MaxLost
    PROVE  /\ TopicsTypeOK'
           /\ reader'[r] = x /\ \A d \in Readers : d # r => reader'[d] = reader[d]
<1>1. /\ reader' \in [Readers -> Reader]
      /\ reader'[r] = x /\ \A d \in Readers : d # r => reader'[d] = reader[d]
  BY TopicFacts
<1> QED
  BY <1>1 DEF TopicsTypeOK, ReaderUnchanged, StoredAnswer, Values

\* A reader leaves the writers' part alone.
LEMMA ReaderFrame ==
    ASSUME ReaderUnchanged, WriterInv
    PROVE  WriterInv'
<1>1. UNCHANGED <<row, writer>>
  BY DEF ReaderUnchanged
<1> QED
  BY <1>1 DEF WriterInv, Touches

\* While generations stay, what is excused stays so.
LEMMA ReaderExcuses ==
    ASSUME ReaderUnchanged, gen' = gen, NEW q \in Queries, NEW s \in Stamps, NEW a \in Values,
           Excused(q, s, a)
    PROVE  Excused(q, s, a)'
<1>1. UNCHANGED <<row, writer, unheard, suspect>>
  BY DEF ReaderUnchanged
<1> QED
  BY <1>1 DEF Excused, Answer

\* A step of a reader that mints and stores nothing.
LEMMA QuietReader ==
    ASSUME TopicsTypeOK, TopicsInv, NEW r \in Readers, NEW x \in Reader,
           reader' = [reader EXCEPT ![r] = x], ReaderUnchanged, UNCHANGED <<gen, minted, answers>>,
           queries' \in 0..MaxQueries, lost' \in 0..MaxLost,
           x.fresh = {}, x.stamp = NoStamp \/ x.stamp = reader[r].stamp,
           x.step # "mint",
           x.step \in {"lookup", "query", "store"} =>
              /\ x.stamp = reader[r].stamp /\ x.query = reader[r].query
              /\ reader[r].step \in {"mint", "lookup", "query"},
           x.step = "store" => x.answer = Answer(x.query)
    PROVE  TopicsTypeOK' /\ TopicsInv'
<1>0. /\ MintInv /\ StampInv /\ WriterInv /\ AnswerInv
      /\ gen \in Stamps /\ minted \in Stamps /\ answers \subseteq StoredAnswer
      /\ reader \in [Readers -> Reader]
  BY TopicFacts DEF TopicsInv
<1>1. /\ TopicsTypeOK'
      /\ reader'[r] = x /\ \A d \in Readers : d # r => reader'[d] = reader[d]
  BY <1>0, ReaderType
<1>2. MintInv'
  <2>1. \A t \in TopicSet : /\ minted[t] \in Nat /\ x.stamp[t] <= minted[t]
                            /\ x.stamp[t] = reader[r].stamp[t] \/ x.stamp[t] = 0
    <3> TAKE t \in TopicSet
    <3>1. minted[t] \in Nat /\ reader[r].stamp[t] <= minted[t]
      BY <1>0, StampFacts DEF MintInv
    <3>2. CASE x.stamp = NoStamp
      BY <3>1, <3>2, StampFacts
    <3>3. CASE x.stamp = reader[r].stamp
      BY <3>1, <3>3
    <3> QED
      BY <3>2, <3>3
  <2>2. \A d \in Readers : \A t \in TopicSet : reader'[d].stamp[t] <= minted[t]
    BY <1>0, <1>1, <2>1 DEF MintInv
  <2>3. \A d \in Readers : reader'[d].step # "mint" => reader'[d].fresh = {}
    BY <1>0, <1>1 DEF MintInv
  <2>4. ASSUME NEW d \in Readers, NEW t \in reader'[d].fresh
        PROVE  /\ reader'[d].stamp[t] # gen[t] /\ reader'[d].stamp[t] # 0
               /\ \A e \in answers : e.stamp[t] # reader'[d].stamp[t]
               /\ \A s \in Readers : s # d => reader'[s].stamp[t] # reader'[d].stamp[t]
    <3>1. d # r /\ reader'[d] = reader[d] /\ t \in reader[d].fresh
      BY <1>1, <2>4
    <3>2. t \in TopicSet
      BY <1>0, <3>1 DEF Reader
    <3>3. /\ reader[d].stamp[t] # gen[t] /\ reader[d].stamp[t] # 0
          /\ \A e \in answers : e.stamp[t] # reader[d].stamp[t]
          /\ \A s \in Readers : s # d => reader[s].stamp[t] # reader[d].stamp[t]
      BY <1>0, <3>1 DEF MintInv
    <3>4. x.stamp[t] # reader[d].stamp[t]
      BY <2>1, <3>1, <3>2, <3>3
    <3> QED
      BY <1>1, <3>1, <3>3, <3>4
  <2>5. UNCHANGED <<gen, minted, answers>>
    OBVIOUS
  <2> QED
    BY <1>0, <2>2, <2>3, <2>4, <2>5 DEF MintInv
<1>3. StampInv'
  <2>1. ASSUME NEW d \in Readers, reader'[d].step \in {"mint", "lookup", "query", "store"}
        PROVE  \A t \in DependsOn(reader'[d].query) : reader'[d].stamp[t] # 0
    <3>1. CASE d = r
      <4>1. /\ reader'[d].stamp = reader[r].stamp /\ reader'[d].query = reader[r].query
            /\ reader[r].step \in {"mint", "lookup", "query"}
        BY <1>1, <2>1, <3>1
      <4> QED
        BY <1>0, <4>1 DEF StampInv
    <3>2. CASE d # r
      BY <1>0, <1>1, <2>1, <3>2 DEF StampInv
    <3> QED
      BY <3>1, <3>2
  <2> QED
    BY <1>0, <2>1 DEF StampInv, DependsOn
<1>4. AnswerInv'
  <2>1. /\ \A e \in answers : Excused(e.query, e.stamp, e.answer)'
        /\ \A d \in Readers : reader'[d] = reader[d] /\ reader'[d].step = "store" =>
               Excused(reader[d].query, reader[d].stamp, reader[d].answer)'
    BY <1>0, AnswersKept, ReaderExcuses
  <2>2. reader'[r].step = "store" =>
            Excused(reader[r].query, reader[r].stamp, reader[r].answer)'
    BY <1>1 DEF Excused, Answer, ReaderUnchanged
  <2>3. \A d \in Readers : reader'[d].step = "store" =>
            Excused(reader[d].query, reader[d].stamp, reader[d].answer)'
    BY <1>1, <2>1, <2>2
  <2> QED
    BY <2>1, <2>3 DEF AnswerInv
<1> QED
  BY <1>0, <1>1, <1>2, <1>3, <1>4, ReaderFrame DEF TopicsInv

\* The records of an idle reader and writer.
LEMMA IdleFacts ==
    /\ IdleReader \in Reader /\ IdleReader.step = "idle" /\ IdleReader.stamp = NoStamp
    /\ IdleReader.fresh = {}
    /\ IdleWriter \in Writer /\ IdleWriter.step = "idle" /\ IdleWriter.topics = {}
  BY StampFacts DEF IdleReader, IdleWriter, Reader, Writer, Queries

\* The reader's steps that mint and store nothing.
LEMMA QuietReaderNext ==
    ASSUME TopicsTypeOK, TopicsInv, NEW r \in Readers,
           \/ \E q \in Queries : BeginQuery(r, q)
           \/ Bypass(r) \/ MintFails(r) \/ Lookup(r) \/ QueryDB(r)
    PROVE  TopicsTypeOK' /\ TopicsInv'
<1>0. /\ reader \in [Readers -> Reader] /\ queries \in 0..MaxQueries /\ lost \in 0..MaxLost
      /\ MaxQueries \in Nat /\ MaxLost \in Nat /\ row \in Values /\ MintInv
      /\ reader[r].query \in Queries /\ reader[r].stamp \in Stamps
  BY TopicFacts, TopicNumbers DEF Reader, TopicsInv
<1>1. Lose => lost' \in 0..MaxLost
  BY <1>0 DEF Lose
<1>2. ASSUME NEW q \in Queries, BeginQuery(r, q) PROVE TopicsTypeOK' /\ TopicsInv'
  <2> DEFINE x == [IdleReader EXCEPT !.step = "stamp", !.query = q]
  <2>1. /\ reader' = [reader EXCEPT ![r] = x] /\ queries' = queries + 1 /\ queries < MaxQueries
        /\ ReaderUnchanged /\ UNCHANGED <<gen, minted, answers, lost>>
    BY <1>2 DEF BeginQuery
  <2>2. x \in Reader /\ x.step = "stamp" /\ x.stamp = NoStamp /\ x.fresh = {}
    BY StampFacts DEF IdleReader, Reader
  <2>3. queries' \in 0..MaxQueries /\ lost' \in 0..MaxLost
    BY <1>0, <2>1
  <2> HIDE DEF x
  <2> QED
    BY <2>1, <2>2, <2>3, QuietReader
<1>3. ASSUME Bypass(r) PROVE TopicsTypeOK' /\ TopicsInv'
  <2>1. /\ reader' = [reader EXCEPT ![r] = IdleReader] /\ lost' \in 0..MaxLost
        /\ ReaderUnchanged /\ UNCHANGED <<gen, minted, answers, queries>>
    BY <1>1, <1>3 DEF Bypass
  <2> QED
    BY <1>0, <2>1, IdleFacts, QuietReader
<1>4. ASSUME MintFails(r) PROVE TopicsTypeOK' /\ TopicsInv'
  <2> DEFINE x == [reader[r] EXCEPT !.step = "lookup", !.fresh = {}]
  <2>1. /\ reader' = [reader EXCEPT ![r] = x] /\ lost' \in 0..MaxLost
        /\ reader[r].step = "mint"
        /\ ReaderUnchanged /\ UNCHANGED <<gen, minted, answers, queries>>
    BY <1>1, <1>4 DEF MintFails
  <2>2. x \in Reader /\ x.step = "lookup" /\ x.stamp = reader[r].stamp
        /\ x.query = reader[r].query /\ x.fresh = {}
    BY <1>0 DEF Reader
  <2> HIDE DEF x
  <2> QED
    BY <1>0, <2>1, <2>2, QuietReader
<1>5. ASSUME Lookup(r) PROVE TopicsTypeOK' /\ TopicsInv'
  <2> DEFINE x == [reader[r] EXCEPT !.step = "query"]
  <2>1. /\ reader' = [reader EXCEPT ![r] = IdleReader] \/ reader' = [reader EXCEPT ![r] = x]
        /\ reader[r].step = "lookup"
        /\ ReaderUnchanged /\ UNCHANGED <<gen, minted, answers, queries, lost>>
    BY <1>0, <1>5 DEF Lookup
  <2>2. reader[r].fresh = {}
    BY <1>0, <2>1 DEF MintInv
  <2>3. x \in Reader /\ x.step = "query" /\ x.stamp = reader[r].stamp
        /\ x.query = reader[r].query /\ x.fresh = {}
    BY <1>0, <2>2 DEF Reader
  <2> HIDE DEF x
  <2>4. queries' \in 0..MaxQueries /\ lost' \in 0..MaxLost
    BY <1>0, <2>1
  <2>5. CASE reader' = [reader EXCEPT ![r] = IdleReader]
    BY <2>1, <2>4, <2>5, IdleFacts, QuietReader
  <2>6. CASE reader' = [reader EXCEPT ![r] = x]
    BY <2>1, <2>3, <2>4, <2>6, QuietReader
  <2> QED
    BY <2>1, <2>5, <2>6
<1>6. ASSUME QueryDB(r) PROVE TopicsTypeOK' /\ TopicsInv'
  <2> DEFINE x == [reader[r] EXCEPT !.answer = Answer(reader[r].query), !.step = "store"]
  <2>1. /\ reader' = [reader EXCEPT ![r] = x] /\ reader[r].step = "query"
        /\ ReaderUnchanged /\ UNCHANGED <<gen, minted, answers, queries, lost>>
    BY <1>6 DEF QueryDB
  <2>2. reader[r].fresh = {}
    BY <1>0, <2>1 DEF MintInv
  <2>3. Answer(reader[r].query) \in Values
    BY <1>0 DEF Answer, Queries, Values
  <2>4. x \in Reader /\ x.step = "store" /\ x.stamp = reader[r].stamp
        /\ x.query = reader[r].query /\ x.fresh = {} /\ x.answer = Answer(reader[r].query)
    BY <1>0, <2>2, <2>3 DEF Reader, Values
  <2> HIDE DEF x
  <2>5. queries' \in 0..MaxQueries /\ lost' \in 0..MaxLost
    BY <1>0, <2>1
  <2> QED
    BY <2>1, <2>4, <2>5, QuietReader
<1> QED
  BY <1>2, <1>3, <1>4, <1>5, <1>6

\* The missing generations get numbers that nobody has.
LEMMA ReadGenerationsNext ==
    ASSUME TopicsTypeOK, TopicsInv, NEW r \in Readers, ReadGenerations(r)
    PROVE  TopicsTypeOK' /\ TopicsInv'
<1> DEFINE deps == DependsOn(reader[r].query)
           missing == {t \in deps : gen[t] = 0}
           st == [t \in TopicSet |-> IF t \in missing THEN newGeneration(t)
                                     ELSE IF t \in deps THEN gen[t] ELSE 0]
           x == [reader[r] EXCEPT !.stamp = st, !.fresh = missing,
                                  !.step = IF missing = {} THEN "lookup" ELSE "mint"]
<1>0. /\ MintInv /\ StampInv /\ WriterInv /\ AnswerInv
      /\ gen \in Stamps /\ minted \in Stamps /\ answers \subseteq StoredAnswer
      /\ reader \in [Readers -> Reader] /\ reader[r].query \in Queries
      /\ queries \in 0..MaxQueries /\ lost \in 0..MaxLost
  BY TopicFacts DEF TopicsInv, Reader
<1>1. /\ \A t \in missing : minted[t] < MaxGen
      /\ reader' = [reader EXCEPT ![r] = x]
      /\ minted' = [t \in TopicSet |-> IF t \in missing THEN newGeneration(t) ELSE minted[t]]
      /\ ReaderUnchanged /\ UNCHANGED <<gen, answers, queries, lost>>
  BY DEF ReadGenerations
<1>2. deps \subseteq TopicSet /\ missing \subseteq TopicSet
  BY <1>0, TopicsOfQuery
<1>3. \A t \in TopicSet : /\ minted[t] \in Nat /\ gen[t] \in Nat /\ gen[t] <= minted[t]
                          /\ minted[t] \in 0..MaxGen
                          /\ st[t] = IF t \in missing THEN minted[t] + 1
                                     ELSE IF t \in deps THEN gen[t] ELSE 0
                          /\ minted'[t] = IF t \in missing THEN minted[t] + 1 ELSE minted[t]
  BY <1>0, <1>1, StampFacts DEF MintInv, newGeneration
<1>4. \A t \in TopicSet : /\ st[t] \in 0..MaxGen /\ minted'[t] \in 0..MaxGen
                          /\ minted'[t] \in Nat /\ minted[t] <= minted'[t] /\ st[t] <= minted'[t]
  <2> TAKE t \in TopicSet
  <2>1. gen[t] \in 0..MaxGen /\ MaxGen \in Nat
    BY <1>0, StampFacts, TopicNumbers
  <2>2. CASE t \in missing
    BY <1>1, <1>3, <2>1, <2>2
  <2>3. CASE t \notin missing
    BY <1>3, <2>1, <2>3
  <2> QED
    BY <2>2, <2>3
<1>5. st \in Stamps /\ minted' \in Stamps
  <2>1. DOMAIN st = TopicSet /\ DOMAIN minted' = TopicSet
    BY <1>1
  <2> QED
    BY <1>1, <1>4, <2>1 DEF Stamps
<1>6. \A t \in deps : st[t] # 0
  BY <1>2, <1>3
<1>7. x \in Reader /\ x.stamp = st /\ x.fresh = missing /\ x.query = reader[r].query
      /\ x.step = IF missing = {} THEN "lookup" ELSE "mint"
  <2> HIDE DEF st, deps
  <2>1. (IF missing = {} THEN "lookup" ELSE "mint") \in {"lookup", "mint"}
    OBVIOUS
  <2> QED
    BY <1>0, <1>2, <1>5, <2>1 DEF Reader
<1> HIDE DEF x, st
<1>8. /\ TopicsTypeOK'
      /\ reader'[r] = x /\ \A d \in Readers : d # r => reader'[d] = reader[d]
  BY <1>0, <1>1, <1>5, <1>7, ReaderType
<1>9. MintInv'
  <2>1. \A t \in TopicSet : /\ gen[t] <= minted'[t]
                            /\ \A e \in answers : e.stamp[t] <= minted'[t]
    <3>1. \A e \in answers, t \in TopicSet : e.stamp[t] \in Nat
      BY <1>0, StampFacts DEF StoredAnswer
    <3>2. \A t \in TopicSet : \A e \in answers : e.stamp[t] <= minted[t]
      BY <1>0 DEF MintInv
    <3> QED
      BY <1>3, <1>4, <3>1, <3>2
  <2>2. \A d \in Readers, t \in TopicSet : reader[d].stamp[t] \in Nat
    BY <1>0, StampFacts DEF Reader
  <2>3. \A t \in TopicSet : \A d \in Readers : reader'[d].stamp[t] <= minted'[t]
    <3>1. \A t \in TopicSet : \A d \in Readers : reader[d].stamp[t] <= minted[t]
      BY <1>0 DEF MintInv
    <3>2. ASSUME NEW t \in TopicSet, NEW d \in Readers PROVE reader'[d].stamp[t] <= minted'[t]
      <4>1. CASE d = r
        BY <1>4, <1>7, <1>8, <4>1
      <4>2. CASE d # r
        <5>1. reader'[d] = reader[d]
          BY <1>8, <4>2
        <5> QED
          BY <1>3, <1>4, <2>2, <3>1, <5>1
      <4> QED
        BY <4>1, <4>2
    <3> QED
      BY <3>2
  <2>4. \A d \in Readers : reader'[d].step # "mint" => reader'[d].fresh = {}
    <3>1. x.step # "mint" => x.fresh = {}
      BY <1>7
    <3> QED
      BY <1>0, <1>8, <3>1 DEF MintInv
  <2>5. ASSUME NEW d \in Readers, NEW t \in reader'[d].fresh
        PROVE  /\ reader'[d].stamp[t] # gen[t] /\ reader'[d].stamp[t] # 0
               /\ \A e \in answers : e.stamp[t] # reader'[d].stamp[t]
               /\ \A s \in Readers : s # d => reader'[s].stamp[t] # reader'[d].stamp[t]
    <3>1. CASE d = r
      <4>1. t \in missing /\ t \in TopicSet /\ reader'[d].stamp[t] = minted[t] + 1
        BY <1>2, <1>3, <1>7, <1>8, <2>5, <3>1
      <4>2. minted[t] \in Nat /\ gen[t] <= minted[t] /\ gen[t] \in Nat
        BY <1>3, <4>1
      <4>3. \A e \in answers : e.stamp[t] <= minted[t] /\ e.stamp[t] \in Nat
        BY <1>0, <4>1, StampFacts DEF MintInv, StoredAnswer
      <4>4. \A s \in Readers : reader[s].stamp[t] <= minted[t] /\ reader[s].stamp[t] \in Nat
        BY <1>0, <2>2, <4>1 DEF MintInv
      <4>5. \A n \in Nat : n <= minted[t] => n # minted[t] + 1
        BY <4>2
      <4>6. minted[t] + 1 # 0
        BY <4>2
      <4>7. \A s \in Readers : s # d => reader'[s].stamp[t] # minted[t] + 1
        BY <1>8, <3>1, <4>4, <4>5
      <4> QED
        BY <4>1, <4>2, <4>3, <4>5, <4>6, <4>7
    <3>2. CASE d # r
      <4>1. reader'[d] = reader[d] /\ t \in reader[d].fresh
        BY <1>8, <2>5, <3>2
      <4>2. t \in TopicSet
        BY <1>0, <4>1 DEF Reader
      <4>3. /\ reader[d].stamp[t] # gen[t] /\ reader[d].stamp[t] # 0
            /\ \A e \in answers : e.stamp[t] # reader[d].stamp[t]
            /\ \A s \in Readers : s # d => reader[s].stamp[t] # reader[d].stamp[t]
            /\ reader[d].stamp[t] <= minted[t]
        BY <1>0, <4>1, <4>2 DEF MintInv
      <4>4. st[t] # reader[d].stamp[t]
        BY <1>3, <2>2, <4>2, <4>3
      <4> QED
        BY <1>7, <1>8, <4>1, <4>3, <4>4
    <3> QED
      BY <3>1, <3>2
  <2>6. gen' = gen /\ answers' = answers
    BY <1>1
  <2> QED
    BY <2>1, <2>3, <2>4, <2>5, <2>6 DEF MintInv
<1>10. StampInv'
  <2>1. ASSUME NEW d \in Readers, reader'[d].step \in {"mint", "lookup", "query", "store"}
        PROVE  \A t \in DependsOn(reader'[d].query) : reader'[d].stamp[t] # 0
    <3>1. CASE d = r
      BY <1>6, <1>7, <1>8, <3>1
    <3>2. CASE d # r
      BY <1>0, <1>8, <2>1, <3>2 DEF StampInv
    <3> QED
      BY <3>1, <3>2
  <2> QED
    BY <1>0, <1>1, <2>1 DEF StampInv, DependsOn
<1>11. AnswerInv'
  <2>1. /\ \A e \in answers : Excused(e.query, e.stamp, e.answer)'
        /\ \A d \in Readers : reader'[d] = reader[d] /\ reader'[d].step = "store" =>
               Excused(reader[d].query, reader[d].stamp, reader[d].answer)'
    BY <1>0, <1>1, AnswersKept, ReaderExcuses
  <2>2. reader'[r].step # "store"
    BY <1>7, <1>8
  <2>3. \A d \in Readers : reader'[d].step = "store" =>
            Excused(reader[d].query, reader[d].stamp, reader[d].answer)'
    BY <1>8, <2>1, <2>2
  <2> QED
    BY <1>1, <2>1, <2>3 DEF AnswerInv
<1> QED
  BY <1>0, <1>1, <1>8, <1>9, <1>10, <1>11, ReaderFrame DEF TopicsInv

\* A reader stores the numbers that it alone has: nothing stored before is found again.
LEMMA MintNext ==
    ASSUME TopicsTypeOK, TopicsInv, NEW r \in Readers, Mint(r)
    PROVE  TopicsTypeOK' /\ TopicsInv'
<1> DEFINE x == [reader[r] EXCEPT !.step = "lookup", !.fresh = {}]
<1>0. /\ MintInv /\ StampInv /\ WriterInv /\ AnswerInv
      /\ gen \in Stamps /\ minted \in Stamps /\ answers \subseteq StoredAnswer
      /\ reader \in [Readers -> Reader] /\ reader[r].stamp \in Stamps
      /\ queries \in 0..MaxQueries /\ lost \in 0..MaxLost
  BY TopicFacts DEF TopicsInv, Reader
<1>1. /\ reader[r].step = "mint" /\ reader' = [reader EXCEPT ![r] = x]
      /\ gen' = [t \in TopicSet |-> IF t \in reader[r].fresh THEN reader[r].stamp[t] ELSE gen[t]]
      /\ ReaderUnchanged /\ UNCHANGED <<minted, answers, queries, lost>>
  BY DEF Mint
<1>2. x \in Reader /\ x.step = "lookup" /\ x.stamp = reader[r].stamp
      /\ x.query = reader[r].query /\ x.fresh = {}
  BY <1>0 DEF Reader
<1> HIDE DEF x
<1>3. \A t \in TopicSet : \/ t \in reader[r].fresh /\ gen'[t] = reader[r].stamp[t]
                          \/ t \notin reader[r].fresh /\ gen'[t] = gen[t]
  BY <1>1
<1>4. gen' \in Stamps
  <2>1. \A t \in TopicSet : gen'[t] \in 0..MaxGen
    BY <1>0, <1>3, StampFacts
  <2>2. gen' = [t \in TopicSet |-> gen'[t]]
    BY <1>1
  <2> QED
    BY <2>1, <2>2 DEF Stamps
<1>5. /\ TopicsTypeOK'
      /\ reader'[r] = x /\ \A d \in Readers : d # r => reader'[d] = reader[d]
  BY <1>0, <1>1, <1>2, <1>4, ReaderType
<1>6. \A d \in Readers : reader'[d].stamp = reader[d].stamp /\ reader'[d].query = reader[d].query
  BY <1>2, <1>5
<1>7. MintInv'
  <2>1. /\ \A t \in TopicSet : gen'[t] <= minted[t]
        /\ \A d \in Readers : \A t \in TopicSet : reader'[d].stamp[t] <= minted[t]
        /\ \A d \in Readers : reader'[d].step # "mint" => reader'[d].fresh = {}
    BY <1>0, <1>2, <1>3, <1>5, <1>6 DEF MintInv
  <2>2. ASSUME NEW d \in Readers, NEW t \in reader'[d].fresh
        PROVE  /\ reader'[d].stamp[t] # gen'[t] /\ reader'[d].stamp[t] # 0
               /\ \A e \in answers : e.stamp[t] # reader'[d].stamp[t]
               /\ \A s \in Readers : s # d => reader'[s].stamp[t] # reader'[d].stamp[t]
    <3>1. d # r /\ reader'[d] = reader[d] /\ t \in reader[d].fresh
      BY <1>2, <1>5, <2>2
    <3>2. t \in TopicSet
      BY <1>0, <3>1 DEF Reader
    <3>3. /\ reader[d].stamp[t] # gen[t] /\ reader[d].stamp[t] # 0
          /\ \A e \in answers : e.stamp[t] # reader[d].stamp[t]
          /\ \A s \in Readers : s # d => reader[s].stamp[t] # reader[d].stamp[t]
      BY <1>0, <3>1 DEF MintInv
    <3>4. reader[d].stamp[t] # gen'[t]
      BY <1>3, <3>1, <3>2, <3>3
    <3> QED
      BY <1>6, <3>1, <3>3, <3>4
  <2>3. UNCHANGED <<minted, answers>>
    BY <1>1
  <2> QED
    BY <1>0, <2>1, <2>2, <2>3 DEF MintInv
<1>8. StampInv'
  <2>1. ASSUME NEW d \in Readers, reader'[d].step \in {"mint", "lookup", "query", "store"}
        PROVE  \A t \in DependsOn(reader'[d].query) : reader'[d].stamp[t] # 0
    <3>1. reader[d].step \in {"mint", "lookup", "query", "store"}
      BY <1>1, <1>5, <2>1
    <3> QED
      BY <1>0, <1>6, <3>1 DEF StampInv
  <2> QED
    BY <1>0, <1>1, <2>1 DEF StampInv, DependsOn
<1>9. AnswerInv'
  <2>0. UNCHANGED <<row, writer, unheard, suspect>>
    BY <1>1 DEF ReaderUnchanged
  <2>1. ASSUME NEW q \in Queries, NEW s \in Stamps, NEW a, Excused(q, s, a),
               \A t \in reader[r].fresh : s[t] # reader[r].stamp[t]
        PROVE  Excused(q, s, a)'
    <3>1. \A t \in DependsOn(q) : s[t] # gen[t] => s[t] # gen'[t]
      BY <1>3, <2>1, TopicsOfQuery
    <3> QED
      BY <2>0, <2>1, <3>1 DEF Excused, Answer
  <2>2. ASSUME NEW e \in answers PROVE Excused(e.query, e.stamp, e.answer)'
    <3>1. e.query \in Queries /\ e.stamp \in Stamps
      BY <1>0 DEF StoredAnswer
    <3>2. \A t \in reader[r].fresh : e.stamp[t] # reader[r].stamp[t]
      BY <1>0 DEF MintInv
    <3>3. Excused(e.query, e.stamp, e.answer)
      BY <1>0 DEF AnswerInv
    <3> QED
      BY <2>1, <3>1, <3>2, <3>3
  <2>3. ASSUME NEW d \in Readers, reader'[d].step = "store"
        PROVE  Excused(reader[d].query, reader[d].stamp, reader[d].answer)'
    <3>1. d # r /\ reader'[d] = reader[d] /\ reader[d].step = "store"
      BY <1>2, <1>5, <2>3
    <3>2. \A t \in reader[r].fresh : reader[d].stamp[t] # reader[r].stamp[t]
      BY <1>0, <3>1 DEF MintInv
    <3>3. Excused(reader[d].query, reader[d].stamp, reader[d].answer)
      BY <1>0, <3>1 DEF AnswerInv
    <3>4. PICK q \in Queries, s \in Stamps, a \in Values :
              q = reader[d].query /\ s = reader[d].stamp /\ a = reader[d].answer
      BY <1>0 DEF Reader, Values
    <3>5. Excused(q, s, a)'
      BY <2>1, <3>2, <3>3, <3>4
    <3>6. q = reader'[d].query /\ s = reader'[d].stamp /\ a = reader'[d].answer
      BY <3>1, <3>4
    <3> QED
      BY <3>5, <3>6 DEF Excused, Answer
  <2> QED
    BY <1>1, <2>2, <2>3 DEF AnswerInv
<1> QED
  BY <1>0, <1>1, <1>5, <1>7, <1>8, <1>9, ReaderFrame DEF TopicsInv

\* A reader caches its answer under the stamp it read before it asked the database.
LEMMA StoreNext ==
    ASSUME TopicsTypeOK, TopicsInv, NEW r \in Readers, Store(r)
    PROVE  TopicsTypeOK' /\ TopicsInv'
<1>0. /\ MintInv /\ StampInv /\ WriterInv /\ AnswerInv
      /\ gen \in Stamps /\ minted \in Stamps /\ answers \subseteq StoredAnswer
      /\ reader \in [Readers -> Reader]
      /\ queries \in 0..MaxQueries /\ lost \in 0..MaxLost
  BY TopicFacts DEF TopicsInv
<1>1. PICK q \in Queries, s \in Stamps, a \in Values :
          q = reader[r].query /\ s = reader[r].stamp /\ a = reader[r].answer
  BY <1>0 DEF Reader, Values
<1> DEFINE x == [query |-> q, stamp |-> s, answer |-> a]
<1>2. /\ reader[r].step = "store" /\ reader' = [reader EXCEPT ![r] = IdleReader]
      /\ answers' = {e \in answers : ~(e.query = q /\ e.stamp = s)} \cup {x}
      /\ ReaderUnchanged /\ UNCHANGED <<gen, minted, queries, lost>>
  BY <1>1 DEF Store
<1>3. x \in StoredAnswer /\ x.query = q /\ x.stamp = s /\ x.answer = a
  BY DEF StoredAnswer
<1> HIDE DEF x
<1>4. \A e \in answers' : e \in answers \/ e = x
  BY <1>2
<1>5. answers' \subseteq StoredAnswer
  BY <1>0, <1>3, <1>4
<1>6. /\ TopicsTypeOK'
      /\ reader'[r] = IdleReader /\ \A d \in Readers : d # r => reader'[d] = reader[d]
  BY <1>0, <1>2, <1>5, IdleFacts, ReaderType
<1>7. MintInv'
  <2>1. \A t \in TopicSet : \A e \in answers' : e.stamp[t] <= minted[t]
    BY <1>0, <1>1, <1>3, <1>4 DEF MintInv
  <2>2. \A t \in TopicSet : \A d \in Readers : reader'[d].stamp[t] <= minted[t]
    <3>1. \A t \in TopicSet : NoStamp[t] <= minted[t]
      <4>1. \A t \in TopicSet : minted[t] \in Nat /\ NoStamp[t] = 0
        BY <1>0, StampFacts
      <4> QED
        BY <4>1
    <3> QED
      BY <1>0, <1>6, <3>1, IdleFacts DEF MintInv
  <2>3. \A d \in Readers : reader'[d].step # "mint" => reader'[d].fresh = {}
    BY <1>0, <1>6, IdleFacts DEF MintInv
  <2>4. ASSUME NEW d \in Readers, NEW t \in reader'[d].fresh
        PROVE  /\ reader'[d].stamp[t] # gen[t] /\ reader'[d].stamp[t] # 0
               /\ \A e \in answers' : e.stamp[t] # reader'[d].stamp[t]
               /\ \A u \in Readers : u # d => reader'[u].stamp[t] # reader'[d].stamp[t]
    <3>1. d # r /\ reader'[d] = reader[d] /\ t \in reader[d].fresh
      BY <1>6, <2>4, IdleFacts
    <3>2. t \in TopicSet
      BY <1>0, <3>1 DEF Reader
    <3>3. /\ reader[d].stamp[t] # gen[t] /\ reader[d].stamp[t] # 0
          /\ \A e \in answers : e.stamp[t] # reader[d].stamp[t]
          /\ \A u \in Readers : u # d => reader[u].stamp[t] # reader[d].stamp[t]
      BY <1>0, <3>1 DEF MintInv
    <3>4. \A e \in answers' : e.stamp[t] # reader[d].stamp[t]
      BY <1>1, <1>3, <1>4, <3>1, <3>3
    <3>5. IdleReader.stamp[t] = 0
      BY <3>2, IdleFacts, StampFacts
    <3>6. \A u \in Readers : u # d => reader'[u].stamp[t] # reader[d].stamp[t]
      BY <1>6, <3>3, <3>5
    <3> QED
      BY <3>1, <3>3, <3>4, <3>6
  <2>5. UNCHANGED <<gen, minted>>
    BY <1>2
  <2> QED
    BY <1>0, <2>1, <2>2, <2>3, <2>4, <2>5 DEF MintInv
<1>8. StampInv'
  <2>1. \A e \in answers' : \A t \in DependsOn(e.query) : e.stamp[t] # 0
    BY <1>0, <1>1, <1>2, <1>3, <1>4 DEF StampInv
  <2>2. \A d \in Readers : reader'[d].step \in {"mint", "lookup", "query", "store"} =>
            \A t \in DependsOn(reader'[d].query) : reader'[d].stamp[t] # 0
    BY <1>0, <1>6, IdleFacts DEF StampInv
  <2> QED
    BY <2>1, <2>2 DEF StampInv, DependsOn
<1>9. AnswerInv'
  <2>1. /\ \A e \in answers : Excused(e.query, e.stamp, e.answer)'
        /\ \A d \in Readers : reader'[d] = reader[d] /\ reader'[d].step = "store" =>
               Excused(reader[d].query, reader[d].stamp, reader[d].answer)'
    BY <1>0, <1>2, AnswersKept, ReaderExcuses
  <2>2. Excused(q, s, a)
    BY <1>0, <1>1, <1>2 DEF AnswerInv
  <2>3. Excused(q, s, a)'
    BY <1>2, <2>2, ReaderExcuses
  <2>4. Excused(x.query, x.stamp, x.answer)'
    BY <1>3, <2>3
  <2>5. \A e \in answers' : Excused(e.query, e.stamp, e.answer)'
    BY <1>4, <2>1, <2>4
  <2>6. \A d \in Readers : reader'[d].step = "store" =>
            Excused(reader[d].query, reader[d].stamp, reader[d].answer)'
    BY <1>6, <2>1, IdleFacts
  <2> QED
    BY <2>5, <2>6 DEF AnswerInv
<1> QED
  BY <1>0, <1>2, <1>6, <1>7, <1>8, <1>9, ReaderFrame DEF TopicsInv

\* Generations that only go leave stamps and numbers as they were.
LEMMA GenDrops ==
    ASSUME TopicsTypeOK, MintInv, StampInv, \A t \in TopicSet : gen'[t] = gen[t] \/ gen'[t] = 0,
           UNCHANGED <<minted, answers, reader>>
    PROVE  MintInv' /\ StampInv'
<1>0. gen \in Stamps /\ minted \in Stamps /\ reader \in [Readers -> Reader]
  BY TopicFacts
<1>1. \A t \in TopicSet : minted[t] \in Nat /\ gen'[t] <= minted[t]
  <2>1. \A t \in TopicSet : minted[t] \in Nat /\ gen[t] <= minted[t]
    BY <1>0, StampFacts DEF MintInv
  <2> QED
    BY <2>1
<1>2. \A r \in Readers : reader[r].fresh \subseteq TopicSet
  BY <1>0 DEF Reader
<1>3. \A r \in Readers : \A t \in reader[r].fresh : reader[r].stamp[t] # gen'[t]
  BY <1>2 DEF MintInv
<1>4. MintInv'
  BY <1>1, <1>3 DEF MintInv
<1> QED
  BY <1>4 DEF StampInv, DependsOn

\* The types after a writer's step to x.
LEMMA WriterType ==
    ASSUME TopicsTypeOK, NEW w \in Writers, NEW x \in Writer, writer' = [writer EXCEPT ![w] = x],
           WriterUnchanged, row' \in Values, gen' \in Stamps, writes' \in 0..MaxWrites,
           lost' \in 0..MaxLost, unheard' \in BOOLEAN, suspect' \subseteq TopicSet \X (1..MaxGen)
    PROVE  /\ TopicsTypeOK'
           /\ writer'[w] = x /\ \A v \in Writers : v # w => writer'[v] = writer[v]
<1>1. /\ writer' \in [Writers -> Writer]
      /\ writer'[w] = x /\ \A v \in Writers : v # w => writer'[v] = writer[v]
  BY TopicFacts
<1> QED
  BY <1>1 DEF TopicsTypeOK, WriterUnchanged, Values

\* The writers after w went on to x, which is the end of its write or the open
\* transaction of the same write.
LEMMA WriterLeaves ==
    ASSUME TopicsTypeOK, WriterInv, NEW w \in Writers, NEW x \in Writer,
           writer'[w] = x /\ \A v \in Writers : v # w => writer'[v] = writer[v],
           \/ x.step = "idle" /\ x.topics = {}
           \/ /\ x.step = "open" /\ x.tx = TRUE /\ x.row = writer[w].row /\ x.topics = writer[w].topics
              /\ writer[w].tx /\ writer[w].step # "idle" /\ row' = row,
           row' = row \/ (writer[w].tx /\ writer[w].step # "idle")
    PROVE  WriterInv'
<1>1. \A v \in Writers : writer'[v].tx /\ writer'[v].step # "idle" =>
          /\ writer[v].tx /\ writer[v].step # "idle"
          /\ writer'[v].row = writer[v].row /\ writer'[v].topics = writer[v].topics
          /\ v = w => row' = row
  OBVIOUS
<1>2. \A v \in Writers : writer'[v].tx /\ writer'[v].step # "idle" => row' = row
  BY <1>1 DEF WriterInv
<1>3. \A v, u \in Writers : /\ writer'[v].tx /\ writer'[v].step # "idle"
                            /\ writer'[u].tx /\ writer'[u].step # "idle"
                            => v = u
  BY <1>1 DEF WriterInv
<1>4. \A v \in Writers : writer'[v].tx /\ writer'[v].step # "idle" =>
          /\ writer'[v].topics = Touches(row', writer'[v].row)
          /\ row' # NoRow \/ writer'[v].row # NoRow
  BY <1>1, <1>2 DEF WriterInv
<1>5. \A v \in Writers : writer'[v].step = "open" => writer'[v].tx
  BY DEF WriterInv
<1>6. \A v \in Writers : writer'[v].topics \subseteq TopicSet
  BY DEF WriterInv
<1> QED
  BY <1>3, <1>4, <1>5, <1>6 DEF WriterInv, Touches

\* A write: alone with the row, and committed at once unless it is in a transaction.
LEMMA WriteNext ==
    ASSUME TopicsTypeOK, TopicsInv, NEW w \in Writers, NEW new \in Values, NEW tx \in BOOLEAN,
           Write(w, new, tx)
    PROVE  TopicsTypeOK' /\ TopicsInv'
<1> DEFINE x == [step |-> "invalidate", tx |-> tx, row |-> new, topics |-> Touches(row, new)]
<1>0. /\ MintInv /\ StampInv /\ WriterInv /\ AnswerInv
      /\ row \in Values /\ gen \in Stamps /\ writer \in [Writers -> Writer]
      /\ writes \in 0..MaxWrites /\ MaxWrites \in Nat
      /\ lost \in 0..MaxLost /\ unheard \in BOOLEAN /\ suspect \subseteq TopicSet \X (1..MaxGen)
  BY TopicFacts, TopicNumbers DEF TopicsInv
<1>1. /\ writer[w].step = "idle" /\ writes < MaxWrites /\ RowUnlocked
      /\ row # NoRow \/ new # NoRow
      /\ writes' = writes + 1 /\ writer' = [writer EXCEPT ![w] = x]
      /\ row' = (IF tx THEN row ELSE new)
      /\ WriterUnchanged /\ UNCHANGED <<gen, lost, unheard, suspect>>
  BY DEF Write
<1>2. Touches(row, new) \subseteq TopicSet
  BY <1>0, <1>1, TouchesFacts
<1>3. x \in Writer /\ x.step = "invalidate" /\ x.tx = tx /\ x.row = new
      /\ x.topics = Touches(row, new)
  BY <1>2 DEF Writer, Values
<1> HIDE DEF x
<1>4. writes' \in 0..MaxWrites /\ row' \in Values /\ (tx => row' = row) /\ (~tx => row' = new)
  BY <1>0, <1>1
<1>5. /\ TopicsTypeOK'
      /\ writer'[w] = x /\ \A v \in Writers : v # w => writer'[v] = writer[v]
  BY <1>0, <1>1, <1>3, <1>4, WriterType
<1>6. MintInv' /\ StampInv'
  BY <1>0, <1>1, GenDrops DEF WriterUnchanged
<1>7. WriterInv'
  <2>1. \A v \in Writers : v # w => ~(writer'[v].tx /\ writer'[v].step # "idle")
    BY <1>1, <1>5 DEF RowUnlocked
  <2>2. \A v, u \in Writers : /\ writer'[v].tx /\ writer'[v].step # "idle"
                              /\ writer'[u].tx /\ writer'[u].step # "idle"
                              => v = u
    BY <2>1
  <2>3. writer'[w].tx => /\ row' = row /\ writer'[w].topics = Touches(row', writer'[w].row)
                         /\ row' # NoRow \/ writer'[w].row # NoRow
    BY <1>1, <1>3, <1>4, <1>5
  <2>4. \A v \in Writers : writer'[v].tx /\ writer'[v].step # "idle" =>
            /\ writer'[v].topics = Touches(row', writer'[v].row)
            /\ row' # NoRow \/ writer'[v].row # NoRow
    BY <2>1, <2>3
  <2>5. \A v \in Writers : writer'[v].step = "open" => writer'[v].tx
    BY <1>0, <1>3, <1>5 DEF WriterInv
  <2>6. \A v \in Writers : writer'[v].topics \subseteq TopicSet
    BY <1>0, <1>2, <1>3, <1>5 DEF WriterInv
  <2> QED
    BY <2>2, <2>4, <2>5, <2>6 DEF WriterInv, Touches
<1>8. AnswerInv'
  <2>0. UNCHANGED <<answers, reader, gen, unheard, suspect>>
    BY <1>1 DEF WriterUnchanged
  <2>1. ASSUME NEW q \in Queries, NEW s \in Stamps, NEW a \in Values, Excused(q, s, a)
        PROVE  Excused(q, s, a)'
    <3>1. CASE a = Answer(q)
      <4>1. CASE AnswerOf(q, row) = AnswerOf(q, row')
        <5>1. Answer(q)' = AnswerOf(q, row') /\ Answer(q) = AnswerOf(q, row)
          BY DEF Answer, AnswerOf
        <5>2. a = Answer(q)'
          BY <3>1, <4>1, <5>1
        <5> QED
          BY <5>2 DEF Excused
      <4>2. CASE AnswerOf(q, row) # AnswerOf(q, row')
        <5>1. ~tx /\ row' = new
          BY <1>4, <4>2
        <5>2. x.topics \cap DependsOn(q) # {}
          BY <1>0, <1>1, <1>3, <4>2, <5>1, TouchesFacts
        <5>3. /\ writer'[w].step = "invalidate" /\ ~writer'[w].tx
              /\ writer'[w].topics \cap DependsOn(q) # {}
          BY <1>3, <1>5, <5>1, <5>2
        <5> QED
          BY <5>3 DEF Excused
      <4> QED
        BY <4>1, <4>2
    <3>2. CASE unheard \/ \E t \in DependsOn(q) : s[t] # gen[t]
      BY <2>0, <3>2 DEF Excused
    <3>3. CASE \E t \in DependsOn(q) : <<t, s[t]>> \in suspect
      BY <2>0, <3>3 DEF Excused
    <3>4. CASE \E v \in Writers : /\ writer[v].step = "invalidate" /\ ~writer[v].tx
                                  /\ writer[v].topics \cap DependsOn(q) # {}
      <4>1. PICK v \in Writers : /\ writer[v].step = "invalidate" /\ ~writer[v].tx
                                 /\ writer[v].topics \cap DependsOn(q) # {}
        BY <3>4
      <4>2. v # w /\ writer'[v] = writer[v]
        BY <1>1, <1>5, <4>1
      <4> QED
        BY <4>1, <4>2 DEF Excused
    <3> QED
      BY <2>1, <3>1, <3>2, <3>3, <3>4 DEF Excused
  <2>2. /\ \A e \in answers : Excused(e.query, e.stamp, e.answer)'
        /\ \A d \in Readers : reader'[d] = reader[d] /\ reader'[d].step = "store" =>
               Excused(reader[d].query, reader[d].stamp, reader[d].answer)'
    BY <1>0, <2>1, AnswersKept
  <2> QED
    BY <2>0, <2>2 DEF AnswerInv
<1> QED
  BY <1>5, <1>6, <1>7, <1>8 DEF TopicsInv

\* What follows from keeping the excuses when readers and answers stay.
LEMMA ExcusesKept ==
    ASSUME TopicsTypeOK, StampInv, AnswerInv, UNCHANGED <<answers, reader>>,
           \A q \in Queries, s \in Stamps, a \in Values :
              Stamped(q, s) /\ Excused(q, s, a) => Excused(q, s, a)'
    PROVE  AnswerInv'
<1>1. /\ \A e \in answers : Excused(e.query, e.stamp, e.answer)'
      /\ \A d \in Readers : reader'[d] = reader[d] /\ reader'[d].step = "store" =>
             Excused(reader[d].query, reader[d].stamp, reader[d].answer)'
  BY AnswersKept
<1> QED
  BY <1>1 DEF AnswerInv

\* A writer's record once it has invalidated.
LEMMA AfterInvalidateFacts ==
    ASSUME TopicsTypeOK, NEW w \in Writers, AfterInvalidate(w), writer[w].step = "invalidate"
    PROVE  \E x \in Writer :
              /\ writer' = [writer EXCEPT ![w] = x] /\ x.step # "invalidate"
              /\ \/ x.step = "idle" /\ x.topics = {}
                 \/ /\ x.step = "open" /\ x.tx = TRUE /\ x.row = writer[w].row
                    /\ x.topics = writer[w].topics /\ writer[w].tx
<1> DEFINE y == [writer[w] EXCEPT !.step = "open"]
<1>0. writer \in [Writers -> Writer] /\ writer[w].tx \in BOOLEAN
  BY TopicFacts DEF Writer
<1>1. y \in Writer /\ y.step = "open" /\ y.tx = writer[w].tx /\ y.row = writer[w].row
      /\ y.topics = writer[w].topics
  BY <1>0 DEF Writer
<1> HIDE DEF y
<1>2. CASE writer[w].tx = TRUE
  <2>1. writer' = [writer EXCEPT ![w] = y]
    BY <1>2 DEF AfterInvalidate, y
  <2> QED
    BY <1>1, <1>2, <2>1
<1>3. CASE writer[w].tx = FALSE
  <2>1. writer' = [writer EXCEPT ![w] = IdleWriter]
    BY <1>3 DEF AfterInvalidate
  <2> QED
    BY <2>1, IdleFacts
<1> QED
  BY <1>0, <1>2, <1>3

\* An invalidation: what the write made wrong is no longer found.
LEMMA InvalidateNext ==
    ASSUME TopicsTypeOK, TopicsInv, NEW w \in Writers, Invalidate(w) \/ InvalidateFails(w)
    PROVE  TopicsTypeOK' /\ TopicsInv'
<1>0. /\ MintInv /\ StampInv /\ WriterInv /\ AnswerInv
      /\ row \in Values /\ gen \in Stamps /\ writer \in [Writers -> Writer]
      /\ writes \in 0..MaxWrites /\ MaxLost \in Nat
      /\ lost \in 0..MaxLost /\ unheard \in BOOLEAN /\ suspect \subseteq TopicSet \X (1..MaxGen)
  BY TopicFacts, TopicNumbers DEF TopicsInv
<1>1. /\ writer[w].step = "invalidate" /\ AfterInvalidate(w)
      /\ WriterUnchanged /\ UNCHANGED <<answers, reader, minted, row, writes, suspect>>
  BY DEF Invalidate, InvalidateFails, WriterUnchanged
<1>2. PICK x \in Writer :
         /\ writer' = [writer EXCEPT ![w] = x] /\ x.step # "invalidate"
         /\ \/ x.step = "idle" /\ x.topics = {}
            \/ /\ x.step = "open" /\ x.tx = TRUE /\ x.row = writer[w].row
               /\ x.topics = writer[w].topics /\ writer[w].tx
  BY <1>1, AfterInvalidateFacts
<1>3. /\ gen' \in Stamps /\ lost' \in 0..MaxLost /\ unheard' \in BOOLEAN /\ (unheard => unheard')
      /\ \A t \in TopicSet : gen'[t] = gen[t] \/ gen'[t] = 0
      /\ unheard' \/ \A t \in TopicSet : t \in writer[w].topics => gen'[t] = 0
  <2>1. CASE Invalidate(w)
    <3>1. /\ gen' = [t \in TopicSet |-> IF t \in writer[w].topics THEN 0 ELSE gen[t]]
          /\ UNCHANGED <<lost, unheard>>
      BY <2>1 DEF Invalidate
    <3>2. \A t \in TopicSet : /\ gen'[t] = gen[t] \/ gen'[t] = 0
                              /\ t \in writer[w].topics => gen'[t] = 0
      BY <3>1
    <3>3. gen' \in Stamps
      <4>1. \A t \in TopicSet : gen'[t] \in 0..MaxGen
        BY <1>0, <3>2, StampFacts, TopicNumbers
      <4>2. gen' = [t \in TopicSet |-> gen'[t]]
        BY <3>1
      <4> QED
        BY <4>1, <4>2 DEF Stamps
    <3> QED
      BY <1>0, <3>1, <3>2, <3>3
  <2>2. CASE InvalidateFails(w)
    <3>1. gen' = gen /\ unheard' = TRUE /\ Lose
      BY <2>2 DEF InvalidateFails
    <3>2. lost' \in 0..MaxLost
      BY <1>0, <3>1 DEF Lose
    <3> QED
      BY <1>0, <3>1, <3>2
  <2> QED
    BY <2>1, <2>2
<1>4. /\ TopicsTypeOK'
      /\ writer'[w] = x /\ \A v \in Writers : v # w => writer'[v] = writer[v]
  BY <1>0, <1>1, <1>2, <1>3, WriterType
<1>5. MintInv' /\ StampInv'
  BY <1>0, <1>1, <1>3, GenDrops
<1>6. WriterInv'
  BY <1>0, <1>1, <1>2, <1>4, WriterLeaves
<1>7. AnswerInv'
  <2>1. ASSUME NEW q \in Queries, NEW s \in Stamps, NEW a \in Values, Stamped(q, s),
               Excused(q, s, a)
        PROVE  Excused(q, s, a)'
    <3>0. DependsOn(q) \subseteq TopicSet
      BY TopicsOfQuery
    <3>1. CASE a = Answer(q) \/ unheard \/ \E t \in DependsOn(q) : <<t, s[t]>> \in suspect
      BY <1>1, <1>3, <3>1 DEF Excused, Answer
    <3>2. CASE \E t \in DependsOn(q) : s[t] # gen[t]
      BY <1>3, <2>1, <3>0, <3>2 DEF Excused, Stamped
    <3>3. CASE \E v \in Writers : /\ writer[v].step = "invalidate" /\ ~writer[v].tx
                                  /\ writer[v].topics \cap DependsOn(q) # {}
      <4>1. PICK v \in Writers : /\ writer[v].step = "invalidate" /\ ~writer[v].tx
                                 /\ writer[v].topics \cap DependsOn(q) # {}
        BY <3>3
      <4>2. CASE v # w
        <5>1. writer'[v] = writer[v]
          BY <1>4, <4>2
        <5> QED
          BY <4>1, <5>1 DEF Excused
      <4>3. CASE v = w
        <5>1. PICK t \in DependsOn(q) : t \in writer[w].topics
          BY <4>1, <4>3
        <5>2. unheard' \/ gen'[t] = 0
          BY <1>3, <3>0, <5>1
        <5>3. s[t] # 0
          BY <2>1, <5>1 DEF Stamped
        <5> QED
          BY <5>1, <5>2, <5>3 DEF Excused
      <4> QED
        BY <4>2, <4>3
    <3> QED
      BY <2>1, <3>1, <3>2, <3>3 DEF Excused
  <2> QED
    BY <1>0, <1>1, <2>1, ExcusesKept
<1> QED
  BY <1>4, <1>5, <1>6, <1>7 DEF TopicsInv

\* The end of a transaction: what a commit makes wrong was stamped before it, and
\* is suspect if it can still be found.
LEMMA EndNext ==
    ASSUME TopicsTypeOK, TopicsInv, NEW w \in Writers, Commit(w) \/ Rollback(w)
    PROVE  TopicsTypeOK' /\ TopicsInv'
<1>0. /\ MintInv /\ StampInv /\ WriterInv /\ AnswerInv
      /\ row \in Values /\ gen \in Stamps /\ writer \in [Writers -> Writer]
      /\ writer[w].row \in Values /\ writes \in 0..MaxWrites
      /\ lost \in 0..MaxLost /\ unheard \in BOOLEAN /\ suspect \subseteq TopicSet \X (1..MaxGen)
  BY TopicFacts DEF TopicsInv, Writer, Values
<1>1. /\ writer[w].step # "idle" /\ writer[w].tx /\ writer' = [writer EXCEPT ![w] = IdleWriter]
      /\ WriterUnchanged /\ UNCHANGED <<answers, reader, minted, gen, writes, lost, unheard>>
  BY <1>0 DEF Commit, Rollback, WriterUnchanged, WriterInv
<1>2. /\ writer[w].topics = Touches(row, writer[w].row) /\ writer[w].topics \subseteq TopicSet
      /\ row # NoRow \/ writer[w].row # NoRow
  BY <1>0, <1>1 DEF WriterInv
<1>3. \/ row' = row /\ suspect' = suspect
      \/ /\ row' = writer[w].row
         /\ suspect' = suspect \cup {<<t, gen[t]>> : t \in {u \in writer[w].topics : gen[u] # 0}}
  BY DEF Commit, Rollback
<1>4. suspect' \subseteq TopicSet \X (1..MaxGen) /\ suspect \subseteq suspect'
  <2>1. \A t \in TopicSet : gen[t] # 0 => gen[t] \in 1..MaxGen
    <3>1. \A t \in TopicSet : gen[t] \in 0..MaxGen /\ MaxGen \in Nat
      BY <1>0, StampFacts, TopicNumbers
    <3> QED
      BY <3>1
  <2>2. {<<t, gen[t]>> : t \in {u \in writer[w].topics : gen[u] # 0}}
            \subseteq TopicSet \X (1..MaxGen)
    BY <1>2, <2>1
  <2> QED
    BY <1>0, <1>3, <2>2
<1>5. /\ TopicsTypeOK'
      /\ writer'[w] = IdleWriter /\ \A v \in Writers : v # w => writer'[v] = writer[v]
  BY <1>0, <1>1, <1>3, <1>4, IdleFacts, WriterType
<1>6. MintInv' /\ StampInv'
  BY <1>0, <1>1, GenDrops
<1>7. WriterInv'
  BY <1>0, <1>1, <1>5, IdleFacts, WriterLeaves
<1>8. AnswerInv'
  <2>1. ASSUME NEW q \in Queries, NEW s \in Stamps, NEW a \in Values, Stamped(q, s),
               Excused(q, s, a)
        PROVE  Excused(q, s, a)'
    <3>1. CASE a = Answer(q)
      <4>0. Answer(q)' = AnswerOf(q, row') /\ Answer(q) = AnswerOf(q, row)
        BY DEF Answer, AnswerOf
      <4>1. CASE AnswerOf(q, row) = AnswerOf(q, row')
        <5>1. a = Answer(q)'
          BY <3>1, <4>0, <4>1
        <5> QED
          BY <5>1 DEF Excused
      <4>2. CASE AnswerOf(q, row) # AnswerOf(q, row')
        <5>1. /\ row' = writer[w].row
              /\ suspect' = suspect \cup {<<t, gen[t]>> : t \in {u \in writer[w].topics : gen[u] # 0}}
          BY <1>3, <4>2
        <5>2. PICK t \in DependsOn(q) : t \in writer[w].topics
          BY <1>0, <1>2, <4>2, <5>1, TouchesFacts
        <5>3. CASE s[t] # gen[t]
          BY <1>1, <5>2, <5>3 DEF Excused
        <5>4. CASE s[t] = gen[t]
          <6>1. gen[t] # 0
            BY <2>1, <5>2, <5>4 DEF Stamped
          <6>2. <<t, s[t]>> \in suspect'
            BY <5>1, <5>2, <5>4, <6>1
          <6> QED
            BY <5>2, <6>2 DEF Excused
        <5> QED
          BY <5>3, <5>4
      <4> QED
        BY <4>1, <4>2
    <3>2. CASE unheard \/ \E t \in DependsOn(q) : s[t] # gen[t]
      BY <1>1, <3>2 DEF Excused
    <3>3. CASE \E t \in DependsOn(q) : <<t, s[t]>> \in suspect
      BY <1>4, <3>3 DEF Excused
    <3>4. CASE \E v \in Writers : /\ writer[v].step = "invalidate" /\ ~writer[v].tx
                                  /\ writer[v].topics \cap DependsOn(q) # {}
      <4>1. PICK v \in Writers : /\ writer[v].step = "invalidate" /\ ~writer[v].tx
                                 /\ writer[v].topics \cap DependsOn(q) # {}
        BY <3>4
      <4>2. v # w /\ writer'[v] = writer[v]
        BY <1>1, <1>5, <4>1
      <4> QED
        BY <4>1, <4>2 DEF Excused
    <3> QED
      BY <2>1, <3>1, <3>2, <3>3, <3>4 DEF Excused
  <2> QED
    BY <1>0, <1>1, <2>1, ExcusesKept
<1> QED
  BY <1>5, <1>6, <1>7, <1>8 DEF TopicsInv

\* A generation that goes takes the answers stamped with it out of reach.
LEMMA ExpireNext ==
    ASSUME TopicsTypeOK, TopicsInv, NEW u \in TopicSet, Expire(u)
    PROVE  TopicsTypeOK' /\ TopicsInv'
<1>0. /\ MintInv /\ StampInv /\ WriterInv /\ AnswerInv /\ gen \in Stamps
      /\ lost \in 0..MaxLost /\ MaxLost \in Nat /\ MaxGen \in Nat
  BY TopicFacts, TopicNumbers DEF TopicsInv
<1>1. /\ gen' = [gen EXCEPT ![u] = 0] /\ lost' \in 0..MaxLost
      /\ UNCHANGED <<row, minted, answers, reader, writer, queries, writes, unheard, suspect>>
  BY <1>0 DEF Expire, Lose
<1>2. gen' \in Stamps /\ \A t \in TopicSet : gen'[t] = gen[t] \/ gen'[t] = 0
  BY <1>0, <1>1 DEF Stamps
<1>3. TopicsTypeOK'
  BY <1>1, <1>2 DEF TopicsTypeOK
<1>4. MintInv' /\ StampInv'
  BY <1>0, <1>1, <1>2, GenDrops
<1>5. WriterInv'
  BY <1>0, <1>1 DEF WriterInv, Touches
<1>6. AnswerInv'
  <2>1. ASSUME NEW q \in Queries, NEW s \in Stamps, NEW a \in Values, Stamped(q, s),
               Excused(q, s, a)
        PROVE  Excused(q, s, a)'
    <3>1. DependsOn(q) \subseteq TopicSet
      BY TopicsOfQuery
    <3>2. \A t \in DependsOn(q) : s[t] # gen[t] => s[t] # gen'[t]
      BY <1>2, <2>1, <3>1 DEF Stamped
    <3> QED
      BY <1>1, <2>1, <3>2 DEF Excused, Answer
  <2> QED
    BY <1>0, <1>1, <2>1, ExcusesKept
<1> QED
  BY <1>3, <1>4, <1>5, <1>6 DEF TopicsInv

\* The inductive invariant holds at the start, and every step keeps it.
LEMMA TopicsInitInv == TopicsInit => TopicsTypeOK /\ TopicsInv
<1> SUFFICES ASSUME TopicsInit PROVE TopicsTypeOK /\ TopicsInv
  OBVIOUS
<1>1. /\ row \in Columns \cup {NoRow} /\ gen = NoStamp /\ minted = NoStamp /\ answers = {}
      /\ reader = [r \in Readers |-> IdleReader] /\ writer = [w \in Writers |-> IdleWriter]
      /\ queries = 0 /\ writes = 0 /\ lost = 0 /\ unheard = FALSE /\ suspect = {}
  BY DEF TopicsInit
<1>2. 0 \in 0..MaxQueries /\ 0 \in 0..MaxWrites /\ 0 \in 0..MaxLost
  BY TopicNumbers
<1>3. /\ reader \in [Readers -> Reader] /\ \A r \in Readers : reader[r] = IdleReader
      /\ writer \in [Writers -> Writer] /\ \A w \in Writers : writer[w] = IdleWriter
  BY <1>1, IdleFacts
<1>4. TopicsTypeOK
  BY <1>1, <1>2, <1>3, StampFacts DEF TopicsTypeOK
<1>5. MintInv
  <2>1. \A t \in TopicSet : NoStamp[t] <= NoStamp[t]
    <3>1. \A t \in TopicSet : NoStamp[t] = 0
      BY StampFacts
    <3> QED
      BY <3>1
  <2> QED
    BY <1>1, <1>3, <2>1, IdleFacts DEF MintInv
<1>6. StampInv
  BY <1>1, <1>3, IdleFacts DEF StampInv
<1>7. WriterInv
  BY <1>3, IdleFacts DEF WriterInv
<1>8. AnswerInv
  BY <1>1, <1>3, IdleFacts DEF AnswerInv
<1> QED
  BY <1>4, <1>5, <1>6, <1>7, <1>8 DEF TopicsInv

LEMMA TopicsStepInv == TopicsTypeOK /\ TopicsInv /\ [TopicsNext]_topicVars => TopicsTypeOK' /\ TopicsInv'
<1> SUFFICES ASSUME TopicsTypeOK, TopicsInv, [TopicsNext]_topicVars
             PROVE  TopicsTypeOK' /\ TopicsInv'
  OBVIOUS
<1>1. CASE UNCHANGED topicVars
  <2>1. UNCHANGED <<row, gen, minted, answers, reader, writer, queries, writes, lost, unheard,
                    suspect>>
    BY <1>1 DEF topicVars
  <2>2. TopicsTypeOK'
    BY <2>1 DEF TopicsTypeOK
  <2>3. MintInv' /\ StampInv' /\ WriterInv'
    BY <2>1 DEF TopicsInv, MintInv, StampInv, WriterInv, Touches, DependsOn
  <2>4. AnswerInv'
    BY <2>1 DEF TopicsInv, AnswerInv, Excused, Answer
  <2> QED
    BY <2>2, <2>3, <2>4 DEF TopicsInv
<1>2. ASSUME NEW w \in Writers, NEW new \in Columns \cup {NoRow}, NEW tx \in BOOLEAN,
             Write(w, new, tx)
      PROVE  TopicsTypeOK' /\ TopicsInv'
  BY <1>2, WriteNext DEF Values
<1>3. CASE TopicsNext
  BY <1>2, <1>3, QuietReaderNext, ReadGenerationsNext, MintNext, StoreNext, InvalidateNext,
     EndNext, ExpireNext, Zenon DEF TopicsNext
<1> QED
  BY <1>1, <1>3

\* The types and the four parts of the invariant hold in every state.
THEOREM TopicsInvCorrect == TopicsSpec => [](TopicsTypeOK /\ TopicsInv)
BY TopicsInitInv, TopicsStepInv, PTL DEF TopicsSpec

\* No answer that can still be found is wrong once its write has invalidated: the key
\* carries the generations read before the query, and a write takes them away.
THEOREM NoStaleAnswerCorrect == TopicsSpec => []NoStaleAnswer
<1>1. TopicsTypeOK /\ TopicsInv => NoStaleAnswer
  <2> SUFFICES ASSUME TopicsTypeOK, TopicsInv, NEW e \in answers, Reachable(e),
                      e.answer # Answer(e.query)
               PROVE  \/ \E w \in Writers : writer[w].step = "invalidate" /\ ~writer[w].tx
                      \/ unheard
                      \/ \E t \in DependsOn(e.query) : <<t, e.stamp[t]>> \in suspect
    BY DEF NoStaleAnswer
  <2>1. Excused(e.query, e.stamp, e.answer)
    BY DEF TopicsInv, AnswerInv
  <2> QED
    BY <2>1 DEF Excused, Reachable
<1> QED
  BY <1>1, TopicsInvCorrect, PTL

-------------------------------------------------------------------------------
\* Both single-flight groups turn a herd of misses into one load and let everybody
\* go, at whatever pace the callers of the two caches run.
THEOREM HerdsCorrect == TieredSpec /\ EntitySpec => []HerdsCollapse
<1>1. SingleFlight /\ GroupSound => HerdsCollapse
  BY DEF HerdsCollapse
<1> QED
  BY <1>1, SingleFlightCorrect, GroupSoundCorrect, PTL

-------------------------------------------------------------------------------
(***************************************************************************)
(* The in-process cache.                                                   *)
(***************************************************************************)

\* A nonempty set of naturals has a least element.
LEMMA LeastNatural ==
    ASSUME NEW T, T \subseteq Nat, T # {}
    PROVE  \E m \in T : \A n \in T : m <= n
<1> DEFINE R == OpToRel(<, Nat)
<1>1. IsWellFoundedOn(R, Nat)
  BY NatLessThanWellFounded, Zenon
<1>2. \A x, y \in Nat : x < y => <<x, y>> \in R
  BY Zenon DEF OpToRel
<1> HIDE DEF R
<1>3. PICK m \in T : \A n \in T : ~(<<n, m>> \in R)
  BY <1>1, WFMin, Zenon
<1>4. \A n \in T : ~(n < m)
  BY <1>2, <1>3, Zenon
<1>5. \A n \in T : m <= n
  BY <1>4
<1> QED
  BY <1>5

\* The equation that removeFromOrder's recursion satisfies.
LEMMA KeptEquation ==
    ASSUME NEW s \in Seq(CacheKeys), NEW ks
    PROVE  \E kept : /\ removeFromOrder(s, ks) = kept[Len(s)] /\ kept[0] = <<>>
                     /\ \A i \in 1..Len(s) :
                           kept[i] = IF s[i] \in ks THEN kept[i - 1] ELSE Append(kept[i - 1], s[i])
<1> DEFINE Body(g, i) == IF i = 0 THEN <<>>
                         ELSE IF s[i] \in ks THEN g[i - 1] ELSE Append(g[i - 1], s[i])
           Solves(g, n) == \A i \in 0..Len(s) : i <= n => g[i] = Body(g, i)
           T == {n \in Nat : ~\E g : Solves(g, n)}
<1>1. Len(s) \in Nat
  BY LenProperties
<1>2. T = {}
  <2> SUFFICES ASSUME T # {} PROVE FALSE
    OBVIOUS
  <2>1. T \subseteq Nat
    OBVIOUS
  <2>2. PICK n \in T : \A k \in T : n <= k
    <3> HIDE DEF T
    <3> QED
      BY <2>1, LeastNatural
  <2>3. n # 0
    <3> SUFFICES ASSUME n = 0 PROVE FALSE
      OBVIOUS
    <3>1. Solves([i \in 0..Len(s) |-> <<>>], 0)
      BY <1>1
    <3> QED
      BY <3>1
  <2>4. n \in Nat /\ n - 1 \in Nat /\ n - 1 \notin T
    <3>1. n \in Nat
      BY <2>1, <2>2
    <3>2. n - 1 \in Nat /\ ~(n <= n - 1)
      BY <2>3, <3>1
    <3> HIDE DEF T
    <3> QED
      BY <2>2, <3>1, <3>2
  <2>5. PICK g : Solves(g, n - 1)
    BY <2>4
  <2> DEFINE h == [i \in 0..Len(s) |-> Body(g, i)]
  <2>6. ASSUME NEW i \in 0..Len(s), i <= n PROVE h[i] = Body(h, i)
    <3>1. CASE i = 0
      BY <1>1, <3>1
    <3>2. CASE i # 0
      <4>1. i - 1 \in 0..Len(s) /\ i - 1 <= n - 1
        BY <1>1, <2>4, <2>6, <3>2
      <4>2. h[i - 1] = Body(g, i - 1) /\ h[i] = Body(g, i)
        <5> HIDE DEF Body
        <5> QED
          BY <4>1
      <4>3. g[i - 1] = Body(g, i - 1)
        <5> HIDE DEF Body
        <5> QED
          BY <2>5, <4>1
      <4>4. h[i - 1] = g[i - 1]
        BY <4>2, <4>3
      <4> HIDE DEF h
      <4> QED
        BY <3>2, <4>2, <4>4
    <3> QED
      BY <3>1, <3>2
  <2>7. Solves(h, n)
    <3> HIDE DEF h, Body
    <3> QED
      BY <2>6
  <2> QED
    <3> HIDE DEF h, Body
    <3> QED
      BY <2>2, <2>7
<1>3. PICK g : Solves(g, Len(s))
  BY <1>1, <1>2
<1> DEFINE f == [i \in 0..Len(s) |-> g[i]]
<1>4. ASSUME NEW i \in 0..Len(s) PROVE f[i] = Body(f, i)
  <2>1. g[i] = Body(g, i)
    BY <1>1, <1>3
  <2>2. i # 0 => i - 1 \in 0..Len(s)
    BY <1>1
  <2> QED
    BY <2>1, <2>2
<1>5. f = [i \in 0..Len(s) |-> Body(f, i)]
  <2>1. f = [i \in 0..Len(s) |-> f[i]]
    OBVIOUS
  <2> HIDE DEF f, Body
  <2> QED
    BY <1>4, <2>1
<1> HIDE DEF f
<1> DEFINE kept == CHOOSE k : k = [i \in 0..Len(s) |-> Body(k, i)]
<1>6. kept = [i \in 0..Len(s) |-> Body(kept, i)]
  BY <1>5, Zenon
<1>7. removeFromOrder(s, ks) = kept[Len(s)]
  BY Zenon DEF removeFromOrder
<1> HIDE DEF kept
<1>8. kept[0] = <<>> /\ \A i \in 1..Len(s) : kept[i] = Body(kept, i)
  <2>1. \A i \in 0..Len(s) : kept[i] = Body(kept, i)
    BY <1>6, Zenon
  <2>2. 0 \in 0..Len(s) /\ \A i \in 1..Len(s) : i \in 0..Len(s)
    BY <1>1
  <2> QED
    BY <2>1, <2>2
<1>9. \A i \in 1..Len(s) :
         kept[i] = IF s[i] \in ks THEN kept[i - 1] ELSE Append(kept[i - 1], s[i])
  BY <1>1, <1>8
<1> QED
  BY <1>7, <1>8, <1>9

\* A sequence without repetition.
Once(s) == \A i, j \in 1..Len(s) : s[i] = s[j] => i = j

\* Removing keys from the order leaves the others, once each if they were so before.
LEMMA RemoveFacts ==
    ASSUME NEW s \in Seq(CacheKeys), NEW ks
    PROVE  /\ removeFromOrder(s, ks) \in Seq(CacheKeys) /\ Len(removeFromOrder(s, ks)) <= Len(s)
           /\ \A k : (\E i \in 1..Len(removeFromOrder(s, ks)) : removeFromOrder(s, ks)[i] = k)
                        <=> (k \notin ks /\ \E i \in 1..Len(s) : s[i] = k)
           /\ Once(s) => Once(removeFromOrder(s, ks))
<1>1. PICK kept : /\ removeFromOrder(s, ks) = kept[Len(s)] /\ kept[0] = <<>>
                  /\ \A i \in 1..Len(s) :
                        kept[i] = IF s[i] \in ks THEN kept[i - 1] ELSE Append(kept[i - 1], s[i])
  BY KeptEquation
<1>2. Len(s) \in Nat /\ \A i \in 1..Len(s) : s[i] \in CacheKeys
  BY LenProperties, ElementOfSeq
<1> DEFINE Good(t, n) == /\ t \in Seq(CacheKeys) /\ Len(t) \in Nat /\ Len(t) <= n
                         /\ \A k : (\E i \in 1..Len(t) : t[i] = k) <=> (k \notin ks /\ \E i \in 1..n : s[i] = k)
                         /\ Once(s) => Once(t)
           T == {n \in 0..Len(s) : ~Good(kept[n], n)}
<1>3. T = {}
  <2> SUFFICES ASSUME T # {} PROVE FALSE
    OBVIOUS
  <2>1. T \subseteq Nat
    BY <1>2
  <2>2. PICK n \in T : \A k \in T : n <= k
    <3> HIDE DEF T
    <3> QED
      BY <2>1, LeastNatural
  <2>3. n # 0
    <3> SUFFICES ASSUME n = 0 PROVE FALSE
      OBVIOUS
    <3>1. Good(<<>>, 0)
      BY DEF Once
    <3>2. kept[n] = <<>>
      BY <1>1
    <3> HIDE DEF Good
    <3> QED
      BY <2>2, <3>1, <3>2
  <2>4. n \in 1..Len(s) /\ n - 1 \in 0..Len(s)
    BY <1>2, <2>3
  <2> DEFINE t == kept[n - 1]
  <2>5. Good(t, n - 1)
    <3>1. ~(n <= n - 1)
      BY <2>4
    <3>2. n - 1 \notin T
      <4> HIDE DEF T
      <4> QED
        BY <2>2, <3>1
    <3> QED
      BY <2>4, <3>2
  <2>6. kept[n] = IF s[n] \in ks THEN t ELSE Append(t, s[n])
    BY <1>1, <2>4
  <2> HIDE DEF t
  <2>7. \A k : (\E i \in 1..n : s[i] = k) <=> (k = s[n] \/ \E i \in 1..(n - 1) : s[i] = k)
    <3>1. \A i \in 1..n : i = n \/ i \in 1..(n - 1)
      BY <2>4
    <3>2. n \in 1..n /\ \A i \in 1..(n - 1) : i \in 1..n
      BY <2>4
    <3> QED
      BY <3>1, <3>2
  <2>8. Good(kept[n], n)
    <3>1. CASE s[n] \in ks
      <4>1. kept[n] = t
        BY <2>6, <3>1
      <4>2. Len(t) <= n
        BY <2>4, <2>5
      <4>3. \A k : (\E i \in 1..Len(t) : t[i] = k) <=> (k \notin ks /\ \E i \in 1..n : s[i] = k)
        BY <2>5, <2>7, <3>1
      <4>4. Good(t, n)
        BY <2>5, <4>2, <4>3
      <4> HIDE DEF Good
      <4> QED
        BY <4>1, <4>4
    <3>2. CASE s[n] \notin ks
      <4> DEFINE a == Append(t, s[n])
      <4>1. s[n] \in CacheKeys /\ t \in Seq(CacheKeys) /\ Len(t) \in Nat
        BY <1>2, <2>4, <2>5
      <4>2. /\ a \in Seq(CacheKeys) /\ Len(a) = Len(t) + 1 /\ a[Len(t) + 1] = s[n]
            /\ \A i \in 1..Len(t) : a[i] = t[i]
        BY <4>1, AppendProperties
      <4> HIDE DEF a
      <4>3. Len(a) \in Nat /\ Len(a) <= n
        BY <2>4, <2>5, <4>1, <4>2
      <4>4. \A i \in 1..Len(a) : i = Len(t) + 1 \/ i \in 1..Len(t)
        BY <4>1, <4>2
      <4>5. Len(t) + 1 \in 1..Len(a) /\ \A i \in 1..Len(t) : i \in 1..Len(a)
        BY <4>1, <4>2
      <4>6. \A k : (\E i \in 1..Len(a) : a[i] = k) <=> (k = s[n] \/ \E i \in 1..Len(t) : t[i] = k)
        BY <4>2, <4>4, <4>5
      <4>7. \A k : (\E i \in 1..Len(a) : a[i] = k) <=> (k \notin ks /\ \E i \in 1..n : s[i] = k)
        BY <2>5, <2>7, <3>2, <4>6
      <4>8. ASSUME Once(s) PROVE Once(a)
        <5>1. Once(t) /\ \A i \in 1..(n - 1) : s[i] # s[n]
          BY <2>4, <2>5, <4>8 DEF Once
        <5>2. \A i \in 1..Len(t) : t[i] # s[n]
          BY <2>5, <5>1
        <5> QED
          BY <4>2, <4>4, <5>1, <5>2 DEF Once
      <4> QED
        BY <2>6, <3>2, <4>2, <4>3, <4>7, <4>8 DEF a
    <3> QED
      BY <3>1, <3>2
  <2> QED
    BY <2>2, <2>8
<1>4. Good(kept[Len(s)], Len(s))
  BY <1>2, <1>3
<1> QED
  BY <1>1, <1>4

\* The order lists the keys that have an entry, each once, within the limit; what Set
\* is about to store has an expiry, and the janitor's time is in the past.
MemoryInv ==
    /\ OrderMatchesEntries /\ NoWriteAfterClose
    /\ MaxEntries > 0 => Len(order) <= MaxEntries
    /\ clock >= 1
    /\ \A u \in Users : /\ use[u].step = "set" => use[u].at > 0
                        /\ use[u].step = "sweep" => use[u].at <= clock

\* What the proofs use of the type invariant.
LEMMA MemoryFacts ==
    ASSUME MemoryTypeOK
    PROVE  /\ clock \in Nat /\ MaxClock \in Nat /\ Forever \in Nat /\ MaxEntries \in Nat
           /\ expiry \in [CacheKeys -> 0..Forever] /\ \A k \in CacheKeys : expiry[k] \in Nat
           /\ order \in Seq(CacheKeys) /\ Len(order) \in Nat
           /\ use \in [Users -> UseState] /\ NoUse \in UseState
           /\ \A u \in Users : use[u].at \in Nat /\ use[u].at \in 0..Forever /\ use[u].keys \subseteq CacheKeys
<1>1. MaxClock \in Nat /\ Forever \in Nat /\ MaxEntries \in Nat
  BY MemoryAssumption
<1>2. order \in Seq(CacheKeys) /\ Len(order) \in Nat
  BY LenProperties DEF MemoryTypeOK
<1>3. use \in [Users -> UseState] /\ expiry \in [CacheKeys -> 0..Forever] /\ clock \in Nat
  BY <1>1 DEF MemoryTypeOK
<1>4. NoUse \in UseState
  BY <1>1 DEF NoUse, UseState
<1>5. \A u \in Users : use[u].at \in Nat /\ use[u].at \in 0..Forever /\ use[u].keys \subseteq CacheKeys
  BY <1>1, <1>3 DEF UseState
<1> QED
  BY <1>1, <1>2, <1>3, <1>4, <1>5

\* There are as many entries as keys in the order.
LEMMA EntriesCounted ==
    ASSUME MemoryTypeOK, OrderMatchesEntries
    PROVE  Cardinality(Present) = Len(order)
<1>1. order \in Seq(CacheKeys) /\ Len(order) \in Nat
  BY MemoryFacts
<1>2. \A i \in 1..Len(order) : order[i] \in CacheKeys /\ order[i] \in Present
  <2>1. \A i \in 1..Len(order) : order[i] \in CacheKeys
    BY <1>1, ElementOfSeq
  <2> QED
    BY <2>1 DEF OrderMatchesEntries
<1> DEFINE f == [i \in 1..Len(order) |-> order[i]]
<1>3. f \in Injection(1..Len(order), Present)
  BY <1>2 DEF Injection, IsInjective, OrderMatchesEntries
<1>4. f \in Surjection(1..Len(order), Present)
  <2>1. f \in [1..Len(order) -> Present]
    BY <1>2
  <2>2. \A k \in Present : \E i \in 1..Len(order) : f[i] = k
    BY DEF OrderMatchesEntries, Present
  <2> HIDE DEF f
  <2> QED
    BY <2>1, <2>2 DEF Surjection
<1>5. ExistsBijection(1..Len(order), Present)
  <2> HIDE DEF f
  <2> QED
    BY <1>3, <1>4, Zenon DEF Bijection, ExistsBijection
<1> QED
  BY <1>1, <1>5, FS_CountingElements

\* Dropping keys from the map and from the order keeps the two one structure.
LEMMA DropFacts ==
    ASSUME MemoryTypeOK, MemoryInv, NEW ks, Drop(ks)
    PROVE  /\ expiry' \in [CacheKeys -> 0..Forever] /\ order' \in Seq(CacheKeys)
           /\ OrderMatchesEntries' /\ (MaxEntries > 0 => Len(order') <= MaxEntries)
           /\ \A k \in CacheKeys : expiry'[k] # expiry[k] => k \in ks
<1>1. /\ order \in Seq(CacheKeys) /\ Len(order) \in Nat /\ expiry \in [CacheKeys -> 0..Forever]
      /\ MaxEntries \in Nat /\ Forever \in Nat
  BY MemoryFacts
<1>2. /\ order' \in Seq(CacheKeys) /\ Len(order') <= Len(order) /\ Len(order') \in Nat
      /\ \A k : (\E i \in 1..Len(order') : order'[i] = k)
                   <=> (k \notin ks /\ \E i \in 1..Len(order) : order[i] = k)
      /\ Once(order) => Once(order')
  <2>1. order' = removeFromOrder(order, ks)
    BY DEF Drop
  <2> DEFINE t == removeFromOrder(order, ks)
  <2>2. /\ t \in Seq(CacheKeys) /\ Len(t) <= Len(order)
        /\ \A k : (\E i \in 1..Len(t) : t[i] = k) <=> (k \notin ks /\ \E i \in 1..Len(order) : order[i] = k)
        /\ Once(order) => Once(t)
    BY <1>1, RemoveFacts, Zenon
  <2>3. Len(t) \in Nat
    BY <2>2, LenProperties
  <2> HIDE DEF t
  <2>4. order' = t
    BY <2>1 DEF t
  <2> QED
    BY <2>2, <2>3, <2>4, Zenon
<1>3. /\ expiry' \in [CacheKeys -> 0..Forever]
      /\ \A k \in CacheKeys : expiry'[k] = IF k \in ks THEN 0 ELSE expiry[k]
  BY <1>1 DEF Drop
<1>4. \A k \in CacheKeys : k \in Present' <=> k \in Present /\ k \notin ks
  BY <1>3 DEF Present
<1>5. /\ \A k \in CacheKeys : k \in Present <=> \E i \in 1..Len(order) : order[i] = k
      /\ Once(order)
  BY DEF MemoryInv, OrderMatchesEntries, Once
<1>6. OrderMatchesEntries'
  <2>1. \A k \in CacheKeys : k \in Present' <=> \E i \in 1..Len(order') : order'[i] = k
    BY <1>2, <1>4, <1>5
  <2>2. Once(order')
    BY <1>2, <1>5
  <2> QED
    BY <2>1, <2>2 DEF OrderMatchesEntries, Once
<1>7. MaxEntries > 0 => Len(order') <= MaxEntries
  BY <1>1, <1>2 DEF MemoryInv
<1> QED
  BY <1>2, <1>3, <1>6, <1>7

\* Insertions and evictions keep the two one structure inside the limit.
LEMMA StoreFacts ==
    ASSUME MemoryTypeOK, MemoryInv, NEW keys \in SUBSET CacheKeys, NEW at \in 0..Forever, at > 0,
           NEW s \in Appended(order, keys \ Present),
           order' = SubSeq(s, Overflow(s) + 1, Len(s)),
           expiry' = [k \in CacheKeys |-> IF k \in {s[i] : i \in 1..Overflow(s)} THEN 0
                                          ELSE IF k \in keys THEN at ELSE expiry[k]]
    PROVE  /\ expiry' \in [CacheKeys -> 0..Forever] /\ order' \in Seq(CacheKeys)
           /\ OrderMatchesEntries' /\ (MaxEntries > 0 => Len(order') <= MaxEntries)
<1> DEFINE new == keys \ Present
           c == Cardinality(new)
           n == Overflow(s)
           victims == {s[i] : i \in 1..n}
<1>1. /\ order \in Seq(CacheKeys) /\ Len(order) \in Nat /\ expiry \in [CacheKeys -> 0..Forever]
      /\ MaxEntries \in Nat /\ Forever \in Nat
  BY MemoryFacts
<1>2. new \subseteq CacheKeys /\ IsFiniteSet(new) /\ c \in Nat
  <2>1. new \subseteq CacheKeys
    OBVIOUS
  <2> QED
    BY <2>1, MemoryAssumption, FS_Subset, FS_CardinalityType
<1>3. PICK p \in Bijection(1..c, new) : s = order \o p
  BY DEF Appended
<1> HIDE DEF new, c, n, victims
<1>4. /\ p \in [1..c -> new] /\ \A i, j \in 1..c : p[i] = p[j] => i = j
      /\ \A k \in new : \E i \in 1..c : p[i] = k
  BY <1>3 DEF Bijection, Injection, Surjection, IsInjective
<1>5. p \in Seq(CacheKeys) /\ Len(p) = c
  BY <1>2, <1>4
<1>6. /\ s \in Seq(CacheKeys) /\ Len(s) = Len(order) + c /\ Len(s) \in Nat
      /\ \A i \in 1..Len(order) : s[i] = order[i]
      /\ \A i \in 1..c : s[Len(order) + i] = p[i]
  <2>1. /\ s \in Seq(CacheKeys) /\ Len(s) = Len(order) + Len(p)
        /\ \A i \in 1..(Len(order) + Len(p)) : s[i] = IF i <= Len(order) THEN order[i] ELSE p[i - Len(order)]
    BY <1>1, <1>3, <1>5, ConcatProperties
  <2>2. \A i \in 1..Len(order) : s[i] = order[i]
    BY <1>1, <1>2, <1>5, <2>1
  <2>3. \A i \in 1..c : s[Len(order) + i] = p[i]
    <3> TAKE i \in 1..c
    <3>1. /\ Len(order) + i \in 1..(Len(order) + Len(p)) /\ ~(Len(order) + i <= Len(order))
          /\ (Len(order) + i) - Len(order) = i
      BY <1>1, <1>2, <1>5
    <3> QED
      BY <2>1, <3>1
  <2> QED
    BY <1>1, <1>2, <1>5, <2>1, <2>2, <2>3
<1>7. \A i \in 1..Len(s) : \/ i \in 1..Len(order) /\ s[i] = order[i]
                           \/ /\ i - Len(order) \in 1..c /\ s[i] = p[i - Len(order)]
                              /\ i = Len(order) + (i - Len(order))
  <2> TAKE i \in 1..Len(s)
  <2>1. CASE i <= Len(order)
    BY <1>1, <1>6, <2>1
  <2>2. CASE ~(i <= Len(order))
    <3>1. i - Len(order) \in 1..c /\ i = Len(order) + (i - Len(order))
      BY <1>1, <1>2, <1>6, <2>2
    <3> QED
      BY <1>6, <3>1
  <2> QED
    BY <2>1, <2>2
<1>8. \A k \in CacheKeys : k \in Present <=> \E i \in 1..Len(order) : order[i] = k
  BY DEF MemoryInv, OrderMatchesEntries
<1>9. \A i \in 1..Len(order) : order[i] \in Present
  BY <1>1, <1>8, ElementOfSeq
<1>10. \A k \in CacheKeys : (\E i \in 1..Len(s) : s[i] = k) <=> (k \in Present \/ k \in keys)
  <2> TAKE k \in CacheKeys
  <2>1. ASSUME NEW i \in 1..Len(s), s[i] = k PROVE k \in Present \/ k \in keys
    BY <1>4, <1>7, <1>9, <2>1 DEF new
  <2>2. ASSUME k \in Present PROVE \E i \in 1..Len(s) : s[i] = k
    <3>1. PICK i \in 1..Len(order) : order[i] = k
      BY <1>8, <2>2
    <3>2. i \in 1..Len(s)
      BY <1>1, <1>2, <1>6
    <3> QED
      BY <1>6, <3>1, <3>2
  <2>3. ASSUME k \in keys, k \notin Present PROVE \E i \in 1..Len(s) : s[i] = k
    <3>1. PICK i \in 1..c : p[i] = k
      BY <1>4, <2>3 DEF new
    <3>2. Len(order) + i \in 1..Len(s)
      BY <1>1, <1>2, <1>6
    <3> QED
      BY <1>6, <3>1, <3>2
  <2> QED
    BY <2>1, <2>2, <2>3
<1>11. Once(s)
  <2> SUFFICES ASSUME NEW i \in 1..Len(s), NEW j \in 1..Len(s), s[i] = s[j] PROVE i = j
    BY DEF Once
  <2>1. CASE i \in 1..Len(order) /\ j \in 1..Len(order)
    BY <1>6, <2>1 DEF MemoryInv, OrderMatchesEntries
  <2>2. CASE i - Len(order) \in 1..c /\ j - Len(order) \in 1..c
    <3>1. s[i] = p[i - Len(order)] /\ s[j] = p[j - Len(order)]
      <4>1. i = Len(order) + (i - Len(order)) /\ j = Len(order) + (j - Len(order))
        BY <1>1, <1>6
      <4> QED
        BY <1>6, <2>2, <4>1
    <3>2. i - Len(order) = j - Len(order)
      BY <1>4, <2>2, <3>1
    <3> QED
      BY <1>1, <3>2
  <2>3. CASE i \in 1..Len(order) /\ j - Len(order) \in 1..c
    <3>1. s[i] \in Present /\ s[j] \in new
      <4>1. j = Len(order) + (j - Len(order))
        BY <1>1, <1>6
      <4>2. s[j] = p[j - Len(order)]
        BY <1>6, <2>3, <4>1
      <4> QED
        BY <1>4, <1>6, <1>9, <2>3, <4>2
    <3> QED
      BY <3>1 DEF new
  <2>4. CASE i - Len(order) \in 1..c /\ j \in 1..Len(order)
    <3>1. s[j] \in Present /\ s[i] \in new
      <4>1. i = Len(order) + (i - Len(order))
        BY <1>1, <1>6
      <4>2. s[i] = p[i - Len(order)]
        BY <1>6, <2>4, <4>1
      <4> QED
        BY <1>4, <1>6, <1>9, <2>4, <4>2
    <3> QED
      BY <3>1 DEF new
  <2> QED
    BY <1>7, <2>1, <2>2, <2>3, <2>4
<1>12. n \in 0..Len(s) /\ (MaxEntries > 0 => Len(s) - n <= MaxEntries)
  BY <1>1, <1>6 DEF Overflow, n
<1>13. /\ order' \in Seq(CacheKeys) /\ Len(order') = Len(s) - n
       /\ \A i \in 1..Len(order') : n + i \in 1..Len(s) /\ order'[i] = s[n + i]
  <2>1. order' = SubSeq(s, n + 1, Len(s))
    BY DEF n
  <2>2. n + 1 \in 1..(Len(s) + 1) /\ Len(s) \in n..Len(s) /\ n \in Nat
    BY <1>6, <1>12
  <2>3. /\ order' \in Seq(CacheKeys)
        /\ Len(order') = IF n + 1 <= Len(s) THEN Len(s) - (n + 1) + 1 ELSE 0
        /\ \A i \in 1..(Len(s) - (n + 1) + 1) : order'[i] = s[(n + 1) + i - 1]
    <3>1. \A i \in (n + 1)..Len(s) : s[i] \in CacheKeys
      <4> TAKE i \in (n + 1)..Len(s)
      <4>1. i \in 1..Len(s)
        BY <1>6, <2>2
      <4> QED
        BY <1>6, <4>1, ElementOfSeq
    <3>2. n + 1 \in Int /\ Len(s) \in Int
      BY <1>6, <2>2
    <3> DEFINE m == n + 1
    <3> HIDE DEF m
    <3>3. /\ SubSeq(s, m, Len(s)) \in Seq(CacheKeys)
          /\ Len(SubSeq(s, m, Len(s))) = IF m <= Len(s) THEN Len(s) - m + 1 ELSE 0
          /\ \A i \in 1..(Len(s) - m + 1) : SubSeq(s, m, Len(s))[i] = s[m + i - 1]
      <4>1. m \in Int /\ Len(s) \in Int /\ \A i \in m..Len(s) : s[i] \in CacheKeys
        BY <3>1, <3>2 DEF m
      <4> QED
        BY <4>1, SubSeqProperties
    <3> QED
      BY <2>1, <3>3 DEF m
  <2>4. Len(order') = Len(s) - n /\ Len(s) - (n + 1) + 1 = Len(s) - n
    BY <1>6, <2>2, <2>3
  <2>5. \A i \in 1..(Len(s) - n) : n + i \in 1..Len(s) /\ (n + 1) + i - 1 = n + i
    BY <1>6, <2>2
  <2> QED
    BY <2>3, <2>4, <2>5
<1>14. /\ expiry' \in [CacheKeys -> 0..Forever]
       /\ \A k \in CacheKeys : expiry'[k] = IF k \in victims THEN 0 ELSE IF k \in keys THEN at ELSE expiry[k]
  BY <1>1 DEF victims, n
<1>15. \A k \in CacheKeys : k \in Present' <=> (k \in Present \/ k \in keys) /\ k \notin victims
  BY <1>14 DEF Present
<1>16. ASSUME NEW k \in CacheKeys
       PROVE  k \in Present' <=> \E i \in 1..Len(order') : order'[i] = k
  <2>1. ASSUME k \in Present' PROVE \E i \in 1..Len(order') : order'[i] = k
    <3>1. PICK i \in 1..Len(s) : s[i] = k
      BY <1>10, <1>15, <2>1
    <3>2. i \notin 1..n
      BY <1>15, <2>1, <3>1 DEF victims
    <3>3. i - n \in 1..Len(order') /\ n + (i - n) = i
      BY <1>6, <1>12, <1>13, <3>2
    <3> QED
      BY <1>13, <3>1, <3>3
  <2>2. ASSUME NEW i \in 1..Len(order'), order'[i] = k PROVE k \in Present'
    <3>1. n + i \in 1..Len(s) /\ s[n + i] = k
      BY <1>13, <2>2
    <3>2. k \in Present \/ k \in keys
      BY <1>10, <3>1
    <3>3. ASSUME k \in victims PROVE FALSE
      <4>1. PICK j \in 1..n : s[j] = k
        BY <3>3 DEF victims
      <4>2. j \in 1..Len(s)
        BY <1>6, <1>12
      <4>3. j = n + i
        BY <1>11, <3>1, <4>1, <4>2 DEF Once
      <4>4. i >= 1 /\ i \in Nat /\ n \in Nat
        BY <1>6, <1>12, <1>13
      <4> QED
        BY <4>3, <4>4
    <3> QED
      BY <1>15, <3>2, <3>3
  <2> QED
    BY <2>1, <2>2
<1>17. \A i, j \in 1..Len(order') : order'[i] = order'[j] => i = j
  <2> SUFFICES ASSUME NEW i \in 1..Len(order'), NEW j \in 1..Len(order'), order'[i] = order'[j] PROVE i = j
    OBVIOUS
  <2>1. n + i = n + j
    <3>1. n + i \in 1..Len(s) /\ n + j \in 1..Len(s) /\ s[n + i] = s[n + j]
      BY <1>13
    <3> QED
      BY <1>11, <3>1 DEF Once
  <2> QED
    BY <1>6, <1>12, <1>13, <2>1
<1>18. OrderMatchesEntries'
  BY <1>16, <1>17 DEF OrderMatchesEntries
<1> QED
  BY <1>12, <1>13, <1>14, <1>18

\* Leave: the other users stay where they are.
LEMMA LeaveFacts ==
    ASSUME MemoryTypeOK, MemoryInv, NEW u \in Users, Leave(u)
    PROVE  /\ use' \in [Users -> UseState]
           /\ \A v \in Users : /\ use'[v].step = "set" => use'[v].at > 0
                               /\ use'[v].step = "sweep" => use'[v].at <= clock
           /\ \A v \in Users : v # u => use'[v] = use[v]
<1>1. use \in [Users -> UseState] /\ NoUse \in UseState /\ NoUse.step = "idle"
  BY MemoryFacts DEF NoUse
<1>2. use' = [use EXCEPT ![u] = NoUse]
  BY DEF Leave
<1>3. use'[u] = NoUse /\ \A v \in Users : v # u => use'[v] = use[v]
  BY <1>1, <1>2
<1>4. use' \in [Users -> UseState]
  BY <1>1, <1>2
<1> QED
  BY <1>1, <1>3, <1>4 DEF MemoryInv

\* Enter: so does everything else, and what the user comes with is in order.
LEMMA EnterInv ==
    ASSUME MemoryTypeOK, MemoryInv, NEW u \in Users, NEW s \in UseState, Enter(u, s),
           s.step = "set" => s.at > 0, s.step = "sweep" => s.at <= clock, s.step # "idle"
    PROVE  MemoryTypeOK' /\ MemoryInv' /\ expiry' = expiry
<1>1. use \in [Users -> UseState]
  BY MemoryFacts
<1>2. use' = [use EXCEPT ![u] = s]
  BY DEF Enter
<1>3. use'[u] = s /\ \A v \in Users : v # u => use'[v] = use[v]
  BY <1>1, <1>2
<1>4. use' \in [Users -> UseState]
  BY <1>1, <1>2
<1>5. clock' = clock /\ expiry' = expiry /\ order' = order /\ closed' = closed /\ fatal' = fatal
  BY DEF Enter
<1>6. MemoryTypeOK'
  BY <1>4, <1>5 DEF MemoryTypeOK
<1>7. OrderMatchesEntries' /\ NoWriteAfterClose'
  BY <1>5 DEF MemoryInv, OrderMatchesEntries, Present, NoWriteAfterClose
<1>8. \A v \in Users : /\ use'[v].step = "set" => use'[v].at > 0
                       /\ use'[v].step = "sweep" => use'[v].at <= clock'
  BY <1>3, <1>5 DEF MemoryInv
<1> QED
  BY <1>5, <1>6, <1>7, <1>8 DEF MemoryInv

\* A step of the lock keeps the invariant if what it does to the entries is in order.
LEMMA LockedMethodInv ==
    ASSUME MemoryTypeOK, MemoryInv, NEW u \in Users, Leave(u), UNCHANGED <<clock, closed, fatal>>,
           expiry' \in [CacheKeys -> 0..Forever], order' \in Seq(CacheKeys), OrderMatchesEntries',
           MaxEntries > 0 => Len(order') <= MaxEntries
    PROVE  MemoryTypeOK' /\ MemoryInv'
<1>1. clock' = clock /\ closed' = closed /\ fatal' = fatal
  OBVIOUS
<1>2. /\ use' \in [Users -> UseState]
      /\ \A v \in Users : /\ use'[v].step = "set" => use'[v].at > 0
                          /\ use'[v].step = "sweep" => use'[v].at <= clock
  BY LeaveFacts
<1>3. MemoryTypeOK'
  BY <1>1, <1>2 DEF MemoryTypeOK
<1>4. NoWriteAfterClose'
  BY <1>1 DEF MemoryInv, NoWriteAfterClose
<1> QED
  BY <1>1, <1>2, <1>3, <1>4 DEF MemoryInv

\* Expiry takes no live entry in this step.
SparesLive ==
    \A u \in Users, k \in CacheKeys :
        use[u].step \in {"evict", "sweep"} /\ use'[u].step = "idle" /\ expiry'[k] # expiry[k] =>
            Expired(expiry[k], clock)

LEMMA SetEntriesInv ==
    ASSUME MemoryTypeOK, MemoryInv, NEW u \in Users, SetEntries(u)
    PROVE  MemoryTypeOK' /\ MemoryInv' /\ SparesLive
<1>1. Leave(u) /\ UNCHANGED <<clock, closed, fatal>> /\ use[u].step = "set"
  BY DEF SetEntries
<1>2. /\ use[u].keys \in SUBSET CacheKeys /\ use[u].at \in 0..Forever /\ use[u].at > 0
  BY <1>1, MemoryFacts DEF MemoryInv
<1>3. MemoryTypeOK' /\ MemoryInv'
  <2>1. CASE closed
    <3>1. expiry' = expiry /\ order' = order
      BY <2>1 DEF SetEntries
    <3>2. OrderMatchesEntries'
      BY <3>1 DEF MemoryInv, OrderMatchesEntries, Present
    <3>3. expiry' \in [CacheKeys -> 0..Forever] /\ order' \in Seq(CacheKeys)
      BY <3>1, MemoryFacts
    <3> QED
      BY <1>1, <3>1, <3>2, <3>3, LockedMethodInv DEF MemoryInv
  <2>2. CASE ~closed
    <3>1. PICK s \in Appended(order, use[u].keys \ Present) :
             /\ order' = SubSeq(s, Overflow(s) + 1, Len(s))
             /\ expiry' = [k \in CacheKeys |-> IF k \in {s[i] : i \in 1..Overflow(s)} THEN 0
                                               ELSE IF k \in use[u].keys THEN use[u].at ELSE expiry[k]]
      BY <2>2, Zenon DEF SetEntries
    <3> DEFINE ks == use[u].keys
               at == use[u].at
    <3>2. ks \in SUBSET CacheKeys /\ at \in 0..Forever /\ at > 0
      BY <1>2
    <3>3. /\ s \in Appended(order, ks \ Present)
          /\ order' = SubSeq(s, Overflow(s) + 1, Len(s))
          /\ expiry' = [k \in CacheKeys |-> IF k \in {s[i] : i \in 1..Overflow(s)} THEN 0
                                            ELSE IF k \in ks THEN at ELSE expiry[k]]
      BY <3>1
    <3> HIDE DEF ks, at
    <3>4. /\ expiry' \in [CacheKeys -> 0..Forever] /\ order' \in Seq(CacheKeys)
          /\ OrderMatchesEntries' /\ (MaxEntries > 0 => Len(order') <= MaxEntries)
      BY <3>2, <3>3, StoreFacts
    <3> QED
      BY <1>1, <3>4, LockedMethodInv
  <2> QED
    BY <2>1, <2>2
<1>4. \A v \in Users : v # u => use'[v] = use[v]
  BY <1>1, LeaveFacts
<1>5. SparesLive
  BY <1>1, <1>4 DEF SparesLive
<1> QED
  BY <1>3, <1>5

\* Get's lazy eviction and the janitor drop what has expired.
LEMMA ExpireInv ==
    ASSUME MemoryTypeOK, MemoryInv, NEW u \in Users, EvictExpired(u) \/ Sweep(u)
    PROVE  MemoryTypeOK' /\ MemoryInv' /\ SparesLive
<1>1. Leave(u) /\ UNCHANGED <<clock, closed, fatal>>
  BY DEF EvictExpired, Sweep
<1>2. PICK ks : Drop(ks) /\ ks \subseteq CacheKeys /\ \A k \in ks : Expired(expiry[k], clock)
  <2>1. CASE EvictExpired(u)
    <3> DEFINE ks == {k \in use[u].keys : Expired(expiry[k], clock)}
    <3>1. Drop(ks)
      BY <2>1 DEF EvictExpired
    <3>2. ks \subseteq CacheKeys /\ \A k \in ks : Expired(expiry[k], clock)
      BY MemoryFacts
    <3> HIDE DEF ks
    <3> QED
      BY <3>1, <3>2
  <2>2. CASE Sweep(u)
    <3> DEFINE ks == {k \in CacheKeys : Expired(expiry[k], use[u].at)}
    <3>1. Drop(ks) /\ use[u].step = "sweep"
      BY <2>2 DEF Sweep
    <3>2. use[u].at <= clock /\ use[u].at \in Nat /\ clock \in Nat
      BY <3>1, MemoryFacts DEF MemoryInv
    <3>3. \A k \in CacheKeys : expiry[k] \in Nat
      BY MemoryFacts
    <3>4. \A k \in ks : Expired(expiry[k], clock)
      BY <3>2, <3>3 DEF Expired
    <3>5. ks \subseteq CacheKeys
      OBVIOUS
    <3> HIDE DEF ks
    <3> QED
      BY <3>1, <3>4, <3>5
  <2> QED
    BY <2>1, <2>2
<1>3. /\ expiry' \in [CacheKeys -> 0..Forever] /\ order' \in Seq(CacheKeys)
      /\ OrderMatchesEntries' /\ (MaxEntries > 0 => Len(order') <= MaxEntries)
      /\ \A k \in CacheKeys : expiry'[k] # expiry[k] => k \in ks
  BY <1>2, DropFacts
<1>4. MemoryTypeOK' /\ MemoryInv'
  BY <1>1, <1>3, LockedMethodInv
<1>5. SparesLive
  BY <1>2, <1>3 DEF SparesLive
<1> QED
  BY <1>4, <1>5

LEMMA DeleteKeysInv ==
    ASSUME MemoryTypeOK, MemoryInv, NEW ks \in SUBSET CacheKeys, DeleteKeys(ks)
    PROVE  MemoryTypeOK' /\ MemoryInv'
<1>1. Drop(ks) /\ clock' = clock /\ closed' = closed /\ use' = use /\ fatal' = fatal
  BY DEF DeleteKeys
<1>2. /\ expiry' \in [CacheKeys -> 0..Forever] /\ order' \in Seq(CacheKeys)
      /\ OrderMatchesEntries' /\ (MaxEntries > 0 => Len(order') <= MaxEntries)
  BY <1>1, DropFacts
<1>3. MemoryTypeOK'
  BY <1>1, <1>2 DEF MemoryTypeOK
<1> QED
  BY <1>1, <1>2, <1>3 DEF MemoryInv, NoWriteAfterClose

LEMMA CloseInv ==
    ASSUME MemoryTypeOK, MemoryInv, Close
    PROVE  MemoryTypeOK' /\ MemoryInv'
<1>1. /\ clock' = clock /\ closed' = TRUE /\ use' = use /\ fatal' = fatal
      /\ expiry' = [k \in CacheKeys |-> 0] /\ order' = <<>>
  BY DEF Close
<1>2. order' \in Seq(CacheKeys) /\ Len(order') = 0 /\ 1..Len(order') = {}
  BY <1>1, EmptySeq
<1>3. expiry' \in [CacheKeys -> 0..Forever]
  BY <1>1, MemoryFacts
<1>4. MemoryTypeOK'
  BY <1>1, <1>2, <1>3 DEF MemoryTypeOK
<1>5. OrderMatchesEntries'
  BY <1>1, <1>2 DEF OrderMatchesEntries, Present
<1>6. MaxEntries > 0 => Len(order') <= MaxEntries
  BY <1>2, MemoryFacts
<1> QED
  BY <1>1, <1>4, <1>5, <1>6 DEF MemoryInv, NoWriteAfterClose

LEMMA ClockTickInv ==
    ASSUME MemoryTypeOK, MemoryInv, ClockTick
    PROVE  MemoryTypeOK' /\ MemoryInv'
<1>1. /\ clock' = clock + 1 /\ clock < MaxClock /\ closed' = closed /\ use' = use /\ fatal' = fatal
      /\ expiry' = expiry /\ order' = order
  BY DEF ClockTick
<1>2. clock \in Nat /\ MaxClock \in Nat /\ \A u \in Users : use[u].at \in Nat
  BY MemoryFacts
<1>3. MemoryTypeOK'
  <2>1. clock' \in 0..MaxClock
    BY <1>1, <1>2
  <2> QED
    BY <1>1, <2>1 DEF MemoryTypeOK
<1>4. OrderMatchesEntries' /\ NoWriteAfterClose'
  BY <1>1 DEF MemoryInv, OrderMatchesEntries, Present, NoWriteAfterClose
<1>5. clock' >= 1 /\ \A u \in Users : /\ use'[u].step = "set" => use'[u].at > 0
                                      /\ use'[u].step = "sweep" => use'[u].at <= clock'
  BY <1>1, <1>2 DEF MemoryInv
<1> QED
  BY <1>1, <1>3, <1>4, <1>5 DEF MemoryInv

\* The first look of Set, of Get at an expired entry, and of the janitor.
LEMMA LookInv ==
    ASSUME MemoryTypeOK, MemoryInv, NEW u \in Users,
           \/ \E ks \in SUBSET CacheKeys, ttl \in Lifetimes : ks # {} /\ BeginSet(u, ks, ttl)
           \/ \E k \in CacheKeys : GetExpired(u, k)
           \/ BeginSweep(u)
    PROVE  MemoryTypeOK' /\ MemoryInv' /\ expiry' = expiry
<1>1. clock \in Nat /\ clock <= MaxClock /\ clock >= 1 /\ MaxClock \in Nat /\ Forever \in Nat
  BY MemoryFacts DEF MemoryTypeOK, MemoryInv
<1>2. MaxClock < Forever /\ \A ttl \in Lifetimes : ttl \in Nat /\ MaxClock + ttl < Forever
  <2>1. \A ttl \in Lifetimes \cup {0} : ttl \in Nat /\ MaxClock + ttl < Forever
    <3>1. Lifetimes \cup {0} \subseteq Nat
      <4>1. Lifetimes \subseteq Nat
        BY Zenon, MemoryAssumption
      <4> QED
        BY <4>1
    <3>2. \A ttl \in Lifetimes \cup {0} : MaxClock + ttl < Forever
      BY Zenon, MemoryAssumption
    <3> QED
      BY <3>1, <3>2
  <2>2. MaxClock + 0 = MaxClock
    BY <1>1
  <2>3. \A ttl \in Lifetimes : ttl \in Nat /\ MaxClock + ttl < Forever
    BY <2>1
  <2>4. 0 \in Lifetimes \cup {0}
    OBVIOUS
  <2>5. MaxClock + 0 < Forever
    BY <2>1, <2>4
  <2>6. MaxClock < Forever
    BY <2>2, <2>5
  <2> QED
    BY <2>3, <2>6
<1>3. ASSUME NEW ks \in SUBSET CacheKeys, NEW ttl \in Lifetimes, BeginSet(u, ks, ttl)
      PROVE  MemoryTypeOK' /\ MemoryInv' /\ expiry' = expiry
  <2> DEFINE at == IF ttl = 0 THEN Forever ELSE clock + ttl
             s == [step |-> "set", keys |-> ks, at |-> at]
  <2>1. at \in 0..Forever /\ at > 0
    BY <1>1, <1>2
  <2>2. Enter(u, s)
    BY <1>3 DEF BeginSet
  <2> HIDE DEF at
  <2>3. s \in UseState /\ s.step = "set" /\ s.at > 0
    BY <2>1 DEF UseState
  <2> HIDE DEF s
  <2> QED
    BY <2>2, <2>3, EnterInv
<1>4. ASSUME NEW k \in CacheKeys, GetExpired(u, k)
      PROVE  MemoryTypeOK' /\ MemoryInv' /\ expiry' = expiry
  <2> DEFINE s == [step |-> "evict", keys |-> {k}, at |-> 0]
  <2>1. Enter(u, s)
    BY <1>4 DEF GetExpired
  <2>2. s \in UseState /\ s.step = "evict"
    BY <1>1 DEF UseState
  <2> HIDE DEF s
  <2> QED
    BY <2>1, <2>2, EnterInv
<1>5. CASE BeginSweep(u)
  <2> DEFINE s == [step |-> "sweep", keys |-> {}, at |-> clock]
  <2>1. Enter(u, s)
    BY <1>5 DEF BeginSweep
  <2>2. MaxClock <= Forever
    BY <1>1, <1>2
  <2>3. s \in UseState /\ s.step = "sweep" /\ s.at <= clock
    BY <1>1, <2>2 DEF UseState
  <2> HIDE DEF s
  <2> QED
    BY <2>1, <2>3, EnterInv
<1> QED
  BY <1>3, <1>4, <1>5

LEMMA MemoryInitInv == MemoryInit => MemoryTypeOK /\ MemoryInv
<1> SUFFICES ASSUME MemoryInit PROVE MemoryTypeOK /\ MemoryInv
  OBVIOUS
<1>1. {MaxEntries, MaxClock, Forever} \subseteq Nat /\ 1 <= MaxClock
  BY MemoryAssumption
<1>2. order \in Seq(CacheKeys) /\ Len(order) = 0 /\ 1..Len(order) = {}
  BY EmptySeq DEF MemoryInit
<1>3. NoUse \in UseState /\ NoUse.step = "idle"
  BY <1>1 DEF NoUse, UseState
<1>4. use \in [Users -> UseState] /\ \A u \in Users : use[u].step = "idle"
  BY <1>3 DEF MemoryInit
<1>5. expiry \in [CacheKeys -> 0..Forever] /\ clock \in 0..MaxClock
  BY <1>1 DEF MemoryInit
<1>6. MemoryTypeOK
  BY <1>2, <1>4, <1>5 DEF MemoryInit, MemoryTypeOK
<1>7. OrderMatchesEntries
  BY <1>2 DEF MemoryInit, OrderMatchesEntries, Present
<1>8. MaxEntries > 0 => Len(order) <= MaxEntries
  BY <1>1, <1>2
<1> QED
  BY <1>4, <1>6, <1>7, <1>8 DEF MemoryInit, MemoryInv, NoWriteAfterClose

\* Every step of the cache keeps the invariant and spares the live entries.
LEMMA MemoryStepInv ==
    ASSUME MemoryTypeOK, MemoryInv, [MemoryNext]_memoryVars
    PROVE  MemoryTypeOK' /\ MemoryInv' /\ (SparesLive \/ UNCHANGED memoryVars)
<1>1. CASE UNCHANGED memoryVars
  <2>1. /\ clock' = clock /\ closed' = closed /\ use' = use /\ fatal' = fatal
        /\ expiry' = expiry /\ order' = order
    BY <1>1 DEF memoryVars
  <2>2. MemoryTypeOK'
    BY <2>1 DEF MemoryTypeOK
  <2>3. MemoryInv'
    BY <2>1 DEF MemoryInv, OrderMatchesEntries, Present, NoWriteAfterClose
  <2> QED
    BY <1>1, <2>2, <2>3
<1>2. ASSUME NEW u \in Users,
             \/ \E ks \in SUBSET CacheKeys, ttl \in Lifetimes : ks # {} /\ BeginSet(u, ks, ttl)
             \/ \E k \in CacheKeys : GetExpired(u, k)
             \/ BeginSweep(u)
      PROVE  MemoryTypeOK' /\ MemoryInv' /\ SparesLive
  <2>1. MemoryTypeOK' /\ MemoryInv' /\ expiry' = expiry
    BY <1>2, LookInv
  <2> QED
    BY <2>1 DEF SparesLive
<1>3. ASSUME NEW u \in Users, SetEntries(u) \/ EvictExpired(u) \/ Sweep(u)
      PROVE  MemoryTypeOK' /\ MemoryInv' /\ SparesLive
  BY <1>3, SetEntriesInv, ExpireInv
<1>4. CASE (\E ks \in SUBSET CacheKeys : DeleteKeys(ks)) \/ Close \/ ClockTick
  <2>1. MemoryTypeOK' /\ MemoryInv'
    BY <1>4, DeleteKeysInv, CloseInv, ClockTickInv
  <2>2. use' = use
    BY <1>4 DEF DeleteKeys, Close, ClockTick
  <2> QED
    BY <2>1, <2>2 DEF SparesLive
<1> QED
  BY <1>1, <1>2, <1>3, <1>4 DEF MemoryNext

\* The map and the order of the in-process cache are one structure, at every step.
THEOREM MemoryInvCorrect == MemorySpec => [](MemoryTypeOK /\ MemoryInv)
<1>1. MemoryTypeOK /\ MemoryInv /\ [MemoryNext]_memoryVars => MemoryTypeOK' /\ MemoryInv'
  BY MemoryStepInv
<1> QED
  BY <1>1, MemoryInitInv, PTL DEF MemorySpec

\* The order lists exactly the entries, the limit holds, Close leaves no nil map to
\* write to, and expiry takes no live entry: cache/memory, whatever interleaves.
THEOREM MemorySoundCorrect == MemorySpec => MemorySound
<1>1. MemoryTypeOK /\ MemoryInv => OrderMatchesEntries /\ WithinLimit /\ NoWriteAfterClose
  <2> SUFFICES ASSUME MemoryTypeOK, MemoryInv
               PROVE  OrderMatchesEntries /\ WithinLimit /\ NoWriteAfterClose
    OBVIOUS
  <2>1. Cardinality(Present) = Len(order)
    BY EntriesCounted DEF MemoryInv
  <2> QED
    BY <2>1 DEF MemoryInv, WithinLimit
<1>2. MemoryTypeOK /\ MemoryInv /\ [MemoryNext]_memoryVars => [SparesLive]_memoryVars
  BY MemoryStepInv
<1>3. MemorySpec => [](OrderMatchesEntries /\ WithinLimit /\ NoWriteAfterClose)
  BY <1>1, MemoryInvCorrect, PTL
<1>4. MemorySpec => [][SparesLive]_memoryVars
  BY <1>2, MemoryInvCorrect, PTL DEF MemorySpec
<1>5. ExpirySparesLive <=> [][SparesLive]_memoryVars
  BY PTL DEF ExpirySparesLive, SparesLive
<1> QED
  BY <1>3, <1>4, <1>5, PTL DEF MemorySound
===============================================================================
