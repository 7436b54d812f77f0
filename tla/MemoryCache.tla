----------------------------- MODULE MemoryCache -----------------------------
(***************************************************************************)
(* The in-process backend of cache/memory: a map under a read-write lock,  *)
(* expired entries dropped by Get and by the janitor, the oldest key       *)
(* dropped when the map is full, and a Close that takes the map away.      *)
(*                                                                         *)
(* A step is what happens between two acquisitions of the lock.  Of an     *)
(* entry the model keeps the expiry.                                       *)
(***************************************************************************)
EXTENDS Naturals, Sequences, FiniteSets, Functions

CONSTANTS
    Users,
    CacheKeys,
    MaxEntries,   \* the option; 0 for no limit
    Lifetimes,    \* ttl arguments, 0 for no expiry
    Forever,      \* the expiry of an entry that has none
    MaxClock

\* No expiry that Set computes is taken for none.
ASSUME MemoryAssumption ==
    /\ IsFiniteSet(CacheKeys) /\ {MaxEntries, MaxClock, Forever} \subseteq Nat
    /\ Lifetimes \subseteq Nat /\ \A ttl \in Lifetimes \cup {0} : MaxClock + ttl < Forever
    /\ 1 <= MaxClock

VARIABLES
    clock,
    expiry,  \* expiry[k]: the entry's, 0 when there is no entry
    order,   \* keys in the order they were inserted
    closed,
    use,     \* use[u]: the method u is in, after its first look at the cache
    fatal    \* a write to the nil map has taken the process down

memoryVars == <<clock, expiry, order, closed, use, fatal>>

UseState == [step : {"idle", "set", "evict", "sweep"}, keys : SUBSET CacheKeys, at : 0..Forever]
NoUse    == [step |-> "idle", keys |-> {}, at |-> 0]

Present   == {k \in CacheKeys : expiry[k] # 0}
Expired(e, t) == e # 0 /\ e # Forever /\ t > e

MemoryTypeOK ==
    /\ clock \in 0..MaxClock
    /\ expiry \in [CacheKeys -> 0..Forever]
    /\ order \in Seq(CacheKeys)
    /\ closed \in BOOLEAN /\ fatal \in BOOLEAN
    /\ use \in [Users -> UseState]

MemoryInit ==
    /\ clock = 1
    /\ expiry = [k \in CacheKeys |-> 0]
    /\ order = <<>>
    /\ closed = FALSE
    /\ use = [u \in Users |-> NoUse]
    /\ fatal = FALSE

-------------------------------------------------------------------------------
Enter(u, s) ==
    /\ use[u].step = "idle"
    /\ use' = [use EXCEPT ![u] = s]
    /\ UNCHANGED <<clock, expiry, order, closed, fatal>>

Leave(u) == use' = [use EXCEPT ![u] = NoUse]

\* removeFromOrder of each key in ks: the others keep their places.
removeFromOrder(s, ks) ==
    LET kept[i \in 0..Len(s)] == IF i = 0 THEN <<>>
                                 ELSE IF s[i] \in ks THEN kept[i - 1] ELSE Append(kept[i - 1], s[i])
    IN  kept[Len(s)]

\* The ways to append the keys of ks to s: a map is ranged over in any order.
Appended(s, ks) == {s \o p : p \in Bijection(1..Cardinality(ks), ks)}

\* Mutant: the limit is looked at before the insertion.
Overflowing(s) == IF MaxEntries > 0 /\ Len(s) > MaxEntries + 1 THEN Len(s) - MaxEntries - 1 ELSE 0

\* How many keys evictIfNeeded drops from the front of the order.
Overflow(s) == IF MaxEntries > 0 /\ Len(s) > MaxEntries THEN Len(s) - MaxEntries ELSE 0

\* Set and SetMulti: the guard, the clock, and then the lock.
BeginSet(u, ks, ttl) ==
    /\ ~closed
    /\ Enter(u, [step |-> "set", keys |-> ks, at |-> IF ttl = 0 THEN Forever ELSE clock + ttl])

\* Mutant: the guard is trusted.
StoreUnchecked(u) ==
    /\ use[u].step = "set"
    /\ fatal' = closed
    /\ \E s \in Appended(order, use[u].keys \ Present) :
           LET victims == {s[i] : i \in 1..Overflow(s)}
           IN  /\ order' = SubSeq(s, Overflow(s) + 1, Len(s))
               /\ expiry' = [k \in CacheKeys |-> IF k \in victims THEN 0
                                                 ELSE IF k \in use[u].keys THEN use[u].at
                                                 ELSE expiry[k]]
    /\ Leave(u)
    /\ UNCHANGED <<clock, closed>>

\* closed is looked at again under the lock; then the insertions and the evictions.
SetEntries(u) ==
    /\ use[u].step = "set"
    /\ IF closed
       THEN UNCHANGED <<expiry, order>>
       ELSE \E s \in Appended(order, use[u].keys \ Present) :
               LET victims == {s[i] : i \in 1..Overflow(s)}
               IN  /\ order' = SubSeq(s, Overflow(s) + 1, Len(s))
                   /\ expiry' = [k \in CacheKeys |-> IF k \in victims THEN 0
                                                     ELSE IF k \in use[u].keys THEN use[u].at
                                                     ELSE expiry[k]]
    /\ Leave(u)
    /\ UNCHANGED <<clock, closed, fatal>>

\* Get of an expired entry goes back for the write lock.
GetExpired(u, k) ==
    /\ ~closed /\ Expired(expiry[k], clock)
    /\ Enter(u, [step |-> "evict", keys |-> {k}, at |-> 0])

Drop(ks) ==
    /\ expiry' = [k \in CacheKeys |-> IF k \in ks THEN 0 ELSE expiry[k]]
    /\ order' = removeFromOrder(order, ks)

\* Mutant: the entry seen before is dropped, whatever is there now.
EvictUnchecked(u) ==
    /\ use[u].step = "evict"
    /\ Drop(use[u].keys)
    /\ Leave(u)
    /\ UNCHANGED <<clock, closed, fatal>>

EvictExpired(u) ==
    /\ use[u].step = "evict"
    /\ Drop({k \in use[u].keys : Expired(expiry[k], clock)})
    /\ Leave(u)
    /\ UNCHANGED <<clock, closed, fatal>>

\* The janitor: the time first, the lock later.
BeginSweep(u) == Enter(u, [step |-> "sweep", keys |-> {}, at |-> clock])

Sweep(u) ==
    /\ use[u].step = "sweep"
    /\ Drop({k \in CacheKeys : Expired(expiry[k], use[u].at)})
    /\ Leave(u)
    /\ UNCHANGED <<clock, closed, fatal>>

\* Mutant: the key stays in the order.
DeleteKeepsOrder(ks) ==
    /\ ks \cap Present # {}
    /\ expiry' = [k \in CacheKeys |-> IF k \in ks THEN 0 ELSE expiry[k]]
    /\ UNCHANGED <<clock, order, closed, use, fatal>>

\* Delete on a closed cache finds nothing, checked or not.
DeleteKeys(ks) ==
    /\ ks \cap Present # {}
    /\ Drop(ks)
    /\ UNCHANGED <<clock, closed, use, fatal>>

Close ==
    /\ ~closed
    /\ closed' = TRUE
    /\ expiry' = [k \in CacheKeys |-> 0]
    /\ order' = <<>>
    /\ UNCHANGED <<clock, use, fatal>>

ClockTick ==
    /\ clock < MaxClock
    /\ clock' = clock + 1
    /\ UNCHANGED <<expiry, order, closed, use, fatal>>

-------------------------------------------------------------------------------
MemoryNext ==
    \/ \E u \in Users :
          \/ \E ks \in SUBSET CacheKeys, ttl \in Lifetimes : ks # {} /\ BeginSet(u, ks, ttl)
          \/ \E k \in CacheKeys : GetExpired(u, k)
          \/ SetEntries(u) \/ EvictExpired(u) \/ BeginSweep(u) \/ Sweep(u)
    \/ \E ks \in SUBSET CacheKeys : DeleteKeys(ks)
    \/ Close \/ ClockTick

MemorySpec == MemoryInit /\ [][MemoryNext]_memoryVars

-------------------------------------------------------------------------------
(***************************************************************************)
(* Properties.                                                             *)
(***************************************************************************)

\* The insertion order lists exactly the keys that have an entry, once each:
\* a key left behind would evict a later entry of its name, one missing could
\* never be evicted.
OrderMatchesEntries ==
    /\ \A k \in CacheKeys : k \in Present <=> \E i \in 1..Len(order) : order[i] = k
    /\ \A i, j \in 1..Len(order) : order[i] = order[j] => i = j

\* The limit holds after every step, SetMulti's included.
WithinLimit == MaxEntries > 0 => Cardinality(Present) <= MaxEntries

\* A Close between Set's guard and its lock never leaves Set a nil map to write to.
NoWriteAfterClose == ~fatal

\* Expiry never costs a live entry: what a Get that saw the key expired, or the
\* janitor, takes out has expired, also when the key was set again meanwhile.
ExpirySparesLive ==
    [][\A u \in Users, k \in CacheKeys :
           use[u].step \in {"evict", "sweep"} /\ use'[u].step = "idle" /\ expiry'[k] # expiry[k] =>
               Expired(expiry[k], clock)]_memoryVars

\* Whatever Get's lazy eviction, the janitor and Close interleave with, the map and
\* the order stay one structure inside its limit, and lose no live entry.
MemorySound == [](OrderMatchesEntries /\ WithinLimit /\ NoWriteAfterClose) /\ ExpirySparesLive
===============================================================================
