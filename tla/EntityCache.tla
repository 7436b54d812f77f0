----------------------------- MODULE EntityCache -----------------------------
(***************************************************************************)
(* The primary-key cache of an entity: pg/cache.go with the Get, Create,   *)
(* Update, Delete and Patch of pg/entity.go and pg/patch.go.  Get goes     *)
(* through the cache and a single flight per key; a write puts its row     *)
(* into the cache (refreshPK) or removes the entry (invalidatePK).         *)
(*                                                                         *)
(* One row, kept as the number of the write that made it.  Every call to   *)
(* the cache or to the database is a step, and any call to the cache may   *)
(* fail: a failed read is a miss, and the errors of Set and Delete are     *)
(* dropped.  Writers work on their own or inside a transaction that ends   *)
(* later; the row lock lets one of those in at a time.                     *)
(***************************************************************************)
EXTENDS Naturals

CONSTANTS
    Getters,
    Updaters,
    MaxRow,      \* bound on the writes
    MaxGets,
    MaxTrouble   \* bound on queries that fail or panic

ASSUME EntityBounds == {MaxRow, MaxGets, MaxTrouble} \subseteq Nat /\ MaxRow > 0

VARIABLES
    stored,    \* the committed row, 0 for none
    entry,     \* the cached row, 0 for no entry
    get,       \* get[g]: the Get of g
    group,     \* the key's sfCall in the group's map: "none", "open", "done"
    write,     \* write[u]: the write of u
    wrote,     \* writes so far
    gets,
    trouble,
    overtaken, \* history: the rows somebody was to cache, or had cached, while they were replaced
    leaked,    \* history: the rows cached by transactions that have not committed
    outlived,  \* history: the rows that stayed cached because the call after a write failed
    panicked   \* history: fn panicked

entityVars == <<stored, entry, get, group, write, wrote, gets, trouble,
                overtaken, leaked, outlived, panicked>>

GetState == [step : {"idle", "read", "do", "wait", "woken", "recheck", "query", "fill", "done",
                     "unlink"}, row : 0..MaxRow]
WriteState == [step : {"idle", "cache", "open", "unheard"}, tx : BOOLEAN, drops : BOOLEAN,
               row : 0..MaxRow]

NoGet   == [step |-> "idle", row |-> 0]
NoWrite == [step |-> "idle", tx |-> FALSE, drops |-> FALSE, row |-> 0]

EntityTypeOK ==
    /\ stored \in 0..MaxRow /\ entry \in 0..MaxRow /\ wrote \in 0..MaxRow
    /\ get \in [Getters -> GetState]
    /\ group \in {"none", "open", "done"}
    /\ write \in [Updaters -> WriteState]
    /\ gets \in 0..MaxGets
    /\ trouble \in 0..MaxTrouble
    /\ {overtaken, leaked, outlived} \subseteq SUBSET (0..MaxRow)
    /\ panicked \in BOOLEAN

EntityInit ==
    /\ stored = 1 /\ entry = 0 /\ wrote = 1
    /\ get = [g \in Getters |-> NoGet]
    /\ group = "none"
    /\ write = [u \in Updaters |-> NoWrite]
    /\ gets = 0
    /\ trouble = 0
    /\ overtaken = {} /\ leaked = {} /\ outlived = {}
    /\ panicked = FALSE

-------------------------------------------------------------------------------
(***************************************************************************)
(* Get.                                                                    *)
(***************************************************************************)

GetterUnchanged == UNCHANGED <<stored, write, wrote, overtaken, leaked, outlived>>

To(g, s) == get' = [get EXCEPT ![g].step = s]

\* readPK: a backend error is a miss.
Hits == {entry # 0, FALSE}

BeginGet(g) ==
    /\ get[g].step = "idle" /\ gets < MaxGets
    /\ gets' = gets + 1
    /\ To(g, "read")
    /\ GetterUnchanged /\ UNCHANGED <<entry, group, trouble, panicked>>

ReadPK(g) ==
    /\ get[g].step = "read"
    /\ \E hit \in Hits : To(g, IF hit THEN "idle" ELSE "do")
    /\ GetterUnchanged /\ UNCHANGED <<entry, group, gets, trouble, panicked>>

\* Mutant: each caller runs fn for itself.
RunAlone(g) ==
    /\ get[g].step = "do"
    /\ To(g, "recheck") /\ group' = "open"
    /\ GetterUnchanged /\ UNCHANGED <<entry, gets, trouble, panicked>>

EnterGroup(g) ==
    /\ get[g].step = "do"
    /\ IF group = "none"
       THEN To(g, "recheck") /\ group' = "open"
       ELSE To(g, IF group = "done" THEN "woken" ELSE "wait") /\ UNCHANGED group
    /\ GetterUnchanged /\ UNCHANGED <<entry, gets, trouble, panicked>>

GetWoken(g) ==
    /\ get[g].step = "woken"
    /\ To(g, "idle")
    /\ GetterUnchanged /\ UNCHANGED <<entry, group, gets, trouble, panicked>>

RecheckPK(g) ==
    /\ get[g].step = "recheck"
    /\ \E hit \in Hits : To(g, IF hit THEN "done" ELSE "query")
    /\ GetterUnchanged /\ UNCHANGED <<entry, group, gets, trouble, panicked>>

QueryRow(g) ==
    /\ get[g].step = "query"
    /\ get' = [get EXCEPT ![g] = IF stored = 0 THEN [step |-> "done", row |-> 0]
                                               ELSE [step |-> "fill", row |-> stored]]
    /\ GetterUnchanged /\ UNCHANGED <<entry, group, gets, trouble, panicked>>

\* Mutant: a failed query returns before the waiters are told.
ErrorSkipsDone(g) ==
    /\ get[g].step = "query"
    /\ trouble < MaxTrouble /\ trouble' = trouble + 1
    /\ To(g, "idle")
    /\ GetterUnchanged /\ UNCHANGED <<entry, group, gets, panicked>>

\* The error is shared with the waiters.
QueryFails(g) ==
    /\ get[g].step = "query"
    /\ trouble < MaxTrouble /\ trouble' = trouble + 1
    /\ To(g, "done")
    /\ GetterUnchanged /\ UNCHANGED <<entry, group, gets, panicked>>

\* do has no deferred teardown: the call stays in the map.
QueryPanics(g) ==
    /\ get[g].step = "query"
    /\ trouble < MaxTrouble /\ trouble' = trouble + 1
    /\ panicked' = TRUE
    /\ To(g, "idle")
    /\ GetterUnchanged /\ UNCHANGED <<entry, group, gets>>

\* writeKey's error is dropped.
FillPK(g) ==
    /\ get[g].step = "fill"
    /\ entry' \in {get[g].row, entry}
    /\ get' = [get EXCEPT ![g] = [step |-> "done", row |-> 0]]
    /\ GetterUnchanged /\ UNCHANGED <<group, gets, trouble, panicked>>

\* wg.Done, and then the removal from the map.
GroupDone(g) ==
    /\ get[g].step = "done"
    /\ group' = "done"
    /\ get' = [h \in Getters |-> IF h = g THEN [get[h] EXCEPT !.step = "unlink"]
                                 ELSE IF get[h].step = "wait" THEN [get[h] EXCEPT !.step = "woken"]
                                 ELSE get[h]]
    /\ GetterUnchanged /\ UNCHANGED <<entry, gets, trouble, panicked>>

LeaveGroup(g) ==
    /\ get[g].step = "unlink"
    /\ group' = "none"
    /\ To(g, "idle")
    /\ GetterUnchanged /\ UNCHANGED <<entry, gets, trouble, panicked>>

-------------------------------------------------------------------------------
(***************************************************************************)
(* Writes.                                                                 *)
(***************************************************************************)

UpdaterUnchanged == UNCHANGED <<get, group, gets, trouble, panicked>>

\* The rows that somebody else is about to cache.
HeldRows(u) ==
    {get[g].row : g \in {h \in Getters : get[h].step = "fill"}} \cup
    {write[v].row : v \in {w \in Updaters \ {u} : write[w].step = "cache" /\ ~write[w].drops}}

Locked == \E u \in Updaters : write[u].tx /\ write[u].step # "idle"

\* Create, Update and Save cache the row they wrote; Delete and Patch drop the
\* entry, also when the row is gone.
WriteRow(u, method, tx) ==
    LET new == IF method = "delete" \/ (method = "patch" /\ stored = 0) THEN 0 ELSE wrote + 1 IN
    /\ write[u].step = "idle" /\ wrote < MaxRow /\ ~Locked
    /\ wrote' = wrote + 1
    /\ write' = [write EXCEPT ![u] = [step |-> "cache", tx |-> tx, drops |-> method # "save",
                                      row |-> new]]
    /\ stored' = IF tx THEN stored ELSE new
    /\ overtaken' = IF tx THEN overtaken ELSE overtaken \cup HeldRows(u)
    /\ UpdaterUnchanged /\ UNCHANGED <<entry, leaked, outlived>>

Cached(u) ==
    /\ write' = [write EXCEPT ![u] = IF @.tx THEN [@ EXCEPT !.step = "open"] ELSE NoWrite]
    /\ UNCHANGED outlived

\* The call to the cache failed, and its error is dropped: what was cached stays.
Unheard(u) ==
    /\ write' = [write EXCEPT ![u] = IF @.tx THEN [@ EXCEPT !.step = "unheard"] ELSE NoWrite]
    /\ outlived' = IF write[u].tx THEN outlived ELSE outlived \cup ({entry} \ {0, stored})
    /\ UNCHANGED <<entry, leaked>>

refreshPK(u) ==
    /\ write[u].step = "cache" /\ ~write[u].drops
    /\ \/ /\ entry' = write[u].row
          /\ leaked' = IF write[u].tx THEN leaked \cup {write[u].row} ELSE leaked
          /\ Cached(u)
       \/ Unheard(u)
    /\ UpdaterUnchanged /\ UNCHANGED <<stored, wrote, overtaken>>

\* Mutant: the patched row's entry is left alone.
KeepsEntry(u) ==
    /\ write[u].step = "cache" /\ write[u].drops
    /\ Cached(u)
    /\ UpdaterUnchanged /\ UNCHANGED <<entry, stored, wrote, overtaken, leaked>>

invalidatePK(u) ==
    /\ write[u].step = "cache" /\ write[u].drops
    /\ \/ entry' = 0 /\ Cached(u) /\ UNCHANGED leaked
       \/ Unheard(u)
    /\ UpdaterUnchanged /\ UNCHANGED <<stored, wrote, overtaken>>

\* What is cached by now is the old row: read and cached by somebody since the
\* write, or left there by the write's own failed call.
CommitRow(u) ==
    LET old == {entry} \ {0, write[u].row} IN
    /\ write[u].step \in {"open", "unheard"}
    /\ stored' = write[u].row
    /\ leaked' = leaked \ {write[u].row}
    /\ IF write[u].step = "open"
       THEN overtaken' = overtaken \cup HeldRows(u) \cup old /\ UNCHANGED outlived
       ELSE overtaken' = overtaken \cup HeldRows(u) /\ outlived' = outlived \cup old
    /\ write' = [write EXCEPT ![u] = NoWrite]
    /\ UpdaterUnchanged /\ UNCHANGED <<entry, wrote>>

RollbackRow(u) ==
    /\ write[u].step \in {"cache", "open", "unheard"} /\ write[u].tx
    /\ write' = [write EXCEPT ![u] = NoWrite]
    /\ UpdaterUnchanged /\ UNCHANGED <<stored, entry, wrote, overtaken, leaked, outlived>>

\* The backend evicts the entry, or its TTL passes.
EvictPK ==
    /\ entry # 0
    /\ entry' = 0
    /\ UNCHANGED <<stored, get, group, write, wrote, gets, trouble, overtaken, leaked, outlived,
                   panicked>>

-------------------------------------------------------------------------------
EntityNext ==
    \/ \E g \in Getters :
          \/ BeginGet(g) \/ ReadPK(g) \/ EnterGroup(g) \/ GetWoken(g) \/ RecheckPK(g)
          \/ QueryRow(g) \/ QueryFails(g) \/ QueryPanics(g) \/ FillPK(g)
          \/ GroupDone(g) \/ LeaveGroup(g)
    \/ \E u \in Updaters :
          \/ \E method \in {"save", "patch", "delete"}, tx \in BOOLEAN : WriteRow(u, method, tx)
          \/ refreshPK(u) \/ invalidatePK(u) \/ CommitRow(u) \/ RollbackRow(u)
    \/ EvictPK

EntitySpec == EntityInit /\ [][EntityNext]_entityVars

-------------------------------------------------------------------------------
(***************************************************************************)
(* Properties.                                                             *)
(***************************************************************************)

\* The cached row is the committed one, except between a write and its call to
\* the cache, or when that very row was left there by one of the three things the
\* code does not prevent: it was read or written before another write and cached
\* after it; it was cached by a transaction that has not committed; or the call to
\* the cache that should have replaced it failed and its error was dropped.
CachedRowCurrent ==
    entry \notin {0, stored} =>
        \/ entry \in overtaken \cup leaked \cup outlived
        \/ \E u \in Updaters : write[u].step = "cache" /\ ~write[u].tx

\* A herd of misses is one query: one getter at a time is past the group's door.
OneQuery ==
    \A g, h \in Getters :
        get[g].step \in {"query", "fill"} /\ get[h].step \in {"query", "fill"} => g = h

\* Whoever waits for a flight waits for somebody who is still in it, unless fn
\* panicked: then the call is never taken out of the map.
NobodyWaitsForNobody ==
    (\E g \in Getters : get[g].step = "wait") /\ ~panicked =>
        \E h \in Getters : get[h].step \in {"recheck", "query", "fill", "done"}

\* The group runs one query for a herd, and lets everybody go, its errors included.
GroupSound == OneQuery /\ NobodyWaitsForNobody
===============================================================================
