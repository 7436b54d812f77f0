-------------------------------- MODULE Topics --------------------------------
(***************************************************************************)
(* Query results cached under topics: pg/topics.go, and the entity's       *)
(* queries and writes that use it (pg/entity.go).  The key of a cached     *)
(* answer embeds the generations of the topics the query depends on;       *)
(* a write deletes the generations of the topics it touched.               *)
(*                                                                         *)
(* The table is one row, kept as the value of the column the queries       *)
(* filter by.  A query is one value, or "all"; its answer is what the      *)
(* committed row makes it.  The flight that joins readers of one key is    *)
(* left out: a joiner gets the answer stored under its own key.            *)
(***************************************************************************)
EXTENDS Naturals, FiniteSets

CONSTANTS
    Readers,
    Writers,
    Columns,   \* values of the column
    NoRow,
    MaxGen,    \* bound on the generations minted for a topic
    MaxQueries,
    MaxWrites,
    MaxLost    \* bound on failing backend calls and on evicted generations

ASSUME ColumnAssumption == NoRow \notin Columns /\ {"any", "unscoped", "all"} \cap Columns = {}
ASSUME TopicBounds == {MaxGen, MaxQueries, MaxWrites, MaxLost} \subseteq Nat

VARIABLES
    row,      \* the committed row: its column, or NoRow
    gen,      \* gen[t]: the generation stored for topic t, 0 when there is none
    minted,   \* minted[t]: generations of topic t minted so far
    answers,  \* cached answers: query, stamp, answer
    reader,   \* reader[r]: what r is doing
    writer,   \* writer[w]: what w is doing
    queries,
    writes,
    lost,
    unheard,  \* history: an invalidation failed, which the entity swallows
    suspect   \* history: topics and generations that were in place when a transaction
              \* that had invalidated the topic committed

topicVars == <<row, gen, minted, answers, reader, writer, queries, writes, lost, unheard, suspect>>

TopicSet == {"any", "unscoped"} \cup Columns
Queries  == {"all"} \cup Columns

\* The rule for declaring topics (DependsOn).
DependsOn(q) == IF q = "all" THEN {"any"} ELSE {"unscoped", q}

Answer(q) == IF q = "all" THEN row ELSE IF row = q THEN q ELSE NoRow

\* A stamp is the generations of the topics a query depends on, 0 for the others.
Stamps == [TopicSet -> 0..MaxGen]
NoStamp == [t \in TopicSet |-> 0]

Reader == [step : {"idle", "stamp", "mint", "lookup", "query", "store"},
           query : Queries, stamp : Stamps, fresh : SUBSET TopicSet, answer : Columns \cup {NoRow}]
Writer == [step : {"idle", "invalidate", "open"}, tx : BOOLEAN,
           row : Columns \cup {NoRow}, topics : SUBSET TopicSet]

IdleReader == [step |-> "idle", query |-> "all", stamp |-> NoStamp, fresh |-> {}, answer |-> NoRow]
IdleWriter == [step |-> "idle", tx |-> FALSE, row |-> NoRow, topics |-> {}]

TopicsTypeOK ==
    /\ row \in Columns \cup {NoRow}
    /\ gen \in Stamps
    /\ minted \in Stamps
    /\ answers \subseteq [query : Queries, stamp : Stamps, answer : Columns \cup {NoRow}]
    /\ reader \in [Readers -> Reader]
    /\ writer \in [Writers -> Writer]
    /\ queries \in 0..MaxQueries
    /\ writes \in 0..MaxWrites
    /\ lost \in 0..MaxLost
    /\ unheard \in BOOLEAN
    /\ suspect \subseteq TopicSet \X (1..MaxGen)

TopicsInit ==
    /\ row \in Columns \cup {NoRow}
    /\ gen = NoStamp
    /\ minted = NoStamp
    /\ answers = {}
    /\ reader = [r \in Readers |-> IdleReader]
    /\ writer = [w \in Writers |-> IdleWriter]
    /\ queries = 0
    /\ writes = 0
    /\ lost = 0
    /\ unheard = FALSE
    /\ suspect = {}

Lose == lost < MaxLost /\ lost' = lost + 1

-------------------------------------------------------------------------------
(***************************************************************************)
(* EntityQuery.All and One.                                                *)
(***************************************************************************)

ReaderUnchanged == UNCHANGED <<row, writer, writes, unheard, suspect>>

BeginQuery(r, q) ==
    /\ reader[r].step = "idle" /\ queries < MaxQueries
    /\ queries' = queries + 1
    /\ reader' = [reader EXCEPT ![r] = [IdleReader EXCEPT !.step = "stamp", !.query = q]]
    /\ ReaderUnchanged /\ UNCHANGED <<gen, minted, answers, lost>>

\* A value topic t never had.
newGeneration(t) == minted[t] + 1

\* generations: the missing ones get a new value each.
ReadGenerations(r) ==
    LET deps    == DependsOn(reader[r].query)
        missing == {t \in deps : gen[t] = 0}
    IN  /\ reader[r].step = "stamp"
        /\ \A t \in missing : minted[t] < MaxGen
        /\ reader' = [reader EXCEPT
               ![r].stamp = [t \in TopicSet |-> IF t \in missing THEN newGeneration(t)
                                                ELSE IF t \in deps THEN gen[t] ELSE 0],
               ![r].fresh = missing,
               ![r].step = IF missing = {} THEN "lookup" ELSE "mint"]
        /\ minted' = [t \in TopicSet |-> IF t \in missing THEN newGeneration(t) ELSE minted[t]]
        /\ ReaderUnchanged /\ UNCHANGED <<gen, answers, queries, lost>>

\* The backend has no answer: the query goes to the database and caches nothing.
Bypass(r) ==
    /\ reader[r].step = "stamp"
    /\ Lose
    /\ reader' = [reader EXCEPT ![r] = IdleReader]
    /\ ReaderUnchanged /\ UNCHANGED <<gen, minted, answers, queries>>

\* The new generations are stored, over what another reader may have stored.
Mint(r) ==
    /\ reader[r].step = "mint"
    /\ gen' = [t \in TopicSet |-> IF t \in reader[r].fresh THEN reader[r].stamp[t] ELSE gen[t]]
    /\ reader' = [reader EXCEPT ![r].step = "lookup", ![r].fresh = {}]
    /\ ReaderUnchanged /\ UNCHANGED <<minted, answers, queries, lost>>

\* Best effort: the stamp is used all the same.
MintFails(r) ==
    /\ reader[r].step = "mint"
    /\ Lose
    /\ reader' = [reader EXCEPT ![r].step = "lookup", ![r].fresh = {}]
    /\ ReaderUnchanged /\ UNCHANGED <<gen, minted, answers, queries>>

Lookup(r) ==
    /\ reader[r].step = "lookup"
    /\ reader' = [reader EXCEPT ![r] =
           IF \E e \in answers : e.query = @.query /\ e.stamp = @.stamp
           THEN IdleReader ELSE [@ EXCEPT !.step = "query"]]
    /\ ReaderUnchanged /\ UNCHANGED <<gen, minted, answers, queries, lost>>

QueryDB(r) ==
    /\ reader[r].step = "query"
    /\ reader' = [reader EXCEPT ![r].answer = Answer(reader[r].query), ![r].step = "store"]
    /\ ReaderUnchanged /\ UNCHANGED <<gen, minted, answers, queries, lost>>

Store(r) ==
    LET q == reader[r].query
        s == reader[r].stamp
    IN  /\ reader[r].step = "store"
        /\ answers' = {e \in answers : ~(e.query = q /\ e.stamp = s)} \cup
                      {[query |-> q, stamp |-> s, answer |-> reader[r].answer]}
        /\ reader' = [reader EXCEPT ![r] = IdleReader]
        /\ ReaderUnchanged /\ UNCHANGED <<gen, minted, queries, lost>>

-------------------------------------------------------------------------------
(***************************************************************************)
(* Create, Update, Save, Delete and Patch: on their own, or inside a       *)
(* transaction that commits later, whose row lock keeps other writers out. *)
(***************************************************************************)

WriterUnchanged == UNCHANGED <<minted, answers, reader, queries>>

\* Mutant: an update names the value it wrote.
TouchesNewValue(old, new) == IF new = NoRow THEN {"any", "unscoped"} ELSE {"any", new}

\* invalidateTopics of a create, invalidateTopicsConservatively of the others.
Touches(old, new) == IF old = NoRow THEN {"any", new} ELSE {"any", "unscoped"}

RowUnlocked == \A w \in Writers : ~(writer[w].tx /\ writer[w].step # "idle")

Write(w, new, tx) ==
    /\ writer[w].step = "idle" /\ writes < MaxWrites
    /\ RowUnlocked
    /\ row # NoRow \/ new # NoRow
    /\ writes' = writes + 1
    /\ writer' = [writer EXCEPT ![w] = [step |-> "invalidate", tx |-> tx, row |-> new,
                                        topics |-> Touches(row, new)]]
    /\ row' = IF tx THEN row ELSE new
    /\ WriterUnchanged /\ UNCHANGED <<gen, lost, unheard, suspect>>

AfterInvalidate(w) ==
    writer' = [writer EXCEPT ![w] = IF @.tx THEN [@ EXCEPT !.step = "open"] ELSE IdleWriter]

Invalidate(w) ==
    /\ writer[w].step = "invalidate"
    /\ gen' = [t \in TopicSet |-> IF t \in writer[w].topics THEN 0 ELSE gen[t]]
    /\ AfterInvalidate(w)
    /\ WriterUnchanged /\ UNCHANGED <<row, writes, lost, unheard, suspect>>

InvalidateFails(w) ==
    /\ writer[w].step = "invalidate"
    /\ Lose
    /\ unheard' = TRUE
    /\ AfterInvalidate(w)
    /\ WriterUnchanged /\ UNCHANGED <<row, gen, writes, suspect>>

Commit(w) ==
    /\ writer[w].step = "open"
    /\ row' = writer[w].row
    /\ suspect' = suspect \cup {<<t, gen[t]>> : t \in {u \in writer[w].topics : gen[u] # 0}}
    /\ writer' = [writer EXCEPT ![w] = IdleWriter]
    /\ WriterUnchanged /\ UNCHANGED <<gen, writes, lost, unheard>>

Rollback(w) ==
    /\ writer[w].step \in {"invalidate", "open"} /\ writer[w].tx
    /\ writer' = [writer EXCEPT ![w] = IdleWriter]
    /\ WriterUnchanged /\ UNCHANGED <<row, gen, writes, lost, unheard, suspect>>

\* A generation expires or is evicted by the backend.
Expire(t) ==
    /\ gen[t] # 0
    /\ Lose
    /\ gen' = [gen EXCEPT ![t] = 0]
    /\ UNCHANGED <<row, minted, answers, reader, writer, queries, writes, unheard, suspect>>

-------------------------------------------------------------------------------
TopicsNext ==
    \/ \E r \in Readers :
          \/ \E q \in Queries : BeginQuery(r, q)
          \/ ReadGenerations(r) \/ Bypass(r) \/ Mint(r) \/ MintFails(r)
          \/ Lookup(r) \/ QueryDB(r) \/ Store(r)
    \/ \E w \in Writers :
          \/ \E new \in Columns \cup {NoRow}, tx \in BOOLEAN : Write(w, new, tx)
          \/ Invalidate(w) \/ InvalidateFails(w) \/ Commit(w) \/ Rollback(w)
    \/ \E t \in TopicSet : Expire(t)

TopicsSpec == TopicsInit /\ [][TopicsNext]_topicVars

-------------------------------------------------------------------------------
(***************************************************************************)
(* Properties.                                                             *)
(***************************************************************************)

\* A reader that starts now can compute the key of e.
Reachable(e) == \A t \in DependsOn(e.query) : gen[t] # 0 /\ e.stamp[t] = gen[t]

\* No cached answer that can still be found is wrong once the write that made it
\* wrong has invalidated its topics, however readers mint generations, query and
\* store meanwhile.  The exceptions: the invalidation failed, or the write's
\* transaction committed after it and the generation was already in place.
NoStaleAnswer ==
    \A e \in answers :
        Reachable(e) /\ e.answer # Answer(e.query) =>
            \/ \E w \in Writers : writer[w].step = "invalidate" /\ ~writer[w].tx
            \/ unheard
            \/ \E t \in DependsOn(e.query) : <<t, e.stamp[t]>> \in suspect
===============================================================================
