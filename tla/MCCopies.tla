------------------------------- MODULE MCCopies -------------------------------
(***************************************************************************)
(* Instances for TLC of the modules about copies of the data: the tiered   *)
(* and the in-memory cache, the entity cache, the topics of cached         *)
(* queries, the verification of a mirror, the diff of two schemas and the  *)
(* MySQL outbox.  A behaviour exercises one of them, which Init picks; the *)
(* others stay where they start.                                           *)
(***************************************************************************)
EXTENDS Herds, MemoryCache, Topics, Verify, SchemaDiff, MySQLOutbox, TLC

CONSTANTS p1, p2, a, b, c, w1

VARIABLE system

MCCallers == {p1, p2}
MCColumns == {a, b}
MCKeys    == {a, b, c}
MCWriters == {w1}

\* What snapshots are made of: two tables and the keys between them; columns, an
\* enum, and what is built on columns; columns and views on views.
Obj(k, t, n, d, needs)    == [kind |-> k, table |-> t, name |-> n, def |-> d, needs |-> needs]
View(n, mat, body, needs) == Obj("view", 0, n, [mat |-> mat, body |-> body], needs)
TableA             == Obj("table", 1, 1, 0, {})
ColA1              == Obj("column", 1, 1, "int", {Id(TableA)})
ColA2(type, needs) == Obj("column", 1, 2, type, {Id(TableA)} \cup needs)
A1                 == Id(ColA1)
A2                 == <<"column", 1, 2>>
PK(n, cols)        == Obj("pk", 1, n, 0, cols)
FK(def, key)       == Obj("fk", 2, 1, def, {<<"column", 2, 3>>, key})

MCOutputs == [id |-> <<"id">>, x |-> <<"x">>, idx |-> <<"id", "x">>, v |-> <<"id">>]

MCFamilies ==
    {{TableA, ColA1, ColA2("int", {}), PK(1, {A1}), PK(2, {A1, A2}), Obj("unique", 1, 1, 0, {A1}),
      Obj("table", 2, 2, 0, {}), Obj("column", 2, 3, "int", {<<"table", 2, 2>>}),
      FK("cascade", <<"pk", 1, 1>>), FK("restrict", <<"pk", 1, 1>>), FK("cascade", <<"unique", 1, 1>>)},
     {TableA, ColA1, ColA2("int", {}), ColA2("enum", {<<"enum", 0, 1>>}), Obj("enum", 0, 1, 0, {}),
      Obj("index", 1, 1, "x", {A2}), Obj("index", 1, 1, "expr", {A2}), Obj("policy", 1, 1, "x", {A2}), Obj("check", 1, 1, 0, {A2})},
     {TableA, ColA1, ColA2("int", {}), ColA2("text", {}), View(2, FALSE, "id", {A1}), View(2, TRUE, "id", {A1}),
      View(2, FALSE, "x", {A2}), View(2, FALSE, "idx", {A1, A2}), View(1, FALSE, "v", {<<"view", 0, 2>>}), View(1, FALSE, "id", {A1})}}

Init ==
    /\ system \in {"tiered", "memory", "entity", "topics", "verify", "diff", "mysql"}
    /\ TieredInit /\ (system # "tiered" => l1ttl = 0 /\ life = 0)
    /\ MemoryInit /\ EntityInit
    /\ TopicsInit /\ (system # "topics" => row = NoRow)
    /\ VerifyInit /\ (system # "verify" => source = [k \in VKeys |-> 0])
    /\ IF system = "diff" THEN DiffInit
       ELSE /\ prev = {} /\ cur = {} /\ safe = FALSE
            /\ db = {} /\ todo = <<>> /\ outcome = "running" /\ reruns = 0
    /\ MySQLInit

others(mine) ==
    /\ mine # "tiered" => UNCHANGED tieredVars
    /\ mine # "memory" => UNCHANGED memoryVars
    /\ mine # "entity" => UNCHANGED entityVars
    /\ mine # "topics" => UNCHANGED topicVars
    /\ mine # "verify" => UNCHANGED verifyVars
    /\ mine # "diff"   => UNCHANGED diffVars
    /\ mine # "mysql"  => UNCHANGED myVars

Next ==
    /\ UNCHANGED system
    /\ \/ system = "tiered" /\ TieredNext
       \/ system = "memory" /\ MemoryNext
       \/ system = "entity" /\ EntityNext
       \/ system = "topics" /\ TopicsNext
       \/ system = "verify" /\ VerifyNext
       \/ system = "diff"   /\ DiffNext
       \/ system = "mysql"  /\ MySQLNext
    /\ others(system)

vars == <<system, tieredVars, memoryVars, entityVars, topicVars, verifyVars, diffVars, myVars>>

Spec == Init /\ [][Next]_vars

\* The diff alone.
DiffOnly == Init /\ system = "diff" /\ [][Next]_vars

\* Callers are alike.
Symmetry == Permutations(MCCallers)

\* The type invariant of the system at work; no lifetime handed to a tier is negative, and no id is given
\* to two rows at a time.
CopiesTypeOK ==
    CASE system = "tiered" -> TieredTypeOK
      [] system = "memory" -> MemoryTypeOK
      [] system = "entity" -> EntityTypeOK
      [] system = "topics" -> TopicsTypeOK
      [] system = "verify" -> VerifyTypeOK
      [] system = "diff"   -> DiffTypeOK
      [] system = "mysql"  -> MySQLTypeOK
===============================================================================
