------------------------------ MODULE SchemaDiff ------------------------------
(***************************************************************************)
(* pg/diff.go: the statements that take a database from the schema of one  *)
(* snapshot to that of another, run one by one on a PostgreSQL that drops  *)
(* what depends on a dropped table or column, and refuses what others      *)
(* still depend on.                                                        *)
(*                                                                         *)
(* A schema is a set of objects.  An object has a kind, the table it is    *)
(* on, a name, a definition, and the objects it needs, which the snapshot  *)
(* does not record and the server does.  Names are numbers, in the order   *)
(* of their spelling; a primary key's follows from its columns, by which   *)
(* the code matches it.  A column's definition is its type, a view's its   *)
(* body and whether it is materialized, an index's its columns, or "expr"  *)
(* when the snapshot kept none.  Defaults and nullability, enum labels,    *)
(* renames and row security flags are left out, as are sequences, which    *)
(* come and go where enums do.  The code groups the drops and the          *)
(* additions on tables that stay table by table; here they are grouped     *)
(* kind by kind, which no refusal tells apart.                             *)
(***************************************************************************)
EXTENDS Naturals, Sequences, FiniteSets, SequencesExt

CONSTANTS
    Families,   \* sets of objects that snapshots are made of
    Outputs,    \* Outputs[b]: the output columns of a view of body b, for the server alone
    MaxReruns   \* bound on runs that stop half-way and are started again

\* A schema is finite.  A table goes by its number and leans on nothing, as an enum
\* does; a column leans on its table, and on no more than that and its type.
ASSUME DiffAssumption ==
    /\ IsFiniteSet(UNION Families) /\ MaxReruns \in Nat
    /\ \A o \in UNION Families :
          /\ o.table \in Nat /\ o.name \in Nat
          /\ o.kind = "table" => o.name = o.table
          /\ o.kind \in {"table", "enum"} => o.needs = {}
          /\ o.kind = "column" => /\ <<"table", o.table, o.table>> \in o.needs
                                  /\ \A n \in o.needs : n = <<"table", o.table, o.table>> \/ n[1] = "enum"

VARIABLES
    prev, cur,  \* the two snapshots
    safe,       \* DiffOptions.Safe
    db,         \* what the database holds
    todo,       \* the statements still to run
    outcome,    \* "running", "done" or "refused"
    reruns

diffVars == <<prev, cur, safe, db, todo, outcome, reruns>>

Id(o)     == <<o.kind, o.table, o.name>>
Ids(S)    == {Id(o) : o \in S}
Of(S, k)  == {o \in S : o.kind = k}
Tables(S) == {o.table : o \in Of(S, "table")}

\* The schemas that a server can hold.
Snapshots(F) ==
    {S \in SUBSET F :
        /\ \A o \in S : o.needs \subseteq Ids(S)
        /\ \A o, p \in S : Id(o) = Id(p) \/ (o.kind = "pk" /\ p.kind = "pk" /\ o.table = p.table) => o = p}

DiffTypeOK ==
    /\ prev \cup cur \cup db \subseteq UNION Families /\ safe \in BOOLEAN
    /\ \A i \in DOMAIN todo : todo[i] \in [do : {"create", "drop", "alter", "replace"}, obj : UNION Families]
    /\ outcome \in {"running", "done", "refused"} /\ reruns \in 0..MaxReruns

-------------------------------------------------------------------------------
(***************************************************************************)
(* Diff.                                                                   *)
(***************************************************************************)

Alike(o, p) == Id(o) = Id(p) /\ o.def = p.def

\* survivingTables and sortedKeys: table by table, by name.
Before(p, o) == p.table < o.table \/ (p.table = o.table /\ p.name < o.name)
Sorted(S) == [i \in 1..Cardinality(S) |-> CHOOSE o \in S : Cardinality({p \in S : Before(p, o)}) = i - 1]

Each(verb, objs) == [i \in 1..Len(objs) |-> [do |-> verb, obj |-> objs[i]]]

\* dropPolicies, dropUniques, dropPrimaryKey, dropChecks, dropIndexes and
\* dropForeignKeys: what is gone or defined anew, on the tables that stay.
Drops(k) ==
    Each("drop", Sorted({o \in Of(prev, k) : /\ o.table \in Tables(cur)
                                              /\ ~\E p \in cur : Alike(o, p)}))

\* An index with an expression among its elements: addIndexes has no columns to put
\* between the parentheses and passes over it.
OnExpression(o) == o.kind = "index" /\ o.def = "expr"

Missing(k) == {o \in Of(cur, k) : ~\E p \in prev : Alike(o, p)}

\* addUniques, addPrimaryKey, addChecks, addForeignKeys, addIndexes, addPolicies
Adds(k) == Each("create", Sorted({o \in Missing(k) : ~OnExpression(o)}))

\* Tables and enums that only one side names.
Removed(k) == Each("drop", Sorted({o \in Of(prev, k) : Id(o) \notin Ids(cur)}))
Created(k) == Each("create", Sorted({o \in Of(cur, k) : Id(o) \notin Ids(prev)}))

\* SET DATA TYPE
alterColumns ==
    Each("alter", Sorted({o \in Of(cur, "column") : \E p \in prev : Id(o) = Id(p) /\ o.def # p.def}))

survivingTables == Tables(prev) \cap Tables(cur)

dropColumns == Each("drop", Sorted({o \in Of(prev, "column") : o.table \in survivingTables /\ Id(o) \notin Ids(cur)}))
addColumns  == Each("create", Sorted({o \in Of(cur, "column") : o.table \in survivingTables /\ Id(o) \notin Ids(prev)}))

\* Mutant: only a column that goes is in a view's way.
OnlyDropsBlock ==
    \E o \in Of(prev, "column") : o.table \in survivingTables /\ Id(o) \notin Ids(cur)

columnWorkAViewCanBlock ==
    \E o \in Of(prev, "column") : o.table \in survivingTables /\ ~\E p \in cur : Alike(o, p)

\* The pending views that mention no other of them; of those the next by name, in a
\* sweep that is past at, or else in the sweep after it.
Ready(V) == {v \in V : v.needs \cap Ids(V \ {v}) = {}}
NextView(V, at) ==
    LET ahead == {v \in Ready(V) : v.name > at}
        among == IF ahead # {} THEN ahead ELSE Ready(V)
    IN  CHOOSE v \in among : \A w \in among : v.name <= w.name

\* The views of V after those that they mention; what no sweep can place, at the end.
viewOrder[V \in SUBSET Of(UNION Families, "view")] ==
    [at \in Nat |-> IF Ready(V) = {} THEN Sorted(V)
                    ELSE LET v == NextView(V, at) IN <<v>> \o viewOrder[V \ {v}][v.name]]

\* What Statements says of each view, one after the other.
ForEach(views, Statements(_)) == FlattenSeq([i \in 1..Len(views) |-> Statements(views[i])])

diffViewsDrop ==
    LET drop(v) == IF Id(v) \notin Ids(cur) \/ columnWorkAViewCanBlock THEN <<[do |-> "drop", obj |-> v]>> ELSE <<>>
    IN  ForEach(Reverse(viewOrder[Of(prev, "view")][0]), drop)

\* A view that stays, its materialization or its body changed.
ViewChanged(old, new) ==
    IF old.def.mat # new.def.mat \/ (old.def # new.def /\ new.def.mat)
    THEN <<[do |-> "drop", obj |-> old], [do |-> "create", obj |-> new]>>
    ELSE IF old.def # new.def THEN <<[do |-> "replace", obj |-> new]>> ELSE <<>>

diffViewsCreate ==
    LET create(new) == IF Id(new) \notin Ids(prev) \/ columnWorkAViewCanBlock
                       THEN <<[do |-> "create", obj |-> new]>>
                       ELSE ViewChanged(CHOOSE o \in prev : Id(o) = Id(new), new)
    IN  ForEach(viewOrder[Of(cur, "view")][0], create)


Diff ==
    diffViewsDrop \o Created("enum")
    \o Drops("fk") \o Removed("table") \o Created("table")
    \o Drops("policy") \o Drops("unique") \o Drops("pk") \o Drops("check") \o Drops("index")
    \o dropColumns \o addColumns \o alterColumns
    \o Adds("unique") \o Adds("pk") \o Adds("check") \o Adds("fk") \o Adds("index")
    \o Removed("enum") \o diffViewsCreate \o Adds("policy")

-------------------------------------------------------------------------------
(***************************************************************************)
(* PostgreSQL.                                                             *)
(***************************************************************************)

Dependents(S) == {d \in db : d.needs \cap Ids(S) # {}}

\* DROP TABLE ... CASCADE takes all that depends on the table, DROP COLUMN the
\* constraints and indexes of its table, any other drop nothing.
Cascade(S) == S \cup Dependents(S)
Taken(o) ==
    CASE o.kind = "table"  -> Cascade(Cascade(Cascade(Cascade({o}))))
      [] o.kind = "column" -> {o} \cup {d \in Dependents({o}) : d.table = o.table
                                            /\ d.kind \in {"pk", "unique", "check", "index", "fk"}}
      [] OTHER -> {o}

There(s) == {o \in db : Id(o) = Id(s.obj)}
ColumnsOf(t) == {o \in Of(cur, "column") : o.table = t}

\* IF [NOT] EXISTS: every drop, and the creation of these.
Pardoned(s) == safe /\ (s.do = "drop" \/ s.obj.kind \in {"table", "column", "index", "enum"})

\* CREATE OR REPLACE may add output columns at the end and nothing else, and leaves a
\* view a view.
Reshapes(s) ==
    \E o \in There(s) : o.def.mat \/ ~IsPrefix(Outputs[o.def.body], Outputs[s.obj.def.body])

\* DROP VIEW of what is a materialized view by now, or the other way round.
WrongKind(s) == s.obj.kind = "view" /\ \E o \in There(s) : o.def.mat # s.obj.def.mat

\* What is in the way of s.
Refusal(s) ==
    CASE s.do = "create" -> \/ There(s) # {} /\ ~Pardoned(s)
                            \/ There(s) = {} /\ ~(s.obj.needs \subseteq Ids(db))
                            \/ s.obj.kind = "pk" /\ \E o \in Of(db, "pk") : o.table = s.obj.table
      [] s.do = "drop" -> \/ There(s) = {} /\ ~Pardoned(s)
                          \/ \E o \in There(s) : ~(Dependents(Taken(o)) \subseteq Taken(o))
                          \/ WrongKind(s)
      [] s.do = "alter" -> \/ There(s) = {} \/ ~(s.obj.needs \subseteq Ids(db))
                           \/ \E d \in Dependents({s.obj}) : d.kind \in {"view", "policy"}
      [] s.do = "replace" -> ~(s.obj.needs \subseteq Ids(db)) \/ Reshapes(s)

After(s) ==
    CASE s.do = "create" /\ There(s) # {} -> db
      [] s.do = "create" -> db \cup {s.obj} \cup (IF s.obj.kind = "table" THEN ColumnsOf(s.obj.table) ELSE {})
      [] s.do = "drop" -> db \ UNION {Taken(o) : o \in There(s)}
      [] OTHER -> (db \ There(s)) \cup {s.obj}

-------------------------------------------------------------------------------
(***************************************************************************)
(* A migration, run statement by statement.                                *)
(***************************************************************************)

DiffInit ==
    /\ \E S \in {Snapshots(F) : F \in Families} : prev \in S /\ cur \in S
    /\ safe \in BOOLEAN
    /\ db = prev /\ todo = Diff
    /\ outcome = "running" /\ reruns = 0

RunStatement ==
    /\ outcome = "running" /\ todo # <<>> /\ ~Refusal(Head(todo))
    /\ db' = After(Head(todo))
    /\ todo' = Tail(todo)
    /\ UNCHANGED <<prev, cur, safe, outcome, reruns>>

StatementRefused ==
    /\ outcome = "running" /\ todo # <<>> /\ Refusal(Head(todo))
    /\ outcome' = "refused"
    /\ UNCHANGED <<prev, cur, safe, db, todo, reruns>>

\* "so the migration can be re-run": from the start, over what it has done.
Rerun ==
    /\ outcome = "running" /\ safe /\ reruns < MaxReruns
    /\ \E all \in {Diff} : todo # all /\ todo' = all
    /\ reruns' = reruns + 1
    /\ UNCHANGED <<prev, cur, safe, db, outcome>>

Migrated ==
    /\ outcome = "running" /\ todo = <<>>
    /\ outcome' = "done"
    /\ UNCHANGED <<prev, cur, safe, db, todo, reruns>>

DiffNext == RunStatement \/ StatementRefused \/ Rerun \/ Migrated

DiffSpec == DiffInit /\ [][DiffNext]_diffVars

-------------------------------------------------------------------------------
(***************************************************************************)
(* Properties.                                                             *)
(***************************************************************************)

Bare(S) == {<<Id(o), o.def>> : o \in S}

\* "Dropping the view first is always legal - nothing depends on a view being
\* there", says Diff of the drops it puts in front of everything.
ViewDropsAreLegal ==
    outcome = "refused" /\ reruns = 0 => Len(Diff) - Len(todo) >= Len(diffViewsDrop)

Stays(o) == \E p \in cur : Alike(o, p)

\* A view dropped from under one that stays: to be created again in another shape,
\* or for good, when the one above it is only then told to read something else, or
\* by a re-run, after the run before put the one above it there.
StackedView(s) ==
    /\ s.do = "drop" /\ s.obj.kind = "view" /\ (columnWorkAViewCanBlock => reruns > 0)
    /\ \E d \in Dependents({s.obj}) : Id(d) \in Ids(cur)

\* A key that goes, under a foreign key that both sides declare alike.
HeldKey(s) ==
    s.do = "drop" /\ s.obj.kind \in {"pk", "unique"} /\ \E d \in Dependents({s.obj}) : Stays(d)

\* A column given another type, under a policy that both sides declare alike, or
\* under one or a view that the run before created.
GuardedColumn(s) ==
    /\ s.do = "alter"
    /\ \E d \in Dependents({s.obj}) : Stays(d) /\ (d.kind = "policy" \/ reruns > 0)

\* A view told to read something else, whose output columns are not the old ones with
\* more at the end: "CREATE OR REPLACE if the shape didn't change", says diffViewsCreate,
\* but it compares bodies only.
ReshapedView(s) == s.do = "replace" /\ Reshapes(s)

\* A view that the run before made a materialized one, or the other way round, dropped
\* as what it was.
OtherKind(s) == reruns > 0 /\ s.do = "drop" /\ WrongKind(s)

\* What has no IF NOT EXISTS, created by the run before.
MadeAlready(s)  == reruns > 0 /\ s.do = "create" /\ s.obj.kind \in {"pk", "unique", "check", "fk", "policy", "view"}

\* No step of a migration, refused or run again, is without a table or a column that
\* both sides declare: what holds the rows is never dropped to be made anew, nor taken
\* along by the CASCADE of a table that goes.
DataStays ==
    \A o \in prev : o.kind \in {"table", "column"} /\ Id(o) \in Ids(cur) => Id(o) \in Ids(db)

\* What both sides declare alike is in no statement, views under column work apart; so
\* that the diff of a schema with itself is empty.
NothingNeedless ==
    \A i \in 1..Len(todo) :
        \/ todo[i].obj.kind = "view" /\ columnWorkAViewCanBlock
        \/ ~\E p \in (IF todo[i].do = "drop" THEN cur ELSE prev) : Alike(todo[i].obj, p)

===============================================================================
