--------------------------- MODULE StatementRegistry ---------------------------
(***************************************************************************)
(* The registry of statements in flight: pg/statements.go.                 *)
(*                                                                         *)
(* An entry is a slot; a slot free again may be taken by a later           *)
(* statement, so behaviours have no end.  The idle channel is closed and   *)
(* replaced whenever the entries empty: a waiter holds the channel that    *)
(* was current when it asked, so all that is kept of it is whether it has  *)
(* been closed since (woken).                                              *)
(***************************************************************************)
EXTENDS Naturals, FiniteSets

CONSTANTS
    Slots,       \* entries there can be at a time
    Quiescers,   \* goroutines that call Quiesce
    NoSlot

ASSUME SlotAssumption == NoSlot \notin Slots

VARIABLES
    entries,   \* the slots in flight
    about,     \* about[e]: what entry e is: InFlight and its context
    admit,
    drain,     \* drain[q]: the Quiesce call of q
    cancelling,\* cancelWhere under way: the cancel functions still to call
    swept      \* history: what the last finished cancelWhere was about, since nobody resumed

registryVars == <<entries, about, admit, drain, cancelling, swept>>

Kinds == {"exec", "query", "tx"}

\* within: the transaction whose context the entry's derives from, NoSlot when it
\* derives from the caller's; dead: its context is cancelled.
Entry == [kind : Kinds, write : BOOLEAN, within : Slots \cup {NoSlot}, dead : BOOLEAN]
Gone  == [kind |-> "exec", write |-> FALSE, within |-> NoSlot, dead |-> FALSE]

\* call: where the call is; woken: its idle channel has been closed; clean:
\* nobody has called Resume since it began.
Drain    == [call : {"none", "waiting", "idle", "ctx"}, woken : BOOLEAN, clean : BOOLEAN]
NoDrain  == [call |-> "none", woken |-> FALSE, clean |-> FALSE]
Scopes   == {"none", "all", "writes"}

RegistryTypeOK ==
    /\ entries \subseteq Slots
    /\ about \in [Slots -> Entry]
    /\ admit \in BOOLEAN
    /\ drain \in [Quiescers -> Drain]
    /\ cancelling \in [scope : Scopes, victims : SUBSET entries, clean : BOOLEAN]
    /\ swept \in Scopes

RegistryInit ==
    /\ entries = {}
    /\ about = [e \in Slots |-> Gone]
    /\ admit = TRUE
    /\ drain = [q \in Quiescers |-> NoDrain]
    /\ cancelling = [scope |-> "none", victims |-> {}, clean |-> FALSE]
    /\ swept = "none"

-------------------------------------------------------------------------------
(***************************************************************************)
(* Contexts.  Cancelling one cancels the ones derived from it.             *)
(***************************************************************************)

\* A statement, a transaction in it and a statement in that: three levels deep.
Derived(S) ==
    LET child(T) == T \cup {e \in entries : about[e].within \in T}
    IN  child(child(S))

Cancelled(S) == [e \in Slots |-> [about[e] EXCEPT !.dead = @ \/ e \in Derived(S)]]

-------------------------------------------------------------------------------
(***************************************************************************)
(* register and deregister, by everything that goes through the driver.    *)
(***************************************************************************)

Transactions == {e \in entries : about[e].kind = "tx"}

\* register; a quiesced registry refuses.  A transaction is a write; for a statement isWriteStatement decides.
\* txContext: within a transaction the context derives from the transaction's
\* unless the caller's can be cancelled.
register(e, kind, write, within) ==
    /\ admit
    /\ e \notin entries
    /\ entries' = entries \cup {e}
    /\ about' = [about EXCEPT ![e] =
           [kind |-> kind, write |-> write \/ kind = "tx", within |-> within,
            dead |-> within # NoSlot /\ about[within].dead]]
    /\ UNCHANGED <<admit, drain, cancelling, swept>>

\* Exec, Query and Begin of the driver, and of an open transaction.
StartExec(e)  == \E write \in BOOLEAN, within \in Transactions \cup {NoSlot} : register(e, "exec", write, within)
StartQuery(e) == \E write \in BOOLEAN, within \in Transactions \cup {NoSlot} : register(e, "query", write, within)
StartTx(e) == \E within \in {t \in Transactions : about[t].within = NoSlot} \cup {NoSlot} :
                 register(e, "tx", TRUE, within)

\* Mutant: the channel is closed when any entry leaves.
WakesAlways(left) == TRUE

\* Mutant: the channel is not closed.
WakesNever(left) == FALSE

\* deregister: waiters are woken when the entries empty.
Wakes(left) == left = {}

\* deregister: the context is released, and with it the derived ones.  A victim
\* that is gone need not be cancelled any more.
deregister(e) ==
    /\ e \in entries
    /\ entries' = entries \ {e}
    /\ about' = [x \in Slots |->
           IF x = e THEN Gone
           ELSE [Cancelled({e})[x] EXCEPT !.within = IF @ = e THEN NoSlot ELSE @]]
    /\ drain' = IF Wakes(entries')
                THEN [q \in Quiescers |-> [drain[q] EXCEPT !.woken = @ \/ drain[q].call = "waiting"]]
                ELSE drain
    /\ cancelling' = [cancelling EXCEPT !.victims = @ \ {e}]
    /\ UNCHANGED <<admit, swept>>

\* A statement ends, with or without an error; rows are exhausted or closed; a
\* transaction is committed or rolled back, at most once each.
Ends(e) == deregister(e)

-------------------------------------------------------------------------------
(***************************************************************************)
(* Draining.                                                               *)
(***************************************************************************)

\* Quiesce up to its select.
Quiesce(q) ==
    /\ drain[q].call # "waiting"
    /\ admit' = FALSE
    /\ drain' = [drain EXCEPT ![q] = [call |-> IF entries = {} THEN "idle" ELSE "waiting",
                                      woken |-> FALSE, clean |-> TRUE]]
    /\ UNCHANGED <<entries, about, cancelling, swept>>

QuiesceReturns(q) ==
    /\ drain[q].call = "waiting" /\ drain[q].woken
    /\ drain' = [drain EXCEPT ![q].call = "idle"]
    /\ UNCHANGED <<entries, about, admit, cancelling, swept>>

\* The caller's context ends first.
QuiesceGivesUp(q) ==
    /\ drain[q].call = "waiting"
    /\ drain' = [drain EXCEPT ![q].call = "ctx"]
    /\ UNCHANGED <<entries, about, admit, cancelling, swept>>

Resume ==
    /\ admit' = TRUE
    /\ drain' = [q \in Quiescers |-> IF drain[q].call = "waiting" THEN [drain[q] EXCEPT !.clean = FALSE]
                                                                 ELSE NoDrain]
    /\ cancelling' = [cancelling EXCEPT !.clean = FALSE]
    /\ swept' = "none"
    /\ UNCHANGED <<entries, about>>

\* Mutant: transactions are left alone.
PickedStatements(scope) == {e \in entries : about[e].kind # "tx" /\ (scope = "all" \/ about[e].write)}

\* CancelAll and CancelWrites: the entries they are about.
Picked(scope) == {e \in entries : scope = "all" \/ about[e].write}

\* cancelWhere: collect under the lock ...
CancelWhere(scope) ==
    /\ cancelling.scope = "none"
    /\ cancelling' = [scope |-> scope, victims |-> Picked(scope), clean |-> ~admit]
    /\ UNCHANGED <<entries, about, admit, drain, swept>>

\* ... and cancel outside it, one after the other.
CancelOne(e) ==
    /\ e \in cancelling.victims
    /\ about' = Cancelled({e})
    /\ cancelling' = [cancelling EXCEPT !.victims = @ \ {e}]
    /\ UNCHANGED <<entries, admit, drain, swept>>

CancelDone ==
    /\ cancelling.scope # "none" /\ cancelling.victims = {}
    /\ swept' = IF cancelling.clean THEN cancelling.scope ELSE swept
    /\ cancelling' = [scope |-> "none", victims |-> {}, clean |-> FALSE]
    /\ UNCHANGED <<entries, about, admit, drain>>

RegistryNext ==
    \/ \E e \in Slots : StartExec(e) \/ StartQuery(e) \/ StartTx(e) \/ Ends(e) \/ CancelOne(e)
    \/ \E q \in Quiescers : Quiesce(q) \/ QuiesceReturns(q) \/ QuiesceGivesUp(q)
    \/ \E scope \in {"all", "writes"} : CancelWhere(scope)
    \/ CancelDone
    \/ Resume

RegistrySpec == RegistryInit /\ [][RegistryNext]_registryVars

-------------------------------------------------------------------------------
(***************************************************************************)
(* Properties.                                                             *)
(***************************************************************************)

\* While Quiesce's nil answer has not been undone by Resume, nothing is in flight:
\* whatever registered, ended or was woken around the call.
QuiescedMeansIdle == \A q \in Quiescers : drain[q].call = "idle" /\ drain[q].clean => entries = {}

\* A CancelAll on a quiesced registry leaves nothing running uncancelled, and a
\* CancelWrites no write and no open transaction, until somebody resumes.
CancelReachesAll ==
    \A e \in entries : swept = "all" \/ (swept = "writes" /\ about[e].write) => about[e].dead

\* The drain of a shutdown: a nil from Quiesce means that the registry is empty, and
\* a cancel means that what is left is on its way out.
RegistryDrains == QuiescedMeansIdle /\ CancelReachesAll

\* A Quiesce that nobody resumes behind returns, once the statements end.
QuiesceEnds == \A q \in Quiescers : (drain[q].call = "waiting" /\ drain[q].clean)
                                        ~> (drain[q].call # "waiting" \/ ~drain[q].clean)
================================================================================
