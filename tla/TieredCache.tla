------------------------------ MODULE TieredCache ------------------------------
(***************************************************************************)
(* The two-level cache of cache/tiered: a near tier L1 inside the process, *)
(* a far tier L2 that processes share, and GetOrLoad, whose singleflight    *)
(* lets one caller per key go to the origin while the others wait for it.  *)
(*                                                                         *)
(* Every step of a call touches the tiers of its own keys one by one, so   *)
(* the model follows one key.  Each call to a tier is one step.  Values    *)
(* are the versions of the origin's row.  An entry is dead once its expiry *)
(* is not after `now'; the empty tier is an entry that was never alive.    *)
(***************************************************************************)
EXTENDS Naturals, FiniteSets

CONSTANTS
    Callers,
    L1TTLs,      \* the L1TTL options considered, 0 for "mirror the L2 TTL"
    TTLs,        \* the ttl arguments considered, 0 for no expiry
    MaxTTL,
    MaxNow,      \* bound on the clock
    MaxVersion,  \* bound on the origin's writes
    MaxCalls,    \* bound on the calls made
    MaxFails     \* bound on failing tier calls and loads, and on other processes' writes

ASSUME TTLAssumption == MaxTTL \in Nat /\ L1TTLs \subseteq 0..MaxTTL /\ TTLs \subseteq 0..MaxTTL
ASSUME TieredBounds  == {MaxNow, MaxVersion, MaxCalls, MaxFails} \subseteq Nat \ {0}

VARIABLES
    l1ttl,    \* the L1TTL option
    life,     \* the ttl argument that Set and GetOrLoad are given
    now,
    origin,   \* the version the loader would read
    near,     \* L1's entry
    far,      \* L2's entry
    req,      \* req[c]: the call c is in, see Request
    flight,   \* the key's sfCall in the singleflight's map: "none", "open", or "done" after wg.Done
    calls,    \* calls begun so far
    fails,
    due,      \* history: L2 lost or was refused the value since the last load
    deleted,  \* history: the newest version a Delete that succeeded was about
    tainted,  \* history: somebody held an outdated value while a Delete ran
    lasting,  \* history: some value was stored without expiry
    vanished  \* history: an L2 entry was gone when backfill asked for its TTL

world      == <<l1ttl, life, now, origin>>
history    == <<due, deleted, tainted, lasting, vanished>>
tieredVars == <<world, near, far, req, flight, calls, fails, history>>

\* Later than every expiry: the entry has none.
Never == MaxNow + MaxTTL + 1

Entry == [val : 0..MaxVersion, exp : 0..Never]
Empty == [val |-> 0, exp |-> 0]

\* val: the value about to be stored, or the version a Delete is about;
\* leads: the caller runs the singleflight's fn.
Request ==
    [step  : {"idle", "getL1", "getL2", "askTTL", "backfill", "do", "wait", "woken", "load",
              "setL2", "setL1", "release", "unlink", "delL2", "delL1"},
     loads : BOOLEAN,
     leads : BOOLEAN,
     val   : 0..MaxVersion,
     ttl   : 0..MaxTTL]

Idle == [step |-> "idle", loads |-> FALSE, leads |-> FALSE, val |-> 0, ttl |-> 0]

TieredTypeOK ==
    /\ l1ttl \in L1TTLs /\ life \in TTLs
    /\ now \in 0..MaxNow
    /\ origin \in 1..MaxVersion
    /\ near \in Entry /\ far \in Entry
    /\ req \in [Callers -> Request]
    /\ flight \in {"none", "open", "done"}
    /\ calls \in 0..MaxCalls
    /\ fails \in 0..MaxFails
    /\ deleted \in 0..MaxVersion
    /\ {due, tainted, lasting, vanished} \subseteq BOOLEAN

TieredInit ==
    /\ l1ttl \in L1TTLs /\ life \in TTLs
    /\ now = 0
    /\ origin = 1
    /\ near = Empty /\ far = Empty
    /\ req = [c \in Callers |-> Idle]
    /\ flight = "none"
    /\ calls = 0
    /\ fails = 0
    /\ due = TRUE
    /\ deleted = 0
    /\ tainted = FALSE /\ lasting = FALSE /\ vanished = FALSE

-------------------------------------------------------------------------------
(***************************************************************************)
(* The tiers, and what a caller does next.                                 *)
(***************************************************************************)

Alive(e) == e.exp > now

\* An entry written now.
Stored(v, t) == [val |-> v, exp |-> IF t = 0 THEN Never ELSE now + t]

\* The ttl of the near copy of a value written with ttl t.
l1TTLFor(t) == IF l1ttl = 0 THEN t ELSE IF t = 0 \/ l1ttl < t THEN l1ttl ELSE t

At(c, s) == req[c].step = s

Goto(c, s) == req' = [req EXCEPT ![c].step = s]

\* The call is over for c: a leader hands the outcome to its waiters first.
Return(c) == req' = [req EXCEPT ![c] = IF @.leads THEN [Idle EXCEPT !.step = "release",
                                                                    !.leads = TRUE]
                                                  ELSE Idle]

Fail == fails < MaxFails /\ fails' = fails + 1

\* Somebody holds a value older than the origin's and is about to store it.
Outdated == \E d \in Callers :
                /\ req[d].step \in {"askTTL", "backfill", "setL2", "setL1"}
                /\ req[d].val < origin

-------------------------------------------------------------------------------
(***************************************************************************)
(* Get, and the get that GetOrLoad makes before and inside the flight.     *)
(***************************************************************************)

Begin(c, r) ==
    /\ At(c, "idle") /\ calls < MaxCalls
    /\ calls' = calls + 1
    /\ req' = [req EXCEPT ![c] = r]
    /\ UNCHANGED <<world, near, far, flight, fails, history>>

Get(c) == Begin(c, [Idle EXCEPT !.step = "getL1"])

GetOrLoad(c, t) == Begin(c, [Idle EXCEPT !.step = "getL1", !.loads = TRUE, !.ttl = t])

GetL1(c) ==
    /\ At(c, "getL1")
    /\ IF Alive(near) THEN Return(c) ELSE Goto(c, "getL2")
    /\ UNCHANGED <<world, near, far, flight, calls, fails, history>>

\* L2 has nothing: Get returns, GetOrLoad enters the flight, a leader loads.
Missed(c) ==
    IF req[c].leads THEN Goto(c, "load") ELSE IF req[c].loads THEN Goto(c, "do") ELSE Return(c)

GetL2(c) ==
    /\ At(c, "getL2")
    /\ IF Alive(far)
       THEN req' = [req EXCEPT ![c].val = far.val,
                               ![c].step = IF l1ttl = 0 THEN "askTTL" ELSE "backfill"]
       ELSE Missed(c)
    /\ UNCHANGED <<world, near, far, flight, calls, fails, history>>

\* L2 answers with an error: only a leader goes on, to the load.
GetL2Fails(c) ==
    /\ At(c, "getL2")
    /\ Fail
    /\ IF req[c].leads THEN Goto(c, "load") ELSE Return(c)
    /\ due' = TRUE
    /\ UNCHANGED <<world, near, far, flight, calls, deleted, tainted, lasting, vanished>>

\* Mutant: the lifetime L2 reports is dropped.
RemainingIgnored == 0

\* Mutant: an entry that has expired meanwhile is asked too.
RemainingOfDead == IF far.exp # Never THEN far.exp - now ELSE 0

\* L2's remaining lifetime, or 0 when the entry has none or L2 no answer.
Remaining == IF Alive(far) /\ far.exp # Never THEN far.exp - now ELSE 0

AskTTL(c) ==
    /\ At(c, "askTTL")
    /\ req' = [req EXCEPT ![c].ttl = Remaining, ![c].step = "backfill"]
    /\ vanished' = (vanished \/ ~Alive(far))
    /\ UNCHANGED <<world, near, far, flight, calls, fails, due, deleted, tainted, lasting>>

Backfill(c) ==
    /\ At(c, "backfill")
    /\ near' = Stored(req[c].val, IF l1ttl = 0 THEN req[c].ttl ELSE l1ttl)
    /\ Return(c)
    /\ UNCHANGED <<world, far, flight, calls, fails, history>>

-------------------------------------------------------------------------------
(***************************************************************************)
(* GetOrLoad's flight.                                                     *)
(***************************************************************************)

Lead(c, s) ==
    /\ flight' = "open"
    /\ req' = [req EXCEPT ![c].leads = TRUE, ![c].step = s]

Join(c) == Goto(c, IF flight = "done" THEN "woken" ELSE "wait") /\ UNCHANGED flight

\* Mutant: the singleflight always runs fn.
DoAlone(c) ==
    /\ At(c, "do")
    /\ Lead(c, "getL1")
    /\ UNCHANGED <<world, near, far, calls, fails, history>>

\* Mutant: the leader goes straight to the origin.
DoWithoutRecheck(c) ==
    /\ At(c, "do")
    /\ IF flight = "none" THEN Lead(c, "load") ELSE Join(c)
    /\ UNCHANGED <<world, near, far, calls, fails, history>>

\* Join the call in the map, which may be done already, or lead one: it starts
\* with another look at the tiers.
Do(c) ==
    /\ At(c, "do")
    /\ IF flight = "none" THEN Lead(c, "getL1") ELSE Join(c)
    /\ UNCHANGED <<world, near, far, calls, fails, history>>

Woken(c) ==
    /\ At(c, "woken")
    /\ Return(c)
    /\ UNCHANGED <<world, near, far, flight, calls, fails, history>>

Load(c) ==
    /\ At(c, "load")
    /\ req' = [req EXCEPT ![c].val = origin, ![c].step = "setL2"]
    /\ due' = FALSE
    /\ UNCHANGED <<world, near, far, flight, calls, fails, deleted, tainted, lasting, vanished>>

\* Mutant: the teardown is left to the happy path.
PanicSkipsTeardown(c) ==
    /\ At(c, "load")
    /\ Fail
    /\ req' = [req EXCEPT ![c] = Idle]
    /\ UNCHANGED <<world, near, far, flight, calls, history>>

\* load returns an error or panics; the deferred teardown runs either way.
LoadFails(c) ==
    /\ At(c, "load")
    /\ Fail
    /\ Return(c)
    /\ UNCHANGED <<world, near, far, flight, calls, history>>

\* wg.Done, and then the removal from the map.
Release(c) ==
    /\ At(c, "release")
    /\ flight' = "done"
    /\ req' = [d \in Callers |-> IF d = c THEN [req[d] EXCEPT !.step = "unlink"]
                                 ELSE IF At(d, "wait") THEN [req[d] EXCEPT !.step = "woken"]
                                 ELSE req[d]]
    /\ UNCHANGED <<world, near, far, calls, fails, history>>

Unlink(c) ==
    /\ At(c, "unlink")
    /\ flight' = "none"
    /\ req' = [req EXCEPT ![c] = Idle]
    /\ UNCHANGED <<world, near, far, calls, fails, history>>

-------------------------------------------------------------------------------
(***************************************************************************)
(* Set, also the leader's, and Delete.                                     *)
(***************************************************************************)

Set(c, t) == Begin(c, [Idle EXCEPT !.step = "setL2", !.val = origin, !.ttl = t])

SetL2(c) ==
    /\ At(c, "setL2")
    /\ far' = Stored(req[c].val, req[c].ttl)
    /\ lasting' = (lasting \/ req[c].ttl = 0)
    /\ Goto(c, "setL1")
    /\ UNCHANGED <<world, near, flight, calls, fails, due, deleted, tainted, vanished>>

SetL2Fails(c) ==
    /\ At(c, "setL2")
    /\ Fail
    /\ due' = TRUE
    /\ Return(c)
    /\ UNCHANGED <<world, near, far, flight, calls, deleted, tainted, lasting, vanished>>

SetL1(c) ==
    /\ At(c, "setL1")
    /\ near' = Stored(req[c].val, l1TTLFor(req[c].ttl))
    /\ Return(c)
    /\ UNCHANGED <<world, far, flight, calls, fails, history>>

Delete(c) == Begin(c, [Idle EXCEPT !.step = "delL2", !.val = origin])

DelL2(c) ==
    /\ At(c, "delL2")
    /\ far' = Empty
    /\ due' = TRUE
    /\ tainted' = (tainted \/ Outdated)
    /\ Goto(c, "delL1")
    /\ UNCHANGED <<world, near, flight, calls, fails, deleted, lasting, vanished>>

\* L2 refuses; L1 is cleared all the same, and the Delete counts for nothing.
DelL2Fails(c) ==
    /\ At(c, "delL2")
    /\ Fail
    /\ req' = [req EXCEPT ![c].val = 0, ![c].step = "delL1"]
    /\ UNCHANGED <<world, near, far, flight, calls, history>>

\* Mutant: the near copy is left to its TTL.
DeleteSparesNear(c) ==
    /\ At(c, "delL1")
    /\ deleted' = IF req[c].val > deleted THEN req[c].val ELSE deleted
    /\ tainted' = (tainted \/ Outdated)
    /\ Return(c)
    /\ UNCHANGED <<world, near, far, flight, calls, fails, due, lasting, vanished>>

DelL1(c) ==
    /\ At(c, "delL1")
    /\ near' = Empty
    /\ deleted' = IF req[c].val > deleted THEN req[c].val ELSE deleted
    /\ tainted' = (tainted \/ Outdated)
    /\ Return(c)
    /\ UNCHANGED <<world, far, flight, calls, fails, due, lasting, vanished>>

-------------------------------------------------------------------------------
(***************************************************************************)
(* Outside: the origin, the clock, L1's own evictions, other processes.    *)
(***************************************************************************)

OriginWrite ==
    /\ origin < MaxVersion
    /\ origin' = origin + 1
    /\ UNCHANGED <<l1ttl, life, now, near, far, req, flight, calls, fails, history>>

Tick ==
    /\ now < MaxNow
    /\ now' = now + 1
    /\ due' = (due \/ far.exp = now')
    /\ UNCHANGED <<l1ttl, life, origin, near, far, req, flight, calls, fails, deleted, tainted,
                   lasting, vanished>>

EvictL1 ==
    /\ Alive(near)
    /\ near' = Empty
    /\ UNCHANGED <<world, far, req, flight, calls, fails, history>>

\* Another process deletes the key in L2, or stores the origin's present version.
Remote ==
    /\ Fail
    /\ far' \in {Empty, Stored(origin, life)}
    /\ due' = (due \/ far' = Empty)
    /\ lasting' = (lasting \/ far'.exp = Never)
    /\ UNCHANGED <<world, near, req, flight, calls, deleted, tainted, vanished>>

-------------------------------------------------------------------------------
\* What c's call does once it is made.
Proceed(c) ==
    \/ GetL1(c) \/ GetL2(c) \/ GetL2Fails(c) \/ AskTTL(c) \/ Backfill(c)
    \/ Do(c) \/ Woken(c) \/ Load(c) \/ LoadFails(c) \/ Release(c) \/ Unlink(c)
    \/ SetL2(c) \/ SetL2Fails(c) \/ SetL1(c) \/ DelL2(c) \/ DelL2Fails(c) \/ DelL1(c)

TieredNext ==
    \/ \E c \in Callers : Proceed(c) \/ Get(c) \/ Delete(c)
    \/ \E c \in Callers : GetOrLoad(c, life) \/ Set(c, life)
    \/ OriginWrite \/ Tick \/ EvictL1 \/ Remote

TieredSpec == TieredInit /\ [][TieredNext]_tieredVars

-------------------------------------------------------------------------------
(***************************************************************************)
(* Properties.                                                             *)
(***************************************************************************)

\* One load at a time: from the load to the last store of its result no other
\* caller of GetOrLoad is on its way to the origin, also when the next flight
\* starts while the last one is being torn down.
OneLoad ==
    \A c, d \in Callers :
        /\ req[c].leads /\ req[c].step \in {"load", "setL2", "setL1"}
        /\ req[d].leads /\ req[d].step \in {"load", "setL2", "setL1"}
        => c = d

\* A burst of misses costs one load: a leader goes to the origin only if L2 lost
\* the value, or failed, since the last load.  The caller that missed before a
\* flight and leads the next one finds what that flight stored.
NoNeedlessLoad == \A c \in Callers : At(c, "load") => due

\* Whoever waits for a flight waits for a leader who is still in it, whatever
\* became of the load: the deferred teardown leaves no call behind in the map.
WaitersHaveLeader ==
    (\E c \in Callers : At(c, "wait")) \/ flight # "none" =>
        \E d \in Callers : req[d].leads

\* GetOrLoad collapses a burst of misses into one load, and never strands a caller:
\* around a flight's teardown, an expiry and a loader that fails or panics.
SingleFlight == OneLoad /\ NoNeedlessLoad /\ WaitersHaveLeader

\* After a Delete that succeeded neither tier serves a version older than the
\* one deleted, unless somebody held such a version, read before, while the
\* Delete ran.
DeletedStaysDeleted ==
    \A e \in {near, far} : Alive(e) /\ e.val < deleted => tainted

\* L1TTL 0 mirrors L2's lifetime: as long as no value is stored without expiry
\* every near copy expires, unless L2 no longer had the entry when backfill asked
\* for its TTL.
NearExpires == near.exp = Never => lasting \/ vanished

\* The near tier follows the far one: what Delete took is not served from L1, and
\* what L2 lets expire does not stay there.
NearFollowsFar == DeletedStaysDeleted /\ NearExpires
===============================================================================
