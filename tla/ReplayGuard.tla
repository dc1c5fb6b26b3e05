---------------------------- MODULE ReplayGuard ----------------------------
(***************************************************************************)
(* ReplayGuard of app/server.py (lines 116-210): the in-memory table that  *)
(* remembers which (deviceIdentifier, signature) pairs are being delivered *)
(* or were delivered less than ttl_seconds ago.                            *)
(*                                                                         *)
(* A caller is a handler thread inside send_notifications.  It handles the *)
(* entries of its batch one after the other, so it holds at most one lease.*)
(* reserve() reads the monotonic clock BEFORE it takes the lock, so the    *)
(* read and the locked part are two steps here and any number of other     *)
(* steps may come between them.  commit() and release() do all their work  *)
(* under the lock and are one step each.                                   *)
(*                                                                         *)
(* A key is a model value.  The lease object's identity is its generation: *)
(* every lease is created with a fresh one.  The heap is the set of its    *)
(* items, popped while the least expiry is below the time of the prune.    *)
(***************************************************************************)
EXTENDS Integers, FiniteSets

CONSTANTS
    Callers,        \* handler threads inside send_notifications
    Keys,           \* (deviceIdentifier, signature) pairs
    Ttl,            \* ttl_seconds, in clock units
    MaxEntries,     \* _MAX_REPLAY_ENTRIES
    NoKey,          \* the key of a caller that is in no call
    MaxClock,       \* bound: the clock stops here
    MaxGeneration   \* bound: no new call once this many leases were given

ASSUME TtlAssumption        == Ttl \in Nat \ {0}
ASSUME MaxEntriesAssumption == MaxEntries \in Nat \ {0}
ASSUME NoKeyAssumption      == NoKey \notin Keys
ASSUME BoundAssumption      == MaxClock \in Nat /\ MaxGeneration \in Nat

VARIABLES
    clock,       \* time.monotonic()
    seen,        \* _seen: a partial function from keys to entries
    expiries,    \* _expiries: the items of the heap
    generation,  \* _generation
    pc,          \* where each caller is
    key,         \* replay_key of each caller
    now,         \* the local `now` of each caller's reserve()
    lease,       \* the generation of each caller's replay_lease
    verdict,     \* what each caller's last reserve() returned
    deliveredAt  \* history: when each key was last committed

vars == <<clock, seen, expiries, generation, pc, key, now, lease, verdict, deliveredAt>>

NoLease == 0     \* the generation of no lease: _generation is incremented first
Never   == -1    \* deliveredAt of a key no one has committed

\* The value of `expires_at: Optional[float] = None` until the commit.
NoExpiry == -1

Entry == [lease : Nat, delivered : BOOLEAN, expiresAt : Int]

TypeOK ==
    /\ clock \in 0..MaxClock
    /\ DOMAIN seen \subseteq Keys
    /\ seen \in [DOMAIN seen -> Entry]
    /\ generation \in Nat
    /\ \A k \in DOMAIN seen : seen[k].lease \in 1..generation
    /\ expiries \subseteq (Nat \X (1..generation) \X Keys)
    /\ pc \in [Callers -> {"idle", "reserving", "sending"}]
    /\ key \in [Callers -> Keys \cup {NoKey}]
    /\ now \in [Callers -> 0..MaxClock]
    /\ lease \in [Callers -> 0..generation]
    /\ verdict \in [Callers -> {"none", "lease", "refused", "delivered"}]
    /\ deliveredAt \in [Keys -> Nat \cup {Never}]

-----------------------------------------------------------------------------
(* Operations on the partial function.                                     *)

Put(f, k, v)  == [x \in DOMAIN f \cup {k} |-> IF x = k THEN v ELSE f[x]]
Drop(f, S)    == [x \in DOMAIN f \ S |-> f[x]]

NewEntry(g)           == [lease |-> g, delivered |-> FALSE, expiresAt |-> NoExpiry]
DeliveredEntry(g, at) == [lease |-> g, delivered |-> TRUE, expiresAt |-> at]

\* Bug: pops items that expire only now.
Bug_DueInclusive(at) == {item \in expiries : item[1] <= at}

\* Bug: compares with the delivery's own time, a TTL too early.
Bug_DueEarly(at) == {item \in expiries : item[1] - Ttl < at}

\* Bug: items wait one unit longer than their expiry.
Bug_DueLate(at) == {item \in expiries : item[1] + 1 < at}

\* The heap items that _prune_delivered(at) pops: those strictly below `at`.
Due(at) == {item \in expiries : item[1] < at}

\* Bug: the items are popped, their entries stay.
Bug_PrunedNone(at) == {}

\* The keys whose entries those items still describe, and that it deletes.
Pruned(at) ==
    {k \in DOMAIN seen :
        /\ seen[k].delivered
        /\ <<seen[k].expiresAt, seen[k].lease, k>> \in Due(at)}

-----------------------------------------------------------------------------
Init ==
    /\ clock = 0
    /\ seen = [k \in {} |-> NewEntry(NoLease)]
    /\ expiries = {}
    /\ generation = NoLease
    /\ pc = [t \in Callers |-> "idle"]
    /\ key = [t \in Callers |-> NoKey]
    /\ now = [t \in Callers |-> 0]
    /\ lease = [t \in Callers |-> NoLease]
    /\ verdict = [t \in Callers |-> "none"]
    /\ deliveredAt = [k \in Keys |-> Never]

Tick ==
    /\ clock < MaxClock
    /\ clock' = clock + 1
    /\ UNCHANGED <<seen, expiries, generation, pc, key, now, lease, verdict, deliveredAt>>

\* The first line of reserve(): the clock is read with no lock held.
ReadNow(t, k) ==
    /\ pc[t] = "idle"
    /\ generation < MaxGeneration
    /\ pc' = [pc EXCEPT ![t] = "reserving"]
    /\ key' = [key EXCEPT ![t] = k]
    /\ now' = [now EXCEPT ![t] = clock]
    /\ verdict' = [verdict EXCEPT ![t] = "none"]
    /\ UNCHANGED <<clock, seen, expiries, generation, lease, deliveredAt>>

\* Bug: any known key is answered as delivered.
Bug_AnswerKnownAsDelivered(t, left) ==
    /\ key[t] \in DOMAIN left
    /\ seen' = left
    /\ verdict' = [verdict EXCEPT ![t] = "delivered"]
    /\ pc' = [pc EXCEPT ![t] = "idle"]
    /\ key' = [key EXCEPT ![t] = NoKey]
    /\ UNCHANGED <<generation, lease>>

\* The locked part of reserve() once the prune has left `left`.
AnswerKnown(t, left) ==
    /\ key[t] \in DOMAIN left
    /\ seen' = left
    /\ verdict' = [verdict EXCEPT ![t] =
                       IF left[key[t]].delivered THEN "delivered" ELSE "refused"]
    /\ pc' = [pc EXCEPT ![t] = "idle"]
    /\ key' = [key EXCEPT ![t] = NoKey]
    /\ UNCHANGED <<generation, lease>>

AnswerFull(t, left) ==
    /\ key[t] \notin DOMAIN left
    /\ Cardinality(DOMAIN left) >= MaxEntries
    /\ seen' = left
    /\ verdict' = [verdict EXCEPT ![t] = "refused"]
    /\ pc' = [pc EXCEPT ![t] = "idle"]
    /\ key' = [key EXCEPT ![t] = NoKey]
    /\ UNCHANGED <<generation, lease>>

\* Bug: the capacity is tested with <= instead of <.
Bug_AnswerLeaseOneMore(t, left) ==
    /\ key[t] \notin DOMAIN left
    /\ Cardinality(DOMAIN left) <= MaxEntries
    /\ generation' = generation + 1
    /\ seen' = Put(left, key[t], NewEntry(generation + 1))
    /\ lease' = [lease EXCEPT ![t] = generation + 1]
    /\ verdict' = [verdict EXCEPT ![t] = "lease"]
    /\ pc' = [pc EXCEPT ![t] = "sending"]
    /\ UNCHANGED key

\* Bug: _generation is not counted up.
Bug_AnswerLeaseSameGeneration(t, left) ==
    /\ key[t] \notin DOMAIN left
    /\ Cardinality(DOMAIN left) < MaxEntries
    /\ seen' = Put(left, key[t], NewEntry(generation + 1))
    /\ lease' = [lease EXCEPT ![t] = generation + 1]
    /\ verdict' = [verdict EXCEPT ![t] = "lease"]
    /\ pc' = [pc EXCEPT ![t] = "sending"]
    /\ UNCHANGED <<generation, key>>

AnswerLease(t, left) ==
    /\ key[t] \notin DOMAIN left
    /\ Cardinality(DOMAIN left) < MaxEntries
    /\ generation' = generation + 1
    /\ seen' = Put(left, key[t], NewEntry(generation + 1))
    /\ lease' = [lease EXCEPT ![t] = generation + 1]
    /\ verdict' = [verdict EXCEPT ![t] = "lease"]
    /\ pc' = [pc EXCEPT ![t] = "sending"]
    /\ UNCHANGED key

Reserve(t) ==
    /\ pc[t] = "reserving"
    /\ expiries' = expiries \ Due(now[t])
    /\ LET left == Drop(seen, Pruned(now[t]))
       IN  AnswerKnown(t, left) \/ AnswerFull(t, left) \/ AnswerLease(t, left)
    /\ now' = [now EXCEPT ![t] = 0]
    /\ UNCHANGED <<clock, deliveredAt>>

\* Whether the entry under the caller's key is still the one it reserved.
Owns(t) ==
    /\ key[t] \in DOMAIN seen
    /\ seen[key[t]].lease = lease[t]

\* The entry of the batch is settled: its locals go out of scope.
LeaveCall(t) ==
    /\ pc' = [pc EXCEPT ![t] = "idle"]
    /\ key' = [key EXCEPT ![t] = NoKey]
    /\ lease' = [lease EXCEPT ![t] = NoLease]
    /\ verdict' = [verdict EXCEPT ![t] = "none"]

\* commit(): the provider accepted.  The expiry is computed under the lock.
Commit(t) ==
    /\ pc[t] = "sending"
    /\ LeaveCall(t)
    /\ IF Owns(t) /\ ~seen[key[t]].delivered
       THEN /\ seen' = [seen EXCEPT ![key[t]] = DeliveredEntry(lease[t], clock + Ttl)]
            /\ expiries' = expiries \cup {<<clock + Ttl, lease[t], key[t]>>}
       ELSE UNCHANGED <<seen, expiries>>
    /\ deliveredAt' = [deliveredAt EXCEPT ![key[t]] = clock]
    /\ UNCHANGED <<clock, generation, now>>

\* Bug: an exception path forgets to release.
Bug_ReleaseForgotten(t) ==
    /\ pc[t] = "sending"
    /\ LeaveCall(t)
    /\ UNCHANGED <<clock, seen, expiries, generation, now, deliveredAt>>

\* release(): the provider refused, failed or raised.
Release(t) ==
    /\ pc[t] = "sending"
    /\ LeaveCall(t)
    /\ seen' = IF Owns(t) /\ ~seen[key[t]].delivered
               THEN Drop(seen, {key[t]})
               ELSE seen
    /\ UNCHANGED <<clock, expiries, generation, now, deliveredAt>>

Next ==
    \/ Tick
    \/ \E t \in Callers :
          \/ \E k \in Keys : ReadNow(t, k)
          \/ Reserve(t)
          \/ Commit(t)
          \/ Release(t)

Spec == Init /\ [][Next]_vars

\* Every reserve() returns and every provider call ends (both HTTP clients
\* have a timeout), after which the handler settles its lease.
Fairness ==
    \A t \in Callers : WF_vars(Reserve(t)) /\ WF_vars(Commit(t) \/ Release(t))

FairSpec == Spec /\ Fairness

-----------------------------------------------------------------------------
Delivered == {k \in DOMAIN seen : seen[k].delivered}
InFlight  == {k \in DOMAIN seen : ~seen[k].delivered}

(* The promise of the guard: a pair that a provider accepted is remembered *)
(* as delivered for the whole TTL, whatever pruning, eviction, stale clock *)
(* reads and other callers' commits and releases do in between.            *)
ReplayWindowHolds ==
    \A k \in Keys :
        deliveredAt[k] # Never /\ clock <= deliveredAt[k] + Ttl => k \in Delivered

(* Each in-flight entry has exactly one caller who will settle it, and each*)
(* caller with a lease still finds its own undelivered entry: no lease can *)
(* leak (it would block its key and a slot for ever, for in-flight entries *)
(* never expire) and none can be lost (server.py:446-448 is unreachable).  *)
EveryLeaseHasItsOwner ==
    /\ \A t \in Callers : pc[t] = "sending" => Owns(t) /\ key[t] \in InFlight
    /\ \A k \in InFlight : \E t \in Callers :
           pc[t] = "sending" /\ key[t] = k /\ lease[t] = seen[k].lease

(* The heap holds exactly one item per delivered entry, so that neither a  *)
(* delivered entry without an item (it would never be pruned) nor an item  *)
(* without its entry can accumulate; with the cap on entries this bounds   *)
(* the memory of both.                                                     *)
HeapMatchesSeen ==
    expiries = {<<seen[k].expiresAt, seen[k].lease, k>> : k \in Delivered}

CapacityRespected ==
    /\ Cardinality(DOMAIN seen) <= MaxEntries
    /\ Cardinality(expiries) <= MaxEntries

(* Two deliveries of one pair are always more than a TTL apart.            *)
DeliveriesAreApart ==
    [][\A k \in Keys : \A t \in Callers :
          Commit(t) /\ key[t] = k /\ deliveredAt[k] # Never
              => clock > deliveredAt[k] + Ttl]_vars

(* A repeat is dropped as already delivered only while the caller's own    *)
(* clock reading lies within the TTL of a delivery: the guard does not     *)
(* silently swallow a pair longer than the window it documents.            *)
SuppressionIsTimely ==
    [][\A t \in Callers :
          pc[t] = "reserving" /\ pc'[t] = "idle" /\ verdict'[t] = "delivered"
              => /\ deliveredAt[key[t]] # Never
                 /\ now[t] <= deliveredAt[key[t]] + Ttl]_vars

(* A key does not stay in flight for ever.  An in-flight entry has no      *)
(* expiry, so only its owner's commit or release can end it.               *)
InFlightEnds ==
    \A k \in Keys : (k \in InFlight) ~> (k \notin InFlight)
=============================================================================
