------------------------- MODULE ReplayGuardProofs -------------------------
(***************************************************************************)
(* Proofs about ReplayGuard for every set of callers and keys, every TTL   *)
(* and every capacity.                                                     *)
(*                                                                         *)
(* ReplayWindowHolds is not inductive.  It needs to know that an entry's   *)
(* expiry is the time of its delivery plus the TTL and that the heap holds *)
(* exactly these expiries (else a prune could take a live entry), that a   *)
(* clock reading is never ahead of the clock, and that a caller with a     *)
(* lease still owns an undelivered entry (else its commit would be lost and*)
(* its release would remove a delivered entry).                            *)
(***************************************************************************)
EXTENDS ReplayGuardRefines, FiniteSetTheorems, TLAPS

\* A reading of the clock is never ahead of it.
Readings ==
    \A t \in Callers : pc[t] = "reserving" => key[t] \in Keys /\ now[t] <= clock

\* An entry expires one TTL after the delivery it records.
ExpiryIsDelivery ==
    \A k \in Delivered :
        /\ deliveredAt[k] # Never
        /\ seen[k].expiresAt = deliveredAt[k] + Ttl

\* No two entries share a generation, and no two callers a lease.
LeasesDistinct ==
    /\ \A j, k \in DOMAIN seen : seen[j].lease = seen[k].lease => j = k
    /\ \A s, t \in Callers :
          pc[s] = "sending" /\ pc[t] = "sending" /\ lease[s] = lease[t] => s = t

Bounded == IsFiniteSet(DOMAIN seen) /\ Cardinality(DOMAIN seen) <= MaxEntries

Inv ==
    /\ TypeOK
    /\ Readings
    /\ HeapMatchesSeen
    /\ ExpiryIsDelivery
    /\ LeasesDistinct
    /\ EveryLeaseHasItsOwner
    /\ ReplayWindowHolds
    /\ Bounded

LEMMA Constants == Ttl \in Nat /\ Ttl > 0 /\ MaxEntries \in Nat /\ MaxEntries > 0
                   /\ MaxClock \in Nat /\ NoKey \notin Keys
BY TtlAssumption, MaxEntriesAssumption, BoundAssumption, NoKeyAssumption

-----------------------------------------------------------------------------
(* The prune.                                                              *)

Left(t) == Drop(seen, Pruned(now[t]))

(* The prune of a caller removes only delivered entries whose window has   *)
(* passed, leaves none that its own reading finds expired, and takes the   *)
(* same entries from the heap as from the table.                           *)
LEMMA PruneFacts ==
    ASSUME Inv, NEW t \in Callers, pc[t] = "reserving"
    PROVE  /\ DOMAIN Left(t) \subseteq DOMAIN seen
           /\ \A k \in DOMAIN Left(t) : Left(t)[k] = seen[k]
           /\ Left(t) \in [DOMAIN Left(t) -> Entry]
           /\ \A k \in DOMAIN seen \ DOMAIN Left(t) :
                 seen[k].delivered /\ seen[k].expiresAt < clock
           /\ \A k \in DOMAIN Left(t) :
                 seen[k].delivered => seen[k].expiresAt >= now[t]
           /\ expiries \ Due(now[t]) =
                 {<<seen[k].expiresAt, seen[k].lease, k>> :
                     k \in {j \in DOMAIN Left(t) : seen[j].delivered}}
           /\ IsFiniteSet(DOMAIN Left(t))
           /\ Cardinality(DOMAIN Left(t)) <= MaxEntries
<1> DEFINE at == now[t]
           item(k) == <<seen[k].expiresAt, seen[k].lease, k>>
<1>1. /\ seen \in [DOMAIN seen -> Entry] /\ clock \in Nat /\ at \in Nat /\ at <= clock
      /\ DOMAIN seen \subseteq Keys
  BY Constants DEF Inv, TypeOK, Readings
<1>2. DOMAIN Left(t) = DOMAIN seen \ Pruned(at)
  BY DEF Left, Drop
<1>3. \A k \in DOMAIN Left(t) : Left(t)[k] = seen[k]
  BY DEF Left, Drop
<1>4. Left(t) \in [DOMAIN Left(t) -> Entry]
  BY <1>1, <1>2, <1>3 DEF Left, Drop
<1>5. \A k \in DOMAIN seen : seen[k].delivered => item(k) \in expiries
  BY DEF Inv, HeapMatchesSeen, Delivered
<1>6. \A k \in DOMAIN seen : seen[k].delivered =>
         (k \in Pruned(at) <=> seen[k].expiresAt < at)
  BY <1>5 DEF Pruned, Due
<1>7. \A k \in DOMAIN seen : seen[k].expiresAt \in Int
  BY <1>1 DEF Entry
<1>8. \A k \in Pruned(at) : seen[k].delivered /\ seen[k].expiresAt < clock
  <2>1. \A k \in Pruned(at) : k \in DOMAIN seen /\ seen[k].delivered
    BY DEF Pruned
  <2> QED BY <1>1, <1>6, <1>7, <2>1
<1>9. \A k \in DOMAIN Left(t) : seen[k].delivered => seen[k].expiresAt >= at
  BY <1>1, <1>2, <1>6, <1>7
<1>10. expiries \ Due(at) = {item(k) : k \in {j \in DOMAIN Left(t) : seen[j].delivered}}
  <2>1. expiries = {item(k) : k \in {j \in DOMAIN seen : seen[j].delivered}}
    BY DEF Inv, HeapMatchesSeen, Delivered
  <2>2. \A k \in {j \in DOMAIN seen : seen[j].delivered} :
           item(k) \in Due(at) <=> k \in Pruned(at)
    BY <1>5, <1>6 DEF Due
  <2> QED BY <1>2, <2>1, <2>2
<1>11. IsFiniteSet(DOMAIN Left(t)) /\ Cardinality(DOMAIN Left(t)) <= MaxEntries
  <2>1. DOMAIN Left(t) \in SUBSET DOMAIN seen
    BY <1>2
  <2>2. /\ IsFiniteSet(DOMAIN seen) /\ Cardinality(DOMAIN seen) <= MaxEntries
    BY DEF Inv, Bounded
  <2>3. /\ IsFiniteSet(DOMAIN Left(t))
        /\ Cardinality(DOMAIN Left(t)) <= Cardinality(DOMAIN seen)
    BY <2>1, <2>2, FS_Subset
  <2>4. Cardinality(DOMAIN Left(t)) \in Nat /\ Cardinality(DOMAIN seen) \in Nat
    BY <2>2, <2>3, FS_CardinalityType
  <2> QED BY <2>2, <2>3, <2>4, Constants
<1> QED BY <1>2, <1>3, <1>4, <1>8, <1>9, <1>10, <1>11

-----------------------------------------------------------------------------
(* The invariant is preserved by every step.                               *)

LEMMA InitInv == Init => Inv
<1> SUFFICES ASSUME Init PROVE Inv
  OBVIOUS
<1>1. DOMAIN seen = {} /\ seen \in [DOMAIN seen -> Entry]
  BY DEF Init
<1>2. TypeOK
  BY <1>1, Constants DEF Init, TypeOK, NoLease
<1>3. Bounded
  BY <1>1, Constants, FS_EmptySet DEF Bounded
<1>4. Delivered = {} /\ InFlight = {}
  BY <1>1 DEF Delivered, InFlight
<1>5. HeapMatchesSeen /\ ExpiryIsDelivery
  BY <1>4 DEF Init, HeapMatchesSeen, ExpiryIsDelivery
<1>6. Readings /\ LeasesDistinct /\ EveryLeaseHasItsOwner /\ ReplayWindowHolds
  BY <1>1, <1>4 DEF Init, Readings, LeasesDistinct, EveryLeaseHasItsOwner, ReplayWindowHolds
<1> QED BY <1>2, <1>3, <1>5, <1>6 DEF Inv

LEMMA TickInv == Inv /\ Tick => Inv'
<1> SUFFICES ASSUME Inv, Tick PROVE Inv'
  OBVIOUS
<1>1. /\ clock \in Nat /\ clock' = clock + 1 /\ clock < MaxClock
      /\ UNCHANGED <<seen, expiries, generation, pc, key, now, lease, verdict, deliveredAt>>
  BY Constants DEF Inv, TypeOK, Tick
<1>2. TypeOK'
  BY <1>1, Constants DEF Inv, TypeOK
<1>3. Readings'
  BY <1>1, Constants DEF Inv, TypeOK, Readings
<1>4. ReplayWindowHolds'
  <2>1. \A k \in Keys : deliveredAt[k] \in Nat \/ deliveredAt[k] = Never
    BY DEF Inv, TypeOK
  <2> QED BY <1>1, <2>1, Constants DEF Inv, ReplayWindowHolds, Delivered
<1>5. (HeapMatchesSeen /\ ExpiryIsDelivery /\ LeasesDistinct /\ EveryLeaseHasItsOwner
          /\ Bounded)'
  BY <1>1 DEF Inv, HeapMatchesSeen, ExpiryIsDelivery, LeasesDistinct,
              EveryLeaseHasItsOwner, Owns, Bounded, Delivered, InFlight
<1> QED BY <1>2, <1>3, <1>4, <1>5 DEF Inv

LEMMA ReadNowInv ==
    ASSUME Inv, NEW t \in Callers, NEW k \in Keys, ReadNow(t, k)
    PROVE  Inv'
<1>1. TypeOK'
  BY DEF Inv, TypeOK, ReadNow
<1>2. Readings'
  BY Constants DEF Inv, TypeOK, Readings, ReadNow
<1>3. LeasesDistinct' /\ EveryLeaseHasItsOwner'
  BY DEF Inv, TypeOK, ReadNow, LeasesDistinct, EveryLeaseHasItsOwner, Owns, InFlight
<1>4. (HeapMatchesSeen /\ ExpiryIsDelivery /\ ReplayWindowHolds /\ Bounded)'
  BY DEF Inv, ReadNow, HeapMatchesSeen, ExpiryIsDelivery, ReplayWindowHolds, Bounded,
         Delivered
<1> QED BY <1>1, <1>2, <1>3, <1>4 DEF Inv

(* A reserve() that gives no lease.                                        *)
LEMMA AnswerInv ==
    ASSUME Inv, NEW t \in Callers, pc[t] = "reserving",
           seen' = Left(t), expiries' = expiries \ Due(now[t]),
           pc' = [pc EXCEPT ![t] = "idle"],
           key' = [key EXCEPT ![t] = NoKey],
           now' = [now EXCEPT ![t] = 0],
           verdict' \in [Callers -> {"none", "lease", "refused", "delivered"}],
           UNCHANGED <<clock, generation, lease, deliveredAt>>
    PROVE  Inv'
<1>1. /\ DOMAIN seen' \subseteq DOMAIN seen
      /\ \A k \in DOMAIN seen' : seen'[k] = seen[k]
      /\ seen' \in [DOMAIN seen' -> Entry]
      /\ \A k \in DOMAIN seen \ DOMAIN seen' :
            seen[k].delivered /\ seen[k].expiresAt < clock
      /\ expiries' = {<<seen[k].expiresAt, seen[k].lease, k>> :
                         k \in {j \in DOMAIN seen' : seen[j].delivered}}
      /\ IsFiniteSet(DOMAIN seen') /\ Cardinality(DOMAIN seen') <= MaxEntries
  BY PruneFacts
<1>2. /\ Delivered' = {k \in DOMAIN seen' : seen[k].delivered}
      /\ InFlight' = InFlight
  BY <1>1 DEF Delivered, InFlight
<1>3. TypeOK'
  <2>1. /\ DOMAIN seen' \subseteq Keys
        /\ \A k \in DOMAIN seen' : seen'[k].lease \in 1..generation'
    BY <1>1 DEF Inv, TypeOK
  <2>2. expiries' \subseteq (Nat \X (1..generation') \X Keys)
    BY DEF Inv, TypeOK
  <2>3. /\ pc' \in [Callers -> {"idle", "reserving", "sending"}]
        /\ key' \in [Callers -> Keys \cup {NoKey}]
        /\ now' \in [Callers -> 0..MaxClock]
    BY Constants DEF Inv, TypeOK
  <2> QED BY <1>1, <2>1, <2>2, <2>3 DEF Inv, TypeOK
<1>4. Readings'
  BY DEF Inv, TypeOK, Readings
<1>5. HeapMatchesSeen'
  <2>1. \A k \in Delivered' : seen'[k] = seen[k]
    BY <1>1, <1>2
  <2> QED BY <1>1, <1>2, <2>1 DEF HeapMatchesSeen
<1>6. ExpiryIsDelivery'
  BY <1>1, <1>2 DEF Inv, ExpiryIsDelivery, Delivered
<1>7. LeasesDistinct'
  BY <1>1 DEF Inv, TypeOK, LeasesDistinct
<1>8. EveryLeaseHasItsOwner'
  <2>1. \A s \in Callers : pc'[s] = "sending" =>
           s # t /\ pc[s] = "sending" /\ key'[s] = key[s] /\ key[s] \in InFlight
    BY DEF Inv, TypeOK, EveryLeaseHasItsOwner
  <2>2. \A s \in Callers : pc[s] = "sending" =>
           pc'[s] = "sending" /\ key'[s] = key[s]
    BY DEF Inv, TypeOK
  <2>3. \A k \in InFlight : k \in DOMAIN seen' /\ seen'[k] = seen[k]
    BY <1>1, <1>2 DEF InFlight
  <2> QED BY <1>2, <2>1, <2>2, <2>3 DEF Inv, EveryLeaseHasItsOwner, Owns
<1>9. ReplayWindowHolds'
  <2> SUFFICES ASSUME NEW k \in Keys, deliveredAt[k] # Never,
                      clock <= deliveredAt[k] + Ttl
               PROVE  k \in Delivered'
    BY DEF ReplayWindowHolds
  <2>1. k \in Delivered /\ seen[k].expiresAt = deliveredAt[k] + Ttl
    BY DEF Inv, ReplayWindowHolds, ExpiryIsDelivery
  <2>2. deliveredAt[k] \in Nat /\ clock \in Nat
    BY DEF Inv, TypeOK
  <2>3. k \in DOMAIN seen'
    BY <1>1, <2>1, <2>2, Constants DEF Delivered
  <2> QED BY <1>2, <2>1, <2>3 DEF Delivered
<1>10. Bounded'
  BY <1>1 DEF Bounded
<1> QED BY <1>3, <1>4, <1>5, <1>6, <1>7, <1>8, <1>9, <1>10 DEF Inv

(* A reserve() that gives a lease: the new entry is the only one with its  *)
(* generation, and the guard still has room for it.                        *)
LEMMA LeaseInv ==
    ASSUME Inv, NEW t \in Callers, pc[t] = "reserving", key[t] \notin DOMAIN Left(t),
           Cardinality(DOMAIN Left(t)) < MaxEntries,
           seen' = Put(Left(t), key[t], NewEntry(generation + 1)),
           expiries' = expiries \ Due(now[t]),
           generation' = generation + 1,
           lease' = [lease EXCEPT ![t] = generation + 1],
           pc' = [pc EXCEPT ![t] = "sending"],
           now' = [now EXCEPT ![t] = 0],
           verdict' = [verdict EXCEPT ![t] = "lease"],
           UNCHANGED <<clock, key, deliveredAt>>
    PROVE  Inv'
<1> DEFINE k0 == key[t]
<1>1. /\ DOMAIN Left(t) \subseteq DOMAIN seen
      /\ \A k \in DOMAIN Left(t) : Left(t)[k] = seen[k]
      /\ Left(t) \in [DOMAIN Left(t) -> Entry]
      /\ \A k \in DOMAIN seen \ DOMAIN Left(t) :
            seen[k].delivered /\ seen[k].expiresAt < clock
      /\ expiries' = {<<seen[k].expiresAt, seen[k].lease, k>> :
                         k \in {j \in DOMAIN Left(t) : seen[j].delivered}}
      /\ IsFiniteSet(DOMAIN Left(t)) /\ Cardinality(DOMAIN Left(t)) <= MaxEntries
  BY PruneFacts
<1>2. /\ k0 \in Keys /\ generation \in Nat
      /\ NewEntry(generation + 1) \in Entry
      /\ NewEntry(generation + 1).lease = generation + 1
      /\ NewEntry(generation + 1).delivered = FALSE
  BY DEF Inv, TypeOK, Readings, NewEntry, Entry, NoExpiry
<1>3. /\ DOMAIN seen' = DOMAIN Left(t) \cup {k0}
      /\ seen'[k0] = NewEntry(generation + 1)
      /\ \A k \in DOMAIN Left(t) : seen'[k] = seen[k]
  BY <1>1 DEF Put
<1>4. seen' \in [DOMAIN seen' -> Entry]
  <2>1. \A k \in DOMAIN seen' : seen'[k] \in Entry
    BY <1>1, <1>2, <1>3
  <2>2. seen' = [k \in DOMAIN seen' |-> seen'[k]]
    BY DEF Put
  <2> QED BY <2>1, <2>2
<1>5. /\ Delivered' = {k \in DOMAIN Left(t) : seen[k].delivered}
      /\ InFlight' = InFlight \cup {k0}
  BY <1>1, <1>2, <1>3 DEF Delivered, InFlight
<1>6. TypeOK'
  <2>1. /\ DOMAIN seen' \subseteq Keys
        /\ \A k \in DOMAIN seen' : seen'[k].lease \in 1..generation'
    BY <1>1, <1>2, <1>3 DEF Inv, TypeOK
  <2>2. expiries' \subseteq (Nat \X (1..generation') \X Keys)
    BY <1>2 DEF Inv, TypeOK
  <2>3. /\ pc' \in [Callers -> {"idle", "reserving", "sending"}]
        /\ now' \in [Callers -> 0..MaxClock]
        /\ lease' \in [Callers -> 0..generation']
        /\ verdict' \in [Callers -> {"none", "lease", "refused", "delivered"}]
    BY <1>2, Constants DEF Inv, TypeOK
  <2> QED BY <1>2, <1>4, <2>1, <2>2, <2>3 DEF Inv, TypeOK
<1>7. Readings'
  BY DEF Inv, TypeOK, Readings
<1>8. HeapMatchesSeen'
  <2>1. \A k \in Delivered' : seen'[k] = seen[k]
    BY <1>3, <1>5
  <2> QED BY <1>1, <1>5, <2>1 DEF HeapMatchesSeen
<1>9. ExpiryIsDelivery'
  BY <1>1, <1>3, <1>5 DEF Inv, ExpiryIsDelivery, Delivered
<1>10. LeasesDistinct'
  <2>1. \A k \in DOMAIN Left(t) : seen'[k].lease < generation + 1
    BY <1>1, <1>2, <1>3 DEF Inv, TypeOK
  <2>2. \A j, k \in DOMAIN seen' : seen'[j].lease = seen'[k].lease => j = k
    BY <1>1, <1>2, <1>3, <2>1 DEF Inv, LeasesDistinct
  <2>3. /\ lease'[t] = generation + 1
        /\ \A s \in Callers \ {t} : lease'[s] = lease[s] /\ lease[s] < generation + 1
                                     /\ pc'[s] = pc[s]
    BY <1>2 DEF Inv, TypeOK
  <2> QED BY <2>2, <2>3 DEF Inv, LeasesDistinct
<1>11. EveryLeaseHasItsOwner'
  <2>1. \A s \in Callers \ {t} : pc'[s] = pc[s] /\ lease'[s] = lease[s]
    BY DEF Inv, TypeOK
  <2>2. pc'[t] = "sending" /\ lease'[t] = generation + 1
    BY DEF Inv, TypeOK
  <2>3. \A k \in InFlight : k \in DOMAIN Left(t) /\ k # k0
    BY <1>1 DEF InFlight
  <2>4. \A s \in Callers : pc'[s] = "sending" => Owns(s)' /\ key[s] \in InFlight'
    BY <1>2, <1>3, <1>5, <2>1, <2>2, <2>3 DEF Inv, EveryLeaseHasItsOwner, Owns
  <2>5. \A k \in InFlight' : \E s \in Callers :
           pc'[s] = "sending" /\ key[s] = k /\ lease'[s] = seen'[k].lease
    <3> SUFFICES ASSUME NEW k \in InFlight'
                 PROVE  \E s \in Callers :
                           pc'[s] = "sending" /\ key[s] = k /\ lease'[s] = seen'[k].lease
      OBVIOUS
    <3>1. CASE k = k0
      BY <1>2, <1>3, <2>2, <3>1
    <3>2. CASE k \in InFlight
      <4>1. PICK s \in Callers : pc[s] = "sending" /\ key[s] = k /\ lease[s] = seen[k].lease
        BY <3>2 DEF Inv, EveryLeaseHasItsOwner
      <4> QED BY <1>3, <2>1, <2>3, <3>2, <4>1
    <3> QED BY <1>5, <3>1, <3>2
  <2> QED BY <2>4, <2>5 DEF EveryLeaseHasItsOwner
<1>12. ReplayWindowHolds'
  <2> SUFFICES ASSUME NEW k \in Keys, deliveredAt[k] # Never,
                      clock <= deliveredAt[k] + Ttl
               PROVE  k \in Delivered'
    BY DEF ReplayWindowHolds
  <2>1. k \in Delivered /\ seen[k].expiresAt = deliveredAt[k] + Ttl
    BY DEF Inv, ReplayWindowHolds, ExpiryIsDelivery
  <2>2. deliveredAt[k] \in Nat /\ clock \in Nat
    BY DEF Inv, TypeOK
  <2>3. k \in DOMAIN Left(t)
    BY <1>1, <2>1, <2>2, Constants DEF Delivered
  <2> QED BY <1>5, <2>1, <2>3 DEF Delivered
<1>13. Bounded'
  <2>1. /\ IsFiniteSet(DOMAIN Left(t) \cup {k0})
        /\ Cardinality(DOMAIN Left(t) \cup {k0}) = Cardinality(DOMAIN Left(t)) + 1
    BY <1>1, FS_AddElement
  <2>2. Cardinality(DOMAIN Left(t)) \in Nat
    BY <1>1, FS_CardinalityType
  <2> QED BY <1>3, <2>1, <2>2, Constants DEF Bounded
<1> QED BY <1>6, <1>7, <1>8, <1>9, <1>10, <1>11, <1>12, <1>13 DEF Inv

LEMMA ReserveInv ==
    ASSUME Inv, NEW t \in Callers, Reserve(t)
    PROVE  Inv'
<1>1. /\ pc[t] = "reserving"
      /\ expiries' = expiries \ Due(now[t])
      /\ now' = [now EXCEPT ![t] = 0]
      /\ UNCHANGED <<clock, deliveredAt>>
      /\ AnswerKnown(t, Left(t)) \/ AnswerFull(t, Left(t)) \/ AnswerLease(t, Left(t))
  BY DEF Reserve, Left
<1>2. verdict \in [Callers -> {"none", "lease", "refused", "delivered"}]
  BY DEF Inv, TypeOK
<1>3. CASE AnswerKnown(t, Left(t))
  <2>1. verdict' \in [Callers -> {"none", "lease", "refused", "delivered"}]
    BY <1>2, <1>3 DEF AnswerKnown
  <2> QED BY <1>1, <1>3, <2>1, AnswerInv DEF AnswerKnown
<1>4. CASE AnswerFull(t, Left(t))
  <2>1. verdict' \in [Callers -> {"none", "lease", "refused", "delivered"}]
    BY <1>2, <1>4 DEF AnswerFull
  <2> QED BY <1>1, <1>4, <2>1, AnswerInv DEF AnswerFull
<1>5. CASE AnswerLease(t, Left(t))
  <2>1. Cardinality(DOMAIN Left(t)) < MaxEntries
    BY <1>5 DEF AnswerLease
  <2> QED BY <1>1, <1>5, <2>1, LeaseInv DEF AnswerLease
<1> QED BY <1>1, <1>3, <1>4, <1>5

(* A caller that settles its lease is the only one with that key, and its  *)
(* own entry is what it finds.                                             *)
LEMMA SettleFacts ==
    ASSUME Inv, NEW t \in Callers, pc[t] = "sending"
    PROVE  /\ Owns(t) /\ key[t] \in Keys
           /\ key[t] \in DOMAIN seen /\ ~seen[key[t]].delivered
           /\ \A s \in Callers \ {t} : pc[s] = "sending" => key[s] # key[t]
           /\ deliveredAt[key[t]] # Never => clock > deliveredAt[key[t]] + Ttl
<1>1. /\ Owns(t) /\ key[t] \in InFlight
      /\ \A s \in Callers : pc[s] = "sending" => Owns(s)
  BY DEF Inv, EveryLeaseHasItsOwner
<1>2. key[t] \in DOMAIN seen /\ ~seen[key[t]].delivered /\ key[t] \in Keys
  BY <1>1 DEF InFlight, Inv, TypeOK
<1>3. \A s \in Callers \ {t} : pc[s] = "sending" => key[s] # key[t]
  BY <1>1 DEF Owns, Inv, LeasesDistinct
<1>4. deliveredAt[key[t]] # Never => clock > deliveredAt[key[t]] + Ttl
  <2>1. key[t] \notin Delivered
    BY <1>2 DEF Delivered
  <2>2. ~(deliveredAt[key[t]] # Never /\ clock <= deliveredAt[key[t]] + Ttl)
    BY <1>2, <2>1 DEF Inv, ReplayWindowHolds
  <2>3. clock \in Nat /\ deliveredAt[key[t]] \in Nat \cup {Never}
    BY <1>2 DEF Inv, TypeOK
  <2> QED BY <2>2, <2>3, Constants
<1> QED BY <1>1, <1>2, <1>3, <1>4

LEMMA ReleaseInv ==
    ASSUME Inv, NEW t \in Callers, Release(t)
    PROVE  Inv'
<1> DEFINE k0 == key[t]
<1>1. /\ pc[t] = "sending" /\ LeaveCall(t)
      /\ seen' = Drop(seen, {k0})
      /\ UNCHANGED <<clock, expiries, generation, now, deliveredAt>>
      /\ k0 \in DOMAIN seen /\ ~seen[k0].delivered
      /\ \A s \in Callers \ {t} : pc[s] = "sending" => key[s] # k0
  BY SettleFacts DEF Release
<1>2. /\ DOMAIN seen' = DOMAIN seen \ {k0}
      /\ \A k \in DOMAIN seen' : seen'[k] = seen[k]
  BY <1>1 DEF Drop
<1>3. Delivered' = Delivered /\ InFlight' = InFlight \ {k0}
  BY <1>1, <1>2 DEF Delivered, InFlight
<1>4. /\ pc' = [pc EXCEPT ![t] = "idle"] /\ key' = [key EXCEPT ![t] = NoKey]
      /\ lease' = [lease EXCEPT ![t] = NoLease] /\ verdict' = [verdict EXCEPT ![t] = "none"]
      /\ \A s \in Callers \ {t} :
            pc'[s] = pc[s] /\ key'[s] = key[s] /\ lease'[s] = lease[s]
      /\ pc'[t] = "idle"
  BY <1>1 DEF LeaveCall, Inv, TypeOK
<1>5. TypeOK'
  <2>1. seen' \in [DOMAIN seen' -> Entry]
    BY <1>1, <1>2 DEF Inv, TypeOK, Drop
  <2>2. /\ DOMAIN seen' \subseteq Keys
        /\ \A k \in DOMAIN seen' : seen'[k].lease \in 1..generation'
    BY <1>1, <1>2 DEF Inv, TypeOK
  <2>3. /\ lease' \in [Callers -> 0..generation']
        /\ pc' \in [Callers -> {"idle", "reserving", "sending"}]
        /\ key' \in [Callers -> Keys \cup {NoKey}]
        /\ verdict' \in [Callers -> {"none", "lease", "refused", "delivered"}]
    BY <1>1, <1>4 DEF Inv, TypeOK, NoLease
  <2> QED BY <1>1, <2>1, <2>2, <2>3 DEF Inv, TypeOK
<1>6. Readings'
  BY <1>1, <1>4 DEF Inv, TypeOK, Readings
<1>7. HeapMatchesSeen' /\ ExpiryIsDelivery' /\ ReplayWindowHolds'
  <2>1. \A k \in Delivered : seen'[k] = seen[k]
    BY <1>1, <1>2 DEF Delivered
  <2>2. HeapMatchesSeen'
    BY <1>1, <1>3, <2>1 DEF Inv, HeapMatchesSeen
  <2>3. ExpiryIsDelivery'
    BY <1>1, <1>3, <2>1 DEF Inv, ExpiryIsDelivery
  <2>4. ReplayWindowHolds'
    BY <1>1, <1>3 DEF Inv, ReplayWindowHolds
  <2> QED BY <2>2, <2>3, <2>4
<1>8. LeasesDistinct'
  <2>1. \A j, k \in DOMAIN seen' : seen'[j].lease = seen'[k].lease => j = k
    BY <1>2 DEF Inv, LeasesDistinct
  <2>2. \A r, s \in Callers :
           pc'[r] = "sending" /\ pc'[s] = "sending" /\ lease'[r] = lease'[s] => r = s
    BY <1>4 DEF Inv, LeasesDistinct
  <2> QED BY <2>1, <2>2 DEF LeasesDistinct
<1>9. EveryLeaseHasItsOwner'
  <2> SUFFICES /\ \A s \in Callers : pc'[s] = "sending" =>
                     /\ key'[s] \in DOMAIN seen' /\ seen'[key'[s]].lease = lease'[s]
                     /\ key'[s] \in InFlight'
               /\ \A k \in InFlight' : \E s \in Callers :
                     pc'[s] = "sending" /\ key'[s] = k /\ lease'[s] = seen'[k].lease
    BY DEF EveryLeaseHasItsOwner, Owns
  <2>1. ASSUME NEW s \in Callers, pc'[s] = "sending"
        PROVE  /\ key'[s] \in DOMAIN seen' /\ seen'[key'[s]].lease = lease'[s]
               /\ key'[s] \in InFlight'
    <3>1. s # t /\ pc[s] = "sending" /\ key'[s] = key[s] /\ lease'[s] = lease[s]
      BY <1>4, <2>1
    <3>2. key[s] # k0 /\ key[s] \in InFlight /\ key[s] \in DOMAIN seen
          /\ seen[key[s]].lease = lease[s]
      BY <1>1, <3>1 DEF Inv, EveryLeaseHasItsOwner, Owns
    <3> QED BY <1>2, <1>3, <3>1, <3>2
  <2>2. ASSUME NEW k \in InFlight'
        PROVE  \E s \in Callers :
                  pc'[s] = "sending" /\ key'[s] = k /\ lease'[s] = seen'[k].lease
    <3>1. k \in InFlight /\ k # k0 /\ k \in DOMAIN seen
      BY <1>3, <2>2 DEF InFlight
    <3>2. PICK s \in Callers : pc[s] = "sending" /\ key[s] = k /\ lease[s] = seen[k].lease
      BY <3>1 DEF Inv, EveryLeaseHasItsOwner
    <3>3. s # t
      BY <3>1, <3>2
    <3> QED BY <1>2, <1>4, <3>1, <3>2, <3>3
  <2> QED BY <2>1, <2>2
<1>10. Bounded'
  <2>1. DOMAIN seen' \in SUBSET DOMAIN seen /\ IsFiniteSet(DOMAIN seen)
    BY <1>2 DEF Inv, Bounded
  <2>2. /\ IsFiniteSet(DOMAIN seen')
        /\ Cardinality(DOMAIN seen') <= Cardinality(DOMAIN seen)
    BY <2>1, FS_Subset
  <2>3. Cardinality(DOMAIN seen') \in Nat /\ Cardinality(DOMAIN seen) \in Nat
    BY <2>1, <2>2, FS_CardinalityType
  <2> QED BY <2>2, <2>3, Constants DEF Inv, Bounded
<1> QED BY <1>5, <1>6, <1>7, <1>8, <1>9, <1>10 DEF Inv

LEMMA CommitInv ==
    ASSUME Inv, NEW t \in Callers, Commit(t)
    PROVE  Inv'
<1> DEFINE k0   == key[t]
           item == <<clock + Ttl, lease[t], k0>>
<1>1. /\ pc[t] = "sending" /\ LeaveCall(t)
      /\ seen' = [seen EXCEPT ![k0] = DeliveredEntry(lease[t], clock + Ttl)]
      /\ expiries' = expiries \cup {item}
      /\ deliveredAt' = [deliveredAt EXCEPT ![k0] = clock]
      /\ UNCHANGED <<clock, generation, now>>
      /\ k0 \in DOMAIN seen /\ ~seen[k0].delivered /\ k0 \in Keys
      /\ seen[k0].lease = lease[t]
      /\ \A s \in Callers \ {t} : pc[s] = "sending" => key[s] # k0
  BY SettleFacts DEF Commit, Owns
<1>2. /\ seen \in [DOMAIN seen -> Entry] /\ clock \in Nat /\ generation \in Nat
      /\ seen[k0].lease \in 1..generation
      /\ deliveredAt \in [Keys -> Nat \cup {Never}]
  BY <1>1 DEF Inv, TypeOK
<1>3. /\ DOMAIN seen' = DOMAIN seen
      /\ \A k \in DOMAIN seen \ {k0} : seen'[k] = seen[k]
      /\ seen'[k0].lease = lease[t] /\ seen'[k0].delivered
      /\ seen'[k0].expiresAt = clock + Ttl
      /\ seen'[k0] \in Entry
  <2>1. DOMAIN seen' = DOMAIN seen /\ \A k \in DOMAIN seen \ {k0} : seen'[k] = seen[k]
    BY <1>1, <1>2
  <2>2. seen'[k0] = DeliveredEntry(lease[t], clock + Ttl)
    BY <1>1, <1>2
  <2>3. lease[t] \in Nat /\ clock + Ttl \in Int
    BY <1>1, <1>2, Constants
  <2> QED BY <2>1, <2>2, <2>3 DEF DeliveredEntry, Entry
<1>4. Delivered' = Delivered \cup {k0} /\ InFlight' = InFlight \ {k0} /\ k0 \notin Delivered
  BY <1>1, <1>3 DEF Delivered, InFlight
<1>5. /\ pc' = [pc EXCEPT ![t] = "idle"] /\ key' = [key EXCEPT ![t] = NoKey]
      /\ lease' = [lease EXCEPT ![t] = NoLease] /\ verdict' = [verdict EXCEPT ![t] = "none"]
      /\ \A s \in Callers \ {t} :
            pc'[s] = pc[s] /\ key'[s] = key[s] /\ lease'[s] = lease[s]
      /\ pc'[t] = "idle"
  BY <1>1 DEF LeaveCall, Inv, TypeOK
<1>6. TypeOK'
  <2>1. seen' \in [DOMAIN seen' -> Entry]
    BY <1>1, <1>2, <1>3
  <2>2. /\ DOMAIN seen' \subseteq Keys
        /\ \A k \in DOMAIN seen' : seen'[k].lease \in 1..generation'
    BY <1>1, <1>2, <1>3 DEF Inv, TypeOK
  <2>3. expiries' \subseteq (Nat \X (1..generation') \X Keys)
    BY <1>1, <1>2, Constants DEF Inv, TypeOK
  <2>4. /\ lease' \in [Callers -> 0..generation']
        /\ pc' \in [Callers -> {"idle", "reserving", "sending"}]
        /\ key' \in [Callers -> Keys \cup {NoKey}]
        /\ verdict' \in [Callers -> {"none", "lease", "refused", "delivered"}]
        /\ deliveredAt' \in [Keys -> Nat \cup {Never}]
    BY <1>1, <1>2, <1>5 DEF Inv, TypeOK, NoLease
  <2> QED BY <1>1, <2>1, <2>2, <2>3, <2>4 DEF Inv, TypeOK
<1>7. Readings'
  BY <1>1, <1>5 DEF Inv, TypeOK, Readings
<1>8. HeapMatchesSeen'
  <2>1. expiries = {<<seen[k].expiresAt, seen[k].lease, k>> : k \in Delivered}
    BY DEF Inv, HeapMatchesSeen
  <2>2. \A k \in Delivered : seen'[k] = seen[k]
    BY <1>3, <1>4 DEF Delivered
  <2>3. item = <<seen'[k0].expiresAt, seen'[k0].lease, k0>>
    BY <1>3
  <2> QED BY <1>1, <1>4, <2>1, <2>2, <2>3 DEF HeapMatchesSeen
<1>9. ExpiryIsDelivery'
  BY <1>1, <1>2, <1>3, <1>4 DEF Inv, ExpiryIsDelivery, Delivered, Never
<1>10. LeasesDistinct'
  BY <1>1, <1>3, <1>5 DEF Inv, LeasesDistinct
<1>11. EveryLeaseHasItsOwner'
  BY <1>1, <1>3, <1>4, <1>5 DEF Inv, EveryLeaseHasItsOwner, Owns, InFlight
<1>12. ReplayWindowHolds'
  BY <1>1, <1>2, <1>4 DEF Inv, ReplayWindowHolds
<1>13. Bounded'
  BY <1>3 DEF Inv, Bounded
<1> QED BY <1>6, <1>7, <1>8, <1>9, <1>10, <1>11, <1>12, <1>13 DEF Inv

LEMMA NextInv == Inv /\ [Next]_vars => Inv'
<1> SUFFICES ASSUME Inv, [Next]_vars PROVE Inv'
  OBVIOUS
<1>1. CASE Tick
  BY <1>1, TickInv
<1>2. ASSUME NEW t \in Callers, NEW k \in Keys, ReadNow(t, k) PROVE Inv'
  BY <1>2, ReadNowInv
<1>3. ASSUME NEW t \in Callers, Reserve(t) PROVE Inv'
  BY <1>3, ReserveInv
<1>4. ASSUME NEW t \in Callers, Commit(t) PROVE Inv'
  BY <1>4, CommitInv
<1>5. ASSUME NEW t \in Callers, Release(t) PROVE Inv'
  BY <1>5, ReleaseInv
<1>6. CASE UNCHANGED vars
  BY <1>6 DEF vars, Inv, TypeOK, Readings, HeapMatchesSeen, ExpiryIsDelivery, LeasesDistinct,
              EveryLeaseHasItsOwner, Owns, ReplayWindowHolds, Bounded, Delivered, InFlight
<1> QED BY <1>1, <1>2, <1>3, <1>4, <1>5, <1>6 DEF Next

-----------------------------------------------------------------------------
(* Consequences of the invariant.                                          *)

(* The heap has no more items than there are delivered entries.            *)
LEMMA InvGivesCapacity == Inv => CapacityRespected
<1> SUFFICES ASSUME Inv PROVE CapacityRespected
  OBVIOUS
<1> DEFINE item == [k \in Delivered |-> <<seen[k].expiresAt, seen[k].lease, k>>]
<1>1. IsFiniteSet(DOMAIN seen) /\ Cardinality(DOMAIN seen) <= MaxEntries
  BY DEF Inv, Bounded
<1>2. Delivered \in SUBSET DOMAIN seen
  BY DEF Delivered
<1>3. IsFiniteSet(Delivered) /\ Cardinality(Delivered) <= Cardinality(DOMAIN seen)
  BY <1>1, <1>2, FS_Subset
<1>4. item \in Surjection(Delivered, expiries)
  BY DEF Inv, HeapMatchesSeen, Surjection
<1>5. IsFiniteSet(expiries) /\ Cardinality(expiries) <= Cardinality(Delivered)
  BY <1>3, <1>4, FS_Surjection
<1>6. /\ Cardinality(DOMAIN seen) \in Nat /\ Cardinality(Delivered) \in Nat
      /\ Cardinality(expiries) \in Nat
  BY <1>1, <1>3, <1>5, FS_CardinalityType
<1> QED BY <1>1, <1>3, <1>5, <1>6, Constants DEF CapacityRespected

(* A repeat that is dropped as delivered was not expired for its caller.   *)
LEMMA SuppressionStep ==
    ASSUME Inv, [Next]_vars, NEW t \in Callers,
           pc[t] = "reserving", pc'[t] = "idle", verdict'[t] = "delivered"
    PROVE  /\ deliveredAt[key[t]] # Never
           /\ now[t] <= deliveredAt[key[t]] + Ttl
<1>1. verdict \in [Callers -> {"none", "lease", "refused", "delivered"}]
      /\ pc \in [Callers -> {"idle", "reserving", "sending"}]
  BY DEF Inv, TypeOK
<1>2. Reserve(t)
  <2>1. ~Tick /\ ~UNCHANGED vars
    BY DEF Tick, vars
  <2>2. \A s \in Callers : \A k \in Keys : ~ReadNow(s, k)
    BY <1>1 DEF ReadNow
  <2>3. \A s \in Callers : ~Commit(s) /\ ~Release(s)
    BY <1>1 DEF Commit, Release, LeaveCall
  <2>4. PICK s \in Callers : Reserve(s)
    BY <2>1, <2>2, <2>3 DEF Next
  <2>5. s = t
    BY <1>1, <2>4 DEF Reserve, AnswerKnown, AnswerFull, AnswerLease
  <2> QED BY <2>4, <2>5
<1>3. /\ key[t] \in DOMAIN Left(t) /\ Left(t)[key[t]].delivered
  <2>1. AnswerKnown(t, Left(t)) \/ AnswerFull(t, Left(t)) \/ AnswerLease(t, Left(t))
    BY <1>2 DEF Reserve, Left
  <2>2. ~AnswerFull(t, Left(t)) /\ ~AnswerLease(t, Left(t))
    BY <1>1 DEF AnswerFull, AnswerLease
  <2> QED BY <1>1, <2>1, <2>2 DEF AnswerKnown
<1>4. /\ key[t] \in DOMAIN seen /\ seen[key[t]].delivered
      /\ seen[key[t]].expiresAt >= now[t]
  BY <1>3, PruneFacts
<1>5. key[t] \in Delivered /\ key[t] \in Keys
  BY <1>4 DEF Delivered, Inv, TypeOK
<1>6. /\ deliveredAt[key[t]] # Never
      /\ seen[key[t]].expiresAt = deliveredAt[key[t]] + Ttl
      /\ deliveredAt[key[t]] \in Nat /\ now[t] \in Nat
  BY <1>5, Constants DEF Inv, TypeOK, ExpiryIsDelivery
<1> QED BY <1>4, <1>6, Constants

-----------------------------------------------------------------------------
(* The inductive invariant holds in every reachable state.                 *)
THEOREM InvHolds == Spec => []Inv
BY InitInv, NextInv, PTL DEF Spec

(* TypeOK holds: entries, heap items and leases carry generations that were*)
(* given out.                                                              *)
THEOREM TypeCorrect == Spec => []TypeOK
<1>1. Inv => TypeOK
  BY DEF Inv
<1> QED BY InvHolds, <1>1, PTL

(* What a provider accepted is remembered for the whole TTL, for any number*)
(* of callers, keys and slots.                                             *)
THEOREM WindowCorrect == Spec => []ReplayWindowHolds
<1>1. Inv => ReplayWindowHolds
  BY DEF Inv
<1> QED BY InvHolds, <1>1, PTL

(* No lease leaks and none is lost.                                        *)
THEOREM LeasesCorrect == Spec => []EveryLeaseHasItsOwner
<1>1. Inv => EveryLeaseHasItsOwner
  BY DEF Inv
<1> QED BY InvHolds, <1>1, PTL

(* The heap and the table never drift apart.                               *)
THEOREM HeapCorrect == Spec => []HeapMatchesSeen
<1>1. Inv => HeapMatchesSeen
  BY DEF Inv
<1> QED BY InvHolds, <1>1, PTL

(* Neither the table nor the heap outgrows the capacity.                   *)
THEOREM CapacityCorrect == Spec => []CapacityRespected
BY InvHolds, InvGivesCapacity, PTL

(* Two deliveries of a pair are more than a TTL apart.                     *)
THEOREM DeliveriesApart == Spec => DeliveriesAreApart
<1>1. Inv /\ [Next]_vars =>
         [\A k \in Keys : \A t \in Callers :
             Commit(t) /\ key[t] = k /\ deliveredAt[k] # Never
                 => clock > deliveredAt[k] + Ttl]_vars
  BY SettleFacts DEF Commit
<1> QED BY InvHolds, <1>1, PTL DEF Spec, DeliveriesAreApart

(* A pair is only dropped as delivered within the window of a delivery.    *)
THEOREM SuppressionTimely == Spec => SuppressionIsTimely
<1>1. Inv /\ [Next]_vars =>
         [\A t \in Callers :
             pc[t] = "reserving" /\ pc'[t] = "idle" /\ verdict'[t] = "delivered"
                 => /\ deliveredAt[key[t]] # Never
                    /\ now[t] <= deliveredAt[key[t]] + Ttl]_vars
  BY SuppressionStep
<1> QED BY InvHolds, <1>1, PTL DEF Spec, SuppressionIsTimely
-----------------------------------------------------------------------------
(* The refinement of ReplayWindow.                                         *)

\* Who is not sending has no lease.
Unleased == \A t \in Callers : pc[t] # "sending" => lease[t] = NoLease

LEMMA UnleasedStep ==
    ASSUME Inv, Unleased, [Next]_vars
    PROVE  Unleased'
<1>1. /\ pc \in [Callers -> {"idle", "reserving", "sending"}]
      /\ lease \in [Callers -> 0..generation]
  BY DEF Inv, TypeOK
<1>2. CASE Tick \/ UNCHANGED vars
  BY <1>2 DEF Unleased, Tick, vars
<1>3. ASSUME NEW t \in Callers, NEW k \in Keys, ReadNow(t, k)
      PROVE  Unleased'
  BY <1>1, <1>3 DEF Unleased, ReadNow
<1>4. ASSUME NEW t \in Callers, Reserve(t)
      PROVE  Unleased'
  BY <1>1, <1>4 DEF Unleased, Reserve, AnswerKnown, AnswerFull, AnswerLease
<1>5. ASSUME NEW t \in Callers, Commit(t) \/ Release(t)
      PROVE  Unleased'
  BY <1>1, <1>5 DEF Unleased, Commit, Release, LeaveCall
<1> QED BY <1>2, <1>3, <1>4, <1>5 DEF Next

\* The holder of a key is the caller that is sending it.
Named ==
    \A k \in Keys :
        /\ Holder[k] \in Callers \cup {NoOne}
        /\ Holder[k] = NoOne <=> k \notin InFlight
        /\ \A t \in Callers : Holder[k] = t <=> pc[t] = "sending" /\ key[t] = k

LEMMA HolderIs == Inv /\ Unleased => Named
<1> SUFFICES ASSUME Inv, Unleased, NEW k \in Keys
             PROVE  /\ Holder[k] \in Callers \cup {NoOne}
                    /\ Holder[k] = NoOne <=> k \notin InFlight
                    /\ \A t \in Callers : Holder[k] = t <=> pc[t] = "sending" /\ key[t] = k
  BY DEF Named
<1>0. Holder[k] = HolderOf(k)
  BY DEF Holder
<1>1. \A t \in Callers : pc[t] = "sending" =>
         key[t] \in DOMAIN seen /\ seen[key[t]].lease = lease[t] /\ key[t] \in InFlight
  BY DEF Inv, EveryLeaseHasItsOwner, Owns
<1>2. CASE k \in InFlight
  <2>1. PICK o \in Callers : pc[o] = "sending" /\ key[o] = k /\ lease[o] = seen[k].lease
    BY <1>2 DEF Inv, EveryLeaseHasItsOwner
  <2>2. seen[k].lease # NoLease
    BY <1>2 DEF Inv, TypeOK, InFlight, NoLease
  <2>3. ASSUME NEW t \in Callers, lease[t] = seen[k].lease
        PROVE  t = o
    <3>1. pc[t] = "sending"
      BY <2>2, <2>3 DEF Unleased
    <3> QED BY <2>1, <2>3, <3>1 DEF Inv, LeasesDistinct
  <2>4. HolderOf(k) = o
    BY <1>2, <2>1, <2>3 DEF HolderOf
  <2>5. ASSUME NEW t \in Callers, pc[t] = "sending", key[t] = k
        PROVE  t = o
    BY <1>1, <2>3, <2>5
  <2> QED BY <1>0, <1>2, <2>1, <2>4, <2>5, NoOneAssumption
<1>3. CASE k \notin InFlight
  BY <1>0, <1>1, <1>3, NoOneAssumption DEF HolderOf
<1> QED BY <1>2, <1>3

LEMMA HolderIsNext == (Inv /\ Unleased)' => Named'
BY HolderIs, PTL

LEMMA HeldIsInFlight ==
    ASSUME Inv, Unleased
    PROVE  Window!Held = InFlight
<1>1. InFlight \subseteq Keys
  BY DEF Inv, TypeOK, InFlight
<1> QED BY <1>1, HolderIs DEF Named, Window!Held

\* Two functions on the keys are the same holders if they name the same callers.
LEMMA HolderUnchanged ==
    ASSUME Inv, Unleased, Inv', Unleased', InFlight' = InFlight,
           \A t \in Callers, k \in Keys :
              pc'[t] = "sending" /\ key'[t] = k <=> pc[t] = "sending" /\ key[t] = k
    PROVE  Holder' = Holder
<1>1. ASSUME NEW k \in Keys
      PROVE  Holder'[k] = Holder[k]
  <2>1. /\ Holder[k] \in Callers \cup {NoOne}
        /\ Holder[k] = NoOne <=> k \notin InFlight
        /\ \A t \in Callers : Holder[k] = t <=> pc[t] = "sending" /\ key[t] = k
    BY HolderIs DEF Named
  <2>2. /\ Holder'[k] \in Callers \cup {NoOne}
        /\ Holder'[k] = NoOne <=> k \notin InFlight'
        /\ \A t \in Callers : Holder'[k] = t <=> pc'[t] = "sending" /\ key'[t] = k
    BY HolderIsNext DEF Named
  <2>3. CASE Holder[k] = NoOne
    BY <2>1, <2>2, <2>3
  <2>4. CASE Holder[k] \in Callers
    <3>1. pc[Holder[k]] = "sending" /\ key[Holder[k]] = k
      BY <2>1, <2>4
    <3>2. pc'[Holder[k]] = "sending" /\ key'[Holder[k]] = k
      BY <2>4, <3>1
    <3> QED BY <2>2, <2>4, <3>2
  <2> QED BY <2>1, <2>3, <2>4
<1>2. Holder' = [k \in Keys |-> Holder'[k]] /\ Holder = [k \in Keys |-> Holder[k]]
  BY DEF Holder
<1> QED BY <1>1, <1>2

LEMMA HolderChanged ==
    ASSUME Inv, Unleased, Inv', Unleased', NEW k \in Keys, NEW h \in Callers \cup {NoOne},
           Holder'[k] = h,
           \A t \in Callers, j \in Keys \ {k} :
              pc'[t] = "sending" /\ key'[t] = j <=> pc[t] = "sending" /\ key[t] = j,
           \A j \in Keys \ {k} : j \in InFlight' <=> j \in InFlight
    PROVE  Holder' = [Holder EXCEPT ![k] = h]
<1>1. ASSUME NEW j \in Keys \ {k}
      PROVE  Holder'[j] = Holder[j]
  <2>1. /\ Holder[j] \in Callers \cup {NoOne}
        /\ Holder[j] = NoOne <=> j \notin InFlight
        /\ \A t \in Callers : Holder[j] = t <=> pc[t] = "sending" /\ key[t] = j
    BY HolderIs DEF Named
  <2>2. /\ Holder'[j] \in Callers \cup {NoOne}
        /\ Holder'[j] = NoOne <=> j \notin InFlight'
        /\ \A t \in Callers : Holder'[j] = t <=> pc'[t] = "sending" /\ key'[t] = j
    BY HolderIsNext DEF Named
  <2>3. CASE Holder[j] = NoOne
    BY <2>1, <2>2, <2>3
  <2>4. CASE Holder[j] \in Callers
    <3>1. pc[Holder[j]] = "sending" /\ key[Holder[j]] = j
      BY <2>1, <2>4
    <3>2. pc'[Holder[j]] = "sending" /\ key'[Holder[j]] = j
      BY <2>4, <3>1
    <3> QED BY <2>2, <2>4, <3>2
  <2> QED BY <2>1, <2>3, <2>4
<1>2. Holder' = [j \in Keys |-> Holder'[j]] /\ Holder = [j \in Keys |-> Holder[j]]
  BY DEF Holder
<1>3. [Holder EXCEPT ![k] = h] = [j \in Keys |-> IF j = k THEN h ELSE Holder[j]]
  BY DEF Holder
<1> QED BY <1>1, <1>2, <1>3
\* The window counts as the guard does.
LEMMA SameCardinality == \A S : Window!Cardinality(S) = Cardinality(S)
BY Zenon DEF Window!Cardinality, Cardinality

LEMMA TickPasses ==
    ASSUME Tick
    PROVE  Window!Pass
<1>1. /\ clock' = clock + 1
      /\ UNCHANGED <<seen, expiries, generation, pc, key, now, lease, verdict, deliveredAt>>
  BY DEF Tick
<1>2. Holder' = Holder /\ Delivered' = Delivered
  BY <1>1 DEF Holder, HolderOf, InFlight, Delivered
<1> QED BY <1>1, <1>2 DEF Window!Pass

LEMMA ReadNowAsks ==
    ASSUME NEW t \in Callers, NEW k \in Keys, ReadNow(t, k)
    PROVE  Window!Ask(t)
<1>1. UNCHANGED <<clock, seen, lease, deliveredAt>> /\ verdict' = [verdict EXCEPT ![t] = "none"]
  BY DEF ReadNow
<1>2. Holder' = Holder /\ Delivered' = Delivered
  BY <1>1 DEF Holder, HolderOf, InFlight, Delivered
<1> QED BY <1>1, <1>2 DEF Window!Ask

\* A reserve() forgets old deliveries and answers for what is left.
LEMMA ReserveAnswers ==
    ASSUME Inv, Unleased, Inv', Unleased', NEW t \in Callers, Reserve(t)
    PROVE  key[t] \in Keys /\ Window!Answer(t, key[t])
<1> DEFINE k == key[t]
           left == Left(t)
<1>1. /\ pc[t] = "reserving" /\ UNCHANGED <<clock, deliveredAt>>
      /\ AnswerKnown(t, left) \/ AnswerFull(t, left) \/ AnswerLease(t, left)
  BY DEF Reserve, Left
<1>2. k \in Keys
  BY <1>1 DEF Inv, Readings
<1>3. /\ DOMAIN left \subseteq DOMAIN seen
      /\ \A j \in DOMAIN left : left[j] = seen[j]
      /\ \A j \in DOMAIN seen \ DOMAIN left : seen[j].delivered /\ seen[j].expiresAt < clock
  BY <1>1, PruneFacts
<1> HIDE DEF left
<1> DEFINE kept == {j \in DOMAIN left : left[j].delivered}
<1>4. kept \subseteq Delivered /\ Delivered \ kept \subseteq Window!Old
  <2>1. kept \subseteq Delivered
    BY <1>3 DEF Delivered
  <2>2. ASSUME NEW j \in Delivered \ kept
        PROVE  clock > deliveredAt[j] + Ttl
    <3>1. j \in DOMAIN seen \ DOMAIN left
      BY <1>3, <2>2 DEF Delivered
    <3>2. seen[j].expiresAt < clock /\ seen[j].expiresAt = deliveredAt[j] + Ttl
      BY <1>3, <2>2, <3>1 DEF Inv, ExpiryIsDelivery
    <3>3. j \in Keys /\ deliveredAt[j] # Never
      BY <2>2 DEF Inv, TypeOK, ExpiryIsDelivery, Delivered
    <3>4. deliveredAt[j] \in Nat /\ clock \in Nat
      BY <3>3 DEF Inv, TypeOK
    <3> QED BY <3>2, <3>4, Constants
  <2> QED BY <2>1, <2>2 DEF Window!Old
<1>5. InFlight = {j \in DOMAIN left : ~left[j].delivered} /\ InFlight \cup kept = DOMAIN left
  BY <1>3 DEF InFlight
<1>6. Window!Held = InFlight
  BY HeldIsInFlight
<1>7. pc \in [Callers -> {"idle", "reserving", "sending"}] /\ key \in [Callers -> Keys \cup {NoKey}]
  BY DEF Inv, TypeOK
<1>8. Delivered' = kept
  <2>1. CASE AnswerKnown(t, left) \/ AnswerFull(t, left)
    BY <2>1 DEF AnswerKnown, AnswerFull, Delivered
  <2>2. CASE AnswerLease(t, left)
    <3>1. /\ k \notin DOMAIN left /\ seen' = Put(left, k, NewEntry(generation + 1))
          /\ ~NewEntry(generation + 1).delivered
      BY <2>2 DEF AnswerLease, NewEntry
    <3>2. /\ DOMAIN seen' = DOMAIN left \cup {k} /\ ~seen'[k].delivered
          /\ \A j \in DOMAIN left : seen'[j] = left[j]
      BY <3>1 DEF Put
    <3> QED BY <3>1, <3>2 DEF Delivered
  <2> QED BY <1>1, <2>1, <2>2
<1>9. \E forgotten \in SUBSET Window!Old : Delivered' = Delivered \ forgotten
  <2>1. Delivered' = Delivered \ (Delivered \ kept)
    BY <1>4, <1>8
  <2> QED BY <1>4, <2>1
<1>10. Window!Held \cup Delivered' = DOMAIN left
  BY <1>5, <1>6, <1>8
<1>11. CASE AnswerKnown(t, left) \/ AnswerFull(t, left)
  <2>1. seen' = left /\ pc' = [pc EXCEPT ![t] = "idle"] /\ key' = [key EXCEPT ![t] = NoKey]
    BY <1>11 DEF AnswerKnown, AnswerFull
  <2>2. InFlight' = InFlight
    BY <1>5, <2>1 DEF InFlight
  <2>3. \A s \in Callers, j \in Keys :
           pc'[s] = "sending" /\ key'[s] = j <=> pc[s] = "sending" /\ key[s] = j
    BY <1>1, <1>7, <2>1
  <2>4. Holder' = Holder
    BY <2>2, <2>3, HolderUnchanged
  <2>5. CASE AnswerKnown(t, left) /\ left[k].delivered
    <3>1. k \in Delivered' /\ verdict' = [verdict EXCEPT ![t] = "delivered"]
      BY <1>8, <2>5 DEF AnswerKnown
    <3>2. Window!Suppress(t, k)
      BY <2>4, <3>1 DEF Window!Suppress
    <3> QED BY <1>1, <1>2, <1>9, <3>2 DEF Window!Answer
  <2>6. CASE AnswerKnown(t, left) /\ ~left[k].delivered
    <3>1. /\ k \notin Delivered' /\ k \in Window!Held
          /\ verdict' = [verdict EXCEPT ![t] = "refused"]
      BY <1>5, <1>6, <1>8, <2>6 DEF AnswerKnown
    <3>2. Window!Refuse(t, k)
      BY <2>4, <3>1 DEF Window!Refuse
    <3> QED BY <1>1, <1>2, <1>9, <3>2 DEF Window!Answer
  <2>7. CASE AnswerFull(t, left)
    <3>1. /\ k \notin Delivered' /\ Cardinality(Window!Held \cup Delivered') >= MaxEntries
          /\ verdict' = [verdict EXCEPT ![t] = "refused"]
      BY <1>8, <1>10, <2>7 DEF AnswerFull
    <3>2. Window!Refuse(t, k)
      BY <2>4, <3>1, SameCardinality DEF Window!Refuse
    <3> QED BY <1>1, <1>2, <1>9, <3>2 DEF Window!Answer
  <2> QED BY <1>11, <2>5, <2>6, <2>7
<1>12. CASE AnswerLease(t, left)
  <2>1. /\ k \notin DOMAIN left /\ Cardinality(DOMAIN left) < MaxEntries
        /\ seen' = Put(left, k, NewEntry(generation + 1))
        /\ verdict' = [verdict EXCEPT ![t] = "lease"]
        /\ pc' = [pc EXCEPT ![t] = "sending"] /\ key' = key
    BY <1>12 DEF AnswerLease
  <2>2. pc'[t] = "sending" /\ key'[t] = k
    BY <1>7, <2>1
  <2>3. Holder'[k] = t
    BY <1>2, <2>2, HolderIsNext DEF Named
  <2>4. \A s \in Callers, j \in Keys \ {k} :
           pc'[s] = "sending" /\ key'[s] = j <=> pc[s] = "sending" /\ key[s] = j
    BY <1>1, <1>7, <2>1
  <2>5. \A j \in Keys \ {k} : j \in InFlight' <=> j \in InFlight
    <3>1. /\ DOMAIN seen' = DOMAIN left \cup {k}
          /\ \A j \in DOMAIN left : seen'[j] = left[j]
      BY <2>1 DEF Put
    <3> QED BY <1>5, <3>1 DEF InFlight
  <2>6. Holder' = [Holder EXCEPT ![k] = t]
    BY <1>2, <2>3, <2>4, <2>5, HolderChanged
  <2>7. Window!Grant(t, k)
    <3>1. k \notin Window!Held \cup Delivered'
      BY <1>10, <2>1
    <3>2. Cardinality(Window!Held \cup Delivered') < MaxEntries
      BY <1>10, <2>1
    <3> QED BY <2>1, <2>6, <3>1, <3>2, SameCardinality DEF Window!Grant
  <2> QED BY <1>1, <1>2, <1>9, <2>7 DEF Window!Answer
<1> QED BY <1>1, <1>11, <1>12

\* Settling frees the key of the caller, and of nobody else.
LEMMA SettleFrees ==
    ASSUME Inv, Unleased, Inv', Unleased', NEW t \in Callers, pc[t] = "sending", LeaveCall(t),
           \A j \in Keys \ {key[t]} : j \in InFlight' <=> j \in InFlight,
           key[t] \notin InFlight'
    PROVE  /\ key[t] \in Keys /\ Holder[key[t]] = t
           /\ Holder' = [Holder EXCEPT ![key[t]] = NoOne]
           /\ verdict' = [verdict EXCEPT ![t] = "none"]
<1> DEFINE k == key[t]
<1>1. k \in Keys /\ \A s \in Callers \ {t} : pc[s] = "sending" => key[s] # k
  BY SettleFacts
<1>2. Holder[k] = t
  BY <1>1, HolderIs DEF Named
<1>3. Holder'[k] = NoOne
  BY <1>1, HolderIsNext DEF Named
<1>4. \A s \in Callers, j \in Keys \ {k} :
         pc'[s] = "sending" /\ key'[s] = j <=> pc[s] = "sending" /\ key[s] = j
  <2>1. pc \in [Callers -> {"idle", "reserving", "sending"}] /\ key \in [Callers -> Keys \cup {NoKey}]
    BY DEF Inv, TypeOK
  <2> QED BY <2>1 DEF LeaveCall
<1>5. Holder' = [Holder EXCEPT ![k] = NoOne]
  BY <1>1, <1>3, <1>4, HolderChanged
<1> QED BY <1>1, <1>2, <1>5 DEF LeaveCall

LEMMA CommitDelivers ==
    ASSUME Inv, Unleased, Inv', Unleased', NEW t \in Callers, Commit(t)
    PROVE  key[t] \in Keys /\ Window!Deliver(t, key[t])
<1> DEFINE k == key[t]
           e == DeliveredEntry(lease[t], clock + Ttl)
<1>1. /\ pc[t] = "sending" /\ Owns(t) /\ k \in DOMAIN seen /\ ~seen[k].delivered
  BY SettleFacts DEF Commit
<1>2. /\ LeaveCall(t) /\ seen' = [seen EXCEPT ![k] = e] /\ e.delivered
      /\ deliveredAt' = [deliveredAt EXCEPT ![k] = clock] /\ clock' = clock
  BY <1>1 DEF Commit, DeliveredEntry
<1> HIDE DEF e
<1>3. DOMAIN seen' = DOMAIN seen /\ \A j \in DOMAIN seen : seen'[j] = IF j = k THEN e ELSE seen[j]
  BY <1>1, <1>2
<1>4. Delivered' = Delivered \cup {k} /\ InFlight' = InFlight \ {k}
  BY <1>1, <1>2, <1>3 DEF Delivered, InFlight
<1>5. /\ k \in Keys /\ Holder[k] = t /\ Holder' = [Holder EXCEPT ![k] = NoOne]
      /\ verdict' = [verdict EXCEPT ![t] = "none"]
  BY <1>1, <1>2, <1>4, SettleFrees
<1> QED BY <1>2, <1>4, <1>5 DEF Window!Deliver

LEMMA ReleaseAbandons ==
    ASSUME Inv, Unleased, Inv', Unleased', NEW t \in Callers, Release(t)
    PROVE  key[t] \in Keys /\ Window!Abandon(t, key[t])
<1> DEFINE k == key[t]
<1>1. /\ pc[t] = "sending" /\ Owns(t) /\ k \in DOMAIN seen /\ ~seen[k].delivered
  BY SettleFacts DEF Release
<1>2. LeaveCall(t) /\ seen' = Drop(seen, {k}) /\ UNCHANGED <<clock, deliveredAt>>
  BY <1>1 DEF Release
<1>3. DOMAIN seen' = DOMAIN seen \ {k} /\ \A j \in DOMAIN seen' : seen'[j] = seen[j]
  BY <1>2 DEF Drop
<1>4. Delivered' = Delivered /\ InFlight' = InFlight \ {k}
  BY <1>1, <1>3 DEF Delivered, InFlight
<1>5. /\ k \in Keys /\ Holder[k] = t /\ Holder' = [Holder EXCEPT ![k] = NoOne]
      /\ verdict' = [verdict EXCEPT ![t] = "none"]
  BY <1>1, <1>2, <1>4, SettleFrees
<1> QED BY <1>2, <1>4, <1>5 DEF Window!Abandon

\* Table, heap, generations and stale clock readings together behave like one holder
\* per pair and a set of remembered pairs, with one step for each of reserve(),
\* commit() and release().
THEOREM GuardIsWindow == Spec => ImplementsWindow
<1>1. Init => Window!Init
  <2> SUFFICES ASSUME Init PROVE Window!Init
    OBVIOUS
  <2>1. DOMAIN seen = {}
    BY DEF Init
  <2>2. Delivered = {} /\ InFlight = {}
    BY <2>1 DEF Delivered, InFlight
  <2>3. Holder = [k \in Keys |-> NoOne]
    BY <2>2 DEF Holder, HolderOf
  <2> QED BY <2>2, <2>3 DEF Init, Window!Init, Never, Window!Never
<1>2. Init => Unleased
  BY DEF Init, Unleased
<1>3. Inv /\ Unleased /\ [Next]_vars => Unleased'
  BY UnleasedStep
<1>4. Inv /\ Unleased /\ Inv' /\ Unleased' /\ [Next]_vars => [Window!Next]_Window!windowVars
  <2> SUFFICES ASSUME Inv, Unleased, Inv', Unleased', [Next]_vars
               PROVE  [Window!Next]_Window!windowVars
    OBVIOUS
  <2>1. CASE Tick
    BY <2>1, TickPasses DEF Window!Next
  <2>2. ASSUME NEW t \in Callers, NEW k \in Keys, ReadNow(t, k)
        PROVE  Window!Next
    BY <2>2, ReadNowAsks DEF Window!Next
  <2>3. ASSUME NEW t \in Callers, Reserve(t)
        PROVE  Window!Next
    BY <2>3, ReserveAnswers DEF Window!Next
  <2>4. ASSUME NEW t \in Callers, Commit(t)
        PROVE  Window!Next
    BY <2>4, CommitDelivers DEF Window!Next
  <2>5. ASSUME NEW t \in Callers, Release(t)
        PROVE  Window!Next
    BY <2>5, ReleaseAbandons DEF Window!Next
  <2>6. CASE UNCHANGED vars
    <3>1. Holder' = Holder /\ Delivered' = Delivered
      BY <2>6 DEF vars, Holder, HolderOf, InFlight, Delivered
    <3> QED BY <2>6, <3>1 DEF vars, Window!windowVars
  <2> QED BY <2>1, <2>2, <2>3, <2>4, <2>5, <2>6 DEF Next
<1> QED BY <1>1, <1>2, <1>3, <1>4, InvHolds, PTL DEF Spec, ImplementsWindow, Window!Spec
=============================================================================
