------------------------- MODULE RateLimiterProofs -------------------------
(***************************************************************************)
(* Proofs about RateLimiter for every set of threads and keys, every cost, *)
(* capacity and delay.                                                     *)
(*                                                                         *)
(* BudgetHolds is not inductive: it says nothing of what is left in the    *)
(* bucket.  The invariant that is relates the two: what is left plus what  *)
(* was spent never exceeds a full bucket plus the refill up to the         *)
(* bucket's own time (Ledger), and an evicted key has spent no more than   *)
(* has been refilled (Evicted).                                            *)
(***************************************************************************)
EXTENDS RateLimiterRefines, TLAPS

\* What a thread in allow() knows: its reading is at most MaxStale old.
Pending ==
    \A t \in Threads : pc[t] = "allowing" =>
        /\ key[t] \in Keys
        /\ now[t] <= clock
        /\ clock - now[t] <= MaxStale

Ledger ==
    \A k \in DOMAIN buckets :
        /\ buckets[k].tokens >= -MaxStale
        /\ spent[k] > 0 =>
              buckets[k].tokens + spent[k] <= Full + (buckets[k].last - windowStart) + MaxStale

Evicted ==
    \A k \in Keys \ DOMAIN buckets :
        spent[k] > 0 => /\ spent[k] <= clock - windowStart
                        /\ Full + 2 * MaxStale <= Idle

SpentInWindow == \A k \in Keys : spent[k] > 0 => clock >= windowStart

Inv == TypeOK /\ NoDebt /\ Pending /\ Ledger /\ Evicted /\ SpentInWindow

Constants ==
    /\ Cost \in Nat /\ Cost > 0
    /\ Full \in Nat /\ Full >= Cost
    /\ MaxStale \in Nat /\ MaxClock \in Nat /\ Idle \in Nat

LEMMA ConstantsHold == Constants
BY CostAssumption, FullAssumption, StaleAssumption, IdleAssumption DEF Constants

(* The locked part of allow() sees a level that is in range, that is never *)
(* in debt by more than the delay, and that respects the ledger.           *)
LEMMA LevelFacts ==
    ASSUME Inv, NEW t \in Threads, pc[t] = "allowing"
    PROVE  LET at    == now[t]
               level == Refilled(Current(key[t], at), at)
           IN  /\ level \in Int /\ at \in Nat
               /\ level <= Full
               /\ level + (clock - at) >= 0
               /\ level >= -MaxStale
               /\ level + spent[key[t]] <= Full + (at - windowStart) + MaxStale
                     \/ spent[key[t]] = 0
<1> DEFINE k == key[t]
           at == now[t]
           b  == Current(k, at)
<1>1. /\ k \in Keys /\ at \in Nat /\ clock \in Nat /\ windowStart \in Nat
      /\ at <= clock /\ clock - at <= MaxStale
      /\ spent[k] \in Nat /\ Constants
  BY ConstantsHold DEF Inv, TypeOK, Pending
<1>2. CASE k \in DOMAIN buckets \ StaleKeys(at)
  <2>1. b = buckets[k]
    BY <1>2 DEF Current
  <2>2. /\ b.tokens \in Int /\ b.last \in Nat
        /\ b.tokens <= Full /\ b.last <= clock /\ b.tokens + (clock - b.last) >= 0
        /\ b.tokens >= -MaxStale
        /\ spent[k] > 0 => b.tokens + spent[k] <= Full + (b.last - windowStart) + MaxStale
    BY <1>2, <2>1 DEF Inv, TypeOK, Bucket, NoDebt, Ledger
  <2> QED BY <1>1, <2>2 DEF Refilled, Constants
<1>3. CASE k \in StaleKeys(at)
  <2>1. b = [tokens |-> Full, last |-> at]
    BY <1>3 DEF Current
  <2>2. Refilled(b, at) = Full
    BY <1>1, <2>1 DEF Refilled, Constants
  <2>3. /\ k \in DOMAIN buckets
        /\ Refilled(buckets[k], at) >= Full
    BY <1>3 DEF StaleKeys
  <2>4. /\ buckets[k].tokens \in Int /\ buckets[k].last \in Nat
        /\ spent[k] > 0 =>
              buckets[k].tokens + spent[k]
                  <= Full + (buckets[k].last - windowStart) + MaxStale
    BY <2>3 DEF Inv, TypeOK, Bucket, Ledger
  <2>5. buckets[k].tokens + (at - buckets[k].last) >= Full
    BY <1>1, <2>3, <2>4 DEF Refilled, Constants
  <2> QED BY <1>1, <2>2, <2>4, <2>5 DEF Constants
<1>4. CASE k \notin DOMAIN buckets
  <2>1. b = [tokens |-> Full, last |-> at]
    BY <1>4 DEF Current
  <2>2. Refilled(b, at) = Full
    BY <1>1, <2>1 DEF Refilled, Constants
  <2>3. spent[k] > 0 => spent[k] <= clock - windowStart
    BY <1>1, <1>4 DEF Inv, Evicted
  <2> QED BY <1>1, <2>2, <2>3 DEF Constants
<1> QED BY <1>2, <1>3, <1>4

(* A bucket that is evicted for another key's sake was idle for so long    *)
(* that what its key spent has been refilled.                              *)
LEMMA EvictionIsFree ==
    ASSUME Inv, NEW t \in Threads, pc[t] = "allowing",
           NEW j \in StaleKeys(now[t]), j # key[t], spent[j] > 0
    PROVE  /\ spent[j] <= clock - windowStart
           /\ Full + 2 * MaxStale <= Idle
<1>1. /\ key[t] \in Keys /\ now[t] \in Nat /\ clock \in Nat /\ windowStart \in Nat
      /\ now[t] <= clock /\ Constants
  BY ConstantsHold DEF Inv, TypeOK, Pending
<1>2. /\ j \in DOMAIN buckets /\ j \in Keys
      /\ buckets[j].last < now[t] - Idle
  BY DEF StaleKeys, Inv, TypeOK
<1>3. Full + 2 * MaxStale <= Idle
  BY <1>1, <1>2, IdleAssumption
<1>4. /\ buckets[j].tokens \in Int /\ buckets[j].last \in Nat /\ spent[j] \in Nat
      /\ buckets[j].tokens >= -MaxStale
      /\ buckets[j].tokens + spent[j] <= Full + (buckets[j].last - windowStart) + MaxStale
  BY <1>2 DEF Inv, TypeOK, Bucket, Ledger
<1> QED BY <1>1, <1>2, <1>3, <1>4 DEF Constants

(* What both outcomes of allow() do to the table: the caller's bucket gets *)
(* the given units, some idle buckets go, the others stay as they are.     *)
LEMMA StoredFacts ==
    ASSUME Inv, NEW t \in Threads, pc[t] = "allowing", NEW units \in Int,
           buckets' = Stored(key[t], now[t], units)
    PROVE  /\ DOMAIN buckets' \subseteq Keys
           /\ buckets' \in [DOMAIN buckets' -> Bucket]
           /\ key[t] \in DOMAIN buckets'
           /\ buckets'[key[t]] = [tokens |-> units, last |-> now[t]]
           /\ \A j \in DOMAIN buckets' \ {key[t]} :
                 j \in DOMAIN buckets /\ buckets'[j] = buckets[j]
           /\ \A j \in DOMAIN buckets \ DOMAIN buckets' :
                 j \in StaleKeys(now[t]) /\ j # key[t]
<1>1. key[t] \in Keys /\ now[t] \in Nat
  BY DEF Inv, TypeOK, Pending
<1>2. DOMAIN buckets \subseteq Keys /\ buckets \in [DOMAIN buckets -> Bucket]
  BY DEF Inv, TypeOK
<1>3. DOMAIN buckets' = (DOMAIN buckets \ StaleKeys(now[t])) \cup {key[t]}
  BY DEF Stored
<1>4. \A j \in DOMAIN buckets' :
         buckets'[j] = IF j = key[t] THEN [tokens |-> units, last |-> now[t]] ELSE buckets[j]
  BY DEF Stored
<1>5. [tokens |-> units, last |-> now[t]] \in Bucket
  BY <1>1 DEF Bucket
<1>6. \A j \in DOMAIN buckets' : buckets'[j] \in Bucket
  BY <1>2, <1>3, <1>4, <1>5
<1>7. buckets' \in [DOMAIN buckets' -> Bucket]
  <2>1. buckets' = [j \in DOMAIN buckets' |-> buckets'[j]]
    BY DEF Stored
  <2> QED BY <1>6, <2>1
<1> QED BY <1>1, <1>2, <1>3, <1>4, <1>7

-----------------------------------------------------------------------------
(* The table after allow() stored a level within these bounds satisfies    *)
(* every part of the invariant that speaks of the table.                   *)
LEMMA StorePreserves ==
    ASSUME Inv, NEW t \in Threads, pc[t] = "allowing", NEW units \in Int,
           buckets' = Stored(key[t], now[t], units),
           UNCHANGED <<clock, windowStart>>,
           spent' \in [Keys -> Nat],
           \A j \in Keys \ {key[t]} : spent'[j] = spent[j],
           units <= Full, units >= -MaxStale,
           units + (clock - now[t]) >= 0,
           spent'[key[t]] > 0 =>
               units + spent'[key[t]] <= Full + (now[t] - windowStart) + MaxStale
    PROVE  (NoDebt /\ Ledger /\ Evicted)'
<1> DEFINE k == key[t]
<1>1. /\ k \in Keys /\ now[t] \in Nat /\ clock \in Nat /\ windowStart \in Nat
      /\ now[t] <= clock
  BY DEF Inv, TypeOK, Pending
<1>2. /\ DOMAIN buckets' \subseteq Keys
      /\ k \in DOMAIN buckets'
      /\ buckets'[k] = [tokens |-> units, last |-> now[t]]
      /\ \A j \in DOMAIN buckets' \ {k} : j \in DOMAIN buckets /\ buckets'[j] = buckets[j]
      /\ \A j \in DOMAIN buckets \ DOMAIN buckets' : j \in StaleKeys(now[t]) /\ j # k
  BY StoredFacts
<1>3. NoDebt'
  BY <1>1, <1>2 DEF Inv, NoDebt
<1>4. Ledger'
  BY <1>1, <1>2 DEF Inv, Ledger
<1>5. Evicted'
  <2> SUFFICES ASSUME NEW j \in Keys, j \notin DOMAIN buckets', spent'[j] > 0
               PROVE  /\ spent'[j] <= clock - windowStart
                      /\ Full + 2 * MaxStale <= Idle
    BY DEF Evicted
  <2>1. j # k /\ spent[j] = spent'[j]
    BY <1>2
  <2>2. CASE j \in DOMAIN buckets
    BY <1>2, <2>1, <2>2, EvictionIsFree
  <2>3. CASE j \notin DOMAIN buckets
    BY <2>1, <2>3 DEF Inv, Evicted
  <2> QED BY <2>2, <2>3
<1> QED BY <1>3, <1>4, <1>5

LEMMA InitInv == Init => Inv
<1> SUFFICES ASSUME Init PROVE Inv
  OBVIOUS
<1>1. Constants
  BY ConstantsHold
<1>2. DOMAIN buckets = {}
  BY DEF Init
<1>3. buckets \in [DOMAIN buckets -> Bucket]
  BY <1>2 DEF Init
<1>4. TypeOK
  BY <1>1, <1>2, <1>3 DEF Init, TypeOK, Constants
<1>5. NoDebt /\ Ledger
  BY <1>2 DEF NoDebt, Ledger
<1>6. Pending /\ Evicted /\ SpentInWindow
  BY DEF Init, Pending, Evicted, SpentInWindow
<1> QED BY <1>4, <1>5, <1>6 DEF Inv

LEMMA TickInv == Inv /\ Tick => Inv'
<1> SUFFICES ASSUME Inv, Tick PROVE Inv'
  OBVIOUS
<1>1. /\ clock \in Nat /\ clock < MaxClock /\ clock' = clock + 1 /\ MaxClock \in Nat
      /\ MaxStale \in Nat
      /\ UNCHANGED <<buckets, pc, key, now, answer, windowStart, spent>>
      /\ \A t \in Threads : pc[t] = "allowing" => clock - now[t] < MaxStale
  BY ConstantsHold DEF Inv, TypeOK, Tick, Constants
<1>2. TypeOK'
  BY <1>1 DEF Inv, TypeOK
<1>3. NoDebt'
  BY <1>1 DEF Inv, TypeOK, Bucket, NoDebt
<1>4. Pending'
  BY <1>1 DEF Inv, TypeOK, Pending
<1>5. Ledger'
  BY <1>1 DEF Inv, Ledger
<1>6. Evicted' /\ SpentInWindow'
  BY <1>1 DEF Inv, TypeOK, Evicted, SpentInWindow
<1> QED BY <1>2, <1>3, <1>4, <1>5, <1>6 DEF Inv

LEMMA ReadNowInv ==
    ASSUME Inv, NEW t \in Threads, NEW k \in Keys, ReadNow(t, k)
    PROVE  Inv'
<1>1. TypeOK'
  BY DEF Inv, TypeOK, ReadNow
<1>2. Pending'
  BY ConstantsHold DEF Inv, TypeOK, Pending, ReadNow, Constants
<1>3. (NoDebt /\ Ledger /\ Evicted /\ SpentInWindow)'
  BY DEF Inv, NoDebt, Ledger, Evicted, SpentInWindow, ReadNow
<1> QED BY <1>1, <1>2, <1>3 DEF Inv

\* The parts of the invariant that do not speak of the table.
LEMMA ReturnPreserves ==
    ASSUME Inv, NEW t \in Threads, NEW result \in {"yes", "no"}, Return(t, result),
           UNCHANGED <<clock, windowStart>>
    PROVE  /\ Pending'
           /\ pc' \in [Threads -> {"idle", "allowing"}]
           /\ key' \in [Threads -> Keys \cup {NoKey}]
           /\ now' \in [Threads -> 0..MaxClock]
           /\ answer' \in [Threads -> {"none", "yes", "no"}]
BY ConstantsHold DEF Inv, TypeOK, Pending, Return, Constants

LEMMA DenyInv ==
    ASSUME Inv, NEW t \in Threads, Deny(t)
    PROVE  Inv'
<1> DEFINE level == Refilled(Current(key[t], now[t]), now[t])
<1>1. /\ pc[t] = "allowing" /\ buckets' = Stored(key[t], now[t], level)
      /\ Return(t, "no") /\ UNCHANGED <<clock, windowStart, spent>>
  BY DEF Deny
<1>2. /\ level \in Int /\ level <= Full /\ level >= -MaxStale
      /\ level + (clock - now[t]) >= 0
      /\ level + spent[key[t]] <= Full + (now[t] - windowStart) + MaxStale
            \/ spent[key[t]] = 0
  BY <1>1, LevelFacts
<1>3. spent' \in [Keys -> Nat] /\ (spent[key[t]] = 0 => ~(spent[key[t]] > 0))
  BY <1>1 DEF Inv, TypeOK
<1> HIDE DEF level
<1>4. (NoDebt /\ Ledger /\ Evicted)'
  BY <1>1, <1>2, <1>3, StorePreserves
<1>5. TypeOK' /\ Pending' /\ SpentInWindow'
  BY <1>1, <1>2, <1>3, StoredFacts, ReturnPreserves DEF Inv, TypeOK, SpentInWindow
<1> QED BY <1>4, <1>5 DEF Inv

LEMMA AllowInv ==
    ASSUME Inv, NEW t \in Threads, Allow(t)
    PROVE  Inv'
<1> DEFINE k     == key[t]
           level == Refilled(Current(k, now[t]), now[t])
           units == level - Cost
<1>1. /\ pc[t] = "allowing" /\ level >= Cost
      /\ buckets' = Stored(k, now[t], units)
      /\ Return(t, "yes") /\ UNCHANGED <<clock, windowStart>>
      /\ spent' = IF clock >= windowStart THEN [spent EXCEPT ![k] = @ + Cost] ELSE spent
  BY DEF Allow
<1>2. /\ level \in Int /\ level <= Full
      /\ level + spent[k] <= Full + (now[t] - windowStart) + MaxStale \/ spent[k] = 0
  BY <1>1, LevelFacts
<1>3. /\ k \in Keys /\ spent \in [Keys -> Nat] /\ clock \in Nat /\ windowStart \in Nat
      /\ now[t] \in Nat /\ now[t] <= clock /\ clock - now[t] <= MaxStale
      /\ spent[k] > 0 => clock >= windowStart
      /\ Constants
  BY <1>1, ConstantsHold DEF Inv, TypeOK, Pending, SpentInWindow
<1>4. /\ spent' \in [Keys -> Nat]
      /\ \A j \in Keys \ {k} : spent'[j] = spent[j]
      /\ spent'[k] = IF clock >= windowStart THEN spent[k] + Cost ELSE spent[k]
  BY <1>1, <1>3 DEF Constants
<1> HIDE DEF level
<1>5. /\ units \in Int /\ units <= Full /\ units >= -MaxStale
      /\ units + (clock - now[t]) >= 0
  BY <1>1, <1>2, <1>3 DEF Constants
<1>6. spent'[k] > 0 => units + spent'[k] <= Full + (now[t] - windowStart) + MaxStale
  BY <1>2, <1>3, <1>4 DEF Constants
<1>7. (NoDebt /\ Ledger /\ Evicted)'
  <2> HIDE DEF units, k
  <2> QED BY <1>1, <1>4, <1>5, <1>6, StorePreserves DEF k
<1>8. TypeOK' /\ Pending'
  <2> HIDE DEF units
  <2> QED BY <1>1, <1>4, <1>5, StoredFacts, ReturnPreserves DEF Inv, TypeOK
<1>9. SpentInWindow'
  BY <1>1, <1>3, <1>4 DEF Inv, SpentInWindow
<1> QED BY <1>7, <1>8, <1>9 DEF Inv

LEMMA NextInv == Inv /\ [Next]_vars => Inv'
<1> SUFFICES ASSUME Inv, [Next]_vars PROVE Inv'
  OBVIOUS
<1>1. CASE Tick
  BY <1>1, TickInv
<1>2. ASSUME NEW t \in Threads, NEW k \in Keys, ReadNow(t, k) PROVE Inv'
  BY <1>2, ReadNowInv
<1>3. ASSUME NEW t \in Threads, Deny(t) PROVE Inv'
  BY <1>3, DenyInv
<1>4. ASSUME NEW t \in Threads, Allow(t) PROVE Inv'
  BY <1>4, AllowInv
<1>5. CASE UNCHANGED vars
  BY <1>5 DEF vars, Inv, TypeOK, NoDebt, Pending, Ledger, Evicted, SpentInWindow
<1> QED BY <1>1, <1>2, <1>3, <1>4, <1>5 DEF Next

(* The bound follows from the invariant: what is left in the bucket is at  *)
(* worst the debt of the refill since the bucket's own time.               *)
LEMMA InvGivesBudget == Inv => BudgetHolds
<1> SUFFICES ASSUME Inv, NEW k \in Keys, clock >= windowStart
             PROVE  spent[k] <= Full + (clock - windowStart) + MaxStale
  BY DEF BudgetHolds
<1>1. /\ clock \in Nat /\ windowStart \in Nat /\ spent[k] \in Nat /\ Constants
  BY ConstantsHold DEF Inv, TypeOK
<1>2. CASE k \in DOMAIN buckets
  <2>1. /\ buckets[k].tokens \in Int /\ buckets[k].last \in Nat
        /\ buckets[k].tokens + (clock - buckets[k].last) >= 0
        /\ spent[k] > 0 =>
              buckets[k].tokens + spent[k]
                  <= Full + (buckets[k].last - windowStart) + MaxStale
    BY <1>2 DEF Inv, TypeOK, Bucket, NoDebt, Ledger
  <2> QED BY <1>1, <2>1 DEF Constants
<1>3. CASE k \notin DOMAIN buckets
  BY <1>1, <1>3 DEF Inv, Evicted, Constants
<1> QED BY <1>2, <1>3

(* The inductive invariant holds in every reachable state.                 *)
THEOREM InvHolds == Spec => []Inv
BY InitInv, NextInv, PTL DEF Spec

(* TypeOK holds: the table always holds a bucket with integer units per    *)
(* known key, and every thread in allow() has its argument.                *)
THEOREM TypeCorrect == Spec => []TypeOK
<1>1. Inv => TypeOK
  BY DEF Inv
<1> QED BY InvHolds, <1>1, PTL

(* No bucket overflows and none is in debt beyond its refill: a thread that*)
(* comes with an old clock reading takes back exactly what it must.        *)
THEOREM NoDebtHolds == Spec => []NoDebt
<1>1. Inv => NoDebt
  BY DEF Inv
<1> QED BY InvHolds, <1>1, PTL

(* In every interval of time no key is granted more than a full bucket plus*)
(* the refill of the interval and of one thread delay.                     *)
THEOREM BudgetCorrect == Spec => []BudgetHolds
BY InvHolds, InvGivesBudget, PTL
-----------------------------------------------------------------------------
(* The refinement of TokenBudget.  An eviction needs no assumption here: a *)
(* bucket that some thread finds full is full now.                         *)

\* The level that a thread finds in the table, and the one that the budget has.
LEMMA LevelFound ==
    ASSUME Inv, NEW t \in Threads, pc[t] = "allowing"
    PROVE  LET k     == key[t]
               found == Refilled(Current(k, now[t]), now[t])
               since == clock - now[t]
           IN  /\ k \in Keys /\ found \in Int /\ found <= Full /\ since \in 0..MaxStale
               /\ Level[k] = IF found + since > Full THEN Full ELSE found + since
<1> DEFINE k     == key[t]
           at    == now[t]
           found == Refilled(Current(k, at), at)
<1>1. /\ k \in Keys /\ at \in Nat /\ clock \in Nat /\ at <= clock /\ clock - at <= MaxStale
      /\ Constants
  BY ConstantsHold DEF Inv, TypeOK, Pending
<1>2. found \in Int /\ found <= Full
  BY LevelFacts
<1>3. Level[k] = IF k \in DOMAIN buckets THEN Refilled(buckets[k], clock) ELSE Full
  BY <1>1 DEF Level
<1>4. clock - at \in 0..MaxStale
  BY <1>1 DEF Constants
<1>5. CASE k \in DOMAIN buckets
  <2>1. buckets[k].tokens \in Int /\ buckets[k].last \in Nat
    BY <1>5 DEF Inv, TypeOK, Bucket
  <2>2. CASE k \in StaleKeys(at)
    <3>1. Current(k, at) = [tokens |-> Full, last |-> at]
      BY <2>2 DEF Current
    <3>2. found = Full
      BY <1>1, <3>1 DEF Refilled, Constants
    <3>0. Refilled(buckets[k], at) >= Full
      BY <2>2 DEF StaleKeys
    <3>3. Refilled(buckets[k], clock) = Full
      <4> HIDE DEF found
      <4> QED BY <1>1, <2>1, <3>0 DEF Refilled, Constants
    <3>4. Level[k] = IF found + (clock - at) > Full THEN Full ELSE found + (clock - at)
      <4> HIDE DEF found
      <4> QED BY <1>1, <1>3, <1>5, <3>2, <3>3 DEF Constants
    <3> QED BY <1>1, <1>2, <1>4, <3>4
  <2>3. CASE k \notin StaleKeys(at)
    <3>1. Current(k, at) = buckets[k]
      BY <1>5, <2>3 DEF Current
    <3>2. Refilled(buckets[k], clock) =
             IF found + (clock - at) > Full THEN Full ELSE found + (clock - at)
      BY <1>1, <2>1, <3>1 DEF Refilled, Constants
    <3> QED BY <1>1, <1>2, <1>3, <1>4, <1>5, <3>2
  <2> QED BY <2>2, <2>3
<1>6. CASE k \notin DOMAIN buckets
  <2>1. Current(k, at) = [tokens |-> Full, last |-> at]
    BY <1>6 DEF Current
  <2>2. found = Full
    BY <1>1, <2>1 DEF Refilled, Constants
  <2>3. Level[k] = IF found + (clock - at) > Full THEN Full ELSE found + (clock - at)
    <3> HIDE DEF found
    <3> QED BY <1>1, <1>3, <1>6, <2>2 DEF Constants
  <2> QED BY <1>1, <1>2, <1>4, <2>3
<1> QED BY <1>5, <1>6

\* Storing a level changes that of its key alone, whatever is evicted.
LEMMA LevelStored ==
    ASSUME Inv, NEW t \in Threads, pc[t] = "allowing", NEW units \in Int,
           buckets' = Stored(key[t], now[t], units), clock' = clock
    PROVE  LET level == units + (clock - now[t])
           IN  Level' = [Level EXCEPT ![key[t]] = IF level > Full THEN Full ELSE level]
<1> DEFINE k == key[t]
           level == units + (clock - now[t])
<1>1. /\ k \in Keys /\ now[t] \in Nat /\ clock \in Nat /\ now[t] <= clock /\ Constants
  BY ConstantsHold DEF Inv, TypeOK, Pending
<1>2. /\ DOMAIN buckets' \subseteq Keys
      /\ k \in DOMAIN buckets'
      /\ buckets'[k] = [tokens |-> units, last |-> now[t]]
      /\ \A j \in DOMAIN buckets' \ {k} : j \in DOMAIN buckets /\ buckets'[j] = buckets[j]
      /\ \A j \in DOMAIN buckets \ DOMAIN buckets' : j \in StaleKeys(now[t]) /\ j # k
  BY StoredFacts
<1>3. Level'[k] = IF level > Full THEN Full ELSE level
  <2>1. Level'[k] = Refilled(buckets'[k], clock)
    BY <1>1, <1>2 DEF Level
  <2> QED BY <1>1, <1>2, <2>1 DEF Refilled
<1>4. ASSUME NEW j \in Keys, j # k
      PROVE  Level'[j] = Level[j]
  <2>1. CASE j \in DOMAIN buckets'
    BY <1>2, <1>4, <2>1 DEF Level
  <2>2. CASE j \in DOMAIN buckets \ DOMAIN buckets'
    <3>1. Refilled(buckets[j], now[t]) >= Full
      BY <1>2, <2>2 DEF StaleKeys
    <3>2. buckets[j].tokens \in Int /\ buckets[j].last \in Nat
      BY <2>2 DEF Inv, TypeOK, Bucket
    <3>3. Refilled(buckets[j], clock) = Full
      BY <1>1, <3>1, <3>2 DEF Refilled, Constants
    <3> QED BY <2>2, <3>3 DEF Level
  <2>3. CASE j \notin DOMAIN buckets /\ j \notin DOMAIN buckets'
    BY <2>3 DEF Level
  <2> QED BY <2>1, <2>2, <2>3
<1> HIDE DEF level
<1>5. Level' = [j \in Keys |-> IF j = k THEN Level'[k] ELSE Level[j]]
  BY <1>4 DEF Level
<1>6. [Level EXCEPT ![k] = IF level > Full THEN Full ELSE level] =
         [j \in Keys |-> IF j = k THEN IF level > Full THEN Full ELSE level ELSE Level[j]]
  BY DEF Level
<1> QED BY <1>3, <1>5, <1>6 DEF level

LEMMA TickPasses ==
    ASSUME Inv, Tick
    PROVE  Budget!Pass
<1>1. clock \in Nat /\ clock' = clock + 1 /\ buckets' = buckets /\ answer' = answer /\ Constants
  BY ConstantsHold DEF Inv, TypeOK, Tick
<1>2. ASSUME NEW k \in Keys
      PROVE  Level'[k] = IF Level[k] < Full THEN Level[k] + 1 ELSE Full
  <2>1. CASE k \in DOMAIN buckets
    <3>1. buckets[k].tokens \in Int /\ buckets[k].last \in Nat
      BY <2>1 DEF Inv, TypeOK, Bucket
    <3>2. Level[k] = Refilled(buckets[k], clock) /\ Level'[k] = Refilled(buckets[k], clock + 1)
      BY <1>1, <2>1 DEF Level
    <3> QED BY <1>1, <3>1, <3>2 DEF Refilled, Constants
  <2>2. CASE k \notin DOMAIN buckets
    BY <1>1, <2>2 DEF Level, Constants
  <2> QED BY <2>1, <2>2
<1>3. Level' = [k \in Keys |-> IF Level[k] < Full THEN Level[k] + 1 ELSE Full]
  <2>1. Level' = [k \in Keys |-> Level'[k]]
    BY DEF Level
  <2> QED BY <1>2, <2>1
<1> QED BY <1>1, <1>3 DEF Budget!Pass

LEMMA DenyDenies ==
    ASSUME Inv, NEW t \in Threads, Deny(t)
    PROVE  Budget!Deny(t, key[t]) /\ key[t] \in Keys
<1> DEFINE k     == key[t]
           found == Refilled(Current(k, now[t]), now[t])
           since == clock - now[t]
           full  == IF found + since > Full THEN Full ELSE found + since
<1>1. /\ pc[t] = "allowing" /\ found < Cost /\ buckets' = Stored(k, now[t], found)
      /\ clock' = clock /\ answer' = [answer EXCEPT ![t] = "no"]
  BY DEF Deny, Return
<1>2. /\ k \in Keys /\ found \in Int /\ found <= Full /\ since \in 0..MaxStale
      /\ Level[k] = full
  BY <1>1, LevelFound
<1>3. Level' = [Level EXCEPT ![k] = full]
  BY <1>1, <1>2, LevelStored
<1>4. Level' = Level
  <2> HIDE DEF full
  <2> QED BY <1>2, <1>3 DEF Level
<1>5. Level[k] < Cost + MaxStale
  <2> HIDE DEF found, since
  <2> QED BY <1>1, <1>2, ConstantsHold DEF Constants
<1> QED BY <1>1, <1>2, <1>4, <1>5 DEF Budget!Deny

LEMMA AllowAllows ==
    ASSUME Inv, NEW t \in Threads, Allow(t)
    PROVE  Budget!Allow(t, key[t]) /\ key[t] \in Keys
<1> DEFINE k     == key[t]
           found == Refilled(Current(k, now[t]), now[t])
           since == clock - now[t]
           paid  == IF found - Cost + since > Full THEN Full ELSE found - Cost + since
<1>1. /\ pc[t] = "allowing" /\ found >= Cost /\ buckets' = Stored(k, now[t], found - Cost)
      /\ clock' = clock /\ answer' = [answer EXCEPT ![t] = "yes"]
  BY DEF Allow, Return
<1>2. /\ k \in Keys /\ found \in Int /\ found <= Full /\ since \in 0..MaxStale
      /\ Level[k] = IF found + since > Full THEN Full ELSE found + since
  BY <1>1, LevelFound
<1>3. found - Cost \in Int /\ Constants
  BY <1>2, ConstantsHold DEF Constants
<1>4. Level' = [Level EXCEPT ![k] = paid]
  BY <1>1, <1>2, <1>3, LevelStored
<1>5. Level[k] >= Cost
  <2> HIDE DEF found, since
  <2> QED BY <1>1, <1>2, <1>3 DEF Constants
<1>6. \E late \in 0..MaxStale :
         /\ late = 0 \/ (Level[k] = Full /\ late <= Cost)
         /\ paid = Level[k] - Cost + late
  <2> HIDE DEF found, since
  <2>1. CASE found + since <= Full
    <3>1. paid = Level[k] - Cost + 0 /\ 0 \in 0..MaxStale
      BY <1>1, <1>2, <1>3, <2>1 DEF Constants
    <3> QED BY <3>1
  <2>2. CASE found + since > Full /\ found - Cost + since <= Full
    <3>1. /\ found + since - Full \in 0..MaxStale /\ found + since - Full <= Cost
          /\ Level[k] = Full /\ paid = Level[k] - Cost + (found + since - Full)
      BY <1>1, <1>2, <1>3, <2>2 DEF Constants
    <3> QED BY <3>1
  <2>3. CASE found - Cost + since > Full
    <3>1. /\ Cost \in 0..MaxStale /\ Level[k] = Full /\ paid = Level[k] - Cost + Cost
          /\ Cost <= Cost
      BY <1>1, <1>2, <1>3, <2>3 DEF Constants
    <3> QED BY <3>1
  <2> QED BY <1>2, <1>3, <2>1, <2>2, <2>3 DEF Constants
<1> HIDE DEF paid
<1>7. \E late \in 0..MaxStale :
         /\ late = 0 \/ (Level[k] = Full /\ late <= Cost)
         /\ Level' = [Level EXCEPT ![k] = @ - Cost + late]
  BY <1>4, <1>6
<1> QED BY <1>1, <1>2, <1>5, <1>7 DEF Budget!Allow

\* Lazy refill, late readings and evictions included, the limiter behaves like a
\* level per key that rises with time and pays for what is granted.
THEOREM LimiterIsBudget == Spec => ImplementsBudget
<1>1. Init => Budget!Init
  <2> SUFFICES ASSUME Init PROVE Budget!Init
    OBVIOUS
  <2>1. Level = [k \in Keys |-> Full]
    BY DEF Init, Level
  <2> QED BY <2>1 DEF Init, Budget!Init
<1>2. Inv /\ [Next]_vars => [Budget!Next]_Budget!budgetVars
  <2> SUFFICES ASSUME Inv, [Next]_vars
               PROVE  [Budget!Next]_Budget!budgetVars
    OBVIOUS
  <2>1. CASE Tick
    BY <2>1, TickPasses DEF Budget!Next
  <2>2. ASSUME NEW t \in Threads, NEW k \in Keys, ReadNow(t, k)
        PROVE  Budget!Next
    <3>1. Level' = Level
      BY <2>2 DEF ReadNow, Level
    <3> QED BY <2>2, <3>1 DEF ReadNow, Budget!Ask, Budget!Next
  <2>3. ASSUME NEW t \in Threads, Deny(t)
        PROVE  Budget!Next
    BY <2>3, DenyDenies DEF Budget!Next
  <2>4. ASSUME NEW t \in Threads, Allow(t)
        PROVE  Budget!Next
    BY <2>4, AllowAllows DEF Budget!Next
  <2>5. CASE UNCHANGED vars
    <3>1. Level' = Level
      BY <2>5 DEF vars, Level
    <3> QED BY <2>5, <3>1 DEF vars, Budget!budgetVars
  <2> QED BY <2>1, <2>2, <2>3, <2>4, <2>5 DEF Next
<1> QED BY <1>1, <1>2, InvHolds, PTL DEF Spec, ImplementsBudget, Budget!Spec
=============================================================================
