---------------------------- MODULE RateLimiter ----------------------------
(***************************************************************************)
(* RateLimiter of app/server.py (lines 76-113), the token bucket behind the*)
(* two per-client limits and the deletion breaker (lines 231-250).         *)
(*                                                                         *)
(* One unit is what a bucket gains in one tick of the clock, a token is    *)
(* Cost units, and a full bucket is Full == capacity tokens.  The code's   *)
(* three instances in these units, with a tick of one second or a half:    *)
(*     /devices        20 tokens, 20/60 s    Cost = 3     Full = 60        *)
(*     /notifications 120 tokens, 120/60 s   Cost = 1     Full = 120       *)
(*     breaker         10 tokens, 10/3600 s  Cost = 360   Full = 3600      *)
(* The code computes in floats; here the arithmetic is exact.              *)
(*                                                                         *)
(* allow() reads the clock BEFORE it takes the lock, so a thread may work  *)
(* with a time that others have already gone past: `now` may be smaller    *)
(* than the bucket's own time.  MaxStale is how long a thread may be held  *)
(* up between the two; the clock does not pass a reading that is older.    *)
(***************************************************************************)
EXTENDS Integers

CONSTANTS
    Threads,      \* handler threads
    Keys,         \* client addresses, or the single "fleet"
    Cost,         \* units of one token
    Full,         \* units of a full bucket
    Idle,         \* _BUCKET_IDLE_SECONDS in ticks
    MaxStale,     \* the longest delay between reading the clock and the lock
    NoKey,        \* the key of a thread that is in no call
    MaxClock      \* bound: the clock stops here

ASSUME CostAssumption  == Cost \in Nat \ {0}
ASSUME FullAssumption  == Full \in Nat /\ Full >= Cost
ASSUME StaleAssumption == MaxStale \in Nat /\ MaxClock \in Nat
ASSUME NoKeyAssumption == NoKey \notin Keys

\* What makes an eviction harmless: either a bucket is only evicted when even
\* the most delayed thread would find it full, or there is only one key, whose
\* bucket is put back by the very call that evicts it (the breaker).
ASSUME IdleAssumption  ==
    /\ Idle \in Nat
    /\ Full + 2 * MaxStale <= Idle \/ \A j, k \in Keys : j = k

VARIABLES
    clock,        \* time.monotonic()
    buckets,      \* _buckets: a partial function from keys to (tokens, last)
    pc,           \* where each thread is
    key,          \* the argument of each thread's allow()
    now,          \* the local `now` of each thread's allow()
    answer,       \* what each thread's last allow() returned
    windowStart,  \* history: the start of an arbitrary interval of time
    spent         \* history: units granted to each key since windowStart

vars == <<clock, buckets, pc, key, now, answer, windowStart, spent>>

Bucket == [tokens : Int, last : Nat]

TypeOK ==
    /\ clock \in 0..MaxClock
    /\ DOMAIN buckets \subseteq Keys
    /\ buckets \in [DOMAIN buckets -> Bucket]
    /\ pc \in [Threads -> {"idle", "allowing"}]
    /\ key \in [Threads -> Keys \cup {NoKey}]
    /\ now \in [Threads -> 0..MaxClock]
    /\ answer \in [Threads -> {"none", "yes", "no"}]
    /\ windowStart \in 0..MaxClock
    /\ spent \in [Keys -> Nat]

-----------------------------------------------------------------------------
\* Bug: the refill is not capped.
Bug_RefilledUncapped(b, at) == b.tokens + (at - b.last)

\* min(capacity, tokens + (now - last) * refill_per_sec)
Refilled(b, at) ==
    LET level == b.tokens + (at - b.last)
    IN  IF level > Full THEN Full ELSE level

\* The buckets that are evicted at time `at`.
StaleKeys(at) ==
    {k \in DOMAIN buckets :
        buckets[k].last < at - Idle /\ Refilled(buckets[k], at) >= Full}

\* _buckets.get(key, (capacity, now)) once the stale keys are gone.
Current(k, at) ==
    IF k \in DOMAIN buckets \ StaleKeys(at)
    THEN buckets[k]
    ELSE [tokens |-> Full, last |-> at]

\* Bug: the cutoff is stored instead of the time.
Bug_StoredCutoff(k, at, units) ==
    [j \in (DOMAIN buckets \ StaleKeys(at)) \cup {k} |->
        IF j = k THEN [tokens |-> units, last |-> at - Idle] ELSE buckets[j]]

\* Bug: a known bucket keeps its old time, so its refill counts twice.
Bug_StoredKeepsTime(k, at, units) ==
    [j \in (DOMAIN buckets \ StaleKeys(at)) \cup {k} |->
        IF j = k
        THEN [tokens |-> units,
              last   |-> IF k \in DOMAIN buckets THEN buckets[k].last ELSE at]
        ELSE buckets[j]]

\* The buckets after the eviction and the assignment to _buckets[key].
Stored(k, at, units) ==
    [j \in (DOMAIN buckets \ StaleKeys(at)) \cup {k} |->
        IF j = k THEN [tokens |-> units, last |-> at] ELSE buckets[j]]

-----------------------------------------------------------------------------
Init ==
    /\ clock = 0
    /\ buckets = [k \in {} |-> [tokens |-> Full, last |-> 0]]
    /\ pc = [t \in Threads |-> "idle"]
    /\ key = [t \in Threads |-> NoKey]
    /\ now = [t \in Threads |-> 0]
    /\ answer = [t \in Threads |-> "none"]
    /\ windowStart \in 0..MaxClock
    /\ spent = [k \in Keys |-> 0]

\* Time passes, but no thread is held up for more than MaxStale.
Tick ==
    /\ clock < MaxClock
    /\ \A t \in Threads : pc[t] = "allowing" => clock - now[t] < MaxStale
    /\ clock' = clock + 1
    /\ UNCHANGED <<buckets, pc, key, now, answer, windowStart, spent>>

\* The first line of allow(): the clock is read with no lock held.
ReadNow(t, k) ==
    /\ pc[t] = "idle"
    /\ pc' = [pc EXCEPT ![t] = "allowing"]
    /\ key' = [key EXCEPT ![t] = k]
    /\ now' = [now EXCEPT ![t] = clock]
    /\ answer' = [answer EXCEPT ![t] = "none"]
    /\ UNCHANGED <<clock, buckets, windowStart, spent>>

\* The call returns and its locals go out of scope.
Return(t, result) ==
    /\ answer' = [answer EXCEPT ![t] = result]
    /\ pc' = [pc EXCEPT ![t] = "idle"]
    /\ key' = [key EXCEPT ![t] = NoKey]
    /\ now' = [now EXCEPT ![t] = 0]

\* The locked part of allow(): it returns False ...
Deny(t) ==
    /\ pc[t] = "allowing"
    /\ LET level == Refilled(Current(key[t], now[t]), now[t])
       IN  /\ level < Cost
           /\ buckets' = Stored(key[t], now[t], level)
    /\ Return(t, "no")
    /\ UNCHANGED <<clock, windowStart, spent>>

\* Bug: a fraction of a token is enough.
Bug_AllowFraction(t) ==
    /\ pc[t] = "allowing"
    /\ LET level == Refilled(Current(key[t], now[t]), now[t])
       IN  /\ level > 0
           /\ buckets' = Stored(key[t], now[t], level - Cost)
    /\ spent' = IF clock >= windowStart
                THEN [spent EXCEPT ![key[t]] = @ + Cost]
                ELSE spent
    /\ Return(t, "yes")
    /\ UNCHANGED <<clock, windowStart>>

\* ... or takes a token and returns True.
Allow(t) ==
    /\ pc[t] = "allowing"
    /\ LET level == Refilled(Current(key[t], now[t]), now[t])
       IN  /\ level >= Cost
           /\ buckets' = Stored(key[t], now[t], level - Cost)
    /\ spent' = IF clock >= windowStart
                THEN [spent EXCEPT ![key[t]] = @ + Cost]
                ELSE spent
    /\ Return(t, "yes")
    /\ UNCHANGED <<clock, windowStart>>

Next ==
    \/ Tick
    \/ \E t \in Threads :
          \/ \E k \in Keys : ReadNow(t, k)
          \/ Deny(t)
          \/ Allow(t)

Spec == Init /\ [][Next]_vars

-----------------------------------------------------------------------------
(* The budget: over an interval that starts at any time, no key is granted *)
(* more than one full bucket, plus what is refilled in the interval, plus  *)
(* what was refilled while the most delayed thread waited for the lock.    *)
(* Evictions and clock readings that arrive out of order create no tokens. *)
BudgetHolds ==
    \A k \in Keys :
        clock >= windowStart => spent[k] <= Full + (clock - windowStart) + MaxStale

(* No bucket holds more than the capacity, and however late a reading is,  *)
(* what a bucket owes never exceeds what has been refilled since.          *)
NoDebt ==
    \A k \in DOMAIN buckets :
        /\ buckets[k].tokens <= Full
        /\ buckets[k].last <= clock
        /\ buckets[k].tokens + (clock - buckets[k].last) >= 0
=============================================================================
