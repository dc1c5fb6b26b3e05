----------------------------- MODULE AuthToken -----------------------------
(***************************************************************************)
(* The token factories of the two provider clients: ApnsAuthTokenFactory   *)
(* (app/apns.py:38-73) and FcmAuthTokenFactory (app/fcm.py:38-100).  Both  *)
(* hand out one cached bearer token and renew it after _TOKEN_LIFETIME_S   *)
(* by the WALL clock (time.time()), while the provider judges its age by a *)
(* clock of its own.                                                       *)
(*                                                                         *)
(* token() does everything under one lock.  An APNs token is signed there  *)
(* and then; an FCM token is fetched from Google while the lock is held, so*)
(* time passes, other senders wait, and the fetch may fail.  The sender    *)
(* uses the token some time after it got it.                               *)
(*                                                                         *)
(* `time` is true time (the provider's); the wall clock shows time + skew, *)
(* and skew may be stepped, forward or back, between -MaxSkew and MaxSkew. *)
(***************************************************************************)
EXTENDS Integers

CONSTANTS
    Senders,     \* handler threads
    Lifetime,    \* _TOKEN_LIFETIME_S
    Valid,       \* how long the provider accepts a token
    Fetch,       \* the longest time a mint takes (0 for APNs)
    Hold,        \* the longest time from token() to the provider's check
    MaxSkew,     \* how far the wall clock may be off
    NoOne,       \* no thread
    MaxTime      \* bound: time stops here

ASSUME LifetimeAssumption == Lifetime \in Nat
ASSUME ClockAssumption    == MaxSkew \in Nat /\ MaxTime \in Nat
ASSUME NoOneAssumption    == NoOne \notin Senders

\* The margin that the comments of both constants speak of (apns.py:29-30,
\* fcm.py:26): 15 minutes for APNs, 10 for FCM.
ASSUME MarginAssumption ==
    /\ Valid \in Nat /\ Fetch \in Nat /\ Hold \in Nat
    /\ Lifetime + 2 * MaxSkew + Hold <= Valid
    /\ Fetch + Hold < Valid

VARIABLES
    time,       \* true time
    skew,       \* what the wall clock is off by
    lock,       \* who holds _lock, or NoOne
    issued,     \* when the cached token was issued (true time), or Never
    cachedAt,   \* _cached_at, which is also the `iat` of the token's JWT
    pc,         \* where each sender is
    now,        \* the local `now` of each sender's token()
    since,      \* when each sender came where it is (true time)
    held        \* the token each sender got, by its time of issue

vars == <<time, skew, lock, issued, cachedAt, pc, now, since, held>>

Never == -1      \* the time of issue of None

TypeOK ==
    /\ time \in 0..MaxTime
    /\ skew \in (-MaxSkew)..MaxSkew
    /\ lock \in Senders \cup {NoOne}
    /\ issued \in Nat \cup {Never} /\ cachedAt \in Int
    /\ pc \in [Senders -> {"idle", "minting", "sending"}]
    /\ now \in [Senders -> Int]
    /\ since \in [Senders -> 0..MaxTime]
    /\ held \in [Senders -> Nat \cup {Never}]
    /\ \A t \in Senders : pc[t] = "sending" => held[t] # Never

-----------------------------------------------------------------------------
Wall == time + skew

Init ==
    /\ time = 0
    /\ skew \in (-MaxSkew)..MaxSkew
    /\ lock = NoOne
    /\ issued = Never /\ cachedAt = 0
    /\ pc = [t \in Senders |-> "idle"]
    /\ now = [t \in Senders |-> 0]
    /\ since = [t \in Senders |-> 0]
    /\ held = [t \in Senders |-> Never]

\* The mint and the request have timeouts.
Tick ==
    /\ time < MaxTime
    /\ \A t \in Senders :
          /\ pc[t] = "minting" => time - since[t] < Fetch
          /\ pc[t] = "sending" => time - since[t] < Hold
    /\ time' = time + 1
    /\ UNCHANGED <<skew, lock, issued, cachedAt, pc, now, since, held>>

\* The wall clock is set.
StepClock ==
    /\ skew' \in ((-MaxSkew)..MaxSkew) \ {skew}
    /\ UNCHANGED <<time, lock, issued, cachedAt, pc, now, since, held>>

GoTo(t, place, token) ==
    /\ pc' = [pc EXCEPT ![t] = place]
    /\ since' = [since EXCEPT ![t] = time]
    /\ held' = [held EXCEPT ![t] = token]

IsCached == issued # Never /\ Wall - cachedAt < Lifetime

\* token() finds a fresh token ...
UseCached(t) ==
    /\ pc[t] = "idle" /\ lock = NoOne
    /\ IsCached
    /\ GoTo(t, "sending", issued)
    /\ UNCHANGED <<time, skew, lock, issued, cachedAt, now>>

\* ... or goes into _mint, with the lock held.
StartMint(t) ==
    /\ pc[t] = "idle" /\ lock = NoOne
    /\ ~IsCached
    /\ lock' = t
    /\ now' = [now EXCEPT ![t] = Wall]
    /\ GoTo(t, "minting", Never)
    /\ UNCHANGED <<time, skew, issued, cachedAt>>

\* Bug: _cached_at is not set.
Bug_MintedUnstamped(t) ==
    /\ pc[t] = "minting"
    /\ \E at \in since[t]..time : issued' = at
    /\ lock' = NoOne
    /\ GoTo(t, "sending", issued')
    /\ now' = [now EXCEPT ![t] = 0]
    /\ UNCHANGED <<time, skew, cachedAt>>

\* The provider issued the token at some time during the mint.
Minted(t) ==
    /\ pc[t] = "minting"
    /\ \E at \in since[t]..time : issued' = at
    /\ cachedAt' = now[t]
    /\ lock' = NoOne
    /\ GoTo(t, "sending", issued')
    /\ now' = [now EXCEPT ![t] = 0]
    /\ UNCHANGED <<time, skew>>

\* Bug: _cached_at is assigned before the mint.
Bug_MintFailsStamps(t) ==
    /\ pc[t] = "minting"
    /\ cachedAt' = now[t]
    /\ lock' = NoOne
    /\ GoTo(t, "idle", Never)
    /\ now' = [now EXCEPT ![t] = 0]
    /\ UNCHANGED <<time, skew, issued>>

\* Bug: the exception is swallowed and the cached token returned.
Bug_MintFailsReturns(t) ==
    /\ pc[t] = "minting"
    /\ lock' = NoOne
    /\ GoTo(t, "sending", issued)
    /\ now' = [now EXCEPT ![t] = 0]
    /\ UNCHANGED <<time, skew, issued, cachedAt>>

\* _mint raises: nothing is assigned.
MintFails(t) ==
    /\ pc[t] = "minting"
    /\ lock' = NoOne
    /\ GoTo(t, "idle", Never)
    /\ now' = [now EXCEPT ![t] = 0]
    /\ UNCHANGED <<time, skew, issued, cachedAt>>

\* The provider has seen the token, or the request has failed.
Sent(t) ==
    /\ pc[t] = "sending"
    /\ GoTo(t, "idle", Never)
    /\ UNCHANGED <<time, skew, lock, issued, cachedAt, now>>

Next ==
    \/ Tick
    \/ StepClock
    \/ \E t \in Senders :
          UseCached(t) \/ StartMint(t) \/ Minted(t) \/ MintFails(t) \/ Sent(t)

Spec == Init /\ [][Next]_vars

-----------------------------------------------------------------------------
(* A token is still valid when it reaches the provider: however the wall   *)
(* clock is set within its bound, however long the mint took, and however  *)
(* many mints failed since (apns.py:29-30, fcm.py:26).                     *)
TokensAreFresh ==
    \A t \in Senders : pc[t] = "sending" => time - held[t] < Valid

(* Apple limits how often a token may be minted (apns.py:29-30): two tokens*)
(* that a process mints are a lifetime apart, less what the wall clock was *)
(* set forward and the first mint took, whatever number of threads asks.   *)
MintsAreApart ==
    [][\A t \in Senders :
          pc[t] = "minting" /\ pc'[t] = "sending" /\ issued # Never
              => issued' - issued >= Lifetime - 2 * MaxSkew - Fetch]_vars
=============================================================================
