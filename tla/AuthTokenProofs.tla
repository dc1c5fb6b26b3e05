-------------------------- MODULE AuthTokenProofs --------------------------
(***************************************************************************)
(* Proofs about AuthToken for every set of senders, every lifetime, every  *)
(* bound on the wall clock and on the waits.                               *)
(*                                                                         *)
(* The invariant connects three clocks: the wall-clock stamp of the cached *)
(* token with its true time of issue (Cached), the reading of a thread in  *)
(* _mint with the true time at which it was taken (Minting), and the age of*)
(* a token at the time a sender got it (Sending).                          *)
(***************************************************************************)
EXTENDS AuthToken, TLAPS

Cached ==
    issued # Never =>
        /\ issued <= time
        /\ cachedAt - MaxSkew <= issued
        /\ issued <= cachedAt + MaxSkew + Fetch

\* One thread mints at a time; it found the cache empty or too old.
Minting ==
    \A t \in Senders :
        /\ pc[t] = "minting" <=> lock = t
        /\ pc[t] = "minting" =>
              /\ since[t] <= time /\ time - since[t] <= Fetch
              /\ since[t] - MaxSkew <= now[t] /\ now[t] <= since[t] + MaxSkew
              /\ issued # Never => now[t] - cachedAt >= Lifetime

Sending ==
    \A t \in Senders : pc[t] = "sending" =>
        /\ held[t] \in Nat
        /\ since[t] <= time /\ time - since[t] <= Hold
        /\ since[t] - held[t] + Hold < Valid

Inv == TypeOK /\ Cached /\ Minting /\ Sending

Numbers ==
    /\ Lifetime \in Nat /\ Valid \in Nat /\ Fetch \in Nat /\ Hold \in Nat
    /\ MaxSkew \in Nat /\ MaxTime \in Nat
    /\ Lifetime + 2 * MaxSkew + Hold <= Valid
    /\ Fetch + Hold < Valid
    /\ NoOne \notin Senders

LEMMA NumbersHold == Numbers
BY LifetimeAssumption, ClockAssumption, NoOneAssumption, MarginAssumption DEF Numbers

LEMMA InitInv == Init => Inv
BY NumbersHold DEF Init, Inv, TypeOK, Cached, Minting, Sending, Numbers, Never

(* Time passes only while every wait is below its bound.                   *)
LEMMA TickInv == Inv /\ Tick => Inv'
<1> SUFFICES ASSUME Inv, Tick PROVE Inv'
  OBVIOUS
<1> USE NumbersHold DEF Numbers
<1>1. TypeOK'
  BY DEF Inv, TypeOK, Tick
<1>2. Cached'
  BY DEF Inv, TypeOK, Cached, Tick, Never
<1>3. Minting'
  BY DEF Inv, TypeOK, Minting, Tick
<1>4. Sending'
  BY DEF Inv, TypeOK, Sending, Tick
<1> QED BY <1>1, <1>2, <1>3, <1>4 DEF Inv

(* Setting the wall clock changes nothing that was read from it before.    *)
LEMMA StepClockInv == Inv /\ StepClock => Inv'
BY DEF Inv, TypeOK, Cached, Minting, Sending, StepClock

(* A cached token is at most a lifetime old by the wall clock of now, and  *)
(* so at most two clock errors older in truth.                             *)
LEMMA UseCachedInv ==
    ASSUME Inv, NEW t \in Senders, UseCached(t)
    PROVE  Inv'
<1> USE NumbersHold DEF Numbers
<1>1. /\ issued \in Nat /\ cachedAt \in Int /\ time \in Nat
      /\ skew \in Int /\ -MaxSkew <= skew /\ skew <= MaxSkew
      /\ time + skew - cachedAt < Lifetime
      /\ issued <= time /\ cachedAt - MaxSkew <= issued
  BY DEF Inv, TypeOK, Cached, UseCached, IsCached, Wall
<1>2. time - issued + Hold < Valid
  BY <1>1
<1>3. TypeOK'
  BY <1>1 DEF Inv, TypeOK, UseCached, GoTo, Never
<1>4. Cached'
  BY DEF Inv, Cached, UseCached
<1>5. Minting'
  BY DEF Inv, TypeOK, Minting, UseCached, GoTo
<1>6. Sending'
  BY <1>1, <1>2 DEF Inv, TypeOK, Sending, UseCached, GoTo
<1> QED BY <1>3, <1>4, <1>5, <1>6 DEF Inv

LEMMA StartMintInv ==
    ASSUME Inv, NEW t \in Senders, StartMint(t)
    PROVE  Inv'
<1> USE NumbersHold DEF Numbers
<1>1. TypeOK'
  BY DEF Inv, TypeOK, StartMint, GoTo, Wall, Never
<1>2. Cached'
  BY DEF Inv, Cached, StartMint
<1>3. Minting'
  BY DEF Inv, TypeOK, Minting, StartMint, GoTo, Wall, IsCached, Never
<1>4. Sending'
  BY DEF Inv, TypeOK, Sending, StartMint, GoTo
<1> QED BY <1>1, <1>2, <1>3, <1>4 DEF Inv

LEMMA MintedInv ==
    ASSUME Inv, NEW t \in Senders, Minted(t)
    PROVE  Inv'
<1> USE NumbersHold DEF Numbers
<1>1. PICK at \in since[t]..time : issued' = at
  BY DEF Minted
<1>2. /\ since[t] \in Nat /\ time \in Nat /\ now[t] \in Int
      /\ since[t] <= time /\ time - since[t] <= Fetch
      /\ since[t] - MaxSkew <= now[t] /\ now[t] <= since[t] + MaxSkew
      /\ lock = t
  BY DEF Inv, TypeOK, Minting, Minted
<1>3. at \in Nat /\ since[t] <= at /\ at <= time
  BY <1>1, <1>2
<1>4. TypeOK'
  BY <1>1, <1>2, <1>3 DEF Inv, TypeOK, Minted, GoTo, Never
<1>5. Cached'
  BY <1>1, <1>2, <1>3 DEF Minted, Cached
<1>6. Minting'
  BY <1>2 DEF Inv, TypeOK, Minting, Minted, GoTo
<1>7. Sending'
  BY <1>1, <1>2, <1>3 DEF Inv, TypeOK, Sending, Minted, GoTo
<1> QED BY <1>4, <1>5, <1>6, <1>7 DEF Inv

LEMMA MintFailsInv ==
    ASSUME Inv, NEW t \in Senders, MintFails(t)
    PROVE  Inv'
<1> USE NumbersHold DEF Numbers
<1>1. TypeOK'
  BY DEF Inv, TypeOK, MintFails, GoTo, Never
<1>2. Cached'
  BY DEF Inv, Cached, MintFails
<1>3. Minting'
  BY DEF Inv, TypeOK, Minting, MintFails, GoTo
<1>4. Sending'
  BY DEF Inv, TypeOK, Sending, MintFails, GoTo
<1> QED BY <1>1, <1>2, <1>3, <1>4 DEF Inv

LEMMA SentInv ==
    ASSUME Inv, NEW t \in Senders, Sent(t)
    PROVE  Inv'
<1> USE NumbersHold DEF Numbers
<1>1. TypeOK'
  BY DEF Inv, TypeOK, Sent, GoTo, Never
<1>2. Cached'
  BY DEF Inv, Cached, Sent
<1>3. Minting'
  BY DEF Inv, TypeOK, Minting, Sent, GoTo
<1>4. Sending'
  BY DEF Inv, TypeOK, Sending, Sent, GoTo
<1> QED BY <1>1, <1>2, <1>3, <1>4 DEF Inv

LEMMA NextInv == Inv /\ [Next]_vars => Inv'
<1> SUFFICES ASSUME Inv, [Next]_vars PROVE Inv'
  OBVIOUS
<1>1. CASE Tick
  BY <1>1, TickInv
<1>2. CASE StepClock
  BY <1>2, StepClockInv
<1>3. ASSUME NEW t \in Senders,
             UseCached(t) \/ StartMint(t) \/ Minted(t) \/ MintFails(t) \/ Sent(t)
      PROVE  Inv'
  BY <1>3, UseCachedInv, StartMintInv, MintedInv, MintFailsInv, SentInv
<1>4. CASE UNCHANGED vars
  BY <1>4 DEF vars, Inv, TypeOK, Cached, Minting, Sending
<1> QED BY <1>1, <1>2, <1>3, <1>4 DEF Next

(* The invariant of a token factory.                                       *)
THEOREM InvHolds == Spec => []Inv
<1>1. Init => Inv
  BY InitInv
<1>2. Inv /\ [Next]_vars => Inv'
  BY NextInv
<1> QED BY <1>1, <1>2, PTL DEF Spec

(* Every value stays in its type; a sender never gets None for a token.    *)
THEOREM TypeCorrect == Spec => []TypeOK
<1>1. Inv => TypeOK
  BY DEF Inv
<1> QED BY <1>1, InvHolds, PTL

(* No token is too old when it reaches the provider, for every lifetime    *)
(* that leaves a margin of two clock errors and the wait of the sender.    *)
THEOREM FreshnessCorrect == Spec => []TokensAreFresh
<1>1. Inv => TokensAreFresh
  BY NumbersHold DEF Inv, TypeOK, Sending, TokensAreFresh, Numbers
<1> QED BY <1>1, InvHolds, PTL

(* Two tokens that a process mints are a lifetime apart, less the errors.  *)
THEOREM MintsApart == Spec => MintsAreApart
<1> DEFINE Apart == \A t \in Senders :
               pc[t] = "minting" /\ pc'[t] = "sending" /\ issued # Never
                   => issued' - issued >= Lifetime - 2 * MaxSkew - Fetch
<1>1. Inv /\ Inv' /\ [Next]_vars => Apart
  <2> SUFFICES ASSUME Inv, [Next]_vars, NEW t \in Senders,
                      pc[t] = "minting", pc'[t] = "sending", issued # Never
               PROVE  issued' - issued >= Lifetime - 2 * MaxSkew - Fetch
    OBVIOUS
  <2>1. Minted(t)
    <3>1. ASSUME NEW u \in Senders, u # t,
                 UseCached(u) \/ StartMint(u) \/ Minted(u) \/ MintFails(u) \/ Sent(u)
          PROVE  pc'[t] = pc[t]
      BY <3>1 DEF Inv, TypeOK, UseCached, StartMint, Minted, MintFails, Sent, GoTo
    <3>2. ~(UseCached(t) \/ StartMint(t) \/ Sent(t))
      BY DEF UseCached, StartMint, Sent
    <3>3. ~MintFails(t)
      BY DEF Inv, TypeOK, MintFails, GoTo
    <3>4. ~(Tick \/ StepClock \/ UNCHANGED vars)
      BY DEF Tick, StepClock, vars
    <3> QED BY <3>1, <3>2, <3>3, <3>4 DEF Next
  <2>2. PICK at \in since[t]..time : issued' = at
    BY <2>1 DEF Minted
  <2>3. /\ issued \in Nat /\ cachedAt \in Int /\ since[t] \in Nat /\ now[t] \in Int
        /\ time \in Nat
        /\ issued <= cachedAt + MaxSkew + Fetch
        /\ now[t] <= since[t] + MaxSkew
        /\ now[t] - cachedAt >= Lifetime
    BY DEF Inv, TypeOK, Cached, Minting
  <2> QED BY <2>2, <2>3, NumbersHold DEF Numbers
<1>2. Inv /\ Inv' /\ [Next]_vars => [Apart]_vars
  BY <1>1
<1> QED BY <1>2, InvHolds, PTL DEF Spec, MintsAreApart
=============================================================================
