---------------------------- MODULE ReplayWindow ----------------------------
(***************************************************************************)
(* What the replay guard promises, without its table of entries, its heap, *)
(* its generations and its lock: per key, who is delivering it now, and    *)
(* whether it is remembered as delivered.                                  *)
(*                                                                         *)
(*   - a key is granted to one caller at a time, and never while a delivery*)
(*     of it is remembered;                                                *)
(*   - a delivery is forgotten only once it is more than Ttl old;          *)
(*   - a caller is refused only if another one is delivering the key or    *)
(*     Capacity keys are held or remembered.                               *)
(***************************************************************************)
EXTENDS Integers, FiniteSets

CONSTANTS Callers, Keys, NoOne, Ttl, Capacity

VARIABLES
    clock,        \* the time
    holder,       \* holder[k]: the caller delivering k, or NoOne
    remembered,   \* the keys whose last delivery is remembered
    deliveredAt,  \* when each key was last delivered
    verdict       \* what each caller was last told

windowVars == <<clock, holder, remembered, deliveredAt, verdict>>

Never == -1

Held == {k \in Keys : holder[k] # NoOne}

Init ==
    /\ clock = 0
    /\ holder = [k \in Keys |-> NoOne]
    /\ remembered = {}
    /\ deliveredAt = [k \in Keys |-> Never]
    /\ verdict = [t \in Callers |-> "none"]

Pass ==
    /\ clock' = clock + 1
    /\ UNCHANGED <<holder, remembered, deliveredAt, verdict>>

\* A caller starts to ask.
Ask(t) ==
    /\ verdict' = [verdict EXCEPT ![t] = "none"]
    /\ UNCHANGED <<clock, holder, remembered, deliveredAt>>

\* Deliveries that may be forgotten.
Old == {k \in remembered : clock > deliveredAt[k] + Ttl}

\* A caller asks for k; some old deliveries are forgotten on the way.
Grant(t, k) ==
    /\ k \notin Held \cup remembered'
    /\ Cardinality(Held \cup remembered') < Capacity
    /\ holder' = [holder EXCEPT ![k] = t]
    /\ verdict' = [verdict EXCEPT ![t] = "lease"]

Suppress(t, k) ==
    /\ k \in remembered'
    /\ verdict' = [verdict EXCEPT ![t] = "delivered"]
    /\ UNCHANGED holder

Refuse(t, k) ==
    /\ k \notin remembered'
    /\ k \in Held \/ Cardinality(Held \cup remembered') >= Capacity
    /\ verdict' = [verdict EXCEPT ![t] = "refused"]
    /\ UNCHANGED holder

Answer(t, k) ==
    /\ \E forgotten \in SUBSET Old : remembered' = remembered \ forgotten
    /\ Grant(t, k) \/ Suppress(t, k) \/ Refuse(t, k)
    /\ UNCHANGED <<clock, deliveredAt>>

Deliver(t, k) ==
    /\ holder[k] = t
    /\ holder' = [holder EXCEPT ![k] = NoOne]
    /\ remembered' = remembered \cup {k}
    /\ deliveredAt' = [deliveredAt EXCEPT ![k] = clock]
    /\ verdict' = [verdict EXCEPT ![t] = "none"]
    /\ UNCHANGED clock

Abandon(t, k) ==
    /\ holder[k] = t
    /\ holder' = [holder EXCEPT ![k] = NoOne]
    /\ verdict' = [verdict EXCEPT ![t] = "none"]
    /\ UNCHANGED <<clock, remembered, deliveredAt>>

Next ==
    \/ Pass
    \/ \E t \in Callers :
          \/ Ask(t)
          \/ \E k \in Keys : Answer(t, k) \/ Deliver(t, k) \/ Abandon(t, k)

Spec == Init /\ [][Next]_windowVars
=============================================================================
