---------------------------- MODULE TokenBudget ----------------------------
(***************************************************************************)
(* What a token bucket promises: every key has a level that starts full,   *)
(* gains one unit per tick up to Full, and pays Cost for every call that is*)
(* allowed; a call is denied only when the level is below Cost.  There is  *)
(* no table, no lazy refill and no eviction here.                          *)
(*                                                                         *)
(* A call may count as made up to Late ticks ago: then it is denied for    *)
(* what has been refilled since, or what has been refilled since comes on  *)
(* top of a level that was full.  With Late = 0 the budget is exact.       *)
(***************************************************************************)
EXTENDS Integers

CONSTANTS Threads, Keys, Cost, Full, Late

VARIABLES clock, level, answer

budgetVars == <<clock, level, answer>>

Init ==
    /\ clock = 0
    /\ level = [k \in Keys |-> Full]
    /\ answer = [t \in Threads |-> "none"]

Pass ==
    /\ clock' = clock + 1
    /\ level' = [k \in Keys |-> IF level[k] < Full THEN level[k] + 1 ELSE Full]
    /\ UNCHANGED answer

Ask(t) ==
    /\ answer' = [answer EXCEPT ![t] = "none"]
    /\ UNCHANGED <<clock, level>>

Allow(t, k) ==
    /\ level[k] >= Cost
    /\ \E since \in 0..Late :
          /\ since = 0 \/ (level[k] = Full /\ since <= Cost)
          /\ level' = [level EXCEPT ![k] = @ - Cost + since]
    /\ answer' = [answer EXCEPT ![t] = "yes"]
    /\ UNCHANGED clock

Deny(t, k) ==
    /\ level[k] < Cost + Late
    /\ answer' = [answer EXCEPT ![t] = "no"]
    /\ UNCHANGED <<clock, level>>

Next ==
    \/ Pass
    \/ \E t \in Threads :
          \/ Ask(t)
          \/ \E k \in Keys : Allow(t, k) \/ Deny(t, k)

Spec == Init /\ [][Next]_budgetVars
=============================================================================
