--------------------------- MODULE MCRateLimiter ---------------------------
(* TLC instance of RateLimiter and of its refinement.                      *)
EXTENDS RateLimiterRefines, TLC

\* Threads and keys are interchangeable.
Symmetry == Permutations(Threads) \cup Permutations(Keys)

(* README.md:360-362 promises that "at most 10 devices per hour" are       *)
(* reported as unknown: in an interval of one hour (Full ticks, the time   *)
(* in which the breaker refills) no more than Full units are granted.      *)
AtMostCapacityPerHour ==
    \A k \in Keys :
        clock >= windowStart /\ clock - windowStart <= Full => spent[k] <= Full
=============================================================================
