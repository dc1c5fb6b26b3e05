------------------------- MODULE RateLimiterRefines -------------------------
(***************************************************************************)
(* The refinement mapping from RateLimiter to TokenBudget: the level of a  *)
(* key is its bucket refilled to the present, or Full when it has no       *)
(* bucket, and a call counts as made when its thread read the clock.       *)
(***************************************************************************)
EXTENDS RateLimiter

Level == [k \in Keys |->
             IF k \in DOMAIN buckets THEN Refilled(buckets[k], clock) ELSE Full]

Budget == INSTANCE TokenBudget WITH Late <- MaxStale, level <- Level

(* Refilling a bucket only when it is used, and evicting one that is full, *)
(* "is exactly equivalent to it never having existed" (server.py:96-97),   *)
(* but for the time a thread is held up after its clock reading.           *)
ImplementsBudget == Budget!Spec
=============================================================================
