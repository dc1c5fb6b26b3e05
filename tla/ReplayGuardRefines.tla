------------------------- MODULE ReplayGuardRefines -------------------------
(***************************************************************************)
(* The refinement mapping from ReplayGuard to ReplayWindow: the holder of a*)
(* key is the caller whose lease the undelivered entry carries, and a key  *)
(* is remembered while it has a delivered entry.                           *)
(***************************************************************************)
EXTENDS ReplayGuard

CONSTANT NoOne      \* stands for "no caller"

ASSUME NoOneAssumption == NoOne \notin Callers

HolderOf(k) ==
    IF k \in InFlight /\ \E t \in Callers : lease[t] = seen[k].lease
    THEN CHOOSE t \in Callers : lease[t] = seen[k].lease
    ELSE NoOne

Holder == [k \in Keys |-> HolderOf(k)]

Window == INSTANCE ReplayWindow WITH
    holder     <- Holder,
    remembered <- Delivered,
    Capacity   <- MaxEntries

(* The guard of the code, with its clock read outside the lock, its lazy   *)
(* pruning and its generations, behaves like the window of ReplayWindow.   *)
ImplementsWindow == Window!Spec
=============================================================================
