------------------------- MODULE DeviceStoreRefines -------------------------
(***************************************************************************)
(* The refinement mapping from DeviceStore to Registry: the table is what  *)
(* is on disk, a write takes effect when it commits, and a reader, who     *)
(* looks at the connection and not at the disk, may see the write that is  *)
(* inside its transaction.                                                 *)
(***************************************************************************)
EXTENDS DeviceStore

\* What a caller knows: it is in no call, its write is done, or not yet.
StatusAt(place) ==
    CASE place = "idle"      -> "idle"
      [] place = "rereading" -> "applied"
      [] OTHER               -> "asked"

Status == [t \in Threads |-> StatusAt(pc[t])]

Table == INSTANCE Registry WITH
    rows   <- committed,
    status <- Status

(* With its lock, its transactions and its lock-free readers on a shared   *)
(* connection, the store behaves like one table (db.py:13-15): acknowledged*)
(* registrations, refusals and deletions survive errors and kills, an      *)
(* unacknowledged one is there completely or not at all, and a reader sees *)
(* at most the one write that is under way.                                *)
ImplementsRegistry == Table!Spec
=============================================================================
