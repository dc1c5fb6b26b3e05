------------------------------ MODULE Gateway ------------------------------
(***************************************************************************)
(* The push gateway as a whole (app/server.py with app/db.py): handler     *)
(* threads that answer POST /notifications (send_notifications, 343-508)   *)
(* and DELETE /devices (unregister_device, 323-341) beside registrations,  *)
(* which reach the store in one atomic statement (db.py:113-172).          *)
(*                                                                         *)
(* Every call a thread makes to something it shares with other threads is  *)
(* a step: the database read, the replay guard, the provider, the deletion *)
(* breaker, each database write.  Between two of them any other thread may *)
(* run.  The components with a specification of their own appear as what   *)
(* those specifications promise: the replay guard as a ReplayWindow whose  *)
(* deliveries are forgotten at some time, the breaker as a TokenBudget     *)
(* that is refilled at some time.                                          *)
(*                                                                         *)
(* A registration of a device carries the device's current generation of   *)
(* tokens: generation g stands for the push token, its hash and the PushKit*)
(* token that the device obtained together.  A notification id stands for a*)
(* (deviceIdentifier, signature) pair.                                     *)
(***************************************************************************)
EXTENDS Integers, Sequences, FiniteSets

CONSTANTS
    Workers,          \* handler threads
    Devices,          \* deviceIdentifiers
    Users,            \* public keys
    Notifs,           \* (deviceIdentifier, signature) pairs
    DeviceOf,         \* the device a notification is for
    Calls,            \* the notifications that Nextcloud marks voip
    Flaws,            \* what may be wrong with an entry of a batch
    MaxGeneration,    \* bound: token generations of a device
    Batches,          \* the batches that Nextcloud sends, by id and flaw
    BatchCap,         \* MAX_NOTIFICATIONS_PER_REQUEST
    GuardCapacity,    \* _MAX_REPLAY_ENTRIES
    BreakerCapacity,  \* capacity of the deletion breaker
    LegacyMismatch,   \* may a provider call a live token dead? (server.py:237-243)
    MaxFaults,        \* bound: exceptions and lost responses
    MaxRestarts,      \* bound: restarts of the process
    CountLimit,       \* bound: where the history counters saturate
    NoOne             \* no thread

ASSUME DeviceOfAssumption == DeviceOf \in [Notifs -> Devices] /\ Calls \subseteq Notifs
ASSUME FlawsAssumption    == Flaws \subseteq {"none", "unparsable", "invalid", "raises"}
ASSUME NoOneAssumption    == NoOne \notin Workers
ASSUME CapAssumption      == {BatchCap, GuardCapacity, BreakerCapacity} \subseteq Nat \ {0}
ASSUME BatchesAssumption  == \A batch \in Batches : batch \in Seq([id : Notifs, flaw : Flaws])
ASSUME BoundAssumption    ==
    MaxGeneration \in Nat \ {0} /\ {MaxFaults, MaxRestarts, CountLimit} \subseteq Nat

VARIABLES
    rows,        \* the devices table: a partial function from devices to rows
    holder,      \* the guard: who is delivering a pair, or NoOne
    remembered,  \* the guard: the pairs remembered as delivered
    budget,      \* tokens left in the deletion breaker
    pc,          \* where each thread is
    todo,        \* the entries each thread still has to handle
    row,         \* the local `device` of each thread (a snapshot of a row)
    unknown,     \* the local `unknown` list
    failed,      \* the local `failed` counter
    quiet,       \* history: entries delivered or silently dropped
    size,        \* history: entries in the request
    live,        \* environment: the generation whose tokens work, per device
    nextcloud,   \* environment: the generation Nextcloud has on record, or 0
    confirmed,   \* history: pairs whose acceptance the gateway has learned
    listed,      \* history: unknown entries since the process started
    refills,     \* history: breaker refills since the process started
    faults,      \* exceptions and lost responses so far
    restarts     \* restarts so far

store   == <<rows>>
guard   == <<holder, remembered, confirmed>>
breaker == <<budget, listed, refills>>
locals  == <<pc, todo, row, unknown, failed, quiet, size>>
outside == <<live, nextcloud>>
bounds  == <<faults, restarts>>
vars    == <<store, guard, breaker, locals, outside, bounds>>

Generations == 1..MaxGeneration
None        == 0             \* no token, no record

Row   == [id : Devices, owner : Users, token : Generations, voip : Generations \cup {None}]
Entry == [id : Notifs, hash : Generations, flaw : Flaws]
NoRow == [id |-> NoOne, owner |-> NoOne, token |-> None, voip |-> None]

\* Where a thread may be in send_notifications once it holds a lease, and the
\* other places.
Leased   == {"calling", "accepted", "notSent", "voipDead", "dead",
             "deleting", "forgotten", "raising"}
Unleased == {"idle", "entry", "missed", "checked", "unregistering"}

TypeOK ==
    /\ DOMAIN rows \subseteq Devices /\ rows \in [DOMAIN rows -> Row]
    /\ holder \in [Notifs -> Workers \cup {NoOne}]
    /\ remembered \subseteq Notifs /\ confirmed \subseteq Notifs
    /\ budget \in 0..BreakerCapacity
    /\ pc \in [Workers -> Leased \cup Unleased]
    /\ todo \in [Workers -> Seq(Entry)] /\ unknown \in [Workers -> Seq(Devices)]
    /\ row \in [Workers -> Row \cup {NoRow}]
    /\ failed \in [Workers -> Nat] /\ quiet \in [Workers -> Nat] /\ size \in [Workers -> Nat]
    /\ live \in [Devices -> Generations]
    /\ nextcloud \in [Devices -> Generations \cup {None}]
    /\ listed \in 0..CountLimit /\ refills \in 0..CountLimit
    /\ faults \in 0..MaxFaults /\ restarts \in 0..MaxRestarts

-----------------------------------------------------------------------------
Sat(n) == IF n < CountLimit THEN n ELSE CountLimit

EntryOf(w)  == Head(todo[w])
IdOf(w)     == EntryOf(w).id
DeviceAt(w) == DeviceOf[IdOf(w)]

Remove(d)   == [x \in DOMAIN rows \ {d} |-> rows[x]]

Init ==
    /\ rows = [d \in {} |-> NoRow]
    /\ holder = [n \in Notifs |-> NoOne]
    /\ remembered = {} /\ confirmed = {}
    /\ budget = BreakerCapacity /\ listed = 0 /\ refills = 0
    /\ pc = [w \in Workers |-> "idle"]
    /\ todo = [w \in Workers |-> <<>>]
    /\ row = [w \in Workers |-> NoRow]
    /\ unknown = [w \in Workers |-> <<>>]
    /\ failed = [w \in Workers |-> 0]
    /\ quiet = [w \in Workers |-> 0]
    /\ size = [w \in Workers |-> 0]
    /\ live = [d \in Devices |-> 1]
    /\ nextcloud = [d \in Devices |-> None]
    /\ faults = 0 /\ restarts = 0

-----------------------------------------------------------------------------
(* Registrations.                                                          *)

\* Bug: a registration without a PushKit token keeps the old one.
Bug_RegisterKeepsVoip(d, u, voip) ==
    /\ d \in DOMAIN rows => rows[d].owner = u
    /\ rows' = [x \in DOMAIN rows \cup {d} |->
                   IF x = d
                   THEN [id |-> d, owner |-> u, token |-> live[d],
                         voip |-> IF voip = None /\ d \in DOMAIN rows
                                  THEN rows[d].voip ELSE voip]
                   ELSE rows[x]]
    /\ UNCHANGED <<guard, breaker, locals, outside, bounds>>

\* store.register: insert, or refresh the row if its key is the caller's; a
\* row under another key is left alone (PublicKeyMismatch, answered 403).
Register(d, u, voip) ==
    /\ d \in DOMAIN rows => rows[d].owner = u
    /\ rows' = [x \in DOMAIN rows \cup {d} |->
                   IF x = d
                   THEN [id |-> d, owner |-> u, token |-> live[d], voip |-> voip]
                   ELSE rows[x]]
    /\ UNCHANGED <<guard, breaker, locals, outside, bounds>>

\* unregister_device up to the signature check against the row it read.
Unregister(w, d, u) ==
    /\ pc[w] = "idle"
    /\ d \in DOMAIN rows /\ rows[d].owner = u
    /\ pc' = [pc EXCEPT ![w] = "unregistering"]
    /\ row' = [row EXCEPT ![w] = rows[d]]
    /\ UNCHANGED <<store, guard, breaker, todo, unknown, failed, quiet, size, outside, bounds>>

\* All locals of a request go out of scope.
Leave(w) ==
    /\ pc' = [pc EXCEPT ![w] = "idle"]
    /\ todo' = [todo EXCEPT ![w] = <<>>]
    /\ row' = [row EXCEPT ![w] = NoRow]
    /\ unknown' = [unknown EXCEPT ![w] = <<>>]
    /\ failed' = [failed EXCEPT ![w] = 0]
    /\ quiet' = [quiet EXCEPT ![w] = 0]
    /\ size' = [size EXCEPT ![w] = 0]

\* ... and its store.delete.
UnregisterDelete(w) ==
    /\ pc[w] = "unregistering"
    /\ rows' = Remove(row[w].id)
    /\ Leave(w)
    /\ UNCHANGED <<guard, breaker, outside, bounds>>

\* A database error in that deletion: rolled back, and nothing is answered.
UnregisterFails(w) ==
    /\ pc[w] = "unregistering"
    /\ faults < MaxFaults /\ faults' = faults + 1
    /\ Leave(w)
    /\ UNCHANGED <<store, guard, breaker, outside, restarts>>

-----------------------------------------------------------------------------
(* send_notifications: the request, and an entry up to the replay guard.   *)

\* Bug: the surplus of a batch is dropped silently.
Bug_ReceiveTruncates(w, batch) ==
    /\ pc[w] = "idle"
    /\ pc' = [pc EXCEPT ![w] = "entry"]
    /\ size' = [size EXCEPT ![w] = Len(batch)]
    /\ todo' = [todo EXCEPT ![w] =
                     IF Len(batch) > BatchCap THEN SubSeq(batch, 1, BatchCap) ELSE batch]
    /\ UNCHANGED <<store, guard, breaker, row, unknown, failed, quiet, outside, bounds>>

\* The batch cap: the surplus counts as failed.
Receive(w, batch) ==
    /\ pc[w] = "idle"
    /\ pc' = [pc EXCEPT ![w] = "entry"]
    /\ size' = [size EXCEPT ![w] = Len(batch)]
    /\ failed' = [failed EXCEPT ![w] =
                     IF Len(batch) > BatchCap THEN Len(batch) - BatchCap ELSE 0]
    /\ todo' = [todo EXCEPT ![w] =
                     IF Len(batch) > BatchCap THEN SubSeq(batch, 1, BatchCap) ELSE batch]
    /\ UNCHANGED <<store, guard, breaker, row, unknown, quiet, outside, bounds>>

\* Nextcloud pushes for devices it has on record, with the hash it has.
Push(w) ==
    \E batch \in Batches :
        /\ \A i \in 1..Len(batch) : nextcloud[DeviceOf[batch[i].id]] # None
        /\ Receive(w, [i \in 1..Len(batch) |->
                         [id |-> batch[i].id, flaw |-> batch[i].flaw,
                          hash |-> nextcloud[DeviceOf[batch[i].id]]]])

\* The current entry is done: `continue`.
NextEntry(w) ==
    /\ pc' = [pc EXCEPT ![w] = "entry"]
    /\ todo' = [todo EXCEPT ![w] = Tail(@)]
    /\ row' = [row EXCEPT ![w] = NoRow]

CountFailed(w) == failed' = [failed EXCEPT ![w] = @ + 1]
CountQuiet(w)  == quiet' = [quiet EXCEPT ![w] = @ + 1]

AtEntry(w, flaws) ==
    /\ pc[w] = "entry"
    /\ todo[w] # <<>>
    /\ EntryOf(w).flaw \in flaws

\* json.loads or a missing field.
Unparsable(w) ==
    /\ AtEntry(w, {"unparsable"})
    /\ NextEntry(w)
    /\ CountFailed(w)
    /\ UNCHANGED <<store, guard, breaker, unknown, quiet, size, outside, bounds>>

\* store.get finds nothing; nothing else of the entry is looked at.
LookupMiss(w) ==
    /\ AtEntry(w, Flaws \ {"unparsable"})
    /\ DeviceAt(w) \notin DOMAIN rows
    /\ pc' = [pc EXCEPT ![w] = "missed"]
    /\ UNCHANGED <<store, guard, breaker, todo, row, unknown, failed, quiet, size,
                   outside, bounds>>

\* The hash, the subject's length or the signature is wrong.
Reject(w) ==
    /\ AtEntry(w, Flaws \ {"unparsable"})
    /\ DeviceAt(w) \in DOMAIN rows
    /\ \/ rows[DeviceAt(w)].token # EntryOf(w).hash
       \/ EntryOf(w).flaw = "invalid"
    /\ NextEntry(w)
    /\ CountFailed(w)
    /\ UNCHANGED <<store, guard, breaker, unknown, quiet, size, outside, bounds>>

LookupHit(w) ==
    /\ AtEntry(w, {"none"})
    /\ DeviceAt(w) \in DOMAIN rows
    /\ rows[DeviceAt(w)].token = EntryOf(w).hash
    /\ row' = [row EXCEPT ![w] = rows[DeviceAt(w)]]
    /\ pc' = [pc EXCEPT ![w] = "checked"]
    /\ UNCHANGED <<store, guard, breaker, todo, unknown, failed, quiet, size,
                   outside, bounds>>

\* An exception before the guard is asked: a subject that is no string ...
EntryRaises(w) ==
    /\ AtEntry(w, {"raises"})
    /\ DeviceAt(w) \in DOMAIN rows
    /\ rows[DeviceAt(w)].token = EntryOf(w).hash
    /\ Leave(w)
    /\ UNCHANGED <<store, guard, breaker, outside, bounds>>

\* ... or a database error in store.get.  The thread answers nothing.
ReadFails(w) ==
    /\ AtEntry(w, Flaws \ {"unparsable"})
    /\ faults < MaxFaults /\ faults' = faults + 1
    /\ Leave(w)
    /\ UNCHANGED <<store, guard, breaker, outside, restarts>>

-----------------------------------------------------------------------------
(* The deletion breaker.                                                   *)

\* Bug: the budget is not tested.
Bug_GrantAlways ==
    /\ budget' = budget - 1
    /\ UNCHANGED refills

Grant ==
    /\ budget > 0
    /\ budget' = budget - 1
    /\ UNCHANGED refills

\* Bug: a lookup miss does not ask the breaker.
Bug_MissUnlimited(w) ==
    /\ pc[w] = "missed"
    /\ listed' = Sat(listed + 1)
    /\ unknown' = [unknown EXCEPT ![w] = Append(@, DeviceAt(w))]
    /\ NextEntry(w)
    /\ UNCHANGED <<store, guard, budget, refills, failed, quiet, size, outside, bounds>>

\* Bug: a lookup miss counts as failed.
Bug_MissFails(w) ==
    /\ pc[w] = "missed"
    /\ Grant
    /\ CountFailed(w)
    /\ NextEntry(w)
    /\ UNCHANGED <<store, guard, listed, unknown, quiet, size, outside, bounds>>

MissReported(w) ==
    /\ pc[w] = "missed"
    /\ Grant
    /\ listed' = Sat(listed + 1)
    /\ unknown' = [unknown EXCEPT ![w] = Append(@, DeviceAt(w))]
    /\ NextEntry(w)
    /\ UNCHANGED <<store, guard, failed, quiet, size, outside, bounds>>

\* Bug: the thread waits for the breaker to recover.
Bug_MissWaits(w) ==
    /\ pc[w] = "missed"
    /\ budget = 0
    /\ UNCHANGED vars

MissRefused(w) ==
    /\ pc[w] = "missed"
    /\ budget = 0
    /\ CountFailed(w)
    /\ NextEntry(w)
    /\ UNCHANGED <<store, guard, breaker, unknown, quiet, size, outside, bounds>>

-----------------------------------------------------------------------------
(* The replay guard and the provider.                                      *)

Held == {n \in Notifs : holder[n] # NoOne}

\* replay_guard.reserve
Suppressed(w) ==
    /\ pc[w] = "checked"
    /\ IdOf(w) \in remembered
    /\ CountQuiet(w)
    /\ NextEntry(w)
    /\ UNCHANGED <<store, guard, breaker, unknown, failed, size, outside, bounds>>

Refused(w) ==
    /\ pc[w] = "checked"
    /\ IdOf(w) \notin remembered
    /\ IdOf(w) \in Held \/ Cardinality(Held \cup remembered) >= GuardCapacity
    /\ CountFailed(w)
    /\ NextEntry(w)
    /\ UNCHANGED <<store, guard, breaker, unknown, quiet, size, outside, bounds>>

Leasing(w) ==
    /\ pc[w] = "checked"
    /\ IdOf(w) \notin Held \cup remembered
    /\ Cardinality(Held \cup remembered) < GuardCapacity
    /\ holder' = [holder EXCEPT ![IdOf(w)] = w]
    /\ pc' = [pc EXCEPT ![w] = "calling"]
    /\ UNCHANGED <<store, remembered, confirmed, breaker, todo, row, unknown, failed,
                   quiet, size, outside, bounds>>

\* A call goes to PushKit if the device has a PushKit token, else it is
\* downgraded to an ordinary alert.
IsVoip(w) == IdOf(w) \in Calls /\ row[w].voip # None
Target(w) == IF IsVoip(w) THEN row[w].voip ELSE row[w].token

\* The provider's answer has arrived, or the call timed out or raised.
Answered(w, outcome) ==
    /\ pc[w] = "calling"
    /\ pc' = [pc EXCEPT ![w] = outcome]
    /\ UNCHANGED <<store, guard, breaker, todo, row, unknown, failed, quiet, size,
                   outside, restarts>>

ProviderAccepts(w) ==
    /\ pc[w] = "calling"
    /\ pc' = [pc EXCEPT ![w] = "accepted"]
    /\ confirmed' = confirmed \cup {IdOf(w)}
    /\ UNCHANGED <<store, holder, remembered, breaker, todo, row, unknown, failed, quiet,
                   size, outside, bounds>>

\* Rejected, throttled, timed out, or accepted with the answer lost.
ProviderFails(w) == Answered(w, "notSent") /\ UNCHANGED faults

ProviderSaysDead(w) ==
    /\ pc[w] = "calling"
    /\ Target(w) # live[DeviceAt(w)] \/ LegacyMismatch
    /\ Answered(w, IF IsVoip(w) THEN "voipDead" ELSE "dead")
    /\ UNCHANGED faults

\* Any other exception of the dispatch.
ProviderRaises(w) ==
    /\ faults < MaxFaults /\ faults' = faults + 1
    /\ Answered(w, "raising")

-----------------------------------------------------------------------------
(* Settling an entry.                                                      *)

Unlock(w) == holder' = [holder EXCEPT ![IdOf(w)] = NoOne]

\* Bug: the lease is released instead of committed.
Bug_CommitForgets(w) ==
    /\ pc[w] = "accepted"
    /\ Unlock(w)
    /\ CountQuiet(w)
    /\ NextEntry(w)
    /\ UNCHANGED <<store, remembered, confirmed, breaker, unknown, failed, size,
                   outside, bounds>>

CommitLease(w) ==
    /\ pc[w] = "accepted"
    /\ Unlock(w)
    /\ remembered' = remembered \cup {IdOf(w)}
    /\ CountQuiet(w)
    /\ NextEntry(w)
    /\ UNCHANGED <<store, confirmed, breaker, unknown, failed, size, outside, bounds>>

ReleaseFailed(w) ==
    /\ pc[w] = "notSent"
    /\ Unlock(w)
    /\ CountFailed(w)
    /\ NextEntry(w)
    /\ UNCHANGED <<store, remembered, confirmed, breaker, unknown, quiet, size,
                   outside, bounds>>

\* _send_via_apns: only the PushKit token is gone; the entry has failed.
ClearVoipToken(w) ==
    /\ pc[w] = "voipDead"
    /\ rows' = [x \in DOMAIN rows |->
                   IF x = DeviceAt(w) THEN [rows[x] EXCEPT !.voip = None] ELSE rows[x]]
    /\ pc' = [pc EXCEPT ![w] = "notSent"]
    /\ UNCHANGED <<guard, breaker, todo, row, unknown, failed, quiet, size, outside, bounds>>

DeadGranted(w) ==
    /\ pc[w] = "dead"
    /\ Grant
    /\ pc' = [pc EXCEPT ![w] = "deleting"]
    /\ UNCHANGED <<store, guard, listed, todo, row, unknown, failed, quiet, size,
                   outside, bounds>>

\* The breaker refuses: the entry counts as failed and the lease is released.
DeadRefused(w) ==
    /\ pc[w] = "dead"
    /\ budget = 0
    /\ pc' = [pc EXCEPT ![w] = "notSent"]
    /\ UNCHANGED <<store, guard, breaker, todo, row, unknown, failed, quiet, size,
                   outside, bounds>>

DeleteDevice(w) ==
    /\ pc[w] = "deleting"
    /\ rows' = Remove(DeviceAt(w))
    /\ unknown' = [unknown EXCEPT ![w] = Append(@, DeviceAt(w))]
    /\ listed' = Sat(listed + 1)
    /\ pc' = [pc EXCEPT ![w] = "forgotten"]
    /\ UNCHANGED <<guard, budget, refills, todo, row, failed, quiet, size, outside, bounds>>

\* The `finally` after a deletion.
ReleaseForgotten(w) ==
    /\ pc[w] = "forgotten"
    /\ Unlock(w)
    /\ NextEntry(w)
    /\ UNCHANGED <<store, remembered, confirmed, breaker, unknown, failed, quiet, size,
                   outside, bounds>>

\* A database error in clear_voip_token or delete: rolled back, then raised.
WriteFails(w) ==
    /\ pc[w] \in {"voipDead", "deleting"}
    /\ faults < MaxFaults /\ faults' = faults + 1
    /\ pc' = [pc EXCEPT ![w] = "raising"]
    /\ UNCHANGED <<store, guard, breaker, todo, row, unknown, failed, quiet, size,
                   outside, restarts>>

\* Bug: the lease is not released on the way out.
Bug_RaiseKeepsLease(w) ==
    /\ pc[w] = "raising"
    /\ Leave(w)
    /\ UNCHANGED <<store, guard, breaker, outside, bounds>>

\* The lease is released on the way out; the thread answers nothing.
ReleaseAndRaise(w) ==
    /\ pc[w] = "raising"
    /\ Unlock(w)
    /\ Leave(w)
    /\ UNCHANGED <<store, remembered, confirmed, breaker, outside, bounds>>

\* The response arrives, and Nextcloud drops every device it lists ...
Respond(w) ==
    /\ pc[w] = "entry"
    /\ todo[w] = <<>>
    /\ nextcloud' = [d \in Devices |->
                        IF \E i \in 1..Len(unknown[w]) : unknown[w][i] = d
                        THEN None ELSE nextcloud[d]]
    /\ Leave(w)
    /\ UNCHANGED <<store, guard, breaker, live, bounds>>

\* ... or it is lost with the connection.
ResponseLost(w) ==
    /\ pc[w] = "entry"
    /\ todo[w] = <<>>
    /\ faults < MaxFaults /\ faults' = faults + 1
    /\ Leave(w)
    /\ UNCHANGED <<store, guard, breaker, outside, restarts>>

-----------------------------------------------------------------------------
(* The surroundings.                                                       *)

\* The guard's TTL has run out for a pair.
Expire(n) ==
    /\ n \in remembered
    /\ remembered' = remembered \ {n}
    /\ confirmed' = confirmed \ {n}
    /\ UNCHANGED <<store, holder, breaker, locals, outside, bounds>>

Refill ==
    /\ budget < BreakerCapacity
    /\ budget' = budget + 1
    /\ refills' = Sat(refills + 1)
    /\ UNCHANGED <<store, guard, listed, locals, outside, bounds>>

\* A reinstall or a token rotation: the device's older tokens are dead.
Rotate(d) ==
    /\ live[d] < MaxGeneration
    /\ live' = [live EXCEPT ![d] = @ + 1]
    /\ UNCHANGED <<store, guard, breaker, locals, nextcloud, bounds>>

\* The device subscribes at its Nextcloud server, with its current hash.
Subscribe(d) ==
    /\ nextcloud[d] # live[d]
    /\ nextcloud' = [nextcloud EXCEPT ![d] = live[d]]
    /\ UNCHANGED <<store, guard, breaker, locals, live, bounds>>

\* The process is killed and started again: only the database survives.
Restart ==
    /\ restarts < MaxRestarts
    /\ restarts' = restarts + 1
    /\ holder' = [n \in Notifs |-> NoOne]
    /\ remembered' = {} /\ confirmed' = {}
    /\ budget' = BreakerCapacity /\ listed' = 0 /\ refills' = 0
    /\ pc' = [w \in Workers |-> "idle"]
    /\ todo' = [w \in Workers |-> <<>>]
    /\ row' = [w \in Workers |-> NoRow]
    /\ unknown' = [w \in Workers |-> <<>>]
    /\ failed' = [w \in Workers |-> 0]
    /\ quiet' = [w \in Workers |-> 0]
    /\ size' = [w \in Workers |-> 0]
    /\ UNCHANGED <<store, outside, faults>>

\* What a thread does by itself once it has a request.
Step(w) ==
    \/ UnregisterDelete(w) \/ UnregisterFails(w)
    \/ Unparsable(w) \/ LookupMiss(w) \/ Reject(w) \/ LookupHit(w)
    \/ EntryRaises(w) \/ ReadFails(w)
    \/ MissReported(w) \/ MissRefused(w)
    \/ Suppressed(w) \/ Refused(w) \/ Leasing(w)
    \/ ProviderAccepts(w) \/ ProviderFails(w) \/ ProviderSaysDead(w) \/ ProviderRaises(w)
    \/ CommitLease(w) \/ ReleaseFailed(w) \/ ClearVoipToken(w)
    \/ DeadGranted(w) \/ DeadRefused(w) \/ DeleteDevice(w) \/ ReleaseForgotten(w)
    \/ WriteFails(w) \/ ReleaseAndRaise(w)
    \/ Respond(w) \/ ResponseLost(w)

Environment ==
    \/ \E d \in Devices :
          \/ \E u \in Users : \E voip \in {None, live[d]} : Register(d, u, voip)
          \/ Rotate(d)
          \/ Subscribe(d)
    \/ \E n \in Notifs : Expire(n)
    \/ Refill
    \/ Restart

Next ==
    \/ Environment
    \/ \E w \in Workers :
          \/ Push(w)
          \/ \E d \in Devices : \E u \in Users : Unregister(w, d, u)
          \/ Step(w)

Spec == Init /\ [][Next]_vars

\* No step of a thread waits for another thread: the locks are held for one
\* step at a time, and both provider clients and the socket have timeouts.
Fairness == \A w \in Workers : WF_vars(Step(w))

\* Nextcloud pushes a well-formed entry for a device.
PushAbout(w, d) ==
    \E e \in Entry :
        /\ DeviceOf[e.id] = d /\ e.flaw = "none" /\ e.hash = nextcloud[d]
        /\ Receive(w, <<e>>)

\* Time refills the breaker, and Nextcloud goes on pushing to the devices that
\* it has on record.
HealFairness ==
    /\ Fairness
    /\ WF_vars(Refill)
    /\ \A d \in Devices : SF_vars(\E w \in Workers : PushAbout(w, d))

FairSpec == Spec /\ Fairness
HealSpec == Spec /\ HealFairness

-----------------------------------------------------------------------------
(* A pair is being delivered by one thread at a time: a thread between the *)
(* guard's lease and its release or commit is the holder, and a held pair  *)
(* has such a thread.  A lease that outlives its thread would make every   *)
(* later delivery of the pair fail and take a slot of the guard for ever.  *)
LeasesMatchThreads ==
    /\ \A w \in Workers : pc[w] \in Leased => holder[IdOf(w)] = w
    /\ \A n \in Held : pc[holder[n]] \in Leased /\ IdOf(holder[n]) = n

(* Once the gateway knows that a provider accepted a pair, the pair is not *)
(* handed to a provider again until its window has passed or the process   *)
(* has restarted: between acceptance and commit the lease still protects   *)
(* it (README.md:351-352, tests/test_server.py:428).                       *)
NoRepeatWhileRemembered ==
    \A n \in confirmed : \A w \in Workers : ~(pc[w] = "calling" /\ IdOf(w) = n)

(* Every entry of a request is accounted for exactly once: reported as     *)
(* unknown, counted as failed, delivered or dropped as a repeat.           *)
EveryEntryCounted ==
    \A w \in Workers :
        size[w] = Len(unknown[w]) + failed[w] + quiet[w] + Len(todo[w])
                     - (IF pc[w] = "forgotten" THEN 1 ELSE 0)

(* The destructive answers of all threads together stay within what the    *)
(* breaker granted: its capacity and its refills since the start.          *)
BreakerBoundsDamage ==
    listed < CountLimit /\ refills < CountLimit => listed <= BreakerCapacity + refills

(* A push goes to a token of the registration that Nextcloud addressed: a  *)
(* call never rings through a PushKit token of another registration, and an*)
(* alert never goes to a token whose hash Nextcloud did not name.          *)
TargetIsAddressed ==
    \A w \in Workers : pc[w] = "calling" => Target(w) = EntryOf(w).hash

(* A device that Nextcloud has on record and the gateway has not is taken  *)
(* off that record, even if the response that reported it was lost, the    *)
(* request was aborted after the deletion, the breaker had run out, or the *)
(* process was restarted: later lookup misses report it again.             *)
LostReportsHeal ==
    \A d \in Devices :
        (d \notin DOMAIN rows /\ nextcloud[d] # None)
            ~> (d \in DOMAIN rows \/ nextcloud[d] = None)

(* A thread that has a request gets rid of it.                             *)
RequestsEnd == \A w \in Workers : (pc[w] # "idle") ~> (pc[w] = "idle")

-----------------------------------------------------------------------------
(* What the documents say and the code does not do: each of these needs the*)
(* database to be read again before it is written, and it is not.          *)

(* What the gateway forgets on a provider's word is dead: a device it      *)
(* deletes is not registered under a token that works (README.md:301-304:  *)
(* it is listed as unknown only when it was never seen or the provider says*)
(* that its token is permanently gone), and a PushKit token it clears is   *)
(* not one that a registration has just brought (db.py:175-179).           *)
OnlyDeadTokensForgotten ==
    [][\A w \in Workers :
          LET d == DeviceAt(w)
          IN  /\ pc[w] = "deleting" /\ pc'[w] = "forgotten" /\ d \in DOMAIN rows
                     => rows[d].token # live[d]
              /\ pc[w] = "voipDead" /\ pc'[w] = "notSent" /\ d \in DOMAIN rows
                     => rows[d].voip = None \/ rows[d].voip # live[d]]_vars

(* An unregistration removes a row only if its signature matches the key   *)
(* stored in it (README.md:217-218).                                       *)
UnregisterMatchesStoredKey ==
    [][\A w \in Workers :
          LET d == row[w].id
          IN  pc[w] = "unregistering" /\ pc'[w] = "idle" /\ d \in DOMAIN rows
                  /\ d \notin DOMAIN rows'
                  => rows[d].owner = row[w].owner]_vars
=============================================================================
