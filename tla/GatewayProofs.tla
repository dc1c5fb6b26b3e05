---------------------------- MODULE GatewayProofs ----------------------------
(***************************************************************************)
(* Proofs about Gateway for every set of threads, devices, keys, pairs and *)
(* batches, with token rotation, exceptions at any step and restarts.      *)
(***************************************************************************)
EXTENDS Gateway, FiniteSetTheorems, SequenceTheorems, TLAPS

-----------------------------------------------------------------------------
(* Types.  A thread that looks at its current entry has one (Busy); without*)
(* that, IdOf and DeviceAt mean nothing.                                   *)

Busy == \A w \in Workers : pc[w] \in Leased \cup {"missed", "checked"} => todo[w] # <<>>

Typed == TypeOK /\ Busy

LEMMA Numbers ==
    /\ BatchCap \in Nat /\ GuardCapacity \in Nat /\ BreakerCapacity \in Nat
    /\ BatchCap > 0 /\ BreakerCapacity > 0
    /\ MaxGeneration \in Nat /\ MaxGeneration > 0
    /\ MaxFaults \in Nat /\ MaxRestarts \in Nat /\ CountLimit \in Nat
    /\ 1 \in Generations /\ Generations \subseteq Nat /\ None \notin Generations
BY CapAssumption, BoundAssumption DEF Generations, None

LEMMA EntryFacts ==
    ASSUME Typed, NEW w \in Workers, todo[w] # <<>>
    PROVE  /\ EntryOf(w) \in Entry /\ IdOf(w) \in Notifs /\ DeviceAt(w) \in Devices
           /\ Tail(todo[w]) \in Seq(Entry) /\ Len(Tail(todo[w])) = Len(todo[w]) - 1
<1>1. todo[w] \in Seq(Entry)
  BY DEF Typed, TypeOK
<1>2. EntryOf(w) \in Entry /\ Tail(todo[w]) \in Seq(Entry)
      /\ Len(Tail(todo[w])) = Len(todo[w]) - 1
  BY <1>1, HeadTailProperties DEF EntryOf
<1> QED BY <1>2, DeviceOfAssumption DEF IdOf, DeviceAt, Entry

LEMMA Counters ==
    ASSUME Typed
    PROVE  /\ listed \in 0..CountLimit /\ refills \in 0..CountLimit
           /\ faults \in 0..MaxFaults /\ restarts \in 0..MaxRestarts
           /\ budget \in 0..BreakerCapacity
BY DEF Typed, TypeOK

LEMMA Saturation ==
    ASSUME NEW n \in 0..CountLimit
    PROVE  Sat(n + 1) \in 0..CountLimit
BY Numbers DEF Sat

LEMMA InitTyped == Init => Typed
<1> SUFFICES ASSUME Init PROVE Typed
  OBVIOUS
<1>1. <<>> \in Seq(Entry) /\ <<>> \in Seq(Devices)
  OBVIOUS
<1>2. TypeOK
  BY <1>1, Numbers DEF Init, TypeOK, Leased, Unleased
<1> QED BY <1>2 DEF Init, Typed, Busy, Leased

LEMMA EnvironmentTyped == Typed /\ Environment => Typed'
<1> SUFFICES ASSUME Typed, Environment PROVE Typed'
  OBVIOUS
<1>1. ASSUME NEW d \in Devices, NEW u \in Users, NEW voip \in {None, live[d]},
             Register(d, u, voip)
      PROVE  Typed'
  <2>1. [id |-> d, owner |-> u, token |-> live[d], voip |-> voip] \in Row
    BY DEF Typed, TypeOK, Row
  <2>2. DOMAIN rows' \subseteq Devices /\ rows' \in [DOMAIN rows' -> Row]
    BY <1>1, <2>1 DEF Register, Typed, TypeOK
  <2>3. UNCHANGED <<guard, breaker, locals, outside, bounds>>
    BY <1>1 DEF Register
  <2> QED BY <2>2, <2>3 DEF Typed, TypeOK, Busy, guard, breaker, locals, outside, bounds
<1>2. ASSUME NEW d \in Devices, Rotate(d) \/ Subscribe(d)
      PROVE  Typed'
  <2>1. live' \in [Devices -> Generations] /\ nextcloud' \in [Devices -> Generations \cup {None}]
    <3>1. CASE Rotate(d)
      <4>1. live[d] + 1 \in Generations
        <5>1. live[d] \in Generations /\ live[d] < MaxGeneration
          BY <3>1 DEF Rotate, Typed, TypeOK
        <5> QED BY <5>1, Numbers DEF Generations
      <4> QED BY <3>1, <4>1 DEF Rotate, Typed, TypeOK
    <3>2. CASE Subscribe(d)
      BY <3>2 DEF Subscribe, Typed, TypeOK
    <3> QED BY <1>2, <3>1, <3>2
  <2>2. UNCHANGED <<store, guard, breaker, locals, bounds>>
    BY <1>2 DEF Rotate, Subscribe
  <2> QED BY <2>1, <2>2 DEF Typed, TypeOK, Busy, store, guard, breaker, locals, bounds
<1>3. ASSUME NEW n \in Notifs, Expire(n)
      PROVE  Typed'
  BY <1>3 DEF Expire, Typed, TypeOK, Busy, store, breaker, locals, outside, bounds
<1>4. CASE Refill
  <2>1. /\ budget' \in 0..BreakerCapacity /\ refills' \in 0..CountLimit
        /\ UNCHANGED <<store, guard, listed, locals, outside, bounds>>
    <3>1. budget \in 0..BreakerCapacity /\ Sat(refills + 1) \in 0..CountLimit
      BY Counters, Saturation
    <3> QED BY <1>4, <3>1, Numbers DEF Refill
  <2> QED BY <2>1 DEF Typed, TypeOK, Busy, store, guard, locals, outside, bounds
<1>5. CASE Restart
  <2>1. <<>> \in Seq(Entry) /\ <<>> \in Seq(Devices)
    OBVIOUS
  <2>2. /\ budget' \in 0..BreakerCapacity /\ listed' \in 0..CountLimit
        /\ refills' \in 0..CountLimit /\ faults' \in 0..MaxFaults
        /\ restarts' \in 0..MaxRestarts
    BY <1>5, Numbers, Counters DEF Restart
  <2>3. /\ pc' \in [Workers -> Leased \cup Unleased]
        /\ todo' \in [Workers -> Seq(Entry)] /\ unknown' \in [Workers -> Seq(Devices)]
        /\ row' \in [Workers -> Row \cup {NoRow}]
        /\ failed' \in [Workers -> Nat] /\ quiet' \in [Workers -> Nat]
        /\ size' \in [Workers -> Nat]
    BY <1>5, <2>1 DEF Restart, Unleased
  <2>4. \A w \in Workers : pc'[w] \notin Leased \cup {"missed", "checked"}
    BY <1>5 DEF Restart, Leased
  <2>5. /\ holder' \in [Notifs -> Workers \cup {NoOne}] /\ remembered' = {} /\ confirmed' = {}
        /\ UNCHANGED <<store, outside>>
    BY <1>5 DEF Restart
  <2> QED BY <2>2, <2>3, <2>4, <2>5 DEF Typed, TypeOK, Busy, store, outside
<1> QED BY <1>1, <1>2, <1>3, <1>4, <1>5 DEF Environment

-----------------------------------------------------------------------------
(* What a step of a thread does to its own locals is one of three things:  *)
(* it drops them, it finishes the current entry, or it goes on with it.    *)

Located == Leased \cup {"missed", "checked"}

\* The current entry is counted once: as failed, quiet or unknown.  A deleted
\* device is in `unknown` before its entry is finished ("forgotten").
Finishes(w) ==
    /\ NextEntry(w) /\ todo[w] # <<>> /\ UNCHANGED size
    /\ \/ /\ pc[w] \notin {"forgotten", "missed", "idle"}
          /\ UNCHANGED unknown
          /\ (CountFailed(w) /\ UNCHANGED quiet) \/ (CountQuiet(w) /\ UNCHANGED failed)
       \/ pc[w] = "missed" /\ CountFailed(w) /\ UNCHANGED <<unknown, quiet>>
       \/ /\ pc[w] = "missed"
          /\ unknown' = [unknown EXCEPT ![w] = Append(@, DeviceAt(w))]
          /\ UNCHANGED <<failed, quiet>>
       \/ pc[w] = "forgotten" /\ UNCHANGED <<unknown, failed, quiet>>

GoesOn(w) ==
    /\ \E place \in Located : pc' = [pc EXCEPT ![w] = place]
    /\ todo[w] # <<>> /\ pc[w] \notin {"idle", "forgotten"}
    /\ UNCHANGED <<todo, failed, quiet, size>>
    /\ \/ pc'[w] = "forgotten" /\ unknown' = [unknown EXCEPT ![w] = Append(@, DeviceAt(w))]
       \/ pc'[w] # "forgotten" /\ UNCHANGED unknown
    /\ \/ (pc[w] \in Leased \cup {"checked"} \/ pc'[w] = "missed") /\ UNCHANGED row
       \/ /\ DeviceAt(w) \in DOMAIN rows /\ rows[DeviceAt(w)].token = EntryOf(w).hash
          /\ row' = [row EXCEPT ![w] = rows[DeviceAt(w)]]

LEMMA StepKinds ==
    ASSUME Typed, NEW w \in Workers, Step(w)
    PROVE  Leave(w) \/ Finishes(w) \/ GoesOn(w)
<1> USE DEF Located, Leased
<1>1. CASE \/ UnregisterDelete(w) \/ UnregisterFails(w) \/ EntryRaises(w) \/ ReadFails(w)
           \/ ReleaseAndRaise(w) \/ Respond(w) \/ ResponseLost(w)
  BY <1>1 DEF UnregisterDelete, UnregisterFails, EntryRaises, ReadFails, ReleaseAndRaise,
              Respond, ResponseLost
<1>2. CASE Unparsable(w)
  BY <1>2 DEF Unparsable, AtEntry, Finishes
<1>3. CASE Reject(w)
  BY <1>3 DEF Reject, AtEntry, Finishes
<1>4. CASE MissReported(w)
  BY <1>4 DEF MissReported, Finishes, Typed, Busy
<1>5. CASE MissRefused(w)
  BY <1>5 DEF MissRefused, Finishes, Typed, Busy
<1>6. CASE Suppressed(w)
  BY <1>6 DEF Suppressed, Finishes, Typed, Busy
<1>7. CASE Refused(w)
  BY <1>7 DEF Refused, Finishes, Typed, Busy
<1>8. CASE CommitLease(w)
  BY <1>8 DEF CommitLease, Finishes, Typed, Busy
<1>9. CASE ReleaseFailed(w)
  BY <1>9 DEF ReleaseFailed, Finishes, Typed, Busy
<1>10. CASE ReleaseForgotten(w)
  BY <1>10 DEF ReleaseForgotten, Finishes, Typed, Busy
<1>11. CASE LookupMiss(w)
  BY <1>11 DEF LookupMiss, AtEntry, GoesOn, Typed, TypeOK
<1>12. CASE LookupHit(w)
  BY <1>12 DEF LookupHit, AtEntry, GoesOn, Typed, TypeOK
<1>13. CASE Leasing(w)
  BY <1>13 DEF Leasing, GoesOn, Typed, Busy, TypeOK
<1>14. CASE ProviderAccepts(w)
  BY <1>14 DEF ProviderAccepts, GoesOn, Typed, Busy, TypeOK
<1>15. CASE ProviderFails(w) \/ ProviderSaysDead(w) \/ ProviderRaises(w)
  BY <1>15 DEF ProviderFails, ProviderSaysDead, ProviderRaises, Answered, GoesOn,
               Typed, Busy, TypeOK
<1>16. CASE ClearVoipToken(w) \/ DeadGranted(w) \/ DeadRefused(w) \/ WriteFails(w)
  BY <1>16 DEF ClearVoipToken, DeadGranted, DeadRefused, WriteFails, GoesOn,
               Typed, Busy, TypeOK
<1>17. CASE DeleteDevice(w)
  BY <1>17 DEF DeleteDevice, GoesOn, Typed, Busy, TypeOK
<1> QED BY <1>1, <1>2, <1>3, <1>4, <1>5, <1>6, <1>7, <1>8, <1>9, <1>10, <1>11, <1>12,
           <1>13, <1>14, <1>15, <1>16, <1>17 DEF Step

\* The other threads' locals.
Stands(v) ==
    /\ pc'[v] = pc[v] /\ todo'[v] = todo[v] /\ row'[v] = row[v] /\ unknown'[v] = unknown[v]
    /\ failed'[v] = failed[v] /\ quiet'[v] = quiet[v] /\ size'[v] = size[v]

TypedLocals ==
    /\ pc \in [Workers -> Leased \cup Unleased]
    /\ todo \in [Workers -> Seq(Entry)] /\ unknown \in [Workers -> Seq(Devices)]
    /\ row \in [Workers -> Row \cup {NoRow}]
    /\ failed \in [Workers -> Nat] /\ quiet \in [Workers -> Nat] /\ size \in [Workers -> Nat]

LEMMA LeaveTyped ==
    ASSUME Typed, NEW w \in Workers, Leave(w)
    PROVE  TypedLocals' /\ Busy' /\ \A v \in Workers \ {w} : Stands(v)
<1>1. <<>> \in Seq(Entry) /\ <<>> \in Seq(Devices)
  OBVIOUS
<1>2. TypedLocals'
  BY <1>1 DEF Leave, Typed, TypeOK, TypedLocals, Unleased
<1>3. \A v \in Workers \ {w} : Stands(v)
  BY DEF Leave, Typed, TypeOK, Stands
<1>4. pc'[w] = "idle"
  BY DEF Leave, Typed, TypeOK
<1> QED BY <1>2, <1>3, <1>4 DEF Typed, Busy, Stands, Leased

LEMMA FinishesTyped ==
    ASSUME Typed, NEW w \in Workers, Finishes(w)
    PROVE  TypedLocals' /\ Busy' /\ \A v \in Workers \ {w} : Stands(v)
<1>1. Tail(todo[w]) \in Seq(Entry) /\ DeviceAt(w) \in Devices
  BY EntryFacts DEF Finishes
<1>2. Append(unknown[w], DeviceAt(w)) \in Seq(Devices)
  BY <1>1, AppendProperties DEF Typed, TypeOK
<1>3. TypedLocals'
  <2>1. /\ pc' \in [Workers -> Leased \cup Unleased] /\ todo' \in [Workers -> Seq(Entry)]
        /\ row' \in [Workers -> Row \cup {NoRow}] /\ size' \in [Workers -> Nat]
    BY <1>1 DEF Finishes, NextEntry, Typed, TypeOK, Unleased
  <2>2. unknown' \in [Workers -> Seq(Devices)]
    BY <1>2 DEF Finishes, Typed, TypeOK
  <2>3. failed[w] + 1 \in Nat /\ quiet[w] + 1 \in Nat
    BY DEF Typed, TypeOK
  <2>4. failed' \in [Workers -> Nat] /\ quiet' \in [Workers -> Nat]
    <3>1. \/ failed' = [failed EXCEPT ![w] = failed[w] + 1] \/ failed' = failed
      BY DEF Finishes, CountFailed
    <3>2. \/ quiet' = [quiet EXCEPT ![w] = quiet[w] + 1] \/ quiet' = quiet
      BY DEF Finishes, CountQuiet
    <3> QED BY <2>3, <3>1, <3>2 DEF Typed, TypeOK
  <2> QED BY <2>1, <2>2, <2>4 DEF TypedLocals
<1>4. \A v \in Workers \ {w} : Stands(v)
  BY DEF Finishes, NextEntry, CountFailed, CountQuiet, Typed, TypeOK, Stands
<1>5. pc'[w] = "entry"
  BY DEF Finishes, NextEntry, Typed, TypeOK
<1> QED BY <1>3, <1>4, <1>5 DEF Typed, Busy, Stands, Leased

LEMMA GoesOnTyped ==
    ASSUME Typed, NEW w \in Workers, GoesOn(w)
    PROVE  TypedLocals' /\ Busy' /\ \A v \in Workers \ {w} : Stands(v)
<1>1. DeviceAt(w) \in Devices
  BY EntryFacts DEF GoesOn
<1>2. Append(unknown[w], DeviceAt(w)) \in Seq(Devices)
  BY <1>1, AppendProperties DEF Typed, TypeOK
<1>3. TypedLocals'
  <2>1. pc' \in [Workers -> Leased \cup Unleased]
    BY DEF GoesOn, Located, Typed, TypeOK, Unleased
  <2>2. unknown' \in [Workers -> Seq(Devices)]
    BY <1>2 DEF GoesOn, Typed, TypeOK
  <2>3. row' \in [Workers -> Row \cup {NoRow}]
    BY DEF GoesOn, Typed, TypeOK
  <2> QED BY <2>1, <2>2, <2>3 DEF GoesOn, Typed, TypeOK, TypedLocals
<1>4. \A v \in Workers \ {w} : Stands(v)
  BY DEF GoesOn, Typed, TypeOK, Stands
<1>5. todo'[w] # <<>>
  BY DEF GoesOn
<1> QED BY <1>3, <1>4, <1>5 DEF Typed, Busy, Stands

LEMMA ReceiveTyped ==
    ASSUME Typed, NEW w \in Workers, NEW batch \in Seq(Entry), Receive(w, batch)
    PROVE  /\ TypedLocals' /\ Busy' /\ \A v \in Workers \ {w} : Stands(v)
           /\ size'[w] = failed'[w] + Len(todo'[w])
<1>1. Len(batch) \in Nat
  BY LenProperties
<1>2. ASSUME Len(batch) > BatchCap
      PROVE  SubSeq(batch, 1, BatchCap) \in Seq(Entry) /\ Len(SubSeq(batch, 1, BatchCap)) = BatchCap
  <2>1. \A i \in 1..BatchCap : batch[i] \in Entry
    BY <1>1, <1>2, Numbers, ElementOfSeq
  <2> QED BY <2>1, Numbers, SubSeqProperties
<1> DEFINE kept == IF Len(batch) > BatchCap THEN SubSeq(batch, 1, BatchCap) ELSE batch
           over == IF Len(batch) > BatchCap THEN Len(batch) - BatchCap ELSE 0
<1>3. kept \in Seq(Entry) /\ over \in Nat /\ Len(batch) = over + Len(kept)
  BY <1>1, <1>2, Numbers
<1>4. /\ pc' = [pc EXCEPT ![w] = "entry"] /\ size' = [size EXCEPT ![w] = Len(batch)]
      /\ failed' = [failed EXCEPT ![w] = over] /\ todo' = [todo EXCEPT ![w] = kept]
      /\ UNCHANGED <<row, unknown, quiet>>
  BY DEF Receive
<1> HIDE DEF kept, over
<1>5. TypedLocals'
  BY <1>1, <1>3, <1>4 DEF Typed, TypeOK, TypedLocals, Unleased
<1>6. \A v \in Workers \ {w} : Stands(v)
  BY <1>4 DEF Typed, TypeOK, Stands
<1>7. pc'[w] = "entry" /\ size'[w] = failed'[w] + Len(todo'[w])
  BY <1>3, <1>4 DEF Typed, TypeOK
<1> QED BY <1>5, <1>6, <1>7 DEF Typed, Busy, Stands, Leased

\* What Nextcloud pushes is a batch of entries with a hash it has on record.
LEMMA PushReceives ==
    ASSUME Typed, NEW w \in Workers, Push(w)
    PROVE  \E batch \in Seq(Entry) : Receive(w, batch)
<1>1. PICK batch \in Batches :
          /\ \A i \in 1..Len(batch) : nextcloud[DeviceOf[batch[i].id]] # None
          /\ Receive(w, [i \in 1..Len(batch) |->
                           [id |-> batch[i].id, flaw |-> batch[i].flaw,
                            hash |-> nextcloud[DeviceOf[batch[i].id]]]])
  BY DEF Push
<1>2. batch \in Seq([id : Notifs, flaw : Flaws])
  BY BatchesAssumption
<1>3. \A i \in 1..Len(batch) :
          [id |-> batch[i].id, flaw |-> batch[i].flaw,
           hash |-> nextcloud[DeviceOf[batch[i].id]]] \in Entry
  <2> TAKE i \in 1..Len(batch)
  <2>1. batch[i] \in [id : Notifs, flaw : Flaws]
    BY <1>2, ElementOfSeq
  <2>2. nextcloud[DeviceOf[batch[i].id]] \in Generations
    BY <1>1, <2>1, DeviceOfAssumption DEF Typed, TypeOK
  <2> QED BY <2>1, <2>2 DEF Entry
<1>4. [i \in 1..Len(batch) |->
          [id |-> batch[i].id, flaw |-> batch[i].flaw,
           hash |-> nextcloud[DeviceOf[batch[i].id]]]] \in Seq(Entry)
  BY <1>2, <1>3, LenProperties
<1> QED BY <1>1, <1>4

LEMMA UnregisterTyped ==
    ASSUME Typed, NEW w \in Workers, NEW d, NEW u, Unregister(w, d, u)
    PROVE  TypedLocals' /\ Busy' /\ \A v \in Workers \ {w} : Stands(v)
<1>1. rows[d] \in Row
  BY DEF Unregister, Typed, TypeOK
<1>2. TypedLocals' /\ pc'[w] = "unregistering"
  BY <1>1 DEF Unregister, Typed, TypeOK, TypedLocals, Unleased
<1>3. \A v \in Workers \ {w} : Stands(v)
  BY DEF Unregister, Typed, TypeOK, Stands
<1> QED BY <1>2, <1>3 DEF Typed, Busy, Stands, Leased

-----------------------------------------------------------------------------
(* What a step of a thread does to what the threads share.                 *)

TypedShared ==
    /\ DOMAIN rows \subseteq Devices /\ rows \in [DOMAIN rows -> Row]
    /\ holder \in [Notifs -> Workers \cup {NoOne}]
    /\ remembered \subseteq Notifs /\ confirmed \subseteq Notifs
    /\ budget \in 0..BreakerCapacity
    /\ live \in [Devices -> Generations]
    /\ nextcloud \in [Devices -> Generations \cup {None}]
    /\ listed \in 0..CountLimit /\ refills \in 0..CountLimit
    /\ faults \in 0..MaxFaults /\ restarts \in 0..MaxRestarts

LEMMA StepShared ==
    ASSUME Typed, NEW w \in Workers, Step(w)
    PROVE  TypedShared'
<1> USE DEF store, guard, breaker, outside, bounds
<1>1. /\ faults \in 0..MaxFaults /\ budget \in 0..BreakerCapacity
      /\ listed \in 0..CountLimit /\ Sat(listed + 1) \in 0..CountLimit
  BY Counters, Saturation
<1>2. CASE UnregisterDelete(w)
  BY <1>2 DEF UnregisterDelete, Remove, Typed, TypeOK, TypedShared
<1>3. CASE \/ Unparsable(w) \/ LookupMiss(w) \/ Reject(w) \/ LookupHit(w) \/ EntryRaises(w)
           \/ MissRefused(w) \/ Suppressed(w) \/ Refused(w) \/ ProviderFails(w)
           \/ ProviderSaysDead(w) \/ DeadRefused(w)
  <2>1. UNCHANGED <<store, guard, breaker, outside, bounds>>
    BY <1>3 DEF Unparsable, LookupMiss, Reject, LookupHit, EntryRaises, MissRefused, Suppressed,
                Refused, ProviderFails, ProviderSaysDead, Answered, DeadRefused
  <2> QED BY <2>1 DEF Typed, TypeOK, TypedShared
<1>4. CASE \/ UnregisterFails(w) \/ ReadFails(w) \/ ProviderRaises(w) \/ WriteFails(w)
           \/ ResponseLost(w)
  <2>1. /\ faults < MaxFaults /\ faults' = faults + 1
        /\ UNCHANGED <<store, guard, breaker, outside, restarts>>
    BY <1>4 DEF UnregisterFails, ReadFails, ProviderRaises, Answered, WriteFails,
                ResponseLost
  <2>2. faults' \in 0..MaxFaults
    BY <1>1, <2>1, Numbers
  <2> QED BY <2>1, <2>2 DEF Typed, TypeOK, TypedShared
<1>5. CASE MissReported(w) \/ DeadGranted(w)
  <2>1. /\ budget > 0 /\ budget' = budget - 1 /\ listed' \in {listed, Sat(listed + 1)}
        /\ UNCHANGED <<store, guard, refills, outside, bounds>>
    BY <1>5 DEF MissReported, DeadGranted, Grant
  <2>2. budget' \in 0..BreakerCapacity /\ listed' \in 0..CountLimit
    BY <1>1, <2>1, Numbers
  <2> QED BY <2>1, <2>2 DEF Typed, TypeOK, TypedShared
<1>6. CASE Leasing(w) \/ CommitLease(w) \/ ReleaseFailed(w) \/ ReleaseForgotten(w)
           \/ ReleaseAndRaise(w) \/ ProviderAccepts(w)
  <2>1. IdOf(w) \in Notifs
    BY <1>6, EntryFacts DEF Leasing, CommitLease, ReleaseFailed, ReleaseForgotten,
                            ReleaseAndRaise, ProviderAccepts, Typed, Busy, Leased
  <2>2. /\ holder' \in [Notifs -> Workers \cup {NoOne}]
        /\ remembered' \subseteq Notifs /\ confirmed' \subseteq Notifs
    BY <1>6, <2>1 DEF Leasing, CommitLease, ReleaseFailed, ReleaseForgotten, ReleaseAndRaise,
                      ProviderAccepts, Unlock, Typed, TypeOK
  <2>3. UNCHANGED <<store, breaker, outside, bounds>>
    BY <1>6 DEF Leasing, CommitLease, ReleaseFailed, ReleaseForgotten, ReleaseAndRaise,
                ProviderAccepts
  <2> QED BY <2>2, <2>3 DEF Typed, TypeOK, TypedShared
<1>7. CASE ClearVoipToken(w)
  <2>1. \A x \in DOMAIN rows : [rows[x] EXCEPT !.voip = None] \in Row
    <3>1. \A x \in DOMAIN rows : rows[x] \in Row
      BY DEF Typed, TypeOK
    <3> QED BY <3>1 DEF Row
  <2>2. DOMAIN rows' \subseteq Devices /\ rows' \in [DOMAIN rows' -> Row]
    BY <1>7, <2>1 DEF ClearVoipToken, Typed, TypeOK
  <2> QED BY <1>7, <2>2 DEF ClearVoipToken, Typed, TypeOK, TypedShared
<1>8. CASE DeleteDevice(w)
  <2>1. DOMAIN rows' \subseteq Devices /\ rows' \in [DOMAIN rows' -> Row]
    BY <1>8 DEF DeleteDevice, Remove, Typed, TypeOK
  <2> QED BY <1>1, <1>8, <2>1 DEF DeleteDevice, Typed, TypeOK, TypedShared
<1>9. CASE Respond(w)
  BY <1>9 DEF Respond, Typed, TypeOK, TypedShared
<1> QED BY <1>2, <1>3, <1>4, <1>5, <1>6, <1>7, <1>8, <1>9 DEF Step

\* A step of a thread leaves the locals of the others alone.
LEMMA StepLocals ==
    ASSUME Typed, NEW w \in Workers, Step(w)
    PROVE  TypedLocals' /\ Busy' /\ \A v \in Workers \ {w} : Stands(v)
BY StepKinds, LeaveTyped, FinishesTyped, GoesOnTyped

LEMMA NextTyped == Typed /\ [Next]_vars => Typed'
<1> SUFFICES ASSUME Typed, [Next]_vars PROVE Typed'
  OBVIOUS
<1>1. ASSUME NEW w \in Workers, Step(w)
      PROVE  Typed'
  BY <1>1, StepLocals, StepShared DEF Typed, TypeOK, TypedLocals, TypedShared
<1>2. ASSUME NEW w \in Workers, NEW batch \in Seq(Entry), Receive(w, batch)
      PROVE  Typed'
  <2>1. UNCHANGED <<store, guard, breaker, outside, bounds>>
    BY <1>2 DEF Receive
  <2>2. TypedShared'
    BY <2>1 DEF Typed, TypeOK, TypedShared, store, guard, breaker, outside, bounds
  <2> QED BY <1>2, <2>2, ReceiveTyped DEF Typed, TypeOK, TypedLocals, TypedShared
<1>3. ASSUME NEW w \in Workers, NEW d \in Devices, NEW u \in Users, Unregister(w, d, u)
      PROVE  Typed'
  <2>1. UNCHANGED <<store, guard, breaker, outside, bounds>>
    BY <1>3 DEF Unregister
  <2>2. TypedShared'
    BY <2>1 DEF Typed, TypeOK, TypedShared, store, guard, breaker, outside, bounds
  <2> QED BY <1>3, <2>2, UnregisterTyped DEF Typed, TypeOK, TypedLocals, TypedShared
<1>4. CASE UNCHANGED vars
  BY <1>4 DEF vars, store, guard, breaker, locals, outside, bounds, Typed, TypeOK, Busy
<1> QED BY <1>1, <1>2, <1>3, <1>4, EnvironmentTyped, PushReceives DEF Next

LEMMA SpecTyped == Spec => []Typed
<1> QED BY InitTyped, NextTyped, PTL DEF Spec

\* Every variable keeps its type through every interleaving of the threads,
\* with exceptions at any step, rotations, lost responses and restarts.
THEOREM TypeCorrect == Spec => []TypeOK
<1>1. Typed => TypeOK
  BY DEF Typed
<1> QED BY <1>1, SpecTyped, PTL
-----------------------------------------------------------------------------
(* Accounting: the entries of a request.  A thread without a request has an*)
(* empty `unknown` and no quiet entries, which is where the next request   *)
(* starts counting from.                                                   *)

Settled(w) == Len(unknown[w]) + failed[w] + quiet[w]

CountedAt(w) ==
    /\ size[w] = Settled(w) + Len(todo[w]) - (IF pc[w] = "forgotten" THEN 1 ELSE 0)
    /\ pc[w] = "idle" => unknown[w] = <<>> /\ quiet[w] = 0

Counted == \A w \in Workers : CountedAt(w)

LEMMA CountFacts ==
    ASSUME Typed, NEW w \in Workers
    PROVE  /\ Len(unknown[w]) \in Nat /\ failed[w] \in Nat /\ quiet[w] \in Nat
           /\ Len(todo[w]) \in Nat /\ Settled(w) \in Nat
<1>1. /\ Len(unknown[w]) \in Nat /\ failed[w] \in Nat /\ quiet[w] \in Nat
      /\ Len(todo[w]) \in Nat
  BY LenProperties DEF Typed, TypeOK
<1> QED BY <1>1 DEF Settled

LEMMA LeaveCounted ==
    ASSUME Typed, NEW w \in Workers, Leave(w)
    PROVE  CountedAt(w)'
<1>1. /\ pc'[w] = "idle" /\ todo'[w] = <<>> /\ unknown'[w] = <<>>
      /\ failed'[w] = 0 /\ quiet'[w] = 0 /\ size'[w] = 0
  BY DEF Leave, Typed, TypeOK
<1>2. Len(<<>>) = 0
  OBVIOUS
<1> QED BY <1>1, <1>2 DEF CountedAt, Settled

LEMMA OneMore ==
    \A l, m, n \in Nat : l + (m + 1) + n = (l + m + n) + 1
                     /\ l + m + (n + 1) = (l + m + n) + 1
                     /\ (l + 1) + m + n = (l + m + n) + 1
OBVIOUS

LEMMA FinishesSettles ==
    ASSUME Typed, NEW w \in Workers, Finishes(w)
    PROVE  Settled(w)' = Settled(w) + (IF pc[w] = "forgotten" THEN 0 ELSE 1)
<1>1. Len(unknown[w]) \in Nat /\ failed[w] \in Nat /\ quiet[w] \in Nat
  BY CountFacts
<1>2. Len(Append(unknown[w], DeviceAt(w))) = Len(unknown[w]) + 1
  BY EntryFacts, AppendProperties DEF Finishes, Typed, TypeOK
<1>3. CASE pc[w] # "forgotten" /\ pc[w] # "missed"
  <2>1. Len(unknown'[w]) = Len(unknown[w])
    BY <1>3 DEF Finishes
  <2>2. \/ failed'[w] = failed[w] + 1 /\ quiet'[w] = quiet[w]
        \/ quiet'[w] = quiet[w] + 1 /\ failed'[w] = failed[w]
    BY <1>3 DEF Finishes, CountFailed, CountQuiet, Typed, TypeOK
  <2>3. Settled(w)' = Settled(w) + 1
    <3>1. \/ Settled(w)' = Len(unknown[w]) + (failed[w] + 1) + quiet[w]
          \/ Settled(w)' = Len(unknown[w]) + failed[w] + (quiet[w] + 1)
      BY <2>1, <2>2 DEF Settled
    <3>2. /\ Len(unknown[w]) + (failed[w] + 1) + quiet[w] = (Len(unknown[w]) + failed[w] + quiet[w]) + 1
          /\ Len(unknown[w]) + failed[w] + (quiet[w] + 1) = (Len(unknown[w]) + failed[w] + quiet[w]) + 1
      BY <1>1, OneMore, Zenon
    <3> QED BY <3>1, <3>2 DEF Settled
  <2> QED BY <1>3, <2>3
<1>4. CASE pc[w] = "missed"
  <2>1. \/ unknown'[w] = unknown[w] /\ failed'[w] = failed[w] + 1
        \/ unknown'[w] = Append(unknown[w], DeviceAt(w)) /\ failed'[w] = failed[w]
    BY <1>4 DEF Finishes, CountFailed, Typed, TypeOK
  <2>2. \/ Len(unknown'[w]) = Len(unknown[w]) /\ failed'[w] = failed[w] + 1
        \/ Len(unknown'[w]) = Len(unknown[w]) + 1 /\ failed'[w] = failed[w]
    BY <1>2, <2>1
  <2>3. quiet'[w] = quiet[w] /\ pc[w] # "forgotten"
    BY <1>4 DEF Finishes
  <2>4. Settled(w)' = Settled(w) + 1
    <3>1. \/ Settled(w)' = Len(unknown[w]) + (failed[w] + 1) + quiet[w]
          \/ Settled(w)' = (Len(unknown[w]) + 1) + failed[w] + quiet[w]
      BY <2>2, <2>3 DEF Settled
    <3>2. /\ Len(unknown[w]) + (failed[w] + 1) + quiet[w] = (Len(unknown[w]) + failed[w] + quiet[w]) + 1
          /\ (Len(unknown[w]) + 1) + failed[w] + quiet[w] = (Len(unknown[w]) + failed[w] + quiet[w]) + 1
      BY <1>1, OneMore, Zenon
    <3> QED BY <3>1, <3>2 DEF Settled
  <2> QED BY <2>3, <2>4
<1>5. CASE pc[w] = "forgotten"
  <2>1. Len(unknown'[w]) = Len(unknown[w]) /\ failed'[w] = failed[w] /\ quiet'[w] = quiet[w]
    BY <1>5 DEF Finishes
  <2> QED BY <1>1, <1>5, <2>1 DEF Settled
<1> QED BY <1>3, <1>4, <1>5

LEMMA FinishesCounted ==
    ASSUME Typed, NEW w \in Workers, CountedAt(w), Finishes(w)
    PROVE  CountedAt(w)'
<1>1. Settled(w) \in Nat /\ Len(todo[w]) \in Nat
  BY CountFacts
<1>2. /\ Len(todo'[w]) = Len(todo[w]) - 1
      /\ pc'[w] = "entry" /\ size'[w] = size[w]
  BY EntryFacts DEF Finishes, NextEntry, Typed, TypeOK
<1>3. Settled(w)' = Settled(w) + (IF pc[w] = "forgotten" THEN 0 ELSE 1)
  BY FinishesSettles
<1>4. CASE pc[w] = "forgotten"
  <2>1. Settled(w)' = Settled(w)
    BY <1>1, <1>3, <1>4
  <2> QED BY <1>1, <1>2, <1>4, <2>1 DEF CountedAt
<1>5. CASE pc[w] # "forgotten"
  <2>1. Settled(w)' = Settled(w) + 1
    BY <1>3, <1>5
  <2> QED BY <1>1, <1>2, <1>5, <2>1 DEF CountedAt
<1> QED BY <1>4, <1>5

LEMMA GoesOnCounted ==
    ASSUME Typed, NEW w \in Workers, CountedAt(w), GoesOn(w)
    PROVE  CountedAt(w)'
<1>1. Len(unknown[w]) \in Nat /\ failed[w] \in Nat /\ quiet[w] \in Nat
      /\ Len(todo[w]) \in Nat /\ Settled(w) \in Nat
  BY CountFacts
<1>2. /\ pc'[w] # "idle" /\ pc[w] # "forgotten" /\ todo'[w] = todo[w] /\ size'[w] = size[w]
  BY DEF GoesOn, Located, Leased, Typed, TypeOK
<1>3. failed'[w] = failed[w] /\ quiet'[w] = quiet[w]
  BY DEF GoesOn
<1>4. Len(Append(unknown[w], DeviceAt(w))) = Len(unknown[w]) + 1
  BY EntryFacts, AppendProperties DEF GoesOn, Typed, TypeOK
<1>5. \/ pc'[w] = "forgotten" /\ unknown'[w] = Append(unknown[w], DeviceAt(w))
      \/ pc'[w] # "forgotten" /\ unknown'[w] = unknown[w]
  BY DEF GoesOn, Typed, TypeOK
<1>6. CASE pc'[w] = "forgotten"
  <2>1. Len(unknown'[w]) = Len(unknown[w]) + 1
    BY <1>4, <1>5, <1>6
  <2>2. Settled(w)' = Settled(w) + 1
    BY <1>1, <1>3, <2>1 DEF Settled
  <2> QED BY <1>1, <1>2, <1>6, <2>2 DEF CountedAt
<1>7. CASE pc'[w] # "forgotten"
  <2>1. Len(unknown'[w]) = Len(unknown[w])
    BY <1>5, <1>7
  <2>2. Settled(w)' = Settled(w)
    BY <1>1, <1>3, <2>1 DEF Settled
  <2> QED BY <1>1, <1>2, <1>7, <2>2 DEF CountedAt
<1> QED BY <1>6, <1>7

LEMMA NextCounted == Typed /\ Counted /\ [Next]_vars => Counted'
<1> SUFFICES ASSUME Typed, Counted, [Next]_vars PROVE Counted'
  OBVIOUS
<1>1. ASSUME NEW w \in Workers, \A v \in Workers \ {w} : Stands(v), CountedAt(w)'
      PROVE  Counted'
  <2>1. \A v \in Workers \ {w} : CountedAt(v)'
    <3> SUFFICES ASSUME NEW v \in Workers \ {w} PROVE CountedAt(v)'
      OBVIOUS
    <3>1. Settled(v)' = Settled(v)
      BY <1>1 DEF Settled, Stands
    <3> QED BY <1>1, <3>1 DEF Counted, CountedAt, Stands
  <2> QED BY <1>1, <2>1 DEF Counted
<1>2. ASSUME NEW w \in Workers, Step(w)
      PROVE  Counted'
  <2>1. CountedAt(w)'
    BY <1>2, StepKinds, LeaveCounted, FinishesCounted, GoesOnCounted DEF Counted
  <2> QED BY <1>1, <1>2, <2>1, StepLocals
<1>3. ASSUME NEW w \in Workers, NEW batch \in Seq(Entry), Receive(w, batch)
      PROVE  Counted'
  <2>1. size'[w] = failed'[w] + Len(todo'[w]) /\ failed'[w] \in Nat /\ Len(todo'[w]) \in Nat
    BY <1>3, ReceiveTyped, LenProperties DEF TypedLocals
  <2>2. unknown'[w] = <<>> /\ quiet'[w] = 0 /\ pc'[w] = "entry"
    BY <1>3 DEF Receive, Counted, CountedAt, Typed, TypeOK
  <2>3. Len(<<>>) = 0
    OBVIOUS
  <2>4. CountedAt(w)'
    BY <2>1, <2>2, <2>3 DEF CountedAt, Settled
  <2> QED BY <1>1, <1>3, <2>4, ReceiveTyped
<1>4. ASSUME NEW w \in Workers, NEW d \in Devices, NEW u \in Users, Unregister(w, d, u)
      PROVE  Counted'
  <2>1. CountedAt(w)'
    BY <1>4 DEF Unregister, Counted, CountedAt, Settled, Typed, TypeOK
  <2> QED BY <1>1, <1>4, <2>1, UnregisterTyped
<1>5. CASE Restart
  <2>1. Len(<<>>) = 0
    OBVIOUS
  <2> QED BY <1>5, <2>1 DEF Restart, Counted, CountedAt, Settled
<1>6. CASE UNCHANGED locals
  BY <1>6 DEF locals, Counted, CountedAt, Settled
<1>7. Environment => Restart \/ UNCHANGED locals
  BY DEF Environment, Register, Rotate, Subscribe, Expire, Refill
<1> QED BY <1>2, <1>3, <1>4, <1>5, <1>6, <1>7, PushReceives DEF Next, vars

\* Every entry of every request is accounted for exactly once, whatever the
\* length of the batch and whatever happens to each of its entries.
THEOREM EntriesCounted == Spec => []EveryEntryCounted
<1>1. Init => Counted
  <2>1. Len(<<>>) = 0
    OBVIOUS
  <2> QED BY <2>1 DEF Init, Counted, CountedAt, Settled
<1>2. Counted => EveryEntryCounted
  BY DEF Counted, CountedAt, Settled, EveryEntryCounted
<1> QED BY <1>1, <1>2, SpecTyped, NextCounted, PTL DEF Spec
-----------------------------------------------------------------------------
(* The guard.  What is remembered is not held, and what the gateway knows  *)
(* to be accepted is remembered or still held by the thread that is about  *)
(* to commit it: this is what closes the window between the two.           *)

Exclusive == remembered \cap Held = {}

ConfirmedKept ==
    \A n \in confirmed : n \in remembered \/ (n \in Held /\ pc[holder[n]] = "accepted")

Guarded == LeasesMatchThreads /\ Exclusive /\ ConfirmedKept

\* A thread's step is outside any lease, within one, or the end of one.
Without(w) == pc[w] \notin Leased /\ pc'[w] \notin Leased /\ UNCHANGED guard

Within(w) ==
    /\ pc[w] \in Leased \ {"accepted"} /\ pc'[w] \in Leased \ {"calling"}
    /\ UNCHANGED <<todo, holder, remembered>>
    /\ UNCHANGED confirmed \/ (pc'[w] = "accepted" /\ confirmed' = confirmed \cup {IdOf(w)})

Settles(w) ==
    /\ pc[w] \in Leased /\ pc'[w] \notin Leased /\ Unlock(w) /\ UNCHANGED confirmed
    /\ \/ pc[w] # "accepted" /\ UNCHANGED remembered
       \/ remembered' = remembered \cup {IdOf(w)}

LEMMA GuardKinds ==
    ASSUME Typed, NEW w \in Workers, Step(w)
    PROVE  Leasing(w) \/ Without(w) \/ Within(w) \/ Settles(w)
<1> USE DEF Leased
<1>1. pc \in [Workers -> Leased \cup Unleased]
  BY DEF Typed, TypeOK
<1>2. CASE \/ UnregisterDelete(w) \/ UnregisterFails(w) \/ EntryRaises(w) \/ ReadFails(w)
           \/ Respond(w) \/ ResponseLost(w)
  BY <1>1, <1>2 DEF UnregisterDelete, UnregisterFails, EntryRaises, ReadFails, Respond,
                    ResponseLost, AtEntry, Leave, Without
<1>3. CASE Unparsable(w) \/ Reject(w) \/ LookupMiss(w) \/ LookupHit(w)
  BY <1>1, <1>3 DEF Unparsable, Reject, LookupMiss, LookupHit, AtEntry, NextEntry, Without
<1>4. CASE MissReported(w) \/ MissRefused(w) \/ Suppressed(w) \/ Refused(w)
  BY <1>1, <1>4 DEF MissReported, MissRefused, Suppressed, Refused, NextEntry, Without
<1>5. CASE ProviderAccepts(w)
  BY <1>1, <1>5 DEF ProviderAccepts, Within
<1>6. CASE ProviderFails(w) \/ ProviderSaysDead(w) \/ ProviderRaises(w)
  BY <1>1, <1>6 DEF ProviderFails, ProviderSaysDead, ProviderRaises, Answered, Within, guard
<1>7. CASE ClearVoipToken(w) \/ DeadGranted(w) \/ DeadRefused(w) \/ DeleteDevice(w)
           \/ WriteFails(w)
  BY <1>1, <1>7 DEF ClearVoipToken, DeadGranted, DeadRefused, DeleteDevice, WriteFails, Within,
                    guard
<1>8. CASE CommitLease(w)
  BY <1>1, <1>8 DEF CommitLease, NextEntry, Settles
<1>9. CASE ReleaseFailed(w) \/ ReleaseForgotten(w)
  BY <1>1, <1>9 DEF ReleaseFailed, ReleaseForgotten, NextEntry, Settles
<1>10. CASE ReleaseAndRaise(w)
  BY <1>1, <1>10 DEF ReleaseAndRaise, Leave, Settles
<1> QED BY <1>2, <1>3, <1>4, <1>5, <1>6, <1>7, <1>8, <1>9, <1>10 DEF Step

\* A lease that belongs to another thread is not touched by a step of w.
LEMMA WithoutGuarded ==
    ASSUME Typed, Guarded, NEW w \in Workers, Without(w), \A v \in Workers \ {w} : Stands(v)
    PROVE  Guarded'
<1>1. holder' = holder /\ remembered' = remembered /\ confirmed' = confirmed
  BY DEF Without, guard
<1>2. \A v \in Workers : pc'[v] \in Leased => v # w /\ pc[v] = pc'[v] /\ IdOf(v)' = IdOf(v)
  BY DEF Without, Stands, IdOf, EntryOf
<1>3. \A n \in Held : holder[n] \in Workers \ {w}
  BY NoOneAssumption DEF Held, Guarded, LeasesMatchThreads, Without, Typed, TypeOK
<1>4. \A n \in Held : pc'[holder[n]] = pc[holder[n]] /\ IdOf(holder[n])' = IdOf(holder[n])
  BY <1>1, <1>3 DEF Stands, IdOf, EntryOf
<1>5. Held' = Held
  BY <1>1 DEF Held
<1>6. LeasesMatchThreads'
  BY <1>1, <1>2, <1>4, <1>5 DEF Guarded, LeasesMatchThreads
<1> QED BY <1>1, <1>4, <1>5, <1>6 DEF Guarded, Exclusive, ConfirmedKept

LEMMA LeasingGuarded ==
    ASSUME Typed, Guarded, NEW w \in Workers, Leasing(w), \A v \in Workers \ {w} : Stands(v)
    PROVE  Guarded'
<1> DEFINE n0 == IdOf(w)
<1>1. /\ n0 \in Notifs /\ n0 \notin Held /\ n0 \notin remembered
      /\ holder' = [holder EXCEPT ![n0] = w] /\ remembered' = remembered /\ confirmed' = confirmed
      /\ pc'[w] = "calling" /\ todo'[w] = todo[w]
  BY EntryFacts DEF Leasing, Typed, TypeOK, Busy
<1>2. IdOf(w)' = n0
  BY <1>1 DEF IdOf, EntryOf
<1> HIDE DEF n0
<1>3. \A v \in Workers \ {w} : pc'[v] = pc[v] /\ IdOf(v)' = IdOf(v)
  BY DEF Stands, IdOf, EntryOf
<1>4. /\ holder'[n0] = w
      /\ \A n \in Notifs \ {n0} : holder'[n] = holder[n]
  BY <1>1 DEF Typed, TypeOK
<1>5. Held' = Held \cup {n0}
  BY <1>1, <1>4, NoOneAssumption DEF Held
<1>6. \A n \in Held : n \in Notifs \ {n0} /\ holder[n] \in Workers \ {w}
  <2> SUFFICES ASSUME NEW n \in Held PROVE n \in Notifs \ {n0} /\ holder[n] \in Workers \ {w}
    OBVIOUS
  <2>1. n \in Notifs \ {n0} /\ holder[n] \in Workers
    BY <1>1 DEF Held, Typed, TypeOK
  <2>2. pc[w] \notin Leased /\ pc[holder[n]] \in Leased
    BY DEF Guarded, LeasesMatchThreads, Leasing, Leased
  <2> QED BY <2>1, <2>2
<1>7. \A v \in Workers : pc'[v] \in Leased => holder'[IdOf(v)'] = v
  <2> SUFFICES ASSUME NEW v \in Workers, pc'[v] \in Leased PROVE holder'[IdOf(v)'] = v
    OBVIOUS
  <2>1. CASE v = w
    BY <1>2, <1>4, <2>1
  <2>2. CASE v # w
    <3>1. pc[v] \in Leased /\ IdOf(v)' = IdOf(v) /\ holder[IdOf(v)] = v
      BY <1>3, <2>2 DEF Guarded, LeasesMatchThreads
    <3>2. IdOf(v) \in Notifs
      BY <3>1, EntryFacts DEF Typed, Busy
    <3>3. IdOf(v) # n0
      BY <1>1, <3>1, <3>2, NoOneAssumption DEF Held
    <3> QED BY <1>4, <3>1, <3>2, <3>3
  <2> QED BY <2>1, <2>2
<1>8. ASSUME NEW n \in Held
      PROVE  /\ pc'[holder'[n]] = pc[holder[n]]
             /\ pc'[holder'[n]] \in Leased /\ IdOf(holder[n])' = n
  <2>1. holder'[n] = holder[n] /\ holder[n] \in Workers \ {w}
    BY <1>4, <1>6
  <2>2. pc[holder[n]] \in Leased /\ IdOf(holder[n]) = n
    BY DEF Guarded, LeasesMatchThreads
  <2>3. todo'[holder[n]] = todo[holder[n]] /\ pc'[holder[n]] = pc[holder[n]]
    BY <2>1 DEF Stands
  <2> QED BY <2>1, <2>2, <2>3 DEF IdOf, EntryOf
<1>9. \A n \in Held' : pc'[holder'[n]] \in Leased /\ IdOf(holder[n])' = n
  BY <1>1, <1>2, <1>4, <1>5, <1>8 DEF Leased, IdOf, EntryOf
<1>10. Exclusive'
  BY <1>1, <1>5 DEF Guarded, Exclusive
<1>11. ConfirmedKept'
  BY <1>1, <1>5, <1>8 DEF Guarded, ConfirmedKept
<1> QED BY <1>7, <1>9, <1>10, <1>11 DEF Guarded, LeasesMatchThreads

LEMMA WithinGuarded ==
    ASSUME Typed, Guarded, NEW w \in Workers, Within(w), \A v \in Workers \ {w} : Stands(v)
    PROVE  Guarded'
<1>1. /\ holder' = holder /\ remembered' = remembered /\ Held' = Held
      /\ \A v \in Workers : IdOf(v)' = IdOf(v)
  BY DEF Within, Held, IdOf, EntryOf
<1>2. /\ pc[w] \in Leased /\ pc'[w] \in Leased /\ pc[w] # "accepted"
      /\ \A v \in Workers \ {w} : pc'[v] = pc[v]
  BY DEF Within, Stands
<1>3. \A n \in Held : holder[n] \in Workers
  BY NoOneAssumption DEF Held, Typed, TypeOK
<1>4. LeasesMatchThreads'
  BY <1>1, <1>2, <1>3 DEF Guarded, LeasesMatchThreads
<1>5. ConfirmedKept'
  <2> SUFFICES ASSUME NEW n \in confirmed'
               PROVE  n \in remembered \/ (n \in Held /\ pc'[holder[n]] = "accepted")
    BY <1>1 DEF ConfirmedKept
  <2>1. CASE n \in confirmed
    BY <1>2, <1>3, <2>1 DEF Guarded, ConfirmedKept
  <2>2. CASE n \notin confirmed
    <3>1. n = IdOf(w) /\ pc'[w] = "accepted"
      BY <2>2 DEF Within
    <3>2. n \in Notifs /\ holder[n] = w
      BY <1>2, <3>1, EntryFacts DEF Typed, Busy, Guarded, LeasesMatchThreads
    <3> QED BY <3>1, <3>2, NoOneAssumption DEF Held
  <2> QED BY <2>1, <2>2
<1> QED BY <1>1, <1>4, <1>5 DEF Guarded, Exclusive

LEMMA SettlesGuarded ==
    ASSUME Typed, Guarded, NEW w \in Workers, Settles(w), \A v \in Workers \ {w} : Stands(v)
    PROVE  Guarded'
<1> DEFINE n0 == IdOf(w)
<1>1. /\ n0 \in Notifs /\ holder[n0] = w /\ pc[w] \in Leased /\ pc'[w] \notin Leased
      /\ holder' = [holder EXCEPT ![n0] = NoOne] /\ confirmed' = confirmed
      /\ \/ pc[w] # "accepted" /\ remembered' = remembered
         \/ remembered' = remembered \cup {n0}
  BY EntryFacts DEF Settles, Unlock, Typed, Busy, Guarded, LeasesMatchThreads
<1> HIDE DEF n0
<1>2. \A v \in Workers \ {w} : pc'[v] = pc[v] /\ IdOf(v)' = IdOf(v)
  BY DEF Stands, IdOf, EntryOf
<1>3. /\ holder'[n0] = NoOne
      /\ \A n \in Notifs \ {n0} : holder'[n] = holder[n]
  BY <1>1 DEF Typed, TypeOK
<1>4. Held' = Held \ {n0}
  BY <1>3 DEF Held
<1>5. \A n \in Held : n \in Notifs /\ holder[n] \in Workers /\ (n # n0 => holder[n] # w)
  <2> SUFFICES ASSUME NEW n \in Held
               PROVE  n \in Notifs /\ holder[n] \in Workers /\ (n # n0 => holder[n] # w)
    OBVIOUS
  <2>1. n \in Notifs /\ holder[n] \in Workers
    BY NoOneAssumption DEF Held, Typed, TypeOK
  <2>2. holder[n] = w => n = n0
    BY DEF n0, Guarded, LeasesMatchThreads
  <2> QED BY <2>1, <2>2
<1>6. \A v \in Workers : pc'[v] \in Leased => holder'[IdOf(v)'] = v
  <2> SUFFICES ASSUME NEW v \in Workers, pc'[v] \in Leased PROVE holder'[IdOf(v)'] = v
    OBVIOUS
  <2>1. v # w /\ pc[v] \in Leased /\ IdOf(v)' = IdOf(v) /\ holder[IdOf(v)] = v
    BY <1>1, <1>2 DEF Guarded, LeasesMatchThreads
  <2>2. IdOf(v) \in Notifs \ {n0}
    BY <1>1, <2>1, EntryFacts DEF Typed, Busy
  <2> QED BY <1>3, <2>1, <2>2
<1>7. ASSUME NEW n \in Held \ {n0}
      PROVE  /\ pc'[holder'[n]] = pc[holder[n]]
             /\ pc'[holder'[n]] \in Leased /\ IdOf(holder[n])' = n
  <2>1. holder'[n] = holder[n] /\ holder[n] \in Workers \ {w}
    BY <1>3, <1>5
  <2>2. pc[holder[n]] \in Leased /\ IdOf(holder[n]) = n
    BY DEF Guarded, LeasesMatchThreads
  <2>3. todo'[holder[n]] = todo[holder[n]] /\ pc'[holder[n]] = pc[holder[n]]
    BY <2>1 DEF Stands
  <2> QED BY <2>1, <2>2, <2>3 DEF IdOf, EntryOf
<1>8. Exclusive'
  BY <1>1, <1>4 DEF Guarded, Exclusive
<1>9. ConfirmedKept'
  <2> SUFFICES ASSUME NEW n \in confirmed
               PROVE  n \in remembered' \/ (n \in Held' /\ pc'[holder'[n]] = "accepted")
    BY <1>1 DEF ConfirmedKept
  <2>1. CASE n = n0
    BY <1>1, <2>1 DEF Guarded, ConfirmedKept
  <2>2. CASE n # n0
    BY <1>1, <1>4, <1>7, <2>2 DEF Guarded, ConfirmedKept
  <2> QED BY <2>1, <2>2
<1> QED BY <1>4, <1>6, <1>7, <1>8, <1>9 DEF Guarded, LeasesMatchThreads

LEMMA NextGuarded == Typed /\ Guarded /\ [Next]_vars => Guarded'
<1> SUFFICES ASSUME Typed, Guarded, [Next]_vars PROVE Guarded'
  OBVIOUS
<1>1. ASSUME NEW w \in Workers, Step(w)
      PROVE  Guarded'
  BY <1>1, GuardKinds, StepLocals, LeasingGuarded, WithoutGuarded, WithinGuarded, SettlesGuarded
<1>2. ASSUME NEW w \in Workers, NEW batch \in Seq(Entry), Receive(w, batch)
      PROVE  Guarded'
  <2>1. Without(w)
    BY <1>2 DEF Receive, Without, Leased, Typed, TypeOK
  <2> QED BY <1>2, <2>1, ReceiveTyped, WithoutGuarded
<1>3. ASSUME NEW w \in Workers, NEW d \in Devices, NEW u \in Users, Unregister(w, d, u)
      PROVE  Guarded'
  <2>1. Without(w)
    BY <1>3 DEF Unregister, Without, Leased, Typed, TypeOK
  <2> QED BY <1>3, <2>1, UnregisterTyped, WithoutGuarded
<1>4. ASSUME NEW n \in Notifs, Expire(n)
      PROVE  Guarded'
  <2>1. /\ holder' = holder /\ pc' = pc /\ remembered' = remembered \ {n}
        /\ confirmed' = confirmed \ {n} /\ Held' = Held
        /\ \A v \in Workers : IdOf(v)' = IdOf(v)
    BY <1>4 DEF Expire, locals, Held, IdOf, EntryOf
  <2>2. \A m \in Held : holder[m] \in Workers
    BY NoOneAssumption DEF Held, Typed, TypeOK
  <2> QED BY <2>1, <2>2 DEF Guarded, LeasesMatchThreads, Exclusive, ConfirmedKept
<1>5. CASE Restart
  BY <1>5 DEF Restart, Guarded, LeasesMatchThreads, Exclusive, ConfirmedKept, Held, Leased
<1>6. CASE UNCHANGED <<guard, locals>>
  <2>1. /\ holder' = holder /\ pc' = pc /\ remembered' = remembered /\ confirmed' = confirmed
        /\ Held' = Held /\ \A v \in Workers : IdOf(v)' = IdOf(v)
    BY <1>6 DEF guard, locals, Held, IdOf, EntryOf
  <2>2. \A m \in Held : holder[m] \in Workers
    BY NoOneAssumption DEF Held, Typed, TypeOK
  <2> QED BY <2>1, <2>2 DEF Guarded, LeasesMatchThreads, Exclusive, ConfirmedKept
<1>7. Environment => (\E n \in Notifs : Expire(n)) \/ Restart \/ UNCHANGED <<guard, locals>>
  BY DEF Environment, Register, Rotate, Subscribe, Refill
<1> QED BY <1>1, <1>2, <1>3, <1>4, <1>5, <1>6, <1>7, PushReceives DEF Next, vars

LEMMA SpecGuarded == Spec => []Guarded
<1>1. Init => Guarded
  BY DEF Init, Guarded, LeasesMatchThreads, Exclusive, ConfirmedKept, Held, Leased
<1> QED BY <1>1, SpecTyped, NextGuarded, PTL DEF Spec

\* A thread between the guard's lease and its end is the holder of its pair,
\* and every held pair has such a thread, on every path that leaves the try
\* block of send_notifications.
THEOREM LeasesAccounted == Spec => []LeasesMatchThreads
<1>1. Guarded => LeasesMatchThreads
  BY DEF Guarded
<1> QED BY <1>1, SpecGuarded, PTL

\* A pair whose acceptance the gateway has learned is not handed to a provider
\* again, by any thread, while it is remembered or about to be.
THEOREM NoRepeats == Spec => []NoRepeatWhileRemembered
<1>1. Typed /\ Guarded => NoRepeatWhileRemembered
  <2> SUFFICES ASSUME Typed, Guarded, NEW n \in confirmed, NEW w \in Workers,
                      pc[w] = "calling", IdOf(w) = n
               PROVE  FALSE
    BY DEF NoRepeatWhileRemembered
  <2>1. n \in Notifs /\ holder[n] = w
    BY EntryFacts DEF Typed, Busy, Leased, Guarded, LeasesMatchThreads
  <2> QED BY <2>1, NoOneAssumption DEF Held, Guarded, Exclusive, ConfirmedKept
<1> QED BY <1>1, SpecTyped, SpecGuarded, PTL
-----------------------------------------------------------------------------
(* The addressee.  A row's PushKit token was registered with its push token*)
(* and goes with it, in the table and in every snapshot of it; past the    *)
(* hash comparison the snapshot is the registration Nextcloud named.       *)

Matched(r) == r.voip \in {None, r.token}

Addressed ==
    /\ \A d \in DOMAIN rows : Matched(rows[d])
    /\ \A w \in Workers :
          /\ Matched(row[w])
          /\ pc[w] \in Leased \cup {"checked"} => row[w].token = EntryOf(w).hash

LEMMA StepAddressed ==
    ASSUME Typed, Addressed, NEW w \in Workers, Step(w)
    PROVE  Addressed'
<1> USE DEF Leased
<1>1. Matched(NoRow)
  BY DEF Matched, NoRow
<1>2. \A d \in DOMAIN rows' : Matched(rows'[d])
  <2>1. CASE UnregisterDelete(w) \/ DeleteDevice(w)
    BY <2>1 DEF UnregisterDelete, DeleteDevice, Remove, Addressed
  <2>2. CASE ClearVoipToken(w)
    <3>1. \A r \in Row : Matched([r EXCEPT !.voip = None])
      BY DEF Matched, Row
    <3> QED BY <2>2, <3>1 DEF ClearVoipToken, Addressed, Typed, TypeOK
  <2>3. CASE ~(UnregisterDelete(w) \/ DeleteDevice(w) \/ ClearVoipToken(w))
    <3>1. rows' = rows
      BY <2>3 DEF Step, UnregisterFails, Unparsable, LookupMiss, Reject, LookupHit,
           EntryRaises, ReadFails, MissReported, MissRefused, Suppressed, Refused, Leasing,
           ProviderAccepts, ProviderFails, ProviderSaysDead, ProviderRaises, Answered,
           CommitLease, ReleaseFailed, DeadGranted, DeadRefused, ReleaseForgotten,
           WriteFails, ReleaseAndRaise, Respond, ResponseLost, store
    <3> QED BY <3>1 DEF Addressed
  <2> QED BY <2>1, <2>2, <2>3
<1>3. \A v \in Workers \ {w} : Stands(v)
  BY StepLocals
<1>4. Matched(row'[w])
  <2>1. CASE Leave(w) \/ Finishes(w)
    BY <1>1, <2>1 DEF Leave, Finishes, NextEntry, Typed, TypeOK
  <2>2. CASE GoesOn(w)
    BY <2>2 DEF GoesOn, Addressed, Typed, TypeOK
  <2> QED BY <2>1, <2>2, StepKinds
<1>5. pc'[w] \in Leased \cup {"checked"} => row'[w].token = Head(todo'[w]).hash
  <2>1. CASE Leave(w) \/ Finishes(w)
    BY <2>1 DEF Leave, Finishes, NextEntry, Typed, TypeOK
  <2>2. CASE GoesOn(w)
    <3>1. todo'[w] = todo[w]
      BY <2>2 DEF GoesOn
    <3>2. CASE (pc[w] \in Leased \cup {"checked"} \/ pc'[w] = "missed") /\ UNCHANGED row
      BY <2>2, <3>1, <3>2 DEF Addressed, EntryOf
    <3>3. CASE /\ rows[DeviceAt(w)].token = EntryOf(w).hash
               /\ row' = [row EXCEPT ![w] = rows[DeviceAt(w)]]
      BY <3>1, <3>3 DEF EntryOf, Typed, TypeOK
    <3> QED BY <2>2, <3>2, <3>3 DEF GoesOn
  <2> QED BY <2>1, <2>2, StepKinds
<1> QED BY <1>2, <1>3, <1>4, <1>5 DEF Addressed, EntryOf, Stands

LEMMA NextAddressed == Typed /\ Addressed /\ [Next]_vars => Addressed'
<1> SUFFICES ASSUME Typed, Addressed, [Next]_vars PROVE Addressed'
  OBVIOUS
<1>1. ASSUME NEW w \in Workers, NEW batch \in Seq(Entry), Receive(w, batch)
      PROVE  Addressed'
  <2>1. /\ rows' = rows /\ row' = row /\ pc'[w] = "entry"
        /\ \A v \in Workers \ {w} : Stands(v)
    BY <1>1, ReceiveTyped DEF Receive, store, Typed, TypeOK
  <2> QED BY <2>1 DEF Addressed, EntryOf, Stands, Leased
<1>2. ASSUME NEW w \in Workers, NEW d \in Devices, NEW u \in Users, Unregister(w, d, u)
      PROVE  Addressed'
  <2>1. /\ rows' = rows /\ d \in DOMAIN rows /\ row'[w] = rows[d] /\ pc'[w] = "unregistering"
        /\ \A v \in Workers \ {w} : Stands(v)
    BY <1>2, UnregisterTyped DEF Unregister, store, Typed, TypeOK
  <2> QED BY <2>1 DEF Addressed, EntryOf, Stands, Leased
<1>3. ASSUME NEW d \in Devices, NEW u \in Users, NEW voip \in {None, live[d]},
             Register(d, u, voip)
      PROVE  Addressed'
  <2>1. /\ Matched([id |-> d, owner |-> u, token |-> live[d], voip |-> voip])
        /\ UNCHANGED locals
    BY <1>3 DEF Matched, Register
  <2>2. \A x \in DOMAIN rows' : Matched(rows'[x])
    BY <1>3, <2>1 DEF Register, Addressed
  <2> QED BY <2>1, <2>2 DEF Addressed, EntryOf, locals
<1>4. CASE Restart
  BY <1>4 DEF Restart, store, Addressed, Matched, NoRow, EntryOf, Leased
<1>5. CASE UNCHANGED <<rows, locals>>
  BY <1>5 DEF Addressed, EntryOf, locals
<1>6. ASSUME Environment, ~Restart,
             ~(\E d \in Devices, u \in Users : \E voip \in {None, live[d]} : Register(d, u, voip))
      PROVE  UNCHANGED <<rows, locals>>
  BY <1>6 DEF Environment, Rotate, Subscribe, Expire, Refill, store
<1> QED BY <1>1, <1>2, <1>3, <1>4, <1>5, <1>6, PushReceives, StepAddressed DEF Next, vars, store

\* A provider call is made with the token of the registration that Nextcloud
\* addressed, or with the PushKit token that was registered with it.
THEOREM TargetsAddressed == Spec => []TargetIsAddressed
<1>1. Init => Addressed
  BY DEF Init, Addressed, Matched, NoRow, Leased
<1>2. Addressed => TargetIsAddressed
  BY DEF Addressed, Matched, TargetIsAddressed, Target, IsVoip, Leased
<1> QED BY <1>1, <1>2, SpecTyped, NextAddressed, PTL DEF Spec
-----------------------------------------------------------------------------
(* The breaker's ledger.  Every token that was ever in the breaker is still*)
(* there, has been spent on a listed entry, is in the hands of a thread    *)
(* between the grant and its deletion, or was lost with a failed one.      *)

Deleting == {w \in Workers : pc[w] = "deleting"}

Ledger ==
    /\ IsFiniteSet(Deleting)
    /\ listed < CountLimit /\ refills < CountLimit
           => listed + budget + Cardinality(Deleting) <= BreakerCapacity + refills

LEMMA LedgerFacts ==
    ASSUME Typed, Ledger
    PROVE  /\ Cardinality(Deleting) \in Nat /\ budget \in Nat /\ listed \in Nat /\ refills \in Nat
           /\ BreakerCapacity \in Nat /\ CountLimit \in Nat
BY Numbers, FS_CardinalityType DEF Typed, TypeOK, Ledger

\* Past its bound a history counter stays there.
LEMMA Saturates ==
    ASSUME NEW n \in Nat, Sat(n + 1) < CountLimit
    PROVE  Sat(n + 1) = n + 1 /\ n < CountLimit
BY Numbers DEF Sat

LEMMA StepLedger ==
    ASSUME Typed, Ledger, NEW w \in Workers, Step(w)
    PROVE  Ledger'
<1>1. /\ Cardinality(Deleting) \in Nat /\ budget \in Nat /\ listed \in Nat /\ refills \in Nat
      /\ BreakerCapacity \in Nat /\ CountLimit \in Nat /\ IsFiniteSet(Deleting)
  BY LedgerFacts DEF Ledger
<1>2. /\ pc \in [Workers -> Leased \cup Unleased]
      /\ \A v \in Workers \ {w} : pc'[v] = pc[v]
  BY StepLocals DEF Typed, TypeOK, Stands
<1>3. CASE MissReported(w)
  <2>1. /\ pc[w] = "missed" /\ pc'[w] = "entry" /\ budget > 0 /\ budget' = budget - 1
        /\ listed' = Sat(listed + 1) /\ refills' = refills
    BY <1>2, <1>3 DEF MissReported, Grant, NextEntry
  <2>2. Deleting' = Deleting
    BY <1>2, <2>1 DEF Deleting
  <2> QED BY <1>1, <2>1, <2>2, Saturates DEF Ledger
<1>4. CASE DeadGranted(w)
  <2>1. /\ pc[w] = "dead" /\ pc'[w] = "deleting" /\ budget > 0 /\ budget' = budget - 1
        /\ listed' = listed /\ refills' = refills
    BY <1>2, <1>4 DEF DeadGranted, Grant
  <2>2. w \notin Deleting /\ Deleting' = Deleting \cup {w}
    BY <1>2, <2>1 DEF Deleting
  <2>3. IsFiniteSet(Deleting') /\ Cardinality(Deleting') = Cardinality(Deleting) + 1
    BY <1>1, <2>2, FS_AddElement
  <2> QED BY <1>1, <2>1, <2>3 DEF Ledger
<1>5. CASE DeleteDevice(w)
  <2>1. /\ pc[w] = "deleting" /\ pc'[w] = "forgotten" /\ budget' = budget
        /\ listed' = Sat(listed + 1) /\ refills' = refills
    BY <1>2, <1>5 DEF DeleteDevice
  <2>2. w \in Deleting /\ Deleting' = Deleting \ {w}
    BY <1>2, <2>1 DEF Deleting
  <2>3. IsFiniteSet(Deleting') /\ Cardinality(Deleting') = Cardinality(Deleting) - 1
    BY <1>1, <2>2, FS_RemoveElement
  <2> QED BY <1>1, <2>1, <2>3, Saturates DEF Ledger
<1>6. CASE WriteFails(w)
  <2>1. pc'[w] = "raising" /\ budget' = budget /\ listed' = listed /\ refills' = refills
    BY <1>2, <1>6 DEF WriteFails, breaker
  <2>2. Deleting' = Deleting \ {w}
    BY <1>2, <2>1 DEF Deleting
  <2>3. /\ IsFiniteSet(Deleting') /\ Cardinality(Deleting') \in Nat
        /\ Cardinality(Deleting') <= Cardinality(Deleting)
    BY <1>1, <2>2, FS_Subset, FS_CardinalityType
  <2> QED BY <1>1, <2>1, <2>3 DEF Ledger
<1>7. CASE ~(MissReported(w) \/ DeadGranted(w) \/ DeleteDevice(w) \/ WriteFails(w))
  <2>1. pc[w] # "deleting" /\ pc'[w] # "deleting" /\ UNCHANGED breaker
    BY <1>2, <1>7 DEF Step, UnregisterDelete, UnregisterFails, Unparsable, LookupMiss,
         Reject, LookupHit, EntryRaises, ReadFails, MissRefused, Suppressed, Refused, Leasing, ProviderAccepts,
         ProviderFails, ProviderSaysDead, ProviderRaises, Answered, CommitLease,
         ReleaseFailed, ClearVoipToken, DeadRefused, ReleaseForgotten, ReleaseAndRaise,
         Respond, ResponseLost, AtEntry, NextEntry, Leave
  <2>2. Deleting' = Deleting
    BY <1>2, <2>1 DEF Deleting
  <2> QED BY <2>1, <2>2 DEF Ledger, breaker
<1> QED BY <1>3, <1>4, <1>5, <1>6, <1>7

LEMMA NextLedger == Typed /\ Ledger /\ [Next]_vars => Ledger'
<1> SUFFICES ASSUME Typed, Ledger, [Next]_vars PROVE Ledger'
  OBVIOUS
<1>1. /\ Cardinality(Deleting) \in Nat /\ budget \in Nat /\ listed \in Nat /\ refills \in Nat
      /\ BreakerCapacity \in Nat /\ CountLimit \in Nat /\ IsFiniteSet(Deleting)
  BY LedgerFacts DEF Ledger
<1>2. ASSUME NEW w \in Workers, UNCHANGED breaker, \A v \in Workers \ {w} : Stands(v),
             pc[w] = "idle", pc'[w] # "deleting"
      PROVE  Ledger'
  <2>1. Deleting' = Deleting
    BY <1>2 DEF Deleting, Stands
  <2> QED BY <1>2, <2>1 DEF Ledger, breaker
<1>3. ASSUME NEW w \in Workers, NEW batch \in Seq(Entry), Receive(w, batch)
      PROVE  Ledger'
  <2>1. UNCHANGED breaker /\ pc[w] = "idle" /\ pc'[w] = "entry"
    BY <1>3 DEF Receive, Typed, TypeOK
  <2> QED BY <1>2, <1>3, <2>1, ReceiveTyped
<1>4. ASSUME NEW w \in Workers, NEW d \in Devices, NEW u \in Users, Unregister(w, d, u)
      PROVE  Ledger'
  <2>1. UNCHANGED breaker /\ pc[w] = "idle" /\ pc'[w] = "unregistering"
    BY <1>4 DEF Unregister, Typed, TypeOK
  <2> QED BY <1>2, <1>4, <2>1, UnregisterTyped
<1>5. CASE Refill
  <2>1. /\ budget' = budget + 1 /\ refills' = Sat(refills + 1) /\ listed' = listed
        /\ Deleting' = Deleting
    BY <1>5 DEF Refill, Deleting, locals
  <2> QED BY <1>1, <2>1, Saturates DEF Ledger
<1>6. CASE Restart
  <2>1. /\ budget' = BreakerCapacity /\ listed' = 0 /\ refills' = 0 /\ Deleting' = {}
    BY <1>6 DEF Restart, Deleting
  <2> QED BY <1>1, <2>1, FS_EmptySet DEF Ledger
<1>7. CASE UNCHANGED <<breaker, pc>>
  BY <1>7 DEF Ledger, Deleting, breaker
<1>8. Environment => Refill \/ Restart \/ UNCHANGED <<breaker, pc>>
  BY DEF Environment, Register, Rotate, Subscribe, Expire, locals
<1> QED BY <1>3, <1>4, <1>5, <1>6, <1>7, <1>8, PushReceives, StepLedger DEF Next, vars, locals

\* The destructive answers of all threads together stay within the breaker's
\* capacity and its refills, for any number of threads and devices.
THEOREM DamageBounded == Spec => []BreakerBoundsDamage
<1>1. Init => Ledger
  <2> SUFFICES ASSUME Init PROVE Ledger
    OBVIOUS
  <2>1. Deleting = {} /\ budget = BreakerCapacity /\ listed = 0 /\ refills = 0
    BY DEF Init, Deleting
  <2> QED BY <2>1, Numbers, FS_EmptySet DEF Ledger
<1>2. Typed /\ Ledger => BreakerBoundsDamage
  BY LedgerFacts DEF Ledger, BreakerBoundsDamage
<1> QED BY <1>1, <1>2, SpecTyped, NextLedger, PTL DEF Spec
=============================================================================
