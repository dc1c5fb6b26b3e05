# A verification project for nks-talk-notify

`nks-talk-notify` is a push gateway for Nextcloud Talk clients: Nextcloud
servers post encrypted, signed notifications to it, and it forwards each one to
APNs or FCM. It is a threaded Python program (one thread per HTTP connection)
over one SQLite database, a few in-memory tables behind locks, and two provider
clients.

This directory holds TLA+ modules that model it, TLC configurations that check
them on small instances, and TLAPS proofs about them. Every definition that
models code is listed under `map` in `PROJECT.json` with its source lines.

Running it, in this directory:

    tlc -workers 2 -config ReplayGuard.cfg MCReplayGuard
    tlapm ReplayGuardProofs.tla

The runs with their modules are in `PROJECT.json`.

## 1. Inventory

| Component | Source | State | Operations | Used by |
|---|---|---|---|---|
| Replay guard | `server.py` 116-210 | `_seen` (pair -> lease, delivered, expiry), heap `_expiries`, `_generation`, a lock | `reserve`, `commit`, `release`, `_prune_delivered` | `send_notifications` |
| Rate limiter | `server.py` 76-113 | `_buckets` (key -> tokens, last), a lock | `allow` | the HTTP front (two limits), the deletion breaker |
| Notification delivery | `server.py` 343-508 | the locals of a request; shares store, guard, breaker, providers | `send_notifications`, `_send_via_apns`, `_send_via_fcm` | the HTTP front |
| Registration | `server.py` 262-341 | none of its own | `register_device`, `unregister_device` | the HTTP front |
| Device store | `db.py` | table `devices`, one shared connection, a lock for writers | `__init__` (schema, migration), `get`, `register`, `clear_voip_token`, `delete`, `count` | delivery, registration, health |
| APNs client | `apns.py` | one cached JWT with its time, a lock | `token`, `send`, translation of answers | delivery |
| FCM client | `fcm.py` | one cached OAuth token with its time, a lock | `token`, `_mint`, `send`, translation of answers | delivery |
| Provider errors | `provider_errors.py` | none | one exception class | both clients, delivery |
| Signatures and keys | `crypto.py` | none | key parsing, verification of device identifiers and subjects | registration, delivery |
| Configuration | `config.py` | immutable | read from the environment at start | everything |
| HTTP front | `server.py` 511-738 | the connection of each handler thread, two rate limiters | routing, body limits, authentication, the rate-limit gates, the client address | - |
| Entry point | `__main__.py` | the server object and its resources | assembly, signals, shutdown, closing | - |

**Interaction.** The HTTP front runs each request in a thread of its own. A
notification request walks through its batch: for each entry it reads the store,
checks hash and signature, reserves a lease in the replay guard, calls a
provider, and then commits the lease (accepted), releases it (failed), or asks
the deletion breaker and deletes the device (the provider says the token is
dead). Devices that were not found or were deleted are listed as `unknown` in
the response, and Nextcloud deletes those on its side: a wrong `unknown` silently
disconnects a device. Registrations run beside this in other threads.

**What is hard.**

* *Interleaving and stale state.* A request works for seconds with a row that it
  read once, and writes by device identifier at the end. `reserve` and `allow`
  read the clock before they take their locks, so readings arrive out of order.
  Readers of the store share the writers' connection without taking the lock.
* *Partial failure.* An exception in the middle of a batch, of a transaction, or
  of a mint of a provider token must leave no lease, no transaction and no stamp
  behind. An in-flight entry of the guard never expires, so a lease that leaks
  blocks its pair and a slot for ever.
* *Loss, retry, crash.* Nextcloud retries what counted as failed; responses get
  lost; the process may die between the deletion of a row and the response, or
  between two columns of a migration.
* *Two who wait for each other.* A proxy writes its whole body before it takes an
  answer, and may wait for "100 Continue" before that; the handler reads only as
  much as it wants, and threads are not capped.
* *Inference.* The provider and the environment of a device are inferred from
  its row at every delivery, under a configuration that may have changed since,
  and both providers answer for a mistake of the gateway as for a dead token.
* *Boundaries.* The guard and the batches have caps; refill, eviction, expiry
  and token renewal compare times, and the wall clock may be stepped.
* *Termination.* Shutdown waits for a loop that may be on the same thread.

**What makes each component correct.**

| Component | Properties |
|---|---|
| Replay guard | a delivered pair stays remembered for the whole TTL and does not suppress longer; one delivery at a time; no lease leaks; table, heap and cap agree |
| Rate limiter | no key gets more than capacity plus refill, whatever threads and evictions do; lazy refill equals a running level |
| Delivery | every entry counted once; leases match threads; no repeat while remembered; pushes go to the addressed registration; destructive answers stay within the breaker; lost `unknown` reports are made again |
| Registration | what is accepted can be delivered, to the provider that issued the token; a device stays under its first key; an unregistration is verified against the row it deletes |
| Device store | writers do not mix; what is acknowledged is on disk; the key pin holds on disk; a killed migration is completed |
| Provider tokens | no expired token is presented; mints stay apart |
| Provider answers | only dead tokens are forgotten, and they do not stay |
| HTTP front | only admissible requests use up an allowance, and their own sender's; a peer that keeps writing gets its answer, or misses it for one of a few named reasons; no connection lasts for ever |
| Shutdown | the signal leads to closed resources and the end of the process |

## 2. Modules

| Module | What it is |
|---|---|
| `ReplayGuard` | the guard: `ReadNow` (the clock, outside the lock), `Reserve` (prune and answer), `Commit`, `Release` |
| `ReplayWindow`, `ReplayGuardRefines` | what the guard promises (a holder per pair, a set of remembered pairs), and the mapping to it |
| `RateLimiter` | the token bucket: `ReadNow`, `Allow`, `Deny` in exact integer units |
| `TokenBudget`, `RateLimiterRefines` | a level per key that rises with time, and the mapping to it |
| `DeviceStore` | the table on disk (`committed`) and through the connection (`working`), the writers' lock, every call step by step, errors, kills, the migration |
| `Registry`, `DeviceStoreRefines` | one table whose writes happen at one moment, and the mapping to it |
| `Gateway` | delivery, registration and unregistration with their environment: composes what the guard, the breaker and the store promise |
| `AuthToken` | the token factories of both provider clients, between a wall clock and true time |
| `Lifecycle` | serving, `shutdown()` and the closing of resources |
| `Registration` | the checks of `POST /devices` as operators on forms, with the key and signature rules of `crypto.py` |
| `ProviderAnswers` | from an HTTP response of a provider to the verdict of `_send_via_apns` and `_send_via_fcm` |
| `Routing` | composes the two: registration, the choice of provider, environment and token at delivery, the answer, and what follows from it, over restarts with other configurations |
| `HttpFront` | extends `Lifecycle` by what a handler thread does: the gates, the body, the answer, and the peer at the other end |
| `MC*` | instances for TLC; `ReplayGuardProofs`, `RateLimiterProofs`, `DeviceStoreProofs`, `AuthTokenProofs`, `GatewayProofs`, `RoutingProofs`, `HttpFrontProofs` hold the proofs |

How state and actions correspond to the code:

* **Replay guard.** `seen`, `expiries` and `generation` are the three attributes
  of the object; `key`, `now`, `lease` and `verdict` are the locals of a handler
  thread. A lease object is identified by its generation. The heap is the set of
  its items, because all that is popped is what lies below the time of the
  prune. `deliveredAt` is a history variable. `commit` and `release` do all
  their work under the lock and are one step; `reserve` is two, since its clock
  is read outside.
* **Rate limiter.** A unit is what a bucket gains per tick, a token is `Cost`
  units. The code's floats are replaced by exact arithmetic, so rounding is not
  covered. `MaxStale` is how long a thread may be held up between its clock
  reading and the lock; the budget depends on it and says so. `windowStart` and
  `spent` are history: an arbitrary interval and what was granted in it.
* **Store.** `_write()` is the steps `Acquire`, then `Execute`, `Refuse` or
  `StatementFails`, then `Commit` or `Rollback`. `get` reads `working` without
  the lock. A kill discards `working`; what SQLite does on the next open is
  taken from how `db.py` relies on it. Timestamps are left out, a row's push
  token stands for the columns that are always written together.
* **Gateway.** Each call of a thread to something shared is one action, and each
  exit of `send_notifications` is one: `Unparsable`, `LookupMiss`, `Reject`,
  `EntryRaises`, `ReadFails`, `Suppressed`, `Refused`, the four answers of a
  provider, `CommitLease`, `ReleaseFailed`, `ClearVoipToken`, `DeadGranted`,
  `DeadRefused`, `DeleteDevice`, `ReleaseForgotten`, `WriteFails`,
  `ReleaseAndRaise`, `Respond`, `ResponseLost`. An unregistration reads
  (`Unregister`), then deletes (`UnregisterDelete`) or meets a database error
  (`UnregisterFails`). The environment registers,
  rotates tokens, subscribes at Nextcloud, lets time pass for the guard
  (`Expire`) and the breaker (`Refill`), and restarts the process. A *generation*
  stands for the push token, its hash and the PushKit token that a device
  obtained together; `live` is the one that works. Signatures are an input: an
  entry has a `flaw`, an unregistration matches the owner of the row it read.
* **Provider tokens.** One model for both factories: an APNs token is signed
  under the lock (`Fetch = 0`), an FCM token is fetched there, which takes time
  and may fail. `issued` and `held` are in true time, `cachedAt` and `now` in
  wall time. APNs judges a token by its `iat`, which is wall time (`apns.py` 64);
  the clock's error that this adds is in `MarginAssumption`, which counts it twice.
* **Shutdown.** `ServeForever`, `LeaveLoop`, `SetRequest` and `Awaited` are what
  `socketserver.BaseServer` does with its flag and its event, taken from how
  `__main__.py` uses it; `CallerIsServer` says whether `shutdown()` runs on top
  of the serving thread (the program, which only `Lifecycle_signal` runs) or beside it
  (the tests, and with them `HttpFront`).
* **Registration and routing.** A token is a record of what the gateway sees of
  it (`shape`) and of what only its provider knows (`issuer`, `environment`,
  `purpose`). `Accepts` is the conjunction of the checks of `register_device`,
  one operator each; which message a refused form gets is left out. `Start`,
  `Answer`, `GoWrong`, `NotConfigured`, `Forget`, `ClearVoip` and `Leave` are an
  entry that has found its row; the other exits and the races are `Gateway`'s.
  `ApnsTruth` and `FcmTruth` are the providers, `ApnsTrouble` and `FcmTrouble`
  answers that say nothing of the token, unreadable ones among them. What is
  assumed about the world: a token that is good for anything was issued by Apple,
  in hex digits, or by Google, never as a string of lowercase hex digits
  (`server.py` 35-48), and only Apple issues PushKit tokens (`TokensAssumption`);
  and APNs answers `BadDeviceToken` for a token of the other environment
  (`server.py` 237-243). What clients claim is not restricted: forms may hold
  junk, and tokens of another kind or environment than they say.
* **HTTP front.** `conn` is one record per handler thread: the request, where
  the handler is, the gates that are left, and the bytes, in units, that the
  peer has to write, that are on the wire and that are read. The gates of each
  method stand in `Gates` in the order of the code; `Pay` is the only one that
  changes shared state, a bucket of a limiter, which appears as the tokens left.
  `Reply` closes the connection: a peer that has bytes unread may find it reset
  instead of the answer. `AnswersArrive` says how the connection of a peer that
  keeps up may end, and names three ways other than an answer. *Reset* (`MayLose`):
  after the refusals that read no body (400, 401, 404, 429), with a body that goes
  on beyond its announced length or the drain cap, or with one that comes with a
  GET or HEAD, which nothing reads. *Raised* (`MayRaise`): an exception that
  nothing catches ends the handler, and no answer is sent at all. It comes from
  the form or the application, or from `compare_digest`, which takes no key that is
  not ASCII (`server.py` 690-692): such a request gets no 401, although it gets
  nothing else either and costs no token. No document or test promises a 401 for
  it (`README.md` 98 and 182 speak of unset and wrong keys), so it is named here and
  is no finding. Configured keys are taken to be ASCII. *Cut*: the process ended
  with the handler at work.
  `AddressAssumption` says that no client is the trusted proxy. `Stall` is ten seconds of silence. A handler ends by
  `Lifecycle`'s `Finish`, and one that still runs when the process exits leaves
  its peer without an answer.

Modules that are proved about use no recursion; the constants carry named
assumptions that TLC evaluates in the runs.

## 3. Runs

| Run | Expect | Shows | States |
|---|---|---|---|
| `ReplayGuard` | pass | safety, the refinement of `ReplayWindow`, and that in-flight entries end | 0.2 M |
| `RateLimiter` | pass | the budget under stale readings and evictions, the refinement of `TokenBudget` | 1.4 M |
| `RateLimiter_hour` | violation | finding 1 | |
| `Gateway_race` | pass | two threads, an alert and a call to one device | 1.1 M |
| `Gateway_live` | pass | batches with every kind of entry: all are counted, requests end, lost reports heal | 0.1 M |
| `Gateway_stale` | violation | finding 2 | |
| `Gateway_unregister` | violation | finding 3 | |
| `AuthToken_safety` | pass | fresh tokens, spaced mints | |
| `DeviceStore` | pass | transactions, key pin, migration, the refinement of `Registry` | 0.1 M |
| `Routing` | pass | what is registered can be delivered, and to its issuer; only dead tokens are forgotten, and they are | 44 k |
| `HttpFront` | pass | who pays, answers arrive but for the named reasons, connections end, shutdown from another thread completes | 18 k |
| `Lifecycle_signal` | violation | finding 4 | |

**Bounds, and why they are enough.**

* `ReplayGuard`: two callers, three pairs, two slots, so that the guard is full
  while a third pair asks; TTL 1 and three ticks, so that a pair is delivered,
  expires and is delivered again, and a reading can be a whole TTL old; four
  leases. Nothing relates more than two callers or more than one pair besides
  the cap. The proofs cover the rest.
* `RateLimiter`: a bucket of two tokens of two units (so that fractions occur), a
  thread up to one tick late, idle time `Full + 2 * MaxStale`, the smallest that
  the argument allows, and eight ticks, enough to empty, idle out, evict and
  return. Clients' buckets in the code have an idle time 60 times their refill time;
  the breaker has an idle time equal to its refill time and a single key, whose
  eviction is harmless for another reason (`IdleAssumption` allows both).
* `Gateway`: two threads are what every race of this code needs (one that read,
  one that writes); two token generations; one fault and one restart in the
  race, two faults in the liveness run, where tokens do not rotate but batches
  are mixed: one entry, a batch of three at a cap of two whose first entry cannot
  be parsed, and one whose second entry raises (`Mixed`); a breaker of one token
  so that it runs out. History counters saturate at
  `CountLimit`, and the property that uses them says nothing beyond.
* `AuthToken`: a lifetime of five units with the tightest margin that
  `MarginAssumption` admits, and time for two renewals.
* `Routing`: one device and one thread, since the races are in `Gateway`; five
  tokens (ordinary ones of both Apple environments, PushKit, FCM, junk), every combination of
  provider and environment with them, also blank and unknown values, faulty
  keys, signatures and identifiers, rows of both kinds from before the columns
  existed, and all five configurations. Tokens and keys are compared and never
  computed with, so more of them add nothing.
* `HttpFront`: one handler thread, that is, requests one after another: threads
  meet only in the limiters, whose races `RateLimiter` has. Sizes are the
  smallest that keep all cases apart: a body within the limit that does not fit
  the socket at once, an oversized one within the drain cap, and one beyond it
  (`MaxBody = 2`, `DrainCap = 4`, `Buffer = 2`, bodies up to 5). Buckets of one
  token, so that the second request is limited. The proxy is the trusted one;
  direct peers that send the header are the untrusted case.
* `DeviceStore`: two threads (a third one would only wait for the lock), two
  devices, two keys; initial tables of both versions.

**Fairness, and why the code justifies it.** `ReplayGuard` and `Gateway` assume
weak fairness of each handler thread: no step waits for another thread beyond a
lock that is held for a moment, and both HTTP clients and the server's socket
have timeouts, so a provider call ends. `Gateway_live` also assumes that the
breaker is refilled as time passes, and strong fairness of Nextcloud pushing
about a device that it has on record: that a device which gets no more
notifications is not cleaned up is how the protocol works. Restarts and faults
are bounded there, since a process that dies again and again repairs nothing.
`Routing` assumes that a push ends, and strong fairness of Nextcloud pushing
alerts to a device, of the provider answering one, and of the breaker granting:
a dead token is found only by using it. Restarts, also into configurations
without the provider, are not bounded there. `HttpFront` assumes that handler
threads get the processor, that calls of the application return (`RequestsEnd`
of `Gateway`), and that a peer either writes or has stalled, which holds because
a stall is defined by the time-out. `Lifecycle` assumes that the threads get the
processor. No other run needs fairness.

Deadlock is checked except where a bounded clock (`ReplayGuard`, `RateLimiter`)
or the end of the process (`Lifecycle`, `HttpFront`) stops the system.

Each property has a mutant in `PROJECT.json`: a plausible bug (the `Bug_`
definition beside the one it replaces) under which the run finds it violated.

## 4. Findings

1. **The breaker and "10 per hour"** (`RateLimiter_hour`). `README.md` of the
   repository, 360-362, says at most 10 devices per hour are reported as unknown. A
   bucket of 10 that refills at 10 per hour allows up to 20 within an hour: its
   content at the start, and the refill during it. What holds, and is proved, is
   `BudgetHolds`: capacity plus refill.
2. **A registration during a provider call** (`Gateway_stale`). The verdict
   "this token is dead" is about the row read before the call, and the deletion
   (`server.py` 433) goes by device identifier. A registration with a fresh token in
   between is deleted, and Nextcloud is told to forget the device. The same
   happens to a fresh PushKit token in `clear_voip_token` (`server.py` 490), the
   second part of `OnlyDeadTokensForgotten`. The run has no calls, so its trace is
   the deletion; with a call instead of the alert (`Notifs` and `Calls` the set of
   one call for the device) the same property fails by the clearing.
3. **An unregistration after a change of hands** (`Gateway_unregister`). The
   signature is checked against the row read at `server.py` 329, the deletion at 340
   goes by identifier: if the row was deleted and registered anew under another
   key in between, that row is deleted.
4. **Shutdown in the signal handler** (`Lifecycle_signal`). `shutdown()` waits
   for `serve_forever()` to leave its loop, on the thread that is inside it. The
   tests call it from another thread, where it works (`HttpFront`).

Three weaknesses are conceded by the repository's own documents and are part of
the models, not findings: an acceptance whose answer is lost, or a restart, lets
a repeat through (`README.md` 351-354), and a reader of the store may see a row
whose commit then fails (`Registry` states it as what readers are promised). And
legacy APNs rows, which do not name their environment, are forgotten after a flip
of `APNS_USE_SANDBOX` (`server.py` 237-243): `OnlyLegacyMistaken` says that no
other rows are.

## 5. Proofs

All theorems hold for every set of threads, keys and devices and every value of
the numeric constants that meets the named assumptions.

* **`ReplayGuardProofs`** (`TtlAssumption`, `MaxEntriesAssumption`,
  `NoKeyAssumption`, `BoundAssumption`, `NoOneAssumption`). `Inv` adds to the
  checked invariants that clock readings are never ahead of the clock
  (`Readings`), that an entry expires one TTL after the delivery it records
  (`ExpiryIsDelivery`), and that generations are not shared (`LeasesDistinct`).
  `ReplayWindowHolds` alone is not inductive: a prune could take a live entry if
  the heap and the table disagreed, and a commit could be lost if a lease could
  be. Theorems: `TypeCorrect`, `WindowCorrect`, `LeasesCorrect`, `HeapCorrect`,
  `CapacityCorrect`, `DeliveriesApart`, `SuppressionTimely`, and `GuardIsWindow`:
  the guard implements `ReplayWindow`, one lemma per action. The mapping chooses
  a pair's holder as the caller with its lease; that the choice is forced needs
  that only a sending caller has a lease (`Unleased`, `HolderIs`), and that a
  step moves no other pair's holder is `HolderUnchanged`.
* **`RateLimiterProofs`** (`CostAssumption`, `FullAssumption`,
  `StaleAssumption`, `IdleAssumption`). `BudgetHolds` says
  nothing of what is left in a bucket; `Ledger` relates the two (what is left and
  what was spent never exceed a full bucket and the refill up to the bucket's
  own time), and `Evicted` says the same of a key whose bucket is gone. The
  lemma `EvictionIsFree` is where `IdleAssumption` is needed. Theorems:
  `TypeCorrect`, `NoDebtHolds`, `BudgetCorrect`, and `LimiterIsBudget`: the
  limiter implements `TokenBudget`. Its level is computed from a bucket and the
  time that passed since; only a full bucket is evicted, so its steps are sound
  for any idle time, and `IdleAssumption` enters through `Inv` alone.
* **`DeviceStoreProofs`** (`OpsAssumption`, `NoOneAssumption`). `Inv` locates every thread in its call, says what the
  connection shows at each place of a transaction (`Executed`, `Settled`), and
  that the lock is held exactly inside one. Theorems: `TypeCorrect`,
  `TransactionsCorrect`, `SchemaCorrect`, `KeyPinned`, and `StoreIsRegistry`:
  `DeviceStore` implements `Registry`, step by step, with errors and kills. The
  linearization point of a write is its commit; a reader sees a table of
  `Visible` by `WorkingIsVisible`.
* **`AuthTokenProofs`** (`LifetimeAssumption`, `ClockAssumption`,
  `NoOneAssumption`, `MarginAssumption`). `Inv` ties the wall-clock stamp to the
  true time of issue within the clock's error. Theorems: `TypeCorrect`,
  `FreshnessCorrect`, `MintsApart`.
* **`GatewayProofs`** (`DeviceOfAssumption`, `NoOneAssumption`, `CapAssumption`,
  `BatchesAssumption`, `BoundAssumption`). The many exits of an entry are first
  reduced to three: a step of a thread drops its locals, finishes the current
  entry, or goes on with it (`Finishes`, `GoesOn`); the step lemmas of the
  invariants split on these. Each theorem has the strengthening it needs:
  * `TypeCorrect`: a thread that looks at an entry has one (`Busy`).
  * `EntriesCounted`: a thread without a request has nothing left over from the
    last one (`CountedAt`), or the next would start with a wrong count.
  * `LeasesAccounted` and `NoRepeats`: what is remembered is not held
    (`Exclusive`), and a pair known to be accepted is remembered or still held by
    the thread about to commit it (`ConfirmedKept`). The second is the window
    between the provider's answer and the commit; without it a second thread
    could reserve in between.
  * `TargetsAddressed`: the PushKit token of a row, and of every snapshot of one,
    was registered together with its push token (`Matched`), and past the hash
    comparison the snapshot is the registration that was named (`Addressed`).
  * `DamageBounded`: each token that was in the breaker is still there, spent on
    a listed entry, or in the hands of a thread between the grant and the
    deletion, or lost with one that failed (`Ledger`); `BreakerBoundsDamage`
    does not see the third kind.
* **`RoutingProofs`** (`OldRowsAssumption`, `TokensAssumption`). What a table's
  row has to say for a later delivery (`WellFormed`) holds of the snapshots under
  way as well (`Routed`), since their rows may be gone or replaced, and because
  of `AcceptedWellFormed`: whatever `register_device` accepts says it. A verdict
  is the truth of the provider or says nothing of the token (`AnswerJustified`),
  and is kept with the job until it is acted upon (`Justified`). Theorems:
  `TypeCorrect`, `RowsDeliverable`, `IssuersReached`, `MistakesAreLegacy`. The
  last two speak of truthful registrations and use `TokensAssumption`, by
  `TruthfulTarget`: a token's shape has to tell who issued it.
* **`HttpFrontProofs`** (`SizeAssumption`, `AddressAssumption`,
  `RequestsAssumption`). For `Lifecycle`: once `shutdown()`'s event is set, or
  the call has returned, the server has left its loop and never enters it again
  (`Departed`). For the front, every connection is `Sound`: the gates left are a
  suffix of its method's gates and all before were passed (`Gated`), a body is
  read or waited for only where it may be (`Placed`), and what was read, is on
  the wire and is to be written never exceeds what the request has. `HandlerStep`
  then leaves three kinds of steps, `Moves`, `Pay` and `Ends`, and each property
  is about one of them. Theorems: `LifecycleTypeCorrect`, `ShutdownFinal`,
  `FrontTypeCorrect`, `FrontIsLifecycle` (the front implements `Lifecycle`),
  `FrontShutdownFinal`, `OnlySendersPay`, `AnswersReachPeers`. `OnlySendersPay`
  needs `AddressAssumption`: a client with the proxy's address could make up the
  header. `AnswersReachPeers` says of every request, body size and buffer that an
  answer is missing only where `MayLose` and `MayRaise` say so (section 2) or where
  the process has ended; that a 413 or an answer of the application is not lost to a
  body of the announced length is where `Wanted` and the sizes in `Sound` come in.

So every invariant, every action property and every refinement that a passing
run checks is also proved. Only model-checked is liveness: `InFlightEnds`,
`RequestsEnd`, `LostReportsHeal`, `DeadTokensForgotten`, `ConnectionsEnd` and
`ShutdownCompletes`. They need fairness, hence `ENABLED`, which is out of the
prover's reach. The history counters of `Gateway` saturate in the proofs as in
the runs, at any `CountLimit`.

## 6. Not modelled, and why

* RSA itself (`crypto.py`): signatures are ideal, only the holder of a key signs.
  What the code adds to the library, which keys it loads and what a signature
  covers, is in `Registration`.
* Reading the environment (`config.py` 53-86): strings and defaults, once, before
  anything runs. The switches made from it are in `Routing` and `HttpFront`.
* Which of several errors of a form is reported, payloads, headers other than
  those that decide something, logging, timestamps, and float rounding in the
  limiter.
* HTTP as such: methods that the service does not know, malformed heads and the
  parsing of forms are the standard library's. A body that ends early is read
  as what came of it (`Complete`), as the code does.
* `count()` reads like `get` and changes nothing.

## 7. Plan

Modelled in this order: replay guard, rate limiter, delivery, device store, provider
tokens, shutdown, registration and routing, HTTP front. Each has its properties
at the hazards in `PROJECT.json`; the invariants, action properties and
refinements are proved. What is left:

1. Theorems about the abstract specifications themselves, so that they speak for
   every implementation: `ReplayWindow` keeps deliveries a TTL apart, and
   `TokenBudget` bounds what is granted in an interval.
2. That what `Gateway` assumes of the guard, the breaker and the store follows from
   `ReplayWindow`, `TokenBudget` and `Registry`: today the correspondence is by
   reading (section 2).
