---------------------------- MODULE DeviceStore ----------------------------
(***************************************************************************)
(* DeviceStore of app/db.py: the devices table, one SQLite connection that *)
(* all handler threads share, and one lock for the writers.                *)
(*                                                                         *)
(* A write executes its statement in a transaction that the sqlite3 module *)
(* opens, and then commits it: two steps under the lock.  get() and count()*)
(* take no lock, and they read through the same connection, so they see    *)
(* what a writer has executed and not yet committed.  `working` is the     *)
(* table as the connection sees it, `committed` what is on disk.           *)
(*                                                                         *)
(* The process may be killed at any step.  When it starts again it looks up*)
(* which columns the table has and adds the missing ones, each ALTER TABLE *)
(* being durable by itself.                                                *)
(*                                                                         *)
(* A row is its key, its token (the push token with its hash, provider and *)
(* environment, which are always written together) and whether it has a    *)
(* PushKit token.  Timestamps are left out.                                *)
(***************************************************************************)
EXTENDS Integers, Sequences

CONSTANTS
    Threads,      \* handler threads
    Devices,      \* deviceIdentifiers
    Users,        \* public keys
    Tokens,       \* push tokens
    Ops,          \* the operations that the threads call
    NoOne,        \* no thread, no key, no token
    Errors,       \* whether database errors are considered
    Kills         \* whether kills of the process are considered

ASSUME OpsAssumption   == Ops \subseteq {"register", "clear_voip_token", "delete", "get"}
ASSUME NoOneAssumption == NoOne \notin Threads \cup Users \cup Tokens
ASSUME FaultAssumption == Errors \in BOOLEAN /\ Kills \in BOOLEAN

VARIABLES
    process,     \* whether the process is down, opening the store, or serving
    columns,     \* the optional columns that the table on disk has
    missing,     \* the ones that this start has still to add
    committed,   \* the rows on disk
    working,     \* the rows as the connection sees them
    lock,        \* who holds _lock, or NoOne
    pc,          \* where each thread is
    call,        \* the call of each thread
    answer       \* what each thread's last call returned or raised

vars == <<process, columns, missing, committed, working, lock, pc, call, answer>>

schema == <<process, columns, missing>>

\* The columns that __init__ adds to an old table, in its order.
AddedColumns == <<"push_environment", "push_provider", "voip_token">>
Columns      == {"push_environment", "push_provider", "voip_token"}

Row   == [owner : Users, token : Tokens, voip : BOOLEAN]
NoRow == [owner |-> NoOne, token |-> NoOne, voip |-> FALSE]

\* Only a registration carries a row.
Calls ==
    {c \in [op : Ops, device : Devices, row : Row \cup {NoRow}] :
        c.op = "register" <=> c.row # NoRow}

NoCall == [op |-> "none", device |-> NoOne, row |-> NoRow]

Answer(kind) == [kind |-> kind, row |-> NoRow]

Places == {"idle", "waiting", "locked", "executed", "refused", "failed", "rereading"}

\* Places at which a thread is inside `with self._write()`.
Writing == {"locked", "executed", "refused", "failed"}

TypeOK ==
    /\ process \in {"down", "opening", "up"}
    /\ columns \subseteq Columns /\ missing \subseteq Columns
    /\ DOMAIN committed \subseteq Devices /\ committed \in [DOMAIN committed -> Row]
    /\ DOMAIN working \subseteq Devices /\ working \in [DOMAIN working -> Row]
    /\ lock \in Threads \cup {NoOne}
    /\ pc \in [Threads -> Places]
    /\ call \in [Threads -> Calls \cup {NoCall}]
    /\ answer \in [Threads -> [kind : {"none", "ok", "mismatch", "error", "row"},
                               row : Row \cup {NoRow}]]

-----------------------------------------------------------------------------
(* The statements.                                                         *)

\* Bug: the row of another key takes the new token and keeps its key.
Bug_AffectsAny(table, c) == TRUE

\* Whether the statement of a register changes a row (`rowcount` is not 0): a
\* conflicting row is only updated under its own key.
Affects(table, c) ==
    c.device \in DOMAIN table => table[c.device].owner = c.row.owner

Upserted(table, c) ==
    [d \in DOMAIN table \cup {c.device} |-> IF d = c.device THEN c.row ELSE table[d]]

VoipCleared(table, c) ==
    [d \in DOMAIN table |->
        IF d = c.device THEN [table[d] EXCEPT !.voip = FALSE] ELSE table[d]]

\* Bug: the deleted row leaves an empty one behind.
Bug_DeletedBlank(table, c) == [d \in DOMAIN table |-> IF d = c.device THEN NoRow ELSE table[d]]

Deleted(table, c) == [d \in DOMAIN table \ {c.device} |-> table[d]]

Found(table, d) == IF d \in DOMAIN table THEN table[d] ELSE NoRow

-----------------------------------------------------------------------------
\* A new or a complete table, or one of the first version with a row in it.
Init ==
    /\ process = "down" /\ missing = {}
    /\ \/ columns = Columns /\ committed = [d \in {} |-> NoRow]
       \/ /\ columns = {}
          /\ \E d \in Devices : \E r \in Row : ~r.voip /\ committed = [x \in {d} |-> r]
    /\ working = committed
    /\ lock = NoOne
    /\ pc = [t \in Threads |-> "idle"]
    /\ call = [t \in Threads |-> NoCall]
    /\ answer = [t \in Threads |-> Answer("none")]

(* Start of the process.                                                   *)

\* Bug: the first column stands for all of them.
Bug_MissingColumns == IF "push_environment" \in columns THEN {} ELSE Columns

MissingColumns == Columns \ columns

\* __init__ up to the set of columns.
Open ==
    /\ process = "down"
    /\ process' = "opening"
    /\ missing' = MissingColumns
    /\ UNCHANGED <<columns, committed, working, lock, pc, call, answer>>

\* One ALTER TABLE; the rows get NULL in it.
AddColumn ==
    /\ process = "opening"
    /\ \E i \in 1..Len(AddedColumns) :
          /\ AddedColumns[i] \in missing
          /\ \A j \in 1..(i - 1) : AddedColumns[j] \notin missing
          /\ columns' = columns \cup {AddedColumns[i]}
          /\ missing' = missing \ {AddedColumns[i]}
    /\ UNCHANGED <<process, committed, working, lock, pc, call, answer>>

Serve ==
    /\ process = "opening"
    /\ missing = {}
    /\ process' = "up"
    /\ UNCHANGED <<columns, missing, committed, working, lock, pc, call, answer>>

\* The process is killed: what was not committed is gone.
Crash ==
    /\ process # "down"
    /\ Kills
    /\ process' = "down" /\ missing' = {}
    /\ working' = committed
    /\ lock' = NoOne
    /\ pc' = [t \in Threads |-> "idle"]
    /\ answer' = [t \in Threads |-> Answer("none")]
    /\ UNCHANGED <<columns, committed, call>>

-----------------------------------------------------------------------------
(* Calls.                                                                  *)

At(t, place) == process = "up" /\ pc[t] = place

GoTo(t, place) == pc' = [pc EXCEPT ![t] = place]

Return(t, said) ==
    /\ GoTo(t, "idle")
    /\ answer' = [answer EXCEPT ![t] = said]

Ask(t, c) ==
    /\ At(t, "idle")
    /\ GoTo(t, "waiting")
    /\ call' = [call EXCEPT ![t] = c]
    /\ answer' = [answer EXCEPT ![t] = Answer("none")]
    /\ UNCHANGED <<schema, committed, working, lock>>

\* get(): no lock is taken.
Get(t) ==
    /\ At(t, "waiting")
    /\ call[t].op = "get"
    /\ Return(t, [kind |-> "row", row |-> Found(working, call[t].device)])
    /\ UNCHANGED <<schema, committed, working, lock, call>>

GetFails(t) ==
    /\ At(t, "waiting")
    /\ call[t].op = "get"
    /\ Errors
    /\ Return(t, Answer("error"))
    /\ UNCHANGED <<schema, committed, working, lock, call>>

\* _write() takes the lock.
Acquire(t) ==
    /\ At(t, "waiting")
    /\ call[t].op # "get"
    /\ lock = NoOne
    /\ lock' = t
    /\ GoTo(t, "locked")
    /\ UNCHANGED <<schema, committed, working, call, answer>>

\* The statement succeeds ...
Execute(t) ==
    /\ At(t, "locked")
    /\ \/ /\ call[t].op = "register"
          /\ Affects(working, call[t])
          /\ working' = Upserted(working, call[t])
       \/ call[t].op = "clear_voip_token" /\ working' = VoipCleared(working, call[t])
       \/ call[t].op = "delete" /\ working' = Deleted(working, call[t])
    /\ GoTo(t, "executed")
    /\ UNCHANGED <<schema, committed, lock, call, answer>>

\* ... or changes no row, which register() turns into a PublicKeyMismatch ...
Refuse(t) ==
    /\ At(t, "locked")
    /\ call[t].op = "register"
    /\ ~Affects(working, call[t])
    /\ GoTo(t, "refused")
    /\ UNCHANGED <<schema, committed, working, lock, call, answer>>

\* ... or fails, or its commit does.
StatementFails(t) ==
    /\ At(t, "locked") \/ At(t, "executed")
    /\ Errors
    /\ GoTo(t, "failed")
    /\ UNCHANGED <<schema, committed, working, lock, call, answer>>

\* The commit, after which the lock is released.  register() reads the row
\* again before it returns.
Commit(t) ==
    /\ At(t, "executed")
    /\ committed' = working
    /\ lock' = NoOne
    /\ IF call[t].op = "register"
       THEN GoTo(t, "rereading") /\ UNCHANGED answer
       ELSE Return(t, Answer("ok"))
    /\ UNCHANGED <<schema, working, call>>

\* Bug: the exception leaves the transaction open.
Bug_RollbackSkipped(t) ==
    /\ At(t, "refused") \/ At(t, "failed")
    /\ lock' = NoOne
    /\ Return(t, Answer(IF pc[t] = "refused" THEN "mismatch" ELSE "error"))
    /\ UNCHANGED <<schema, committed, working, call>>

\* Bug: a failed commit is taken for a success.
Bug_RollbackSwallows(t) ==
    /\ At(t, "refused") \/ At(t, "failed")
    /\ working' = committed
    /\ lock' = NoOne
    /\ Return(t, Answer(IF pc[t] = "refused" THEN "mismatch" ELSE "ok"))
    /\ UNCHANGED <<schema, committed, call>>

\* The exception leaves _write(): the transaction is rolled back.
Rollback(t) ==
    /\ At(t, "refused") \/ At(t, "failed")
    /\ working' = committed
    /\ lock' = NoOne
    /\ Return(t, Answer(IF pc[t] = "refused" THEN "mismatch" ELSE "error"))
    /\ UNCHANGED <<schema, committed, call>>

\* The final get() of register(), whose row nobody uses.  If it fails, the
\* caller hears of an error although its registration is on disk.
Reread(t) ==
    /\ At(t, "rereading")
    /\ Return(t, Answer("ok"))
    /\ UNCHANGED <<schema, committed, working, lock, call>>

RereadFails(t) ==
    /\ At(t, "rereading")
    /\ Errors
    /\ Return(t, Answer("error"))
    /\ UNCHANGED <<schema, committed, working, lock, call>>

InWrite(t) ==
    Execute(t) \/ Refuse(t) \/ StatementFails(t) \/ Commit(t) \/ Rollback(t)

Next ==
    \/ Open \/ AddColumn \/ Serve \/ Crash
    \/ \E t \in Threads :
          \/ \E c \in Calls : Ask(t, c)
          \/ Get(t) \/ GetFails(t)
          \/ Acquire(t) \/ InWrite(t)
          \/ Reread(t) \/ RereadFails(t)

Spec == Init /\ [][Next]_vars

-----------------------------------------------------------------------------
(* The lock serializes the writers, and what a reader sees differs from the*)
(* disk in at most the row that the one writer inside its transaction is   *)
(* about to commit or to roll back: whatever failed before leaves nothing  *)
(* behind in the shared connection for a later commit to pick up.          *)
OneOpenTransaction ==
    /\ \A t \in Threads : pc[t] \in Writing <=> lock = t
    /\ working # committed =>
          /\ lock # NoOne /\ pc[lock] \in {"executed", "failed"}
          /\ \A d \in Devices \ {call[lock].device} :
                Found(working, d) = Found(committed, d)

(* The key that a device was first registered under is pinned: no sequence *)
(* of racing registrations, failures and restarts puts another key into the*)
(* row on disk while the row exists (db.py:4-7, README.md:330-331).        *)
DurableKeyPinned ==
    [][\A d \in DOMAIN committed \cap DOMAIN committed' :
          committed'[d].owner = committed[d].owner]_vars

(* A store that serves has every column its statements name, even if an    *)
(* earlier start was killed in the middle of the migration.                *)
SchemaComplete == process = "up" => columns = Columns
=============================================================================
