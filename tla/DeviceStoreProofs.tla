------------------------- MODULE DeviceStoreProofs -------------------------
(***************************************************************************)
(* Proofs about DeviceStore for every set of threads, devices, keys and    *)
(* tokens, with database errors and kills of the process.                  *)
(*                                                                         *)
(* The invariant says what the connection's view of the table is for the   *)
(* thread inside its transaction: the effect of its own statement on what  *)
(* is on disk, and of nothing else (Executed).  From it follow the key pin *)
(* of the rows on disk and the refinement of Registry.                     *)
(***************************************************************************)
EXTENDS DeviceStoreRefines, TLAPS

\* The table that an accepted write makes of a table.
Outcome(table, c) ==
    CASE c.op = "register"         -> Upserted(table, c)
      [] c.op = "clear_voip_token" -> VoipCleared(table, c)
      [] c.op = "delete"           -> Deleted(table, c)

Writes == {"register", "clear_voip_token", "delete"}

HasCall(t) == call[t] \in Calls

Located ==
    \A t \in Threads :
        /\ pc[t] # "idle" => HasCall(t)
        /\ pc[t] \in Writing => call[t].op \in Writes
        /\ pc[t] \in {"refused", "rereading"} => call[t].op = "register"

Executed ==
    \A t \in Threads :
        /\ pc[t] = "refused" => ~Affects(committed, call[t])
        /\ pc[t] = "executed" =>
              /\ call[t].op = "register" => Affects(committed, call[t])
              /\ working = Outcome(committed, call[t])
        /\ pc[t] = "failed" =>
              \/ working = committed
              \/ /\ call[t].op = "register" => Affects(committed, call[t])
                 /\ working = Outcome(committed, call[t])

\* Outside a transaction the connection sees what is on disk.
Settled ==
    /\ lock = NoOne => working = committed
    /\ \A t \in Threads : lock = t /\ pc[t] \in {"locked", "refused"} => working = committed

Holder == \A t \in Threads : pc[t] \in Writing <=> lock = t

Migration ==
    /\ process = "opening" => missing = Columns \ columns
    /\ process = "up" => columns = Columns

Inv == TypeOK /\ Located /\ Executed /\ Settled /\ Holder /\ Migration /\ OneOpenTransaction

LEMMA NoOneFacts == NoOne \notin Threads /\ NoOne \notin Users /\ NoOne \notin Tokens
BY NoOneAssumption

LEMMA CallFacts ==
    ASSUME NEW c \in Calls
    PROVE  /\ c.device \in Devices
           /\ c.op \in Ops
           /\ c.op = "register" => c.row \in Row
BY DEF Calls

LEMMA InitInv == Init => Inv
<1> SUFFICES ASSUME Init PROVE Inv
  OBVIOUS
<1>1. /\ DOMAIN committed \subseteq Devices
      /\ committed \in [DOMAIN committed -> Row]
  BY DEF Init
<1>2. TypeOK
  BY <1>1 DEF Init, TypeOK, Answer, Places, NoRow
<1> QED BY <1>2, NoOneFacts
        DEF Init, Inv, Located, Executed, Settled, Holder, Migration, OneOpenTransaction,
            Writing, Columns

(* Starting and ending the process.                                        *)

LEMMA StartInv ==
    ASSUME Inv, Open \/ AddColumn \/ Serve
    PROVE  Inv'
<1>1. /\ UNCHANGED <<committed, working, lock, pc, call, answer>>
  BY DEF Open, AddColumn, Serve
<1>2. TypeOK'
  BY <1>1 DEF Inv, TypeOK, Open, AddColumn, Serve, MissingColumns, Columns
<1>3. Migration'
  <2>1. CASE Open
    BY <2>1 DEF Open, Migration, MissingColumns
  <2>2. CASE AddColumn
    BY <2>2 DEF Inv, AddColumn, Migration, AddedColumns, Columns
  <2>3. CASE Serve
    BY <2>3 DEF Inv, TypeOK, Serve, Migration
  <2> QED BY <2>1, <2>2, <2>3
<1>4. (Located /\ Executed /\ Settled /\ Holder /\ OneOpenTransaction)'
  BY <1>1 DEF Inv, Located, HasCall, Executed, Settled, Holder, OneOpenTransaction
<1> QED BY <1>2, <1>3, <1>4 DEF Inv

LEMMA CrashInv == Inv /\ Crash => Inv'
<1> SUFFICES ASSUME Inv, Crash PROVE Inv'
  OBVIOUS
<1>1. TypeOK'
  BY DEF Inv, TypeOK, Crash, Places, Answer, NoRow
<1> QED BY <1>1, NoOneFacts
        DEF Inv, Crash, Located, Executed, Settled, Holder, Migration, OneOpenTransaction,
            Writing

-----------------------------------------------------------------------------
(* Steps of a thread that touch neither the table nor the lock.            *)

LEMMA OutsideInv ==
    ASSUME Inv, NEW t \in Threads,
           \/ \E c \in Calls : Ask(t, c)
           \/ Get(t) \/ GetFails(t) \/ Reread(t) \/ RereadFails(t)
    PROVE  Inv'
<1>1. /\ UNCHANGED <<schema, committed, working, lock>>
      /\ pc[t] \in {"idle", "waiting", "rereading"}
      /\ pc' \in {[pc EXCEPT ![t] = "waiting"], [pc EXCEPT ![t] = "idle"]}
      /\ \A u \in Threads \ {t} : call'[u] = call[u]
  BY DEF Inv, TypeOK, Ask, Get, GetFails, Reread, RereadFails, At, GoTo, Return
<1>2. pc'[t] # "idle" => call'[t] \in Calls
  BY DEF Inv, TypeOK, Ask, Get, GetFails, Reread, RereadFails, At, GoTo, Return, Places
<1>3. \A u \in Threads : pc'[u] = IF u = t THEN pc'[t] ELSE pc[u]
  BY <1>1 DEF Inv, TypeOK
<1>4. pc'[t] \in {"idle", "waiting"} /\ lock # t
  BY <1>1 DEF Inv, TypeOK, Holder, Writing
<1>5. TypeOK'
  <2>1. call' \in [Threads -> Calls \cup {NoCall}]
    BY DEF Inv, TypeOK, Ask, Get, GetFails, Reread, RereadFails
  <2>2. answer' \in [Threads -> [kind : {"none", "ok", "mismatch", "error", "row"},
                                 row : Row \cup {NoRow}]]
    BY DEF Inv, TypeOK, Ask, Get, GetFails, Reread, RereadFails, Return, Answer, Found
  <2> QED BY <1>1, <2>1, <2>2 DEF Inv, TypeOK, schema, Places
<1>6. Located'
  BY <1>1, <1>2, <1>3, <1>4 DEF Inv, Located, HasCall, Writing
<1>7. Executed'
  BY <1>1, <1>3, <1>4 DEF Inv, Executed
<1>8. Settled' /\ Holder' /\ Migration'
  BY <1>1, <1>3, <1>4 DEF Inv, Settled, Holder, Migration, Writing, schema
<1>9. OneOpenTransaction'
  BY <1>1, <1>3, <1>4, <1>8, NoOneFacts
     DEF Inv, TypeOK, OneOpenTransaction, Holder, Writing, Found
<1> QED BY <1>5, <1>6, <1>7, <1>8, <1>9 DEF Inv

-----------------------------------------------------------------------------
(* Steps inside _write().                                                  *)

LEMMA AcquireInv ==
    ASSUME Inv, NEW t \in Threads, Acquire(t)
    PROVE  Inv'
<1>1. /\ UNCHANGED <<schema, committed, working, call, answer>>
      /\ pc[t] = "waiting" /\ lock = NoOne /\ lock' = t
      /\ pc' = [pc EXCEPT ![t] = "locked"]
      /\ call[t].op # "get"
  BY DEF Acquire, At, GoTo
<1>2. call[t] \in Calls /\ call[t].op \in Writes
  BY <1>1, CallFacts, OpsAssumption DEF Inv, Located, HasCall, Writes
<1>3. \A u \in Threads : pc'[u] = IF u = t THEN "locked" ELSE pc[u]
  BY <1>1 DEF Inv, TypeOK
<1>4. TypeOK'
  BY <1>1 DEF Inv, TypeOK, schema, Places
<1>5. Located'
  BY <1>1, <1>2, <1>3 DEF Inv, Located, HasCall, Writing
<1>6. Executed'
  BY <1>1, <1>3 DEF Inv, Executed
<1>7. Settled' /\ Holder' /\ Migration'
  BY <1>1, <1>3, NoOneFacts DEF Inv, Settled, Holder, Migration, Writing, schema
<1>8. OneOpenTransaction'
  BY <1>1, <1>7 DEF Inv, Settled, Holder, OneOpenTransaction
<1> QED BY <1>4, <1>5, <1>6, <1>7, <1>8 DEF Inv

\* A statement changes no row but the one of its device, and makes a table.
LEMMA OutcomeFacts ==
    ASSUME Inv, NEW c \in Calls, c.op \in Writes
    PROVE  /\ DOMAIN Outcome(committed, c) \subseteq Devices
           /\ Outcome(committed, c) \in [DOMAIN Outcome(committed, c) -> Row]
           /\ \A d \in Devices \ {c.device} : Found(Outcome(committed, c), d) = Found(committed, d)
<1>1. /\ DOMAIN committed \subseteq Devices
      /\ committed \in [DOMAIN committed -> Row]
      /\ c.device \in Devices
      /\ c.op = "register" => c.row \in Row
  BY CallFacts DEF Inv, TypeOK
<1>2. CASE c.op = "register"
  <2>1. Outcome(committed, c) = Upserted(committed, c)
    BY <1>2 DEF Outcome
  <2> QED BY <1>1, <1>2, <2>1 DEF Upserted, Found
<1>3. CASE c.op = "clear_voip_token"
  <2>1. Outcome(committed, c) = VoipCleared(committed, c)
    BY <1>3 DEF Outcome
  <2>2. \A d \in DOMAIN committed : [committed[d] EXCEPT !.voip = FALSE] \in Row
    BY <1>1 DEF Row
  <2> QED BY <1>1, <2>1, <2>2 DEF VoipCleared, Found
<1>4. CASE c.op = "delete"
  <2>1. Outcome(committed, c) = Deleted(committed, c)
    BY <1>4 DEF Outcome
  <2> QED BY <1>1, <2>1 DEF Deleted, Found
<1> QED BY <1>2, <1>3, <1>4 DEF Writes

LEMMA ExecuteInv ==
    ASSUME Inv, NEW t \in Threads, Execute(t)
    PROVE  Inv'
<1>1. /\ UNCHANGED <<schema, committed, lock, call, answer>>
      /\ pc[t] = "locked" /\ lock = t
      /\ pc' = [pc EXCEPT ![t] = "executed"]
  BY DEF Inv, Holder, Writing, Execute, At, GoTo
<1>2. call[t] \in Calls /\ call[t].op \in Writes /\ working = committed
  BY <1>1 DEF Inv, Located, HasCall, Settled, Writing
<1>3. /\ working' = Outcome(committed, call[t])
      /\ call[t].op = "register" => Affects(committed, call[t])
  BY <1>2 DEF Execute, Outcome, Writes
<1>4. \A u \in Threads : pc'[u] = IF u = t THEN "executed" ELSE pc[u]
  BY <1>1 DEF Inv, TypeOK
<1>5. TypeOK'
  BY <1>1, <1>2, <1>3, OutcomeFacts DEF Inv, TypeOK, schema, Places
<1>6. Located'
  BY <1>1, <1>2, <1>4 DEF Inv, Located, HasCall, Writing
<1>7. \A u \in Threads \ {t} : pc[u] \notin Writing
  BY <1>1 DEF Inv, Holder
<1>8. Executed'
  BY <1>1, <1>3, <1>4, <1>7 DEF Executed, Writing
<1>9. Settled' /\ Holder' /\ Migration'
  BY <1>1, <1>4, NoOneFacts DEF Inv, Settled, Holder, Migration, Writing, schema
<1>10. OneOpenTransaction'
  BY <1>1, <1>2, <1>3, <1>4, <1>9, NoOneFacts, OutcomeFacts
     DEF OneOpenTransaction, Holder, Found
<1> QED BY <1>5, <1>6, <1>8, <1>9, <1>10 DEF Inv

LEMMA StillInv ==
    ASSUME Inv, NEW t \in Threads, Refuse(t) \/ StatementFails(t)
    PROVE  Inv'
<1>1. /\ UNCHANGED <<schema, committed, working, lock, call, answer>>
      /\ pc[t] \in {"locked", "executed"} /\ lock = t
      /\ pc' \in {[pc EXCEPT ![t] = "refused"], [pc EXCEPT ![t] = "failed"]}
  BY DEF Inv, Holder, Writing, Refuse, StatementFails, At, GoTo
<1>2. pc'[t] \in {"refused", "failed"}
  BY <1>1 DEF Inv, TypeOK
<1>3. \A u \in Threads : pc'[u] = IF u = t THEN pc'[t] ELSE pc[u]
  BY <1>1 DEF Inv, TypeOK
<1>4. call[t] \in Calls /\ call[t].op \in Writes
  BY <1>1 DEF Inv, Located, HasCall, Writing
<1>5. pc'[t] = "refused" =>
        /\ pc[t] = "locked" /\ call[t].op = "register" /\ ~Affects(working, call[t])
        /\ working = committed
  BY <1>1 DEF Inv, TypeOK, Refuse, StatementFails, At, GoTo, Settled
<1>6. TypeOK'
  BY <1>1 DEF Inv, TypeOK, schema, Places
<1>7. Located'
  BY <1>1, <1>2, <1>3, <1>4, <1>5 DEF Inv, Located, HasCall, Writing
<1>8. Executed'
  <2>1. \/ working = committed
        \/ /\ call[t].op = "register" => Affects(committed, call[t])
           /\ working = Outcome(committed, call[t])
    BY <1>1 DEF Inv, Executed, Settled
  <2>2. /\ UNCHANGED <<committed, working, call>>
        /\ \A c : Affects(committed, c)' = Affects(committed, c)
        /\ \A c : Outcome(committed, c)' = Outcome(committed, c)
    BY <1>1 DEF Affects, Outcome, Upserted, VoipCleared, Deleted
  <2>3. \A u \in Threads \ {t} : pc'[u] = pc[u]
    BY <1>3
  <2> QED BY <1>1, <1>2, <1>5, <2>1, <2>2, <2>3 DEF Inv, Executed
<1>9. Settled' /\ Holder' /\ Migration'
  BY <1>1, <1>2, <1>3, <1>5, NoOneFacts DEF Inv, Settled, Holder, Migration, Writing, schema
<1>10. working # committed => pc'[t] = "failed"
  BY <1>2, <1>5
<1>11. OneOpenTransaction'
  BY <1>1, <1>9, <1>10 DEF Inv, OneOpenTransaction, Holder
<1> QED BY <1>6, <1>7, <1>8, <1>9, <1>11 DEF Inv

\* The end of a transaction: the two views agree and the lock is free.
LEMMA EndInv ==
    ASSUME Inv, NEW t \in Threads, Commit(t) \/ Rollback(t)
    PROVE  Inv'
<1>1. /\ UNCHANGED <<schema, call>>
      /\ pc[t] \in {"executed", "refused", "failed"} /\ lock = t /\ lock' = NoOne
      /\ working' = committed'
      /\ committed' \in {working, committed}
      /\ pc' \in {[pc EXCEPT ![t] = "rereading"], [pc EXCEPT ![t] = "idle"]}
  BY DEF Inv, Holder, Writing, Commit, Rollback, At, GoTo, Return
<1>2. /\ pc'[t] \in {"rereading", "idle"}
      /\ pc'[t] = "rereading" => call[t].op = "register"
  BY <1>1 DEF Inv, TypeOK, Commit, Rollback, GoTo, Return
<1>3. \A u \in Threads : pc'[u] = IF u = t THEN pc'[t] ELSE pc[u]
  BY <1>1 DEF Inv, TypeOK
<1>4. \A u \in Threads : pc'[u] \notin Writing
  BY <1>1, <1>2, <1>3 DEF Inv, Holder, Writing
<1>5. TypeOK'
  <2>1. answer' \in [Threads -> [kind : {"none", "ok", "mismatch", "error", "row"},
                                 row : Row \cup {NoRow}]]
    BY DEF Inv, TypeOK, Commit, Rollback, Return, Answer
  <2> QED BY <1>1, <2>1 DEF Inv, TypeOK, schema, Places
<1>6. Located'
  BY <1>1, <1>2, <1>3, <1>4 DEF Inv, Located, HasCall, Writing
<1>7. Executed'
  BY <1>4 DEF Executed, Writing
<1>8. Settled' /\ Holder' /\ Migration'
  BY <1>1, <1>4, NoOneFacts DEF Inv, Settled, Holder, Migration, schema
<1>9. OneOpenTransaction'
  BY <1>1, <1>8 DEF OneOpenTransaction, Holder
<1> QED BY <1>5, <1>6, <1>7, <1>8, <1>9 DEF Inv

LEMMA NextInv == Inv /\ [Next]_vars => Inv'
<1> SUFFICES ASSUME Inv, [Next]_vars PROVE Inv'
  OBVIOUS
<1>1. CASE Open \/ AddColumn \/ Serve
  BY <1>1, StartInv
<1>2. CASE Crash
  BY <1>2, CrashInv
<1>3. ASSUME NEW t \in Threads,
             \/ \E c \in Calls : Ask(t, c)
             \/ Get(t) \/ GetFails(t) \/ Reread(t) \/ RereadFails(t)
      PROVE  Inv'
  BY <1>3, OutsideInv
<1>4. ASSUME NEW t \in Threads, Acquire(t) \/ InWrite(t)
      PROVE  Inv'
  BY <1>4, AcquireInv, ExecuteInv, StillInv, EndInv DEF InWrite
<1>5. CASE UNCHANGED vars
  BY <1>5 DEF vars, Inv, TypeOK, Located, HasCall, Executed, Settled, Holder, Migration,
              OneOpenTransaction
<1> QED BY <1>1, <1>2, <1>3, <1>4, <1>5 DEF Next

-----------------------------------------------------------------------------
(* The invariant of the store.                                             *)
THEOREM InvHolds == Spec => []Inv
<1>1. Init => Inv
  BY InitInv
<1>2. Inv /\ [Next]_vars => Inv'
  BY NextInv
<1> QED BY <1>1, <1>2, PTL DEF Spec

(* Rows, calls and answers stay in their types.                            *)
THEOREM TypeCorrect == Spec => []TypeOK
<1>1. Inv => TypeOK
  BY DEF Inv
<1> QED BY <1>1, InvHolds, PTL

(* The connection differs from the disk in at most the row of the one      *)
(* writer inside its transaction.                                          *)
THEOREM TransactionsCorrect == Spec => []OneOpenTransaction
<1>1. Inv => OneOpenTransaction
  BY DEF Inv
<1> QED BY <1>1, InvHolds, PTL

(* A store that serves has every column, whenever its starts were killed.  *)
THEOREM SchemaCorrect == Spec => []SchemaComplete
<1>1. Inv => SchemaComplete
  BY DEF Inv, Migration, SchemaComplete
<1> QED BY <1>1, InvHolds, PTL

\* The only step that changes the rows on disk, and how.
LEMMA DiskChanges ==
    ASSUME Inv, [Next]_vars, committed' # committed
    PROVE  \E t \in Threads :
              /\ Commit(t)
              /\ call[t] \in Calls /\ call[t].op \in Writes
              /\ call[t].op = "register" => Affects(committed, call[t])
              /\ committed' = Outcome(committed, call[t])
<1>1. PICK t \in Threads : Commit(t)
  BY DEF Next, vars, InWrite, Open, AddColumn, Serve, Crash, Ask, Get, GetFails, Acquire,
         Execute, Refuse, StatementFails, Rollback, Reread, RereadFails
<1>2. pc[t] = "executed" /\ committed' = working
  BY <1>1 DEF Commit, At
<1> QED BY <1>1, <1>2 DEF Inv, Located, HasCall, Executed, Writing

(* The key that a row on disk is registered under is pinned: no race of    *)
(* registrations, failure or restart changes it.                           *)
THEOREM KeyPinned == Spec => DurableKeyPinned
<1> DEFINE Pinned == \A d \in DOMAIN committed \cap DOMAIN committed' :
                         committed'[d].owner = committed[d].owner
<1>1. Inv /\ [Next]_vars => Pinned
  <2> SUFFICES ASSUME Inv, [Next]_vars, committed' # committed PROVE Pinned
    OBVIOUS
  <2>1. PICK t \in Threads :
            /\ call[t] \in Calls /\ call[t].op \in Writes
            /\ call[t].op = "register" => Affects(committed, call[t])
            /\ committed' = Outcome(committed, call[t])
    BY DiskChanges
  <2>2. /\ committed \in [DOMAIN committed -> Row]
        /\ DOMAIN committed \subseteq Devices
    BY DEF Inv, TypeOK
  <2>3. CASE call[t].op = "register"
    BY <2>1, <2>2, <2>3 DEF Outcome, Upserted, Affects
  <2>4. CASE call[t].op = "clear_voip_token"
    <3>1. committed' = VoipCleared(committed, call[t])
      BY <2>1, <2>4 DEF Outcome
    <3>2. \A d \in DOMAIN committed :
              [committed[d] EXCEPT !.voip = FALSE].owner = committed[d].owner
      BY <2>2 DEF Row
    <3> QED BY <3>1, <3>2 DEF VoipCleared
  <2>5. CASE call[t].op = "delete"
    BY <2>1, <2>5 DEF Outcome, Deleted
  <2> QED BY <2>1, <2>3, <2>4, <2>5 DEF Writes
<1>2. Inv /\ [Next]_vars => [Pinned]_vars
  BY <1>1
<1> QED BY <1>2, InvHolds, PTL DEF Spec, DurableKeyPinned

-----------------------------------------------------------------------------
(* The refinement of Registry by the rows on disk.                         *)

\* A thread inside a call has no answer yet.
Unanswered == \A t \in Threads : pc[t] # "idle" => answer[t] = Answer("none")

LEMMA UnansweredStep ==
    ASSUME Inv, Unanswered, [Next]_vars
    PROVE  Unanswered'
<1> USE DEF Unanswered
<1>1. pc \in [Threads -> Places] /\ DOMAIN answer = Threads
  BY DEF Inv, TypeOK
<1>2. CASE UNCHANGED <<pc, answer>>
  BY <1>2
<1>3. CASE Crash
  BY <1>3 DEF Crash
<1>4. ASSUME NEW t \in Threads, NEW said, Return(t, said) PROVE Unanswered'
  BY <1>1, <1>4 DEF Return, GoTo
<1>5. ASSUME NEW t \in Threads, NEW place \in Places, pc[t] # "idle", GoTo(t, place),
             UNCHANGED answer
      PROVE  Unanswered'
  BY <1>1, <1>5 DEF GoTo
<1>6. ASSUME NEW t \in Threads, NEW c \in Calls, Ask(t, c) PROVE Unanswered'
  BY <1>1, <1>6 DEF Ask, GoTo
<1>7. ASSUME NEW t \in Threads, Get(t) \/ GetFails(t) \/ Rollback(t) \/ Reread(t) \/ RereadFails(t)
      PROVE  Unanswered'
  BY <1>4, <1>7 DEF Get, GetFails, Rollback, Reread, RereadFails
<1>8. ASSUME NEW t \in Threads, Acquire(t) \/ Execute(t) \/ Refuse(t) \/ StatementFails(t)
      PROVE  Unanswered'
  BY <1>5, <1>8 DEF Acquire, Execute, Refuse, StatementFails, At, Places
<1>9. ASSUME NEW t \in Threads, Commit(t) PROVE Unanswered'
  BY <1>4, <1>5, <1>9 DEF Commit, At, Places
<1> QED BY <1>2, <1>3, <1>6, <1>7, <1>8, <1>9
        DEF Next, InWrite, vars, Open, AddColumn, Serve

LEMMA StatusMoves ==
    ASSUME Inv, NEW t \in Threads, NEW place \in Places,
           GoTo(t, place)
    PROVE  Status' = [Status EXCEPT ![t] = StatusAt(place)]
BY DEF Inv, TypeOK, Status, GoTo

LEMMA StatusOf ==
    ASSUME Inv, NEW t \in Threads
    PROVE  /\ pc[t] = "idle" => Status[t] = "idle"
           /\ pc[t] = "rereading" => Status[t] = "applied"
           /\ pc[t] \in {"waiting", "locked", "executed", "refused", "failed"}
                 => Status[t] = "asked"
BY DEF Status, StatusAt

\* Setting an entry to what it is changes nothing.
LEMMA SameEntry ==
    ASSUME NEW S, NEW f, f = [x \in S |-> f[x]], NEW x \in S
    PROVE  [f EXCEPT ![x] = f[x]] = f
OBVIOUS

LEMMA StatusIsFunction == Status = [t \in Threads |-> Status[t]]
BY DEF Status

LEMMA AnswerIsFunction == ASSUME Inv PROVE answer = [t \in Threads |-> answer[t]]
BY DEF Inv, TypeOK

\* Steps inside a write are hidden from the caller.
LEMMA HiddenSteps ==
    ASSUME Inv, NEW t \in Threads,
           Acquire(t) \/ Execute(t) \/ Refuse(t) \/ StatementFails(t)
    PROVE  UNCHANGED Table!registryVars
<1>1. UNCHANGED <<committed, call, answer>>
  BY DEF Acquire, Execute, Refuse, StatementFails
<1>2. PICK place \in {"locked", "executed", "refused", "failed"} : GoTo(t, place)
  BY DEF Acquire, Execute, Refuse, StatementFails
<1>3. pc[t] \in {"waiting", "locked", "executed"}
  BY DEF Acquire, Execute, Refuse, StatementFails, At
<1>4. StatusAt(place) = Status[t]
  BY <1>3, StatusOf DEF StatusAt
<1>5. Status' = [Status EXCEPT ![t] = Status[t]]
  <2>1. place \in Places
    BY DEF Places
  <2> QED BY <1>2, <1>4, <2>1, StatusMoves
<1>6. Status' = Status
  BY <1>5, StatusIsFunction, SameEntry
<1> QED BY <1>1, <1>6 DEF Table!registryVars

\* An accepted write makes the table that Registry says it makes.
LEMMA OutcomeIsEffect ==
    ASSUME NEW table, NEW c \in Calls, c.op \in Writes
    PROVE  Outcome(table, c) = Table!Effect(table, c)
BY DEF Outcome, Table!Effect, Upserted, VoipCleared, Deleted, Writes

LEMMA CommitTakes ==
    ASSUME Inv, Unanswered, NEW t \in Threads, Commit(t)
    PROVE  Table!Take(t)
<1>1. /\ pc[t] = "executed" /\ committed' = working
      /\ UNCHANGED call
  BY DEF Commit, At
<1>2. /\ call[t] \in Calls /\ call[t].op \in Writes
      /\ call[t].op = "register" => Affects(committed, call[t])
      /\ committed' = Outcome(committed, call[t])
  BY <1>1 DEF Inv, Located, HasCall, Executed, Writing
<1>3. Status[t] = "asked"
  BY <1>1, StatusOf
<1>4. Table!Accepted(committed, call[t])
  BY <1>2 DEF Table!Accepted, Affects
<1>5. committed' = Table!Effect(committed, call[t])
  BY <1>2, OutcomeIsEffect
<1>6. Table!Goes(t, "applied", Table!Answer("none")) \/ Table!Goes(t, "idle", Table!Answer("ok"))
  <2>1. CASE call[t].op = "register"
    <3>1. GoTo(t, "rereading") /\ answer' = answer
      BY <2>1 DEF Commit
    <3>2. Status' = [Status EXCEPT ![t] = "applied"]
      BY <3>1, StatusMoves DEF Places, StatusAt
    <3>3. answer[t] = Table!Answer("none")
      BY <1>1 DEF Unanswered, Table!Answer, Answer
    <3>4. answer' = [answer EXCEPT ![t] = Table!Answer("none")]
      BY <3>1, <3>3, AnswerIsFunction, SameEntry
    <3> QED BY <3>2, <3>4 DEF Table!Goes
  <2>2. CASE call[t].op # "register"
    <3>1. Return(t, Answer("ok"))
      BY <2>2 DEF Commit
    <3>2. Status' = [Status EXCEPT ![t] = "idle"]
      BY <3>1, StatusMoves DEF Return, Places, StatusAt
    <3>3. answer' = [answer EXCEPT ![t] = Table!Answer("ok")]
      BY <3>1 DEF Return, Table!Answer, Answer
    <3> QED BY <3>2, <3>3 DEF Table!Goes
  <2> QED BY <2>1, <2>2
<1>7. call[t].op # "get"
  BY <1>2 DEF Writes
<1> QED BY <1>1, <1>3, <1>4, <1>5, <1>6, <1>7 DEF Table!Take

\* A step that answers a call.
LEMMA ReturnGoes ==
    ASSUME Inv, NEW t \in Threads, NEW kind, Return(t, Answer(kind))
    PROVE  Table!Goes(t, "idle", Table!Answer(kind))
<1>1. Status' = [Status EXCEPT ![t] = "idle"]
  BY StatusMoves DEF Return, Places, StatusAt
<1>2. answer' = [answer EXCEPT ![t] = Table!Answer(kind)]
  BY DEF Return, Table!Answer, Answer
<1> QED BY <1>1, <1>2 DEF Table!Goes

LEMMA RollbackAnswers ==
    ASSUME Inv, NEW t \in Threads, Rollback(t)
    PROVE  Table!Mismatch(t) \/ Table!Fail(t)
<1>1. UNCHANGED <<committed, call>> /\ pc[t] \in {"refused", "failed"}
  BY DEF Rollback, At
<1>2. Status[t] = "asked"
  BY <1>1, StatusOf
<1>3. CASE pc[t] = "refused"
  <2>1. Table!Goes(t, "idle", Table!Answer("mismatch"))
    BY <1>3, ReturnGoes DEF Rollback
  <2>2. ~Affects(committed, call[t]) /\ call[t].op = "register"
    BY <1>3 DEF Inv, Executed, Located
  <2>3. ~Table!Accepted(committed, call[t])
    BY <2>2 DEF Table!Accepted, Affects
  <2> QED BY <1>1, <1>2, <2>1, <2>3 DEF Table!Mismatch
<1>4. CASE pc[t] = "failed"
  <2>1. Table!Goes(t, "idle", Table!Answer("error"))
    BY <1>4, ReturnGoes DEF Rollback
  <2> QED BY <1>1, <1>2, <2>1 DEF Table!Fail
<1> QED BY <1>1, <1>3, <1>4

LEMMA RereadAnswers ==
    ASSUME Inv, NEW t \in Threads, Reread(t) \/ RereadFails(t)
    PROVE  Table!Confirm(t) \/ Table!Fail(t)
<1>1. UNCHANGED <<committed, call>> /\ pc[t] = "rereading"
  BY DEF Reread, RereadFails, At
<1>2. Status[t] = "applied"
  BY <1>1, StatusOf
<1>3. CASE Reread(t)
  <2>1. Table!Goes(t, "idle", Table!Answer("ok"))
    BY <1>3, ReturnGoes DEF Reread
  <2> QED BY <1>1, <1>2, <2>1 DEF Table!Confirm
<1>4. CASE RereadFails(t)
  <2>1. Table!Goes(t, "idle", Table!Answer("error"))
    BY <1>4, ReturnGoes DEF RereadFails
  <2> QED BY <1>1, <1>2, <2>1 DEF Table!Fail
<1> QED BY <1>3, <1>4

\* What the connection shows is a table that a reader may see.
LEMMA WorkingIsVisible ==
    ASSUME Inv
    PROVE  working \in Table!Visible
<1>1. CASE working = committed
  BY <1>1 DEF Table!Visible
<1>2. CASE working # committed
  <2>1. /\ lock \in Threads /\ pc[lock] \in {"executed", "failed"}
    BY <1>2 DEF Inv, TypeOK, OneOpenTransaction
  <2>2. /\ call[lock] \in Calls /\ call[lock].op \in Writes
        /\ call[lock].op = "register" => Affects(committed, call[lock])
        /\ working = Outcome(committed, call[lock])
    BY <1>2, <2>1 DEF Inv, Located, HasCall, Executed, Writing
  <2>3. working = Table!Effect(committed, call[lock])
    BY <2>2, OutcomeIsEffect
  <2>4. Table!Accepted(committed, call[lock])
    BY <2>2 DEF Table!Accepted, Affects
  <2>5. Status[lock] = "asked"
    BY <2>1, StatusOf
  <2>6. call[lock].op # "get"
    BY <2>2 DEF Writes
  <2> QED BY <2>1, <2>3, <2>4, <2>5, <2>6 DEF Table!Visible
<1> QED BY <1>1, <1>2

LEMMA GetReads ==
    ASSUME Inv, NEW t \in Threads, Get(t)
    PROVE  Table!Read(t)
<1>1. /\ pc[t] = "waiting" /\ call[t].op = "get"
      /\ UNCHANGED <<committed, call>>
  BY DEF Get, At
<1>2. Status[t] = "asked"
  BY <1>1, StatusOf
<1>3. Status' = [Status EXCEPT ![t] = "idle"]
  BY StatusMoves DEF Get, Return, Places, StatusAt
<1>4. answer' = [answer EXCEPT ![t] = Table!RowAnswer(Table!Lookup(working, call[t].device))]
  BY DEF Get, Return, Found, Table!RowAnswer, Table!Lookup
<1>5. \E table \in Table!Visible :
          Table!Goes(t, "idle", Table!RowAnswer(Table!Lookup(table, call[t].device)))
  BY <1>3, <1>4, WorkingIsVisible DEF Table!Goes
<1> QED BY <1>1, <1>2, <1>5 DEF Table!Read

LEMMA GetFailsFails ==
    ASSUME Inv, NEW t \in Threads, GetFails(t)
    PROVE  Table!Fail(t)
<1>1. pc[t] = "waiting" /\ UNCHANGED <<committed, call>>
  BY DEF GetFails, At
<1>2. Status[t] # "idle"
  BY <1>1, StatusOf
<1>3. Table!Goes(t, "idle", Table!Answer("error"))
  BY ReturnGoes DEF GetFails
<1> QED BY <1>1, <1>2, <1>3 DEF Table!Fail

LEMMA AskAsks ==
    ASSUME Inv, NEW t \in Threads, NEW c \in Calls, Ask(t, c)
    PROVE  Table!Ask(t)
<1>1. /\ pc[t] = "idle" /\ UNCHANGED committed
      /\ call' = [call EXCEPT ![t] = c]
      /\ answer' = [answer EXCEPT ![t] = Table!Answer("none")]
  BY DEF Ask, At, Table!Answer, Answer
<1>2. Status[t] = "idle"
  BY <1>1, StatusOf
<1>3. Status' = [Status EXCEPT ![t] = "asked"]
  BY StatusMoves DEF Ask, Places, StatusAt
<1> QED BY <1>1, <1>2, <1>3 DEF Table!Ask, Table!Goes

LEMMA CrashRestarts == ASSUME Crash PROVE Table!Restart
<1>1. Status' = [t \in Threads |-> "idle"]
  BY DEF Crash, Status, StatusAt
<1>2. answer' = [t \in Threads |-> Table!Answer("none")]
  BY DEF Crash, Table!Answer, Answer
<1> QED BY <1>1, <1>2 DEF Crash, Table!Restart

(* The store implements the table of Registry, whatever errors SQLite      *)
(* reports and wherever the process is killed.                             *)
THEOREM StoreIsRegistry == Spec => ImplementsRegistry
<1>1. Init => Table!Init
  <2> SUFFICES ASSUME Init PROVE Table!Init
    OBVIOUS
  <2>1. Status = [t \in Threads |-> "idle"]
    BY DEF Init, Status, StatusAt
  <2>2. answer = [t \in Threads |-> Table!Answer("none")]
    BY DEF Init, Table!Answer, Answer
  <2> QED BY <2>1, <2>2 DEF Table!Init
<1>2. Init => Unanswered
  BY DEF Init, Unanswered
<1>3. Inv /\ Unanswered /\ [Next]_vars => Unanswered'
  BY UnansweredStep
<1>4. Inv /\ Unanswered /\ [Next]_vars => [Table!Next]_Table!registryVars
  <2> SUFFICES ASSUME Inv, Unanswered, [Next]_vars
               PROVE  [Table!Next]_Table!registryVars
    OBVIOUS
  <2>1. CASE UNCHANGED <<committed, call, pc, answer>>
    <3>1. Status' = Status
      BY <2>1 DEF Status
    <3> QED BY <2>1, <3>1 DEF Table!registryVars
  <2>2. CASE Crash
    BY <2>2, CrashRestarts DEF Table!Next
  <2>3. ASSUME NEW t \in Threads, NEW c \in Calls, Ask(t, c) PROVE Table!Next
    BY <2>3, AskAsks DEF Table!Next
  <2>4. ASSUME NEW t \in Threads, Get(t) \/ GetFails(t) PROVE Table!Next
    BY <2>4, GetReads, GetFailsFails DEF Table!Next
  <2>5. ASSUME NEW t \in Threads, Acquire(t) \/ Execute(t) \/ Refuse(t) \/ StatementFails(t)
        PROVE  UNCHANGED Table!registryVars
    BY <2>5, HiddenSteps
  <2>6. ASSUME NEW t \in Threads, Commit(t) PROVE Table!Next
    BY <2>6, CommitTakes DEF Table!Next
  <2>7. ASSUME NEW t \in Threads, Rollback(t) PROVE Table!Next
    BY <2>7, RollbackAnswers DEF Table!Next
  <2>8. ASSUME NEW t \in Threads, Reread(t) \/ RereadFails(t) PROVE Table!Next
    BY <2>8, RereadAnswers DEF Table!Next
  <2> QED BY <2>1, <2>2, <2>3, <2>4, <2>5, <2>6, <2>7, <2>8
          DEF Next, InWrite, vars, Open, AddColumn, Serve
<1> QED BY <1>1, <1>2, <1>3, <1>4, InvHolds, PTL DEF Spec, ImplementsRegistry, Table!Spec
=============================================================================
