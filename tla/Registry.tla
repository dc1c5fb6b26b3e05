------------------------------ MODULE Registry ------------------------------
(***************************************************************************)
(* What the device store promises: one table from devices to rows, every   *)
(* write takes effect at one moment between its start and its answer, a row*)
(* stays under the key that registered it, and an answer "error" says      *)
(* nothing about whether the call took effect.  A read returns the row, or *)
(* what a write that is still going on would make of it, even if that write*)
(* fails in the end.  There is no lock, no transaction and no second copy  *)
(* of the table here.                                                      *)
(***************************************************************************)
CONSTANTS Threads, Calls, NoRow

VARIABLES
    rows,     \* a partial function from devices to rows
    call,     \* the call of each thread
    status,   \* "idle", "asked" or "applied"
    answer    \* the answer each thread got last

registryVars == <<rows, call, status, answer>>

Answer(kind)   == [kind |-> kind, row |-> NoRow]
RowAnswer(row) == [kind |-> "row", row |-> row]

\* The key pin: only a row's own key may refresh it.
Accepted(table, c) ==
    c.op = "register" /\ c.device \in DOMAIN table
        => table[c.device].owner = c.row.owner

\* The table once an accepted call has taken effect.
Effect(table, c) ==
    CASE c.op = "register" ->
            [d \in DOMAIN table \cup {c.device} |->
                IF d = c.device THEN c.row ELSE table[d]]
      [] c.op = "clear_voip_token" ->
            [d \in DOMAIN table |->
                IF d = c.device THEN [table[d] EXCEPT !.voip = FALSE] ELSE table[d]]
      [] c.op = "delete" ->
            [d \in DOMAIN table \ {c.device} |-> table[d]]

Lookup(table, d) == IF d \in DOMAIN table THEN table[d] ELSE NoRow

Goes(t, to, said) ==
    /\ status' = [status EXCEPT ![t] = to]
    /\ answer' = [answer EXCEPT ![t] = said]

Init ==
    /\ status = [t \in Threads |-> "idle"]
    /\ answer = [t \in Threads |-> Answer("none")]

Ask(t) ==
    /\ status[t] = "idle"
    /\ \E c \in Calls : call' = [call EXCEPT ![t] = c]
    /\ Goes(t, "asked", Answer("none"))
    /\ UNCHANGED rows

Take(t) ==
    /\ status[t] = "asked"
    /\ call[t].op # "get"
    /\ Accepted(rows, call[t])
    /\ rows' = Effect(rows, call[t])
    /\ Goes(t, "applied", Answer("none")) \/ Goes(t, "idle", Answer("ok"))
    /\ UNCHANGED call

Confirm(t) ==
    /\ status[t] = "applied"
    /\ Goes(t, "idle", Answer("ok"))
    /\ UNCHANGED <<rows, call>>

Mismatch(t) ==
    /\ status[t] = "asked"
    /\ ~Accepted(rows, call[t])
    /\ Goes(t, "idle", Answer("mismatch"))
    /\ UNCHANGED <<rows, call>>

\* The tables that a reader may see.
Visible ==
    {rows} \cup {Effect(rows, call[u]) :
                    u \in {u \in Threads : /\ status[u] = "asked"
                                         /\ call[u].op # "get"
                                         /\ Accepted(rows, call[u])}}

Read(t) ==
    /\ status[t] = "asked"
    /\ call[t].op = "get"
    /\ \E table \in Visible : Goes(t, "idle", RowAnswer(Lookup(table, call[t].device)))
    /\ UNCHANGED <<rows, call>>

Fail(t) ==
    /\ status[t] # "idle"
    /\ Goes(t, "idle", Answer("error"))
    /\ UNCHANGED <<rows, call>>

\* The process ends; its threads are gone, the table is not.
Restart ==
    /\ status' = [t \in Threads |-> "idle"]
    /\ answer' = [t \in Threads |-> Answer("none")]
    /\ UNCHANGED <<rows, call>>

Next ==
    \/ Restart
    \/ \E t \in Threads :
          Ask(t) \/ Take(t) \/ Confirm(t) \/ Mismatch(t) \/ Read(t) \/ Fail(t)

Spec == Init /\ [][Next]_registryVars
=============================================================================
