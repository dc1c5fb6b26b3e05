----------------------------- MODULE Lifecycle -----------------------------
(***************************************************************************)
(* The end of the process (app/__main__.py:61-80): a signal, the shutdown  *)
(* of the HTTP server, and the `finally` that closes what the program has  *)
(* open.  Serving and shutting down are two methods of the standard        *)
(* library's socketserver.BaseServer that talk through a flag and an event:*)
(*                                                                         *)
(*   serve_forever()  clears the event, accepts connections until the flag *)
(*                    is set, then resets the flag and sets the event;     *)
(*   shutdown()       sets the flag and waits for the event.               *)
(*                                                                         *)
(* The tests call shutdown() in another thread than serve_forever()        *)
(* (tests/test_server_http.py:33-43).  The program calls it in a signal    *)
(* handler, and CPython runs a signal handler on top of whatever its main  *)
(* thread is doing, which is serve_forever().                              *)
(***************************************************************************)
EXTENDS Naturals, Sequences

CONSTANTS
    Handlers,        \* handler threads that may run at one time
    CallerIsServer   \* is shutdown() called on top of serve_forever()?

ASSUME CallerAssumption == CallerIsServer \in BOOLEAN

VARIABLES
    server,       \* where the thread that serves is
    caller,       \* where the call of shutdown() is
    request,      \* __shutdown_request
    isShutDown,   \* the event __is_shut_down
    open,         \* what the program has open
    running       \* the handler threads at work

vars == <<server, caller, request, isShutDown, open, running>>

Resources == {"socket", "apns", "fcm", "store"}

TypeOK ==
    /\ server \in {"ready", "serving", "left", "gone"}
    /\ caller \in {"none", "called", "waiting", "returned"}
    /\ request \in BOOLEAN /\ isShutDown \in BOOLEAN
    /\ open \subseteq Resources
    /\ running \subseteq Handlers /\ (server = "gone" => running = {})

Init ==
    /\ server = "ready" /\ caller = "none"
    /\ request = FALSE /\ isShutDown = FALSE
    /\ open = Resources
    /\ running = {}

-----------------------------------------------------------------------------
\* Whether the thread that serves gets on: not while a call is on top of it.
ServerRuns == CallerIsServer => caller \notin {"called", "waiting"}

ServeForever ==
    /\ server = "ready" /\ ServerRuns
    /\ server' = "serving"
    /\ isShutDown' = FALSE
    /\ UNCHANGED <<caller, request, open, running>>

\* One turn of the loop: a connection gets a thread of its own ...
Accept(h) ==
    /\ server = "serving" /\ ServerRuns
    /\ ~request
    /\ h \notin running
    /\ running' = running \cup {h}
    /\ UNCHANGED <<server, caller, request, isShutDown, open>>

\* ... or the flag is seen.
LeaveLoop ==
    /\ server = "serving" /\ ServerRuns
    /\ request
    /\ server' = "left"
    /\ request' = FALSE /\ isShutDown' = TRUE
    /\ UNCHANGED <<caller, open, running>>

\* The `finally` of main(): the socket, the clients and the store, in order.
ClosingOrder == <<"socket", "apns", "fcm", "store">>

Close ==
    /\ server = "left" /\ ServerRuns
    /\ \E i \in 1..Len(ClosingOrder) :
          /\ ClosingOrder[i] \in open
          /\ \A j \in 1..(i - 1) : ClosingOrder[j] \notin open
          /\ open' = open \ {ClosingOrder[i]}
    /\ UNCHANGED <<server, caller, request, isShutDown, running>>

\* Bug: main() returns beside its handler threads.
Bug_ExitKeepsHandlers ==
    /\ server = "left" /\ ServerRuns
    /\ open = {}
    /\ server' = "gone"
    /\ UNCHANGED <<caller, request, isShutDown, open, running>>

\* Bug: main() returns before everything is closed.
Bug_ExitEarly ==
    /\ server = "left" /\ ServerRuns
    /\ server' = "gone"
    /\ running' = {}
    /\ UNCHANGED <<caller, request, isShutDown, open>>

\* main() returns.  The handler threads are daemons: they end with it.
Exit ==
    /\ server = "left" /\ ServerRuns
    /\ open = {}
    /\ server' = "gone"
    /\ running' = {}
    /\ UNCHANGED <<caller, request, isShutDown, open>>

\* A handler has answered, or raised because the store is closed.
Finish(h) ==
    /\ h \in running
    /\ running' = running \ {h}
    /\ UNCHANGED <<server, caller, request, isShutDown, open>>

-----------------------------------------------------------------------------
\* Bug: _shutdown leaves the call to a thread and returns at once.
Bug_CallShutdownAside ==
    /\ caller = "none" /\ server # "gone"
    /\ caller' = "returned"
    /\ request' = TRUE
    /\ UNCHANGED <<server, isShutDown, open, running>>

\* SIGTERM or SIGINT arrives, and _shutdown calls shutdown().
CallShutdown ==
    /\ caller = "none" /\ server # "gone"
    /\ caller' = "called"
    /\ UNCHANGED <<server, request, isShutDown, open, running>>

SetRequest ==
    /\ caller = "called"
    /\ caller' = "waiting"
    /\ request' = TRUE
    /\ UNCHANGED <<server, isShutDown, open, running>>

Awaited ==
    /\ caller = "waiting"
    /\ isShutDown
    /\ caller' = "returned"
    /\ UNCHANGED <<server, request, isShutDown, open, running>>

Serving  == ServeForever \/ LeaveLoop \/ Close \/ Exit
Shutdown == SetRequest \/ Awaited

Next ==
    \/ Serving
    \/ CallShutdown \/ Shutdown
    \/ \E h \in Handlers : Accept(h) \/ Finish(h)

Spec == Init /\ [][Next]_vars

\* Threads get the processor; the loop wakes up every half second.
FairSpec == Spec /\ WF_vars(Serving) /\ WF_vars(Shutdown)

-----------------------------------------------------------------------------
(* "shutting down" (app/__main__.py:65): the signal makes the server leave *)
(* its loop, everything that is open is closed (73-79), and main returns.  *)
ShutdownCompletes == (caller # "none") ~> (server = "gone" /\ open = {})

(* Once shutdown() has returned, no connection gets a handler any more: the*)
(* test that called it may look at the store, or close it.                 *)
NothingAcceptedAfterShutdown == caller = "returned" => server \in {"left", "gone"}
=============================================================================
