----------------------------- MODULE HttpFront -----------------------------
(***************************************************************************)
(* The HTTP front (make_handler, app/server.py:528-727) in the process     *)
(* whose end Lifecycle models: one handler thread per connection, one      *)
(* request per connection.  A handler takes its request through the gates  *)
(* of its method in their order, reads the body, calls the application, and*)
(* answers.  The gate "limit" is the only one that changes shared state, a *)
(* RateLimiter, which appears as the tokens left to a client address.      *)
(*                                                                         *)
(* Handler and peer are coupled by the bytes on the wire, in units: the    *)
(* peer writes into a socket buffer of limited size, the handler reads from*)
(* it, and either may wait for the other.  A peer may be a reverse proxy,  *)
(* which writes the whole body before it accepts an answer (620-636), and  *)
(* it may stop writing, or give up, at any time.  What the standard library*)
(* does is taken from how the code and its comments rely on it.            *)
(***************************************************************************)
EXTENDS Lifecycle, Integers, SequencesExt

CONSTANTS
    Requests,      \* the requests that peers send
    Clients,       \* addresses of clients
    Proxy,         \* the address of the reverse proxy
    TrustedProxy,  \* trusted_proxy_ip
    ConfiguredKeys,\* nextcloud_subscription_key and nextcloud_subscription_keys
    Blank,         \* the empty string
    Nobody,        \* no address
    MaxBody,       \* MAX_BODY_BYTES
    DrainCap,      \* _DRAIN_CAP_BYTES
    Buffer,        \* what the socket holds between peer and handler
    Capacity       \* tokens in a full bucket

ASSUME SizeAssumption ==
    /\ MaxBody \in Nat /\ DrainCap \in Nat /\ MaxBody < DrainCap
    /\ Buffer \in Nat \ {0} /\ Capacity \in Nat
\* Only the reverse proxy is trusted, if anybody is (server.py:640-645).
ASSUME AddressAssumption ==
    /\ Proxy \notin Clients /\ Nobody \notin Clients \cup {Proxy}
    /\ TrustedProxy \notin Clients

VARIABLES
    conn,      \* the connection of each handler thread
    buckets    \* tokens left, by limiter and client address

front    == <<conn, buckets>>
allVars  == <<vars, conn, buckets>>

Addresses == Clients \cup {Proxy}
Limiters  == {"/devices", "/notifications"}

Malformed == -1      \* a Content-Length that is negative or no number

(* A request: `length` is its Content-Length (0 if there is none), `units` *)
(* what the peer has to write, `origin` who sent it, perhaps through the   *)
(* proxy, and `claimed` an X-Forwarded-For entry of the sender's own making*)
Request ==
    [method : {"GET", "HEAD", "POST", "DELETE"},
     path : Limiters \cup {"/health", "/other"}, query : BOOLEAN,
     length : Nat \cup {Malformed}, units : Nat, key : ConfiguredKeys \cup {Blank, "wrong", "nonASCII"},
     origin : Clients, proxied : BOOLEAN, claimed : Clients \cup {Nobody}, expects : BOOLEAN]

ASSUME RequestsAssumption == Requests \subseteq Request

-----------------------------------------------------------------------------
(* Header values.                                                          *)

\* config.subscription_keys: no blank one.
SubscriptionKeys == ConfiguredKeys \ {Blank}

\* Bug: with no key configured for it, an empty header matches.
Bug_AuthorisedBlank(r) == r.key \in ConfiguredKeys

\* Fail closed: no keys, no access.
Authorised(r) == r.key \in SubscriptionKeys

PeerOf(r) == IF r.proxied THEN Proxy ELSE r.origin

\* The X-Forwarded-For list that arrives: the proxy appends its peer.
Forwarded(r) ==
    (IF r.claimed = Nobody THEN <<>> ELSE <<r.claimed>>)
        \o (IF r.proxied THEN <<r.origin>> ELSE <<>>)

\* Bug: the first entry is taken.
Bug_ClientIpFirst(r) ==
    IF PeerOf(r) = TrustedProxy /\ Forwarded(r) # <<>> THEN Head(Forwarded(r)) ELSE PeerOf(r)

\* _client_ip
ClientIp(r) ==
    IF PeerOf(r) = TrustedProxy /\ Forwarded(r) # <<>> THEN Last(Forwarded(r)) ELSE PeerOf(r)

-----------------------------------------------------------------------------
(* The gates.                                                              *)

\* Bug: the limiter is asked before the key.
Bug_GatesLimitFirst(r) ==
    CASE r.method = "POST"   -> <<"length", "path", "limit", "key">>
      [] r.method = "DELETE" -> <<"path", "query", "length", "limit">>
      [] OTHER               -> <<"path">>

\* do_POST, do_DELETE, and _route_get.
Gates(r) ==
    CASE r.method = "POST"   -> <<"length", "path", "key", "limit">>
      [] r.method = "DELETE" -> <<"path", "query", "length", "limit">>
      [] OTHER               -> <<"path">>

Routes(r) ==
    CASE r.method = "POST"   -> {"/devices", "/notifications"}
      [] r.method = "DELETE" -> {"/devices"}
      [] OTHER               -> {"/health"}

\* The gates that need nothing but the request.
Passes(gate, r) ==
    CASE gate = "length" -> r.length \in 0..MaxBody
      [] gate = "path"   -> r.path \in Routes(r)
      [] gate = "query"  -> ~r.query
      [] gate = "key"    -> r.path = "/notifications" => Authorised(r)

Status(gate) ==
    CASE gate = "length" -> 400 [] gate = "path" -> 404 [] gate = "query" -> 400
      [] gate = "key" -> 401 [] gate = "limit" -> 429

-----------------------------------------------------------------------------
(* Connections.                                                            *)

NoRequest ==
    [method |-> "GET", path |-> "/health", query |-> FALSE, length |-> 0, units |-> 0,
     key |-> Blank, origin |-> Nobody, proxied |-> FALSE, claimed |-> Nobody,
     expects |-> FALSE]

\* No connection, and how the last one ended.
Ended(outcome, status) ==
    [request |-> NoRequest, at |-> "ended", gates |-> <<>>, toWrite |-> 0, wire |-> 0,
     read |-> 0, peer |-> "gone", outcome |-> outcome, status |-> status]

\* A peer that expects 100-continue waits before it writes the body.
Opened(r) ==
    [request |-> r, at |-> "head", gates |-> Gates(r), toWrite |-> r.units, wire |-> 0,
     read |-> 0, peer |-> IF r.expects THEN "waiting" ELSE "writing",
     outcome |-> "none", status |-> 0]

FrontTypeOK ==
    /\ TypeOK
    /\ running = {h \in Handlers : conn[h].at # "ended"}
    /\ \A h \in Handlers :
          LET c == conn[h]
          IN  /\ c.request \in Requests \cup {NoRequest}
              /\ c.at \in {"head", "gates", "body", "drain", "app", "ended"}
              /\ IsSuffix(c.gates, Gates(c.request))
              /\ c.wire \in 0..Buffer /\ c.wire + c.read + c.toWrite <= c.request.units
              /\ c.read <= MaxBody \/ (c.at = "drain" /\ c.read <= DrainCap)
              /\ c.peer \in {"waiting", "writing", "stalled", "gone"}
              /\ c.outcome \in {"none", "answered", "reset", "timedOut", "raised", "cut"}
              /\ c.status \in {0, 200, 400, 401, 404, 413, 429}
    /\ buckets \in [Limiters -> [Addresses -> 0..Capacity]]

FrontInit ==
    /\ Init
    /\ conn = [h \in Handlers |-> Ended("none", 0)]
    /\ buckets = [l \in Limiters |-> [a \in Addresses |-> Capacity]]

\* The handler's connection becomes c; nothing else changes.
Becomes(h, c) ==
    /\ h \in running
    /\ conn' = [conn EXCEPT ![h] = c]
    /\ UNCHANGED <<vars, buckets>>

\* The handler ends, and with it the connection.
End(h, outcome, status) ==
    /\ Finish(h)
    /\ conn' = [conn EXCEPT ![h] = Ended(outcome, status)]
    /\ UNCHANGED buckets

\* _send_json, after which the connection is closed.  A peer that has written
\* what the handler has not read may lose the answer.
Reply(h, status) ==
    \E outcome \in IF conn[h].toWrite + conn[h].wire > 0 /\ conn[h].peer # "gone"
                   THEN {"answered", "reset"} ELSE {"answered"} :
        End(h, outcome, status)

Connect(h, r) ==
    /\ Accept(h)
    /\ conn' = [conn EXCEPT ![h] = Opened(r)]
    /\ UNCHANGED buckets

\* Bug: HTTP/1.0, where nobody is told to continue.
Bug_ReadHeadOldProtocol(h) ==
    /\ conn[h].at = "head" /\ conn[h].peer # "stalled"
    /\ Becomes(h, [conn[h] EXCEPT !.at = "gates"])

\* The request's head has arrived; "100 Continue" goes to a peer that waits.
ReadHead(h) ==
    /\ conn[h].at = "head" /\ conn[h].peer # "stalled"
    /\ Becomes(h, [conn[h] EXCEPT !.at = "gates",
                                  !.peer = IF @ = "waiting" THEN "writing" ELSE @])

\* The peer closed the connection before its head was complete.
HeadMissing(h) ==
    /\ conn[h].at = "head" /\ conn[h].peer = "gone"
    /\ End(h, "none", 0)

-----------------------------------------------------------------------------
(* The handler at its gates.                                               *)

AtGate(h, gate) ==
    /\ conn[h].at = "gates" /\ conn[h].gates # <<>>
    /\ Head(conn[h].gates) = gate

Through(h) == Becomes(h, [conn[h] EXCEPT !.gates = Tail(@)])

\* compare_digest refuses to compare text that is not ASCII.
Incomparable(r) ==
    r.path = "/notifications" /\ r.key = "nonASCII" /\ SubscriptionKeys # {}

PassGate(h) ==
    \E gate \in {"length", "path", "query", "key"} :
        AtGate(h, gate) /\ Passes(gate, conn[h].request) /\ Through(h)

\* Bug: int()'s ValueError is not caught where Content-Length is no number.
Bug_RefuseRaises(h) ==
    \E gate \in {"length", "path", "query", "key"} :
        /\ AtGate(h, gate) /\ ~Passes(gate, conn[h].request)
        /\ ~(gate = "length" /\ conn[h].request.length > MaxBody)
        /\ ~(gate = "key" /\ Incomparable(conn[h].request))
        /\ IF gate = "length" THEN End(h, "raised", 0) ELSE Reply(h, Status(gate))

Refuse(h) ==
    \E gate \in {"length", "path", "query", "key"} :
        /\ AtGate(h, gate) /\ ~Passes(gate, conn[h].request)
        /\ ~(gate = "length" /\ conn[h].request.length > MaxBody)
        /\ ~(gate = "key" /\ Incomparable(conn[h].request))
        /\ Reply(h, Status(gate))

\* An oversized body is drained before it is refused.
Oversized(h) ==
    /\ AtGate(h, "length") /\ conn[h].request.length > MaxBody
    /\ Becomes(h, [conn[h] EXCEPT !.at = "drain"])

KeyRaises(h) ==
    /\ AtGate(h, "key") /\ Incomparable(conn[h].request)
    /\ End(h, "raised", 0)

\* The limiter of the path grants the request of its client address ...
Pay(h) ==
    LET r == conn[h].request
    IN  /\ h \in running /\ AtGate(h, "limit")
        /\ buckets[r.path][ClientIp(r)] > 0
        /\ buckets' = [buckets EXCEPT ![r.path][ClientIp(r)] = @ - 1]
        /\ conn' = [conn EXCEPT ![h].gates = Tail(@)]
        /\ UNCHANGED vars

\* ... or not.
RateLimited(h) ==
    /\ AtGate(h, "limit")
    /\ buckets[conn[h].request.path][ClientIp(conn[h].request)] = 0
    /\ Reply(h, Status("limit"))

AllPassed(h) ==
    /\ conn[h].at = "gates" /\ conn[h].gates = <<>>
    /\ Becomes(h, [conn[h] EXCEPT !.at = "body"])

-----------------------------------------------------------------------------
(* Reading, and the application.                                           *)

\* Bug: an oversized body is refused without reading it.
Bug_WantedNoDrain(c) == IF c.at = "body" /\ c.request.method \in {"POST", "DELETE"}
                        THEN c.request.length ELSE 0

\* Bug: an oversized body is read to its end.
Bug_WantedUncapped(c) == IF c.request.method \in {"POST", "DELETE"} THEN c.request.length ELSE 0

\* What the handler reads: a form in full, and up to the cap of what it refuses.
Wanted(c) ==
    CASE c.at = "drain" -> IF c.request.length < DrainCap THEN c.request.length ELSE DrainCap
      [] c.at = "body" /\ c.request.method \in {"POST", "DELETE"} -> c.request.length
      [] OTHER -> 0

Hungry(c) == c.at \in {"body", "drain"} /\ c.read < Wanted(c)

Read(h) ==
    /\ Hungry(conn[h]) /\ conn[h].wire > 0
    /\ Becomes(h, [conn[h] EXCEPT !.wire = @ - 1, !.read = @ + 1])

\* Everything is read, or the peer has closed: what came until then is the body.
Complete(c) == ~Hungry(c) \/ (c.wire = 0 /\ c.peer = "gone")

BodyRead(h) ==
    /\ conn[h].at = "body" /\ Complete(conn[h])
    /\ Becomes(h, [conn[h] EXCEPT !.at = "app"])

Drained(h) ==
    /\ conn[h].at = "drain" /\ Complete(conn[h])
    /\ Reply(h, 413)

\* 200 stands for whatever the application answers.
AppAnswers(h) == conn[h].at = "app" /\ Reply(h, 200)

\* The body is no UTF-8, or the database fails or is closed.
AppRaises(h) == conn[h].at = "app" /\ End(h, "raised", 0)

\* Bug: the time-out covers the head alone.
Bug_TimeoutHeadOnly(h) ==
    /\ conn[h].at = "head" /\ conn[h].peer = "stalled"
    /\ End(h, "timedOut", 0)

\* Ten seconds have passed in which the handler had nothing to read.
Timeout(h) ==
    /\ \/ conn[h].at = "head" /\ conn[h].peer = "stalled"
       \/ Hungry(conn[h]) /\ conn[h].wire = 0 /\ conn[h].peer \in {"stalled", "waiting"}
    /\ End(h, "timedOut", 0)

Handle(h) ==
    \/ ReadHead(h) \/ HeadMissing(h)
    \/ PassGate(h) \/ Refuse(h) \/ Oversized(h) \/ KeyRaises(h) \/ Pay(h) \/ RateLimited(h)
    \/ AllPassed(h) \/ Read(h) \/ BodyRead(h) \/ Drained(h)
    \/ AppAnswers(h) \/ AppRaises(h) \/ Timeout(h)

-----------------------------------------------------------------------------
(* The peer, which may stop or give up whenever it likes.                  *)

PeerWrites(h) ==
    /\ conn[h].peer = "writing" /\ conn[h].toWrite > 0 /\ conn[h].wire < Buffer
    /\ Becomes(h, [conn[h] EXCEPT !.toWrite = @ - 1, !.wire = @ + 1])

\* It is silent for ten seconds while the handler waits.
Stall(h) ==
    /\ \/ conn[h].at = "head" /\ conn[h].peer \in {"writing", "waiting"}
       \/ Hungry(conn[h]) /\ conn[h].wire = 0 /\ conn[h].peer = "writing"
    /\ Becomes(h, [conn[h] EXCEPT !.peer = "stalled"])

GiveUp(h) ==
    /\ conn[h].peer # "gone"
    /\ Becomes(h, [conn[h] EXCEPT !.peer = "gone", !.toWrite = 0])

Refill ==
    /\ \E l \in Limiters, a \in Addresses :
          /\ buckets[l][a] < Capacity
          /\ buckets' = [buckets EXCEPT ![l][a] = @ + 1]
    /\ UNCHANGED <<vars, conn>>

-----------------------------------------------------------------------------
\* The handlers that end with the process leave their connections unanswered.
ServingStep ==
    /\ Serving
    /\ conn' = [h \in Handlers |->
                    IF h \in running \ running' THEN Ended("cut", 0) ELSE conn[h]]
    /\ UNCHANGED buckets

ShutdownStep == (CallShutdown \/ Shutdown) /\ UNCHANGED front

FrontNext ==
    \/ ServingStep \/ ShutdownStep \/ Refill
    \/ \E h \in Handlers :
          \/ \E r \in Requests : Connect(h, r)
          \/ Handle(h) \/ PeerWrites(h) \/ Stall(h) \/ GiveUp(h)

FrontSpec == FrontInit /\ [][FrontNext]_allVars

\* Threads get the processor, the calls of the application return, and a peer
\* that does not write for ten seconds has stalled.
FrontFairSpec ==
    /\ FrontSpec
    /\ WF_allVars(ServingStep) /\ WF_allVars(Shutdown /\ UNCHANGED front)
    /\ \A h \in Handlers : WF_allVars(Handle(h)) /\ WF_allVars(PeerWrites(h) \/ Stall(h))

-----------------------------------------------------------------------------
\* Whom a request has to count against: the proxy is known or a client itself.
Sender(r) == IF r.proxied /\ TrustedProxy # Proxy THEN Proxy ELSE r.origin

\* No size, key or path that is refused.
Admissible(r, path) ==
    /\ r.path = path /\ r.length \in 0..MaxBody /\ ~(r.method = "DELETE" /\ r.query)
    /\ path = "/notifications" => r.key \in ConfiguredKeys \ {Blank}

(* Only requests that the gates admit cost a token, and they cost it to    *)
(* their real sender: no request without the key, and no made-up header,   *)
(* uses up what another client has (639-655, 670-697, 703-721).            *)
OnlyAdmissibleRequestsPay ==
    [][\A l \in Limiters, a \in Addresses :
          buckets'[l][a] < buckets[l][a] =>
              \E h \in running : /\ conn'[h] # conn[h]
                                 /\ Admissible(conn[h].request, l)
                                 /\ Sender(conn[h].request) = a]_allVars

\* Bytes of the body may be left unread when status is sent, and the connection is
\* then reset: four refusals read nothing of it, nor is one read that a GET or HEAD
\* brings along, nor what goes on beyond its length or the drain cap (605-607,
\* 620-637, 670-700, 705-719).
MayLose(r, status) ==
    \/ status \in {400, 401, 404, 429}
    \/ r.method \in {"GET", "HEAD"}
    \/ r.units > r.length \/ r.units > DrainCap

\* An exception ends a handler without an answer: in parsing the form or in the
\* application (616-618), or compare_digest's, which takes no key that is not ASCII
\* (690-692), so such a key gets no 401.
MayRaise(c) ==
    \/ c.at = "app"
    \/ /\ c.at = "gates" /\ c.gates # <<>> /\ Head(c.gates) = "key"
       /\ c.request.path = "/notifications" /\ c.request.key = "nonASCII"
       /\ ConfiguredKeys \ {Blank} # {}

(* A peer that keeps writing, or waits for "100 Continue" (531-542), gets  *)
(* its answer, but for three ways to lose it: the connection is reset      *)
(* because some of the body was left unread, for one of the reasons that   *)
(* MayLose lists; the handler raised, and no answer was sent, which happens*)
(* only where MayRaise says: past the gates, or to a key that is not ASCII;*)
(* or the process ended with the handler at work.                          *)
AnswersArrive ==
    [][\A h \in Handlers :
          conn[h].at # "ended" /\ conn'[h].at = "ended" /\ conn[h].peer \in {"writing", "waiting"}
              => \/ conn'[h].outcome = "answered"
                 \/ conn'[h].outcome = "reset" /\ MayLose(conn[h].request, conn'[h].status)
                 \/ conn'[h].outcome = "raised" /\ MayRaise(conn[h])
                 \/ conn'[h].outcome = "cut" /\ server' = "gone"]_allVars

(* No peer keeps a handler thread for ever, whatever it announces and      *)
(* writes (543-551, 581-602).                                              *)
ConnectionsEnd == \A h \in Handlers : h \in running ~> h \notin running
=============================================================================
