--------------------------- MODULE HttpFrontProofs ---------------------------
(***************************************************************************)
(* Proofs about HttpFront, with the Lifecycle it extends, for every set of *)
(* handler threads, requests, clients and keys, every size limit and every *)
(* place from which shutdown() may be called.                              *)
(***************************************************************************)
EXTENDS HttpFront, SequenceTheorems, TLAPS

-----------------------------------------------------------------------------
(* The gates of a request.  What is left of them is what comes from some   *)
(* gate on, and every gate before that one has been passed: this is what   *)
(* the limiter, the body and the application rely on.                      *)

GateNames == {"length", "path", "query", "key", "limit"}

Rest(r, k) == SubSeq(Gates(r), k, Len(Gates(r)))

PassedTo(c, k) ==
    /\ c.gates = Rest(c.request, k)
    /\ \A i \in 1..(k - 1) : Gates(c.request)[i] # "limit" => Passes(Gates(c.request)[i], c.request)

Gated(c) == \E k \in 1..(Len(Gates(c.request)) + 1) : PassedTo(c, k)

LEMMA GatesAre ==
    ASSUME NEW r
    PROVE  /\ Gates(r) \in Seq(GateNames) /\ Len(Gates(r)) \in Nat /\ Len(Gates(r)) > 0
           /\ r.method = "POST" => Gates(r) = <<"length", "path", "key", "limit">>
           /\ r.method = "DELETE" => Gates(r) = <<"path", "query", "length", "limit">>
           /\ r.method \notin {"POST", "DELETE"} => Gates(r) = <<"path">>
<1>1. CASE r.method = "POST"
  <2>1. Gates(r) = <<"length", "path", "key", "limit">>
    BY <1>1 DEF Gates
  <2> QED BY <1>1, <2>1 DEF GateNames
<1>2. CASE r.method = "DELETE"
  <2>1. Gates(r) = <<"path", "query", "length", "limit">>
    BY <1>2 DEF Gates
  <2> QED BY <1>2, <2>1 DEF GateNames
<1>3. CASE r.method # "POST" /\ r.method # "DELETE"
  <2>1. Gates(r) = <<"path">>
    BY <1>3 DEF Gates
  <2> QED BY <1>3, <2>1 DEF GateNames
<1> QED BY <1>1, <1>2, <1>3

LEMMA RestFacts ==
    ASSUME NEW r, NEW k \in 1..(Len(Gates(r)) + 1)
    PROVE  /\ Rest(r, k) \in Seq(GateNames)
           /\ k > Len(Gates(r)) => Rest(r, k) = <<>>
           /\ k <= Len(Gates(r)) => /\ Rest(r, k) # <<>> /\ Head(Rest(r, k)) = Gates(r)[k]
                                    /\ Tail(Rest(r, k)) = Rest(r, k + 1)
<1> DEFINE n == Len(Gates(r))
<1>1. Gates(r) \in Seq(GateNames) /\ n \in Nat
  BY GatesAre
<1>2. \A i \in k..n : Gates(r)[i] \in GateNames
  BY <1>1, ElementOfSeq
<1>3. /\ Rest(r, k) \in Seq(GateNames) /\ Len(Rest(r, k)) = IF k <= n THEN n - k + 1 ELSE 0
  BY <1>1, <1>2, SubSeqProperties DEF Rest
<1>4. CASE k > n
  BY <1>1, <1>3, <1>4, EmptySeq DEF Rest
<1>5. CASE k <= n
  <2>1. Head(Rest(r, k)) = Gates(r)[k] /\ Tail(Rest(r, k)) = Rest(r, k + 1)
    BY <1>1, <1>5, HeadTailOfSubSeq DEF Rest
  <2>2. Rest(r, k) # <<>>
    BY <1>1, <1>3, <1>5, EmptySeq
  <2> QED BY <1>1, <1>3, <1>5, <2>1, <2>2
<1> QED BY <1>1, <1>4, <1>5

\* What is left of a sequence is a suffix of it.
LEMMA SubSeqIsSuffix ==
    ASSUME NEW S, NEW t \in Seq(S), NEW k \in 1..(Len(t) + 1)
    PROVE  IsSuffix(SubSeq(t, k, Len(t)), t)
<1> DEFINE n == Len(t)
           s == SubSeq(t, k, n)
           m == Len(s)
<1>1. n \in Nat
  BY LenProperties
<1>2. /\ s \in Seq(S) /\ m = n - k + 1 /\ m \in 0..n
      /\ \A i \in 1..m : s[i] = t[k + i - 1]
  <2>1. \A i \in k..n : t[i] \in S
    BY <1>1, ElementOfSeq
  <2>2. /\ s \in Seq(S) /\ m = IF k <= n THEN n - k + 1 ELSE 0
        /\ \A i \in 1..(n - k + 1) : s[i] = t[k + i - 1]
    BY <1>1, <2>1, SubSeqProperties
  <2> QED BY <1>1, <2>2
<1> HIDE DEF s, m, n
<1>3. Reverse(s) \in [1..m -> S] /\ Reverse(t) \in [1..n -> S]
  <2>1. \A i \in 1..m : s[m - i + 1] \in S
    BY <1>1, <1>2, ElementOfSeq DEF m
  <2>2. \A i \in 1..n : t[n - i + 1] \in S
    BY <1>1, ElementOfSeq DEF n
  <2> QED BY <2>1, <2>2 DEF Reverse, m, n
<1>4. /\ Reverse(s) \in Seq(S) /\ Len(Reverse(s)) = m
      /\ Reverse(t) \in Seq(S) /\ Len(Reverse(t)) = n
  BY <1>1, <1>2, <1>3
<1>5. \A i \in 1..m : Reverse(s)[i] = Reverse(t)[i]
  <2> SUFFICES ASSUME NEW i \in 1..m PROVE Reverse(s)[i] = Reverse(t)[i]
    OBVIOUS
  <2>1. Reverse(s)[i] = s[m - i + 1] /\ Reverse(t)[i] = t[n - i + 1]
    BY <1>1, <1>2 DEF Reverse, m, n
  <2>2. m - i + 1 \in 1..m /\ k + (m - i + 1) - 1 = n - i + 1
    <3>1. m \in Nat /\ k \in Nat /\ m = n - k + 1
      BY <1>1, <1>2
    <3> HIDE <1>2
    <3> QED BY <1>1, <3>1
  <2> QED BY <1>2, <2>1, <2>2
<1>6. SubSeq(Reverse(s), 1, m) = SubSeq(Reverse(t), 1, m)
  <2>1. \A i \in 1..m : Reverse(s)[i] \in S /\ Reverse(t)[i] \in S
    BY <1>2, <1>3, <1>1
  <2>2. /\ SubSeq(Reverse(s), 1, m) \in Seq(S) /\ SubSeq(Reverse(t), 1, m) \in Seq(S)
        /\ Len(SubSeq(Reverse(s), 1, m)) = m /\ Len(SubSeq(Reverse(t), 1, m)) = m
        /\ \A i \in 1..m : /\ SubSeq(Reverse(s), 1, m)[i] = Reverse(s)[i]
                           /\ SubSeq(Reverse(t), 1, m)[i] = Reverse(t)[i]
    BY <1>2, <1>1, <2>1, SubSeqProperties
  <2> QED BY <1>5, <2>2, SeqEqual
<1> QED BY <1>1, <1>2, <1>4, <1>6 DEF IsSuffix, IsPrefix, s, n
-----------------------------------------------------------------------------
(* What a request asks for, and what a gate that has been passed says.     *)

LEMMA Asked ==
    ASSUME NEW r \in Requests \cup {NoRequest}
    PROVE  /\ r.length \in Int /\ r.units \in Nat
           /\ r.method \in {"GET", "HEAD", "POST", "DELETE"}
           /\ r \in Requests => r \in Request
BY RequestsAssumption DEF Request, NoRequest, Malformed

LEMMA PassesAre ==
    ASSUME NEW r
    PROVE  /\ Passes("length", r) <=> r.length \in 0..MaxBody
           /\ Passes("path", r) <=> r.path \in Routes(r)
           /\ Passes("query", r) <=> ~r.query
           /\ Passes("key", r) <=> (r.path = "/notifications" => Authorised(r))
<1>1. Passes("length", r) <=> r.length \in 0..MaxBody
  BY Zenon DEF Passes
<1>2. Passes("path", r) <=> r.path \in Routes(r)
  BY Zenon DEF Passes
<1>3. Passes("query", r) <=> ~r.query
  BY Zenon DEF Passes
<1>4. Passes("key", r) <=> (r.path = "/notifications" => Authorised(r))
  BY Zenon DEF Passes
<1> QED BY <1>1, <1>2, <1>3, <1>4

\* An empty rest has nothing before it that was not passed.
LEMMA GatesDone ==
    ASSUME NEW c, Gated(c), c.gates = <<>>, c.request.method \in {"POST", "DELETE"}
    PROVE  c.request.length \in 0..MaxBody
<1> DEFINE r == c.request
           n == Len(Gates(r))
<1>1. PICK k \in 1..(n + 1) : PassedTo(c, k)
  BY DEF Gated
<1>2. n \in Nat /\ k = n + 1
  <2>1. n \in Nat /\ Rest(r, k) = <<>>
    BY <1>1, GatesAre DEF PassedTo
  <2>2. k <= n => Rest(r, k) # <<>>
    BY RestFacts
  <2> QED BY <2>1, <2>2
<1>3. \A i \in 1..n : Gates(r)[i] # "limit" => Passes(Gates(r)[i], r)
  BY <1>1, <1>2 DEF PassedTo
<1>4. CASE r.method = "POST"
  <2>1. Gates(r) = <<"length", "path", "key", "limit">>
    BY <1>4, GatesAre
  <2>2. n = 4 /\ Gates(r)[1] = "length"
    BY <2>1
  <2>3. Passes("length", r)
    BY <1>3, <2>2
  <2> QED BY <2>3, PassesAre
<1>5. CASE r.method = "DELETE"
  <2>1. Gates(r) = <<"path", "query", "length", "limit">>
    BY <1>5, GatesAre
  <2>2. n = 4 /\ Gates(r)[3] = "length"
    BY <2>1
  <2>3. Passes("length", r)
    BY <1>3, <2>2
  <2> QED BY <2>3, PassesAre
<1> QED BY <1>4, <1>5

\* Whoever stands before a limiter has passed every check of a request.
LEMMA AtLimiter ==
    ASSUME NEW c, Gated(c), c.gates # <<>>, Head(c.gates) = "limit"
    PROVE  c.request.path \in Limiters /\ Admissible(c.request, c.request.path)
<1> DEFINE r == c.request
           n == Len(Gates(r))
<1>1. PICK k \in 1..(n + 1) : PassedTo(c, k)
  BY DEF Gated
<1>2. n \in Nat /\ k \in 1..n /\ Gates(r)[k] = "limit"
  <2>1. n \in Nat /\ Rest(r, k) # <<>> /\ Head(Rest(r, k)) = "limit"
    BY <1>1, GatesAre DEF PassedTo
  <2>2. /\ k > n => Rest(r, k) = <<>>
        /\ k <= n => Head(Rest(r, k)) = Gates(r)[k]
    BY RestFacts
  <2> QED BY <2>1, <2>2
<1>3. \A i \in 1..(k - 1) : Gates(r)[i] # "limit" => Passes(Gates(r)[i], r)
  BY <1>1 DEF PassedTo
<1>4. CASE r.method = "POST"
  <2>1. Gates(r) = <<"length", "path", "key", "limit">>
    BY <1>4, GatesAre
  <2>2. n = 4 /\ k = 4
    BY <1>2, <2>1
  <2>3. Passes("length", r) /\ Passes("path", r) /\ Passes("key", r)
    BY <1>3, <2>1, <2>2
  <2> QED BY <1>4, <2>3, PassesAre DEF Routes, Limiters, Admissible, Authorised, SubscriptionKeys
<1>5. CASE r.method = "DELETE"
  <2>1. Gates(r) = <<"path", "query", "length", "limit">>
    BY <1>5, GatesAre
  <2>2. n = 4 /\ k = 4
    BY <1>2, <2>1
  <2>3. Passes("path", r) /\ Passes("query", r) /\ Passes("length", r)
    BY <1>3, <2>1, <2>2
  <2> QED BY <1>5, <2>3, PassesAre DEF Routes, Limiters, Admissible
<1>6. CASE r.method \notin {"POST", "DELETE"}
  <2>1. Gates(r) = <<"path">>
    BY <1>6, GatesAre
  <2> QED BY <1>2, <2>1
<1> QED BY <1>4, <1>5, <1>6

\* The address that the code derives is the sender's.
LEMMA AddressIsSender ==
    ASSUME NEW r \in Request
    PROVE  ClientIp(r) = Sender(r) /\ Sender(r) \in Addresses
<1>1. r.origin \in Clients /\ r.proxied \in BOOLEAN /\ r.claimed \in Clients \cup {Nobody}
  BY DEF Request
<1>2. CASE r.proxied
  <2> DEFINE p == IF r.claimed = Nobody THEN <<>> ELSE <<r.claimed>>
             q == <<r.origin>>
  <2>1. /\ p \in Seq(Clients) /\ q \in Seq(Clients) /\ Len(q) = 1 /\ q[1] = r.origin
        /\ Forwarded(r) = p \o q
    BY <1>1, <1>2 DEF Forwarded
  <2> HIDE DEF p, q
  <2>2. /\ p \o q \in Seq(Clients) /\ Len(p) \in Nat /\ Len(p \o q) = Len(p) + 1
        /\ (p \o q)[Len(p) + 1] = r.origin
    <3>1. Len(p) \in Nat
      BY <2>1, LenProperties
    <3>2. /\ p \o q \in Seq(Clients) /\ Len(p \o q) = Len(p) + Len(q)
          /\ \A i \in 1..(Len(p) + Len(q)) :
                (p \o q)[i] = IF i <= Len(p) THEN p[i] ELSE q[i - Len(p)]
      BY <2>1, ConcatProperties
    <3>3. Len(p) + 1 \in 1..(Len(p) + Len(q)) /\ (Len(p) + 1) - Len(p) = 1
          /\ ~(Len(p) + 1 <= Len(p))
      BY <2>1, <3>1
    <3> QED BY <2>1, <3>1, <3>2, <3>3
  <2>3. Forwarded(r) # <<>> /\ Last(Forwarded(r)) = r.origin
    BY <2>1, <2>2, EmptySeq DEF Last
  <2> QED BY <1>1, <1>2, <2>3 DEF ClientIp, PeerOf, Sender, Addresses
<1>3. CASE ~r.proxied
  BY <1>1, <1>3, AddressAssumption DEF ClientIp, PeerOf, Sender, Addresses
<1> QED BY <1>1, <1>2, <1>3
-----------------------------------------------------------------------------
(* The life cycle alone.                                                   *)

\* Once the server has left its loop it never enters it again.
Departed ==
    /\ isShutDown => server \in {"left", "gone"}
    /\ caller = "returned" => server \in {"left", "gone"}

LEMMA LifecycleStep ==
    ASSUME TypeOK, Departed, [Next]_vars
    PROVE  TypeOK' /\ Departed'
<1>1. CASE ServeForever
  BY <1>1 DEF TypeOK, Departed, ServeForever
<1>2. CASE LeaveLoop
  BY <1>2 DEF TypeOK, Departed, LeaveLoop
<1>3. CASE Close
  BY <1>3 DEF TypeOK, Departed, Close
<1>4. CASE Exit
  BY <1>4 DEF TypeOK, Departed, Exit
<1>5. CASE CallShutdown
  BY <1>5 DEF TypeOK, Departed, CallShutdown
<1>6. CASE SetRequest
  BY <1>6 DEF TypeOK, Departed, SetRequest
<1>7. CASE Awaited
  BY <1>7 DEF TypeOK, Departed, Awaited
<1>8. ASSUME NEW h \in Handlers, Accept(h)
      PROVE  TypeOK' /\ Departed'
  BY <1>8 DEF TypeOK, Departed, Accept
<1>9. ASSUME NEW h \in Handlers, Finish(h)
      PROVE  TypeOK' /\ Departed'
  BY <1>9 DEF TypeOK, Departed, Finish
<1>10. CASE UNCHANGED vars
  BY <1>10 DEF TypeOK, Departed, vars
<1> QED
  BY <1>1, <1>2, <1>3, <1>4, <1>5, <1>6, <1>7, <1>8, <1>9, <1>10 DEF Next, Serving, Shutdown

LEMMA LifecycleInvariant == Spec => [](TypeOK /\ Departed)
<1>1. Init => TypeOK /\ Departed
  BY DEF Init, TypeOK, Departed
<1>2. TypeOK /\ Departed /\ [Next]_vars => (TypeOK /\ Departed)'
  BY LifecycleStep
<1> QED BY <1>1, <1>2, PTL DEF Spec

\* The server, the call of shutdown() and what is open keep their types, and no
\* handler outlives the process.
THEOREM LifecycleTypeCorrect == Spec => []TypeOK
BY LifecycleInvariant, PTL

\* Whoever called shutdown(), from whichever thread: when the call has returned,
\* no connection is accepted any more.
THEOREM ShutdownFinal == Spec => []NothingAcceptedAfterShutdown
<1>1. TypeOK /\ Departed => NothingAcceptedAfterShutdown
  BY DEF Departed, NothingAcceptedAfterShutdown
<1> QED BY <1>1, LifecycleInvariant, PTL

-----------------------------------------------------------------------------
(* A connection.  Beyond the types: nothing is read before every gate has  *)
(* been passed, or what is to be refused is drained; only at the head does *)
(* a peer wait for "100 Continue"; and the application starts only when a  *)
(* form has been read in full or its peer has gone.                        *)

Places   == {"head", "gates", "body", "drain", "app", "ended"}
Peers    == {"waiting", "writing", "stalled", "gone"}
Outcomes == {"none", "answered", "reset", "timedOut", "raised", "cut"}
Statuses == {0, 200, 400, 401, 404, 413, 429}

Conn ==
    [request : Requests \cup {NoRequest}, at : Places, gates : Seq(GateNames),
     toWrite : Nat, wire : 0..Buffer, read : Nat, peer : Peers,
     outcome : Outcomes, status : Statuses]

Placed(c) ==
    /\ c.at # "ended" => c.request \in Requests
    /\ c.at \in {"head", "gates", "ended"} => c.read = 0
    /\ c.at \in {"body", "app"} => c.gates = <<>> /\ c.read <= MaxBody
    /\ c.at = "drain" => c.read <= DrainCap
    /\ c.peer = "waiting" => c.at = "head"
    /\ c.at = "app" /\ c.peer # "gone" /\ c.request.method \in {"POST", "DELETE"} =>
          c.request.length <= c.read

Sound(c) ==
    /\ c \in Conn /\ Gated(c) /\ Placed(c)
    /\ c.wire + c.read + c.toWrite <= c.request.units

Open(c) == Sound(c) /\ c.at # "ended"

\* The gates of a connection stay what they are when neither they nor the
\* request change.
LEMMA StaysGated ==
    ASSUME NEW c, NEW d, Gated(c), d.gates = c.gates, d.request = c.request
    PROVE  Gated(d)
BY DEF Gated, PassedTo

LEMMA EndedSound ==
    ASSUME NEW outcome \in Outcomes, NEW status \in Statuses
    PROVE  /\ Sound(Ended(outcome, status)) /\ Ended(outcome, status).at = "ended"
           /\ Ended(outcome, status).outcome = outcome /\ Ended(outcome, status).status = status
<1> DEFINE e == Ended(outcome, status)
<1>1. /\ e.request = NoRequest /\ e.at = "ended" /\ e.gates = <<>> /\ e.toWrite = 0
      /\ e.wire = 0 /\ e.read = 0 /\ e.peer = "gone" /\ e.outcome = outcome /\ e.status = status
  BY DEF Ended
<1>2. e \in Conn
  BY SizeAssumption DEF Ended, Conn, Places, Peers
<1>3. Gated(e)
  <2>1. /\ NoRequest.method = "GET" /\ NoRequest.path = "/health" /\ NoRequest.units = 0
        /\ Gates(NoRequest) = <<"path">>
    BY GatesAre DEF NoRequest
  <2>2. Len(Gates(NoRequest)) = 1 /\ Gates(NoRequest)[1] = "path" /\ 2 \in 1..(1 + 1)
    BY <2>1
  <2>3. Rest(NoRequest, 2) = <<>>
    BY <2>2, RestFacts
  <2>4. Passes("path", NoRequest)
    BY <2>1, PassesAre DEF Routes
  <2>5. PassedTo(e, 2)
    BY <1>1, <2>2, <2>3, <2>4 DEF PassedTo
  <2> QED BY <1>1, <2>2, <2>5 DEF Gated
<1>4. Placed(e)
  BY <1>1, SizeAssumption DEF Placed
<1>5. e.wire + e.read + e.toWrite <= e.request.units
  BY <1>1 DEF NoRequest
<1> HIDE DEF e
<1> QED BY <1>1, <1>2, <1>3, <1>4, <1>5 DEF Sound, e

LEMMA OpenedSound ==
    ASSUME NEW r \in Requests
    PROVE  Open(Opened(r))
<1> DEFINE o == Opened(r)
<1>1. /\ o.request = r /\ o.at = "head" /\ o.gates = Gates(r) /\ o.toWrite = r.units
      /\ o.wire = 0 /\ o.read = 0
  BY DEF Opened
<1>2. Gates(r) \in Seq(GateNames) /\ Len(Gates(r)) \in Nat /\ r.units \in Nat
  BY GatesAre, Asked
<1>3. o \in Conn
  BY <1>2, SizeAssumption DEF Opened, Conn, Places, Peers, Outcomes, Statuses
<1>4. Gated(o)
  <2>1. Rest(r, 1) = Gates(r)
    BY <1>2, SubSeqFull DEF Rest
  <2>2. PassedTo(o, 1)
    BY <1>1, <2>1 DEF PassedTo
  <2> QED BY <1>1, <1>2, <2>2 DEF Gated
<1>5. Placed(o) /\ o.wire + o.read + o.toWrite <= o.request.units
  BY <1>1, <1>2 DEF Placed
<1> HIDE DEF o
<1> QED BY <1>1, <1>3, <1>4, <1>5 DEF Sound, Open, o
-----------------------------------------------------------------------------
(* What a step does to the connection it works on.                         *)

LEMMA Numbers ==
    ASSUME NEW c, Sound(c)
    PROVE  /\ c.toWrite \in Nat /\ c.wire \in 0..Buffer /\ c.wire \in Nat /\ c.read \in Nat
           /\ c.request.units \in Nat /\ c.request.length \in Int
           /\ c.request.method \in {"GET", "HEAD", "POST", "DELETE"}
           /\ Buffer \in Nat /\ MaxBody \in Nat /\ DrainCap \in Nat
           /\ c.wire + c.read + c.toWrite <= c.request.units
<1>1. c.request \in Requests \cup {NoRequest}
  BY DEF Sound, Conn
<1>2. /\ c.request.units \in Nat /\ c.request.length \in Int
      /\ c.request.method \in {"GET", "HEAD", "POST", "DELETE"}
  BY <1>1, Asked
<1> QED BY <1>2, SizeAssumption DEF Sound, Conn

LEMMA HeadReadSound ==
    ASSUME NEW c, Open(c), c.at = "head"
    PROVE  Open([c EXCEPT !.at = "gates", !.peer = IF @ = "waiting" THEN "writing" ELSE @])
<1> DEFINE d == [c EXCEPT !.at = "gates", !.peer = IF @ = "waiting" THEN "writing" ELSE @]
<1>1. /\ d \in Conn /\ d.request = c.request /\ d.at = "gates" /\ d.gates = c.gates
      /\ d.toWrite = c.toWrite /\ d.wire = c.wire /\ d.read = c.read /\ d.peer # "waiting"
  BY DEF Open, Sound, Conn, Places, Peers
<1>2. Gated(d)
  BY <1>1, StaysGated DEF Open, Sound
<1> HIDE DEF d
<1>3. Placed(d) /\ d.wire + d.read + d.toWrite <= d.request.units
  BY <1>1 DEF Open, Sound, Placed
<1> QED BY <1>1, <1>2, <1>3 DEF Open, Sound, d

LEMMA GatePassedSound ==
    ASSUME NEW c, Open(c), c.at = "gates", c.gates # <<>>,
           Head(c.gates) # "limit" => Passes(Head(c.gates), c.request)
    PROVE  Open([c EXCEPT !.gates = Tail(@)]) /\ Tail(c.gates) # c.gates
<1> DEFINE d == [c EXCEPT !.gates = Tail(@)]
           n == Len(Gates(c.request))
<1>1. /\ d.request = c.request /\ d.at = "gates" /\ d.gates = Tail(c.gates)
      /\ d.toWrite = c.toWrite /\ d.wire = c.wire /\ d.read = c.read /\ d.peer = c.peer
  BY DEF Open, Sound, Conn
<1>2. c.gates \in Seq(GateNames) /\ Tail(c.gates) \in Seq(GateNames) /\ Tail(c.gates) # c.gates
  <2>1. c.gates \in Seq(GateNames)
    BY DEF Open, Sound, Conn
  <2>2. /\ Tail(c.gates) \in Seq(GateNames) /\ Len(Tail(c.gates)) = Len(c.gates) - 1
        /\ Len(c.gates) \in Nat
    BY <2>1, HeadTailProperties, LenProperties
  <2>3. Tail(c.gates) # c.gates
    <3>1. \A t : Len(t) = Len(c.gates) - 1 => t # c.gates
      BY <2>2
    <3> QED BY <2>2, <3>1
  <2> QED BY <2>1, <2>2, <2>3
<1>3. d \in Conn
  BY <1>2 DEF Open, Sound, Conn
<1>4. Gated(d)
  <2>1. PICK k \in 1..(n + 1) : PassedTo(c, k)
    BY DEF Open, Sound, Gated
  <2>2. n \in Nat /\ c.gates = Rest(c.request, k)
    BY <2>1, GatesAre DEF PassedTo
  <2>3. /\ k > n => Rest(c.request, k) = <<>>
        /\ k <= n => /\ Head(Rest(c.request, k)) = Gates(c.request)[k]
                     /\ Tail(Rest(c.request, k)) = Rest(c.request, k + 1)
    BY RestFacts
  <2>4. /\ k \in 1..n /\ Head(c.gates) = Gates(c.request)[k]
        /\ Tail(c.gates) = Rest(c.request, k + 1)
    BY <2>2, <2>3
  <2>5. \A i \in 1..(k + 1 - 1) :
           Gates(c.request)[i] # "limit" => Passes(Gates(c.request)[i], c.request)
    <3> SUFFICES ASSUME NEW i \in 1..(k + 1 - 1), Gates(c.request)[i] # "limit"
                 PROVE  Passes(Gates(c.request)[i], c.request)
      OBVIOUS
    <3>1. i = k \/ i \in 1..(k - 1)
      BY <2>2, <2>4
    <3>2. CASE i = k
      BY <2>4, <3>2
    <3>3. CASE i \in 1..(k - 1)
      BY <2>1, <3>3 DEF PassedTo
    <3> QED BY <3>1, <3>2, <3>3
  <2>6. PassedTo(d, k + 1) /\ k + 1 \in 1..(n + 1)
    BY <1>1, <2>2, <2>4, <2>5 DEF PassedTo
  <2> QED BY <1>1, <2>6 DEF Gated
<1> HIDE DEF d
<1>5. Placed(d) /\ d.wire + d.read + d.toWrite <= d.request.units
  BY <1>1 DEF Open, Sound, Placed
<1> QED BY <1>1, <1>2, <1>3, <1>4, <1>5 DEF Open, Sound, d

\* A step to another place, nothing else of the connection changing.
LEMMA PlaceSound ==
    ASSUME NEW c, Open(c), NEW p \in {"body", "app", "drain"},
           c.at \in {"gates", "body"},
           p \in {"body", "app"} => c.gates = <<>>,
           p = "app" => c.at = "body" /\ (~Hungry(c) \/ c.peer = "gone")
    PROVE  Open([c EXCEPT !.at = p])
<1> DEFINE d == [c EXCEPT !.at = p]
<1>1. /\ d \in Conn /\ d.request = c.request /\ d.at = p /\ d.gates = c.gates
      /\ d.toWrite = c.toWrite /\ d.wire = c.wire /\ d.read = c.read /\ d.peer = c.peer
  BY DEF Open, Sound, Conn, Places
<1>2. Gated(d)
  BY <1>1, StaysGated DEF Open, Sound
<1>3. c.read \in Nat /\ c.request.length \in Int /\ MaxBody \in Nat /\ DrainCap \in Nat /\ MaxBody < DrainCap
  BY Numbers, SizeAssumption DEF Open
<1> HIDE DEF d
<1>4. c.at # "ended" /\ c.request \in Requests /\ c.peer # "waiting" /\ c.read <= MaxBody
  BY <1>3 DEF Open, Sound, Placed
<1>5. p = "app" /\ c.peer # "gone" /\ c.request.method \in {"POST", "DELETE"} =>
         c.request.length <= c.read
  <2> SUFFICES ASSUME p = "app", c.peer # "gone", c.request.method \in {"POST", "DELETE"}
               PROVE  c.request.length <= c.read
    OBVIOUS
  <2>1. c.request.length \in 0..MaxBody
    BY GatesDone DEF Open, Sound
  <2>2. ~(c.read < Wanted(c)) /\ Wanted(c) = c.request.length
    BY DEF Hungry, Wanted
  <2> QED BY <1>3, <2>2
<1>6. Placed(d) /\ d.wire + d.read + d.toWrite <= d.request.units
  <2>1. d.wire + d.read + d.toWrite <= d.request.units
    BY <1>1 DEF Open, Sound
  <2> QED BY <1>1, <1>3, <1>4, <1>5, <2>1 DEF Placed
<1> QED BY <1>1, <1>2, <1>6 DEF Open, Sound, d

LEMMA ReadSound ==
    ASSUME NEW c, Open(c), Hungry(c), c.wire > 0
    PROVE  Open([c EXCEPT !.wire = @ - 1, !.read = @ + 1])
<1> DEFINE d == [c EXCEPT !.wire = @ - 1, !.read = @ + 1]
<1>1. /\ c.toWrite \in Nat /\ c.wire \in 0..Buffer /\ c.read \in Nat /\ Buffer \in Nat
      /\ c.request.units \in Nat /\ c.request.length \in Int
      /\ MaxBody \in Nat /\ DrainCap \in Nat /\ c.wire + c.read + c.toWrite <= c.request.units
  BY Numbers DEF Open
<1>2. c.wire - 1 \in 0..Buffer /\ c.read + 1 \in Nat
  BY <1>1
<1>3. /\ d \in Conn /\ d.request = c.request /\ d.at = c.at /\ d.gates = c.gates
      /\ d.toWrite = c.toWrite /\ d.wire = c.wire - 1 /\ d.read = c.read + 1 /\ d.peer = c.peer
  BY <1>2 DEF Open, Sound, Conn
<1>4. Gated(d)
  BY <1>3, StaysGated DEF Open, Sound
<1> HIDE DEF d
<1>5. c.at \in {"body", "drain"} /\ c.read < Wanted(c)
  BY DEF Hungry
<1>6. CASE c.at = "body"
  <2>1. c.request.method \in {"POST", "DELETE"} /\ Wanted(c) = c.request.length
    BY <1>1, <1>5, <1>6 DEF Wanted
  <2>2. c.gates = <<>>
    BY <1>6 DEF Open, Sound, Placed
  <2>3. c.request.length \in 0..MaxBody
    BY <2>1, <2>2, GatesDone DEF Open, Sound
  <2>4. d.read <= MaxBody
    BY <1>1, <1>3, <1>5, <2>1, <2>3
  <2>5. Placed(d)
    BY <1>3, <1>6, <2>2, <2>4 DEF Open, Sound, Placed
  <2>6. d.wire + d.read + d.toWrite <= d.request.units
    BY <1>1, <1>3
  <2> QED BY <1>3, <1>4, <1>6, <2>5, <2>6 DEF Open, Sound, d
<1>7. CASE c.at = "drain"
  <2>1. Wanted(c) = IF c.request.length < DrainCap THEN c.request.length ELSE DrainCap
    BY <1>7 DEF Wanted
  <2>2. d.read <= DrainCap
    BY <1>1, <1>3, <1>5, <2>1
  <2>3. Placed(d)
    BY <1>3, <1>7, <2>2 DEF Open, Sound, Placed
  <2>4. d.wire + d.read + d.toWrite <= d.request.units
    BY <1>1, <1>3
  <2> QED BY <1>3, <1>4, <1>7, <2>3, <2>4 DEF Open, Sound, d
<1> QED BY <1>5, <1>6, <1>7

LEMMA WrittenSound ==
    ASSUME NEW c, Open(c), c.toWrite > 0, c.wire < Buffer
    PROVE  Open([c EXCEPT !.toWrite = @ - 1, !.wire = @ + 1])
<1> DEFINE d == [c EXCEPT !.toWrite = @ - 1, !.wire = @ + 1]
<1>1. /\ c.toWrite \in Nat /\ c.wire \in 0..Buffer /\ c.read \in Nat /\ Buffer \in Nat
      /\ c.request.units \in Nat /\ c.wire + c.read + c.toWrite <= c.request.units
  BY Numbers DEF Open
<1>2. c.wire + 1 \in 0..Buffer /\ c.toWrite - 1 \in Nat
  BY <1>1
<1>3. /\ d \in Conn /\ d.request = c.request /\ d.at = c.at /\ d.gates = c.gates
      /\ d.toWrite = c.toWrite - 1 /\ d.wire = c.wire + 1 /\ d.read = c.read /\ d.peer = c.peer
  BY <1>2 DEF Open, Sound, Conn
<1>4. Gated(d)
  BY <1>3, StaysGated DEF Open, Sound
<1> HIDE DEF d
<1>5. Placed(d)
  BY <1>3 DEF Open, Sound, Placed
<1>6. d.wire + d.read + d.toWrite <= d.request.units
  BY <1>1, <1>3
<1> QED BY <1>3, <1>4, <1>5, <1>6 DEF Open, Sound, d

\* The peer stalls or gives up: what it would have written stays or is lost.
LEMMA PeerSound ==
    ASSUME NEW c, Open(c), NEW p \in {"stalled", "gone"}, NEW n \in Nat, n <= c.toWrite,
           p = "gone" \/ c.at # "app"
    PROVE  Open([c EXCEPT !.peer = p, !.toWrite = n])
<1> DEFINE d == [c EXCEPT !.peer = p, !.toWrite = n]
<1>1. /\ c.toWrite \in Nat /\ c.wire \in Nat /\ c.read \in Nat
      /\ c.request.units \in Nat /\ c.wire + c.read + c.toWrite <= c.request.units
  BY Numbers DEF Open
<1>2. /\ d \in Conn /\ d.request = c.request /\ d.at = c.at /\ d.gates = c.gates
      /\ d.toWrite = n /\ d.wire = c.wire /\ d.read = c.read /\ d.peer = p
  BY DEF Open, Sound, Conn, Peers
<1>3. Gated(d)
  BY <1>2, StaysGated DEF Open, Sound
<1> HIDE DEF d
<1>4. Placed(d)
  BY <1>2 DEF Open, Sound, Placed
<1>5. d.wire + d.read + d.toWrite <= d.request.units
  BY <1>1, <1>2
<1> QED BY <1>2, <1>3, <1>4, <1>5 DEF Open, Sound, d

-----------------------------------------------------------------------------
(* The invariant of the front.                                             *)

Inv ==
    /\ TypeOK
    /\ conn \in [Handlers -> Conn]
    /\ \A h \in Handlers : Sound(conn[h])
    /\ running = {h \in Handlers : conn[h].at # "ended"}
    /\ buckets \in [Limiters -> [Addresses -> 0..Capacity]]

\* How a handler may end its connection while the peer keeps up.
Deserved(c, outcome, status) ==
    \/ outcome = "answered"
    \/ outcome = "reset" /\ MayLose(c.request, status)
    \/ outcome = "raised" /\ MayRaise(c)

\* A step of a handler or its peer goes on with a sound connection, pays, or ends.
Moves(h) == \E d : Open(d) /\ Becomes(h, d)

Ends(h) ==
    \E outcome \in Outcomes, status \in Statuses :
        /\ End(h, outcome, status)
        /\ conn[h].peer \in {"writing", "waiting"} => Deserved(conn[h], outcome, status)

LEMMA RunningOpen ==
    ASSUME Inv, NEW h \in Handlers
    PROVE  /\ h \in running <=> Open(conn[h])
           /\ conn[h] \in Conn /\ Sound(conn[h])
BY DEF Inv, Open

\* A reply: what it may lose is what the peer has still to say.
LEMMA ReplyEnds ==
    ASSUME NEW h \in Handlers, NEW status \in Statuses, Reply(h, status),
           conn[h].toWrite + conn[h].wire > 0 /\ conn[h].peer \in {"writing", "waiting"} =>
               Deserved(conn[h], "reset", status)
    PROVE  Ends(h)
<1>1. PICK outcome \in {"answered", "reset"} :
         /\ End(h, outcome, status)
         /\ outcome = "reset" => conn[h].toWrite + conn[h].wire > 0
  BY DEF Reply
<1>2. outcome \in Outcomes /\ Deserved(conn[h], "answered", status)
  BY <1>1 DEF Outcomes, Deserved
<1> QED BY <1>1, <1>2 DEF Ends

\* Every step of a handler: it goes on, it pays, or it ends as it may.
LEMMA HandlerStep ==
    ASSUME Inv, NEW h \in Handlers, Handle(h)
    PROVE  Moves(h) \/ Pay(h) \/ Ends(h)
<1> DEFINE c == conn[h]
<1>0. /\ h \in running <=> Open(c)
      /\ c \in Conn /\ Sound(c)
  BY RunningOpen
<1>n. ASSUME Open(c)
      PROVE  /\ c.toWrite \in Nat /\ c.wire \in Nat /\ c.read \in Nat
             /\ c.request.units \in Nat /\ c.request.length \in Int /\ DrainCap \in Nat
             /\ c.request.method \in {"GET", "HEAD", "POST", "DELETE"}
             /\ c.wire + c.read + c.toWrite <= c.request.units
  BY <1>n, Numbers DEF Open
<1>1. CASE ReadHead(h)
  <2>1. Open(c) /\ c.at = "head"
    BY <1>0, <1>1 DEF ReadHead, Becomes
  <2>2. Open([c EXCEPT !.at = "gates", !.peer = IF @ = "waiting" THEN "writing" ELSE @])
    BY <2>1, HeadReadSound
  <2> QED BY <1>1, <2>2 DEF ReadHead, Moves
<1>2. CASE HeadMissing(h)
  BY <1>2 DEF HeadMissing, Ends, Outcomes, Statuses
<1>3. CASE PassGate(h)
  <2>1. PICK gate \in {"length", "path", "query", "key"} :
           AtGate(h, gate) /\ Passes(gate, c.request) /\ Through(h)
    BY <1>3 DEF PassGate
  <2>2. /\ c.at = "gates" /\ c.gates # <<>> /\ Head(c.gates) = gate
        /\ Becomes(h, [c EXCEPT !.gates = Tail(@)])
    BY <2>1 DEF AtGate, Through
  <2>3. Open(c)
    BY <1>0, <2>2 DEF Becomes
  <2>4. Open([c EXCEPT !.gates = Tail(@)])
    BY <2>1, <2>2, <2>3, GatePassedSound
  <2> QED BY <2>2, <2>4 DEF Moves
<1>4. CASE Refuse(h)
  <2>1. PICK gate \in {"length", "path", "query", "key"} : Reply(h, Status(gate))
    BY <1>4 DEF Refuse
  <2>2. Status(gate) \in {400, 401, 404, 429}
    BY DEF Status
  <2>3. Deserved(c, "reset", Status(gate)) /\ Status(gate) \in Statuses
    BY <2>2 DEF Deserved, MayLose, Statuses
  <2> QED BY <2>1, <2>3, ReplyEnds
<1>5. CASE Oversized(h)
  <2>1. c.at = "gates" /\ Becomes(h, [c EXCEPT !.at = "drain"])
    BY <1>5 DEF Oversized, AtGate
  <2>2. Open(c)
    BY <1>0, <2>1 DEF Becomes
  <2>3. Open([c EXCEPT !.at = "drain"])
    BY <2>1, <2>2, PlaceSound
  <2> QED BY <2>1, <2>3 DEF Moves
<1>6. CASE KeyRaises(h)
  <2>1. End(h, "raised", 0)
    BY <1>6 DEF KeyRaises
  <2>2. MayRaise(c)
    BY <1>6 DEF KeyRaises, AtGate, Incomparable, SubscriptionKeys, MayRaise
  <2>3. "raised" \in Outcomes /\ 0 \in Statuses
    BY DEF Outcomes, Statuses
  <2> QED BY <2>1, <2>2, <2>3 DEF Ends, Deserved
<1>7. CASE RateLimited(h)
  <2>1. Reply(h, 429)
    BY <1>7 DEF RateLimited, Status
  <2>2. Deserved(c, "reset", 429) /\ 429 \in Statuses
    BY DEF Deserved, MayLose, Statuses
  <2> QED BY <2>1, <2>2, ReplyEnds
<1>8. CASE AllPassed(h)
  <2>1. c.at = "gates" /\ c.gates = <<>> /\ Becomes(h, [c EXCEPT !.at = "body"])
    BY <1>8 DEF AllPassed
  <2>2. Open(c)
    BY <1>0, <2>1 DEF Becomes
  <2>3. Open([c EXCEPT !.at = "body"])
    BY <2>1, <2>2, PlaceSound
  <2> QED BY <2>1, <2>3 DEF Moves
<1>9. CASE Read(h)
  <2>1. Hungry(c) /\ c.wire > 0 /\ Becomes(h, [c EXCEPT !.wire = @ - 1, !.read = @ + 1])
    BY <1>9 DEF Read
  <2>2. Open(c)
    BY <1>0, <2>1 DEF Becomes
  <2>3. Open([c EXCEPT !.wire = @ - 1, !.read = @ + 1])
    BY <2>1, <2>2, ReadSound
  <2> QED BY <2>1, <2>3 DEF Moves
<1>10. CASE BodyRead(h)
  <2>1. /\ c.at = "body" /\ Becomes(h, [c EXCEPT !.at = "app"])
        /\ ~Hungry(c) \/ c.peer = "gone"
    BY <1>10 DEF BodyRead, Complete
  <2>2. Open(c)
    BY <1>0, <2>1 DEF Becomes
  <2>3. c.gates = <<>>
    BY <2>1, <2>2 DEF Open, Sound, Placed
  <2>4. Open([c EXCEPT !.at = "app"])
    BY <2>1, <2>2, <2>3, PlaceSound
  <2> QED BY <2>1, <2>4 DEF Moves
<1>11. CASE Drained(h)
  <2>1. c.at = "drain" /\ (~Hungry(c) \/ c.peer = "gone") /\ Reply(h, 413)
    BY <1>11 DEF Drained, Complete
  <2>2. Open(c)
    BY <1>0, <2>1 DEF Open
  <2>3. c.toWrite + c.wire > 0 /\ c.peer \in {"writing", "waiting"} => Deserved(c, "reset", 413)
    <3> SUFFICES ASSUME c.toWrite + c.wire > 0, c.peer # "gone"
                 PROVE  c.request.units > DrainCap \/ c.request.units > c.request.length
      BY DEF Deserved, MayLose
    <3>1. ~(c.read < Wanted(c))
      BY <2>1 DEF Hungry
    <3>2. Wanted(c) = IF c.request.length < DrainCap THEN c.request.length ELSE DrainCap
      BY <2>1 DEF Wanted
    <3>3. c.request.units > c.read
      BY <1>n, <2>2
    <3> QED BY <1>n, <2>2, <3>1, <3>2, <3>3
  <2>4. 413 \in Statuses
    BY DEF Statuses
  <2> QED BY <2>1, <2>3, <2>4, ReplyEnds
<1>12. CASE AppAnswers(h)
  <2>1. c.at = "app" /\ Reply(h, 200)
    BY <1>12 DEF AppAnswers
  <2>2. Open(c)
    BY <1>0, <2>1 DEF Open
  <2>3. c.toWrite + c.wire > 0 /\ c.peer \in {"writing", "waiting"} => Deserved(c, "reset", 200)
    <3> SUFFICES ASSUME c.toWrite + c.wire > 0, c.peer # "gone",
                        c.request.method \in {"POST", "DELETE"}
                 PROVE  c.request.units > c.request.length
      BY <1>n, <2>2 DEF Deserved, MayLose
    <3>1. c.request.length <= c.read
      BY <2>1, <2>2 DEF Open, Sound, Placed
    <3> QED BY <1>n, <2>2, <3>1
  <2>4. 200 \in Statuses
    BY DEF Statuses
  <2> QED BY <2>1, <2>3, <2>4, ReplyEnds
<1>13. CASE AppRaises(h)
  <2>1. End(h, "raised", 0) /\ MayRaise(c)
    BY <1>13 DEF AppRaises, MayRaise
  <2>2. "raised" \in Outcomes /\ 0 \in Statuses
    BY DEF Outcomes, Statuses
  <2> QED BY <2>1, <2>2 DEF Ends, Deserved
<1>14. CASE Timeout(h)
  <2>1. End(h, "timedOut", 0)
    BY <1>14 DEF Timeout
  <2>2. Open(c)
    BY <1>0, <2>1 DEF End, Finish
  <2>3. c.peer \notin {"writing", "waiting"}
    BY <1>14, <2>2 DEF Timeout, Hungry, Open, Sound, Placed
  <2> QED BY <2>1, <2>3 DEF Ends, Outcomes, Statuses
<1> QED
  BY <1>1, <1>2, <1>3, <1>4, <1>5, <1>6, <1>7, <1>8, <1>9, <1>10, <1>11, <1>12, <1>13, <1>14
  DEF Handle

LEMMA PeerStep ==
    ASSUME Inv, NEW h \in Handlers, PeerWrites(h) \/ Stall(h) \/ GiveUp(h)
    PROVE  Moves(h)
<1> DEFINE c == conn[h]
<1>1. c \in Conn /\ Open(c)
  BY RunningOpen DEF PeerWrites, Stall, GiveUp, Becomes
<1>2. c.toWrite \in Nat
  BY <1>1, Numbers DEF Open
<1>3. CASE PeerWrites(h)
  <2>1. Open([c EXCEPT !.toWrite = @ - 1, !.wire = @ + 1])
    BY <1>1, <1>3, WrittenSound DEF PeerWrites
  <2> QED BY <1>3, <2>1 DEF PeerWrites, Moves
<1>4. CASE Stall(h)
  <2>1. c.at # "app" /\ Becomes(h, [c EXCEPT !.peer = "stalled"])
    BY <1>4 DEF Stall, Hungry
  <2>2. Open([c EXCEPT !.peer = "stalled", !.toWrite = c.toWrite])
    <3>1. c.toWrite <= c.toWrite /\ "stalled" \in {"stalled", "gone"}
      BY <1>2
    <3> QED BY <1>1, <1>2, <2>1, <3>1, PeerSound, Zenon
  <2>3. [c EXCEPT !.peer = "stalled", !.toWrite = c.toWrite] = [c EXCEPT !.peer = "stalled"]
    BY <1>1 DEF Conn
  <2> QED BY <2>1, <2>2, <2>3 DEF Moves
<1>5. CASE GiveUp(h)
  <2>1. Open([c EXCEPT !.peer = "gone", !.toWrite = 0])
    <3>1. 0 \in Nat /\ 0 <= c.toWrite /\ "gone" \in {"stalled", "gone"}
      BY <1>2
    <3> QED BY <1>1, <3>1, PeerSound, Zenon
  <2> QED BY <1>5, <2>1 DEF GiveUp, Moves
<1> QED BY <1>3, <1>4, <1>5

LEMMA MoveKeeps ==
    ASSUME Inv, NEW h \in Handlers, NEW d, Open(d), Becomes(h, d)
    PROVE  Inv'
<1>1. conn' = [conn EXCEPT ![h] = d] /\ h \in running /\ UNCHANGED <<vars, buckets>>
  BY DEF Becomes
<1>2. UNCHANGED <<server, caller, request, isShutDown, open, running, buckets>>
  BY <1>1 DEF vars
<1>3. d \in Conn /\ Sound(d) /\ d.at # "ended"
  BY DEF Open, Sound
<1>4. conn' \in [Handlers -> Conn]
  BY <1>1, <1>3 DEF Inv
<1>5. \A g \in Handlers : conn'[g] = IF g = h THEN d ELSE conn[g]
  BY <1>1 DEF Inv
<1>6. \A g \in Handlers : Sound(conn'[g])
  BY <1>3, <1>5 DEF Inv
<1>7. running = {g \in Handlers : conn'[g].at # "ended"}
  BY <1>1, <1>3, <1>5 DEF Inv
<1>8. TypeOK'
  BY <1>2 DEF Inv, TypeOK
<1> QED BY <1>2, <1>4, <1>6, <1>7, <1>8 DEF Inv

LEMMA EndKeeps ==
    ASSUME Inv, NEW h \in Handlers, NEW outcome \in Outcomes, NEW status \in Statuses,
           End(h, outcome, status)
    PROVE  Inv'
<1> DEFINE d == Ended(outcome, status)
<1>1. /\ conn' = [conn EXCEPT ![h] = d] /\ running' = running \ {h}
      /\ UNCHANGED <<server, caller, request, isShutDown, open, buckets>>
  BY DEF End, Finish
<1>2. Sound(d) /\ d.at = "ended"
  BY EndedSound
<1> HIDE DEF d
<1>3. conn' \in [Handlers -> Conn]
  BY <1>1, <1>2 DEF Inv, Sound
<1>4. \A g \in Handlers : conn'[g] = IF g = h THEN d ELSE conn[g]
  BY <1>1 DEF Inv
<1>5. \A g \in Handlers : Sound(conn'[g])
  BY <1>2, <1>4 DEF Inv
<1>6. running' = {g \in Handlers : conn'[g].at # "ended"}
  BY <1>1, <1>2, <1>4 DEF Inv
<1>7. TypeOK'
  BY <1>1 DEF Inv, TypeOK
<1> QED BY <1>1, <1>3, <1>5, <1>6, <1>7 DEF Inv

LEMMA ConnectKeeps ==
    ASSUME Inv, NEW h \in Handlers, NEW r \in Requests, Connect(h, r)
    PROVE  Inv'
<1> DEFINE d == Opened(r)
<1>1. /\ conn' = [conn EXCEPT ![h] = d] /\ running' = running \cup {h}
      /\ server = "serving"
      /\ UNCHANGED <<server, caller, request, isShutDown, open, buckets>>
  BY DEF Connect, Accept
<1>2. Sound(d) /\ d.at # "ended"
  BY OpenedSound DEF Open
<1> HIDE DEF d
<1>3. conn' \in [Handlers -> Conn]
  BY <1>1, <1>2 DEF Inv, Sound
<1>4. \A g \in Handlers : conn'[g] = IF g = h THEN d ELSE conn[g]
  BY <1>1 DEF Inv
<1>5. \A g \in Handlers : Sound(conn'[g])
  BY <1>2, <1>4 DEF Inv
<1>6. running' = {g \in Handlers : conn'[g].at # "ended"}
  BY <1>1, <1>2, <1>4 DEF Inv
<1>7. TypeOK'
  BY <1>1 DEF Inv, TypeOK
<1> QED BY <1>1, <1>3, <1>5, <1>6, <1>7 DEF Inv

\* A payment is made by an admissible request, out of its sender's allowance.
LEMMA Payment ==
    ASSUME Inv, NEW h \in Handlers, Pay(h)
    PROVE  LET r == conn[h].request
               d == [conn[h] EXCEPT !.gates = Tail(@)]
           IN  /\ h \in running /\ Open(d) /\ d # conn[h]
               /\ conn' = [conn EXCEPT ![h] = d] /\ UNCHANGED vars
               /\ r.path \in Limiters /\ Sender(r) \in Addresses
               /\ Admissible(r, r.path)
               /\ buckets[r.path][Sender(r)] > 0
               /\ buckets' = [buckets EXCEPT ![r.path][Sender(r)] = @ - 1]
<1> DEFINE c == conn[h]
           r == c.request
           d == [c EXCEPT !.gates = Tail(@)]
<1>1. /\ h \in running /\ c.at = "gates" /\ c.gates # <<>> /\ Head(c.gates) = "limit"
      /\ buckets[r.path][ClientIp(r)] > 0
      /\ buckets' = [buckets EXCEPT ![r.path][ClientIp(r)] = @ - 1]
      /\ conn' = [conn EXCEPT ![h].gates = Tail(@)]
      /\ UNCHANGED vars
  BY DEF Pay, AtGate
<1>2. Open(c) /\ c \in Conn
  BY <1>1, RunningOpen
<1>3. r \in Request
  BY <1>1, <1>2, Asked DEF Open, Sound, Placed
<1>4. ClientIp(r) = Sender(r) /\ Sender(r) \in Addresses
  BY <1>3, AddressIsSender
<1>5. r.path \in Limiters /\ Admissible(r, r.path)
  BY <1>1, <1>2, AtLimiter DEF Open, Sound
<1>6. Open(d) /\ Tail(c.gates) # c.gates
  BY <1>1, <1>2, GatePassedSound
<1>7. d.gates = Tail(c.gates)
  BY <1>2 DEF Conn
<1>8. conn' = [conn EXCEPT ![h] = d]
  BY <1>1
<1> QED BY <1>1, <1>4, <1>5, <1>6, <1>7, <1>8

LEMMA PayKeeps ==
    ASSUME Inv, NEW h \in Handlers, Pay(h)
    PROVE  Inv'
<1> DEFINE d == [conn[h] EXCEPT !.gates = Tail(@)]
           l == conn[h].request.path
           a == Sender(conn[h].request)
<1>1. /\ Open(d) /\ conn' = [conn EXCEPT ![h] = d] /\ UNCHANGED vars /\ h \in running
      /\ l \in Limiters /\ a \in Addresses /\ buckets[l][a] > 0
      /\ buckets' = [buckets EXCEPT ![l][a] = @ - 1]
  BY Payment
<1> HIDE DEF d, l, a
<1>2. buckets' \in [Limiters -> [Addresses -> 0..Capacity]]
  <2>1. /\ buckets \in [Limiters -> [Addresses -> 0..Capacity]]
        /\ buckets[l] \in [Addresses -> 0..Capacity] /\ buckets[l][a] \in 0..Capacity
    BY <1>1 DEF Inv
  <2>2. buckets[l][a] - 1 \in 0..Capacity
    BY <1>1, <2>1, SizeAssumption
  <2> QED BY <1>1, <2>1, <2>2
<1>3. UNCHANGED <<server, caller, request, isShutDown, open, running>>
  BY <1>1 DEF vars
<1>4. d \in Conn /\ Sound(d) /\ d.at # "ended"
  BY <1>1 DEF Open, Sound
<1>5. conn' \in [Handlers -> Conn] /\ \A g \in Handlers : conn'[g] = IF g = h THEN d ELSE conn[g]
  BY <1>1, <1>4 DEF Inv
<1>6. \A g \in Handlers : Sound(conn'[g])
  BY <1>4, <1>5 DEF Inv
<1>7. running = {g \in Handlers : conn'[g].at # "ended"}
  BY <1>1, <1>4, <1>5 DEF Inv
<1>8. TypeOK'
  BY <1>3 DEF Inv, TypeOK
<1> QED BY <1>2, <1>3, <1>5, <1>6, <1>7, <1>8 DEF Inv

LEMMA RefillKeeps ==
    ASSUME Inv, Refill
    PROVE  Inv' /\ \A l \in Limiters, a \in Addresses : ~(buckets'[l][a] < buckets[l][a])
<1>1. PICK l \in Limiters, a \in Addresses :
         buckets[l][a] < Capacity /\ buckets' = [buckets EXCEPT ![l][a] = @ + 1]
  BY DEF Refill
<1>2. /\ buckets \in [Limiters -> [Addresses -> 0..Capacity]]
      /\ \A m \in Limiters : buckets[m] \in [Addresses -> 0..Capacity]
      /\ \A m \in Limiters, b \in Addresses : buckets[m][b] \in 0..Capacity
  BY DEF Inv
<1>3. buckets[l][a] + 1 \in 0..Capacity
  BY <1>1, <1>2, SizeAssumption
<1>4. buckets' \in [Limiters -> [Addresses -> 0..Capacity]]
  BY <1>1, <1>2, <1>3
<1>5. \A m \in Limiters, b \in Addresses :
         buckets'[m][b] = IF m = l /\ b = a THEN buckets[l][a] + 1 ELSE buckets[m][b]
  BY <1>1, <1>2
<1>6. \A m \in Limiters, b \in Addresses : ~(buckets'[m][b] < buckets[m][b])
  BY <1>2, <1>5
<1>7. UNCHANGED <<server, caller, request, isShutDown, open, running, conn>>
  BY DEF Refill, vars
<1> QED BY <1>4, <1>6, <1>7 DEF Inv, TypeOK

\* What the server does to connections: those of its daemon threads are cut.
LEMMA ServingKeeps ==
    ASSUME Inv, ServingStep
    PROVE  /\ Inv' /\ UNCHANGED buckets
           /\ \A h \in Handlers :
                 conn'[h] = conn[h] \/ (conn'[h] = Ended("cut", 0) /\ server' = "gone")
<1>1. running' = running \/ (running' = {} /\ server' = "gone")
  BY DEF ServingStep, Serving, ServeForever, LeaveLoop, Close, Exit
<1>2. conn' = [h \in Handlers |-> IF h \in running \ running' THEN Ended("cut", 0) ELSE conn[h]]
  BY DEF ServingStep
<1>3. Sound(Ended("cut", 0)) /\ Ended("cut", 0).at = "ended"
  BY EndedSound DEF Outcomes, Statuses
<1>4. \A h \in Handlers : conn'[h] = IF h \in running \ running' THEN Ended("cut", 0) ELSE conn[h]
  BY <1>2
<1>5. \A h \in Handlers : Sound(conn'[h])
  BY <1>3, <1>4 DEF Inv
<1>6. conn' \in [Handlers -> Conn]
  BY <1>2, <1>4, <1>5 DEF Sound
<1>7. running' = {h \in Handlers : conn'[h].at # "ended"}
  BY <1>1, <1>3, <1>4 DEF Inv
<1>8. TypeOK' /\ UNCHANGED buckets
  <2>1. CASE ServeForever
    BY <2>1 DEF Inv, TypeOK, ServeForever, ServingStep
  <2>2. CASE LeaveLoop
    BY <2>2 DEF Inv, TypeOK, LeaveLoop, ServingStep
  <2>3. CASE Close
    BY <2>3 DEF Inv, TypeOK, Close, ServingStep
  <2>4. CASE Exit
    BY <2>4 DEF Inv, TypeOK, Exit, ServingStep
  <2> QED BY <2>1, <2>2, <2>3, <2>4 DEF ServingStep, Serving
<1>9. \A h \in Handlers :
         conn'[h] = conn[h] \/ (conn'[h] = Ended("cut", 0) /\ server' = "gone")
  BY <1>1, <1>4
<1> QED BY <1>5, <1>6, <1>7, <1>8, <1>9 DEF Inv

LEMMA ShutdownKeeps ==
    ASSUME Inv, ShutdownStep
    PROVE  Inv' /\ UNCHANGED front
<1>1. UNCHANGED <<conn, buckets, running>>
  BY DEF ShutdownStep, Shutdown, CallShutdown, SetRequest, Awaited, front
<1>2. TypeOK'
  <2>1. CASE CallShutdown
    BY <2>1 DEF Inv, TypeOK, CallShutdown
  <2>2. CASE SetRequest
    BY <2>2 DEF Inv, TypeOK, SetRequest
  <2>3. CASE Awaited
    BY <2>3 DEF Inv, TypeOK, Awaited
  <2> QED BY <2>1, <2>2, <2>3 DEF ShutdownStep, Shutdown
<1> QED BY <1>1, <1>2 DEF Inv, front

LEMMA InvInit == FrontInit => Inv
<1> SUFFICES ASSUME FrontInit PROVE Inv
  OBVIOUS
<1>1. /\ TypeOK /\ running = {}
      /\ conn = [h \in Handlers |-> Ended("none", 0)]
      /\ buckets = [l \in Limiters |-> [a \in Addresses |-> Capacity]]
  BY DEF FrontInit, Init, TypeOK
<1>2. Sound(Ended("none", 0)) /\ Ended("none", 0).at = "ended"
  BY EndedSound DEF Outcomes, Statuses
<1>3. buckets \in [Limiters -> [Addresses -> 0..Capacity]]
  <2>1. Capacity \in 0..Capacity
    BY SizeAssumption
  <2> QED BY <1>1, <2>1
<1>4. \A h \in Handlers : conn[h] = Ended("none", 0)
  BY <1>1
<1>5. conn \in [Handlers -> Conn]
  BY <1>1, <1>2 DEF Sound
<1> QED BY <1>1, <1>2, <1>3, <1>4, <1>5 DEF Inv

LEMMA InvNext ==
    ASSUME Inv, [FrontNext]_allVars
    PROVE  Inv'
<1>1. CASE ServingStep
  BY <1>1, ServingKeeps
<1>2. CASE ShutdownStep
  BY <1>2, ShutdownKeeps
<1>3. CASE Refill
  BY <1>3, RefillKeeps
<1>4. ASSUME NEW h \in Handlers, NEW r \in Requests, Connect(h, r)
      PROVE  Inv'
  BY <1>4, ConnectKeeps
<1>5. ASSUME NEW h \in Handlers, Handle(h)
      PROVE  Inv'
  <2>1. CASE Moves(h)
    BY <2>1, MoveKeeps DEF Moves
  <2>2. CASE Pay(h)
    BY <2>2, PayKeeps
  <2>3. CASE Ends(h)
    BY <2>3, EndKeeps DEF Ends
  <2> QED BY <1>5, <2>1, <2>2, <2>3, HandlerStep
<1>6. ASSUME NEW h \in Handlers, PeerWrites(h) \/ Stall(h) \/ GiveUp(h)
      PROVE  Inv'
  <2>1. Moves(h)
    BY <1>6, PeerStep
  <2> QED BY <2>1, MoveKeeps DEF Moves
<1>7. CASE UNCHANGED allVars
  <2>1. UNCHANGED <<server, caller, request, isShutDown, open, running, conn, buckets>>
    BY <1>7 DEF allVars, vars
  <2> QED BY <2>1 DEF Inv, TypeOK
<1> QED
  BY <1>1, <1>2, <1>3, <1>4, <1>5, <1>6, <1>7 DEF FrontNext

LEMMA FrontInvariant == FrontSpec => []Inv
<1>1. Inv /\ [FrontNext]_allVars => Inv'
  BY InvNext
<1> QED BY <1>1, InvInit, PTL DEF FrontSpec

LEMMA RestIsSuffix ==
    ASSUME NEW c, Sound(c)
    PROVE  IsSuffix(c.gates, Gates(c.request))
<1>1. PICK k \in 1..(Len(Gates(c.request)) + 1) : PassedTo(c, k)
  BY DEF Sound, Gated
<1>2. Gates(c.request) \in Seq(GateNames)
  BY GatesAre
<1>3. IsSuffix(Rest(c.request, k), Gates(c.request))
  BY <1>2, SubSeqIsSuffix DEF Rest
<1> QED BY <1>1, <1>3 DEF PassedTo

\* Connections keep their types: the gates left are the last ones of the method,
\* no more is written than announced, no more is read than a form may be long or
\* the drain cap allows, and a thread runs exactly while its connection is open.
THEOREM FrontTypeCorrect == FrontSpec => []FrontTypeOK
<1>1. Inv => FrontTypeOK
  <2> SUFFICES ASSUME Inv PROVE FrontTypeOK
    OBVIOUS
  <2>1. ASSUME NEW h \in Handlers
        PROVE  LET c == conn[h]
               IN  /\ c.request \in Requests \cup {NoRequest}
                   /\ c.at \in {"head", "gates", "body", "drain", "app", "ended"}
                   /\ IsSuffix(c.gates, Gates(c.request))
                   /\ c.wire \in 0..Buffer /\ c.wire + c.read + c.toWrite <= c.request.units
                   /\ c.read <= MaxBody \/ (c.at = "drain" /\ c.read <= DrainCap)
                   /\ c.peer \in {"waiting", "writing", "stalled", "gone"}
                   /\ c.outcome \in {"none", "answered", "reset", "timedOut", "raised", "cut"}
                   /\ c.status \in {0, 200, 400, 401, 404, 413, 429}
    <3> DEFINE c == conn[h]
    <3>1. Sound(c) /\ c \in Conn
      BY DEF Inv
    <3>2. IsSuffix(c.gates, Gates(c.request))
      BY <3>1, RestIsSuffix
    <3> HIDE DEF c
    <3>3. /\ c.request \in Requests \cup {NoRequest} /\ c.at \in Places /\ c.wire \in 0..Buffer
          /\ c.peer \in Peers /\ c.outcome \in Outcomes /\ c.status \in Statuses
      BY <3>1 DEF Conn
    <3>4. c.wire + c.read + c.toWrite <= c.request.units
      BY <3>1 DEF Sound
    <3>5. c.read <= MaxBody \/ (c.at = "drain" /\ c.read <= DrainCap)
      BY <3>1, <3>3, SizeAssumption DEF Sound, Placed, Places
    <3> QED BY <3>2, <3>3, <3>4, <3>5 DEF Places, Peers, Outcomes, Statuses, c
  <2> QED BY <2>1 DEF Inv, FrontTypeOK
<1> QED BY <1>1, FrontInvariant, PTL

-----------------------------------------------------------------------------
(* The front refines the life cycle that it extends.                       *)

LEMMA FrontStepIsLifecycle ==
    ASSUME [FrontNext]_allVars
    PROVE  [Next]_vars
<1>1. CASE ServingStep
  BY <1>1 DEF ServingStep, Next
<1>2. CASE ShutdownStep
  BY <1>2 DEF ShutdownStep, Next
<1>3. CASE Refill
  BY <1>3 DEF Refill
<1>4. ASSUME NEW h \in Handlers, NEW r \in Requests, Connect(h, r)
      PROVE  [Next]_vars
  BY <1>4 DEF Connect, Next
<1>5. ASSUME NEW h \in Handlers, NEW outcome, NEW status, End(h, outcome, status)
      PROVE  [Next]_vars
  BY <1>5 DEF End, Next
<1>6. ASSUME NEW h \in Handlers, NEW d, Becomes(h, d)
      PROVE  [Next]_vars
  BY <1>6 DEF Becomes
<1>7. ASSUME NEW h \in Handlers, NEW status, Reply(h, status)
      PROVE  [Next]_vars
  BY <1>5, <1>7 DEF Reply
<1>8. ASSUME NEW h \in Handlers, Handle(h)
      PROVE  [Next]_vars
  <2>1. CASE ReadHead(h) \/ PassGate(h) \/ Oversized(h) \/ AllPassed(h) \/ Read(h) \/ BodyRead(h)
    BY <1>6, <2>1 DEF ReadHead, PassGate, Through, Oversized, AllPassed, Read, BodyRead
  <2>2. CASE Refuse(h) \/ RateLimited(h) \/ Drained(h) \/ AppAnswers(h)
    BY <1>7, <2>2 DEF Refuse, RateLimited, Drained, AppAnswers
  <2>3. CASE HeadMissing(h) \/ KeyRaises(h) \/ AppRaises(h) \/ Timeout(h)
    BY <1>5, <2>3 DEF HeadMissing, KeyRaises, AppRaises, Timeout
  <2>4. CASE Pay(h)
    BY <2>4 DEF Pay
  <2> QED BY <1>8, <2>1, <2>2, <2>3, <2>4 DEF Handle
<1>9. ASSUME NEW h \in Handlers, PeerWrites(h) \/ Stall(h) \/ GiveUp(h)
      PROVE  [Next]_vars
  BY <1>6, <1>9 DEF PeerWrites, Stall, GiveUp
<1>10. CASE UNCHANGED allVars
  BY <1>10 DEF allVars
<1> QED BY <1>1, <1>2, <1>3, <1>4, <1>8, <1>9, <1>10 DEF FrontNext

\* Whatever handlers and peers do, the process goes through its life cycle: every
\* step of the front is one of it or leaves it alone.
THEOREM FrontIsLifecycle == FrontSpec => Spec
<1>1. FrontInit => Init
  BY DEF FrontInit
<1>2. [FrontNext]_allVars => [Next]_vars
  BY FrontStepIsLifecycle
<1> QED BY <1>1, <1>2, PTL DEF FrontSpec, Spec

\* So the front accepts nothing after a shutdown either.
THEOREM FrontShutdownFinal == FrontSpec => []NothingAcceptedAfterShutdown
BY FrontIsLifecycle, ShutdownFinal, PTL

-----------------------------------------------------------------------------
\* No step takes a token from anybody but the sender of an admissible request, whose
\* handler takes that step: neither a request that the gates refuse nor one with an
\* invented header uses up what another client has (server.py:639-655, 670-721).
THEOREM OnlySendersPay == FrontSpec => OnlyAdmissibleRequestsPay
<1> DEFINE Paid(l, a) == \E h \in running : /\ conn'[h] # conn[h]
                                            /\ Admissible(conn[h].request, l)
                                            /\ Sender(conn[h].request) = a
           PaidRightly == \A l \in Limiters, a \in Addresses :
                             buckets'[l][a] < buckets[l][a] => Paid(l, a)
<1>0. ASSUME NEW h \in Handlers, NEW outcome, NEW status, End(h, outcome, status)
      PROVE  UNCHANGED buckets
  BY <1>0 DEF End
<1>1. ASSUME Inv, UNCHANGED buckets
      PROVE  PaidRightly
  BY <1>1 DEF Inv
<1>2. ASSUME Inv, NEW h \in Handlers, Pay(h)
      PROVE  PaidRightly
  <2> DEFINE r == conn[h].request
             d == [conn[h] EXCEPT !.gates = Tail(@)]
  <2>1. /\ h \in running /\ d # conn[h] /\ conn' = [conn EXCEPT ![h] = d]
        /\ r.path \in Limiters /\ Sender(r) \in Addresses /\ Admissible(r, r.path)
        /\ buckets' = [buckets EXCEPT ![r.path][Sender(r)] = @ - 1]
    BY <1>2, Payment
  <2>2. conn'[h] = d
    BY <1>2, <2>1 DEF Inv
  <2> HIDE DEF d
  <2>3. ASSUME NEW l \in Limiters, NEW a \in Addresses, buckets'[l][a] < buckets[l][a]
        PROVE  Paid(l, a)
    <3>1. /\ buckets \in [Limiters -> [Addresses -> 0..Capacity]]
          /\ buckets[l] \in [Addresses -> 0..Capacity] /\ buckets[l][a] \in 0..Capacity
      BY <1>2 DEF Inv
    <3>2. l # r.path \/ a # Sender(r) => buckets'[l][a] = buckets[l][a]
      BY <2>1, <3>1
    <3>3. l = r.path /\ a = Sender(r)
      BY <2>3, <3>1, <3>2
    <3> QED BY <2>1, <2>2, <3>3
  <2> QED BY <2>3
<1>3. ASSUME Inv, [FrontNext]_allVars
      PROVE  PaidRightly
  <2>1. CASE ServingStep \/ ShutdownStep
    BY <1>1, <1>3, <2>1 DEF ServingStep, ShutdownStep, front
  <2>2. CASE Refill
    BY <1>3, <2>2, RefillKeeps
  <2>3. ASSUME NEW h \in Handlers, NEW r \in Requests, Connect(h, r)
        PROVE  PaidRightly
    BY <1>1, <1>3, <2>3 DEF Connect
  <2>4. ASSUME NEW h \in Handlers, Handle(h)
        PROVE  PaidRightly
    <3>1. CASE Moves(h) \/ Ends(h)
      BY <1>0, <1>1, <1>3, <3>1 DEF Moves, Ends, Becomes
    <3>2. CASE Pay(h)
      BY <1>2, <1>3, <3>2
    <3> QED BY <1>3, <2>4, <3>1, <3>2, HandlerStep
  <2>5. ASSUME NEW h \in Handlers, PeerWrites(h) \/ Stall(h) \/ GiveUp(h)
        PROVE  PaidRightly
    BY <1>1, <1>3, <2>5, PeerStep DEF Moves, Becomes
  <2>6. CASE UNCHANGED allVars
    BY <1>1, <1>3, <2>6 DEF allVars
  <2> QED BY <1>3, <2>1, <2>2, <2>3, <2>4, <2>5, <2>6 DEF FrontNext
<1>4. Inv /\ [FrontNext]_allVars => [PaidRightly]_allVars
  BY <1>3
<1> QED BY <1>4, FrontInvariant, PTL DEF FrontSpec, OnlyAdmissibleRequestsPay

\* A connection whose peer keeps up, waiting for "100 Continue" included, does not
\* end without an answer but in these ways (server.py:531-551, 605-637, 670-719): it is
\* reset, because a 400, 401, 404 or 429 left the body unread, or the body came with a
\* GET or HEAD, or beyond its length or the drain cap; the handler raised, in parsing
\* the form, in the application, or on a key that is not ASCII, and sent no answer; or
\* the process ended with the handler at work.
THEOREM AnswersReachPeers == FrontSpec => AnswersArrive
<1> DEFINE Arrives ==
             \A h \in Handlers :
                conn[h].at # "ended" /\ conn'[h].at = "ended"
                   /\ conn[h].peer \in {"writing", "waiting"}
                => \/ conn'[h].outcome = "answered"
                   \/ conn'[h].outcome = "reset" /\ MayLose(conn[h].request, conn'[h].status)
                   \/ conn'[h].outcome = "raised" /\ MayRaise(conn[h])
                   \/ conn'[h].outcome = "cut" /\ server' = "gone"
<1>1. ASSUME Inv, NEW h \in Handlers, NEW d, Open(d), conn' = [conn EXCEPT ![h] = d]
      PROVE  Arrives
  <2>1. \A g \in Handlers : conn'[g] = IF g = h THEN d ELSE conn[g]
    BY <1>1 DEF Inv
  <2> QED BY <1>1, <2>1 DEF Open
<1>2. ASSUME Inv, NEW h \in Handlers, Ends(h)
      PROVE  Arrives
  <2>1. PICK outcome \in Outcomes, status \in Statuses :
           /\ End(h, outcome, status)
           /\ conn[h].peer \in {"writing", "waiting"} => Deserved(conn[h], outcome, status)
    BY <1>2 DEF Ends
  <2> DEFINE d == Ended(outcome, status)
  <2>2. d.outcome = outcome /\ d.status = status
    BY EndedSound
  <2>3. conn' = [conn EXCEPT ![h] = d]
    BY <2>1 DEF End
  <2> HIDE DEF d
  <2>4. \A g \in Handlers : conn'[g] = IF g = h THEN d ELSE conn[g]
    BY <1>2, <2>3 DEF Inv
  <2>5. ASSUME NEW g \in Handlers, conn[g].at # "ended", conn'[g].at = "ended",
               conn[g].peer \in {"writing", "waiting"}
        PROVE  Deserved(conn[g], conn'[g].outcome, conn'[g].status)
    <3>1. g = h /\ conn'[g] = d
      BY <2>4, <2>5
    <3> QED BY <2>1, <2>2, <2>5, <3>1
  <2> QED BY <2>5 DEF Deserved
<1>3. ASSUME Inv, ServingStep
      PROVE  Arrives
  <2>1. /\ \A h \in Handlers :
              conn'[h] = conn[h] \/ (conn'[h] = Ended("cut", 0) /\ server' = "gone")
        /\ Ended("cut", 0).outcome = "cut"
    BY <1>3, ServingKeeps, EndedSound DEF Outcomes, Statuses
  <2> QED BY <2>1
<1>4. ASSUME UNCHANGED conn
      PROVE  Arrives
  BY <1>4
<1>5. ASSUME Inv, [FrontNext]_allVars
      PROVE  Arrives
  <2>1. CASE ServingStep
    BY <1>3, <1>5, <2>1
  <2>2. CASE ShutdownStep \/ Refill
    BY <1>4, <2>2 DEF ShutdownStep, Refill, front
  <2>3. ASSUME NEW h \in Handlers, NEW r \in Requests, Connect(h, r)
        PROVE  Arrives
    BY <1>1, <1>5, <2>3, OpenedSound DEF Connect
  <2>4. ASSUME NEW h \in Handlers, Moves(h)
        PROVE  Arrives
    BY <1>1, <1>5, <2>4 DEF Moves, Becomes
  <2>5. ASSUME NEW h \in Handlers, Handle(h)
        PROVE  Arrives
    <3>1. CASE Pay(h)
      BY <1>1, <1>5, <3>1, Payment
    <3>2. CASE Ends(h)
      BY <1>2, <1>5, <3>2
    <3> QED BY <1>5, <2>4, <2>5, <3>1, <3>2, HandlerStep
  <2>6. ASSUME NEW h \in Handlers, PeerWrites(h) \/ Stall(h) \/ GiveUp(h)
        PROVE  Arrives
    BY <1>5, <2>4, <2>6, PeerStep
  <2>7. CASE UNCHANGED allVars
    BY <1>4, <2>7 DEF allVars
  <2> QED BY <1>5, <2>1, <2>2, <2>3, <2>5, <2>6, <2>7 DEF FrontNext
<1>6. Inv /\ [FrontNext]_allVars => [Arrives]_allVars
  BY <1>5
<1> QED BY <1>6, FrontInvariant, PTL DEF FrontSpec, AnswersArrive
=============================================================================
