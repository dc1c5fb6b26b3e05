---------------------------- MODULE MCHttpFront ----------------------------
(* TLC instance of HttpFront: a request for every way through the gates.   *)
EXTENDS HttpFront

CONSTANTS c1, c2, k1

Post(path, length) ==
    [method |-> "POST", path |-> path, query |-> FALSE, length |-> length, units |-> length,
     key |-> Blank, origin |-> c1, proxied |-> FALSE, claimed |-> c2, expects |-> FALSE]

Proxied(r)      == [r EXCEPT !.proxied = TRUE, !.expects = TRUE]
Delete          == [Post("/devices", 1) EXCEPT !.method = "DELETE"]
Notify(key)     == [Proxied(Post("/notifications", 1)) EXCEPT !.key = key]

AllRequests ==
    {Post("/devices", 2), Proxied(Post("/devices", 3)), Proxied(Post("/devices", 5)),
     Post("/other", 1), Proxied(Delete), [Delete EXCEPT !.query = TRUE],
     [Post("/devices", Malformed) EXCEPT !.units = 1], [Post("/devices", 0) EXCEPT !.units = 1],
     [Post("/health", 1) EXCEPT !.method = "GET", !.claimed = Nobody],
     [Post("/other", 0) EXCEPT !.method = "HEAD"]}
    \cup {Notify(key) : key \in {k1, Blank, "wrong", "nonASCII"}}

TwoClients == {c1, c2}
Keys       == {k1, Blank}
=============================================================================
