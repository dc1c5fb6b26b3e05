----------------------------- MODULE MCGateway -----------------------------
(* TLC instances of Gateway.                                               *)
EXTENDS Gateway, TLC

CONSTANTS d1, d2, n1, n2, c1

\* One device with an alert and a call, two devices with an alert each, or just one.
OneAlert   == n1 :> d1
OneDevice  == n1 :> d1 @@ c1 :> d1
TwoDevices == n1 :> d1 @@ n2 :> d2

Of(id, flaw) == [id |-> id, flaw |-> flaw]

OneEach == {<<Of(n, "none")>> : n \in Notifs}

Mixed == {<<Of(n1, "none")>>,
          <<Of(n1, "unparsable"), Of(n1, "none"), Of(n1, "none")>>,
          <<Of(n1, "invalid"), Of(n1, "raises")>>}

Symmetry == Permutations(Workers) \cup Permutations(Users)
=============================================================================
