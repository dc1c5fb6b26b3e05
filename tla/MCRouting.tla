----------------------------- MODULE MCRouting -----------------------------
(* TLC instance of Routing: one device, and a token of every sort.         *)
EXTENDS Routing

Apple(environment, purpose) ==
    [shape |-> "hex", issuer |-> "apns", environment |-> environment, purpose |-> purpose]

Phone   == Apple("production", "alert")
DevKit  == Apple("development", "alert")
Caller  == Apple("production", "pushkit")
Android == [shape |-> "base64url", issuer |-> "fcm", environment |-> Absent, purpose |-> "alert"]
Junk    == [NoToken EXCEPT !.shape = "other"]

Device   == [id |-> "d", isDigest |-> TRUE]
Mine     == [owner |-> "u", type |-> "rsa", bits |-> 2048]
Signed   == [by |-> "u", over |-> Device, isBase64 |-> TRUE]

BaseForm == [complete |-> TRUE, device |-> Device, signature |-> Signed, key |-> Mine,
             token |-> Phone, provider |-> Absent, environment |-> Absent, voip |-> NoToken]

\* Every combination of provider and environment for every token ...
Combinations ==
    {[BaseForm EXCEPT !.token = t, !.provider = p, !.environment = e, !.voip = v] :
        t \in {Phone, DevKit, Android, Junk}, p \in {Absent, "", "apns", "fcm"},
        e \in {Absent, "", "staging", "development", "production"},
        v \in {NoToken, Caller, Junk}}

\* ... of clients that do not lie about the environment or use the other's shape,
AllForms ==
    {f \in Combinations :
        /\ f.environment \in Environments => f.environment = f.token.environment
        /\ f.voip # NoToken => f.token # DevKit}
    \* and what is wrong with keys, signatures and identifiers.
    \cup {[BaseForm EXCEPT !.complete = FALSE],
          [BaseForm EXCEPT !.key.bits = 1024], [BaseForm EXCEPT !.key.bits = 16384],
          [BaseForm EXCEPT !.key.type = "ec"], [BaseForm EXCEPT !.key.owner = "v"],
          [BaseForm EXCEPT !.signature.isBase64 = FALSE],
          [BaseForm EXCEPT !.signature.over.isDigest = FALSE]}

OneDevice == {Device}
Old       == {[key |-> Mine, token |-> t, provider |-> Absent, environment |-> Absent,
               voip |-> NoToken] : t \in {Phone, Android}}
Dying     == {Phone, Caller, Android}
=============================================================================
