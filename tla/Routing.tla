------------------------------ MODULE Routing ------------------------------
(***************************************************************************)
(* The way of a push from a registration to a provider and back, over      *)
(* changes of the configuration: what a client registers (Registration) is *)
(* stored, routed from the row alone by whatever configuration the process *)
(* then runs with, sent to one of the providers, and the provider's answer *)
(* (ProviderAnswers) is applied to the device.                             *)
(*                                                                         *)
(* A provider knows of every token who issued it, for which environment and*)
(* purpose, and whether it is dead; the gateway knows only what the client *)
(* told it.  Apple answers for a token of the other environment as for one *)
(* that is dead.                                                           *)
(*                                                                         *)
(* The races between deliveries and registrations of a device are Gateway's*)
(* matter.  Here an entry is Start, an answer, and what follows from it.   *)
(***************************************************************************)
EXTENDS Registration, ProviderAnswers

CONSTANTS
    Workers,    \* handler threads
    Devices,    \* deviceIdentifiers
    Forms,      \* the forms that are posted to /devices
    OldRows,    \* rows from before pushProvider and voipToken existed
    Mortal,     \* the tokens that may die
    NoOne       \* no key

ASSUME OldRowsAssumption ==
    \A r \in OldRows : /\ r = [key |-> r.key, token |-> r.token, provider |-> Absent,
                              environment |-> Absent, voip |-> NoToken]
                       /\ TokenKind(r.token) # Absent /\ LoadsRsaKey(r.key)

\* A token is for something only if one of the two issued it, Apple issues hex
\* and Google never does (server.py:35-48), and PushKit is Apple's.
ASSUME TokensAssumption ==
    \A t \in {f.token : f \in Forms} \cup {f.voip : f \in Forms} \cup {r.token : r \in OldRows} :
        /\ t.purpose = "alert" => t.issuer \in {"apns", "fcm"}
        /\ t.purpose = "pushkit" => t.issuer = "apns"
        /\ t.issuer = "apns" => t.shape = "hex"
        /\ t.issuer = "fcm" => t.shape = "base64url"

VARIABLES
    config,    \* the running process's default APNs environment, and FCM
    rows,      \* the devices table
    dead,      \* the tokens that their providers have invalidated
    pc,        \* where each thread is
    job        \* the row and push type of each thread's entry

vars == <<config, rows, dead, pc, job>>

Row   == [key : {f.key : f \in Forms} \cup {r.key : r \in OldRows},
          token : {f.token : f \in Forms} \cup {r.token : r \in OldRows},
          provider : {Absent, "apns", "fcm"}, environment : Environments \cup {Absent},
          voip : {f.voip : f \in Forms} \cup {NoToken}]
NoRow == [key |-> NoOne, token |-> NoToken, provider |-> Absent, environment |-> Absent,
          voip |-> NoToken]

RowOf(f) == [key |-> f.key, token |-> f.token, provider |-> f.provider,
             environment |-> f.environment, voip |-> f.voip]

\* Config: APNS_USE_SANDBOX gives the default environment, and a deployment
\* without any provider does not start.
Configs ==
    {c \in [apns : Environments \cup {Absent}, fcm : BOOLEAN] : c.apns # Absent \/ c.fcm}

NoJob == [device |-> NoOne, row |-> NoRow, push |-> "none"]

Verdicts == {"delivered", "forget", "clearVoip", "failed"}

TypeOK ==
    /\ config \in Configs
    /\ rows \in [Devices -> Row \cup {NoRow}]
    /\ dead \subseteq Mortal
    /\ pc \in [Workers -> {"idle", "sending"} \cup Verdicts]
    /\ \A w \in Workers :
          IF pc[w] = "idle" THEN job[w] = NoJob
          ELSE /\ job[w].device \in Devices /\ job[w].row \in Row
               /\ job[w].push \in {"alert", "background", "voip"}

Init ==
    /\ config \in Configs
    /\ rows \in [Devices -> OldRows \cup {NoRow}]
    /\ dead = {}
    /\ pc = [w \in Workers |-> "idle"] /\ job = [w \in Workers |-> NoJob]

-----------------------------------------------------------------------------
\* register_device; a form that is refused changes nothing.
Register(f) ==
    /\ Accepts(f)
    /\ rows[f.device] = NoRow \/ rows[f.device].key = f.key
    /\ rows' = [rows EXCEPT ![f.device] = RowOf(f)]
    /\ UNCHANGED <<config, dead, pc, job>>

\* push_type_and_priority, and the downgrade of a call to an alert.
PushType(ncType, row) ==
    IF ncType = "voip" /\ row.voip = NoToken THEN "alert" ELSE ncType

\* The entry has found its row, and its subject is signed.
Start(w, d, ncType) ==
    /\ pc[w] = "idle"
    /\ rows[d] # NoRow
    /\ VerifiesSubject("subject", [by |-> rows[d].key.owner, over |-> "subject",
                                   isBase64 |-> TRUE], rows[d].key)
    /\ pc' = [pc EXCEPT ![w] = "sending"]
    /\ job' = [job EXCEPT ![w] = [device |-> d, row |-> rows[d],
                                  push |-> PushType(ncType, rows[d])]]
    /\ UNCHANGED <<config, rows, dead>>

RowKind(row)   == Kind(row.provider, row.token)
Target(j)      == IF j.push = "voip" THEN j.row.voip ELSE j.row.token
Purpose(j)     == IF j.push = "voip" THEN "pushkit" ELSE "alert"      \* the topic
Configured(row) == IF RowKind(row) = "apns" THEN config.apns # Absent ELSE config.fcm

\* Bug: the default wins over the row.
Bug_EnvironmentDefault(row) == config.apns

\* ApnsClient.send: `environment or self._default_environment`.
Environment(row) == IF row.environment = Absent THEN config.apns ELSE row.environment

\* Takes the verdict on the current entry.
Decide(w, verdict) ==
    /\ pc' = [pc EXCEPT ![w] = verdict]
    /\ UNCHANGED <<config, rows, dead, job>>

\* The client for the row's provider is not there.
NotConfigured(w) ==
    /\ pc[w] = "sending"
    /\ ~Configured(job[w].row)
    /\ Decide(w, "failed")

-----------------------------------------------------------------------------
(* The providers' answers.                                                 *)

Apns(status, reason) == [status |-> status, body |-> "object", reason |-> reason]
Fcm(status, details) == [status |-> status, body |-> "object", details |-> details]

\* What Apple says of a push for a token: in which environment, for what.
ApnsTruth(t, environment, purpose) ==
    IF t.issuer # "apns" \/ t.environment # environment THEN {Apns(400, "BadDeviceToken")}
    ELSE IF t \in dead THEN {Apns(410, "Unregistered"), Apns(400, "BadDeviceToken")}
    ELSE IF t.purpose # purpose THEN {Apns(400, "DeviceTokenNotForTopic")}
    ELSE {Apns(200, Absent)}

FcmTruth(t) ==
    IF t.issuer # "fcm" THEN {Fcm(400, <<"INVALID_ARGUMENT", "none">>)}
    ELSE IF t \in dead THEN {Fcm(404, <<"UNREGISTERED">>), Fcm(404, <<"none", "UNREGISTERED">>)}
    ELSE {Fcm(200, <<>>)}

\* Or trouble, of the provider or of something on the way to it.
ApnsTrouble ==
    {Apns(s, "other") : s \in {400, 403, 429, 503}}
        \cup [status : {400, 404, 410, 503}, body : {"notJson", "list"}, reason : {Absent}]
        \cup {Apns(400, "notString"), Apns(500, Absent)}

FcmTrouble ==
    {Fcm(s, d) : s \in {401, 404, 429, 503},
                 d \in {<<>>, <<"QUOTA_EXCEEDED">>, <<"none", "INTERNAL">>, <<"notDict">>}}
        \cup [status : {404, 502}, body : {"notJson", "list", "noError", "noList"},
              details : {<<>>}]

Truths(j) ==
    IF RowKind(j.row) = "apns"
    THEN {ApnsVerdict(r, j.push) : r \in ApnsTruth(Target(j), Environment(j.row), Purpose(j))}
    ELSE {FcmVerdict(r) : r \in FcmTruth(Target(j))}

Troubles(j) ==
    IF RowKind(j.row) = "apns" THEN {ApnsVerdict(r, j.push) : r \in ApnsTrouble}
    ELSE {FcmVerdict(r) : r \in FcmTrouble}

Answer(w) ==
    /\ pc[w] = "sending"
    /\ Configured(job[w].row)
    /\ \E verdict \in Truths(job[w]) : Decide(w, verdict)

\* Trouble, or no answer at all (httpx.HTTPError, a failed mint).
GoWrong(w) ==
    /\ pc[w] = "sending"
    /\ Configured(job[w].row)
    /\ \E verdict \in Troubles(job[w]) \cup {"failed"} : Decide(w, verdict)

Done(w) ==
    /\ pc' = [pc EXCEPT ![w] = "idle"] /\ job' = [job EXCEPT ![w] = NoJob]
    /\ UNCHANGED <<config, dead>>

Forget(w) ==
    /\ pc[w] = "forget"
    /\ rows' = [rows EXCEPT ![job[w].device] = NoRow]
    /\ Done(w)

ClearVoip(w) ==
    /\ pc[w] = "clearVoip"
    /\ rows' = [rows EXCEPT ![job[w].device].voip = NoToken]
    /\ Done(w)

\* Delivered, failed, or refused by the deletion breaker.
Leave(w) ==
    /\ pc[w] \in {"delivered", "failed", "forget"}
    /\ Done(w)
    /\ UNCHANGED rows

-----------------------------------------------------------------------------
\* The app is removed, or the operating system rotates its token.
Die(t) ==
    /\ t \in Mortal \ dead
    /\ dead' = dead \cup {t}
    /\ UNCHANGED <<config, rows, pc, job>>

\* Bug: nothing refuses a configuration without a provider.
Bug_RestartUnchecked ==
    /\ config' \in [apns : Environments \cup {Absent}, fcm : BOOLEAN]
    /\ pc' = [w \in Workers |-> "idle"] /\ job' = [w \in Workers |-> NoJob]
    /\ UNCHANGED <<rows, dead>>

\* The process is started again, with another configuration perhaps; main()
\* makes the clients that are enabled.
Restart ==
    /\ config' \in Configs
    /\ pc' = [w \in Workers |-> "idle"] /\ job' = [w \in Workers |-> NoJob]
    /\ UNCHANGED <<rows, dead>>

Step(w) ==
    \/ NotConfigured(w) \/ Answer(w) \/ GoWrong(w)
    \/ Forget(w) \/ ClearVoip(w) \/ Leave(w)

Next ==
    \/ \E f \in Forms : Register(f)
    \/ \E w \in Workers :
          \/ \E d \in Devices : \E ncType \in {"alert", "background", "voip"} :
                Start(w, d, ncType)
          \/ Step(w)
    \/ \E t \in Mortal : Die(t)
    \/ Restart

Spec == Init /\ [][Next]_vars

\* Every push ends: both clients have timeouts.  Nextcloud goes on pushing alerts
\* to a device, the provider answers one now and then, and the deletion breaker
\* grants now and then; restarts may come as often as they like.
AlertTo(w, d) == job[w].device = d /\ job[w].push = "alert"

Fairness ==
    /\ \A w \in Workers : WF_vars(Step(w))
    /\ \A d \in Devices :
          /\ SF_vars(\E w \in Workers : Start(w, d, "alert"))
          /\ SF_vars(\E w \in Workers : AlertTo(w, d) /\ Answer(w))
          /\ SF_vars(\E w \in Workers : AlertTo(w, d) /\ Forget(w))

FairSpec == Spec /\ Fairness

-----------------------------------------------------------------------------
\* A registration that says of its tokens what their issuer would say.
Truthful(row) ==
    /\ row.provider \in {Absent, row.token.issuer} /\ row.token.purpose = "alert"
    /\ row.environment \in {Absent, row.token.environment}
    /\ row.voip # NoToken => /\ row.voip.purpose = "pushkit"
                             /\ row.voip.environment = row.token.environment

(* Whatever a client has been allowed to register can be delivered to: the *)
(* row alone says which provider, in the shape of that provider, to an     *)
(* environment that exists, and its key verifies notifications.  The branch*)
(* that server.py:415 calls defensive, and the ValueError of apns.py:128,  *)
(* are not reached under any configuration that has the provider.          *)
EveryRowIsDeliverable ==
    \A d \in Devices :
        LET row == rows[d]
        IN  row # NoRow =>
               /\ LoadsRsaKey(row.key)
               /\ \/ RowKind(row) = "apns" /\ IsApnsToken(row.token)
                  \/ RowKind(row) = "fcm" /\ IsFcmToken(row.token)
               /\ RowKind(row) = "apns" /\ Configured(row) => Environment(row) \in Environments
               /\ row.voip # NoToken => RowKind(row) = "apns" /\ IsApnsToken(row.voip)

(* A push for a truthful registration goes to the provider that issued the *)
(* token, and with the topic the token is for: a call to a PushKit token,  *)
(* anything else to an ordinary one (server.py:467-471), also after PushKit*)
(* tokens were cleared and for clients that never named their provider.    *)
PushesReachTheirIssuer ==
    \A w \in Workers :
        pc[w] # "idle" /\ Truthful(job[w].row) =>
            /\ Target(job[w]).issuer = RowKind(job[w].row)
            /\ Target(job[w]).purpose = Purpose(job[w])

(* "Explicit per-device environments prevent this for current clients"     *)
(* (server.py:240): however APNS_USE_SANDBOX and the credentials are       *)
(* changed between restarts, and whatever goes wrong at the provider, a    *)
(* truthful registration that states its environment, or is FCM's, is only *)
(* forgotten, or loses its PushKit token, once that token is dead.         *)
OnlyLegacyMistaken ==
    \A w \in Workers :
        LET row == job[w].row
        IN  pc[w] \in {"forget", "clearVoip"} /\ Truthful(row) =>
               \/ Target(job[w]) \in dead
               \/ row.environment = Absent /\ RowKind(row) = "apns"

(* A device whose token is dead does not stay registered under it: failures*)
(* of the provider, refusals of the breaker and restarts delay it, and only*)
(* a configuration without its provider keeps it.                          *)
DeadTokensForgotten ==
    \A d \in Devices : \A t \in Mortal :
        (rows[d].token = t /\ t \in dead /\ Truthful(rows[d]))
            ~> (rows[d].token # t \/ ~Truthful(rows[d]) \/ ~Configured(rows[d]))
=============================================================================
