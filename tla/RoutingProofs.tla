---------------------------- MODULE RoutingProofs ----------------------------
(***************************************************************************)
(* Proofs about Routing for every set of threads, devices, forms and tokens*)
(* of which TokensAssumption holds, and every sequence of configurations.  *)
(***************************************************************************)
EXTENDS Routing, TLAPS

-----------------------------------------------------------------------------
(* Types.  TypeOK speaks of the fields of a job; that jobs are records of a*)
(* function makes it inductive.                                            *)

Jobs  == [device : Devices, row : Row, push : {"alert", "background", "voip"}]
Typed == TypeOK /\ job \in [Workers -> Jobs \cup {NoJob}]

\* What register_device accepts is a row.
LEMMA AcceptedRow ==
    ASSUME NEW f \in Forms, Accepts(f)
    PROVE  RowOf(f) \in Row
BY DEF Accepts, KnownProvider, ValidEnvironment, RowOf, Row

LEMMA InitTyped == Init => Typed
<1> SUFFICES ASSUME Init PROVE Typed
  OBVIOUS
<1>1. OldRows \subseteq Row
  BY OldRowsAssumption DEF Row
<1> QED BY <1>1 DEF Init, Typed, TypeOK

LEMMA RegisterTyped ==
    ASSUME Typed, NEW f \in Forms, Register(f)
    PROVE  Typed'
<1>1. RowOf(f) \in Row
  BY AcceptedRow DEF Register
<1>2. rows' \in [Devices -> Row \cup {NoRow}]
  BY <1>1 DEF Register, Typed, TypeOK
<1> QED BY <1>2 DEF Register, Typed, TypeOK

LEMMA StartTyped ==
    ASSUME Typed, NEW w \in Workers, NEW d \in Devices,
           NEW ncType \in {"alert", "background", "voip"}, Start(w, d, ncType)
    PROVE  Typed'
<1>1. rows[d] \in Row /\ PushType(ncType, rows[d]) \in {"alert", "background", "voip"}
  BY DEF Start, PushType, Typed, TypeOK
<1>2. [device |-> d, row |-> rows[d], push |-> PushType(ncType, rows[d])] \in Jobs
  BY <1>1 DEF Jobs
<1>3. /\ pc' = [pc EXCEPT ![w] = "sending"] /\ UNCHANGED <<config, rows, dead>>
      /\ \E j \in Jobs : job' = [job EXCEPT ![w] = j]
  BY <1>2 DEF Start
<1>4. job' \in [Workers -> Jobs \cup {NoJob}] /\ pc' \in [Workers -> {"idle", "sending"} \cup Verdicts]
  BY <1>3 DEF Typed, TypeOK
<1>5. job'[w] \in Jobs /\ \A v \in Workers \ {w} : job'[v] = job[v] /\ pc'[v] = pc[v]
  BY <1>3 DEF Typed, TypeOK
<1>6. pc'[w] = "sending"
  BY <1>3 DEF Typed, TypeOK
<1>7. \A v \in Workers :
          IF pc'[v] = "idle" THEN job'[v] = NoJob
          ELSE /\ job'[v].device \in Devices /\ job'[v].row \in Row
               /\ job'[v].push \in {"alert", "background", "voip"}
  BY <1>5, <1>6 DEF Jobs, Typed, TypeOK
<1> QED BY <1>3, <1>4, <1>7 DEF Typed, TypeOK

LEMMA DecideTyped ==
    ASSUME Typed, NEW w \in Workers, pc[w] # "idle", NEW verdict \in Verdicts, Decide(w, verdict)
    PROVE  Typed'
BY DEF Decide, Typed, TypeOK, Verdicts

\* Every answer of a provider, and every trouble with one, is a verdict.
LEMMA VerdictsOnly ==
    ASSUME NEW j
    PROVE  Truths(j) \subseteq Verdicts /\ Troubles(j) \subseteq Verdicts
BY DEF Truths, Troubles, Verdicts, ApnsVerdict, FcmVerdict

LEMMA DoneTyped ==
    ASSUME Typed, NEW w \in Workers, Done(w), rows' \in [Devices -> Row \cup {NoRow}]
    PROVE  Typed'
<1>1. job' \in [Workers -> Jobs \cup {NoJob}] /\ pc' \in [Workers -> {"idle", "sending"} \cup Verdicts]
  BY DEF Done, Typed, TypeOK
<1>2. \A v \in Workers :
          IF pc'[v] = "idle" THEN job'[v] = NoJob
          ELSE /\ job'[v].device \in Devices /\ job'[v].row \in Row
               /\ job'[v].push \in {"alert", "background", "voip"}
  BY DEF Done, Typed, TypeOK
<1> QED BY <1>1, <1>2 DEF Done, Typed, TypeOK

LEMMA StepTyped ==
    ASSUME Typed, NEW w \in Workers, Step(w)
    PROVE  Typed'
<1>1. CASE NotConfigured(w) \/ Answer(w) \/ GoWrong(w)
  <2>1. pc[w] = "sending" /\ \E verdict \in Verdicts : Decide(w, verdict)
    BY <1>1, VerdictsOnly DEF NotConfigured, Answer, GoWrong, Verdicts
  <2> QED BY <2>1, DecideTyped
<1>2. CASE Forget(w) \/ ClearVoip(w) \/ Leave(w)
  <2>1. rows' \in [Devices -> Row \cup {NoRow}]
    <3>1. [NoRow EXCEPT !.voip = NoToken] = NoRow
      BY DEF NoRow
    <3>2. \A r \in Row : [r EXCEPT !.voip = NoToken] \in Row
      BY DEF Row
    <3> QED BY <1>2, <3>1, <3>2 DEF Forget, ClearVoip, Leave, Typed, TypeOK
  <2>2. Done(w)
    BY <1>2 DEF Forget, ClearVoip, Leave
  <2> QED BY <2>1, <2>2, DoneTyped
<1> QED BY <1>1, <1>2 DEF Step

LEMMA NextTyped == Typed /\ [Next]_vars => Typed'
<1> SUFFICES ASSUME Typed, [Next]_vars PROVE Typed'
  OBVIOUS
<1>1. ASSUME NEW t \in Mortal, Die(t) PROVE Typed'
  BY <1>1 DEF Die, Typed, TypeOK
<1>2. CASE Restart
  BY <1>2 DEF Restart, Typed, TypeOK
<1>3. CASE UNCHANGED vars
  BY <1>3 DEF vars, Typed, TypeOK
<1> QED BY <1>1, <1>2, <1>3, RegisterTyped, StartTyped, StepTyped DEF Next

LEMMA SpecTyped == Spec => []Typed
<1> QED BY InitTyped, NextTyped, PTL DEF Spec

\* Rows, jobs and configurations keep their types through any sequence of
\* registrations, answers and restarts with other settings.
THEOREM TypeCorrect == Spec => []TypeOK
<1>1. Typed => TypeOK
  BY DEF Typed
<1> QED BY <1>1, SpecTyped, PTL
-----------------------------------------------------------------------------
(* Rows.  What the row alone must say; an entry that is under way works on *)
(* a snapshot of a row, which may be gone or replaced by now.              *)

WellFormed(r) ==
    /\ LoadsRsaKey(r.key)
    /\ r.environment \in Environments \cup {Absent}
    /\ \/ RowKind(r) = "apns" /\ IsApnsToken(r.token)
       \/ RowKind(r) = "fcm" /\ IsFcmToken(r.token)
    /\ r.voip # NoToken => RowKind(r) = "apns" /\ IsApnsToken(r.voip)

Routed ==
    /\ \A d \in Devices : rows[d] # NoRow => WellFormed(rows[d])
    /\ \A w \in Workers : pc[w] # "idle" =>
          /\ WellFormed(job[w].row)
          /\ job[w].push = "voip" => job[w].row.voip # NoToken

LEMMA AcceptedWellFormed ==
    ASSUME NEW f, Accepts(f)
    PROVE  WellFormed(RowOf(f))
BY DEF Accepts, VerifiesDevice, ValidToken, ValidEnvironment, ValidVoipToken, KindOf, RowOf,
       WellFormed, RowKind

LEMMA OldWellFormed ==
    ASSUME NEW r \in OldRows
    PROVE  WellFormed(r)
BY OldRowsAssumption DEF WellFormed, RowKind, Kind, TokenKind, Absent

LEMMA ClearedWellFormed ==
    ASSUME NEW r \in Row, WellFormed(r)
    PROVE  WellFormed([r EXCEPT !.voip = NoToken])
BY DEF WellFormed, RowKind, Row

LEMMA StepRouted ==
    ASSUME Typed, Routed, NEW w \in Workers, Step(w)
    PROVE  Routed'
<1>1. CASE NotConfigured(w) \/ Answer(w) \/ GoWrong(w)
  <2>1. /\ pc[w] = "sending" /\ UNCHANGED <<rows, job>>
        /\ \A v \in Workers \ {w} : pc'[v] = pc[v]
    BY <1>1 DEF NotConfigured, Answer, GoWrong, Decide, Typed, TypeOK
  <2> QED BY <2>1 DEF Routed
<1>2. CASE Forget(w) \/ ClearVoip(w) \/ Leave(w)
  <2>1. \A d \in Devices : rows'[d] # NoRow => WellFormed(rows'[d])
    <3>1. CASE ClearVoip(w)
      <4>1. [NoRow EXCEPT !.voip = NoToken] = NoRow
        BY DEF NoRow
      <4> QED BY <3>1, <4>1, ClearedWellFormed DEF ClearVoip, Routed, Typed, TypeOK
    <3>2. CASE Forget(w) \/ Leave(w)
      BY <3>2 DEF Forget, Leave, Routed, Typed, TypeOK
    <3> QED BY <1>2, <3>1, <3>2
  <2>2. /\ pc'[w] = "idle"
        /\ \A v \in Workers \ {w} : pc'[v] = pc[v] /\ job'[v] = job[v]
    BY <1>2 DEF Forget, ClearVoip, Leave, Done, Typed, TypeOK
  <2> QED BY <2>1, <2>2 DEF Routed
<1> QED BY <1>1, <1>2 DEF Step

LEMMA NextRouted == Typed /\ Routed /\ [Next]_vars => Routed'
<1> SUFFICES ASSUME Typed, Routed, [Next]_vars PROVE Routed'
  OBVIOUS
<1>1. ASSUME NEW f \in Forms, Register(f)
      PROVE  Routed'
  BY <1>1, AcceptedWellFormed DEF Register, Routed, Typed, TypeOK
<1>2. ASSUME NEW w \in Workers, NEW d \in Devices,
             NEW ncType \in {"alert", "background", "voip"}, Start(w, d, ncType)
      PROVE  Routed'
  <2>1. /\ rows' = rows /\ job'[w].row = rows[d] /\ job'[w].push = PushType(ncType, rows[d])
        /\ rows[d] # NoRow
        /\ \A v \in Workers \ {w} : pc'[v] = pc[v] /\ job'[v] = job[v]
    BY <1>2 DEF Start, Typed, TypeOK
  <2> QED BY <2>1 DEF Routed, PushType
<1>3. CASE (\E t \in Mortal : Die(t)) \/ Restart \/ UNCHANGED vars
  BY <1>3 DEF Die, Restart, vars, Routed
<1> QED BY <1>1, <1>2, <1>3, StepRouted DEF Next

LEMMA SpecRouted == Spec => []Routed
<1>1. Init => Routed
  BY OldWellFormed DEF Init, Routed
<1> QED BY <1>1, SpecTyped, NextRouted, PTL DEF Spec

\* Whatever register_device accepts, and whatever older rows there are, stays
\* deliverable under every configuration that has the row's provider: one
\* provider whose shape fits, an environment that exists, a key that verifies.
THEOREM RowsDeliverable == Spec => []EveryRowIsDeliverable
<1>1. Typed /\ Routed => EveryRowIsDeliverable
  <2> SUFFICES ASSUME Typed, Routed, NEW d \in Devices, rows[d] # NoRow
               PROVE  LET row == rows[d]
                      IN  /\ LoadsRsaKey(row.key)
                          /\ \/ RowKind(row) = "apns" /\ IsApnsToken(row.token)
                             \/ RowKind(row) = "fcm" /\ IsFcmToken(row.token)
                          /\ RowKind(row) = "apns" /\ Configured(row)
                                => Environment(row) \in Environments
                          /\ row.voip # NoToken => RowKind(row) = "apns" /\ IsApnsToken(row.voip)
    BY DEF EveryRowIsDeliverable
  <2>1. config.apns \in Environments \cup {Absent}
    BY DEF Typed, TypeOK, Configs
  <2> QED BY <2>1 DEF Routed, WellFormed, Configured, Environment
<1> QED BY <1>1, SpecTyped, SpecRouted, PTL

-----------------------------------------------------------------------------
(* Truthful registrations.                                                 *)

\* What the row of a truthful registration says of the token a push goes to.
LEMMA TruthfulTarget ==
    ASSUME NEW j \in Jobs, WellFormed(j.row), Truthful(j.row),
           j.push = "voip" => j.row.voip # NoToken
    PROVE  /\ Target(j).issuer = RowKind(j.row) /\ Target(j).purpose = Purpose(j)
           /\ RowKind(j.row) = "apns" /\ j.row.environment # Absent
                  => Environment(j.row) = Target(j).environment
<1> DEFINE row == j.row
<1>1. /\ row.token \in {f.token : f \in Forms} \cup {r.token : r \in OldRows}
      /\ row.voip \in {f.voip : f \in Forms} \cup {NoToken}
  BY DEF Jobs, Row
<1>2. /\ row.token.issuer \in {"apns", "fcm"}
      /\ row.token.issuer = "apns" => row.token.shape = "hex"
      /\ row.token.issuer = "fcm" => row.token.shape = "base64url"
  BY <1>1, TokensAssumption DEF Truthful
<1>3. RowKind(row) = row.token.issuer
  BY <1>2 DEF RowKind, Kind, TokenKind, IsApnsToken, IsFcmToken, Truthful, Absent
<1>4. CASE j.push = "voip"
  <2>1. row.voip.issuer = "apns" /\ row.voip.purpose = "pushkit"
    BY <1>1, <1>4, TokensAssumption DEF Truthful
  <2> QED BY <1>4, <2>1 DEF Target, Purpose, Environment, Truthful, WellFormed
<1>5. CASE j.push # "voip"
  BY <1>3, <1>5 DEF Target, Purpose, Environment, Truthful
<1> QED BY <1>4, <1>5

\* A push for a truthful registration goes to the provider that issued the
\* token and with the topic the token is for.
THEOREM IssuersReached == Spec => []PushesReachTheirIssuer
<1>1. Typed /\ Routed => PushesReachTheirIssuer
  <2> SUFFICES ASSUME Typed, Routed, NEW w \in Workers, pc[w] # "idle", Truthful(job[w].row)
               PROVE  /\ Target(job[w]).issuer = RowKind(job[w].row)
                      /\ Target(job[w]).purpose = Purpose(job[w])
    BY DEF PushesReachTheirIssuer
  <2>1. job[w] \in Jobs \/ job[w] = NoJob
    BY DEF Typed
  <2>2. job[w] \in Jobs
    BY <2>1 DEF Typed, TypeOK, Jobs, NoJob
  <2> QED BY <2>2, TruthfulTarget DEF Routed
<1> QED BY <1>1, SpecTyped, SpecRouted, PTL
-----------------------------------------------------------------------------
(* What a provider's answer may do to a device.                            *)

\* The error code of a list of details is one of the list, or there is none.
LEMMA FcmSilent ==
    ASSUME NEW r,
           r.details \in {<<>>, <<"QUOTA_EXCEEDED">>, <<"none", "INTERNAL">>, <<"notDict">>,
                          <<"INVALID_ARGUMENT", "none">>}
    PROVE  FcmErrorCode(r) # "UNREGISTERED"
<1> DEFINE decisive == {i \in DOMAIN r.details : r.details[i] # "none"}
<1>1. DOMAIN r.details \subseteq {1, 2} /\ \A i \in DOMAIN r.details : r.details[i] # "UNREGISTERED"
  OBVIOUS
<1>2. ASSUME decisive # {} PROVE Min(decisive) \in decisive
  <2>1. \E i \in decisive : \A k \in decisive : i =< k
    BY <1>1, <1>2
  <2> QED BY <2>1 DEF Min
<1> QED BY <1>1, <1>2 DEF FcmErrorCode

\* Trouble is never taken for the death of a token.
LEMMA TroubleForgetsNothing ==
    ASSUME NEW j
    PROVE  Troubles(j) \subseteq {"delivered", "failed"}
<1>1. \A r \in ApnsTrouble : ~ApnsReadable(r) \/ ~ApnsForgets(r)
  BY DEF ApnsTrouble, Apns, ApnsReadable, ApnsForgets, Absent
<1>2. \A r \in FcmTrouble : ~FcmReadable(r) \/ FcmErrorCode(r) # "UNREGISTERED"
  <2> SUFFICES ASSUME NEW r \in FcmTrouble
               PROVE  ~FcmReadable(r) \/ FcmErrorCode(r) # "UNREGISTERED"
    OBVIOUS
  <2>1. r.details \in {<<>>, <<"QUOTA_EXCEEDED">>, <<"none", "INTERNAL">>, <<"notDict">>}
    BY DEF FcmTrouble, Fcm
  <2> QED BY <2>1, FcmSilent
<1> QED BY <1>1, <1>2 DEF Troubles, ApnsVerdict, FcmVerdict

\* A provider that issued the token says that it is dead only if it is.
LEMMA TruthForgetsTheDead ==
    ASSUME NEW j, NEW verdict \in Truths(j), verdict \in {"forget", "clearVoip"},
           Target(j).issuer = RowKind(j.row),
           RowKind(j.row) = "apns" => Environment(j.row) = Target(j).environment,
           Target(j).purpose = Purpose(j), RowKind(j.row) \in {"apns", "fcm"}
    PROVE  Target(j) \in dead
<1> SUFFICES ASSUME Target(j) \notin dead PROVE FALSE
  OBVIOUS
<1>1. CASE RowKind(j.row) = "apns"
  <2>1. ApnsTruth(Target(j), Environment(j.row), Purpose(j)) = {Apns(200, Absent)}
    BY <1>1 DEF ApnsTruth
  <2>2. verdict = ApnsVerdict(Apns(200, Absent), j.push)
    BY <1>1, <2>1 DEF Truths
  <2> QED BY <2>2 DEF ApnsVerdict, ApnsReadable, Apns
<1>2. CASE RowKind(j.row) = "fcm"
  <2>1. FcmTruth(Target(j)) = {Fcm(200, <<>>)}
    BY <1>2 DEF FcmTruth
  <2>2. verdict = FcmVerdict(Fcm(200, <<>>))
    BY <1>2, <2>1 DEF Truths
  <2> QED BY <2>2 DEF FcmVerdict, FcmReadable, Fcm
<1> QED BY <1>1, <1>2

Justified(w) ==
    pc[w] \in {"forget", "clearVoip"} /\ Truthful(job[w].row) =>
        \/ Target(job[w]) \in dead
        \/ job[w].row.environment = Absent /\ RowKind(job[w].row) = "apns"

LEMMA AnswerJustified ==
    ASSUME Typed, Routed, NEW w \in Workers, Answer(w)
    PROVE  Justified(w)'
<1>1. PICK verdict \in Truths(job[w]) : Decide(w, verdict)
  BY DEF Answer
<1>2. /\ pc'[w] = verdict /\ job'[w] = job[w] /\ dead' = dead /\ pc[w] = "sending"
  BY <1>1 DEF Answer, Decide, Typed, TypeOK
<1> SUFFICES ASSUME verdict \in {"forget", "clearVoip"}, Truthful(job[w].row),
                    ~(job[w].row.environment = Absent /\ RowKind(job[w].row) = "apns")
             PROVE  Target(job[w]) \in dead
  BY <1>2 DEF Justified, Target
<1>3. job[w] \in Jobs
  BY <1>2 DEF Typed, TypeOK, Jobs, NoJob
<1>4. WellFormed(job[w].row) /\ (job[w].push = "voip" => job[w].row.voip # NoToken)
  BY <1>2 DEF Routed
<1>5. /\ Target(job[w]).issuer = RowKind(job[w].row) /\ Target(job[w]).purpose = Purpose(job[w])
      /\ RowKind(job[w].row) = "apns" => Environment(job[w].row) = Target(job[w]).environment
  BY <1>3, <1>4, TruthfulTarget
<1>6. RowKind(job[w].row) \in {"apns", "fcm"}
  BY <1>4 DEF WellFormed
<1> QED BY <1>5, <1>6, TruthForgetsTheDead

LEMMA NextJustified ==
    Typed /\ Routed /\ (\A w \in Workers : Justified(w)) /\ [Next]_vars
        => (\A w \in Workers : Justified(w))'
<1> SUFFICES ASSUME Typed, Routed, \A w \in Workers : Justified(w), [Next]_vars,
                    NEW v \in Workers
             PROVE  Justified(v)'
  OBVIOUS
<1>1. ASSUME dead \subseteq dead', pc'[v] = pc[v], job'[v] = job[v]
      PROVE  Justified(v)'
  BY <1>1 DEF Justified, Target
<1>2. ASSUME pc'[v] \in {"idle", "sending", "delivered", "failed"}
      PROVE  Justified(v)'
  BY <1>2 DEF Justified
<1>3. ASSUME NEW w \in Workers, Step(w)
      PROVE  Justified(v)'
  <2>1. CASE v # w
    <3>1. dead' = dead /\ pc'[v] = pc[v] /\ job'[v] = job[v]
      BY <1>3, <2>1 DEF Step, NotConfigured, Answer, GoWrong, Decide, Forget, ClearVoip, Leave,
                        Done, Typed, TypeOK
    <3> QED BY <1>1, <3>1
  <2>2. CASE v = w /\ Answer(w)
    BY <2>2, AnswerJustified
  <2>3. CASE v = w /\ ~Answer(w)
    <3>1. pc'[w] \in {"idle", "delivered", "failed"}
      BY <1>3, <2>3, TroubleForgetsNothing
         DEF Step, NotConfigured, GoWrong, Decide, Forget, ClearVoip, Leave, Done, Typed, TypeOK
    <3> QED BY <1>2, <2>3, <3>1
  <2> QED BY <2>1, <2>2, <2>3
<1>4. ASSUME NEW w \in Workers, NEW d \in Devices,
             NEW ncType \in {"alert", "background", "voip"}, Start(w, d, ncType)
      PROVE  Justified(v)'
  <2>1. CASE v = w
    BY <1>2, <1>4, <2>1 DEF Start, Typed, TypeOK
  <2>2. CASE v # w
    BY <1>1, <1>4, <2>2 DEF Start, Typed, TypeOK
  <2> QED BY <2>1, <2>2
<1>5. CASE (\E f \in Forms : Register(f)) \/ (\E t \in Mortal : Die(t)) \/ UNCHANGED vars
  <2>1. dead \subseteq dead' /\ pc'[v] = pc[v] /\ job'[v] = job[v]
    BY <1>5 DEF Register, Die, vars
  <2> QED BY <1>1, <2>1
<1>6. CASE Restart
  BY <1>2, <1>6 DEF Restart
<1> QED BY <1>3, <1>4, <1>5, <1>6 DEF Next

\* A truthful registration is forgotten, or loses its PushKit token, only once
\* that token is dead, unless it is Apple's and leaves its environment out.
THEOREM MistakesAreLegacy == Spec => []OnlyLegacyMistaken
<1>1. Init => \A w \in Workers : Justified(w)
  BY DEF Init, Justified
<1>2. (\A w \in Workers : Justified(w)) => OnlyLegacyMistaken
  BY DEF Justified, OnlyLegacyMistaken
<1> QED BY <1>1, <1>2, SpecTyped, SpecRouted, NextJustified, PTL DEF Spec
=============================================================================
