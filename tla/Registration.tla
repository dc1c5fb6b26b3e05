---------------------------- MODULE Registration ----------------------------
(***************************************************************************)
(* What POST /devices accepts: the checks of register_device               *)
(* (app/server.py:262-305) with token_kind (50-56) and the signature checks*)
(* of app/crypto.py, as operators on forms.                                *)
(*                                                                         *)
(* A token is a record of what the gateway can see of it, its shape, and of*)
(* what only its provider knows: who issued it, for which environment and  *)
(* for what purpose.  A public key is its owner, type and size; a signature*)
(* is its signer and what was signed.  Absent is a field that is not there.*)
(***************************************************************************)
EXTENDS Integers

Absent       == "absent"
Environments == {"development", "production"}       \* apns.py:26-27
NoToken      == [shape |-> Absent, issuer |-> Absent, environment |-> Absent, purpose |-> Absent]

\* _APNS_TOKEN_RE and _FCM_TOKEN_RE: the second matches all that the first does.
IsApnsToken(t) == t.shape = "hex"
IsFcmToken(t)  == t.shape \in {"hex", "base64url"}

\* Bug: the more general expression is tried first.
Bug_TokenKindFcmFirst(t) ==
    IF IsFcmToken(t) THEN "fcm" ELSE IF IsApnsToken(t) THEN "apns" ELSE Absent

TokenKind(t) ==
    IF IsApnsToken(t) THEN "apns" ELSE IF IsFcmToken(t) THEN "fcm" ELSE Absent

\* `push_provider or token_kind(push_token)`, at the registration and again at
\* each delivery, from the row.
Kind(provider, t) == IF provider = Absent THEN TokenKind(t) ELSE provider

-----------------------------------------------------------------------------
(* crypto.py                                                               *)

MinKeyBits == 2048
MaxKeyBits == 8192

LoadsRsaKey(key) == key.type = "rsa" /\ key.bits \in MinKeyBits..MaxKeyBits

\* verify_device_identifier_signature: the identifier is a SHA-512 digest.
VerifiesDevice(device, signature, key) ==
    /\ device.isDigest /\ signature.isBase64
    /\ LoadsRsaKey(key)
    /\ signature.by = key.owner /\ signature.over = device

\* verify_subject_signature
VerifiesSubject(subject, signature, key) ==
    /\ signature.isBase64
    /\ LoadsRsaKey(key)
    /\ signature.by = key.owner /\ signature.over = subject

-----------------------------------------------------------------------------
(* register_device: one operator per check, in the order of the code.      *)

KindOf(f) == Kind(f.provider, f.token)

KnownProvider(f) == f.provider \in {Absent, "apns", "fcm"}

ValidToken(f) ==
    \/ KindOf(f) = "apns" /\ IsApnsToken(f.token)
    \/ KindOf(f) = "fcm" /\ IsFcmToken(f.token)

\* Bug: the environment is not compared with the two that exist.
Bug_EnvironmentAny(f) == KindOf(f) = "fcm" => f.environment = Absent

\* Only clients from before pushProvider may leave the environment out.
ValidEnvironment(f) ==
    \/ KindOf(f) = "apns" /\ f.environment \in Environments
    \/ KindOf(f) = "apns" /\ f.provider = Absent /\ f.environment = Absent
    \/ KindOf(f) = "fcm" /\ f.environment = Absent

ValidVoipToken(f) ==
    f.voip = NoToken \/ (KindOf(f) = "apns" /\ IsApnsToken(f.voip))

Accepts(f) ==
    /\ f.complete
    /\ KnownProvider(f)
    /\ ValidToken(f)
    /\ ValidEnvironment(f)
    /\ ValidVoipToken(f)
    /\ VerifiesDevice(f.device, f.signature, f.key)
=============================================================================
