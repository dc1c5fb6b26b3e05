-------------------------- MODULE ProviderAnswers --------------------------
(***************************************************************************)
(* From a provider's HTTP response to what send_notifications makes of it: *)
(* ApnsClient.send with ApnsResult (app/apns.py:76-158), FcmClient.send    *)
(* with _error_code and FcmResult (app/fcm.py:103-171), _send_via_apns and *)
(* _send_via_fcm (app/server.py:452-508).                                  *)
(*                                                                         *)
(* A verdict is "delivered" (their False), "forget" (True), "clearVoip", or*)
(* "failed" (None, or a ProviderResponseError that the caller catches).    *)
(***************************************************************************)
EXTENDS Integers, Sequences, FiniteSetsExt

\* An APNs response: status, what the body is, and the `reason` in it.

\* Bug: only 410 is known.
Bug_ApnsForgetsGone(r) == r.status = 410

\* ApnsResult.should_forget_device
ApnsForgets(r) == r.status = 410 \/ (r.status = 400 /\ r.reason = "BadDeviceToken")

\* A response that is not OK must be a JSON object whose reason is a string,
\* or there is none.
ApnsReadable(r) == r.status = 200 \/ (r.body = "object" /\ r.reason # "notString")

ApnsVerdict(r, push) ==
    IF ~ApnsReadable(r) THEN "failed"
    ELSE IF r.status = 200 THEN "delivered"
    ELSE IF ~ApnsForgets(r) THEN "failed"
    ELSE IF push = "voip" THEN "clearVoip" ELSE "forget"

\* An FCM response: status, what the body is, and the error's details, each a
\* dict with an error code or without ("none"), or not a dict ("notDict").
\* The first one with a code decides, and what comes after it is not looked at.
FcmErrorCode(r) ==
    LET decisive == {i \in DOMAIN r.details : r.details[i] # "none"}
    IN  IF decisive = {} THEN "none" ELSE r.details[Min(decisive)]

FcmReadable(r) == r.status = 200 \/ (r.body = "object" /\ FcmErrorCode(r) # "notDict")

FcmVerdict(r) ==
    IF ~FcmReadable(r) THEN "failed"
    ELSE IF r.status = 200 THEN "delivered"
    ELSE IF FcmErrorCode(r) = "UNREGISTERED" THEN "forget" ELSE "failed"
=============================================================================
