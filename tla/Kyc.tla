-------------------------------- MODULE Kyc --------------------------------
(***************************************************************************)
(* The KYC adapters (server/internal/kyc): what each provider's delivery   *)
(* means to the platform.  A delivery is a record of the fields its        *)
(* adapter reads; signed says whether its HMAC verifies under the          *)
(* configured secret, at = 0 stands for a timestamp that is absent or does *)
(* not parse, and eventId for the identity the adapter derives.            *)
(***************************************************************************)
EXTENDS Integers

CONSTANT NoWallet     \* the empty address

Providers == {"generic", "sumsub", "onfido"}      \* KYC_PROVIDER

\* VerifyWebhook answers a Decision or one of the errors the API tells apart.
Refusal(error) == [error |-> error]

Decision(d, wallet, ref, status, hit) ==
  [error |-> "none", eventId |-> d.eventId, address |-> wallet, ref |-> ref,
   status |-> status, occurredAt |-> d.at, monitoringHit |-> hit]

-----------------------------------------------------------------------------
(* Sumsub: the wallet is the externalUserId.                               *)

\* Only a FINAL rejection blocks; every other review leaves the wallet Pending.
sumsubStatus(d) ==
  CASE d.type = "applicantReviewed" /\ d.answer = "GREEN" -> "Allowed"
    [] d.type = "applicantReviewed" /\ d.answer = "RED" /\ d.reject = "FINAL" -> "Blocked"
    [] OTHER -> "Pending"

sumsubHit(d) ==
  \/ d.type = "applicantOnHold"
  \/ d.type = "applicantPending" /\ d.mode = "ongoingAml"

sumsubVerifyWebhook(d) ==
  CASE ~d.signed -> Refusal("invalid_signature")
    [] d.signed /\ d.externalUserId = NoWallet -> Refusal("unhandled")
    [] d.signed /\ d.externalUserId # NoWallet /\ d.at = 0 -> Refusal("missing_timestamp")
    [] OTHER -> Decision(d, d.externalUserId, d.externalUserId, sumsubStatus(d), sumsubHit(d))

-----------------------------------------------------------------------------
(* Onfido: the wallet is found through the workflow run's binding.         *)

onfidoStatus(d) == IF d.status = "approved" THEN "Allowed" ELSE "Blocked"

onfidoVerifyWebhook(d) ==
  CASE ~d.signed -> Refusal("invalid_signature")
    [] d.signed /\ d.action = "watchlist_monitor.matches_updated" -> Refusal("monitoring_signal")
    [] d.signed /\ d.action = "workflow_run.completed"
         /\ d.status \in {"approved", "declined"} /\ d.at = 0 -> Refusal("missing_timestamp")
    [] d.signed /\ d.action = "workflow_run.completed"
         /\ d.status \in {"approved", "declined"} /\ d.at # 0
         -> Decision(d, NoWallet, d.ref, onfidoStatus(d), FALSE)
    [] OTHER -> Refusal("unhandled")

-----------------------------------------------------------------------------
(* The generic shape, in which the issuer's integration decides.           *)

genericVerifyWebhook(d) ==
  IF d.signed THEN Decision(d, d.address, d.address, d.status, FALSE)
              ELSE Refusal("invalid_signature")

VerifyWebhook(provider, d) ==
  CASE provider = "sumsub" -> sumsubVerifyWebhook(d)
    [] provider = "onfido" -> onfidoVerifyWebhook(d)
    [] OTHER -> genericVerifyWebhook(d)

\* Whether StartVerification opens a session, and the reference bound to the
\* wallet: Sumsub's is the wallet itself, Onfido's a new workflow run.
StartSupported(provider) == provider # "generic"

StartRefs(provider, wallet, runs) == IF provider = "sumsub" THEN {wallet} ELSE runs
=============================================================================
