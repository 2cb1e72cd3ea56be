---------------------------- MODULE RetryPolicy ----------------------------
(***************************************************************************)
(* llm::classify (src/llm/retry_policy.cpp): what to do about a failed     *)
(* completion request.  A pure function of the error and of the 0-based    *)
(* index of the attempt that failed.                                       *)
(*                                                                         *)
(* An error keeps only what classify looks at: the HTTP status (0 when     *)
(* there was no response), the "code" and "type" fields of the body, the   *)
(* family its "message" belongs to, and the Retry-After header in seconds  *)
(* (-1 when absent).  Delays are in units of half a second, the default    *)
(* base delay.                                                             *)
(***************************************************************************)
EXTENDS Integers

CONSTANTS
    MaxAttempts,   \* RetryConfig::max_attempts, 5 by default
    BaseDelay,     \* base_delay_s, one unit
    Factor,        \* factor
    CapDelay,      \* cap_s, sixty units
    JitterExtra    \* jitter_extra_s, two units

ASSUME RetryConfigAssumption ==
    /\ MaxAttempts \in Nat \ {0}
    /\ BaseDelay \in Nat /\ Factor \in Nat \ {0}
    /\ CapDelay \in Nat /\ JitterExtra \in Nat

Outcomes == {"Retry", "StopUserAction", "StopBillingOrQuota", "DoNotRetry"}

Error(http, code, type, message, retryAfter) ==
    [http |-> http, code |-> code, type |-> type, message |-> message,
     retryAfter |-> retryAfter]

\* Two units a second.
Units(seconds) == 2 * seconds
-----------------------------------------------------------------------------
BillingCodes == {"insufficient_quota", "billing_not_active", "account_deactivated"}

NonRetryableCodes ==
    BillingCodes \cup
    {"invalid_api_key", "context_length_exceeded", "model_not_found",
     "invalid_model", "content_filter", "content_policy_violation"}

OutcomeForNonRetryableCode(code) ==
    IF code \in BillingCodes THEN "StopBillingOrQuota" ELSE "StopUserAction"

RejectedStatuses == {400, 401, 403, 404}

TransientStatuses == {408, 409, 500, 502, 503, 504}

IsRateLimit(e) ==
    \/ e.type = "rate_limit_error"
    \/ e.code \in {"rate_limit", "rate_limit_exceeded"}
    \/ e.message = "rate limit"

\* cap_n = min(cap, base * factor^attempt); the sleep is uniform in [0, cap_n].
FullJitterRange(attempt) ==
    LET grown == BaseDelay * Factor ^ attempt
    IN  0 .. (IF grown < CapDelay THEN grown ELSE CapDelay)

RetryAfterRange(e) ==
    Units(e.retryAfter) .. (Units(e.retryAfter) + JitterExtra)

Retry(range) == [outcome |-> "Retry", delays |-> range]
Stop(outcome) == [outcome |-> outcome, delays |-> {0}]

\* Mutant: the quota codes and phrases are not looked at.
ClassifyByStatusOnly(e, attempt) ==
    IF e.http \in RejectedStatuses THEN Stop("StopUserAction")
    ELSE IF e.http \in TransientStatuses \cup {0, 429}
         THEN Retry(FullJitterRange(attempt))
         ELSE Stop("DoNotRetry")

\* The cases are tried in the order the code tries them.
Classify(e, attempt) ==
    IF e.code \in NonRetryableCodes THEN Stop(OutcomeForNonRetryableCode(e.code))
    ELSE IF e.http \in RejectedStatuses THEN Stop("StopUserAction")
    ELSE IF e.message = "billing" THEN Stop("StopBillingOrQuota")
    ELSE IF e.http = 429 THEN
        IF IsRateLimit(e) THEN
            Retry(IF e.retryAfter >= 0 THEN RetryAfterRange(e)
                                       ELSE FullJitterRange(attempt))
        ELSE IF attempt = 0 THEN Retry(FullJitterRange(attempt))
        ELSE Stop("StopBillingOrQuota")
    ELSE IF e.http \in TransientStatuses THEN
        Retry(IF e.retryAfter >= 0 /\ e.http = 503 THEN RetryAfterRange(e)
                                                   ELSE FullJitterRange(attempt))
    ELSE IF e.http = 0 THEN Retry(FullJitterRange(attempt))
    ELSE Stop("DoNotRetry")
-----------------------------------------------------------------------------
(***************************************************************************)
(* The taxonomy of include/llm/retry_policy.hpp:9-12, as a definition of   *)
(* its own that properties compare Classify with.                          *)
(***************************************************************************)
Fatal(e) ==
    \/ e.http \in {400, 401, 403, 404}
    \/ e.code \in {"insufficient_quota", "invalid_api_key", "model_not_found"}
    \/ e.message = "billing"
=============================================================================
