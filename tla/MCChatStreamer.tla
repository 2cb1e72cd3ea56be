--------------------------- MODULE MCChatStreamer ---------------------------
(***************************************************************************)
(* The errors the endpoint answers with in the runs of ChatStreamer: what  *)
(* classify looks at, in every combination.                                *)
(***************************************************************************)
EXTENDS ChatStreamer

MCErrors == {
    Error(http, code, type, message, retryAfter) :
        http \in {0, 401, 408, 418, 429, 500, 503},
        code \in {"", "rate_limit_exceeded", "insufficient_quota", "model_not_found"},
        type \in {"", "rate_limit_error"},
        message \in {"", "rate limit", "billing"},
        retryAfter \in {-1, 2}}
=============================================================================
