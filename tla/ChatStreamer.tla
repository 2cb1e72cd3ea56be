---------------------------- MODULE ChatStreamer ----------------------------
(***************************************************************************)
(* One call of ChatStreamer::stream (src/llm_chat_streamer.cpp): the loop  *)
(* of attempts, the callbacks of one streamed response, the interruptible  *)
(* wait between attempts, and what the driver of the turn sees of it.      *)
(*                                                                         *)
(* The HTTP client is external.  It delivers chunks while control_ says    *)
(* Continue and then either ends the transfer or reports one StreamError;  *)
(* a transfer cut short by control_ = Stop ends without an error           *)
(* (tests/test_chat_stream.cpp, StopEarlyAbortsStream).  It need not do    *)
(* either: the program sets no limit on a transfer (cockpit_ui.cpp:192),   *)
(* and a server may fall silent in the middle of one.  A stop is asked by  *)
(* another thread, at any moment.                                          *)
(*                                                                         *)
(* received is the text the driver holds: the tokens since the last        *)
(* on_retry, which tells a driver to drop the failed attempt's text.       *)
(***************************************************************************)
EXTENDS RetryPolicy, Sequences

CONSTANTS
    Errors,      \* the errors the endpoint can fail with
    MaxPieces    \* bound: content chunks of one response

ASSUME MaxPiecesAssumption == MaxPieces \in Nat
ASSUME ErrorsAssumption == \A e \in Errors : e.retryAfter \in Int

\* last_error before on_error is called: no status at all.
NoError == Error(-1, "", "", "", -1)
NoUsage == -1

VARIABLES
    pc,             \* top, stream, failed, wait, returned
    attempt,        \* 0-based
    stopRequested,  \* driver.stop_requested()
    control,        \* control_
    buf,            \* response_buf
    lastError,      \* last_error; NoError while saw_error is false
    localUsage,     \* local_usage: the attempt that reported it, NoUsage before
    delay,          \* the sleep classify asked for
    reply,          \* what stream() returned
    usageOut,       \* *usage_out: the attempt whose usage it holds
    received,       \* tokens delivered to the driver since the last on_retry
    toldOf,         \* the argument of the last on_retry, 0 before the first
    completed,      \* on_turn_complete was called
    lateRequest     \* a request was sent after a stop was asked

codeVars == <<pc, attempt, control, buf, lastError, localUsage, delay, reply, usageOut>>
driverVars == <<received, toldOf, completed>>
vars == <<codeVars, stopRequested, driverVars, lateRequest>>

\* A piece is known by the attempt it came from and its place in the response.
Piece == [attempt : 0 .. MaxAttempts - 1, place : 1 .. MaxPieces]

\* The text that tells a reader of a failure comes from no attempt.
Notice == [attempt |-> -1, place |-> 0]

Init ==
    /\ pc = "top"
    /\ attempt = 0
    /\ stopRequested \in BOOLEAN
    /\ control = "Continue"
    /\ buf = <<>>
    /\ lastError = NoError
    /\ localUsage = NoUsage
    /\ delay = 0
    /\ reply = <<>>
    /\ usageOut = NoUsage
    /\ received = <<>>
    /\ toldOf = 0
    /\ completed = FALSE
    /\ lateRequest = FALSE
-----------------------------------------------------------------------------
\* Another thread calls driver.request_stop(); nothing takes it back.
RequestStop ==
    /\ pc # "returned"
    /\ ~stopRequested
    /\ stopRequested' = TRUE
    /\ UNCHANGED <<codeVars, driverVars, lateRequest>>

ReturnNothing ==
    /\ pc' = "returned"
    /\ reply' = <<>>
    /\ UNCHANGED <<attempt, control, buf, lastError, localUsage, delay, usageOut>>
    /\ UNCHANGED <<stopRequested, driverVars, lateRequest>>

\* Mutant: the stop is not looked at between attempts.
MayStartAlways == attempt < MaxAttempts

\* The loop's condition and the check of the stop at its head.
MayStart == attempt < MaxAttempts /\ ~stopRequested

LeaveLoop ==
    /\ pc = "top"
    /\ ~MayStart
    /\ ReturnNothing

\* Mutant: the locals of the attempt are declared outside the loop.
KeepLocals == UNCHANGED <<buf, localUsage>> /\ lastError' = NoError

FreshLocals ==
    /\ buf' = <<>>
    /\ localUsage' = NoUsage
    /\ lastError' = NoError

\* control_ and the locals of the attempt are reset.
PassStopCheck ==
    /\ pc = "top"
    /\ MayStart
    /\ pc' = "call"
    /\ control' = "Continue"
    /\ FreshLocals
    /\ UNCHANGED <<attempt, delay, reply, usageOut>>
    /\ UNCHANGED <<stopRequested, driverVars, lateRequest>>

\* client_.chat.stream(request, cb); a stop may have been asked since the check.
CallClient ==
    /\ pc = "call"
    /\ pc' = "stream"
    /\ lateRequest' = (lateRequest \/ stopRequested)
    /\ UNCHANGED <<attempt, control, buf, lastError, localUsage, delay, reply, usageOut>>
    /\ UNCHANGED <<stopRequested, driverVars>>
-----------------------------------------------------------------------------
\* Whether the callback reaches its check of the stop: a chunk without choices
\* or without a delta returns before it.
ChecksStop(chunk) == chunk # "bare"

\* The on_data callback, on a chunk that is bare, has a delta, or has a delta
\* with content, and that may carry the usage of the request.
OnData(chunk, withUsage) ==
    /\ pc = "stream"
    /\ control = "Continue"
    /\ localUsage' = IF withUsage THEN attempt ELSE localUsage
    /\ IF chunk = "content"
       THEN LET piece == [attempt |-> attempt, place |-> Len(buf) + 1]
            IN  /\ Len(buf) < MaxPieces
                /\ buf' = Append(buf, piece)
                /\ received' = Append(received, piece)
       ELSE UNCHANGED <<buf, received>>
    /\ control' = IF ChecksStop(chunk) /\ stopRequested THEN "Stop" ELSE control
    /\ UNCHANGED <<pc, attempt, lastError, delay, reply, usageOut>>
    /\ UNCHANGED <<stopRequested, toldOf, completed, lateRequest>>

\* The transfer ends and on_error was not called: [DONE], or control_ is Stop.
Succeed ==
    /\ pc = "stream"
    /\ pc' = "returned"
    /\ completed' = TRUE
    /\ reply' = buf
    /\ usageOut' = IF localUsage # NoUsage THEN localUsage ELSE usageOut
    /\ UNCHANGED <<attempt, control, buf, lastError, localUsage, delay>>
    /\ UNCHANGED <<stopRequested, received, toldOf, lateRequest>>

\* on_error, or an exception thrown by the client or by a callback.
Fail(e) ==
    /\ pc = "stream"
    /\ control = "Continue"
    /\ pc' = "failed"
    /\ lastError' = e
    /\ UNCHANGED <<attempt, control, buf, localUsage, delay, reply, usageOut>>
    /\ UNCHANGED <<stopRequested, driverVars, lateRequest>>
-----------------------------------------------------------------------------
Decision == Classify(lastError, attempt)

IsLastAttempt == attempt + 1 >= MaxAttempts

MustSurface == Decision.outcome # "Retry" \/ IsLastAttempt

\* Not retryable, or exhausted: the error is shown and the turn closed.
Surface ==
    /\ pc = "failed"
    /\ MustSurface
    /\ pc' = "returned"
    /\ received' = Append(received, Notice)
    /\ completed' = TRUE
    /\ reply' = buf
    /\ UNCHANGED <<attempt, control, buf, lastError, localUsage, delay, usageOut>>
    /\ UNCHANGED <<stopRequested, toldOf, lateRequest>>

Backoff ==
    /\ pc = "failed"
    /\ ~MustSurface
    /\ pc' = "wait"
    /\ delay' \in Decision.delays
    /\ UNCHANGED <<attempt, control, buf, lastError, localUsage, reply, usageOut>>
    /\ UNCHANGED <<stopRequested, driverVars, lateRequest>>

\* The stop is seen by one of the wait's checks, every 50 ms.
StopDuringWait ==
    /\ pc = "wait"
    /\ delay > 0
    /\ stopRequested
    /\ ReturnNothing

\* Mutant: the driver is not told that an attempt follows.
SilentRetry == attempt' = attempt + 1 /\ UNCHANGED <<received, toldOf>>

\* Mutant: the driver is told, and the loop counter stays.
RetrySameAttempt == received' = <<>> /\ toldOf' = attempt + 1 /\ UNCHANGED attempt

\* driver.on_retry(attempt + 1), then ++attempt.
NextAttempt ==
    /\ received' = <<>>
    /\ toldOf' = attempt + 1
    /\ attempt' = attempt + 1

\* The time is up, whether or not a stop has come since the last check.
WaitElapses ==
    /\ pc = "wait"
    /\ NextAttempt
    /\ pc' = "top"
    /\ UNCHANGED <<control, buf, lastError, localUsage, delay, reply, usageOut>>
    /\ UNCHANGED <<stopRequested, completed, lateRequest>>

\* The call has returned.
Done == pc = "returned" /\ UNCHANGED vars
-----------------------------------------------------------------------------
Step ==
    \/ LeaveLoop
    \/ PassStopCheck
    \/ CallClient
    \/ Surface
    \/ Backoff
    \/ StopDuringWait
    \/ WaitElapses

Transfer ==
    \/ \E chunk \in {"bare", "delta", "content"}, withUsage \in BOOLEAN :
          OnData(chunk, withUsage)
    \/ Succeed
    \/ \E e \in Errors : Fail(e)

Next == RequestStop \/ Step \/ Transfer \/ Done

(***************************************************************************)
(* The calling thread runs, and the client ends the transfer that control_ *)
(* tells it to stop.  Nothing makes the server send or close anything, so  *)
(* that no chunk and no other end of a transfer is owed.                   *)
(***************************************************************************)
Spec ==
    /\ Init /\ [][Next]_vars
    /\ WF_vars(Step)
    /\ WF_vars(Succeed /\ control = "Stop")
-----------------------------------------------------------------------------
TypeOK ==
    /\ pc \in {"top", "call", "stream", "failed", "wait", "returned"}
    /\ attempt \in 0 .. MaxAttempts - 1
    /\ stopRequested \in BOOLEAN
    /\ control \in {"Continue", "Stop"}
    /\ buf \in Seq(Piece)
    /\ lastError \in Errors \cup {NoError}
    /\ localUsage \in -1 .. MaxAttempts - 1
    /\ delay \in Nat
    /\ reply \in Seq(Piece)
    /\ usageOut \in -1 .. MaxAttempts - 1
    /\ received \in Seq(Piece \cup {Notice})
    /\ toldOf \in 0 .. MaxAttempts - 1
    /\ completed \in BOOLEAN
    /\ lateRequest \in BOOLEAN

(***************************************************************************)
(* Once the turn is closed with on_turn_complete, the text the driver      *)
(* holds is the reply stream() returned, or that reply and the notice of   *)
(* the failure: nothing a failed attempt left is in front of it, and       *)
(* nothing of the reply is missing (lines 57-61, 86, 109-111, 136).        *)
(***************************************************************************)
ReplyIsWhatTheDriverHolds ==
    completed => received \in {reply, Append(reply, Notice)}

(***************************************************************************)
(* Whatever the driver holds comes from one attempt, the current one, in   *)
(* the order it was streamed and without a gap, however many attempts      *)
(* failed half way before (the warning at lines 125-135).                  *)
(***************************************************************************)
TextIsOfOneAttempt ==
    \A i \in DOMAIN received :
        received[i] \in {[attempt |-> attempt, place |-> i], Notice}

(***************************************************************************)
(* The loop never waits for another attempt after an error the taxonomy of *)
(* include/llm/retry_policy.hpp:9-12 calls fatal.                          *)
(***************************************************************************)
FatalErrorIsNotRetried ==
    pc = "wait" => ~Fatal(lastError)

(***************************************************************************)
(* A Retry-After header of a rate limit or of a 503 is waited for in full  *)
(* (src/llm/retry_policy.cpp:174-190, 206-210).                            *)
(***************************************************************************)
RetryAfterIsWaited ==
    (pc = "wait" /\ (lastError.http = 503 \/ (lastError.http = 429 /\ IsRateLimit(lastError))))
        => delay >= Units(lastError.retryAfter)

(***************************************************************************)
(* The usage handed to the caller was reported by the attempt whose reply  *)
(* it got, never by a failed one (lines 15-16, 87-89).                     *)
(***************************************************************************)
UsageIsOfTheReply ==
    usageOut # NoUsage =>
        /\ usageOut = attempt
        /\ completed /\ received = reply

(***************************************************************************)
(* A stop that comes at any moment is followed by at most one more         *)
(* request: the one whose check of the stop (line 17) it just missed.      *)
(***************************************************************************)
StopEndsTheRequests ==
    [][(pc = "call" /\ pc' = "stream" /\ stopRequested) => ~lateRequest]_vars

(***************************************************************************)
(* Every call returns, or stays for ever in one transfer whose data never  *)
(* brought it to see a stop: no error, retry, wait or stop blocks the      *)
(* caller, nor keeps it busy.  A server that falls silent does, stop or no *)
(* stop, as only on_data looks at it (lines 14-19, 62-64, 77, 114-121).    *)
(***************************************************************************)
Returns == <>(pc = "returned") \/ <>[](pc = "stream" /\ control = "Continue")
-----------------------------------------------------------------------------
(***************************************************************************)
(* The call implements the contract of a turn.                             *)
(***************************************************************************)
Contract == INSTANCE TurnContract WITH
    MaxRestarts <- MaxAttempts - 1,
    text <- received,
    restarts <- toldOf,
    answer <- reply,
    phase <- IF pc # "returned" THEN "open"
             ELSE IF completed THEN "complete" ELSE "abandoned",
    stopAsked <- stopRequested

ImplementsContract == Contract!Spec
=============================================================================
