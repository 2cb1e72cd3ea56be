------------------------- MODULE ChatStreamerProofs -------------------------
(***************************************************************************)
(* Proofs about one call of ChatStreamer::stream, for every number of      *)
(* attempts, every backoff configuration and every set of errors.          *)
(***************************************************************************)
EXTENDS ChatStreamer, TLAPS

\* The call is inside an attempt: its buffer is what the driver holds.
InAttempt == pc \in {"call", "stream", "failed", "wait"}

\* What the returned reply and the driver's text have to do with each other
\* while the call runs and after it.
TextInv ==
    /\ pc = "top" => received = <<>>
    /\ InAttempt => received = buf
    /\ TextIsOfOneAttempt
    /\ ReplyIsWhatTheDriverHolds

\* Nothing is handed to the caller before the call returns.
ReplyInv ==
    pc # "returned" => ~completed /\ reply = <<>> /\ usageOut = NoUsage

UsageInv ==
    /\ InAttempt => localUsage \in {NoUsage, attempt}
    /\ UsageIsOfTheReply

\* A wait has been decided by classify, and an attempt is left after it.
WaitInv ==
    pc = "wait" =>
        /\ attempt + 1 < MaxAttempts
        /\ lastError \in Errors
        /\ Decision.outcome = "Retry"
        /\ delay \in Decision.delays

StopInv == lateRequest => stopRequested /\ pc # "call"

IInv ==
    /\ TypeOK
    /\ pc = "failed" => lastError \in Errors
    /\ toldOf = attempt
    /\ TextInv
    /\ ReplyInv
    /\ UsageInv
    /\ WaitInv
    /\ StopInv
-----------------------------------------------------------------------------
\* Every sleep classify asks for is a natural number of units.
LEMMA DelaysAreNatural ==
    ASSUME NEW e, e.retryAfter \in Int, NEW a \in Nat
    PROVE  Classify(e, a).delays \subseteq Nat
<1>1. FullJitterRange(a) \subseteq Nat
  BY DEF FullJitterRange
<1>2. e.retryAfter >= 0 => RetryAfterRange(e) \subseteq Nat
  BY RetryConfigAssumption DEF RetryAfterRange, Units
<1>. QED
  BY <1>1, <1>2 DEF Classify, Retry, Stop

\* No error the taxonomy of the header calls fatal is retried.
LEMMA FatalIsStopped ==
    ASSUME NEW e, NEW a, Classify(e, a).outcome = "Retry"
    PROVE  ~Fatal(e)
  BY DEF Classify, Retry, Stop, Fatal, NonRetryableCodes, BillingCodes,
         RejectedStatuses, OutcomeForNonRetryableCode

\* A Retry-After of a rate limit or of a 503 is the least sleep asked for.
LEMMA RetryAfterIsTheLeastDelay ==
    ASSUME NEW e, e.retryAfter \in Int, NEW a \in Nat,
           Classify(e, a).outcome = "Retry",
           e.http = 503 \/ (e.http = 429 /\ IsRateLimit(e)),
           NEW d \in Classify(e, a).delays
    PROVE  d >= Units(e.retryAfter)
<1>1. CASE e.retryAfter >= 0
  <2>1. d \in RetryAfterRange(e)
    BY <1>1 DEF Classify, Retry, Stop, OutcomeForNonRetryableCode, TransientStatuses
  <2>. QED
    BY <2>1, <1>1, RetryConfigAssumption DEF RetryAfterRange, Units
<1>2. CASE e.retryAfter < 0
  BY <1>2, DelaysAreNatural DEF Units
<1>. QED
  BY <1>1, <1>2
-----------------------------------------------------------------------------
LEMMA InitInvariant == Init => IInv
<1>. SUFFICES ASSUME Init PROVE IInv
  OBVIOUS
<1>. USE RetryConfigAssumption DEF Init
<1>1. TypeOK
  <2>1. <<>> \in Seq(Piece) /\ <<>> \in Seq(Piece \cup {Notice})
    OBVIOUS
  <2>2. 0 \in 0 .. MaxAttempts - 1 /\ NoUsage \in -1 .. MaxAttempts - 1
    BY DEF NoUsage
  <2>. QED
    BY <2>1, <2>2 DEF TypeOK
<1>2. TextInv /\ ReplyInv /\ UsageInv /\ WaitInv /\ StopInv
  BY DEF TextInv, ReplyInv, UsageInv, WaitInv, StopInv, InAttempt, NoUsage,
         TextIsOfOneAttempt, ReplyIsWhatTheDriverHolds, UsageIsOfTheReply
<1>. QED
  BY <1>1, <1>2 DEF IInv

LEMMA StepInvariant == IInv /\ [Next]_vars => IInv'
<1>. SUFFICES ASSUME IInv, [Next]_vars PROVE IInv'
  OBVIOUS
<1>. USE RetryConfigAssumption, MaxPiecesAssumption, ErrorsAssumption
<1>. USE DEF IInv, TypeOK, NoUsage, TextInv, ReplyInv, UsageInv, StopInv, InAttempt,
         ReplyIsWhatTheDriverHolds, TextIsOfOneAttempt, UsageIsOfTheReply,
         codeVars, driverVars
<1>1. CASE RequestStop
  BY <1>1 DEF RequestStop, WaitInv, Decision
<1>2. CASE LeaveLoop
  BY <1>2 DEF LeaveLoop, ReturnNothing, WaitInv, Decision
<1>3. CASE PassStopCheck
  BY <1>3 DEF PassStopCheck, MayStart, FreshLocals, WaitInv, Decision
<1>4. CASE CallClient
  BY <1>4 DEF CallClient, WaitInv, Decision
<1>5. ASSUME NEW chunk, NEW withUsage \in BOOLEAN, OnData(chunk, withUsage)
      PROVE  IInv'
  <2>1. CASE chunk = "content"
    <3>. DEFINE piece == [attempt |-> attempt, place |-> Len(buf) + 1]
    <3>1. /\ piece \in Piece
          /\ buf' = Append(buf, piece) /\ received' = Append(received, piece)
          /\ received = buf
      BY <1>5, <2>1 DEF OnData, Piece
    <3>2. TypeOK'
      BY <1>5, <2>1, <3>1 DEF OnData
    <3>3. TextInv'
      BY <1>5, <2>1, <3>1 DEF OnData
    <3>. QED
      BY <1>5, <2>1, <3>2, <3>3 DEF OnData, WaitInv, Decision
  <2>2. CASE chunk # "content"
    BY <1>5, <2>2 DEF OnData, WaitInv, Decision
  <2>. QED
    BY <2>1, <2>2
<1>6. CASE Succeed
  BY <1>6 DEF Succeed, WaitInv, Decision
<1>7. ASSUME NEW e \in Errors, Fail(e)
      PROVE  IInv'
  BY <1>7 DEF Fail, WaitInv, Decision
<1>8. CASE Surface
  BY <1>8 DEF Surface, WaitInv, Decision, Notice
<1>9. CASE Backoff
  <2>1. delay' \in Nat
    BY <1>9, DelaysAreNatural DEF Backoff, Decision
  <2>2. WaitInv'
    BY <1>9 DEF Backoff, MustSurface, IsLastAttempt, WaitInv, Decision
  <2>. QED
    BY <1>9, <2>1, <2>2 DEF Backoff
<1>10. CASE StopDuringWait
  BY <1>10 DEF StopDuringWait, ReturnNothing, WaitInv, Decision
<1>11. CASE WaitElapses
  BY <1>11 DEF WaitElapses, NextAttempt, WaitInv, Decision
<1>12. CASE UNCHANGED vars
  BY <1>12 DEF vars, WaitInv, Decision
<1>. QED
  BY <1>1, <1>2, <1>3, <1>4, <1>5, <1>6, <1>7, <1>8, <1>9, <1>10, <1>11, <1>12
     DEF Next, Step, Transfer, Done

(***************************************************************************)
(* The strengthened invariant holds throughout every call.                 *)
(***************************************************************************)
THEOREM Invariant == Spec => []IInv
  BY InitInvariant, StepInvariant, PTL DEF Spec

(***************************************************************************)
(* The variables stay within their types: the counter of attempts is below *)
(* the configured maximum in every state of the loop.                      *)
(***************************************************************************)
THEOREM TypeCorrect == Spec => []TypeOK
  BY Invariant, PTL DEF IInv

(***************************************************************************)
(* The reply a completed call returns is the text its driver holds.        *)
(***************************************************************************)
THEOREM ReplyHeld == Spec => []ReplyIsWhatTheDriverHolds
  BY Invariant, PTL DEF IInv, TextInv

(***************************************************************************)
(* A driver never holds text of two attempts.                              *)
(***************************************************************************)
THEOREM OneAttemptHeld == Spec => []TextIsOfOneAttempt
  BY Invariant, PTL DEF IInv, TextInv


(***************************************************************************)
(* The usage returned is that of the attempt that produced the reply.      *)
(***************************************************************************)
THEOREM UsageOfReply == Spec => []UsageIsOfTheReply
  BY Invariant, PTL DEF IInv, UsageInv

(***************************************************************************)
(* No fatal error is waited on, whatever the configuration.                *)
(***************************************************************************)
THEOREM FatalNotRetried == Spec => []FatalErrorIsNotRetried
<1>1. IInv => FatalErrorIsNotRetried
  BY FatalIsStopped DEF IInv, WaitInv, FatalErrorIsNotRetried, Decision
<1>. QED
  BY <1>1, Invariant, PTL

(***************************************************************************)
(* A Retry-After of a rate limit or of a 503 is waited for in full.        *)
(***************************************************************************)
THEOREM RetryAfterWaited == Spec => []RetryAfterIsWaited
<1>1. IInv => RetryAfterIsWaited
  <2>. SUFFICES ASSUME IInv, pc = "wait",
                       lastError.http = 503 \/ (lastError.http = 429 /\ IsRateLimit(lastError))
                PROVE  delay >= Units(lastError.retryAfter)
    BY DEF RetryAfterIsWaited
  <2>1. lastError.retryAfter \in Int /\ attempt \in Nat
    BY ErrorsAssumption, RetryConfigAssumption DEF IInv, WaitInv, TypeOK
  <2>. QED
    BY <2>1, RetryAfterIsTheLeastDelay DEF IInv, WaitInv, Decision
<1>. QED
  BY <1>1, Invariant, PTL

(***************************************************************************)
(* After a stop at most one more request is sent.                          *)
(***************************************************************************)
THEOREM StopEnds == Spec => StopEndsTheRequests
<1>1. IInv /\ [Next]_vars => [(pc = "call" /\ pc' = "stream" /\ stopRequested) => ~lateRequest]_vars
  BY DEF IInv, StopInv
<1>. QED
  BY <1>1, Invariant, PTL DEF Spec, StopEndsTheRequests
-----------------------------------------------------------------------------
(***************************************************************************)
(* The call implements the contract of a turn: each step of the loop is a  *)
(* step of the contract or changes nothing a reader of the turn sees.      *)
(***************************************************************************)
THEOREM Refinement == Spec => ImplementsContract
<1>1. Init => Contract!Init
  BY DEF Init, Contract!Init
<1>2. IInv /\ [Next]_vars => [Contract!Next]_(Contract!vars)
  <2>. SUFFICES ASSUME IInv, [Next]_vars
                PROVE  [Contract!Next]_(Contract!vars)
    OBVIOUS
  <2>. USE DEF Contract!vars, Contract!Next, codeVars, driverVars
  <2>1. CASE RequestStop
    BY <2>1 DEF RequestStop, Contract!AskStop
  <2>2. CASE LeaveLoop \/ StopDuringWait
    <3>1. stopRequested
      BY <2>2, RetryConfigAssumption
         DEF LeaveLoop, MayStart, StopDuringWait, IInv, TypeOK
    <3>2. /\ pc # "returned" /\ pc' = "returned"
          /\ ~completed /\ ~completed'
          /\ UNCHANGED <<received, toldOf, reply, stopRequested>>
      BY <2>2 DEF LeaveLoop, StopDuringWait, ReturnNothing, IInv, ReplyInv
    <3>3. Contract!Abandon
      BY <3>1, <3>2 DEF Contract!Abandon
    <3>. QED
      BY <3>3
  <2>3. CASE PassStopCheck
    BY <2>3 DEF PassStopCheck
  <2>4. CASE CallClient
    BY <2>4 DEF CallClient
  <2>5. ASSUME NEW chunk, NEW withUsage, OnData(chunk, withUsage)
        PROVE  Contract!Deliver \/ UNCHANGED Contract!vars
    <3>1. CASE chunk = "content"
      <4>. DEFINE piece == [attempt |-> attempt, place |-> Len(buf) + 1]
      <4>1. piece \in Piece /\ received' = Append(received, piece)
        BY <2>5, <3>1, MaxPiecesAssumption DEF OnData, Piece, IInv, TypeOK
      <4>. QED
        BY <2>5, <3>1, <4>1 DEF OnData, Contract!Deliver
    <3>2. CASE chunk # "content"
      BY <2>5, <3>2 DEF OnData
    <3>. QED
      BY <3>1, <3>2
  <2>6. CASE Succeed
    BY <2>6 DEF Succeed, Contract!Complete, IInv, TextInv, InAttempt, ReplyInv
  <2>7. ASSUME NEW e, Fail(e)
        PROVE  UNCHANGED Contract!vars
    BY <2>7 DEF Fail
  <2>8. CASE Surface
    BY <2>8 DEF Surface, Contract!Complete, IInv, TextInv, InAttempt, ReplyInv
  <2>9. CASE Backoff
    BY <2>9 DEF Backoff
  <2>10. CASE WaitElapses
    <3>1. toldOf < MaxAttempts - 1 /\ toldOf' = toldOf + 1
      BY <2>10, RetryConfigAssumption
         DEF WaitElapses, NextAttempt, IInv, TypeOK, WaitInv
    <3>2. pc # "returned" /\ pc' # "returned"
      BY <2>10 DEF WaitElapses
    <3>3. Contract!Restart
      BY <2>10, <3>1, <3>2 DEF WaitElapses, NextAttempt, Contract!Restart
    <3>. QED
      BY <3>3
  <2>11. CASE UNCHANGED vars
    BY <2>11 DEF vars
  <2>. QED
    BY <2>1, <2>2, <2>3, <2>4, <2>5, <2>6, <2>7, <2>8, <2>9, <2>10, <2>11
       DEF Next, Step, Transfer, Done
<1>. QED
  BY <1>1, <1>2, Invariant, PTL DEF Spec, ImplementsContract, Contract!Spec
=============================================================================
