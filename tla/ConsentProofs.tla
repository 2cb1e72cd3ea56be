---------------------------- MODULE ConsentProofs ----------------------------
(***************************************************************************)
(* Proofs about the consent of the operator, for every number of requests. *)
(***************************************************************************)
EXTENDS Consent, TLAPS

\* The provider's fields speak of the request the agent thread waits on.
PendingInv ==
    /\ asking = None => pendingId = None /\ pendingDecision = "none"
    /\ asking # None => pendingId = asking /\ asking = counter

\* A decision, pending or returned, is the operator's and for its request.
DecisionInv ==
    /\ accepted \subseteq pressed
    /\ pendingDecision = "Allow" => asking \in accepted
    /\ \A r \in accepted :
          \/ outcome[r] = "Allow"
          \/ r = asking /\ pendingDecision = "Allow" /\ outcome[r] = "open"
    /\ \A r \in Requests :
          /\ outcome[r] = "Allow" => r \in accepted
          /\ r > counter => outcome[r] = "open" /\ r \notin pressed
          /\ r = asking => outcome[r] = "open"

\* What is queued, or was when the key was pressed, are requests made.
QueueInv ==
    /\ \A i \in 1 .. Len(approvals) : approvals[i] <= counter
    /\ \A i \in 1 .. Len(erasing) : erasing[i] <= counter
    /\ erasing # <<>> => approvals # <<>>

IInv == TypeOK /\ PendingInv /\ DecisionInv /\ QueueInv
-----------------------------------------------------------------------------
LEMMA InitInvariant == Init => IInv
<1>. SUFFICES ASSUME Init PROVE IInv
  OBVIOUS
<1>1. TypeOK
  BY MaxRequestsAssumption DEF Init, TypeOK, Requests, None
<1>2. PendingInv /\ DecisionInv
  BY MaxRequestsAssumption DEF Init, PendingInv, DecisionInv, Requests, None
<1>3. QueueInv
  BY DEF Init, QueueInv
<1>. QED
  BY <1>1, <1>2, <1>3 DEF IInv

LEMMA AskKeeps == IInv /\ Ask => IInv'
<1>. SUFFICES ASSUME IInv, Ask PROVE IInv'
  OBVIOUS
<1>. USE MaxRequestsAssumption DEF Ask, IInv, operatorVars
<1>1. counter' \in Requests /\ counter' = counter + 1 /\ counter \in Nat
  BY DEF TypeOK, Requests
<1>2. TypeOK'
  BY <1>1 DEF TypeOK, Requests
<1>3. PendingInv'
  BY <1>1 DEF PendingInv, None, Requests
<1>4. DecisionInv'
  BY <1>1 DEF DecisionInv, PendingInv, TypeOK, None, Requests
<1>5. /\ Len(approvals') = Len(approvals) + 1
      /\ approvals'[Len(approvals) + 1] = counter'
      /\ \A i \in 1 .. Len(approvals) : approvals'[i] = approvals[i]
      /\ Len(approvals) \in Nat
  BY DEF TypeOK
<1>6. \A i \in 1 .. Len(approvals) : approvals[i] \in Nat
  BY DEF TypeOK, Requests
<1>7. \A i \in 1 .. Len(erasing) : erasing[i] \in Nat
  BY DEF TypeOK, Requests
<1>8. QueueInv'
  BY <1>1, <1>5, <1>6, <1>7 DEF QueueInv
<1>. QED
  BY <1>2, <1>3, <1>4, <1>8

LEMMA ReturnKeeps == IInv /\ asking # None /\ Return => IInv'
<1>. SUFFICES ASSUME IInv, asking # None, Return PROVE IInv'
  OBVIOUS
<1>. USE DEF Return, IInv, operatorVars
<1>1. asking \in Requests /\ asking = counter
  BY DEF TypeOK, PendingInv, Requests, None
<1>2. TypeOK'
  BY <1>1, MaxRequestsAssumption DEF TypeOK, Answer, None
<1>3. PendingInv'
  BY DEF PendingInv, None
<1>4. DecisionInv'
  <2>1. \A r \in Requests : outcome'[r] = IF r = asking THEN Answer(pendingDecision)
                                                      ELSE outcome[r]
    BY <1>1 DEF TypeOK
  <2>2. \A r \in accepted : outcome'[r] = "Allow"
    BY <1>1, <2>1 DEF DecisionInv, TypeOK, Answer
  <2>3. \A r \in Requests : outcome'[r] = "Allow" => r \in accepted
    BY <1>1, <2>1 DEF DecisionInv, TypeOK, Answer
  <2>4. \A r \in Requests : r > counter => outcome'[r] = "open" /\ r \notin pressed
    BY <1>1, <2>1 DEF DecisionInv, Requests
  <2>. QED
    BY <2>2, <2>3, <2>4 DEF DecisionInv, Requests, None
<1>5. QueueInv'
  BY DEF QueueInv
<1>. QED
  BY <1>2, <1>3, <1>4, <1>5

LEMMA PressKeeps == IInv /\ PressApprove => IInv'
<1>. SUFFICES ASSUME IInv, PressApprove PROVE IInv'
  OBVIOUS
<1>. USE DEF PressApprove, IInv
<1>1. /\ Head(approvals) = approvals[1] /\ Len(approvals) \in Nat /\ Len(approvals) >= 1
      /\ approvals[1] \in Requests /\ approvals[1] <= counter
  BY DEF TypeOK, QueueInv
<1>2. TypeOK'
  BY <1>1 DEF TypeOK, Resolve
<1>3. PendingInv'
  BY <1>1 DEF PendingInv, Resolve, None, Requests
<1>4. DecisionInv'
  <2>1. asking = approvals[1] <=> pendingId = approvals[1]
    BY <1>1 DEF PendingInv, None, Requests
  <2>2. accepted' \subseteq pressed'
    BY <1>1 DEF DecisionInv
  <2>. QED
    BY <1>1, <2>1, <2>2 DEF DecisionInv, Resolve, TypeOK, PendingInv, None, Requests
<1>5. QueueInv'
  BY DEF QueueInv
<1>. QED
  BY <1>2, <1>3, <1>4, <1>5

LEMMA EraseKeeps == IInv /\ EraseApproved => IInv'
<1>. SUFFICES ASSUME IInv, EraseApproved PROVE IInv'
  OBVIOUS
<1>. USE DEF EraseApproved, IInv, providerVars
<1>1. /\ approvals \in Seq(Requests) /\ approvals # <<>>
      /\ erasing \in Seq(Requests) /\ erasing # <<>>
  BY DEF TypeOK, QueueInv
<1>2. approvals' \in {Tail(approvals), Tail(erasing), approvals, erasing}
  BY DEF Overlapped
<1>3. TypeOK'
  <2>1. Tail(approvals) \in Seq(Requests) /\ Tail(erasing) \in Seq(Requests)
    BY <1>1
  <2>2. approvals' \in Seq(Requests)
    BY <1>1, <1>2, <2>1, Zenon
  <2>. QED
    BY <2>2 DEF TypeOK
<1>4. PendingInv' /\ DecisionInv'
  BY DEF PendingInv, DecisionInv
<1>5. \A i \in 1 .. Len(approvals') : approvals'[i] <= counter
  <2>1. CASE approvals' = Tail(approvals)
    BY <1>1, <2>1 DEF QueueInv
  <2>2. CASE approvals' = Tail(erasing)
    BY <1>1, <2>2 DEF QueueInv
  <2>3. CASE approvals' \in {approvals, erasing}
    BY <2>3 DEF QueueInv
  <2>. QED
    BY <1>2, <2>1, <2>2, <2>3
<1>6. QueueInv'
  BY <1>5 DEF QueueInv
<1>. QED
  BY <1>3, <1>4, <1>6

LEMMA StepInvariant == IInv /\ [Next]_vars => IInv'
<1>. SUFFICES ASSUME IInv, [Next]_vars PROVE IInv'
  OBVIOUS
<1>1. CASE Ask
  BY <1>1, AskKeeps
<1>2. CASE Wake \/ TimeOut
  BY <1>2, ReturnKeeps DEF Wake, TimeOut
<1>3. CASE SetAutoApprove
  BY <1>3 DEF SetAutoApprove, IInv, TypeOK, PendingInv, DecisionInv, QueueInv,
              providerVars, operatorVars
<1>4. CASE PressApprove
  BY <1>4, PressKeeps
<1>5. CASE EraseApproved
  BY <1>5, EraseKeeps
<1>6. CASE UNCHANGED vars
  BY <1>6 DEF vars, IInv, TypeOK, PendingInv, DecisionInv, QueueInv,
              providerVars, operatorVars
<1>. QED
  BY <1>1, <1>2, <1>3, <1>4, <1>5, <1>6 DEF Next, AgentThread, UIThread

(***************************************************************************)
(* The strengthened invariant holds in every state.                        *)
(***************************************************************************)
THEOREM Invariant == Spec => []IInv
  BY InitInvariant, StepInvariant, PTL DEF Spec

(***************************************************************************)
(* The variables stay within their types.                                  *)
(***************************************************************************)
THEOREM TypeCorrect == Spec => []TypeOK
  BY Invariant, PTL DEF IInv

(***************************************************************************)
(* No tool runs on the strength of an approval given to another request.   *)
(***************************************************************************)
THEOREM AllowNeedsApproval == Spec => []AllowIsApproved
<1>1. IInv => AllowIsApproved
  BY DEF IInv, DecisionInv, AllowIsApproved
<1>. QED
  BY <1>1, Invariant, PTL

(***************************************************************************)
(* An approval that came in time is never answered with a refusal.         *)
(***************************************************************************)
THEOREM AcceptedStands == Spec => []AcceptedIsNotDenied
<1>1. IInv => AcceptedIsNotDenied
  BY DEF IInv, DecisionInv, AcceptedIsNotDenied
<1>. QED
  BY <1>1, Invariant, PTL
=============================================================================
