------------------------------- MODULE Consent -------------------------------
(***************************************************************************)
(* Asking the operator for leave to run a tool: CockpitConsentProvider     *)
(* (include/cockpit_consent.hpp), the queue of approvals its callback      *)
(* fills and the key that approves its front entry (src/cockpit_ui.cpp).   *)
(*                                                                         *)
(* One agent thread asks, as the cockpit runs one turn at a time; the UI   *)
(* thread answers.  A request is known by its number, the one counter_     *)
(* gave it.  mutex_ makes each of the provider's critical sections one     *)
(* step.  cockpit.approvals is a plain vector: the agent thread appends to *)
(* it under event_mutex and the UI thread reads and erases with no lock.   *)
(* An append that overlaps an erase may be lost, or undo it, or both; that *)
(* the vector stays one, without a torn or freed entry, is assumed.        *)
(***************************************************************************)
EXTENDS Naturals, Sequences

CONSTANT MaxRequests    \* bound: requests that reach the operator

ASSUME MaxRequestsAssumption == MaxRequests \in Nat

None == 0    \* no request; an empty pending_id_

VARIABLES
    autoApprove,      \* auto_approve_
    counter,          \* counter_
    pendingId,        \* pending_id_
    pendingDecision,  \* pending_decision_ : "none" or "Allow"
    approvals,        \* cockpit.approvals, the numbers of the requests
    asking,           \* the request the agent thread is blocked on, or None
    erasing,          \* the approvals as the UI thread found them, while it
                      \* handles the approve key; <<>> otherwise
    outcome,          \* what requestToolUse returned for each request
    pressed,          \* requests whose entry the operator approved
    accepted          \* those of them that were being asked at that moment

providerVars == <<counter, pendingId, pendingDecision, asking, outcome>>
operatorVars == <<erasing, pressed, accepted>>
vars == <<autoApprove, providerVars, approvals, operatorVars>>

Requests == 1 .. MaxRequests

Init ==
    /\ autoApprove \in BOOLEAN
    /\ counter = 0
    /\ pendingId = None
    /\ pendingDecision = "none"
    /\ approvals = <<>>
    /\ asking = None
    /\ erasing = <<>>
    /\ outcome = [r \in Requests |-> "open"]
    /\ pressed = {}
    /\ accepted = {}
-----------------------------------------------------------------------------
(***************************************************************************)
(* The agent thread.                                                       *)
(***************************************************************************)

\* requestToolUse returns at once when auto_approve_ is set; the caller's own
\* state is all that changes.
AutoAllowed == asking = None /\ autoApprove

\* The number is drawn, the request is made the pending one, and the callback
\* appends its entry while mutex_ is still held.
Ask ==
    /\ asking = None
    /\ ~autoApprove
    /\ counter < MaxRequests
    /\ counter' = counter + 1
    /\ asking' = counter'
    /\ pendingId' = counter'
    /\ pendingDecision' = "none"
    /\ approvals' = Append(approvals, counter')
    /\ UNCHANGED <<autoApprove, outcome, operatorVars>>

\* Mutant: a late wake-up looks at the clock and not at the decision.
GiveUpOnTheClock(decision) == "Deny"

\* What the waiter returns, woken or timed out: a decision that is there wins.
Answer(decision) == IF decision # "none" THEN decision ELSE "Deny"

\* requestToolUse returns.
Return ==
    /\ outcome' = [outcome EXCEPT ![asking] = Answer(pendingDecision)]
    /\ asking' = None
    /\ pendingId' = None
    /\ pendingDecision' = "none"
    /\ UNCHANGED <<autoApprove, counter, approvals, operatorVars>>

\* The predicate of wait_for holds when the thread has the lock.
Wake ==
    /\ asking # None
    /\ pendingDecision # "none" \/ pendingId = None
    /\ Return

\* Mutant: cv_.wait in place of cv_.wait_for.
WaitWithoutLimit == asking # None /\ pendingDecision # "none" /\ Return

\* 120 seconds have passed; a decision may have come in the last instant.
TimeOut ==
    /\ asking # None
    /\ Return
-----------------------------------------------------------------------------
(***************************************************************************)
(* The UI thread.                                                          *)
(***************************************************************************)

\* The 'm' key and the /mode commands.
SetAutoApprove ==
    /\ erasing = <<>>
    /\ autoApprove' = ~autoApprove
    /\ UNCHANGED <<providerVars, approvals, operatorVars>>

\* Mutant: whatever is pending takes the decision.
ResolveAnything(id) == pendingDecision' = IF pendingId # None THEN "Allow" ELSE pendingDecision

\* resolve(approval_id, Allow)
Resolve(id) ==
    pendingDecision' = IF pendingId = id THEN "Allow" ELSE pendingDecision

\* The approve key: the front entry is copied and resolved ...
PressApprove ==
    /\ erasing = <<>>
    /\ approvals # <<>>
    /\ erasing' = approvals
    /\ LET id == Head(approvals)
       IN  /\ Resolve(id)
           /\ pressed' = pressed \cup {id}
           /\ accepted' = IF asking = id THEN accepted \cup {id} ELSE accepted
    /\ UNCHANGED <<autoApprove, counter, pendingId, asking, outcome, approvals>>

\* What an append made during the erase leaves: both took effect, the append
\* is lost, the erase is lost, both are.
Overlapped == {Tail(approvals), Tail(erasing), approvals, erasing}

\* ... and erased.
EraseApproved ==
    /\ erasing # <<>>
    /\ approvals' \in IF approvals = erasing THEN {Tail(approvals)} ELSE Overlapped
    /\ erasing' = <<>>
    /\ UNCHANGED <<autoApprove, providerVars, pressed, accepted>>
-----------------------------------------------------------------------------
AgentThread == Ask \/ Wake \/ TimeOut
UIThread == SetAutoApprove \/ PressApprove \/ EraseApproved

Next == AgentThread \/ UIThread

(***************************************************************************)
(* The wait has a time limit, and the UI thread finishes a key's handler.  *)
(* Nothing makes the operator press a key.                                 *)
(***************************************************************************)
Spec ==
    /\ Init /\ [][Next]_vars
    /\ WF_vars(TimeOut)
    /\ WF_vars(EraseApproved)
-----------------------------------------------------------------------------
TypeOK ==
    /\ autoApprove \in BOOLEAN
    /\ counter \in 0 .. MaxRequests
    /\ pendingId \in 0 .. MaxRequests
    /\ pendingDecision \in {"none", "Allow"}
    /\ approvals \in Seq(Requests)
    /\ asking \in 0 .. MaxRequests
    /\ erasing \in Seq(Requests)
    /\ outcome \in [Requests -> {"open", "Allow", "Deny"}]
    /\ pressed \subseteq Requests
    /\ accepted \subseteq Requests

(***************************************************************************)
(* A tool is allowed only when the operator approved that very request:    *)
(* no approval of an entry a timeout left behind, and no decision meant    *)
(* for an earlier request, lets a later one through (lines 45-64, 73-79).  *)
(***************************************************************************)
AllowIsApproved ==
    \A r \in Requests : outcome[r] = "Allow" => r \in pressed

(***************************************************************************)
(* An approval given while the request waits is never turned into a        *)
(* refusal, though the time limit may strike between resolve() and the     *)
(* moment the waiter has the lock again (lines 56-69).                     *)
(***************************************************************************)
AcceptedIsNotDenied ==
    \A r \in accepted : outcome[r] # "Deny"

(***************************************************************************)
(* The agent thread does not wait for ever: every request is answered.     *)
(***************************************************************************)
EveryRequestIsAnswered ==
    \A r \in Requests : (asking = r) ~> (outcome[r] # "open")
-----------------------------------------------------------------------------
(***************************************************************************)
(* What the comments and the help text say and the code does not do.       *)
(***************************************************************************)

(* "It should post the request to the cockpit approval queue and return"   *)
(* (include/cockpit_consent.hpp:18-19): while a request waits and no key   *)
(* is being handled, its entry is in the queue or has been approved.       *)
WaitingIsQueued ==
    (asking # None /\ erasing = <<>>) =>
        \/ \E i \in DOMAIN approvals : approvals[i] = asking
        \/ asking \in pressed

(* "a          Approve next pending action" (src/cockpit_ui.cpp:1060): the *)
(* key gives a waiting request its decision.                               *)
ApproveKeyApprovesThePending ==
    [][(PressApprove /\ asking # None) => pendingDecision' = "Allow"]_vars
=============================================================================
