------------------------------- MODULE Cockpit -------------------------------
(***************************************************************************)
(* The threads of the cockpit, runCockpitUi (src/cockpit_ui.cpp), and the  *)
(* way of an event from the agent thread to the screen: the driver posts   *)
(* it on the bus, the bus thread moves it to pending_events, and the UI    *)
(* thread's handler of Event::Custom handles all that are there.  Consent, *)
(* with the same variables, is the way of a question from the agent thread *)
(* to the operator and back.                                               *)
(*                                                                         *)
(* A turn is what AgentLoop and ChatStreamer let the driver see of it:     *)
(* pieces of text, retries, a completion, a script's result, in rounds.    *)
(* An event is known by its number in the order of the posts, and by the   *)
(* turn it came from; the code knows neither, every event is "main"'s.     *)
(***************************************************************************)
EXTENDS Naturals, Sequences, FiniteSets

CONSTANTS
    MaxTurns,      \* bound: turns started
    MaxRounds,     \* bound: rounds and retries beyond a turn's first request, in all
    MaxPieces,     \* bound: pieces of text of one attempt
    MaxRequests    \* bound of Consent: requests that reach the operator

ASSUME CockpitAssumption ==
    /\ MaxTurns \in Nat /\ MaxRounds \in Nat
    /\ MaxPieces \in Nat /\ MaxRequests \in Nat

VARIABLES
    ui,             \* loop, joining (a turn, in start_agent_turn), leaving,
                    \* quitting, over
    running, busy,  \* running, agent_busy
    turns,          \* turns started: agent_thread holds the last
    thread,         \* where each turn's thread is
    driver,         \* active_driver: the turn it belongs to, 0 when null
    stopped,        \* turns whose driver was asked to stop
    rounds,         \* observed: rounds and retries begun
    pieces,         \* of the attempt that runs
    bus,            \* the queue of event_bus
    busThread,      \* check (the loop's condition), move, ended
    pending,        \* pending_events
    conversation,   \* cockpit.conversation
    posted, handled              \* observed: events posted and handled

VARIABLES autoApprove, counter, pendingId, pendingDecision, approvals, asking,
          erasing, outcome, pressed, accepted

Approval == INSTANCE Consent

consentVars == <<autoApprove, counter, pendingId, pendingDecision, approvals, asking,
                 erasing, outcome, pressed, accepted>>
uiVars == <<ui, running, turns, conversation, handled>>
turnVars == <<thread, rounds, pieces>>
sharedVars == <<busy, driver, stopped>>
busVars == <<bus, busThread, pending, posted>>
vars == <<uiVars, turnVars, sharedVars, busVars, consentVars>>

Turns == 1 .. MaxTurns

\* A turn runs until run_step returns; its thread goes on for two stores.
Running(t) == thread[t] \in {"stream", "answered", "script"}
Alive(t) == thread[t] \notin {"none", "ended"}

Init ==
    /\ ui = "loop" /\ running = TRUE /\ busy = FALSE
    /\ turns = 0
    /\ thread = [t \in Turns |-> "none"]
    /\ driver = 0 /\ stopped = {}
    /\ rounds = 0 /\ pieces = 0
    /\ bus = <<>> /\ busThread = "check" /\ pending = <<>>
    /\ conversation = <<>>
    /\ posted = 0 /\ handled = 0
    /\ Approval!Init
-----------------------------------------------------------------------------
(***************************************************************************)
(* The agent thread of turn t.                                             *)
(***************************************************************************)
Post(kind, t) ==
    /\ posted' = posted + 1
    /\ bus' = Append(bus, [kind |-> kind, turn |-> t, no |-> posted'])
    /\ UNCHANGED <<busThread, pending>>

Goto(t, place) == thread' = [thread EXCEPT ![t] = place]

OnToken(t) ==
    /\ thread[t] = "stream"
    /\ pieces < MaxPieces
    /\ pieces' = pieces + 1
    /\ Post("token", t)
    /\ UNCHANGED <<uiVars, thread, rounds, sharedVars, consentVars>>

OnRetry(t) ==
    /\ thread[t] = "stream"
    /\ rounds < MaxRounds
    /\ rounds' = rounds + 1
    /\ pieces' = 0
    /\ Post("retry", t)
    /\ UNCHANGED <<uiVars, thread, sharedVars, consentVars>>

OnTurnComplete(t) ==
    /\ thread[t] = "stream"
    /\ Goto(t, "answered")
    /\ Post("complete", t)
    /\ UNCHANGED <<uiVars, rounds, pieces, sharedVars, consentVars>>

\* The reply holds a script.
RunScript(t) ==
    /\ thread[t] = "answered"
    /\ Goto(t, "script")
    /\ UNCHANGED <<uiVars, rounds, pieces, sharedVars, busVars, consentVars>>

AskOperator(t) ==
    /\ thread[t] = "script"
    /\ Approval!Ask
    /\ UNCHANGED <<uiVars, turnVars, sharedVars, busVars>>

\* The script's result, and a new round unless the turn is to end.
OnToolResult(t) ==
    /\ thread[t] = "script"
    /\ asking = 0
    /\ Post("tool", t)
    /\ \/ /\ t \notin stopped
          /\ rounds < MaxRounds
          /\ rounds' = rounds + 1 /\ pieces' = 0
          /\ Goto(t, "stream")
       \/ Goto(t, "reset") /\ UNCHANGED <<rounds, pieces>>
    /\ UNCHANGED <<uiVars, sharedVars, consentVars>>

\* run_step returns: after a reply without a script, or cut short by a stop.
ReturnFromRunStep(t) ==
    /\ \/ thread[t] = "answered"
       \/ thread[t] = "stream" /\ t \in stopped
    /\ Goto(t, "reset")
    /\ UNCHANGED <<uiVars, rounds, pieces, sharedVars, busVars, consentVars>>

\* run_step throws.
PostAgentError(t) ==
    /\ Running(t)
    /\ asking = 0
    /\ Goto(t, "reset")
    /\ Post("error", t)
    /\ UNCHANGED <<uiVars, rounds, pieces, sharedVars, consentVars>>

ResetDriver(t) ==
    /\ thread[t] = "reset"
    /\ driver' = 0
    /\ Goto(t, "clear")
    /\ UNCHANGED <<uiVars, rounds, pieces, busy, stopped, busVars, consentVars>>

\* Mutant: clearing agent_busy is left to the handlers of the events.
EndWithoutClearing(t) ==
    /\ thread[t] = "clear"
    /\ Goto(t, "ended")
    /\ UNCHANGED <<uiVars, rounds, pieces, sharedVars, busVars, consentVars>>

ClearBusy(t) ==
    /\ thread[t] = "clear"
    /\ busy' = FALSE
    /\ Goto(t, "ended")
    /\ UNCHANGED <<uiVars, rounds, pieces, driver, stopped, busVars, consentVars>>
-----------------------------------------------------------------------------
(***************************************************************************)
(* The bus thread.                                                         *)
(***************************************************************************)
CheckRunning ==
    /\ busThread = "check"
    /\ busThread' = IF running THEN "move" ELSE "ended"
    /\ UNCHANGED <<uiVars, turnVars, sharedVars, bus, pending, posted, consentVars>>

\* Mutant: a container that gives the newest first.
MoveNewest ==
    /\ busThread = "move"
    /\ bus # <<>>
    /\ pending' = Append(pending, bus[Len(bus)])
    /\ bus' = SubSeq(bus, 1, Len(bus) - 1)
    /\ busThread' = "check"
    /\ UNCHANGED <<uiVars, turnVars, sharedVars, posted, consentVars>>

\* wait_next, and the append to pending_events: nobody sees what lies between.
MoveEvent ==
    /\ busThread = "move"
    /\ bus # <<>>
    /\ pending' = Append(pending, Head(bus))
    /\ bus' = Tail(bus)
    /\ busThread' = "check"
    /\ UNCHANGED <<uiVars, turnVars, sharedVars, posted, consentVars>>
-----------------------------------------------------------------------------
(***************************************************************************)
(* The UI thread.  It is in one event's handler at a time.                 *)
(***************************************************************************)
UiFree == ui = "loop" /\ erasing = <<>>

\* submit_input, up to the join of the thread of the turn before.  While
\* agent_busy is set the input is dropped and nothing else changes.
Submit ==
    /\ UiFree
    /\ ~busy
    /\ turns < MaxTurns
    /\ ui' = "joining"
    /\ UNCHANGED <<running, turns, conversation, handled>>
    /\ UNCHANGED <<turnVars, sharedVars, busVars, consentVars>>

Item(role, agent, turn) == [role |-> role, agent |-> agent, turn |-> turn, text |-> <<>>]

BeginTurn ==
    /\ ui = "joining"
    /\ ui' = "loop"
    /\ busy' = TRUE
    /\ turns' = turns + 1
    /\ conversation' = conversation \o <<Item("User", "", turns'), Item("Assistant", "", turns')>>
    /\ driver' = turns'
    /\ thread' = [thread EXCEPT ![turns'] = "stream"]
    /\ pieces' = 0
    /\ UNCHANGED <<running, handled, stopped, rounds, busVars, consentVars>>

\* Mutant: the thread of the turn before is left to itself.
StartWithoutJoin == BeginTurn

\* The rest of start_agent_turn, once the join returns.
JoinAndStart ==
    /\ turns > 0 => thread[turns] = "ended"
    /\ BeginTurn

Last == conversation[Len(conversation)]

\* Mutant: the text goes to the agent's latest bubble, wherever it is.
LatestBubble(ev) ==
    LET mine == {i \in DOMAIN conversation : conversation[i].agent = "main"}
        i == IF mine = {} THEN Len(conversation)
             ELSE CHOOSE j \in mine : \A k \in mine : k <= j
    IN  [conversation EXCEPT ![i].text = Append(@, ev), ![i].agent = "main"]

\* A piece goes to the last item when that is an answer, or to a new one.
HandleToken(ev) ==
    IF conversation # <<>> /\ Last.role = "Assistant"
    THEN [conversation EXCEPT ![Len(conversation)] =
             [Last EXCEPT !.agent = "main", !.text = Append(Last.text, ev)]]
    ELSE Append(conversation, [role |-> "Assistant", agent |-> "main",
                               turn |-> ev.turn, text |-> <<ev>>])

\* clearRetryTarget: the latest answer that bears the agent's name.
HandleRetry ==
    LET mine == {i \in DOMAIN conversation :
                    conversation[i].role = "Assistant" /\ conversation[i].agent = "main"}
    IN  IF mine = {} THEN conversation
        ELSE LET latest == CHOOSE i \in mine : \A j \in mine : j <= i
             IN  [conversation EXCEPT ![latest].text = <<>>]

\* Event::Custom.  The handler takes all that is pending; to take it event by
\* event adds no behaviour, as the bus thread may bring them one by one.  An
\* error clears agent_busy, whose turn's it is.
HandleEvent ==
    /\ UiFree
    /\ pending # <<>>
    /\ pending' = Tail(pending)
    /\ handled' = handled + 1
    /\ LET ev == Head(pending)
       IN  /\ conversation' =
                 CASE ev.kind = "token" -> HandleToken(ev)
                   [] ev.kind = "retry" -> HandleRetry
                   [] ev.kind = "tool" -> Append(conversation, Item("Tool", "", ev.turn))
                   [] OTHER -> conversation
           /\ busy' = (busy /\ ev.kind # "error")
    /\ UNCHANGED <<ui, running, turns, turnVars, driver, stopped, bus, busThread,
                   posted, consentVars>>

\* The keys that answer the operator's part of Consent.
AnswerKey ==
    /\ ui = "loop"
    /\ Approval!PressApprove \/ Approval!SetAutoApprove
    /\ UNCHANGED <<uiVars, turnVars, sharedVars, busVars>>

FinishAnswerKey ==
    /\ Approval!EraseApproved
    /\ UNCHANGED <<uiVars, turnVars, sharedVars, busVars>>

\* Ctrl-C: request_shutdown.  The loop of the screen ends some events later.
RequestShutdown ==
    /\ UiFree
    /\ running
    /\ running' = FALSE
    /\ stopped' = IF driver # 0 THEN stopped \cup {driver} ELSE stopped
    /\ UNCHANGED <<ui, turns, conversation, handled>>
    /\ UNCHANGED <<turnVars, busy, driver, busVars, consentVars>>

\* The loop returns; the request_shutdown after it finds running false.
LeaveLoop ==
    /\ UiFree
    /\ ~running
    /\ ui' = "leaving"
    /\ UNCHANGED <<running, turns, conversation, handled>>
    /\ UNCHANGED <<turnVars, sharedVars, busVars, consentVars>>

\* Mutant: the bus thread is joined and nothing wakes it.
JoinAndWait ==
    /\ ui = "leaving"
    /\ turns > 0 => thread[turns] = "ended"
    /\ ui' = "quitting"
    /\ UNCHANGED <<running, turns, conversation, handled>>
    /\ UNCHANGED <<turnVars, sharedVars, busVars, consentVars>>

\* The agent thread is joined and an event posted to wake the bus thread.
JoinAndQuit ==
    /\ ui = "leaving"
    /\ turns > 0 => thread[turns] = "ended"
    /\ ui' = "quitting"
    /\ Post("quit", turns)
    /\ UNCHANGED <<running, turns, conversation, handled>>
    /\ UNCHANGED <<turnVars, sharedVars, consentVars>>

JoinBusThread ==
    /\ ui = "quitting"
    /\ busThread = "ended"
    /\ ui' = "over"
    /\ UNCHANGED <<running, turns, conversation, handled>>
    /\ UNCHANGED <<turnVars, sharedVars, busVars, consentVars>>
-----------------------------------------------------------------------------
\* The wait of Consent ends, in the agent thread.
AnswerWaiting ==
    /\ Approval!Wake \/ Approval!TimeOut
    /\ UNCHANGED <<uiVars, turnVars, sharedVars, busVars>>

AgentThread(t) ==
    \/ OnToken(t) \/ OnRetry(t) \/ OnTurnComplete(t)
    \/ RunScript(t) \/ AskOperator(t) \/ OnToolResult(t)
    \/ ReturnFromRunStep(t) \/ PostAgentError(t)
    \/ ResetDriver(t) \/ ClearBusy(t)

BusThread == CheckRunning \/ MoveEvent

\* What the UI thread does without the operator.
UiThread ==
    \/ JoinAndStart \/ HandleEvent \/ FinishAnswerKey
    \/ LeaveLoop \/ JoinAndQuit \/ JoinBusThread

Operator == Submit \/ AnswerKey \/ RequestShutdown

Next ==
    \/ \E t \in Turns : AgentThread(t)
    \/ AnswerWaiting
    \/ BusThread
    \/ UiThread
    \/ Operator

\* The turn waits for a server, or runs a script that waits for no operator:
\* neither has a limit of its own.
InRequest == turns > 0 /\ thread[turns] = "stream"
InScript == turns > 0 /\ thread[turns] = "script" /\ asking = 0

(***************************************************************************)
(* Every thread runs.  The agent thread goes on wherever its own code      *)
(* decides, which is neither in a request (the client is given no limit on *)
(* a transfer, line 192) nor in a script.  The wait for the operator has   *)
(* its time limit.  Nothing makes the operator type.                       *)
(***************************************************************************)
Spec ==
    /\ Init /\ [][Next]_vars
    /\ WF_vars(\E t \in Turns : AgentThread(t) /\ ~InRequest /\ ~InScript)
    /\ WF_vars(Approval!TimeOut /\ UNCHANGED <<uiVars, turnVars, sharedVars, busVars>>)
    /\ WF_vars(BusThread)
    /\ WF_vars(UiThread)
-----------------------------------------------------------------------------
Kinds == {"token", "retry", "complete", "tool", "error", "quit"}
Events == [kind : Kinds, turn : 0 .. MaxTurns, no : Nat]
Items == [role : {"User", "Assistant", "Tool"}, agent : {"", "main"},
          turn : 0 .. MaxTurns, text : Seq(Events)]

TypeOK ==
    /\ ui \in {"loop", "joining", "leaving", "quitting", "over"}
    /\ running \in BOOLEAN /\ busy \in BOOLEAN
    /\ turns \in 0 .. MaxTurns
    /\ thread \in [Turns -> {"none", "stream", "answered", "script", "reset", "clear", "ended"}]
    /\ driver \in 0 .. MaxTurns /\ stopped \subseteq Turns
    /\ rounds \in Nat /\ pieces \in Nat
    /\ bus \in Seq(Events) /\ pending \in Seq(Events)
    /\ busThread \in {"check", "move", "ended"}
    /\ conversation \in Seq(Items)
    /\ posted \in Nat /\ handled \in Nat
    /\ Approval!TypeOK

(***************************************************************************)
(* One turn at a time, though agent_busy may be clear while a turn runs    *)
(* (the handler of an earlier turn's EvAgentError clears it, line 873):    *)
(* the join of lines 285-288 keeps two threads from driving one Agent.     *)
(***************************************************************************)
OneTurnAtATime == \A t, u \in Turns : (Alive(t) /\ Alive(u)) => t = u

(***************************************************************************)
(* Every event posted has been handled or is on its way, once and in the   *)
(* order of the posts, through the two queues and over the end of a turn   *)
(* and the start of the next (lines 411-420 and 768-772).                  *)
(***************************************************************************)
EventsKeepTheirOrder ==
    LET way == pending \o bus
    IN  /\ handled + Len(way) = posted
        /\ \A i \in DOMAIN way : way[i].no = handled + i

(***************************************************************************)
(* Text on the screen stands below the question it answers, also when it   *)
(* arrives after the next question was asked (lines 291-294 and 777-791).  *)
(***************************************************************************)
AnswerFollowsItsQuestion ==
    \A i \in DOMAIN conversation : \A k \in DOMAIN conversation[i].text :
        \E j \in 1 .. i - 1 :
            /\ conversation[j].role = "User"
            /\ conversation[j].turn = conversation[i].text[k].turn

(***************************************************************************)
(* Ctrl-C asks the turn that is running to stop: active_driver is that     *)
(* turn's and no other's, however the ends of turns and their starts fall  *)
(* (lines 300-303, 310-314, 1094-1101).                                    *)
(***************************************************************************)
ShutdownStopsTheTurn ==
    [][RequestShutdown => \A t \in Turns : Running(t) => t \in stopped']_vars

(***************************************************************************)
(* After Ctrl-C the cockpit ends: the joins of the agent thread and of the *)
(* bus thread return (lines 1114-1122), though the agent thread may be     *)
(* waiting for an answer only the UI thread can give, and the bus thread   *)
(* for an event nobody else will post.  But a request that has fallen      *)
(* silent sees no stop, and a script may not end: then the join waits too. *)
(***************************************************************************)
ShutdownCompletes == ~running ~> (ui = "over" \/ []InRequest \/ []InScript)

(* The cockpit takes input again after every turn, however it ended        *)
(* (lines 304-315), but for one that never leaves a request or a script.   *)
BusyEnds == busy ~> (~busy \/ []InRequest \/ []InScript)
=============================================================================
