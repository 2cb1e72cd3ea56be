---------------------------- MODULE CockpitProofs ----------------------------
(***************************************************************************)
(* Proofs about the threads of the cockpit, for any number of turns,       *)
(* rounds, pieces and requests.                                            *)
(***************************************************************************)
EXTENDS Cockpit, SequenceTheorems, TLAPS

Places == {"none", "stream", "answered", "script", "reset", "clear", "ended"}

\* Only the last turn's thread may be alive, and while it runs the turn,
\* active_driver is its own.
TurnInv ==
    /\ turns \in 0 .. MaxTurns
    /\ thread \in [Turns -> Places]
    /\ \A t \in Turns : Alive(t) => t = turns
    /\ \A t \in Turns : Running(t) => driver = t

turnState == <<turns, thread, driver>>

\* What a step of turn t's thread may do to the turns.
ThreadMoves(t) ==
    /\ Alive(t)
    /\ \E place \in Places \ {"none"} :
          /\ thread' = [thread EXCEPT ![t] = place]
          /\ place \in {"stream", "answered", "script"} => Running(t) /\ driver' = driver
    /\ turns' = turns

LEMMA AgentThreadStep ==
    ASSUME TurnInv, NEW t \in Turns, AgentThread(t)
    PROVE  UNCHANGED turnState \/ ThreadMoves(t)
<1>1. CASE OnToken(t) \/ OnRetry(t) \/ AskOperator(t)
  BY <1>1 DEF OnToken, OnRetry, AskOperator, uiVars, sharedVars, turnVars, turnState
<1>2. CASE OnTurnComplete(t) \/ RunScript(t)
  BY <1>2 DEF OnTurnComplete, RunScript, Goto, ThreadMoves, Places, Alive, Running,
              uiVars, sharedVars
<1>3. CASE OnToolResult(t)
  BY <1>3 DEF OnToolResult, Goto, ThreadMoves, Places, Alive, Running, uiVars, sharedVars
<1>4. CASE ReturnFromRunStep(t) \/ PostAgentError(t)
  BY <1>4 DEF ReturnFromRunStep, PostAgentError, Goto, ThreadMoves, Places, Alive,
              Running, uiVars, sharedVars
<1>5. CASE ResetDriver(t) \/ ClearBusy(t)
  BY <1>5 DEF ResetDriver, ClearBusy, Goto, ThreadMoves, Places, Alive, Running, uiVars
<1>. QED
  BY <1>1, <1>2, <1>3, <1>4, <1>5 DEF AgentThread

\* A turn that waits to be started is within the bound.
JoinInv == ui = "joining" => turns < MaxTurns

LEMMA OtherStep ==
    ASSUME [Next]_vars, \A t \in Turns : ~AgentThread(t), ~JoinAndStart
    PROVE  /\ UNCHANGED turnState
           /\ ui' = "joining" => ui = "joining" \/ turns < MaxTurns
<1>1. CASE AnswerWaiting
  BY <1>1 DEF AnswerWaiting, uiVars, turnVars, sharedVars, turnState
<1>2. CASE BusThread
  BY <1>2 DEF BusThread, CheckRunning, MoveEvent, uiVars, turnVars, sharedVars, turnState
<1>3. CASE HandleEvent \/ FinishAnswerKey
  BY <1>3 DEF HandleEvent, FinishAnswerKey, uiVars, turnVars, sharedVars, turnState
<1>4. CASE LeaveLoop \/ JoinAndQuit \/ JoinBusThread
  BY <1>4 DEF LeaveLoop, JoinAndQuit, JoinBusThread, turnVars, sharedVars, turnState
<1>5. CASE Operator
  BY <1>5 DEF Operator, Submit, AnswerKey, RequestShutdown, uiVars, turnVars,
              sharedVars, turnState
<1>6. CASE UNCHANGED vars
  BY <1>6 DEF vars, uiVars, turnVars, sharedVars, turnState
<1>. QED
  BY <1>1, <1>2, <1>3, <1>4, <1>5, <1>6 DEF Next, UiThread

LEMMA AgentThreadKeepsUi ==
    ASSUME NEW t \in Turns, AgentThread(t)
    PROVE  ui' = ui /\ turns' = turns
BY DEF AgentThread, OnToken, OnRetry, OnTurnComplete, RunScript, AskOperator,
       OnToolResult, ReturnFromRunStep, PostAgentError, ResetDriver, ClearBusy, uiVars

LEMMA JoinAndStartKeeps == TurnInv /\ JoinInv /\ JoinAndStart => TurnInv' /\ JoinInv'
<1>. SUFFICES ASSUME TurnInv, JoinInv, JoinAndStart PROVE TurnInv' /\ JoinInv'
  OBVIOUS
<1>1. /\ turns \in 0 .. MaxTurns /\ turns' = turns + 1 /\ driver' = turns + 1
      /\ thread' = [thread EXCEPT ![turns + 1] = "stream"]
      /\ turns > 0 => thread[turns] = "ended"
      /\ ui = "joining" /\ ui' = "loop"
  BY DEF JoinAndStart, BeginTurn, TurnInv
<1>2. \A t \in Turns : ~Alive(t)
  BY <1>1, CockpitAssumption DEF TurnInv, Alive, Turns
<1>3. turns' \in 0 .. MaxTurns
  BY <1>1, CockpitAssumption DEF JoinInv
<1>. QED
  BY <1>1, <1>2, <1>3 DEF TurnInv, JoinInv, Alive, Running, Turns, Places

LEMMA TurnInvKept == TurnInv /\ JoinInv /\ [Next]_vars => TurnInv' /\ JoinInv'
<1>. SUFFICES ASSUME TurnInv, JoinInv, [Next]_vars PROVE TurnInv' /\ JoinInv'
  OBVIOUS
<1>1. ASSUME UNCHANGED turnState PROVE TurnInv'
  BY <1>1 DEF turnState, TurnInv, Alive, Running
<1>2. CASE \E t \in Turns : AgentThread(t)
  <2>. PICK t \in Turns : AgentThread(t)
    BY <1>2
  <2>1. JoinInv'
    BY AgentThreadKeepsUi DEF JoinInv
  <2>2. CASE ThreadMoves(t)
    BY <2>1, <2>2 DEF ThreadMoves, TurnInv, Alive, Running, Places
  <2>. QED
    BY <1>1, <2>1, <2>2, AgentThreadStep
<1>3. CASE JoinAndStart
  BY <1>3, JoinAndStartKeeps
<1>4. CASE ~JoinAndStart /\ \A t \in Turns : ~AgentThread(t)
  BY <1>1, <1>4, OtherStep DEF JoinInv, turnState
<1>. QED
  BY <1>2, <1>3, <1>4

THEOREM TurnInvariant == Spec => [](TurnInv /\ JoinInv)
<1>1. Init => TurnInv /\ JoinInv
  BY CockpitAssumption DEF Init, TurnInv, JoinInv, Alive, Running, Places, Turns
<1>. QED
  BY <1>1, TurnInvKept, PTL DEF Spec

(***************************************************************************)
(* At most one thread drives the agent (lines 285-288).                    *)
(***************************************************************************)
THEOREM OneTurn == Spec => []OneTurnAtATime
<1>1. TurnInv => OneTurnAtATime
  BY DEF TurnInv, OneTurnAtATime
<1>. QED
  BY <1>1, TurnInvariant, PTL

(***************************************************************************)
(* The stop of Ctrl-C goes to the turn that is running (lines 1094-1101).  *)
(***************************************************************************)
THEOREM ShutdownStops == Spec => ShutdownStopsTheTurn
<1>1. TurnInv /\ [Next]_vars =>
        [RequestShutdown => \A t \in Turns : Running(t) => t \in stopped']_vars
  <2>. SUFFICES ASSUME TurnInv, RequestShutdown, NEW t \in Turns, Running(t)
                PROVE  t \in stopped'
    OBVIOUS
  <2>1. driver = t /\ t # 0
    BY CockpitAssumption DEF TurnInv, Turns
  <2>. QED
    BY <2>1 DEF RequestShutdown
<1>. QED
  BY <1>1, TurnInvariant, PTL DEF Spec, ShutdownStopsTheTurn
-----------------------------------------------------------------------------
\* The way of the events: what is in the queues is numbered on from handled.
Numbered == bus \in Seq(Events) /\ pending \in Seq(Events) /\ posted \in Nat /\ handled \in Nat

WayInv ==
    /\ Numbered
    /\ handled + Len(pending) + Len(bus) = posted
    /\ \A i \in 1 .. Len(pending) : pending[i].no = handled + i
    /\ \A i \in 1 .. Len(bus) : bus[i].no = handled + Len(pending) + i

wayState == <<bus, pending, posted, handled>>

LEMMA PostKeeps ==
    ASSUME WayInv, NEW kind \in Kinds, NEW t \in 0 .. MaxTurns, Post(kind, t),
           handled' = handled
    PROVE  WayInv'
<1>. DEFINE ev == [kind |-> kind, turn |-> t, no |-> posted + 1]
<1>1. bus' = Append(bus, ev) /\ posted' = posted + 1 /\ pending' = pending
  BY DEF Post
<1>2. ev \in Events
  BY DEF Events, WayInv, Numbered
<1>3. bus' \in Seq(Events) /\ Len(bus') = Len(bus) + 1
  BY <1>1, <1>2 DEF WayInv, Numbered
<1>4. ASSUME NEW i \in 1 .. Len(bus')
      PROVE  bus'[i].no = handled + Len(pending) + i
  <2>1. CASE i <= Len(bus)
    <3>1. bus'[i] = bus[i] /\ i \in 1 .. Len(bus)
      BY <1>1, <1>2, <1>3, <2>1 DEF WayInv, Numbered
    <3>. QED
      BY <3>1 DEF WayInv
  <2>2. CASE i = Len(bus) + 1
    <3>1. bus'[i] = ev
      BY <1>1, <1>2, <2>2 DEF WayInv, Numbered
    <3>2. bus'[i].no = posted + 1
      BY <3>1
    <3>3. posted = handled + Len(pending) + Len(bus)
      BY DEF WayInv
    <3>4. /\ Len(pending) \in Nat /\ Len(bus) \in Nat
          /\ handled \in Nat /\ posted \in Nat
      BY DEF WayInv, Numbered
    <3>. QED
      BY <3>2, <3>3, <3>4, <2>2
  <2>. QED
    BY <1>3, <2>1, <2>2 DEF WayInv, Numbered
<1>. QED
  BY <1>1, <1>3, <1>4 DEF WayInv, Numbered

LEMMA MoveKeeps ==
    ASSUME WayInv, MoveEvent
    PROVE  WayInv'
<1>1. /\ bus # <<>> /\ pending' = Append(pending, Head(bus)) /\ bus' = Tail(bus)
      /\ posted' = posted /\ handled' = handled
  BY DEF MoveEvent, uiVars
<1>2. Head(bus) \in Events /\ Head(bus) = bus[1] /\ Len(bus) > 0
  BY <1>1 DEF WayInv, Numbered
<1>3. /\ pending' \in Seq(Events) /\ Len(pending') = Len(pending) + 1
      /\ bus' \in Seq(Events) /\ Len(bus') = Len(bus) - 1
      /\ \A i \in 1 .. Len(bus') : bus'[i] = bus[i + 1]
  BY <1>1, <1>2 DEF WayInv, Numbered
<1>4. ASSUME NEW i \in 1 .. Len(pending')
      PROVE  pending'[i].no = handled + i
  <2>1. CASE i <= Len(pending)
    <3>1. pending'[i] = pending[i] /\ i \in 1 .. Len(pending)
      BY <1>1, <1>2, <1>3, <2>1 DEF WayInv, Numbered
    <3>. QED
      BY <3>1 DEF WayInv
  <2>2. CASE i = Len(pending) + 1
    <3>1. pending'[i] = bus[1] /\ 1 \in 1 .. Len(bus)
      BY <1>1, <1>2, <2>2 DEF WayInv, Numbered
    <3>. QED
      BY <3>1, <2>2 DEF WayInv, Numbered
  <2>. QED
    BY <1>3, <2>1, <2>2 DEF WayInv, Numbered
<1>5. \A i \in 1 .. Len(bus') : bus'[i].no = handled + Len(pending') + i
  BY <1>3 DEF WayInv, Numbered
<1>6. handled' + Len(pending') + Len(bus') = posted'
  <2>1. /\ Len(pending) \in Nat /\ Len(bus) \in Nat /\ handled \in Nat /\ posted \in Nat
        /\ handled + Len(pending) + Len(bus) = posted
    BY DEF WayInv, Numbered
  <2>2. handled + (Len(pending) + 1) + (Len(bus) - 1) = posted
    BY <2>1
  <2>3. /\ Len(pending') = Len(pending) + 1 /\ Len(bus') = Len(bus) - 1
        /\ handled' = handled /\ posted' = posted
    BY <1>1, <1>3
  <2>. QED
    BY ONLY <2>2, <2>3
<1>. QED
  BY <1>1, <1>3, <1>4, <1>5, <1>6 DEF WayInv, Numbered

LEMMA HandleKeeps ==
    ASSUME WayInv, HandleEvent
    PROVE  WayInv'
<1>1. /\ pending # <<>> /\ pending' = Tail(pending) /\ handled' = handled + 1
      /\ bus' = bus /\ posted' = posted
  BY DEF HandleEvent
<1>2. /\ pending' \in Seq(Events) /\ Len(pending') = Len(pending) - 1
      /\ \A i \in 1 .. Len(pending') : pending'[i] = pending[i + 1]
  BY <1>1 DEF WayInv, Numbered
<1>3. Numbered'
  BY <1>1, <1>2 DEF WayInv, Numbered
<1>4. handled' + Len(pending') + Len(bus') = posted'
  BY <1>1, <1>2 DEF WayInv, Numbered
<1>5. \A i \in 1 .. Len(pending') : pending'[i].no = handled' + i
  BY <1>1, <1>2 DEF WayInv, Numbered
<1>6. \A i \in 1 .. Len(bus') : bus'[i].no = handled' + Len(pending') + i
  BY <1>1, <1>2 DEF WayInv, Numbered
<1>. QED
  BY <1>3, <1>4, <1>5, <1>6 DEF WayInv

LEMMA AgentThreadKeepsWay ==
    ASSUME WayInv, NEW t \in Turns, AgentThread(t)
    PROVE  WayInv'
<1>. t \in 0 .. MaxTurns
  BY CockpitAssumption DEF Turns
<1>1. CASE OnToken(t)
  BY <1>1, PostKeeps, "token" \in Kinds DEF OnToken, uiVars, Kinds
<1>2. CASE OnRetry(t)
  BY <1>2, PostKeeps, "retry" \in Kinds DEF OnRetry, uiVars, Kinds
<1>3. CASE OnTurnComplete(t)
  BY <1>3, PostKeeps, "complete" \in Kinds DEF OnTurnComplete, uiVars, Kinds
<1>4. CASE OnToolResult(t)
  BY <1>4, PostKeeps, "tool" \in Kinds DEF OnToolResult, uiVars, Kinds
<1>5. CASE PostAgentError(t)
  BY <1>5, PostKeeps, "error" \in Kinds DEF PostAgentError, uiVars, Kinds
<1>6. CASE UNCHANGED wayState
  BY <1>6 DEF wayState, WayInv, Numbered
<1>. QED
  BY <1>1, <1>2, <1>3, <1>4, <1>5, <1>6
     DEF AgentThread, RunScript, AskOperator, ReturnFromRunStep, ResetDriver,
         ClearBusy, uiVars, busVars, wayState

LEMMA WayInvKept == WayInv /\ TurnInv /\ [Next]_vars => WayInv'
<1>. SUFFICES ASSUME WayInv, TurnInv, [Next]_vars PROVE WayInv'
  OBVIOUS
<1>1. CASE \E t \in Turns : AgentThread(t)
  BY <1>1, AgentThreadKeepsWay
<1>2. CASE MoveEvent
  BY <1>2, MoveKeeps
<1>3. CASE HandleEvent
  BY <1>3, HandleKeeps
<1>4. CASE JoinAndQuit
  BY <1>4, PostKeeps, "quit" \in Kinds DEF JoinAndQuit, TurnInv, Kinds
<1>5. CASE UNCHANGED wayState
  BY <1>5 DEF wayState, WayInv, Numbered
<1>6. CASE AnswerWaiting \/ CheckRunning
  BY <1>5, <1>6 DEF AnswerWaiting, CheckRunning, uiVars, busVars, wayState
<1>7. CASE JoinAndStart \/ FinishAnswerKey \/ LeaveLoop \/ JoinBusThread
  BY <1>5, <1>7 DEF JoinAndStart, BeginTurn, FinishAnswerKey, LeaveLoop, JoinBusThread,
                    uiVars, busVars, wayState
<1>8. CASE Operator
  BY <1>5, <1>8 DEF Operator, Submit, AnswerKey, RequestShutdown, uiVars, busVars, wayState
<1>9. CASE UNCHANGED vars
  BY <1>5, <1>9 DEF vars, uiVars, busVars, wayState
<1>. QED
  BY <1>1, <1>2, <1>3, <1>4, <1>6, <1>7, <1>8, <1>9 DEF Next, UiThread, BusThread

THEOREM WayInvariant == Spec => []WayInv
<1>1. Init => WayInv
  BY DEF Init, WayInv, Numbered
<1>. QED
  BY <1>1, WayInvKept, TurnInvariant, PTL DEF Spec

(***************************************************************************)
(* No event is lost, repeated or overtaken between the driver that posts   *)
(* it and the handler (lines 411-420 and 768-772).                         *)
(***************************************************************************)
THEOREM EventOrder == Spec => []EventsKeepTheirOrder
<1>1. WayInv => EventsKeepTheirOrder
  <2>. SUFFICES ASSUME WayInv PROVE EventsKeepTheirOrder
    OBVIOUS
  <2>. DEFINE way == pending \o bus
  <2>1. /\ way \in Seq(Events) /\ Len(way) = Len(pending) + Len(bus)
        /\ \A i \in 1 .. Len(way) :
              way[i] = IF i <= Len(pending) THEN pending[i] ELSE bus[i - Len(pending)]
    BY DEF WayInv, Numbered
  <2>2. \A i \in 1 .. Len(way) : way[i].no = handled + i
    BY <2>1 DEF WayInv, Numbered
  <2>. QED
    BY <2>1, <2>2 DEF EventsKeepTheirOrder, WayInv, Numbered
<1>. QED
  BY <1>1, WayInvariant, PTL
-----------------------------------------------------------------------------
\* Every turn begun has its question in the conversation, and every event on
\* its way is of a turn begun.
Asked(t) ==
    \E j \in 1 .. Len(conversation) :
        conversation[j].role = "User" /\ conversation[j].turn = t

OfATurn(ev) == ev.turn \in 0 .. turns /\ (ev.kind = "token" => ev.turn # 0)

TalkInv ==
    /\ conversation \in Seq(Items)
    /\ \A t \in 1 .. turns : Asked(t)
    /\ \A i \in 1 .. Len(bus) : OfATurn(bus[i])
    /\ \A i \in 1 .. Len(pending) : OfATurn(pending[i])
    /\ AnswerFollowsItsQuestion

talkState == <<conversation, turns, bus, pending>>

\* Items stay what they are and where they are; what text there is was there
\* before, or has its question above.
LEMMA ItemsStay ==
    ASSUME conversation \in Seq(Items), conversation' \in Seq(Items),
           AnswerFollowsItsQuestion,
           Len(conversation) <= Len(conversation'),
           \A j \in 1 .. Len(conversation) :
              /\ conversation'[j].role = conversation[j].role
              /\ conversation'[j].turn = conversation[j].turn,
           \A i \in 1 .. Len(conversation') : \A k \in DOMAIN conversation'[i].text :
              \/ /\ i <= Len(conversation) /\ k \in DOMAIN conversation[i].text
                 /\ conversation'[i].text[k] = conversation[i].text[k]
              \/ \E j \in 1 .. i - 1 :
                    /\ j <= Len(conversation) /\ conversation[j].role = "User"
                    /\ conversation[j].turn = conversation'[i].text[k].turn
    PROVE  AnswerFollowsItsQuestion' /\ \A t : Asked(t) => Asked(t)'
<1>1. /\ DOMAIN conversation = 1 .. Len(conversation) /\ Len(conversation) \in Nat
      /\ DOMAIN conversation' = 1 .. Len(conversation') /\ Len(conversation') \in Nat
  OBVIOUS
<1>2. ASSUME NEW i \in DOMAIN conversation', NEW k \in DOMAIN conversation'[i].text
      PROVE  \E j \in 1 .. i - 1 :
                /\ conversation'[j].role = "User"
                /\ conversation'[j].turn = conversation'[i].text[k].turn
  <2>1. CASE /\ i <= Len(conversation) /\ k \in DOMAIN conversation[i].text
             /\ conversation'[i].text[k] = conversation[i].text[k]
    <3>1. PICK j \in 1 .. i - 1 :
             /\ conversation[j].role = "User"
             /\ conversation[j].turn = conversation[i].text[k].turn
      BY <1>1, <2>1 DEF AnswerFollowsItsQuestion
    <3>2. j \in 1 .. Len(conversation)
      BY <1>1, <2>1
    <3>. QED
      BY <2>1, <3>1, <3>2
  <2>2. CASE \E j \in 1 .. i - 1 :
                /\ j <= Len(conversation) /\ conversation[j].role = "User"
                /\ conversation[j].turn = conversation'[i].text[k].turn
    <3>1. PICK j \in 1 .. i - 1 :
             /\ j <= Len(conversation) /\ conversation[j].role = "User"
             /\ conversation[j].turn = conversation'[i].text[k].turn
      BY <2>2
    <3>2. j \in 1 .. Len(conversation)
      BY <1>1, <3>1
    <3>. QED
      BY <3>1, <3>2
  <2>. QED
    BY <1>1, <2>1, <2>2
<1>3. ASSUME NEW t, Asked(t) PROVE Asked(t)'
  BY <1>1, <1>3 DEF Asked
<1>. QED
  BY <1>2, <1>3 DEF AnswerFollowsItsQuestion

\* A new item at the end, with text of turns that were asked for.
LEMMA ItemAdded ==
    ASSUME TalkInv, NEW item \in Items, conversation' = Append(conversation, item),
           \A k \in DOMAIN item.text : Asked(item.text[k].turn)
    PROVE  /\ conversation' \in Seq(Items)
           /\ AnswerFollowsItsQuestion' /\ \A t : Asked(t) => Asked(t)'
<1>. DEFINE n == Len(conversation)
<1>1. /\ conversation \in Seq(Items) /\ conversation' \in Seq(Items)
      /\ n \in Nat /\ Len(conversation') = n + 1
      /\ \A i \in 1 .. n : conversation'[i] = conversation[i]
      /\ conversation'[n + 1] = item
  BY DEF TalkInv
<1>2. ASSUME NEW k \in DOMAIN item.text
      PROVE  \E j \in 1 .. n : /\ conversation[j].role = "User"
                               /\ conversation[j].turn = item.text[k].turn
  BY DEF Asked
<1>3. ASSUME NEW i \in 1 .. Len(conversation'), NEW k \in DOMAIN conversation'[i].text
      PROVE  \/ /\ i <= n /\ k \in DOMAIN conversation[i].text
                /\ conversation'[i].text[k] = conversation[i].text[k]
             \/ \E j \in 1 .. i - 1 :
                   /\ j <= n /\ conversation[j].role = "User"
                   /\ conversation[j].turn = conversation'[i].text[k].turn
  <2>1. CASE i <= n
    <3>1. i \in 1 .. n
      BY <1>1, <2>1
    <3>. QED
      BY <1>1, <2>1, <3>1
  <2>2. CASE i = n + 1
    <3>1. PICK j \in 1 .. n : /\ conversation[j].role = "User"
                              /\ conversation[j].turn = item.text[k].turn
      BY <1>1, <1>2, <2>2
    <3>2. j \in 1 .. i - 1 /\ j <= n
      BY <1>1, <2>2
    <3>. QED
      BY <1>1, <2>2, <3>1, <3>2
  <2>. QED
    BY <1>1, <2>1, <2>2
<1>. QED
  BY <1>1, <1>3, ItemsStay DEF TalkInv

\* The last item has another text: less, or a piece more of a turn that was
\* asked for above it.
LEMMA TextChanged ==
    ASSUME TalkInv, NEW n \in 1 .. Len(conversation),
           NEW item \in Items, conversation' = [conversation EXCEPT ![n] = item],
           item.role = conversation[n].role, item.turn = conversation[n].turn,
           \A k \in DOMAIN item.text :
              \/ /\ k \in DOMAIN conversation[n].text
                 /\ item.text[k] = conversation[n].text[k]
              \/ /\ n = Len(conversation) /\ conversation[n].role # "User"
                 /\ Asked(item.text[k].turn)
    PROVE  /\ conversation' \in Seq(Items)
           /\ AnswerFollowsItsQuestion' /\ \A t : Asked(t) => Asked(t)'
<1>. DEFINE m == Len(conversation)
<1>1. /\ conversation \in Seq(Items) /\ conversation' \in Seq(Items)
      /\ Len(conversation) \in Nat /\ Len(conversation') = Len(conversation)
      /\ \A i \in 1 .. Len(conversation) :
            conversation'[i] = IF i = n THEN item ELSE conversation[i]
  BY DEF TalkInv
<1>0. /\ m \in Nat /\ n \in 1 .. m /\ Len(conversation') = m
      /\ \A i \in 1 .. m :
            IF i = n THEN conversation'[i] = item ELSE conversation'[i] = conversation[i]
  BY <1>1
<1>. HIDE DEF m
<1>2. ASSUME NEW k \in DOMAIN item.text, n = Len(conversation),
             conversation[n].role # "User", Asked(item.text[k].turn)
      PROVE  \E j \in 1 .. n - 1 : /\ conversation[j].role = "User"
                                   /\ conversation[j].turn = item.text[k].turn
  <2>1. PICK j \in 1 .. Len(conversation) :
           conversation[j].role = "User" /\ conversation[j].turn = item.text[k].turn
    BY <1>2 DEF Asked
  <2>2. j # n
    BY <1>2, <2>1
  <2>3. j \in 1 .. n - 1
    <3>1. j \in 1 .. m /\ n = m
      BY <1>2 DEF m
    <3>. QED
      BY ONLY <1>0, <2>2, <3>1
  <2>. QED
    BY <2>1, <2>3
<1>3. ASSUME NEW i \in 1 .. Len(conversation'), NEW k \in DOMAIN conversation'[i].text
      PROVE  \/ /\ i <= Len(conversation) /\ k \in DOMAIN conversation[i].text
                /\ conversation'[i].text[k] = conversation[i].text[k]
             \/ \E j \in 1 .. i - 1 :
                   /\ j <= Len(conversation) /\ conversation[j].role = "User"
                   /\ conversation[j].turn = conversation'[i].text[k].turn
  <2>1. CASE i # n
    <3>1. i \in 1 .. m /\ i <= m
      BY ONLY <1>0, i \in 1 .. Len(conversation')
    <3>2. conversation'[i] = conversation[i]
      BY <1>0, <2>1, <3>1
    <3>. QED
      BY <3>1, <3>2 DEF m
  <2>2. CASE i = n
    <3>1. conversation'[i] = item /\ k \in DOMAIN item.text
      BY <1>1, <2>2
    <3>2. CASE /\ n = Len(conversation) /\ conversation[n].role # "User"
               /\ Asked(item.text[k].turn)
      <4>1. PICK j \in 1 .. n - 1 : /\ conversation[j].role = "User"
                                    /\ conversation[j].turn = item.text[k].turn
        BY <1>2, <3>1, <3>2
      <4>2. j <= Len(conversation)
        <5>1. j <= m
          BY ONLY <1>0, j \in 1 .. n - 1
        <5>. QED
          BY <5>1 DEF m
      <4>. QED
        BY <2>2, <3>1, <4>1, <4>2
    <3>3. CASE k \in DOMAIN conversation[n].text /\ item.text[k] = conversation[n].text[k]
      BY <1>0, <2>2, <3>1, <3>3
    <3>. QED
      BY <3>1, <3>2, <3>3
  <2>. QED
    BY <2>1, <2>2
<1>4. \A j \in 1 .. Len(conversation) :
         /\ conversation'[j].role = conversation[j].role
         /\ conversation'[j].turn = conversation[j].turn
  BY <1>0
<1>5. AnswerFollowsItsQuestion
  BY DEF TalkInv
<1>6. m <= Len(conversation')
  BY ONLY <1>0
<1>. QED
  BY <1>1, <1>3, <1>4, <1>5, <1>6, ItemsStay DEF m

LEMMA HandleKeepsTalk == TalkInv /\ Numbered /\ HandleEvent => TalkInv'
<1>. SUFFICES ASSUME TalkInv, Numbered, HandleEvent PROVE TalkInv'
  OBVIOUS
<1>. DEFINE ev == Head(pending)
<1>0. /\ pending # <<>> /\ pending' = Tail(pending) /\ pending \in Seq(Events)
  BY DEF HandleEvent, Numbered
<1>1. /\ bus' = bus /\ turns' = turns
      /\ conversation' = CASE ev.kind = "token" -> HandleToken(ev)
                           [] ev.kind = "retry" -> HandleRetry
                           [] ev.kind = "tool" -> Append(conversation, Item("Tool", "", ev.turn))
                           [] OTHER -> conversation
  BY DEF HandleEvent
<1>2. /\ ev \in Events /\ OfATurn(ev)
      /\ \A i \in 1 .. Len(pending') : OfATurn(pending'[i])
  <2>1. pending \in Seq(Events) /\ Len(pending) \in Nat /\ Len(pending) > 0
    BY ONLY <1>0
  <2>2. ev = pending[1] /\ ev \in Events /\ 1 \in 1 .. Len(pending)
    BY <2>1
  <2>3. /\ Len(pending') = Len(pending) - 1
        /\ \A i \in 1 .. Len(pending') : pending'[i] = pending[i + 1]
    BY ONLY <1>0, <2>1
  <2>4. \A i \in 1 .. Len(pending') : i + 1 \in 1 .. Len(pending)
    BY ONLY <2>1, <2>3
  <2>. QED
    BY <2>2, <2>3, <2>4 DEF TalkInv
<1>3. \A e : OfATurn(e)' = OfATurn(e)
  BY <1>1 DEF OfATurn
<1>. HIDE DEF ev
<1>4. SUFFICES /\ conversation' \in Seq(Items)
               /\ AnswerFollowsItsQuestion' /\ \A t : Asked(t) => Asked(t)'
  BY <1>1, <1>2, <1>3 DEF TalkInv
<1>5. CASE conversation' = conversation
  BY <1>5 DEF TalkInv, AnswerFollowsItsQuestion, Asked
<1>6. ASSUME ev.kind = "token" PROVE Asked(ev.turn)
  <2>1. ev.turn \in 1 .. turns
    BY <1>2, <1>6 DEF OfATurn
  <2>. QED
    BY <2>1 DEF TalkInv
<1>7. CASE ev.kind = "token" /\ ~(conversation # <<>> /\ Last.role = "Assistant")
  <2>. DEFINE item == [role |-> "Assistant", agent |-> "main", turn |-> ev.turn,
                       text |-> <<ev>>]
  <2>1. conversation' = Append(conversation, item)
    BY <1>1, <1>7 DEF HandleToken
  <2>2. <<ev>> \in Seq(Events) /\ ev.turn \in 0 .. MaxTurns
    BY <1>2 DEF Events
  <2>3. item \in Items
    BY <2>2 DEF Items
  <2>4. \A k \in DOMAIN item.text : Asked(item.text[k].turn)
    BY <1>6, <1>7
  <2>. HIDE DEF item
  <2>. QED
    BY <2>1, <2>3, <2>4, ItemAdded
<1>8. CASE ev.kind = "token" /\ conversation # <<>> /\ Last.role = "Assistant"
  <2>. DEFINE n == Len(conversation)
              item == [conversation[n] EXCEPT !.agent = "main",
                                              !.text = Append(conversation[n].text, ev)]
  <2>1. conversation' = [conversation EXCEPT ![n] = item]
    <3>1. conversation' = HandleToken(ev)
      BY <1>1, <1>8
    <3>. QED
      BY <1>8, <3>1, Zenon DEF HandleToken, Last
  <2>2. /\ conversation \in Seq(Items) /\ n \in 1 .. n /\ conversation[n] \in Items
        /\ conversation[n].role = "Assistant"
    BY <1>8 DEF TalkInv, Last
  <2>3. /\ conversation[n].text \in Seq(Events)
        /\ Append(conversation[n].text, ev) \in Seq(Events)
        /\ \A k \in DOMAIN Append(conversation[n].text, ev) :
              \/ /\ k \in DOMAIN conversation[n].text
                 /\ Append(conversation[n].text, ev)[k] = conversation[n].text[k]
              \/ Append(conversation[n].text, ev)[k] = ev
    <3>1. conversation[n].text \in Seq(Events)
      BY <2>2 DEF Items
    <3>. QED
      BY <1>2, <3>1
  <2>4. /\ item \in Items /\ item.role = conversation[n].role
        /\ item.turn = conversation[n].turn
        /\ item.text = Append(conversation[n].text, ev)
    BY <2>2, <2>3 DEF Items
  <2>5. \A k \in DOMAIN item.text :
           \/ /\ k \in DOMAIN conversation[n].text
              /\ item.text[k] = conversation[n].text[k]
           \/ Asked(item.text[k].turn)
    BY <1>6, <1>8, <2>3, <2>4
  <2>. HIDE DEF item
  <2>. QED
    BY <2>1, <2>2, <2>4, <2>5, TextChanged
<1>9. CASE ev.kind = "retry"
  <2>1. conversation' = HandleRetry
    BY <1>1, <1>9
  <2>. DEFINE mine == {i \in DOMAIN conversation :
                          conversation[i].role = "Assistant" /\ conversation[i].agent = "main"}
              n == CHOOSE i \in mine : \A j \in mine : j <= i
  <2>. DEFINE item == [conversation[n] EXCEPT !.text = <<>>]
  <2>2. conversation' = conversation \/ conversation' = [conversation EXCEPT ![n] = item]
    BY <2>1, Zenon DEF HandleRetry
  <2>. HIDE DEF n
  <2>3. CASE n \in 1 .. Len(conversation)
    <3>1. conversation \in Seq(Items) /\ conversation[n] \in Items
      BY <2>3 DEF TalkInv
    <3>2. <<>> \in Seq(Events) /\ DOMAIN <<>> = {}
      OBVIOUS
    <3>3. /\ item \in Items /\ item.role = conversation[n].role
          /\ item.turn = conversation[n].turn /\ item.text = <<>>
      BY <3>1, <3>2 DEF Items
    <3>. HIDE DEF item
    <3>. QED
      BY <1>5, <2>2, <2>3, <3>2, <3>3, TextChanged
  <2>4. CASE n \notin 1 .. Len(conversation)
    <3>1. conversation \in Seq(Items)
      BY DEF TalkInv
    <3>. HIDE DEF item
    <3>2. conversation' = conversation
      BY <2>2, <2>4, <3>1
    <3>. QED
      BY <1>5, <3>2
  <2>. QED
    BY <2>3, <2>4
<1>10. CASE ev.kind = "tool"
  <2>1. conversation' = Append(conversation, Item("Tool", "", ev.turn))
    BY <1>1, <1>10
  <2>2. ev.turn \in 0 .. MaxTurns /\ <<>> \in Seq(Events) /\ DOMAIN <<>> = {}
    BY <1>2 DEF Events
  <2>3. Item("Tool", "", ev.turn) \in Items /\ Item("Tool", "", ev.turn).text = <<>>
    BY <2>2 DEF Item, Items
  <2>. QED
    BY <2>1, <2>2, <2>3, ItemAdded
<1>. QED
  BY <1>1, <1>5, <1>7, <1>8, <1>9, <1>10

\* An event of a turn begun joins the queue of the bus.
LEMMA PostKeepsTalk ==
    ASSUME TalkInv, Numbered, NEW kind \in Kinds, NEW t \in 0 .. turns, Post(kind, t),
           kind = "token" => t # 0, UNCHANGED <<conversation, turns>>, turns \in 0 .. MaxTurns
    PROVE  TalkInv'
<1>. DEFINE ev == [kind |-> kind, turn |-> t, no |-> posted']
<1>1. bus' = Append(bus, ev) /\ pending' = pending
  BY DEF Post
<1>2. OfATurn(ev) /\ \A e : OfATurn(e)' = OfATurn(e)
  BY DEF OfATurn
<1>. HIDE DEF ev
<1>3. \A i \in 1 .. Len(bus') : bus'[i] = ev \/ (i \in 1 .. Len(bus) /\ bus'[i] = bus[i])
  <2>1. bus \in Seq(Events)
    BY DEF Numbered
  <2>2. posted' \in Nat /\ t \in 0 .. MaxTurns
    BY CockpitAssumption DEF Numbered, Post
  <2>3. ev \in Events
    BY <2>2 DEF ev, Events
  <2>4. /\ Len(bus) \in Nat /\ Len(bus') = Len(bus) + 1 /\ bus'[Len(bus) + 1] = ev
        /\ \A i \in 1 .. Len(bus) : bus'[i] = bus[i]
    BY <1>1, <2>1, <2>3
  <2>5. \A i \in 1 .. Len(bus') : i \in 1 .. Len(bus) \/ i = Len(bus) + 1
    BY ONLY <2>4
  <2>. QED
    BY ONLY <2>4, <2>5
<1>. QED
  BY <1>1, <1>2, <1>3 DEF TalkInv, AnswerFollowsItsQuestion, Asked

LEMMA MoveKeepsTalk == TalkInv /\ Numbered /\ MoveEvent => TalkInv'
<1>. SUFFICES ASSUME TalkInv, Numbered, MoveEvent PROVE TalkInv'
  OBVIOUS
<1>1. /\ bus # <<>> /\ bus' = Tail(bus) /\ pending' = Append(pending, Head(bus))
      /\ UNCHANGED <<conversation, turns>>
  BY DEF MoveEvent, uiVars
<1>2. bus \in Seq(Events) /\ pending \in Seq(Events)
  BY DEF Numbered
<1>3. /\ \A i \in 1 .. Len(bus') : i + 1 \in 1 .. Len(bus) /\ bus'[i] = bus[i + 1]
      /\ \A i \in 1 .. Len(pending') :
            \/ i \in 1 .. Len(pending) /\ pending'[i] = pending[i]
            \/ 1 \in 1 .. Len(bus) /\ pending'[i] = bus[1]
  BY ONLY <1>1, <1>2
<1>4. \A e : OfATurn(e)' = OfATurn(e)
  BY <1>1 DEF OfATurn
<1>. QED
  BY <1>1, <1>3, <1>4 DEF TalkInv, AnswerFollowsItsQuestion, Asked

\* A turn begins with its question, above the bubble that waits for its text.
LEMMA BeginKeepsTalk == TalkInv /\ JoinInv /\ turns \in Nat /\ JoinAndStart => TalkInv'
<1>. SUFFICES ASSUME TalkInv, JoinInv, turns \in Nat, JoinAndStart PROVE TalkInv'
  OBVIOUS
<1>. DEFINE question == Item("User", "", turns')
            answer == Item("Assistant", "", turns')
            n == Len(conversation)
<1>1. /\ turns' = turns + 1 /\ turns' \in 0 .. MaxTurns
      /\ conversation' = conversation \o <<question, answer>>
      /\ bus' = bus /\ pending' = pending
  <2>1. /\ ui = "joining" /\ turns' = turns + 1 /\ UNCHANGED busVars
        /\ conversation' = conversation \o
                 <<Item("User", "", turns'), Item("Assistant", "", turns')>>
    BY Zenon DEF JoinAndStart, BeginTurn
  <2>2. turns < MaxTurns
    BY <2>1 DEF JoinInv
  <2>3. turns + 1 \in 0 .. MaxTurns
    BY <2>2, CockpitAssumption
  <2>. QED
    BY <2>1, <2>3 DEF busVars
<1>2. /\ question \in Items /\ question.role = "User" /\ question.turn = turns'
      /\ question.text = <<>>
      /\ answer \in Items /\ answer.text = <<>>
  <2>1. <<>> \in Seq(Events)
    OBVIOUS
  <2>. QED
    BY <1>1, <2>1 DEF Item, Items
<1>. HIDE DEF question, answer
<1>3. /\ conversation \in Seq(Items) /\ conversation' \in Seq(Items)
      /\ n \in Nat /\ Len(conversation') = n + 2
      /\ \A i \in 1 .. n : conversation'[i] = conversation[i]
      /\ conversation'[n + 1] = question /\ conversation'[n + 2] = answer
  <2>1. conversation \in Seq(Items)
    BY DEF TalkInv
  <2>2. <<question, answer>> \in Seq(Items) /\ Len(<<question, answer>>) = 2
    BY <1>2
  <2>. QED
    BY <1>1, <2>1, <2>2
<1>. HIDE DEF n
<1>4. AnswerFollowsItsQuestion' /\ \A t : Asked(t) => Asked(t)'
  <2>1. DOMAIN <<>> = {}
    OBVIOUS
  <2>2. ASSUME NEW i \in 1 .. Len(conversation'), NEW k \in DOMAIN conversation'[i].text
        PROVE  i <= n /\ conversation'[i] = conversation[i]
    <3>1. i \in 1 .. n \/ i = n + 1 \/ i = n + 2
      BY ONLY <1>3, i \in 1 .. Len(conversation')
    <3>2. i \in 1 .. n
      BY <1>2, <1>3, <2>1, <3>1
    <3>3. i <= n
      BY <1>3, <3>2
    <3>. QED
      BY <1>3, <3>2, <3>3
  <2>3. n = Len(conversation) /\ n <= Len(conversation')
    BY <1>3 DEF n
  <2>. QED
    BY <1>3, <2>2, <2>3, ItemsStay DEF TalkInv
<1>5. ASSUME NEW t, t = turns' PROVE Asked(t)'
  <2>1. n + 1 \in 1 .. Len(conversation')
    BY <1>3
  <2>. QED
    BY <1>2, <1>3, <1>5, <2>1 DEF Asked
<1>6. \A t \in 1 .. turns' : Asked(t)'
  <2>1. \A t \in 1 .. turns' : t \in 1 .. turns \/ t = turns'
    BY <1>1
  <2>. QED
    BY <1>4, <1>5, <2>1 DEF TalkInv
<1>7. \A e : OfATurn(e) => OfATurn(e)'
  BY <1>1 DEF OfATurn
<1>. QED
  BY <1>1, <1>3, <1>4, <1>6, <1>7 DEF TalkInv

LEMMA TalkInvKept ==
    TalkInv /\ WayInv /\ TurnInv /\ JoinInv /\ [Next]_vars => TalkInv'
<1>. SUFFICES ASSUME TalkInv, WayInv, TurnInv, JoinInv, [Next]_vars PROVE TalkInv'
  OBVIOUS
<1>0. Numbered /\ turns \in Nat /\ turns \in 0 .. MaxTurns
  BY DEF WayInv, TurnInv
<1>1. ASSUME UNCHANGED talkState PROVE TalkInv'
  BY <1>1 DEF talkState, TalkInv, AnswerFollowsItsQuestion, Asked, OfATurn
<1>2. CASE \E t \in Turns : AgentThread(t)
  <2>. PICK t \in Turns : AgentThread(t)
    BY <1>2
  <2>1. CASE RunScript(t) \/ AskOperator(t) \/ ReturnFromRunStep(t) \/ ResetDriver(t)
             \/ ClearBusy(t)
    BY <1>1, <2>1 DEF RunScript, AskOperator, ReturnFromRunStep, ResetDriver, ClearBusy,
                      uiVars, busVars, talkState
  <2>2. ASSUME Alive(t) PROVE t \in 0 .. turns /\ t # 0
    BY <1>0, <2>2 DEF TurnInv, Turns
  <2>3. ASSUME NEW kind \in Kinds, Alive(t), Post(kind, t), uiVars' = uiVars PROVE TalkInv'
    BY <1>0, <2>2, <2>3, PostKeepsTalk DEF uiVars
  <2>4. CASE OnToken(t)
    BY <2>3, <2>4, "token" \in Kinds DEF OnToken, Alive, Kinds
  <2>5. CASE OnRetry(t)
    BY <2>3, <2>5, "retry" \in Kinds DEF OnRetry, Alive, Kinds
  <2>6. CASE OnTurnComplete(t)
    BY <2>3, <2>6, "complete" \in Kinds DEF OnTurnComplete, Alive, Kinds
  <2>7. CASE OnToolResult(t)
    BY <2>3, <2>7, "tool" \in Kinds DEF OnToolResult, Alive, Kinds
  <2>8. CASE PostAgentError(t)
    BY <2>3, <2>8, "error" \in Kinds DEF PostAgentError, Alive, Running, Kinds
  <2>. QED
    BY <2>1, <2>4, <2>5, <2>6, <2>7, <2>8 DEF AgentThread
<1>3. CASE MoveEvent
  BY <1>0, <1>3, MoveKeepsTalk
<1>4. CASE HandleEvent
  BY <1>0, <1>4, HandleKeepsTalk
<1>5. CASE JoinAndStart
  BY <1>0, <1>5, BeginKeepsTalk
<1>6. CASE JoinAndQuit
  <2>1. "quit" \in Kinds /\ turns \in 0 .. turns
    BY <1>0 DEF Kinds
  <2>. QED
    BY <1>0, <1>6, <2>1, PostKeepsTalk DEF JoinAndQuit
<1>7. CASE AnswerWaiting \/ CheckRunning \/ FinishAnswerKey \/ LeaveLoop \/ JoinBusThread
  BY <1>1, <1>7 DEF AnswerWaiting, CheckRunning, FinishAnswerKey, LeaveLoop,
                    JoinBusThread, uiVars, busVars, talkState
<1>8. CASE Operator
  BY <1>1, <1>8 DEF Operator, Submit, AnswerKey, RequestShutdown, uiVars, busVars, talkState
<1>9. CASE UNCHANGED vars
  BY <1>1, <1>9 DEF vars, uiVars, busVars, talkState
<1>. QED
  BY <1>2, <1>3, <1>4, <1>5, <1>6, <1>7, <1>8, <1>9 DEF Next, UiThread, BusThread

(***************************************************************************)
(* Every turn begun has its question on the screen, and every event on its *)
(* way is of a turn begun.                                                 *)
(***************************************************************************)
THEOREM TalkInvariant == Spec => []TalkInv
<1>1. Init => TalkInv
  BY CockpitAssumption DEF Init, TalkInv, AnswerFollowsItsQuestion
<1>. QED
  BY <1>1, TalkInvKept, WayInvariant, TurnInvariant, PTL DEF Spec

(***************************************************************************)
(* An answer stands below its question, however late its events are        *)
(* handled (lines 291-294 and 777-791).                                    *)
(***************************************************************************)
THEOREM AnswersFollow == Spec => []AnswerFollowsItsQuestion
<1>1. TalkInv => AnswerFollowsItsQuestion
  BY DEF TalkInv
<1>. QED
  BY <1>1, TalkInvariant, PTL
-----------------------------------------------------------------------------
\* Every step of the cockpit is one of Consent, or changes nothing of it.
LEMMA ConsentStep == [Next]_vars => [Approval!Next]_consentVars
<1>. SUFFICES ASSUME [Next]_vars PROVE Approval!Next \/ UNCHANGED consentVars
  OBVIOUS
<1>. USE DEF Approval!Next, Approval!AgentThread, Approval!UIThread
<1>1. CASE \E t \in Turns : AgentThread(t)
  <2>. PICK t \in Turns : AgentThread(t)
    BY <1>1
  <2>1. CASE AskOperator(t)
    BY <2>1 DEF AskOperator
  <2>2. CASE OnToken(t) \/ OnRetry(t) \/ OnTurnComplete(t) \/ RunScript(t) \/ OnToolResult(t)
    BY <2>2 DEF OnToken, OnRetry, OnTurnComplete, RunScript, OnToolResult
  <2>3. CASE ReturnFromRunStep(t) \/ PostAgentError(t) \/ ResetDriver(t) \/ ClearBusy(t)
    BY <2>3 DEF ReturnFromRunStep, PostAgentError, ResetDriver, ClearBusy
  <2>. QED
    BY <2>1, <2>2, <2>3 DEF AgentThread
<1>2. CASE AnswerWaiting
  BY <1>2 DEF AnswerWaiting
<1>3. CASE BusThread
  BY <1>3 DEF BusThread, CheckRunning, MoveEvent
<1>4. CASE UiThread
  BY <1>4 DEF UiThread, JoinAndStart, BeginTurn, HandleEvent, FinishAnswerKey, LeaveLoop,
              JoinAndQuit, JoinBusThread
<1>5. CASE Operator
  BY <1>5 DEF Operator, Submit, AnswerKey, RequestShutdown
<1>6. CASE UNCHANGED vars
  BY <1>6 DEF vars
<1>. QED
  BY <1>1, <1>2, <1>3, <1>4, <1>5, <1>6 DEF Next

\* The provider's fields speak of the request the agent thread waits on.
PendingInv ==
    /\ asking = Approval!None => pendingId = Approval!None /\ pendingDecision = "none"
    /\ asking # Approval!None => pendingId = asking /\ asking = counter

\* A decision, pending or returned, is the operator's and for its request.
DecisionInv ==
    /\ accepted \subseteq pressed
    /\ pendingDecision = "Allow" => asking \in accepted
    /\ \A r \in accepted :
          \/ outcome[r] = "Allow"
          \/ r = asking /\ pendingDecision = "Allow" /\ outcome[r] = "open"
    /\ \A r \in Approval!Requests :
          /\ outcome[r] = "Allow" => r \in accepted
          /\ r > counter => outcome[r] = "open" /\ r \notin pressed
          /\ r = asking => outcome[r] = "open"

\* What is queued, or was when the key was pressed, are requests made.
QueueInv ==
    /\ \A i \in 1 .. Len(approvals) : approvals[i] <= counter
    /\ \A i \in 1 .. Len(erasing) : erasing[i] <= counter
    /\ erasing # <<>> => approvals # <<>>

ConsentInv == Approval!TypeOK /\ PendingInv /\ DecisionInv /\ QueueInv
LEMMA ConsentInit == Approval!Init => ConsentInv
<1>. SUFFICES ASSUME Approval!Init PROVE ConsentInv
  OBVIOUS
<1>1. Approval!TypeOK
  BY CockpitAssumption DEF Approval!Init, Approval!TypeOK, Approval!Requests, Approval!None
<1>2. PendingInv /\ DecisionInv
  BY CockpitAssumption DEF Approval!Init, PendingInv, DecisionInv, Approval!Requests, Approval!None
<1>3. QueueInv
  BY DEF Approval!Init, QueueInv
<1>. QED
  BY <1>1, <1>2, <1>3 DEF ConsentInv

LEMMA AskKeeps == ConsentInv /\ Approval!Ask => ConsentInv'
<1>. SUFFICES ASSUME ConsentInv, Approval!Ask PROVE ConsentInv'
  OBVIOUS
<1>. USE CockpitAssumption DEF Approval!Ask, ConsentInv, Approval!operatorVars
<1>1. counter' \in Approval!Requests /\ counter' = counter + 1 /\ counter \in Nat
  BY DEF Approval!TypeOK, Approval!Requests
<1>2. Approval!TypeOK'
  BY <1>1 DEF Approval!TypeOK, Approval!Requests
<1>3. PendingInv'
  BY <1>1 DEF PendingInv, Approval!None, Approval!Requests
<1>4. DecisionInv'
  BY <1>1 DEF DecisionInv, PendingInv, Approval!TypeOK, Approval!None, Approval!Requests
<1>5. /\ Len(approvals') = Len(approvals) + 1
      /\ approvals'[Len(approvals) + 1] = counter'
      /\ \A i \in 1 .. Len(approvals) : approvals'[i] = approvals[i]
      /\ Len(approvals) \in Nat
  BY DEF Approval!TypeOK
<1>6. \A i \in 1 .. Len(approvals) : approvals[i] \in Nat
  BY DEF Approval!TypeOK, Approval!Requests
<1>7. \A i \in 1 .. Len(erasing) : erasing[i] \in Nat
  BY DEF Approval!TypeOK, Approval!Requests
<1>8. QueueInv'
  BY <1>1, <1>5, <1>6, <1>7 DEF QueueInv
<1>. QED
  BY <1>2, <1>3, <1>4, <1>8

LEMMA ReturnKeeps == ConsentInv /\ asking # Approval!None /\ Approval!Return => ConsentInv'
<1>. SUFFICES ASSUME ConsentInv, asking # Approval!None, Approval!Return PROVE ConsentInv'
  OBVIOUS
<1>. USE DEF Approval!Return, ConsentInv, Approval!operatorVars
<1>1. asking \in Approval!Requests /\ asking = counter
  BY DEF Approval!TypeOK, PendingInv, Approval!Requests, Approval!None
<1>2. Approval!TypeOK'
  BY <1>1, CockpitAssumption DEF Approval!TypeOK, Approval!Answer, Approval!None
<1>3. PendingInv'
  BY DEF PendingInv, Approval!None
<1>4. DecisionInv'
  <2>1. \A r \in Approval!Requests : outcome'[r] = IF r = asking THEN Approval!Answer(pendingDecision)
                                                      ELSE outcome[r]
    BY <1>1 DEF Approval!TypeOK
  <2>2. \A r \in accepted : outcome'[r] = "Allow"
    BY <1>1, <2>1 DEF DecisionInv, Approval!TypeOK, Approval!Answer
  <2>3. \A r \in Approval!Requests : outcome'[r] = "Allow" => r \in accepted
    BY <1>1, <2>1 DEF DecisionInv, Approval!TypeOK, Approval!Answer
  <2>4. \A r \in Approval!Requests : r > counter => outcome'[r] = "open" /\ r \notin pressed
    BY <1>1, <2>1 DEF DecisionInv, Approval!Requests
  <2>. QED
    BY <2>2, <2>3, <2>4 DEF DecisionInv, Approval!Requests, Approval!None
<1>5. QueueInv'
  BY DEF QueueInv
<1>. QED
  BY <1>2, <1>3, <1>4, <1>5

LEMMA PressKeeps == ConsentInv /\ Approval!PressApprove => ConsentInv'
<1>. SUFFICES ASSUME ConsentInv, Approval!PressApprove PROVE ConsentInv'
  OBVIOUS
<1>. USE DEF Approval!PressApprove, ConsentInv
<1>1. /\ Head(approvals) = approvals[1] /\ Len(approvals) \in Nat /\ Len(approvals) >= 1
      /\ approvals[1] \in Approval!Requests /\ approvals[1] <= counter
  BY DEF Approval!TypeOK, QueueInv
<1>2. Approval!TypeOK'
  BY <1>1 DEF Approval!TypeOK, Approval!Resolve
<1>3. PendingInv'
  BY <1>1 DEF PendingInv, Approval!Resolve, Approval!None, Approval!Requests
<1>4. DecisionInv'
  <2>1. asking = approvals[1] <=> pendingId = approvals[1]
    BY <1>1 DEF PendingInv, Approval!None, Approval!Requests
  <2>2. accepted' \subseteq pressed'
    BY <1>1 DEF DecisionInv
  <2>. QED
    BY <1>1, <2>1, <2>2 DEF DecisionInv, Approval!Resolve, Approval!TypeOK, PendingInv, Approval!None, Approval!Requests
<1>5. QueueInv'
  BY DEF QueueInv
<1>. QED
  BY <1>2, <1>3, <1>4, <1>5

LEMMA EraseKeeps == ConsentInv /\ Approval!EraseApproved => ConsentInv'
<1>. SUFFICES ASSUME ConsentInv, Approval!EraseApproved PROVE ConsentInv'
  OBVIOUS
<1>. USE DEF Approval!EraseApproved, ConsentInv, Approval!providerVars
<1>1. /\ approvals \in Seq(Approval!Requests) /\ approvals # <<>>
      /\ erasing \in Seq(Approval!Requests) /\ erasing # <<>>
  BY DEF Approval!TypeOK, QueueInv
<1>2. approvals' \in {Tail(approvals), Tail(erasing), approvals, erasing}
  BY DEF Approval!Overlapped
<1>3. Approval!TypeOK'
  <2>1. Tail(approvals) \in Seq(Approval!Requests) /\ Tail(erasing) \in Seq(Approval!Requests)
    BY <1>1
  <2>2. approvals' \in Seq(Approval!Requests)
    BY <1>1, <1>2, <2>1, Zenon
  <2>. QED
    BY <2>2 DEF Approval!TypeOK
<1>4. PendingInv' /\ DecisionInv'
  BY DEF PendingInv, DecisionInv
<1>5. \A i \in 1 .. Len(approvals') : approvals'[i] <= counter
  <2>1. CASE approvals' = Tail(approvals)
    BY <1>1, <2>1 DEF QueueInv
  <2>2. CASE approvals' = Tail(erasing)
    BY <1>1, <2>2 DEF QueueInv
  <2>3. CASE approvals' \in {approvals, erasing}
    BY <2>3 DEF QueueInv
  <2>. QED
    BY <1>2, <2>1, <2>2, <2>3
<1>6. QueueInv'
  BY <1>5 DEF QueueInv
<1>. QED
  BY <1>3, <1>4, <1>6

LEMMA ConsentInvKept == ConsentInv /\ [Approval!Next]_consentVars => ConsentInv'
<1>. SUFFICES ASSUME ConsentInv, [Approval!Next]_consentVars PROVE ConsentInv'
  OBVIOUS
<1>1. CASE Approval!Ask
  BY <1>1, AskKeeps
<1>2. CASE Approval!Wake \/ Approval!TimeOut
  BY <1>2, ReturnKeeps DEF Approval!Wake, Approval!TimeOut
<1>3. CASE Approval!SetAutoApprove
  BY <1>3 DEF Approval!SetAutoApprove, ConsentInv, Approval!TypeOK, PendingInv, DecisionInv, QueueInv,
              Approval!providerVars, Approval!operatorVars
<1>4. CASE Approval!PressApprove
  BY <1>4, PressKeeps
<1>5. CASE Approval!EraseApproved
  BY <1>5, EraseKeeps
<1>6. CASE UNCHANGED consentVars
  BY <1>6 DEF consentVars, ConsentInv, Approval!TypeOK, PendingInv, DecisionInv, QueueInv,
              Approval!providerVars, Approval!operatorVars
<1>. QED
  BY <1>1, <1>2, <1>3, <1>4, <1>5, <1>6 DEF Approval!Next, Approval!AgentThread, Approval!UIThread

(***************************************************************************)
(* What the provider, the queue and the keys keep in every state, as they  *)
(* do in ConsentProofs: the prover cites no theorem through an INSTANCE.   *)
(***************************************************************************)
THEOREM ConsentInvariant == Spec => []ConsentInv
<1>1. Init => ConsentInv
  BY ConsentInit DEF Init
<1>. QED
  BY <1>1, ConsentStep, ConsentInvKept, PTL DEF Spec

(***************************************************************************)
(* In the cockpit too, a script's tool is allowed only when the operator   *)
(* approved that very request, whatever turns, events and keys came        *)
(* between (cockpit_consent.hpp, lines 45-79).                             *)
(***************************************************************************)
THEOREM AllowNeedsApproval == Spec => []Approval!AllowIsApproved
<1>1. ConsentInv => Approval!AllowIsApproved
  BY DEF ConsentInv, DecisionInv, Approval!AllowIsApproved
<1>. QED
  BY <1>1, ConsentInvariant, PTL

(***************************************************************************)
(* In the cockpit too, an approval that came while the request waited is   *)
(* never answered with a refusal (cockpit_consent.hpp, lines 56-69).       *)
(***************************************************************************)
THEOREM AcceptedStands == Spec => []Approval!AcceptedIsNotDenied
<1>1. ConsentInv => Approval!AcceptedIsNotDenied
  BY DEF ConsentInv, DecisionInv, Approval!AcceptedIsNotDenied
<1>. QED
  BY <1>1, ConsentInvariant, PTL
-----------------------------------------------------------------------------
\* Who waits for the operator: the script of the last turn, and nobody once
\* the agent thread has been joined for good.
WaitInv ==
    /\ asking # 0 => turns > 0 /\ thread[turns] = "script"
    /\ ui \in {"quitting", "over"} => \A t \in Turns : ~Alive(t)

LEMMA WaitInvKept == WaitInv /\ TurnInv /\ JoinInv /\ [Next]_vars => WaitInv'
<1>. SUFFICES ASSUME WaitInv, TurnInv, JoinInv, [Next]_vars PROVE WaitInv'
  OBVIOUS
<1>1. ASSUME UNCHANGED <<thread, turns>>, asking' = asking \/ asking' = 0,
             ui' = ui \/ ui' \notin {"quitting", "over"} \/ ui = "quitting"
      PROVE  WaitInv'
  BY <1>1 DEF WaitInv, Alive
<1>2. CASE \E t \in Turns : AgentThread(t)
  <2>. PICK t \in Turns : AgentThread(t)
    BY <1>2
  <2>1. ui' = ui /\ turns' = turns
    BY AgentThreadKeepsUi
  <2>2. ASSUME Alive(t), asking' = asking, asking = 0 \/ thread[t] # "script",
               \E place \in Places : thread' = [thread EXCEPT ![t] = place]
        PROVE  WaitInv'
    <3>1. t = turns
      BY <2>2 DEF TurnInv
    <3>. QED
      BY <2>1, <2>2, <3>1 DEF WaitInv
  <2>3. CASE OnToken(t) \/ OnRetry(t)
    BY <1>1, <2>1, <2>3 DEF OnToken, OnRetry, consentVars
  <2>4. CASE AskOperator(t)
    <3>1. Alive(t) /\ thread[t] = "script" /\ UNCHANGED thread
      BY <2>4 DEF AskOperator, Alive, turnVars
    <3>2. t = turns /\ t > 0
      BY <3>1, CockpitAssumption DEF TurnInv, Turns
    <3>. QED
      BY <2>1, <3>1, <3>2 DEF WaitInv
  <2>5. CASE OnTurnComplete(t) \/ RunScript(t) \/ ReturnFromRunStep(t)
    BY <2>2, <2>5 DEF OnTurnComplete, RunScript, ReturnFromRunStep, Goto, Alive, Places,
                      consentVars
  <2>6. CASE OnToolResult(t) \/ PostAgentError(t)
    BY <2>2, <2>6 DEF OnToolResult, PostAgentError, Goto, Alive, Running, Places,
                      consentVars
  <2>7. CASE ResetDriver(t) \/ ClearBusy(t)
    BY <2>2, <2>7 DEF ResetDriver, ClearBusy, Goto, Alive, Places, consentVars
  <2>. QED
    BY <2>3, <2>4, <2>5, <2>6, <2>7 DEF AgentThread
<1>3. CASE JoinAndStart
  <2>1. /\ asking' = asking /\ ui' = "loop"
        /\ turns > 0 => thread[turns] = "ended"
    BY <1>3 DEF JoinAndStart, BeginTurn, consentVars
  <2>. QED
    BY <2>1 DEF WaitInv
<1>4. CASE JoinAndQuit
  <2>1. /\ turns > 0 => thread[turns] = "ended"
        /\ UNCHANGED <<thread, turns, asking>>
    BY <1>4 DEF JoinAndQuit, turnVars, consentVars
  <2>2. \A t \in Turns : ~Alive(t)
    BY <2>1, CockpitAssumption DEF TurnInv, Alive, Turns
  <2>. QED
    BY <2>1, <2>2 DEF WaitInv, Alive
<1>5. CASE AnswerWaiting
  BY <1>1, <1>5 DEF AnswerWaiting, Approval!Wake, Approval!TimeOut, Approval!Return,
                    Approval!None, uiVars, turnVars
<1>6. CASE HandleEvent \/ FinishAnswerKey \/ LeaveLoop \/ JoinBusThread
  BY <1>1, <1>6 DEF HandleEvent, FinishAnswerKey, LeaveLoop, JoinBusThread, uiVars, turnVars,
                    consentVars, Approval!EraseApproved, Approval!providerVars
<1>7. CASE BusThread
  BY <1>1, <1>7 DEF BusThread, CheckRunning, MoveEvent, uiVars, turnVars, consentVars
<1>8. CASE Operator
  BY <1>1, <1>8 DEF Operator, Submit, AnswerKey, RequestShutdown, uiVars, turnVars,
                    consentVars, Approval!PressApprove, Approval!SetAutoApprove,
                    Approval!providerVars
<1>9. CASE UNCHANGED vars
  BY <1>1, <1>9 DEF vars, uiVars, turnVars, consentVars
<1>. QED
  BY <1>2, <1>3, <1>4, <1>5, <1>6, <1>7, <1>8, <1>9 DEF Next, UiThread

(***************************************************************************)
(* One thread at most asks the operator, as Consent takes for granted: the *)
(* one that waits runs the script of the last turn started, which is the   *)
(* turn a stop is sent to (lines 285-288 and 1094-1101).                   *)
(***************************************************************************)
TheLastTurnWaits ==
    asking # 0 => thread[turns] = "script" /\ driver = turns

(***************************************************************************)
(* Once the agent thread is joined for good no thread of a turn is alive,  *)
(* and none waits for an operator who can no longer answer (lines          *)
(* 1114-1122).                                                             *)
(***************************************************************************)
NobodyIsLeftBehind ==
    ui \in {"quitting", "over"} => asking = 0 /\ \A t \in Turns : ~Alive(t)

(***************************************************************************)
(* Who waits for the operator, for any number of turns and requests.       *)
(***************************************************************************)
THEOREM WaitInvariant == Spec => []WaitInv
<1>1. Init => WaitInv
  BY DEF Init, WaitInv, Approval!Init, Approval!None
<1>. QED
  BY <1>1, WaitInvKept, TurnInvariant, PTL DEF Spec

(***************************************************************************)
(* The wait is the last turn's, and so is the stop of Ctrl-C.              *)
(***************************************************************************)
THEOREM OneWaits == Spec => []TheLastTurnWaits
<1>1. WaitInv /\ TurnInv => TheLastTurnWaits
  BY CockpitAssumption DEF WaitInv, TurnInv, TheLastTurnWaits, Running, Turns
<1>. QED
  BY <1>1, WaitInvariant, TurnInvariant, PTL

(***************************************************************************)
(* The end of the cockpit leaves no agent thread behind.                   *)
(***************************************************************************)
THEOREM NobodyIsLeft == Spec => []NobodyIsLeftBehind
<1>1. WaitInv /\ TurnInv => NobodyIsLeftBehind
  BY CockpitAssumption DEF WaitInv, TurnInv, NobodyIsLeftBehind, Turns, Alive
<1>. QED
  BY <1>1, WaitInvariant, TurnInvariant, PTL

\* The rest of the type invariant.
PlaceInv ==
    /\ ui \in {"loop", "joining", "leaving", "quitting", "over"}
    /\ running \in BOOLEAN /\ busy \in BOOLEAN
    /\ driver \in 0 .. MaxTurns /\ stopped \subseteq Turns
    /\ rounds \in Nat /\ pieces \in Nat
    /\ busThread \in {"check", "move", "ended"}

LEMMA PlaceInvKept ==
    ASSUME PlaceInv, TurnInv, JoinInv, [Next]_vars
    PROVE  PlaceInv'
<1>. USE CockpitAssumption DEF PlaceInv, uiVars, turnVars, sharedVars, busVars, Post
<1>1. CASE \E t \in Turns : AgentThread(t)
  <2>. PICK t \in Turns : AgentThread(t)
    BY <1>1
  <2>1. CASE OnToken(t) \/ OnRetry(t) \/ AskOperator(t)
    BY <2>1 DEF OnToken, OnRetry, AskOperator
  <2>2. CASE OnTurnComplete(t) \/ RunScript(t) \/ OnToolResult(t)
    BY <2>2 DEF OnTurnComplete, RunScript, OnToolResult
  <2>3. CASE ReturnFromRunStep(t) \/ PostAgentError(t)
    BY <2>3 DEF ReturnFromRunStep, PostAgentError
  <2>4. CASE ResetDriver(t)
    BY <2>4 DEF ResetDriver
  <2>5. CASE ClearBusy(t)
    <3>1. busy' = FALSE /\ UNCHANGED <<ui, running, driver, stopped, rounds, pieces, busThread>>
      BY <2>5 DEF ClearBusy
    <3>. QED
      BY <3>1
  <2>. QED
    BY <2>1, <2>2, <2>3, <2>4, <2>5 DEF AgentThread
<1>2. CASE AnswerWaiting \/ BusThread
  BY <1>2 DEF AnswerWaiting, BusThread, CheckRunning, MoveEvent
<1>3. CASE JoinAndStart
  <2>1. /\ ui' = "loop" /\ busy' = TRUE /\ pieces' = 0 /\ driver' = turns + 1
        /\ UNCHANGED <<running, stopped, rounds, busThread>> /\ ui = "joining"
    BY <1>3, Zenon DEF JoinAndStart, BeginTurn
  <2>. QED
    BY <2>1 DEF TurnInv, JoinInv
<1>4. CASE HandleEvent
  <2>1. /\ busy' = (busy /\ Head(pending).kind # "error")
        /\ UNCHANGED <<ui, running, driver, stopped, rounds, pieces, busThread>>
    BY <1>4 DEF HandleEvent
  <2>. QED
    BY <2>1
<1>5. CASE FinishAnswerKey \/ LeaveLoop \/ JoinAndQuit \/ JoinBusThread
  BY <1>5 DEF FinishAnswerKey, LeaveLoop, JoinAndQuit, JoinBusThread
<1>6. CASE Operator
  <2>1. CASE RequestShutdown
    <3>1. /\ running' = FALSE /\ stopped' = IF driver # 0 THEN stopped \cup {driver} ELSE stopped
          /\ UNCHANGED <<ui, busy, driver, rounds, pieces, busThread>>
      BY <2>1 DEF RequestShutdown
    <3>2. stopped' \subseteq Turns
      BY <3>1 DEF Turns
    <3>. QED
      BY <3>1, <3>2
  <2>. QED
    BY <1>6, <2>1 DEF Operator, Submit, AnswerKey
<1>7. CASE UNCHANGED vars
  BY <1>7 DEF vars
<1>. QED
  BY <1>1, <1>2, <1>3, <1>4, <1>5, <1>6, <1>7 DEF Next, UiThread

(***************************************************************************)
(* The types of the cockpit's state, the operator's part with it.          *)
(***************************************************************************)
THEOREM TypeCorrect == Spec => []TypeOK
<1>1. Init => PlaceInv
  <2>. SUFFICES ASSUME Init PROVE PlaceInv
    OBVIOUS
  <2>1. /\ ui = "loop" /\ running = TRUE /\ busy = FALSE /\ driver = 0 /\ stopped = {}
        /\ rounds = 0 /\ pieces = 0 /\ busThread = "check"
    BY DEF Init
  <2>2. running \in BOOLEAN /\ busy \in BOOLEAN
    BY <2>1, Zenon
  <2>3. driver \in 0 .. MaxTurns /\ rounds \in Nat /\ pieces \in Nat
    BY <2>1, CockpitAssumption
  <2>. QED
    BY <2>1, <2>2, <2>3, Zenon DEF PlaceInv
<1>2. ConsentInv /\ PlaceInv /\ TurnInv /\ WayInv /\ TalkInv => TypeOK
  BY DEF ConsentInv, PlaceInv, TurnInv, WayInv, Numbered, TalkInv, TypeOK, Places
<1>. QED
  BY <1>1, <1>2, ConsentInvariant, PlaceInvKept, TalkInvariant, WayInvariant,
     TurnInvariant, PTL DEF Spec
=============================================================================
