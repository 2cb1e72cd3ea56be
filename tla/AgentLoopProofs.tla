--------------------------- MODULE AgentLoopProofs ---------------------------
(***************************************************************************)
(* Proofs about the ReAct loop, for all limits and any number of turns,    *)
(* tools, injected messages, failed writes and deaths of the process.      *)
(*                                                                         *)
(* Each invariant is made inductive by saying what holds between the steps *)
(* at which it can be seen, and proved from the types and itself.          *)
(***************************************************************************)
EXTENDS AgentLoop, Integers, TLAPS

\* The rows the failures so far may have cost: two for each, less the one a
\* statement that is still broken has to come.
Credit == 2 * failures - (IF "invocation" \in broken THEN 1 ELSE 0)

Running == IF pc = "tool" THEN 1 ELSE 0

AuditInv ==
    /\ toolRows + thrown <= effects
    /\ pc = "tool" => toolRows + thrown < effects
    /\ effects <= toolRows + thrown + crashes + Running + Credit

\* A signal that is set was set in this turn, once the user's message is in.
DoneInv ==
    /\ endedBy = "done" => pc = "idle" /\ doneCalled
    /\ (done /\ pc \notin {"idle", "system", "user"}) => doneCalled

\* The cache ends with an input from the top of the loop to the request.
InputInv ==
    pc \in {"top", "drain", "request"} =>
        /\ cache # <<>>
        /\ cache[Len(cache)].role \in {"User", "Tool"}

\* Until the reply under way is in, none is.
StopInv ==
    /\ stop /\ pc \in {"drain", "request", "answer"} =>
          \A i \in DOMAIN history : i > stoppedAt => history[i].role # "Assistant"
    /\ StopEndsTheLoop

\* The conversation is empty exactly until its system prompt is added ...
PromptInv ==
    /\ pc = "system" => history = <<>>
    /\ pc \notin {"idle", "system"} => history # <<>>

\* ... and, while the database works, its three forms are one.
OneConversation ==
    /\ broken = {} /\ history = cache /\ cache = db
    /\ \A i \in 1 .. Len(db) : db[i].role = "System" <=> i = 1

CleanInv == PromptInv /\ (failures = 0 => OneConversation)

\* The stored messages are in order, and come before the queued ones.
DbOrdered ==
    /\ \A i, j \in 1 .. Len(db) :
          (i < j /\ db[i].no # 0 /\ db[j].no # 0) => db[i].no < db[j].no
    /\ \A i \in 1 .. Len(db) : db[i].no <= injections

InboxOrdered ==
    /\ \A k \in 1 .. Len(inbox) : inbox[k] <= injections
    /\ \A k, l \in 1 .. Len(inbox) : k < l => inbox[k] < inbox[l]

DbBeforeInbox ==
    \A i \in 1 .. Len(db), k \in 1 .. Len(inbox) : db[i].no < inbox[k]

OrderInv == DbOrdered /\ InboxOrdered /\ DbBeforeInbox
-----------------------------------------------------------------------------
\* What a message adds to the three sequences, or to history alone.
LEMMA Added ==
    ASSUME TypeOK, NEW role \in Roles, NEW no \in 0 .. MaxInjections,
           AddToHistory(role, no)
    PROVE  /\ history' \in Seq(Messages) /\ cache' \in Seq(Messages)
           /\ db' \in Seq(Messages)
           /\ Len(history') = Len(history) + 1 /\ Len(cache') = Len(cache) + 1
           /\ Len(db') = Len(db) + 1
           /\ \A i \in 1 .. Len(history) : history'[i] = history[i]
           /\ \A i \in 1 .. Len(cache) : cache'[i] = cache[i]
           /\ \A i \in 1 .. Len(db) : db'[i] = db[i]
           /\ history'[Len(history')] = db'[Len(db')]
           /\ cache'[Len(cache')] = db'[Len(db')]
           /\ db'[Len(db')].role = role /\ db'[Len(db')].no = no
           /\ Sound("message") /\ UNCHANGED storageVars
<1>. DEFINE msg == [role |-> role, no |-> no, id |-> Len(db) + 1]
<1>1. /\ history' = Append(history, msg) /\ db' = Append(db, msg)
      /\ cache' = Append(cache, msg)
      /\ Sound("message") /\ UNCHANGED storageVars
  BY DEF AddToHistory, Stored
<1>2. msg \in Messages /\ msg.role = role /\ msg.no = no
  BY DEF Messages, TypeOK
<1>. HIDE DEF msg
<1>. QED
  BY <1>1, <1>2 DEF TypeOK, ConversationType

LEMMA NotAdded ==
    ASSUME TypeOK, NEW role \in Roles, NEW no \in 0 .. MaxInjections,
           FailToAdd(role, no)
    PROVE  /\ history' \in Seq(Messages) /\ UNCHANGED <<cache, db>>
           /\ Len(history') = Len(history) + 1
           /\ \A i \in 1 .. Len(history) : history'[i] = history[i]
           /\ history'[Len(history')].role = role
           /\ NotStored("message")
<1>. DEFINE msg == [role |-> role, no |-> no, id |-> 0]
<1>1. /\ history' = Append(history, msg) /\ UNCHANGED <<cache, db>>
      /\ NotStored("message")
  BY DEF FailToAdd
<1>2. msg \in Messages /\ msg.role = role
  BY DEF Messages
<1>. HIDE DEF msg
<1>. QED
  BY <1>1, <1>2 DEF TypeOK, ConversationType

\* How a step changes the conversation.
LEMMA ConversationStep ==
    ASSUME TypeOK, [Next]_vars
    PROVE  \/ UNCHANGED conversation
           \/ \E role \in Roles, no \in 0 .. MaxInjections : AddToHistory(role, no)
           \/ \E role \in Roles, no \in 0 .. MaxInjections : FailToAdd(role, no)
           \/ CrashAndRestart
<1>. USE AgentLoopAssumption DEF Roles
<1>1. CASE StartTurn \/ Leave \/ Proceed \/ SendRequest \/ Receive \/ LogAnswer
  BY <1>1 DEF StartTurn, Leave, Proceed, SendRequest, Receive, LogAnswer
<1>2. CASE AddSystemPrompt
  BY <1>2 DEF AddSystemPrompt
<1>3. CASE AddUserMessage \/ AddAnswer \/ AddResult
  BY <1>3 DEF AddUserMessage, AddAnswer, AddResult
<1>4. CASE TakeInjection
  <2>1. Head(inbox) \in 0 .. MaxInjections
    BY <1>4 DEF TakeInjection, TypeOK, DriverType, Injected
  <2>. QED
    BY <1>4, <2>1 DEF TakeInjection
<1>5. ASSUME NEW tool \in {"done_task", "other"}, InvokeTool(tool)
      PROVE  UNCHANGED conversation
  BY <1>5 DEF InvokeTool
<1>6. CASE FailBeforeTool \/ ToolThrows \/ RecordTool \/ FinishScript
  BY <1>6 DEF FailBeforeTool, ToolThrows, RecordTool, FinishScript
<1>7. CASE RequestStop \/ Inject \/ Expire
  BY <1>7 DEF RequestStop, Inject, Expire
<1>8. CASE UNCHANGED vars
  BY <1>8 DEF vars
<1>. QED
  BY <1>1, <1>2, <1>3, <1>4, <1>5, <1>6, <1>7, <1>8 DEF Next, AgentStep, Environment

\* How a step changes the state of the database's connection.
LEMMA StorageStep ==
    ASSUME TypeOK, [Next]_vars
    PROVE  \/ UNCHANGED storageVars
           \/ \E stmt \in Statements : NotStored(stmt)
           \/ CrashAndRestart
<1>. USE DEF Statements, Stored, AddToHistory, FailToAdd
<1>1. CASE StartTurn \/ Leave \/ Proceed \/ SendRequest \/ Receive
  BY <1>1 DEF StartTurn, Leave, Proceed, SendRequest, Receive
<1>2. CASE AddSystemPrompt
  BY <1>2 DEF AddSystemPrompt
<1>3. CASE AddUserMessage \/ AddAnswer \/ AddResult \/ TakeInjection
  BY <1>3 DEF AddUserMessage, AddAnswer, AddResult, TakeInjection
<1>4. CASE LogAnswer
  BY <1>4 DEF LogAnswer
<1>5. ASSUME NEW tool \in {"done_task", "other"}, InvokeTool(tool)
      PROVE  UNCHANGED storageVars
  BY <1>5 DEF InvokeTool
<1>6. CASE FailBeforeTool \/ ToolThrows \/ RecordTool \/ FinishScript
  BY <1>6 DEF FailBeforeTool, ToolThrows, RecordTool, FinishScript
<1>7. CASE RequestStop \/ Inject \/ Expire
  BY <1>7 DEF RequestStop, Inject, Expire
<1>8. CASE UNCHANGED vars
  BY <1>8 DEF vars
<1>. QED
  BY <1>1, <1>2, <1>3, <1>4, <1>5, <1>6, <1>7, <1>8 DEF Next, AgentStep, Environment
-----------------------------------------------------------------------------
LEMMA ConversationTypeStep ==
    ASSUME TypeOK, [Next]_vars PROVE ConversationType'
<1>1. CASE UNCHANGED conversation
  BY <1>1 DEF TypeOK, ConversationType, conversation
<1>2. ASSUME NEW role \in Roles, NEW no \in 0 .. MaxInjections, AddToHistory(role, no)
      PROVE  ConversationType'
  BY <1>2, Added DEF ConversationType
<1>3. ASSUME NEW role \in Roles, NEW no \in 0 .. MaxInjections, FailToAdd(role, no)
      PROVE  ConversationType'
  BY <1>3, NotAdded DEF ConversationType, TypeOK
<1>4. CASE CrashAndRestart
  <2>1. UNCHANGED db /\ db \in Seq(Messages)
    BY <1>4 DEF CrashAndRestart, TypeOK, ConversationType
  <2>2. CASE history' = db /\ cache' = db
    BY <2>1, <2>2 DEF ConversationType
  <2>3. CASE history' = <<>> /\ cache' = <<>>
    BY <2>1, <2>3 DEF ConversationType
  <2>. QED
    BY <1>4, <2>2, <2>3 DEF CrashAndRestart, Restore
<1>. QED
  BY <1>1, <1>2, <1>3, <1>4, ConversationStep

LEMMA LoopTypeStep ==
    ASSUME TypeOK, [Next]_vars PROVE LoopType'
<1>. USE DEF TypeOK, LoopType, Places, loopVars, Goto, EndTurn
<1>1. CASE StartTurn
  BY <1>1 DEF StartTurn
<1>2. CASE AddSystemPrompt
  BY <1>2 DEF AddSystemPrompt
<1>3. CASE AddUserMessage
  <2>1. CASE Goto("top") /\ done' = FALSE /\ iterations' = 0 /\ idleTurns' = 0
    BY <1>3, <2>1 DEF AddUserMessage
  <2>2. CASE EndTurn("error") /\ UNCHANGED <<done, iterations, idleTurns>>
    BY <1>3, <2>2 DEF AddUserMessage
  <2>. QED
    BY <1>3, <2>1, <2>2 DEF AddUserMessage
<1>4. CASE Leave
  BY <1>4 DEF Leave
<1>5. CASE Proceed
  BY <1>5 DEF Proceed
<1>6. CASE TakeInjection
  BY <1>6 DEF TakeInjection
<1>7. CASE SendRequest
  BY <1>7 DEF SendRequest
<1>8. CASE Receive
  BY <1>8 DEF Receive
<1>9. CASE AddAnswer
  BY <1>9 DEF AddAnswer
<1>10. CASE LogAnswer
  BY <1>10 DEF LogAnswer
<1>11. ASSUME NEW tool \in {"done_task", "other"}, InvokeTool(tool) PROVE LoopType'
  BY <1>11 DEF InvokeTool
<1>12. CASE FailBeforeTool \/ ToolThrows
  BY <1>12 DEF FailBeforeTool, ToolThrows
<1>13. CASE RecordTool
  BY <1>13 DEF RecordTool
<1>14. CASE FinishScript
  BY <1>14 DEF FinishScript
<1>15. CASE AddResult
  BY <1>15 DEF AddResult
<1>16. CASE RequestStop \/ Inject \/ Expire
  BY <1>16 DEF RequestStop, Inject, Expire
<1>17. CASE CrashAndRestart
  BY <1>17 DEF CrashAndRestart
<1>18. CASE UNCHANGED vars
  BY <1>18 DEF vars
<1>. QED
  BY <1>1, <1>2, <1>3, <1>4, <1>5, <1>6, <1>7, <1>8, <1>9, <1>10, <1>11, <1>12, <1>13,
     <1>14, <1>15, <1>16, <1>17, <1>18 DEF Next, AgentStep, Environment

\* How a step changes the driver's fields.
LEMMA DriverStep ==
    ASSUME [Next]_vars
    PROVE  \/ UNCHANGED driverVars
           \/ StartTurn \/ TakeInjection \/ RequestStop \/ Inject \/ Expire
           \/ CrashAndRestart
<1>1. CASE AddSystemPrompt \/ AddUserMessage \/ AddAnswer \/ AddResult
  BY <1>1 DEF AddSystemPrompt, AddUserMessage, AddAnswer, AddResult
<1>2. CASE Leave \/ Proceed \/ SendRequest \/ Receive \/ LogAnswer
  BY <1>2 DEF Leave, Proceed, SendRequest, Receive, LogAnswer
<1>3. CASE FailBeforeTool \/ ToolThrows \/ RecordTool \/ FinishScript
  BY <1>3 DEF FailBeforeTool, ToolThrows, RecordTool, FinishScript
<1>4. ASSUME NEW tool \in {"done_task", "other"}, InvokeTool(tool)
      PROVE  UNCHANGED driverVars
  BY <1>4 DEF InvokeTool
<1>5. CASE UNCHANGED vars
  BY <1>5 DEF vars
<1>. QED
  BY <1>1, <1>2, <1>3, <1>4, <1>5 DEF Next, AgentStep, Environment

LEMMA DriverTypeStep ==
    ASSUME TypeOK, [Next]_vars PROVE DriverType'
<1>. USE AgentLoopAssumption DEF TypeOK, DriverType
<1>0. <<>> \in Seq(Injected)
  OBVIOUS
<1>1. CASE UNCHANGED driverVars
  BY <1>1 DEF driverVars
<1>2. CASE StartTurn
  <2>1. CASE NewDriver
    BY <1>0, <1>2, <2>1 DEF StartTurn, NewDriver
  <2>2. CASE UNCHANGED <<driver, stop, inbox, stoppedAt>>
    BY <1>2, <2>2 DEF StartTurn
  <2>. QED
    BY <1>2, <2>1, <2>2 DEF StartTurn
<1>3. CASE TakeInjection
  BY <1>3 DEF TakeInjection
<1>4. CASE RequestStop
  BY <1>4 DEF RequestStop, ConversationType
<1>5. CASE Inject
  <2>1. injections' \in Injected
    BY <1>5 DEF Inject, Injected
  <2>. QED
    BY <1>5, <2>1 DEF Inject, Injected
<1>6. CASE Expire
  BY <1>6 DEF Expire
<1>7. CASE CrashAndRestart
  BY <1>0, <1>7 DEF CrashAndRestart
<1>. QED
  BY <1>1, <1>2, <1>3, <1>4, <1>5, <1>6, <1>7, DriverStep
-----------------------------------------------------------------------------
LEMMA CreditStep ==
    ASSUME TypeOK, [Next]_vars
    PROVE  /\ broken' \subseteq Statements /\ failures' \in 0 .. MaxFailures
           /\ Credit' >= Credit
<1>. USE AgentLoopAssumption DEF TypeOK, CountersType, Credit
<1>1. CASE UNCHANGED storageVars
  BY <1>1 DEF storageVars
<1>2. ASSUME NEW stmt \in Statements, NotStored(stmt)
      PROVE  /\ broken' \subseteq Statements /\ failures' \in 0 .. MaxFailures
             /\ Credit' >= Credit
  <2>1. CASE ~Sound(stmt) /\ broken' = broken \ {stmt} /\ UNCHANGED failures
    BY <2>1
  <2>2. CASE /\ failures < MaxFailures /\ failures' = failures + 1
             /\ broken' = broken \cup {stmt}
    BY <2>2
  <2>. QED
    BY <1>2, <2>1, <2>2 DEF NotStored
<1>3. CASE CrashAndRestart
  <2>1. broken' = {}
    BY <1>3 DEF CrashAndRestart
  <2>2. failures' = failures \/ (failures < MaxFailures /\ failures' = failures + 1)
    BY <1>3 DEF CrashAndRestart, Restore
  <2>. QED
    BY <2>1, <2>2
<1>. QED
  BY <1>1, <1>2, <1>3, StorageStep

\* How a step changes the counters of the tools.
LEMMA ToolStep ==
    ASSUME TypeOK, [Next]_vars
    PROVE  \/ UNCHANGED <<toolVars, crashes>> /\ (pc' = "tool" <=> pc = "tool")
           \/ \E tool \in {"done_task", "other"} : InvokeTool(tool)
           \/ ToolThrows \/ RecordTool \/ CrashAndRestart
<1>. USE DEF toolVars, otherVars, Goto, EndTurn
<1>1. CASE StartTurn
  BY <1>1 DEF StartTurn
<1>2. CASE AddSystemPrompt
  BY <1>2 DEF AddSystemPrompt
<1>3. CASE AddUserMessage
  BY <1>3 DEF AddUserMessage
<1>4. CASE Leave \/ Proceed
  BY <1>4 DEF Leave, Proceed
<1>5. CASE TakeInjection
  BY <1>5 DEF TakeInjection
<1>6. CASE SendRequest \/ Receive
  BY <1>6 DEF SendRequest, Receive
<1>7. CASE AddAnswer
  BY <1>7 DEF AddAnswer
<1>8. CASE LogAnswer
  BY <1>8 DEF LogAnswer
<1>9. CASE FailBeforeTool
  BY <1>9 DEF FailBeforeTool
<1>10. CASE FinishScript
  BY <1>10 DEF FinishScript
<1>11. CASE AddResult
  BY <1>11 DEF AddResult
<1>12. CASE RequestStop \/ Inject \/ Expire
  BY <1>12 DEF RequestStop, Inject, Expire
<1>13. CASE UNCHANGED vars
  BY <1>13 DEF vars
<1>. QED
  BY <1>1, <1>2, <1>3, <1>4, <1>5, <1>6, <1>7, <1>8, <1>9, <1>10, <1>11, <1>12, <1>13
     DEF Next, AgentStep, Environment

LEMMA AuditStep ==
    ASSUME TypeOK, AuditInv, [Next]_vars
    PROVE  /\ AuditInv'
           /\ effects' \in 0 .. MaxTools /\ toolRows' \in 0 .. MaxTools
           /\ thrown' \in 0 .. MaxTools
           /\ crashes' \in 0 .. MaxCrashes
<1>. USE AgentLoopAssumption DEF AuditInv, TypeOK, CountersType, Credit, Running
<1>1. /\ Credit \in Int /\ Credit' \in Int /\ Credit' >= Credit
  <2>1. failures \in Nat /\ failures' \in Nat
    BY CreditStep
  <2>2. Credit \in Int /\ Credit' \in Int
    BY <2>1 DEF Credit
  <2>. QED
    BY <2>2, CreditStep
<1>2. CASE UNCHANGED <<toolVars, crashes>> /\ (pc' = "tool" <=> pc = "tool")
  <2>1. /\ effects' = effects /\ toolRows' = toolRows /\ crashes' = crashes
        /\ thrown' = thrown
        /\ Running' = Running /\ Running \in Nat
    BY <1>2 DEF toolVars, Running
  <2>. QED
    BY <1>1, <1>2, <2>1
<1>3. ASSUME NEW tool \in {"done_task", "other"}, InvokeTool(tool)
      PROVE  /\ effects' = effects + 1 /\ UNCHANGED <<toolRows, thrown, crashes>>
             /\ Running = 0 /\ Running' = 1 /\ effects < MaxTools
  BY <1>3 DEF InvokeTool, Goto, otherVars, Running
<1>4. CASE \E tool \in {"done_task", "other"} : InvokeTool(tool)
  BY <1>1, <1>3, <1>4
<1>5. CASE RecordTool
  <2>1. /\ pc = "tool" /\ pc' = "script" /\ Running = 1 /\ Running' = 0
        /\ effects' = effects /\ thrown' = thrown /\ crashes' = crashes
    BY <1>5 DEF RecordTool, Goto, otherVars, Running
  <2>2. CASE toolRows' = toolRows + 1
    <3>1. toolRows' \in 0 .. MaxTools
      BY <2>1, <2>2
    <3>. QED
      BY <1>1, <2>1, <2>2, <3>1
  <2>3. CASE NotStored("invocation") /\ UNCHANGED toolRows
    <3>1. Credit' = Credit + 1
      BY <2>3 DEF NotStored, Sound, Credit
    <3>. QED
      BY <1>1, <2>1, <2>3, <3>1
  <2>. QED
    BY <1>5, <2>2, <2>3 DEF RecordTool
<1>6. CASE CrashAndRestart
  <2>1. /\ effects' = effects /\ toolRows' = toolRows /\ thrown' = thrown
        /\ pc' = "idle" /\ Running' = 0 /\ Running \in Nat
        /\ crashes' = crashes + 1 /\ crashes < MaxCrashes
    BY <1>6 DEF CrashAndRestart, Running, toolVars
  <2>. QED
    BY <1>1, <2>1
<1>7. CASE ToolThrows
  <2>1. /\ effects' = effects + 1 /\ thrown' = thrown + 1 /\ toolRows' = toolRows
        /\ crashes' = crashes /\ effects < MaxTools
        /\ pc = "script" /\ pc' = "script" /\ Running = 0 /\ Running' = 0
    BY <1>7 DEF ToolThrows, otherVars, Running
  <2>. QED
    BY <1>1, <2>1
<1>. QED
  BY <1>2, <1>4, <1>5, <1>6, <1>7, ToolStep

LEMMA CountersTypeStep ==
    ASSUME TypeOK, AuditInv, [Next]_vars PROVE CountersType'
<1>1. autoApprove' = autoApprove /\ turns' \in 0 .. MaxTurns
  <2>. USE AgentLoopAssumption DEF TypeOK, CountersType, otherVars
  <2>1. CASE StartTurn
    BY <2>1 DEF StartTurn
  <2>2. CASE AgentStep
    BY <2>2 DEF AgentStep, AddSystemPrompt, AddUserMessage, Leave, Proceed,
       TakeInjection, SendRequest, Receive, AddAnswer, LogAnswer, InvokeTool,
       ToolThrows, FailBeforeTool, RecordTool, FinishScript, AddResult
  <2>3. CASE Environment
    BY <2>3 DEF Environment, RequestStop, Inject, Expire, CrashAndRestart
  <2>4. CASE UNCHANGED vars
    BY <2>4 DEF vars
  <2>. QED
    BY <2>1, <2>2, <2>3, <2>4 DEF Next
<1>2. autoApprove \in BOOLEAN
  BY DEF TypeOK, CountersType
<1>. QED
  BY <1>1, <1>2, CreditStep, AuditStep DEF CountersType
-----------------------------------------------------------------------------
LEMMA SentStep ==
    ASSUME TypeOK, SentIsStored, [Next]_vars PROVE SentIsStored'
<1>1. PICK gap \in 0 .. Len(db) :
         /\ Len(cache) = Len(db) - gap
         /\ \A i \in 1 .. Len(cache) : cache[i] = db[gap + i]
         /\ failures = 0 => gap = 0
  BY DEF SentIsStored
<1>2. /\ Len(db) \in Nat /\ Len(cache) \in Nat /\ gap \in Nat /\ failures \in Nat
  BY AgentLoopAssumption DEF TypeOK, ConversationType, CountersType
<1>3. failures' \in Nat /\ (~CrashAndRestart => (failures' = 0 => failures = 0))
  <2>1. CASE UNCHANGED storageVars
    BY <2>1, <1>2 DEF storageVars
  <2>2. ASSUME NEW stmt \in Statements, NotStored(stmt)
        PROVE  failures' \in Nat /\ (failures' = 0 => failures = 0)
    BY <2>2, <1>2 DEF NotStored
  <2>3. CASE CrashAndRestart
    BY <2>3, <1>2 DEF CrashAndRestart, Restore
  <2>. QED
    BY <2>1, <2>2, <2>3, StorageStep
<1>4. CASE UNCHANGED conversation /\ ~CrashAndRestart
  <2>1. cache' = cache /\ db' = db
    BY <1>4 DEF conversation
  <2>. QED
    BY <1>1, <1>3, <1>4, <2>1 DEF SentIsStored
<1>5. ASSUME NEW role \in Roles, NEW no \in 0 .. MaxInjections, AddToHistory(role, no),
             ~CrashAndRestart
      PROVE  SentIsStored'
  <2>1. /\ Len(cache') = Len(cache) + 1 /\ Len(db') = Len(db) + 1
        /\ \A i \in 1 .. Len(cache) : cache'[i] = cache[i]
        /\ \A i \in 1 .. Len(db) : db'[i] = db[i]
        /\ cache'[Len(cache')] = db'[Len(db')]
    BY <1>5, Added
  <2>2. Len(cache') = Len(db') - gap /\ gap \in 0 .. Len(db')
    BY <1>1, <1>2, <2>1
  <2>3. ASSUME NEW i \in 1 .. Len(cache') PROVE cache'[i] = db'[gap + i]
    <3>1. CASE i = Len(cache')
      BY <1>2, <2>1, <2>2, <3>1
    <3>2. CASE i # Len(cache')
      <4>1. i \in 1 .. Len(cache)
        BY <1>2, <2>1, <3>2
      <4>2. Len(cache) = Len(db) - gap /\ gap <= Len(db)
        BY <1>1
      <4>3. gap + i \in 1 .. Len(db)
        BY <1>2, <4>1, <4>2
      <4>. QED
        BY <1>1, <2>1, <4>1, <4>3
    <3>. QED
      BY <3>1, <3>2
  <2>. QED
    BY <1>1, <1>3, <1>5, <2>2, <2>3 DEF SentIsStored
<1>6. ASSUME NEW role \in Roles, NEW no \in 0 .. MaxInjections, FailToAdd(role, no),
             ~CrashAndRestart
      PROVE  SentIsStored'
  <2>1. cache' = cache /\ db' = db
    BY <1>6 DEF FailToAdd
  <2>. QED
    BY <1>1, <1>3, <1>6, <2>1 DEF SentIsStored
<1>7. CASE CrashAndRestart
  <2>1. db' = db
    BY <1>7 DEF CrashAndRestart
  <2>2. CASE cache' = db
    <3>1. /\ Len(cache') = Len(db') - 0 /\ 0 \in 0 .. Len(db')
          /\ \A i \in 1 .. Len(cache') : cache'[i] = db'[0 + i]
      BY <1>2, <2>1, <2>2
    <3>. QED
      BY <3>1 DEF SentIsStored
  <2>3. CASE cache' = <<>> /\ failures' = failures + 1
    <3>1. Len(cache') = 0 /\ failures' # 0
      BY <1>2, <2>3
    <3>. QED
      BY <1>2, <2>1, <3>1 DEF SentIsStored
  <2>. QED
    BY <1>7, <2>2, <2>3 DEF CrashAndRestart, Restore
<1>. QED
  BY <1>4, <1>5, <1>6, <1>7, ConversationStep

LEMMA InputStep ==
    ASSUME TypeOK, InputInv, [Next]_vars PROVE InputInv'
<1>. DEFINE EndsWithInput == cache # <<>> /\ cache[Len(cache)].role \in {"User", "Tool"}
<1>1. ASSUME NEW role \in {"User", "Tool"}, NEW no \in 0 .. MaxInjections,
             AddToHistory(role, no)
      PROVE  EndsWithInput'
  <2>1. role \in Roles
    BY DEF Roles
  <2>2. /\ Len(cache') = Len(cache) + 1 /\ Len(cache) \in Nat
        /\ cache'[Len(cache')].role = role
    BY <1>1, <2>1, Added DEF TypeOK, ConversationType
  <2>. QED
    BY <2>2
<1>2. EndsWithInput /\ UNCHANGED cache => EndsWithInput'
  OBVIOUS
<1>3. InputInv <=> (pc \in {"top", "drain", "request"} => EndsWithInput)
  BY DEF InputInv
<1>4. (pc' \in {"top", "drain", "request"} => EndsWithInput') => InputInv'
  BY DEF InputInv
<1>. HIDE DEF EndsWithInput
<1>. USE DEF Goto, EndTurn, conversation
<1>5. CASE StartTurn
  BY <1>5, <1>4 DEF StartTurn
<1>6. CASE AddSystemPrompt
  BY <1>6, <1>4 DEF AddSystemPrompt
<1>7. CASE AddUserMessage
  BY <1>7, <1>1, <1>4, AgentLoopAssumption DEF AddUserMessage
<1>8. CASE Leave
  BY <1>8, <1>4 DEF Leave
<1>9. CASE Proceed
  BY <1>9, <1>2, <1>3, <1>4 DEF Proceed
<1>10. CASE TakeInjection
  <2>1. Head(inbox) \in 0 .. MaxInjections
    BY <1>10, AgentLoopAssumption DEF TakeInjection, TypeOK, DriverType, Injected
  <2>. QED
    BY <1>10, <2>1, <1>1, <1>4 DEF TakeInjection
<1>11. CASE SendRequest
  BY <1>11, <1>2, <1>3, <1>4 DEF SendRequest
<1>12. CASE Receive \/ AddAnswer \/ LogAnswer
  BY <1>12, <1>4 DEF Receive, AddAnswer, LogAnswer
<1>13. ASSUME NEW tool \in {"done_task", "other"}, InvokeTool(tool) PROVE InputInv'
  BY <1>13, <1>4 DEF InvokeTool
<1>14. CASE FailBeforeTool \/ ToolThrows \/ RecordTool \/ FinishScript
  BY <1>14, <1>4 DEF FailBeforeTool, ToolThrows, RecordTool, FinishScript
<1>15. CASE AddResult
  BY <1>15, <1>1, <1>4, AgentLoopAssumption DEF AddResult
<1>16. CASE RequestStop \/ Inject \/ Expire
  BY <1>16, <1>2, <1>3, <1>4 DEF RequestStop, Inject, Expire
<1>17. CASE CrashAndRestart
  BY <1>17, <1>4 DEF CrashAndRestart
<1>18. CASE UNCHANGED vars
  BY <1>18, <1>2, <1>3, <1>4 DEF vars
<1>. QED
  BY <1>5, <1>6, <1>7, <1>8, <1>9, <1>10, <1>11, <1>12, <1>13, <1>14, <1>15, <1>16,
     <1>17, <1>18 DEF Next, AgentStep, Environment

LEMMA DoneStep ==
    ASSUME TypeOK, DoneInv, [Next]_vars PROVE DoneInv'
<1>. USE DEF TypeOK, LoopType, DoneInv, loopVars, Goto, EndTurn
<1>1. CASE StartTurn
  BY <1>1 DEF StartTurn
<1>2. CASE AddSystemPrompt
  BY <1>2 DEF AddSystemPrompt
<1>3. CASE AddUserMessage
  BY <1>3 DEF AddUserMessage
<1>4. CASE Leave \/ Proceed
  BY <1>4 DEF Leave, Proceed
<1>5. CASE TakeInjection
  BY <1>5 DEF TakeInjection
<1>6. CASE SendRequest
  BY <1>6 DEF SendRequest
<1>7. CASE Receive
  BY <1>7 DEF Receive
<1>8. CASE AddAnswer
  BY <1>8 DEF AddAnswer
<1>9. CASE LogAnswer
  BY <1>9 DEF LogAnswer
<1>10. ASSUME NEW tool \in {"done_task", "other"}, InvokeTool(tool) PROVE DoneInv'
  BY <1>10 DEF InvokeTool
<1>11. CASE FailBeforeTool \/ ToolThrows \/ RecordTool
  BY <1>11 DEF FailBeforeTool, ToolThrows, RecordTool
<1>12. CASE FinishScript
  BY <1>12 DEF FinishScript
<1>13. CASE AddResult
  BY <1>13 DEF AddResult
<1>14. CASE RequestStop \/ Inject \/ Expire
  BY <1>14 DEF RequestStop, Inject, Expire
<1>15. CASE CrashAndRestart
  BY <1>15 DEF CrashAndRestart
<1>16. CASE UNCHANGED vars
  BY <1>16 DEF vars
<1>. QED
  BY <1>1, <1>2, <1>3, <1>4, <1>5, <1>6, <1>7, <1>8, <1>9, <1>10, <1>11, <1>12, <1>13,
     <1>14, <1>15, <1>16 DEF Next, AgentStep, Environment
-----------------------------------------------------------------------------
\* Between the stop and the end of history.
NoReplyAfter ==
    \A i \in 1 .. Len(history) : i > stoppedAt => history[i].role # "Assistant"

OneReplyAfter ==
    \A i, j \in 1 .. Len(history) :
       (/\ i > stoppedAt /\ history[i].role = "Assistant"
        /\ j > stoppedAt /\ history[j].role = "Assistant") => i = j

Sending == {"drain", "request", "answer"}

LEMMA StopInvForm ==
    ASSUME ConversationType
    PROVE  StopInv <=> (stop => OneReplyAfter /\ (pc \in Sending => NoReplyAfter))
<1>1. DOMAIN history = 1 .. Len(history)
  BY DEF ConversationType
<1>. QED
  BY <1>1 DEF StopInv, StopEndsTheLoop, OneReplyAfter, NoReplyAfter, Sending

\* A message that is not a reply changes neither.
LEMMA GrowsByInput ==
    ASSUME TypeOK, NEW role \in Roles, role # "Assistant", NEW no \in 0 .. MaxInjections,
           AddToHistory(role, no) \/ FailToAdd(role, no), UNCHANGED stoppedAt
    PROVE  (NoReplyAfter => NoReplyAfter') /\ (OneReplyAfter => OneReplyAfter')
<1>1. /\ Len(history') = Len(history) + 1
      /\ \A i \in 1 .. Len(history) : history'[i] = history[i]
      /\ history'[Len(history')].role = role
  <2>1. CASE AddToHistory(role, no)
    BY <2>1, Added
  <2>2. CASE FailToAdd(role, no)
    BY <2>2, NotAdded
  <2>. QED
    BY <2>1, <2>2
<1>2. Len(history) \in Nat
  BY DEF TypeOK, ConversationType
<1>3. \A i \in 1 .. Len(history') :
         history'[i].role = "Assistant" =>
            i \in 1 .. Len(history) /\ history[i].role = "Assistant"
  BY <1>1, <1>2
<1>. QED
  BY <1>3 DEF NoReplyAfter, OneReplyAfter

LEMMA StopStep ==
    ASSUME TypeOK, ConversationType', StopInv, [Next]_vars PROVE StopInv'
<1>1. StopInv <=> (stop => OneReplyAfter /\ (pc \in Sending => NoReplyAfter))
  BY StopInvForm DEF TypeOK
<1>2. (stop' => OneReplyAfter' /\ (pc' \in Sending => NoReplyAfter')) => StopInv'
  <2>1. DOMAIN history' = 1 .. Len(history')
    BY DEF ConversationType
  <2>. QED
    BY <2>1 DEF StopInv, StopEndsTheLoop, OneReplyAfter, NoReplyAfter, Sending
<1>3. UNCHANGED <<history, stoppedAt>> =>
         (NoReplyAfter => NoReplyAfter') /\ (OneReplyAfter => OneReplyAfter')
  BY DEF NoReplyAfter, OneReplyAfter
<1>4. /\ "User" \in Roles /\ "Tool" \in Roles /\ "System" \in Roles
      /\ "Assistant" \in Roles /\ 0 \in 0 .. MaxInjections
  BY AgentLoopAssumption DEF Roles
<1>. USE DEF Goto, EndTurn, conversation, driverVars, Sending
<1>5. CASE StartTurn
  <2>1. CASE NewDriver
    BY <1>2, <2>1 DEF NewDriver
  <2>2. CASE UNCHANGED <<driver, stop, inbox, stoppedAt>>
    BY <1>1, <1>2, <1>3, <1>5, <2>2 DEF StartTurn
  <2>. QED
    BY <1>5, <2>1, <2>2 DEF StartTurn
<1>6. CASE AddSystemPrompt
  <2>1. UNCHANGED <<stop, stoppedAt>> /\ pc' \notin Sending
    BY <1>6 DEF AddSystemPrompt
  <2>2. \/ AddToHistory("System", 0) \/ FailToAdd("System", 0) \/ UNCHANGED history
    BY <1>6 DEF AddSystemPrompt
  <2>3. OneReplyAfter => OneReplyAfter'
    BY <1>3, <1>4, <2>1, <2>2, GrowsByInput
  <2>. QED
    BY <1>1, <1>2, <2>1, <2>3
<1>7. CASE AddUserMessage
  <2>1. UNCHANGED <<stop, stoppedAt>> /\ pc' \notin Sending
    BY <1>7 DEF AddUserMessage
  <2>2. AddToHistory("User", 0) \/ FailToAdd("User", 0)
    BY <1>7 DEF AddUserMessage
  <2>. QED
    BY <1>1, <1>2, <1>4, <2>1, <2>2, GrowsByInput
<1>8. CASE Leave
  BY <1>1, <1>2, <1>3, <1>8 DEF Leave
<1>9. CASE Proceed
  BY <1>2, <1>9 DEF Proceed, MustLeave
<1>10. CASE TakeInjection
  <2>1. Head(inbox) \in 0 .. MaxInjections
    BY <1>10, AgentLoopAssumption DEF TakeInjection, TypeOK, DriverType, Injected
  <2>2. UNCHANGED <<stop, stoppedAt>> /\ pc = "drain"
    BY <1>10 DEF TakeInjection
  <2>3. AddToHistory("User", Head(inbox)) \/ FailToAdd("User", Head(inbox))
    BY <1>10 DEF TakeInjection
  <2>. QED
    BY <1>1, <1>2, <1>4, <2>1, <2>2, <2>3, GrowsByInput
<1>11. CASE SendRequest \/ Receive
  BY <1>1, <1>2, <1>3, <1>11 DEF SendRequest, Receive
<1>12. CASE AddAnswer
  <2>1. UNCHANGED <<stop, stoppedAt>> /\ pc = "answer" /\ pc' \notin Sending
    BY <1>12 DEF AddAnswer
  <2>2. AddToHistory("Assistant", 0) \/ FailToAdd("Assistant", 0)
    BY <1>12 DEF AddAnswer
  <2>3. /\ Len(history') = Len(history) + 1 /\ Len(history) \in Nat
        /\ \A i \in 1 .. Len(history) : history'[i] = history[i]
    BY <1>4, <2>2, Added, NotAdded DEF TypeOK, ConversationType
  <2>4. NoReplyAfter => OneReplyAfter'
    BY <2>1, <2>3 DEF NoReplyAfter, OneReplyAfter
  <2>. QED
    BY <1>1, <1>2, <2>1, <2>4
<1>13. CASE LogAnswer
  BY <1>1, <1>2, <1>3, <1>13 DEF LogAnswer
<1>14. ASSUME NEW tool \in {"done_task", "other"}, InvokeTool(tool) PROVE StopInv'
  BY <1>1, <1>2, <1>3, <1>14 DEF InvokeTool
<1>15. CASE FailBeforeTool \/ ToolThrows \/ RecordTool \/ FinishScript
  BY <1>1, <1>2, <1>3, <1>15 DEF FailBeforeTool, ToolThrows, RecordTool, FinishScript
<1>16. CASE AddResult
  <2>1. UNCHANGED <<stop, stoppedAt>> /\ pc' \notin Sending
    BY <1>16 DEF AddResult
  <2>2. AddToHistory("Tool", 0) \/ FailToAdd("Tool", 0)
    BY <1>16 DEF AddResult
  <2>. QED
    BY <1>1, <1>2, <1>4, <2>1, <2>2, GrowsByInput
<1>17. CASE RequestStop
  <2>1. history' = history /\ stoppedAt' = Len(history) /\ Len(history) \in Nat
    BY <1>17 DEF RequestStop, TypeOK, ConversationType
  <2>2. NoReplyAfter' /\ OneReplyAfter'
    BY <2>1 DEF NoReplyAfter, OneReplyAfter
  <2>. QED
    BY <1>2, <2>2
<1>18. CASE Inject \/ Expire
  BY <1>1, <1>2, <1>3, <1>18 DEF Inject, Expire
<1>19. CASE CrashAndRestart
  BY <1>2, <1>19 DEF CrashAndRestart
<1>20. CASE UNCHANGED vars
  BY <1>1, <1>2, <1>3, <1>20 DEF vars
<1>. QED
  BY <1>5, <1>6, <1>7, <1>8, <1>9, <1>10, <1>11, <1>12, <1>13, <1>14, <1>15, <1>16,
     <1>17, <1>18, <1>19, <1>20 DEF Next, AgentStep, Environment
-----------------------------------------------------------------------------
LEMMA NoFailureStep ==
    ASSUME TypeOK, failures = 0 => broken = {}, [Next]_vars, failures' = 0
    PROVE  /\ failures = 0 /\ broken' = {}
           /\ \A stmt \in Statements : ~NotStored(stmt)
           /\ CrashAndRestart => history' = db /\ cache' = db
<1>1. failures \in Nat
  BY AgentLoopAssumption DEF TypeOK, CountersType
<1>2. \A stmt \in Statements : ~NotStored(stmt)
  BY <1>1 DEF NotStored, Sound
<1>3. CASE CrashAndRestart
  BY <1>1, <1>2, <1>3 DEF CrashAndRestart, Restore
<1>4. CASE UNCHANGED storageVars /\ ~CrashAndRestart
  BY <1>2, <1>4 DEF storageVars
<1>. QED
  BY <1>2, <1>3, <1>4, StorageStep

LEMMA OneConversationStep ==
    ASSUME TypeOK, failures = 0 => OneConversation, [Next]_vars, failures' = 0,
           NEW role \in Roles, NEW no \in 0 .. MaxInjections, AddToHistory(role, no),
           role = "System" <=> history = <<>>
    PROVE  OneConversation'
<1>1. OneConversation /\ broken' = {}
  BY NoFailureStep DEF OneConversation
<1>2. history' = cache' /\ cache' = db'
  BY <1>1 DEF AddToHistory, OneConversation
<1>3. /\ Len(db') = Len(db) + 1 /\ Len(db) \in Nat
      /\ \A i \in 1 .. Len(db) : db'[i] = db[i]
      /\ db'[Len(db')].role = role
  BY Added DEF TypeOK, ConversationType
<1>4. role = "System" <=> Len(db') = 1
  BY <1>1, <1>3 DEF OneConversation, TypeOK, ConversationType
<1>5. ASSUME NEW i \in 1 .. Len(db') PROVE db'[i].role = "System" <=> i = 1
  <2>1. CASE i = Len(db')
    BY <1>3, <1>4, <2>1
  <2>2. CASE i # Len(db')
    <3>1. i \in 1 .. Len(db)
      BY <1>3, <2>2
    <3>. QED
      BY <1>1, <1>3, <3>1 DEF OneConversation
  <2>. QED
    BY <2>1, <2>2
<1>. QED
  BY <1>1, <1>2, <1>5 DEF OneConversation

LEMMA PromptStep ==
    ASSUME TypeOK, PromptInv, [Next]_vars
    PROVE  /\ PromptInv'
           /\ \/ UNCHANGED conversation
              \/ \E role \in Roles, no \in 0 .. MaxInjections :
                    AddToHistory(role, no) /\ (role = "System" <=> history = <<>>)
              \/ \E role \in Roles, no \in 0 .. MaxInjections : FailToAdd(role, no)
              \/ CrashAndRestart
<1>1. ASSUME NEW role \in Roles, NEW no \in 0 .. MaxInjections,
             AddToHistory(role, no) \/ FailToAdd(role, no)
      PROVE  history' # <<>>
  <2>1. Len(history') = Len(history) + 1 /\ Len(history) \in Nat
    BY <1>1, Added, NotAdded DEF TypeOK, ConversationType
  <2>. QED
    BY <2>1
<1>2. /\ "User" \in Roles /\ "Tool" \in Roles /\ "System" \in Roles
      /\ "Assistant" \in Roles /\ 0 \in 0 .. MaxInjections
  BY AgentLoopAssumption DEF Roles
<1>. USE DEF PromptInv, Goto, EndTurn, conversation
<1>3. CASE StartTurn
  BY <1>3 DEF StartTurn, NeedsSystemPrompt
<1>4. CASE AddSystemPrompt
  <2>1. CASE Sound("prompt") /\ AddToHistory("System", 0) /\ Goto("user")
    BY <1>1, <1>2, <1>4, <2>1 DEF AddSystemPrompt
  <2>2. CASE Sound("prompt") /\ FailToAdd("System", 0) /\ EndTurn("error")
    BY <1>1, <1>2, <1>4, <2>2 DEF AddSystemPrompt
  <2>3. CASE NotStored("prompt") /\ EndTurn("error") /\ UNCHANGED conversation
    BY <2>3
  <2>. QED
    BY <1>4, <2>1, <2>2, <2>3 DEF AddSystemPrompt
<1>5. CASE AddUserMessage
  <2>1. AddToHistory("User", 0) \/ FailToAdd("User", 0)
    BY <1>5 DEF AddUserMessage
  <2>2. pc' \in {"top", "idle"} /\ history # <<>>
    BY <1>5 DEF AddUserMessage
  <2>. QED
    BY <1>1, <1>2, <2>1, <2>2
<1>6. CASE AddAnswer
  <2>1. AddToHistory("Assistant", 0) \/ FailToAdd("Assistant", 0)
    BY <1>6 DEF AddAnswer
  <2>2. pc' \in {"log", "idle"} /\ history # <<>>
    BY <1>6 DEF AddAnswer
  <2>. QED
    BY <1>1, <1>2, <2>1, <2>2
<1>7. CASE AddResult
  <2>1. AddToHistory("Tool", 0) \/ FailToAdd("Tool", 0)
    BY <1>7 DEF AddResult
  <2>2. pc' \in {"top", "idle"} /\ history # <<>>
    BY <1>7 DEF AddResult
  <2>. QED
    BY <1>1, <1>2, <2>1, <2>2
<1>8. CASE TakeInjection
  <2>1. Head(inbox) \in 0 .. MaxInjections
    BY <1>8, AgentLoopAssumption DEF TakeInjection, TypeOK, DriverType, Injected
  <2>2. AddToHistory("User", Head(inbox)) \/ FailToAdd("User", Head(inbox))
    BY <1>8 DEF TakeInjection
  <2>3. pc' \in {"drain", "idle"} /\ history # <<>>
    BY <1>8 DEF TakeInjection
  <2>. QED
    BY <1>1, <1>2, <2>1, <2>2, <2>3
<1>9. CASE Leave \/ Proceed \/ SendRequest \/ Receive
  BY <1>9 DEF Leave, Proceed, SendRequest, Receive
<1>10. CASE LogAnswer
  BY <1>10 DEF LogAnswer
<1>11. ASSUME NEW tool \in {"done_task", "other"}, InvokeTool(tool)
       PROVE  PromptInv' /\ UNCHANGED conversation
  BY <1>11 DEF InvokeTool
<1>12. CASE FailBeforeTool \/ ToolThrows \/ RecordTool \/ FinishScript
  BY <1>12 DEF FailBeforeTool, ToolThrows, RecordTool, FinishScript
<1>13. CASE RequestStop \/ Inject \/ Expire
  BY <1>13 DEF RequestStop, Inject, Expire
<1>14. CASE CrashAndRestart
  BY <1>14 DEF CrashAndRestart
<1>15. CASE UNCHANGED vars
  BY <1>15 DEF vars
<1>. QED
  BY <1>3, <1>4, <1>5, <1>6, <1>7, <1>8, <1>9, <1>10, <1>11, <1>12, <1>13, <1>14, <1>15
     DEF Next, AgentStep, Environment

LEMMA CleanStep ==
    ASSUME TypeOK, CleanInv, [Next]_vars PROVE CleanInv'
<1>1. ASSUME failures' = 0 PROVE OneConversation'
  <2>1. OneConversation /\ broken' = {}
    BY <1>1, NoFailureStep DEF CleanInv, OneConversation
  <2>2. CASE UNCHANGED conversation
    BY <2>1, <2>2 DEF OneConversation, conversation
  <2>3. ASSUME NEW role \in Roles, NEW no \in 0 .. MaxInjections,
               AddToHistory(role, no), role = "System" <=> history = <<>>
        PROVE  OneConversation'
    BY <1>1, <2>1, <2>3, OneConversationStep
  <2>4. ASSUME NEW role \in Roles, NEW no \in 0 .. MaxInjections, FailToAdd(role, no)
        PROVE  FALSE
    BY <1>1, <2>1, <2>4, NoFailureStep DEF FailToAdd, Statements, OneConversation
  <2>5. CASE CrashAndRestart
    <3>1. history' = db /\ cache' = db /\ db' = db
      BY <1>1, <2>1, <2>5, NoFailureStep DEF CrashAndRestart, OneConversation
    <3>. QED
      BY <2>1, <3>1 DEF OneConversation
  <2>. QED
    BY <2>2, <2>3, <2>4, <2>5, PromptStep DEF CleanInv
<1>. QED
  BY <1>1, PromptStep DEF CleanInv
-----------------------------------------------------------------------------
LEMMA NumbersTyped ==
    ASSUME TypeOK
    PROVE  /\ Len(db) \in Nat /\ Len(inbox) \in Nat /\ injections \in Nat
           /\ \A i \in 1 .. Len(db) : db[i].no \in Nat
           /\ \A k \in 1 .. Len(inbox) : inbox[k] \in Nat /\ inbox[k] > 0
<1>1. Len(db) \in Nat /\ \A i \in 1 .. Len(db) : db[i] \in Messages
  BY DEF TypeOK, ConversationType
<1>2. Len(inbox) \in Nat /\ \A k \in 1 .. Len(inbox) : inbox[k] \in Injected
  BY DEF TypeOK, DriverType
<1>. QED
  BY <1>1, <1>2, AgentLoopAssumption DEF TypeOK, DriverType, Messages, Injected

\* A message joins the stored ones.
LEMMA DbGrows ==
    ASSUME TypeOK, DbOrdered, NEW role \in Roles, NEW no \in 0 .. MaxInjections,
           AddToHistory(role, no), injections' = injections, no <= injections,
           no # 0 => \A i \in 1 .. Len(db) : db[i].no < no
    PROVE  /\ DbOrdered'
           /\ \A i \in 1 .. Len(db') : db'[i].no = no \/
                 (i \in 1 .. Len(db) /\ db'[i].no = db[i].no)
<1>1. /\ Len(db') = Len(db) + 1
      /\ \A i \in 1 .. Len(db) : db'[i].no = db[i].no
      /\ db'[Len(db')].no = no
  BY Added
<1>2. Len(db) \in Nat /\ \A i \in 1 .. Len(db) : db[i].no \in Nat
  BY NumbersTyped
<1>3. ASSUME NEW i \in 1 .. Len(db'), NEW j \in 1 .. Len(db'), i < j,
             db'[i].no # 0, db'[j].no # 0
      PROVE  db'[i].no < db'[j].no
  <2>1. i \in 1 .. Len(db)
    BY <1>1, <1>2, <1>3
  <2>2. CASE j = Len(db')
    BY <1>1, <1>3, <2>1, <2>2
  <2>3. CASE j # Len(db')
    <3>1. j \in 1 .. Len(db)
      BY <1>1, <1>2, <2>3
    <3>. QED
      BY <1>1, <1>3, <2>1, <3>1 DEF DbOrdered
  <2>. QED
    BY <2>2, <2>3
<1>4. ASSUME NEW i \in 1 .. Len(db')
      PROVE  i = Len(db') \/ i \in 1 .. Len(db)
  BY <1>1, <1>2
<1>. QED
  BY <1>1, <1>3, <1>4 DEF DbOrdered

LEMMA OrderStep ==
    ASSUME TypeOK, OrderInv, [Next]_vars PROVE OrderInv'
<1>1. /\ Len(db) \in Nat /\ Len(inbox) \in Nat /\ injections \in Nat
      /\ \A i \in 1 .. Len(db) : db[i].no \in Nat
      /\ \A k \in 1 .. Len(inbox) : inbox[k] \in Nat /\ inbox[k] > 0
  BY NumbersTyped
<1>3. CASE UNCHANGED <<db, inbox, injections>>
  BY <1>3 DEF OrderInv, DbOrdered, InboxOrdered, DbBeforeInbox
<1>4. CASE UNCHANGED <<db, injections>> /\ inbox' = <<>>
  BY <1>4 DEF OrderInv, DbOrdered, InboxOrdered, DbBeforeInbox
<1>5. ASSUME NEW role \in Roles, AddToHistory(role, 0), UNCHANGED <<inbox, injections>>
      PROVE  OrderInv'
  <2>1. 0 \in 0 .. MaxInjections /\ 0 <= injections
    BY <1>1, AgentLoopAssumption
  <2>2. /\ DbOrdered'
        /\ \A i \in 1 .. Len(db') : db'[i].no = 0 \/
              (i \in 1 .. Len(db) /\ db'[i].no = db[i].no)
    BY <1>5, <2>1, DbGrows DEF OrderInv
  <2>3. DbBeforeInbox'
    BY <1>1, <1>5, <2>2 DEF OrderInv, DbBeforeInbox
  <2>. QED
    BY <1>5, <2>2, <2>3 DEF OrderInv, InboxOrdered
<1>6. CASE TakeInjection
  <2>1. /\ Len(inbox') = Len(inbox) - 1 /\ Len(inbox) >= 1
        /\ \A k \in 1 .. Len(inbox') : inbox'[k] = inbox[k + 1]
        /\ Head(inbox) = inbox[1] /\ injections' = injections
    BY <1>6 DEF TakeInjection, TypeOK, DriverType
  <2>2. Head(inbox) \in 0 .. MaxInjections
    BY <1>6, AgentLoopAssumption DEF TakeInjection, TypeOK, DriverType, Injected
  <2>3. /\ \A k \in 1 .. Len(inbox') :
              k + 1 \in 1 .. Len(inbox) /\ inbox[1] < inbox[k + 1]
        /\ inbox[1] <= injections
    BY <1>1, <2>1 DEF OrderInv, InboxOrdered
  <2>4. InboxOrdered'
    <3>1. \A k \in 1 .. Len(inbox') : inbox'[k] <= injections'
      BY <2>1, <2>3 DEF OrderInv, InboxOrdered
    <3>2. ASSUME NEW k \in 1 .. Len(inbox'), NEW l \in 1 .. Len(inbox'), k < l
          PROVE  inbox'[k] < inbox'[l]
      <4>1. k + 1 \in 1 .. Len(inbox) /\ l + 1 \in 1 .. Len(inbox) /\ k + 1 < l + 1
        BY <2>3, <3>2
      <4>2. inbox[k + 1] < inbox[l + 1]
        BY <4>1 DEF OrderInv, InboxOrdered
      <4>. QED
        BY <2>1, <4>2
    <3>. QED
      BY <3>1, <3>2 DEF InboxOrdered
  <2>5. CASE AddToHistory("User", Head(inbox))
    <3>1. \A i \in 1 .. Len(db) : db[i].no < inbox[1]
      BY <1>1, <2>1 DEF OrderInv, DbBeforeInbox
    <3>2. "User" \in Roles
      BY DEF Roles
    <3>3. /\ DbOrdered'
          /\ \A i \in 1 .. Len(db') : db'[i].no = inbox[1] \/
                (i \in 1 .. Len(db) /\ db'[i].no = db[i].no)
      BY <2>1, <2>2, <2>3, <2>5, <3>1, <3>2, DbGrows DEF OrderInv
    <3>4. DbBeforeInbox'
      BY <2>1, <2>3, <3>3 DEF OrderInv, DbBeforeInbox
    <3>. QED
      BY <2>4, <3>3, <3>4 DEF OrderInv
  <2>6. CASE FailToAdd("User", Head(inbox))
    <3>1. db' = db
      BY <2>6 DEF FailToAdd
    <3>2. DbOrdered' /\ DbBeforeInbox'
      BY <2>1, <2>3, <3>1 DEF OrderInv, DbOrdered, DbBeforeInbox
    <3>. QED
      BY <2>4, <3>2 DEF OrderInv
  <2>. QED
    BY <1>6, <2>5, <2>6 DEF TakeInjection
<1>7. CASE Inject
  <2>1. /\ Len(inbox') = Len(inbox) + 1
        /\ \A k \in 1 .. Len(inbox) : inbox'[k] = inbox[k]
        /\ inbox'[Len(inbox')] = injections + 1
        /\ injections' = injections + 1 /\ db' = db
    BY <1>7 DEF Inject, TypeOK, DriverType, conversation
  <2>2. ASSUME NEW k \in 1 .. Len(inbox')
        PROVE  k = Len(inbox') \/ k \in 1 .. Len(inbox)
    BY <1>1, <2>1
  <2>3. DbOrdered'
    BY <1>1, <2>1 DEF OrderInv, DbOrdered
  <2>4. ASSUME NEW k \in 1 .. Len(inbox'), NEW l \in 1 .. Len(inbox'), k < l
        PROVE  inbox'[k] < inbox'[l]
    <3>1. k \in 1 .. Len(inbox)
      BY <1>1, <2>1, <2>4
    <3>2. inbox[k] <= injections /\ inbox'[k] = inbox[k]
      BY <2>1, <3>1 DEF OrderInv, InboxOrdered
    <3>3. CASE l = Len(inbox')
      BY <1>1, <2>1, <3>1, <3>2, <3>3
    <3>4. CASE l \in 1 .. Len(inbox)
      BY <2>1, <2>4, <3>1, <3>2, <3>4 DEF OrderInv, InboxOrdered
    <3>. QED
      BY <2>2, <3>3, <3>4
  <2>5. \A k \in 1 .. Len(inbox') : inbox'[k] <= injections'
    BY <1>1, <2>1, <2>2 DEF OrderInv, InboxOrdered
  <2>6. DbBeforeInbox'
    BY <1>1, <2>1, <2>2 DEF OrderInv, DbOrdered, DbBeforeInbox
  <2>. QED
    BY <2>3, <2>4, <2>5, <2>6 DEF OrderInv, InboxOrdered
<1>. USE DEF conversation, driverVars
<1>8. CASE StartTurn
  BY <1>3, <1>4, <1>8 DEF StartTurn, NewDriver
<1>9. CASE AddSystemPrompt
  BY <1>3, <1>5, <1>9 DEF AddSystemPrompt, FailToAdd, Roles
<1>10. CASE AddUserMessage \/ AddAnswer \/ AddResult
  BY <1>3, <1>5, <1>10 DEF AddUserMessage, AddAnswer, AddResult, FailToAdd, Roles
<1>11. CASE Leave \/ Proceed \/ SendRequest \/ Receive \/ LogAnswer
  BY <1>3, <1>11 DEF Leave, Proceed, SendRequest, Receive, LogAnswer
<1>12. ASSUME NEW tool \in {"done_task", "other"}, InvokeTool(tool) PROVE OrderInv'
  BY <1>3, <1>12 DEF InvokeTool
<1>13. CASE FailBeforeTool \/ ToolThrows \/ RecordTool \/ FinishScript
  BY <1>3, <1>13 DEF FailBeforeTool, ToolThrows, RecordTool, FinishScript
<1>14. CASE RequestStop \/ Expire
  BY <1>3, <1>14 DEF RequestStop, Expire
<1>15. CASE CrashAndRestart
  BY <1>4, <1>15 DEF CrashAndRestart
<1>16. CASE UNCHANGED vars
  BY <1>3, <1>16 DEF vars
<1>. QED
  BY <1>6, <1>7, <1>8, <1>9, <1>10, <1>11, <1>12, <1>13, <1>14, <1>15, <1>16
     DEF Next, AgentStep, Environment
-----------------------------------------------------------------------------
IInv ==
    /\ TypeOK /\ AuditInv /\ SentIsStored /\ InputInv /\ DoneInv /\ StopInv
    /\ CleanInv /\ OrderInv

LEMMA InitInvariant == Init => IInv
<1>. SUFFICES ASSUME Init PROVE IInv
  OBVIOUS
<1>. USE AgentLoopAssumption
<1>1. <<>> \in Seq(Messages) /\ <<>> \in Seq(Injected) /\ Len(<<>>) = 0
  OBVIOUS
<1>2. TypeOK
  <2>1. ConversationType
    BY <1>1 DEF Init, ConversationType
  <2>2. LoopType
    BY DEF Init, LoopType, Places
  <2>3. DriverType
    <3>1. inbox \in Seq(Injected)
      BY <1>1 DEF Init
    <3>2. /\ driver \in {"none", "cockpit", "auto"}
          /\ stop \in BOOLEAN /\ expired \in BOOLEAN
      BY DEF Init
    <3>3. injections \in 0 .. MaxInjections /\ stoppedAt \in Nat
      BY DEF Init
    <3>. QED
      BY <3>1, <3>2, <3>3 DEF DriverType
  <2>4. CountersType
    BY DEF Init, CountersType
  <2>. QED
    BY <2>1, <2>2, <2>3, <2>4 DEF TypeOK
<1>3. AuditInv
  BY DEF Init, AuditInv, Running, Credit
<1>4. SentIsStored
  BY DEF Init, SentIsStored
<1>5. InputInv /\ DoneInv /\ StopInv
  BY DEF Init, InputInv, DoneInv, StopInv, StopEndsTheLoop
<1>6. CleanInv
  BY DEF Init, CleanInv, PromptInv, OneConversation
<1>7. OrderInv
  BY DEF Init, OrderInv, DbOrdered, InboxOrdered, DbBeforeInbox
<1>. QED
  BY <1>2, <1>3, <1>4, <1>5, <1>6, <1>7 DEF IInv

LEMMA StepInvariant == IInv /\ [Next]_vars => IInv'
<1>. SUFFICES ASSUME IInv, [Next]_vars PROVE IInv'
  OBVIOUS
<1>1. ConversationType' /\ LoopType' /\ DriverType' /\ CountersType'
  BY ConversationTypeStep, LoopTypeStep, DriverTypeStep, CountersTypeStep DEF IInv
<1>. QED
  BY <1>1, AuditStep, SentStep, InputStep, DoneStep, StopStep, CleanStep, OrderStep
     DEF IInv, TypeOK

(***************************************************************************)
(* The strengthened invariant holds in every state.                        *)
(***************************************************************************)
THEOREM Invariant == Spec => []IInv
  BY InitInvariant, StepInvariant, PTL DEF Spec

(***************************************************************************)
(* The variables stay within their types.                                  *)
(***************************************************************************)
THEOREM TypeCorrect == Spec => []TypeOK
  BY Invariant, PTL DEF IInv

(***************************************************************************)
(* What the model is sent is the end of what is stored.                    *)
(***************************************************************************)
THEOREM StoredBeforeSent == Spec => []SentIsStored
  BY Invariant, PTL DEF IInv

(***************************************************************************)
(* No request ends with the model's own words.                             *)
(***************************************************************************)
THEOREM InputLast == Spec => []RequestEndsWithInput
<1>1. IInv => RequestEndsWithInput
  BY DEF IInv, InputInv, RequestEndsWithInput
<1>. QED
  BY <1>1, Invariant, PTL

(***************************************************************************)
(* With a working database a request has one system prompt, at its head.   *)
(***************************************************************************)
THEOREM OneSystemPrompt == Spec => []SystemPromptOnce
<1>1. IInv => SystemPromptOnce
  BY DEF IInv, CleanInv, OneConversation, SystemPromptOnce
<1>. QED
  BY <1>1, Invariant, PTL

(***************************************************************************)
(* Only this turn's done_task ends a turn.                                 *)
(***************************************************************************)
THEOREM DoneIsFresh == Spec => []DoneIsOfThisTurn
<1>1. IInv => DoneIsOfThisTurn
  BY DEF IInv, DoneInv, DoneIsOfThisTurn
<1>. QED
  BY <1>1, Invariant, PTL

(***************************************************************************)
(* The audit of the tools misses those that threw, and beyond them at most *)
(* two per failed write and one per death of the process.                  *)
(***************************************************************************)
THEOREM Audit == Spec => []ToolsAreRecorded
<1>1. ASSUME IInv PROVE ToolsAreRecorded
  <2>1. /\ failures \in Nat /\ crashes \in Nat /\ effects \in Nat
        /\ toolRows \in Nat /\ thrown \in Nat
    BY <1>1, AgentLoopAssumption DEF IInv, TypeOK, CountersType
  <2>. QED
    BY <1>1, <2>1 DEF IInv, AuditInv, Running, Credit, ToolsAreRecorded
<1>. QED
  BY <1>1, Invariant, PTL

(***************************************************************************)
(* Injected messages keep their order and are not repeated.                *)
(***************************************************************************)
THEOREM InjectionOrder == Spec => []InjectionsInOrder
<1>1. ASSUME IInv PROVE InjectionsInOrder
  <2>1. PICK gap \in 0 .. Len(db) :
           /\ Len(cache) = Len(db) - gap
           /\ \A i \in 1 .. Len(cache) : cache[i] = db[gap + i]
    BY <1>1 DEF IInv, SentIsStored
  <2>2. /\ Len(db) \in Nat /\ Len(cache) \in Nat
        /\ DOMAIN cache = 1 .. Len(cache) /\ DOMAIN inbox = 1 .. Len(inbox)
    BY <1>1 DEF IInv, TypeOK, ConversationType, DriverType
  <2>3. \A i \in 1 .. Len(cache) : gap + i \in 1 .. Len(db)
    BY <2>1, <2>2
  <2>4. ASSUME NEW i \in 1 .. Len(cache), NEW j \in 1 .. Len(cache), i < j,
               cache[i].no # 0, cache[j].no # 0
        PROVE  cache[i].no < cache[j].no
    <3>1. gap + i < gap + j
      BY <2>1, <2>4
    <3>. QED
      BY <1>1, <2>1, <2>3, <2>4, <3>1 DEF IInv, OrderInv, DbOrdered
  <2>5. \A i \in 1 .. Len(cache), k \in 1 .. Len(inbox) : cache[i].no < inbox[k]
    BY <1>1, <2>1, <2>3 DEF IInv, OrderInv, DbBeforeInbox
  <2>. QED
    BY <1>1, <2>2, <2>4, <2>5 DEF IInv, OrderInv, InboxOrdered, InjectionsInOrder
<1>. QED
  BY <1>1, Invariant, PTL

(***************************************************************************)
(* A stop lets one more reply in, and no further round.                    *)
(***************************************************************************)
THEOREM StopIsObeyed == Spec => []StopEndsTheLoop
<1>1. IInv => StopEndsTheLoop
  BY DEF IInv, StopInv
<1>. QED
  BY <1>1, Invariant, PTL
=============================================================================
