------------------------------ MODULE AgentLoop ------------------------------
(***************************************************************************)
(* The ReAct loop, Agent::run_step (src/agent.cpp), with the conversation  *)
(* in its three forms: history, the cache a request is made of, and the    *)
(* rows of the database a restart restores them from.                      *)
(*                                                                         *)
(* The agent thread runs one turn at a time.  Around it the UI thread may  *)
(* inject a message or ask for a stop at any moment, the deadline of an    *)
(* automatic driver may pass, a write of the database may fail, and the    *)
(* process may die between any two steps and be started again.  A turn     *)
(* that an exception leaves is over; the agent lives on.  ChatStreamer and *)
(* Consent say what happens inside a request and inside a consent.         *)
(***************************************************************************)
EXTENDS Naturals, Sequences

CONSTANTS
    MaxIterations,  \* options.max_iterations
    MaxIdleTurns,   \* AutoDriver::Config::max_idle_turns
    MaxTurns,       \* bound: turns started
    MaxRounds,      \* bound: rounds of a turn, for an auto-approving agent
    MaxTools,       \* bound: tools run
    MaxInjections,  \* bound: messages injected
    MaxFailures,    \* bound: failures of the database
    MaxCrashes      \* bound: deaths of the process

ASSUME AgentLoopAssumption ==
    /\ MaxIterations \in Nat /\ MaxIdleTurns \in Nat /\ MaxTurns \in Nat
    /\ MaxRounds \in Nat /\ MaxTools \in Nat /\ MaxInjections \in Nat
    /\ MaxFailures \in Nat /\ MaxCrashes \in Nat

VARIABLES
    autoApprove,  \* options.auto_approve
    pc,           \* what the agent thread does next; "idle" between turns
    history,      \* Agent::history
    cache,        \* Agent::messages_cache
    db,           \* the session's rows of the table messages
    iterations,
    idleTurns,
    reply,        \* the last reply: "code" when parse() finds a script in it
    done,         \* DoneTaskSignal::flag_
    driver,       \* the kind of driver of the turn; "none" before the first
    stop,         \* the driver's stop_
    inbox,        \* the driver's inject_queue_, the numbers of its messages
    expired,      \* the deadline has passed
    broken,       \* cached statements whose last step failed
    (* What is observed. *)
    turns, injections, effects, toolRows, failures, crashes,
    thrown,       \* tools that threw: lua_context.cpp:60 caught them
    stoppedAt,    \* the length of history when the stop was asked for
    doneCalled,   \* done_task ran in this turn
    endedBy       \* why the last turn was left

conversation == <<history, cache, db>>
loopVars == <<iterations, idleTurns, reply, done, doneCalled>>
driverVars == <<driver, stop, inbox, expired, stoppedAt, injections>>
storageVars == <<broken, failures>>
toolVars == <<effects, toolRows, thrown>>
otherVars == <<autoApprove, turns, crashes>>
vars == <<pc, endedBy, conversation, loopVars, driverVars, storageVars, toolVars,
          otherVars>>

Roles == {"System", "User", "Assistant", "Tool"}
Statements == {"message", "prompt", "invocation", "execution"}

Injected == 1 .. MaxInjections

\* A message is its role and its number among the injected ones, 0 for any
\* other; its id is its row, 0 while it has none.
Messages == [role : Roles, no : 0 .. MaxInjections, id : Nat]

Init ==
    /\ autoApprove \in BOOLEAN
    /\ pc = "idle" /\ endedBy = "none"
    /\ history = <<>> /\ cache = <<>> /\ db = <<>>
    /\ iterations = 0 /\ idleTurns = 0 /\ reply = "talk"
    /\ done = FALSE /\ doneCalled = FALSE
    /\ driver = "none" /\ stop = FALSE /\ inbox = <<>> /\ expired = FALSE
    /\ stoppedAt = 0 /\ injections = 0
    /\ broken = {} /\ failures = 0
    /\ effects = 0 /\ toolRows = 0 /\ thrown = 0
    /\ turns = 0 /\ crashes = 0
-----------------------------------------------------------------------------
(***************************************************************************)
(* Writing to the database.  Each insert resets its cached statement       *)
(* first, and sqlite3_reset reports the error of the statement's last      *)
(* step: the insert that follows a failed one throws before it runs, and   *)
(* leaves the statement clean.                                             *)
(***************************************************************************)
Sound(stmt) == stmt \notin broken

Stored(stmt) == Sound(stmt) /\ UNCHANGED storageVars

NotStored(stmt) ==
    \/ /\ ~Sound(stmt)
       /\ broken' = broken \ {stmt}
       /\ UNCHANGED failures
    \/ /\ Sound(stmt)
       /\ failures < MaxFailures
       /\ failures' = failures + 1
       /\ broken' = broken \cup {stmt}

\* add_to_history: into history, into the database, then into the cache.
AddToHistory(role, no) ==
    /\ Stored("message")
    /\ LET msg == [role |-> role, no |-> no, id |-> Len(db) + 1]
       IN  /\ history' = Append(history, msg)
           /\ db' = Append(db, msg)
           /\ cache' = Append(cache, msg)

\* Mutant: the cache is filled before the message is stored.
CacheThenFail(role, no) ==
    /\ NotStored("message")
    /\ history' = Append(history, [role |-> role, no |-> no, id |-> 0])
    /\ cache' = Append(cache, [role |-> role, no |-> no, id |-> 0])
    /\ UNCHANGED db

\* The exception of persist_message leaves the message in history alone.
FailToAdd(role, no) ==
    /\ NotStored("message")
    /\ history' = Append(history, [role |-> role, no |-> no, id |-> 0])
    /\ UNCHANGED <<cache, db>>

Goto(next) == pc' = next /\ UNCHANGED endedBy
EndTurn(why) == pc' = "idle" /\ endedBy' = why
-----------------------------------------------------------------------------
(***************************************************************************)
(* A turn begins.                                                          *)
(***************************************************************************)

\* Mutant: the process's first turn adds the prompt, restored or not.
PromptPerProcess == driver = "none"

NeedsSystemPrompt == history = <<>>

\* The cockpit makes a driver per turn; an interactive driver of the
\* AgentManager serves several.
NewDriver ==
    /\ driver' \in {"cockpit", "auto"}
    /\ stop' = FALSE
    /\ inbox' = <<>>
    /\ stoppedAt' = 0

StartTurn ==
    /\ pc = "idle"
    /\ turns < MaxTurns
    /\ turns' = turns + 1
    /\ pc' = IF NeedsSystemPrompt THEN "system" ELSE "user"
    /\ endedBy' = "none"
    /\ \/ NewDriver
       \/ driver # "none" /\ UNCHANGED <<driver, stop, inbox, stoppedAt>>
    /\ expired' = FALSE
    /\ doneCalled' = FALSE
    /\ UNCHANGED <<conversation, iterations, idleTurns, reply, done, injections,
                   storageVars, toolVars, autoApprove, crashes>>

AddSystemPrompt ==
    /\ pc = "system"
    /\ \/ Sound("prompt") /\ AddToHistory("System", 0) /\ Goto("user")
       \/ Sound("prompt") /\ FailToAdd("System", 0) /\ EndTurn("error")
       \/ NotStored("prompt") /\ EndTurn("error") /\ UNCHANGED conversation
    /\ UNCHANGED <<loopVars, driverVars, toolVars, otherVars>>

\* Mutant: the signal of an earlier turn is left as it is.
AddUserMessageOnly ==
    /\ pc = "user"
    /\ \/ AddToHistory("User", 0) /\ Goto("top") /\ iterations' = 0 /\ idleTurns' = 0
       \/ /\ FailToAdd("User", 0) /\ EndTurn("error")
          /\ UNCHANGED <<iterations, idleTurns>>
    /\ UNCHANGED <<reply, done, doneCalled, driverVars, toolVars, otherVars>>

AddUserMessage ==
    /\ pc = "user"
    /\ \/ /\ AddToHistory("User", 0) /\ Goto("top")
          /\ done' = FALSE /\ iterations' = 0 /\ idleTurns' = 0
       \/ /\ FailToAdd("User", 0) /\ EndTurn("error")
          /\ UNCHANGED <<done, iterations, idleTurns>>
    /\ UNCHANGED <<reply, doneCalled, driverVars, toolVars, otherVars>>
-----------------------------------------------------------------------------
(***************************************************************************)
(* A round of the loop: the exits, the injected messages, the request.     *)
(***************************************************************************)
ShouldFinish ==
    \/ driver = "cockpit" /\ idleTurns > 0
    \/ driver = "auto" /\ idleTurns >= MaxIdleTurns

\* Mutant: the stop is left to the streamer, which asks the driver as well.
MustLeaveUnstopped ==
    \/ expired
    \/ ~autoApprove /\ iterations >= MaxIterations
    \/ ShouldFinish

\* Mutant: no limit on the rounds of a turn.
MustLeaveUnlimited == stop \/ expired \/ ShouldFinish

MustLeave ==
    \/ stop
    \/ expired
    \/ ~autoApprove /\ iterations >= MaxIterations
    \/ ShouldFinish

Leave ==
    /\ pc = "top"
    /\ MustLeave
    /\ EndTurn("limit")
    /\ UNCHANGED <<conversation, loopVars, driverVars, storageVars, toolVars, otherVars>>

Proceed ==
    /\ pc = "top"
    /\ ~MustLeave
    /\ iterations < MaxRounds
    /\ Goto("drain")
    /\ UNCHANGED <<conversation, loopVars, driverVars, storageVars, toolVars, otherVars>>

\* Mutant: the queue is read at its back.
TakeLastInjection ==
    /\ pc = "drain"
    /\ inbox # <<>>
    /\ inbox' = SubSeq(inbox, 1, Len(inbox) - 1)
    /\ \/ AddToHistory("User", inbox[Len(inbox)]) /\ Goto("drain")
       \/ FailToAdd("User", inbox[Len(inbox)]) /\ EndTurn("error")
    /\ UNCHANGED <<loopVars, driver, stop, expired, stoppedAt, injections, toolVars,
                   otherVars>>

TakeInjection ==
    /\ pc = "drain"
    /\ inbox # <<>>
    /\ inbox' = Tail(inbox)
    /\ \/ AddToHistory("User", Head(inbox)) /\ Goto("drain")
       \/ FailToAdd("User", Head(inbox)) /\ EndTurn("error")
    /\ UNCHANGED <<loopVars, driver, stop, expired, stoppedAt, injections, toolVars,
                   otherVars>>

\* The streamer asks for the stop once more before it sends anything.
SendRequest ==
    /\ pc = "drain"
    /\ inbox = <<>>
    /\ iterations' = iterations + 1
    /\ IF stop THEN reply' = "talk" /\ Goto("answer")
               ELSE UNCHANGED reply /\ Goto("request")
    /\ UNCHANGED <<conversation, idleTurns, done, doneCalled, driverVars, storageVars,
                   toolVars, otherVars>>

\* An error or a stop leaves an empty or partial reply, and a partial reply
\* may hold a whole script.
Receive ==
    /\ pc = "request"
    /\ reply' \in {"talk", "code"}
    /\ Goto("answer")
    /\ UNCHANGED <<conversation, iterations, idleTurns, done, doneCalled, driverVars,
                   storageVars, toolVars, otherVars>>

AddAnswer ==
    /\ pc = "answer"
    /\ \/ AddToHistory("Assistant", 0) /\ Goto("log")
       \/ FailToAdd("Assistant", 0) /\ EndTurn("error")
    /\ UNCHANGED <<loopVars, driverVars, toolVars, otherVars>>

\* The log of the reply, and the exit when it holds no script.  The reply is
\* parsed and no longer used.
LogAnswer ==
    /\ pc = "log"
    /\ reply' = "talk"
    /\ \/ Stored("prompt") /\ reply = "code" /\ idleTurns' = 0 /\ Goto("script")
       \/ Stored("prompt") /\ reply = "talk" /\ idleTurns' = idleTurns + 1 /\ EndTurn("talk")
       \/ NotStored("prompt") /\ UNCHANGED idleTurns /\ EndTurn("error")
    /\ UNCHANGED <<conversation, iterations, done, doneCalled, driverVars,
                   toolVars, otherVars>>
-----------------------------------------------------------------------------
(***************************************************************************)
(* A script and the tools it calls.  An exception inside a tool's handler  *)
(* becomes a string the script gets in place of the result, so that a      *)
(* script goes on after it.  When the exception is the tool's own the rest *)
(* of the handler is skipped, its row included.  A tool the consent        *)
(* refuses, which changes nothing, is not a step.                          *)
(***************************************************************************)
InvokeTool(tool) ==
    /\ pc = "script"
    /\ effects < MaxTools
    /\ Stored("prompt")
    /\ effects' = effects + 1
    /\ IF tool = "done_task" THEN done' = TRUE /\ doneCalled' = TRUE
                             ELSE UNCHANGED <<done, doneCalled>>
    /\ Goto("tool")
    /\ UNCHANGED <<conversation, iterations, idleTurns, reply, driverVars, toolRows,
                   thrown, otherVars>>

\* tool.invoke throws, after it took what effect it took.  done_task does not.
ToolThrows ==
    /\ pc = "script"
    /\ effects < MaxTools
    /\ Stored("prompt")
    /\ effects' = effects + 1
    /\ thrown' = thrown + 1
    /\ UNCHANGED <<pc, endedBy, conversation, loopVars, driverVars, toolRows, otherVars>>

\* The decision prompt cannot be logged: the tool does not run.
FailBeforeTool ==
    /\ pc = "script"
    /\ NotStored("prompt")
    /\ UNCHANGED <<pc, endedBy, conversation, loopVars, driverVars, toolVars, otherVars>>

\* Mutant: a tool that ran after the stop leaves no row.
RecordUnlessStopped ==
    /\ pc = "tool"
    /\ \/ Stored("invocation") /\ toolRows' = IF stop THEN toolRows ELSE toolRows + 1
       \/ NotStored("invocation") /\ UNCHANGED toolRows
    /\ Goto("script")
    /\ UNCHANGED <<conversation, loopVars, driverVars, effects, thrown, otherVars>>

RecordTool ==
    /\ pc = "tool"
    /\ \/ Stored("invocation") /\ toolRows' = toolRows + 1
       \/ NotStored("invocation") /\ UNCHANGED toolRows
    /\ Goto("script")
    /\ UNCHANGED <<conversation, loopVars, driverVars, effects, thrown, otherVars>>

\* The script ends, well or not, and is logged twice.
FinishScript ==
    /\ pc = "script"
    /\ \/ Sound("invocation") /\ Stored("execution") /\ Goto("result")
       \/ Sound("invocation") /\ NotStored("execution") /\ EndTurn("error")
       \/ NotStored("invocation") /\ EndTurn("error")
    /\ UNCHANGED <<conversation, loopVars, driverVars, toolVars, otherVars>>

\* The result goes into the conversation, and a done_task is consumed.
AddResult ==
    /\ pc = "result"
    /\ \/ /\ AddToHistory("Tool", 0)
          /\ IF done THEN EndTurn("done") ELSE Goto("top")
          /\ done' = FALSE
       \/ FailToAdd("Tool", 0) /\ EndTurn("error") /\ UNCHANGED done
    /\ UNCHANGED <<iterations, idleTurns, reply, doneCalled, driverVars, toolVars,
                   otherVars>>
-----------------------------------------------------------------------------
(***************************************************************************)
(* Around the agent thread.                                                *)
(***************************************************************************)
RequestStop ==
    /\ driver # "none"
    /\ ~stop
    /\ stop' = TRUE
    /\ stoppedAt' = Len(history)
    /\ UNCHANGED <<pc, endedBy, conversation, loopVars, driver, inbox, expired,
                   injections, storageVars, toolVars, otherVars>>

Inject ==
    /\ driver # "none"
    /\ injections < MaxInjections
    /\ injections' = injections + 1
    /\ inbox' = Append(inbox, injections')
    /\ UNCHANGED <<pc, endedBy, conversation, loopVars, driver, stop, expired,
                   stoppedAt, storageVars, toolVars, otherVars>>

Expire ==
    /\ driver = "auto"
    /\ pc \notin {"idle", "system", "user"}
    /\ ~expired
    /\ expired' = TRUE
    /\ UNCHANGED <<pc, endedBy, conversation, loopVars, driver, stop, inbox, stoppedAt,
                   injections, storageVars, toolVars, otherVars>>

\* A session is resumed: history and cache are what the database holds, or
\* empty when it cannot be read.
Restore ==
    \/ history' = db /\ cache' = db /\ UNCHANGED failures
    \/ /\ failures < MaxFailures
       /\ failures' = failures + 1
       /\ history' = <<>> /\ cache' = <<>>

CrashAndRestart ==
    /\ crashes < MaxCrashes
    /\ crashes' = crashes + 1
    /\ Restore
    /\ pc' = "idle" /\ endedBy' = "none"
    /\ iterations' = 0 /\ idleTurns' = 0 /\ reply' = "talk"
    /\ done' = FALSE /\ doneCalled' = FALSE
    /\ driver' = "none" /\ stop' = FALSE /\ inbox' = <<>> /\ expired' = FALSE
    /\ stoppedAt' = 0
    /\ broken' = {}
    /\ UNCHANGED <<db, injections, toolVars, autoApprove, turns>>
-----------------------------------------------------------------------------
AgentStep ==
    \/ AddSystemPrompt \/ AddUserMessage
    \/ Leave \/ Proceed \/ TakeInjection \/ SendRequest \/ Receive
    \/ AddAnswer \/ LogAnswer
    \/ \E tool \in {"done_task", "other"} : InvokeTool(tool)
    \/ ToolThrows
    \/ FailBeforeTool \/ RecordTool \/ FinishScript \/ AddResult

Environment == RequestStop \/ Inject \/ Expire \/ CrashAndRestart

Next == StartTurn \/ AgentStep \/ Environment

\* Where the turn is in the hands of the server or of the model's script, and
\* nothing limits how long: no deadline and no stop is looked at there.
AtRequest == pc = "request"
AtScript == pc = "script"

(***************************************************************************)
(* The agent thread keeps running while it is in a turn, wherever its own  *)
(* code decides what comes next.  No reply is owed and no end of a script. *)
(***************************************************************************)
Spec == Init /\ [][Next]_vars /\ WF_vars(AgentStep /\ ~AtRequest /\ ~AtScript)
-----------------------------------------------------------------------------
Places == {"idle", "system", "user", "top", "drain", "request", "answer", "log",
           "script", "tool", "result"}

ConversationType ==
    history \in Seq(Messages) /\ cache \in Seq(Messages) /\ db \in Seq(Messages)

LoopType ==
    /\ pc \in Places
    /\ endedBy \in {"none", "limit", "talk", "done", "error"}
    /\ iterations \in Nat /\ idleTurns \in Nat
    /\ reply \in {"talk", "code"}
    /\ done \in BOOLEAN /\ doneCalled \in BOOLEAN

DriverType ==
    /\ driver \in {"none", "cockpit", "auto"}
    /\ stop \in BOOLEAN /\ expired \in BOOLEAN
    /\ inbox \in Seq(Injected)
    /\ injections \in 0 .. MaxInjections
    /\ stoppedAt \in Nat

CountersType ==
    /\ autoApprove \in BOOLEAN
    /\ broken \subseteq Statements
    /\ failures \in 0 .. MaxFailures /\ crashes \in 0 .. MaxCrashes
    /\ effects \in 0 .. MaxTools /\ toolRows \in 0 .. MaxTools
    /\ thrown \in 0 .. MaxTools
    /\ turns \in 0 .. MaxTurns

TypeOK == ConversationType /\ LoopType /\ DriverType /\ CountersType

(***************************************************************************)
(* What the model is sent is what is stored, in the same order, whatever   *)
(* write fails and wherever the process dies: the cache is the end of the  *)
(* stored conversation, and all of it unless it could not be read          *)
(* (lines 75-93, 412-425).                                                 *)
(***************************************************************************)
SentIsStored ==
    \E gap \in 0 .. Len(db) :
        /\ Len(cache) = Len(db) - gap
        /\ \A i \in 1 .. Len(cache) : cache[i] = db[gap + i]
        /\ failures = 0 => gap = 0

(***************************************************************************)
(* A request is never sent with the model's own words as its last message: *)
(* it ends with the user's, an injected one or a script's result, whatever *)
(* was lost before (lines 243-288, 319-322).                               *)
(***************************************************************************)
RequestEndsWithInput ==
    pc = "request" =>
        /\ cache # <<>>
        /\ cache[Len(cache)].role \in {"User", "Tool"}

(***************************************************************************)
(* While the database works, every request opens with the system prompt    *)
(* and holds no second one, in a resumed session as in a new one.          *)
(***************************************************************************)
SystemPromptOnce ==
    (pc = "request" /\ failures = 0) =>
        \A i \in 1 .. Len(cache) : cache[i].role = "System" <=> i = 1

(***************************************************************************)
(* A turn ended by done_task is a turn in which done_task ran: the signal  *)
(* of a turn that an error cut short ends no later one (lines 228-230,     *)
(* 383-385).                                                               *)
(***************************************************************************)
DoneIsOfThisTurn == endedBy = "done" => doneCalled

(***************************************************************************)
(* A tool that ran is in tool_invocations, but for the one that is         *)
(* running, those that threw, one per death of the process and two per     *)
(* failed write (lines 97-176; lua_context.cpp:51-65).                     *)
(***************************************************************************)
ToolsAreRecorded ==
    /\ toolRows + thrown <= effects
    /\ effects <= toolRows + thrown + 2 * failures + crashes
                 + (IF pc = "tool" THEN 1 ELSE 0)

(***************************************************************************)
(* Injected messages reach the model once each and in their order, over    *)
(* turns that share a driver and over restarts (lines 261-272).            *)
(***************************************************************************)
InjectionsInOrder ==
    /\ \A i, j \in DOMAIN cache :
          (i < j /\ cache[i].no # 0 /\ cache[j].no # 0) => cache[i].no < cache[j].no
    /\ \A i \in DOMAIN cache, k \in DOMAIN inbox : cache[i].no < inbox[k]
    /\ \A k, l \in DOMAIN inbox : k < l => inbox[k] < inbox[l]

(***************************************************************************)
(* After a stop at most one more reply enters the conversation, the one    *)
(* that was under way: no new round is begun (lines 244, 284-305).         *)
(***************************************************************************)
StopEndsTheLoop ==
    stop => \A i, j \in DOMAIN history :
               (/\ i > stoppedAt /\ history[i].role = "Assistant"
                /\ j > stoppedAt /\ history[j].role = "Assistant") => i = j

(***************************************************************************)
(* A turn of an agent that does not approve by itself ends, with or        *)
(* without a stop, a deadline or a reply without a script, unless one      *)
(* request or one script of it never does (lines 243-258, 284, 319-395).   *)
(***************************************************************************)
TurnEnds ==
    (pc # "idle" /\ ~autoApprove) ~> (pc = "idle" \/ []AtRequest \/ []AtScript)
=============================================================================
