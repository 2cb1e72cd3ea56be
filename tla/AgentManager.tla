---------------------------- MODULE AgentManager ----------------------------
(***************************************************************************)
(* AgentManager (include/agent_driver.hpp): the registry of agents that    *)
(* run in threads of their own, and the calls other threads make on it.    *)
(*                                                                         *)
(* A spawn is known by its number; a second spawn under the same id        *)
(* replaces the record of the first in the registry.  registry_mutex_      *)
(* makes a call's critical section one step, but for two things done       *)
(* inside it that take time: the store that follows a test of a state the  *)
(* agent's thread writes with no lock, and the destruction of a replaced   *)
(* record, whose shared_future is the last of an asynchronous task.        *)
(***************************************************************************)
EXTENDS Integers

CONSTANTS
    Ids,           \* the agents' names
    Parents,       \* those an agent is spawned under
    Callers,       \* threads that are no agent's
    Dropped,       \* the kinds of agents whose AgentHandle the caller drops
    MaxSpawns,     \* bound: spawns
    MaxCalls,      \* bound: park, wake, inject and stop calls
    MaxFeedback    \* bound: pieces of feedback of sub-agents

ASSUME AgentManagerAssumption ==
    /\ Parents \subseteq Ids /\ "nobody" \notin Ids
    /\ Callers \cap Nat = {}
    /\ Dropped \subseteq {"auto", "sub"}
    /\ MaxSpawns \in Nat /\ MaxCalls \in Nat /\ MaxFeedback \in Nat

VARIABLES
    registry,     \* registry_: the spawn registered under an id, 0 when none
    spawns,       \* spawns begun
    id, kind, parent,            \* of each spawn, as its caller gave them
    state, waiting,              \* ManagedAgentRecord
    inbox, stop,                 \* the driver's: messages queued, hard stop
    thread,       \* none, running, recording, posting, ended
    call,         \* what each thread does inside a call of the manager
    mutex,        \* who holds registry_mutex_ over several steps
    calls, feedback,             \* observed
    parked, announced            \* observed: spawns ever parked; whose end is posted

recordVars == <<id, kind, parent, state, waiting>>
driverVars == <<inbox, stop>>
threadVars == <<thread, announced>>
countVars == <<calls, feedback, parked>>
vars == <<registry, spawns, recordVars, driverVars, threadVars, call, mutex, countVars>>

Spawns == 1 .. MaxSpawns
NoId == "nobody"
Free == 0
Idle == [does |-> "nothing"]
Terminal == {"Finished", "Errored"}

Init ==
    /\ registry = [i \in Ids |-> 0]
    /\ spawns = 0
    /\ id = [n \in Spawns |-> NoId] /\ parent = [n \in Spawns |-> NoId]
    /\ kind = [n \in Spawns |-> "auto"]
    /\ state = [n \in Spawns |-> "Running"] /\ waiting = [n \in Spawns |-> FALSE]
    /\ inbox = [n \in Spawns |-> 0] /\ stop = [n \in Spawns |-> FALSE]
    /\ thread = [n \in Spawns |-> "none"]
    /\ call = [a \in Callers \cup Spawns |-> Idle]
    /\ mutex = Free
    /\ calls = 0 /\ feedback = 0 /\ parked = {} /\ announced = {}
-----------------------------------------------------------------------------
Do(a, what) == call' = [call EXCEPT ![a] = what]
Return(a) == Do(a, Idle)

IsFree(a) == call[a] = Idle

\* The threads that may call: any caller, and an agent while it runs.
MayCall(a) == IsFree(a) /\ a \in Callers

Counted == calls < MaxCalls /\ calls' = calls + 1

\* A spawn in progress keeps its record until it returns.
Spawning(n) ==
    \E a \in Callers : call[a].does \in {"insert", "destroy", "leave"} /\ call[a].spawn = n

\* The record exists while the registry or the spawn in progress refers to it.
Exists(n) ==
    \/ id[n] # NoId /\ registry[id[n]] = n
    \/ Spawning(n)
-----------------------------------------------------------------------------
(***************************************************************************)
(* Spawning.  spawn_auto and spawn_subagent start the thread before the    *)
(* record is registered, spawn_interactive after.                          *)
(***************************************************************************)
Spawn(a, i, k, p) ==
    /\ MayCall(a)
    /\ spawns < MaxSpawns
    /\ spawns' = spawns + 1
    /\ id' = [id EXCEPT ![spawns'] = i]
    /\ kind' = [kind EXCEPT ![spawns'] = k]
    /\ parent' = [parent EXCEPT ![spawns'] = p]
    /\ thread' = [thread EXCEPT ![spawns'] = IF k = "interactive" THEN "none" ELSE "running"]
    /\ Do(a, [does |-> "insert", spawn |-> spawns'])
    /\ UNCHANGED <<registry, state, waiting, driverVars, announced, mutex, countVars>>

\* Mutant: the handle does not share the future's state.
BlocksWithoutHandle(n) == n # 0 /\ kind[n] # "interactive" /\ ~Spawning(n) /\ thread[n] # "ended"

\* Destroying the record waits for the thread of an asynchronous task when no
\* handle shares its result.
Blocks(n) ==
    n # 0 /\ kind[n] \in Dropped /\ ~Spawning(n) /\ thread[n] # "ended"

Insert(a) ==
    /\ call[a].does = "insert"
    /\ mutex = Free
    /\ LET n == call[a].spawn
           old == registry[id[n]]
       IN  /\ registry' = [registry EXCEPT ![id[n]] = n]
           /\ IF Blocks(old)
              THEN mutex' = a /\ Do(a, [does |-> "destroy", spawn |-> n, old |-> old])
              ELSE mutex' = mutex /\ Do(a, [does |-> "leave", spawn |-> n])
    /\ UNCHANGED <<spawns, recordVars, driverVars, threadVars, countVars>>

Destroy(a) ==
    /\ call[a].does = "destroy"
    /\ thread[call[a].old] = "ended"
    /\ mutex' = Free
    /\ Do(a, [does |-> "leave", spawn |-> call[a].spawn])
    /\ UNCHANGED <<registry, spawns, recordVars, driverVars, threadVars, countVars>>

LeaveSpawn(a) ==
    /\ call[a].does = "leave"
    /\ LET n == call[a].spawn
       IN  thread' = IF kind[n] = "interactive" THEN [thread EXCEPT ![n] = "running"]
                                                ELSE thread
    /\ Return(a)
    /\ UNCHANGED <<registry, spawns, recordVars, driverVars, announced, mutex, countVars>>
-----------------------------------------------------------------------------
(***************************************************************************)
(* Parking, waking, injecting, stopping.  A call on an id that is not in   *)
(* the registry returns false and changes nothing.                         *)
(***************************************************************************)
Park(a, i) ==
    /\ MayCall(a) /\ mutex = Free
    /\ registry[i] # 0
    /\ Counted
    /\ state' = [state EXCEPT ![registry[i]] = "Waiting"]
    /\ waiting' = [waiting EXCEPT ![registry[i]] = TRUE]
    /\ parked' = parked \cup {registry[i]}
    /\ UNCHANGED <<registry, spawns, id, kind, parent, driverVars, threadVars, call,
                   mutex, feedback>>

\* Mutant: the reason is cleared and the state left.
ClearReasonOnly(a, i) ==
    /\ mutex = Free
    /\ waiting' = [waiting EXCEPT ![registry[i]] = FALSE]
    /\ mutex' = mutex /\ Return(a)

\* The test of wake_agent and of inject_into, under the lock; the store that
\* follows it is a step of its own.
ClearWaiting(a, i) ==
    /\ mutex = Free
    /\ LET n == registry[i]
       IN  /\ waiting' = [waiting EXCEPT ![n] = FALSE]
           /\ IF state[n] = "Waiting"
              THEN mutex' = a /\ Do(a, [does |-> "run", spawn |-> n])
              ELSE mutex' = mutex /\ Return(a)

Wake(a, i) ==
    /\ MayCall(a)
    /\ registry[i] # 0
    /\ Counted
    /\ ClearWaiting(a, i)
    /\ UNCHANGED <<registry, spawns, id, kind, parent, state, driverVars, threadVars,
                   feedback, parked>>

SetRunning(a) ==
    /\ call[a].does = "run"
    /\ state' = [state EXCEPT ![call[a].spawn] = "Running"]
    /\ mutex' = Free
    /\ Return(a)
    /\ UNCHANGED <<registry, spawns, id, kind, parent, waiting, driverVars, threadVars,
                   countVars>>

\* inject_into and request_stop: the driver is looked up under the lock and
\* called without it, when another may have taken its place.
LookUp(a, i, step) ==
    /\ mutex = Free
    /\ IF registry[i] = 0
       THEN Return(a)
       ELSE Do(a, [does |-> step, spawn |-> registry[i], id |-> i])

InjectInto(a, i) ==
    /\ MayCall(a)
    /\ Counted
    /\ LookUp(a, i, "push")
    /\ UNCHANGED <<registry, spawns, recordVars, driverVars, threadVars, mutex,
                   feedback, parked>>

Push(a) ==
    /\ call[a].does = "push"
    /\ inbox' = [inbox EXCEPT ![call[a].spawn] = @ + 1]
    /\ Do(a, [does |-> "clear", id |-> call[a].id])
    /\ UNCHANGED <<registry, spawns, recordVars, stop, threadVars, mutex, countVars>>

FinishInject(a) ==
    /\ call[a].does = "clear"
    /\ ClearWaiting(a, call[a].id)
    /\ UNCHANGED <<registry, spawns, id, kind, parent, state, driverVars, threadVars,
                   countVars>>

RequestStop(a, i) ==
    /\ MayCall(a)
    /\ Counted
    /\ LookUp(a, i, "halt")
    /\ UNCHANGED <<registry, spawns, recordVars, driverVars, threadVars, mutex,
                   feedback, parked>>

Halt(a) ==
    /\ call[a].does = "halt"
    /\ stop' = [stop EXCEPT ![call[a].spawn] = TRUE]
    /\ Return(a)
    /\ UNCHANGED <<registry, spawns, recordVars, inbox, threadVars, mutex, countVars>>
-----------------------------------------------------------------------------
(***************************************************************************)
(* The thread of spawn n.                                                  *)
(***************************************************************************)
NextInjection(n) ==
    /\ thread[n] = "running" /\ IsFree(n)
    /\ inbox[n] > 0
    /\ inbox' = [inbox EXCEPT ![n] = @ - 1]
    /\ UNCHANGED <<registry, spawns, recordVars, stop, threadVars, call, mutex, countVars>>

\* SubAgentDriver::maybe_forward_feedback, on a completed turn or a script's
\* result; the parent is injected through the manager.
Feed(n) ==
    /\ thread[n] = "running" /\ IsFree(n)
    /\ kind[n] = "sub" /\ parent[n] # NoId
    /\ feedback < MaxFeedback
    /\ feedback' = feedback + 1
    /\ Do(n, [does |-> "feed"])
    /\ UNCHANGED <<registry, spawns, recordVars, driverVars, threadVars, mutex, calls, parked>>

InjectParent(n) ==
    /\ call[n].does = "feed"
    /\ LookUp(n, parent[n], "push")
    /\ UNCHANGED <<registry, spawns, recordVars, driverVars, threadVars, mutex, countVars>>

\* The task returns or throws.  An interactive agent's promise is kept before
\* its end is recorded.
EndTask(n) ==
    /\ thread[n] = "running" /\ IsFree(n)
    /\ thread' = [thread EXCEPT ![n] = "recording"]
    /\ UNCHANGED <<registry, spawns, recordVars, driverVars, announced, call, mutex, countVars>>

\* Mutant: the record is looked up by the agent's id.
RecordById(n, outcome) ==
    IF registry[id[n]] # 0 THEN [state EXCEPT ![registry[id[n]]] = outcome] ELSE state

\* Mutant: the end is recorded by whoever handles the event.
RecordNothing(n, outcome) == state

\* The state of the record the thread was started with, if it is still there.
Recorded(n, outcome) ==
    IF Exists(n) THEN [state EXCEPT ![n] = outcome] ELSE state

RecordEnd(n, outcome) ==
    /\ thread[n] = "recording"
    /\ state' = Recorded(n, outcome)
    /\ thread' = [thread EXCEPT ![n] = "posting"]
    /\ UNCHANGED <<registry, spawns, id, kind, parent, waiting, driverVars, announced,
                   call, mutex, countVars>>

PostEnd(n) ==
    /\ thread[n] = "posting"
    /\ announced' = announced \cup {n}
    /\ thread' = [thread EXCEPT ![n] = "ended"]
    /\ UNCHANGED <<registry, spawns, recordVars, driverVars, call, mutex, countVars>>
-----------------------------------------------------------------------------
InCall(a) ==
    \/ a \in Callers /\ (Insert(a) \/ Destroy(a) \/ LeaveSpawn(a))
    \/ SetRunning(a) \/ Push(a) \/ FinishInject(a) \/ Halt(a)
    \/ a \in Spawns /\ InjectParent(a)

AgentThread(n) ==
    \/ NextInjection(n)
    \/ EndTask(n)
    \/ \E outcome \in Terminal : RecordEnd(n, outcome)
    \/ PostEnd(n)

Next ==
    \/ \E a \in Callers, i \in Ids :
          \/ \E k \in {"auto", "interactive"} : Spawn(a, i, k, NoId)
          \/ \E p \in (Parents \ {i}) \cup {NoId} : Spawn(a, i, "sub", p)
          \/ Park(a, i) \/ Wake(a, i) \/ InjectInto(a, i) \/ RequestStop(a, i)
    \/ \E a \in Callers \cup Spawns : InCall(a)
    \/ \E n \in Spawns : AgentThread(n)
    \/ \E n \in Spawns : Feed(n)

(***************************************************************************)
(* A call goes on whenever it can, and so does a thread whose task has     *)
(* ended.  Nothing makes a task end (AgentLoop).                           *)
(***************************************************************************)
Spec ==
    /\ Init /\ [][Next]_vars
    /\ \A a \in Callers \cup Spawns : WF_vars(InCall(a))
    /\ \A n \in Spawns : WF_vars(AgentThread(n) /\ thread[n] # "running")
-----------------------------------------------------------------------------
CallTypes ==
    {Idle}
    \cup [does : {"insert", "leave", "run"}, spawn : Spawns]
    \cup [does : {"destroy"}, spawn : Spawns, old : Spawns]
    \cup [does : {"push", "halt"}, spawn : Spawns, id : Ids]
    \cup [does : {"clear"}, id : Ids]
    \cup [does : {"feed"}]

TypeOK ==
    /\ registry \in [Ids -> 0 .. MaxSpawns]
    /\ spawns \in 0 .. MaxSpawns
    /\ id \in [Spawns -> Ids \cup {NoId}] /\ parent \in [Spawns -> Ids \cup {NoId}]
    /\ kind \in [Spawns -> {"auto", "sub", "interactive"}]
    /\ state \in [Spawns -> {"Running", "Waiting"} \cup Terminal]
    /\ waiting \in [Spawns -> BOOLEAN]
    /\ inbox \in [Spawns -> Nat] /\ stop \in [Spawns -> BOOLEAN]
    /\ thread \in [Spawns -> {"none", "running", "recording", "posting", "ended"}]
    /\ call \in [Callers \cup Spawns -> CallTypes]
    /\ mutex \in {Free} \cup Callers \cup Spawns
    /\ calls \in 0 .. MaxCalls /\ feedback \in 0 .. MaxFeedback
    /\ parked \subseteq Spawns /\ announced \subseteq Spawns

(***************************************************************************)
(* An agent is reported at its end only when its own thread is: the late   *)
(* end of an earlier agent of the same name does not mark the one that     *)
(* replaced it (the weak_ptr of lines 598-616).                            *)
(***************************************************************************)
EndIsOfItsOwnThread ==
    \A n \in Spawns : state[n] \in Terminal => thread[n] \in {"posting", "ended"}

(***************************************************************************)
(* Whoever has seen the event of an agent's end finds the end in its       *)
(* status, unless the agent was parked meanwhile (lines 606-621).          *)
(***************************************************************************)
AnnouncedIsRecorded ==
    \A n \in announced : (Exists(n) /\ n \notin parked) => state[n] \in Terminal

(***************************************************************************)
(* An agent shown as waiting has its reason for it: wake and inject take   *)
(* both away, whichever calls cross (lines 543-569 and 798-808).           *)
(***************************************************************************)
WaitingHasAReason ==
    mutex = Free => \A n \in Spawns : state[n] = "Waiting" => waiting[n]

\* A record is being replaced, under the lock, whose task goes on and is in no
\* call of the manager.
WaitsForTask ==
    \E a \in Callers : /\ call[a].does = "destroy"
                       /\ thread[call[a].old] = "running" /\ IsFree(call[a].old)

(***************************************************************************)
(* Every call returns, while agents call the manager too and callers spawn *)
(* under names in use, unless a replaced task never ends: as long as they  *)
(* keep the handles of the agents that call.  Without a handle the record  *)
(* that is replaced is destroyed under registry_mutex_, where it waits for *)
(* its task (lines 628-632), and a task that calls waits for the mutex.    *)
(***************************************************************************)
EveryCallReturns ==
    \A a \in Callers \cup Spawns : (call[a] # Idle) ~> (call[a] = Idle \/ []WaitsForTask)
=============================================================================
