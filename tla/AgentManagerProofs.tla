-------------------------- MODULE AgentManagerProofs --------------------------
(***************************************************************************)
(* Proofs about the registry of agents, for any number of names, callers,  *)
(* spawns and calls.                                                       *)
(***************************************************************************)
EXTENDS AgentManager, TLAPS

Actors == Callers \cup Spawns

InSpawn == {"insert", "destroy", "leave"}

\* A spawn in progress is its caller's alone, and an interactive agent's
\* thread starts at its end.
CallInv ==
    /\ \A a \in Actors : call[a].does \in InSpawn =>
          /\ a \in Callers /\ call[a].spawn \in 1 .. spawns
          /\ kind[call[a].spawn] = "interactive" => thread[call[a].spawn] = "none"
    /\ \A a, b \in Actors :
          (call[a].does \in InSpawn /\ call[b].does \in InSpawn
             /\ call[a].spawn = call[b].spawn) => a = b
    /\ \A a \in Actors : call[a].does \in {"run", "destroy"} <=> mutex = a
    /\ \A n \in Spawns : call[n].does = "feed" => n <= spawns /\ parent[n] \in Ids

\* A spawn has a thread and a name once it is begun; the registry knows it by
\* that name.
RegistryInv ==
    /\ \A n \in Spawns : n > spawns => thread[n] = "none" /\ id[n] = NoId
    /\ \A n \in 1 .. spawns : id[n] \in Ids
    /\ \A i \in Ids : registry[i] # 0 => registry[i] <= spawns /\ id[registry[i]] = i
    /\ \A a \in Actors : call[a].does \in {"push", "clear"} => registry[call[a].id] # 0

\* An end that is recorded stays, but for what a park leads to.
EndInv ==
    /\ EndIsOfItsOwnThread
    /\ \A n \in Spawns :
          (thread[n] \in {"posting", "ended"} /\ Exists(n) /\ n \notin parked)
              => state[n] \in Terminal
    /\ \A n \in announced : n \in Spawns /\ thread[n] = "ended"

\* Waiting comes from a park; the reason goes first, and the state with it.
WaitInv ==
    /\ \A a \in Actors : call[a].does = "run" => call[a].spawn \in parked
    /\ \A n \in Spawns : state[n] = "Waiting" =>
          /\ n \in parked
          /\ \/ waiting[n]
             \/ mutex \in Actors /\ call[mutex].does = "run" /\ call[mutex].spawn = n
-----------------------------------------------------------------------------
\* What is done with the driver that was looked up.
LookUps == {"push", "halt"}

LEMMA CallTyped ==
    ASSUME NEW c \in CallTypes
    PROVE  /\ c.does \in {"insert", "destroy", "leave", "run", "push", "halt"} => c.spawn \in Spawns
           /\ c.does = "destroy" => c.old \in Spawns
           /\ c.does \in {"push", "clear"} => c.id \in Ids
           /\ c.does = "nothing" <=> c = Idle
BY DEF CallTypes, Idle

LEMMA CallMade ==
    /\ Idle \in CallTypes
    /\ [does |-> "feed"] \in CallTypes
    /\ \A n \in Spawns : /\ [does |-> "insert", spawn |-> n] \in CallTypes
                         /\ [does |-> "leave", spawn |-> n] \in CallTypes
                         /\ [does |-> "run", spawn |-> n] \in CallTypes
    /\ \A n, m \in Spawns : [does |-> "destroy", spawn |-> n, old |-> m] \in CallTypes
    /\ \A i \in Ids : [does |-> "clear", id |-> i] \in CallTypes
    /\ \A step \in LookUps, n \in Spawns, i \in Ids :
          [does |-> step, spawn |-> n, id |-> i] \in CallTypes
BY DEF CallTypes, LookUps

\* The next call of a, and nobody else's.
LEMMA CallStep ==
    ASSUME TypeOK, NEW a \in Actors, NEW c \in CallTypes, Do(a, c)
    PROVE  /\ call' \in [Actors -> CallTypes]
           /\ call'[a] = c /\ \A b \in Actors \ {a} : call'[b] = call[b]
BY DEF TypeOK, Do, Actors

\* What is registered under a name is a spawn.
LEMMA Registered ==
    ASSUME TypeOK, NEW i \in Ids
    PROVE  registry[i] # 0 => registry[i] \in Spawns
BY AgentManagerAssumption DEF TypeOK, Spawns

\* The steps, one by one.
LEMMA Steps ==
    ASSUME [Next]_vars
    PROVE  \/ \E a \in Callers, i \in Ids, k \in {"auto", "sub", "interactive"},
                 p \in Parents \cup {NoId} : Spawn(a, i, k, p)
           \/ \E a \in Callers, i \in Ids :
                 Park(a, i) \/ Wake(a, i) \/ InjectInto(a, i) \/ RequestStop(a, i)
           \/ \E a \in Callers : Insert(a) \/ Destroy(a) \/ LeaveSpawn(a)
           \/ \E a \in Actors : SetRunning(a) \/ Push(a) \/ FinishInject(a) \/ Halt(a)
           \/ \E n \in Spawns : InjectParent(n) \/ NextInjection(n) \/ EndTask(n)
                                  \/ PostEnd(n) \/ Feed(n)
           \/ \E n \in Spawns, outcome \in Terminal : RecordEnd(n, outcome)
           \/ UNCHANGED vars
BY DEF Next, InCall, AgentThread, Actors

LEMMA TypeStep == TypeOK /\ CallInv /\ RegistryInv /\ [Next]_vars => TypeOK'
<1>. SUFFICES ASSUME TypeOK, CallInv, RegistryInv, [Next]_vars PROVE TypeOK'
  OBVIOUS
<1>. USE AgentManagerAssumption DEF recordVars, driverVars, threadVars, countVars
<1>0. /\ \A a \in Actors : call[a] \in CallTypes
      /\ \A a \in Callers : a \in Actors
      /\ \A n \in Spawns : n \in Actors
      /\ Free \in {Free} \cup Callers \cup Spawns
  BY DEF TypeOK, Actors
<1>1. ASSUME NEW a \in Callers, NEW i \in Ids,
             NEW k \in {"auto", "sub", "interactive"}, NEW p \in Parents \cup {NoId},
             Spawn(a, i, k, p)
      PROVE  TypeOK'
  <2>1. spawns' \in Spawns /\ spawns' \in 0 .. MaxSpawns
    BY <1>1 DEF Spawn, Spawns, TypeOK
  <2>2. call' \in [Actors -> CallTypes]
    BY <1>0, <1>1, <2>1, CallStep, CallMade DEF Spawn
  <2>3. /\ id' \in [Spawns -> Ids \cup {NoId}] /\ parent' \in [Spawns -> Ids \cup {NoId}]
        /\ kind' \in [Spawns -> {"auto", "sub", "interactive"}]
        /\ thread' \in [Spawns -> {"none", "running", "recording", "posting", "ended"}]
    BY <1>1, <2>1 DEF Spawn, TypeOK
  <2>. QED
    BY <1>1, <2>1, <2>2, <2>3 DEF Spawn, TypeOK, Actors
<1>2. ASSUME NEW a \in Callers, NEW i \in Ids, Park(a, i) PROVE TypeOK'
  BY <1>2, Registered DEF Park, Counted, TypeOK
<1>3. ASSUME NEW a \in Actors, NEW i \in Ids, registry[i] # 0, ClearWaiting(a, i)
      PROVE  /\ call' \in [Actors -> CallTypes] /\ waiting' \in [Spawns -> BOOLEAN]
             /\ mutex' \in {Free} \cup Callers \cup Spawns
  <2>1. registry[i] \in Spawns
    BY <1>3, Registered
  <2>2. CASE state[registry[i]] = "Waiting"
    <3>1. call' \in [Actors -> CallTypes]
      BY <1>3, <2>1, <2>2, CallStep, CallMade DEF ClearWaiting
    <3>. QED
      BY <1>3, <2>1, <2>2, <3>1 DEF ClearWaiting, TypeOK, Actors
  <2>3. CASE state[registry[i]] # "Waiting"
    <3>1. call' \in [Actors -> CallTypes]
      BY <1>3, <2>1, <2>3, CallStep, CallMade DEF ClearWaiting, Return
    <3>. QED
      BY <1>3, <2>1, <2>3, <3>1 DEF ClearWaiting, TypeOK
  <2>. QED
    BY <2>2, <2>3
<1>4. ASSUME NEW a \in Callers, NEW i \in Ids, Wake(a, i) PROVE TypeOK'
  BY <1>0, <1>3, <1>4 DEF Wake, Counted, TypeOK, Actors
<1>5. ASSUME NEW a \in Actors, NEW i \in Ids, NEW step \in LookUps, LookUp(a, i, step)
      PROVE  call' \in [Actors -> CallTypes]
  <2>1. CASE registry[i] = 0
    BY <1>5, <2>1, CallStep, CallMade DEF LookUp, Return
  <2>2. CASE registry[i] # 0
    BY <1>5, <2>2, Registered, CallStep, CallMade DEF LookUp
  <2>. QED
    BY <2>1, <2>2
<1>6. ASSUME NEW a \in Callers, NEW i \in Ids, InjectInto(a, i) \/ RequestStop(a, i)
      PROVE  TypeOK'
  <2>1. call' \in [Actors -> CallTypes]
    BY <1>0, <1>5, <1>6 DEF InjectInto, RequestStop, LookUps
  <2>. QED
    BY <1>6, <2>1 DEF InjectInto, RequestStop, Counted, TypeOK, Actors
<1>7. ASSUME NEW a \in Actors, Halt(a) PROVE TypeOK'
  <2>1. call[a].spawn \in Spawns
    BY <1>0, <1>7, CallTyped DEF Halt
  <2>2. call' \in [Actors -> CallTypes]
    BY <1>7, CallStep, CallMade DEF Halt, Return
  <2>. QED
    BY <1>7, <2>1, <2>2 DEF Halt, TypeOK, Actors
<1>8. ASSUME NEW a \in Callers, Insert(a) PROVE TypeOK'
  <2>. DEFINE n == call[a].spawn
              old == registry[id[n]]
  <2>1. n \in Spawns /\ id[n] \in Ids
    BY <1>0, <1>8, CallTyped DEF Insert, CallInv, RegistryInv, InSpawn
  <2>2. registry' \in [Ids -> 0 .. MaxSpawns]
    BY <1>8, <2>1 DEF Insert, TypeOK, Spawns
  <2>3. call' \in [Actors -> CallTypes] /\ mutex' \in {Free} \cup Callers \cup Spawns
    <3>1. CASE Blocks(old)
      <4>1. old \in Spawns
        BY <2>1, <3>1, Registered DEF Blocks
      <4>2. Do(a, [does |-> "destroy", spawn |-> n, old |-> old]) /\ mutex' = a
        BY <1>8, <3>1 DEF Insert
      <4>. QED
        BY <1>0, <2>1, <4>1, <4>2, CallStep, CallMade
    <3>2. CASE ~Blocks(old)
      <4>1. Do(a, [does |-> "leave", spawn |-> n]) /\ mutex' = mutex
        BY <1>8, <3>2 DEF Insert
      <4>. QED
        BY <1>0, <2>1, <4>1, CallStep, CallMade DEF TypeOK
    <3>. QED
      BY <3>1, <3>2
  <2>. QED
    BY <1>8, <2>2, <2>3 DEF Insert, TypeOK, Actors
<1>9. ASSUME NEW a \in Callers, Destroy(a) PROVE TypeOK'
  <2>1. call[a].spawn \in Spawns
    BY <1>0, <1>9, CallTyped DEF Destroy
  <2>2. call' \in [Actors -> CallTypes]
    BY <1>0, <1>9, <2>1, CallStep, CallMade DEF Destroy
  <2>. QED
    BY <1>0, <1>9, <2>2 DEF Destroy, TypeOK, Actors
<1>10. ASSUME NEW a \in Callers, LeaveSpawn(a) PROVE TypeOK'
  <2>1. call[a].spawn \in Spawns
    BY <1>0, <1>10, CallTyped DEF LeaveSpawn
  <2>2. call' \in [Actors -> CallTypes]
    BY <1>0, <1>10, CallStep, CallMade DEF LeaveSpawn, Return
  <2>3. thread' \in [Spawns -> {"none", "running", "recording", "posting", "ended"}]
    BY <1>10, <2>1 DEF LeaveSpawn, TypeOK
  <2>. QED
    BY <1>10, <2>2, <2>3 DEF LeaveSpawn, TypeOK, Actors
<1>11. ASSUME NEW a \in Actors, SetRunning(a) PROVE TypeOK'
  <2>1. call[a].spawn \in Spawns
    BY <1>0, <1>11, CallTyped DEF SetRunning
  <2>2. call' \in [Actors -> CallTypes]
    BY <1>11, CallStep, CallMade DEF SetRunning, Return
  <2>. QED
    BY <1>0, <1>11, <2>1, <2>2 DEF SetRunning, TypeOK, Actors
<1>12. ASSUME NEW a \in Actors, Push(a) PROVE TypeOK'
  <2>1. call[a].spawn \in Spawns /\ call[a].id \in Ids
    BY <1>0, <1>12, CallTyped DEF Push
  <2>2. call' \in [Actors -> CallTypes]
    BY <1>12, <2>1, CallStep, CallMade DEF Push
  <2>3. inbox' \in [Spawns -> Nat]
    BY <1>12, <2>1 DEF Push, TypeOK
  <2>. QED
    BY <1>12, <2>2, <2>3 DEF Push, TypeOK, Actors
<1>13. ASSUME NEW a \in Actors, FinishInject(a) PROVE TypeOK'
  <2>1. call[a].id \in Ids
    BY <1>0, <1>13, CallTyped DEF FinishInject
  <2>2. registry[call[a].id] # 0
    BY <1>13 DEF FinishInject, RegistryInv
  <2>. QED
    BY <1>3, <1>13, <2>1, <2>2 DEF FinishInject, TypeOK, Actors
<1>14. ASSUME NEW n \in Spawns, InjectParent(n) PROVE TypeOK'
  <2>1. call' \in [Actors -> CallTypes]
    BY <1>0, <1>5, <1>14 DEF InjectParent, CallInv, LookUps
  <2>. QED
    BY <1>14, <2>1 DEF InjectParent, TypeOK, Actors
<1>15. ASSUME NEW n \in Spawns, NextInjection(n) PROVE TypeOK'
  <2>1. inbox' \in [Spawns -> Nat]
    BY <1>15 DEF NextInjection, TypeOK
  <2>. QED
    BY <1>15, <2>1 DEF NextInjection, TypeOK
<1>16. ASSUME NEW n \in Spawns, EndTask(n) \/ PostEnd(n) PROVE TypeOK'
  BY <1>16 DEF EndTask, PostEnd, TypeOK
<1>17. ASSUME NEW n \in Spawns, Feed(n) PROVE TypeOK'
  <2>1. call' \in [Actors -> CallTypes]
    BY <1>0, <1>17, CallStep, CallMade DEF Feed
  <2>. QED
    BY <1>17, <2>1 DEF Feed, TypeOK, Actors
<1>18. ASSUME NEW n \in Spawns, NEW outcome \in Terminal, RecordEnd(n, outcome)
       PROVE  TypeOK'
  <2>1. state' \in [Spawns -> {"Running", "Waiting"} \cup Terminal]
    BY <1>18 DEF RecordEnd, Recorded, TypeOK
  <2>. QED
    BY <1>18, <2>1 DEF RecordEnd, TypeOK
<1>19. CASE UNCHANGED vars
  BY <1>19 DEF vars, TypeOK
<1>. QED
  BY <1>1, <1>2, <1>4, <1>6, <1>7, <1>8, <1>9, <1>10, <1>11, <1>12, <1>13, <1>14, <1>15,
     <1>16, <1>17, <1>18, <1>19, Steps
-----------------------------------------------------------------------------
(***************************************************************************)
(* What a step of one actor does to its call and to the lock.              *)
(***************************************************************************)
IInv == TypeOK /\ CallInv /\ RegistryInv /\ EndInv /\ WaitInv

\* The calls of a name the test of ClearWaiting and the look-up leave behind.
LEMMA Cleared ==
    ASSUME TypeOK, NEW a \in Actors, NEW i \in Ids, registry[i] # 0, ClearWaiting(a, i)
    PROVE  /\ call'[a] \in {Idle, [does |-> "run", spawn |-> registry[i]]}
           /\ call'[a].does = "run" <=> mutex' = a
           /\ mutex' # a => mutex' = Free
           /\ \A b \in Actors \ {a} : call'[b] = call[b]
<1>. USE AgentManagerAssumption
<1>1. registry[i] \in Spawns /\ mutex = Free /\ a # Free
  BY Registered DEF ClearWaiting, Actors, Spawns, Free
<1>2. CASE state[registry[i]] = "Waiting"
  <2>1. mutex' = a /\ Do(a, [does |-> "run", spawn |-> registry[i]])
    BY <1>2 DEF ClearWaiting
  <2>2. [does |-> "run", spawn |-> registry[i]] \in CallTypes
    BY <1>1, CallMade
  <2>3. /\ call'[a] = [does |-> "run", spawn |-> registry[i]]
        /\ \A b \in Actors \ {a} : call'[b] = call[b]
    BY <2>1, <2>2, CallStep
  <2>. QED
    BY <2>1, <2>3
<1>3. CASE state[registry[i]] # "Waiting"
  BY <1>1, <1>3, CallStep, CallMade DEF ClearWaiting, Return, Idle
<1>. QED
  BY <1>2, <1>3

LEMMA LookedUp ==
    ASSUME TypeOK, NEW a \in Actors, NEW i \in Ids, NEW step \in LookUps, LookUp(a, i, step)
    PROVE  /\ \/ call'[a] = Idle
              \/ registry[i] # 0 /\ call'[a] = [does |-> step, spawn |-> registry[i], id |-> i]
           /\ \A b \in Actors \ {a} : call'[b] = call[b]
<1>1. CASE registry[i] = 0
  BY <1>1, CallStep, CallMade DEF LookUp, Return
<1>2. CASE registry[i] # 0
  BY <1>2, Registered, CallStep, CallMade DEF LookUp
<1>. QED
  BY <1>1, <1>2

LEMMA Inserted ==
    ASSUME IInv, NEW a \in Callers, Insert(a)
    PROVE  /\ call[a].does = "insert" /\ mutex = Free
           /\ call[a].spawn \in 1 .. spawns /\ id[call[a].spawn] \in Ids
           /\ registry' = [registry EXCEPT ![id[call[a].spawn]] = call[a].spawn]
           /\ call'[a].does \in {"destroy", "leave"} /\ call'[a].spawn = call[a].spawn
           /\ \A b \in Actors \ {a} : call'[b] = call[b]
           /\ mutex' = IF call'[a].does = "destroy" THEN a ELSE mutex
           /\ UNCHANGED <<spawns, recordVars, threadVars, parked>>
<1>. USE DEF IInv
<1>. DEFINE n == call[a].spawn
            old == registry[id[n]]
<1>1. /\ call[a].does = "insert" /\ mutex = Free
      /\ UNCHANGED <<spawns, recordVars, threadVars, parked>>
      /\ registry' = [registry EXCEPT ![id[n]] = n]
  BY DEF Insert, countVars
<1>2. a \in Actors /\ n \in 1 .. spawns /\ n \in Spawns /\ id[n] \in Ids
  <2>1. a \in Actors /\ call[a] \in CallTypes
    BY DEF Actors, TypeOK
  <2>. QED
    BY <1>1, <2>1, CallTyped DEF CallInv, RegistryInv, InSpawn
<1>3. CASE Blocks(old)
  <2>1. old \in Spawns
    BY <1>2, <1>3, Registered DEF Blocks
  <2>2. Do(a, [does |-> "destroy", spawn |-> n, old |-> old]) /\ mutex' = a
    BY <1>3 DEF Insert
  <2>3. [does |-> "destroy", spawn |-> n, old |-> old] \in CallTypes
    BY <1>2, <2>1, CallMade
  <2>4. /\ call'[a] = [does |-> "destroy", spawn |-> n, old |-> old]
        /\ \A b \in Actors \ {a} : call'[b] = call[b]
    BY <1>2, <2>2, <2>3, CallStep
  <2>. QED
    BY <1>1, <1>2, <2>2, <2>4
<1>4. CASE ~Blocks(old)
  <2>1. Do(a, [does |-> "leave", spawn |-> n]) /\ mutex' = mutex
    BY <1>4 DEF Insert
  <2>2. [does |-> "leave", spawn |-> n] \in CallTypes
    BY <1>2, CallMade
  <2>3. /\ call'[a] = [does |-> "leave", spawn |-> n]
        /\ \A b \in Actors \ {a} : call'[b] = call[b]
    BY <1>2, <2>1, <2>2, CallStep
  <2>. QED
    BY <1>1, <1>2, <2>1, <2>3
<1>. QED
  BY <1>3, <1>4

LEMMA CallKept == IInv /\ [Next]_vars => CallInv'
<1>. SUFFICES ASSUME IInv, [Next]_vars PROVE CallInv'
  OBVIOUS
<1>. USE AgentManagerAssumption DEF IInv, InSpawn
<1>0. /\ \A a \in Actors : call[a] \in CallTypes
      /\ \A a \in Callers : a \in Actors
      /\ \A n \in Spawns : n \in Actors
      /\ \A a \in Actors : a # Free
  BY DEF TypeOK, Actors, Spawns, Free
\* A call outside a spawn is followed by another, and the lock goes with it.
<1>1. ASSUME NEW a \in Actors,
             call[a].does \notin InSpawn, call'[a].does \notin InSpawn,
             \A b \in Actors \ {a} : call'[b] = call[b],
             call'[a].does = "run" <=> mutex' = a,
             mutex' # a => mutex' \in {mutex, Free},
             mutex' # mutex => mutex \in {a, Free},
             call'[a].does = "feed" => a \in Spawns /\ a <= spawns /\ parent[a] \in Ids,
             UNCHANGED <<spawns, kind, parent, thread>>
      PROVE  CallInv'
  BY <1>0, <1>1 DEF CallInv
<1>2. ASSUME NEW a \in Callers, NEW i \in Ids, NEW k \in {"auto", "sub", "interactive"},
             NEW p \in Parents \cup {NoId}, Spawn(a, i, k, p)
      PROVE  CallInv'
  <2>1. /\ call[a] = Idle
        /\ spawns' = spawns + 1 /\ spawns' \in Spawns /\ spawns \in Nat
        /\ mutex' = mutex
    BY <1>2 DEF Spawn, MayCall, IsFree, TypeOK, Spawns
  <2>2. /\ call'[a] = [does |-> "insert", spawn |-> spawns']
        /\ \A b \in Actors \ {a} : call'[b] = call[b]
    BY <1>0, <1>2, <2>1, CallStep, CallMade DEF Spawn
  <2>3. /\ \A n \in Spawns \ {spawns'} : kind'[n] = kind[n] /\ thread'[n] = thread[n]
                                            /\ parent'[n] = parent[n]
        /\ kind'[spawns'] = "interactive" => thread'[spawns'] = "none"
    BY <1>2, <2>1 DEF Spawn, TypeOK
  <2>4. \A b \in Actors \ {a} : call[b].does \in InSpawn =>
            call[b].spawn \in Spawns \ {spawns'}
    BY <2>1 DEF CallInv, Spawns
  <2>5. \A b \in Actors : call'[b].does \in InSpawn =>
          /\ b \in Callers /\ call'[b].spawn \in 1 .. spawns'
          /\ kind'[call'[b].spawn] = "interactive" => thread'[call'[b].spawn] = "none"
    BY <2>1, <2>2, <2>3, <2>4 DEF CallInv
  <2>6. \A b, c \in Actors :
          (call'[b].does \in InSpawn /\ call'[c].does \in InSpawn
             /\ call'[b].spawn = call'[c].spawn) => b = c
    BY <2>1, <2>2, <2>4 DEF CallInv
  <2>7. \A b \in Actors : call'[b].does \in {"run", "destroy"} <=> mutex' = b
    BY <1>0, <2>1, <2>2 DEF CallInv, Idle
  <2>8. \A n \in Spawns : call'[n].does = "feed" => n <= spawns' /\ parent'[n] \in Ids
    BY <1>0, <2>1, <2>2, <2>3 DEF CallInv, Spawns
  <2>. QED
    BY <2>5, <2>6, <2>7, <2>8 DEF CallInv
<1>3. ASSUME NEW a \in Callers, NEW i \in Ids, Park(a, i)
      PROVE  CallInv'
  BY <1>3 DEF Park, CallInv, recordVars, threadVars
<1>4. ASSUME NEW a \in Callers, NEW i \in Ids, Wake(a, i)
      PROVE  CallInv'
  <2>1. ClearWaiting(a, i) /\ registry[i] # 0 /\ call[a] = Idle
    BY <1>4 DEF Wake, MayCall, IsFree
  <2>2. UNCHANGED <<spawns, kind, parent, thread>> /\ mutex = Free
    BY <1>4 DEF Wake, ClearWaiting, threadVars
  <2>. QED
    BY <1>0, <1>1, <2>1, <2>2, Cleared DEF Idle
<1>5. ASSUME NEW a \in Callers, NEW i \in Ids, InjectInto(a, i) \/ RequestStop(a, i)
      PROVE  CallInv'
  <2>1. call[a] = Idle
    BY <1>5 DEF InjectInto, RequestStop, MayCall, IsFree
  <2>2. UNCHANGED <<spawns, kind, parent, thread, mutex>>
    BY <1>5 DEF InjectInto, RequestStop, recordVars, threadVars
  <2>3. mutex # a
    BY <1>0, <2>1 DEF CallInv, Idle
  <2>4. /\ call'[a].does \in {"nothing", "push", "halt"}
        /\ \A b \in Actors \ {a} : call'[b] = call[b]
    <3>1. PICK step \in LookUps : LookUp(a, i, step)
      BY <1>5 DEF InjectInto, RequestStop, LookUps
    <3>2. /\ \/ call'[a] = Idle
             \/ call'[a] = [does |-> step, spawn |-> registry[i], id |-> i]
          /\ \A b \in Actors \ {a} : call'[b] = call[b]
      BY <1>0, <3>1, LookedUp
    <3>. QED
      BY <3>2 DEF Idle, LookUps
  <2>. QED
    BY <1>0, <1>1, <2>1, <2>2, <2>3, <2>4 DEF Idle
<1>6. ASSUME NEW a \in Callers, Insert(a)
      PROVE  CallInv'
  BY <1>0, <1>6, Inserted DEF CallInv, recordVars, threadVars
<1>7. ASSUME NEW a \in Callers, Destroy(a)
      PROVE  CallInv'
  <2>1. /\ call[a].does = "destroy" /\ mutex' = Free /\ mutex = a
        /\ UNCHANGED <<spawns, kind, parent, thread>>
    BY <1>0, <1>7 DEF Destroy, CallInv, recordVars, threadVars
  <2>2. /\ call'[a] = [does |-> "leave", spawn |-> call[a].spawn]
        /\ \A b \in Actors \ {a} : call'[b] = call[b]
    <3>1. [does |-> "leave", spawn |-> call[a].spawn] \in CallTypes
      BY <1>0, <2>1, CallTyped, CallMade
    <3>. QED
      BY <1>0, <1>7, <3>1, CallStep DEF Destroy
  <2>. QED
    BY <1>0, <2>1, <2>2 DEF CallInv
<1>8. ASSUME NEW a \in Callers, LeaveSpawn(a)
      PROVE  CallInv'
  <2>1. /\ call[a].does = "leave"
        /\ UNCHANGED <<spawns, kind, parent, mutex>>
    BY <1>8 DEF LeaveSpawn, recordVars
  <2>2. call'[a] = Idle /\ \A b \in Actors \ {a} : call'[b] = call[b]
    BY <1>0, <1>8, CallStep, CallMade DEF LeaveSpawn, Return
  <2>3. \A n \in Spawns \ {call[a].spawn} : thread'[n] = thread[n]
    BY <1>8 DEF LeaveSpawn, TypeOK
  <2>4. \A b \in Actors \ {a} : call[b].does \in InSpawn =>
            call[b].spawn \in Spawns \ {call[a].spawn}
    BY <1>0, <2>1, CallTyped DEF CallInv
  <2>. QED
    BY <1>0, <2>1, <2>2, <2>3, <2>4 DEF CallInv, Idle
<1>9. ASSUME NEW a \in Actors, SetRunning(a)
      PROVE  CallInv'
  <2>1. call[a].does = "run" /\ mutex' = Free /\ mutex = a
    BY <1>9 DEF SetRunning, CallInv
  <2>2. call'[a] = Idle /\ \A b \in Actors \ {a} : call'[b] = call[b]
    BY <1>9, CallStep, CallMade DEF SetRunning, Return
  <2>3. UNCHANGED <<spawns, kind, parent, thread>>
    BY <1>9 DEF SetRunning, threadVars
  <2>. QED
    BY <1>0, <1>1, <2>1, <2>2, <2>3 DEF Idle
<1>10. ASSUME NEW a \in Actors, Push(a)
       PROVE  CallInv'
  <2>1. /\ call[a].does = "push" /\ mutex' = mutex
        /\ UNCHANGED <<spawns, kind, parent, thread>>
    BY <1>10 DEF Push, recordVars, threadVars
  <2>2. /\ call'[a] = [does |-> "clear", id |-> call[a].id]
        /\ \A b \in Actors \ {a} : call'[b] = call[b]
    <3>1. [does |-> "clear", id |-> call[a].id] \in CallTypes
      BY <1>0, <2>1, CallTyped, CallMade
    <3>. QED
      BY <1>10, <3>1, CallStep DEF Push
  <2>3. mutex # a
    BY <2>1 DEF CallInv
  <2>. QED
    BY <1>0, <1>1, <2>1, <2>2, <2>3
<1>11. ASSUME NEW a \in Actors, FinishInject(a)
       PROVE  CallInv'
  <2>1. /\ call[a].does = "clear" /\ ClearWaiting(a, call[a].id)
        /\ UNCHANGED <<spawns, kind, parent, thread>> /\ mutex = Free
    BY <1>11 DEF FinishInject, ClearWaiting, threadVars
  <2>2. call[a].id \in Ids /\ registry[call[a].id] # 0
    BY <1>0, <2>1, CallTyped DEF RegistryInv
  <2>. QED
    BY <1>0, <1>1, <2>1, <2>2, Cleared DEF Idle
<1>12. ASSUME NEW n \in Spawns, InjectParent(n)
       PROVE  CallInv'
  <2>1. /\ call[n].does = "feed" /\ LookUp(n, parent[n], "push") /\ mutex' = mutex
        /\ UNCHANGED <<spawns, kind, parent, thread>>
    BY <1>12 DEF InjectParent, recordVars, threadVars
  <2>2. parent[n] \in Ids /\ mutex # n
    BY <1>0, <2>1 DEF CallInv
  <2>3. call'[n].does \in {"nothing", "push"} /\ \A b \in Actors \ {n} : call'[b] = call[b]
    <3>1. /\ \/ call'[n] = Idle
             \/ call'[n] = [does |-> "push", spawn |-> registry[parent[n]], id |-> parent[n]]
          /\ \A b \in Actors \ {n} : call'[b] = call[b]
      BY <1>0, <2>1, <2>2, LookedUp DEF LookUps
    <3>. QED
      BY <3>1 DEF Idle
  <2>. QED
    BY <1>0, <1>1, <2>1, <2>2, <2>3
<1>13. ASSUME NEW n \in Spawns, NextInjection(n)
       PROVE  CallInv'
  BY <1>13 DEF NextInjection, CallInv, recordVars, threadVars
<1>14. ASSUME NEW n \in Spawns,
              \/ EndTask(n) \/ PostEnd(n)
              \/ \E outcome \in Terminal : RecordEnd(n, outcome)
       PROVE  CallInv'
  <2>1. /\ UNCHANGED <<spawns, kind, parent, call, mutex>>
        /\ thread[n] # "none" /\ \A m \in Spawns \ {n} : thread'[m] = thread[m]
    BY <1>14 DEF EndTask, PostEnd, RecordEnd, recordVars, TypeOK
  <2>2. \A b \in Actors : call[b].does \in InSpawn => call[b].spawn \in Spawns
    BY <1>0, CallTyped
  <2>. QED
    BY <2>1, <2>2 DEF CallInv
<1>15. ASSUME NEW n \in Spawns, Feed(n)
       PROVE  CallInv'
  <2>1. /\ call[n] = Idle /\ parent[n] # NoId /\ thread[n] = "running" /\ mutex' = mutex
        /\ UNCHANGED <<spawns, kind, parent, thread>>
    BY <1>15 DEF Feed, IsFree, recordVars, threadVars
  <2>2. /\ call'[n] = [does |-> "feed"]
        /\ \A b \in Actors \ {n} : call'[b] = call[b]
    BY <1>0, <1>15, CallStep, CallMade DEF Feed
  <2>3. n <= spawns
    BY <2>1 DEF RegistryInv, TypeOK, Spawns
  <2>4. parent[n] \in Ids /\ mutex # n
    BY <1>0, <2>1 DEF TypeOK, CallInv, Idle
  <2>. QED
    BY <1>0, <1>1, <2>1, <2>2, <2>3, <2>4 DEF Idle
<1>16. CASE UNCHANGED vars
  BY <1>16 DEF vars, CallInv, recordVars, threadVars
<1>17. ASSUME NEW a \in Actors, Halt(a)
       PROVE  CallInv'
  <2>1. /\ call[a].does = "halt" /\ mutex' = mutex
        /\ UNCHANGED <<spawns, kind, parent, thread>>
    BY <1>17 DEF Halt, recordVars, threadVars
  <2>2. call'[a] = Idle /\ \A b \in Actors \ {a} : call'[b] = call[b]
    BY <1>17, CallStep, CallMade DEF Halt, Return
  <2>3. mutex # a
    BY <2>1 DEF CallInv
  <2>. QED
    BY <1>0, <1>1, <2>1, <2>2, <2>3 DEF Idle
<1>. QED
  BY <1>2, <1>3, <1>4, <1>5, <1>6, <1>7, <1>8, <1>9, <1>10, <1>11, <1>12, <1>13, <1>14,
     <1>15, <1>16, <1>17, Steps

LEMMA RegistryKept == IInv /\ [Next]_vars => RegistryInv'
<1>. SUFFICES ASSUME IInv, [Next]_vars PROVE RegistryInv'
  OBVIOUS
<1>. USE AgentManagerAssumption DEF IInv, InSpawn
<1>0. /\ \A a \in Actors : call[a] \in CallTypes
      /\ \A a \in Callers : a \in Actors
      /\ \A n \in Spawns : n \in Actors
  BY DEF TypeOK, Actors
\* A call by the name of what is registered.
<1>1. ASSUME NEW a \in Actors,
             call'[a].does \in {"push", "clear"} => registry[call'[a].id] # 0,
             \A b \in Actors \ {a} : call'[b] = call[b],
             UNCHANGED <<spawns, id, registry, thread>>
      PROVE  RegistryInv'
  BY <1>1 DEF RegistryInv
<1>2. ASSUME NEW a \in Callers, NEW i \in Ids, NEW k \in {"auto", "sub", "interactive"},
             NEW p \in Parents \cup {NoId}, Spawn(a, i, k, p)
      PROVE  RegistryInv'
  <2>1. /\ spawns' = spawns + 1 /\ spawns' \in Spawns /\ spawns \in Nat
        /\ registry' = registry
    BY <1>2 DEF Spawn, TypeOK, Spawns
  <2>2. call'[a].does = "insert" /\ \A b \in Actors \ {a} : call'[b] = call[b]
    <3>1. [does |-> "insert", spawn |-> spawns'] \in CallTypes
      BY <2>1, CallMade
    <3>. QED
      BY <1>0, <1>2, <3>1, CallStep DEF Spawn
  <2>3. /\ \A n \in Spawns \ {spawns'} : id'[n] = id[n] /\ thread'[n] = thread[n]
        /\ id'[spawns'] = i
    BY <1>2, <2>1 DEF Spawn, TypeOK
  <2>4. \A n \in Spawns : n > spawns' => thread'[n] = "none" /\ id'[n] = NoId
    BY <2>1, <2>3 DEF RegistryInv, Spawns
  <2>5. \A n \in 1 .. spawns' : id'[n] \in Ids
    BY <2>1, <2>3 DEF RegistryInv, Spawns
  <2>6. \A j \in Ids : registry'[j] # 0 => registry'[j] <= spawns' /\ id'[registry'[j]] = j
    BY <2>1, <2>3, Registered DEF RegistryInv, Spawns
  <2>7. \A b \in Actors : call'[b].does \in {"push", "clear"} => registry'[call'[b].id] # 0
    BY <2>1, <2>2 DEF RegistryInv
  <2>. QED
    BY <2>4, <2>5, <2>6, <2>7 DEF RegistryInv
<1>3. ASSUME NEW a \in Callers, NEW i \in Ids, Park(a, i)
      PROVE  RegistryInv'
  BY <1>3 DEF Park, RegistryInv, recordVars, threadVars
<1>4. ASSUME NEW a \in Actors, NEW i \in Ids, registry[i] # 0, ClearWaiting(a, i),
             UNCHANGED <<spawns, id, registry, thread>>
      PROVE  RegistryInv'
  <2>1. call'[a].does \in {"nothing", "run"} /\ \A b \in Actors \ {a} : call'[b] = call[b]
    BY <1>4, Cleared DEF Idle
  <2>. QED
    BY <1>1, <1>4, <2>1
<1>5. ASSUME NEW a \in Callers, NEW i \in Ids, Wake(a, i)
      PROVE  RegistryInv'
  BY <1>0, <1>4, <1>5 DEF Wake, threadVars
<1>6. ASSUME NEW a \in Actors, NEW i \in Ids, NEW step \in LookUps, LookUp(a, i, step),
             UNCHANGED <<spawns, id, registry, thread>>
      PROVE  RegistryInv'
  <2>1. /\ \/ call'[a] = Idle
           \/ registry[i] # 0 /\ call'[a] = [does |-> step, spawn |-> registry[i], id |-> i]
        /\ \A b \in Actors \ {a} : call'[b] = call[b]
    BY <1>6, LookedUp
  <2>2. call'[a].does \in {"push", "clear"} => registry[call'[a].id] # 0
    BY <2>1 DEF Idle
  <2>. QED
    BY <1>1, <1>6, <2>1, <2>2
<1>7. ASSUME NEW a \in Callers, NEW i \in Ids, InjectInto(a, i) \/ RequestStop(a, i)
      PROVE  RegistryInv'
  BY <1>0, <1>6, <1>7 DEF InjectInto, RequestStop, LookUps, recordVars, threadVars
<1>8. ASSUME NEW a \in Callers, Insert(a)
      PROVE  RegistryInv'
  <2>. DEFINE n == call[a].spawn
  <2>1. /\ n \in 1 .. spawns /\ id[n] \in Ids
        /\ registry' = [registry EXCEPT ![id[n]] = n]
        /\ call'[a].does \in {"destroy", "leave"}
        /\ \A b \in Actors \ {a} : call'[b] = call[b]
        /\ UNCHANGED <<spawns, id, thread>>
    BY <1>0, <1>8, Inserted DEF recordVars, threadVars
  <2>2. \A i \in Ids : registry[i] # 0 => registry'[i] # 0
    BY <2>1 DEF TypeOK
  <2>3. \A i \in Ids : registry'[i] # 0 => registry'[i] <= spawns' /\ id'[registry'[i]] = i
    BY <2>1 DEF RegistryInv, TypeOK
  <2>4. \A b \in Actors : call'[b].does \in {"push", "clear"} => registry'[call'[b].id] # 0
    <3>1. \A b \in Actors : call[b].does \in {"push", "clear"} => call[b].id \in Ids
      BY <1>0, CallTyped
    <3>. QED
      BY <2>1, <2>2, <3>1 DEF RegistryInv
  <2>. QED
    BY <2>1, <2>3, <2>4 DEF RegistryInv
<1>9. ASSUME NEW a \in Callers, Destroy(a)
      PROVE  RegistryInv'
  <2>1. /\ call[a].does = "destroy"
        /\ UNCHANGED <<spawns, id, registry, thread>>
    BY <1>9 DEF Destroy, recordVars, threadVars
  <2>2. [does |-> "leave", spawn |-> call[a].spawn] \in CallTypes
    BY <1>0, <2>1, CallTyped, CallMade
  <2>3. /\ call'[a] = [does |-> "leave", spawn |-> call[a].spawn]
        /\ \A b \in Actors \ {a} : call'[b] = call[b]
    BY <1>0, <1>9, <2>2, CallStep DEF Destroy
  <2>. QED
    BY <1>0, <1>1, <2>1, <2>3
<1>10. ASSUME NEW a \in Callers, LeaveSpawn(a)
       PROVE  RegistryInv'
  <2>1. /\ call[a].does = "leave" /\ call[a].spawn \in 1 .. spawns
        /\ UNCHANGED <<spawns, id, registry>>
    BY <1>0, <1>10 DEF LeaveSpawn, CallInv, recordVars
  <2>2. call'[a] = Idle /\ \A b \in Actors \ {a} : call'[b] = call[b]
    BY <1>0, <1>10, CallStep, CallMade DEF LeaveSpawn, Return
  <2>3. \A n \in Spawns : n > spawns => thread'[n] = thread[n]
    BY <1>10, <2>1 DEF LeaveSpawn, TypeOK, Spawns
  <2>. QED
    BY <2>1, <2>2, <2>3 DEF RegistryInv, Idle
<1>11. ASSUME NEW a \in Actors, SetRunning(a)
       PROVE  RegistryInv'
  <2>1. call'[a] = Idle /\ \A b \in Actors \ {a} : call'[b] = call[b]
    BY <1>11, CallStep, CallMade DEF SetRunning, Return
  <2>2. UNCHANGED <<spawns, id, registry, thread>>
    BY <1>11 DEF SetRunning, threadVars
  <2>. QED
    BY <1>1, <2>1, <2>2 DEF Idle
<1>12. ASSUME NEW a \in Actors, Push(a)
       PROVE  RegistryInv'
  <2>1. /\ call[a].does = "push"
        /\ UNCHANGED <<spawns, id, registry, thread>>
    BY <1>12 DEF Push, recordVars, threadVars
  <2>2. [does |-> "clear", id |-> call[a].id] \in CallTypes
    BY <1>0, <2>1, CallTyped, CallMade
  <2>3. /\ call'[a] = [does |-> "clear", id |-> call[a].id]
        /\ \A b \in Actors \ {a} : call'[b] = call[b]
    BY <1>12, <2>2, CallStep DEF Push
  <2>4. registry[call[a].id] # 0
    BY <2>1 DEF RegistryInv
  <2>. QED
    BY <1>1, <2>1, <2>3, <2>4
<1>13. ASSUME NEW a \in Actors, FinishInject(a)
       PROVE  RegistryInv'
  <2>1. /\ call[a].does = "clear" /\ ClearWaiting(a, call[a].id)
        /\ UNCHANGED <<spawns, id, registry, thread>>
    BY <1>13 DEF FinishInject, threadVars
  <2>2. call[a].id \in Ids /\ registry[call[a].id] # 0
    BY <1>0, <2>1, CallTyped DEF RegistryInv
  <2>. QED
    BY <1>4, <2>1, <2>2
<1>14. ASSUME NEW n \in Spawns, InjectParent(n)
       PROVE  RegistryInv'
  <2>1. /\ LookUp(n, parent[n], "push") /\ parent[n] \in Ids
        /\ UNCHANGED <<spawns, id, registry, thread>>
    BY <1>14 DEF InjectParent, CallInv, recordVars, threadVars
  <2>. QED
    BY <1>0, <1>6, <2>1 DEF LookUps
<1>15. ASSUME NEW n \in Spawns, NextInjection(n)
       PROVE  RegistryInv'
  BY <1>15 DEF NextInjection, RegistryInv, recordVars, threadVars
<1>16. ASSUME NEW n \in Spawns,
              \/ EndTask(n) \/ PostEnd(n)
              \/ \E outcome \in Terminal : RecordEnd(n, outcome)
       PROVE  RegistryInv'
  <2>1. /\ UNCHANGED <<spawns, id, registry, call>>
        /\ thread[n] # "none" /\ \A m \in Spawns \ {n} : thread'[m] = thread[m]
    BY <1>16 DEF EndTask, PostEnd, RecordEnd, recordVars, TypeOK
  <2>. QED
    BY <2>1 DEF RegistryInv
<1>17. ASSUME NEW n \in Spawns, Feed(n)
       PROVE  RegistryInv'
  <2>1. call'[n] = [does |-> "feed"] /\ \A b \in Actors \ {n} : call'[b] = call[b]
    BY <1>0, <1>17, CallStep, CallMade DEF Feed
  <2>2. UNCHANGED <<spawns, id, registry, thread>>
    BY <1>17 DEF Feed, recordVars, threadVars
  <2>. QED
    BY <1>0, <1>1, <2>1, <2>2
<1>18. CASE UNCHANGED vars
  BY <1>18 DEF vars, RegistryInv, recordVars, threadVars
<1>19. ASSUME NEW a \in Actors, Halt(a)
       PROVE  RegistryInv'
  <2>1. call'[a] = Idle /\ \A b \in Actors \ {a} : call'[b] = call[b]
    BY <1>19, CallStep, CallMade DEF Halt, Return
  <2>2. UNCHANGED <<spawns, id, registry, thread>>
    BY <1>19 DEF Halt, recordVars, threadVars
  <2>. QED
    BY <1>1, <2>1, <2>2 DEF Idle
<1>. QED
  BY <1>2, <1>3, <1>5, <1>7, <1>8, <1>9, <1>10, <1>11, <1>12, <1>13, <1>14,
     <1>15, <1>16, <1>17, <1>18, <1>19, Steps
-----------------------------------------------------------------------------
\* No record comes back: what exists of the spawns begun existed before.
LEMMA ExistsBefore ==
    ASSUME IInv, [Next]_vars, NEW n \in 1 .. spawns, Exists(n)'
    PROVE  Exists(n)
<1>. USE AgentManagerAssumption DEF IInv
<1>0. /\ \A a \in Callers : a \in Actors
      /\ n \in Spawns /\ spawns \in Nat
  BY DEF TypeOK, Actors, Spawns
<1>1. ASSUME \A a \in Callers : call'[a].does \in InSpawn =>
                call[a].does \in InSpawn /\ call'[a].spawn = call[a].spawn,
             id' = id,
             registry'[id[n]] = n => Exists(n)
      PROVE  Exists(n)
  BY <1>1 DEF Exists, Spawning, InSpawn
\* A call that is no spawn's.
<1>2. ASSUME NEW a \in Actors, call'[a].does \notin InSpawn,
             \A b \in Actors \ {a} : call'[b] = call[b],
             UNCHANGED <<id, registry>>
      PROVE  Exists(n)
  BY <1>0, <1>2 DEF Exists, Spawning, InSpawn
<1>3. ASSUME NEW a \in Callers, NEW i \in Ids, NEW k \in {"auto", "sub", "interactive"},
             NEW p \in Parents \cup {NoId}, Spawn(a, i, k, p)
      PROVE  Exists(n)
  <2>1. /\ spawns' = spawns + 1 /\ spawns' \in Spawns /\ registry' = registry
        /\ id' = [id EXCEPT ![spawns'] = i]
    BY <1>3 DEF Spawn, TypeOK, Spawns
  <2>2. /\ call'[a] = [does |-> "insert", spawn |-> spawns']
        /\ \A b \in Actors \ {a} : call'[b] = call[b]
    <3>1. [does |-> "insert", spawn |-> spawns'] \in CallTypes
      BY <2>1, CallMade
    <3>. QED
      BY <1>0, <1>3, <3>1, CallStep DEF Spawn
  <2>3. id'[n] = id[n] /\ spawns' # n
    BY <1>0, <2>1 DEF TypeOK
  <2>. QED
    BY <1>0, <2>1, <2>2, <2>3 DEF Exists, Spawning, InSpawn
<1>4. ASSUME NEW a \in Callers, NEW i \in Ids, Park(a, i)
      PROVE  Exists(n)
  BY <1>4 DEF Park, recordVars, Exists, Spawning
<1>5. ASSUME NEW a \in Callers, NEW i \in Ids, Wake(a, i)
      PROVE  Exists(n)
  <2>1. ClearWaiting(a, i) /\ registry[i] # 0 /\ UNCHANGED <<id, registry>>
    BY <1>5 DEF Wake
  <2>. QED
    BY <1>0, <1>2, <2>1, Cleared DEF Idle, InSpawn
<1>6. ASSUME NEW a \in Callers, NEW i \in Ids, InjectInto(a, i) \/ RequestStop(a, i)
      PROVE  Exists(n)
  <2>1. UNCHANGED <<id, registry>>
    BY <1>6 DEF InjectInto, RequestStop, recordVars
  <2>2. PICK step \in LookUps : LookUp(a, i, step)
    BY <1>6 DEF InjectInto, RequestStop, LookUps
  <2>3. /\ \/ call'[a] = Idle
           \/ call'[a] = [does |-> step, spawn |-> registry[i], id |-> i]
        /\ \A b \in Actors \ {a} : call'[b] = call[b]
    BY <1>0, <2>2, LookedUp
  <2>4. call'[a].does \notin InSpawn
    BY <2>3 DEF Idle, InSpawn, LookUps
  <2>. QED
    BY <1>0, <1>2, <2>1, <2>3, <2>4
<1>7. ASSUME NEW a \in Callers, Insert(a)
      PROVE  Exists(n)
  <2>. DEFINE m == call[a].spawn
  <2>1. /\ call[a].does = "insert" /\ m \in 1 .. spawns /\ id[m] \in Ids
        /\ registry' = [registry EXCEPT ![id[m]] = m]
        /\ call'[a].spawn = m /\ \A b \in Actors \ {a} : call'[b] = call[b]
        /\ id' = id
    BY <1>7, Inserted DEF recordVars
  <2>2. ASSUME registry'[id'[n]] = n, id'[n] # NoId PROVE Exists(n)
    <3>1. CASE m = n
      BY <1>0, <2>1, <3>1 DEF Exists, Spawning
    <3>2. CASE m # n
      BY <1>0, <2>1, <2>2, <3>2 DEF Exists, TypeOK
    <3>. QED
      BY <3>1, <3>2
  <2>3. ASSUME Spawning(n)' PROVE Spawning(n)
    BY <1>0, <2>1, <2>3 DEF Spawning
  <2>. QED
    BY <2>2, <2>3 DEF Exists
<1>8. ASSUME NEW a \in Callers, Destroy(a)
      PROVE  Exists(n)
  <2>1. call[a].does = "destroy" /\ UNCHANGED <<id, registry>>
    BY <1>8 DEF Destroy, recordVars
  <2>2. [does |-> "leave", spawn |-> call[a].spawn] \in CallTypes
    BY <1>0, <2>1, CallTyped, CallMade DEF TypeOK, Actors
  <2>3. /\ call'[a] = [does |-> "leave", spawn |-> call[a].spawn]
        /\ \A b \in Actors \ {a} : call'[b] = call[b]
    BY <1>0, <1>8, <2>2, CallStep DEF Destroy
  <2>. QED
    BY <1>0, <2>1, <2>3 DEF Exists, Spawning
<1>9. ASSUME NEW a \in Actors, Return(a), UNCHANGED <<id, registry>>
      PROVE  Exists(n)
  BY <1>2, <1>9, CallStep, CallMade DEF Return, Idle, InSpawn
<1>10. ASSUME NEW a \in Callers, LeaveSpawn(a)
       PROVE  Exists(n)
  BY <1>0, <1>9, <1>10 DEF LeaveSpawn, recordVars
<1>11. ASSUME NEW a \in Actors, SetRunning(a) \/ Halt(a)
       PROVE  Exists(n)
  BY <1>9, <1>11 DEF SetRunning, Halt, recordVars
<1>12. ASSUME NEW a \in Actors, Push(a)
       PROVE  Exists(n)
  <2>1. call[a].does = "push" /\ UNCHANGED <<id, registry>>
    BY <1>12 DEF Push, recordVars
  <2>2. [does |-> "clear", id |-> call[a].id] \in CallTypes
    BY <2>1, CallTyped, CallMade DEF TypeOK, Actors
  <2>3. /\ call'[a] = [does |-> "clear", id |-> call[a].id]
        /\ \A b \in Actors \ {a} : call'[b] = call[b]
    BY <1>12, <2>2, CallStep DEF Push
  <2>. QED
    BY <1>2, <2>1, <2>3 DEF InSpawn
<1>13. ASSUME NEW a \in Actors, FinishInject(a)
       PROVE  Exists(n)
  <2>1. call[a].does = "clear" /\ ClearWaiting(a, call[a].id) /\ UNCHANGED <<id, registry>>
    BY <1>13 DEF FinishInject
  <2>2. call[a].id \in Ids /\ registry[call[a].id] # 0
    BY <2>1, CallTyped DEF RegistryInv, TypeOK, Actors
  <2>. QED
    BY <1>2, <2>1, <2>2, Cleared DEF Idle, InSpawn
<1>14. ASSUME NEW m \in Spawns, InjectParent(m)
       PROVE  Exists(n)
  <2>1. LookUp(m, parent[m], "push") /\ parent[m] \in Ids /\ m \in Actors /\ UNCHANGED <<id, registry>>
    BY <1>14 DEF InjectParent, CallInv, recordVars, Actors
  <2>2. /\ \/ call'[m] = Idle
           \/ call'[m] = [does |-> "push", spawn |-> registry[parent[m]], id |-> parent[m]]
        /\ \A b \in Actors \ {m} : call'[b] = call[b]
    BY <2>1, LookedUp DEF LookUps
  <2>3. call'[m].does \notin InSpawn
    BY <2>2 DEF Idle, InSpawn
  <2>. QED
    BY <1>2, <2>1, <2>2, <2>3
<1>15. ASSUME NEW m \in Spawns,
              \/ NextInjection(m) \/ EndTask(m) \/ PostEnd(m)
              \/ \E outcome \in Terminal : RecordEnd(m, outcome)
       PROVE  Exists(n)
  BY <1>15 DEF NextInjection, EndTask, PostEnd, RecordEnd, recordVars, Exists, Spawning
<1>16. ASSUME NEW m \in Spawns, Feed(m)
       PROVE  Exists(n)
  <2>1. call'[m] = [does |-> "feed"] /\ \A b \in Actors \ {m} : call'[b] = call[b]
    BY <1>16, CallStep, CallMade DEF Feed, Actors
  <2>2. m \in Actors /\ UNCHANGED <<id, registry>>
    BY <1>16 DEF Feed, recordVars, Actors
  <2>. QED
    BY <1>2, <2>1, <2>2 DEF InSpawn
<1>17. CASE UNCHANGED vars
  BY <1>17 DEF vars, recordVars, Exists, Spawning
<1>. QED
  BY <1>3, <1>4, <1>5, <1>6, <1>7, <1>8, <1>10, <1>11, <1>12, <1>13, <1>14, <1>15,
     <1>16, <1>17, Steps

LEMMA EndKept == IInv /\ [Next]_vars => EndInv'
<1>. SUFFICES ASSUME IInv, [Next]_vars PROVE EndInv'
  OBVIOUS
<1>. USE AgentManagerAssumption DEF IInv
<1>0. /\ spawns \in Nat /\ announced \subseteq Spawns
      /\ \A n \in Spawns : thread[n] # "none" => n \in 1 .. spawns
  BY DEF TypeOK, RegistryInv, Spawns
<1>1. \A n \in 1 .. spawns : Exists(n)' => Exists(n)
  BY ExistsBefore
\* Steps that end no thread and put no state back to a live one but of the parked.
<1>2. ASSUME UNCHANGED <<thread, announced>>, parked \subseteq parked',
             \A n \in Spawns : \/ state'[n] = state[n]
                               \/ state'[n] \notin Terminal /\ n \in parked'
      PROVE  EndInv'
  BY <1>0, <1>1, <1>2 DEF EndInv, EndIsOfItsOwnThread
\* A thread that goes on and is not at its end.
<1>3. ASSUME NEW n \in Spawns, thread[n] \in {"none", "running"},
             thread'[n] \in {"none", "running", "recording"},
             \A m \in Spawns \ {n} : thread'[m] = thread[m],
             UNCHANGED <<state, announced, parked>>
      PROVE  EndInv'
  BY <1>0, <1>1, <1>3 DEF EndInv, EndIsOfItsOwnThread
<1>4. ASSUME NEW a \in Callers, NEW i \in Ids, NEW k \in {"auto", "sub", "interactive"},
             NEW p \in Parents \cup {NoId}, Spawn(a, i, k, p)
      PROVE  EndInv'
  <2>1. /\ spawns' \in Spawns /\ spawns' > spawns
        /\ thread' = [thread EXCEPT ![spawns'] = IF k = "interactive" THEN "none" ELSE "running"]
        /\ UNCHANGED <<state, announced, parked>>
    BY <1>4 DEF Spawn, TypeOK, Spawns, countVars
  <2>2. thread[spawns'] = "none"
    BY <2>1 DEF RegistryInv
  <2>. QED
    BY <1>3, <2>1, <2>2 DEF TypeOK
<1>5. ASSUME NEW a \in Callers, NEW i \in Ids, Park(a, i)
      PROVE  EndInv'
  BY <1>2, <1>5 DEF Park, TypeOK, threadVars, Terminal
<1>6. ASSUME NEW a \in Callers, LeaveSpawn(a)
      PROVE  EndInv'
  <2>1. call[a].spawn \in Spawns
    BY <1>6, CallTyped DEF LeaveSpawn, TypeOK, Actors
  <2>2. kind[call[a].spawn] = "interactive" => thread[call[a].spawn] = "none"
    BY <1>6 DEF LeaveSpawn, CallInv, Actors, InSpawn
  <2>3. UNCHANGED <<state, announced, parked>>
    BY <1>6 DEF LeaveSpawn, recordVars, countVars
  <2>4. CASE kind[call[a].spawn] = "interactive"
    BY <1>3, <1>6, <2>1, <2>2, <2>3, <2>4 DEF LeaveSpawn, TypeOK
  <2>5. CASE kind[call[a].spawn] # "interactive"
    BY <1>2, <1>6, <2>3, <2>5 DEF LeaveSpawn
  <2>. QED
    BY <2>4, <2>5
<1>7. ASSUME NEW a \in Actors, SetRunning(a)
      PROVE  EndInv'
  BY <1>2, <1>7 DEF SetRunning, TypeOK, WaitInv, threadVars, countVars, Terminal
<1>8. ASSUME NEW n \in Spawns, EndTask(n)
      PROVE  EndInv'
  BY <1>3, <1>8 DEF EndTask, TypeOK, recordVars, countVars
<1>9. ASSUME NEW n \in Spawns, NEW outcome \in Terminal, RecordEnd(n, outcome)
      PROVE  EndInv'
  <2>1. /\ thread[n] = "recording" /\ thread'[n] = "posting"
        /\ Exists(n) => state'[n] \in Terminal
        /\ \A m \in Spawns \ {n} : thread'[m] = thread[m] /\ state'[m] = state[m]
        /\ UNCHANGED <<announced, parked>>
    BY <1>9 DEF RecordEnd, Recorded, TypeOK, countVars
  <2>. QED
    BY <1>0, <1>1, <2>1 DEF EndInv, EndIsOfItsOwnThread
<1>10. ASSUME NEW n \in Spawns, PostEnd(n)
       PROVE  EndInv'
  <2>1. /\ thread[n] = "posting" /\ thread'[n] = "ended"
        /\ \A m \in Spawns \ {n} : thread'[m] = thread[m]
        /\ announced' = announced \cup {n} /\ UNCHANGED <<state, parked>>
    BY <1>10 DEF PostEnd, TypeOK, recordVars, countVars
  <2>. QED
    BY <1>0, <1>1, <2>1 DEF EndInv, EndIsOfItsOwnThread
<1>11. ASSUME UNCHANGED <<thread, announced, parked, state>>
       PROVE  EndInv'
  BY <1>2, <1>11
<1>12. ASSUME NEW a \in Callers, NEW i \in Ids,
              Wake(a, i) \/ InjectInto(a, i) \/ RequestStop(a, i)
       PROVE  EndInv'
  BY <1>11, <1>12 DEF Wake, InjectInto, RequestStop, recordVars, threadVars
<1>13. ASSUME NEW a \in Actors,
              Insert(a) \/ Destroy(a) \/ Push(a) \/ FinishInject(a) \/ Halt(a)
       PROVE  EndInv'
  BY <1>11, <1>13 DEF Insert, Destroy, Push, FinishInject, Halt, recordVars, threadVars, countVars
<1>14. ASSUME NEW n \in Spawns, InjectParent(n) \/ NextInjection(n) \/ Feed(n)
       PROVE  EndInv'
  BY <1>11, <1>14 DEF InjectParent, NextInjection, Feed, recordVars, threadVars, countVars
<1>15. CASE UNCHANGED vars
  BY <1>11, <1>15 DEF vars, recordVars, threadVars, countVars
<1>. QED
  BY <1>4, <1>5, <1>6, <1>7, <1>8, <1>9, <1>10, <1>12, <1>13, <1>14, <1>15, Steps DEF Actors

LEMMA WaitKept == IInv /\ [Next]_vars => WaitInv'
<1>. SUFFICES ASSUME IInv, [Next]_vars PROVE WaitInv'
  OBVIOUS
<1>. USE AgentManagerAssumption DEF IInv
<1>0. /\ \A a \in Callers : a \in Actors
      /\ \A n \in Spawns : n \in Actors
      /\ Free \notin Actors
      /\ \A a \in Actors : call[a] \in CallTypes
  <2>1. Free \notin Actors
    BY DEF Actors, Spawns, Free
  <2>2. \A a \in Actors : call[a] \in CallTypes
    BY DEF Actors, TypeOK
  <2>. QED
    BY <2>1, <2>2 DEF Actors
\* While nobody is between the test and the store, who waits has the reason.
<1>1. ASSUME mutex = Free \/ (mutex \in Actors /\ call[mutex].does # "run")
      PROVE  \A n \in Spawns : state[n] = "Waiting" => n \in parked /\ waiting[n]
  BY <1>0, <1>1 DEF WaitInv
\* A call other than the test's and the store's.
<1>2. ASSUME NEW a \in Actors, call[a].does # "run", call'[a].does # "run",
             \A b \in Actors \ {a} : call'[b] = call[b],
             UNCHANGED <<state, waiting, parked>>,
             mutex' = mutex \/ mutex = Free \/ mutex = a
      PROVE  WaitInv'
  BY <1>0, <1>1, <1>2 DEF WaitInv
<1>3. ASSUME NEW a \in Callers, NEW i \in Ids, NEW k \in {"auto", "sub", "interactive"},
             NEW p \in Parents \cup {NoId}, Spawn(a, i, k, p)
      PROVE  WaitInv'
  <2>1. call[a] = Idle /\ spawns' \in Spawns /\ UNCHANGED <<state, waiting, parked, mutex>>
    BY <1>3 DEF Spawn, MayCall, IsFree, TypeOK, Spawns, countVars
  <2>2. /\ call'[a] = [does |-> "insert", spawn |-> spawns']
        /\ \A b \in Actors \ {a} : call'[b] = call[b]
    <3>1. [does |-> "insert", spawn |-> spawns'] \in CallTypes
      BY <2>1, CallMade
    <3>. QED
      BY <1>0, <1>3, <3>1, CallStep DEF Spawn
  <2>. QED
    BY <1>0, <1>2, <2>1, <2>2 DEF Idle
<1>4. ASSUME NEW a \in Callers, NEW i \in Ids, Park(a, i)
      PROVE  WaitInv'
  <2>1. /\ mutex = Free /\ mutex' = mutex /\ call' = call
        /\ state' = [state EXCEPT ![registry[i]] = "Waiting"]
        /\ waiting' = [waiting EXCEPT ![registry[i]] = TRUE]
        /\ parked' = parked \cup {registry[i]}
    BY <1>4 DEF Park
  <2>2. registry[i] \in Spawns
    BY <1>4, Registered DEF Park
  <2>. QED
    BY <1>0, <1>1, <2>1, <2>2 DEF WaitInv, TypeOK
<1>5. ASSUME NEW a \in Actors, NEW i \in Ids, registry[i] # 0, ClearWaiting(a, i),
             UNCHANGED <<state, parked>>
      PROVE  WaitInv'
  <2>. DEFINE m == registry[i]
  <2>1. m \in Spawns /\ mutex = Free /\ waiting' = [waiting EXCEPT ![m] = FALSE]
    BY <1>5, Registered DEF ClearWaiting
  <2>2. /\ call'[a] \in {Idle, [does |-> "run", spawn |-> m]}
        /\ call'[a].does = "run" <=> mutex' = a
        /\ \A b \in Actors \ {a} : call'[b] = call[b]
    BY <1>5, Cleared
  <2>3. state[m] = "Waiting" => mutex' = a
    BY <1>5 DEF ClearWaiting
  <2>4. \A b \in Actors : call'[b].does = "run" => call'[b].spawn \in parked
    <3>1. call'[a].does = "run" => call'[a].spawn = m /\ state[m] = "Waiting"
      BY <1>0, <1>5, <2>1, <2>2 DEF ClearWaiting, Idle
    <3>. QED
      BY <1>1, <2>1, <2>2, <3>1 DEF WaitInv
  <2>5. \A n \in Spawns \ {m} : waiting'[n] = waiting[n]
    BY <2>1 DEF TypeOK
  <2>6. state[m] = "Waiting" =>
            mutex' \in Actors /\ call'[mutex'].does = "run" /\ call'[mutex'].spawn = m
    BY <2>2, <2>3 DEF Idle
  <2>. QED
    BY <1>1, <1>5, <2>1, <2>4, <2>5, <2>6 DEF WaitInv
<1>6. ASSUME NEW a \in Callers, NEW i \in Ids, Wake(a, i)
      PROVE  WaitInv'
  BY <1>0, <1>5, <1>6 DEF Wake
<1>7. ASSUME NEW a \in Actors, NEW i \in Ids, NEW step \in LookUps, LookUp(a, i, step),
             call[a].does # "run", UNCHANGED <<state, waiting, parked, mutex>>
      PROVE  WaitInv'
  <2>1. /\ \/ call'[a] = Idle
           \/ call'[a] = [does |-> step, spawn |-> registry[i], id |-> i]
        /\ \A b \in Actors \ {a} : call'[b] = call[b]
    BY <1>7, LookedUp
  <2>2. call'[a].does # "run"
    BY <2>1 DEF Idle, LookUps
  <2>. QED
    BY <1>2, <1>7, <2>1, <2>2
<1>8. ASSUME NEW a \in Callers, NEW i \in Ids, InjectInto(a, i) \/ RequestStop(a, i)
      PROVE  WaitInv'
  <2>1. call[a].does # "run" /\ UNCHANGED <<state, waiting, parked, mutex>>
    BY <1>8 DEF InjectInto, RequestStop, MayCall, IsFree, Idle, recordVars
  <2>2. PICK step \in LookUps : LookUp(a, i, step)
    BY <1>8 DEF InjectInto, RequestStop, LookUps
  <2>. QED
    BY <1>0, <1>7, <2>1, <2>2
<1>9. ASSUME NEW a \in Callers, Insert(a)
      PROVE  WaitInv'
  BY <1>0, <1>2, <1>9, Inserted DEF recordVars
<1>10. ASSUME NEW a \in Callers, Destroy(a)
       PROVE  WaitInv'
  <2>1. /\ call[a].does = "destroy" /\ mutex = a
        /\ UNCHANGED <<state, waiting, parked>>
    BY <1>0, <1>10 DEF Destroy, CallInv, recordVars, countVars
  <2>2. [does |-> "leave", spawn |-> call[a].spawn] \in CallTypes
    BY <1>0, <2>1, CallTyped, CallMade
  <2>3. /\ call'[a] = [does |-> "leave", spawn |-> call[a].spawn]
        /\ \A b \in Actors \ {a} : call'[b] = call[b]
    BY <1>0, <1>10, <2>2, CallStep DEF Destroy
  <2>. QED
    BY <1>0, <1>2, <2>1, <2>3
<1>11. ASSUME NEW a \in Callers, LeaveSpawn(a)
       PROVE  WaitInv'
  <2>1. /\ call[a].does = "leave"
        /\ UNCHANGED <<state, waiting, parked, mutex>>
    BY <1>11 DEF LeaveSpawn, recordVars, countVars
  <2>2. call'[a] = Idle /\ \A b \in Actors \ {a} : call'[b] = call[b]
    BY <1>0, <1>11, CallStep, CallMade DEF LeaveSpawn, Return
  <2>. QED
    BY <1>0, <1>2, <2>1, <2>2 DEF Idle
<1>12. ASSUME NEW a \in Actors, SetRunning(a)
       PROVE  WaitInv'
  <2>1. /\ mutex = a /\ call[a].does = "run" /\ call[a].spawn \in Spawns
        /\ state' = [state EXCEPT ![call[a].spawn] = "Running"]
        /\ mutex' = Free /\ UNCHANGED <<waiting, parked>>
    BY <1>0, <1>12, CallTyped DEF SetRunning, CallInv, countVars
  <2>2. call'[a] = Idle /\ \A b \in Actors \ {a} : call'[b] = call[b]
    BY <1>12, CallStep, CallMade DEF SetRunning, Return
  <2>3. \A n \in Spawns : state'[n] = "Waiting" => n \in parked /\ waiting[n]
    BY <2>1 DEF WaitInv, TypeOK
  <2>. QED
    BY <2>1, <2>2, <2>3 DEF WaitInv, Idle
<1>13. ASSUME NEW a \in Actors, Push(a)
       PROVE  WaitInv'
  <2>1. /\ call[a].does = "push" /\ UNCHANGED <<state, waiting, parked, mutex>>
    BY <1>13 DEF Push, recordVars, countVars
  <2>2. [does |-> "clear", id |-> call[a].id] \in CallTypes
    BY <1>0, <2>1, CallTyped, CallMade
  <2>3. /\ call'[a] = [does |-> "clear", id |-> call[a].id]
        /\ \A b \in Actors \ {a} : call'[b] = call[b]
    BY <1>13, <2>2, CallStep DEF Push
  <2>. QED
    BY <1>2, <2>1, <2>3
<1>14. ASSUME NEW a \in Actors, FinishInject(a)
       PROVE  WaitInv'
  <2>1. /\ call[a].does = "clear" /\ ClearWaiting(a, call[a].id)
        /\ UNCHANGED <<state, parked>>
    BY <1>14 DEF FinishInject, countVars
  <2>2. call[a].id \in Ids /\ registry[call[a].id] # 0
    BY <1>0, <2>1, CallTyped DEF RegistryInv
  <2>. QED
    BY <1>5, <2>1, <2>2
<1>15. ASSUME NEW n \in Spawns, InjectParent(n)
       PROVE  WaitInv'
  <2>1. /\ LookUp(n, parent[n], "push") /\ parent[n] \in Ids /\ call[n].does # "run"
        /\ UNCHANGED <<state, waiting, parked, mutex>>
    BY <1>15 DEF InjectParent, CallInv, recordVars, countVars
  <2>. QED
    BY <1>0, <1>7, <2>1 DEF LookUps
<1>16. ASSUME NEW n \in Spawns, Feed(n)
       PROVE  WaitInv'
  <2>1. call[n] = Idle /\ UNCHANGED <<state, waiting, parked, mutex>>
    BY <1>16 DEF Feed, IsFree, recordVars
  <2>2. call'[n] = [does |-> "feed"] /\ \A b \in Actors \ {n} : call'[b] = call[b]
    BY <1>0, <1>16, CallStep, CallMade DEF Feed
  <2>. QED
    BY <1>0, <1>2, <2>1, <2>2 DEF Idle
<1>17. ASSUME NEW n \in Spawns, NEW outcome \in Terminal, RecordEnd(n, outcome)
       PROVE  WaitInv'
  <2>1. /\ UNCHANGED <<waiting, call, mutex, parked>>
        /\ \A m \in Spawns : state'[m] = "Waiting" => state[m] = "Waiting"
    BY <1>17 DEF RecordEnd, Recorded, TypeOK, Terminal, countVars
  <2>. QED
    BY <2>1 DEF WaitInv
<1>18. ASSUME UNCHANGED <<state, waiting, call, mutex, parked>>
       PROVE  WaitInv'
  BY <1>18 DEF WaitInv
<1>19. ASSUME NEW a \in Actors, Halt(a)
       PROVE  WaitInv'
  <2>1. call[a].does = "halt" /\ UNCHANGED <<state, waiting, parked, mutex>>
    BY <1>19 DEF Halt, recordVars, countVars
  <2>2. call'[a] = Idle /\ \A b \in Actors \ {a} : call'[b] = call[b]
    BY <1>19, CallStep, CallMade DEF Halt, Return
  <2>. QED
    BY <1>2, <2>1, <2>2 DEF Idle
<1>20. ASSUME NEW n \in Spawns, NextInjection(n) \/ EndTask(n) \/ PostEnd(n)
       PROVE  WaitInv'
  BY <1>18, <1>20 DEF NextInjection, EndTask, PostEnd, recordVars, countVars
<1>21. CASE UNCHANGED vars
  BY <1>18, <1>21 DEF vars, recordVars, countVars
<1>. QED
  BY <1>3, <1>4, <1>6, <1>8, <1>9, <1>10, <1>11, <1>12, <1>13, <1>14, <1>15, <1>16,
     <1>17, <1>19, <1>20, <1>21, Steps

LEMMA Initially == Init => IInv
<1>. SUFFICES ASSUME Init PROVE IInv
  OBVIOUS
<1>. USE AgentManagerAssumption DEF Init
<1>1. TypeOK
  BY CallMade DEF TypeOK, Spawns, NoId, Free
<1>2. CallInv
  BY DEF CallInv, Actors, InSpawn, Idle, Free, Spawns
<1>3. RegistryInv
  BY DEF RegistryInv, Actors, Idle, Spawns
<1>4. EndInv
  BY DEF EndInv, EndIsOfItsOwnThread, Terminal
<1>5. WaitInv
  BY DEF WaitInv, Actors, Idle
<1>. QED
  BY <1>1, <1>2, <1>3, <1>4, <1>5 DEF IInv

LEMMA Inductive == IInv /\ [Next]_vars => IInv'
BY TypeStep, CallKept, RegistryKept, EndKept, WaitKept DEF IInv

LEMMA Always == Spec => []IInv
BY Initially, Inductive, PTL DEF Spec
-----------------------------------------------------------------------------
(***************************************************************************)
(* Every variable keeps its type, and every call of an agent or a caller   *)
(* its shape, whatever their number.                                       *)
(***************************************************************************)
THEOREM TypeCorrect == Spec => []TypeOK
BY Always, PTL DEF IInv

(***************************************************************************)
(* An agent is shown as finished or failed only when its own thread is at  *)
(* its end, however many agents take its name meanwhile (the weak_ptr of   *)
(* the task, agent_driver.hpp:598-616).                                    *)
(***************************************************************************)
THEOREM EndIsOwn == Spec => []EndIsOfItsOwnThread
<1>1. IInv => EndIsOfItsOwnThread
  BY DEF IInv, EndInv
<1>. QED
  BY <1>1, Always, PTL

(***************************************************************************)
(* Whoever has seen the event of an agent's end finds the end in its       *)
(* status as long as its record exists, unless the agent was parked        *)
(* (agent_driver.hpp:606-621).                                             *)
(***************************************************************************)
THEOREM AnnouncedEnds == Spec => []AnnouncedIsRecorded
<1>1. IInv => AnnouncedIsRecorded
  BY DEF IInv, EndInv, AnnouncedIsRecorded
<1>. QED
  BY <1>1, Always, PTL

(***************************************************************************)
(* Outside the critical section of a wake or an inject, an agent shown as  *)
(* waiting has its reason, whichever calls cross (agent_driver.hpp:543-569 *)
(* and 798-808).                                                           *)
(***************************************************************************)
THEOREM WaitingIsReasoned == Spec => []WaitingHasAReason
<1>1. IInv => WaitingHasAReason
  BY AgentManagerAssumption
     DEF IInv, WaitInv, WaitingHasAReason, Actors, Spawns, Free
<1>. QED
  BY <1>1, Always, PTL
=============================================================================
