-------------------------- MODULE BrainStoreProofs --------------------------
(***************************************************************************)
(* Proofs about the brain store, for any number of agents on one file, any *)
(* number of messages, failures and connections.                           *)
(***************************************************************************)
EXTENDS BrainStore, FiniteSetTheorems, SequenceTheorems, WellFoundedInduction,
        TLAPS

Below == {ss \in Nat \X Nat : ss[1] < ss[2]}

LEMMA BelowIsWellFounded == IsWellFoundedOn(Below, Nat)
BY NatLessThanWellFounded DEF Below, OpToRel

Ascends(f, S) ==
    /\ f \in [1 .. Cardinality(S) -> S]
    /\ \A i, j \in DOMAIN f : i < j => f[i] < f[j]

\* The numbers up to n that are in a set can be put in ascending order: else
\* there is a least n up to which they cannot.
LEMMA AscentExists ==
    ASSUME NEW n \in Nat, NEW S \in SUBSET (1 .. n)
    PROVE  \E f : Ascends(f, S)
<1>. DEFINE Bad == {k \in Nat : \E T \in SUBSET (1 .. k) : ~\E f : Ascends(f, T)}
<1>1. CASE Bad = {}
  BY <1>1
<1>2. CASE Bad # {}
  <2>1. PICK k \in Bad : \A y \in Bad : ~(<<y, k>> \in Below)
    <3>. HIDE DEF Bad
    <3>1. Bad \subseteq Nat
      BY DEF Bad
    <3>. QED
      BY <3>1, <1>2, BelowIsWellFounded, WFMin
  <2>2. PICK T \in SUBSET (1 .. k) : ~\E f : Ascends(f, T)
    OBVIOUS
  <2>3. k # 0
    <3>1. SUFFICES ASSUME k = 0 PROVE FALSE
      OBVIOUS
    <3>2. T = {}
      BY <3>1
    <3>3. Cardinality(T) = 0
      BY <3>2, FS_EmptySet
    <3>4. 1 .. Cardinality(T) = {}
      BY <3>3
    <3>5. Ascends([i \in {} |-> i], T)
      BY <3>2, <3>4 DEF Ascends
    <3>. QED
      BY <3>5, <2>2
  <2>4. k \in Nat /\ k - 1 \in Nat /\ <<k - 1, k>> \in Below
    BY <2>3 DEF Below
  <2>5. \A R \in SUBSET (1 .. k - 1) : \E f : Ascends(f, R)
    <3>1. k - 1 \notin Bad
      BY <2>1, <2>4
    <3>. QED
      BY <3>1, <2>4
  <2>6. k \in T
    BY <2>2, <2>4, <2>5
  <2>. DEFINE R == T \ {k}
  <2>7. R \in SUBSET (1 .. k - 1)
    BY <2>4
  <2>8. PICK f : Ascends(f, R)
    BY <2>5, <2>7
  <2>9. /\ Cardinality(R) \in Nat
        /\ Cardinality(T) = Cardinality(R) + 1
    <3>1. IsFiniteSet(1 .. k)
      BY <2>4, FS_Interval
    <3>2. IsFiniteSet(T)
      BY <3>1, FS_Subset
    <3>3. IsFiniteSet(R) /\ Cardinality(R) = Cardinality(T) - 1
      BY <3>2, <2>6, FS_RemoveElement
    <3>4. Cardinality(R) \in Nat /\ Cardinality(T) \in Nat
      BY <3>2, <3>3, FS_CardinalityType
    <3>. QED
      BY <3>3, <3>4
  <2>. DEFINE m == Cardinality(R)
              g == [i \in 1 .. m + 1 |-> IF i = m + 1 THEN k ELSE f[i]]
  <2>10. \A i \in 1 .. m : f[i] \in R
    BY <2>8 DEF Ascends
  <2>11. g \in [1 .. m + 1 -> T]
    <3>. HIDE DEF m
    <3>1. m \in Nat
      BY <2>9 DEF m
    <3>. QED
      BY <3>1, <2>6, <2>10
  <2>12. \A i, j \in 1 .. m + 1 : i < j => g[i] < g[j]
    <3>1. SUFFICES ASSUME NEW i \in 1 .. m + 1, NEW j \in 1 .. m + 1, i < j
                   PROVE  g[i] < g[j]
      OBVIOUS
    <3>2. i \in 1 .. m /\ g[i] = f[i]
      BY <3>1, <2>9
    <3>3. f[i] \in 1 .. k - 1
      BY <3>2, <2>7, <2>10
    <3>4. CASE j = m + 1
      BY <3>2, <3>3, <3>4, <2>4
    <3>5. CASE j # m + 1
      <4>1. j \in 1 .. m /\ g[j] = f[j]
        BY <3>5, <2>9
      <4>. QED
        BY <4>1, <3>1, <3>2, <2>8 DEF Ascends
    <3>. QED
      BY <3>4, <3>5
  <2>13. Ascends(g, T)
    BY <2>9, <2>11, <2>12 DEF Ascends
  <2>. QED
    BY <2>13, <2>2
<1>. QED
  BY <1>1, <1>2

\* What LoadMessages reads: the rows of the session, and none but those.
LEMMA RowsAreOfTheSession ==
    ASSUME messages \in Seq(MessageRows), NEW s
    PROVE  /\ Len(RowsOf(s)) \in Nat
           /\ RowsOf(s) \in Seq(Nat)
           /\ \A i \in 1 .. Len(RowsOf(s)) :
                 /\ RowsOf(s)[i] \in 1 .. Len(messages)
                 /\ messages[RowsOf(s)[i]].session = s
<1>. DEFINE S == {i \in 1 .. Len(messages) : messages[i].session = s}
            f == Ascending(S)
<1>1. Len(messages) \in Nat /\ S \in SUBSET (1 .. Len(messages))
  OBVIOUS
<1>2. \E g : Ascends(g, S)
  <2>. HIDE DEF S
  <2>. QED
    BY <1>1, AscentExists
<1>3. Ascends(f, S)
  <2>. HIDE DEF S
  <2>. QED
    BY <1>2 DEF Ascends, Ascending
<1>4. Cardinality(S) \in Nat
  <2>1. IsFiniteSet(1 .. Len(messages))
    BY <1>1, FS_Interval
  <2>2. IsFiniteSet(S)
    BY <1>1, <2>1, FS_Subset
  <2>. QED
    BY <2>2, FS_CardinalityType
<1>5. RowsOf(s) = f
  BY DEF RowsOf
<1>6. f \in [1 .. Cardinality(S) -> S]
  BY <1>3 DEF Ascends
<1>7. Len(f) = Cardinality(S) /\ f \in Seq(Nat) /\ \A i \in 1 .. Cardinality(S) : f[i] \in S
  <2>. HIDE DEF f
  <2>1. \A i \in 1 .. Cardinality(S) : f[i] \in S
    BY <1>6
  <2>2. f \in [1 .. Cardinality(S) -> Nat]
    BY <1>6, <1>1
  <2>3. f \in Seq(Nat)
    <3>. HIDE DEF S
    <3>. QED
      BY <2>2, <1>4
  <2>4. Len(f) = Cardinality(S)
    <3>. HIDE DEF S
    <3>. QED
      BY <2>2, <1>4
  <2>. QED
    BY <2>1, <2>3, <2>4
<1>. QED
  BY <1>4, <1>5, <1>7
-----------------------------------------------------------------------------
MessageOps == {"check", "update", "insert", "return"}

AgentRecords ==
    [session : Session \cup {""}, option : Model \cup {""}, info : Model \cup {""},
     history : {"new", "wanted", "restored"}]

\* A call is made by an agent that is through with its constructor, about a
\* message it holds; the session of one that has come so far has its row.
CallInv ==
    \A u \in User :
        /\ conn[u] # "ready" => call[u] = Idle /\ held[u] = <<>>
        /\ call[u].op \in MessageOps => call[u].i \in DOMAIN held[u]
        /\ call[u].op \in {"tool", "invocation"} => call[u].tool \in Tool
        /\ conn[u] \in {"restoring", "ready"} => agent[u].session \in DOMAIN sessions

TypeInv ==
    /\ TypeOK
    /\ agent \in [User -> AgentRecords]
    /\ CallInv

LEMMA EmptySequence == ASSUME NEW S PROVE <<>> \in Seq(S)
OBVIOUS

LEMMA InitTypeInv == Init => TypeInv
<1>. SUFFICES ASSUME Init PROVE TypeInv
  OBVIOUS
<1>. USE BrainStoreAssumption DEF Idle, NoAgent
<1>1. FileType
  <2>1. hasVec \in BOOLEAN /\ tools = {} /\ DOMAIN sessions = {} /\ messages = <<>>
    BY DEF Init
  <2>. QED
    BY <2>1, EmptySequence DEF FileType
<1>2. /\ conn = [u \in User |-> "closed"]
      /\ agent = [u \in User |-> NoAgent]
      /\ held = [u \in User |-> <<>>]
      /\ call = [u \in User |-> Idle]
  BY Zenon DEF Init
<1>3. ConnectionType
  <2>1. <<>> \in Seq(HeldMessages)
    BY EmptySequence
  <2>. QED
    BY <1>2, <2>1 DEF ConnectionType, Ops
<1>4. LedgerType
  <2>1. /\ spoiled = [u \in User |-> {}]
        /\ failed = [u \in User |-> 0] /\ lost = [u \in User |-> 0]
        /\ created = 0 /\ failures = 0 /\ opens = 0
    BY Zenon DEF Init
  <2>. QED
    BY <2>1 DEF LedgerType
<1>5. agent \in [User -> AgentRecords] /\ CallInv
  BY <1>2 DEF AgentRecords, CallInv, MessageOps
<1>. QED
  BY <1>1, <1>3, <1>4, <1>5 DEF TypeInv, TypeOK

\* What a connection is after it was closed, or could not be opened.
LEMMA ClosedTypeInv ==
    ASSUME TypeInv, NEW u \in User, Closed(u), failures' \in 0 .. MaxFailures,
           UNCHANGED <<hasVec, sessions, tools, messages, created, opens>>
    PROVE  TypeInv'
<1>. USE DEF TypeInv, TypeOK, Closed, Idle, NoAgent
<1>1. FileType'
  BY DEF FileType
<1>2. ConnectionType'
  <2>1. <<>> \in Seq(HeldMessages)
    BY EmptySequence
  <2>. QED
    BY <2>1 DEF ConnectionType, Ops
<1>3. LedgerType'
  BY DEF LedgerType
<1>4. (agent \in [User -> AgentRecords])'
  BY DEF AgentRecords
<1>5. CallInv'
  BY DEF CallInv, ConnectionType, MessageOps
<1>. QED
  BY <1>1, <1>2, <1>3, <1>4, <1>5

LEMMA LedgerSteps ==
    ASSUME LedgerType, NEW u \in User, NEW s \in Statements,
           Succeeds(u, s) \/ Throws(u, s), UNCHANGED <<created, opens>>
    PROVE  LedgerType'
BY BrainStoreAssumption DEF LedgerType, Succeeds, Throws, Fails, ledgerVars

\* The message a call is about, and its row.
LEMMA SubjectType ==
    ASSUME TypeInv, NEW u \in User, conn[u] = "ready", call[u].op \in MessageOps
    PROVE  /\ held[u] \in Seq(HeldMessages)
           /\ call[u].i \in 1 .. Len(held[u]) /\ call[u].i \in DOMAIN held[u]
           /\ Subject(u) \in HeldMessages
           /\ agent[u].session \in Session
           /\ Row(u) \in MessageRows
<1>1. /\ held[u] \in Seq(HeldMessages) /\ agent[u].session \in Session
      /\ call[u].i \in DOMAIN held[u]
  BY DEF TypeInv, TypeOK, ConnectionType, CallInv
<1>2. held[u][call[u].i] \in HeldMessages /\ call[u].i \in 1 .. Len(held[u])
  BY <1>1
<1>. QED
  BY <1>1, <1>2 DEF Subject, Row, MessageRows, HeldMessages

CallRecords == [op : Ops, i : Nat, tool : Tool \cup {NoTool}, row : Nat]

\* The two ways a call goes on.
LEMMA CallSteps ==
    ASSUME TypeInv, NEW u \in User, NEW op \in Ops, Enter(u, op) \/ Return(u)
    PROVE  /\ call' \in [User -> CallRecords]
           /\ call'[u].op \in {op, "idle"}
           /\ call'[u].op # "idle" => call'[u].i = call[u].i /\ call'[u].tool = call[u].tool
           /\ \A v \in User : v # u => call'[v] = call[v]
<1>1. call \in [User -> CallRecords]
  BY DEF TypeInv, TypeOK, ConnectionType, CallRecords
<1>2. CASE Return(u)
  BY <1>1, <1>2 DEF Return, Idle, CallRecords, Ops
<1>3. CASE Enter(u, op)
  <2>1. call[u] \in CallRecords
    BY <1>1
  <2>2. [call[u] EXCEPT !.op = op] \in CallRecords
    BY <2>1 DEF CallRecords
  <2>3. call' = [call EXCEPT ![u] = [call[u] EXCEPT !.op = op]]
    BY <1>3 DEF Enter
  <2>. QED
    BY <1>1, <2>1, <2>2, <2>3 DEF CallRecords
<1>. QED
  BY <1>2, <1>3

LEMMA StepTypeInv == TypeInv /\ [Next]_vars => TypeInv'
<1>. SUFFICES ASSUME TypeInv, [Next]_vars PROVE TypeInv'
  OBVIOUS
<1>. USE BrainStoreAssumption
<1>. USE DEF TypeInv, TypeOK
<1>0. CASE UNCHANGED vars
  BY <1>0 DEF vars, fileVars, ledgerVars, FileType, ConnectionType, LedgerType, CallInv
<1>1. ASSUME NEW u \in User, Open(u) PROVE TypeInv'
  <2>. USE <1>1 DEF Open, Opens, ledgerVars
  <2>1. PICK session \in Session, model \in Model, history \in {"new", "wanted"} :
           agent' = [agent EXCEPT ![u] = [session |-> session, option |-> model,
                                          info |-> model, history |-> history]]
    OBVIOUS
  <2>2. FileType' /\ LedgerType'
    BY DEF FileType, LedgerType
  <2>3. ConnectionType'
    BY <2>1 DEF ConnectionType
  <2>4. (agent \in [User -> AgentRecords])' /\ CallInv'
    BY <2>1 DEF AgentRecords, CallInv, ConnectionType
  <2>. QED
    BY <2>2, <2>3, <2>4
<1>2. ASSUME NEW u \in User, FailToOpen(u) PROVE TypeInv'
  <2>. USE <1>2 DEF FailToOpen, Opens
  <2>1. FileType' /\ LedgerType'
    BY DEF FileType, LedgerType
  <2>. QED
    BY <2>1 DEF ConnectionType, CallInv
<1>3. ASSUME NEW u \in User, EnsureSession(u) PROVE TypeInv'
  <2>. USE <1>3 DEF EnsureSession
  <2>1. CASE Closed(u)
    <3>1. /\ failures < MaxFailures /\ failures' = failures + 1
          /\ UNCHANGED sessions
      BY <2>1 DEF Closed, ConnectionType
    <3>. QED
      BY <2>1, <3>1, ClosedTypeInv DEF LedgerType
  <2>2. CASE ~Closed(u)
    <3>1. agent[u].session \in Session /\ agent[u].option \in Model
      BY DEF ConnectionType
    <3>2. /\ DOMAIN sessions \subseteq DOMAIN sessions'
          /\ agent[u].session \in DOMAIN sessions'
      BY <2>2 DEF SessionRows
    <3>3. FileType'
      BY <2>2, <3>1 DEF FileType, SessionRows
    <3>4. ConnectionType' /\ LedgerType'
      BY <2>2 DEF ConnectionType, LedgerType, ledgerVars
    <3>5. CallInv'
      BY <2>2, <3>2 DEF CallInv, ConnectionType
    <3>. QED
      BY <2>2, <3>3, <3>4, <3>5
  <2>. QED
    BY <2>1, <2>2
<1>4. ASSUME NEW u \in User, Restore(u) PROVE TypeInv'
  <2>. USE <1>4 DEF Restore, fileVars
  <2>1. /\ agent[u].session \in DOMAIN sessions
        /\ agent[u].session \in Session /\ agent[u].option \in Model
        /\ sessions[agent[u].session] \in Model
        /\ agent[u].info \in Model
    BY DEF CallInv, FileType, ConnectionType
  <2>2. /\ agent' \in [User -> AgentRecords]
        /\ agent'[u] \in [session : Session, option : Model, info : Model,
                          history : {"new", "wanted", "restored"}]
        /\ agent'[u].session = agent[u].session
        /\ \A v \in User : v # u => agent'[v] = agent[v]
    <3>. DEFINE full == [session : Session, option : Model, info : Model,
                         history : {"new", "wanted", "restored"}]
                a == agent[u]
                b == [a EXCEPT !.info = sessions[a.session], !.history = "restored"]
                c == [a EXCEPT !.history = "new"]
    <3>1. a \in full
      BY DEF ConnectionType
    <3>2. b \in full /\ c \in full /\ b.session = a.session /\ c.session = a.session
      BY <2>1, <3>1
    <3>3. agent' = [agent EXCEPT ![u] = b] \/ agent' = [agent EXCEPT ![u] = c]
      BY DEF LoadSession
    <3>4. full \subseteq AgentRecords
      BY DEF AgentRecords
    <3>. HIDE DEF b, c
    <3>. QED
      BY <3>2, <3>3, <3>4
  <2>3. held' \in [User -> Seq(HeldMessages)]
    <3>1. LoadMessages(agent[u].session) \in Seq(HeldMessages)
      <4>. DEFINE s == agent[u].session
                  rows == RowsOf(s)
      <4>1. messages \in Seq(MessageRows)
        BY DEF FileType
      <4>2. /\ Len(rows) \in Nat
            /\ \A i \in 1 .. Len(rows) : rows[i] \in 1 .. Len(messages)
        <5>. HIDE DEF s
        <5>. QED
          BY <4>1, RowsAreOfTheSession
      <4>3. \A i \in 1 .. Len(rows) :
                [no |-> messages[rows[i]].no, version |-> messages[rows[i]].version,
                 id |-> rows[i]] \in HeldMessages
        <5>. HIDE DEF rows
        <5>1. \A i \in 1 .. Len(rows) :
                 messages[rows[i]] \in MessageRows /\ rows[i] \in Nat
          BY <4>1, <4>2
        <5>. QED
          BY <5>1 DEF HeldMessages, MessageRows
      <4>4. LoadMessages(s) =
                [i \in 1 .. Len(rows) |->
                    [no |-> messages[rows[i]].no, version |-> messages[rows[i]].version,
                     id |-> rows[i]]]
        BY DEF LoadMessages
      <4>. QED
        BY <4>2, <4>3, <4>4
    <3>. QED
      BY <3>1 DEF ConnectionType
  <2>4. FileType' /\ LedgerType'
    BY DEF FileType, LedgerType
  <2>5. ConnectionType'
    BY <2>2, <2>3 DEF ConnectionType
  <2>6. CallInv'
    BY <2>2 DEF CallInv, ConnectionType, MessageOps, Idle
  <2>. QED
    BY <2>2, <2>4, <2>5, <2>6
<1>5. ASSUME NEW u \in User, Write(u) PROVE TypeInv'
  <2>. USE <1>5 DEF Write, In, Ready, fileVars, ledgerVars
  <2>. DEFINE msg == [no |-> created', version |-> 0, id |-> 0]
  <2>1. created + 1 \in 1 .. MaxMessages /\ msg \in HeldMessages
    BY DEF LedgerType, HeldMessages
  <2>2. /\ held[u] \in Seq(HeldMessages)
        /\ held' = [held EXCEPT ![u] = Append(held[u], msg)]
        /\ call' = [call EXCEPT ![u] = [op |-> "insert", i |-> Len(held[u]) + 1,
                                        tool |-> NoTool, row |-> 0]]
    BY DEF Persist, ConnectionType
  <2>3. FileType' /\ LedgerType'
    BY <2>1 DEF FileType, LedgerType
  <2>4. ConnectionType'
    <3>1. Append(held[u], msg) \in Seq(HeldMessages) /\ Len(held[u]) + 1 \in Nat
      BY <2>1, <2>2
    <3>. QED
      BY <2>2, <3>1 DEF ConnectionType, Ops
  <2>5. CallInv'
    <3>1. Len(held[u]) + 1 \in DOMAIN Append(held[u], msg)
      BY <2>2
    <3>. QED
      BY <2>2, <3>1 DEF CallInv, ConnectionType
  <2>. QED
    BY <2>3, <2>4, <2>5
<1>6. ASSUME NEW u \in User, WriteAgain(u) PROVE TypeInv'
  <2>. USE <1>6 DEF WriteAgain, In, Ready, fileVars, ledgerVars
  <2>1. PICK i \in DOMAIN held[u] :
           /\ held' = IF held[u][i].id = 0 THEN held
                      ELSE [held EXCEPT ![u][i].version = 1]
           /\ Persist(u, i, held[u][i])
    OBVIOUS
  <2>2. held[u] \in Seq(HeldMessages) /\ i \in Nat /\ held[u][i] \in HeldMessages
    BY DEF ConnectionType
  <2>3. [held[u][i] EXCEPT !.version = 1] \in HeldMessages
    BY <2>2 DEF HeldMessages
  <2>4. /\ held' \in [User -> Seq(HeldMessages)]
        /\ \A v \in User : DOMAIN held'[v] = DOMAIN held[v]
        /\ \A v \in User : v # u => held'[v] = held[v]
    <3>. DEFINE new == [held[u] EXCEPT ![i] = [held[u][i] EXCEPT !.version = 1]]
    <3>1. new \in Seq(HeldMessages) /\ DOMAIN new = DOMAIN held[u]
      BY <2>2, <2>3
    <3>2. held' = held \/ held' = [held EXCEPT ![u] = new]
      BY <2>1
    <3>3. held \in [User -> Seq(HeldMessages)]
      BY DEF ConnectionType
    <3>. HIDE DEF new
    <3>4. \/ held' = held
          \/ /\ held' \in [User -> Seq(HeldMessages)]
             /\ held'[u] = new
             /\ \A v \in User : v # u => held'[v] = held[v]
      BY <3>1, <3>2, <3>3
    <3>. QED
      BY <3>1, <3>3, <3>4
  <2>5. /\ call' \in [User -> [op : Ops, i : Nat, tool : Tool \cup {NoTool}, row : Nat]]
        /\ call'[u].i = i /\ call'[u].op \in MessageOps
        /\ \A v \in User : v # u => call'[v] = call[v]
    BY <2>1, <2>2 DEF ConnectionType, Persist, Ops, MessageOps
  <2>6. FileType' /\ LedgerType' /\ ConnectionType'
    BY <2>4, <2>5 DEF FileType, LedgerType, ConnectionType
  <2>7. CallInv'
    BY <2>1, <2>4, <2>5 DEF CallInv, MessageOps
  <2>. QED
    BY <2>6, <2>7
<1>7. ASSUME NEW u \in User, CheckMessage(u) PROVE TypeInv'
  <2>. USE <1>7 DEF CheckMessage, In, Ready, fileVars
  <2>1. LedgerType'
    BY LedgerSteps DEF Statements
  <2>2. /\ call' \in [User -> [op : Ops, i : Nat, tool : Tool \cup {NoTool}, row : Nat]]
        /\ call'[u].op \in {"idle", "update", "insert"}
        /\ call'[u].op \in MessageOps => call'[u].i = call[u].i
        /\ \A v \in User : v # u => call'[v] = call[v]
    <3>1. Enter(u, "update") \/ Enter(u, "insert") \/ Return(u)
      OBVIOUS
    <3>2. "update" \in Ops /\ "insert" \in Ops
      BY DEF Ops
    <3>. QED
      BY <3>1, <3>2, CallSteps DEF CallRecords, MessageOps
  <2>3. FileType' /\ ConnectionType'
    BY <2>2 DEF FileType, ConnectionType
  <2>4. CallInv'
    BY <2>2 DEF CallInv, MessageOps
  <2>. QED
    BY <2>1, <2>3, <2>4
<1>8. ASSUME NEW u \in User, UpdateMessage(u) PROVE TypeInv'
  <2>. USE <1>8 DEF UpdateMessage, In, Ready
  <2>1. LedgerType'
    BY LedgerSteps DEF Statements
  <2>2. Row(u) \in MessageRows
    BY SubjectType DEF MessageOps
  <2>3. messages' \in Seq(MessageRows)
    BY <2>2 DEF FileType
  <2>4. /\ call' \in [User -> [op : Ops, i : Nat, tool : Tool \cup {NoTool}, row : Nat]]
        /\ call'[u].op = "idle"
        /\ \A v \in User : v # u => call'[v] = call[v]
    BY DEF Return, ConnectionType, Ops, Idle
  <2>5. FileType' /\ ConnectionType'
    BY <2>3, <2>4 DEF FileType, ConnectionType
  <2>6. CallInv'
    BY <2>4 DEF CallInv, MessageOps
  <2>. QED
    BY <2>1, <2>5, <2>6
<1>9. ASSUME NEW u \in User, InsertMessage(u) PROVE TypeInv'
  <2>. USE <1>9 DEF InsertMessage, In, Ready
  <2>1. LedgerType'
    BY LedgerSteps DEF Statements
  <2>2. Row(u) \in MessageRows
    BY SubjectType DEF MessageOps
  <2>3. messages' \in Seq(MessageRows)
    BY <2>2 DEF FileType
  <2>4. /\ call' \in [User -> [op : Ops, i : Nat, tool : Tool \cup {NoTool}, row : Nat]]
        /\ call'[u].op \in {"idle", "return"}
        /\ call'[u].op \in MessageOps => call'[u].i = call[u].i
        /\ \A v \in User : v # u => call'[v] = call[v]
    <3>. DEFINE c == [call[u] EXCEPT !.op = "return", !.row = Len(messages')]
    <3>1. Len(messages') \in Nat
      BY <2>3
    <3>2. call[u] \in CallRecords /\ call \in [User -> CallRecords]
      BY DEF ConnectionType, CallRecords
    <3>3. c \in CallRecords /\ c.i = call[u].i /\ c.op = "return"
      BY <3>1, <3>2 DEF CallRecords, Ops
    <3>4. Idle \in CallRecords /\ Idle.op = "idle"
      BY DEF CallRecords, Idle, Ops
    <3>5. call' = [call EXCEPT ![u] = c] \/ call' = [call EXCEPT ![u] = Idle]
      BY DEF Return
    <3>. HIDE DEF c, Idle
    <3>. QED
      BY <3>2, <3>3, <3>4, <3>5 DEF CallRecords, MessageOps
  <2>5. FileType' /\ ConnectionType'
    BY <2>3, <2>4 DEF FileType, ConnectionType
  <2>6. CallInv'
    BY <2>4 DEF CallInv, MessageOps
  <2>. QED
    BY <2>1, <2>5, <2>6
<1>10. ASSUME NEW u \in User, ReturnId(u) PROVE TypeInv'
  <2>. USE <1>10 DEF ReturnId, In, Ready, fileVars, ledgerVars
  <2>. DEFINE i == call[u].i
  <2>1. /\ i \in DOMAIN held[u] /\ held[u] \in Seq(HeldMessages)
        /\ held[u][i] \in HeldMessages /\ call[u].row \in Nat
    BY DEF CallInv, MessageOps, ConnectionType
  <2>2. [held[u][i] EXCEPT !.id = call[u].row] \in HeldMessages
    BY <2>1 DEF HeldMessages
  <2>3. /\ held' \in [User -> Seq(HeldMessages)]
        /\ \A v \in User : DOMAIN held'[v] = DOMAIN held[v]
        /\ \A v \in User : v # u => held'[v] = held[v]
    BY <2>1, <2>2 DEF ConnectionType
  <2>4. /\ call' \in [User -> [op : Ops, i : Nat, tool : Tool \cup {NoTool}, row : Nat]]
        /\ call'[u].op = "idle"
        /\ \A v \in User : v # u => call'[v] = call[v]
    BY DEF Return, ConnectionType, Ops, Idle
  <2>5. FileType' /\ LedgerType' /\ ConnectionType'
    BY <2>3, <2>4 DEF FileType, LedgerType, ConnectionType
  <2>6. CallInv'
    BY <2>3, <2>4 DEF CallInv, MessageOps
  <2>. QED
    BY <2>5, <2>6
<1>11. ASSUME NEW u \in User,
              \/ BeginInvocation(u) \/ FailToPrepareInvocation(u) \/ EnsureTool(u)
              \/ InsertToolInvocation(u) \/ InsertPromptLog(u)
       PROVE  TypeInv'
  <2>. USE <1>11 DEF BeginInvocation, FailToPrepareInvocation, EnsureTool,
           InsertToolInvocation, InsertPromptLog, In, Ready
  <2>1. LedgerType'
    <3>1. CASE BeginInvocation(u)
      BY <3>1 DEF LedgerType, ledgerVars
    <3>2. CASE FailToPrepareInvocation(u)
      BY <3>2 DEF LedgerType, Fails
    <3>3. CASE EnsureTool(u) \/ InsertToolInvocation(u) \/ InsertPromptLog(u)
      BY <3>3, LedgerSteps DEF Statements, fileVars
    <3>. QED
      BY <3>1, <3>2, <3>3
  <2>2. /\ call' \in [User -> [op : Ops, i : Nat, tool : Tool \cup {NoTool}, row : Nat]]
        /\ call'[u].op \notin MessageOps
        /\ call'[u].op \in {"tool", "invocation"} => call'[u].tool \in Tool
        /\ \A v \in User : v # u => call'[v] = call[v]
        /\ conn[u] = "ready"
    <3>1. CASE BeginInvocation(u)
      <4>. DEFINE c(t) == [call[u] EXCEPT !.op = "tool", !.tool = t]
      <4>1. call[u] \in CallRecords /\ call \in [User -> CallRecords]
        BY DEF ConnectionType, CallRecords
      <4>2. \A t \in Tool : c(t) \in CallRecords /\ c(t).op = "tool" /\ c(t).tool \in Tool
        BY <4>1 DEF CallRecords, Ops
      <4>3. PICK t \in Tool : call' = [call EXCEPT ![u] = c(t)]
        BY <3>1
      <4>. HIDE DEF c
      <4>. QED
        BY <3>1, <4>1, <4>2, <4>3 DEF CallRecords, MessageOps
    <3>2. CASE EnsureTool(u) \/ InsertToolInvocation(u)
      <4>1. Enter(u, "invocation") \/ Return(u)
        BY <3>2
      <4>2. "invocation" \in Ops /\ call[u].tool \in Tool
        BY <3>2 DEF Ops, CallInv
      <4>. QED
        BY <3>2, <4>1, <4>2, CallSteps DEF CallRecords, MessageOps
    <3>3. CASE FailToPrepareInvocation(u) \/ InsertPromptLog(u)
      BY <3>3 DEF ConnectionType, MessageOps
    <3>. QED
      BY <3>1, <3>2, <3>3
  <2>3. FileType'
    <3>1. EnsureTool(u) => call[u].tool \in Tool
      BY DEF CallInv
    <3>. QED
      BY <3>1 DEF FileType, fileVars
  <2>4. ConnectionType'
    BY <2>2 DEF ConnectionType, fileVars
  <2>5. CallInv'
    BY <2>2 DEF CallInv, fileVars
  <2>. QED
    BY <2>1, <2>3, <2>4, <2>5
<1>12. ASSUME NEW u \in User, Close(u) PROVE TypeInv'
  BY <1>12, ClosedTypeInv DEF Close, fileVars, LedgerType
<1>. QED
  BY <1>0, <1>1, <1>2, <1>3, <1>4, <1>5, <1>6, <1>7, <1>8, <1>9, <1>10, <1>11, <1>12
     DEF Next

(***************************************************************************)
(* Every state of the store and of its connections is well typed.          *)
(***************************************************************************)
THEOREM TypeCorrect == Spec => []TypeOK
<1>1. TypeInv => TypeOK
  BY DEF TypeInv
<1>. QED
  BY <1>1, InitTypeInv, StepTypeInv, PTL DEF Spec

LEMMA TypeInvariant == Spec => []TypeInv
BY InitTypeInv, StepTypeInv, PTL DEF Spec
-----------------------------------------------------------------------------
(***************************************************************************)
(* The account of failures: one that left its statement spoiled has cost   *)
(* one call so far, and one more is set aside for it.                      *)
(***************************************************************************)
LostInv ==
    \A u \in User : lost[u] + Cardinality(spoiled[u]) <= 2 * failed[u]

LEMMA SpoiledAreFinite ==
    ASSUME TypeInv, NEW u \in User
    PROVE  IsFiniteSet(spoiled[u]) /\ Cardinality(spoiled[u]) \in Nat
<1>1. IsFiniteSet(Statements)
  <2>1. Statements = {"check", "update", "message", "tool", "invocation"} \cup {"prompt"}
    BY DEF Statements
  <2>2. /\ IsFiniteSet({} \cup {"check"})
        /\ IsFiniteSet(({} \cup {"check"}) \cup {"update"})
        /\ IsFiniteSet((({} \cup {"check"}) \cup {"update"}) \cup {"message"})
        /\ IsFiniteSet(((({} \cup {"check"}) \cup {"update"}) \cup {"message"}) \cup {"tool"})
        /\ IsFiniteSet((((({} \cup {"check"}) \cup {"update"}) \cup {"message"}) \cup {"tool"})
                       \cup {"invocation"})
        /\ IsFiniteSet(((((({} \cup {"check"}) \cup {"update"}) \cup {"message"}) \cup {"tool"})
                        \cup {"invocation"}) \cup {"prompt"})
    BY FS_EmptySet, FS_AddElement
  <2>3. Statements = (((((({} \cup {"check"}) \cup {"update"}) \cup {"message"}) \cup {"tool"})
                       \cup {"invocation"}) \cup {"prompt"})
    BY <2>1
  <2>. QED
    BY <2>2, <2>3
<1>2. spoiled[u] \in SUBSET Statements
  BY DEF TypeInv, TypeOK, LedgerType
<1>. QED
  BY <1>1, <1>2, FS_Subset, FS_CardinalityType

LEMMA LostSteps ==
    ASSUME TypeInv, LostInv, NEW u \in User, NEW s \in Statements,
           Succeeds(u, s) \/ Throws(u, s)
    PROVE  LostInv'
<1>. DEFINE card(v) == Cardinality(spoiled[v])
<1>1. /\ spoiled \in [User -> SUBSET Statements]
      /\ failed \in [User -> Nat] /\ lost \in [User -> Nat]
  BY DEF TypeInv, TypeOK, LedgerType
<1>2. \A v \in User : card(v) \in Nat /\ IsFiniteSet(spoiled[v])
  BY SpoiledAreFinite
<1>3. CASE Succeeds(u, s)
  BY <1>3 DEF Succeeds, ledgerVars, LostInv
<1>4. CASE Throws(u, s) /\ s \in spoiled[u]
  <2>1. /\ lost' = [lost EXCEPT ![u] = @ + 1] /\ failed' = failed
        /\ spoiled' = [spoiled EXCEPT ![u] = @ \ {s}]
    BY <1>4 DEF Throws
  <2>2. Cardinality(spoiled[u] \ {s}) = card(u) - 1
    BY <1>2, <1>4, FS_RemoveElement
  <2>. QED
    BY <1>1, <1>2, <2>1, <2>2 DEF LostInv
<1>5. CASE Throws(u, s) /\ s \notin spoiled[u]
  <2>1. /\ lost' = [lost EXCEPT ![u] = @ + 1]
        /\ failed' = [failed EXCEPT ![u] = @ + 1]
        /\ \/ spoiled' = [spoiled EXCEPT ![u] = @ \cup {s}]
           \/ spoiled' = spoiled
    BY <1>5 DEF Throws, Fails
  <2>2. Cardinality(spoiled[u] \cup {s}) = card(u) + 1
    BY <1>2, <1>5, FS_AddElement
  <2>3. ASSUME NEW v \in User
        PROVE  lost'[v] + Cardinality(spoiled'[v]) <= 2 * failed'[v]
    <3>1. /\ lost[v] \in Nat /\ failed[v] \in Nat /\ card(v) \in Nat
          /\ lost[v] + card(v) <= 2 * failed[v]
      BY <1>1, <1>2 DEF LostInv
    <3>2. CASE v # u
      BY <1>1, <2>1, <3>1, <3>2
    <3>3. CASE v = u
      <4>1. lost'[v] = lost[v] + 1 /\ failed'[v] = failed[v] + 1
        BY <1>1, <2>1, <3>3
      <4>2. Cardinality(spoiled'[v]) \in {card(v), card(v) + 1}
        BY <1>1, <2>1, <2>2, <3>3
      <4>. HIDE DEF card
      <4>. QED
        BY <3>1, <4>1, <4>2
    <3>. QED
      BY <3>2, <3>3
  <2>. QED
    BY <2>3 DEF LostInv
<1>. QED
  BY <1>3, <1>4, <1>5

LEMMA StepLostInv == TypeInv /\ LostInv /\ [Next]_vars => LostInv'
<1>. SUFFICES ASSUME TypeInv, LostInv, [Next]_vars PROVE LostInv'
  OBVIOUS
<1>1. CASE UNCHANGED <<spoiled, failed, lost>>
  BY <1>1 DEF LostInv
<1>2. ASSUME NEW u \in User, Closed(u) PROVE LostInv'
  <2>1. /\ spoiled' = [spoiled EXCEPT ![u] = {}]
        /\ failed' = [failed EXCEPT ![u] = 0] /\ lost' = [lost EXCEPT ![u] = 0]
    BY <1>2 DEF Closed
  <2>2. Cardinality({}) = 0
    BY FS_EmptySet
  <2>. QED
    BY <2>1, <2>2 DEF LostInv, TypeInv, TypeOK, LedgerType
<1>3. ASSUME NEW u \in User,
             \/ CheckMessage(u) \/ UpdateMessage(u) \/ InsertMessage(u)
             \/ EnsureTool(u) \/ InsertToolInvocation(u) \/ InsertPromptLog(u)
      PROVE  LostInv'
  BY <1>3, LostSteps DEF CheckMessage, UpdateMessage, InsertMessage, EnsureTool,
     InsertToolInvocation, InsertPromptLog, Statements
<1>4. ASSUME NEW u \in User, FailToPrepareInvocation(u) PROVE LostInv'
  <2>1. /\ lost' = [lost EXCEPT ![u] = @ + 1]
        /\ failed' = [failed EXCEPT ![u] = @ + 1] /\ spoiled' = spoiled
    BY <1>4 DEF FailToPrepareInvocation, Fails
  <2>. QED
    BY <2>1, SpoiledAreFinite DEF LostInv, TypeInv, TypeOK, LedgerType
<1>5. ASSUME NEW u \in User,
             \/ Open(u) \/ FailToOpen(u) \/ EnsureSession(u) \/ Restore(u) \/ Write(u)
             \/ WriteAgain(u) \/ ReturnId(u) \/ BeginInvocation(u) \/ Close(u)
      PROVE  Closed(u) \/ UNCHANGED <<spoiled, failed, lost>>
  BY <1>5 DEF Open, FailToOpen, EnsureSession, Restore, Write, WriteAgain, ReturnId,
     BeginInvocation, Close, ledgerVars
<1>6. CASE UNCHANGED vars
  BY <1>1, <1>6 DEF vars, ledgerVars
<1>. QED
  BY <1>1, <1>2, <1>3, <1>4, <1>5, <1>6 DEF Next

(***************************************************************************)
(* A failed statement costs its call, and at most the next of the same.    *)
(***************************************************************************)
THEOREM FailuresAreCounted == Spec => []AFailureCostsTwoCalls
<1>1. Init => LostInv
  <2>1. Cardinality({}) = 0
    BY FS_EmptySet
  <2>2. ASSUME Init
        PROVE  /\ spoiled = [u \in User |-> {}]
               /\ failed = [u \in User |-> 0] /\ lost = [u \in User |-> 0]
    BY <2>2, Zenon DEF Init
  <2>. QED
    BY <2>1, <2>2 DEF LostInv
<1>2. TypeInv /\ LostInv => AFailureCostsTwoCalls
  BY SpoiledAreFinite DEF LostInv, AFailureCostsTwoCalls, TypeInv, TypeOK, LedgerType
<1>. QED
  BY <1>1, <1>2, TypeInvariant, StepLostInv, PTL DEF Spec
-----------------------------------------------------------------------------
(***************************************************************************)
(* The two copies of the schema.                                           *)
(***************************************************************************)
CoreNames == {"sessions", "tasks", "messages", "pointers", "knowledge_graph", "tools",
              "tool_invocations", "execution_logs", "prompt_logs", "indexes", "triggers"}

AllNames == CoreNames \cup {"pointer_embeddings", "embedding_records", "embedding_indexes",
                            "pointer_search_view"}

LEMMA Concatenation ==
    ASSUME NEW S, NEW s \in Seq(S), NEW t \in Seq(S)
    PROVE  s \o t \in Seq(S) /\ Len(s \o t) = Len(s) + Len(t)
OBVIOUS

LEMMA InConcatenation ==
    ASSUME NEW S, NEW s \in Seq(S), NEW t \in Seq(S)
    PROVE  \A i \in 1 .. Len(s) + Len(t) :
              (s \o t)[i] = IF i <= Len(s) THEN s[i] ELSE t[i - Len(s)]
BY ConcatProperties

LEMMA CoreOrderNames ==
    /\ CoreOrder \in Seq(AllNames) /\ Len(CoreOrder) = 9
    /\ CoreOrder[1] = "sessions" /\ CoreOrder[2] = "tasks" /\ CoreOrder[3] = "messages"
    /\ CoreOrder[4] = "pointers" /\ CoreOrder[5] = "knowledge_graph"
    /\ CoreOrder[6] = "tools" /\ CoreOrder[7] = "tool_invocations"
    /\ CoreOrder[8] = "execution_logs" /\ CoreOrder[9] = "prompt_logs"
BY DEF CoreOrder, CoreNames, AllNames

LEMMA TailNames ==
    /\ <<"indexes", "triggers">> \in Seq(AllNames)
    /\ Len(<<"indexes", "triggers">>) = 2
BY DEF AllNames, CoreNames

LEMMA CoreScript ==
    /\ Len(Script(FALSE)) = 11 /\ DOMAIN Script(FALSE) = 1 .. 11
    /\ \A i \in 1 .. 11 : Script(FALSE)[i] \in CoreNames
    /\ \A name \in CoreNames : \E i \in 1 .. 11 : Script(FALSE)[i] = name
<1>. DEFINE tail == <<"indexes", "triggers">>
            script == CoreOrder \o tail
<1>1. Script(FALSE) = script
  BY DEF Script
<1>2. tail[1] = "indexes" /\ tail[2] = "triggers"
  OBVIOUS
<1>. HIDE DEF tail
<1>3. /\ script \in Seq(AllNames) /\ Len(script) = 9 + 2
      /\ \A i \in 1 .. 9 : script[i] = CoreOrder[i]
      /\ script[10] = tail[1] /\ script[11] = tail[2]
  <2>1. tail \in Seq(AllNames) /\ Len(tail) = 2
    BY TailNames DEF tail
  <2>2. CoreOrder \in Seq(AllNames) /\ Len(CoreOrder) = 9
    BY CoreOrderNames
  <2>3. script \in Seq(AllNames) /\ Len(script) = Len(CoreOrder) + Len(tail)
    BY <2>1, <2>2, Concatenation
  <2>4. \A i \in 1 .. Len(CoreOrder) + Len(tail) :
           script[i] = IF i <= Len(CoreOrder) THEN CoreOrder[i] ELSE tail[i - Len(CoreOrder)]
    BY <2>1, <2>2, InConcatenation
  <2>5. Len(tail) = 2 /\ Len(CoreOrder) = 9
    BY <2>1, <2>2
  <2>. HIDE DEF script
  <2>. QED
    BY <2>3, <2>4, <2>5
<1>. HIDE DEF script
<1>4. /\ script[1] = "sessions" /\ script[2] = "tasks" /\ script[3] = "messages"
      /\ script[4] = "pointers" /\ script[5] = "knowledge_graph"
      /\ script[6] = "tools" /\ script[7] = "tool_invocations"
      /\ script[8] = "execution_logs" /\ script[9] = "prompt_logs"
      /\ script[10] = "indexes" /\ script[11] = "triggers"
  BY <1>2, <1>3, CoreOrderNames
<1>5. \A i \in 1 .. 11 : script[i] \in CoreNames
  BY <1>4 DEF CoreNames
<1>6. \A name \in CoreNames : \E i \in 1 .. 11 : script[i] = name
  BY <1>4 DEF CoreNames
<1>7. Len(script) = 11 /\ DOMAIN script = 1 .. 11
  BY <1>3
<1>. QED
  BY <1>1, <1>5, <1>6, <1>7

LEMMA FullScript ==
    /\ Len(Script(TRUE)) = 15
    /\ \A name \in CoreNames : \E i \in 1 .. 15 : Script(TRUE)[i] = name
<1>. DEFINE vectors == <<"pointer_embeddings", "embedding_records", "embedding_indexes",
                       "pointer_search_view">>
            tail == <<"indexes", "triggers">>
            tables == CoreOrder \o vectors
            script == tables \o tail
<1>1. Script(TRUE) = script
  BY DEF Script, FullOrder
<1>2. tail[1] = "indexes" /\ tail[2] = "triggers"
  OBVIOUS
<1>3. vectors \in Seq(AllNames) /\ Len(vectors) = 4
  BY DEF AllNames
<1>. HIDE DEF vectors, tail
<1>4. /\ tables \in Seq(AllNames) /\ Len(tables) = 9 + 4
      /\ \A i \in 1 .. 9 : tables[i] = CoreOrder[i]
  <2>1. CoreOrder \in Seq(AllNames) /\ Len(CoreOrder) = 9
    BY CoreOrderNames
  <2>2. tables \in Seq(AllNames) /\ Len(tables) = Len(CoreOrder) + Len(vectors)
    BY <1>3, <2>1, Concatenation
  <2>3. \A i \in 1 .. Len(CoreOrder) + Len(vectors) :
           tables[i] = IF i <= Len(CoreOrder) THEN CoreOrder[i]
                       ELSE vectors[i - Len(CoreOrder)]
    BY <1>3, <2>1, InConcatenation
  <2>. HIDE DEF tables
  <2>. QED
    BY <1>3, <2>1, <2>2, <2>3
<1>. HIDE DEF tables
<1>5. /\ script \in Seq(AllNames) /\ Len(script) = 13 + 2
      /\ \A i \in 1 .. 13 : script[i] = tables[i]
      /\ script[14] = tail[1] /\ script[15] = tail[2]
  <2>1. tail \in Seq(AllNames) /\ Len(tail) = 2
    BY TailNames DEF tail
  <2>2. Len(tables) = 13
    BY <1>4
  <2>3. script \in Seq(AllNames) /\ Len(script) = Len(tables) + Len(tail)
    BY <1>4, <2>1, Concatenation
  <2>4. \A i \in 1 .. Len(tables) + Len(tail) :
           script[i] = IF i <= Len(tables) THEN tables[i] ELSE tail[i - Len(tables)]
    BY <1>4, <2>1, InConcatenation
  <2>. HIDE DEF script
  <2>. QED
    BY <2>1, <2>2, <2>3, <2>4
<1>. HIDE DEF script
<1>6. /\ script[1] = "sessions" /\ script[2] = "tasks" /\ script[3] = "messages"
      /\ script[4] = "pointers" /\ script[5] = "knowledge_graph"
      /\ script[6] = "tools" /\ script[7] = "tool_invocations"
      /\ script[8] = "execution_logs" /\ script[9] = "prompt_logs"
      /\ script[14] = "indexes" /\ script[15] = "triggers"
  BY <1>2, <1>4, <1>5, CoreOrderNames
<1>7. \A name \in CoreNames : \E i \in 1 .. 15 : script[i] = name
  BY <1>6 DEF CoreNames
<1>8. Len(script) = 15
  BY <1>5
<1>. QED
  BY <1>1, <1>7, <1>8

\* What an object of the core schema refers to is the same in both.
LEMMA CopiesAgree ==
    ASSUME NEW name \in CoreNames, NEW vectors \in BOOLEAN
    PROVE  References(vectors, name) = References(FALSE, name)
<1>1. DOMAIN CoreTables = CoreNames \ {"indexes", "triggers"}
  BY DEF CoreTables, CoreNames
<1>2. DOMAIN FullTables = AllNames \ {"pointer_search_view", "indexes", "triggers"}
  BY DEF FullTables, CoreNames, AllNames
<1>3. /\ FullTables["sessions"] = CoreTables["sessions"]
      /\ FullTables["tasks"] = CoreTables["tasks"]
      /\ FullTables["messages"] = CoreTables["messages"]
      /\ FullTables["pointers"] = CoreTables["pointers"]
      /\ FullTables["knowledge_graph"] = CoreTables["knowledge_graph"]
      /\ FullTables["tools"] = CoreTables["tools"]
      /\ FullTables["tool_invocations"] = CoreTables["tool_invocations"]
      /\ FullTables["execution_logs"] = CoreTables["execution_logs"]
      /\ FullTables["prompt_logs"] = CoreTables["prompt_logs"]
  BY DEF CoreTables, FullTables
<1>4. \A t \in CoreNames \ {"indexes", "triggers"} : FullTables[t] = CoreTables[t]
  BY <1>3 DEF CoreNames
<1>5. CoreNames \subseteq AllNames \ {"pointer_search_view"}
  BY DEF AllNames, CoreNames
<1>. QED
  BY <1>1, <1>2, <1>4, <1>5 DEF References

SchemaInv ==
    /\ \A o \in DOMAIN schema \cap CoreNames : schema[o] = References(FALSE, o)
    /\ \A u \in User : conn[u] # "closed" => CoreNames \subseteq DOMAIN schema

LEMMA CreateSteps ==
    ASSUME SchemaInv, NEW vectors \in BOOLEAN, NEW n, schema' = Create(vectors, n)
    PROVE  /\ DOMAIN schema \subseteq DOMAIN schema'
           /\ \A o \in DOMAIN schema' \cap CoreNames : schema'[o] = References(FALSE, o)
BY CopiesAgree DEF SchemaInv, Create

LEMMA StepSchemaInv == TypeInv /\ SchemaInv /\ [Next]_vars => SchemaInv'
<1>. SUFFICES ASSUME TypeInv, SchemaInv, [Next]_vars PROVE SchemaInv'
  OBVIOUS
<1>0. conn \in [User -> {"closed", "opened", "restoring", "ready"}]
  BY DEF TypeInv, TypeOK, ConnectionType
<1>1. ASSUME NEW u \in User, Open(u) PROVE SchemaInv'
  <2>1. PICK vectors \in BOOLEAN : schema' = Create(vectors, Len(Script(vectors)))
    BY <1>1 DEF Open
  <2>2. CoreNames \subseteq DOMAIN schema'
    <3>1. CASE vectors
      BY <2>1, <3>1, FullScript DEF Create
    <3>2. CASE ~vectors
      BY <2>1, <3>2, CoreScript DEF Create
    <3>. QED
      BY <3>1, <3>2
  <2>. QED
    BY <2>1, <2>2, CreateSteps DEF SchemaInv
<1>2. ASSUME NEW u \in User, FailToOpen(u) PROVE SchemaInv'
  <2>1. PICK vectors \in BOOLEAN : \E n : schema' = Create(vectors, n)
    BY <1>2 DEF FailToOpen
  <2>2. conn' = conn
    BY <1>2 DEF FailToOpen
  <2>. QED
    BY <2>1, <2>2, CreateSteps DEF SchemaInv
<1>3. ASSUME schema' = schema, \A u \in User : conn'[u] # "closed" => conn[u] # "closed"
      PROVE  SchemaInv'
  BY <1>3 DEF SchemaInv
<1>4. ASSUME NEW u \in User,
             \/ EnsureSession(u) \/ Restore(u) \/ Write(u) \/ WriteAgain(u)
             \/ CheckMessage(u) \/ UpdateMessage(u) \/ InsertMessage(u) \/ ReturnId(u)
             \/ BeginInvocation(u) \/ FailToPrepareInvocation(u) \/ EnsureTool(u)
             \/ InsertToolInvocation(u) \/ InsertPromptLog(u) \/ Close(u)
      PROVE  schema' = schema /\ \A v \in User : conn'[v] # "closed" => conn[v] # "closed"
  <2>1. CASE EnsureSession(u)
    BY <1>0, <2>1 DEF EnsureSession, Closed
  <2>2. CASE Restore(u)
    BY <1>0, <2>2 DEF Restore, fileVars
  <2>3. CASE Close(u)
    BY <1>0, <2>3 DEF Close, Closed, fileVars
  <2>4. CASE ~EnsureSession(u) /\ ~Restore(u) /\ ~Close(u)
    BY <1>4, <2>4 DEF Write, WriteAgain, CheckMessage, UpdateMessage, InsertMessage,
       ReturnId, BeginInvocation, FailToPrepareInvocation, EnsureTool,
       InsertToolInvocation, InsertPromptLog, fileVars
  <2>. QED
    BY <2>1, <2>2, <2>3, <2>4
<1>5. CASE UNCHANGED vars
  BY <1>3, <1>5 DEF vars, fileVars
<1>. QED
  BY <1>1, <1>2, <1>3, <1>4, <1>5 DEF Next

LEMMA SchemaInvariant == Spec => []SchemaInv
<1>1. Init => SchemaInv
  <2>1. ASSUME Init PROVE DOMAIN schema = {} /\ conn = [u \in User |-> "closed"]
    BY <2>1 DEF Init
  <2>. QED
    BY <2>1 DEF SchemaInv
<1>. QED
  BY <1>1, TypeInvariant, StepSchemaInv, PTL DEF Spec

(***************************************************************************)
(* Whichever copies of the schema were run on a file, however far, whoever *)
(* opened it has the core schema.                                          *)
(***************************************************************************)
THEOREM SchemaWhole == Spec => []SchemaIsWhole
<1>1. SchemaInv => SchemaIsWhole
  BY CoreScript DEF SchemaInv, SchemaIsWhole
<1>. QED
  BY <1>1, SchemaInvariant, PTL
-----------------------------------------------------------------------------
\* The row of the tool is there once a call has come to its invocation: a tool
\* is never removed.
ToolInv == \A u \in User : call[u].op = "invocation" => call[u].tool \in tools

LEMMA StepToolInv == TypeInv /\ ToolInv /\ [Next]_vars => ToolInv'
<1>. SUFFICES ASSUME TypeInv, ToolInv, [Next]_vars PROVE ToolInv'
  OBVIOUS
<1>0. call \in [User -> CallRecords]
  BY DEF TypeInv, TypeOK, ConnectionType, CallRecords
<1>1. ASSUME NEW u \in User, EnsureTool(u) PROVE ToolInv'
  <2>1. CASE Enter(u, "invocation") /\ tools' = tools \cup {call[u].tool}
    BY <1>0, <2>1, CallSteps DEF ToolInv, Ops
  <2>2. CASE Return(u) /\ tools' = tools
    BY <1>0, <2>2 DEF ToolInv, Return, Idle
  <2>. QED
    BY <1>1, <2>1, <2>2 DEF EnsureTool
<1>2. ASSUME tools' = tools, NEW u \in User, call'[u].op # "invocation",
             \A v \in User : v # u => call'[v] = call[v]
      PROVE  ToolInv'
  BY <1>2 DEF ToolInv
<1>3. CASE UNCHANGED <<tools, call>>
  BY <1>3 DEF ToolInv
<1>4. ASSUME NEW u \in User, call' = [call EXCEPT ![u] = Idle], tools' = tools
      PROVE  ToolInv'
  BY <1>0, <1>2, <1>4 DEF Idle
<1>5. ASSUME NEW u \in User, EnsureSession(u) \/ Close(u) \/ InsertToolInvocation(u)
                             \/ ReturnId(u) \/ UpdateMessage(u)
      PROVE  ToolInv'
  BY <1>3, <1>4, <1>5 DEF EnsureSession, Close, Closed, InsertToolInvocation, ReturnId,
     UpdateMessage, Return, fileVars
<1>6. ASSUME NEW u \in User, CheckMessage(u) \/ InsertMessage(u) \/ BeginInvocation(u)
                             \/ Write(u) \/ WriteAgain(u)
      PROVE  ToolInv'
  <2>1. tools' = tools
    BY <1>6 DEF CheckMessage, InsertMessage, BeginInvocation, Write, WriteAgain, fileVars
  <2>2. call'[u].op # "invocation" /\ \A v \in User : v # u => call'[v] = call[v]
    <3>1. CASE CheckMessage(u)
      <4>1. Enter(u, "update") \/ Enter(u, "insert") \/ Return(u)
        BY <3>1 DEF CheckMessage
      <4>. QED
        BY <4>1, CallSteps DEF Ops
    <3>2. CASE InsertMessage(u)
      BY <1>0, <3>2 DEF InsertMessage, Return, Idle, CallRecords
    <3>3. CASE BeginInvocation(u)
      BY <1>0, <3>3 DEF BeginInvocation, CallRecords
    <3>4. CASE Write(u) \/ WriteAgain(u)
      BY <1>0, <3>4 DEF Write, WriteAgain, Persist
    <3>. QED
      BY <1>6, <3>1, <3>2, <3>3, <3>4
  <2>. QED
    BY <1>2, <2>1, <2>2
<1>7. ASSUME NEW u \in User, Open(u) \/ FailToOpen(u) \/ Restore(u)
                             \/ FailToPrepareInvocation(u) \/ InsertPromptLog(u)
      PROVE  ToolInv'
  BY <1>3, <1>7 DEF Open, FailToOpen, Restore, FailToPrepareInvocation, InsertPromptLog,
     fileVars
<1>8. CASE UNCHANGED vars
  BY <1>3, <1>8 DEF vars, fileVars
<1>. QED
  BY <1>1, <1>5, <1>6, <1>7, <1>8 DEF Next

(***************************************************************************)
(* No row is refused for a reference of its own.                           *)
(***************************************************************************)
THEOREM ReferencesMet == Spec => []EveryReferenceIsMet
<1>1. Init => ToolInv
  <2>1. ASSUME Init PROVE call = [u \in User |-> Idle]
    BY <2>1, Zenon DEF Init
  <2>. QED
    BY <2>1 DEF ToolInv, Idle
<1>2. TypeInv /\ SchemaInv /\ ToolInv => EveryReferenceIsMet
  <2>. SUFFICES ASSUME TypeInv, SchemaInv, ToolInv, NEW u \in User, conn[u] = "ready"
                PROVE  /\ Met(u, "messages")
                       /\ call[u].op = "invocation" => Met(u, "tool_invocations")
                       /\ Met(u, "prompt_logs")
    BY DEF EveryReferenceIsMet, In, Ready
  <2>1. agent[u].session \in DOMAIN sessions
    BY DEF TypeInv, CallInv
  <2>2. /\ schema["messages"] = References(FALSE, "messages")
        /\ schema["tool_invocations"] = References(FALSE, "tool_invocations")
        /\ schema["prompt_logs"] = References(FALSE, "prompt_logs")
    BY DEF SchemaInv, CoreNames
  <2>3. /\ References(FALSE, "messages") = {"tasks", "sessions"}
        /\ References(FALSE, "tool_invocations") = {"tasks", "sessions", "tools"}
        /\ References(FALSE, "prompt_logs") = {"tasks", "sessions"}
    BY DEF References, CoreTables
  <2>. QED
    BY <2>1, <2>2, <2>3 DEF Met, ToolInv
<1>. QED
  BY <1>1, <1>2, TypeInvariant, SchemaInvariant, StepToolInv, PTL DEF Spec
-----------------------------------------------------------------------------
(***************************************************************************)
(* What an agent knows of the rows of its messages.  A message without an  *)
(* id has none yet; between its insert and the question for its id the row *)
(* is the one the connection will name.                                    *)
(***************************************************************************)
Names(u, i, id) ==
    /\ id \in 1 .. Len(messages)
    /\ messages[id].no = held[u][i].no
    /\ messages[id].session = agent[u].session

IdOf(u) ==
    /\ \A i \in DOMAIN held[u] : held[u][i].id # 0 => Names(u, i, held[u][i].id)
    /\ call[u].op \in {"check", "update"} => Subject(u).id # 0
    /\ call[u].op \in {"insert", "return"} => Subject(u).id = 0
    /\ call[u].op = "return" => Names(u, call[u].i, call[u].row)

IdInv == \A u \in User : IdOf(u)

\* A row keeps its message and its session.
Kept ==
    \A id \in 1 .. Len(messages) :
        /\ id \in 1 .. Len(messages')
        /\ messages'[id].no = messages[id].no
        /\ messages'[id].session = messages[id].session

LEMMA RowsAreKept == TypeInv /\ IdInv /\ [Next]_vars => Kept
<1>. SUFFICES ASSUME TypeInv, IdInv, [Next]_vars PROVE Kept
  OBVIOUS
<1>0. messages \in Seq(MessageRows)
  BY DEF TypeInv, TypeOK, FileType
<1>1. CASE messages' = messages
  BY <1>1 DEF Kept
<1>2. ASSUME NEW u \in User, InsertMessage(u) PROVE Kept
  <2>1. CASE messages' = Append(messages, Row(u))
    <3>1. Row(u) \in MessageRows
      BY <1>2, SubjectType DEF InsertMessage, In, Ready, MessageOps
    <3>. QED
      BY <1>0, <2>1, <3>1 DEF Kept
  <2>. QED
    BY <1>1, <1>2, <2>1 DEF InsertMessage
<1>3. ASSUME NEW u \in User, UpdateMessage(u) PROVE Kept
  <2>1. CASE messages' = [messages EXCEPT ![Subject(u).id] = Row(u)]
    <3>1. /\ call[u].i \in DOMAIN held[u] /\ Row(u) \in MessageRows
          /\ Subject(u).id # 0
      BY <1>3, SubjectType DEF UpdateMessage, In, Ready, MessageOps, IdInv, IdOf
    <3>2. Names(u, call[u].i, Subject(u).id)
      BY <3>1 DEF IdInv, IdOf, Subject
    <3>3. /\ Row(u).no = messages[Subject(u).id].no
          /\ Row(u).session = messages[Subject(u).id].session
      BY <3>2 DEF Names, Row, Subject
    <3>4. Len(messages') = Len(messages)
      BY <1>0, <2>1
    <3>. QED
      BY <1>0, <2>1, <3>3, <3>4 DEF Kept
  <2>. QED
    BY <1>1, <1>3, <2>1 DEF UpdateMessage
<1>4. ASSUME NEW u \in User, Next, ~InsertMessage(u), ~UpdateMessage(u),
             \/ Open(u) \/ FailToOpen(u) \/ EnsureSession(u) \/ Restore(u)
             \/ Write(u) \/ WriteAgain(u) \/ CheckMessage(u) \/ ReturnId(u)
             \/ BeginInvocation(u) \/ FailToPrepareInvocation(u) \/ EnsureTool(u)
             \/ InsertToolInvocation(u) \/ InsertPromptLog(u) \/ Close(u)
      PROVE  messages' = messages
  BY <1>4 DEF Open, FailToOpen, EnsureSession, Restore, Write, WriteAgain, CheckMessage,
     ReturnId, BeginInvocation, FailToPrepareInvocation, EnsureTool,
     InsertToolInvocation, InsertPromptLog, Close, fileVars
<1>5. CASE UNCHANGED vars
  BY <1>1, <1>5 DEF vars, fileVars
<1>. QED
  BY <1>1, <1>2, <1>3, <1>4, <1>5 DEF Next

\* The others' rows are kept, and those of an agent that does nothing new.
LEMMA IdFrame ==
    ASSUME TypeInv, Kept, NEW u \in User, IdOf(u), held'[u] = held[u],
           agent'[u].session = agent[u].session \/ held[u] = <<>>,
           call'[u] = call[u] \/ call'[u].op \notin MessageOps
    PROVE  IdOf(u)'
<1>1. ASSUME NEW i \in DOMAIN held[u], NEW id, Names(u, i, id) PROVE Names(u, i, id)'
  <2>1. held[u] # <<>>
    BY <1>1
  <2>. QED
    BY <1>1, <2>1 DEF Names, Kept
<1>2. call[u].op \in MessageOps => call[u].i \in DOMAIN held[u]
  BY DEF TypeInv, CallInv
<1>. QED
  BY <1>1, <1>2 DEF IdOf, Subject, MessageOps

LEMMA StepIdInv == TypeInv /\ IdInv /\ [Next]_vars => IdInv'
<1>. SUFFICES ASSUME TypeInv, IdInv, [Next]_vars PROVE IdInv'
  OBVIOUS
<1>1. Kept
  BY RowsAreKept
<1>2. /\ conn \in [User -> {"closed", "opened", "restoring", "ready"}]
      /\ held \in [User -> Seq(HeldMessages)]
      /\ call \in [User -> CallRecords]
      /\ agent \in [User -> AgentRecords]
      /\ messages \in Seq(MessageRows)
  BY DEF TypeInv, TypeOK, ConnectionType, FileType, CallRecords
<1>3. \A v \in User : IdOf(v) /\ (conn[v] # "ready" => held[v] = <<>>)
  BY DEF IdInv, TypeInv, CallInv
<1>4. CASE UNCHANGED vars
  BY <1>1, <1>3, <1>4, IdFrame DEF IdInv, vars
<1>5. ASSUME NEW u \in User,
             held' = [held EXCEPT ![u] = held'[u]], agent' = [agent EXCEPT ![u] = agent'[u]],
             call' = [call EXCEPT ![u] = call'[u]], IdOf(u)'
      PROVE  IdInv'
  <2>1. \A v \in User : v # u => held'[v] = held[v] /\ agent'[v] = agent[v]
                                  /\ call'[v] = call[v]
    BY <1>2, <1>5
  <2>2. \A v \in User : v # u => IdOf(v)'
    BY <1>1, <1>3, <2>1, IdFrame
  <2>. QED
    BY <1>5, <2>2 DEF IdInv
<1>6. ASSUME NEW u \in User, Closed(u) PROVE IdInv'
  <2>1. held'[u] = <<>> /\ call'[u] = Idle
    BY <1>2, <1>6 DEF Closed
  <2>2. IdOf(u)'
    BY <2>1 DEF IdOf, Idle
  <2>. QED
    BY <1>5, <1>6, <2>2 DEF Closed
<1>7. ASSUME NEW u \in User, held' = held, agent' = agent, call' = [call EXCEPT ![u] = call'[u]],
             call'[u].op \notin MessageOps
      PROVE  IdInv'
  BY <1>1, <1>2, <1>3, <1>5, <1>7, IdFrame
<1>8. ASSUME NEW u \in User, Open(u) \/ FailToOpen(u) PROVE IdInv'
  <2>1. held' = held /\ call' = call /\ held[u] = <<>>
    BY <1>3, <1>8 DEF Open, FailToOpen, Opens
  <2>2. agent' = [agent EXCEPT ![u] = agent'[u]]
    BY <1>2, <1>8 DEF Open, FailToOpen
  <2>. QED
    BY <1>1, <1>2, <1>3, <1>5, <2>1, <2>2, IdFrame
<1>9. ASSUME NEW u \in User, EnsureSession(u) \/ Close(u) PROVE IdInv'
  <2>1. Closed(u) \/ (held' = held /\ agent' = agent /\ call' = call)
    BY <1>9 DEF EnsureSession, Close
  <2>. QED
    BY <1>1, <1>3, <1>6, <2>1, IdFrame DEF IdInv
<1>10. ASSUME NEW u \in User, Restore(u) PROVE IdInv'
  <2>. DEFINE s == agent[u].session
              rows == RowsOf(s)
  <2>1. /\ call' = call /\ messages' = messages /\ call[u] = Idle
        /\ held' = held \/ held' = [held EXCEPT ![u] = LoadMessages(s)]
        /\ \/ agent' = [agent EXCEPT ![u].info = sessions[s], ![u].history = "restored"]
           \/ agent' = [agent EXCEPT ![u].history = "new"]
    BY <1>10 DEF Restore, LoadSession, fileVars, TypeInv, CallInv
  <2>2. agent' = [agent EXCEPT ![u] = agent'[u]] /\ agent'[u].session = s
    <3>1. CASE agent' = [agent EXCEPT ![u].history = "new"]
      BY <1>2, <3>1 DEF AgentRecords
    <3>2. CASE agent' = [agent EXCEPT ![u].info = sessions[s], ![u].history = "restored"]
      BY <1>2, <3>2 DEF AgentRecords
    <3>. QED
      BY <2>1, <3>1, <3>2
  <2>3. CASE held' = held
    BY <1>1, <1>2, <1>3, <1>5, <2>1, <2>2, <2>3, IdFrame
  <2>4. CASE held' = [held EXCEPT ![u] = LoadMessages(s)]
    <3>1. \A i \in 1 .. Len(rows) :
             rows[i] \in 1 .. Len(messages) /\ messages[rows[i]].session = s
      BY <1>2, RowsAreOfTheSession
    <3>2. held'[u] = [i \in 1 .. Len(rows) |->
                         [no |-> messages[rows[i]].no,
                          version |-> messages[rows[i]].version, id |-> rows[i]]]
      BY <1>2, <2>4 DEF LoadMessages
    <3>. HIDE DEF rows, s
    <3>3. ASSUME NEW i \in DOMAIN held'[u] PROVE Names(u, i, held[u][i].id)'
      BY <2>1, <2>2, <3>1, <3>2, <3>3 DEF Names
    <3>4. IdOf(u)'
      BY <2>1, <3>3 DEF IdOf, Idle
    <3>. QED
      BY <1>2, <1>5, <2>1, <2>2, <2>4, <3>4
  <2>. QED
    BY <2>1, <2>3, <2>4
<1>11. ASSUME NEW u \in User, Write(u) PROVE IdInv'
  <2>. DEFINE msg == [no |-> created', version |-> 0, id |-> 0]
              n == Len(held[u]) + 1
  <2>1. /\ held' = [held EXCEPT ![u] = Append(held[u], msg)]
        /\ call' = [call EXCEPT ![u] = [op |-> "insert", i |-> n, tool |-> NoTool, row |-> 0]]
        /\ agent' = agent /\ messages' = messages
    BY <1>11 DEF Write, Persist, fileVars
  <2>2. /\ held[u] \in Seq(HeldMessages) /\ n \in Nat
        /\ held'[u] = Append(held[u], msg)
        /\ call'[u].op = "insert" /\ call'[u].i = n
    BY <1>2, <2>1
  <2>3. /\ held'[u][n] = msg /\ msg.id = 0
        /\ \A i \in DOMAIN held'[u] : i # n => i \in DOMAIN held[u] /\ held'[u][i] = held[u][i]
    BY <2>2
  <2>4. ASSUME NEW i \in DOMAIN held'[u], held'[u][i].id # 0
        PROVE  Names(u, i, held[u][i].id)'
    <3>. HIDE DEF msg, n
    <3>. QED
      BY <1>3, <2>1, <2>3, <2>4 DEF IdOf, Names
  <2>5. IdOf(u)'
    <3>. HIDE DEF msg, n
    <3>. QED
      BY <2>2, <2>3, <2>4 DEF IdOf, Subject
  <2>. QED
    BY <1>2, <1>5, <2>1, <2>5
<1>12. ASSUME NEW u \in User, WriteAgain(u) PROVE IdInv'
  <2>1. PICK i \in DOMAIN held[u] :
           /\ held' = IF held[u][i].id = 0 THEN held ELSE [held EXCEPT ![u][i].version = 1]
           /\ Persist(u, i, held[u][i])
    BY <1>12 DEF WriteAgain
  <2>2. agent' = agent /\ messages' = messages
    BY <1>12 DEF WriteAgain, fileVars
  <2>3. held[u] \in Seq(HeldMessages) /\ held[u][i] \in HeldMessages
    BY <1>2
  <2>4. /\ DOMAIN held'[u] = DOMAIN held[u]
        /\ \A j \in DOMAIN held[u] : held'[u][j].id = held[u][j].id /\ held'[u][j].no = held[u][j].no
        /\ held' = [held EXCEPT ![u] = held'[u]]
    <3>1. CASE held' = held
      BY <1>2, <3>1
    <3>2. CASE held' = [held EXCEPT ![u][i].version = 1]
      <4>. DEFINE new == [held[u] EXCEPT ![i] = [held[u][i] EXCEPT !.version = 1]]
      <4>1. held' = [held EXCEPT ![u] = new]
        BY <3>2
      <4>2. DOMAIN new = DOMAIN held[u]
        OBVIOUS
      <4>3. \A j \in DOMAIN held[u] : new[j].id = held[u][j].id /\ new[j].no = held[u][j].no
        BY <2>3 DEF HeldMessages
      <4>. HIDE DEF new
      <4>. QED
        BY <1>2, <4>1, <4>2, <4>3
    <3>. QED
      BY <2>1, <3>1, <3>2
  <2>5. /\ call'[u].i = i /\ call'[u].op = IF held[u][i].id > 0 THEN "check" ELSE "insert"
        /\ call' = [call EXCEPT ![u] = call'[u]]
    BY <1>2, <2>1 DEF Persist
  <2>6. held[u][i].id \in Nat
    BY <2>3 DEF HeldMessages
  <2>7. IdOf(u)'
    BY <1>3, <2>2, <2>4, <2>5, <2>6 DEF IdOf, Names, Subject
  <2>. QED
    BY <1>2, <1>5, <2>2, <2>4, <2>5, <2>7
<1>13. ASSUME NEW u \in User, CheckMessage(u) PROVE IdInv'
  <2>1. /\ held' = held /\ agent' = agent /\ messages' = messages
        /\ call[u].op = "check" /\ Subject(u).id # 0 /\ call[u].i \in DOMAIN held[u]
    BY <1>3, <1>13 DEF CheckMessage, In, fileVars, IdOf, TypeInv, CallInv, MessageOps
  <2>2. Subject(u).id \in DOMAIN messages
    BY <1>2, <1>3, <2>1 DEF IdOf, Names, Subject
  <2>3. CASE Return(u)
    BY <1>2, <1>7, <2>1, <2>3 DEF Return, Idle, MessageOps
  <2>4. CASE Enter(u, "update")
    <3>1. call'[u] = [call[u] EXCEPT !.op = "update"] /\ call' = [call EXCEPT ![u] = call'[u]]
      BY <1>2, <2>4 DEF Enter
    <3>2. call'[u].op = "update" /\ call'[u].i = call[u].i
      BY <1>2, <3>1 DEF CallRecords
    <3>3. IdOf(u)'
      BY <1>3, <2>1, <3>2 DEF IdOf, Names, Subject
    <3>. QED
      BY <1>2, <1>5, <2>1, <3>1, <3>3
  <2>. QED
    BY <1>13, <2>2, <2>3, <2>4 DEF CheckMessage
<1>14. ASSUME NEW u \in User, InsertMessage(u) PROVE IdInv'
  <2>1. /\ held' = held /\ agent' = agent
        /\ call[u].op = "insert" /\ Subject(u).id = 0
        /\ call[u].i \in DOMAIN held[u] /\ Row(u) \in MessageRows
    BY <1>3, <1>14, SubjectType DEF InsertMessage, In, Ready, IdOf, MessageOps
  <2>2. CASE Return(u)
    BY <1>2, <1>7, <2>1, <2>2 DEF Return, Idle, MessageOps
  <2>3. CASE /\ messages' = Append(messages, Row(u))
             /\ call' = [call EXCEPT ![u].op = "return", ![u].row = Len(messages')]
    <3>1. /\ call' = [call EXCEPT ![u] = call'[u]]
          /\ call'[u] = [call[u] EXCEPT !.op = "return", !.row = Len(messages')]
      BY <1>2, <2>3
    <3>2. call'[u].op = "return" /\ call'[u].i = call[u].i /\ call'[u].row = Len(messages')
      BY <1>2, <3>1 DEF CallRecords
    <3>3. /\ Len(messages') \in 1 .. Len(messages')
          /\ messages'[Len(messages')] = Row(u)
      BY <1>2, <2>1, <2>3
    <3>4. Names(u, call[u].i, Len(messages))'
      BY <2>1, <3>2, <3>3 DEF Names, Row, Subject
    <3>5. ASSUME NEW i \in DOMAIN held[u], held[u][i].id # 0
          PROVE  Names(u, i, held[u][i].id)'
      BY <1>1, <1>3, <2>1, <3>5 DEF IdOf, Names, Kept
    <3>6. IdOf(u)'
      BY <2>1, <3>2, <3>4, <3>5 DEF IdOf, Subject
    <3>. QED
      BY <1>2, <1>5, <2>1, <3>1, <3>6
  <2>. QED
    BY <1>14, <2>2, <2>3 DEF InsertMessage
<1>15. ASSUME NEW u \in User, ReturnId(u) PROVE IdInv'
  <2>. DEFINE i == call[u].i
              row == call[u].row
              new == [held[u] EXCEPT ![i] = [held[u][i] EXCEPT !.id = row]]
  <2>1. /\ held' = [held EXCEPT ![u] = new] /\ call' = [call EXCEPT ![u] = Idle]
        /\ agent' = agent /\ messages' = messages
        /\ call[u].op = "return" /\ i \in DOMAIN held[u]
        /\ Names(u, i, row)
    BY <1>3, <1>15 DEF ReturnId, Return, In, fileVars, IdOf, TypeInv, CallInv, MessageOps
  <2>2. held[u] \in Seq(HeldMessages) /\ held[u][i] \in HeldMessages
    BY <1>2, <2>1
  <2>3. /\ DOMAIN new = DOMAIN held[u]
        /\ new[i].id = row /\ new[i].no = held[u][i].no
        /\ \A j \in DOMAIN held[u] : j # i => new[j] = held[u][j]
    BY <2>1, <2>2 DEF HeldMessages
  <2>. HIDE DEF new
  <2>4. held'[u] = new /\ call'[u] = Idle
    BY <1>2, <2>1
  <2>5. IdOf(u)'
    BY <1>3, <2>1, <2>3, <2>4 DEF IdOf, Names, Idle
  <2>. QED
    BY <1>2, <1>5, <2>1, <2>4, <2>5
<1>16. ASSUME NEW u \in User, UpdateMessage(u) \/ InsertToolInvocation(u)
       PROVE  IdInv'
  <2>1. held' = held /\ agent' = agent /\ call' = [call EXCEPT ![u] = Idle]
    BY <1>16 DEF UpdateMessage, InsertToolInvocation, Return
  <2>2. call'[u] = Idle /\ Idle.op \notin MessageOps
    BY <1>2, <2>1 DEF Idle, MessageOps
  <2>. QED
    BY <1>2, <1>7, <2>1, <2>2
<1>17. ASSUME NEW u \in User, BeginInvocation(u) \/ EnsureTool(u) PROVE IdInv'
  <2>1. held' = held /\ agent' = agent /\ call' = [call EXCEPT ![u] = call'[u]]
    BY <1>2, <1>17 DEF BeginInvocation, EnsureTool, Enter, Return
  <2>2. call'[u].op \notin MessageOps
    <3>1. CASE BeginInvocation(u)
      BY <1>2, <3>1 DEF BeginInvocation, MessageOps, CallRecords
    <3>2. CASE EnsureTool(u)
      <4>1. Enter(u, "invocation") \/ Return(u)
        BY <3>2 DEF EnsureTool
      <4>. QED
        BY <4>1, CallSteps DEF Ops, MessageOps
    <3>. QED
      BY <1>17, <3>1, <3>2
  <2>. QED
    BY <1>7, <2>1, <2>2
<1>18. ASSUME NEW u \in User, FailToPrepareInvocation(u) \/ InsertPromptLog(u)
       PROVE  IdInv'
  <2>1. held' = held /\ agent' = agent /\ call' = call
    BY <1>18 DEF FailToPrepareInvocation, InsertPromptLog
  <2>. QED
    BY <1>1, <1>3, <2>1, IdFrame DEF IdInv
<1>. QED
  BY <1>4, <1>8, <1>9, <1>10, <1>11, <1>12, <1>13, <1>14, <1>15, <1>16, <1>17, <1>18
     DEF Next

LEMMA IdInvariant == Spec => []IdInv
<1>1. Init => IdInv
  <2>1. ASSUME Init PROVE held = [u \in User |-> <<>>] /\ call = [u \in User |-> Idle]
    BY <2>1, Zenon DEF Init
  <2>2. DOMAIN <<>> = {}
    OBVIOUS
  <2>. QED
    BY <2>1, <2>2 DEF IdInv, IdOf, Idle
<1>. QED
  BY <1>1, TypeInvariant, StepIdInv, PTL DEF Spec

(***************************************************************************)
(* The id a message holds is that of its own row, in its own session.      *)
(***************************************************************************)
THEOREM IdsName == Spec => []IdNamesItsMessage
<1>1. TypeInv /\ IdInv => IdNamesItsMessage
  BY DEF IdInv, IdOf, Names, IdNamesItsMessage, TypeInv, TypeOK, FileType
<1>. QED
  BY <1>1, TypeInvariant, IdInvariant, PTL
-----------------------------------------------------------------------------
(***************************************************************************)
(* The refinement.  Of one agent's step the others hold what they held.    *)
(***************************************************************************)
LEMMA OthersHold ==
    ASSUME TypeInv, NEW u \in User, held' = [held EXCEPT ![u] = held'[u]],
           call' = [call EXCEPT ![u] = call'[u]]
    PROVE  HeldAfterReturn' = [HeldAfterReturn EXCEPT ![u] = HeldAfterReturn'[u]]
<1>1. /\ held \in [User -> Seq(HeldMessages)] /\ call \in [User -> CallRecords]
  BY DEF TypeInv, TypeOK, ConnectionType, CallRecords
<1>2. \A v \in User : v # u => held'[v] = held[v] /\ call'[v] = call[v]
  BY <1>1
<1>3. \A v \in User : v # u => HeldAfterReturn'[v] = HeldAfterReturn[v]
  BY <1>2 DEF HeldAfterReturn
<1>. QED
  BY <1>3 DEF HeldAfterReturn

\* Nothing is held otherwise while no call returns an id.
LEMMA HeldWithoutReturn ==
    ASSUME NEW u \in User
    PROVE  /\ call[u].op # "return" => HeldAfterReturn[u] = held[u]
           /\ call'[u].op # "return" => HeldAfterReturn'[u] = held'[u]
BY DEF HeldAfterReturn

LEMMA Stutters ==
    ASSUME TypeInv, NEW u \in User, messages' = messages, held' = held,
           call' = [call EXCEPT ![u] = call'[u]],
           call[u].op # "return", call'[u].op # "return"
    PROVE  UNCHANGED Log!vars
<1>1. HeldAfterReturn'[u] = HeldAfterReturn[u]
  BY HeldWithoutReturn
<1>2. held' = [held EXCEPT ![u] = held'[u]]
  BY DEF TypeInv, TypeOK, ConnectionType
<1>3. HeldAfterReturn' = HeldAfterReturn
  <2>1. HeldAfterReturn' = [HeldAfterReturn EXCEPT ![u] = HeldAfterReturn'[u]]
    BY <1>2, OthersHold
  <2>2. HeldAfterReturn = [v \in User |-> HeldAfterReturn[v]]
    BY DEF HeldAfterReturn
  <2>. QED
    BY <1>1, <2>1, <2>2
<1>. QED
  BY <1>3 DEF Log!vars

LEMMA StepRefines == TypeInv /\ IdInv /\ [Next]_vars => [Log!Next]_(Log!vars)
<1>. SUFFICES ASSUME TypeInv, IdInv, [Next]_vars PROVE Log!Next \/ UNCHANGED Log!vars
  OBVIOUS
<1>1. /\ conn \in [User -> {"closed", "opened", "restoring", "ready"}]
      /\ held \in [User -> Seq(HeldMessages)]
      /\ call \in [User -> CallRecords]
      /\ messages \in Seq(MessageRows)
  BY DEF TypeInv, TypeOK, ConnectionType, FileType, CallRecords
<1>2. \A u \in User : /\ conn[u] # "ready" => call[u] = Idle /\ held[u] = <<>>
                      /\ call[u].op \in MessageOps => call[u].i \in DOMAIN held[u]
  BY DEF TypeInv, CallInv
<1>3. CASE UNCHANGED vars
  BY <1>3 DEF vars, fileVars, HeldAfterReturn, Log!vars
<1>4. ASSUME NEW u \in User, Closed(u), messages' = messages PROVE Log!Next
  <2>1. /\ held' = [held EXCEPT ![u] = <<>>] /\ call' = [call EXCEPT ![u] = Idle]
        /\ held'[u] = <<>> /\ call'[u] = Idle
    BY <1>1, <1>4 DEF Closed
  <2>2. HeldAfterReturn'[u] = <<>>
    BY <2>1, HeldWithoutReturn DEF Idle
  <2>3. HeldAfterReturn' = [HeldAfterReturn EXCEPT ![u] = <<>>]
    BY <2>1, <2>2, OthersHold
  <2>. QED
    BY <1>4, <2>3 DEF Log!Next, Log!Leave
<1>5. ASSUME NEW u \in User, held' = held, messages' = messages,
             call' = call \/ call' = [call EXCEPT ![u] = Idle], call[u].op # "return"
      PROVE  UNCHANGED Log!vars
  <2>1. call' = [call EXCEPT ![u] = call'[u]] /\ call'[u].op # "return"
    BY <1>1, <1>5 DEF Idle
  <2>. QED
    BY <1>5, <2>1, Stutters
<1>6. ASSUME NEW u \in User, Open(u) \/ FailToOpen(u) PROVE UNCHANGED Log!vars
  BY <1>2, <1>5, <1>6 DEF Open, FailToOpen, Opens, Idle
<1>7. ASSUME NEW u \in User, EnsureSession(u) \/ Close(u) PROVE Log!Next \/ UNCHANGED Log!vars
  <2>1. /\ messages' = messages
        /\ Closed(u) \/ (held' = held /\ call' = call /\ conn[u] = "opened")
    BY <1>7 DEF EnsureSession, Close, fileVars
  <2>. QED
    BY <1>2, <1>4, <1>5, <2>1 DEF Idle
<1>8. ASSUME NEW u \in User, Restore(u) PROVE Log!Next \/ UNCHANGED Log!vars
  <2>. DEFINE s == agent[u].session
  <2>1. /\ call' = call /\ messages' = messages /\ call[u] = Idle /\ s \in Session
        /\ held' = held \/ held' = [held EXCEPT ![u] = LoadMessages(s)]
    BY <1>2, <1>8 DEF Restore, fileVars, TypeInv, TypeOK, ConnectionType
  <2>2. CASE held' = held
    BY <1>5, <2>1, <2>2 DEF Idle
  <2>3. CASE held' = [held EXCEPT ![u] = LoadMessages(s)]
    <3>. HIDE DEF s
    <3>1. /\ held'[u] = LoadMessages(s) /\ held' = [held EXCEPT ![u] = held'[u]]
          /\ call' = [call EXCEPT ![u] = call'[u]]
      BY <1>1, <2>1, <2>3
    <3>2. HeldAfterReturn' = [HeldAfterReturn EXCEPT ![u] = LoadMessages(s)]
      BY <2>1, <3>1, OthersHold, HeldWithoutReturn DEF Idle
    <3>3. Log!NumbersOf(s) = RowsOf(s)
      <4>1. ASSUME NEW S PROVE Log!Ascending(S) = Ascending(S)
        BY Zenon DEF Log!Ascending, Ascending, Log!Cardinality, Cardinality
      <4>. QED
        BY <4>1 DEF Log!NumbersOf, RowsOf
    <3>4. LoadMessages(s) =
             [i \in 1 .. Len(Log!NumbersOf(s)) |->
                 [no |-> messages[Log!NumbersOf(s)[i]].no,
                  version |-> messages[Log!NumbersOf(s)[i]].version,
                  id |-> Log!NumbersOf(s)[i]]]
      BY <3>3 DEF LoadMessages
    <3>. QED
      BY <2>1, <3>2, <3>4 DEF Log!Next, Log!Resume
  <2>. QED
    BY <2>1, <2>2, <2>3
<1>9. ASSUME NEW u \in User, Write(u) PROVE Log!Next
  <2>. DEFINE msg == [no |-> created', version |-> 0, id |-> 0]
  <2>1. /\ held' = [held EXCEPT ![u] = Append(held[u], msg)] /\ messages' = messages
        /\ call' = [call EXCEPT ![u] = call'[u]]
        /\ call[u].op = "idle" /\ call'[u].op = "insert"
    BY <1>1, <1>9 DEF Write, Persist, In, fileVars
  <2>2. held'[u] = Append(held[u], msg) /\ held' = [held EXCEPT ![u] = held'[u]]
    BY <1>1, <2>1
  <2>3. HeldAfterReturn' = [HeldAfterReturn EXCEPT ![u] = Append(HeldAfterReturn[u], msg)]
    <3>1. HeldAfterReturn[u] = held[u] /\ HeldAfterReturn'[u] = held'[u]
      BY <2>1, HeldWithoutReturn
    <3>. QED
      BY <2>1, <2>2, <3>1, OthersHold
  <2>4. created' \in 1 .. MaxMessages
    BY <1>9, BrainStoreAssumption DEF Write, TypeInv, TypeOK, LedgerType
  <2>. QED
    BY <2>1, <2>3, <2>4 DEF Log!Next, Log!Write
<1>10. ASSUME NEW u \in User, WriteAgain(u) PROVE Log!Next \/ UNCHANGED Log!vars
  <2>1. PICK i \in DOMAIN held[u] :
           /\ held' = IF held[u][i].id = 0 THEN held ELSE [held EXCEPT ![u][i].version = 1]
           /\ Persist(u, i, held[u][i])
    BY <1>10 DEF WriteAgain
  <2>2. /\ messages' = messages /\ call' = [call EXCEPT ![u] = call'[u]]
        /\ call[u].op = "idle" /\ call'[u].op # "return"
    BY <1>1, <1>10, <2>1 DEF WriteAgain, Persist, In, fileVars
  <2>3. CASE held' = held
    BY <2>2, <2>3, Stutters
  <2>4. CASE held' = [held EXCEPT ![u][i].version = 1]
    <3>. DEFINE new == [held[u] EXCEPT ![i].version = 1]
    <3>1. held' = [held EXCEPT ![u] = new]
      BY <2>4
    <3>2. HeldAfterReturn[u] = held[u] /\ HeldAfterReturn'[u] = held'[u]
      BY <2>2, HeldWithoutReturn
    <3>3. held'[u] = new /\ held' = [held EXCEPT ![u] = held'[u]]
      <4>. HIDE DEF new
      <4>. QED
        BY <1>1, <3>1
    <3>4. HeldAfterReturn' = [HeldAfterReturn EXCEPT ![u] = held'[u]]
      BY <2>2, <3>2, <3>3, OthersHold
    <3>5. HeldAfterReturn' = [HeldAfterReturn EXCEPT ![u][i].version = 1]
      BY <3>2, <3>3, <3>4
    <3>. QED
      BY <2>2, <3>2, <3>5 DEF Log!Next, Log!Revise
  <2>. QED
    BY <2>1, <2>3, <2>4
<1>11. ASSUME NEW u \in User, CheckMessage(u) PROVE UNCHANGED Log!vars
  <2>1. /\ held' = held /\ messages' = messages /\ call[u].op = "check"
        /\ Enter(u, "update") \/ Enter(u, "insert") \/ Return(u)
    BY <1>11 DEF CheckMessage, In, fileVars
  <2>2. call' = [call EXCEPT ![u] = call'[u]]
    BY <1>1, <2>1 DEF Enter, Return
  <2>3. call'[u].op # "return"
    BY <2>1, CallSteps DEF Ops
  <2>. QED
    BY <2>1, <2>2, <2>3, Stutters
<1>12. ASSUME NEW u \in User, UpdateMessage(u) PROVE Log!Next \/ UNCHANGED Log!vars
  <2>. DEFINE i == call[u].i
  <2>1. /\ held' = held /\ call' = [call EXCEPT ![u] = Idle]
        /\ call[u].op = "update" /\ i \in DOMAIN held[u]
        /\ held[u][i] \in HeldMessages /\ Row(u) \in MessageRows
        /\ Names(u, i, Subject(u).id)
    BY <1>12, <1>2, SubjectType
       DEF UpdateMessage, In, Ready, Return, IdInv, IdOf, Subject, MessageOps
  <2>2. CASE messages' = messages
    BY <1>5, <2>1, <2>2
  <2>3. CASE messages' = [messages EXCEPT ![Subject(u).id] = Row(u)]
    <3>. DEFINE id == held[u][i].id
    <3>1. /\ id \in 1 .. Len(messages) /\ id \in DOMAIN messages
          /\ messages[id] \in MessageRows
          /\ messages[id].no = held[u][i].no /\ messages[id].session = agent[u].session
      BY <1>1, <2>1 DEF Names, Subject
    <3>2. [messages[id] EXCEPT !.version = held[u][i].version] = Row(u)
      BY <3>1 DEF Row, Subject, MessageRows
    <3>3. messages' = [messages EXCEPT ![id].version = held[u][i].version]
      BY <2>3, <3>2 DEF Subject
    <3>4. HeldAfterReturn[u] = held[u]
      BY <2>1, HeldWithoutReturn
    <3>5. HeldAfterReturn' = HeldAfterReturn
      <4>1. held' = [held EXCEPT ![u] = held'[u]] /\ call' = [call EXCEPT ![u] = call'[u]]
            /\ call'[u].op # "return"
        BY <1>1, <2>1 DEF Idle
      <4>2. HeldAfterReturn'[u] = held'[u]
        BY <4>1, HeldWithoutReturn
      <4>3. HeldAfterReturn' = [HeldAfterReturn EXCEPT ![u] = HeldAfterReturn'[u]]
        BY <4>1, OthersHold
      <4>4. HeldAfterReturn = [v \in User |-> HeldAfterReturn[v]]
        BY DEF HeldAfterReturn
      <4>. QED
        BY <2>1, <3>4, <4>2, <4>3, <4>4
    <3>. QED
      BY <2>1, <3>1, <3>3, <3>4, <3>5 DEF Log!Next, Log!StoreRevised
  <2>. QED
    BY <1>12, <2>2, <2>3 DEF UpdateMessage
<1>13. ASSUME NEW u \in User, InsertMessage(u) PROVE Log!Next \/ UNCHANGED Log!vars
  <2>. DEFINE i == call[u].i
              row == Len(messages) + 1
  <2>1. /\ held' = held /\ call[u].op = "insert" /\ i \in DOMAIN held[u]
        /\ held[u] \in Seq(HeldMessages) /\ held[u][i] \in HeldMessages
        /\ held[u][i].id = 0 /\ agent[u].session \in Session
    BY <1>13, <1>1, SubjectType
       DEF InsertMessage, In, Ready, IdInv, IdOf, Subject, MessageOps
  <2>2. CASE messages' = messages /\ call' = [call EXCEPT ![u] = Idle]
    BY <1>5, <2>1, <2>2
  <2>3. CASE /\ messages' = Append(messages, Row(u))
             /\ call' = [call EXCEPT ![u].op = "return", ![u].row = Len(messages')]
    <3>1. Len(messages') = row
      BY <1>1, <2>3
    <3>2. /\ call' = [call EXCEPT ![u] = call'[u]]
          /\ call'[u].op = "return" /\ call'[u].i = i /\ call'[u].row = row
      <4>1. call' = [call EXCEPT ![u] = [call[u] EXCEPT !.op = "return", !.row = Len(messages')]]
        BY <2>3
      <4>. QED
        BY <1>1, <3>1, <4>1 DEF CallRecords
    <3>3. HeldAfterReturn[u] = held[u]
      BY <2>1, HeldWithoutReturn
    <3>4. HeldAfterReturn'[u] = [held[u] EXCEPT ![i].id = row]
      BY <2>1, <3>2 DEF HeldAfterReturn
    <3>5. HeldAfterReturn' = [HeldAfterReturn EXCEPT ![u] = HeldAfterReturn'[u]]
      <4>1. held' = [held EXCEPT ![u] = held'[u]]
        BY <1>1, <2>1
      <4>. QED
        BY <3>2, <4>1, OthersHold
    <3>6. HeldAfterReturn' = [HeldAfterReturn EXCEPT ![u][i].id = row]
      BY <3>3, <3>4, <3>5
    <3>7. Row(u) = [session |-> agent[u].session, no |-> HeldAfterReturn[u][i].no,
                    version |-> HeldAfterReturn[u][i].version]
      BY <3>3 DEF Row, Subject
    <3>. HIDE DEF i
    <3>. QED
      BY <2>1, <2>3, <3>3, <3>6, <3>7 DEF Log!Next, Log!Store
  <2>. QED
    BY <1>13, <2>2, <2>3 DEF InsertMessage, Return
<1>14. ASSUME NEW u \in User, ReturnId(u) PROVE UNCHANGED Log!vars
  <2>. DEFINE new == [held[u] EXCEPT ![call[u].i].id = call[u].row]
  <2>1. /\ held' = [held EXCEPT ![u] = new] /\ call' = [call EXCEPT ![u] = Idle]
        /\ messages' = messages /\ call[u].op = "return"
    BY <1>14 DEF ReturnId, Return, In, fileVars
  <2>2. HeldAfterReturn[u] = new
    BY <2>1 DEF HeldAfterReturn
  <2>. HIDE DEF new
  <2>3. /\ held'[u] = new /\ held' = [held EXCEPT ![u] = held'[u]]
        /\ call'[u] = Idle /\ call' = [call EXCEPT ![u] = call'[u]]
    BY <1>1, <2>1
  <2>4. HeldAfterReturn'[u] = new
    BY <2>3, HeldWithoutReturn DEF Idle
  <2>5. HeldAfterReturn' = HeldAfterReturn
    <3>1. HeldAfterReturn' = [HeldAfterReturn EXCEPT ![u] = HeldAfterReturn'[u]]
      BY <2>3, OthersHold
    <3>2. HeldAfterReturn = [v \in User |-> HeldAfterReturn[v]]
      BY DEF HeldAfterReturn
    <3>. QED
      BY <2>2, <2>4, <3>1, <3>2
  <2>. QED
    BY <2>1, <2>5 DEF Log!vars
<1>15. ASSUME NEW u \in User, BeginInvocation(u) \/ EnsureTool(u) PROVE UNCHANGED Log!vars
  <2>1. /\ held' = held /\ messages' = messages /\ call[u].op # "return"
        /\ call' = [call EXCEPT ![u] = call'[u]]
    BY <1>1, <1>15 DEF BeginInvocation, EnsureTool, Enter, Return, In, fileVars
  <2>2. call'[u].op # "return"
    <3>1. CASE BeginInvocation(u)
      BY <1>1, <3>1 DEF BeginInvocation, CallRecords
    <3>2. CASE EnsureTool(u)
      <4>1. Enter(u, "invocation") \/ Return(u)
        BY <3>2 DEF EnsureTool
      <4>. QED
        BY <4>1, CallSteps DEF Ops
    <3>. QED
      BY <1>15, <3>1, <3>2
  <2>. QED
    BY <2>1, <2>2, Stutters
<1>16. ASSUME NEW u \in User,
              InsertToolInvocation(u) \/ FailToPrepareInvocation(u) \/ InsertPromptLog(u)
       PROVE  UNCHANGED Log!vars
  <2>1. /\ held' = held /\ messages' = messages /\ call[u].op # "return"
        /\ call' = call \/ call' = [call EXCEPT ![u] = Idle]
    BY <1>16 DEF InsertToolInvocation, FailToPrepareInvocation, InsertPromptLog,
       In, Return, fileVars
  <2>. QED
    BY <1>5, <2>1
<1>. QED
  BY <1>3, <1>6, <1>7, <1>8, <1>9, <1>10, <1>11, <1>12, <1>13, <1>14, <1>15, <1>16
     DEF Next

(***************************************************************************)
(* The store implements the session log: whatever interleaves, fails or    *)
(* dies, what its users and its file show is one message stored, revised,  *)
(* resumed or left at a time.                                              *)
(***************************************************************************)
THEOREM Refines == Spec => ImplementsSessionLog
<1>1. Init => Log!Init
  <2>1. ASSUME Init
        PROVE  /\ held = [u \in User |-> <<>>] /\ call = [u \in User |-> Idle]
               /\ messages = <<>>
    BY <2>1, Zenon DEF Init
  <2>. QED
    BY <2>1 DEF Log!Init, HeldAfterReturn, Idle
<1>. QED
  BY <1>1, TypeInvariant, IdInvariant, StepRefines, PTL
     DEF Spec, ImplementsSessionLog, Log!Spec
=============================================================================
