----------------------------- MODULE BrainStore -----------------------------
(***************************************************************************)
(* The database of the agents: BrainStore (src/brain_store.cpp), the RAII  *)
(* layer under it (src/sqlite3raii.cpp), its schema                        *)
(* (include/db_schema_sql.hpp), and the constructor of Agent               *)
(* (src/agent.cpp:50-93) that opens it and resumes a session.              *)
(*                                                                         *)
(* Every agent has a connection of its own to one file.  Each statement    *)
(* commits by itself, so that between two statements of a call the other   *)
(* agents may write and the process may die.  A statement may fail, as it  *)
(* does while another connection holds the file.  SQLite is external: an   *)
(* INTEGER PRIMARY KEY AUTOINCREMENT is one more than the largest ever     *)
(* used, and a statement that fails changes nothing.                       *)
(***************************************************************************)
EXTENDS Naturals, Sequences, FiniteSets

CONSTANTS
    User,         \* agents; each has a connection while it is open
    Session,      \* session ids
    Model,        \* options.model
    Tool,         \* names of tools
    NoTool,       \* no tool
    MaxMessages,  \* bound: messages written
    MaxFailures,  \* bound: statements that fail
    MaxOpens      \* bound: connections opened

ASSUME BrainStoreAssumption ==
    /\ NoTool \notin Tool
    /\ MaxMessages \in Nat /\ MaxFailures \in Nat /\ MaxOpens \in Nat

VARIABLES
    (* The file. *)
    hasVec,       \* the vec0 extension is installed
    schema,       \* the objects created, and the tables the rows of each refer to
    sessions,     \* the model of each row of sessions
    tools,        \* the rows of tools
    messages,     \* the rows of messages; a row's place is its id
    (* The connections. *)
    conn,         \* "closed", or how far the constructor is
    agent,        \* options and session_info of the agent
    held,         \* Agent::history
    call,         \* the call of the store that is under way; row is what
                  \* sqlite3_last_insert_rowid answers when it is asked
    spoiled,      \* cached statements that have not been reset since they failed
    (* What is observed, of the connection. *)
    failed,       \* failures of cached statements, or of what precedes their steps
    lost,         \* calls that threw at a cached statement
    (* Bounds. *)
    created, failures, opens

fileVars == <<hasVec, schema, sessions, tools, messages>>
ledgerVars == <<spoiled, failed, lost, failures>>
vars == <<fileVars, conn, agent, held, call, ledgerVars, created, opens>>

Statements == {"check", "update", "message", "tool", "invocation", "prompt"}

NoAgent == [session |-> "", option |-> "", info |-> "", history |-> "new"]
Idle == [op |-> "idle", i |-> 0, tool |-> NoTool, row |-> 0]

Closed(u) ==
    /\ conn' = [conn EXCEPT ![u] = "closed"]
    /\ agent' = [agent EXCEPT ![u] = NoAgent]
    /\ held' = [held EXCEPT ![u] = <<>>]
    /\ call' = [call EXCEPT ![u] = Idle]
    /\ spoiled' = [spoiled EXCEPT ![u] = {}]
    /\ failed' = [failed EXCEPT ![u] = 0]
    /\ lost' = [lost EXCEPT ![u] = 0]

Init ==
    /\ hasVec \in BOOLEAN
    /\ schema = [o \in {} |-> {}]
    /\ sessions = [s \in {} |-> ""]
    /\ tools = {} /\ messages = <<>>
    /\ conn = [u \in User |-> "closed"]
    /\ agent = [u \in User |-> NoAgent]
    /\ held = [u \in User |-> <<>>]
    /\ call = [u \in User |-> Idle]
    /\ spoiled = [u \in User |-> {}]
    /\ failed = [u \in User |-> 0]
    /\ lost = [u \in User |-> 0]
    /\ created = 0 /\ failures = 0 /\ opens = 0
-----------------------------------------------------------------------------
(***************************************************************************)
(* The schema.  It is written twice: in the parts a store without vectors  *)
(* concatenates, and in one script for a store with them.  Every statement *)
(* is CREATE ... IF NOT EXISTS, so that of two scripts the first to create *)
(* an object decides what it is.  The statements run one by one: a script  *)
(* that fails leaves those before it done.                                 *)
(***************************************************************************)
CoreTables ==
    [sessions         |-> {},
     tasks            |-> {"tasks"},
     messages         |-> {"tasks", "sessions"},
     pointers         |-> {"tasks"},
     knowledge_graph  |-> {"pointers"},
     tools            |-> {},
     tool_invocations |-> {"tasks", "sessions", "tools"},
     execution_logs   |-> {"tasks", "sessions"},
     prompt_logs      |-> {"tasks", "sessions"}]

CoreOrder == <<"sessions", "tasks", "messages", "pointers", "knowledge_graph", "tools",
               "tool_invocations", "execution_logs", "prompt_logs">>

\* Mutant: a reference added to one of the two copies only.
FullTablesBehind == [CoreTables EXCEPT !.tool_invocations = {"tasks", "sessions"}]

FullTables ==
    [sessions           |-> {},
     tasks              |-> {"tasks"},
     messages           |-> {"tasks", "sessions"},
     pointers           |-> {"tasks"},
     knowledge_graph    |-> {"pointers"},
     tools              |-> {},
     tool_invocations   |-> {"tasks", "sessions", "tools"},
     execution_logs     |-> {"tasks", "sessions"},
     prompt_logs        |-> {"tasks", "sessions"},
     pointer_embeddings |-> {},
     embedding_records  |-> {"pointers"},
     embedding_indexes  |-> {}]

FullOrder == CoreOrder \o <<"pointer_embeddings", "embedding_records",
                            "embedding_indexes", "pointer_search_view">>

\* The view, the indexes and the triggers, which refer to no rows, follow the
\* tables.
Script(vectors) ==
    (IF vectors THEN FullOrder ELSE CoreOrder) \o <<"indexes", "triggers">>

References(vectors, object) ==
    LET tables == IF vectors THEN FullTables ELSE CoreTables
    IN  IF object \in DOMAIN tables THEN tables[object] ELSE {}

\* The schema after the first n statements of a script.
Create(vectors, n) ==
    LET made == {Script(vectors)[i] : i \in 1 .. n}
    IN  [o \in DOMAIN schema \cup made |->
            IF o \in DOMAIN schema THEN schema[o] ELSE References(vectors, o)]

\* vec0 makes the first table with vectors, which an installation without the
\* extension cannot create.
Reach(vectors) ==
    IF vectors /\ ~hasVec THEN Len(CoreOrder) ELSE Len(Script(vectors))

Opens(u) == conn[u] = "closed" /\ opens < MaxOpens /\ opens' = opens + 1

Open(u) ==
    /\ Opens(u)
    /\ \E vectors \in BOOLEAN, session \in Session, model \in Model,
          history \in {"new", "wanted"} :
        /\ Reach(vectors) = Len(Script(vectors))
        /\ schema' = Create(vectors, Len(Script(vectors)))
        /\ agent' = [agent EXCEPT ![u] =
               [session |-> session, option |-> model, info |-> model,
                history |-> history]]
    /\ conn' = [conn EXCEPT ![u] = "opened"]
    /\ UNCHANGED <<hasVec, sessions, tools, messages, held, call,
                   ledgerVars, created>>

FailToOpen(u) ==
    /\ Opens(u)
    /\ \E vectors \in BOOLEAN : \E n \in 0 .. Reach(vectors) :
        /\ n < Len(Script(vectors))
        /\ \/ failures < MaxFailures /\ failures' = failures + 1
           \/ n = Reach(vectors) /\ UNCHANGED failures
        /\ schema' = Create(vectors, n)
    /\ UNCHANGED <<hasVec, sessions, tools, messages, conn, agent,
                   held, call, spoiled, failed, lost, created>>
-----------------------------------------------------------------------------
(***************************************************************************)
(* The rest of the constructor: the session's row, and the history.        *)
(***************************************************************************)
SessionRows(u) == LET s == agent[u].session IN
    IF s \in DOMAIN sessions THEN sessions
    ELSE [t \in DOMAIN sessions \cup {s} |->
             IF t = s THEN agent[u].option ELSE sessions[t]]

\* INSERT OR IGNORE: the first to open a session decides its parameters.
EnsureSession(u) ==
    /\ conn[u] = "opened"
    /\ \/ /\ sessions' = SessionRows(u)
          /\ conn' = [conn EXCEPT ![u] = IF agent[u].history = "wanted" THEN "restoring" ELSE "ready"]
          /\ UNCHANGED <<agent, held, call, ledgerVars>>
       \/ /\ failures < MaxFailures /\ failures' = failures + 1
          /\ Closed(u)
          /\ UNCHANGED sessions
    /\ UNCHANGED <<hasVec, schema, tools, messages, created, opens>>

\* The ids of a session's messages, ORDER BY id ASC.
Ascending(S) ==
    CHOOSE f \in [1 .. Cardinality(S) -> S] : \A i, j \in DOMAIN f : i < j => f[i] < f[j]

RowsOf(s) == Ascending({i \in 1 .. Len(messages) : messages[i].session = s})

LoadMessages(s) ==
    LET ids == RowsOf(s)
    IN  [i \in 1 .. Len(ids) |->
            [no |-> messages[ids[i]].no, version |-> messages[ids[i]].version,
             id |-> ids[i]]]

LoadSession(u) == agent' = [agent EXCEPT ![u].info = sessions[agent[u].session],
                                         ![u].history = "restored"]

\* An error is caught, with what was read before it kept.
Restore(u) ==
    /\ conn[u] = "restoring"
    /\ conn' = [conn EXCEPT ![u] = "ready"]
    /\ \/ /\ LoadSession(u)
          /\ held' = [held EXCEPT ![u] = LoadMessages(agent[u].session)]
          /\ UNCHANGED failures
       \/ /\ failures < MaxFailures /\ failures' = failures + 1
          /\ LoadSession(u) \/ agent' = [agent EXCEPT ![u].history = "new"]
          /\ UNCHANGED held
    /\ UNCHANGED <<fileVars, call, spoiled, failed, lost, created, opens>>
-----------------------------------------------------------------------------
(***************************************************************************)
(* A cached statement is cleared, reset, bound, stepped.  sqlite3_reset    *)
(* returns the error of the last step, so that the use after a failed step *)
(* throws at its reset, which leaves the statement sound; preparing and    *)
(* binding may fail too, and leave it as it is.                            *)
(***************************************************************************)
Succeeds(u, s) == s \notin spoiled[u] /\ UNCHANGED ledgerVars

Fails(u) ==
    /\ failures < MaxFailures
    /\ failures' = failures + 1
    /\ failed' = [failed EXCEPT ![u] = @ + 1]

\* Mutant: bindings are cleared and the statement is stepped without a reset.
ThrowsUntilClosed(u, s) ==
    /\ lost' = [lost EXCEPT ![u] = @ + 1]
    /\ \/ s \in spoiled[u] /\ UNCHANGED <<spoiled, failed, failures>>
       \/ /\ s \notin spoiled[u]
          /\ Fails(u)
          /\ \/ spoiled' = [spoiled EXCEPT ![u] = @ \cup {s}]
             \/ UNCHANGED spoiled

Throws(u, s) ==
    /\ lost' = [lost EXCEPT ![u] = @ + 1]
    /\ \/ /\ s \in spoiled[u]
          /\ spoiled' = [spoiled EXCEPT ![u] = @ \ {s}]
          /\ UNCHANGED <<failed, failures>>
       \/ /\ s \notin spoiled[u]
          /\ Fails(u)
          /\ \/ spoiled' = [spoiled EXCEPT ![u] = @ \cup {s}]
             \/ UNCHANGED spoiled

Ready(u) == conn[u] = "ready"
In(u, op) == Ready(u) /\ call[u].op = op
Enter(u, op) == call' = [call EXCEPT ![u].op = op]
Return(u) == call' = [call EXCEPT ![u] = Idle]
-----------------------------------------------------------------------------
(***************************************************************************)
(* Messages.  insertMessage(Message &) looks for the row of a message that *)
(* has an id and updates it; any other message is inserted, and gets the   *)
(* id that the connection says it inserted last.                           *)
(***************************************************************************)
Persist(u, i, msg) ==
    call' = [call EXCEPT ![u] = [op |-> IF msg.id > 0 THEN "check" ELSE "insert",
                                 i |-> i, tool |-> NoTool, row |-> 0]]

\* add_to_history.
Write(u) ==
    /\ In(u, "idle")
    /\ created < MaxMessages
    /\ created' = created + 1
    /\ LET msg == [no |-> created', version |-> 0, id |-> 0]
       IN  /\ held' = [held EXCEPT ![u] = Append(@, msg)]
           /\ Persist(u, Len(held[u]) + 1, msg)
    /\ UNCHANGED <<fileVars, conn, agent, ledgerVars, opens>>

\* The caller changes a message it holds, or comes back to one whose write
\* failed, and persists it.
WriteAgain(u) ==
    /\ In(u, "idle")
    /\ \E i \in DOMAIN held[u] :
        /\ held' = IF held[u][i].id = 0 THEN held ELSE [held EXCEPT ![u][i].version = 1]
        /\ Persist(u, i, held[u][i])
    /\ UNCHANGED <<fileVars, conn, agent, ledgerVars, created, opens>>

Subject(u) == held[u][call[u].i]

Row(u) == [session |-> agent[u].session, no |-> Subject(u).no,
           version |-> Subject(u).version]

\* Mutant: a message that has an id is inserted once more.
CheckAndInsert(u) ==
    /\ In(u, "check")
    /\ \/ Succeeds(u, "check") /\ Enter(u, "insert")
       \/ Throws(u, "check") /\ Return(u)
    /\ UNCHANGED <<fileVars, conn, agent, held, created, opens>>

CheckMessage(u) ==
    /\ In(u, "check")
    /\ \/ /\ Succeeds(u, "check")
          /\ Enter(u, IF Subject(u).id \in DOMAIN messages THEN "update" ELSE "insert")
       \/ Throws(u, "check") /\ Return(u)
    /\ UNCHANGED <<fileVars, conn, agent, held, created, opens>>

UpdateMessage(u) ==
    /\ In(u, "update")
    /\ \/ /\ Succeeds(u, "update")
          /\ messages' = [messages EXCEPT ![Subject(u).id] = Row(u)]
       \/ Throws(u, "update") /\ UNCHANGED messages
    /\ Return(u)
    /\ UNCHANGED <<hasVec, schema, sessions, tools, conn, agent,
                   held, created, opens>>

InsertMessage(u) ==
    /\ In(u, "insert")
    /\ \/ /\ Succeeds(u, "message")
          /\ messages' = Append(messages, Row(u))
          /\ call' = [call EXCEPT ![u].op = "return", ![u].row = Len(messages')]
       \/ Throws(u, "message") /\ Return(u) /\ UNCHANGED messages
    /\ UNCHANGED <<hasVec, schema, sessions, tools, conn, agent,
                   held, created, opens>>

\* Mutant: SELECT MAX(id), which is another agent's row when it wrote since.
ReturnMaxId(u) ==
    /\ In(u, "return")
    /\ held' = [held EXCEPT ![u][call[u].i].id = Len(messages)]
    /\ Return(u)
    /\ UNCHANGED <<fileVars, conn, agent, ledgerVars, created, opens>>

ReturnId(u) ==
    /\ In(u, "return")
    /\ held' = [held EXCEPT ![u][call[u].i].id = call[u].row]
    /\ Return(u)
    /\ UNCHANGED <<fileVars, conn, agent, ledgerVars, created, opens>>
-----------------------------------------------------------------------------
(***************************************************************************)
(* Invocations, which refer to the session and to the tool, and the log of *)
(* prompts; the log of executions is written as the log of prompts is.     *)
(* No row of the three is read again by what is modelled: whether it was   *)
(* stored is what counts.                                                  *)
(***************************************************************************)
BeginInvocation(u) ==
    /\ In(u, "idle")
    /\ \E t \in Tool : call' = [call EXCEPT ![u].op = "tool", ![u].tool = t]
    /\ UNCHANGED <<fileVars, conn, agent, held, ledgerVars, created, opens>>

\* The statement is prepared before the tool is looked at.
FailToPrepareInvocation(u) ==
    /\ In(u, "idle")
    /\ "invocation" \notin spoiled[u]
    /\ Fails(u)
    /\ lost' = [lost EXCEPT ![u] = @ + 1]
    /\ UNCHANGED <<fileVars, conn, agent, held, call, spoiled, created, opens>>

\* Mutant: an error of ensureTool is swallowed.
EnsureToolOrGoOn(u) ==
    /\ In(u, "tool")
    /\ \/ Succeeds(u, "tool") /\ tools' = tools \cup {call[u].tool}
       \/ Throws(u, "tool") /\ UNCHANGED tools
    /\ Enter(u, "invocation")
    /\ UNCHANGED <<hasVec, schema, sessions, messages, conn, agent,
                   held, created, opens>>

EnsureTool(u) ==
    /\ In(u, "tool")
    /\ \/ /\ Succeeds(u, "tool")
          /\ tools' = tools \cup {call[u].tool}
          /\ Enter(u, "invocation")
       \/ Throws(u, "tool") /\ Return(u) /\ UNCHANGED tools
    /\ UNCHANGED <<hasVec, schema, sessions, messages, conn, agent,
                   held, created, opens>>

InsertToolInvocation(u) ==
    /\ In(u, "invocation")
    /\ Succeeds(u, "invocation") \/ Throws(u, "invocation")
    /\ Return(u)
    /\ UNCHANGED <<fileVars, conn, agent, held, created, opens>>

\* The request is made with the model of the options, and logged with that of
\* session_info.
RequestModel(u) == agent[u].option

InsertPromptLog(u) ==
    /\ In(u, "idle")
    /\ Succeeds(u, "prompt") \/ Throws(u, "prompt")
    /\ UNCHANGED <<fileVars, conn, agent, held, call, created, opens>>

\* The agent goes, or the process dies, wherever it is.
Close(u) ==
    /\ conn[u] # "closed"
    /\ Closed(u)
    /\ UNCHANGED <<fileVars, failures, created, opens>>
-----------------------------------------------------------------------------
Next ==
    \E u \in User :
        \/ Open(u) \/ FailToOpen(u) \/ EnsureSession(u) \/ Restore(u)
        \/ Write(u) \/ WriteAgain(u) \/ CheckMessage(u) \/ UpdateMessage(u)
        \/ InsertMessage(u) \/ ReturnId(u)
        \/ BeginInvocation(u) \/ FailToPrepareInvocation(u) \/ EnsureTool(u)
        \/ InsertToolInvocation(u) \/ InsertPromptLog(u) \/ Close(u)

Spec == Init /\ [][Next]_vars
-----------------------------------------------------------------------------
Ops == {"idle", "check", "update", "insert", "return", "tool", "invocation"}

HeldMessages == [no : 1 .. MaxMessages, version : {0, 1}, id : Nat]
MessageRows == [session : Session, no : 1 .. MaxMessages, version : {0, 1}]

FileType ==
    /\ hasVec \in BOOLEAN
    /\ DOMAIN sessions \subseteq Session
    /\ \A s \in DOMAIN sessions : sessions[s] \in Model
    /\ tools \subseteq Tool
    /\ messages \in Seq(MessageRows)

ConnectionType ==
    /\ conn \in [User -> {"closed", "opened", "restoring", "ready"}]
    /\ held \in [User -> Seq(HeldMessages)]
    /\ call \in [User -> [op : Ops, i : Nat, tool : Tool \cup {NoTool}, row : Nat]]
    /\ \A u \in User :
          conn[u] # "closed" =>
              agent[u] \in [session : Session, option : Model, info : Model,
                            history : {"new", "wanted", "restored"}]

LedgerType ==
    /\ spoiled \in [User -> SUBSET Statements]
    /\ failed \in [User -> Nat]
    /\ lost \in [User -> Nat]
    /\ created \in 0 .. MaxMessages /\ failures \in 0 .. MaxFailures
    /\ opens \in 0 .. MaxOpens

TypeOK == FileType /\ ConnectionType /\ LedgerType

(***************************************************************************)
(* An id names its message for good: whatever other agents write between   *)
(* the insert and the question for its id, whatever fails and whoever      *)
(* resumes the session, the row with the id a message holds is that        *)
(* message's, in its session (lines 163-246, 275-304).                     *)
(***************************************************************************)
IdNamesItsMessage ==
    \A u \in User : \A i \in DOMAIN held[u] :
        LET msg == held[u][i]
        IN  msg.id # 0 =>
                /\ msg.id \in DOMAIN messages
                /\ messages[msg.id].no = msg.no
                /\ messages[msg.id].session = agent[u].session

(***************************************************************************)
(* A failure of a statement costs its call, and at most the next call of   *)
(* that statement: a failed step never leaves a statement that throws for  *)
(* ever (sqlite3raii.cpp:97-109).                                          *)
(***************************************************************************)
AFailureCostsTwoCalls ==
    \A u \in User : lost[u] <= 2 * failed[u]

(***************************************************************************)
(* No insert is refused for a foreign key: whenever a row is about to be   *)
(* inserted, every row it refers to under the schema that the file has is  *)
(* there, after failures of the statements that put it there included      *)
(* ("Ensure tool row exists to satisfy FK", brain_store.cpp:346).          *)
(***************************************************************************)
Met(u, table) ==
    \A t \in schema[table] :
        /\ t = "sessions" => agent[u].session \in DOMAIN sessions
        /\ t = "tools" => call[u].tool \in tools

EveryReferenceIsMet ==
    \A u \in User :
        /\ In(u, "insert") => Met(u, "messages")
        /\ In(u, "invocation") => Met(u, "tool_invocations")
        /\ In(u, "idle") => Met(u, "prompt_logs")

(***************************************************************************)
(* Whoever made the file, with or without vectors, and wherever an earlier *)
(* script stopped, an agent that opened it has every object of the core    *)
(* schema, with the references the core schema gives it: of the two copies *)
(* of the schema neither can leave the other a different file.             *)
(***************************************************************************)
SchemaIsWhole ==
    \A u \in User :
        conn[u] # "closed" =>
            \A i \in DOMAIN Script(FALSE) :
                LET object == Script(FALSE)[i]
                IN  /\ object \in DOMAIN schema
                    /\ schema[object] = References(FALSE, object)

(***************************************************************************)
(* The store is the session log its users take it for: between the insert  *)
(* and its return a message counts as holding the id the connection will   *)
(* be asked for.                                                           *)
(***************************************************************************)
HeldAfterReturn ==
    [u \in User |->
        IF call[u].op = "return"
        THEN [held[u] EXCEPT ![call[u].i].id = call[u].row]
        ELSE held[u]]

Log == INSTANCE SessionLog WITH
           Message <- 1 .. MaxMessages, rows <- messages, held <- HeldAfterReturn

ImplementsSessionLog == Log!Spec
-----------------------------------------------------------------------------
(***************************************************************************)
(* What the documentation says and the code does not do.                   *)
(***************************************************************************)

(* "Carrega histórico e parâmetros de uma sessão persistida para continuar *)
(* a conversa" (include/cli_options.hpp:133): the requests of a restored   *)
(* session are made with the parameters it was stored with.                *)
RestoredParametersAreUsed ==
    \A u \in User :
        agent[u].history = "restored" => RequestModel(u) = sessions[agent[u].session]
=============================================================================
