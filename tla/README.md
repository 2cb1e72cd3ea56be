# A TLA+ model of cppllmcoder

cppllmcoder is a coding agent. A model served by an OpenAI-compatible endpoint
writes Lua in `<code>` tags, the program runs it in a Lua context whose `tools`
table leads to the file system and to the agent's own database, and the result
goes back to the model, until a reply holds no script. One terminal UI, the
cockpit, shows the conversation and asks the operator for leave to run tools.

This directory holds the model of that program: TLA+ modules, the TLC
configurations that check them, and TLAPS proofs. `PROJECT.json` names, for
each definition, the lines it stands for, for each property the run that checks
it and a plausible fault of the code it would find, and the hazards the
properties are for. Paths below are relative to the repository.

## Inventory

| Component | Source | State | Operations | Hard behaviour |
|---|---|---|---|---|
| Retry policy | `src/llm/retry_policy.cpp` | none | `classify` | which error is retried and when, told by status, code and message |
| Chat streamer | `src/llm_chat_streamer.cpp` | locals of one call | `stream`, its callbacks | failure in mid stream, retry, stop from another thread |
| Agent loop | `src/agent.cpp`, `done_task_*` | history, cache, rows; the done signal | `run_step`, the tool handler, restore | partial failure of writes, death and restart, five ways to leave the loop |
| Drivers | `include/agent_driver.hpp`, `src/cockpit_agent_driver.cpp` | stop flag, injection queue | callbacks, `inject`, `request_stop` | calls from two threads |
| Event bus | `include/agent_driver.hpp` | queue | `post`, `drain`, `wait_next` | order, a wait without limit |
| Operator consent | `include/cockpit_consent.hpp` | the pending request | `requestToolUse`, `resolve` | time limit against answer, late answers |
| Cockpit | `src/cockpit_ui.cpp`, `include/cockpit_chat.hpp` | threads, flags, conversation, approvals | submit, keys, event handler, shutdown | three threads, stale events, joins |
| Agent manager | `include/agent_driver.hpp` | registry of records | spawn, park, wake, inject, stop | records written without the lock, names spawned again |
| Brain store, SQLite wrapper | `src/brain_store.cpp`, `src/sqlite3raii.cpp`, `include/db_schema_sql.hpp` | the file: schema and rows; a connection's cached statements and last rowid | open, ensure a session or a tool, insert or update, load | several processes on one file, a failed step spoils the next use, death between two statements, a schema written twice |
| UTF-8 text, `db.head` | `src/utf8_text.cpp`, `src/db_tools.cpp` | none | align, prefix, slice, paging | byte limits against grapheme clusters |
| Tool registry | `src/tool_registry.cpp` | tools by name | register, list for the prompt, iterate | the order of a hash map, names registered again |
| Lua context | `src/lua_context.cpp`, `include/lua_args.hpp` | the sandbox and its `tools` table | bind, execute, values to JSON | shared and cyclic tables, nested names, arguments by place or by table |
| File tools | `src/fs_tools.cpp` | root | read, list, size | files that change between size and read, iterators that fail half way |
| Cockpit runtime | `src/cockpit_runtime.cpp` | none | loads for the panels | - |
| Option parser | `include/cli/*` | none | parse | - |
| Prompt consent, prompts, logs, counters, utilities | rest of `src/`, `include/` | little | - | the token counter is shared without a lock |

How they interact. The UI thread starts a turn in the agent thread
(`start_agent_turn`), which runs the loop (`run_step`). Each round the loop
calls the streamer once; the streamer calls the endpoint up to
`max_attempts` times, asks the retry policy after each failure, and calls the
driver back with text, retries and the end of the answer. The driver posts each
callback on the event bus; the bus thread takes it from there to
`pending_events`, and the UI thread handles it. A script's tool call asks the
consent provider first, which queues an approval for the UI thread and waits for
it. The UI thread reaches the agent through the driver only: a stop flag, and a
queue of messages read between rounds. Every message and tool call is written to
the brain store by the agent thread. The agent manager runs further agents, each
with a driver and a thread of its own.

What makes each part correct:

- retry policy: what cannot succeed is not retried; a server that says when to
  come back is not asked sooner;
- streamer: the reply returned is the text the driver holds, of one attempt,
  with the usage of that attempt; no attempt streams unannounced; it returns when its
  transfers end;
- loop: what the model is sent, what is remembered and what is stored agree, over
  failures and restarts; every tool that ran and returned has its row; messages come in order;
  a turn ends, and soon after a stop, as far as the code decides it;
- consent: no tool runs that the operator did not approve, an approval given in
  time counts, every request is answered;
- cockpit: one turn at a time, every event on the screen once and in order, under
  the question it belongs to; Ctrl-C stops what runs, and the program ends when that does;
- manager: an agent's status is its own and says what happened, every call
  returns;
- paging: a text is cut between clusters and within its limit; a reader that follows
  `next_offset` gets all of it, once;
- store: the id a message holds is its own row's, no failure spoils a statement for
  ever, an insert finds what it refers to, the schema is whole whoever made the file;
- tools: what the prompt lists can be called by that name; a value has the JSON it
  deserves or an error; a reader that is told of the end of a file has what was there;
  a listing is what was asked for; what a script starts comes to an end.

## Modules

| Module | Models | Proofs |
|---|---|---|
| `RetryPolicy` | `classify` as an operator on what it looks at of an error; the delay as the range it is drawn from | with the streamer |
| `TurnContract` | what a driver is promised of one call of `stream`: an abstract specification | |
| `ChatStreamer` | one call of `stream`, extends `RetryPolicy`; implements `TurnContract` | `ChatStreamerProofs` |
| `MCChatStreamer` | the errors of the streamer's runs | |
| `Consent` | `CockpitConsentProvider`, the approvals and the keys that answer them | `ConsentProofs` |
| `AgentLoop` | `run_step`, the tool handler, restore; stop, injections and deadline as the driver shows them | `AgentLoopProofs` |
| `Cockpit` | the threads of `runCockpitUi`; composes `Consent` (`INSTANCE`, over the same variables) | `CockpitProofs` |
| `AgentManager` | the registry of agents and the calls on it | `AgentManagerProofs` |
| `OutputPaging` | the cut of a message too long to be sent, and the blocks of `db.head` | `OutputPagingProofs` |
| `SessionLog` | what the store promises its users: an abstract specification | |
| `BrainStore` | the store, its schema, the SQLite layer's cached statements, and the constructor of `Agent` that opens and restores; implements `SessionLog` | `BrainStoreProofs` |
| `MCBrainStore` | the symmetry of the store's run | |
| `LuaContext` | the tool registry, the binding of tools into the sandbox, values to JSON | `FileToolsProofs` |
| `FileTools` | `fs.read`, `fs.ls` and their arguments; extends `LuaContext`, whose scripts call them under the names it bound | `FileToolsProofs` |
| `MCFileTools` | the tools, tables and directory of their run | |

State and actions.

- `ChatStreamer`: `pc` is the place in `stream`; `buf`, `lastError`,
  `localUsage`, `control` are its locals; `received`, `toldOf`, `completed` are what the
  driver was told. A piece of text is known by its attempt and its place.
  `OnData`, `Succeed` and `Fail` are the client's callbacks and the end of its call,
  `Surface`, `Backoff`, `StopDuringWait`, `WaitElapses` the code after an error.
- `Consent`: `pendingId`, `pendingDecision` are the provider's fields,
  `approvals` the cockpit's vector. Each critical section under `mutex_` is one
  action. The approve key is two, `PressApprove` and `EraseApproved`: the vector is
  erased with no lock held, so that a push made meanwhile may be lost, or the erase
  itself (the approved entry stays), or both (`Overlapped`). That an entry may come out
  of it torn, or the process die, is left out.
- `AgentLoop`: `history`, `cache` and `db` are the three forms of the
  conversation. Each `add_to_history` is one action with two outcomes, stored
  (`AddToHistory`) and not (`FailToAdd`, the exception leaves `run_step`). `broken`
  holds the cached statements whose last step failed: their next reset throws once
  (`src/sqlite3raii.cpp:105-107`). A script is any number of tool calls and an
  outcome. A tool that took effect returns (`RecordTool`) or throws (`ToolThrows`:
  `src/agent.cpp:133`, caught at `src/lua_context.cpp:60` past the row). `CrashAndRestart` drops everything but `db` and restores from it.
- `Cockpit`: `thread[t]` is the place of turn t's thread. Events bear the turn
  they are of, which the code does not keep, so that properties can speak of it.
  The UI thread's handlers are one action each where they touch nothing another
  thread touches meanwhile; the start of a turn is two, before and after the join.
- `AgentManager`: a spawn is known by its number, as an id may be used again.
  `call[a]` is where thread a is inside a call, and `mutex` says who holds
  `registry_mutex_` when it is held over more than one step: between the test and
  the store of a wake (the agent's own thread writes the same field without the
  lock), and while a replaced record is destroyed. `inject_into` and `request_stop` are
  two steps each: the driver is looked up under the lock (`LookUp`) and called after it
  (`Push`, `Halt`), when it may be a replaced agent's. A sub-agent's feedback is taken
  to reach its parent through `inject_into`: the repository leaves the wiring of
  `parent_inject` to the user, and this is the only call that finds an agent by name.
- `OutputPaging`: a text is its length and the places where a grapheme cluster ends
  and the next begins; what makes such a place is `utf8proc`'s matter, and the code
  resets the state of its search at each, so that a rest of the text has the same.
  The functions of `utf8_text.cpp` and `prune_message` are operators on it. The state
  is that of a script which calls `db.head` from any offset on: `Read` is the call,
  with `next_offset` handed on. The tags' and the hint's lengths are constants.
- `BrainStore`: one `User` is an agent with its own connection. `call[u]` is where a call
  of the store stands between two of its statements: `insertMessage` is `CheckMessage`,
  then `UpdateMessage`, or `InsertMessage` and `ReturnId` (the question for the last
  rowid); `insertToolInvocation` is `EnsureTool` and `InsertToolInvocation`. Every
  statement may fail. `spoiled[u]` holds the cached statements whose last step
  failed. A row's place in `messages` is its id, as nothing deletes one. The schema is
  a set of objects with the tables each refers to, the view among them; `Create` runs a script up to some
  statement. `HeldAfterReturn` maps to `SessionLog`: a message counts as holding its id
  from the insert on.
- `LuaContext`: `tree` is the nested tables as a function from paths, `flat` the flat
  names; `Bind` handles one tool, in any order. `stack` holds the calls of the recursive
  `serialize`, each with the keys that are left, so that the marks in `visited` are put
  and taken where the code does. The text is a sequence of brackets, names and atoms;
  `Fits` and `Text` say the same without a stack.
- `FileTools`: a file is its length. `CallRead` asks for the size, `ReadBlock` opens and
  reads, and `Write` may come between; the reader is a script that adds `bytes_read` to
  its offset until `eof`. The directory iterator is a stack of levels.

## Runs

| Run | Question | Bounds, and why they are enough |
|---|---|---|
| `mc_chat_streamer` | the streamer's and the policy's properties, that a call returns unless a transfer never ends, and that it implements the contract | three attempts (one that is neither first nor last), two pieces (part of an answer), errors for every combination of what `classify` looks at |
| `mc_consent` | what is allowed was approved, and the rest | four requests: two may time out in front of the one that waits; the erase comes out in each way |
| `mc_agent_loop` | the loop's invariants, and that a turn ends unless it stays in a request or a script | two turns, so that something is left over from the first; two rounds and injections, one tool, one failure and one crash. That a lost statement costs two rows takes two tools: it is proved (`Audit`) |
| `mc_cockpit` | events and conversation, one turn at a time, Ctrl-C | two turns, so that late events meet the next placeholder and an error of the first is handled in the second; one round or retry beyond a turn's first request |
| `cockpit_ends` | the cockpit ends, and takes input again, unless a request or a script never ends | one question to the operator open at the shutdown |
| `mc_agent_manager` | the registry, and that every call returns, unless a replaced task never ends | two spawns under one name or two, two other calls (a park and what ends it), a sub-agent that calls the manager |
| `mc_output_paging` | the cut and the blocks of every text | nine bytes, with clusters in all places: longer and shorter than the blocks, the cap of the tool and what a limit leaves; limits below the tags, below the hint and above both |
| `mc_brain_store` | ids, references, schema, failed statements, and that the store is a session log | two agents (one inserts between the other's insert and its question), two sessions, two messages, one failure, two connections opened (a file made by one script and opened by the other, a session left and resumed); agents and sessions are symmetric |
| `mc_lua_tools` | binding, JSON, `fs.read`, `fs.ls`, and that scripts end | five tools with a name registered twice, three names with one prefix, one without a dot; two tables of up to two entries: shared, nested, cyclic, mixed, with a gap between their names. `MaxDepth` is 1 and 32 in the code: with two tables a path of three is past it or a cycle, and the limit is compared once per level. A file of up to three bytes, a cap between the blocks, two writes; a tree of three levels asked for at each depth |
| `waiting_is_queued`, `approve_key_approves_the_pending` | findings: the unlocked erase; the entry left by a timeout | |
| `restored_parameters_are_used` | finding: a restored session goes on with the options of the process | one agent, two models |

More things the documentation says and the code does not do were met and have no run:

- Ctrl-C, of which `COCKPIT_SPEC.md:334` says "Quit", ends nothing while the endpoint is
  silent: the client is made with no limit on a transfer (`src/cockpit_ui.cpp:192-193`,
  the second timeout is 0), a stop is seen only when data comes
  (`src/llm_chat_streamer.cpp:62`), and the shutdown joins the thread that waits. In the
  model this is the behaviour the liveness properties make their exception for
  (`InRequest`, and below);
- `Retry-After` is not honoured for 408, 409, 500, 502, 504 and unknown 429
  (`src/llm/retry_policy.cpp:16` against 206);
- a reply without a script ends the loop at once, so that `max_idle_turns` of an
  automatic driver is never reached (`include/agent_driver.hpp:273` against
  `src/agent.cpp:319`);
- a stale `EvAgentError` clears `agent_busy` during the next turn, and the submit that
  it lets through joins that turn in the UI thread (`src/cockpit_ui.cpp:873`);
- the end of an agent is written without the lock, and a wake that tested the state
  before and stores after it shows a finished agent as running, in what calls itself
  thread-safe (`include/agent_driver.hpp:607` against line 5; `WaitingHasAReason` is
  stated outside that section, and `AnnouncedIsRecorded` leaves out parked agents, for it);
- a stop during the wait between two attempts ends the turn without
  `on_turn_complete` (`include/llm_chat_streamer.hpp:25` against
  `src/llm_chat_streamer.cpp:118`);
- after a failed write of the system prompt none is added any more
  (`src/agent.cpp:195`, the test, against 196);
- a retry before any text clears the turn before (`include/agent_driver.hpp:170`
  against `src/cockpit_ui.cpp:828`);
- `--list-sessions`, which "Lista sessões salvas e sai" (`include/cli_options.hpp:120`),
  sets a flag that nothing reads;
- the error `fs.ls` has for an iteration that fails (`src/fs_tools.cpp:347`) is never
  returned for a failed increment, which ends the loop: part of the listing is returned
  as all of it (`ListsWhatIsAbove` claims completeness for the other listings only).

Deadlock is checked where the system should go on for ever or end in a named
state (`ChatStreamer`); elsewhere the operator, who may do nothing, and the
bounds let a behaviour stop.

Fairness. The agent thread, the bus thread and the UI thread go on when they can:
they are threads of a preemptive scheduler, and nothing they run blocks but what
the model says. The wait for the operator ends at its limit. The operator is never
assumed to do anything, nor a stop to be asked for.
Nothing is assumed of the endpoint: the client has a limit of 10 seconds for its first
timeout and none for the second (`src/cockpit_ui.cpp:192-193`), and inside a transfer the
code acts only when data comes. So there is no fairness for what the server sends or
closes (`OnData`, `Fail`, and `Succeed` but for a transfer that `control_` tells the client
to stop, which the client ends) nor for the end of a script, which nothing limits either,
and the liveness properties say what is left: a call returns or its last transfer goes on
for ever and was not told to stop (`Returns`); a turn ends or stays for ever in a request or a script
(`TurnEnds`, `BusyEnds`); the cockpit ends after Ctrl-C or its turn stays there
(`ShutdownCompletes`). The question to the operator, the joins, the waits between attempts
and the bus thread are no excuse.
In `AgentManager` a call goes on when it can, which is enough as the calls of a run
are finitely many: `registry_mutex_` is then free for good once its last holder is
through. The end of a task is not assumed: a call that replaces a record waits for the
task of the old one, and `EveryCallReturns` holds unless that task never ends and calls
nothing (`WaitsForTask`). It is claimed for callers that keep the handles of the
agents that call the manager (`Dropped` leaves out their kind); without a handle
the record that is replaced waits for its task with the mutex held, which is the
mutant of that property.
In `FileTools` the agent thread runs a script as long as it can: nothing in it waits,
and others write to the file a bounded number of times. A script that asks for blocks
of no bytes gets nowhere, which is its own doing, and is left out.

## What is proved

For every value of the constants, from the named assumptions on them (the bounds
are naturals; the backoff's parameters are as `RetryConfig` has them; an error's
Retry-After is an integer; the numbers of agents are no names of callers; `db.head`
may hand out a byte; of the tools' names none is the start of another, as with those the
program registers; a block of `fs.read` has a byte; only a directory holds entries; a Lua
table has finitely many, whose names are numbered from 1 in alphabetical order). Data of
any size, as texts and nested tables, is within reach although induction is not: what is
claimed of every number, or depth, is shown by the least one that would be a
counterexample, a set of naturals without an operator as parameter (`Least`, `Reach`):

- `ChatStreamerProofs`: the type invariant, the three invariants and the action
  property of the streamer, the two of the policy, and that `ChatStreamer`
  implements `TurnContract`, by a refinement mapping. The invariant says that
  inside an attempt the buffer is what the driver holds, that a wait was decided
  by `classify` on an error of the set with an attempt left, and that nothing is
  handed out before the call returns.
- `ConsentProofs`: the type invariant and the two safety properties. The
  invariant says that the provider's fields speak of the request that is asked, that a
  decision is the operator's and of its own request, and that what is queued was asked.
  Nothing is claimed of an approved entry leaving the queue, as the erase may be lost.
- `AgentLoopProofs`: the type invariant and seven safety properties. Each has its
  own strengthening: `AuditInv` counts what failures, crashes and tools
  that threw may have cost in rows, a broken statement included; `OrderInv` orders stored and queued messages;
  `PromptInv` says what each place of the loop knows of the prompt; `CleanInv` that
  history and cache are one while no write failed.
- `CockpitProofs`: that one turn runs at a time (only the last turn's thread may
  be alive), that Ctrl-C stops it (while it runs, `active_driver` is its own),
  that events keep their order over both queues, that text stands below its question
  (`TalkInv`: every turn begun has its question on the screen, and every event on its
  way is of a turn begun), and the type invariant. `ConsentInv`
  carries the invariant of `ConsentProofs` over (the prover cites no theorem through an
  `INSTANCE`, so it is proved again over the instance): the consent's two safety
  properties hold inside the cockpit, whatever turns, events and keys come between.
  `WaitInv` proves what `Consent` takes for granted, that one thread at most asks: the
  one that waits runs the script of the last turn, whose driver a stop reaches
  (`OneWaits`), and once the agent thread is joined for good none is alive or waits
  (`NobodyIsLeft`). These four are stated over the cockpit and no run checks them there;
  `mc_consent` checks the first two, about what is allowed and what is refused, on
  `Consent` alone.
- `AgentManagerProofs`: the type invariant and the three safety properties, for any
  number of spawns under any names. The invariant has five parts: a spawn in progress
  is one caller's, and who holds the lock is where its call says (`CallInv`); the
  registry knows a spawn by its own name (`RegistryInv`); an end that is recorded stays
  but for a parked agent (`EndInv`, with `ExistsBefore`: no record comes back); who
  waits has the reason or is being woken (`WaitInv`). Each part needs the ones before.
- `OutputPagingProofs`: all five properties, for every text. First what `Min` and `Max`
  of the community modules return (by well-foundedness), then what each function of
  `utf8_text.cpp` returns in terms of boundaries (`Aligned`, `Prefix`, `Slice`, `Block`);
  the invariant (`ReadInv`) says that the offset of the next call is the end of the
  last block, and a boundary.
- `BrainStoreProofs`: all five properties, for any number of agents, messages and
  failures. `CallInv` says that only an agent through with its constructor is in a call,
  about a message it holds. `LostInv` balances what failed against what was lost and
  what is still spoiled; `SchemaInv` says that whatever object there is has the
  references both scripts give it, and that an open connection has them all; `ToolInv`
  that a tool whose invocation is inserted has its row; `IdInv` names the row of
  every id that is held or about to be. The refinement needs the last one (a version is
  stored under its own message), and that the rows of a session can be put in ascending
  order at all (`AscentExists`, by well-foundedness).
- `FileToolsProofs`: the four safety properties of the tools.
  - What is listed can be called, for any tools bound in any order (`BindInv`: what was
    bound stays callable while the rest is bound).
  - A reader is served (`ReaderInv`: the size a call was told is no less than the file
    has been).
  - A listing is whole, for any tree and depth (`ListInv`: what the iterator holds at a
    level has a way of as many steps from the directory; whatever is wanted is a row, or
    it or a directory on its way is still to be come to, or the listing is cut).
  - A value gets its JSON or an error, for any tables, however they hold each other
    (`JsonInv`). What is written is the text of the values that are through, and of every
    frame of `serialize` its bracket and the entries that are done: `Wrote` says so by the
    prefix each frame began at. Below the top frame the last entry done is the table of
    the frame above, so that a closed table completes it; on an error it is what the
    frame below does not fit for (`RefusedInv`). That the code's counts of keys tell
    apart what `Uniform` does (`UniformIsTold`), and so that its last test for gaps never
    fails, that a table of a cycle fits into no number of levels (`CycleUnfit`), and that
    `Fits` and `Text` are what their recursive definitions say (`FitsIs`, `TextIs`, from
    `Recursion`) are lemmas of their own.

Proved and in no run, as stronger properties of the runs say more on small instances:
the type invariants, `RequestEndsWithInput`, `TextIsOfOneAttempt`,
`UsageIsOfTheReply`.

Only model-checked: every liveness property, as fairness is beyond the prover. Every
invariant and every action property that a passing run checks is proved.

## What is not modelled

- The endpoint, the HTTP client, Lua and SQLite themselves: they are the
  environment, with the outcomes the code tells apart.
- Time. A deadline or a limit passes at some moment; how long a delay is, only as
  far as `classify` chooses it.
- Panels, scrolling, logs, prompts, the layout of messages; the tick thread, which
  only redraws.
- Scripts: what a script computes, and that nothing limits how long it takes. A script
  of `FileTools` does one thing.
- Of the store: `listSessions`, which nothing calls, `SqliteTxn`, which nothing uses, and
  what a row holds beyond what is compared. The log of executions is written as that of
  prompts is. Of the file tools: `fs.size`, which asks one question; the check of a path,
  a predicate on paths; the fields of a row. The types sol2 tests are tags on values.
- `CockpitRuntime` loads what the panels show and lays it out: it changes no state that
  another part reads, and the table of tasks it draws as a tree is never written by the
  program. The option parser is a function of `argv`, with no state and nothing that
  interacts. `PromptConsent` is a question and a `getline`.
- The other components marked `not_modelled` in `PROJECT.json`: text and helpers.

## Plan

Done: the streamer with its policy and contract, consent, the loop, the cockpit,
the manager, paging, the store with the log it implements, the tools. What is left:
the option parser as operators on `argv`, should it come to matter.
