# Formal model of merlion-agent

This directory holds TLA+ modules that model merlion-agent where its
correctness depends on the order of things: the agent's tool loop and the
requests it sends, the chat sessions and their database, the messaging gateway
with its dispatcher, transports and service manager, the chain of model
providers, MCP over pipes and over HTTP, the Codex child process, scheduled
prompts, the configuration files, the directory all processes share, and the
tools at work on files. TLC checks them on small instances; TLAPS proves every
safety property the passing runs check, for every instance; the liveness
properties are TLC's alone. Four further runs show where the program does not do
what its own comments say (section 5).
`PROJECT.json` lists the runs, the source lines behind every definition, the
hazards and the theorems.

To check one run: `tlc -config MCTurn.cfg MCTurn`. To check the
proofs of a module: `tlapm AgentProofs.tla`.

## 1. Inventory

| Part (crate, file) | State | Operations | Talks to | Module |
|---|---|---|---|---|
| Agent loop (`merlion-core/agent.rs`) | message vector, round-trip counter, text and calls of the current stream | `run` | provider, approver, tools, renderer | `AgentLoop` |
| Conversation data (`message.rs`) | - | constructors | everything | `Conversation` |
| Chat front ends (`merlion-cli/main.rs`, `tui/app.rs`) | session id, messages, the snapshot the agent works on | launch, resume, input, Ctrl+C, `/new`, `/share`, exit; `-z` | agent loop, session database, join keys | `ChatSession` |
| Session database (`merlion-session`) | tables `sessions`, `messages`, an FTS index | `create_session`, `append_message`, `load_messages`, `prune` | SQLite file shared by all processes | `ChatSession`, `Dispatcher`, `Home` |
| Gateway dispatcher (`dispatcher.rs`) | map session -> state, join store, database handle | `run`, `handle_slash`, `load_state`, `store_state`, `persist` | transports, agent, database | `Dispatcher` |
| Join keys, allowlist (`joinkeys.rs`, `allowlist.rs`) | keys with expiry, bindings, `join_keys.yaml` | `mint`, `consume`, `bind`, `unbind`, `gc`; `permits` | CLI and gateway, through the file | `Dispatcher`, `Home` |
| Platform transports (`telegram.rs`, `slack.rs`, `discord.rs`) | Telegram's offset, Slack's socket and failure count | receive loop, send loop | platform, dispatcher | `Gateway` |
| Gateway process and service (`main.rs`, `gateway_service.rs`) | a dispatcher and an adapter per platform; a unit file | start, end with the first task that ends; install ... restart | launchd, systemd | `Gateway` |
| MCP stdio transport (`stdio.rs`) | next id, pending map, stdin under a lock, child | `request`, `close`, reader task | child process, concurrent callers | `McpStdio` |
| MCP HTTP, OAuth, registry, proxies (`http.rs`, `oauth.rs`, `registry.rs`, `proxy.rs`) | session header, tokens, exposed names | load, `request`, PKCE flow, `mcp add` ... `test` | servers, browser, agents | `McpHttp`, `Home` |
| Provider retry and fallback (`retry.rs`, `fallback.rs`) | attempt, position in the chain | `send_with_retry`, `stream` | HTTP, agent loop | `LlmStream` |
| Provider clients (`openai.rs`, `anthropic.rs`, `gemini.rs`, `bedrock.rs`, `vertex.rs`) | fragments of streamed calls | build a body, parse a stream | provider | `Wire`, `LlmStream` |
| Codex client (`codex.rs`) | map fingerprint -> thread | `stream` over a child process | `codex exec` | `Codex` |
| Cron (`merlion-cron`, `cron_cmd`) | `cron.yaml`, a copy of it, a sleeper per job, a queue of 32 | `add`, `remove`, `run` | agent loop, platforms | `Cron` |
| Approvals, memory, skills, curator (`approver.rs`, `merlion-memory`, `merlion-skills`, `curator_cmd.rs`) | YAML files, a file per memory and an index, skill files | approve, write, delete, create, pause ... | tools, prompts, commands | `Home` |
| Backup, import, prune, uninstall, checkpoints | the whole of `~/.merlion` | copy, replace, remove | every process that uses it | `Home` |
| Configuration (`merlion-config`, `setup.rs`, `model_cmd`, `auth_cmd`) | `config.yaml`, `.env`, `auth.yaml`, `fallback.yaml` | `setup`, `model`, `auth`; overrides | every command | `Settings`, `Providers` |
| Tools (`merlion-tools`) and sub-agents (`task.rs`) | files, children, detached runs | edit, write, skill, bash, read ... task | agents | `Workspace` |
| Terminal widgets | lines, colours | draw, edit | terminal | - |

### What is hard, and what makes each part correct

*Agent loop.* Between two awaits the loop is sequential, but the stream may
break anywhere, an approval is used after another await, the event channel can
fill, the receiver can go away, and a tool result can be over the cap. Correct
means: whenever it is sent and whenever `run` returns, the history is one every
provider's client turns into a request with each call's result where its
provider looks for it; a tool runs only right after its own approval; history,
events and outcome tell the same truth; it ends. (That turns alternate, as two
of the clients say, is a question to the chat: see section 5.)

*Chat sessions.* The conversation lives in memory and on disk. A run works on a
clone; its messages are stored afterwards, one by one; Ctrl+C keeps a cut run;
a death can fall anywhere; a session is resumed from its rows. Correct means
disk and memory are the same conversation, and a request is complete unless a
turn was cut.

*Dispatcher.* Every incoming message has a task of its own, three mutexes are
taken one after the other, the cached state is taken out of the map while a
turn is at work, and two messages of one account do overlap. Correct means the
memory never holds what the session's rows do not, an account writes only into
sessions it may write into, and a message stays unanswered only for a reason.

*Gateway.* Each platform has its own idea of when a message is delivered: the
next poll confirms Telegram's, an acknowledgement Slack's, Discord delivers
once. The process ends with the first task that ends, with status 0 or 1, and
the service manager decides from the status. Correct means nothing a platform
regards as delivered is lost, nothing is run twice without a cause, and the
service comes back.

*MCP.* Concurrent callers share a pipe, a map and a counter, or POST at the same
time; answers come late, out of order or never; callers are dropped in the
middle of a write; the child dies; tools of two servers get one name. Correct
means nobody gets another caller's answer or another server's tool, a request carries
the token that goes first, lines stay whole, and every call returns unless its
server has stopped reading.

*Providers.* A request is retried, handed from provider to provider, and
answered by a body that each client assembles in its own way from chunks cut
anywhere, until it finishes, ends early or breaks. Codex keeps the conversation
itself, in threads found again by how a conversation opens. Correct means a
fallback is asked only when it should be, the agent is given the whole turn,
and a thread is the conversation it answers.

*Shared files.* Commands and chats read a file, change their copy and write it
back; a death leaves half of it; a wizard overrides what another has written; a
setting outlives what it was made for. Correct means entries are lost only to
a real overlap, keys that were entered are used, and keys and prompts stay with
the service or project they belong to.

*Cron and tools.* A sleeper measures by one clock a time taken from another,
which may be set back or forward, a queue may be full; a write goes on in a
blocking pool after its future is dropped, or fails when it has emptied the
file; a command's children outlive a timeout; every tool cuts its answer in its
own way. Correct means the schedule is kept but for a full queue or a clock that
ran ahead, nothing outlives its call but for a named cause, and a mark says what
was left out, where the tool has one.

The full list, with the line where each hazard bites and the property that
would catch it, is under `hazards` in `PROJECT.json`.

## 2. Modules

| Module | Models | Composes |
|---|---|---|
| `Conversation` | messages, and `Complete`: the rule on call and answer order | - |
| `ChatProtocol` | the abstract contract of a tool-calling exchange | `Conversation` |
| `AgentLoop` | `Agent::run`, one action per await | `Conversation`; implements `ChatProtocol` |
| `Wire`, `AgentWire`, `ChatWire` | the bodies the clients make of a history; the loop with its clients; the chat with its clients | `Conversation`; `AgentLoop`; `ChatSession` |
| `ChatSession` | `merlion chat`, console, TUI and `-z`, over the database | `ChatProtocol` (the agent, as an instance on the snapshot) |
| `Dispatcher` | the gateway's dispatcher with join store and database | `Conversation`; a run of the agent is one step |
| `Gateway` | the adapters, their channels, the process and its service manager | the dispatcher, reduced to a task per message |
| `McpStdio` | the stdio transport and an MCP server as environment | - |
| `McpHttp` | loading of servers, proxies, the HTTP transport, OAuth | - |
| `LlmStream` | `send_with_retry` under `FallbackLlmClient`, and the assembly of the body by each client | - |
| `Codex` | the Codex client, its children and threads, under a chat or a gateway | - |
| `Cron` | `cron.yaml`, the daemon, the runner and the delivery | - |
| `Providers`, `Settings` | resolution of a model id and the clients of a chain; the commands that write the configuration | `Settings` extends `Providers` |
| `Home` | the processes that share `~/.merlion` | - |
| `Workspace` | tools, commands and sub-agents on shared files | - |
| `ConversationProofs` | lemmas on histories: appending a turn or an answer, concatenation, copies | `Conversation` |
| `ChatSessionProofs` | theorems on the chat sessions and the protocol under them | `ChatSession`, `ConversationProofs` |
| `McpProofs` | theorems on both MCP transports | `McpStdio`, `McpHttp` |
| `AgentProofs` | theorems on the agent loop, the bodies made of its history, its tools and sub-agents | `AgentWire`, `Workspace`, `ConversationProofs` |
| `DaemonProofs` | theorems on the gateway's adapters and the cron daemon | `Gateway`, `Cron` |
| `SettingsProofs` | theorems on the configuration and on everything else in `~/.merlion` | `Settings`, `Home` |
| `DispatcherProofs` | theorems on the dispatcher | `Dispatcher` |
| `LlmStreamProofs` | theorems on the retries and fallbacks of a request, on the reading of its body, and on Codex | `LlmStream`, `Codex` |
| `MCTurn`, `MCMcp`, `MCBackground`, `MCProvider` | two models that share nothing, for one run | the two `MC` modules of the models |
| other `MC...` | constants for TLC | - |

### How state and actions correspond to the code

`AgentLoop`: `pc` names the await `run` is parked at (`llm` agent.rs:118,
`stream` :122, `announce` :153, `approve` :163, `start` :167, `dispatch` :183,
`report` :199, `exhausted` :212, `done` :158) or how it ended. `messages`,
`calls`, `iter` and `next` are the locals; `hasText` stands for `text_buf`.
`chan` is the mpsc channel, `Send` an awaited send whose error is ignored.
`Receive` is any of the event loops (dispatcher, console, TUI, sub-agent);
`DropReceiver` is a sub-agent's parent being dropped (task.rs: the run goes on
in a task of its own). `Sizes` is the result's length against the cap, with the
case where the cap falls inside a character. `ledger` and `base` are history
variables: approvals and tool runs with the position their answer will take.

`Wire`: one operator per conversion. A block keeps its type and the key its
provider matches it by. `Converted` is the body of the clients' loop over the
messages, `Conversion` what it has made of the first n: the turns and the
results not yet flushed into one. Gemini's key is the name a tool message
carries, which `Tool` reads off its call's id, so an id goes with one name.
`AgentWire` asks of every history the loop sends that each client's body has all
results right after their calls, in order and under the right key. `ChatWire`
asks of the requests of a chat that their turns alternate.

`ChatSession`: `phase` is where the chat command stands. `messages`, `snapshot`,
`sid` are the locals; the agent is an instance of `ChatProtocol` on the
snapshot. `rows` and `db` are the tables. `cut` is a history variable: sessions
whose run was interrupted, or whose turn was half stored at a death, between a
call and its answer. Each INSERT is a step; a death may come between any two.
The front ends share every action but `Interrupt` (TUI), `NewCommand` (console:
the TUI's help names `/new`, its `resolve_input` has no case for it) and what a
script does at its end.

`Dispatcher`: a task per message, `pc[t]` what it does next; `sid`, `mem`,
`todo` its locals, `cache` the map, `keys`/`bindings`/`file` the join store and
its yaml, `rows`/`db` the database. A stored message carries the number of the
incoming message it belongs to. A step is what a task does under one lock. The
database lock is held across two steps only in `load_state` (`DbFree`).
`overlapped`, `broken` and `invited` are history variables. Expiry
of a key is a choice. `Fail` and `Restart` are partial failures.

`Gateway`: `tg` and `sl` are where the two polling loops stand, `offset`,
`batch`, `cur`, `socket` their locals, `waiting` Discord's handlers that wait
for room. `confirmed`, `acked`, `seen` is what each platform believes
delivered. `proc` and `exit` are the process and its status; `Respawn` is
KeepAlive or Restart=on-failure with `wanted` as what `systemctl` and
`launchctl` were told. A token that is there at the start brings its adapter.

`McpStdio`: `at[c]` is the await caller `c` is parked at; `nextId`, `pending`,
`holder` (stdin's lock), `stdinOpen`, `reading` the transport; `pipe` holds the
two pieces a line is written in. `Server...` actions are the environment.

`McpHttp`: `current` and `step` are the chat's loop over `autoload_server` and the
awaits of `connect_server`; `registry` maps exposed names to a server and a tool, a name
being a sequence of words, so that two servers' names may join to the same one.
`posts` are requests on their way with what their server has written so far; a
request over stdio is first a line that has to be written, and a server that is
`deaf` does not take it. `bearer` is what a transport sends for as long as it
lives, so a token stored later has been `overtaken`. `flow` is the
authorization.

`LlmStream`: `provider` and `attempt` are the positions of the two loops,
`Busy`, `Unreachable`, `Refused`, `Served` what an attempt brings,
`Misconfigured` a client that fails before it sends; a vertex client then quotes
what gcloud wrote, which may read like a retriable error ("echoed"). `body` is what the serving
provider means to send, as SSE events; `arrived` counts halves of events in
`buf`, so that a chunk (`Read`) may end inside one; the actions from `Text` to
`ErrorEvent` are the arms of the parsers. `parts`, `open`, `closed` are the
calls under assembly: openai.rs keeps what it has of each call and hands it
over, the others hand over complete calls only. `Replies` gives the bodies
servers of a dialect send; with `Eof` and `Breaks` every prefix is covered.

`Codex`: `sessions` is the client's map, a fingerprint being what a
conversation opens with; `threads` is what Codex itself remembers, `run[r]` the
request and the child. A reply records what it was given without (`answers`).

`Cron`: `sleeper[j].at` is where `run_job_forever` stands, `registry` the
daemon's copy, `queue` the mpsc channel, `runner` the job at work. A `Tick`
waits for every task that can go on without time; `Enqueue` waits for room.
`Tick` moves both clocks, `SetBack` and `SetForward` the wall clock only: a sleep
is measured by a clock of its own, which also stands still while the machine is
suspended. `late` and `skipped` are history variables: fire times that passed
while a task waited for room, or slept for an earlier one.

`Settings`: `cmd[t]` is the command at work in a terminal, with the copy of the
configuration it has loaded; each prompt is a step at which it may be
interrupted, each save another. `Environment` is what a new process would see:
the shell first, then the first line of `.env` for a variable.

`Home`: `proc[p].at` is the await or statement a process stands at, `file`,
`db`, `skill` what is on disk; `live` names the directory that is called
`~/.merlion`, so that a process whose database was opened before an import
goes on with the old one. A database that was removed under an open connection
is `db[0]`; `RemovePart` waits while one is in use, so there is one at a time.
The rows of a database are a set, each with its id, its session, its writer and
its `ord`. A skill file is `odd` if it was written as a whole and the loader
passes it over: its description is put into YAML as it is, and a `README.md` is
no skill.

`Workspace`: `run[a]` is where an agent stands, `jobs` writes in the blocking
pool and children, which end by themselves; `result` what the tool answers, with
how much it leaves out, whether it says so, and if not, what kind of thing it
keeps silent about. An edit replaces the matches `str::matches` finds, which do
not overlap; a write that fails leaves a part of the file when it had begun.
`overlapped`, `damaged` and `cut` are history variables.

## 3. Runs

| Run | Instance | States | Shows |
|---|---|---|---|
| `turn` | loop: 2 round-trips, turns of 0-2 calls (one repeats an id, one names an unknown tool), 1 chunk per stream, channel of 2, a fresh history, one with an answered call, one with an empty turn; tools: an agent and a sub-agent, a workspace file, a skill and a sandboxed file, strings of 1-2 of 2 tokens, a folded description, a limit of 2, 3 calls, 1 failure, timeout or interrupt | 1,104,434 | every client's body of every history the loop sends, approvals, reports, termination, refinement of `ChatProtocol`; changes that did not overlap are all there, nothing outlives its call unless cut loose, cuts are marked where the tool marks them |
| `chat_session` | console, TUI and script, 2 sessions, 2 messages, runs of up to 3 messages, 1 preloaded skill, 1 death | 148,508 | disk and memory are one conversation, only cuts spoil a request, the prompt comes back or the script ends |
| `dispatcher` | 3 messages (2 of them for the agent), 2 tasks at a time, 1 allowed and 1 refused account, 1 key, 1 failure or restart | 332,685 | who may write where, memory against rows, silence, every task ends |
| `mcp` | stdio: 2 callers, a pipe of 2 pieces, 2 server requests; servers: 2 (stdio, HTTP with a bearer variable) that expose one name, 2 callers, 2 calls, an authorization, 1 fault or a server that stops reading | 315,776 | answers, pending map, framing; servers and tools are never mixed up, which token goes first; every call returns |
| `background` | request: a chain of 4 providers, one per dialect, 3 attempts, bodies of up to 2 calls in 2 fragments; cron: 2 jobs out of four kinds (each tick, now and then, disabled, unreadable), 3 ticks, a queue of 1, 1 edit, death or correction of the clock in either direction | 75,459 | who is asked and when, what the agent is given of a body, the request ends; what is run was due, lost fire times have a cause, what was queued is reported |
| `gateway` | no platform; Telegram (a voice message, a text); Slack (a direct message, chatter); Telegram (a sticker, a text) beside a Discord mention; launchd and systemd; channels of 1; 1 mishap, 1 service command | 96,965 | nothing taken over is lost, nothing handled twice without a cause, every message is settled while the service lives |
| `provider` | configuration: 2 terminals, 2 commands, 2 keys typed; openai, a provider with two names (zai, glm), codex, a misspelt one, bedrock in a fallback chain; 3 shells, 3 first files; Codex: 2 conversations, 2 runs at a time, 2 opening texts, 3 turns, 2 mishaps (symmetric) | 857,371 | an entered key is the one used but for the named causes; keys, URLs and prompts stay with what they were written for; a thread belongs to one opening, a reply was given with the whole conversation but for named causes |
| `home` | 2 processes, 2 names, 2 sessions (symmetric), 11 pairs of kinds of work, 5 operations, 2 rows, 2 directories, a death anywhere | 1,323,274 | YAML entries, memories and index, rows of a session, skills and archives stay what was made of them, but for real overlaps |
| `later_key`, `alternation`, `exhaustion`, `duplicates` | the instances of the configuration, of `chat_session`, of the request and of the servers | violated | the four divergences of section 5 |

Four runs check two models at once. The two share no variable: `subject` says, from
the first state on, whose behaviour it is, and the other model stands still. So
the states of such a run are those of the one and those of the other, and nothing
is said about the two together. In `turn` the tools begin when a request of the
loop has failed, and in `background` the daemon when a request was refused:
states in which the other model has ended.

Why the bounds are enough.

* *turn, loop*: the loop's state is reset at each round-trip, so two rounds
  show a round after a round and the end of the budget; two calls show a first,
  a next and a last one; a channel of 2 fills and empties.
* *chat_session*: the second message meets whatever the first one left (an
  interrupt, a death, `/new`), in the same or in a resumed session.
* *dispatcher*: a race needs two tasks; the third message finds what the race
  or the failure left behind.
* *gateway*: two updates are one in a batch and one left in it, or two polls;
  a channel of one makes the adapter and the tasks wait for room; one death
  between any two steps and the restart after it are a redelivery.
* *mcp, stdio*: a mix-up needs two callers; a pipe of two pieces is filled by
  one line, so writers block with the lock held.
* *mcp, servers*: a transport of each kind; the two expose one name although their
  tools are called differently, so that a call may be meant for either, and one
  of them lists a second tool; an authorization may come before or after the
  connection.
* *background, request*: `MaxAttempts` is the program's; a chain of four has a first, a
  last and two in between; two calls can be interleaved, two fragments parted.
* *provider, Codex*: two conversations that open alike and two runs at once are what a
  fingerprint can confuse; the third turn is told what the first two left.
* *background, cron*: the second job meets the queue the first has filled; the third tick
  is where a late runner, an edit or a wrong clock shows, and where a task that
  is late for the first tick passes over the second.
* *provider, configuration*: a setting that stays behind needs one command that writes it and
  one that does not; two at once lose each other's.
* *home*: a lost update, an orphaned index line or a torn archive need two
  processes; five operations let each do two after what the other left.
* *turn, tools*: a call that is cut loose, a call after it and one beside it;
  a string of two equal tokens overlaps itself in a file of three.

Every bound is a CONSTANT (`MaxIterations`, `MaxAttempts`, the queue's and
channels' capacity are the program's own parameters). Deadlock is checked where
the system does not rest by itself (a state where it may rest has a stuttering
action: `Returned`, `Rest`, `Quiet`; in `turn` and `mcp` the tools and the servers
may rest, as nobody has to call them); `gateway`, `provider` and `home` stop when
their bounds are used up and every process is idle, and do not check it.

### Fairness

* `AgentLoop`: weak fairness of the run (one future, polled while it can move),
  of the end of a stream (a provider does not stream for ever; nothing in the
  code bounds it) and of `Receive` (the renderer is polled by the same
  runtime). A renderer may still stop by being dropped.
* `ChatSession`: weak fairness of the agent's steps and of the chat process's
  own. The user owes nothing.
* `Dispatcher`: weak fairness of each task: it is a future of a runtime, and
  tokio's mutexes are first come, first served. Messages need not arrive.
* `Gateway`: weak fairness of the manager and of the adapters' and
  dispatcher's tasks; strong fairness of a poll and of a connection, which may
  fail any number of times but not for ever. Users, mishaps and orders owe
  nothing.
* `McpStdio`: weak fairness of each caller (its timer included) and of the
  server reading its input while it lives. The last one is an assumption about
  other people's programs, and a necessary one: the timeout of `request` covers
  only the wait for the answer, so a server that stops reading blocks a write,
  the stdin lock, and everybody behind it.
* `McpHttp`: weak fairness of loading and of each caller, whose timer runs; over
  stdio it runs from when the line has been written (`write_line` at stdio.rs:186
  is awaited outside the timeout of line 191). A server owes no answer, but one
  that has not stopped reading takes its lines. `EveryCallReturns` excepts a call
  that waits for ever to write to a server that has stopped.
* `LlmStream`: weak fairness of the request: every attempt is answered or fails
  (the clients are built with a connect timeout and a timeout of 600 s for the
  whole exchange), and so does a body. A provider need never succeed.
* `Cron`: weak fairness of sleepers, runner, agent and delivery. That a delivery
  ends is an assumption: the clients of main.rs:1616 and :1632 have no timeout,
  and a POST that hangs holds up every job. Time need not pass.
* `Settings`, `Home`, `Workspace`, `Codex`: none; what is said of them is
  safety (`SkillsAreOffered` is an action property).

A run of two models assumes the fairness of both.

## 4. Proofs

`ConversationProofs` proves the two facts about histories everything rests on:
appending a turn of the model to a complete history opens exactly its calls
(`TurnOpens`), and appending the answer to the first open call closes it
(`AnswerCloses`), for histories of any length.

and what follows from them: a plain message keeps a history complete and opens
nothing, and a complete history followed by a list that is complete by itself is
complete (`ConcatComplete`), which is what storing an agent's run relies on.

`ChatSessionProofs` first proves `ClosedHistoriesAreSendable`: in `ChatProtocol`
a history with no open call is complete. The inductive invariant `HistoryInv`
says that the answers missing from the history are exactly the open calls, in
order; the bare property says nothing of a history with open calls, so it is not
inductive. On it rest, for any sessions, inputs and runs:

* `DiskIsMemory`: `DiskFollowsMemory` is inductive once the snapshot is known to
  extend the messages it was taken from (`SnapshotExtends`) and `saved` to lie
  within it;
* `OnlyCutsSpoilAChat`: `WholeInv` says, for a session that was never cut, that
  its rows are complete whenever nobody is storing a turn into them
  (`StoredWhole`), so are the messages of the chat that has it open
  (`MemoryWhole`), the run on them keeps `HistoryInv` (`RunWhole`), and while a
  turn is being stored its snapshot is complete although the rows are not
  (`SaveWhole`). A session resumed later starts from `StoredWhole`.

`AgentProofs` proves, for every set of calls, registry, budget and channel
capacity allowed by the assumptions of `Conversation` and `AgentLoop`:

* `TypeCorrect`: `TypeOK`, from the inductive `LoopInv`, which adds where
  `next` and `calls` stand at each await (a call is being dispatched exactly
  between `approve` and `report`, none is left once the loop is at its head);
* `LoopImplementsProtocol`: each step of `AgentLoop` is a step or a stutter of
  `ChatProtocol` with the calls from `next` on as the open ones;
* `HistoryStaysComplete`: from the refinement and the protocol's invariant;
* `RequestsStayFaithful`: a complete history of messages made by the
  constructors of `message.rs` (`MessagesWellMade`, inductive with `HistoryInv`)
  is turned into faithful bodies (`CompleteIsFaithful`). `Stands` says of the
  first n messages that the turns and what is pending hold all their blocks in
  order, that of any two turns but the last the second has the results of the
  first's calls, and that what is pending are the results so far of the last
  turn: as many as messages since the turn that is `Due`, or all, if none is.
  Each role of the next message keeps it (`OneMoreStands`); as the conversion is
  a recursive function, the least n at which it fails is shown not to exist
  (`WholeHistoryStands`). The pairing of calls with results is a bijection that
  keeps their order (`Returns`), the order of blocks an equation between
  flattened sequences;
* `NoToolRunsUnapproved`: from `GateInv`, which adds that at `start` and
  `dispatch` the last entry of the ledger is the decision for the current call
  and that every earlier run belongs to an earlier answer position;
* `ReportsStayTruthful`: `ReportsAreTruthful`, in three parts. `TruthInv` adds
  that no entry of the ledger is for a slot beyond the one in service, and what
  the ledger says of that one at each await. `OutcomeInv` counts the turns with
  calls by `iter` and the turn in dispatch, and says that a turn without calls
  is the last message. `EventsMirrorHistory` is inductive as it stands, given
  how many events of the channel carry a message when one is sent
  (`CarriedStep`) or received (`CarriedTail`).

On the tools it proves, for any agents, texts, limit, number of calls and
mishaps, from `WorkspaceInv`:

* `ChangesStayKept`: `KeptInv` says of a file on which no two changes overlapped
  that one change at most is under way on it and, unless the file was damaged,
  that what it will write is what it promises of the file as it is known; a tool
  reads the file before its write is queued, so this holds of the text it read
  only because nothing came between. What damages a file by itself (a write that
  failed half way, an edit of a string that overlaps itself, an update that does
  not find the description) is a cause the property names, until the file is
  written as a whole again. Where occurrences do not overlap, the matches are all
  of them (`MatchesAll`), and an edit that is not refused does what it promises
  (`EditPromises`);
* `NothingGetsLoose`: `Attended` and `Nested` add to the property that an agent
  has one job at most and one sub-agent at most, without which a job that ends,
  or a sub-agent that answers, could leave another behind;
* `MarkersStayHonest`: inductive; that a body in chunks is marked exactly if a
  part of it was not read is `ChunkStaysWhole`, for any number of chunks. What a
  tool leaves out without a mark is named by what it is.

`McpProofs` proves of the stdio transport, for any finite set of callers, any
pipe and any number of server requests, that the transport keeps its types (with who holds the
stdin lock, `TypesKept`), that the pending map is exact (`PendingExact`), that
answers reach their own callers (`NoForeignAnswers`) and that lines stay whole
while nobody was dropped (`LinesStayWhole`). None is inductive alone.
`StdioInv` adds that ids are drawn one by one, so that no two callers have the
same and `nextId` is one more than the number of calls begun (`Numbered`; it
also bounds `nextId`), that an answer on its way carries the id of the call it
answers and only calls that have begun travel (`Traced`), and that a channel
never holds another caller's answer (`Delivered`). `Framed` adds that the pieces
in the pipe, after what the server has read of a line, are bodies and newlines
in turn, and that the next piece is a newline exactly while the holder of the
lock is between its two writes.

`McpProofs!CallsStayUnmixed`: from `HttpInv`, for any servers and callers. A
name the registry knows leads to a server that listed a tool of its own that is
exposed under it (`LoadInv`), whichever server was registered last; a caller that
waits has one request on its way, with its id and to the server it looked up, and
nothing in it that belongs to another's (`CallsFitTheirServer`, `Waited`,
`Noted`). `TokenGoesFirst` needs that a transport that was built while a token was
stored has the token: one that carries the variable instead was built before, so
the token has been `overtaken`.

`DaemonProofs` proves two properties of the gateway for any traffic, channel capacity, number
of deaths, broken sockets and service commands, from one invariant per
platform:

* Telegram (`TelegramInv`): `Past` is the last update the process or an earlier
  one is through with. The batch goes on from there without a gap (`Batched`),
  `confirmed` lies below it, and the offset the next poll carries is never
  further than one past it; every update up to `Past` is done, and one beyond
  `Past` was forwarded only by a process that ended before Telegram was told.
  The bare property speaks of `confirmed` only, which lags behind the loop.
* Slack (`SlackInv`): an envelope Slack was told of is forwarded, at hand or
  gone with its process; the one at hand was forwarded before only if its
  acknowledgement went unheard.
* Discord (`DiscordInv`): an event has one handler, which forwards it once.

`NothingTakenOverIsLost` and `TwiceOnlyWithACause` follow.

`DaemonProofs!ScheduleStaysKept` proves both halves of `ScheduleIsKept`, for any
jobs, files, times and size of the queue, from `CronInv`. `SleeperInv` says
where the task of a job stands by the wall clock as long as that was not set
back: asleep, the time it is now and the time left to sleep add up to the fire
time it waits for, or to more if the clock was set forward, and of the fire times
since the start every earlier one was met and the later ones that have come were
`skipped` (`Asleep`); at the queue, that fire time has come, and those since that
were not met fell in the wait for room or were skipped (`Sending`); otherwise
nothing is open (`UpToDate`). Both say that what was queued before is earlier than
the time at hand, which is why no fire time is queued twice.
That nothing lies between now and the time a task goes to sleep for is
`NextIsAhead`.

`SettingsProofs!KeysAndPromptsStayHome`, for any terminals, shells, first files
and chains: `FileInv` says that the base URL and the key variable in the file
fit its provider unless setup or the command line changed the provider under
them (`misfit`), and that a prompt in it is its own unless `merlion model` saved
a borrowed one (`leaked`); `CopyInv` says it of what a command is about to
write, which is what makes the first inductive when two terminals interleave.
`EnteredKeysAreTheUsed`, from an invariant of its own: what was saved last for a
variable is on the first line for it in `.env`, or excused by a cause the
property names (`SavedInv`); a provider with a key in the pool has a line, or a
command stands right before writing it (`PoolInv`). What makes it inductive is
what a command knows: a variable it takes for missing had no line when it read
`.env`, so the line it appends is the first unless another command appended one
since, which is `raced` (`FoundInv`), and it asks only for what is missing or
what setup was told to replace (`AskInv`).

The properties of `Home` are proved in `SettingsProofs` too, for any processes,
entries, sessions and number of directories. They rest on `DirectoryInv`, which
one induction gives together with `MessagesStayInPlace`:

* `HomeTypes`: what a process carries at each step (`Carried`: a copy consists
  of entries of its file, a memory command has one name, ...), what each file
  may hold, and that one import at a time runs, of an archive nobody writes
  (`AtArchive`);
* `DbInv`: every database, its main file and what an archive has of either is
  sound, or put together wrongly (`Corrupt`). Sound means that ids stay below
  the next one, that a row has a session, and that one process's rows of a
  session are numbered in the order of their ids. A connection leads to a sound
  database, and to the live one only while nobody unpacks it (`Connections`).
  The `ord` a process has selected is above all its rows of the session, for as
  long as it stands between the two statements (`Ahead`): others may insert
  rows there, prune the session, replace the directory;
* `ActiveInv`: a session used since the cutoff is fresh in the live database,
  or a message of it is stored and its touch still to come (`Midway`); and a
  prune does not delete it, or has heard of it after it looked.

The others each add an invariant. `EntriesStayKept`, from `KeptInv`: a file
that is not spoiled is used by one process at a time (`Exclusive`), the copy
that process holds is what its command makes of the entries (`Copied`), every
chat knows the approvals that are in the file (`AlwaysKnown`), and while the
directory is replaced all is spoiled. `IndexStaysMatched`, from `IndexInv`: a
process that goes on to the index has stored or removed its body (`BodyFirst`)
and its copy is the index with its one line changed (`LineNext`); `Exclusive`
makes it the only one there. `ArchivesRestore`, from `ArchiveInv`: while nobody
writes, what has been copied is what is there (`CopiedSoFar`), a whole archive
has a main file and a log that belong together (`HeldWhole`), and what has been
unpacked is what it holds (`UnpackedSoFar`), whichever part comes first.
`SkillsStayOffered`, an action property, from `SkillInv`: a skill that is not
being written and not unsure has one file, which is whole or `odd`, exactly if it
is the user's (`Settled`); and only the start of a chat gives a process a session
(`ChatsAreOpened`).

`DispatcherProofs` proves all four safety properties of the dispatcher, for any
accounts, allowlist, join keys, traffic and number of tasks, failures and
restarts, from `DispatcherInv`, the conjunction of

* `TaskShape`: what a task carries in each phase (only an engaged one has
  messages, only a saving one has some left to save, all of them its own);
* `PromptInv`: of all tasks at most one stands between `create_session` and the
  append of the system prompt, its session has a row and no message, and every
  session a task works in or the map remembers has its prompt stored. This is
  what the lock held across the two statements buys;
* `EntryInv`: every binding in force or in the file was invited, and a task
  works in its author's session or in one the author was invited to. A binding
  may be gone by the time a task that resolved it writes, so the property speaks
  of invitations and not of bindings;
* `MemoryInv`: what a task or the map remembers embeds in the session's rows at
  strictly increasing positions. `MemoryFollowsDisk` is stated with `Within`, a
  recursive matching TLC can evaluate; `EmbeddedIsWithin` shows that an
  embedding makes the matching succeed (by the least row at which the matching
  would fall behind the embedding), and the positions are what a step can extend;
* `SerialInv`: in a session that was never shared by two tasks at once, the one
  holder has the state and the map has none, until it is put back;
* `CompleteInv`: in such a session, if no turn was half stored either, the rows
  are complete unless the holder is storing the rest, and then they will be;
* `SilenceInv`: a row without a message that nobody is about to fill stays so
  (`StuckForGood`) and was caused by a failure or a death (`StuckHasACause`);
  and there are no more failed tasks than failures, or there is such a row.

`SessionsStayProper`, `MemoryIsDisk`, `OnlyOverlapSpoils` and `SilenceIsCaused`
follow.

`LlmStreamProofs` proves who is asked, for any chain and any number of attempts
(`FallThroughEarned`, `RetriesAreBounded`), from `AskInv`: the property itself,
and that while a provider is asked `attempt` equals the number of requests it
has received, without which neither "used up its attempts" (`Exhausted`) nor
"has sent nothing" (a vertex client's part of `LooksExhausted`) can be concluded.

What becomes of the body (`RepliesAreReadWhole`) is proved for bodies of any
length, any calls in any number of pieces and any chunks, from `AskInv` and
`ReadInv`: while a body streams, what the client holds is determined by the
events parsed (`Assembled`), wherever the chunks ended. The texts are as many
as the text events, each call has the pieces that came for it, `open` has what
was opened and not closed, and `closed` lists the calls as their blocks were
completed. Two things lead from there to `CallsIn`. A set of numbers has one
list in order (`OrdersAgree`, by the least place at which two such lists would
differ), so the calls openai.rs keeps by index are handed over as they were
begun; and blocks that close in the order they open list the same calls
(`ClosedAsOpened`). The step is one more event (`UpToMore`, `ListMore`,
`PiecesMore`). What the theorem needs of the providers is `RepliesAssumption`:
the finish reason comes after all but the end mark, indices of openai calls
ascend, an anthropic block is closed in its turn and after all its pieces, and
only an error leaves a call unfinished. It constrains what a provider means to
send; the model still cuts, breaks and chunks that at will. In the run TLC
evaluates it for the bodies of `MCReplies`.

It proves both properties of `Codex` too (`ThreadsStayConversations`,
`RepliesStayKnowing`), for any conversations, openings, runs at once, turns and
mishaps, from `CodexInv`, the conjunction of

* `Histories`: the disk, the memory and the request of every run tell one
  conversation (`History`): they begin alike, and a user message stands on disk
  where its number says. A thread has heard no user message that is not on disk
  (`Overheard`), so that one just said is new to every thread;
* `ThreadsOpenAlike`: every thread has one opening, which every message it
  holds, every entry of the client's map that leads to it and every run that
  resumed it share. Without the last two it would not survive the next resume;
* `RunsApart` and `NotYetHeard`: no two runs were started for the same message,
  none but its own has it in its request while nothing overlapped, and a thread
  that could yet be told it has not heard it. `HeardOnce` is a step from there;
* `Following`: a child at work has told its thread what it was started for
  (`ToldItsThread`); where no two runs overlapped, nothing that was said is
  missing from memory or from the run's request (`AllHere`); and of a
  conversation that also shares its opening with no other, the remembered
  thread has heard all but what the run at work is about to tell it or Codex was
  not alone to serve (`KnownToCodex`), and that run resumed this thread
  (`Resumes`). It holds because nothing but the end of that run changes the
  entry of its opening: a restart empties the map but drops the run, another
  conversation has another opening.

Assumptions, all named, and evaluated by TLC in every run: `CallsAssumption` and
`HistoriesAssumption` (the calls of a turn come from `Calls`, starting
histories are complete), `BoundsAssumption` (the channel has room for one
event), `TransportAssumption` (the callers are finitely many),
`ProvidersAssumption` (there is a primary provider), `RepliesAssumption` (what
a provider means to send, above), `MessagesAssumption` (starting histories have
the shapes `message.rs` makes, and an id goes with one tool), `GatewayAssumption` (a
platform numbers its messages, Telegram without gaps), `McpHttpAssumption`,
`SettingsAssumption`, `FirstFilesAssumption` (the configuration found at the
start is one in which the settings fit their provider), `CronAssumption` (the
files map names to jobs whose fire times lie within the horizon),
`WorkspaceAssumption` (the chat's agent is no sub-agent, a file holds tokens),
`HomeAssumption`, `NoContentAssumption` (the values that stand for a file that
does not parse and for a database put together wrongly are no contents of one),
`CodexAssumption` (what is said later never opens a conversation, and the value
that stands for "none" is no conversation), `DispatcherAssumption`
(the messages that arrive are commands the parser knows, keys lead to sessions
of the CLI, a run that returns Ok appends a complete list of messages of the
assistant and of tools, which are what `run` pushes at agent.rs:152 and :208),
and `NoSessionIsNone`, `NoValueAssumption` (the values that stand for "none" are
no sessions, keys or processes).

Only model-checked: every liveness property (under fairness, and with ENABLED,
out of the prover's reach). Every invariant and action property
of the passing runs is a theorem.

## 5. Where the program does not do what it says

Each of these is a property a comment or a test of the repository states, a run in
which TLC finds it violated, and an entry under `findings` in `PROJECT.json`. The
passing runs check what holds instead.

1. *A key entered again is not used* (`later_key`, `LaterKeyWins`). setup.rs:901-903:
   "`dotenvy` reads top-to-bottom and later values win, so re-running the wizard
   correctly overrides an earlier key"; the test at line 1034 repeats it and looks
   at the file only. `dotenvy::from_path` (lib.rs:229 of `merlion-config`) sets what
   is not set yet, so the first line wins. What holds: `EnteredKeysAreUsed`.
2. *Turns do not alternate* (`alternation`, `TurnsAlternate`). gemini.rs:147-148: "the
   same collapsing rule as Anthropic, since Gemini also requires alternating
   user/model turns". Only tool messages are collapsed: after a run that was
   interrupted, or failed, before any reply, the next request has two user turns
   in a row, in four clients. What holds: `RequestsAreFaithful`, which is about
   calls and results. Whether the services refuse such a request is not to be read
   off this repository.
3. *A request falls through without exhaustion* (`exhaustion`,
   `OnlyExhaustionFallsThrough`). fallback.rs:10-14: "only after the primary's own
   per-provider retry budget has been exhausted"; a 4xx, it goes on, surfaces
   immediately, and so says the test at line 244. `is_retriable` searches the whole
   text of the error, which quotes the body of a refusal and gcloud's stderr. What
   holds: `FallThroughIsEarned`.
4. *A second tool of a name is not rejected* (`duplicates`, `DuplicatesAreRejected`).
   proxy.rs:79-82: "the upstream `ToolRegistry` will reject duplicates if they
   happen". `register_arc` (tool.rs:47-50) inserts into a map: the later tool
   replaces the earlier. What holds: `CallsFitTheirServer`.

## 6. Abstractions, and what is not modelled

Texts are reduced to what the rules can tell apart (empty or not, a result, a
truncated one, a rejection; tokens of a file). Timeouts and expiry are choices.
What a command, a server or a model does is a choice. In `AgentLoop` a tool
call is one step; what tools do to files is `Workspace`. The dispatcher's agent
run is one step with a complete outcome, an error or a panic; its inner steps
are `AgentLoop`. `LlmStream` leaves out the length of the backoff, usage figures
(the agent stops reading at Done) and characters: a chunk that ends inside one
has it replaced (`from_utf8_lossy`), which changes texts and not their order.
`Settings` holds the credentials of bedrock and vertex as one variable each.
The database of `ChatSession` and of `Dispatcher` serves one process; two
processes on one database are `Home`. `Dispatcher` has the join store attached
(`with_join_store`), which the tests do and the gateway process does not.

### Not modelled

* `notify` of the stdio transport (the writing half of `request`) and the task
  that logs a server's stderr.
* The end of the terminal's event stream during a run; drawing, colours,
  editing a line: no state another part depends on.
* The request signing of bedrock, the service account's token of vertex, tool
  schemas: data without order.
* The `.env` of a project directory, `MERLION_MODEL` and its like for one
  process, `auth reset`, codex's own sign-in, a codex client twice in a chain.
* The curator's counter that prefixes every 20th message with a reminder.
* `update` (it swaps the binary), `vacuum` (it keeps the contents), and the
  commands that only read: `search`, `list`, `status`, `logs`, `debug`, `dump`,
  `hooks`, `tools`, the exports.

## 7. Observations

Behaviour met while the modules were written, kept in them as the code has it.
No property of a passing run calls it right; where one would be false for one of
these reasons, it names the cause.

1. The cap on tool results counts bytes and cuts with `String::truncate`, which
   panics inside a character, after the tool has run (agent.rs:195); so does
   the cap of `bash` on its output.
2. An interrupt between a call and its answer leaves a history the provider
   rejects at every later input; it is also what is stored (tui/app.rs:635).
3. `/new` in the console goes on writing to the old session; `/new` in a
   messenger forgets nothing: the next message reloads the history.
4. A server's own request with the id of a pending call resolves that call with
   null (stdio.rs:92).
5. The providers of the fallback chain are asked for the primary's model; the
   model of an entry is never used. `resolve_provider` refuses an unknown
   provider even when a base URL is given.
6. The gateway ends with the first adapter that ends, with status 0, after
   which systemd, told `Restart=on-failure`, does not start it again
   (main.rs:1418).
7. Loading a stdio MCP server that never reads blocks the chat's start; a
   notification over HTTP has no timeout (http.rs:253).
8. A stored OAuth token goes before `bearer_env` also after it has expired
   (main.rs:1176). The callback's listener accepts one connection, whoever it
   is from (oauth.rs:328).
9. A line is written to a stdio MCP server outside the timeout of its request
   (stdio.rs:186 against :191), with stdin's lock held: a server that stops
   reading holds its callers, and the chat's start, for ever.
10. The chat never reads the state `curator pause` writes.
11. Codex's stderr is read only after its child has ended with an error
    (codex.rs:270): a child that fills the pipe waits for ever.
12. The delay until a job's next fire time is taken from the wall clock and slept
    by tokio's (scheduler.rs:62-71): when the wall clock is set forward, or the
    machine suspended, a job runs late and the fire times in between are skipped.
13. `read` shows 2000 lines when it is not asked for a number (read.rs:48-52), and
    `web_search` 400 characters of each result (web_search.rs:121-127), without a
    mark; `glob` passes over what it cannot read, and asked for none says there
    are no matches.
14. `edit` counts matches that do not overlap (edit.rs:57), so a string that
    overlaps itself ("aa" in "aaa") passes for unique. A write that fails after it
    emptied the file leaves a part of it; nothing is written beside and renamed.
15. `skill_create` puts the description into the front matter as it is
    (skill_tools.rs:236-239): one that is no YAML scalar (": ", a leading "[") makes
    a file the loader skips, and a skill named `readme` is never loaded
    (loader.rs:76). `skill_update` without a description keeps it only if it
    stands on a line of its own (skill_tools.rs:241-255): a folded one is lost.

## 8. What is left

* The refinement of `Dispatcher` to a queue per session, which the code does
  not implement (two tasks of one session overlap): the cause, `overlapped`, is
  a history variable of the model instead.
* Some properties excuse what they cannot promise, and say so in their comments:
  entries and archives while two processes overlap (`EntriesAreKept` is about files
  that are not spoiled, `ArchiveRestores` about quiet times), calls that were
  cut loose (`NothingOutlivesItsCall`), and the gateway that systemd does not
  start again after status 0 (observation 6). They would not notice a change for
  the worse in what they excuse. The rows of the search index are not modelled.
* A composition of `Gateway` with `Dispatcher`, and of `Codex` with
  `ChatSession`; today each has the other as a choice of outcomes.
* Three terminals in `Settings` and three processes in `Home`: the state spaces
  grow past what a short run can visit.
