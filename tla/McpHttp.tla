------------------------------ MODULE McpHttp ------------------------------
(***************************************************************************)
(* MCP servers as a chat sees them: autoload_server connects to each       *)
(* enabled server in turn and registers a proxy for each of its tools; an  *)
(* agent and its sub-agents then call the proxies, over the transport that *)
(* POSTs each request and reads its answer from the body or from an event  *)
(* stream. `merlion mcp test` goes through the same steps with one server, *)
(* `merlion mcp oauth` obtains the token a later connection sends.         *)
(*                                                                         *)
(* A name is the sequence of its words, so that names joined by            *)
(* underscores may coincide.                                               *)
(***************************************************************************)
EXTENDS Naturals, Sequences

CONSTANTS
    Agents,
    Loader,
    Servers,        \* [name, http, tools, env]: in the order of the registry's BTreeMap
    Tests,          \* the servers `merlion mcp test` may be asked to test
    MaxCalls, MaxFaults

ASSUME McpHttpAssumption ==
    /\ Servers \in Seq([name : Seq(STRING), http : BOOLEAN, tools : SUBSET Seq(STRING), env : BOOLEAN])
    /\ Tests \subseteq DOMAIN Servers /\ Loader \notin Agents

VARIABLES
    program,      \* "chat", or "test"
    current, step, \* the server being loaded, and how far; 0 when loading has ended
    bearer,       \* of each server: what its transport sends, once it is built
    registry,     \* exposed name -> the server and the tool behind it
    calling,      \* what each caller waits for: "nothing", or a call; its last answer
    posts, next,  \* requests on their way, and the next id of each transport
    asked, faults,
    stored,       \* servers mcp-tokens.yaml has a token for
    flow,         \* an authorization: where it is, and for which server
    deaf,         \* stdio servers that have stopped reading their input
    misnumbered,  \* history: requests answered with a JSON body of another id
    overtaken     \* history: servers whose token was stored after the connection

load == <<program, current, step, bearer, registry>>
wire == <<posts, next, misnumbered>>
tokens == <<stored, flow, overtaken>>
httpVars == <<load, calling, wire, asked, faults, tokens, deaf>>

Fault == faults < MaxFaults /\ faults' = faults + 1
NoFault == UNCHANGED faults

(***************************************************************************)
(* Requests                                                                *)
(***************************************************************************)
(* script: what the server has sent and has not been read; "quiet" is an   *)
(* event stream that stays open. A request to a stdio server is a line     *)
(* that first has to be written.                                           *)
Request(s, method, tool, by) ==
    [server |-> s, id |-> next[s], method |-> method, tool |-> tool, by |-> by,
     bearer |-> bearer[s], kind |-> IF Servers[s].http THEN "none" ELSE "unwritten",
     script |-> <<>>]
Sends(s, method, tool, by) ==
    /\ posts' = posts \cup {Request(s, method, tool, by)}
    /\ next' = [next EXCEPT ![s] = @ + 1] /\ UNCHANGED misnumbered
Answered(p, kind, script) ==
    /\ posts' = (posts \ {p}) \cup {[p EXCEPT !.kind = kind, !.script = script]}
    /\ UNCHANGED <<load, calling, next, asked, tokens, deaf>>
Open(p) == p \in posts /\ p.kind = "none"

(* The line goes into the pipe; one that does not fit waits for the server *)
(* to read, and so do the lines behind it.                                 *)
Written(p) ==
    /\ p \in posts /\ p.kind = "unwritten" /\ Answered(p, "none", <<>>)
    /\ NoFault /\ UNCHANGED misnumbered
Deafens(s) ==
    /\ ~Servers[s].http /\ s \notin deaf /\ Fault /\ deaf' = deaf \cup {s}
    /\ UNCHANGED <<load, calling, wire, asked, tokens>>

(* The server, which may also stay silent.                                 *)
Replies(p) ==
    /\ Open(p) /\ NoFault /\ UNCHANGED misnumbered
    /\ \E answer \in {"mine", "error"} :
          \/ Answered(p, "json", <<answer>>)
          \/ Servers[p.server].http /\ p.method # "notify" /\ Answered(p, "sse", <<answer>>)
RepliesBadly(p) ==
    /\ Open(p) /\ Fault
    /\ \/ Answered(p, "status", <<>>) /\ UNCHANGED misnumbered
       \/ /\ Servers[p.server].http /\ p.method # "notify" /\ Answered(p, "json", <<"other">>)
          /\ misnumbered' = misnumbered \cup {<<p.server, p.id>>}
       \/ /\ Servers[p.server].http /\ p.method # "notify"
          /\ \E script \in {<<>>, <<"quiet">>, <<"other", "mine">>, <<"junk", "mine">>} :
                 Answered(p, "sse", script)
          /\ UNCHANGED misnumbered

(* What the request ends with: the body is taken as it is, of a stream the *)
(* event with the request's id.                                            *)
SseEnds_OnAny(p) == p.kind = "sse" /\ p.script # <<>> /\ Head(p.script) \notin {"junk", "quiet"}
SseEnds(p) == p.kind = "sse" /\ p.script # <<>> /\ Head(p.script) \in {"mine", "error"}
Skips(p) ==
    /\ p \in posts /\ p.kind = "sse" /\ p.script # <<>> /\ ~SseEnds(p) /\ Head(p.script) # "quiet"
    /\ posts' = (posts \ {p}) \cup {[p EXCEPT !.script = Tail(@)]}
    /\ UNCHANGED <<load, calling, next, misnumbered, asked, faults, tokens, deaf>>
Outcome(p) ==
    CASE p.kind = "status" \/ (p.kind = "sse" /\ p.script = <<>>) -> "failed"
      [] p.script # <<>> /\ Head(p.script) = "error" -> "failed"
      [] OTHER -> Head(p.script)
Ready(p) == p \in posts /\ (p.kind \in {"json", "status"} \/ (p.kind = "sse" /\ p.script = <<>>) \/ SseEnds(p))
(* The 60 seconds are the request's: a notification has no limit, and over *)
(* stdio they begin when the line has been written.                        *)
Expires_UntilTheAnswerStarts(p) ==
    p \in posts /\ p.method # "notify" /\ p.kind = "none"
Expires(p) == p \in posts /\ p.method # "notify" /\ p.kind # "unwritten"

(***************************************************************************)
(* Loading                                                                 *)
(***************************************************************************)
Loading(s) == current = s /\ s # 0
Bearer_VariableFirst(s) ==
    IF ~Servers[s].http THEN "none" ELSE IF Servers[s].env THEN "env"
    ELSE IF s \in stored THEN "token" ELSE "none"
Bearer(s) ==
    IF ~Servers[s].http THEN "none" ELSE IF s \in stored THEN "token"
    ELSE IF Servers[s].env THEN "env" ELSE "none"
NextServer == IF program = "test" \/ current = Len(Servers) THEN 0 ELSE current + 1
(* One broken server costs the chat its tools, and the test its end.       *)
Skip(s) ==
    /\ current' = NextServer /\ step' = "connect" /\ UNCHANGED <<program, bearer, registry>>
Connect(s) ==
    /\ Loading(s) /\ step = "connect"
    /\ step' = "initialize" /\ bearer' = [bearer EXCEPT ![s] = Bearer(s)]
    /\ UNCHANGED <<program, current, registry, calling, wire, asked, faults, tokens, deaf>>
ConnectFails(s) ==
    /\ Loading(s) /\ step = "connect" /\ ~Servers[s].http /\ Fault /\ Skip(s)
    /\ UNCHANGED <<calling, wire, asked, tokens, deaf>>
Idle == \A p \in posts : p.by # Loader
Asks(s, method) ==
    /\ Loading(s) /\ Idle /\ Sends(s, method, <<>>, Loader)
    /\ UNCHANGED <<load, calling, asked, faults, tokens, deaf>>
Initialize(s) == step = "initialize" /\ Asks(s, "initialize")
Initialized(s) == step = "notify" /\ Servers[s].http /\ Asks(s, "notify")
(* Over stdio a notification is a line written to the server's input,      *)
(* without a limit.                                                        *)
InitializedLine(s) ==
    /\ Loading(s) /\ step = "notify" /\ ~Servers[s].http /\ s \notin deaf /\ step' = "list"
    /\ UNCHANGED <<program, current, bearer, registry, calling, wire, asked, faults, tokens, deaf>>
ListTools(s) == step = "list" /\ Asks(s, "list")

(* make_exposed_name and McpProxyTool::new.                                *)
Exposed(s, tool) == Servers[s].name \o tool
Proxy(s, tool) == [server |-> s, tool |-> tool]
(* register_arc: an insert, which replaces.                                *)
Registered(s) ==
    LET names == {Exposed(s, tool) : tool \in Servers[s].tools} IN
      [e \in DOMAIN registry \cup names |->
          IF e \in names THEN Proxy(s, CHOOSE tool \in Servers[s].tools : Exposed(s, tool) = e)
          ELSE registry[e]]
LoaderHears(p) ==
    /\ p.by = Loader /\ Ready(p) /\ posts' = posts \ {p}
    /\ UNCHANGED <<calling, next, misnumbered, asked, faults, tokens, deaf>>
    /\ IF Outcome(p) = "failed" THEN Skip(p.server)
       ELSE CASE p.method = "initialize" -> step' = "notify" /\ UNCHANGED <<program, current, bearer, registry>>
              [] p.method = "notify" -> step' = "list" /\ UNCHANGED <<program, current, bearer, registry>>
              [] OTHER -> /\ current' = NextServer /\ step' = "connect"
                          /\ registry' = IF program = "test" THEN registry ELSE Registered(p.server)
                          /\ UNCHANGED <<program, bearer>>
LoaderGivesUp(p) ==
    /\ p.by = Loader /\ Expires(p) /\ posts' = posts \ {p} /\ Skip(p.server)
    /\ UNCHANGED <<calling, next, misnumbered, asked, faults, tokens, deaf>>

(***************************************************************************)
(* Calls                                                                   *)
(***************************************************************************)
Chatting == program = "chat" /\ current = 0
Call(a, e) ==
    /\ Chatting /\ ~calling[a].busy /\ asked < MaxCalls /\ e \in DOMAIN registry
    /\ LET s == registry[e].server IN
         /\ Sends(s, "call", registry[e].tool, a)
         /\ calling' = [calling EXCEPT ![a] = [busy |-> TRUE, name |-> e, server |-> s,
                                                 id |-> next[s], got |-> "nothing"]]
    /\ asked' = asked + 1 /\ UNCHANGED <<load, faults, tokens, deaf>>
Returns(a, p, got) ==
    /\ calling' = [calling EXCEPT ![a].busy = FALSE, ![a].got = got] /\ posts' = posts \ {p}
    /\ UNCHANGED <<load, next, misnumbered, asked, tokens, deaf>>
Hears(a, p) == p.by = a /\ Ready(p) /\ Returns(a, p, Outcome(p)) /\ NoFault
GivesUp(a, p) == p.by = a /\ Expires(p) /\ Returns(a, p, "failed") /\ NoFault
(* The run is interrupted: the POST is dropped with its future.            *)
Dropped(a, p) == p.by = a /\ p \in posts /\ Fault /\ Returns(a, p, "nothing")

(***************************************************************************)
(* merlion mcp oauth                                                       *)
(***************************************************************************)
FlowAt(here, there) ==
    /\ flow.at = here /\ flow' = [flow EXCEPT !.at = there]
    /\ UNCHANGED <<load, calling, wire, asked, stored, overtaken, deaf>>
Authorize(s) ==
    /\ flow.at = "off" /\ Servers[s].http /\ flow' = [at |-> "discover", server |-> s]
    /\ UNCHANGED <<load, calling, wire, asked, faults, stored, overtaken, deaf>>
DiscoverMetadata == FlowAt("discover", "browser") /\ NoFault
(* The first connection to the listener is the only one it accepts: one    *)
(* without a request, or with a request for another page, ends the flow,   *)
(* as do 300 seconds without one.                                          *)
WaitForCallback == FlowAt("browser", "exchange") /\ NoFault
CallbackFails == FlowAt("browser", "done") /\ NoFault
ExchangeCode ==
    /\ flow.at = "exchange" /\ stored' = stored \cup {flow.server}
    /\ overtaken' = IF bearer[flow.server] = "unbuilt" THEN overtaken
                    ELSE overtaken \cup {flow.server}
    /\ flow' = [flow EXCEPT !.at = "done"]
    /\ UNCHANGED <<load, calling, wire, asked, faults, deaf>>
FlowFails == \E here \in {"discover", "exchange"} : FlowAt(here, "done") /\ Fault

HttpInit ==
    /\ program \in {"chat", "test"}
    /\ IF program = "test" THEN current \in Tests ELSE current = 1
    /\ step = "connect" /\ bearer = [s \in DOMAIN Servers |-> "unbuilt"] /\ registry = <<>>
    /\ calling = [a \in Agents |-> [busy |-> FALSE, name |-> <<>>, server |-> 0, id |-> 0,
                                    got |-> "nothing"]]
    /\ posts = {} /\ next = [s \in DOMAIN Servers |-> 1] /\ misnumbered = {}
    /\ asked = 0 /\ faults = 0 /\ stored = {} /\ flow = [at |-> "off", server |-> 1]
    /\ overtaken = {} /\ deaf = {}

ServerStep ==
    \/ \E p \in posts : Replies(p) \/ RepliesBadly(p) \/ Written(p)
    \/ \E s \in DOMAIN Servers : Deafens(s)
LoadStep ==
    \/ \E s \in DOMAIN Servers :
          \/ Connect(s) \/ ConnectFails(s) \/ Initialize(s) \/ Initialized(s) \/ InitializedLine(s)
          \/ ListTools(s)
    \/ \E p \in posts : LoaderHears(p) \/ LoaderGivesUp(p)
CallStep(a) ==
    \/ \E e \in DOMAIN registry : Call(a, e)
    \/ \E p \in posts : Hears(a, p) \/ GivesUp(a, p) \/ Dropped(a, p)
FlowStep ==
    \/ \E s \in DOMAIN Servers : Authorize(s)
    \/ DiscoverMetadata \/ WaitForCallback \/ CallbackFails \/ ExchangeCode
    \/ FlowFails
SkipStep == \E p \in posts : Skips(p)
HttpNext == ServerStep \/ LoadStep \/ (\E a \in Agents : CallStep(a)) \/ FlowStep \/ SkipStep

(* The runtime polls what is ready and fires its timers. A server owes no  *)
(* answer; one that has not stopped reading takes the lines it is written. *)
Polled(a) == \E p \in posts : Hears(a, p) \/ GivesUp(a, p)
LineTaken == \E p \in posts : p.server \notin deaf /\ Written(p)
HttpSpec ==
    /\ HttpInit /\ [][HttpNext]_httpVars
    /\ WF_httpVars(LoadStep) /\ WF_httpVars(SkipStep) /\ WF_httpVars(LineTaken)
    /\ \A a \in Agents : WF_httpVars(Polled(a))

-----------------------------------------------------------------------------
(* What a call returns is the server's answer to that very call, unless    *)
(* the server put another id into a JSON body: the event stream is read    *)
(* past the answers to others.                                             *)
RepliesAreOwn ==
    \A a \in Agents : calling[a].got = "other" => <<calling[a].server, calling[a].id>> \in misnumbered

(* Whoever else exposes the same name, and whichever of them was loaded, a *)
(* call goes to a server that listed a tool of the called name, under that *)
(* server's own name for it.                                               *)
CallsFitTheirServer ==
    \A p \in posts : p.method = "call" =>
        /\ p.tool \in Servers[p.server].tools
        /\ Exposed(p.server, p.tool) = calling[p.by].name

(* The transport prefers a stored token to bearer_env: a request carries   *)
(* the variable's value for a server that has a token only if the token    *)
(* was stored after the connection was made.                               *)
TokenGoesFirst ==
    \A p \in posts :
        /\ p.bearer = "token" => p.server \in stored
        /\ p.bearer = "env" /\ p.server \in stored => p.server \in overtaken

(* Neither what is asked, nor as whom, nor what is answered is mixed up    *)
(* between servers and calls: the three parts above.                       *)
CallsAreUnmixed == RepliesAreOwn /\ CallsFitTheirServer /\ TokenGoesFirst

(* Every call returns: the request's own timer ends it where the server    *)
(* does not, unless it waits for ever, for a stdio server that has stopped *)
(* reading to take its line: write_line is outside the timeout.            *)
Unread(a) == \E p \in posts : p.by = a /\ p.kind = "unwritten" /\ p.server \in deaf
EveryCallReturns == \A a \in Agents : calling[a].busy ~> (~calling[a].busy \/ []Unread(a))

(* What make_exposed_name says of two tools exposed under one name: the    *)
(* registry rejects the second.  It does not hold: the second replaces the *)
(* first, and a call reaches another server than it did.                   *)
DuplicatesAreRejected ==
    [][\A e \in DOMAIN registry : e \in DOMAIN registry' /\ registry'[e] = registry[e]]_httpVars
=============================================================================
