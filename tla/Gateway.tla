------------------------------ MODULE Gateway ------------------------------
(***************************************************************************)
(* The gateway process: the Telegram, Discord and Slack adapters of        *)
(* merlion-gateway, the channels spawn_dispatcher (main.rs) gives each of  *)
(* them, the end of the process with the first of its tasks that ends      *)
(* (start_gateways), and the background service that runs it               *)
(* (gateway_service.rs) under launchd or systemd.                          *)
(*                                                                         *)
(* The dispatcher between the channels is reduced to what Dispatcher says  *)
(* of it: a task per message, which ends with a reply or in silence.       *)
(***************************************************************************)
EXTENDS Naturals, Sequences

CONSTANTS
    Messages,        \* records [platform, n, kind]; n numbers a platform's messages
    Traffic,         \* for each set of platforms whose tokens may be in the
                     \* environment: the messages users write to them
    Managers,        \* subset of {"launchd", "systemd"}
    NoMessage,
    Capacity,        \* of a channel (64 in the program)
    MaxMishaps,      \* ends of the process that nobody ordered, and broken sockets
    MaxOrders        \* service commands given

Platforms == {"telegram", "discord", "slack"}
Kinds == {"text", "voice", "sticker",       \* Telegram
          "direct", "mention", "chatter", "bot"}   \* Discord and Slack

ASSUME GatewayAssumption ==
    /\ Messages \subseteq [platform : Platforms, n : Nat \ {0}, kind : Kinds]
    /\ NoMessage \notin Messages
    /\ Managers \subseteq {"launchd", "systemd"}
    /\ DOMAIN Traffic \subseteq SUBSET Platforms
    /\ \A t \in DOMAIN Traffic : Traffic[t] \subseteq {m \in Messages : m.platform \in t}
    /\ \A t \in DOMAIN Traffic : \A m1, m2 \in Traffic[t] :
         m1.platform = m2.platform /\ m1.n = m2.n => m1 = m2
    \* Telegram numbers its updates one by one
    /\ \A t \in DOMAIN Traffic : \A m \in Traffic[t] : m.platform = "telegram" =>
         \A i \in 1..m.n : \E k \in Traffic[t] : k.platform = "telegram" /\ k.n = i
    /\ \A m \in Messages : m.platform = "telegram" => m.kind \in {"text", "voice", "sticker"}
    /\ Capacity \in Nat \ {0} /\ MaxMishaps \in Nat /\ MaxOrders \in Nat

VARIABLES
    \* the machine: never lost
    manager, tokens,
    installed,   \* the unit file is there and loaded
    wanted,      \* the manager means to keep the service running
    proc,        \* "up" | "down"
    exit,        \* how the last process ended: "none", "ok", "failed", "stopped"
    mishaps, orders,
    \* the platforms
    posted,      \* messages written by users
    confirmed,   \* Telegram: updates up to here are not delivered again
    acked,       \* Slack: envelopes whose acknowledgement has arrived
    seen,        \* Discord: events dispatched, or missed for good
    \* the Telegram adapter
    tg, offset, batch,
    \* the Slack adapter: its loop, its socket, what was read from the socket,
    \* acknowledgements on their way, the envelope at hand
    sl, socket, onSocket, ackWire, cur,
    \* Discord event handlers waiting for room in the channel
    waiting,
    \* the channels and the dispatcher's tasks
    inbox, handling, outbox,
    \* history: times handed to the dispatcher; settled by a reply, a failed
    \* send or silence; in memory when a process ended; delivered again and why
    forwarded, settled, gone, unheard, redone, unread

machine   == <<manager, tokens, installed, wanted, proc, exit, mishaps, orders>>
telegram  == <<tg, offset, batch>>
slack     == <<sl, socket, onSocket, ackWire, cur>>
channels  == <<inbox, handling, outbox>>
history   == <<forwarded, settled, gone, unheard, redone, unread>>
platforms == <<posted, confirmed, acked, seen>>
vars == <<machine, platforms, telegram, slack, waiting, channels, history>>

Of(p) == {m \in Messages : m.platform = p}
Update(n) == CHOOSE m \in Of("telegram") \cap posted : m.n = n
Larger(i, j) == IF i < j THEN j ELSE i
Below == IF offset = 0 THEN 0 ELSE offset - 1
Occurs(m, s) == \E i \in DOMAIN s : s[i] = m

(* What the adapters of Discord and Slack pass on: not from a bot, and     *)
(* direct or a mention. Telegram: a text, or a voice message whose         *)
(* transcription succeeds.                                                 *)
Addressed(m) == m.kind \in {"direct", "mention"}
Forwardable(m) == Addressed(m) \/ m.kind \in {"text", "voice"}

(* What a process holds of the messages it has taken over.                 *)
Held(m) ==
    \/ Occurs(m, inbox[m.platform]) \/ handling[m] > 0 \/ Occurs(m, outbox[m.platform])
    \/ m \in waiting \/ cur = m

(***************************************************************************)
(* Starting and ending the process                                         *)
(***************************************************************************)
FreshMemory ==
    /\ tg' = "poll" /\ offset' = 0 /\ batch' = <<>>
    /\ sl' = "auth" /\ socket' = FALSE /\ onSocket' = {} /\ cur' = NoMessage
    /\ waiting' = {}
    /\ inbox' = [p \in Platforms |-> <<>>]
    /\ handling' = [m \in Messages |-> 0]
    /\ outbox' = [p \in Platforms |-> <<>>]

(* A process ends: what it held is gone, acknowledgements not yet sent     *)
(* out by the socket are lost or arrive.                                   *)
Ended(how) ==
    /\ proc' = "down" /\ exit' = how
    /\ gone' = gone \cup {m \in Messages : Held(m)}
    /\ redone' = redone \cup {m \in Of("telegram") : forwarded[m] > 0 /\ m.n > confirmed}
    /\ \E arrived \in SUBSET ackWire :
         /\ acked' = acked \cup arrived
         /\ unheard' = unheard \cup (ackWire \ arrived)
    /\ ackWire' = {}
    /\ FreshMemory
    /\ UNCHANGED <<posted, confirmed, forwarded, settled, unread>>

(* A new Discord connection is not sent the events of before.              *)
Booted ==
    LET missed == (Of("discord") \cap posted) \ seen IN
    /\ proc' = "up"
    /\ seen' = seen \cup missed
    /\ unread' = unread \cup missed

(* The manager starts the process: KeepAlive always, Restart=on-failure    *)
(* after an exit status other than 0 (which a boot that fails has: no      *)
(* token, no provider, no database).                                       *)
KeepAlive == manager = "launchd"
RestartOnFailure == manager = "systemd" /\ exit = "failed"
Respawns == /\ installed /\ wanted /\ proc = "down"
            /\ exit = "none" \/ KeepAlive \/ RestartOnFailure
Respawn ==
    /\ Respawns /\ tokens # {}
    /\ Booted
    /\ UNCHANGED <<manager, tokens, installed, wanted, exit, mishaps, orders, posted, confirmed,
                   acked, telegram, slack, waiting, channels, forwarded, settled, gone,
                   unheard, redone>>
BootFails ==
    /\ Respawns
    /\ exit' = "failed"
    /\ UNCHANGED <<manager, tokens, installed, wanted, proc, mishaps, orders, platforms,
                   telegram, slack, waiting, channels, history>>

(* select_all: the first task that ends ends the process, with status 0.   *)
(* Discord's client returns an error, or Slack's auth.test fails. Telegram *)
(* and an authenticated Slack adapter do not end.                          *)
AdapterEnds ==
    /\ proc = "up" /\ mishaps < MaxMishaps
    /\ \/ "discord" \in tokens
       \/ "slack" \in tokens /\ sl = "auth"
    /\ mishaps' = mishaps + 1
    /\ Ended("ok")
    /\ UNCHANGED <<manager, tokens, installed, wanted, orders, seen>>

Killed ==
    /\ proc = "up" /\ mishaps < MaxMishaps
    /\ mishaps' = mishaps + 1
    /\ Ended("failed")
    /\ UNCHANGED <<manager, tokens, installed, wanted, orders, seen>>

(***************************************************************************)
(* merlion gateway install, uninstall, start, stop, restart                *)
(***************************************************************************)
Ordered == orders < MaxOrders /\ orders' = orders + 1

(* Linux: enable --now leaves a running process alone. macOS: bootout ends *)
(* it, bootstrap starts another.                                           *)
Install ==
    /\ Ordered
    /\ installed' = TRUE /\ wanted' = TRUE
    /\ IF proc = "up" /\ manager = "launchd"
       THEN Ended("none")
       ELSE /\ exit' = IF proc = "down" THEN "none" ELSE exit
            /\ UNCHANGED <<proc, posted, confirmed, acked, telegram, slack, waiting,
                           channels, history>>
    /\ UNCHANGED <<manager, tokens, mishaps, seen>>

Uninstall ==
    /\ Ordered
    /\ installed' = FALSE /\ wanted' = FALSE
    /\ IF proc = "up" THEN Ended("stopped")
       ELSE UNCHANGED <<proc, exit, posted, confirmed, acked, telegram, slack, waiting,
                        channels, history>>
    /\ UNCHANGED <<manager, tokens, mishaps, seen>>

StartService ==
    /\ installed /\ proc = "down" /\ Ordered
    /\ wanted' = TRUE /\ exit' = "none"
    /\ UNCHANGED <<manager, tokens, installed, proc, mishaps, platforms, telegram, slack,
                   waiting, channels, history>>

(* systemctl stop ends the process and the wish for it; launchctl kill     *)
(* only sends a SIGTERM.                                                   *)
StopService ==
    /\ installed /\ proc = "up" /\ Ordered
    /\ wanted' = (manager = "launchd")
    /\ Ended("stopped")
    /\ UNCHANGED <<manager, tokens, installed, mishaps, seen>>

RestartService ==
    /\ installed /\ proc = "up" /\ Ordered
    /\ wanted' = TRUE
    /\ Ended("none")
    /\ UNCHANGED <<manager, tokens, installed, mishaps, seen>>

(***************************************************************************)
(* Users                                                                   *)
(***************************************************************************)
Post(m) ==
    /\ m \in Traffic[tokens] \ posted
    /\ \A k \in Of(m.platform) \cap Traffic[tokens] : k.n < m.n => k \in posted
    /\ posted' = posted \cup {m}
    /\ UNCHANGED <<machine, confirmed, acked, seen, telegram, slack, waiting, channels, history>>

Running(p) == proc = "up" /\ p \in tokens

(* incoming_tx.send: waits for room.                                       *)
Forward(m) ==
    /\ Len(inbox[m.platform]) < Capacity
    /\ inbox' = [inbox EXCEPT ![m.platform] = Append(@, m)]
    /\ forwarded' = [forwarded EXCEPT ![m] = @ + 1]

(***************************************************************************)
(* Telegram: getUpdates confirms what lies below the offset it carries and *)
(* returns what is not confirmed. A request that fails may have arrived.   *)
(***************************************************************************)
Newest(m) == \A k \in Of("telegram") \cap posted : k.n <= m.n
Poll_ConfirmsWhatItFetches ==
    /\ Running("telegram") /\ tg = "poll"
    /\ \E m \in Of("telegram") \cap posted :
         /\ Newest(m) /\ m.n > confirmed
         /\ batch' = [i \in 1..(m.n - confirmed) |-> confirmed + i]
         /\ confirmed' = m.n
    /\ tg' = "handle"
    /\ UNCHANGED <<machine, posted, acked, seen, offset, slack, waiting, channels, history>>
Poll ==
    /\ Running("telegram") /\ tg = "poll"
    /\ confirmed' = Larger(confirmed, Below)
    /\ \E m \in Of("telegram") \cap posted :
         /\ Newest(m) /\ m.n > confirmed'
         /\ batch' = [i \in 1..(m.n - confirmed') |-> confirmed' + i]
    /\ tg' = "handle"
    /\ UNCHANGED <<machine, posted, acked, seen, offset, slack, waiting, channels, history>>

PollFails_Returns ==
    /\ Running("telegram") /\ tg = "poll"
    /\ confirmed' \in {confirmed, Larger(confirmed, Below)}
    /\ tg' = "ended"
    /\ UNCHANGED <<machine, posted, acked, seen, offset, batch, slack, waiting, channels,
                   history>>
PollFails ==
    /\ Running("telegram") /\ tg = "poll"
    /\ confirmed' \in {confirmed, Larger(confirmed, Below)}
    /\ tg' = "sleep"
    /\ UNCHANGED <<machine, posted, acked, seen, offset, batch, slack, waiting, channels,
                   history>>
PollAgain ==
    /\ Running("telegram") /\ tg = "sleep"
    /\ tg' = "poll"
    /\ UNCHANGED <<machine, platforms, offset, batch, slack, waiting, channels, history>>

(* Without a text, a voice or a sender an update is skipped.               *)
Readable(m) == m.kind \in {"text", "voice"}
NextUpdate == /\ batch' = Tail(batch)
              /\ tg' = IF Tail(batch) = <<>> THEN "poll" ELSE "handle"

(* An update is taken up, and counted, before it is converted: a text is   *)
(* forwarded, a voice message transcribed first, anything else skipped.    *)
TakeUpdate ==
    /\ Running("telegram") /\ tg = "handle"
    /\ offset' = Larger(offset, Head(batch) + 1)
    /\ LET m == Update(Head(batch)) IN
         IF Readable(m)
         THEN tg' = (IF m.kind = "voice" THEN "voice" ELSE "forward") /\ UNCHANGED batch
         ELSE NextUpdate
    /\ UNCHANGED <<machine, platforms, slack, waiting, channels, history>>

(* No key, a failed request at any of its three steps, or 60 s are over.   *)
TranscriptionFails == NextUpdate /\ unread' = unread \cup {Update(Head(batch))}

(* The whole loop waits for the transcription.                             *)
Transcribe ==
    /\ Running("telegram") /\ tg = "voice"
    /\ \/ tg' = "forward" /\ UNCHANGED <<batch, unread>>
       \/ TranscriptionFails
    /\ UNCHANGED <<machine, platforms, offset, slack, waiting, channels, forwarded, settled,
                   gone, unheard, redone>>

ForwardUpdate ==
    /\ Running("telegram") /\ tg = "forward"
    /\ Forward(Update(Head(batch)))
    /\ NextUpdate
    /\ UNCHANGED <<machine, platforms, offset, slack, waiting, handling, outbox, settled,
                   gone, unheard, redone, unread>>

(***************************************************************************)
(* Slack, Socket Mode                                                      *)
(***************************************************************************)
(* auth.test once per run of the adapter; then open a socket, waiting      *)
(* before the next attempt when one fails.                                 *)
Authenticate ==
    /\ Running("slack") /\ sl = "auth"
    /\ sl' = "connect"
    /\ UNCHANGED <<machine, platforms, telegram, socket, onSocket, ackWire, cur, waiting,
                   channels, history>>
Connect ==
    /\ Running("slack") /\ sl = "connect"
    /\ sl' = "read" /\ socket' = TRUE /\ onSocket' = {}
    /\ UNCHANGED <<machine, platforms, telegram, ackWire, cur, waiting, channels, history>>

ConnectFails ==
    /\ Running("slack") /\ sl = "connect"
    /\ sl' = "backoff"
    /\ UNCHANGED <<machine, platforms, telegram, socket, onSocket, ackWire, cur, waiting,
                   channels, history>>
ConnectAgain ==
    /\ Running("slack") /\ sl = "backoff"
    /\ sl' = "connect"
    /\ UNCHANGED <<machine, platforms, telegram, socket, onSocket, ackWire, cur, waiting,
                   channels, history>>

(* The socket breaks or the server asks to reconnect: acknowledgements on  *)
(* their way may be lost, and then their envelopes come again.             *)
Drop ==
    /\ Running("slack") /\ socket
    /\ mishaps < MaxMishaps /\ mishaps' = mishaps + 1
    /\ socket' = FALSE
    /\ \E arrived \in SUBSET ackWire :
         /\ acked' = acked \cup arrived
         /\ unheard' = unheard \cup (ackWire \ arrived)
    /\ ackWire' = {}
    /\ UNCHANGED <<manager, tokens, installed, wanted, proc, exit, orders, posted, confirmed,
                   seen, telegram, sl, onSocket, cur, waiting, channels,
                   forwarded, settled, gone, redone, unread>>
Reconnect ==
    /\ Running("slack") /\ sl = "read" /\ ~socket
    /\ sl' = "connect"
    /\ UNCHANGED <<machine, platforms, telegram, socket, onSocket, ackWire, cur, waiting,
                   channels, history>>

ReadEnvelope(m) ==
    /\ Running("slack") /\ sl = "read" /\ socket
    /\ m \in posted /\ m \notin acked \cup onSocket \cup ackWire
    /\ onSocket' = onSocket \cup {m} /\ cur' = m
    /\ sl' = "ack"
    /\ UNCHANGED <<machine, platforms, telegram, socket, ackWire, waiting, channels, history>>

(* The acknowledgement goes out first, then the envelope is looked at.     *)
AckEnvelope_Forgets ==
    /\ Running("slack") /\ sl = "ack" /\ socket
    /\ IF Addressed(cur) THEN sl' = "forward" /\ UNCHANGED cur
                         ELSE sl' = "read" /\ cur' = NoMessage
    /\ UNCHANGED <<machine, platforms, telegram, socket, onSocket, ackWire, waiting, channels,
                   history>>
AckEnvelope ==
    /\ Running("slack") /\ sl = "ack" /\ socket
    /\ ackWire' = ackWire \cup {cur}
    /\ IF Addressed(cur) THEN sl' = "forward" /\ UNCHANGED cur
                         ELSE sl' = "read" /\ cur' = NoMessage
    /\ UNCHANGED <<machine, platforms, telegram, socket, onSocket, waiting, channels, history>>
AckFails ==
    /\ Running("slack") /\ sl = "ack" /\ ~socket
    /\ sl' = "connect" /\ cur' = NoMessage
    /\ UNCHANGED <<machine, platforms, telegram, socket, onSocket, ackWire, waiting, channels,
                   history>>
AckArrives(m) ==
    /\ m \in ackWire
    /\ ackWire' = ackWire \ {m} /\ acked' = acked \cup {m}
    /\ UNCHANGED <<machine, posted, confirmed, seen, telegram, sl, socket, onSocket, cur,
                   waiting, channels, history>>

ForwardEnvelope ==
    /\ Running("slack") /\ sl = "forward"
    /\ Forward(cur)
    /\ sl' = "read" /\ cur' = NoMessage
    /\ UNCHANGED <<machine, platforms, telegram, socket, onSocket, ackWire, waiting, handling,
                   outbox, settled, gone, unheard, redone, unread>>

(***************************************************************************)
(* Discord: every event has a handler task of its own. Whether it mentions *)
(* the bot may have to be asked, and an error counts as no.                *)
(***************************************************************************)
DiscordEvent(m) ==
    /\ Running("discord") /\ m \in posted \ seen
    /\ seen' = seen \cup {m}
    /\ \/ /\ waiting' = IF Addressed(m) THEN waiting \cup {m} ELSE waiting
          /\ UNCHANGED unread
       \/ /\ m.kind = "mention"
          /\ unread' = unread \cup {m} /\ UNCHANGED waiting
    /\ UNCHANGED <<machine, posted, confirmed, acked, telegram, slack, channels, forwarded,
                   settled, gone, unheard, redone>>
ForwardEvent(m) ==
    /\ Running("discord") /\ m \in waiting
    /\ Forward(m)
    /\ waiting' = waiting \ {m}
    /\ UNCHANGED <<machine, platforms, telegram, slack, handling, outbox, settled, gone,
                   unheard, redone, unread>>

(***************************************************************************)
(* The dispatcher, and the adapters' send loops (no retry).                *)
(***************************************************************************)
Dispatch(p) ==
    /\ Running(p) /\ inbox[p] # <<>>
    /\ handling' = [handling EXCEPT ![Head(inbox[p])] = @ + 1]
    /\ inbox' = [inbox EXCEPT ![p] = Tail(@)]
    /\ UNCHANGED <<machine, platforms, telegram, slack, waiting, outbox, history>>

Answer(m) ==
    /\ Running(m.platform) /\ handling[m] > 0 /\ Len(outbox[m.platform]) < Capacity
    /\ handling' = [handling EXCEPT ![m] = @ - 1]
    /\ outbox' = [outbox EXCEPT ![m.platform] = Append(@, m)]
    /\ UNCHANGED <<machine, platforms, telegram, slack, waiting, inbox, history>>
StaySilent(m) ==
    /\ Running(m.platform) /\ handling[m] > 0
    /\ handling' = [handling EXCEPT ![m] = @ - 1]
    /\ settled' = settled \cup {m}
    /\ UNCHANGED <<machine, platforms, telegram, slack, waiting, inbox, outbox, forwarded,
                   gone, unheard, redone, unread>>

(* Sent, or dropped with a warning: an address that does not parse, a       *)
(* network error, a refusal.                                               *)
Send(p) ==
    /\ Running(p) /\ outbox[p] # <<>>
    /\ settled' = settled \cup {Head(outbox[p])}
    /\ outbox' = [outbox EXCEPT ![p] = Tail(@)]
    /\ UNCHANGED <<machine, platforms, telegram, slack, waiting, inbox, handling, forwarded,
                   gone, unheard, redone, unread>>
SendTelegram == Send("telegram")
SendSlack == Send("slack")
SendDiscord == Send("discord")

(***************************************************************************)
Init ==
    /\ manager \in Managers /\ tokens \in DOMAIN Traffic
    /\ installed \in BOOLEAN /\ wanted = installed   \* of an earlier login
    /\ proc = "down" /\ exit = "none"
    /\ mishaps = 0 /\ orders = 0
    /\ posted = {} /\ confirmed = 0 /\ acked = {} /\ seen = {}
    /\ tg = "poll" /\ offset = 0 /\ batch = <<>>
    /\ sl = "auth" /\ socket = FALSE /\ onSocket = {} /\ ackWire = {} /\ cur = NoMessage
    /\ waiting = {}
    /\ inbox = [p \in Platforms |-> <<>>]
    /\ handling = [m \in Messages |-> 0]
    /\ outbox = [p \in Platforms |-> <<>>]
    /\ forwarded = [m \in Messages |-> 0]
    /\ settled = {} /\ gone = {} /\ unheard = {} /\ redone = {} /\ unread = {}

Service == Install \/ Uninstall \/ StartService \/ StopService \/ RestartService
Manager == Respawn \/ BootFails
Mishap == AdapterEnds \/ Killed \/ Drop
Telegram == Poll \/ PollFails \/ PollAgain \/ TakeUpdate \/ Transcribe \/ ForwardUpdate
Slack == \/ Authenticate \/ Connect \/ ConnectFails \/ ConnectAgain \/ Reconnect
         \/ AckEnvelope \/ AckFails \/ ForwardEnvelope
         \/ \E m \in Of("slack") : ReadEnvelope(m) \/ AckArrives(m)
Discord == \E m \in Of("discord") : DiscordEvent(m) \/ ForwardEvent(m)
Dispatcher == \/ \E p \in Platforms : Dispatch(p)
              \/ SendTelegram \/ SendSlack \/ SendDiscord
              \/ \E m \in Messages : Answer(m) \/ StaySilent(m)
Next ==
    \/ Service \/ Manager \/ Mishap
    \/ \E m \in Messages : Post(m)
    \/ Telegram \/ Slack \/ Discord \/ Dispatcher

(* The manager does what its unit says; the tasks of a process are polled; *)
(* polls and connections succeed at last, however often they fail.         *)
Fairness ==
    /\ WF_vars(Respawn)
    /\ SF_vars(Poll) /\ WF_vars(PollAgain) /\ WF_vars(TakeUpdate) /\ WF_vars(Transcribe)
    /\ WF_vars(ForwardUpdate)
    /\ WF_vars(Authenticate) /\ SF_vars(Connect) /\ WF_vars(ConnectAgain) /\ WF_vars(Reconnect)
    /\ WF_vars(AckEnvelope) /\ WF_vars(AckFails) /\ WF_vars(ForwardEnvelope)
    /\ \A m \in Of("slack") : WF_vars(ReadEnvelope(m))
    /\ \A m \in Of("discord") : WF_vars(DiscordEvent(m)) /\ WF_vars(ForwardEvent(m))
    /\ \A p \in Platforms : WF_vars(Dispatch(p)) /\ WF_vars(Send(p))
    /\ \A m \in Messages : WF_vars(Answer(m) \/ StaySilent(m))

Spec == Init /\ [][Next]_vars
FairSpec == Spec /\ Fairness

(***************************************************************************)
(* Properties                                                              *)
(***************************************************************************)
TypeOK ==
    /\ manager \in Managers /\ tokens \in DOMAIN Traffic
    /\ installed \in BOOLEAN /\ wanted \in BOOLEAN
    /\ proc \in {"up", "down"} /\ exit \in {"none", "ok", "failed", "stopped"}
    /\ mishaps \in 0..MaxMishaps /\ orders \in 0..MaxOrders
    /\ posted \in SUBSET Messages /\ confirmed \in Nat
    /\ acked \in SUBSET Messages /\ seen \in SUBSET Messages
    /\ tg \in {"poll", "sleep", "handle", "voice", "forward"}
    /\ offset \in Nat /\ batch \in Seq(Nat)
    /\ sl \in {"auth", "connect", "backoff", "read", "ack", "forward"} /\ socket \in BOOLEAN
    /\ onSocket \in SUBSET Messages /\ ackWire \in SUBSET Messages
    /\ cur \in Messages \cup {NoMessage}
    /\ waiting \in SUBSET Messages
    /\ inbox \in [Platforms -> Seq(Messages)] /\ outbox \in [Platforms -> Seq(Messages)]
    /\ handling \in [Messages -> Nat] /\ forwarded \in [Messages -> Nat]
    /\ settled \in SUBSET Messages /\ gone \in SUBSET Messages
    /\ unheard \in SUBSET Messages /\ redone \in SUBSET Messages
    /\ unread \in SUBSET Messages

(* What a platform will not deliver again has been handed to the           *)
(* dispatcher: every Telegram update that is confirmed (unless it has      *)
(* nothing to read), whatever ended the process in between; a Slack        *)
(* envelope that is acknowledged, unless the process ended between the     *)
(* acknowledgement and the forwarding.                                     *)
TakenOverIsForwarded ==
    /\ \A m \in Of("telegram") \cap posted :
         m.n <= confirmed => forwarded[m] > 0 \/ m.kind = "sticker" \/ m \in unread
    /\ \A m \in Of("slack") :
         m \in acked /\ Addressed(m) => forwarded[m] > 0 \/ cur = m \/ m \in gone

(* A message is handed to the dispatcher, and so run by the agent, a second*)
(* time only when the process ended before Telegram was told, or when a    *)
(* socket took the acknowledgement with it.                                *)
TwiceHasACause ==
    \A m \in Messages : forwarded[m] > 1 => m \in redone \cup unheard

(* A message written while the service is wanted is answered, or settled   *)
(* in silence, unless it could not be read, was in memory when the process *)
(* ended, or the process ended with status 0 under systemd, which does not *)
(* start it again.                                                         *)
Settles ==
    \A m \in Messages :
        (m \in posted /\ Forwardable(m) /\ installed /\ wanted)
        ~> \/ m \in settled \cup unread \cup gone
           \/ ~wanted \/ exit = "stopped"
           \/ manager = "systemd" /\ exit = "ok"
=============================================================================
