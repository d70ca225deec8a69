---------------------------- MODULE DaemonProofs -----------------------------
(***************************************************************************)
(* The two daemons. What each adapter of the gateway takes over is handed  *)
(* on, and handed on once, for any traffic, any channel capacity and any   *)
(* number of deaths, broken sockets and service commands: one invariant    *)
(* for each platform. And the cron daemon keeps its schedule, for any file,*)
(* any times and any size of its queue: one invariant for each job.        *)
(***************************************************************************)
EXTENDS Gateway, Cron, SequenceTheorems, WellFoundedInduction, TLAPS

(* Telegram. Updates up to Past have been dealt with by this process or    *)
(* confirmed by an earlier one; batch goes on from there, and the offset   *)
(* the next poll will carry lies no further.                               *)
Past == IF tg \in {"poll", "sleep"} THEN Larger(confirmed, Below) ELSE batch[1] - 1
Done(m) == forwarded[m] > 0 \/ m.kind = "sticker" \/ m \in unread
Reached(n) == n = 0 \/ \E m \in Of("telegram") \cap posted : m.n >= n

InOrder ==
    \A m \in Of("telegram") \cap posted, k \in Of("telegram") \cap Traffic[tokens] :
        k.n < m.n => k \in posted
Batched ==
    tg \in {"handle", "voice", "forward"} =>
        /\ Len(batch) > 0
        /\ \A i \in 1..Len(batch) : batch[i] = batch[1] + i - 1
        /\ \A i \in 1..Len(batch) : \E m \in Of("telegram") \cap posted : m.n = batch[i]
        /\ confirmed < batch[1]
        /\ tg = "handle" => offset <= batch[1]
        /\ tg # "handle" => offset = batch[1] + 1
TelegramTypes ==
    /\ tg \in {"poll", "sleep", "handle", "voice", "forward"}
    /\ tokens \in DOMAIN Traffic /\ posted \subseteq Traffic[tokens]
    /\ confirmed \in Nat /\ offset \in Nat /\ batch \in Seq(Nat)
TelegramInv ==
    /\ TelegramTypes /\ InOrder /\ Batched
    /\ Reached(Past)
    /\ \A m \in Of("telegram") \cap posted : m.n <= Past => Done(m)
    /\ \A m \in Of("telegram") : forwarded[m] > 0 => m \in redone \/ m.n <= Past
    /\ \A m \in Of("telegram") : forwarded[m] > 1 => m \in redone

(* Slack. What Slack has been told about is forwarded or at hand, and what *)
(* was forwarded Slack has been told about or will not hear of.            *)
Told == acked \cup ackWire
SlackInv ==
    /\ sl \in {"ack", "forward"} <=> cur # NoMessage
    /\ cur # NoMessage => cur \in Of("slack")
    /\ sl = "ack" => cur \notin Told
    /\ sl = "forward" => cur \in Told \cup unheard
    /\ \A m \in Of("slack") : m \in Told /\ Addressed(m) => forwarded[m] > 0 \/ cur = m \/ m \in gone
    /\ \A m \in Of("slack") : forwarded[m] > 0 => m \in Told \cup unheard
    /\ \A m \in Of("slack") : forwarded[m] > 1 => m \in unheard
    /\ cur # NoMessage => (forwarded[cur] > 0 => cur \in unheard)

(* Discord. An event is handled by one task.                               *)
DiscordInv ==
    /\ waiting \subseteq seen \cap Of("discord")
    /\ \A m \in Of("discord") : forwarded[m] > 0 => m \in seen \ waiting
    /\ \A m \in Of("discord") : forwarded[m] <= 1

Counted == forwarded \in [Messages -> Nat]
GatewayInv == Counted /\ TelegramInv /\ SlackInv /\ DiscordInv

LEMMA MessageFacts ==
    /\ \A p \in Platforms : Of(p) \subseteq Messages
    /\ \A m \in Messages : m.n \in Nat \ {0} /\ m.platform \in Platforms
    /\ NoMessage \notin Messages
    /\ \A p, q \in Platforms : p # q => Of(p) \cap Of(q) = {}
    /\ \A t \in DOMAIN Traffic : Traffic[t] \subseteq Messages
  <1>1. \A m \in Messages : m.n \in Nat \ {0} /\ m.platform \in Platforms
        BY GatewayAssumption
  <1>2. \A t \in DOMAIN Traffic : Traffic[t] \subseteq Messages
        BY GatewayAssumption
  <1> QED BY <1>1, <1>2, GatewayAssumption DEF Of

LEMMA SameNumber ==
    ASSUME TelegramInv
    PROVE  \A m, k \in Of("telegram") \cap Traffic[tokens] : m.n = k.n => m = k
  <1> QED BY GatewayAssumption DEF TelegramInv, TelegramTypes, Of

(* A step that is not the Telegram adapter's, and likewise below.          *)
LEMMA TelegramAside ==
    ASSUME TelegramInv, UNCHANGED <<tokens, posted, confirmed, tg, offset, batch>>,
           \A m \in Of("telegram") : forwarded'[m] = forwarded[m],
           redone \subseteq redone', unread \subseteq unread'
    PROVE  TelegramInv'
  <1>1. Past' = Past /\ \A n : Reached(n)' <=> Reached(n)
        BY DEF Past, Below, Reached
  <1>2. TelegramTypes' /\ InOrder' /\ Batched'
        BY DEF TelegramInv, TelegramTypes, InOrder, Batched
  <1>3. \A m \in Of("telegram") : Done(m) => Done(m)'
        BY DEF Done
  <1> QED BY <1>1, <1>2, <1>3 DEF TelegramInv, Reached

LEMMA SlackAside ==
    ASSUME SlackInv, UNCHANGED <<sl, cur, acked, ackWire>>,
           \A m \in Of("slack") : forwarded'[m] = forwarded[m],
           gone \subseteq gone', unheard \subseteq unheard'
    PROVE  SlackInv'
  <1> QED BY DEF SlackInv, Told

LEMMA DiscordAside ==
    ASSUME DiscordInv, UNCHANGED waiting, seen \subseteq seen',
           \A m \in Of("discord") : forwarded'[m] = forwarded[m]
    PROVE  DiscordInv'
  <1> QED BY DEF DiscordInv

LEMMA InitGateway == Init => GatewayInv
  <1> SUFFICES ASSUME Init PROVE GatewayInv
      OBVIOUS
  <1>1. Counted /\ \A m \in Messages : forwarded[m] = 0
        BY DEF Init, Counted
  <1>2. Past = 0
        BY DEF Init, Past, Below, Larger
  <1>3. TelegramTypes /\ InOrder /\ Batched
    <2>1. <<>> \in Seq(Nat)
          OBVIOUS
    <2> QED BY <2>1 DEF Init, TelegramTypes, InOrder, Batched
  <1>4. TelegramInv
        BY <1>1, <1>2, <1>3, MessageFacts DEF Init, TelegramInv, Reached, Platforms
  <1>5. SlackInv /\ DiscordInv
        BY <1>1, MessageFacts DEF Init, SlackInv, DiscordInv, Told, Platforms
  <1> QED BY <1>1, <1>4, <1>5 DEF GatewayInv

-----------------------------------------------------------------------------
(* The process ends: Telegram will deliver again what it was not told of,  *)
(* and counts it as redone; Slack's envelope at hand is gone.              *)
LEMMA EndedTelegram ==
    ASSUME GatewayInv, NEW how, Ended(how), UNCHANGED tokens
    PROVE  TelegramInv'
  <1>1. /\ tg' = "poll" /\ offset' = 0 /\ batch' = <<>>
        /\ UNCHANGED <<posted, confirmed, forwarded, unread>>
        /\ redone' = redone \cup {m \in Of("telegram") : forwarded[m] > 0 /\ m.n > confirmed}
        BY DEF Ended, FreshMemory
  <1>2. TelegramInv /\ TelegramTypes /\ InOrder /\ Batched
        BY DEF GatewayInv, TelegramInv
  <1>3. Past' = confirmed /\ confirmed \in Nat
        BY <1>1, <1>2 DEF Past, Below, Larger, TelegramTypes
  <1>4. confirmed <= Past /\ Past \in Nat
    <2>1. CASE tg \in {"poll", "sleep"}
          BY <2>1, <1>2 DEF TelegramTypes, Past, Below, Larger
    <2>2. CASE tg \in {"handle", "voice", "forward"}
      <3>1. batch[1] \in Nat
            BY <2>2, <1>2 DEF TelegramTypes, Batched
      <3> QED BY <3>1, <2>2, <1>2 DEF TelegramTypes, Batched, Past
    <2> QED BY <2>1, <2>2, <1>2 DEF TelegramTypes
  <1>5. \A m \in Messages : m.n \in Nat
        BY MessageFacts
  <1>6. Of("telegram") \subseteq Messages
        BY DEF Of
  <1>7. TelegramTypes' /\ InOrder' /\ Batched'
    <2>1. <<>> \in Seq(Nat)
          OBVIOUS
    <2> QED BY <2>1, <1>1, <1>2 DEF TelegramTypes, InOrder, Batched
  <1>8. Reached(Past)'
    <2>1. Past = 0 \/ \E m \in Of("telegram") \cap posted : m.n >= Past
          BY DEF GatewayInv, TelegramInv, Reached
    <2>2. CASE Past = 0
          BY <2>2, <1>3, <1>4 DEF Reached
    <2>3. CASE \E m \in Of("telegram") \cap posted : m.n >= Past
      <3>1. PICK m \in Of("telegram") \cap posted : m.n >= Past
            BY <2>3
      <3>2. m.n >= confirmed
            BY <3>1, <1>3, <1>4, <1>5, <1>6
      <3> QED BY <3>1, <3>2, <1>1, <1>3 DEF Reached
    <2> QED BY <2>1, <2>2, <2>3
  <1>9. \A m \in Of("telegram") : Done(m)' <=> Done(m)
        BY <1>1 DEF Done
  <1>10. \A m \in Of("telegram") \cap posted' : m.n <= Past' => Done(m)'
    <2> SUFFICES ASSUME NEW m \in Of("telegram") \cap posted, m.n <= confirmed
                 PROVE  Done(m)
        BY <1>1, <1>3, <1>9
    <2>1. m.n <= Past
          BY <1>3, <1>4, <1>5, <1>6
    <2> QED BY <2>1, <1>2 DEF TelegramInv
  <1>11. \A m \in Of("telegram") : forwarded'[m] > 0 => m \in redone' \/ m.n <= Past'
        BY <1>1, <1>3, <1>5, <1>6
  <1>12. \A m \in Of("telegram") : forwarded'[m] > 1 => m \in redone'
        BY <1>1, <1>2 DEF TelegramInv
  <1> QED BY <1>7, <1>8, <1>10, <1>11, <1>12 DEF TelegramInv

LEMMA EndedSlack ==
    ASSUME GatewayInv, NEW how, Ended(how)
    PROVE  SlackInv'
  <1>1. PICK arrived \in SUBSET ackWire :
           /\ acked' = acked \cup arrived
           /\ unheard' = unheard \cup (ackWire \ arrived)
        BY DEF Ended
  <1>2. /\ ackWire' = {} /\ cur' = NoMessage /\ sl' = "auth" /\ UNCHANGED forwarded
        /\ gone' = gone \cup {m \in Messages : Held(m)}
        BY DEF Ended, FreshMemory
  <1>3. SlackInv
        BY DEF GatewayInv
  <1>4. \A m \in Of("slack") : m \in Told' => m \in Told
        BY <1>1, <1>2 DEF Told
  <1>5. \A m \in Of("slack") : cur = m => m \in gone'
        BY <1>2 DEF Held, Of
  <1>6. \A m \in Of("slack") : m \in Told \cup unheard => m \in Told' \cup unheard'
        BY <1>1, <1>2 DEF Told
  <1>7. \A m \in Of("slack") : m \in Told' /\ Addressed(m)
                               => forwarded'[m] > 0 \/ cur' = m \/ m \in gone'
        BY <1>2, <1>3, <1>4, <1>5 DEF SlackInv
  <1>8. \A m \in Of("slack") : forwarded'[m] > 0 => m \in Told' \cup unheard'
        BY <1>2, <1>3, <1>6 DEF SlackInv
  <1>9. \A m \in Of("slack") : forwarded'[m] > 1 => m \in unheard'
        BY <1>1, <1>2, <1>3 DEF SlackInv
  <1> QED BY <1>2, <1>7, <1>8, <1>9 DEF SlackInv

LEMMA EndedGateway ==
    ASSUME GatewayInv, NEW how, Ended(how), UNCHANGED <<tokens, seen>>
    PROVE  GatewayInv'
  <1>1. UNCHANGED forwarded /\ waiting' = {}
        BY DEF Ended, FreshMemory
  <1>2. DiscordInv'
        BY <1>1 DEF GatewayInv, DiscordInv
  <1>3. Counted'
        BY <1>1 DEF GatewayInv, Counted
  <1> QED BY <1>2, <1>3, EndedTelegram, EndedSlack DEF GatewayInv

(* What changes none of the adapters' state keeps the invariant.           *)
LEMMA AllAside ==
    ASSUME GatewayInv,
           UNCHANGED <<tokens, posted, confirmed, tg, offset, batch>>,
           UNCHANGED <<sl, cur, acked, ackWire, waiting, forwarded>>,
           seen \subseteq seen', redone \subseteq redone', unread \subseteq unread',
           gone \subseteq gone', unheard \subseteq unheard'
    PROVE  GatewayInv'
  <1> QED BY TelegramAside, SlackAside, DiscordAside DEF GatewayInv, Counted

LEMMA ServiceStep == ASSUME GatewayInv, Service PROVE GatewayInv'
  <1>1. CASE Install
    <2>1. CASE proc = "up" /\ manager = "launchd"
          BY <1>1, <2>1, EndedGateway DEF Install
    <2>2. CASE ~(proc = "up" /\ manager = "launchd")
          BY <1>1, <2>2, AllAside DEF Install, telegram, slack, channels, history
    <2> QED BY <2>1, <2>2
  <1>2. CASE Uninstall
    <2>1. CASE proc = "up"
          BY <1>2, <2>1, EndedGateway DEF Uninstall
    <2>2. CASE proc # "up"
          BY <1>2, <2>2, AllAside DEF Uninstall, telegram, slack, channels, history
    <2> QED BY <2>1, <2>2
  <1>3. CASE StartService
        BY <1>3, AllAside DEF StartService, platforms, telegram, slack, channels, history
  <1>4. CASE StopService
        BY <1>4, EndedGateway DEF StopService
  <1>5. CASE RestartService
        BY <1>5, EndedGateway DEF RestartService
  <1> QED BY <1>1, <1>2, <1>3, <1>4, <1>5 DEF Service

LEMMA ManagerStep == ASSUME GatewayInv, Manager PROVE GatewayInv'
  <1>1. CASE Respawn
        BY <1>1, AllAside DEF Respawn, Booted, telegram, slack, channels
  <1>2. CASE BootFails
        BY <1>2, AllAside DEF BootFails, platforms, telegram, slack, channels, history
  <1> QED BY <1>1, <1>2 DEF Manager

LEMMA DropStep == ASSUME GatewayInv, Drop PROVE GatewayInv'
  <1>1. PICK arrived \in SUBSET ackWire :
           /\ acked' = acked \cup arrived
           /\ unheard' = unheard \cup (ackWire \ arrived)
        BY DEF Drop
  <1>2. /\ ackWire' = {}
        /\ UNCHANGED <<tokens, posted, confirmed, seen, tg, offset, batch, sl, cur, waiting,
                       forwarded, gone, redone, unread>>
        BY DEF Drop, telegram
  <1>3. SlackInv
        BY DEF GatewayInv
  <1>4. \A m : m \in Told' => m \in Told
        BY <1>1, <1>2 DEF Told
  <1>5. \A m : m \in Told \cup unheard => m \in Told' \cup unheard'
        BY <1>1, <1>2 DEF Told
  <1>6. unheard \subseteq unheard'
        BY <1>1
  <1>7. SlackInv'
        BY <1>2, <1>3, <1>4, <1>5, <1>6 DEF SlackInv
  <1>8. TelegramInv' /\ DiscordInv' /\ Counted'
        BY <1>2, TelegramAside, DiscordAside DEF GatewayInv, Counted
  <1> QED BY <1>7, <1>8 DEF GatewayInv

LEMMA MishapStep == ASSUME GatewayInv, Mishap PROVE GatewayInv'
  <1>1. CASE AdapterEnds
        BY <1>1, EndedGateway DEF AdapterEnds
  <1>2. CASE Killed
        BY <1>2, EndedGateway DEF Killed
  <1> QED BY <1>1, <1>2, DropStep DEF Mishap
-----------------------------------------------------------------------------
(* Users write in the order of the numbers, so a new message lies beyond   *)
(* everything the adapter has dealt with.                                  *)
LEMMA PostStep == ASSUME GatewayInv, NEW m \in Messages, Post(m) PROVE GatewayInv'
  <1>1. /\ m \in Traffic[tokens] \ posted
        /\ \A k \in Of(m.platform) \cap Traffic[tokens] : k.n < m.n => k \in posted
        /\ posted' = posted \cup {m}
        /\ UNCHANGED <<tokens, confirmed, tg, offset, batch, forwarded, redone, unread,
                       sl, cur, acked, ackWire, gone, unheard, waiting, seen>>
        BY DEF Post, machine, telegram, slack, history
  <1>2. TelegramInv /\ TelegramTypes /\ InOrder /\ Batched
        BY DEF GatewayInv, TelegramInv
  <1>3. Past' = Past
        BY <1>1 DEF Past, Below
  <1>4. \A k \in Messages : k.n \in Nat \ {0}
        BY MessageFacts
  <1>5. TelegramTypes'
        BY <1>1, <1>2 DEF TelegramTypes
  <1>6. InOrder'
    <2> SUFFICES ASSUME NEW j \in Of("telegram") \cap posted',
                        NEW k \in Of("telegram") \cap Traffic[tokens], k.n < j.n
                 PROVE  k \in posted'
        BY <1>1 DEF InOrder
    <2>1. CASE j \in posted
          BY <2>1, <1>1, <1>2 DEF InOrder
    <2>2. CASE j = m
      <3>1. m.platform = "telegram"
            BY <2>2 DEF Of
      <3> QED BY <3>1, <2>2, <1>1
    <2> QED BY <2>1, <2>2, <1>1
  <1>7. Batched'
        BY <1>1, <1>2 DEF Batched
  <1>8. Reached(Past)'
        BY <1>1, <1>2, <1>3 DEF TelegramInv, Reached
  <1>9. \A k \in Of("telegram") \cap posted' : k.n <= Past' => Done(k)'
    <2> SUFFICES ASSUME NEW k \in Of("telegram") \cap posted', k.n <= Past PROVE Done(k)
        BY <1>1, <1>3 DEF Done
    <2>1. CASE k \in posted
          BY <2>1, <1>2 DEF TelegramInv
    <2>2. CASE k = m
      <3>1. Past # 0
        <4>1. k.n \in Nat \ {0}
              BY <1>4 DEF Of
        <4> QED BY <4>1
      <3>2. PICK j \in Of("telegram") \cap posted : j.n >= Past
            BY <3>1, <1>2 DEF TelegramInv, Reached
      <3>3. k.n <= j.n /\ j.n \in Nat /\ k.n \in Nat
        <4>1. k.n \in Nat /\ j.n \in Nat
              BY <1>4 DEF Of
        <4>2. Past \in Int
              BY <1>2 DEF TelegramTypes, Batched, Past, Larger, Below
        <4> QED BY <4>1, <4>2, <3>2
      <3>4. k \in Of("telegram") \cap Traffic[tokens] /\ j \in Of("telegram") \cap Traffic[tokens]
            BY <2>2, <1>1, <1>2 DEF TelegramTypes
      <3>5. k.n < j.n => k \in posted
            BY <3>4, <1>2 DEF InOrder
      <3>6. k.n = j.n => k = j
            BY <3>4, <1>2, SameNumber
      <3> QED BY <3>3, <3>5, <3>6, <2>2, <1>1
    <2> QED BY <2>1, <2>2, <1>1
  <1>10. TelegramInv'
        BY <1>1, <1>2, <1>3, <1>5, <1>6, <1>7, <1>8, <1>9 DEF TelegramInv
  <1>11. SlackInv' /\ DiscordInv' /\ Counted'
        BY <1>1, SlackAside, DiscordAside DEF GatewayInv, Counted
  <1> QED BY <1>10, <1>11 DEF GatewayInv

-----------------------------------------------------------------------------
(* Past is a number, and below the first update of a batch.                *)
LEMMA PastFacts ==
    ASSUME TelegramInv
    PROVE  /\ Past \in Nat /\ confirmed <= Past
           /\ tg \in {"poll", "sleep"} => Past = Larger(confirmed, Below)
           /\ tg \in {"handle", "voice", "forward"} =>
                /\ Past = batch[1] - 1 /\ batch[1] \in Nat /\ Head(batch) = batch[1]
                /\ batch # <<>>
  <1>1. TelegramTypes /\ Batched
        BY DEF TelegramInv
  <1>2. CASE tg \in {"poll", "sleep"}
        BY <1>1, <1>2 DEF TelegramTypes, Past, Below, Larger
  <1>3. CASE tg \in {"handle", "voice", "forward"}
    <2>1. Len(batch) > 0 /\ batch \in Seq(Nat) /\ confirmed < batch[1] /\ confirmed \in Nat
          BY <1>1, <1>3 DEF TelegramTypes, Batched
    <2>2. batch[1] \in Nat /\ batch # <<>> /\ Head(batch) = batch[1]
          BY <2>1
    <2> QED BY <2>1, <2>2, <1>3 DEF Past
  <1> QED BY <1>1, <1>2, <1>3 DEF TelegramTypes

(* The update at hand is a message, and the only one with its number.      *)
LEMMA AtHand ==
    ASSUME TelegramInv, tg \in {"handle", "voice", "forward"}
    PROVE  /\ Update(Head(batch)) \in Of("telegram") \cap posted
           /\ Update(Head(batch)).n = batch[1]
           /\ \A m \in Of("telegram") \cap posted : m.n = batch[1] => m = Update(Head(batch))
  <1>1. TelegramTypes /\ Batched
        BY DEF TelegramInv
  <1>2. Head(batch) = batch[1] /\ Len(batch) > 0 /\ 1 \in 1..Len(batch)
        BY PastFacts, <1>1 DEF Batched, TelegramTypes
  <1>3. \E m \in Of("telegram") \cap posted : m.n = batch[1]
        BY <1>1, <1>2 DEF Batched
  <1>4. /\ Update(Head(batch)) \in Of("telegram") \cap posted
        /\ Update(Head(batch)).n = batch[1]
        BY <1>2, <1>3 DEF Update
  <1>5. posted \subseteq Traffic[tokens]
        BY <1>1 DEF TelegramTypes
  <1> QED BY <1>4, <1>5, SameNumber

(* The adapter is through with the update at hand.                         *)
LEMMA Advance ==
    ASSUME NEW u, u = Update(Head(batch)), Done(u)', GatewayInv,
           tg \in {"handle", "voice", "forward"}, NextUpdate,
           UNCHANGED <<tokens, posted, confirmed, redone>>, offset' = batch[1] + 1,
           unread \subseteq unread',
           forwarded' = forwarded \/ forwarded' = [forwarded EXCEPT ![u] = @ + 1]
    PROVE  TelegramInv'
  <1>1. TelegramInv /\ TelegramTypes /\ InOrder /\ Batched /\ Counted
        BY DEF GatewayInv, TelegramInv
  <1>2. /\ Past \in Nat /\ Past = batch[1] - 1 /\ batch[1] \in Nat
        /\ confirmed < batch[1] /\ confirmed \in Nat /\ batch \in Seq(Nat) /\ Len(batch) > 0
        BY <1>1, PastFacts DEF Batched, TelegramTypes
  <1>3. batch' = Tail(batch) /\ tg' = IF Tail(batch) = <<>> THEN "poll" ELSE "handle"
        BY DEF NextUpdate
  <1>4. /\ u \in Of("telegram") \cap posted /\ u.n = batch[1]
        /\ \A m \in Of("telegram") \cap posted : m.n = batch[1] => m = u
        BY <1>1, AtHand
  <1>5. /\ Tail(batch) \in Seq(Nat) /\ Len(Tail(batch)) = Len(batch) - 1
        /\ \A i \in 1..Len(Tail(batch)) : Tail(batch)[i] = batch[i + 1]
        BY <1>2
  <1>6. \A i \in 1..Len(Tail(batch)) : Tail(batch)[i] = batch[1] + i
    <2> SUFFICES ASSUME NEW i \in 1..Len(Tail(batch)) PROVE batch[i + 1] = batch[1] + i
        BY <1>5
    <2>1. i + 1 \in 1..Len(batch)
          BY <1>2, <1>5
    <2>2. batch[i + 1] = batch[1] + (i + 1) - 1
          BY <2>1, <1>1 DEF Batched
    <2> QED BY <2>2, <1>2
  <1>7. Past' = batch[1]
    <2>1. CASE Tail(batch) = <<>>
      <3>1. tg' = "poll" /\ Below' = batch[1]
            BY <2>1, <1>2, <1>3 DEF Below
      <3> QED BY <3>1, <1>2 DEF Past, Larger
    <2>2. CASE Tail(batch) # <<>>
      <3>1. Len(Tail(batch)) > 0 /\ 1 \in 1..Len(Tail(batch))
            BY <2>2, <1>5
      <3>2. tg' = "handle" /\ batch'[1] = batch[1] + 1
            BY <2>2, <3>1, <1>3, <1>6
      <3> QED BY <3>2, <1>2 DEF Past
    <2> QED BY <2>1, <2>2
  <1>8. TelegramTypes'
    <2>1. offset' \in Nat /\ batch' \in Seq(Nat)
          BY <1>2, <1>3, <1>5
    <2>2. tg' \in {"poll", "handle"}
          BY <1>3
    <2> QED BY <2>1, <2>2, <1>1 DEF TelegramTypes
  <1>9. InOrder'
        BY <1>1 DEF InOrder
  <1>10. Batched'
    <2> SUFFICES ASSUME Tail(batch) # <<>>
                 PROVE  /\ Len(batch') > 0
                        /\ \A i \in 1..Len(batch') : batch'[i] = batch'[1] + i - 1
                        /\ \A i \in 1..Len(batch') : \E m \in Of("telegram") \cap posted : m.n = batch'[i]
                        /\ confirmed < batch'[1] /\ offset' <= batch'[1]
        BY <1>3 DEF Batched
    <2>a. PICK t : t = Tail(batch)
          OBVIOUS
    <2>0. Len(t) > 0 /\ Len(t) \in Nat /\ 1 \in 1..Len(t)
          BY <2>a, <1>5
    <2>1. t[1] = batch[1] + 1
          BY <2>a, <2>0, <1>6
    <2>2. \A i \in 1..Len(t) : t[i] = t[1] + i - 1
      <3> SUFFICES ASSUME NEW i \in 1..Len(t) PROVE t[i] = t[1] + i - 1
          OBVIOUS
      <3>1. t[i] = batch[1] + i /\ i \in Int
            BY <2>a, <1>6, <2>0
      <3> QED BY <3>1, <2>1, <1>2
    <2>3. \A i \in 1..Len(t) : \E m \in Of("telegram") \cap posted : m.n = t[i]
      <3> SUFFICES ASSUME NEW i \in 1..Len(Tail(batch))
                   PROVE  \E m \in Of("telegram") \cap posted : m.n = batch[i + 1]
          BY <2>a, <1>5
      <3>1. i + 1 \in 1..Len(batch)
            BY <1>2, <1>5
      <3> QED BY <3>1, <1>1 DEF Batched
    <2>4. confirmed < t[1] /\ offset' <= t[1]
          BY <2>1, <1>2
    <2>5. batch' = t
          BY <2>a, <1>3
    <2> QED BY <2>0, <2>2, <2>3, <2>4, <2>5
  <1>11. Reached(Past)'
    <2>1. u.n >= Past' /\ u \in Of("telegram") \cap posted'
          BY <1>2, <1>4, <1>7
    <2> QED BY <2>1 DEF Reached
  <1>12. \A m \in Of("telegram") : m \in Messages /\ m.n \in Nat
        BY MessageFacts DEF Of
  <1>13. \A m \in Messages : forwarded[m] \in Nat /\ forwarded'[m] \in Nat /\ (m # u => forwarded'[m] = forwarded[m])
                             /\ forwarded'[m] >= forwarded[m] /\ forwarded'[m] <= forwarded[m] + 1
        BY <1>1, <1>4, <1>12 DEF Counted
  <1>14. \A m \in Of("telegram") \cap posted' : m.n <= Past' => Done(m)'
    <2> SUFFICES ASSUME NEW m \in Of("telegram") \cap posted, m.n <= batch[1] PROVE Done(m)'
        BY <1>7
    <2>1. CASE m.n = batch[1]
      <3>1. m = u
            BY <2>1, <1>4
      <3> QED BY <3>1
    <2>2. CASE m.n < batch[1]
      <3>1. m.n <= Past /\ m # u
            BY <2>2, <1>2, <1>4, <1>12
      <3>2. Done(m)
            BY <3>1, <1>1 DEF TelegramInv
      <3>3. forwarded'[m] = forwarded[m]
            BY <3>1, <1>12, <1>13
      <3> QED BY <3>2, <3>3 DEF Done
    <2> QED BY <2>1, <2>2, <1>2, <1>12
  <1>15. \A m \in Of("telegram") : forwarded'[m] > 0 => m \in redone' \/ m.n <= Past'
    <2> SUFFICES ASSUME NEW m \in Of("telegram"), forwarded'[m] > 0
                 PROVE  m \in redone \/ m.n <= batch[1]
        BY <1>7
    <2>1. CASE m = u
          BY <2>1, <1>2, <1>4
    <2>2. CASE m # u
      <3>1. forwarded[m] > 0
            BY <2>2, <1>12, <1>13
      <3>2. m \in redone \/ m.n <= Past
            BY <3>1, <1>1 DEF TelegramInv
      <3> QED BY <3>2, <1>2, <1>12
    <2> QED BY <2>1, <2>2
  <1>16. \A m \in Of("telegram") : forwarded'[m] > 1 => m \in redone'
    <2> SUFFICES ASSUME NEW m \in Of("telegram"), forwarded'[m] > 1 PROVE m \in redone
        OBVIOUS
    <2>1. CASE m = u
      <3>1. forwarded[m] > 0
            BY <1>12, <1>13
      <3>2. m \in redone \/ m.n <= Past
            BY <3>1, <1>1 DEF TelegramInv
      <3> QED BY <3>2, <2>1, <1>2, <1>4
    <2>2. CASE m # u
      <3>1. forwarded[m] > 1
            BY <2>2, <1>12, <1>13
      <3> QED BY <3>1, <1>1 DEF TelegramInv
    <2> QED BY <2>1, <2>2
  <1> QED BY <1>8, <1>9, <1>10, <1>11, <1>14, <1>15, <1>16 DEF TelegramInv

(* Past stays, and so does what it says of the messages.                   *)
LEMMA PastStays ==
    ASSUME TelegramInv, UNCHANGED <<tokens, posted, forwarded, redone, unread>>,
           Past' = Past, TelegramTypes', Batched'
    PROVE  TelegramInv'
  <1>1. InOrder'
        BY DEF TelegramInv, InOrder
  <1>2. Reached(Past)'
        BY DEF TelegramInv, Reached
  <1>3. \A m \in Of("telegram") : Done(m)' <=> Done(m)
        BY DEF Done
  <1> QED BY <1>1, <1>2, <1>3 DEF TelegramInv

LEMMA PollStep == ASSUME GatewayInv, Poll PROVE TelegramInv'
  <1>1. TelegramInv /\ TelegramTypes /\ InOrder /\ Batched /\ tg = "poll"
        BY DEF GatewayInv, TelegramInv, Poll
  <1>2. /\ Past \in Nat /\ Past = Larger(confirmed, Below) /\ confirmed' = Past
        /\ offset \in Nat /\ confirmed \in Nat
        BY <1>1, PastFacts DEF Poll, TelegramTypes
  <1>3. /\ tg' = "handle"
        /\ UNCHANGED <<tokens, posted, offset, forwarded, redone, unread>>
        BY DEF Poll, machine, history
  <1>4. PICK m \in Of("telegram") \cap posted :
           m.n > Past /\ batch' = [i \in 1..(m.n - Past) |-> Past + i]
        BY <1>2 DEF Poll
  <1>5. /\ \A k \in Messages : k.n \in Nat \ {0}
        /\ m \in Messages /\ m.platform = "telegram" /\ m \in Traffic[tokens]
        BY <1>1, MessageFacts DEF Of, TelegramTypes
  <1>6. PICK len \in Nat : len = m.n - Past /\ len > 0
        BY <1>2, <1>4, <1>5
  <1>7. batch' = [i \in 1..len |-> Past + i]
        BY <1>4, <1>6
  <1>8. batch' \in Seq(Nat) /\ Len(batch') = len
    <2>1. \A i \in 1..len : Past + i \in Nat
          BY <1>2
    <2> QED BY <2>1, <1>6, <1>7
  <1>9. \A i \in 1..len : batch'[i] = Past + i
        BY <1>7
  <1>10. batch'[1] = Past + 1
        BY <1>6, <1>9
  <1>11. offset <= Past + 1
        BY <1>2 DEF Larger, Below
  <1>12. \A i \in 1..len : \E k \in Of("telegram") \cap posted : k.n = Past + i
    <2> SUFFICES ASSUME NEW i \in 1..len
                 PROVE  \E k \in Of("telegram") \cap posted : k.n = Past + i
        OBVIOUS
    <2>1. Past + i \in 1..m.n
          BY <1>2, <1>5, <1>6
    <2>2. PICK k \in Traffic[tokens] : k.platform = "telegram" /\ k.n = Past + i
          BY <2>1, <1>1, <1>5, GatewayAssumption DEF TelegramTypes
    <2>3. k \in Of("telegram") \cap Traffic[tokens]
          BY <2>2, <1>1, MessageFacts DEF Of, TelegramTypes
    <2>4. CASE k.n < m.n
          BY <2>2, <2>3, <2>4, <1>1, <1>4 DEF InOrder
    <2>5. CASE k.n = m.n
      <3>1. k = m
            BY <2>3, <2>5, <1>1, <1>4, <1>5, SameNumber
      <3> QED BY <3>1, <2>2
    <2>6. k.n < m.n \/ k.n = m.n
          BY <2>1, <2>2, <1>5
    <2> QED BY <2>4, <2>5, <2>6
  <1>13. Batched'
    <2>1. \A i \in 1..Len(batch') : batch'[i] = batch'[1] + i - 1
          BY <1>2, <1>8, <1>9, <1>10
    <2>2. \A i \in 1..Len(batch') : \E k \in Of("telegram") \cap posted' : k.n = batch'[i]
          BY <1>3, <1>8, <1>9, <1>12
    <2>3. Len(batch') > 0 /\ confirmed' < batch'[1] /\ offset' <= batch'[1]
          BY <1>2, <1>3, <1>6, <1>8, <1>10, <1>11
    <2> QED BY <2>1, <2>2, <2>3, <1>3 DEF Batched
  <1>14. TelegramTypes'
        BY <1>1, <1>2, <1>3, <1>8 DEF TelegramTypes
  <1>15. Past' = Past
        BY <1>2, <1>3, <1>10 DEF Past
  <1> QED BY <1>1, <1>3, <1>13, <1>14, <1>15, PastStays

LEMMA TelegramStep == ASSUME GatewayInv, Telegram PROVE GatewayInv'
  <1>1. TelegramInv /\ TelegramTypes /\ Batched /\ Counted
        BY DEF GatewayInv, TelegramInv
  <1>2. ASSUME UNCHANGED <<forwarded, sl, cur, acked, ackWire, gone, unheard, waiting, seen>>
        PROVE  SlackInv' /\ DiscordInv' /\ Counted'
        BY <1>2, SlackAside, DiscordAside DEF GatewayInv, Counted
  <1>3. CASE Poll
    <2>1. UNCHANGED <<forwarded, sl, cur, acked, ackWire, gone, unheard, waiting, seen>>
          BY <1>3 DEF Poll, slack, history
    <2> QED BY <2>1, <1>2, <1>3, PollStep DEF GatewayInv
  <1>4. CASE PollFails
    <2>1. UNCHANGED <<forwarded, sl, cur, acked, ackWire, gone, unheard, waiting, seen>>
          BY <1>4 DEF PollFails, slack, history
    <2>2. /\ tg = "poll" /\ tg' = "sleep" /\ confirmed' \in {confirmed, Larger(confirmed, Below)}
          /\ UNCHANGED <<tokens, posted, offset, batch, forwarded, redone, unread>>
          BY <1>4 DEF PollFails, machine, history
    <2>3. Past' = Past
          BY <2>2, <1>1 DEF Past, Below, Larger, TelegramTypes
    <2>4. TelegramTypes' /\ Batched'
          BY <2>2, <1>1 DEF TelegramTypes, Batched, Larger, Below
    <2>5. TelegramInv'
          BY <2>2, <2>3, <2>4, <1>1, PastStays
    <2> QED BY <2>1, <2>5, <1>2 DEF GatewayInv
  <1>5. CASE PollAgain
    <2>1. UNCHANGED <<forwarded, sl, cur, acked, ackWire, gone, unheard, waiting, seen>>
          BY <1>5 DEF PollAgain, slack, history, platforms
    <2>2. /\ tg = "sleep" /\ tg' = "poll"
          /\ UNCHANGED <<tokens, posted, confirmed, offset, batch, forwarded, redone, unread>>
          BY <1>5 DEF PollAgain, machine, history, platforms
    <2>3. Past' = Past
          BY <2>2 DEF Past, Below
    <2>4. TelegramTypes' /\ Batched'
          BY <2>2, <1>1 DEF TelegramTypes, Batched
    <2>5. TelegramInv'
          BY <2>2, <2>3, <2>4, <1>1, PastStays
    <2> QED BY <2>1, <2>5, <1>2 DEF GatewayInv
  <1>6. CASE TakeUpdate
    <2>1. UNCHANGED <<forwarded, sl, cur, acked, ackWire, gone, unheard, waiting, seen>>
          BY <1>6 DEF TakeUpdate, slack, history, platforms
    <2>2. /\ tg = "handle" /\ offset' = Larger(offset, Head(batch) + 1)
          /\ UNCHANGED <<tokens, posted, confirmed, forwarded, redone, unread>>
          BY <1>6 DEF TakeUpdate, machine, history, platforms
    <2>3. offset' = batch[1] + 1 /\ batch[1] \in Nat
      <3>1. Head(batch) = batch[1] /\ batch[1] \in Nat
            BY <2>2, <1>1, PastFacts
      <3>2. offset <= batch[1] /\ offset \in Nat
            BY <2>2, <1>1 DEF Batched, TelegramTypes
      <3> QED BY <2>2, <3>1, <3>2 DEF Larger
    <2>4. CASE Readable(Update(Head(batch)))
      <3>1. tg' \in {"voice", "forward"} /\ UNCHANGED batch
            BY <2>4, <1>6 DEF TakeUpdate
      <3>2. Past' = Past
            BY <2>2, <3>1 DEF Past
      <3>3. TelegramTypes'
            BY <2>2, <2>3, <3>1, <1>1 DEF TelegramTypes
      <3>4. Batched'
            BY <2>2, <2>3, <3>1, <1>1 DEF Batched
      <3>5. TelegramInv'
            BY <2>2, <3>2, <3>3, <3>4, <1>1, PastStays
      <3> QED BY <2>1, <3>5, <1>2 DEF GatewayInv
    <2>5. CASE ~Readable(Update(Head(batch)))
      <3>1. NextUpdate
            BY <2>5, <1>6 DEF TakeUpdate
      <3>2. PICK u : u = Update(Head(batch))
            OBVIOUS
      <3>3. u \in Of("telegram")
            BY <2>2, <3>2, <1>1, AtHand
      <3>4. u.kind = "sticker"
            BY <2>5, <3>2, <3>3, GatewayAssumption DEF Readable, Of
      <3>5. Done(u)'
            BY <3>4 DEF Done
      <3>6. TelegramInv'
            BY <2>2, <2>3, <3>1, <3>2, <3>5, Advance
      <3> QED BY <2>1, <3>6, <1>2 DEF GatewayInv
    <2> QED BY <2>4, <2>5
  <1>7. CASE Transcribe
    <2>1. UNCHANGED <<forwarded, sl, cur, acked, ackWire, gone, unheard, waiting, seen>>
          BY <1>7 DEF Transcribe, slack, platforms
    <2>2. /\ tg = "voice"
          /\ UNCHANGED <<tokens, posted, confirmed, offset, forwarded, redone>>
          BY <1>7 DEF Transcribe, machine, platforms
    <2>3. CASE tg' = "forward" /\ UNCHANGED <<batch, unread>>
      <3>1. Past' = Past
            BY <2>2, <2>3 DEF Past
      <3>2. TelegramTypes' /\ Batched'
            BY <2>2, <2>3, <1>1 DEF TelegramTypes, Batched
      <3>3. TelegramInv'
            BY <2>2, <2>3, <3>1, <3>2, <1>1, PastStays
      <3> QED BY <2>1, <3>3, <1>2 DEF GatewayInv
    <2>4. CASE TranscriptionFails
      <3>1. PICK u : u = Update(Head(batch))
            OBVIOUS
      <3>2. NextUpdate /\ unread' = unread \cup {u}
            BY <2>4, <3>1 DEF TranscriptionFails
      <3>3. Done(u)' /\ unread \subseteq unread'
            BY <3>2 DEF Done
      <3>4. offset' = batch[1] + 1
            BY <2>2, <1>1 DEF Batched
      <3>5. TelegramInv'
            BY <2>2, <3>1, <3>2, <3>3, <3>4, Advance
      <3> QED BY <2>1, <3>5, <1>2 DEF GatewayInv
    <2> QED BY <2>3, <2>4, <1>7 DEF Transcribe
  <1>8. CASE ForwardUpdate
    <2>1. PICK u : u = Update(Head(batch))
          OBVIOUS
    <2>2. /\ tg = "forward" /\ NextUpdate
          /\ forwarded' = [forwarded EXCEPT ![u] = @ + 1]
          /\ UNCHANGED <<tokens, posted, confirmed, offset, redone, unread, sl, cur, acked,
                         ackWire, gone, unheard, waiting, seen>>
          BY <1>8, <2>1 DEF ForwardUpdate, Forward, machine, slack, platforms
    <2>3. u \in Of("telegram") /\ u \in Messages
          BY <2>1, <2>2, <1>1, AtHand DEF Of
    <2>4. forwarded[u] \in Nat /\ forwarded'[u] = forwarded[u] + 1 /\ Counted'
          BY <2>2, <2>3, <1>1 DEF Counted
    <2>5. Done(u)'
          BY <2>4 DEF Done
    <2>6. offset' = batch[1] + 1
          BY <2>2, <1>1 DEF Batched
    <2>7. TelegramInv'
          BY <2>1, <2>2, <2>5, <2>6, Advance
    <2>8. \A m \in Of("slack") \cup Of("discord") : forwarded'[m] = forwarded[m]
          BY <2>2, <2>3, <1>1 DEF Counted, Of
    <2>9. SlackInv' /\ DiscordInv'
          BY <2>2, <2>8, SlackAside, DiscordAside DEF GatewayInv
    <2> QED BY <2>4, <2>7, <2>9 DEF GatewayInv
  <1> QED BY <1>3, <1>4, <1>5, <1>6, <1>7, <1>8 DEF Telegram

-----------------------------------------------------------------------------
LEMMA SlackStep == ASSUME GatewayInv, Slack PROVE GatewayInv'
  <1>1. SlackInv /\ Counted
        BY DEF GatewayInv
  <1>2. /\ \A m \in Of("slack") : m \in Messages
        /\ NoMessage \notin Messages
        BY MessageFacts DEF Of
  <1>3. ASSUME UNCHANGED <<tokens, posted, confirmed, tg, offset, batch, waiting, seen,
                           forwarded, redone, unread>>, SlackInv'
        PROVE  GatewayInv'
        BY <1>3, TelegramAside, DiscordAside DEF GatewayInv, Counted
  <1>4. CASE Authenticate \/ Connect \/ ConnectFails \/ ConnectAgain \/ Reconnect
    <2>1. UNCHANGED <<tokens, posted, confirmed, tg, offset, batch, waiting, seen, cur,
                      acked, ackWire, forwarded, gone, unheard, redone, unread>>
          BY <1>4 DEF Authenticate, Connect, ConnectFails, ConnectAgain, Reconnect,
                      machine, platforms, telegram, history
    <2>2. sl \notin {"ack", "forward"} /\ sl' \notin {"ack", "forward"}
          BY <1>4 DEF Authenticate, Connect, ConnectFails, ConnectAgain, Reconnect
    <2>3. SlackInv'
          BY <2>1, <2>2, <1>1 DEF SlackInv, Told
    <2> QED BY <2>1, <2>3, <1>3
  <1>5. ASSUME NEW m \in Of("slack"), ReadEnvelope(m) PROVE GatewayInv'
    <2>1. /\ sl' = "ack" /\ cur' = m /\ m \notin Told /\ sl = "read"
          /\ UNCHANGED <<tokens, posted, confirmed, tg, offset, batch, waiting, seen,
                         acked, ackWire, forwarded, gone, unheard, redone, unread>>
          BY <1>5 DEF ReadEnvelope, machine, platforms, telegram, history, Told
    <2>2. cur = NoMessage /\ m # NoMessage
          BY <2>1, <1>1, <1>2 DEF SlackInv
    <2>3. UNCHANGED Told
          BY <2>1 DEF Told
    <2>4. forwarded[m] > 0 => m \in unheard
          BY <2>1, <1>1 DEF SlackInv
    <2>5. \A k \in Of("slack") : k \in Told /\ Addressed(k) => forwarded[k] > 0 \/ k \in gone
          BY <2>2, <1>1, <1>2 DEF SlackInv
    <2>6. SlackInv'
          BY <2>1, <2>2, <2>3, <2>4, <2>5, <1>1 DEF SlackInv
    <2> QED BY <2>1, <2>6, <1>3
  <1>6. CASE AckEnvelope
    <2>1. /\ sl = "ack" /\ ackWire' = ackWire \cup {cur}
          /\ UNCHANGED <<tokens, posted, confirmed, tg, offset, batch, waiting, seen,
                         acked, forwarded, gone, unheard, redone, unread>>
          BY <1>6 DEF AckEnvelope, machine, platforms, telegram, history
    <2>2. cur \in Of("slack") /\ cur # NoMessage /\ (forwarded[cur] > 0 => cur \in unheard)
          BY <2>1, <1>1 DEF SlackInv
    <2>3. Told' = Told \cup {cur}
          BY <2>1 DEF Told
    <2>4. CASE Addressed(cur)
      <3>1. sl' = "forward" /\ UNCHANGED cur
            BY <2>4, <1>6 DEF AckEnvelope
      <3>2. SlackInv'
            BY <2>1, <2>2, <2>3, <3>1, <1>1 DEF SlackInv
      <3> QED BY <2>1, <3>2, <1>3
    <2>5. CASE ~Addressed(cur)
      <3>1. sl' = "read" /\ cur' = NoMessage
            BY <2>5, <1>6 DEF AckEnvelope
      <3>2. \A k \in Of("slack") : k \in Told' /\ Addressed(k) => forwarded[k] > 0 \/ k \in gone
            BY <2>3, <2>5, <1>1 DEF SlackInv
      <3>3. SlackInv'
            BY <2>1, <2>2, <2>3, <3>1, <3>2, <1>1 DEF SlackInv
      <3> QED BY <2>1, <3>3, <1>3
    <2> QED BY <2>4, <2>5
  <1>7. CASE AckFails
    <2>1. /\ sl = "ack" /\ sl' = "connect" /\ cur' = NoMessage
          /\ UNCHANGED <<tokens, posted, confirmed, tg, offset, batch, waiting, seen,
                         acked, ackWire, forwarded, gone, unheard, redone, unread>>
          BY <1>7 DEF AckFails, machine, platforms, telegram, history
    <2>2. cur \notin Told /\ UNCHANGED Told
          BY <2>1, <1>1 DEF SlackInv, Told
    <2>3. \A k \in Of("slack") : k \in Told /\ Addressed(k) => forwarded[k] > 0 \/ k \in gone
          BY <2>2, <1>1 DEF SlackInv
    <2>4. SlackInv'
          BY <2>1, <2>2, <2>3, <1>1 DEF SlackInv
    <2> QED BY <2>1, <2>4, <1>3
  <1>8. ASSUME NEW m \in Of("slack"), AckArrives(m) PROVE GatewayInv'
    <2>1. /\ m \in ackWire /\ ackWire' = ackWire \ {m} /\ acked' = acked \cup {m}
          /\ UNCHANGED <<tokens, posted, confirmed, tg, offset, batch, waiting, seen, sl, cur,
                         forwarded, gone, unheard, redone, unread>>
          BY <1>8 DEF AckArrives, machine, telegram, history
    <2>2. Told' = Told
          BY <2>1 DEF Told
    <2>3. SlackInv'
          BY <2>1, <2>2, <1>1 DEF SlackInv
    <2> QED BY <2>1, <2>3, <1>3
  <1>9. CASE ForwardEnvelope
    <2>1. /\ sl = "forward" /\ sl' = "read" /\ cur' = NoMessage
          /\ forwarded' = [forwarded EXCEPT ![cur] = @ + 1]
          /\ UNCHANGED <<tokens, posted, confirmed, tg, offset, batch, waiting, seen,
                         acked, ackWire, gone, unheard, redone, unread>>
          BY <1>9 DEF ForwardEnvelope, Forward, machine, platforms, telegram
    <2>2. /\ cur \in Of("slack") /\ cur \in Told \cup unheard
          /\ forwarded[cur] > 0 => cur \in unheard
          BY <2>1, <1>1 DEF SlackInv
    <2>3. /\ forwarded[cur] \in Nat /\ forwarded'[cur] = forwarded[cur] + 1 /\ Counted'
          /\ \A k \in Messages : k # cur => forwarded'[k] = forwarded[k]
          BY <2>1, <2>2, <1>1, <1>2 DEF Counted
    <2>4. UNCHANGED Told
          BY <2>1 DEF Told
    <2>5. \A k \in Of("slack") : k \in Told /\ Addressed(k) => forwarded'[k] > 0 \/ k \in gone
      <3> SUFFICES ASSUME NEW k \in Of("slack"), k \in Told, Addressed(k)
                   PROVE  forwarded'[k] > 0 \/ k \in gone
          OBVIOUS
      <3>1. CASE k = cur
            BY <3>1, <2>3
      <3>2. CASE k # cur
            BY <3>2, <2>3, <1>1, <1>2 DEF SlackInv
      <3> QED BY <3>1, <3>2
    <2>6. \A k \in Of("slack") : forwarded'[k] > 0 => k \in Told \cup unheard
      <3> SUFFICES ASSUME NEW k \in Of("slack"), forwarded'[k] > 0
                   PROVE  k \in Told \cup unheard
          OBVIOUS
      <3>1. CASE k = cur
            BY <3>1, <2>2
      <3>2. CASE k # cur
            BY <3>2, <2>3, <1>1, <1>2 DEF SlackInv
      <3> QED BY <3>1, <3>2
    <2>7. \A k \in Of("slack") : forwarded'[k] > 1 => k \in unheard
      <3> SUFFICES ASSUME NEW k \in Of("slack"), forwarded'[k] > 1 PROVE k \in unheard
          OBVIOUS
      <3>1. CASE k = cur
            BY <3>1, <2>2, <2>3
      <3>2. CASE k # cur
            BY <3>2, <2>3, <1>1, <1>2 DEF SlackInv
      <3> QED BY <3>1, <3>2
    <2>8. SlackInv'
          BY <2>1, <2>4, <2>5, <2>6, <2>7 DEF SlackInv
    <2>9. \A k \in Of("telegram") \cup Of("discord") : forwarded'[k] = forwarded[k]
          BY <2>2, <2>3 DEF Of
    <2>10. TelegramInv' /\ DiscordInv'
          BY <2>1, <2>9, TelegramAside, DiscordAside DEF GatewayInv
    <2> QED BY <2>3, <2>8, <2>10 DEF GatewayInv
  <1> QED BY <1>4, <1>5, <1>6, <1>7, <1>8, <1>9 DEF Slack

LEMMA DiscordStep == ASSUME GatewayInv, Discord PROVE GatewayInv'
  <1>1. DiscordInv /\ Counted
        BY DEF GatewayInv
  <1>2. ASSUME NEW m \in Of("discord"), DiscordEvent(m) PROVE GatewayInv'
    <2>1. /\ m \notin seen /\ seen' = seen \cup {m} /\ waiting' \subseteq waiting \cup {m}
          /\ unread \subseteq unread'
          /\ UNCHANGED <<tokens, posted, confirmed, acked, tg, offset, batch, sl, cur, ackWire,
                         forwarded, gone, unheard, redone>>
          BY <1>2 DEF DiscordEvent, machine, telegram, slack
    <2>2. DiscordInv'
          BY <2>1, <1>1 DEF DiscordInv
    <2> QED BY <2>1, <2>2, TelegramAside, SlackAside DEF GatewayInv, Counted
  <1>3. ASSUME NEW m \in Of("discord"), ForwardEvent(m) PROVE GatewayInv'
    <2>1. /\ m \in waiting /\ waiting' = waiting \ {m}
          /\ forwarded' = [forwarded EXCEPT ![m] = @ + 1]
          /\ UNCHANGED <<tokens, posted, confirmed, acked, seen, tg, offset, batch, sl, cur,
                         ackWire, gone, unheard, redone, unread>>
          BY <1>3 DEF ForwardEvent, Forward, machine, platforms, telegram, slack
    <2>2. m \in Messages
          BY DEF Of
    <2>3. /\ forwarded[m] \in Nat /\ forwarded'[m] = forwarded[m] + 1 /\ Counted'
          /\ \A k \in Messages : k # m => forwarded'[k] = forwarded[k]
          BY <2>1, <2>2, <1>1 DEF Counted
    <2>4. ~(forwarded[m] > 0) /\ m \in seen
          BY <2>1, <1>1 DEF DiscordInv
    <2>5. \A k \in Of("discord") : k # m => forwarded'[k] = forwarded[k]
          BY <2>3 DEF Of
    <2>6. DiscordInv'
          BY <2>1, <2>3, <2>4, <2>5, <1>1 DEF DiscordInv
    <2>7. \A k \in Of("telegram") \cup Of("slack") : forwarded'[k] = forwarded[k]
          BY <2>3 DEF Of
    <2>8. TelegramInv' /\ SlackInv'
          BY <2>1, <2>7, TelegramAside, SlackAside DEF GatewayInv
    <2> QED BY <2>3, <2>6, <2>8 DEF GatewayInv
  <1> QED BY <1>2, <1>3 DEF Discord

LEMMA DispatcherStep == ASSUME GatewayInv, Dispatcher PROVE GatewayInv'
  <1>1. UNCHANGED <<tokens, posted, confirmed, tg, offset, batch, sl, cur, acked, ackWire,
                    waiting, seen, forwarded, redone, unread, gone, unheard>>
    <2>1. ASSUME NEW p \in Platforms, Dispatch(p) \/ Send(p)
          PROVE  UNCHANGED <<tokens, posted, confirmed, tg, offset, batch, sl, cur, acked,
                             ackWire, waiting, seen, forwarded, redone, unread, gone, unheard>>
          BY <2>1 DEF Dispatch, Send, machine, platforms, telegram, slack, history
    <2>2. ASSUME NEW m \in Messages, Answer(m) \/ StaySilent(m)
          PROVE  UNCHANGED <<tokens, posted, confirmed, tg, offset, batch, sl, cur, acked,
                             ackWire, waiting, seen, forwarded, redone, unread, gone, unheard>>
          BY <2>2 DEF Answer, StaySilent, machine, platforms, telegram, slack, history
    <2> QED BY <2>1, <2>2 DEF Dispatcher, SendTelegram, SendSlack, SendDiscord, Platforms
  <1> QED BY <1>1, AllAside

LEMMA NextGateway == GatewayInv /\ [Next]_vars => GatewayInv'
  <1> SUFFICES ASSUME GatewayInv, [Next]_vars PROVE GatewayInv'
      OBVIOUS
  <1>1. CASE UNCHANGED vars
        BY <1>1, AllAside DEF vars, machine, platforms, telegram, slack, history
  <1>2. CASE Next
        BY <1>2, ServiceStep, ManagerStep, MishapStep, PostStep, TelegramStep, SlackStep,
           DiscordStep, DispatcherStep DEF Next
  <1> QED BY <1>1, <1>2

LEMMA AlwaysGateway == Spec => []GatewayInv
  <1> QED BY InitGateway, NextGateway, PTL DEF Spec

(* Nothing a platform considers delivered is lost before the dispatcher:   *)
(* Telegram's confirmation lags behind the hand-over, however often the    *)
(* process is killed, restarted or its polls fail; Slack's precedes it, and*)
(* only a process that ends in between can lose an envelope.               *)
THEOREM NothingTakenOverIsLost == Spec => []TakenOverIsForwarded
  <1>1. GatewayInv => TakenOverIsForwarded
    <2> SUFFICES ASSUME GatewayInv PROVE TakenOverIsForwarded
        OBVIOUS
    <2>1. TelegramInv /\ SlackInv /\ confirmed <= Past /\ Past \in Nat /\ confirmed \in Nat
          BY PastFacts DEF GatewayInv, TelegramInv, TelegramTypes
    <2>2. \A m \in Of("telegram") : m.n \in Nat
          BY MessageFacts DEF Of
    <2>3. \A m \in Of("telegram") \cap posted :
             m.n <= confirmed => forwarded[m] > 0 \/ m.kind = "sticker" \/ m \in unread
      <3> SUFFICES ASSUME NEW m \in Of("telegram") \cap posted, m.n <= confirmed
                   PROVE  Done(m)
          BY DEF Done
      <3>1. m.n <= Past
            BY <2>1, <2>2
      <3> QED BY <3>1, <2>1 DEF TelegramInv
    <2> QED BY <2>1, <2>3 DEF TakenOverIsForwarded, SlackInv, Told
  <1> QED BY <1>1, AlwaysGateway, PTL

(* The agent runs a message twice only after the process ended before      *)
(* Telegram was told of the first time, or after a socket broke with the   *)
(* acknowledgement on it; a Discord message it never runs twice.           *)
THEOREM TwiceOnlyWithACause == Spec => []TwiceHasACause
  <1>1. GatewayInv => TwiceHasACause
    <2> SUFFICES ASSUME GatewayInv, NEW m \in Messages, forwarded[m] > 1
                 PROVE  m \in redone \cup unheard
        BY DEF TwiceHasACause
    <2>1. m.platform \in {"telegram", "slack", "discord"} /\ m \in Of(m.platform)
          BY MessageFacts DEF Platforms, Of
    <2>2. CASE m \in Of("telegram")
          BY <2>2 DEF GatewayInv, TelegramInv
    <2>3. CASE m \in Of("slack")
          BY <2>3 DEF GatewayInv, SlackInv
    <2>4. CASE m \in Of("discord")
          BY <2>4 DEF GatewayInv, DiscordInv, Counted
    <2> QED BY <2>1, <2>2, <2>3, <2>4
  <1> QED BY <1>1, AlwaysGateway, PTL

(***************************************************************************)
(* The schedule. Where the task of a job stands by the wall clock, while   *)
(* that has not been set back: what passed since the daemon was started is *)
(* queued or was missed for want of room or because the clock ran ahead,   *)
(* and the time at hand comes after everything that was queued. A task     *)
(* that sleeps does not wake before its time; it wakes at its time unless  *)
(* the clock was set forward.                                              *)
(***************************************************************************)
Active(j) == j \in DOMAIN registry /\ registry[j].enabled /\ registry[j].valid
Fired(j, t) == fires[j][t] > 0
Met(j, t) == Fired(j, t) \/ t \in late[j] \/ (jumped /\ t \in skipped[j])
Asleep(j) ==
    LET s == sleeper[j] IN
    /\ since < s.next /\ s.next <= now + s.left
    /\ ~jumped => s.next = now + s.left
    /\ \A t \in registry[j].times : since < t /\ t < s.next => Met(j, t)
    /\ \A t \in registry[j].times : s.next < t /\ t <= now => Met(j, t)
    /\ \A t \in 1..Horizon : Fired(j, t) => t < s.next
Sending(j) ==
    LET s == sleeper[j] IN
    /\ since < s.next /\ s.next <= now
    /\ \A t \in registry[j].times : since < t /\ t <= now /\ t # s.next => Met(j, t)
    /\ \A t \in 1..Horizon : Fired(j, t) => t < s.next
UpToDate(j) == \A t \in registry[j].times : since < t /\ t <= now => Met(j, t)
Punctual(j) ==
    /\ sleeper[j].at = "asleep" => Asleep(j)
    /\ sleeper[j].at = "sending" => Sending(j)
    /\ sleeper[j].at \in {"awake", "ended"} => UpToDate(j)
    /\ sleeper[j].at = "ended" => \A t \in registry[j].times : t <= now
SleeperInv(j) ==
    /\ sleeper[j].at # "ended" => daemon = "up" /\ Active(j)
    /\ sleeper[j].at \in {"asleep", "sending"} => sleeper[j].next \in registry[j].times
    /\ \A t \in 1..Horizon : Fired(j, t) => Active(j) /\ t \in registry[j].times
    /\ ~setBack =>
        /\ \A t \in 1..Horizon : Fired(j, t) => fires[j][t] = 1 /\ since < t /\ t <= now
        /\ daemon = "up" /\ Active(j) => Punctual(j)
CronInv ==
    /\ CronTypes
    /\ ~setBack => since <= now
    /\ \A j \in Jobs : SleeperInv(j)

LEMMA RegistryFacts ==
    ASSUME NEW f \in Registries
    PROVE  /\ f \in [DOMAIN f -> Specs] /\ DOMAIN f \subseteq Jobs
           /\ \A j \in DOMAIN f : /\ f[j] \in Specs /\ f[j].times \subseteq 1..Horizon
                                  /\ f[j].enabled \in BOOLEAN /\ f[j].valid \in BOOLEAN
  <1>1. PICK names \in SUBSET Jobs : f \in [names -> Specs]
        BY DEF Registries
  <1>2. \A s \in Specs : /\ s.times \subseteq 1..Horizon
                         /\ s.enabled \in BOOLEAN /\ s.valid \in BOOLEAN
        BY CronAssumption
  <1> QED BY <1>1, <1>2

LEMMA IsRegistry ==
    ASSUME NEW names \in SUBSET Jobs, NEW f \in [names -> Specs]
    PROVE  f \in Registries
  BY DEF Registries

(* The next fire time is the earliest to come.                             *)
LEMMA EarliestComesFirst ==
    ASSUME NEW S \in SUBSET Nat, S # {}
    PROVE  Earliest(S) \in S /\ \A u \in S : Earliest(S) <= u
  <1>1. PICK i \in S : \A k \in S : <<k, i>> \notin OpToRel(<, Nat)
        BY WFMin, NatLessThanWellFounded, Zenon
  <1>2. ASSUME NEW k \in S PROVE i <= k
    <2>1. <<k, i>> \in Nat \X Nat /\ <<k, i>> \notin OpToRel(<, Nat)
          BY <1>1
    <2>2. ~(<<k, i>>[1] < <<k, i>>[2])
          BY <2>1 DEF OpToRel
    <2>3. ~(k < i)
          BY <2>2
    <2> QED BY <2>3
  <1> QED BY <1>2 DEF Earliest

LEMMA InitCron == CronInit => CronInv
  <1> SUFFICES ASSUME CronInit PROVE CronInv
      OBVIOUS
  <1>1. NoFires \in [Jobs -> [1..Horizon -> Nat]] /\ \A j \in Jobs, t \in 1..Horizon : NoFires[j][t] = 0
        BY DEF NoFires
  <1>2. <<>> \in Seq(Jobs \X (1..Horizon)) /\ Len(<<>>) = 0
        OBVIOUS
  <1>3. file \in Registries /\ registry \in Registries /\ 0 \in 0..Horizon
        BY CronAssumption DEF CronInit
  <1>4. sleeper \in [Jobs -> [at : {"ended", "awake", "asleep", "sending"},
                              next : 0..Horizon, left : 0..Horizon]]
        BY <1>3 DEF CronInit, Off
  <1>5. CronTypes
    <2>1. queue \in Seq(Jobs \X (1..Horizon)) /\ Len(queue) <= QueueSize
          BY <1>2, CronAssumption DEF CronInit
    <2>2. fires \in [Jobs -> [1..Horizon -> Nat]] /\ late \in [Jobs -> SUBSET (1..Horizon)]
          /\ skipped \in [Jobs -> SUBSET (1..Horizon)]
          BY <1>1 DEF CronInit
    <2>3. now \in 0..Horizon /\ since \in 0..Horizon
          BY <1>3 DEF CronInit
    <2> QED BY <2>1, <2>2, <2>3, <1>3, <1>4 DEF CronInit, CronTypes
  <1>6. ASSUME NEW j \in Jobs PROVE SleeperInv(j)
    <2>1. sleeper[j].at = "ended" /\ daemon = "down"
          BY DEF CronInit, Off
    <2>2. \A t \in 1..Horizon : fires[j][t] = 0
          BY <1>1 DEF CronInit
    <2>3. \A t \in 1..Horizon : ~Fired(j, t)
          BY <2>2 DEF Fired
    <2> QED BY <2>1, <2>3 DEF SleeperInv
  <1> QED BY <1>5, <1>6 DEF CronInit, CronInv

Sleep == [at : {"ended", "awake", "asleep", "sending"}, next : 0..Horizon, left : 0..Horizon]

(* What a step that leaves the job's task, its times and the clock alone   *)
(* keeps.                                                                  *)
LEMMA LeftAlone ==
    ASSUME NEW j \in Jobs, SleeperInv(j),
           sleeper'[j] = sleeper[j], fires'[j] = fires[j], late'[j] = late[j],
           skipped'[j] = skipped[j], UNCHANGED <<registry, daemon, now, setBack, jumped, since>>
    PROVE  SleeperInv(j)'
  BY DEF SleeperInv, Punctual, Asleep, Sending, UpToDate, Met, Fired, Active

LEMMA SleeperFacts ==
    ASSUME CronInv, NEW j \in Jobs
    PROVE  /\ sleeper[j] \in Sleep
           /\ now \in Nat /\ since \in Nat /\ Horizon \in Nat
           /\ SleeperInv(j)
           /\ sleeper[j].at # "ended" => /\ Active(j) /\ registry[j].times \subseteq 1..Horizon
                                         /\ ComingUp(j) \subseteq 1..Horizon
  <1>1. sleeper[j] \in Sleep /\ SleeperInv(j) /\ registry \in Registries
        BY DEF CronInv, CronTypes, Sleep
  <1>2. now \in Nat /\ since \in Nat /\ Horizon \in Nat
        BY CronAssumption DEF CronInv, CronTypes
  <1>3. j \in DOMAIN registry => registry[j].times \subseteq 1..Horizon
        BY <1>1, RegistryFacts
  <1>4. ComingUp(j) \subseteq registry[j].times
        BY DEF ComingUp
  <1>5. sleeper[j].at # "ended" => Active(j)
        BY <1>1 DEF SleeperInv
  <1> QED BY <1>1, <1>2, <1>3, <1>4, <1>5 DEF Active

(* The time a task goes to sleep until.                                    *)
LEMMA NextIsAhead ==
    ASSUME CronInv, NEW j \in Jobs, sleeper[j].at # "ended", ComingUp(j) # {}
    PROVE  LET t == Earliest(ComingUp(j)) IN
           /\ t \in 1..Horizon /\ t \in registry[j].times /\ now < t
           /\ t - now \in 0..Horizon
           /\ \A u \in registry[j].times : u < t => u <= now
  <1> DEFINE t == Earliest(ComingUp(j))
  <1>1. ComingUp(j) \subseteq 1..Horizon /\ registry[j].times \subseteq 1..Horizon
        BY SleeperFacts DEF Active
  <1>2. now \in Nat /\ Horizon \in Nat
        BY SleeperFacts
  <1>3. ComingUp(j) \subseteq Nat
        BY <1>1, <1>2
  <1>4. t \in ComingUp(j) /\ \A u \in ComingUp(j) : t <= u
        BY <1>3, EarliestComesFirst
  <1>5. t \in registry[j].times /\ now < t
        BY <1>4, <1>2 DEF ComingUp
  <1> HIDE DEF t
  <1>6. t \in 1..Horizon
        BY <1>1, <1>5
  <1>7. ASSUME NEW u \in registry[j].times, u < t PROVE u <= now
    <2>1. u \in 1..Horizon
          BY <1>1
    <2>2. u > now => t <= u
          BY <1>4 DEF ComingUp
    <2> QED BY <2>1, <2>2, <1>2, <1>6, <1>7
  <1>8. t - now \in 0..Horizon
        BY <1>2, <1>5, <1>6
  <1> QED BY <1>5, <1>6, <1>7, <1>8 DEF t

(* The fire times that pass are among those of the copied registry.        *)
LEMMA PassedFacts ==
    ASSUME CronInv, NEW j \in Jobs, sleeper[j].at # "ended"
    PROVE  Passed(j) \subseteq 1..Horizon
  BY SleeperFacts DEF Passed

LEMMA CronTypesStep ==
    ASSUME CronInv, CronNext
    PROVE  CronTypes'
  <1> USE CronAssumption
  <1>0. CronTypes /\ sleeper \in [Jobs -> Sleep]
        BY DEF CronInv, CronTypes, Sleep
  <1>1. ASSUME NEW j \in Jobs, RemoveJob(j) PROVE CronTypes'
    <2>1. [i \in DOMAIN file \ {j} |-> file[i]] \in [DOMAIN file \ {j} -> Specs]
          BY <1>0, RegistryFacts DEF CronTypes
    <2>2. file' \in Registries
          BY <1>0, <1>1, <2>1, RegistryFacts, IsRegistry DEF CronTypes, RemoveJob
    <2> QED BY <1>0, <1>1, <2>2 DEF CronTypes, RemoveJob
  <1>2. ASSUME NEW j \in Jobs, NEW spec \in Specs, Add(j, spec) PROVE CronTypes'
    <2>1. [i \in DOMAIN file \cup {j} |-> IF i = j THEN spec ELSE file[i]]
              \in [DOMAIN file \cup {j} -> Specs]
          BY <1>0, RegistryFacts DEF CronTypes
    <2>2. file' \in Registries
          BY <1>0, <1>2, <2>1, RegistryFacts, IsRegistry DEF CronTypes, Add
    <2> QED BY <1>0, <1>2, <2>2 DEF CronTypes, Add
  <1>3. ASSUME NEW j \in Jobs, FallAsleep(j) PROVE CronTypes'
    <2>1. sleeper' \in [Jobs -> Sleep]
      <3>1. CASE ComingUp(j) = {}
            BY <1>0, <1>3, <3>1 DEF FallAsleep, Sleep, Off
      <3>2. CASE ComingUp(j) # {}
        <4> DEFINE t == Earliest(ComingUp(j))
        <4>1. t \in 1..Horizon /\ t - now \in 0..Horizon
              BY <1>3, <3>2, NextIsAhead DEF FallAsleep
        <4>2. sleeper' = [sleeper EXCEPT ![j] = [at |-> "asleep", next |-> t, left |-> t - now]]
              BY <1>3, <3>2 DEF FallAsleep
        <4> HIDE DEF t
        <4>3. [at |-> "asleep", next |-> t, left |-> t - now] \in Sleep
              BY <4>1 DEF Sleep
        <4> QED BY <1>0, <4>2, <4>3
      <3> QED BY <3>1, <3>2
    <2> QED BY <1>0, <1>3, <2>1 DEF CronTypes, FallAsleep, Sleep
  <1>4. ASSUME NEW j \in Jobs, WakeUp(j) PROVE CronTypes'
    <2>1. sleeper' \in [Jobs -> Sleep]
          BY <1>0, <1>4 DEF WakeUp, Sleep
    <2> QED BY <1>0, <1>4, <2>1 DEF CronTypes, WakeUp, Sleep
  <1>5. ASSUME NEW j \in Jobs, Enqueue(j) PROVE CronTypes'
    <2>1. sleeper' \in [Jobs -> Sleep]
          BY <1>0, <1>5 DEF Enqueue, Sleep
    <2>2. sleeper[j].next \in 1..Horizon
      <3>1. sleeper[j].next \in registry[j].times
            BY <1>5, SleeperFacts DEF Enqueue, SleeperInv
      <3> QED BY <1>5, <3>1, SleeperFacts DEF Enqueue
    <2>3. queue' \in Seq(Jobs \X (1..Horizon)) /\ Len(queue') <= QueueSize
          BY <1>0, <1>5, <2>2 DEF Enqueue, CronTypes
    <2>4. fires' \in [Jobs -> [1..Horizon -> Nat]]
          BY <1>0, <1>5, <2>2 DEF Enqueue, CronTypes
    <2> QED BY <1>0, <1>5, <2>1, <2>3, <2>4 DEF CronTypes, Enqueue, Sleep
  <1>6. ASSUME Start PROVE CronTypes'
    <2>1. sleeper' \in [Jobs -> Sleep]
          BY <1>6 DEF Start, Sleepers, Off, Sleep
    <2>2. fires' \in [Jobs -> [1..Horizon -> Nat]] /\ late' \in [Jobs -> SUBSET (1..Horizon)]
          /\ skipped' \in [Jobs -> SUBSET (1..Horizon)]
          BY <1>6 DEF Start, NoFires
    <2>3. queue' \in Seq(Jobs \X (1..Horizon)) /\ Len(queue') <= QueueSize
          BY <1>6 DEF Start
    <2> QED BY <1>0, <1>6, <2>1, <2>2, <2>3 DEF CronTypes, Start, Sleep
  <1>7. ASSUME Kill PROVE CronTypes'
    <2>1. sleeper' \in [Jobs -> Sleep]
          BY <1>7 DEF Kill, Off, Sleep
    <2>2. fires' \in [Jobs -> [1..Horizon -> Nat]] /\ late' \in [Jobs -> SUBSET (1..Horizon)]
          /\ skipped' \in [Jobs -> SUBSET (1..Horizon)]
          BY <1>7 DEF Kill, NoFires
    <2>3. queue' \in Seq(Jobs \X (1..Horizon)) /\ Len(queue') <= QueueSize
          BY <1>7 DEF Kill
    <2> QED BY <1>0, <1>7, <2>1, <2>2, <2>3 DEF CronTypes, Kill, Sleep
  <1>8. ASSUME Take PROVE CronTypes'
    <2>1. queue \in Seq(Jobs \X (1..Horizon)) /\ queue # <<>> /\ Len(queue) <= QueueSize
          BY <1>0, <1>8 DEF CronTypes, Take
    <2>2. /\ Tail(queue) \in Seq(Jobs \X (1..Horizon)) /\ Head(queue) \in Jobs \X (1..Horizon)
          /\ Len(Tail(queue)) <= QueueSize
          BY <2>1
    <2>3. runner' \in (Jobs \X (1..Horizon)) \X {"agent", "deliver"}
          BY <1>8, <2>2 DEF Take
    <2> QED BY <1>0, <1>8, <2>2, <2>3 DEF CronTypes, Take
  <1>9. ASSUME AgentEnds PROVE CronTypes'
        BY <1>0, <1>9 DEF CronTypes, AgentEnds
  <1>10. ASSUME Deliver PROVE CronTypes'
        BY <1>0, <1>10 DEF CronTypes, Deliver
  <1>11. ASSUME Return PROVE CronTypes'
        BY <1>0, <1>11 DEF CronTypes, Return
  <1>12. ASSUME Tick PROVE CronTypes'
    <2>1. now' \in 0..Horizon
          BY <1>0, <1>12 DEF CronTypes, Tick
    <2>2. ASSUME NEW j \in Jobs PROVE sleeper'[j] \in Sleep
      <3>1. sleeper[j] \in Sleep /\ (sleeper[j].at = "asleep" => sleeper[j].left > 0)
            BY <1>0, <1>12 DEF Tick, Waits
      <3> QED BY <3>1, <1>12 DEF Tick, Sleep
    <2>3. sleeper' \in [Jobs -> Sleep]
          BY <1>12, <2>2 DEF Tick
    <2>4. \A j \in Jobs : sleeper[j].at # "ended" => Passed(j) \subseteq 1..Horizon
          BY PassedFacts
    <2>5. late' \in [Jobs -> SUBSET (1..Horizon)] /\ skipped' \in [Jobs -> SUBSET (1..Horizon)]
          BY <1>0, <1>12, <2>4 DEF CronTypes, Tick
    <2> QED BY <1>0, <1>12, <2>1, <2>3, <2>5 DEF CronTypes, Tick, Sleep
  <1>13. ASSUME SetBack PROVE CronTypes'
        BY <1>0, <1>13 DEF CronTypes, SetBack, Adjusted
  <1>14. ASSUME SetForward PROVE CronTypes'
    <2>1. now' \in 0..Horizon
          BY <1>0, <1>14 DEF CronTypes, SetForward
    <2>2. \A j \in Jobs : sleeper[j].at # "ended" => Passed(j) \subseteq 1..Horizon
          BY PassedFacts
    <2>3. skipped' \in [Jobs -> SUBSET (1..Horizon)]
          BY <1>0, <1>14, <2>2 DEF CronTypes, SetForward
    <2> QED BY <1>0, <1>14, <2>1, <2>3 DEF CronTypes, SetForward, Adjusted
  <1> QED BY <1>1, <1>2, <1>3, <1>4, <1>5, <1>6, <1>7, <1>8, <1>9, <1>10, <1>11, <1>12, <1>13,
             <1>14 DEF CronNext

(* The clock that was not set back did not run back.                       *)
LEMMA SinceStep ==
    ASSUME CronInv, CronNext
    PROVE  (~setBack => since <= now)'
  <1>1. now \in Nat /\ since \in Nat /\ (~setBack => since <= now)
        BY CronAssumption DEF CronInv, CronTypes
  <1>2. \/ UNCHANGED <<now, since, setBack>>
        \/ now' = now /\ since' = now
        \/ setBack'
        \/ Tick \/ SetForward
        BY DEF CronNext, RemoveJob, Add, FallAsleep, WakeUp, Enqueue, Start, Kill, Take,
               AgentEnds, Deliver, Return, SetBack
  <1>3. Tick => now' \in Nat /\ now <= now' /\ UNCHANGED <<since, setBack>>
        BY <1>1 DEF Tick
  <1>4. SetForward => now' \in Nat /\ now <= now' /\ UNCHANGED <<since, setBack>>
        BY <1>1, CronAssumption DEF SetForward
  <1> QED BY <1>1, <1>2, <1>3, <1>4

LEMMA FallAsleepStep ==
    ASSUME CronInv, NEW j \in Jobs, FallAsleep(j)
    PROVE  SleeperInv(j)'
  <1>1. /\ sleeper[j] \in Sleep /\ sleeper[j].at = "awake"
        /\ now \in Nat /\ since \in Nat /\ SleeperInv(j) /\ (~setBack => since <= now)
        BY SleeperFacts DEF FallAsleep, CronInv
  <1>2. daemon = "up" /\ Active(j) /\ registry[j].times \subseteq 1..Horizon
        BY <1>1, SleeperFacts DEF SleeperInv
  <1>3. ~setBack => UpToDate(j)
        BY <1>1, <1>2 DEF SleeperInv, Punctual
  <1>4. /\ UNCHANGED <<registry, daemon, now, setBack, jumped, since, fires, late, skipped>>
        /\ j \in DOMAIN sleeper
        BY DEF FallAsleep, CronInv, CronTypes
  <1>5. CASE ComingUp(j) = {}
    <2>1. sleeper'[j] = Off
          BY <1>4, <1>5 DEF FallAsleep
    <2>2. \A t \in registry[j].times : t <= now
          BY <1>1, <1>2, <1>5 DEF ComingUp
    <2> QED BY <1>1, <1>2, <1>3, <1>4, <2>1, <2>2
            DEF SleeperInv, Punctual, UpToDate, Met, Fired, Active, Off
  <1>6. CASE ComingUp(j) # {}
    <2> DEFINE t == Earliest(ComingUp(j))
    <2>1. sleeper'[j] = [at |-> "asleep", next |-> t, left |-> t - now]
          BY <1>4, <1>6 DEF FallAsleep
    <2>2. /\ t \in 1..Horizon /\ t \in registry[j].times /\ now < t
          /\ \A u \in registry[j].times : u < t => u <= now
          BY <1>1, <1>6, NextIsAhead
    <2> HIDE DEF t
    <2>3. t \in Nat /\ now + (t - now) = t
          BY <1>1, <2>2
    <2>4. ASSUME ~setBack PROVE Asleep(j)'
      <3>1. since < t
            BY <1>1, <2>2, <2>3, <2>4
      <3>2. ASSUME NEW u \in registry[j].times, since < u, u < t PROVE Met(j, u)
            BY <1>3, <2>2, <2>4, <3>2 DEF UpToDate
      <3>3. ASSUME NEW u \in 1..Horizon, Fired(j, u) PROVE u < t
        <4>1. u <= now
              BY <1>1, <2>4, <3>3 DEF SleeperInv
        <4> QED BY <1>1, <2>2, <2>3, <4>1
      <3>4. \A u \in registry[j].times : ~(t < u /\ u <= now)
            BY <1>1, <1>2, <2>2, <2>3
      <3> QED BY <1>4, <2>1, <2>3, <3>1, <3>2, <3>3, <3>4 DEF Asleep, Met, Fired
    <2>5. SleeperInv(j)' <=>
            /\ \A u \in 1..Horizon : Fired(j, u) => Active(j) /\ u \in registry[j].times
            /\ ~setBack =>
                 /\ \A u \in 1..Horizon : Fired(j, u) => fires[j][u] = 1 /\ since < u /\ u <= now
                 /\ Asleep(j)'
          BY <1>2, <1>4, <2>1, <2>2 DEF SleeperInv, Punctual, Fired, Active
    <2> QED BY <1>1, <2>4, <2>5 DEF SleeperInv
  <1> QED BY <1>5, <1>6

LEMMA WakeUpStep ==
    ASSUME CronInv, NEW j \in Jobs, WakeUp(j)
    PROVE  SleeperInv(j)'
  <1>1. /\ sleeper[j] \in Sleep /\ sleeper[j].at = "asleep" /\ sleeper[j].left = 0
        /\ now \in Nat /\ since \in Nat /\ SleeperInv(j)
        BY SleeperFacts DEF WakeUp
  <1>2. daemon = "up" /\ Active(j) /\ registry[j].times \subseteq 1..Horizon
        BY <1>1, SleeperFacts DEF SleeperInv
  <1>3. /\ UNCHANGED <<registry, daemon, now, setBack, jumped, since, fires, late, skipped>>
        /\ j \in DOMAIN sleeper
        BY DEF WakeUp, CronInv, CronTypes
  <1>4. sleeper'[j] = [sleeper[j] EXCEPT !.at = "sending"]
        BY <1>3 DEF WakeUp
  <1>5. sleeper'[j].at = "sending" /\ sleeper'[j].next = sleeper[j].next
        BY <1>1, <1>4 DEF Sleep
  <1>6. ASSUME ~setBack PROVE Sending(j)'
    <2>1. Asleep(j)
          BY <1>1, <1>2, <1>6 DEF SleeperInv, Punctual
    <2>2. sleeper[j].next <= now /\ sleeper[j].next \in Nat
          BY <1>1, <2>1 DEF Asleep, Sleep
    <2>3. ASSUME NEW t \in registry[j].times, since < t, t <= now, t # sleeper[j].next
          PROVE  Met(j, t)
      <3>1. t < sleeper[j].next \/ sleeper[j].next < t
            BY <1>1, <1>2, <2>2, <2>3
      <3> QED BY <2>1, <2>3, <3>1 DEF Asleep
    <2> QED BY <1>1, <1>3, <1>5, <2>1, <2>2, <2>3 DEF Asleep, Sending, Met, Fired
  <1>7. SleeperInv(j)' <=>
          /\ sleeper[j].next \in registry[j].times
          /\ \A t \in 1..Horizon : Fired(j, t) => Active(j) /\ t \in registry[j].times
          /\ ~setBack =>
               /\ \A t \in 1..Horizon : Fired(j, t) => fires[j][t] = 1 /\ since < t /\ t <= now
               /\ Sending(j)'
        BY <1>2, <1>3, <1>5 DEF SleeperInv, Punctual, Fired, Active
  <1> QED BY <1>1, <1>6, <1>7 DEF SleeperInv

LEMMA EnqueueStep ==
    ASSUME CronInv, NEW j \in Jobs, Enqueue(j)
    PROVE  SleeperInv(j)'
  <1> DEFINE n == sleeper[j].next
  <1>1. /\ sleeper[j] \in Sleep /\ sleeper[j].at = "sending"
        /\ now \in Nat /\ since \in Nat /\ SleeperInv(j)
        BY SleeperFacts DEF Enqueue
  <1>2. daemon = "up" /\ Active(j) /\ registry[j].times \subseteq 1..Horizon
        BY <1>1, SleeperFacts DEF SleeperInv
  <1>3. n \in registry[j].times /\ n \in 1..Horizon /\ n \in Nat
        BY <1>1, <1>2 DEF SleeperInv
  <1>4. /\ UNCHANGED <<registry, daemon, now, setBack, jumped, since, late, skipped>>
        /\ fires \in [Jobs -> [1..Horizon -> Nat]] /\ sleeper \in [Jobs -> Sleep]
        BY DEF Enqueue, CronInv, CronTypes, Sleep
  <1>5. sleeper'[j] = [sleeper[j] EXCEPT !.at = "awake"] /\ sleeper'[j].at = "awake"
        BY <1>1, <1>4 DEF Enqueue, Sleep
  <1>6. /\ fires'[j][n] = fires[j][n] + 1
        /\ \A t \in 1..Horizon : t # n => fires'[j][t] = fires[j][t]
        /\ \A t \in 1..Horizon : fires[j][t] \in Nat
        BY <1>3, <1>4 DEF Enqueue
  <1> HIDE DEF n
  <1>7. \A t \in 1..Horizon : Fired(j, t)' <=> Fired(j, t) \/ t = n
        BY <1>3, <1>6 DEF Fired
  <1>8. \A t \in 1..Horizon : Fired(j, t)' => Active(j) /\ t \in registry[j].times
        BY <1>1, <1>2, <1>3, <1>7 DEF SleeperInv
  <1>9. ASSUME ~setBack
        PROVE  /\ \A t \in 1..Horizon : Fired(j, t)' => fires'[j][t] = 1 /\ since < t /\ t <= now
               /\ UpToDate(j)'
    <2>1. Sending(j)
          BY <1>1, <1>2, <1>9 DEF SleeperInv, Punctual
    <2>2. since < n /\ n <= now /\ ~Fired(j, n)
          BY <1>3, <2>1 DEF Sending, n
    <2>3. fires'[j][n] = 1
          BY <1>3, <1>6, <2>2 DEF Fired
    <2>4. \A t \in 1..Horizon : Fired(j, t)' => fires'[j][t] = 1 /\ since < t /\ t <= now
          BY <1>1, <1>6, <1>7, <1>9, <2>2, <2>3 DEF SleeperInv
    <2>5. ASSUME NEW t \in registry[j].times, since < t, t <= now PROVE Met(j, t)'
      <3>1. t = n \/ Met(j, t)
            BY <2>1, <2>5 DEF Sending, n
      <3> QED BY <1>2, <1>3, <1>4, <1>7, <3>1 DEF Met
    <2> QED BY <1>4, <2>4, <2>5 DEF UpToDate
  <1> QED BY <1>2, <1>4, <1>5, <1>8, <1>9 DEF SleeperInv, Punctual, Active

LEMMA StartStep ==
    ASSUME CronInv, NEW j \in Jobs, Start
    PROVE  SleeperInv(j)'
  <1>1. \A t \in 1..Horizon : ~Fired(j, t)'
        BY DEF Start, NoFires, Fired
  <1>2. daemon' = "up" /\ registry' = file /\ since' = now /\ now' = now /\ now \in Nat
        BY SleeperFacts DEF Start
  <1>3. /\ sleeper'[j].at = "awake" => Active(j)'
        /\ Active(j)' => sleeper'[j].at = "awake"
        /\ sleeper'[j].at \in {"awake", "ended"}
        BY <1>2 DEF Start, Sleepers, Off, Active
  <1>4. Active(j)' => UpToDate(j)'
    <2> SUFFICES ASSUME Active(j)' PROVE UpToDate(j)'
        OBVIOUS
    <2>1. file[j].times \subseteq 1..Horizon
          BY <1>2, RegistryFacts DEF Active, CronInv, CronTypes
    <2>2. \A t \in file[j].times : ~(now < t /\ t <= now)
          BY <1>2, <2>1
    <2> QED BY <1>2, <2>2 DEF UpToDate
  <1> QED BY <1>1, <1>2, <1>3, <1>4 DEF SleeperInv, Punctual

(* Time goes on, by a tick or by a jump: it is enough that what passes is  *)
(* met, but for the time the task is asleep for and those before it, and   *)
(* that a sleep does not end before its time.                              *)
LEMMA TimeStep ==
    ASSUME CronInv, NEW j \in Jobs, now' \in Nat, now <= now',
           UNCHANGED <<registry, daemon, setBack, since, fires>>, jumped => jumped',
           late[j] \subseteq late'[j], skipped[j] \subseteq skipped'[j],
           sleeper'[j].at = sleeper[j].at, sleeper'[j].next = sleeper[j].next,
           ~setBack /\ sleeper[j].at # "ended" =>
               \A t \in Passed(j) : (sleeper[j].at = "asleep" => t > sleeper[j].next) => Met(j, t)',
           ~setBack /\ sleeper[j].at = "asleep" =>
               /\ sleeper[j].next <= now' + sleeper'[j].left
               /\ ~jumped' => sleeper[j].next = now' + sleeper'[j].left
    PROVE  SleeperInv(j)'
  <1>1. /\ sleeper[j] \in Sleep /\ now \in Nat /\ since \in Nat /\ SleeperInv(j)
        /\ sleeper[j].next \in Nat
        BY SleeperFacts DEF Sleep
  <1>2. \A t : Fired(j, t)' <=> Fired(j, t)
        BY DEF Fired
  <1>3. \A t : Met(j, t) => Met(j, t)'
        BY <1>2 DEF Met
  <1>4. Active(j) <=> Active(j)'
        BY DEF Active
  <1>5. Active(j) => registry[j].times \subseteq 1..Horizon
        BY RegistryFacts DEF Active, CronInv, CronTypes
  <1>6. ASSUME ~setBack, daemon = "up", Active(j) PROVE Punctual(j)'
    <2>1. Punctual(j)
          BY <1>1, <1>6 DEF SleeperInv
    <2>2. \A t \in registry[j].times : t \in Nat
          BY <1>5, <1>6
    <2>3. \A t \in registry[j].times : t <= now' => t <= now \/ t \in Passed(j)
          BY <1>1, <2>2 DEF Passed
    <2>4. CASE sleeper[j].at = "asleep"
      <3>1. Asleep(j)
            BY <2>1, <2>4 DEF Punctual
      <3>2. \A t \in registry[j].times : sleeper[j].next < t /\ t <= now' => Met(j, t)'
            BY <1>1, <1>3, <1>6, <2>2, <2>3, <2>4, <3>1 DEF Asleep
      <3>3. \A t \in registry[j].times : since < t /\ t < sleeper[j].next => Met(j, t)'
            BY <1>3, <3>1 DEF Asleep
      <3>4. Asleep(j)'
            BY <1>2, <1>6, <2>4, <3>1, <3>2, <3>3 DEF Asleep
      <3> QED BY <2>4, <3>4 DEF Punctual
    <2>5. CASE sleeper[j].at = "sending"
      <3>1. Sending(j)
            BY <2>1, <2>5 DEF Punctual
      <3>2. \A t \in registry[j].times :
                since < t /\ t <= now' /\ t # sleeper[j].next => Met(j, t)'
            BY <1>3, <1>6, <2>3, <2>5, <3>1 DEF Sending
      <3>3. sleeper[j].next <= now'
            BY <1>1, <3>1 DEF Sending
      <3>4. Sending(j)'
            BY <1>2, <3>1, <3>2, <3>3 DEF Sending
      <3> QED BY <2>5, <3>4 DEF Punctual
    <2>6. CASE sleeper[j].at = "awake"
      <3>1. UpToDate(j)
            BY <2>1, <2>6 DEF Punctual
      <3>2. UpToDate(j)'
            BY <1>3, <1>6, <2>3, <2>6, <3>1 DEF UpToDate
      <3> QED BY <2>6, <3>2 DEF Punctual
    <2>7. CASE sleeper[j].at = "ended"
      <3>1. UpToDate(j) /\ \A t \in registry[j].times : t <= now
            BY <2>1, <2>7 DEF Punctual
      <3>2. \A t \in registry[j].times : t <= now'
            BY <1>1, <2>2, <3>1
      <3>3. UpToDate(j)'
            BY <1>3, <3>1 DEF UpToDate
      <3> QED BY <2>7, <3>2, <3>3 DEF Punctual
    <2> QED BY <1>1, <2>4, <2>5, <2>6, <2>7 DEF Sleep
  <1>7. ASSUME ~setBack
        PROVE  \A t \in 1..Horizon : Fired(j, t) => fires[j][t] = 1 /\ since < t /\ t <= now'
        BY <1>1, <1>7 DEF SleeperInv
  <1> QED BY <1>1, <1>2, <1>4, <1>6, <1>7 DEF SleeperInv

LEMMA TickStep ==
    ASSUME CronInv, NEW j \in Jobs, Tick
    PROVE  SleeperInv(j)'
  <1>1. /\ sleeper[j] \in Sleep /\ now \in Nat /\ now <= Horizon /\ since \in Nat /\ SleeperInv(j)
        /\ Horizon \in Nat /\ Waits(j)
        /\ now' = (IF now < Horizon THEN now + 1 ELSE now)
        /\ UNCHANGED <<registry, daemon, setBack, jumped, since, fires>>
        BY SleeperFacts DEF Tick, CronInv, CronTypes
  <1>2. now' \in Nat /\ now <= now'
        BY <1>1
  <1>3. sleeper[j].at # "asleep" => sleeper'[j] = sleeper[j]
        BY DEF Tick
  <1>4. sleeper[j].at = "asleep" => /\ sleeper'[j].at = "asleep"
                                    /\ sleeper'[j].next = sleeper[j].next
                                    /\ sleeper'[j].left = sleeper[j].left - 1
        BY <1>1 DEF Tick, Sleep
  <1>5. late[j] \subseteq late'[j] /\ skipped[j] \subseteq skipped'[j]
        BY DEF Tick
  <1>6. ASSUME ~setBack, sleeper[j].at = "asleep"
        PROVE  /\ sleeper[j].next <= now' + sleeper'[j].left
               /\ ~jumped => sleeper[j].next = now' + sleeper'[j].left /\ now' <= sleeper[j].next
    <2>1. daemon = "up" /\ Active(j)
          BY <1>1, <1>6 DEF SleeperInv
    <2>2. Asleep(j) /\ sleeper[j].left \in Nat /\ sleeper[j].left > 0
          BY <1>1, <1>6, <2>1 DEF SleeperInv, Punctual, Sleep, Waits
    <2>3. sleeper[j].next \in Nat /\ sleeper[j].next <= Horizon
          BY <1>1 DEF Sleep
    <2>4. sleeper[j].next <= now + sleeper[j].left /\ (~jumped => sleeper[j].next = now + sleeper[j].left)
          BY <2>2 DEF Asleep
    <2> QED BY <1>1, <1>4, <1>6, <2>2, <2>3, <2>4
  <1>7. ASSUME ~setBack, sleeper[j].at # "ended", NEW t \in Passed(j),
               sleeper[j].at = "asleep" => t > sleeper[j].next
        PROVE  Met(j, t)'
    <2>1. t \in 1..Horizon /\ t <= now'
          BY <1>7, PassedFacts DEF Passed
    <2>2. CASE sleeper[j].at = "asleep"
      <3>1. t \in skipped'[j]
            BY <1>7, <2>2 DEF Tick
      <3>2. jumped
            BY <1>1, <1>2, <1>6, <1>7, <2>1, <2>2 DEF Sleep
      <3> QED BY <1>1, <3>1, <3>2 DEF Met
    <2>3. CASE sleeper[j].at = "sending"
      <3>1. t \in late'[j]
            BY <1>7, <2>3 DEF Tick
      <3> QED BY <3>1 DEF Met
    <2> QED BY <1>1, <1>7, <2>2, <2>3 DEF Waits
  <1> QED BY <1>1, <1>2, <1>3, <1>4, <1>5, <1>6, <1>7, TimeStep

LEMMA SetForwardStep ==
    ASSUME CronInv, NEW j \in Jobs, SetForward
    PROVE  SleeperInv(j)'
  <1>1. /\ sleeper[j] \in Sleep /\ now \in Nat /\ SleeperInv(j) /\ Horizon \in Nat
        /\ sleeper'[j] = sleeper[j] /\ late' = late /\ jumped'
        /\ UNCHANGED <<registry, daemon, setBack, since, fires>>
        BY SleeperFacts DEF SetForward
  <1>2. now' \in Nat /\ now <= now'
        BY <1>1 DEF SetForward
  <1>3. skipped[j] \subseteq skipped'[j]
        BY DEF SetForward
  <1>4. ASSUME sleeper[j].at # "ended", NEW t \in Passed(j),
               sleeper[j].at = "asleep" => t > sleeper[j].next
        PROVE  Met(j, t)'
    <2>1. t \in skipped'[j]
          BY <1>4 DEF SetForward
    <2> QED BY <1>1, <2>1 DEF Met
  <1>5. ASSUME ~setBack, sleeper[j].at = "asleep"
        PROVE  sleeper[j].next <= now' + sleeper'[j].left
    <2>1. Asleep(j) /\ sleeper[j].left \in Nat /\ sleeper[j].next \in Nat
          BY <1>1, <1>5 DEF SleeperInv, Punctual, Sleep
    <2> QED BY <1>1, <1>2, <2>1 DEF Asleep
  <1> QED BY <1>1, <1>2, <1>3, <1>4, <1>5, TimeStep

LEMMA SleeperStep ==
    ASSUME CronInv, NEW j \in Jobs, CronNext
    PROVE  SleeperInv(j)'
  <1> DEFINE Same == /\ sleeper'[j] = sleeper[j] /\ fires'[j] = fires[j] /\ late'[j] = late[j]
                     /\ skipped'[j] = skipped[j]
                     /\ UNCHANGED <<registry, daemon, now, setBack, jumped, since>>
  <1>1. SleeperInv(j) /\ sleeper \in [Jobs -> Sleep] /\ fires \in [Jobs -> [1..Horizon -> Nat]]
        BY DEF CronInv, CronTypes, Sleep
  <1>2. Same => SleeperInv(j)'
        BY <1>1, LeftAlone
  <1>3. ASSUME NEW i \in Jobs, FallAsleep(i) \/ WakeUp(i) \/ Enqueue(i) PROVE SleeperInv(j)'
    <2>1. CASE i = j
          BY <1>3, <2>1, FallAsleepStep, WakeUpStep, EnqueueStep
    <2>2. CASE i # j
      <3>1. Same
            BY <1>1, <1>3, <2>2 DEF FallAsleep, WakeUp, Enqueue
      <3> QED BY <1>2, <3>1
    <2> QED BY <2>1, <2>2
  <1>4. ASSUME Kill PROVE SleeperInv(j)'
    <2>1. daemon' = "down" /\ sleeper'[j].at = "ended" /\ \A t \in 1..Horizon : ~Fired(j, t)'
          BY <1>4 DEF Kill, Off, NoFires, Fired
    <2> QED BY <2>1 DEF SleeperInv
  <1>5. ASSUME Return PROVE SleeperInv(j)'
    <2>1. /\ daemon' = "down" /\ sleeper[j].at = "ended"
          /\ UNCHANGED <<registry, sleeper, fires, now, since, setBack>>
          BY <1>5 DEF Return
    <2> QED BY <1>1, <2>1 DEF SleeperInv, Fired, Active
  <1>6. ASSUME SetBack PROVE SleeperInv(j)'
    <2>1. setBack' /\ UNCHANGED <<registry, sleeper, fires, daemon>>
          BY <1>6 DEF SetBack
    <2> QED BY <1>1, <2>1 DEF SleeperInv, Fired, Active
  <1>7. ASSUME (\E i \in Jobs : RemoveJob(i) \/ \E spec \in Specs : Add(i, spec))
               \/ Take \/ AgentEnds \/ Deliver
        PROVE  SleeperInv(j)'
    <2>1. Same
          BY <1>7 DEF RemoveJob, Add, Take, AgentEnds, Deliver
    <2> QED BY <1>2, <2>1
  <1> QED BY <1>3, <1>4, <1>5, <1>6, <1>7, StartStep, TickStep, SetForwardStep DEF CronNext

LEMMA AlwaysCron == CronSpec => []CronInv
  <1>1. CronInv /\ [CronNext]_cronVars => CronInv'
    <2> SUFFICES ASSUME CronInv, [CronNext]_cronVars PROVE CronInv'
        OBVIOUS
    <2>1. CASE CronNext
          BY <2>1, CronTypesStep, SinceStep, SleeperStep DEF CronInv
    <2>2. CASE UNCHANGED cronVars
      <3>1. CronTypes'
            BY <2>2 DEF cronVars, CronInv, CronTypes
      <3>2. ASSUME NEW j \in Jobs PROVE SleeperInv(j)'
            BY <2>2, LeftAlone DEF cronVars, CronInv
      <3> QED BY <2>2, <3>1, <3>2 DEF cronVars, CronInv
    <2> QED BY <2>1, <2>2
  <1> QED BY <1>1, InitCron, PTL DEF CronSpec

(* The daemon keeps the schedule it was started with, for any file, any    *)
(* times and any size of the queue: it runs what is enabled and due, once  *)
(* for a fire time, and a fire time that passes is queued or at hand or    *)
(* was lost while its task waited for room in the queue, or slept on for   *)
(* an earlier one after the wall clock was set forward or the machine      *)
(* suspended (run_job_forever, scheduler.rs).                              *)
THEOREM ScheduleStaysKept == CronSpec => []ScheduleIsKept
  <1>1. CronInv => ScheduleIsKept
    <2> SUFFICES ASSUME CronInv PROVE ScheduleIsKept
        OBVIOUS
    <2>1. RunsAreDue
          BY DEF CronInv, RunsAreDue, SleeperInv, Fired, Active
    <2>2. ASSUME daemon = "up", ~setBack, NEW j \in Jobs, Active(j),
                 NEW t \in registry[j].times, since < t, t <= now
          PROVE  \/ fires[j][t] > 0 \/ t \in late[j]
                 \/ jumped /\ t \in skipped[j]
                 \/ sleeper[j].at \in {"asleep", "sending"} /\ sleeper[j].next = t
      <3>1. Punctual(j) /\ sleeper[j] \in Sleep /\ now \in Nat
            BY <2>2, SleeperFacts DEF SleeperInv
      <3>2. CASE sleeper[j].at = "asleep"
        <4>1. Asleep(j) /\ sleeper[j].next \in Nat /\ sleeper[j].left \in Nat
              BY <3>1, <3>2 DEF Punctual, Sleep
        <4>2. t \in Nat
              BY <2>2, RegistryFacts DEF Active, CronInv, CronTypes
        <4>3. t < sleeper[j].next \/ t = sleeper[j].next \/ sleeper[j].next < t
              BY <4>1, <4>2
        <4> QED BY <2>2, <3>2, <4>1, <4>3 DEF Asleep, Met, Fired
      <3>3. CASE sleeper[j].at = "sending"
            BY <2>2, <3>1, <3>3 DEF Punctual, Sending, Met, Fired
      <3>4. CASE sleeper[j].at \in {"awake", "ended"}
            BY <2>2, <3>1, <3>4 DEF Punctual, UpToDate, Met, Fired
      <3> QED BY <3>1, <3>2, <3>3, <3>4 DEF Sleep
    <2> QED BY <2>1, <2>2 DEF ScheduleIsKept, MissedOnlyWhenBlocked, Active
  <1> QED BY <1>1, AlwaysCron, PTL
=============================================================================
