------------------------- MODULE ConversationProofs -------------------------
(***************************************************************************)
(* Lemmas about histories of Conversation, for every set of calls: what a  *)
(* turn and an answer do to a history whose last turn may still have open  *)
(* calls.  Completeness alone says nothing while calls are open; the       *)
(* strengthening HistoryInv keeps the position of the turn being answered  *)
(* and what is answered of it so far.                                      *)
(***************************************************************************)
EXTENDS Conversation, TLAPS

(* ms ends in the turn at position a, d of whose calls are answered.       *)
AnsweringAt(ms, pending, a) ==
    LET d == Len(ms) - a
    IN  /\ ms[a].role = "assistant"
        /\ Len(ms[a].calls) = d + Len(pending)
        /\ \A k \in 1..Len(pending) : pending[k] = ms[a].calls[d + k]
        /\ \A k \in 1..d : Answered(ms, a, k)
        /\ CallsAnswered(ms, a - 1)
        /\ NoOrphanAnswer(ms, Len(ms))

Answering(ms, pending) ==
    pending # <<>> => \E a \in 1..Len(ms) : AnsweringAt(ms, pending, a)

HistoryInv(ms, pending) ==
    /\ ms \in Seq(Message)
    /\ pending \in Seq(Calls)
    /\ pending = <<>> => Complete(ms)
    /\ Answering(ms, pending)

-----------------------------------------------------------------------------
(* Appending a message changes nothing about the positions before it.      *)
LEMMA AppendKeeps ==
    ASSUME NEW ms \in Seq(Message), NEW m \in Message
    PROVE  /\ Append(ms, m) \in Seq(Message)
           /\ Len(Append(ms, m)) = Len(ms) + 1
           /\ Append(ms, m)[Len(ms) + 1] = m
           /\ \A i \in 1..Len(ms) : Append(ms, m)[i] = ms[i]
  OBVIOUS

LEMMA CallsStayAnswered ==
    ASSUME NEW ms \in Seq(Message), NEW m \in Message, NEW n \in Nat,
           n <= Len(ms), CallsAnswered(ms, n)
    PROVE  CallsAnswered(Append(ms, m), n)
  <1> DEFINE new == Append(ms, m)
  <1> SUFFICES ASSUME NEW i \in 1..n, new[i].role = "assistant"
               PROVE  /\ i + Len(new[i].calls) <= n
                      /\ \A k \in 1..Len(new[i].calls) : Answered(new, i, k)
      BY DEF CallsAnswered
  <1>1. new[i] = ms[i] /\ ms[i] \in Message
        BY AppendKeeps
  <1>2. /\ i + Len(ms[i].calls) <= n
        /\ \A k \in 1..Len(ms[i].calls) : Answered(ms, i, k)
        BY <1>1 DEF CallsAnswered
  <1>3. Len(ms[i].calls) \in Nat
        BY <1>1 DEF Message
  <1>4. ASSUME NEW k \in 1..Len(ms[i].calls) PROVE new[i + k] = ms[i + k]
        BY <1>2, <1>3, AppendKeeps
  <1> HIDE DEF new
  <1> QED BY <1>1, <1>2, <1>3, <1>4 DEF Answered

LEMMA NoNewOrphan ==
    ASSUME NEW ms \in Seq(Message), NEW m \in Message, NEW n \in Nat,
           n <= Len(ms), NoOrphanAnswer(ms, n)
    PROVE  NoOrphanAnswer(Append(ms, m), n)
  <1> DEFINE new == Append(ms, m)
  <1> SUFFICES ASSUME NEW j \in 1..n, new[j].role = "tool"
               PROVE  \E i \in 1..(j - 1) : /\ new[i].role = "assistant"
                                            /\ j - i <= Len(new[i].calls)
                                            /\ Answered(new, i, j - i)
      BY DEF NoOrphanAnswer
  <1>1. \A i \in 1..Len(ms) : new[i] = ms[i]
        BY AppendKeeps
  <1> HIDE DEF new
  <1>2. PICK i \in 1..(j - 1) : /\ ms[i].role = "assistant"
                                /\ j - i <= Len(ms[i].calls)
                                /\ Answered(ms, i, j - i)
        BY <1>1 DEF NoOrphanAnswer
  <1>3. i + (j - i) = j
        OBVIOUS
  <1> QED BY <1>1, <1>2, <1>3 DEF Answered

(* The messages the abstract steps append are messages.                    *)
LEMMA NewMessages ==
    /\ \A hasText \in BOOLEAN, cs \in Seq(Calls) : AssistantMessage(hasText, cs) \in Message
    /\ \A c \in Calls, content \in Contents : ToolResponse(c, content) \in Message
  BY DEF AssistantMessage, ToolResponse, Message, Contents, Ids

(* A turn of the model opens its calls on a complete history.              *)
LEMMA TurnOpens ==
    ASSUME NEW ms, NEW cs \in Seq(Calls), NEW m \in Message,
           HistoryInv(ms, <<>>), m.role = "assistant", m.calls = cs
    PROVE  HistoryInv(Append(ms, m), cs)
  <1> DEFINE new == Append(ms, m)
             L == Len(ms)
  <1>1. ms \in Seq(Message) /\ L \in Nat /\ CallsAnswered(ms, L) /\ NoOrphanAnswer(ms, L)
        BY DEF HistoryInv, Complete
  <1>2. /\ new \in Seq(Message)
        /\ Len(new) = L + 1
        /\ new[L + 1] = m
        /\ \A i \in 1..L : new[i] = ms[i]
        BY <1>1, AppendKeeps
  <1>3. CallsAnswered(new, L) /\ NoOrphanAnswer(new, L)
        BY <1>1, CallsStayAnswered, NoNewOrphan
  <1> HIDE DEF new
  <1>4. NoOrphanAnswer(new, L + 1)
        <2> SUFFICES ASSUME NEW j \in 1..(L + 1), new[j].role = "tool"
                     PROVE  \E i \in 1..(j - 1) : /\ new[i].role = "assistant"
                                                  /\ j - i <= Len(new[i].calls)
                                                  /\ Answered(new, i, j - i)
            BY DEF NoOrphanAnswer
        <2>1. j \in 1..L
              BY <1>1, <1>2
        <2> QED BY <2>1, <1>3 DEF NoOrphanAnswer
  <1>5. ASSUME cs = <<>> PROVE Complete(new)
        <2>1. CallsAnswered(new, L + 1)
              <3> SUFFICES ASSUME NEW i \in 1..(L + 1), new[i].role = "assistant"
                           PROVE  /\ i + Len(new[i].calls) <= L + 1
                                  /\ \A k \in 1..Len(new[i].calls) : Answered(new, i, k)
                  BY DEF CallsAnswered
              <3>1. CASE i = L + 1
                    <4>1. new[i].calls = <<>>
                          BY <3>1, <1>2, <1>5
                    <4>2. Len(new[i].calls) = 0
                          BY <4>1
                    <4> QED BY <4>2, <3>1, <1>1
              <3>2. CASE i \in 1..L
                    <4>1. /\ i + Len(new[i].calls) <= L
                          /\ \A k \in 1..Len(new[i].calls) : Answered(new, i, k)
                          BY <3>2, <1>3 DEF CallsAnswered
                    <4>2. Len(new[i].calls) \in Nat
                          BY <1>2 DEF Message
                    <4> QED BY <4>1, <4>2, <1>1
              <3> QED BY <3>1, <3>2, <1>1
        <2> QED BY <2>1, <1>2, <1>4 DEF Complete
  <1>6. AnsweringAt(new, cs, L + 1)
        BY <1>1, <1>2, <1>3, <1>4 DEF AnsweringAt
  <1>7. Answering(new, cs)
        BY <1>1, <1>2, <1>6 DEF Answering
  <1> QED BY <1>2, <1>5, <1>7 DEF HistoryInv, new

(* An answer closes the first open call.                                   *)
LEMMA AnswerCloses ==
    ASSUME NEW ms, NEW open, NEW m \in Message,
           HistoryInv(ms, open), open # <<>>, m.role = "tool", m.callId = Head(open).id
    PROVE  HistoryInv(Append(ms, m), Tail(open))
  <1> DEFINE new == Append(ms, m)
             rest == Tail(open)
             L == Len(ms)
  <1>1. ms \in Seq(Message) /\ open \in Seq(Calls)
        BY DEF HistoryInv
  <1>2. L \in Nat
        BY <1>1
  <1>3. /\ rest \in Seq(Calls) /\ Head(open) = open[1]
        /\ \A k \in 1..Len(rest) : rest[k] = open[k + 1]
        BY <1>1
  <1>4. Len(open) \in Nat \ {0} /\ Len(rest) \in Nat /\ Len(rest) = Len(open) - 1
        BY <1>1
  <1>5. /\ new \in Seq(Message)
        /\ Len(new) = L + 1
        /\ new[L + 1] = m
        /\ \A i \in 1..L : new[i] = ms[i]
        BY <1>1, AppendKeeps
  <1>6. PICK a \in 1..L : AnsweringAt(ms, open, a)
        BY DEF HistoryInv, Answering
  <1> DEFINE d == L - a
  <1>7. /\ ms[a].role = "assistant"
        /\ \A k \in 1..Len(open) : open[k] = ms[a].calls[d + k]
        /\ \A k \in 1..d : Answered(ms, a, k)
        /\ CallsAnswered(ms, a - 1)
        /\ NoOrphanAnswer(ms, L)
        BY <1>6 DEF AnsweringAt
  <1>8. d \in Nat /\ a + d = L /\ a + (d + 1) = L + 1
        BY <1>2
  <1>9. Len(ms[a].calls) = d + Len(open)
        BY <1>6 DEF AnsweringAt
  <1>10. CallsAnswered(new, a - 1) /\ NoOrphanAnswer(new, L)
         BY <1>1, <1>2, <1>7, CallsStayAnswered, NoNewOrphan
  <1> HIDE DEF d, new, rest
  <1>11. new[a] = ms[a]
         BY <1>2, <1>5
  <1>12. Len(new[a].calls) = (d + 1) + Len(rest)
         BY <1>4, <1>8, <1>9, <1>11
  <1>13. Answered(new, a, d + 1)
         <2>1. open[1] = new[a].calls[d + 1]
               BY <1>4, <1>7, <1>11
         <2>2. new[a + (d + 1)] = m
               BY <1>5, <1>8
         <2> QED BY <2>1, <2>2, <1>3 DEF Answered
  <1>14. ASSUME NEW k \in 1..(d + 1) PROVE Answered(new, a, k)
         <2>1. CASE k = d + 1
               BY <2>1, <1>13
         <2>2. CASE k \in 1..d
               <3>1. new[a + k] = ms[a + k]
                     BY <2>2, <1>2, <1>5, <1>8
               <3> QED BY <3>1, <2>2, <1>7, <1>11 DEF Answered
         <2> QED BY <2>1, <2>2, <1>8
  <1>15. NoOrphanAnswer(new, L + 1)
         <2> SUFFICES ASSUME NEW j \in 1..(L + 1), new[j].role = "tool"
                      PROVE  \E i \in 1..(j - 1) : /\ new[i].role = "assistant"
                                                   /\ j - i <= Len(new[i].calls)
                                                   /\ Answered(new, i, j - i)
             BY DEF NoOrphanAnswer
         <2>1. CASE j \in 1..L
               BY <2>1, <1>2, <1>10 DEF NoOrphanAnswer
         <2>2. CASE j = L + 1
               <3>1. a \in 1..(j - 1) /\ j - a = d + 1
                     BY <2>2, <1>2, <1>8
               <3>2. d + 1 <= Len(new[a].calls)
                     BY <1>4, <1>8, <1>12
               <3> QED BY <3>1, <3>2, <1>7, <1>11, <1>13
         <2> QED BY <2>1, <2>2, <1>2
  <1>16. ASSUME rest = <<>> PROVE Complete(new)
         <2>1. Len(new[a].calls) = d + 1
               <3>1. Len(rest) = 0
                     BY <1>16
               <3> QED BY <3>1, <1>8, <1>12
         <2>2. CallsAnswered(new, L + 1)
               <3> SUFFICES ASSUME NEW i \in 1..(L + 1), new[i].role = "assistant"
                            PROVE  /\ i + Len(new[i].calls) <= L + 1
                                   /\ \A k \in 1..Len(new[i].calls) : Answered(new, i, k)
                   BY DEF CallsAnswered
               <3>1. CASE i \in 1..(a - 1)
                     <4>1. /\ i + Len(new[i].calls) <= a - 1
                           /\ \A k \in 1..Len(new[i].calls) : Answered(new, i, k)
                           BY <3>1, <1>10 DEF CallsAnswered
                     <4>2. Len(new[i].calls) \in Nat
                           BY <1>5 DEF Message
                     <4> QED BY <4>1, <4>2, <1>2
               <3>2. CASE i = a
                     BY <3>2, <2>1, <1>8, <1>14
               <3>3. CASE i \in (a + 1)..(L + 1)
                     <4>1. i - a \in 1..(d + 1) /\ a + (i - a) = i
                           BY <3>3, <1>2, <1>8
                     <4>2. new[i].role = "tool"
                           BY <4>1, <1>14 DEF Answered
                     <4> QED BY <4>2
               <3> QED BY <3>1, <3>2, <3>3, <1>2
         <2> QED BY <2>2, <1>5, <1>15 DEF Complete
  <1>17. Answering(new, rest)
         <2>1. Len(new) - a = d + 1
               BY <1>5, <1>8
         <2>2. ASSUME NEW k \in 1..Len(rest) PROVE rest[k] = new[a].calls[(d + 1) + k]
               <3>1. k + 1 \in 1..Len(open) /\ d + (k + 1) = (d + 1) + k
                     BY <1>4, <1>8
               <3>2. rest[k] = open[k + 1]
                     BY <1>3
               <3> QED BY <3>1, <3>2, <1>7, <1>11
         <2>3. AnsweringAt(new, rest, a)
               BY <2>1, <2>2, <1>5, <1>7, <1>10, <1>11, <1>12, <1>14, <1>15 DEF AnsweringAt
         <2> QED BY <2>3, <1>2, <1>5 DEF Answering
  <1> QED BY <1>3, <1>5, <1>16, <1>17 DEF HistoryInv, new, rest

(* A message of the system or of the user closes nothing and opens nothing.*)
LEMMA PlainKeeps ==
    ASSUME NEW ms, NEW m \in Message,
           HistoryInv(ms, <<>>), m.role \in {"system", "user"}
    PROVE  HistoryInv(Append(ms, m), <<>>)
  <1> DEFINE new == Append(ms, m)
             L == Len(ms)
  <1>1. ms \in Seq(Message) /\ L \in Nat /\ CallsAnswered(ms, L) /\ NoOrphanAnswer(ms, L)
        BY DEF HistoryInv, Complete
  <1>2. /\ new \in Seq(Message)
        /\ Len(new) = L + 1
        /\ new[L + 1] = m
        BY <1>1, AppendKeeps
  <1>3. CallsAnswered(new, L) /\ NoOrphanAnswer(new, L)
        BY <1>1, CallsStayAnswered, NoNewOrphan
  <1> HIDE DEF new
  <1>4. CallsAnswered(new, L + 1)
        <2> SUFFICES ASSUME NEW i \in 1..(L + 1), new[i].role = "assistant"
                     PROVE  /\ i + Len(new[i].calls) <= L + 1
                            /\ \A k \in 1..Len(new[i].calls) : Answered(new, i, k)
            BY DEF CallsAnswered
        <2>1. i \in 1..L
              BY <1>1, <1>2
        <2>2. /\ i + Len(new[i].calls) <= L
              /\ \A k \in 1..Len(new[i].calls) : Answered(new, i, k)
              BY <2>1, <1>3 DEF CallsAnswered
        <2>3. Len(new[i].calls) \in Nat
              BY <1>2 DEF Message
        <2> QED BY <2>1, <2>2, <2>3, <1>1
  <1>5. NoOrphanAnswer(new, L + 1)
        <2> SUFFICES ASSUME NEW j \in 1..(L + 1), new[j].role = "tool"
                     PROVE  \E i \in 1..(j - 1) : /\ new[i].role = "assistant"
                                                  /\ j - i <= Len(new[i].calls)
                                                  /\ Answered(new, i, j - i)
            BY DEF NoOrphanAnswer
        <2>1. j \in 1..L
              BY <1>1, <1>2
        <2> QED BY <2>1, <1>3 DEF NoOrphanAnswer
  <1>6. Complete(new)
        BY <1>2, <1>4, <1>5 DEF Complete
  <1>7. <<>> \in Seq(Calls) /\ Answering(new, <<>>)
        BY DEF Answering
  <1> QED BY <1>2, <1>6, <1>7 DEF HistoryInv, new

(* A history whose calls are all answered has none open.                   *)
LEMMA NothingOpen ==
    ASSUME NEW ms, NEW pending, HistoryInv(ms, pending), CallsAnswered(ms, Len(ms))
    PROVE  pending = <<>>
  <1> SUFFICES ASSUME pending # <<>> PROVE FALSE
      OBVIOUS
  <1>1. PICK a \in 1..Len(ms) : AnsweringAt(ms, pending, a)
        BY DEF HistoryInv, Answering
  <1>2. /\ Len(ms[a].calls) = (Len(ms) - a) + Len(pending)
        /\ ms[a].role = "assistant"
        BY <1>1 DEF AnsweringAt
  <1>3. Len(pending) \in Nat \ {0} /\ Len(ms) \in Nat
        BY DEF HistoryInv
  <1>4. a + Len(ms[a].calls) <= Len(ms)
        BY <1>2 DEF CallsAnswered
  <1> QED BY <1>2, <1>3, <1>4

(* The first k messages of a history, and the next one.                    *)
LEMMA PrefixGrows ==
    ASSUME NEW ms \in Seq(Message), NEW k \in Nat, k < Len(ms)
    PROVE  /\ SubSeq(ms, 1, k) \in Seq(Message)
           /\ Len(SubSeq(ms, 1, k)) = k
           /\ \A i \in 1..k : SubSeq(ms, 1, k)[i] = ms[i]
           /\ ms[k + 1] \in Message
           /\ SubSeq(ms, 1, k + 1) = Append(SubSeq(ms, 1, k), ms[k + 1])
  OBVIOUS

(* In a complete history, the message after a prefix is the answer to the  *)
(* first call the prefix leaves open, and no answer if it leaves none open.*)
LEMMA NextAnswers ==
    ASSUME NEW ms \in Seq(Message), NEW k \in Nat, k < Len(ms), NEW pending,
           Complete(ms), HistoryInv(SubSeq(ms, 1, k), pending)
    PROVE  /\ pending = <<>> => ms[k + 1].role # "tool"
           /\ pending # <<>> => /\ ms[k + 1].role = "tool"
                                /\ ms[k + 1].callId = Head(pending).id
  <1> DEFINE start == SubSeq(ms, 1, k)
  <1>1. /\ start \in Seq(Message) /\ Len(start) = k /\ Len(ms) \in Nat
        /\ \A i \in 1..k : start[i] = ms[i]
        BY PrefixGrows
  <1> HIDE DEF start
  <1>2. HistoryInv(start, pending)
        BY DEF start
  <1>3. ASSUME pending = <<>>, ms[k + 1].role = "tool" PROVE FALSE
        <2>1. PICK i \in 1..k : /\ ms[i].role = "assistant"
                                /\ (k + 1) - i <= Len(ms[i].calls)
              <3>1. k + 1 \in 1..Len(ms) /\ (k + 1) - 1 = k
                    BY <1>1
              <3> QED BY <3>1, <1>3 DEF Complete, NoOrphanAnswer
        <2>2. CallsAnswered(start, k)
              BY <1>1, <1>2, <1>3 DEF HistoryInv, Complete
        <2>3. i + Len(ms[i].calls) <= k
              BY <2>1, <2>2, <1>1 DEF CallsAnswered
        <2>4. Len(ms[i].calls) \in Nat
              <3>1. ms[i] \in Message
                    BY <1>1
              <3> QED BY <3>1 DEF Message
        <2> QED BY <2>1, <2>3, <2>4
  <1>4. ASSUME pending # <<>>
        PROVE  ms[k + 1].role = "tool" /\ ms[k + 1].callId = Head(pending).id
        <2>1. PICK a \in 1..k : AnsweringAt(start, pending, a)
              BY <1>1, <1>2, <1>4 DEF HistoryInv, Answering
        <2>2. pending \in Seq(Calls) /\ Len(pending) \in Nat \ {0} /\ Head(pending) = pending[1]
              BY <1>2, <1>4 DEF HistoryInv
        <2>3. /\ start[a].role = "assistant"
              /\ Len(start[a].calls) = (k - a) + Len(pending)
              /\ pending[1] = start[a].calls[(k - a) + 1]
              BY <2>1, <2>2, <1>1 DEF AnsweringAt
        <2>4. start[a] = ms[a] /\ a \in 1..Len(ms)
              BY <1>1
        <2>5. Answered(ms, a, (k - a) + 1)
              <3>1. (k - a) + 1 \in 1..Len(ms[a].calls)
                    BY <2>2, <2>3, <2>4
              <3> QED BY <3>1, <2>3, <2>4 DEF Complete, CallsAnswered
        <2>6. a + ((k - a) + 1) = k + 1
              OBVIOUS
        <2> QED BY <2>2, <2>3, <2>4, <2>5, <2>6 DEF Answered
  <1> QED BY <1>3, <1>4

(* Copying the next message of a complete history behind another history   *)
(* that has the same calls open leaves both with the same calls open.      *)
LEMMA CopyKeepsPace ==
    ASSUME NEW ms \in Seq(Message), NEW k \in Nat, k < Len(ms), NEW pending, NEW copy,
           Complete(ms), HistoryInv(SubSeq(ms, 1, k), pending), HistoryInv(copy, pending)
    PROVE  \E rest : /\ HistoryInv(SubSeq(ms, 1, k + 1), rest)
                     /\ HistoryInv(Append(copy, ms[k + 1]), rest)
  <1> DEFINE start == SubSeq(ms, 1, k)
  <1>1. /\ SubSeq(ms, 1, k + 1) = Append(start, ms[k + 1])
        /\ ms[k + 1] \in Message
        BY PrefixGrows
  <1>2. PICK m \in Message : m = ms[k + 1]
        BY <1>1
  <1>3. HistoryInv(start, pending)
        OBVIOUS
  <1> HIDE DEF start
  <1>4. /\ pending = <<>> => m.role # "tool"
        /\ pending # <<>> => m.role = "tool" /\ m.callId = Head(pending).id
        BY <1>2, NextAnswers
  <1>5. CASE pending # <<>>
        BY <1>1, <1>2, <1>3, <1>4, <1>5, AnswerCloses
  <1>6. CASE pending = <<>> /\ m.role = "assistant"
        <2>1. PICK cs \in Seq(Calls) : cs = m.calls
              BY DEF Message
        <2>2. HistoryInv(start, <<>>) /\ HistoryInv(copy, <<>>)
              BY <1>3, <1>6
        <2>3. HistoryInv(Append(start, m), cs)
              BY <2>1, <2>2, <1>6, TurnOpens
        <2>4. HistoryInv(Append(copy, m), cs)
              BY <2>1, <2>2, <1>6, TurnOpens
        <2> QED BY <2>3, <2>4, <1>1, <1>2
  <1>7. CASE pending = <<>> /\ m.role # "assistant"
        <2>1. m.role \in {"system", "user"}
              BY <1>4, <1>7 DEF Message
        <2> QED BY <2>1, <1>1, <1>2, <1>3, <1>7, PlainKeeps
  <1> QED BY <1>5, <1>6, <1>7

(* One complete history behind another is a complete history.              *)
LEMMA ConcatComplete ==
    ASSUME NEW ms \in Seq(Message), NEW rs \in Seq(Message), Complete(ms), Complete(rs)
    PROVE  Complete(ms \o rs)
  <1>1. PICK L \in Nat, R \in Nat, new \in Seq(Message) :
            L = Len(ms) /\ R = Len(rs) /\ new = ms \o rs
        <2>1. ms \o rs \in Seq(Message)
              OBVIOUS
        <2>2. Len(ms) \in Nat /\ Len(rs) \in Nat
              OBVIOUS
        <2> QED BY <2>1, <2>2
  <1>2. /\ Len(new) = L + R
        /\ \A i \in 1..L : new[i] = ms[i]
        /\ \A i \in 1..R : new[L + i] = rs[i]
        BY <1>1
  <1>3. CallsAnswered(ms, L) /\ CallsAnswered(rs, R) /\ NoOrphanAnswer(ms, L) /\ NoOrphanAnswer(rs, R)
        BY <1>1 DEF Complete
  <1>4. \A i \in 1..(L + R) : i \in 1..L \/ (i - L \in 1..R /\ i = L + (i - L))
        OBVIOUS
  <1>5. \A i \in 1..(L + R) : Len(new[i].calls) \in Nat
        <2>1. \A i \in 1..(L + R) : new[i] \in Message
              BY <1>2
        <2> QED BY <2>1 DEF Message
  <1>6. CallsAnswered(new, L + R)
        <2> SUFFICES ASSUME NEW i \in 1..(L + R), new[i].role = "assistant"
                     PROVE  /\ i + Len(new[i].calls) <= L + R
                            /\ \A k \in 1..Len(new[i].calls) : Answered(new, i, k)
            BY DEF CallsAnswered
        <2>0. PICK n \in Nat : n = Len(new[i].calls)
              <3>1. Len(new[i].calls) \in Nat
                    BY <1>5
              <3> QED BY <3>1
        <2>1. CASE i \in 1..L
              <3>1. /\ i + Len(new[i].calls) <= L
                    /\ \A k \in 1..Len(new[i].calls) : Answered(ms, i, k)
                    BY <2>1, <1>2, <1>3 DEF CallsAnswered
              <3>2. ASSUME NEW k \in 1..Len(new[i].calls) PROVE new[i + k] = ms[i + k]
                    <4>1. k \in 1..n /\ i + n <= L
                          BY <3>1, <2>0
                    <4>2. i + k \in 1..L
                          BY <2>1, <4>1
                    <4> QED BY <4>2, <1>2
              <3>3. new[i] = ms[i] /\ i + Len(new[i].calls) <= L + R
                    <4>1. i + n <= L + R
                          BY <3>1, <2>0
                    <4> QED BY <2>1, <1>2, <2>0, <4>1
              <3> QED BY <3>1, <3>2, <3>3 DEF Answered
        <2>2. CASE i \notin 1..L
              <3>1. PICK j \in 1..R : i = L + j
                    BY <2>2, <1>4
              <3>2. new[i] = rs[j]
                    BY <3>1, <1>2
              <3>3. /\ j + Len(new[i].calls) <= R
                    /\ \A k \in 1..Len(new[i].calls) : Answered(rs, j, k)
                    BY <3>2, <1>3 DEF CallsAnswered
              <3>4. ASSUME NEW k \in 1..Len(new[i].calls)
                    PROVE  j + k \in 1..R /\ i + k = L + (j + k)
                    <4>1. k \in 1..n /\ j + n <= R
                          BY <3>3, <2>0
                    <4> QED BY <3>1, <4>1
              <3>5. ASSUME NEW k \in 1..Len(new[i].calls) PROVE new[i + k] = rs[j + k]
                    <4>1. PICK h \in 1..R : h = j + k /\ i + k = L + h
                          BY <3>4
                    <4>2. new[L + h] = rs[h]
                          BY <1>2
                    <4> QED BY <4>1, <4>2
              <3>6. i + Len(new[i].calls) <= L + R
                    <4>1. j + n <= R
                          BY <3>3, <2>0
                    <4>2. i + n <= L + R
                          BY <3>1, <4>1
                    <4> QED BY <2>0, <4>2
              <3> QED BY <3>2, <3>3, <3>5, <3>6 DEF Answered
        <2> QED BY <2>1, <2>2
  <1>7. NoOrphanAnswer(new, L + R)
        <2> SUFFICES ASSUME NEW j \in 1..(L + R), new[j].role = "tool"
                     PROVE  \E i \in 1..(j - 1) : /\ new[i].role = "assistant"
                                                  /\ j - i <= Len(new[i].calls)
                                                  /\ Answered(new, i, j - i)
            BY DEF NoOrphanAnswer
        <2>1. CASE j \in 1..L
              <3>1. PICK i \in 1..(j - 1) : /\ ms[i].role = "assistant"
                                            /\ j - i <= Len(ms[i].calls)
                                            /\ Answered(ms, i, j - i)
                    BY <2>1, <1>2, <1>3 DEF NoOrphanAnswer
              <3>2. new[i] = ms[i] /\ i + (j - i) = j /\ new[j] = ms[j]
                    BY <2>1, <1>2
              <3> QED BY <3>1, <3>2 DEF Answered
        <2>2. CASE j \notin 1..L
              <3>1. PICK h \in 1..R : j = L + h
                    BY <2>2, <1>4
              <3>2. new[j] = rs[h]
                    BY <3>1, <1>2
              <3>3. PICK g \in 1..(h - 1) : /\ rs[g].role = "assistant"
                                            /\ h - g <= Len(rs[g].calls)
                                            /\ Answered(rs, g, h - g)
                    BY <3>2, <1>3 DEF NoOrphanAnswer
              <3>4. PICK i \in 1..(j - 1) : i = L + g
                    BY <3>1
              <3>5. new[i] = rs[g] /\ j - i = h - g /\ g + (h - g) = h /\ i + (h - g) = j
                    BY <3>1, <3>4, <1>2
              <3>6. Answered(new, i, h - g)
                    BY <3>2, <3>3, <3>5 DEF Answered
              <3> QED BY <3>3, <3>5, <3>6
        <2> QED BY <2>1, <2>2
  <1> QED BY <1>1, <1>2, <1>6, <1>7 DEF Complete
=============================================================================
