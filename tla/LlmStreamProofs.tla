-------------------------- MODULE LlmStreamProofs --------------------------
(***************************************************************************)
(* Theorems about LlmStream, for any chain of providers and any number of  *)
(* attempts: who is asked, and what is made of the body that is served,    *)
(* whatever its length and its chunks.  And about what the threads of      *)
(* Codex hold and know, for any conversations, overlapping runs, openings  *)
(* and bounds.                                                             *)
(***************************************************************************)
EXTENDS LlmStream, Codex, FiniteSetTheorems, SequenceTheorems, TLAPS

Verdicts == {"none", "busy", "unreachable", "refused", "quoted", "misconfigured",
             "echoed", "body"}

(* Types of the asking, and that attempt counts the requests the current   *)
(* provider has received.                                                  *)
Counted ==
    /\ phase \in {"ask", "stream", "failed", "ok", "silent", "broken"}
    /\ provider \in Providers
    /\ attempt \in 0..(MaxAttempts - 1)
    /\ asked \in [Providers -> 0..MaxAttempts]
    /\ verdict \in [Providers -> Verdicts]
    /\ phase = "ask" => asked[provider] = attempt

AskInv == Counted /\ FallThroughIsEarned

LEMMA ChainFacts ==
    /\ Len(Dialect) \in Nat \ {0}
    /\ MaxAttempts \in Nat \ {0}
    /\ Providers = 1..Len(Dialect)
  <1>1. Dialect \in Seq(Dialects) /\ Dialect # <<>> /\ MaxAttempts \in Nat \ {0}
        BY ProvidersAssumption
  <1> QED BY <1>1 DEF Providers

LEMMA InitAskInv == Init => AskInv
  <1> SUFFICES ASSUME Init PROVE AskInv
      OBVIOUS
  <1>1. Counted
        BY ChainFacts DEF Init, Counted, Verdicts
  <1>2. FallThroughIsEarned
        BY ChainFacts DEF Init, FallThroughIsEarned
  <1> QED BY <1>1, <1>2 DEF AskInv

(* Giving up on a provider, after it has been asked or before.             *)
LEMMA GiveUpKeeps ==
    ASSUME AskInv, NEW v \in Verdicts, GiveUpOn(v),
           asked' \in [Providers -> 0..MaxAttempts],
           \A p \in Providers \ {provider} : asked'[p] = asked[p],
           v = "busy" => asked'[provider] = MaxAttempts,
           v = "quoted" => asked'[provider] > 0,
           v = "echoed" => asked'[provider] = 0 /\ Dialect[provider] = "gemini",
           phase \in {"ask", "stream"}
    PROVE  AskInv'
  <1> USE ChainFacts
  <1>1. /\ provider \in 1..Len(Dialect)
        /\ \A p \in Providers : p > provider => asked[p] = 0
        BY DEF AskInv, Counted, FallThroughIsEarned
  <1>2. /\ verdict' \in [Providers -> Verdicts]
        /\ verdict'[provider] = v
        /\ \A p \in Providers \ {provider} : verdict'[p] = verdict[p]
        BY DEF GiveUpOn, AskInv, Counted
  <1>3. \A p \in Providers : p < provider => Exhausted(p)' \/ LooksExhausted(p)'
        BY <1>1, <1>2 DEF AskInv, FallThroughIsEarned, Exhausted, LooksExhausted
  <1>4. CASE IsRetriable(v) /\ provider < Len(Dialect)
    <2>1. provider' = provider + 1 /\ attempt' = 0 /\ phase' = phase /\ surfaced' = surfaced
          BY <1>4 DEF GiveUpOn
    <2>2. provider' \in Providers /\ asked'[provider'] = 0
          BY <1>1, <1>4, <2>1
    <2>3. Counted'
          BY <1>2, <2>1, <2>2 DEF Counted, AskInv
    <2>4. \A p \in Providers : p = provider => Exhausted(p)' \/ LooksExhausted(p)'
      <3>1. v \in {"busy", "quoted", "echoed"}
            BY <1>4 DEF IsRetriable
      <3> QED BY <1>2, <3>1, <2>1 DEF Exhausted, LooksExhausted
    <2>5. \A p \in Providers : p < provider' => Exhausted(p)' \/ LooksExhausted(p)'
          BY <1>1, <1>3, <2>1, <2>4
    <2>6. \A p \in Providers : p > provider' => asked'[p] = 0
          BY <1>1, <2>1
    <2>7. phase # "failed"
          OBVIOUS
    <2> QED BY <2>1, <2>3, <2>5, <2>6, <2>7 DEF AskInv, FallThroughIsEarned
  <1>5. CASE ~(IsRetriable(v) /\ provider < Len(Dialect))
    <2>1. /\ provider' = provider /\ attempt' = attempt
          /\ phase' = "failed" /\ surfaced' = provider
          BY <1>5 DEF GiveUpOn
    <2>2. Counted'
          BY <1>2, <2>1 DEF Counted, AskInv
    <2>3. IsRetriable(v) => provider = Len(Dialect)
          BY <1>1, <1>5
    <2>4. \A p \in Providers : p > provider => asked'[p] = 0
          BY <1>1
    <2>5. IsRetriable(verdict[provider])' => provider = Len(Dialect)
          BY <1>2, <2>1, <2>3 DEF IsRetriable
    <2> QED BY <1>3, <2>1, <2>2, <2>4, <2>5 DEF AskInv, FallThroughIsEarned
  <1> QED BY <1>4, <1>5

(* An attempt is counted for the provider it goes to, within the budget.   *)
LEMMA AskedOnce ==
    ASSUME AskInv, Ask
    PROVE  /\ asked' \in [Providers -> 0..MaxAttempts]
           /\ asked'[provider] = attempt + 1
           /\ \A p \in Providers \ {provider} : asked'[p] = asked[p]
  <1>1. /\ asked \in [Providers -> 0..MaxAttempts] /\ provider \in Providers
        /\ asked[provider] = attempt /\ attempt \in 0..(MaxAttempts - 1)
        BY DEF AskInv, Counted, Ask
  <1>2. asked' = [asked EXCEPT ![provider] = asked[provider] + 1]
        BY DEF Ask
  <1>3. attempt + 1 \in 0..MaxAttempts
        BY <1>1, ChainFacts
  <1> QED BY <1>1, <1>2, <1>3

LEMMA AgainKeeps ==
    ASSUME AskInv, Ask, Again, attempt + 1 < MaxAttempts
    PROVE  AskInv'
  <1>1. /\ attempt' = attempt + 1 /\ phase = "ask"
        /\ UNCHANGED <<phase, provider, verdict, surfaced>>
        BY DEF Ask, Again, GoOn
  <1>2. Counted'
    <2>1. attempt' \in 0..(MaxAttempts - 1)
          BY <1>1, ChainFacts DEF AskInv, Counted
    <2> QED BY <1>1, <2>1, AskedOnce DEF AskInv, Counted
  <1>3. FallThroughIsEarned'
    <2>1. provider \in 1..Len(Dialect) /\ Providers = 1..Len(Dialect)
          BY ChainFacts DEF AskInv, Counted
    <2>2. \A p \in Providers : p < provider \/ p > provider => asked'[p] = asked[p]
          BY <2>1, AskedOnce
    <2> QED BY <1>1, <2>2 DEF AskInv, FallThroughIsEarned, Exhausted, LooksExhausted,
               IsRetriable
  <1> QED BY <1>2, <1>3 DEF AskInv

LEMMA AskingKeeps == AskInv /\ Asking => AskInv'
  <1> SUFFICES ASSUME AskInv, Asking PROVE AskInv'
      OBVIOUS
  <1>1. CASE Busy
    <2>1. CASE attempt + 1 < MaxAttempts
          BY <1>1, <2>1, AgainKeeps DEF Busy
    <2>2. CASE ~(attempt + 1 < MaxAttempts)
      <3>1. attempt + 1 = MaxAttempts
            BY <2>2, ChainFacts DEF AskInv, Counted
      <3>2. Ask /\ GiveUpOn("busy") /\ phase = "ask"
            BY <1>1, <2>2 DEF Busy, Ask
      <3> QED BY <3>1, <3>2, AskedOnce, GiveUpKeeps DEF Verdicts
    <2> QED BY <2>1, <2>2
  <1>2. CASE Unreachable
    <2>1. CASE attempt + 1 < MaxAttempts
          BY <1>2, <2>1, AgainKeeps DEF Unreachable
    <2>2. CASE ~(attempt + 1 < MaxAttempts)
      <3>1. Ask /\ GiveUpOn("unreachable") /\ phase = "ask"
            BY <1>2, <2>2 DEF Unreachable, Ask
      <3> QED BY <3>1, AskedOnce, GiveUpKeeps DEF Verdicts
    <2> QED BY <2>1, <2>2
  <1>3. CASE Refused
    <2>1. PICK v \in {"refused", "quoted"} : GiveUpOn(v)
          BY <1>3 DEF Refused
    <2>2. Ask /\ phase = "ask"
          BY <1>3 DEF Refused, Ask
    <2>3. asked'[provider] > 0
          BY <2>2, AskedOnce, ChainFacts DEF AskInv, Counted
    <2> QED BY <2>1, <2>2, <2>3, AskedOnce, GiveUpKeeps DEF Verdicts
  <1>4. CASE Misconfigured
    <2>1. /\ asked' = asked /\ phase = "ask" /\ attempt = 0
          /\ \/ GiveUpOn("misconfigured")
             \/ Dialect[provider] = "gemini" /\ GiveUpOn("echoed")
          BY <1>4 DEF Misconfigured
    <2>2. asked' \in [Providers -> 0..MaxAttempts] /\ asked'[provider] = 0
          BY <2>1 DEF AskInv, Counted
    <2> QED BY <2>1, <2>2, GiveUpKeeps DEF Verdicts
  <1>5. CASE Served
    <2>1. Ask /\ phase' = "stream" /\ UNCHANGED <<provider, attempt, verdict, surfaced>>
          BY <1>5 DEF Served
    <2>2. Counted'
          BY <2>1, AskedOnce DEF AskInv, Counted
    <2>3. provider \in 1..Len(Dialect) /\ Providers = 1..Len(Dialect)
          BY ChainFacts DEF AskInv, Counted
    <2>4. \A p \in Providers : p < provider \/ p > provider => asked'[p] = asked[p]
          BY <2>1, <2>3, AskedOnce
    <2>5. FallThroughIsEarned'
          BY <2>1, <2>4 DEF AskInv, FallThroughIsEarned, Exhausted, LooksExhausted
    <2> QED BY <2>2, <2>5 DEF AskInv
  <1> QED BY <1>1, <1>2, <1>3, <1>4, <1>5 DEF Asking

(* What is received changes nothing in who was asked; only bedrock.rs      *)
(* gives up while it takes a body.                                         *)
LEMMA ReceivingKeeps == AskInv /\ (Receiving \/ Rest \/ UNCHANGED vars) => AskInv'
  <1> SUFFICES ASSUME AskInv, Receiving \/ Rest \/ UNCHANGED vars PROVE AskInv'
      OBVIOUS
  <1>1. CASE BodyFails
    <2>1. GiveUpOn("body") /\ asked' = asked /\ phase = "stream"
          BY <1>1 DEF BodyFails
    <2>2. asked' \in [Providers -> 0..MaxAttempts]
          BY <2>1 DEF AskInv, Counted
    <2> QED BY <2>1, <2>2, GiveUpKeeps DEF Verdicts
  <1>2. CASE Read \/ Parsing \/ Silent \/ Eof \/ Breaks \/ WholeBody \/ Rest \/ UNCHANGED vars
    <2>1. UNCHANGED asking
          BY <1>2 DEF Read, Parsing, Text, Open, Part, Close, WholeCall, Finish, DoneMark,
             ErrorEvent, Taken, Silent, Eof, Breaks, Ended, WholeBody, Rest, vars
    <2>2. phase' = phase \/ (phase = "stream" /\ phase' \in {"ok", "silent", "broken"})
          BY <1>2 DEF Read, Parsing, Text, Open, Part, Close, WholeCall, Finish, DoneMark,
             ErrorEvent, Taken, Silent, Eof, Breaks, Ended, WholeBody, Rest, vars,
             Streaming, Upcoming
    <2>3. Counted'
          BY <2>1, <2>2 DEF AskInv, Counted, asking
    <2>4. FallThroughIsEarned'
          BY <2>1, <2>2 DEF AskInv, FallThroughIsEarned, Exhausted, LooksExhausted, asking
    <2> QED BY <2>3, <2>4 DEF AskInv
  <1> QED BY <1>1, <1>2 DEF Receiving

LEMMA AskInvHolds == Spec => []AskInv
  <1>1. AskInv /\ [Next]_vars => AskInv'
        BY AskingKeeps, ReceivingKeeps DEF Next
  <1> QED BY <1>1, InitAskInv, PTL DEF Spec

(* FallbackLlmClient over send_with_retry: no provider of the chain is     *)
(* asked before all those in front of it have used up their attempts on    *)
(* 429 or 5xx, or failed with an error that quotes such words, be it a     *)
(* refusal it sent or, of a vertex client that sent nothing, what gcloud   *)
(* said; any other error is returned at once, and what is returned is the  *)
(* last provider's error.                                                  *)
THEOREM FallThroughEarned == Spec => []FallThroughIsEarned
  <1>1. AskInv => FallThroughIsEarned
        BY DEF AskInv
  <1> QED BY <1>1, AskInvHolds, PTL

(* send_with_retry: no provider receives more than MAX_ATTEMPTS requests.  *)
THEOREM RetriesAreBounded == Spec => [](\A p \in Providers : asked[p] <= MaxAttempts)
  <1>1. AskInv => \A p \in Providers : asked[p] <= MaxAttempts
        BY ChainFacts DEF AskInv, Counted
  <1> QED BY <1>1, AskInvHolds, PTL

-----------------------------------------------------------------------------
(* Bodies.  First, the least of some numbers, and numbers in order.        *)

LEMMA LeastNumber ==
    ASSUME NEW S \in SUBSET Nat, S # {}
    PROVE  \E i \in S : \A k \in S : i <= k
  <1>1. PICK i \in S : \A k \in S : <<k, i>> \notin OpToRel(<, Nat)
        BY WFMin, NatLessThanWellFounded, Zenon
  <1>2. ASSUME NEW k \in S PROVE i <= k
    <2>1. <<k, i>> \in Nat \X Nat /\ <<k, i>> \notin OpToRel(<, Nat)
          BY <1>1
    <2>2. ~(<<k, i>>[1] < <<k, i>>[2])
          BY <2>1 DEF OpToRel
    <2>3. ~(k < i)
          BY <2>2
    <2> QED BY <2>3
  <1> QED BY <1>2

(* Two lists of the same numbers in order agree as far as the first goes.  *)
LEMMA OrdersAgree ==
    ASSUME NEW S \in SUBSET Nat, NEW m \in Nat, NEW n \in Nat,
           NEW s \in [1..m -> S], NEW t \in [1..n -> S], Ordered(s, S), Ordered(t, S)
    PROVE  \A k \in 1..m : k <= n /\ s[k] = t[k]
  <1> DEFINE Bad == {k \in 1..m : ~(k <= n /\ s[k] = t[k])}
  <1> SUFFICES ASSUME Bad # {} PROVE FALSE
      OBVIOUS
  <1>1. PICK k \in Bad : \A j \in Bad : k <= j
    <2>1. Bad \in SUBSET Nat
          OBVIOUS
    <2> HIDE DEF Bad
    <2> QED BY <2>1, LeastNumber
  <1>2. /\ k \in 1..m /\ ~(k <= n /\ s[k] = t[k])
        /\ \A j \in 1..m : j < k => j <= n /\ s[j] = t[j]
        BY <1>1
  <1>3. /\ S = {s[i] : i \in 1..m} /\ \A i, j \in 1..m : i < j => s[i] < s[j]
        /\ S = {t[i] : i \in 1..n} /\ \A i, j \in 1..n : i < j => t[i] < t[j]
        BY DEF Ordered
  <1> HIDE DEF Bad
  <1>4. /\ \A i \in 1..m : s[i] \in Nat /\ s[i] \in S
        /\ \A i \in 1..n : t[i] \in Nat /\ t[i] \in S
        OBVIOUS
  <1>5. PICK j \in 1..n : s[k] = t[j]
    <2>1. s[k] \in {t[i] : i \in 1..n}
          BY <1>2, <1>3, <1>4
    <2> QED BY <2>1
  <1>6. ~(j < k)
    <2> SUFFICES ASSUME j < k PROVE FALSE
        OBVIOUS
    <2>1. j \in 1..m /\ j < k /\ k \in 1..m
          BY <1>2, <1>5
    <2>2. s[j] = t[j] /\ s[j] < s[k]
          BY <1>2, <1>3, <2>1
    <2> QED BY <1>4, <1>5, <2>1, <2>2
  <1>7. k <= n /\ k < j
        BY <1>2, <1>5, <1>6
  <1>8. t[k] < s[k] /\ t[k] \in S /\ k \in 1..n
    <2>1. k \in 1..n
          BY <1>2, <1>7
    <2>2. t[k] < t[j]
          BY <1>3, <1>5, <1>7, <2>1
    <2> QED BY <1>4, <1>5, <2>1, <2>2
  <1>9. PICK i \in 1..m : t[k] = s[i]
    <2>1. t[k] \in {s[i] : i \in 1..m}
          BY <1>3, <1>8
    <2> QED BY <2>1
  <1>10. ~(k < i) /\ k # i
    <2>1. k < i => s[k] < s[i]
          BY <1>2, <1>3, <1>9
    <2> QED BY <1>4, <1>2, <1>8, <1>9, <2>1
  <1>11. i < k
        BY <1>2, <1>9, <1>10
  <1>12. s[i] = t[i] /\ t[i] < t[k] /\ i \in 1..n
    <2>1. s[i] = t[i] /\ i <= n
          BY <1>2, <1>9, <1>11
    <2> QED BY <1>3, <1>8, <1>9, <1>11, <2>1
  <1> QED BY <1>4, <1>8, <1>9, <1>12

Listed(S) == S \in SUBSET Nat /\ \E n \in Nat : \E s \in [1..n -> S] : Ordered(s, S)

(* A list of a set in order is the only one, and as long as the set.       *)
LEMMA OrderIsInOrder ==
    ASSUME NEW S \in SUBSET Nat, NEW n \in Nat, NEW s \in [1..n -> S], Ordered(s, S)
    PROVE  IsFiniteSet(S) /\ Cardinality(S) = n /\ InOrder(S) = s
  <1>1. S = {s[i] : i \in 1..n} /\ \A i, j \in 1..n : i < j => s[i] < s[j]
        BY DEF Ordered
  <1>2. s \in Bijection(1..n, S)
    <2>1. \A i, j \in 1..n : s[i] = s[j] => i = j
      <3> SUFFICES ASSUME NEW i \in 1..n, NEW j \in 1..n, s[i] = s[j] PROVE i = j
          OBVIOUS
      <3>1. s[i] \in Nat /\ s[j] \in Nat
            OBVIOUS
      <3>2. (i < j => s[i] < s[j]) /\ (j < i => s[j] < s[i])
            BY <1>1
      <3>3. ~(i < j) /\ ~(j < i)
            BY <3>1, <3>2
      <3> QED BY <3>3
    <2> QED BY <1>1, <2>1 DEF Bijection, Injection, Surjection, IsInjective
  <1>3. IsFiniteSet(S) /\ Cardinality(S) = n
    <2>1. ExistsBijection(1..n, S)
          BY <1>2 DEF ExistsBijection
    <2> QED BY <2>1, FS_CountingElements, FS_NatBijection
  <1>4. \E t \in [1..n -> S] : Ordered(t, S)
        OBVIOUS
  <1>5. InOrder(S) \in [1..n -> S] /\ Ordered(InOrder(S), S)
        BY <1>3, <1>4 DEF InOrder
  <1>6. \A k \in 1..n : InOrder(S)[k] = s[k]
        BY <1>5, OrdersAgree
  <1> QED BY <1>3, <1>5, <1>6

LEMMA ListedFacts ==
    ASSUME NEW S, Listed(S)
    PROVE  /\ S \in SUBSET Nat /\ IsFiniteSet(S) /\ Cardinality(S) \in Nat
           /\ InOrder(S) \in [1..Cardinality(S) -> S]
           /\ Ordered(InOrder(S), S)
  <1>1. PICK n \in Nat : \E s \in [1..n -> S] : Ordered(s, S)
        BY DEF Listed
  <1>2. PICK s \in [1..n -> S] : Ordered(s, S)
        BY <1>1
  <1> QED BY <1>2, OrderIsInOrder DEF Listed

LEMMA NoneListed == Listed({}) /\ Cardinality({}) = 0
  <1> DEFINE s == [i \in 1..0 |-> i]
  <1>1. s \in [1..0 -> {}] /\ Ordered(s, {})
        BY DEF Ordered
  <1>2. \E n \in Nat : \E f \in [1..n -> {}] : Ordered(f, {})
    <2> HIDE DEF s
    <2> QED BY <1>1
  <1> QED BY <1>2, FS_EmptySet DEF Listed

(* One number above the others comes last.                                 *)
LEMMA OneMoreListed ==
    ASSUME NEW S, Listed(S), NEW x \in Nat, \A y \in S : y < x
    PROVE  /\ Listed(S \cup {x})
           /\ Cardinality(S \cup {x}) = Cardinality(S) + 1
           /\ \A i \in 1..Cardinality(S) : InOrder(S \cup {x})[i] = InOrder(S)[i]
           /\ InOrder(S \cup {x})[Cardinality(S) + 1] = x
  <1> DEFINE n == Cardinality(S)
             s == InOrder(S)
             t == [i \in 1..(n + 1) |-> IF i <= n THEN s[i] ELSE x]
  <1>1. n \in Nat /\ s \in [1..n -> S] /\ Ordered(s, S) /\ S \in SUBSET Nat
        BY ListedFacts
  <1> HIDE DEF n, s
  <1>2. t \in [1..(n + 1) -> S \cup {x}]
        BY <1>1
  <1>3. S = {s[i] : i \in 1..n} /\ \A i, j \in 1..n : i < j => s[i] < s[j]
        BY <1>1 DEF Ordered
  <1>4. S \cup {x} = {t[i] : i \in 1..(n + 1)}
    <2>1. \A y \in S : \E i \in 1..(n + 1) : y = t[i]
      <3> SUFFICES ASSUME NEW y \in S PROVE \E i \in 1..(n + 1) : y = t[i]
          OBVIOUS
      <3>1. PICK i \in 1..n : y = s[i]
        <4>1. y \in {s[i] : i \in 1..n}
              BY <1>3
        <4> QED BY <4>1
      <3>2. i \in 1..(n + 1) /\ t[i] = s[i]
            BY <1>1, <3>1
      <3> QED BY <3>1, <3>2
    <2>2. n + 1 \in 1..(n + 1) /\ t[n + 1] = x
          BY <1>1
    <2>3. \A i \in 1..(n + 1) : t[i] \in S \cup {x}
          BY <1>2
    <2> HIDE DEF t
    <2> QED BY <2>1, <2>2, <2>3
  <1>5. \A i, j \in 1..(n + 1) : i < j => t[i] < t[j]
    <2> SUFFICES ASSUME NEW i \in 1..(n + 1), NEW j \in 1..(n + 1), i < j PROVE t[i] < t[j]
        OBVIOUS
    <2>1. i \in 1..n /\ t[i] = s[i] /\ s[i] \in S
          BY <1>1
    <2>2. CASE j <= n
      <3>1. j \in 1..n /\ t[j] = s[j]
            BY <1>1, <2>2
      <3> QED BY <1>3, <2>1, <3>1
    <2>3. CASE j = n + 1
      <3>1. t[j] = x
            BY <1>1, <2>3
      <3>2. s[i] < x
            BY <2>1
      <3> QED BY <2>1, <3>1, <3>2
    <2> QED BY <1>1, <2>2, <2>3
  <1>6. Ordered(t, S \cup {x})
    <2>1. DOMAIN t = 1..(n + 1)
          BY <1>2
    <2> HIDE DEF t
    <2> QED BY <1>4, <1>5, <2>1 DEF Ordered
  <1>7. n + 1 \in Nat /\ S \cup {x} \in SUBSET Nat
        BY <1>1
  <1>8. \A i \in 1..n : i \in 1..(n + 1) /\ t[i] = s[i]
        BY <1>1
  <1>9. t[n + 1] = x
        BY <1>1
  <1> HIDE DEF t
  <1>10. Cardinality(S \cup {x}) = n + 1 /\ InOrder(S \cup {x}) = t
        BY <1>7, <1>2, <1>6, OrderIsInOrder
  <1>11. Listed(S \cup {x})
        BY <1>7, <1>2, <1>6 DEF Listed
  <1> QED BY <1>8, <1>9, <1>10, <1>11 DEF n, s

-----------------------------------------------------------------------------
(* What the n first events of a body hold, and one event more.             *)
LEMMA UpToIsFinite ==
    ASSUME NEW b, NEW n \in Nat, NEW ks
    PROVE  /\ UpTo(b, n, ks) \subseteq 1..n
           /\ IsFiniteSet(UpTo(b, n, ks)) /\ Cardinality(UpTo(b, n, ks)) \in Nat
  <1>1. UpTo(b, n, ks) \subseteq 1..n
        BY DEF UpTo
  <1>2. IsFiniteSet(1..n)
        BY FS_Interval
  <1> QED BY <1>1, <1>2, FS_Subset, FS_CardinalityType

LEMMA UpToNone == \A b, ks : UpTo(b, 0, ks) = {}
  BY DEF UpTo

LEMMA UpToMore ==
    ASSUME NEW b, NEW n \in Nat, NEW ks
    PROVE  /\ n + 1 \notin UpTo(b, n, ks)
           /\ b[n + 1].kind \in ks => UpTo(b, n + 1, ks) = UpTo(b, n, ks) \cup {n + 1}
           /\ b[n + 1].kind \notin ks => UpTo(b, n + 1, ks) = UpTo(b, n, ks)
  <1>1. \A i : i \in 1..(n + 1) <=> i \in 1..n \/ i = n + 1
        OBVIOUS
  <1>2. n + 1 \notin 1..n
        OBVIOUS
  <1> QED BY <1>1, <1>2 DEF UpTo

LEMMA CountMore ==
    ASSUME NEW b, NEW n \in Nat, NEW ks
    PROVE  Cardinality(UpTo(b, n + 1, ks)) =
              Cardinality(UpTo(b, n, ks)) + (IF b[n + 1].kind \in ks THEN 1 ELSE 0)
  <1>1. CASE b[n + 1].kind \in ks
        BY <1>1, UpToMore, UpToIsFinite, FS_AddElement
  <1>2. CASE b[n + 1].kind \notin ks
        BY <1>2, UpToMore, UpToIsFinite
  <1> QED BY <1>1, <1>2

LEMMA ListMore ==
    ASSUME NEW b, NEW n \in Nat, NEW ks, Listed(UpTo(b, n, ks)), b[n + 1].kind \in ks
    PROVE  /\ Listed(UpTo(b, n + 1, ks))
           /\ Cardinality(UpTo(b, n + 1, ks)) = Cardinality(UpTo(b, n, ks)) + 1
           /\ \A i \in 1..Cardinality(UpTo(b, n, ks)) :
                 InOrder(UpTo(b, n + 1, ks))[i] = InOrder(UpTo(b, n, ks))[i]
           /\ InOrder(UpTo(b, n + 1, ks))[Cardinality(UpTo(b, n, ks)) + 1] = n + 1
  <1>1. \A y \in UpTo(b, n, ks) : y < n + 1
        BY UpToIsFinite
  <1>2. UpTo(b, n + 1, ks) = UpTo(b, n, ks) \cup {n + 1}
        BY UpToMore
  <1> QED BY <1>1, <1>2, OneMoreListed

LEMMA PiecesMore ==
    ASSUME NEW b, NEW n \in Nat, NEW c
    PROVE  /\ Pieces(b, n, c) \in Nat
           /\ Pieces(b, n + 1, c) =
                 Pieces(b, n, c) + (IF b[n + 1].kind = "part" /\ b[n + 1].call = c THEN 1 ELSE 0)
  <1> DEFINE P(k) == {i \in UpTo(b, k, {"part"}) : b[i].call = c}
  <1>1. IsFiniteSet(P(n)) /\ n + 1 \notin P(n)
    <2>1. P(n) \subseteq UpTo(b, n, {"part"})
          OBVIOUS
    <2> QED BY <2>1, UpToIsFinite, UpToMore, FS_Subset
  <1>2. ASSUME b[n + 1].kind = "part", b[n + 1].call = c PROVE P(n + 1) = P(n) \cup {n + 1}
    <2>1. UpTo(b, n + 1, {"part"}) = UpTo(b, n, {"part"}) \cup {n + 1}
          BY <1>2, UpToMore
    <2> QED BY <1>2, <2>1
  <1>3. ~(b[n + 1].kind = "part" /\ b[n + 1].call = c) => P(n + 1) = P(n)
        BY UpToMore
  <1>4. \A k : Pieces(b, k, c) = Cardinality(P(k))
        BY DEF Pieces
  <1> HIDE DEF P
  <1> QED BY <1>1, <1>2, <1>3, <1>4, FS_AddElement, FS_CardinalityType

LEMMA PiecesNone == \A b, c : Pieces(b, 0, c) = 0
  <1> SUFFICES ASSUME NEW b, NEW c PROVE Pieces(b, 0, c) = 0
      OBVIOUS
  <1>1. {i \in UpTo(b, 0, {"part"}) : b[i].call = c} = {}
        BY UpToNone
  <1> QED BY <1>1, FS_EmptySet DEF Pieces

(* The calls of the events of some kinds, in their order.                  *)
CallsOf(b, n, ks) == [k \in 1..Cardinality(UpTo(b, n, ks)) |-> b[InOrder(UpTo(b, n, ks))[k]].call]

LEMMA CallsOfMore ==
    ASSUME NEW b \in Seq(Events), NEW n \in Nat, n < Len(b), NEW ks, Listed(UpTo(b, n, ks))
    PROVE  /\ CallsOf(b, n, ks) \in Seq(Calls \cup {0})
           /\ ks \subseteq OfCalls => CallsOf(b, n, ks) \in Seq(Calls)
           /\ b[n + 1].kind \in ks =>
                 CallsOf(b, n + 1, ks) = Append(CallsOf(b, n, ks), b[n + 1].call)
  <1> DEFINE m == Cardinality(UpTo(b, n, ks))
             s == InOrder(UpTo(b, n, ks))
  <1>1. m \in Nat /\ s \in [1..m -> UpTo(b, n, ks)] /\ UpTo(b, n, ks) \subseteq 1..n
        BY ListedFacts, UpToIsFinite
  <1>2. \A i \in 1..Len(b) : b[i].call \in Calls \cup {0}
        BY DEF Events
  <1>3. \A i \in 1..m : b[s[i]].call \in Calls \cup {0}
    <2> SUFFICES ASSUME NEW i \in 1..m PROVE b[s[i]].call \in Calls \cup {0}
        OBVIOUS
    <2> HIDE DEF m, s
    <2>1. s[i] \in 1..n
          BY <1>1
    <2>2. s[i] \in 1..Len(b)
          BY <2>1
    <2> QED BY <1>2, <2>2
  <1>4. CallsOf(b, n, ks) = [k \in 1..m |-> b[s[k]].call]
        BY DEF CallsOf
  <1>5. CallsOf(b, n, ks) \in Seq(Calls \cup {0}) /\ Len(CallsOf(b, n, ks)) = m
    <2> HIDE DEF m, s
    <2> QED BY <1>1, <1>3, <1>4
  <1>6. ASSUME b[n + 1].kind \in ks
        PROVE  CallsOf(b, n + 1, ks) = Append(CallsOf(b, n, ks), b[n + 1].call)
    <2> DEFINE t == InOrder(UpTo(b, n + 1, ks))
    <2>1. /\ Cardinality(UpTo(b, n + 1, ks)) = m + 1
          /\ \A i \in 1..m : t[i] = s[i]
          /\ t[m + 1] = n + 1
          BY <1>6, ListMore
    <2>2. CallsOf(b, n + 1, ks) = [k \in 1..(m + 1) |-> b[t[k]].call]
          BY <2>1 DEF CallsOf
    <2> HIDE DEF m, s, t
    <2>3. CallsOf(b, n + 1, ks) = [k \in 1..(m + 1) |-> IF k = m + 1 THEN b[n + 1].call ELSE b[s[k]].call]
      <3>1. ASSUME NEW k \in 1..(m + 1)
            PROVE  b[t[k]].call = IF k = m + 1 THEN b[n + 1].call ELSE b[s[k]].call
        <4>1. k = m + 1 \/ k \in 1..m
              BY <1>1
        <4> QED BY <1>1, <2>1, <4>1
      <3> QED BY <2>2, <3>1
    <2> QED BY <1>1, <1>4, <1>5, <2>3
  <1>7. ASSUME ks \subseteq OfCalls PROVE CallsOf(b, n, ks) \in Seq(Calls)
    <2>1. \A i \in UpTo(b, n, ks) : b[i].call \in Calls
      <3> SUFFICES ASSUME NEW i \in UpTo(b, n, ks) PROVE b[i].call \in Calls
          OBVIOUS
      <3>1. i \in 1..Len(b) /\ b[i].kind \in OfCalls
            BY <1>1, <1>7 DEF UpTo
      <3>2. b[i] \in Events
            BY <3>1
      <3> QED BY <3>1, <3>2 DEF Events
    <2> HIDE DEF m, s
    <2>2. \A i \in 1..m : b[s[i]].call \in Calls
          BY <1>1, <2>1
    <2> QED BY <1>1, <1>4, <2>2
  <1> QED BY <1>5, <1>6, <1>7

-----------------------------------------------------------------------------
(* What a client has assembled of the first n events of a reply.           *)
Begun == {"open", "call"}
Ready == {"close", "call"}
Assembled(d, b, n, tx, pt, op, cl) ==
    /\ \A i \in 1..n : b[i].kind # "finish"
    /\ tx = Cardinality(UpTo(b, n, {"text"}))
    /\ d \in {"openai", "anthropic"} => \A c \in Calls : pt[c] = Pieces(b, n, c)
    /\ d = "openai" => op = {b[i].call : i \in UpTo(b, n, {"open"})}
    /\ Listed(UpTo(b, n, Begun))
    /\ Listed(UpTo(b, n, Ready))
    /\ cl = CallsOf(b, n, Ready)
    /\ d = "gemini" => \A k \in 1..Len(cl) : pt[cl[k]] = Frags

LEMMA WellFormedReply ==
    ASSUME NEW d \in Dialects, NEW b \in Replies[d]
    PROVE  /\ b \in Seq(Events) /\ Len(b) \in Nat
           /\ EndsLast(b)
           /\ \A i \in 1..Len(b) : b[i].kind \in Speaks[d]
           /\ d = "openai" => OpensByIndex(b) /\ (Says(b, "error") \/ OpensWhole(b))
           /\ d = "anthropic" =>
                 ClosesWhole(b) /\ ClosesInOrder(b) /\ (Says(b, "error") \/ ClosesAll(b))
           /\ \A i \in 1..Len(b) : b[i].kind \in OfCalls => b[i].call \in Calls
           /\ Calls \subseteq Nat
  <1>1. b \in Seq(Events) /\ Calls \subseteq Nat
        BY ProvidersAssumption
  <1>2. EndsLast(b) /\ \A i \in 1..Len(b) : b[i].kind \in Speaks[d]
        BY RepliesAssumption
  <1>3. d = "openai" => OpensByIndex(b) /\ (Says(b, "error") \/ OpensWhole(b))
        BY RepliesAssumption
  <1>4. d = "anthropic" =>
            ClosesWhole(b) /\ ClosesInOrder(b) /\ (Says(b, "error") \/ ClosesAll(b))
        BY RepliesAssumption
  <1>5. \A i \in 1..Len(b) : b[i].kind \in OfCalls => b[i].call \in Calls
    <2>1. \A i \in 1..Len(b) : b[i] \in Events
          BY <1>1
    <2>2. \A e \in Events : e.kind \in OfCalls => e.call \in Calls
          BY DEF Events
    <2> QED BY <2>1, <2>2
  <1> QED BY <1>1, <1>2, <1>3, <1>4, <1>5

LEMMA NothingAssembled ==
    ASSUME NEW d, NEW b, NEW pt, \A c \in Calls : pt[c] = 0
    PROVE  Assembled(d, b, 0, 0, pt, {}, <<>>)
  <1>1. Cardinality(UpTo(b, 0, {"text"})) = 0
        BY UpToNone, FS_EmptySet
  <1>2. Listed(UpTo(b, 0, Begun)) /\ Listed(UpTo(b, 0, Ready))
        BY UpToNone, NoneListed
  <1>3. CallsOf(b, 0, Ready) = <<>>
    <2>1. Cardinality(UpTo(b, 0, Ready)) = 0
          BY UpToNone, FS_EmptySet
    <2> DEFINE f == CallsOf(b, 0, Ready)
    <2>2. f = [k \in 1..0 |-> b[InOrder(UpTo(b, 0, Ready))[k]].call]
          BY <2>1 DEF CallsOf
    <2> HIDE DEF f
    <2>3. f \in Seq({}) /\ Len(f) = 0
          BY <2>2
    <2> QED BY <2>3, EmptySeq DEF f
  <1>4. {b[i].call : i \in UpTo(b, 0, {"open"})} = {}
        BY UpToNone
  <1>5. \A c \in Calls : pt[c] = Pieces(b, 0, c)
        BY PiecesNone
  <1>6. \A i \in 1..0 : FALSE
        OBVIOUS
  <1>7. 1..Len(<<>>) = 1..0
        BY EmptySeq
  <1> QED BY <1>1, <1>2, <1>3, <1>4, <1>5, <1>6, <1>7 DEF Assembled

(* One event more: what the actions do with one that ends no turn.         *)
Takes(d, e, tx, pt, op, cl, tx1, pt1, op1, cl1) ==
    /\ e.kind # "finish"
    /\ tx1 = IF e.kind = "text" THEN tx + 1 ELSE tx
    /\ e.kind = "part" => pt1 = [pt EXCEPT ![e.call] = @ + 1]
    /\ e.kind = "call" => pt1 = [pt EXCEPT ![e.call] = Frags]
    /\ e.kind \notin {"part", "call"} => pt1 = pt
    /\ d = "openai" => op1 = IF e.kind = "open" THEN op \cup {e.call} ELSE op
    /\ cl1 = IF e.kind \in Ready THEN Append(cl, e.call) ELSE cl

LEMMA OneEventMore ==
    ASSUME NEW d \in Dialects, NEW b \in Replies[d], NEW n \in Nat, n < Len(b),
           NEW tx, NEW pt \in [Calls -> Nat], NEW op, NEW cl, Assembled(d, b, n, tx, pt, op, cl),
           NEW tx1, NEW pt1, NEW op1, NEW cl1, NEW e, e = b[n + 1],
           Takes(d, e, tx, pt, op, cl, tx1, pt1, op1, cl1)
    PROVE  pt1 \in [Calls -> Nat] /\ Assembled(d, b, n + 1, tx1, pt1, op1, cl1)
  <1>1. /\ e.kind # "finish"
        /\ tx1 = IF e.kind = "text" THEN tx + 1 ELSE tx
        /\ e.kind = "part" => pt1 = [pt EXCEPT ![e.call] = @ + 1]
        /\ e.kind = "call" => pt1 = [pt EXCEPT ![e.call] = Frags]
        /\ e.kind \notin {"part", "call"} => pt1 = pt
        /\ d = "openai" => op1 = IF e.kind = "open" THEN op \cup {e.call} ELSE op
        /\ cl1 = IF e.kind \in Ready THEN Append(cl, e.call) ELSE cl
        BY DEF Takes
  <1> USE <1>1
  <1>2. /\ b \in Seq(Events) /\ e.kind \in Speaks[d] /\ n + 1 \in 1..Len(b)
        /\ e.kind \in OfCalls => e.call \in Calls
        /\ Frags \in Nat
        BY WellFormedReply, ProvidersAssumption
  <1>3. pt1 \in [Calls -> Nat]
        BY <1>2
  <1>4. \A i \in 1..(n + 1) : b[i].kind # "finish"
    <2>1. \A i \in 1..(n + 1) : i \in 1..n \/ i = n + 1
          OBVIOUS
    <2> QED BY <2>1 DEF Assembled
  <1>5. tx1 = Cardinality(UpTo(b, n + 1, {"text"}))
        BY CountMore DEF Assembled
  <1>6. ASSUME d \in {"openai", "anthropic"} PROVE \A c \in Calls : pt1[c] = Pieces(b, n + 1, c)
    <2> SUFFICES ASSUME NEW c \in Calls PROVE pt1[c] = Pieces(b, n + 1, c)
        OBVIOUS
    <2>1. pt[c] = Pieces(b, n, c)
          BY <1>6 DEF Assembled
    <2>2. Pieces(b, n + 1, c) =
              Pieces(b, n, c) + (IF e.kind = "part" /\ e.call = c THEN 1 ELSE 0)
      <3>1. Pieces(b, n + 1, c) =
                Pieces(b, n, c) + (IF b[n + 1].kind = "part" /\ b[n + 1].call = c THEN 1 ELSE 0)
            BY PiecesMore, Zenon
      <3> QED BY <3>1
    <2>3. Pieces(b, n, c) \in Nat
          BY PiecesMore, Zenon
    <2>4. CASE e.kind = "part"
      <3>1. e.call \in Calls /\ pt1 = [pt EXCEPT ![e.call] = pt[e.call] + 1]
            BY <1>2, <2>4 DEF OfCalls
      <3>2. pt1[c] = IF c = e.call THEN pt[c] + 1 ELSE pt[c]
            BY <3>1
      <3>3. Pieces(b, n + 1, c) = IF c = e.call THEN Pieces(b, n, c) + 1 ELSE Pieces(b, n, c)
            BY <2>4, <2>2, <2>3
      <3> QED BY <2>1, <3>2, <3>3
    <2>5. CASE e.kind # "part"
      <3>1. e.kind \in Speaks[d]
            BY <1>2
      <3>2. e.kind # "call"
            BY <1>6, <3>1 DEF Speaks
      <3>3. pt1 = pt
            BY <2>5, <3>2
      <3>4. Pieces(b, n + 1, c) = Pieces(b, n, c)
            BY <2>5, <2>2, <2>3
      <3> QED BY <2>1, <3>3, <3>4
    <2> QED BY <2>4, <2>5
  <1>7. d = "openai" => op1 = {b[i].call : i \in UpTo(b, n + 1, {"open"})}
    <2> SUFFICES ASSUME d = "openai" PROVE op1 = {b[i].call : i \in UpTo(b, n + 1, {"open"})}
        OBVIOUS
    <2>1. op = {b[i].call : i \in UpTo(b, n, {"open"})}
          BY DEF Assembled
    <2>2. CASE e.kind = "open"
      <3>1. b[n + 1].kind \in {"open"}
            BY <2>2
      <3>2. UpTo(b, n + 1, {"open"}) = UpTo(b, n, {"open"}) \cup {n + 1}
        <4>1. \A ks : b[n + 1].kind \in ks => UpTo(b, n + 1, ks) = UpTo(b, n, ks) \cup {n + 1}
              BY UpToMore, Zenon
        <4> QED BY <3>1, <4>1, Zenon
      <3>3. op1 = op \cup {e.call}
            BY <2>2
      <3> QED BY <2>1, <3>2, <3>3
    <2>3. CASE e.kind # "open"
      <3>1. UpTo(b, n + 1, {"open"}) = UpTo(b, n, {"open"})
            BY <2>3, UpToMore
      <3> QED BY <2>1, <2>3, <3>1
    <2> QED BY <2>2, <2>3
  <1>8. Listed(UpTo(b, n + 1, Begun)) /\ Listed(UpTo(b, n + 1, Ready))
        BY ListMore, UpToMore DEF Assembled
  <1>9. cl1 = CallsOf(b, n + 1, Ready) /\ cl \in Seq(Calls)
    <2>1. Ready \subseteq OfCalls
          BY DEF Ready, OfCalls
    <2>2. Listed(UpTo(b, n, Ready)) /\ cl = CallsOf(b, n, Ready)
          BY DEF Assembled
    <2>3. CASE e.kind \in Ready
          BY <1>2, <2>1, <2>2, <2>3, CallsOfMore
    <2>4. CASE e.kind \notin Ready
      <3>1. UpTo(b, n + 1, Ready) = UpTo(b, n, Ready)
            BY <2>4, UpToMore
      <3>2. CallsOf(b, n + 1, Ready) = CallsOf(b, n, Ready)
            BY <3>1 DEF CallsOf
      <3>3. CallsOf(b, n, Ready) \in Seq(Calls)
            BY <1>2, <2>1, <2>2, CallsOfMore
      <3> QED BY <2>2, <2>4, <3>2, <3>3
    <2> QED BY <2>3, <2>4
  <1>10. ASSUME d = "gemini" PROVE \A k \in 1..Len(cl1) : pt1[cl1[k]] = Frags
    <2>1. \A k \in 1..Len(cl) : pt[cl[k]] = Frags
          BY <1>10 DEF Assembled
    <2>2. e.kind \in {"text", "call", "error"}
          BY <1>2, <1>10 DEF Speaks
    <2>3. CASE e.kind = "call"
      <3>1. e.call \in Calls /\ pt1 = [pt EXCEPT ![e.call] = Frags] /\ cl1 = Append(cl, e.call)
            BY <1>2, <2>3 DEF OfCalls, Ready
      <3>2. \A k \in 1..Len(cl1) : (k \in 1..Len(cl) /\ cl1[k] = cl[k]) \/ cl1[k] = e.call
            BY <1>9, <3>1
      <3>3. \A c \in Calls : pt[c] = Frags => pt1[c] = Frags
            BY <1>2, <3>1
      <3>4. pt1[e.call] = Frags
            BY <3>1
      <3>5. \A k \in 1..Len(cl) : cl[k] \in Calls
            BY <1>9
      <3> QED BY <2>1, <3>2, <3>3, <3>4, <3>5
    <2>4. CASE e.kind # "call"
          BY <2>1, <2>2, <2>4 DEF Ready
    <2> QED BY <2>3, <2>4
  <1> QED BY <1>3, <1>4, <1>5, <1>6, <1>7, <1>8, <1>9, <1>10 DEF Assembled

-----------------------------------------------------------------------------
(* What is handed over of what has been assembled.                         *)
HeldOf(d, pt, op, cl) ==
    IF d = "openai"
    THEN LET s == InOrder(op)
         IN  [i \in 1..Len(s) |-> [call |-> s[i], parts |-> pt[s[i]]]]
    ELSE [i \in 1..Len(cl) |-> [call |-> cl[i], parts |-> pt[cl[i]]]]

(* Nothing but marks is left of a reply.                                   *)
AllRead(b, n) == \A ks : ks \cap {"finish", "done"} = {} => UpTo(b, n, ks) = Where(b, ks)

LEMMA EndIsAllRead ==
    ASSUME NEW b, NEW n \in Nat, Len(b) \in Nat, n <= Len(b), EndsLast(b),
           n = Len(b) \/ b[n + 1].kind \in {"finish", "done"}
    PROVE  AllRead(b, n)
  <1> SUFFICES ASSUME NEW ks, ks \cap {"finish", "done"} = {} PROVE UpTo(b, n, ks) = Where(b, ks)
      BY DEF AllRead
  <1>1. CASE n = Len(b)
        BY <1>1 DEF Where
  <1>2. CASE n < Len(b) /\ b[n + 1].kind \in {"finish", "done"}
    <2>1. ASSUME NEW i \in 1..Len(b), n < i PROVE b[i].kind \notin ks
      <3>1. CASE i = n + 1
            BY <1>2, <3>1
      <3>2. CASE n + 1 < i
        <4>1. n + 1 \in 1..Len(b)
              BY <1>2
        <4>2. b[n + 1].kind # "done" /\ (b[n + 1].kind = "finish" => b[i].kind = "done")
              BY <3>2, <4>1 DEF EndsLast
        <4>3. b[i].kind = "done"
              BY <1>2, <4>2
        <4> QED BY <4>3
      <3> QED BY <2>1, <3>1, <3>2
    <2>2. \A i \in 1..Len(b) : b[i].kind \in ks => i \in 1..n
          BY <2>1
    <2>3. 1..n \subseteq 1..Len(b)
          BY <1>2
    <2> QED BY <2>2, <2>3 DEF UpTo, Where
  <1> QED BY <1>1, <1>2

LEMMA CallsInIs ==
    ASSUME NEW b, Len(b) \in Nat, Listed(Where(b, Begun))
    PROVE  CallsIn(b) = [k \in 1..Cardinality(Where(b, Begun)) |->
                            [call |-> CallsOf(b, Len(b), Begun)[k], parts |-> Frags]]
  <1> DEFINE m == Cardinality(Where(b, Begun))
             at == InOrder(Where(b, Begun))
  <1>1. m \in Nat /\ at \in [1..m -> Where(b, Begun)]
        BY ListedFacts
  <1>2. CallsOf(b, Len(b), Begun) = [k \in 1..m |-> b[at[k]].call]
        BY DEF CallsOf, Where
  <1>3. CallsIn(b) = [k \in 1..Len(at) |-> [call |-> b[at[k]].call, parts |-> Frags]]
        BY DEF CallsIn, Begun
  <1> HIDE DEF m, at
  <1>4. Len(at) = m
        BY <1>1
  <1>5. CallsIn(b) = [k \in 1..m |-> [call |-> CallsOf(b, Len(b), Begun)[k], parts |-> Frags]]
        BY <1>2, <1>3, <1>4
  <1> QED BY <1>5 DEF m

(* openai.rs keeps calls by index, which is the order they are begun in.   *)
LEMMA IndexIsOrder ==
    ASSUME NEW b \in Replies["openai"], NEW n \in Nat, n <= Len(b), Listed(UpTo(b, n, Begun)),
           NEW op, op = {b[i].call : i \in UpTo(b, n, {"open"})}
    PROVE  /\ InOrder(op) = CallsOf(b, n, Begun)
           /\ CallsOf(b, n, Begun) \in Seq(Calls)
           /\ Len(CallsOf(b, n, Begun)) = Cardinality(UpTo(b, n, Begun))
           /\ Cardinality(UpTo(b, n, Begun)) \in Nat
           /\ \A k \in 1..Cardinality(UpTo(b, n, Begun)) :
                 \E i \in UpTo(b, n, {"open"}) : CallsOf(b, n, Begun)[k] = b[i].call
  <1> DEFINE O == UpTo(b, n, Begun)
             m == Cardinality(O)
             s == InOrder(O)
             t == CallsOf(b, n, Begun)
  <1>1. /\ Len(b) \in Nat /\ OpensByIndex(b)
        /\ \A i \in 1..Len(b) : b[i].kind \in Speaks["openai"]
        /\ \A i \in 1..Len(b) : b[i].kind \in OfCalls => b[i].call \in Calls
        /\ Calls \subseteq Nat
        BY WellFormedReply DEF Dialects
  <1>2. O = UpTo(b, n, {"open"}) /\ O \subseteq Where(b, {"open"})
    <2>1. \A i \in 1..n : i \in 1..Len(b)
          BY <1>1
    <2>2. \A i \in 1..n : b[i].kind \in Begun => b[i].kind = "open"
          BY <1>1, <2>1 DEF Begun, Speaks
    <2>3. "open" \in Begun
          BY DEF Begun
    <2> QED BY <2>1, <2>2, <2>3 DEF UpTo, Where
  <1>3. m \in Nat /\ s \in [1..m -> O] /\ Ordered(s, O)
        BY ListedFacts
  <1>4. t = [k \in 1..m |-> b[s[k]].call]
        BY DEF CallsOf
  <1>5. \A i \in O : b[i].call \in Calls
    <2> SUFFICES ASSUME NEW i \in O PROVE b[i].call \in Calls
        OBVIOUS
    <2>1. i \in 1..Len(b) /\ b[i].kind = "open"
          BY <1>2 DEF Where, UpTo
    <2> QED BY <1>1, <2>1 DEF OfCalls
  <1>6. op = {b[i].call : i \in O}
        BY <1>2
  <1>7. \A i, j \in O : i < j => b[i].call < b[j].call
        BY <1>1, <1>2 DEF OpensByIndex
  <1> HIDE DEF O, m, s, t
  <1>8. O = {s[k] : k \in 1..m} /\ \A k, l \in 1..m : k < l => s[k] < s[l]
        BY <1>3 DEF Ordered
  <1>9. op \in SUBSET Nat
        BY <1>1, <1>5, <1>6
  <1>10. t \in [1..m -> op]
    <2> SUFFICES ASSUME NEW k \in 1..m PROVE b[s[k]].call \in op
        BY <1>4
    <2>1. s[k] \in O
          BY <1>3
    <2> QED BY <1>6, <2>1
  <1>11. Ordered(t, op)
    <2>1. op = {t[k] : k \in 1..m}
      <3>1. ASSUME NEW c \in op PROVE \E k \in 1..m : c = t[k]
        <4>1. PICK i \in O : c = b[i].call
              BY <1>6
        <4>2. PICK k \in 1..m : i = s[k]
              BY <1>8
        <4> QED BY <1>4, <4>1, <4>2
      <3>2. \A k \in 1..m : t[k] \in op
            BY <1>10
      <3> QED BY <3>1, <3>2
    <2>2. \A k, l \in 1..m : k < l => t[k] < t[l]
      <3> SUFFICES ASSUME NEW k \in 1..m, NEW l \in 1..m, k < l PROVE t[k] < t[l]
          OBVIOUS
      <3>1. s[k] \in O /\ s[l] \in O /\ s[k] < s[l]
            BY <1>3, <1>8
      <3>2. t[k] = b[s[k]].call /\ t[l] = b[s[l]].call
            BY <1>4
      <3> QED BY <1>7, <3>1, <3>2
    <2>3. DOMAIN t = 1..m
          BY <1>4
    <2> QED BY <2>1, <2>2, <2>3 DEF Ordered
  <1>12. InOrder(op) = t
         BY <1>3, <1>9, <1>10, <1>11, OrderIsInOrder
  <1>13. t \in Seq(Calls) /\ Len(t) = m
    <2>1. op \subseteq Calls
          BY <1>5, <1>6
    <2> QED BY <1>3, <1>10, <2>1
  <1>14. \A k \in 1..m : \E i \in O : t[k] = b[i].call
         BY <1>3, <1>4
  <1> QED BY <1>2, <1>3, <1>12, <1>13, <1>14 DEF O, m, t

(* Blocks are closed in the order they were opened.                        *)
LEMMA ClosedAsOpened ==
    ASSUME NEW b \in Replies["anthropic"], ClosesAll(b),
           Listed(Where(b, Begun)), Listed(Where(b, Ready))
    PROVE  CallsOf(b, Len(b), Ready) = CallsOf(b, Len(b), Begun)
  <1> DEFINE O == Where(b, Begun)
             C == Where(b, Ready)
             m == Cardinality(O)
             s == InOrder(O)
             Closing(i) == CHOOSE j \in C : b[j].call = b[i].call
             t == [k \in 1..m |-> Closing(s[k])]
  <1>1. /\ Len(b) \in Nat /\ ClosesWhole(b) /\ ClosesInOrder(b)
        /\ \A i \in 1..Len(b) : b[i].kind \in Speaks["anthropic"]
        BY WellFormedReply DEF Dialects
  <1>2. O = Where(b, {"open"}) /\ C = Where(b, {"close"})
    <2>1. \A i \in 1..Len(b) : b[i].kind # "call"
          BY <1>1 DEF Speaks
    <2> QED BY <2>1 DEF Where, UpTo, Begun, Ready
  <1>3. m \in Nat /\ s \in [1..m -> O] /\ Ordered(s, O)
        BY ListedFacts
  <1>4. C \in SUBSET Nat /\ O \in SUBSET Nat
        BY ListedFacts
  <1>5. \A i \in O : \E j \in C : b[j].call = b[i].call
        BY <1>2 DEF ClosesAll
  <1>6. \A i, j \in O, k, l \in C :
            b[i].call = b[k].call /\ b[j].call = b[l].call => (i < j <=> k < l)
        BY <1>1, <1>2 DEF ClosesInOrder
  <1>7. \A j \in C : \E i \in O : b[i].call = b[j].call
    <2> SUFFICES ASSUME NEW j \in C PROVE \E i \in O : b[i].call = b[j].call
        OBVIOUS
    <2>1. PICK i \in UpTo(b, j, {"open"}) : b[i].call = b[j].call
          BY <1>1, <1>2 DEF ClosesWhole
    <2>2. j \in 1..Len(b)
          BY DEF Where, UpTo
    <2>3. i \in O
      <3>1. i \in 1..j /\ b[i].kind = "open"
            BY <2>1 DEF UpTo
      <3>2. i \in 1..Len(b)
            BY <1>1, <2>2, <3>1
      <3> QED BY <1>2, <3>1, <3>2 DEF Where, UpTo
    <2> QED BY <2>1, <2>3
  <1>8. CallsOf(b, Len(b), Begun) = [k \in 1..m |-> b[s[k]].call]
        BY DEF CallsOf, Where
  <1>9. CallsOf(b, Len(b), Ready) = [k \in 1..Cardinality(C) |-> b[InOrder(C)[k]].call]
        BY DEF CallsOf, Where
  <1> HIDE DEF O, C, m, s
  <1>10. \A i \in O : Closing(i) \in C /\ b[Closing(i)].call = b[i].call
         BY <1>5
  <1> HIDE DEF Closing
  <1>11. O = {s[k] : k \in 1..m} /\ \A k, l \in 1..m : k < l => s[k] < s[l]
         BY <1>3 DEF Ordered
  <1>12. \A k \in 1..m : s[k] \in O
         BY <1>3
  <1>13. \A k \in 1..m : t[k] \in C /\ b[t[k]].call = b[s[k]].call
         BY <1>10, <1>12
  <1>14. t \in [1..m -> C]
         BY <1>13
  <1>15. DOMAIN t = 1..m
         OBVIOUS
  <1> HIDE DEF t
  <1>16. C = {t[k] : k \in 1..m}
    <2>1. ASSUME NEW j \in C PROVE \E k \in 1..m : j = t[k]
      <3>1. PICK i \in O : b[i].call = b[j].call
            BY <1>7
      <3>2. PICK k \in 1..m : i = s[k]
            BY <1>11
      <3>3. t[k] \in C /\ b[t[k]].call = b[i].call
            BY <1>13, <3>2
      <3>4. ~(i < i)
            BY <1>4
      <3>5. ~(t[k] < j) /\ ~(j < t[k])
            BY <1>6, <3>1, <3>3, <3>4
      <3>6. t[k] = j
        <4>1. t[k] \in Nat /\ j \in Nat
              BY <1>4, <3>3
        <4> QED BY <3>5, <4>1
      <3> QED BY <3>6
    <2> QED BY <1>13, <2>1
  <1>17. \A k, l \in 1..m : k < l => t[k] < t[l]
    <2> SUFFICES ASSUME NEW k \in 1..m, NEW l \in 1..m, k < l PROVE t[k] < t[l]
        OBVIOUS
    <2>1. s[k] < s[l]
          BY <1>11
    <2> QED BY <1>6, <1>12, <1>13, <2>1
  <1>18. Ordered(t, C)
         BY <1>15, <1>16, <1>17 DEF Ordered
  <1>19. Cardinality(C) = m /\ InOrder(C) = t
         BY <1>3, <1>4, <1>14, <1>18, OrderIsInOrder
  <1> QED BY <1>8, <1>9, <1>13, <1>19

WellHeld(d, b, n, h) ==
    /\ h \in Seq([call : Calls, parts : Nat])
    /\ d # "openai" => \A i \in 1..Len(h) : h[i].parts = Frags
    /\ AllRead(b, n) /\ ~Says(b, "error") => h = CallsIn(b)

LEMMA HandsOver ==
    ASSUME NEW d \in {"openai", "anthropic", "gemini"}, NEW b \in Replies[d],
           NEW n \in Nat, n <= Len(b), NEW tx, NEW pt \in [Calls -> Nat], NEW op, NEW cl,
           Assembled(d, b, n, tx, pt, op, cl)
    PROVE  WellHeld(d, b, n, HeldOf(d, pt, op, cl))
  <1>1. /\ b \in Seq(Events) /\ Len(b) \in Nat
        /\ \A i \in 1..Len(b) : b[i].kind \in Speaks[d]
        /\ \A i \in 1..Len(b) : b[i].kind \in OfCalls => b[i].call \in Calls
        BY WellFormedReply DEF Dialects
  <1>2. /\ Listed(UpTo(b, n, Begun)) /\ Listed(UpTo(b, n, Ready)) /\ cl = CallsOf(b, n, Ready)
        BY DEF Assembled
  <1>3. ASSUME AllRead(b, n)
        PROVE  /\ UpTo(b, n, Begun) = Where(b, Begun)
               /\ UpTo(b, n, Ready) = Where(b, Ready)
               /\ UpTo(b, n, {"part"}) = Where(b, {"part"})
               /\ UpTo(b, n, {"open"}) = Where(b, {"open"})
        BY <1>3 DEF AllRead, Begun, Ready
  <1>4. ASSUME AllRead(b, n)
        PROVE  /\ CallsOf(b, n, Begun) = CallsOf(b, Len(b), Begun)
               /\ CallsOf(b, n, Ready) = CallsOf(b, Len(b), Ready)
               /\ CallsIn(b) = [k \in 1..Cardinality(UpTo(b, n, Begun)) |->
                                  [call |-> CallsOf(b, n, Begun)[k], parts |-> Frags]]
               /\ \A c : Pieces(b, n, c) = Pieces(b, Len(b), c)
    <2>1. \A ks : UpTo(b, n, ks) = Where(b, ks) => CallsOf(b, n, ks) = CallsOf(b, Len(b), ks)
          BY DEF CallsOf, Where
    <2>2. /\ CallsOf(b, n, Begun) = CallsOf(b, Len(b), Begun)
          /\ CallsOf(b, n, Ready) = CallsOf(b, Len(b), Ready)
          BY <1>3, <1>4, <2>1
    <2>3. CallsIn(b) = [k \in 1..Cardinality(UpTo(b, n, Begun)) |->
                          [call |-> CallsOf(b, n, Begun)[k], parts |-> Frags]]
          BY <1>1, <1>2, <1>3, <1>4, <2>2, CallsInIs
    <2>4. \A c : Pieces(b, n, c) = Pieces(b, Len(b), c)
          BY <1>3, <1>4 DEF Pieces, Where
    <2> QED BY <2>2, <2>3, <2>4
  <1>5. CASE d = "openai"
    <2> DEFINE t == CallsOf(b, n, Begun)
               m == Cardinality(UpTo(b, n, Begun))
    <2>1. /\ InOrder(op) = t /\ t \in Seq(Calls) /\ Len(t) = m /\ m \in Nat
          /\ \A k \in 1..m : \E i \in UpTo(b, n, {"open"}) : t[k] = b[i].call
          BY <1>2, <1>5, IndexIsOrder DEF Assembled
    <2>2. HeldOf(d, pt, op, cl) = [k \in 1..m |-> [call |-> t[k], parts |-> pt[t[k]]]]
          BY <1>5, <2>1 DEF HeldOf
    <2>3. \A c \in Calls : pt[c] = Pieces(b, n, c)
          BY <1>5 DEF Assembled
    <2> HIDE DEF t, m
    <2>4. \A k \in 1..m : t[k] \in Calls
          BY <2>1
    <2>5. HeldOf(d, pt, op, cl) \in Seq([call : Calls, parts : Nat])
      <3>1. \A k \in 1..m : [call |-> t[k], parts |-> pt[t[k]]] \in [call : Calls, parts : Nat]
            BY <2>4
      <3> QED BY <2>1, <2>2, <3>1
    <2>6. ASSUME AllRead(b, n), ~Says(b, "error") PROVE HeldOf(d, pt, op, cl) = CallsIn(b)
      <3>1. OpensWhole(b)
            BY <1>5, <2>6, WellFormedReply DEF Dialects
      <3>2. \A k \in 1..m : pt[t[k]] = Frags
        <4> SUFFICES ASSUME NEW k \in 1..m PROVE pt[t[k]] = Frags
            OBVIOUS
        <4>1. PICK i \in Where(b, {"open"}) : t[k] = b[i].call
              BY <1>3, <2>1, <2>6
        <4>2. Pieces(b, Len(b), b[i].call) = Frags
              BY <3>1 DEF OpensWhole
        <4>3. Pieces(b, n, t[k]) = Frags
              BY <1>4, <2>6, <4>1, <4>2
        <4> QED BY <2>3, <2>4, <4>3
      <3>3. CallsIn(b) = [k \in 1..m |-> [call |-> t[k], parts |-> Frags]]
            BY <1>4, <2>6 DEF t, m
      <3> QED BY <2>2, <3>2, <3>3
    <2> QED BY <1>5, <2>5, <2>6 DEF WellHeld
  <1>6. CASE d # "openai"
    <2> DEFINE m == Cardinality(UpTo(b, n, Ready))
               s == InOrder(UpTo(b, n, Ready))
    <2>1. m \in Nat /\ s \in [1..m -> UpTo(b, n, Ready)] /\ cl = [k \in 1..m |-> b[s[k]].call]
          BY <1>2, ListedFacts DEF CallsOf
    <2> HIDE DEF m, s
    <2>2. \A k \in 1..m : s[k] \in UpTo(b, n, Ready)
          BY <2>1
    <2>3. \A k \in 1..m : s[k] \in 1..n /\ s[k] \in 1..Len(b) /\ b[s[k]].kind \in Ready
          BY <1>1, <2>2 DEF UpTo
    <2>4. \A k \in 1..m : b[s[k]].call \in Calls
          BY <1>1, <2>3 DEF Ready, OfCalls
    <2>5. cl \in Seq(Calls) /\ Len(cl) = m
          BY <2>1, <2>4
    <2>6. \A k \in 1..m : cl[k] \in Calls
          BY <2>5
    <2>7. HeldOf(d, pt, op, cl) = [k \in 1..m |-> [call |-> cl[k], parts |-> pt[cl[k]]]]
          BY <1>6, <2>5 DEF HeldOf
    <2>8. HeldOf(d, pt, op, cl) \in Seq([call : Calls, parts : Nat]) /\ Len(HeldOf(d, pt, op, cl)) = m
      <3>1. \A k \in 1..m : pt[cl[k]] \in Nat
            BY <2>6
      <3>2. \A k \in 1..m : [call |-> cl[k], parts |-> pt[cl[k]]] \in [call : Calls, parts : Nat]
            BY <2>6, <3>1
      <3> DEFINE h == HeldOf(d, pt, op, cl)
                 R == [call : Calls, parts : Nat]
                 r(k) == [call |-> cl[k], parts |-> pt[cl[k]]]
      <3>3. h = [k \in 1..m |-> r(k)] /\ (\A k \in 1..m : r(k) \in R) /\ m \in Nat
            BY <2>1, <2>7, <3>2
      <3> HIDE DEF h, r, R
      <3>4. h \in Seq(R) /\ Len(h) = m
            BY <3>3
      <3> QED BY <3>4 DEF h, R
    <2>9. \A k \in 1..m : pt[cl[k]] = Frags
      <3> SUFFICES ASSUME NEW k \in 1..m PROVE pt[cl[k]] = Frags
          OBVIOUS
      <3>1. CASE d = "gemini"
            BY <2>5, <3>1 DEF Assembled
      <3>2. CASE d = "anthropic"
        <4>1. s[k] \in 1..Len(b) /\ b[s[k]].kind \in Ready
              BY <2>3
        <4>2. ClosesWhole(b)
              BY <3>2, WellFormedReply DEF Dialects
        <4>3. b[s[k]].kind \in Speaks["anthropic"]
              BY <1>1, <3>2, <4>1
        <4>4. ClosesWhole(b) /\ b[s[k]].kind \in Speaks["anthropic"]
              BY <4>2, <4>3
        <4>5. b[s[k]].kind = "close"
              BY <2>3, <4>4 DEF Speaks, Ready
        <4>6. s[k] \in Where(b, {"close"}) /\ n \in s[k]..Len(b)
              BY <1>1, <2>3, <4>5 DEF Where, UpTo
        <4>7. Pieces(b, n, b[s[k]].call) = Frags
              BY <4>4, <4>6 DEF ClosesWhole
        <4>8. cl[k] = b[s[k]].call
              BY <2>1
        <4>9. \A c \in Calls : pt[c] = Pieces(b, n, c)
              BY <3>2 DEF Assembled
        <4> QED BY <2>6, <4>7, <4>8, <4>9
      <3> QED BY <1>6, <3>1, <3>2
    <2>10. ASSUME AllRead(b, n), ~Says(b, "error") PROVE HeldOf(d, pt, op, cl) = CallsIn(b)
      <3>1. cl = CallsOf(b, n, Begun)
        <4>1. CASE d = "gemini"
          <5>1. UpTo(b, n, Begun) = UpTo(b, n, Ready)
            <6>1. \A i \in 1..n : b[i].kind \notin {"open", "close"}
                  BY <1>1, <4>1 DEF Speaks
            <6> QED BY <6>1 DEF UpTo, Begun, Ready
          <5> QED BY <1>2, <5>1 DEF CallsOf
        <4>2. CASE d = "anthropic"
          <5>1. ClosesAll(b)
                BY <2>10, <4>2, WellFormedReply DEF Dialects
          <5>2. CallsOf(b, Len(b), Ready) = CallsOf(b, Len(b), Begun)
                BY <1>2, <1>3, <2>10, <4>2, <5>1, ClosedAsOpened
          <5> QED BY <1>2, <1>4, <2>10, <5>2
        <4> QED BY <1>6, <4>1, <4>2
      <3>2. CallsOf(b, n, Begun) = [k \in 1..Cardinality(UpTo(b, n, Begun)) |->
                                       b[InOrder(UpTo(b, n, Begun))[k]].call]
            BY DEF CallsOf
      <3>3. 1..Cardinality(UpTo(b, n, Begun)) = 1..m
            BY <2>1, <3>1, <3>2
      <3>4. CallsIn(b) = [k \in 1..m |-> [call |-> cl[k], parts |-> Frags]]
            BY <1>4, <2>10, <3>1, <3>3
      <3>5. \A k \in 1..m : [call |-> cl[k], parts |-> pt[cl[k]]] = [call |-> cl[k], parts |-> Frags]
            BY <2>9, Zenon
      <3> QED BY <2>7, <3>4, <3>5, Zenon
    <2>11. \A k \in 1..Len(HeldOf(d, pt, op, cl)) : HeldOf(d, pt, op, cl)[k].parts = Frags
      <3>1. \A k \in 1..m : HeldOf(d, pt, op, cl)[k] = [call |-> cl[k], parts |-> pt[cl[k]]]
            BY <2>7
      <3>2. \A k \in 1..m : HeldOf(d, pt, op, cl)[k].parts = Frags
        <4> SUFFICES ASSUME NEW k \in 1..m PROVE HeldOf(d, pt, op, cl)[k].parts = Frags
            OBVIOUS
        <4> DEFINE h == HeldOf(d, pt, op, cl)[k]
        <4>1. h = [call |-> cl[k], parts |-> pt[cl[k]]]
              BY <3>1
        <4>2. pt[cl[k]] = Frags
              BY <2>9
        <4> HIDE DEF h
        <4>3. h.parts = Frags
              BY <4>1, <4>2
        <4> QED BY <4>3 DEF h
      <3>3. Len(HeldOf(d, pt, op, cl)) = m
            BY <2>8
      <3> HIDE DEF m
      <3> QED BY <3>2, <3>3
    <2> QED BY <2>8, <2>10, <2>11 DEF WellHeld
  <1> QED BY <1>5, <1>6

-----------------------------------------------------------------------------
(* While a body is read, the client has assembled what it has parsed;      *)
(* before that, nothing.                                                   *)
Unread ==
    /\ parsed = 0 /\ arrived = 0 /\ texts = 0
    /\ parts = [c \in Calls |-> 0]
    /\ open = {} /\ closed = <<>>

Reading ==
    /\ body \in Replies[Here]
    /\ Here = "bedrock" => Unread
    /\ 2 * parsed <= arrived /\ arrived <= 2 * Len(body)
    /\ Assembled(Here, body, parsed, texts, parts, open, closed)

ReadInv ==
    /\ parts \in [Calls -> Nat] /\ parsed \in Nat /\ arrived \in Nat
    /\ phase \in {"ask", "stream"} => handed = <<>> /\ cut = FALSE
    /\ phase = "ask" => Unread
    /\ phase = "stream" => Reading
    /\ Over => BodiesAreReadWhole

LEMMA HereIsADialect == AskInv => Here \in Dialects
  <1> SUFFICES ASSUME AskInv PROVE Here \in Dialects
      OBVIOUS
  <1>1. Dialect \in Seq(Dialects) /\ provider \in 1..Len(Dialect)
        BY ProvidersAssumption, ChainFacts DEF AskInv, Counted
  <1> QED BY <1>1 DEF Here

LEMMA InitReadInv == Init => ReadInv
  <1> SUFFICES ASSUME Init PROVE ReadInv
      OBVIOUS
  <1>1. phase = "ask" /\ Unread /\ handed = <<>> /\ cut = FALSE
        BY DEF Init, Unread
  <1>2. parts \in [Calls -> Nat] /\ parsed \in Nat /\ arrived \in Nat
        BY <1>1 DEF Unread
  <1>3. phase # "stream" /\ ~Over
        BY <1>1 DEF Over
  <1> QED BY <1>1, <1>2, <1>3 DEF ReadInv

LEMMA GiveUpReads ==
    ASSUME ReadInv, NEW v, GiveUpOn(v),
           phase = "ask" \/ (phase = "stream" /\ Here = "bedrock" /\ v = "body")
    PROVE  ReadInv'
  <1>1. Unread /\ handed = <<>> /\ cut = FALSE
        BY DEF ReadInv, Reading
  <1>2. /\ UNCHANGED <<body, assembly, answer, cut>>
        /\ phase' \in {"ask", "failed"}
        BY DEF GiveUpOn, IsRetriable
  <1>3. Unread' /\ handed' = <<>> /\ cut' = FALSE
        BY <1>1, <1>2 DEF Unread, assembly, answer
  <1>4. parts' \in [Calls -> Nat] /\ parsed' \in Nat /\ arrived' \in Nat
        BY <1>3 DEF Unread
  <1>5. CASE phase' = "ask"
        BY <1>3, <1>4, <1>5 DEF ReadInv, Over
  <1>6. CASE phase' = "failed"
    <2>1. BodiesAreReadWhole'
      <3>1. 1..Len(handed') = {}
            BY <1>3, EmptySeq
      <3> QED BY <1>6, <3>1 DEF BodiesAreReadWhole, WholeTurn,
                 HalfCallsComeFromCutBodies, SilenceIsTheProviders
    <2> QED BY <1>3, <1>4, <1>6, <2>1 DEF ReadInv
  <1> QED BY <1>2, <1>5, <1>6

LEMMA AskingReads ==
    ASSUME AskInv, ReadInv, Asking
    PROVE  ReadInv'
  <1>1. CASE \E v : GiveUpOn(v)
    <2>1. phase = "ask"
          BY DEF Asking, Busy, Unreachable, Refused, Misconfigured, Served, Ask
    <2> QED BY <1>1, <2>1, GiveUpReads
  <1>2. CASE Again
    <2>1. phase = "ask" /\ UNCHANGED <<phase, provider, body, assembly, answer, cut>>
          BY <1>2 DEF Asking, Busy, Unreachable, Refused, Misconfigured, Served, Ask, Again, GoOn
    <2>2. Unread /\ handed = <<>> /\ cut = FALSE
          BY <2>1 DEF ReadInv
    <2> QED BY <2>1, <2>2 DEF ReadInv, Unread, assembly, answer, Over
  <1>3. CASE Served
    <2>1. /\ phase = "ask" /\ phase' = "stream" /\ body' \in Replies[Here]
          /\ UNCHANGED <<provider, assembly, answer, cut>>
          BY <1>3 DEF Served, Ask, Here
    <2>2. Unread /\ handed = <<>> /\ cut = FALSE
          BY <2>1 DEF ReadInv
    <2>3. /\ parsed' = 0 /\ arrived' = 0 /\ texts' = 0 /\ parts' = [c \in Calls |-> 0]
          /\ open' = {} /\ closed' = <<>> /\ handed' = <<>> /\ cut' = FALSE
          BY <2>1, <2>2 DEF Unread, assembly, answer
    <2>4. Here' = Here /\ Here \in Dialects
          BY <2>1, HereIsADialect DEF Here
    <2>5. Assembled(Here, body', 0, 0, parts', {}, <<>>)
      <3>1. \A c \in Calls : parts'[c] = 0
            BY <2>3
      <3> QED BY <3>1, NothingAssembled
    <2>6. Len(body') \in Nat
          BY <2>1, <2>4, WellFormedReply
    <2>7. Reading'
          BY <2>1, <2>3, <2>4, <2>5, <2>6 DEF Reading, Unread
    <2>8. parts' \in [Calls -> Nat]
          BY <2>3
    <2> QED BY <2>1, <2>3, <2>7, <2>8 DEF ReadInv, Over
  <1> QED BY <1>1, <1>2, <1>3 DEF Asking, Busy, Unreachable, Refused, Misconfigured

(* The next event of the buffer is one of the body.                        *)
LEMMA NextEvent ==
    ASSUME AskInv, ReadInv, Streaming, HasEvent
    PROVE  /\ Here \in {"openai", "anthropic", "gemini"} /\ Here \in Dialects
           /\ phase = "stream" /\ Reading /\ handed = <<>> /\ cut = FALSE
           /\ parts \in [Calls -> Nat] /\ parsed \in Nat /\ arrived \in Nat
           /\ parsed < Len(body) /\ Len(body) \in Nat
  <1>1. Here \in Dialects /\ Here # "bedrock" /\ phase = "stream"
        BY HereIsADialect DEF Streaming
  <1>2. /\ Reading /\ handed = <<>> /\ cut = FALSE
        /\ parts \in [Calls -> Nat] /\ parsed \in Nat /\ arrived \in Nat
        BY <1>1 DEF ReadInv
  <1>3. Len(body) \in Nat
        BY <1>1, <1>2, WellFormedReply DEF Reading
  <1>4. 2 * (parsed + 1) <= 2 * Len(body)
        BY <1>2, <1>3 DEF HasEvent, Reading
  <1>5. parsed < Len(body)
        BY <1>2, <1>3, <1>4
  <1> QED BY <1>1, <1>2, <1>3, <1>5 DEF Dialects

(* An event that is taken and does not end the turn.                       *)
LEMMA TakenReads ==
    ASSUME AskInv, ReadInv, Streaming, HasEvent, Taken, handed' = handed,
           NEW e, e = body[parsed + 1],
           Takes(Here, e, texts, parts, open, closed, texts', parts', open', closed')
    PROVE  ReadInv'
  <1>1. /\ Here \in Dialects /\ Here # "bedrock" /\ body \in Replies[Here]
        /\ phase = "stream" /\ handed = <<>> /\ cut = FALSE
        /\ parts \in [Calls -> Nat] /\ parsed \in Nat /\ parsed < Len(body)
        /\ arrived \in Nat /\ arrived <= 2 * Len(body)
        /\ Assembled(Here, body, parsed, texts, parts, open, closed)
        BY NextEvent DEF Reading
  <1>2. parsed' = parsed + 1 /\ UNCHANGED <<phase, provider, body, arrived, cut>>
        BY DEF Taken, asking
  <1>3. Here' = Here
        BY <1>2 DEF Here
  <1>4. /\ parts' \in [Calls -> Nat]
        /\ Assembled(Here, body, parsed + 1, texts', parts', open', closed')
        BY <1>1, OneEventMore
  <1>5. 2 * (parsed + 1) <= arrived
        BY DEF HasEvent
  <1>6. Reading'
        BY <1>1, <1>2, <1>3, <1>4, <1>5 DEF Reading
  <1> QED BY <1>1, <1>2, <1>4, <1>6 DEF ReadInv, Over

(* A turn that ends with what is held: whole, unless the body is to blame. *)
LEMMA HandOverReads ==
    ASSUME AskInv, ReadInv, Streaming, HandOver, Ended("ok"), cut' \in BOOLEAN,
           cut' \/ AllRead(body, parsed)
    PROVE  ReadInv'
  <1>1. /\ Here \in {"openai", "anthropic", "gemini"} /\ Here \in Dialects
        /\ phase = "stream" /\ Reading /\ handed = <<>>
        /\ parts \in [Calls -> Nat] /\ parsed \in Nat /\ arrived \in Nat
    <2>1. Here \in Dialects /\ Here # "bedrock" /\ phase = "stream"
          BY HereIsADialect DEF Streaming
    <2>2. /\ Reading /\ handed = <<>>
          /\ parts \in [Calls -> Nat] /\ parsed \in Nat /\ arrived \in Nat
          BY <2>1 DEF ReadInv
    <2> QED BY <2>1, <2>2 DEF Dialects
  <1>2. /\ phase' = "ok" /\ handed' = handed \o Held
        /\ UNCHANGED <<provider, body, arrived, parsed, parts, texts>>
        BY DEF Ended, HandOver, asking, assembly
  <1>3. body \in Replies[Here] /\ Len(body) \in Nat /\ parsed <= Len(body)
        /\ Assembled(Here, body, parsed, texts, parts, open, closed)
    <2>1. body \in Replies[Here] /\ Assembled(Here, body, parsed, texts, parts, open, closed)
          BY <1>1 DEF Reading
    <2>2. Len(body) \in Nat
          BY <1>1, <2>1, WellFormedReply
    <2>3. 2 * parsed <= 2 * Len(body)
          BY <1>1, <2>2 DEF Reading
    <2> QED BY <1>1, <2>1, <2>2, <2>3
  <1>4. Held = HeldOf(Here, parts, open, closed)
        BY DEF Held, HeldOf
  <1>5. /\ Held \in Seq([call : Calls, parts : Nat])
        /\ Here # "openai" => \A i \in 1..Len(Held) : Held[i].parts = Frags
        /\ AllRead(body, parsed) /\ ~Says(body, "error") => Held = CallsIn(body)
    <2>1. WellHeld(Here, body, parsed, Held)
          BY <1>1, <1>3, <1>4, HandsOver
    <2> QED BY <2>1 DEF WellHeld
  <1>6. handed' = Held
        BY <1>1, <1>2, <1>5, ConcatEmptySeq
  <1>7. Here' = Here
        BY <1>2 DEF Here
  <1>8. AllRead(body, parsed) => texts = TextIn(body)
        BY <1>3 DEF AllRead, Assembled, TextIn
  <1>9. WholeTurn'
        BY <1>2, <1>5, <1>6, <1>8 DEF WholeTurn
  <1>10. HalfCallsComeFromCutBodies'
    <2> SUFFICES ASSUME NEW i \in 1..Len(Held), Held[i].parts < Frags,
                        ~(Here = "openai" /\ (cut' \/ Says(body, "error")))
                 PROVE  FALSE
        BY <1>2, <1>6, <1>7 DEF HalfCallsComeFromCutBodies
    <2>1. Held[i].parts # Frags
      <3>1. Frags \in Nat
            BY ProvidersAssumption
      <3> QED BY <3>1
    <2>2. Here = "openai" /\ ~cut' /\ ~Says(body, "error")
          BY <1>5, <2>1
    <2>3. Held = CallsIn(body)
          BY <1>5, <2>2
    <2>4. Listed(Where(body, Begun))
      <3>1. UpTo(body, parsed, Begun) = Where(body, Begun)
            BY <2>2 DEF AllRead, Begun
      <3> QED BY <1>3, <3>1 DEF Assembled
    <2> DEFINE m == Cardinality(Where(body, Begun))
               t == CallsOf(body, Len(body), Begun)
    <2>5. Held = [k \in 1..m |-> [call |-> t[k], parts |-> Frags]]
          BY <1>3, <2>3, <2>4, CallsInIs
    <2>6. m \in Nat
          BY <2>4, ListedFacts
    <2> HIDE DEF m, t
    <2>7. i \in 1..m
          BY <2>5, <2>6
    <2>8. Held[i] = [call |-> t[i], parts |-> Frags]
          BY <2>5, <2>7
    <2> QED BY <2>1, <2>8
  <1>11. SilenceIsTheProviders'
         BY <1>2 DEF SilenceIsTheProviders
  <1>12. parts' \in [Calls -> Nat] /\ parsed' \in Nat /\ arrived' \in Nat
         BY <1>1, <1>2
  <1> QED BY <1>2, <1>9, <1>10, <1>11, <1>12 DEF ReadInv, BodiesAreReadWhole

(* A turn that ends with nothing handed over: broken, or in silence.       *)
LEMMA BrokenReads ==
    ASSUME ReadInv, phase = "stream", Ended("broken"), handed' = handed
    PROVE  ReadInv'
  <1>1. /\ phase' = "broken" /\ handed' = <<>>
        /\ UNCHANGED <<parts, parsed, arrived>>
        BY DEF Ended, ReadInv, assembly
  <1>2. 1..Len(handed') = {}
        BY <1>1, EmptySeq
  <1>3. BodiesAreReadWhole'
        BY <1>1, <1>2 DEF BodiesAreReadWhole, WholeTurn, HalfCallsComeFromCutBodies,
           SilenceIsTheProviders
  <1> QED BY <1>1, <1>3 DEF ReadInv

LEMMA SilentReads ==
    ASSUME AskInv, ReadInv, Silent
    PROVE  ReadInv'
  <1>1. /\ phase = "stream" /\ Here = "openai" /\ Here \in Dialects
        /\ UpTo(body, parsed, {"done"}) # {}
        BY HereIsADialect DEF Silent, Streaming, Finished
  <1>2. Reading /\ handed = <<>> /\ parsed \in Nat /\ arrived \in Nat /\ parts \in [Calls -> Nat]
        BY <1>1 DEF ReadInv
  <1>3. /\ phase' = "silent" /\ handed' = <<>>
        /\ UNCHANGED <<provider, body, parts, parsed, arrived, texts>>
        BY <1>2 DEF Silent, Ended, asking, assembly
  <1>4. body \in Replies[Here] /\ Assembled(Here, body, parsed, texts, parts, open, closed)
        BY <1>2 DEF Reading
  <1>5. Len(body) \in Nat /\ EndsLast(body)
        BY <1>1, <1>4, WellFormedReply
  <1>6. parsed <= Len(body)
    <2>1. 2 * parsed <= 2 * Len(body)
          BY <1>2, <1>5 DEF Reading
    <2> QED BY <1>2, <1>5, <2>1
  <1>7. parsed = Len(body)
    <2>1. PICK i \in 1..parsed : body[i].kind = "done"
          BY <1>1 DEF UpTo
    <2>2. i \in 1..Len(body) /\ \A j \in 1..Len(body) : ~(i < j)
          BY <1>2, <1>5, <1>6, <2>1 DEF EndsLast
    <2>3. ~(i < Len(body))
          BY <1>5, <2>2
    <2> QED BY <1>2, <1>5, <1>6, <2>3
  <1>8. ~Says(body, "finish")
        BY <1>4, <1>7 DEF Says, Where, UpTo, Assembled
  <1>9. texts = TextIn(body)
        BY <1>4, <1>7 DEF TextIn, Where, Assembled
  <1>10. 1..Len(handed') = {}
         BY <1>3, EmptySeq
  <1>11. BodiesAreReadWhole'
         BY <1>3, <1>8, <1>9, <1>10 DEF BodiesAreReadWhole, WholeTurn,
            HalfCallsComeFromCutBodies, SilenceIsTheProviders
  <1> QED BY <1>2, <1>3, <1>11 DEF ReadInv

LEMMA WholeBodyReads ==
    ASSUME AskInv, ReadInv, WholeBody
    PROVE  ReadInv'
  <1>1. /\ phase = "stream" /\ Here = "bedrock" /\ phase' = "ok"
        /\ texts' = TextIn(body) /\ handed' = CallsIn(body)
        /\ UNCHANGED <<provider, body, parts, parsed, arrived, cut>>
        BY DEF WholeBody, asking, assembly
  <1>2. parsed \in Nat /\ arrived \in Nat /\ parts \in [Calls -> Nat]
        BY DEF ReadInv
  <1>3. \A i \in 1..Len(handed') : handed'[i].parts = Frags
    <2> DEFINE at == InOrder(Where(body, {"open", "call"}))
    <2>1. handed' = [k \in 1..Len(at) |-> [call |-> body[at[k]].call, parts |-> Frags]]
          BY <1>1 DEF CallsIn
    <2> QED BY <2>1
  <1>4. BodiesAreReadWhole'
    <2>1. Frags \in Nat
          BY ProvidersAssumption
    <2> QED BY <1>1, <1>3, <2>1 DEF BodiesAreReadWhole, WholeTurn,
               HalfCallsComeFromCutBodies, SilenceIsTheProviders
  <1> QED BY <1>1, <1>2, <1>4 DEF ReadInv

LEMMA ParsingReads ==
    ASSUME AskInv, ReadInv, Parsing
    PROVE  ReadInv'
  <1>1. /\ Streaming /\ HasEvent
        BY DEF Parsing, Text, Open, Part, Close, WholeCall, Finish, DoneMark, ErrorEvent, Upcoming
  <1>2. /\ Here \in {"openai", "anthropic", "gemini"} /\ Here \in Dialects
        /\ phase = "stream" /\ Reading /\ handed = <<>> /\ cut = FALSE
        /\ parsed \in Nat /\ parsed < Len(body) /\ Len(body) \in Nat
        BY <1>1, NextEvent
  <1>3. /\ body \in Replies[Here] /\ EndsLast(body)
        /\ \A i \in 1..Len(body) : body[i].kind \in Speaks[Here]
    <2>1. body \in Replies[Here]
          BY <1>2 DEF Reading
    <2> QED BY <1>2, <2>1, WellFormedReply
  <1>4. PICK e : e = body[parsed + 1]
        OBVIOUS
  <1>5. e.kind \in Speaks[Here]
    <2>1. parsed + 1 \in 1..Len(body)
          BY <1>2
    <2> QED BY <1>3, <1>4, <2>1
  <1>6. e.kind \in {"finish", "done"} => AllRead(body, parsed)
        BY <1>2, <1>3, <1>4, EndIsAllRead
  <1>7. CASE Text
    <2>1. /\ Taken /\ handed' = handed /\ e.kind = "text" /\ texts' = texts + 1
          /\ UNCHANGED <<parts, open, closed>>
          BY <1>4, <1>7 DEF Text, Upcoming
    <2>2. Takes(Here, e, texts, parts, open, closed, texts', parts', open', closed')
          BY <2>1 DEF Takes, Ready
    <2> QED BY <1>1, <1>4, <2>1, <2>2, TakenReads
  <1>8. CASE Open
    <2>1. /\ Taken /\ e.kind = "open" /\ open' = open \cup {e.call}
          /\ UNCHANGED <<parts, closed, texts, handed>>
          BY <1>4, <1>8 DEF Open, Upcoming, Call, answer
    <2>2. Takes(Here, e, texts, parts, open, closed, texts', parts', open', closed')
          BY <2>1 DEF Takes, Ready
    <2> QED BY <1>1, <1>4, <2>1, <2>2, TakenReads
  <1>9. CASE Part
    <2>1. /\ Taken /\ e.kind = "part" /\ parts' = [parts EXCEPT ![e.call] = @ + 1]
          /\ UNCHANGED <<open, closed, texts, handed>>
          BY <1>4, <1>9 DEF Part, Upcoming, Call, answer
    <2>2. Takes(Here, e, texts, parts, open, closed, texts', parts', open', closed')
          BY <2>1 DEF Takes, Ready
    <2> QED BY <1>1, <1>4, <2>1, <2>2, TakenReads
  <1>10. CASE Close
    <2>1. /\ Taken /\ e.kind = "close" /\ closed' = Append(closed, e.call)
          /\ UNCHANGED <<parts, texts, handed>>
          BY <1>4, <1>10 DEF Close, Upcoming, Call, answer
    <2>2. Here # "openai"
          BY <1>5, <2>1 DEF Speaks
    <2>3. Takes(Here, e, texts, parts, open, closed, texts', parts', open', closed')
          BY <2>1, <2>2 DEF Takes, Ready
    <2> QED BY <1>1, <1>4, <2>1, <2>3, TakenReads
  <1>11. CASE WholeCall
    <2>1. /\ Taken /\ e.kind = "call" /\ parts' = [parts EXCEPT ![e.call] = Frags]
          /\ closed' = Append(closed, e.call)
          /\ UNCHANGED <<open, texts, handed>>
          BY <1>4, <1>11 DEF WholeCall, Upcoming, Call, answer
    <2>2. Takes(Here, e, texts, parts, open, closed, texts', parts', open', closed')
          BY <2>1 DEF Takes, Ready
    <2> QED BY <1>1, <1>4, <2>1, <2>2, TakenReads
  <1>12. CASE Finish
    <2>1. e.kind = "finish" /\ HandOver /\ Ended("ok") /\ cut' = cut
          BY <1>4, <1>12 DEF Finish, Upcoming
    <2> QED BY <1>1, <1>2, <1>6, <2>1, HandOverReads
  <1>13. CASE DoneMark \/ ErrorEvent
    <2>1. e.kind \in {"done", "error"}
          BY <1>4, <1>13 DEF DoneMark, ErrorEvent, Upcoming
    <2>2. CASE Here = "openai"
      <3>1. Taken /\ UNCHANGED <<parts, open, closed, texts, handed>>
            BY <1>13, <2>2 DEF DoneMark, ErrorEvent, answer
      <3>2. Takes(Here, e, texts, parts, open, closed, texts', parts', open', closed')
            BY <2>1, <3>1 DEF Takes, Ready
      <3> QED BY <1>1, <1>4, <3>1, <3>2, TakenReads
    <2>3. CASE Here # "openai" /\ DoneMark
      <3>1. e.kind = "done" /\ HandOver /\ Ended("ok") /\ cut' = cut
            BY <1>4, <2>3 DEF DoneMark, Upcoming
      <3> QED BY <1>1, <1>2, <1>6, <3>1, HandOverReads
    <2>4. CASE Here # "openai" /\ ErrorEvent
      <3>1. Ended("broken") /\ handed' = handed
            BY <2>4 DEF ErrorEvent
      <3> QED BY <1>2, <3>1, BrokenReads
    <2> QED BY <1>13, <2>2, <2>3, <2>4
  <1> QED BY <1>7, <1>8, <1>9, <1>10, <1>11, <1>12, <1>13 DEF Parsing

LEMMA EofReads ==
    ASSUME AskInv, ReadInv, Eof
    PROVE  ReadInv'
  <1>1. /\ Streaming /\ ~HasEvent /\ HandOver /\ Ended("ok") /\ phase = "stream"
        /\ cut' = (arrived < 2 * Len(body))
        BY DEF Eof, Streaming
  <1>2. Here \in Dialects /\ Reading /\ parsed \in Nat /\ arrived \in Nat
        BY <1>1, HereIsADialect DEF ReadInv
  <1>3. body \in Replies[Here] /\ Len(body) \in Nat /\ EndsLast(body)
        BY <1>2, WellFormedReply DEF Reading
  <1>4. /\ 2 * parsed <= arrived /\ arrived <= 2 * Len(body)
        /\ ~(2 * (parsed + 1) <= arrived)
        BY <1>1, <1>2 DEF Reading, HasEvent
  <1>5. cut' \/ parsed = Len(body)
    <2>1. SUFFICES ASSUME ~(arrived < 2 * Len(body)) PROVE parsed = Len(body)
          BY <1>1
    <2>2. arrived = 2 * Len(body)
          BY <1>2, <1>3, <1>4, <2>1
    <2> QED BY <1>2, <1>3, <1>4, <2>2
  <1>6. parsed <= Len(body)
        BY <1>2, <1>3, <1>4
  <1>7. cut' \/ AllRead(body, parsed)
        BY <1>2, <1>3, <1>5, <1>6, EndIsAllRead
  <1>8. cut' \in BOOLEAN
        BY <1>1
  <1> QED BY <1>1, <1>7, <1>8, HandOverReads

LEMMA ReadReads ==
    ASSUME AskInv, ReadInv, Read
    PROVE  ReadInv'
  <1>1. /\ Streaming /\ phase = "stream" /\ Here # "bedrock"
        /\ UNCHANGED <<phase, provider, body, parts, open, closed, texts, handed, cut>>
        BY DEF Read, Streaming, asking, answer
  <1>2. PICK n \in 1..(2 * Len(body) - arrived) : arrived' = arrived + n /\ parsed' = parsed
        BY DEF Read, Chunk
  <1>3. Here \in Dialects /\ Reading /\ parsed \in Nat /\ arrived \in Nat
        BY <1>1, HereIsADialect DEF ReadInv
  <1>4. Len(body) \in Nat
        BY <1>3, WellFormedReply DEF Reading
  <1>5. /\ arrived' \in Nat /\ parsed' \in Nat
        /\ 2 * parsed' <= arrived' /\ arrived' <= 2 * Len(body)
        BY <1>2, <1>3, <1>4 DEF Reading
  <1>6. Here' = Here
        BY <1>1 DEF Here
  <1>7. Reading'
        BY <1>1, <1>2, <1>3, <1>5, <1>6 DEF Reading
  <1> QED BY <1>1, <1>5, <1>7 DEF ReadInv, Over

LEMMA RestReads ==
    ASSUME ReadInv, UNCHANGED vars
    PROVE  ReadInv'
  <1>1. UNCHANGED <<phase, provider, body, arrived, parsed, parts, open, closed, texts, handed, cut>>
        BY DEF vars, asking, assembly, answer
  <1>2. Here' = Here
        BY <1>1 DEF Here
  <1>3. Reading => Reading'
        BY <1>1, <1>2 DEF Reading, Unread
  <1>4. Unread => Unread'
        BY <1>1 DEF Unread
  <1>5. BodiesAreReadWhole => BodiesAreReadWhole'
        BY <1>1, <1>2 DEF BodiesAreReadWhole, WholeTurn, HalfCallsComeFromCutBodies,
           SilenceIsTheProviders
  <1>6. Over' <=> Over
        BY <1>1 DEF Over
  <1> QED BY <1>1, <1>3, <1>4, <1>5, <1>6 DEF ReadInv

LEMMA ReadInvKept == AskInv /\ ReadInv /\ [Next]_vars => ReadInv'
  <1> SUFFICES ASSUME AskInv, ReadInv, [Next]_vars PROVE ReadInv'
      OBVIOUS
  <1>1. CASE Asking
        BY <1>1, AskingReads
  <1>2. CASE Read
        BY <1>2, ReadReads
  <1>3. CASE Parsing
        BY <1>3, ParsingReads
  <1>4. CASE Silent
        BY <1>4, SilentReads
  <1>5. CASE Eof
        BY <1>5, EofReads
  <1>6. CASE Breaks
    <2>1. phase = "stream" /\ Ended("broken") /\ handed' = handed
          BY <1>6 DEF Breaks, Streaming
    <2> QED BY <2>1, BrokenReads
  <1>7. CASE WholeBody
        BY <1>7, WholeBodyReads
  <1>8. CASE BodyFails
    <2>1. phase = "stream" /\ Here = "bedrock" /\ GiveUpOn("body")
          BY <1>8 DEF BodyFails
    <2> QED BY <2>1, GiveUpReads
  <1>9. CASE Rest \/ UNCHANGED vars
        BY <1>9, RestReads DEF Rest
  <1> QED BY <1>1, <1>2, <1>3, <1>4, <1>5, <1>6, <1>7, <1>8, <1>9 DEF Next, Receiving

(* The clients of openai.rs, anthropic.rs, gemini.rs, vertex.rs and        *)
(* bedrock.rs, for any chain of them and any replies of the assumed form,  *)
(* of any length, in any chunks and with any number of calls: the agent    *)
(* is given all of the text and all of the calls, whole and in order, or   *)
(* the body is to blame.                                                   *)
THEOREM RepliesAreReadWhole == Spec => []BodiesAreReadWhole
  <1>1. AskInv /\ ReadInv => BodiesAreReadWhole
    <2> SUFFICES ASSUME AskInv, ReadInv PROVE BodiesAreReadWhole
        OBVIOUS
    <2>1. CASE Over
          BY <2>1 DEF ReadInv
    <2>2. CASE ~Over
      <3>1. phase \in {"ask", "stream"} /\ handed = <<>>
            BY <2>2 DEF Over, ReadInv
      <3>2. 1..Len(handed) = {}
            BY <3>1, EmptySeq
      <3> QED BY <3>1, <3>2 DEF BodiesAreReadWhole, WholeTurn, HalfCallsComeFromCutBodies,
              SilenceIsTheProviders
    <2> QED BY <2>1, <2>2
  <1>2. AskInv /\ ReadInv /\ [Next]_vars => ReadInv'
        BY ReadInvKept
  <1> QED BY <1>1, <1>2, InitReadInv, AskInvHolds, PTL DEF Spec

-----------------------------------------------------------------------------
(* Codex.  Its invariant, from what a thread, a request and the disk hold. *)

Messages == [of : Conversations, who : {"user", "codex", "blank", "other", "tool"},
             text : Texts \cup {Follow}, nth : Nat]
RunRecords == [of : Conversations \cup {Nobody},
               stage : {"idle", "asked", "reading", "dropped"},
               request : Seq(Messages), resumed : Nat, thread : Nat,
               child : {"none", "starting", "working", "answered", "stalled", "ended"}]

UnderWay == {r \in Runs : run[r].of # Nobody}
AtWork(w) == w.child \in {"working", "answered", "stalled"}
Told(m) == m.who \in {"user", "codex"}
OpenedWith(c) == disk[c][1].text
Holds(s, m) == \E k \in 1..Len(s) : s[k] = m
Longer(d, e) == Len(d) <= Len(e) /\ \A k \in 1..Len(d) : e[k] = d[k]
LastUser(s, p) == p \in UserAt(s) /\ \A q \in UserAt(s) : q <= p

(* A run among n threads: its stage says what its child may be, its child  *)
(* what its thread is.                                                     *)
RunShape(w, n) ==
    /\ w \in RunRecords
    /\ w.of = Nobody => w = Free
    /\ w.of # Nobody => w.stage # "idle"
    /\ w.stage = "asked" => w.child \in {"none", "ended"}
    /\ w.stage \in {"reading", "dropped"} => w.child = "starting" \/ AtWork(w)
    /\ w.resumed \in 0..n
    /\ AtWork(w) => w.thread \in 1..n /\ (w.resumed # 0 => w.thread = w.resumed)

CodexTypes ==
    /\ frontend \in {"chat", "gateway"}
    /\ memory \in [Conversations -> Seq(Messages)]
    /\ disk \in [Conversations -> Seq(Messages)]
    /\ threads \in Seq(Seq(Messages))
    /\ sessions \in [Texts -> 0..Len(threads)]
    /\ run \in [Runs -> RunRecords]
    /\ \A r \in Runs : RunShape(run[r], Len(threads))
    /\ unserved \subseteq Messages
    /\ clashed \subseteq Conversations

(* A telling s of the conversation c, which is d on disk: it begins as the *)
(* conversation does and holds its user messages in their order.           *)
History(s, d, c) ==
    /\ s # <<>> => d # <<>> /\ s[1] = d[1]
    /\ \A i \in 1..Len(s) :
        /\ s[i].of = c
        /\ Told(s[i]) => Holds(d, s[i])
        /\ IsUser(s[i]) => s[i].nth \in 1..Len(d) /\ d[s[i].nth] = s[i]
    /\ \A i, j \in 1..Len(s) :
        IsUser(s[i]) /\ IsUser(s[j]) /\ i < j => s[i].nth < s[j].nth

Stored ==
    \A c \in Conversations :
        /\ History(disk[c], disk[c], c)
        /\ History(memory[c], disk[c], c)
        /\ disk[c] # <<>> => IsUser(disk[c][1]) /\ disk[c][1].text \in Texts
Requested ==
    \A r \in UnderWay :
        /\ History(run[r].request, disk[run[r].of], run[r].of)
        /\ \E p \in UserAt(run[r].request) : LastUser(run[r].request, p)
Overheard ==
    \A i \in 1..Len(threads) : \A k \in 1..Len(threads[i]) :
        IsUser(threads[i][k]) =>
            /\ threads[i][k].nth \in 1..Len(disk[threads[i][k].of])
            /\ disk[threads[i][k].of][threads[i][k].nth] = threads[i][k]
Histories == CodexTypes /\ Stored /\ Requested /\ Overheard

Refers(w, i) ==
    \/ (w.child = "starting" \/ AtWork(w)) /\ w.resumed = i
    \/ AtWork(w) /\ w.thread = i

(* Everything that has to do with the thread i began with t.               *)
OpenAlike(i, t) ==
    /\ \A k \in 1..Len(threads[i]) :
        disk[threads[i][k].of] # <<>> /\ OpenedWith(threads[i][k].of) = t
    /\ \A u \in Texts : sessions[u] = i => u = t
    /\ \A r \in UnderWay : Refers(run[r], i) => OpenedWith(run[r].of) = t
ThreadsOpenAlike == \A i \in 1..Len(threads) : \E t \in Texts : OpenAlike(i, t)

(* A run's own message is its own, but for the runs that overlap it.       *)
RunsApart ==
    /\ \A r, s \in UnderWay : r # s => Latest(r) # Latest(s)
    /\ \A c \in Conversations \ clashed : \A r, s \in Active(c) : r = s
    /\ \A r, s \in UnderWay :
        /\ r # s
        /\ run[r].stage \in {"asked", "reading"}
        /\ run[r].of \notin clashed
        => ~Holds(run[s].request, Latest(r))

(* What a run will tell Codex, no thread that could be told it has heard.  *)
Excused(r) == Latest(r) \in repeated \/ run[r].of \in clashed
NotYetHeard ==
    \A r \in UnderWay :
        /\ run[r].child = "none" /\ ~Excused(r) =>
            \A i \in 1..Len(threads) : ~Holds(threads[i], Latest(r))
        /\ run[r].child = "starting" /\ run[r].resumed # 0 /\ ~Excused(r) =>
            ~Holds(threads[run[r].resumed], Latest(r))

(* What a child at work has told its thread.                               *)
ToldItsThread(r) ==
    /\ AtWork(run[r]) =>
        /\ Holds(threads[run[r].thread], Latest(r))
        /\ run[r].resumed = 0 =>
            \A k \in 1..Len(run[r].request) :
                Holds(threads[run[r].thread], run[r].request[k])
    /\ run[r].child = "answered" => Holds(threads[run[r].thread], ReplyTo(r, "codex"))
    /\ run[r].child = "ended" => Latest(r) \in unserved

(* Of a conversation without two runs at once, nothing that was said is    *)
(* missing from the process.                                               *)
AllHere(c) ==
    \A k \in 1..Len(disk[c]) : Told(disk[c][k]) =>
        /\ memory[c] # <<>> => Holds(memory[c], disk[c][k])
        /\ \A r \in Active(c) : Holds(run[r].request, disk[c][k])

(* A conversation that is told apart from the others: what the thread it   *)
(* is remembered by has heard, and that its run has resumed it.            *)
Clear(c) ==
    /\ c \notin clashed
    /\ \A o \in Conversations \ {c} : Openings(o) \cap Openings(c) = {}
KnownToCodex(c) ==
    disk[c] # <<>> /\ sessions[OpenedWith(c)] # 0 =>
        \A k \in 1..Len(disk[c]) : Told(disk[c][k]) =>
            \/ Holds(threads[sessions[OpenedWith(c)]], disk[c][k])
            \/ disk[c][k] \in unserved
            \/ \E r \in Active(c) : disk[c][k] = Latest(r)
Resumes(c) ==
    \A r \in Active(c) : run[r].stage = "reading" =>
        run[r].resumed = sessions[OpenedWith(c)]

Following ==
    /\ \A r \in UnderWay : ToldItsThread(r)
    /\ \A c \in Conversations \ clashed : AllHere(c)
    /\ \A c \in Conversations : Clear(c) => KnownToCodex(c) /\ Resumes(c)

Answered == \A missing \in answers : missing \subseteq Messages

CodexInv ==
    /\ Histories
    /\ ThreadsOpenAlike
    /\ RunsApart
    /\ NotYetHeard
    /\ HeardOnce
    /\ Following
    /\ Answered
    /\ RepliesKnowTheConversation

-----------------------------------------------------------------------------
(* Sequences of messages.                                                  *)

LEMMA AppendHolds ==
    ASSUME NEW S, NEW s \in Seq(S), NEW m \in S
    PROVE  /\ Append(s, m) \in Seq(S)
           /\ Longer(s, Append(s, m))
           /\ Len(Append(s, m)) = Len(s) + 1 /\ Len(s) \in Nat
           /\ Append(s, m)[Len(s) + 1] = m
           /\ Holds(Append(s, m), m)
           /\ \A k \in 1..(Len(s) + 1) : \/ k \in 1..Len(s) /\ Append(s, m)[k] = s[k]
                                         \/ k = Len(s) + 1 /\ Append(s, m)[k] = m
  <1>1. /\ Append(s, m) \in Seq(S) /\ Len(s) \in Nat
        /\ Len(Append(s, m)) = Len(s) + 1
        /\ \A k \in 1..Len(s) : Append(s, m)[k] = s[k]
        /\ Append(s, m)[Len(s) + 1] = m
        BY AppendProperties, LenProperties
  <1>2. Len(s) + 1 \in 1..Len(Append(s, m))
        BY <1>1
  <1>3. Longer(s, Append(s, m))
        BY <1>1 DEF Longer
  <1>4. Holds(Append(s, m), m)
        BY <1>1, <1>2 DEF Holds
  <1>5. ASSUME NEW k \in 1..(Len(s) + 1)
        PROVE  \/ k \in 1..Len(s) /\ Append(s, m)[k] = s[k]
               \/ k = Len(s) + 1 /\ Append(s, m)[k] = m
        BY <1>1
  <1> QED BY <1>1, <1>3, <1>4, <1>5

LEMMA CatHolds ==
    ASSUME NEW S, NEW s \in Seq(S), NEW t \in Seq(S)
    PROVE  /\ s \o t \in Seq(S)
           /\ Longer(s, s \o t)
           /\ Len(s \o t) = Len(s) + Len(t) /\ Len(s) \in Nat /\ Len(t) \in Nat
           /\ \A k \in 1..Len(t) : (s \o t)[Len(s) + k] = t[k]
           /\ \A k \in 1..Len(s \o t) : \/ k \in 1..Len(s) /\ (s \o t)[k] = s[k]
                                        \/ k - Len(s) \in 1..Len(t) /\ (s \o t)[k] = t[k - Len(s)]
  <1>1. /\ s \o t \in Seq(S) /\ Len(s) \in Nat /\ Len(t) \in Nat
        /\ Len(s \o t) = Len(s) + Len(t)
        BY ConcatProperties, LenProperties
  <1>2. \A k \in 1..Len(s \o t) : (s \o t)[k] = IF k <= Len(s) THEN s[k] ELSE t[k - Len(s)]
        BY <1>1
  <1>3. \A k \in 1..Len(s) : k \in 1..Len(s \o t) /\ (s \o t)[k] = s[k]
        BY <1>1, <1>2
  <1>4. \A k \in 1..Len(t) : (s \o t)[Len(s) + k] = t[k]
        BY <1>1, ConcatProperties
  <1>5. ASSUME NEW k \in 1..Len(s \o t)
        PROVE  \/ k \in 1..Len(s) /\ (s \o t)[k] = s[k]
               \/ k - Len(s) \in 1..Len(t) /\ (s \o t)[k] = t[k - Len(s)]
        BY <1>1, <1>2
  <1>6. Longer(s, s \o t)
        BY <1>1, <1>3 DEF Longer
  <1> QED BY <1>1, <1>4, <1>5, <1>6

LEMMA LongerHolds ==
    ASSUME NEW S, NEW d \in Seq(S), NEW e \in Seq(S), Longer(d, e)
    PROVE  /\ \A m : Holds(d, m) => Holds(e, m)
           /\ d # <<>> => e # <<>> /\ 1 \in 1..Len(d) /\ e[1] = d[1]
  <1>1. Len(d) \in Nat /\ Len(e) \in Nat /\ Len(d) <= Len(e)
        BY LenProperties DEF Longer
  <1>2. d # <<>> => Len(d) # 0 /\ e # <<>>
        BY <1>1
  <1> QED BY <1>1, <1>2 DEF Longer, Holds

LEMMA LongerIs ==
    ASSUME NEW S, NEW d \in Seq(S) PROVE Longer(d, d)
  <1>1. Len(d) \in Nat
        BY LenProperties
  <1> QED BY <1>1 DEF Longer

LEMMA LastUserIs ==
    ASSUME NEW s \in Seq(Messages), NEW p, LastUser(s, p)
    PROVE  /\ Max(UserAt(s)) = p
           /\ p \in 1..Len(s) /\ IsUser(s[p]) /\ s[p] \in Messages
           /\ \A q \in 1..Len(s) : IsUser(s[q]) => q <= p
  <1>1. /\ p \in UserAt(s) /\ \A q \in UserAt(s) : q <= p
        /\ UserAt(s) \subseteq Nat
        BY LenProperties DEF LastUser, UserAt
  <1>2. \E x \in UserAt(s) : \A y \in UserAt(s) : x >= y
        BY <1>1
  <1>3. /\ Max(UserAt(s)) \in UserAt(s)
        /\ \A y \in UserAt(s) : Max(UserAt(s)) >= y
        BY <1>2 DEF Max
  <1>4. Max(UserAt(s)) = p
        BY <1>1, <1>3
  <1>5. p \in 1..Len(s) /\ IsUser(s[p])
        BY <1>1 DEF UserAt
  <1>6. s[p] \in Messages
        BY <1>5
  <1>7. \A q \in 1..Len(s) : IsUser(s[q]) => q <= p
        BY <1>1 DEF UserAt
  <1> QED BY <1>4, <1>5, <1>6, <1>7

\* what is added after the last user message changes nothing in it
LEMMA LastUserStays ==
    ASSUME NEW s \in Seq(Messages), NEW t \in Seq(Messages), NEW p, LastUser(s, p),
           \A k \in 1..Len(t) : ~IsUser(t[k])
    PROVE  LastUser(s \o t, p) /\ (s \o t)[p] = s[p] /\ p \in 1..Len(s)
  <1>1. /\ p \in 1..Len(s) /\ IsUser(s[p])
        /\ \A q \in 1..Len(s) : IsUser(s[q]) => q <= p
        BY LastUserIs
  <1>2. /\ p \in 1..Len(s \o t) /\ (s \o t)[p] = s[p]
        BY <1>1, CatHolds DEF Longer
  <1>3. \A q \in 1..Len(s \o t) : IsUser((s \o t)[q]) => q <= p
    <2> TAKE q \in 1..Len(s \o t)
    <2>1. (q \in 1..Len(s) /\ (s \o t)[q] = s[q]) \/ ~IsUser((s \o t)[q])
          BY CatHolds
    <2> QED BY <1>1, <2>1
  <1> QED BY <1>1, <1>2, <1>3 DEF LastUser, UserAt

LEMMA FirstUserIs ==
    ASSUME NEW s \in Seq(Messages), s # <<>>, IsUser(s[1])
    PROVE  Min(UserAt(s)) = 1
  <1>1. 1 \in 1..Len(s)
        BY LenProperties
  <1>2. 1 \in UserAt(s) /\ \A y \in UserAt(s) : y \in Nat /\ 1 <= y
        BY <1>1, LenProperties DEF UserAt
  <1>3. \E x \in UserAt(s) : \A y \in UserAt(s) : x <= y
        BY <1>2
  <1>4. /\ Min(UserAt(s)) \in UserAt(s)
        /\ \A y \in UserAt(s) : Min(UserAt(s)) <= y
        BY <1>3 DEF Min
  <1> QED BY <1>2, <1>4

LEMMA HistoryGrows ==
    ASSUME NEW s \in Seq(Messages), NEW d \in Seq(Messages), NEW e \in Seq(Messages),
           NEW c, Longer(d, e), History(s, d, c)
    PROVE  History(s, e, c)
  <1>1. Len(d) \in Nat /\ Len(e) \in Nat /\ Len(d) <= Len(e)
        BY LenProperties DEF Longer
  <1>2. s # <<>> => e # <<>> /\ s[1] = e[1]
        BY LongerHolds DEF History
  <1>3. ASSUME NEW i \in 1..Len(s)
        PROVE  /\ s[i].of = c
               /\ Told(s[i]) => Holds(e, s[i])
               /\ IsUser(s[i]) => s[i].nth \in 1..Len(e) /\ e[s[i].nth] = s[i]
    <2>1. /\ s[i].of = c
          /\ Told(s[i]) => Holds(d, s[i])
          /\ IsUser(s[i]) => s[i].nth \in 1..Len(d) /\ d[s[i].nth] = s[i]
          BY DEF History
    <2>2. Told(s[i]) => Holds(e, s[i])
          BY <2>1, LongerHolds
    <2> QED BY <1>1, <2>1, <2>2 DEF Longer
  <1> QED BY <1>2, <1>3 DEF History

LEMMA HistoryAsks ==
    ASSUME NEW s \in Seq(Messages), NEW d \in Seq(Messages), NEW c, NEW m \in Messages,
           History(s, d, c), s = <<>> => d = <<>>,
           m.of = c, IsUser(m), m.nth = Len(d) + 1
    PROVE  /\ History(Append(s, m), Append(d, m), c)
           /\ LastUser(Append(s, m), Len(s) + 1)
  <1>1. Longer(d, Append(d, m)) /\ Append(d, m) \in Seq(Messages) /\ Len(d) \in Nat /\ Len(s) \in Nat
        BY AppendHolds
  <1>2. History(s, Append(d, m), c)
        BY <1>1, HistoryGrows
  <1>3. /\ m.nth \in 1..Len(Append(d, m)) /\ Append(d, m)[m.nth] = m /\ Holds(Append(d, m), m)
        BY <1>1, AppendHolds
  <1>4. \A k \in 1..Len(Append(s, m)) : \/ k \in 1..Len(s) /\ Append(s, m)[k] = s[k]
                                        \/ k = Len(s) + 1 /\ Append(s, m)[k] = m
        BY AppendHolds
  <1>5. Append(d, m) # <<>> /\ Append(s, m)[1] = Append(d, m)[1]
    <2>1. CASE s = <<>>
      <3>1. Append(s, m) = <<m>> /\ Append(d, m) = <<m>>
            BY <2>1
      <3> QED BY <3>1
    <2>2. CASE s # <<>>
      <3>1. 1 \in 1..Len(s) /\ d # <<>> /\ s[1] = d[1]
            BY <2>2, <1>1 DEF History
      <3>2. Append(s, m)[1] = s[1] /\ Append(d, m)[1] = d[1] /\ Append(d, m) # <<>>
            BY <3>1, <1>1, LongerHolds, AppendHolds DEF Longer
      <3> QED BY <3>1, <3>2
    <2> QED BY <2>1, <2>2
  <1>6. ASSUME NEW i \in 1..Len(Append(s, m))
        PROVE  /\ Append(s, m)[i].of = c
               /\ Told(Append(s, m)[i]) => Holds(Append(d, m), Append(s, m)[i])
               /\ IsUser(Append(s, m)[i]) =>
                    /\ Append(s, m)[i].nth \in 1..Len(Append(d, m))
                    /\ Append(d, m)[Append(s, m)[i].nth] = Append(s, m)[i]
        BY <1>2, <1>3, <1>4 DEF History
  <1>7. ASSUME NEW i \in 1..Len(Append(s, m)), NEW j \in 1..Len(Append(s, m)),
               IsUser(Append(s, m)[i]), IsUser(Append(s, m)[j]), i < j
        PROVE  Append(s, m)[i].nth < Append(s, m)[j].nth
    <2>1. i \in 1..Len(s) /\ Append(s, m)[i] = s[i]
          BY <1>1, <1>4, <1>7
    <2>2. s[i].nth \in 1..Len(d) /\ IsUser(s[i])
          BY <2>1, <1>7 DEF History
    <2>3. CASE j \in 1..Len(s) /\ Append(s, m)[j] = s[j]
      <3>1. IsUser(s[i]) /\ IsUser(s[j]) /\ i \in 1..Len(s)
            BY <1>7, <2>1, <2>3
      <3> QED BY <3>1, <2>1, <2>3, <1>7 DEF History
    <2>4. CASE Append(s, m)[j] = m
          BY <2>1, <2>2, <2>4, <1>1
    <2> QED BY <1>4, <2>3, <2>4
  <1>8. LastUser(Append(s, m), Len(s) + 1)
        BY <1>1, <1>4, AppendHolds DEF LastUser, UserAt
  <1> QED BY <1>5, <1>6, <1>7, <1>8 DEF History

LEMMA TailHolds ==
    ASSUME NEW w \in Seq(Messages), NEW p \in 1..Len(w)
    PROVE  /\ SubSeq(w, p + 1, Len(w)) \in Seq(Messages)
           /\ Len(SubSeq(w, p + 1, Len(w))) = Len(w) - p
           /\ \A k \in 1..(Len(w) - p) : SubSeq(w, p + 1, Len(w))[k] = w[p + k]
  <1>1. Len(w) \in Nat /\ p \in Nat
        BY LenProperties
  <1> QED BY <1>1, SubSeqProperties

(* The end of a run: what came after its user message is stored.           *)
LEMMA HistorySettles ==
    ASSUME NEW s \in Seq(Messages), NEW d \in Seq(Messages), NEW a \in Seq(Messages), NEW c, NEW p,
           History(s, d, c), History(d, d, c), LastUser(s, p),
           \A k \in 1..Len(a) : a[k].of = c /\ ~IsUser(a[k]),
           NEW e, e = d \o SubSeq(s \o a, p + 1, Len(s \o a))
    PROVE  /\ e \in Seq(Messages) /\ Longer(d, e)
           /\ s \o a \in Seq(Messages)
           /\ \A k \in 1..Len(e) : k \in 1..Len(d) \/ (~IsUser(e[k]) /\ (Holds(s, e[k]) \/ Holds(a, e[k])))
           /\ \A k \in 1..Len(a) : Holds(e, a[k])
           /\ History(e, e, c)
           /\ History(s \o a, e, c)
  <1> DEFINE w == s \o a
             t == SubSeq(w, p + 1, Len(w))
  <1>1. LastUser(w, p) /\ p \in 1..Len(s) /\ w \in Seq(Messages) /\ Len(w) = Len(s) + Len(a)
        /\ Len(s) \in Nat /\ Len(a) \in Nat
        BY LastUserStays, CatHolds
  <1>2. p \in 1..Len(w) /\ \A q \in 1..Len(w) : IsUser(w[q]) => q <= p
        BY <1>1, LastUserIs
  <1>3. /\ t \in Seq(Messages) /\ Len(t) = Len(w) - p
        /\ \A k \in 1..Len(t) : t[k] = w[p + k]
        BY <1>1, <1>2, TailHolds
  <1>4. \A k \in 1..Len(w) : \/ k \in 1..Len(s) /\ w[k] = s[k]
                             \/ k - Len(s) \in 1..Len(a) /\ w[k] = a[k - Len(s)]
        BY CatHolds
  <1>5. \A k \in 1..Len(t) : ~IsUser(t[k]) /\ (Holds(s, t[k]) \/ Holds(a, t[k]))
    <2> TAKE k \in 1..Len(t)
    <2>1. p + k \in 1..Len(w) /\ ~(p + k <= p)
          BY <1>1, <1>2, <1>3
    <2>2. ~IsUser(w[p + k]) /\ (Holds(s, w[p + k]) \/ Holds(a, w[p + k]))
          BY <2>1, <1>2, <1>4 DEF Holds
    <2> QED BY <2>2, <1>3
  <1>0. e = d \o t
        OBVIOUS
  <1> HIDE DEF t, w
  <1>6. /\ e \in Seq(Messages) /\ Longer(d, e) /\ Len(e) = Len(d) + Len(t) /\ Len(d) \in Nat /\ Len(t) \in Nat
        /\ \A k \in 1..Len(t) : e[Len(d) + k] = t[k]
        /\ \A k \in 1..Len(e) : \/ k \in 1..Len(d) /\ e[k] = d[k]
                                \/ k - Len(d) \in 1..Len(t) /\ e[k] = t[k - Len(d)]
    <2>1. t \in Seq(Messages)
          BY <1>3
    <2>2. /\ d \o t \in Seq(Messages)
          /\ Longer(d, d \o t)
          /\ Len(d \o t) = Len(d) + Len(t) /\ Len(d) \in Nat /\ Len(t) \in Nat
          /\ \A k \in 1..Len(t) : (d \o t)[Len(d) + k] = t[k]
          /\ \A k \in 1..Len(d \o t) : \/ k \in 1..Len(d) /\ (d \o t)[k] = d[k]
                                       \/ k - Len(d) \in 1..Len(t) /\ (d \o t)[k] = t[k - Len(d)]
          BY <2>1, CatHolds
    <2> QED BY <2>2, <1>0
  <1>7. \A k \in 1..Len(e) : k \in 1..Len(d) \/ (~IsUser(e[k]) /\ (Holds(s, e[k]) \/ Holds(a, e[k])))
        BY <1>5, <1>6
  <1>8. ASSUME NEW k \in 1..Len(a) PROVE Holds(e, a[k])
    <2> DEFINE j == (Len(s) + k) - p
    <2>1. j \in 1..Len(t) /\ p + j = Len(s) + k
          BY <1>1, <1>3
    <2>2. t[j] = w[Len(s) + k]
          BY <2>1, <1>3
    <2>3. w[Len(s) + k] = a[k]
          BY CatHolds DEF w
    <2> HIDE DEF j
    <2>4. Len(d) + j \in 1..Len(e) /\ e[Len(d) + j] = t[j]
      <3>1. e[Len(d) + j] = t[j]
            BY <2>1, <1>6
      <3>2. Len(d) + j \in 1..Len(e)
            BY <2>1, <1>6
      <3> QED BY <3>1, <3>2
    <2> QED BY <2>2, <2>3, <2>4 DEF Holds
  <1>9. History(s, e, c) /\ History(d, e, c)
        BY <1>6, HistoryGrows
  <1>10. History(e, e, c)
    <2>1. e # <<>> => e # <<>> /\ e[1] = e[1]
          OBVIOUS
    <2>2. ASSUME NEW i \in 1..Len(e)
          PROVE  /\ e[i].of = c
                 /\ Told(e[i]) => Holds(e, e[i])
                 /\ IsUser(e[i]) => e[i].nth \in 1..Len(e) /\ e[e[i].nth] = e[i]
      <3>1. Holds(e, e[i])
            BY DEF Holds
      <3>2. CASE i \in 1..Len(d) /\ e[i] = d[i]
            BY <3>1, <3>2, <1>9 DEF History
      <3>3. CASE ~IsUser(e[i]) /\ (Holds(s, e[i]) \/ Holds(a, e[i]))
        <4>1. e[i].of = c
              BY <3>3 DEF Holds, History
        <4> QED BY <3>1, <3>3, <4>1
      <3> QED BY <3>2, <3>3, <1>7, <1>6 DEF Longer
    <2>3. ASSUME NEW i \in 1..Len(e), NEW j \in 1..Len(e), IsUser(e[i]), IsUser(e[j]), i < j
          PROVE  e[i].nth < e[j].nth
      <3>1. i \in 1..Len(d) /\ j \in 1..Len(d)
            BY <2>3, <1>7
      <3>2. e[i] = d[i] /\ e[j] = d[j]
            BY <3>1, <1>6 DEF Longer
      <3> QED BY <3>1, <3>2, <2>3 DEF History
    <2> QED BY <2>1, <2>2, <2>3 DEF History
  <1>11. History(w, e, c)
    <2>1. w # <<>> => e # <<>> /\ w[1] = e[1]
      <3>1. s # <<>> /\ 1 \in 1..Len(s) /\ w[1] = s[1]
            BY <1>1, CatHolds, LongerHolds DEF Longer, w
      <3> QED BY <3>1, <1>9 DEF History
    <2>2. ASSUME NEW i \in 1..Len(w)
          PROVE  /\ w[i].of = c
                 /\ Told(w[i]) => Holds(e, w[i])
                 /\ IsUser(w[i]) => w[i].nth \in 1..Len(e) /\ e[w[i].nth] = w[i]
      <3>1. CASE i \in 1..Len(s) /\ w[i] = s[i]
            BY <3>1, <1>9 DEF History
      <3>2. CASE i - Len(s) \in 1..Len(a) /\ w[i] = a[i - Len(s)]
            BY <3>2, <1>8
      <3> QED BY <3>1, <3>2, <1>4
    <2>3. ASSUME NEW i \in 1..Len(w), NEW j \in 1..Len(w), IsUser(w[i]), IsUser(w[j]), i < j
          PROVE  w[i].nth < w[j].nth
      <3>1. i \in 1..Len(s) /\ j \in 1..Len(s)
            BY <2>3, <1>1, <1>2
      <3>2. w[i] = s[i] /\ w[j] = s[j]
            BY <3>1, CatHolds DEF Longer, w
      <3> QED BY <3>1, <3>2, <2>3 DEF History
    <2> QED BY <2>1, <2>2, <2>3 DEF History
  <1> QED BY <1>1, <1>6, <1>7, <1>8, <1>10, <1>11 DEF w

-----------------------------------------------------------------------------
(* Steps.                                                                  *)

\* the run r goes on with its request, and the others as they are
GoesOn(r) ==
    /\ \A x \in Runs \ {r} : run'[x] = run[x]
    /\ run'[r].of = run[r].of /\ run'[r].request = run[r].request
Others(r) == \A x \in Runs \ {r} : run'[x] = run[x]

LEMMA UnderWayFacts ==
    ASSUME Histories, NEW r \in UnderWay
    PROVE  /\ r \in Runs /\ run[r] \in RunRecords /\ run[r].of \in Conversations
           /\ RunShape(run[r], Len(threads))
           /\ run[r].request \in Seq(Messages)
           /\ disk[run[r].of] \in Seq(Messages)
           /\ History(run[r].request, disk[run[r].of], run[r].of)
           /\ LastUser(run[r].request, Max(UserAt(run[r].request)))
           /\ Max(UserAt(run[r].request)) \in 1..Len(run[r].request)
           /\ run[r].request # <<>> /\ disk[run[r].of] # <<>>
           /\ run[r].request[1] = disk[run[r].of][1]
           /\ Latest(r) \in Messages /\ IsUser(Latest(r)) /\ Latest(r).of = run[r].of
           /\ Holds(run[r].request, Latest(r))
           /\ Latest(r).nth \in 1..Len(disk[run[r].of])
           /\ disk[run[r].of][Latest(r).nth] = Latest(r)
           /\ OpenedWith(run[r].of) \in Texts
           /\ Fingerprint(run[r].request) = OpenedWith(run[r].of)
           /\ \A w \in {"user", "codex", "blank", "other", "tool"} :
                ReplyTo(r, w) \in Messages /\ ReplyTo(r, w).of = run[r].of /\ ReplyTo(r, w).who = w
  <1> DEFINE c == run[r].of
             s == run[r].request
  <1>1. /\ r \in Runs /\ run[r] \in RunRecords /\ c \in Conversations
        /\ RunShape(run[r], Len(threads))
        BY DEF Histories, CodexTypes, UnderWay, RunRecords
  <1>2. s \in Seq(Messages) /\ disk[c] \in Seq(Messages)
        BY <1>1 DEF Histories, CodexTypes, RunRecords
  <1>3. PICK p \in UserAt(s) : LastUser(s, p)
        BY DEF Histories, Requested
  <1>4. Max(UserAt(s)) = p /\ p \in 1..Len(s) /\ IsUser(s[p]) /\ s[p] \in Messages
        BY <1>2, <1>3, LastUserIs
  <1>5. History(s, disk[c], c)
        BY DEF Histories, Requested
  <1>6. s # <<>>
        BY <1>2, <1>4
  <1>7. disk[c] # <<>> /\ s[1] = disk[c][1]
        BY <1>5, <1>6 DEF History
  <1>8. Latest(r) = s[p]
        BY <1>4 DEF Latest
  <1>9. s[p].of = c /\ s[p].nth \in 1..Len(disk[c]) /\ disk[c][s[p].nth] = s[p]
        BY <1>4, <1>5 DEF History
  <1>10. IsUser(disk[c][1]) /\ disk[c][1].text \in Texts
        BY <1>1, <1>7 DEF Histories, Stored
  <1>11. Fingerprint(s) = OpenedWith(c)
        BY <1>2, <1>6, <1>7, <1>10, FirstUserIs DEF Fingerprint, OpenedWith
  <1>12. ASSUME NEW w \in {"user", "codex", "blank", "other", "tool"}
         PROVE  ReplyTo(r, w) \in Messages /\ ReplyTo(r, w).of = c /\ ReplyTo(r, w).who = w
    <2>1. s[p].nth \in Nat
          BY <1>4 DEF Messages
    <2>2. ReplyTo(r, w) = [of |-> c, who |-> w, text |-> Follow, nth |-> s[p].nth]
          BY <1>8 DEF ReplyTo
    <2> QED BY <2>1, <2>2, <1>1 DEF Messages
  <1>13. Holds(s, Latest(r))
        BY <1>4, <1>8 DEF Holds
  <1> QED BY <1>1, <1>2, <1>3, <1>4, <1>5, <1>6, <1>7, <1>8, <1>9, <1>10, <1>11, <1>12, <1>13
          DEF OpenedWith

(* What is under way, by its stage or its child.                           *)
LEMMA IsUnderWay ==
    ASSUME Histories, NEW r \in Runs,
           run[r].stage # "idle" \/ run[r].child # "none" \/ run[r].of # Nobody
    PROVE  r \in UnderWay
  <1>1. RunShape(run[r], Len(threads))
        BY DEF Histories, CodexTypes
  <1> QED BY <1>1 DEF RunShape, Free, UnderWay

LEMMA ShapeGrows ==
    ASSUME NEW w, NEW m \in Nat, NEW n \in Nat, m <= n, RunShape(w, m)
    PROVE  RunShape(w, n)
  BY DEF RunShape

LEMMA SettleFacts ==
    ASSUME Histories, NEW r \in UnderWay, NEW a \in Seq(Messages),
           \A k \in 1..Len(a) : a[k].of = run[r].of /\ ~IsUser(a[k]),
           Settle(r, a)
    PROVE  /\ disk' \in [Conversations -> Seq(Messages)]
           /\ memory' \in [Conversations -> Seq(Messages)]
           /\ \A o \in Conversations : Longer(disk[o], disk'[o])
           /\ \A o \in Conversations \ {run[r].of} : disk'[o] = disk[o] /\ memory'[o] = memory[o]
           /\ memory'[run[r].of] = run[r].request \o a
           /\ \A k \in 1..Len(disk'[run[r].of]) :
                k \in 1..Len(disk[run[r].of]) \/
                    ( /\ ~IsUser(disk'[run[r].of][k])
                      /\ \/ Holds(run[r].request, disk'[run[r].of][k])
                         \/ Holds(a, disk'[run[r].of][k]))
           /\ \A k \in 1..Len(a) : Holds(disk'[run[r].of], a[k])
           /\ History(disk'[run[r].of], disk'[run[r].of], run[r].of)
           /\ History(memory'[run[r].of], disk'[run[r].of], run[r].of)
  <1> DEFINE c == run[r].of
             s == run[r].request
             d == disk[c]
             p == Max(UserAt(s))
             e == d \o SubSeq(s \o a, p + 1, Len(s \o a))
  <1>1. /\ c \in Conversations /\ s \in Seq(Messages) /\ d \in Seq(Messages)
        /\ History(s, d, c) /\ LastUser(s, p)
        BY UnderWayFacts
  <1>2. History(d, d, c)
        BY <1>1 DEF Histories, Stored
  <1>3. LastUser(s \o a, p) /\ s \o a \in Seq(Messages)
        BY <1>1, LastUserStays, CatHolds
  <1>4. Max(UserAt(s \o a)) = p
    <2> HIDE DEF p, s, c
    <2> QED BY <1>3, LastUserIs
  <1>5. /\ disk' = [disk EXCEPT ![c] = e]
        /\ memory' = [memory EXCEPT ![c] = s \o a]
        BY <1>4 DEF Settle
  <1>6. disk \in [Conversations -> Seq(Messages)] /\ memory \in [Conversations -> Seq(Messages)]
        BY DEF Histories, CodexTypes
  <1>7. /\ disk'[c] = e /\ memory'[c] = s \o a
        /\ \A o \in Conversations \ {c} : disk'[o] = disk[o] /\ memory'[o] = memory[o]
        BY <1>1, <1>5, <1>6
  <1>8. /\ e \in Seq(Messages) /\ Longer(d, e)
        /\ s \o a \in Seq(Messages)
        /\ \A k \in 1..Len(e) : k \in 1..Len(d) \/ (~IsUser(e[k]) /\ (Holds(s, e[k]) \/ Holds(a, e[k])))
        /\ \A k \in 1..Len(a) : Holds(e, a[k])
        /\ History(e, e, c)
        /\ History(s \o a, e, c)
    <2> HIDE DEF p
    <2>1. \A k \in 1..Len(a) : a[k].of = c /\ ~IsUser(a[k])
          OBVIOUS
    <2> HIDE DEF c, s, d
    <2> QED BY <1>1, <1>2, <2>1, HistorySettles
  <1> HIDE DEF e
  <1>9. disk' \in [Conversations -> Seq(Messages)] /\ memory' \in [Conversations -> Seq(Messages)]
        BY <1>5, <1>6, <1>8
  <1>10. \A o \in Conversations : Longer(disk[o], disk'[o])
        BY <1>6, <1>7, <1>8, LongerIs
  <1> QED BY <1>7, <1>8, <1>9, <1>10

(* A user message asks the next number of its conversation.                *)
LEMMA TurnFacts ==
    ASSUME Histories, NEW r \in Runs, NEW c \in Conversations, UserTurn(r, c)
    PROVE  \E said \in Messages :
           /\ IsUser(said) /\ said.of = c /\ said.nth = Len(disk[c]) + 1
           /\ disk' = [disk EXCEPT ![c] = Append(disk[c], said)]
           /\ \A o \in Conversations : Longer(disk[o], disk'[o])
           /\ disk' \in [Conversations -> Seq(Messages)]
           /\ memory' \in [Conversations -> Seq(Messages)]
           /\ run'[r].request = Append(Found(c), said)
           /\ Found(c) \in Seq(Messages)
           /\ memory'[c] \in {run'[r].request, <<>>}
           /\ \A o \in Conversations \ {c} : disk'[o] = disk[o] /\ memory'[o] = memory[o]
           /\ Found(c) = <<>> => disk[c] = <<>> /\ said.text \in Texts
           /\ History(Found(c), disk[c], c)
           /\ run'[r] \in RunRecords /\ run'[r].of = c /\ run'[r].stage = "asked"
           /\ run'[r].child = "none" /\ run'[r].resumed = 0 /\ run'[r].thread = 0
           /\ run[r] = Free /\ Others(r)
           /\ run' \in [Runs -> RunRecords]
           /\ LastUser(run'[r].request, Len(Found(c)) + 1)
           /\ History(run'[r].request, disk'[c], c)
           /\ History(disk'[c], disk'[c], c)
  <1>1. /\ disk \in [Conversations -> Seq(Messages)] /\ memory \in [Conversations -> Seq(Messages)]
        /\ run \in [Runs -> RunRecords]
        BY DEF Histories, CodexTypes
  <1>2. Found(c) \in Seq(Messages)
        BY <1>1 DEF Found
  <1>3. History(Found(c), disk[c], c)
        BY DEF Histories, Stored, Found
  <1>4. PICK t \in (IF Found(c) = <<>> THEN Texts ELSE {Follow}) :
          LET said == Message(c, "user", t)
              request == Append(Found(c), said)
          IN  /\ disk' = [disk EXCEPT ![c] = Append(@, said)]
              /\ memory' = [memory EXCEPT ![c] = IF frontend = "chat" THEN request ELSE <<>>]
              /\ run' = [run EXCEPT ![r] = [Free EXCEPT !.of = c, !.stage = "asked",
                                                        !.request = request]]
        BY DEF UserTurn
  <1> DEFINE said == Message(c, "user", t)
             request == Append(Found(c), said)
  <1>5. said = [of |-> c, who |-> "user", text |-> t, nth |-> Len(disk[c]) + 1]
        BY DEF Message
  <1>6. disk[c] \in Seq(Messages) /\ Len(disk[c]) \in Nat
        BY <1>1, LenProperties
  <1>7. t \in Texts \cup {Follow} /\ (Found(c) = <<>> => t \in Texts)
        BY <1>4
  <1>8. /\ said \in Messages /\ IsUser(said) /\ said.of = c /\ said.nth = Len(disk[c]) + 1
        /\ said.text = t
        BY <1>5, <1>6, <1>7 DEF Messages, IsUser
  <1>9. /\ disk' = [disk EXCEPT ![c] = Append(disk[c], said)]
        /\ memory' = [memory EXCEPT ![c] = IF frontend = "chat" THEN request ELSE <<>>]
        /\ run' = [run EXCEPT ![r] = [Free EXCEPT !.of = c, !.stage = "asked",
                                                  !.request = request]]
        BY <1>4
  <1> HIDE DEF said
  <1>10. request \in Seq(Messages) /\ Append(disk[c], said) \in Seq(Messages)
        BY <1>2, <1>6, <1>8, AppendHolds
  <1>11. Found(c) = <<>> => disk[c] = <<>>
        BY DEF Found
  <1>12. /\ History(request, Append(disk[c], said), c)
         /\ LastUser(request, Len(Found(c)) + 1)
        BY <1>2, <1>3, <1>6, <1>8, <1>11, HistoryAsks
  <1>13. History(Append(disk[c], said), Append(disk[c], said), c)
    <2>1. History(disk[c], disk[c], c)
          BY DEF Histories, Stored
    <2> QED BY <2>1, <1>6, <1>8, HistoryAsks
  <1> HIDE DEF request
  <1>14. /\ disk'[c] = Append(disk[c], said)
         /\ memory'[c] \in {request, <<>>}
         /\ \A o \in Conversations \ {c} : disk'[o] = disk[o] /\ memory'[o] = memory[o]
        BY <1>1, <1>9
  <1>15. /\ disk' \in [Conversations -> Seq(Messages)]
         /\ memory' \in [Conversations -> Seq(Messages)]
        BY <1>1, <1>9, <1>10
  <1>16. \A o \in Conversations : Longer(disk[o], disk'[o])
    <2>1. Longer(disk[c], Append(disk[c], said))
          BY <1>6, <1>8, AppendHolds
    <2>2. \A o \in Conversations : Longer(disk[o], disk[o])
          BY <1>1, LongerIs
    <2> QED BY <2>1, <2>2, <1>14
  <1>17. /\ run'[r] = [Free EXCEPT !.of = c, !.stage = "asked", !.request = request]
         /\ Others(r) /\ run[r] = Free
        BY <1>1, <1>9 DEF Others, UserTurn
  <1>18. /\ run'[r] \in RunRecords /\ run'[r].of = c /\ run'[r].stage = "asked"
         /\ run'[r].child = "none" /\ run'[r].resumed = 0 /\ run'[r].thread = 0
         /\ run'[r].request = request
    <2>1. run'[r] = [of |-> c, stage |-> "asked", request |-> request, resumed |-> 0,
                     thread |-> 0, child |-> "none"]
          BY <1>17 DEF Free
    <2> QED BY <1>10, <2>1 DEF RunRecords
  <1>19. run' \in [Runs -> RunRecords]
        BY <1>1, <1>9, <1>17, <1>18
  <1> QED
    <2>1. request = Append(Found(c), said)
          BY DEF request
    <2> WITNESS said \in Messages
    <2> QED BY <1>2, <1>3, <1>7, <1>8, <1>9, <1>11, <1>12, <1>13, <1>14, <1>15, <1>16, <1>17,
               <1>18, <1>19, <2>1

(* What each operation does to its run, and that the types are kept.       *)
LEMMA StreamFacts ==
    ASSUME Histories, NEW r \in Runs, Stream(r)
    PROVE  /\ r \in UnderWay /\ GoesOn(r) /\ run' \in [Runs -> RunRecords]
           /\ run[r].stage = "asked" /\ run[r].child = "none"
           /\ run'[r].stage = "reading" /\ run'[r].child = "starting"
           /\ run'[r].thread = run[r].thread
           /\ run'[r].resumed = sessions[OpenedWith(run[r].of)]
           /\ RunShape(run'[r], Len(threads'))
  <1>1. r \in UnderWay
        BY IsUnderWay DEF Stream
  <1>2. /\ run \in [Runs -> RunRecords] /\ run[r] \in RunRecords /\ RunShape(run[r], Len(threads))
        /\ sessions \in [Texts -> 0..Len(threads)]
        /\ Len(threads) \in Nat
        BY LenProperties DEF Histories, CodexTypes
  <1>3. /\ Fingerprint(run[r].request) = OpenedWith(run[r].of) /\ OpenedWith(run[r].of) \in Texts
        /\ run[r].of # Nobody
        BY <1>1, UnderWayFacts DEF UnderWay
  <1>4. /\ run' = [run EXCEPT ![r].stage = "reading", ![r].child = "starting",
                              ![r].resumed = sessions[OpenedWith(run[r].of)]]
        /\ threads' = threads /\ run[r].stage = "asked" /\ run[r].child = "none"
        BY <1>3 DEF Stream
  <1>5. run'[r] = [run[r] EXCEPT !.stage = "reading", !.child = "starting",
                                 !.resumed = sessions[OpenedWith(run[r].of)]]
        BY <1>2, <1>4
  <1>6. sessions[OpenedWith(run[r].of)] \in 0..Len(threads)
        BY <1>2, <1>3
  <1>7. /\ run'[r] \in RunRecords /\ run'[r].of = run[r].of /\ run'[r].request = run[r].request
        /\ run'[r].stage = "reading" /\ run'[r].child = "starting"
        /\ run'[r].thread = run[r].thread
        /\ run'[r].resumed = sessions[OpenedWith(run[r].of)]
    <2> DEFINE u == sessions[OpenedWith(run[r].of)]
    <2>1. u \in Nat /\ run'[r] = [run[r] EXCEPT !.stage = "reading", !.child = "starting",
                                                !.resumed = u]
          BY <1>2, <1>5, <1>6
    <2> HIDE DEF u
    <2>2. /\ run'[r] \in RunRecords /\ run'[r].of = run[r].of /\ run'[r].request = run[r].request
          /\ run'[r].stage = "reading" /\ run'[r].child = "starting"
          /\ run'[r].thread = run[r].thread /\ run'[r].resumed = u
          BY <1>2, <2>1 DEF RunRecords
    <2> QED BY <2>2 DEF u
  <1>8. run' \in [Runs -> RunRecords] /\ \A x \in Runs \ {r} : run'[x] = run[x]
        BY <1>2, <1>4, <1>5, <1>7
  <1>9. RunShape(run'[r], Len(threads'))
    <2>1. run'[r].resumed \in 0..Len(threads') /\ run'[r].of # Nobody /\ ~AtWork(run'[r])
          BY <1>3, <1>4, <1>6, <1>7 DEF AtWork
    <2> QED BY <1>7, <2>1 DEF RunShape
  <1> QED BY <1>1, <1>4, <1>7, <1>8, <1>9 DEF GoesOn

LEMMA FailureFacts ==
    ASSUME Histories, NEW r \in Runs, SpawnFails(r) \/ TurnFails(r) \/ ExitFails(r)
    PROVE  /\ r \in UnderWay /\ GoesOn(r) /\ run' \in [Runs -> RunRecords]
           /\ run[r].stage \in {"asked", "reading"}
           /\ run'[r].stage = "asked" /\ run'[r].child = "ended"
           /\ RunShape(run'[r], Len(threads'))
           /\ unserved' = unserved \cup {Latest(r)}
           /\ UNCHANGED <<frontend, memory, disk, sessions, threads, repeated, clashed, answers>>
  <1>1. r \in UnderWay
        BY IsUnderWay DEF SpawnFails, TurnFails, ExitFails
  <1>2. /\ run \in [Runs -> RunRecords] /\ run[r] \in RunRecords /\ RunShape(run[r], Len(threads))
        BY DEF Histories, CodexTypes
  <1>3. /\ \/ run' = [run EXCEPT ![r].child = "ended"] /\ run[r].stage = "asked"
           \/ run' = [run EXCEPT ![r].stage = "asked", ![r].child = "ended"]
        /\ run[r].stage \in {"asked", "reading"}
        /\ unserved' = unserved \cup {Latest(r)}
        /\ UNCHANGED <<frontend, memory, disk, sessions, threads, repeated, clashed, answers>>
        BY <1>2 DEF SpawnFails, TurnFails, ExitFails
  <1>4. /\ \/ run'[r] = [run[r] EXCEPT !.child = "ended"] /\ run[r].stage = "asked"
           \/ run'[r] = [run[r] EXCEPT !.stage = "asked", !.child = "ended"]
        /\ \A x \in Runs \ {r} : run'[x] = run[x]
        /\ DOMAIN run' = Runs /\ run' = [x \in Runs |-> run'[x]]
        BY <1>2, <1>3
  <1>5. /\ run'[r] \in RunRecords /\ run'[r].of = run[r].of /\ run'[r].request = run[r].request
        /\ run'[r].stage = "asked" /\ run'[r].child = "ended"
        /\ run'[r].thread = run[r].thread /\ run'[r].resumed = run[r].resumed
        BY <1>2, <1>4 DEF RunRecords
  <1>6. run' \in [Runs -> RunRecords] /\ \A x \in Runs \ {r} : run'[x] = run[x]
        BY <1>2, <1>4, <1>5
  <1>7. run[r].of # Nobody
        BY <1>1 DEF UnderWay
  <1>8. RunShape(run'[r], Len(threads'))
        BY <1>2, <1>3, <1>5, <1>7 DEF RunShape, AtWork
  <1> QED BY <1>1, <1>3, <1>5, <1>6, <1>8 DEF GoesOn

\* the child or the stage of the run changes, and nothing else of it
LEMMA StallFacts ==
    ASSUME Histories, NEW r \in Runs, Stall(r)
    PROVE  /\ r \in UnderWay /\ GoesOn(r) /\ run' \in [Runs -> RunRecords]
           /\ run[r].child = "working" /\ run'[r].child = "stalled"
           /\ run'[r].stage = run[r].stage
           /\ run'[r].thread = run[r].thread /\ run'[r].resumed = run[r].resumed
           /\ RunShape(run'[r], Len(threads'))
  <1>1. r \in UnderWay
        BY IsUnderWay DEF Stall
  <1>2. /\ run \in [Runs -> RunRecords] /\ run[r] \in RunRecords /\ RunShape(run[r], Len(threads))
        BY DEF Histories, CodexTypes
  <1>3. /\ run' = [run EXCEPT ![r].child = "stalled"]
        /\ run[r].child = "working" /\ threads' = threads
        BY DEF Stall
  <1>4. run'[r] = [run[r] EXCEPT !.child = "stalled"]
        BY <1>2, <1>3
  <1>5. /\ run'[r] \in RunRecords /\ run'[r].of = run[r].of /\ run'[r].request = run[r].request
        /\ run'[r].stage = run[r].stage /\ run'[r].child = "stalled"
        /\ run'[r].thread = run[r].thread /\ run'[r].resumed = run[r].resumed
        BY <1>2, <1>4 DEF RunRecords
  <1>6. run' \in [Runs -> RunRecords] /\ \A x \in Runs \ {r} : run'[x] = run[x]
        BY <1>2, <1>3, <1>4, <1>5
  <1>7. run[r].of # Nobody
        BY <1>1 DEF UnderWay
  <1>8. RunShape(run'[r], Len(threads'))
        BY <1>2, <1>3, <1>5, <1>7 DEF RunShape, AtWork
  <1> QED BY <1>1, <1>3, <1>5, <1>6, <1>8 DEF GoesOn

LEMMA StartFacts ==
    ASSUME Histories, NEW r \in Runs, ThreadStarted(r)
    PROVE  /\ r \in UnderWay /\ GoesOn(r) /\ run' \in [Runs -> RunRecords]
           /\ run[r].child = "starting" /\ run'[r].child = "working"
           /\ run'[r].stage = run[r].stage /\ run'[r].resumed = run[r].resumed
           /\ Len(threads) \in Nat
           /\ \/ /\ run[r].resumed \in 1..Len(threads)
                 /\ run'[r].thread = run[r].resumed
                 /\ Len(threads') = Len(threads)
                 /\ threads'[run[r].resumed] = threads[run[r].resumed] \o <<Latest(r)>>
                 /\ \A i \in 1..Len(threads) : i # run[r].resumed => threads'[i] = threads[i]
              \/ /\ run[r].resumed = 0
                 /\ run'[r].thread = Len(threads) + 1
                 /\ Len(threads') = Len(threads) + 1
                 /\ threads'[Len(threads) + 1] = run[r].request
                 /\ \A i \in 1..Len(threads) : threads'[i] = threads[i]
           /\ threads' \in Seq(Seq(Messages))
           /\ RunShape(run'[r], Len(threads'))
           /\ \A i \in 1..Len(threads) : Longer(threads[i], threads'[i])
  <1>1. r \in UnderWay
        BY IsUnderWay DEF ThreadStarted
  <1>2. /\ run \in [Runs -> RunRecords] /\ run[r] \in RunRecords /\ RunShape(run[r], Len(threads))
        /\ threads \in Seq(Seq(Messages)) /\ Len(threads) \in Nat
        BY LenProperties DEF Histories, CodexTypes
  <1>3. /\ Latest(r) \in Messages /\ run[r].request \in Seq(Messages) /\ run[r].of # Nobody
        BY <1>1, UnderWayFacts DEF UnderWay
  <1>4. run[r].resumed \in 0..Len(threads)
        BY <1>2 DEF RunShape
  <1> DEFINE new == IF run[r].resumed # 0 THEN run[r].resumed ELSE Len(threads) + 1
  <1>5. /\ run' = [run EXCEPT ![r].child = "working", ![r].thread = new]
        /\ run[r].child = "starting"
        /\ threads' = IF run[r].resumed # 0
                      THEN [threads EXCEPT ![run[r].resumed] = @ \o <<Latest(r)>>]
                      ELSE Append(threads, run[r].request)
        BY DEF ThreadStarted, Prompt, Latest
  <1>6. new \in Nat
        BY <1>2, <1>4
  <1>7. new = run[r].resumed \/ (run[r].resumed = 0 /\ new = Len(threads) + 1)
        OBVIOUS
  <1> HIDE DEF new
  <1>8. run'[r] = [run[r] EXCEPT !.child = "working", !.thread = new]
        BY <1>2, <1>5
  <1>9. /\ run'[r] \in RunRecords /\ run'[r].of = run[r].of /\ run'[r].request = run[r].request
        /\ run'[r].stage = run[r].stage /\ run'[r].child = "working"
        /\ run'[r].thread = new /\ run'[r].resumed = run[r].resumed
        BY <1>2, <1>6, <1>8 DEF RunRecords
  <1>10. run' \in [Runs -> RunRecords] /\ \A x \in Runs \ {r} : run'[x] = run[x]
        BY <1>2, <1>5, <1>8, <1>9
  <1>11. CASE run[r].resumed # 0
    <2>1. run[r].resumed \in 1..Len(threads) /\ new = run[r].resumed
          BY <1>2, <1>4, <1>11 DEF new
    <2>2. threads' = [threads EXCEPT ![run[r].resumed] = threads[run[r].resumed] \o <<Latest(r)>>]
          BY <1>5, <1>11
    <2>3. threads[run[r].resumed] \in Seq(Messages) /\ <<Latest(r)>> \in Seq(Messages)
          BY <1>2, <1>3, <2>1
    <2>4. /\ threads[run[r].resumed] \o <<Latest(r)>> \in Seq(Messages)
          /\ Longer(threads[run[r].resumed], threads[run[r].resumed] \o <<Latest(r)>>)
          BY <2>3, CatHolds
    <2>5. /\ threads' \in Seq(Seq(Messages)) /\ Len(threads') = Len(threads)
          /\ threads'[run[r].resumed] = threads[run[r].resumed] \o <<Latest(r)>>
          /\ \A i \in 1..Len(threads) : i # run[r].resumed => threads'[i] = threads[i]
      <3> DEFINE t == threads[run[r].resumed] \o <<Latest(r)>>
      <3>1. t \in Seq(Messages) /\ threads' = [threads EXCEPT ![run[r].resumed] = t]
            BY <2>2, <2>4
      <3> HIDE DEF t
      <3>2. /\ threads' \in Seq(Seq(Messages)) /\ Len(threads') = Len(threads)
            /\ threads'[run[r].resumed] = t
            /\ \A i \in 1..Len(threads) : i # run[r].resumed => threads'[i] = threads[i]
            BY <1>2, <2>1, <3>1
      <3> QED BY <3>2 DEF t
    <2>6. ASSUME NEW i \in 1..Len(threads) PROVE Longer(threads[i], threads'[i])
      <3>1. threads[i] \in Seq(Messages)
            BY <1>2
      <3>2. Longer(threads[i], threads[i])
            BY <3>1, LongerIs
      <3> QED BY <2>4, <2>5, <3>2
    <2>7. RunShape(run'[r], Len(threads'))
          BY <1>2, <1>3, <1>4, <1>5, <1>9, <2>1, <2>5 DEF RunShape, AtWork
    <2> QED BY <1>1, <1>2, <1>5, <1>9, <1>10, <2>1, <2>5, <2>6, <2>7 DEF GoesOn
  <1>12. CASE run[r].resumed = 0
    <2>1. threads' = Append(threads, run[r].request) /\ new = Len(threads) + 1
          BY <1>5, <1>12 DEF new
    <2>2. /\ threads' \in Seq(Seq(Messages)) /\ Len(threads') = Len(threads) + 1
          /\ threads'[Len(threads) + 1] = run[r].request
          /\ \A i \in 1..Len(threads) : threads'[i] = threads[i]
          BY <1>2, <1>3, <2>1, AppendProperties
    <2>3. ASSUME NEW i \in 1..Len(threads) PROVE Longer(threads[i], threads'[i])
      <3>1. threads[i] \in Seq(Messages)
            BY <1>2
      <3>2. Longer(threads[i], threads[i])
            BY <3>1, LongerIs
      <3> QED BY <2>2, <3>2
    <2>4. RunShape(run'[r], Len(threads'))
          BY <1>2, <1>3, <1>5, <1>9, <1>12, <2>1, <2>2 DEF RunShape, AtWork
    <2> QED BY <1>1, <1>2, <1>5, <1>9, <1>10, <1>12, <2>1, <2>2, <2>3, <2>4 DEF GoesOn
  <1> QED BY <1>11, <1>12

LEMMA MessageFacts ==
    ASSUME Histories, NEW r \in Runs, AgentMessage(r)
    PROVE  /\ r \in UnderWay /\ GoesOn(r) /\ run' \in [Runs -> RunRecords]
           /\ run[r].child = "working" /\ run'[r].child = "answered"
           /\ run'[r].stage = run[r].stage
           /\ run'[r].thread = run[r].thread /\ run'[r].resumed = run[r].resumed
           /\ run[r].thread \in 1..Len(threads)
           /\ threads' \in Seq(Seq(Messages)) /\ Len(threads') = Len(threads)
           /\ threads'[run[r].thread] = Append(threads[run[r].thread], ReplyTo(r, "codex"))
           /\ \A i \in 1..Len(threads) : i # run[r].thread => threads'[i] = threads[i]
           /\ \A i \in 1..Len(threads) : Longer(threads[i], threads'[i])
           /\ RunShape(run'[r], Len(threads'))
  <1>1. r \in UnderWay
        BY IsUnderWay DEF AgentMessage
  <1>2. /\ run \in [Runs -> RunRecords] /\ run[r] \in RunRecords /\ RunShape(run[r], Len(threads))
        /\ threads \in Seq(Seq(Messages)) /\ Len(threads) \in Nat
        BY LenProperties DEF Histories, CodexTypes
  <1>3. ReplyTo(r, "codex") \in Messages /\ run[r].of # Nobody
        BY <1>1, UnderWayFacts DEF UnderWay
  <1>4. /\ run' = [run EXCEPT ![r].child = "answered"]
        /\ run[r].child = "working"
        /\ threads' = [threads EXCEPT ![run[r].thread] = Append(@, ReplyTo(r, "codex"))]
        BY DEF AgentMessage
  <1>5. run[r].thread \in 1..Len(threads)
        BY <1>2, <1>4 DEF RunShape, AtWork
  <1>6. run'[r] = [run[r] EXCEPT !.child = "answered"]
        BY <1>2, <1>4
  <1>7. /\ run'[r] \in RunRecords /\ run'[r].of = run[r].of /\ run'[r].request = run[r].request
        /\ run'[r].stage = run[r].stage /\ run'[r].child = "answered"
        /\ run'[r].thread = run[r].thread /\ run'[r].resumed = run[r].resumed
        BY <1>2, <1>6 DEF RunRecords
  <1>8. run' \in [Runs -> RunRecords] /\ \A x \in Runs \ {r} : run'[x] = run[x]
        BY <1>2, <1>4, <1>6, <1>7
  <1>9. threads[run[r].thread] \in Seq(Messages)
        BY <1>2, <1>5
  <1>10. /\ Append(threads[run[r].thread], ReplyTo(r, "codex")) \in Seq(Messages)
         /\ Longer(threads[run[r].thread], Append(threads[run[r].thread], ReplyTo(r, "codex")))
        BY <1>3, <1>9, AppendHolds
  <1>11. /\ threads' \in Seq(Seq(Messages)) /\ Len(threads') = Len(threads)
         /\ threads'[run[r].thread] = Append(threads[run[r].thread], ReplyTo(r, "codex"))
         /\ \A i \in 1..Len(threads) : i # run[r].thread => threads'[i] = threads[i]
        BY <1>2, <1>4, <1>5, <1>10
  <1>12. ASSUME NEW i \in 1..Len(threads) PROVE Longer(threads[i], threads'[i])
    <2>1. threads[i] \in Seq(Messages)
          BY <1>2
    <2>2. Longer(threads[i], threads[i])
          BY <2>1, LongerIs
    <2> QED BY <1>10, <1>11, <2>2
  <1>13. RunShape(run'[r], Len(threads'))
        BY <1>2, <1>3, <1>4, <1>7, <1>11 DEF RunShape, AtWork
  <1> QED BY <1>1, <1>4, <1>5, <1>7, <1>8, <1>11, <1>12, <1>13 DEF GoesOn

(* A run's end or its interruption stores its request and what is added.   *)
Settled(r, a) ==
    /\ disk' \in [Conversations -> Seq(Messages)]
    /\ memory' \in [Conversations -> Seq(Messages)]
    /\ \A o \in Conversations : Longer(disk[o], disk'[o])
    /\ \A o \in Conversations \ {run[r].of} : disk'[o] = disk[o] /\ memory'[o] = memory[o]
    /\ memory'[run[r].of] = run[r].request \o a
    /\ \A k \in 1..Len(disk'[run[r].of]) :
         k \in 1..Len(disk[run[r].of]) \/
             ( /\ ~IsUser(disk'[run[r].of][k])
               /\ \/ Holds(run[r].request, disk'[run[r].of][k])
                  \/ Holds(a, disk'[run[r].of][k]))
    /\ \A k \in 1..Len(a) : Holds(disk'[run[r].of], a[k])
    /\ History(disk'[run[r].of], disk'[run[r].of], run[r].of)
    /\ History(memory'[run[r].of], disk'[run[r].of], run[r].of)
SettledWith(r, who) ==
    \E a \in {<<ReplyTo(r, who)>>} : Settled(r, a)
KeptAsIs(r) == Settled(r, <<>>) \/ UNCHANGED <<memory, disk>>

LEMMA SettledIs ==
    ASSUME Histories, NEW r \in UnderWay, NEW a \in Seq(Messages),
           \A k \in 1..Len(a) : a[k].of = run[r].of /\ ~IsUser(a[k]),
           Settle(r, a)
    PROVE  Settled(r, a)
  BY SettleFacts DEF Settled

LEMMA AbandonFacts ==
    ASSUME Histories, NEW r \in UnderWay, Abandon(r)
    PROVE  KeptAsIs(r)
  <1>1. CASE frontend = "chat"
    <2>1. Settle(r, <<>>)
          BY <1>1 DEF Abandon
    <2> DEFINE none == <<>>
    <2>2. none \in Seq(Messages) /\ 1..Len(none) = {}
          OBVIOUS
    <2> HIDE DEF none
    <2>3. Settled(r, none)
      <3>1. Settle(r, none)
            BY <2>1 DEF none
      <3>2. \A k \in 1..Len(none) : none[k].of = run[r].of /\ ~IsUser(none[k])
            BY <2>2
      <3> QED BY <2>2, <3>1, <3>2, SettledIs
    <2> QED BY <2>3 DEF KeptAsIs, none
  <1>2. CASE frontend # "chat"
        BY <1>2 DEF Abandon, KeptAsIs
  <1> QED BY <1>1, <1>2

LEMMA ReplyFacts ==
    ASSUME Histories, NEW r \in UnderWay, NEW who \in {"codex", "blank", "other", "tool"},
           Settle(r, <<ReplyTo(r, who)>>)
    PROVE  SettledWith(r, who)
  <1>1. ReplyTo(r, who) \in Messages /\ ReplyTo(r, who).of = run[r].of /\ ReplyTo(r, who).who = who
        BY UnderWayFacts
  <1> DEFINE m == ReplyTo(r, who)
  <1> HIDE DEF m
  <1>2. m \in Messages /\ m.of = run[r].of /\ ~IsUser(m) /\ Settle(r, <<m>>)
        BY <1>1 DEF m, IsUser
  <1>3. <<m>> \in Seq(Messages) /\ Len(<<m>>) = 1 /\ <<m>>[1] = m
        BY <1>2
  <1>4. \A k \in 1..Len(<<m>>) : <<m>>[k].of = run[r].of /\ ~IsUser(<<m>>[k])
        BY <1>2, <1>3
  <1>5. Settled(r, <<m>>)
        BY <1>2, <1>3, <1>4, SettledIs
  <1> QED BY <1>5 DEF m, SettledWith

LEMMA IdleFacts ==
    ASSUME NEW n \in Nat
    PROVE  Free \in RunRecords /\ RunShape(Free, n) /\ Free.of = Nobody /\ Free.stage = "idle"
  <1>1. <<>> \in Seq(Messages)
        OBVIOUS
  <1>2. Free \in RunRecords
        BY <1>1 DEF Free, RunRecords
  <1>3. Free.of = Nobody /\ Free.stage = "idle" /\ Free.resumed = 0 /\ Free.child = "none"
        BY DEF Free
  <1>4. RunShape(Free, n)
        BY <1>2, <1>3 DEF RunShape, AtWork
  <1> QED BY <1>2, <1>3, <1>4

LEMMA ExitFacts ==
    ASSUME Histories, NEW r \in Runs, Exit(r)
    PROVE  /\ r \in UnderWay /\ run'[r] = Free /\ Others(r) /\ run' \in [Runs -> RunRecords]
           /\ run[r].stage = "reading" /\ run[r].child \in {"working", "answered"}
           /\ AtWork(run[r])
           /\ run[r].thread \in 1..Len(threads)
           /\ run[r].resumed # 0 => run[r].thread = run[r].resumed
           /\ SettledWith(r, IF run[r].child = "answered" THEN "codex" ELSE "blank")
           /\ sessions' = IF run[r].resumed = 0
                          THEN [sessions EXCEPT ![OpenedWith(run[r].of)] = run[r].thread]
                          ELSE sessions
           /\ sessions' \in [Texts -> 0..Len(threads)]
  <1>1. r \in UnderWay
        BY IsUnderWay DEF Exit
  <1>2. /\ run \in [Runs -> RunRecords] /\ run[r] \in RunRecords /\ RunShape(run[r], Len(threads))
        /\ threads \in Seq(Seq(Messages)) /\ Len(threads) \in Nat
        /\ sessions \in [Texts -> 0..Len(threads)]
        BY LenProperties DEF Histories, CodexTypes
  <1>3. /\ Fingerprint(run[r].request) = OpenedWith(run[r].of)
        /\ OpenedWith(run[r].of) \in Texts
        BY <1>1, UnderWayFacts
  <1>4. /\ run[r].stage = "reading" /\ run[r].child \in {"working", "answered"}
        /\ Settle(r, <<ReplyTo(r, IF run[r].child = "answered" THEN "codex" ELSE "blank")>>)
        /\ run' = [run EXCEPT ![r] = Free]
        /\ sessions' = Remembered(r)
        BY DEF Exit
  <1>5. SettledWith(r, IF run[r].child = "answered" THEN "codex" ELSE "blank")
        BY <1>1, <1>4, ReplyFacts
  <1>6. AtWork(run[r])
        BY <1>4 DEF AtWork
  <1>7. run[r].thread \in 1..Len(threads) /\ (run[r].resumed # 0 => run[r].thread = run[r].resumed)
        BY <1>2, <1>6 DEF RunShape
  <1>8. sessions' = IF run[r].resumed = 0
                    THEN [sessions EXCEPT ![OpenedWith(run[r].of)] = run[r].thread]
                    ELSE sessions
        BY <1>3, <1>4 DEF Remembered
  <1>9. sessions' \in [Texts -> 0..Len(threads)]
        BY <1>2, <1>3, <1>7, <1>8
  <1>10. run'[r] = Free /\ Others(r) /\ run' \in [Runs -> RunRecords]
        BY <1>2, <1>4, IdleFacts DEF Others
  <1> QED BY <1>1, <1>4, <1>5, <1>6, <1>7, <1>8, <1>9, <1>10

LEMMA OtherFacts ==
    ASSUME Histories, NEW r \in Runs, OtherAnswers(r)
    PROVE  /\ r \in UnderWay /\ run'[r] = Free /\ Others(r) /\ run' \in [Runs -> RunRecords]
           /\ SettledWith(r, "other")
  <1>1. r \in UnderWay
        BY IsUnderWay DEF OtherAnswers
  <1>2. SettledWith(r, "other")
        BY <1>1, ReplyFacts DEF OtherAnswers
  <1>3. run \in [Runs -> RunRecords] /\ Len(threads) \in Nat
        BY LenProperties DEF Histories, CodexTypes
  <1>4. run'[r] = Free /\ Others(r) /\ run' \in [Runs -> RunRecords]
        BY <1>3, IdleFacts DEF Others, OtherAnswers
  <1> QED BY <1>1, <1>2, <1>4

\* it ends with no answer: RunFails, or the end of a child left alone
LEMMA EndFacts ==
    ASSUME Histories, NEW r \in Runs, RunFails(r) \/ LeftEnds(r)
    PROVE  /\ r \in UnderWay /\ run'[r] = Free /\ Others(r) /\ run' \in [Runs -> RunRecords]
           /\ KeptAsIs(r)
           /\ run[r].stage = "dropped" \/ run[r].child = "ended"
           /\ UNCHANGED <<frontend, sessions, threads, bounds, journal>>
  <1>1. r \in UnderWay
        BY IsUnderWay DEF RunFails, LeftEnds
  <1>2. KeptAsIs(r)
        BY <1>1, AbandonFacts DEF RunFails, LeftEnds, KeptAsIs
  <1>3. run \in [Runs -> RunRecords] /\ Len(threads) \in Nat
        BY LenProperties DEF Histories, CodexTypes
  <1>4. run'[r] = Free /\ Others(r) /\ run' \in [Runs -> RunRecords]
        BY <1>3, IdleFacts DEF Others, RunFails, LeftEnds
  <1> QED BY <1>1, <1>2, <1>4 DEF RunFails, LeftEnds

LEMMA InterruptFacts ==
    ASSUME Histories, NEW r \in Runs, UserStops(r)
    PROVE  /\ r \in UnderWay /\ GoesOn(r) /\ run' \in [Runs -> RunRecords]
           /\ run'[r].stage = "dropped" /\ run'[r].child = run[r].child
           /\ run'[r].thread = run[r].thread /\ run'[r].resumed = run[r].resumed
           /\ RunShape(run'[r], Len(threads'))
           /\ KeptAsIs(r)
           /\ unserved' = unserved \cup {Latest(r)}
  <1>1. r \in UnderWay
        BY IsUnderWay DEF UserStops
  <1>2. /\ run \in [Runs -> RunRecords] /\ run[r] \in RunRecords /\ RunShape(run[r], Len(threads))
        BY DEF Histories, CodexTypes
  <1>3. KeptAsIs(r)
        BY <1>1, AbandonFacts DEF UserStops
  <1>4. run' = [run EXCEPT ![r].stage = "dropped"] /\ threads' = threads /\ run[r].stage = "reading"
        BY DEF UserStops
  <1>5. run'[r] = [run[r] EXCEPT !.stage = "dropped"]
        BY <1>2, <1>4
  <1>6. /\ run'[r] \in RunRecords /\ run'[r].of = run[r].of /\ run'[r].request = run[r].request
        /\ run'[r].stage = "dropped" /\ run'[r].child = run[r].child
        /\ run'[r].thread = run[r].thread /\ run'[r].resumed = run[r].resumed
        BY <1>2, <1>5 DEF RunRecords
  <1>7. run' \in [Runs -> RunRecords] /\ \A x \in Runs \ {r} : run'[x] = run[x]
        BY <1>2, <1>4, <1>5, <1>6
  <1>8. run[r].of # Nobody
        BY <1>1 DEF UnderWay
  <1>9. RunShape(run'[r], Len(threads'))
        BY <1>2, <1>4, <1>6, <1>8 DEF RunShape, AtWork
  <1> QED BY <1>1, <1>3, <1>6, <1>7, <1>9 DEF GoesOn, UserStops

LEMMA CallsFacts ==
    ASSUME Histories, NEW r \in Runs, OtherCalls(r)
    PROVE  \E a \in Seq(Messages) :
           /\ \A k \in 1..Len(a) : a[k].of = run[r].of /\ ~Told(a[k]) /\ ~IsUser(a[k])
           /\ r \in UnderWay /\ Others(r) /\ run' \in [Runs -> RunRecords]
           /\ run'[r].of = run[r].of /\ run'[r].request = run[r].request \o a
           /\ run[r].stage = "asked" /\ run'[r].stage = "asked" /\ run'[r].child = "none"
           /\ RunShape(run'[r], Len(threads'))
           /\ Longer(run[r].request, run'[r].request)
           /\ LastUser(run'[r].request, Max(UserAt(run[r].request)))
           /\ History(run'[r].request, disk[run[r].of], run[r].of)
           /\ run'[r].request[Max(UserAt(run'[r].request))] = Latest(r)
  <1>1. r \in UnderWay
        BY IsUnderWay DEF OtherCalls
  <1>2. /\ run \in [Runs -> RunRecords] /\ run[r] \in RunRecords /\ RunShape(run[r], Len(threads))
        BY DEF Histories, CodexTypes
  <1>3. /\ ReplyTo(r, "other") \in Messages /\ ReplyTo(r, "other").of = run[r].of
        /\ ReplyTo(r, "tool") \in Messages /\ ReplyTo(r, "tool").of = run[r].of
        /\ ReplyTo(r, "other").who = "other" /\ ReplyTo(r, "tool").who = "tool"
        BY <1>1, UnderWayFacts
  <1> DEFINE m == ReplyTo(r, "other")
             n == ReplyTo(r, "tool")
             a == <<m, n>>
             s == run[r].request
             c == run[r].of
             p == Max(UserAt(s))
  <1>4. run' = [run EXCEPT ![r].child = "none", ![r].request = s \o a]
        BY DEF OtherCalls
  <1>5. /\ run[r].stage = "asked" /\ threads' = threads
        BY DEF OtherCalls
  <1> HIDE DEF m, n
  <1>6. m \in Messages /\ m.of = c /\ m.who = "other" /\ n \in Messages /\ n.of = c /\ n.who = "tool"
        BY <1>3 DEF m, n
  <1>7. a \in Seq(Messages) /\ Len(a) = 2 /\ \A k \in 1..Len(a) : a[k] = m \/ a[k] = n
        BY <1>6
  <1>8. \A k \in 1..Len(a) : a[k].of = c /\ ~Told(a[k]) /\ ~IsUser(a[k])
        BY <1>6, <1>7 DEF Told, IsUser
  <1> HIDE DEF a
  <1>9. s \in Seq(Messages) /\ c # Nobody
        BY <1>1, UnderWayFacts DEF UnderWay
  <1>10. s \o a \in Seq(Messages) /\ Longer(s, s \o a)
        BY <1>7, <1>9, CatHolds
  <1>11. run'[r] = [run[r] EXCEPT !.child = "none", !.request = s \o a]
        BY <1>2, <1>4
  <1>12. /\ run'[r] \in RunRecords /\ run'[r].of = c /\ run'[r].request = s \o a
         /\ run'[r].stage = "asked" /\ run'[r].child = "none"
         /\ run'[r].thread = run[r].thread /\ run'[r].resumed = run[r].resumed
    <2> DEFINE w == s \o a
    <2> HIDE DEF w
    <2>1. w \in Seq(Messages) /\ run'[r] = [run[r] EXCEPT !.child = "none", !.request = w]
          BY <1>10, <1>11 DEF w
    <2>2. /\ run'[r] \in RunRecords /\ run'[r].of = c /\ run'[r].request = w
          /\ run'[r].stage = "asked" /\ run'[r].child = "none"
          /\ run'[r].thread = run[r].thread /\ run'[r].resumed = run[r].resumed
          BY <1>2, <1>5, <2>1 DEF RunRecords
    <2> QED BY <2>2 DEF w
  <1>13. run' \in [Runs -> RunRecords] /\ Others(r)
        BY <1>2, <1>4, <1>11, <1>12 DEF Others
  <1>14. RunShape(run'[r], Len(threads'))
        BY <1>2, <1>5, <1>9, <1>12 DEF RunShape, AtWork
  <1>15. LastUser(s, p) /\ History(s, disk[c], c) /\ Latest(r) = s[p] /\ disk[c] \in Seq(Messages)
        BY <1>1, UnderWayFacts DEF Latest
  <1> HIDE DEF p
  <1>16. LastUser(s \o a, p) /\ (s \o a)[p] = s[p]
        BY <1>7, <1>8, <1>9, <1>15, LastUserStays
  <1>17. Max(UserAt(s \o a)) = p
        BY <1>10, <1>16, LastUserIs
  <1>18. History(s \o a, disk[c], c)
    <2> DEFINE w == s \o a
    <2>1. \A k \in 1..Len(w) : \/ k \in 1..Len(s) /\ w[k] = s[k]
                               \/ k - Len(s) \in 1..Len(a) /\ w[k] = a[k - Len(s)]
      <3>1. \A k \in 1..Len(s \o a) : \/ k \in 1..Len(s) /\ (s \o a)[k] = s[k]
                                      \/ /\ k - Len(s) \in 1..Len(a)
                                         /\ (s \o a)[k] = a[k - Len(s)]
        <4> HIDE DEF s
        <4> QED BY <1>7, <1>9, CatHolds
      <3> QED BY <3>1
    <2>2. s # <<>> /\ 1 \in 1..Len(s)
          BY <1>1, <1>9, UnderWayFacts, LenProperties
    <2>3. w[1] = s[1]
          BY <1>10, <2>2 DEF Longer
    <2> HIDE DEF w
    <2>4. w # <<>> => disk[c] # <<>> /\ w[1] = disk[c][1]
          BY <1>15, <2>2, <2>3 DEF History
    <2>5. ASSUME NEW k \in 1..Len(w)
          PROVE  /\ w[k].of = c
                 /\ Told(w[k]) => Holds(disk[c], w[k])
                 /\ IsUser(w[k]) => w[k].nth \in 1..Len(disk[c]) /\ disk[c][w[k].nth] = w[k]
          BY <2>1, <1>8, <1>15 DEF History
    <2>6. ASSUME NEW i \in 1..Len(w), NEW j \in 1..Len(w), IsUser(w[i]), IsUser(w[j]), i < j
          PROVE  w[i].nth < w[j].nth
      <3>1. i \in 1..Len(s) /\ j \in 1..Len(s) /\ w[i] = s[i] /\ w[j] = s[j]
            BY <2>1, <2>6, <1>8
      <3> QED BY <3>1, <2>6, <1>15 DEF History
    <2>7. History(w, disk[c], c)
          BY <2>4, <2>5, <2>6 DEF History
    <2> QED BY <2>7 DEF w
  <1>19. /\ a \in Seq(Messages)
         /\ \A k \in 1..Len(a) : a[k].of = run[r].of /\ ~Told(a[k]) /\ ~IsUser(a[k])
         /\ run'[r].of = run[r].of /\ run'[r].request = run[r].request \o a
         /\ run[r].stage = "asked" /\ run'[r].stage = "asked" /\ run'[r].child = "none"
         /\ Longer(run[r].request, run'[r].request)
         /\ LastUser(run'[r].request, Max(UserAt(run[r].request)))
         /\ History(run'[r].request, disk[run[r].of], run[r].of)
         /\ run'[r].request[Max(UserAt(run'[r].request))] = Latest(r)
        BY <1>5, <1>7, <1>8, <1>10, <1>12, <1>15, <1>16, <1>17, <1>18 DEF p
  <1> QED BY <1>1, <1>13, <1>14, <1>19

LEMMA RestartFacts ==
    ASSUME Histories, Restart
    PROVE  /\ run' \in [Runs -> RunRecords]
           /\ \A x \in Runs : \/ run'[x] = Free
                              \/ /\ x \in UnderWay /\ run[x].stage \in {"reading", "dropped"}
                                 /\ run'[x].stage = "dropped" /\ run'[x].child = run[x].child
                                 /\ run'[x].of = run[x].of /\ run'[x].request = run[x].request
                                 /\ run'[x].thread = run[x].thread
                                 /\ run'[x].resumed = run[x].resumed
           /\ \A x \in Runs : RunShape(run'[x], Len(threads))
           /\ memory' = [c \in Conversations |-> <<>>]
           /\ memory' \in [Conversations -> Seq(Messages)]
           /\ sessions' = [t \in Texts |-> 0]
           /\ sessions' \in [Texts -> 0..Len(threads)]
           /\ unserved' \subseteq Messages
           /\ unserved \subseteq unserved'
           /\ UNCHANGED <<frontend, disk, threads, repeated, clashed, answers>>
  <1>1. /\ run \in [Runs -> RunRecords] /\ threads \in Seq(Seq(Messages)) /\ Len(threads) \in Nat
        /\ \A x \in Runs : RunShape(run[x], Len(threads))
        /\ unserved \subseteq Messages
        BY LenProperties DEF Histories, CodexTypes
  <1>2. /\ run' = [x \in Runs |-> IF run[x].stage \in {"reading", "dropped"}
                                  THEN [run[x] EXCEPT !.stage = "dropped"] ELSE Free]
        /\ memory' = [c \in Conversations |-> <<>>]
        /\ sessions' = [t \in Texts |-> 0]
        /\ unserved' = unserved \cup {Latest(x) : x \in {s \in Runs : run[s].of # Nobody}}
        /\ UNCHANGED <<frontend, disk, threads, repeated, clashed, answers>>
        BY DEF Restart
  <1>3. ASSUME NEW x \in Runs
        PROVE  /\ run'[x] \in RunRecords
               /\ \/ run'[x] = Free
                  \/ /\ x \in UnderWay /\ run[x].stage \in {"reading", "dropped"}
                     /\ run'[x].stage = "dropped" /\ run'[x].child = run[x].child
                     /\ run'[x].of = run[x].of /\ run'[x].request = run[x].request
                     /\ run'[x].thread = run[x].thread
                     /\ run'[x].resumed = run[x].resumed
               /\ RunShape(run'[x], Len(threads))
    <2>1. CASE run[x].stage \in {"reading", "dropped"}
      <3>1. run'[x] = [run[x] EXCEPT !.stage = "dropped"] /\ run[x] \in RunRecords
            BY <1>1, <1>2, <2>1
      <3>2. x \in UnderWay
            BY <2>1, IsUnderWay
      <3>3. /\ run'[x] \in RunRecords
            /\ run'[x].stage = "dropped" /\ run'[x].child = run[x].child
            /\ run'[x].of = run[x].of /\ run'[x].request = run[x].request
            /\ run'[x].thread = run[x].thread
            /\ run'[x].resumed = run[x].resumed
            BY <3>1 DEF RunRecords
      <3>4. run[x].of # Nobody
            BY <3>2 DEF UnderWay
      <3>5. RunShape(run'[x], Len(threads))
            BY <1>1, <2>1, <3>3, <3>4 DEF RunShape, AtWork
      <3> QED BY <2>1, <3>2, <3>3, <3>5
    <2>2. CASE run[x].stage \notin {"reading", "dropped"}
      <3>1. run'[x] = Free
            BY <1>2, <2>2
      <3> QED BY <1>1, <3>1, IdleFacts
    <2> QED BY <2>1, <2>2
  <1>4. run' \in [Runs -> RunRecords]
        BY <1>2, <1>3
  <1>5. {Latest(x) : x \in {s \in Runs : run[s].of # Nobody}} \subseteq Messages
        BY UnderWayFacts DEF UnderWay
  <1>6. memory' \in [Conversations -> Seq(Messages)]
    <2>1. <<>> \in Seq(Messages)
          OBVIOUS
    <2> QED BY <1>2, <2>1
  <1>7. sessions' \in [Texts -> 0..Len(threads)]
        BY <1>1, <1>2
  <1> QED BY <1>1, <1>2, <1>3, <1>4, <1>5, <1>6, <1>7

(* What a step never takes back.                                           *)
Grows ==
    /\ \A o \in Conversations : Longer(disk[o], disk'[o])
    /\ Len(threads) <= Len(threads')
    /\ \A i \in 1..Len(threads) : Longer(threads[i], threads'[i])
    /\ unserved \subseteq unserved'
    /\ repeated \subseteq repeated'
    /\ clashed \subseteq clashed'

RunStep(r) ==
    \/ \E c \in Conversations : UserTurn(r, c)
    \/ Stream(r) \/ SpawnFails(r)
    \/ ThreadStarted(r) \/ AgentMessage(r) \/ Stall(r)
    \/ TurnFails(r) \/ ExitFails(r) \/ Exit(r)
    \/ OtherAnswers(r) \/ OtherCalls(r) \/ RunFails(r)
    \/ UserStops(r) \/ LeftEnds(r)

LEMMA NextIs == CodexNext <=> Restart \/ \E r \in Runs : RunStep(r)
  BY DEF CodexNext, RunStep

LEMMA OthersShape ==
    ASSUME Histories, NEW r \in Runs, Others(r), run' \in [Runs -> RunRecords],
           RunShape(run'[r], Len(threads')), threads' \in Seq(Seq(Messages)),
           Len(threads) <= Len(threads')
    PROVE  \A x \in Runs : RunShape(run'[x], Len(threads'))
  <1> TAKE x \in Runs
  <1>1. Len(threads) \in Nat /\ Len(threads') \in Nat /\ RunShape(run[x], Len(threads))
        BY LenProperties DEF Histories, CodexTypes
  <1>2. CASE x = r
        BY <1>2
  <1>3. CASE x # r
    <2>1. run'[x] = run[x]
          BY <1>3 DEF Others
    <2> QED BY <1>1, <2>1, ShapeGrows
  <1> QED BY <1>2, <1>3

LEMMA SameIsLonger ==
    ASSUME Histories
    PROVE  /\ disk' = disk => \A o \in Conversations : Longer(disk[o], disk'[o])
           /\ threads' = threads => /\ Len(threads) <= Len(threads')
                                    /\ \A i \in 1..Len(threads) : Longer(threads[i], threads'[i])
  <1>1. /\ disk \in [Conversations -> Seq(Messages)]
        /\ threads \in Seq(Seq(Messages)) /\ Len(threads) \in Nat
        BY LenProperties DEF Histories, CodexTypes
  <1>2. ASSUME NEW o \in Conversations PROVE Longer(disk[o], disk[o])
    <2>1. disk[o] \in Seq(Messages)
          BY <1>1
    <2> QED BY <2>1, LongerIs
  <1>3. ASSUME NEW i \in 1..Len(threads) PROVE Longer(threads[i], threads[i])
    <2>1. threads[i] \in Seq(Messages)
          BY <1>1
    <2> QED BY <2>1, LongerIs
  <1> QED BY <1>1, <1>2, <1>3

LEMMA KeptTypes ==
    ASSUME Histories, NEW r \in UnderWay,
           KeptAsIs(r) \/ \E w \in {"codex", "blank", "other"} : SettledWith(r, w)
    PROVE  /\ disk' \in [Conversations -> Seq(Messages)]
           /\ memory' \in [Conversations -> Seq(Messages)]
           /\ \A o \in Conversations : Longer(disk[o], disk'[o])
  <1>1. CASE UNCHANGED <<memory, disk>>
        BY <1>1, SameIsLonger DEF Histories, CodexTypes
  <1>2. CASE \E a : Settled(r, a)
        BY <1>2 DEF Settled
  <1> QED BY <1>1, <1>2 DEF KeptAsIs, SettledWith

LEMMA StepTypes == ASSUME Histories, CodexNext PROVE CodexTypes' /\ Grows
  <1>0. CodexTypes
        BY DEF Histories
  <1>1. CASE Restart
    <2>1. CodexTypes'
          BY <1>0, <1>1, RestartFacts DEF CodexTypes
    <2>2. Grows
          BY <1>1, RestartFacts, SameIsLonger DEF Grows
    <2> QED BY <2>1, <2>2
  <1>2. ASSUME NEW r \in Runs, RunStep(r) PROVE CodexTypes' /\ Grows
    <2> DEFINE Goal == /\ Others(r) /\ run' \in [Runs -> RunRecords]
                       /\ RunShape(run'[r], Len(threads'))
                       /\ threads' \in Seq(Seq(Messages)) /\ Len(threads) <= Len(threads')
                       /\ \A i \in 1..Len(threads) : Longer(threads[i], threads'[i])
                       /\ disk' \in [Conversations -> Seq(Messages)]
                       /\ memory' \in [Conversations -> Seq(Messages)]
                       /\ \A o \in Conversations : Longer(disk[o], disk'[o])
                       /\ sessions' \in [Texts -> 0..Len(threads')]
                       /\ unserved \subseteq unserved' /\ unserved' \subseteq Messages
                       /\ repeated \subseteq repeated'
                       /\ clashed \subseteq clashed' /\ clashed' \subseteq Conversations
                       /\ frontend' = frontend
    <2>0. r \in UnderWay => Latest(r) \in Messages
          BY UnderWayFacts
    <2>00. Len(threads) \in Nat
          BY <1>0, LenProperties DEF CodexTypes
    <2>1. CASE \E c \in Conversations : UserTurn(r, c)
      <3>1. PICK c \in Conversations : UserTurn(r, c)
            BY <2>1
      <3>2. /\ disk' \in [Conversations -> Seq(Messages)] /\ memory' \in [Conversations -> Seq(Messages)]
            /\ \A o \in Conversations : Longer(disk[o], disk'[o])
            /\ run'[r] \in RunRecords /\ run'[r].of = c /\ run'[r].stage = "asked"
            /\ run'[r].child = "none" /\ run'[r].resumed = 0
            /\ Others(r) /\ run' \in [Runs -> RunRecords]
            BY <3>1, TurnFacts
      <3>3. UNCHANGED <<frontend, threads, sessions, unserved, repeated>> /\
            clashed' \in {clashed, clashed \cup {c}}
            BY <3>1 DEF UserTurn
      <3>4. RunShape(run'[r], Len(threads'))
            BY <3>2, <3>3, <2>00, CodexAssumption DEF RunShape, AtWork
      <3>5. Goal
            BY <1>0, <3>2, <3>3, <3>4, SameIsLonger DEF CodexTypes
      <3> QED BY <3>5, <1>0, OthersShape DEF CodexTypes, Grows
    <2>2. CASE Stream(r)
      <3>1. UNCHANGED <<frontend, memory, disk, sessions, threads, journal>>
            BY <2>2 DEF Stream
      <3>2. Goal
            BY <1>0, <2>2, <3>1, StreamFacts, SameIsLonger DEF CodexTypes, GoesOn, Others, journal
      <3> QED BY <3>2, <1>0, OthersShape DEF CodexTypes, Grows
    <2>3. CASE SpawnFails(r) \/ TurnFails(r) \/ ExitFails(r)
      <3>1. Goal
            BY <1>0, <2>3, <2>0, FailureFacts, SameIsLonger DEF CodexTypes, GoesOn, Others
      <3> QED BY <3>1, <1>0, OthersShape DEF CodexTypes, Grows
    <2>4. CASE ThreadStarted(r)
      <3>1. UNCHANGED <<frontend, memory, disk, sessions, journal>>
            BY <2>4 DEF ThreadStarted
      <3>2. Len(threads) <= Len(threads') /\ Len(threads') \in Nat
        <4>1. Len(threads') = Len(threads) \/ Len(threads') = Len(threads) + 1
              BY <2>4, StartFacts
        <4> QED BY <4>1, <2>00
      <3>3. sessions' \in [Texts -> 0..Len(threads')]
            BY <1>0, <2>00, <3>1, <3>2 DEF CodexTypes
      <3>4. Goal
            BY <1>0, <2>4, <3>1, <3>2, <3>3, StartFacts, SameIsLonger DEF CodexTypes, GoesOn, Others, journal
      <3> QED BY <3>4, <1>0, OthersShape DEF CodexTypes, Grows
    <2>5. CASE AgentMessage(r)
      <3>1. UNCHANGED <<frontend, memory, disk, sessions, journal>>
            BY <2>5 DEF AgentMessage
      <3>2. Goal
            BY <1>0, <2>00, <2>5, <3>1, MessageFacts, SameIsLonger DEF CodexTypes, GoesOn, Others, journal
      <3> QED BY <3>2, <1>0, OthersShape DEF CodexTypes, Grows
    <2>6. CASE Stall(r)
      <3>1. UNCHANGED <<frontend, memory, disk, sessions, threads, journal>>
            BY <2>6 DEF Stall
      <3>2. Goal
            BY <1>0, <2>6, <3>1, StallFacts, SameIsLonger DEF CodexTypes, GoesOn, Others, journal
      <3> QED BY <3>2, <1>0, OthersShape DEF CodexTypes, Grows
    <2>7. CASE Exit(r)
      <3>1. UNCHANGED <<frontend, threads, unserved, repeated, clashed>>
            BY <2>7 DEF Exit
      <3>2. \E w \in {"codex", "blank", "other"} : SettledWith(r, w)
            BY <2>7, ExitFacts
      <3>3. /\ disk' \in [Conversations -> Seq(Messages)]
            /\ memory' \in [Conversations -> Seq(Messages)]
            /\ \A o \in Conversations : Longer(disk[o], disk'[o])
            BY <2>7, <3>2, ExitFacts, KeptTypes
      <3>4. Goal
            BY <1>0, <2>00, <2>7, <3>1, <3>3, ExitFacts, IdleFacts, SameIsLonger DEF CodexTypes
      <3> QED BY <3>4, <1>0, OthersShape DEF CodexTypes, Grows
    <2>8. CASE OtherAnswers(r)
      <3>1. /\ UNCHANGED <<frontend, sessions, threads, repeated, clashed>>
            /\ unserved' = unserved \cup {Latest(r)}
            BY <2>8 DEF OtherAnswers
      <3>2. /\ disk' \in [Conversations -> Seq(Messages)]
            /\ memory' \in [Conversations -> Seq(Messages)]
            /\ \A o \in Conversations : Longer(disk[o], disk'[o])
            BY <2>8, OtherFacts, KeptTypes
      <3>3. Goal
            BY <1>0, <2>0, <2>00, <2>8, <3>1, <3>2, OtherFacts, IdleFacts, SameIsLonger DEF CodexTypes
      <3> QED BY <3>3, <1>0, OthersShape DEF CodexTypes, Grows
    <2>9. CASE OtherCalls(r)
      <3>1. /\ UNCHANGED <<frontend, memory, disk, sessions, threads, unserved, clashed>>
            /\ repeated' = repeated \cup {Latest(r)}
            BY <2>9 DEF OtherCalls
      <3>2. Others(r) /\ run' \in [Runs -> RunRecords] /\ RunShape(run'[r], Len(threads'))
            BY <2>9, CallsFacts
      <3>3. Goal
            BY <1>0, <3>1, <3>2, SameIsLonger DEF CodexTypes
      <3> QED BY <3>3, <1>0, OthersShape DEF CodexTypes, Grows
    <2>10. CASE RunFails(r) \/ LeftEnds(r)
      <3>1. UNCHANGED <<frontend, sessions, threads, bounds, journal>>
            BY <2>10, EndFacts
      <3>2. /\ disk' \in [Conversations -> Seq(Messages)]
            /\ memory' \in [Conversations -> Seq(Messages)]
            /\ \A o \in Conversations : Longer(disk[o], disk'[o])
            BY <2>10, EndFacts, KeptTypes
      <3>3. Goal
            BY <1>0, <2>00, <2>10, <3>1, <3>2, EndFacts, IdleFacts, SameIsLonger DEF CodexTypes, journal
      <3> QED BY <3>3, <1>0, OthersShape DEF CodexTypes, Grows
    <2>11. CASE UserStops(r)
      <3>1. UNCHANGED <<frontend, sessions, threads, repeated, clashed>>
            BY <2>11 DEF UserStops
      <3>2. /\ disk' \in [Conversations -> Seq(Messages)]
            /\ memory' \in [Conversations -> Seq(Messages)]
            /\ \A o \in Conversations : Longer(disk[o], disk'[o])
            BY <2>11, InterruptFacts, KeptTypes
      <3>3. Goal
            BY <1>0, <2>0, <2>11, <3>1, <3>2, InterruptFacts, SameIsLonger DEF CodexTypes, GoesOn, Others
      <3> QED BY <3>3, <1>0, OthersShape DEF CodexTypes, Grows
    <2> QED BY <1>2, <2>1, <2>2, <2>3, <2>4, <2>5, <2>6, <2>7, <2>8, <2>9, <2>10, <2>11 DEF RunStep
  <1> QED BY <1>1, <1>2, NextIs

\* what was said stays where it is on disk
LEMMA DiskGrows ==
    ASSUME Histories, CodexTypes', Grows, NEW c \in Conversations
    PROVE  /\ disk[c] \in Seq(Messages) /\ disk'[c] \in Seq(Messages)
           /\ Longer(disk[c], disk'[c])
           /\ \A s \in Seq(Messages) : History(s, disk[c], c) => History(s, disk'[c], c)
           /\ disk[c] # <<>> => /\ disk'[c] # <<>>
                                /\ disk'[c][1] = disk[c][1]
                                /\ disk'[c][1].text = OpenedWith(c)
           /\ \A m : Holds(disk[c], m) => Holds(disk'[c], m)
  <1>1. /\ disk[c] \in Seq(Messages) /\ disk'[c] \in Seq(Messages)
        /\ Longer(disk[c], disk'[c])
        BY DEF Histories, CodexTypes, Grows
  <1>2. \A s \in Seq(Messages) : History(s, disk[c], c) => History(s, disk'[c], c)
        BY <1>1, HistoryGrows
  <1>3. disk[c] # <<>> => disk'[c] # <<>> /\ disk'[c][1] = disk[c][1]
        BY <1>1, LongerHolds
  <1>4. \A m : Holds(disk[c], m) => Holds(disk'[c], m)
        BY <1>1, LongerHolds
  <1> QED BY <1>1, <1>2, <1>3, <1>4 DEF OpenedWith

(* The conversations in memory and on disk.                                *)
LEMMA StoredKept == ASSUME Histories, CodexNext, CodexTypes', Grows PROVE Stored'
  <1> SUFFICES ASSUME NEW c \in Conversations
               PROVE  /\ History(disk'[c], disk'[c], c)
                      /\ History(memory'[c], disk'[c], c)
                      /\ disk'[c] # <<>> => IsUser(disk'[c][1]) /\ disk'[c][1].text \in Texts
      BY DEF Stored
  <1>1. /\ History(disk[c], disk[c], c) /\ History(memory[c], disk[c], c)
        /\ memory[c] \in Seq(Messages)
        /\ disk[c] # <<>> => IsUser(disk[c][1]) /\ disk[c][1].text \in Texts
        BY DEF Histories, Stored, CodexTypes
  <1>2. disk[c] # <<>> => IsUser(disk'[c][1]) /\ disk'[c][1].text \in Texts
        BY <1>1, DiskGrows
  <1>3. CASE UNCHANGED <<memory, disk>>
        BY <1>1, <1>3
  <1>4. CASE Restart
    <2>1. disk' = disk /\ memory'[c] = <<>>
          BY <1>4, RestartFacts
    <2>2. History(memory'[c], disk'[c], c)
          BY <2>1 DEF History
    <2> QED BY <1>1, <2>1, <2>2
  <1>5. ASSUME NEW r \in Runs, NEW o \in Conversations, UserTurn(r, o)
        PROVE  /\ History(disk'[c], disk'[c], c)
               /\ History(memory'[c], disk'[c], c)
               /\ disk'[c] # <<>> => IsUser(disk'[c][1]) /\ disk'[c][1].text \in Texts
    <2>1. PICK said \in Messages :
           /\ IsUser(said)
           /\ disk' = [disk EXCEPT ![o] = Append(disk[o], said)]
           /\ memory'[o] \in {run'[r].request, <<>>}
           /\ \A x \in Conversations \ {o} : disk'[x] = disk[x] /\ memory'[x] = memory[x]
           /\ Found(o) = <<>> => disk[o] = <<>> /\ said.text \in Texts
           /\ History(Found(o), disk[o], o)
           /\ History(run'[r].request, disk'[o], o)
           /\ History(disk'[o], disk'[o], o)
          BY <1>5, TurnFacts
    <2>2. CASE c # o
          BY <1>1, <2>1, <2>2
    <2>3. CASE c = o
      <3>1. History(memory'[c], disk'[c], c)
        <4>1. CASE memory'[c] = run'[r].request
              BY <2>1, <2>3, <4>1
        <4>2. CASE memory'[c] = <<>>
              BY <4>2 DEF History
        <4> QED BY <2>1, <2>3, <4>1, <4>2
      <3>2. CASE disk[c] = <<>>
        <4>1. Found(o) = <<>>
              BY <3>2, <2>1, <2>3 DEF History
        <4>2. disk'[c] = <<said>>
              BY <2>1, <2>3, <3>2 DEF Histories, CodexTypes
        <4>3. disk'[c][1] = said
              BY <4>2
        <4> QED BY <2>1, <2>3, <3>1, <4>1, <4>3
      <3> QED BY <1>2, <2>1, <2>3, <3>1, <3>2
    <2> QED BY <2>2, <2>3
  <1>6. ASSUME NEW r \in UnderWay, NEW a, Settled(r, a)
        PROVE  /\ History(disk'[c], disk'[c], c)
               /\ History(memory'[c], disk'[c], c)
               /\ disk'[c] # <<>> => IsUser(disk'[c][1]) /\ disk'[c][1].text \in Texts
    <2>1. CASE c = run[r].of
      <3>1. disk[c] # <<>>
            BY <2>1, UnderWayFacts
      <3> QED BY <1>2, <1>6, <2>1, <3>1 DEF Settled
    <2>2. CASE c # run[r].of
          BY <1>1, <1>6, <2>2 DEF Settled
    <2> QED BY <2>1, <2>2
  <1>7. ASSUME NEW r \in Runs, RunStep(r)
        PROVE  \/ UNCHANGED <<memory, disk>>
               \/ \E o \in Conversations : UserTurn(r, o)
               \/ r \in UnderWay /\ \E a : Settled(r, a)
    <2>1. CASE Exit(r)
          BY <2>1, ExitFacts DEF SettledWith
    <2>2. CASE OtherAnswers(r)
          BY <2>2, OtherFacts DEF SettledWith
    <2>3. CASE RunFails(r) \/ LeftEnds(r)
          BY <2>3, EndFacts DEF KeptAsIs
    <2>4. CASE UserStops(r)
          BY <2>4, InterruptFacts DEF KeptAsIs
    <2> QED BY <1>7, <2>1, <2>2, <2>3, <2>4 DEF RunStep, Stream, SpawnFails, ThreadStarted,
               AgentMessage, Stall, TurnFails, ExitFails, OtherCalls
  <1> QED BY <1>3, <1>4, <1>5, <1>6, <1>7, NextIs

(* How a step may change the requests.                                     *)
LEMMA RequestStep ==
    ASSUME Histories, CodexNext, CodexTypes', NEW x \in Runs, run'[x].of # Nobody
    PROVE  \/ x \in UnderWay /\ run'[x].of = run[x].of /\ run'[x].request = run[x].request
           \/ OtherCalls(x)
           \/ \E c \in Conversations : UserTurn(x, c)
  <1>1. CASE Restart
    <2>1. run'[x] # Free
          BY IdleFacts DEF Free
    <2> QED BY <1>1, <2>1, RestartFacts
  <1>2. ASSUME NEW r \in Runs, RunStep(r), x # r
        PROVE  x \in UnderWay /\ run'[x].of = run[x].of /\ run'[x].request = run[x].request
    <2>1. Others(r)
      <3>1. CASE \E c \in Conversations : UserTurn(r, c)
            BY <3>1, TurnFacts
      <3>2. CASE OtherCalls(r)
            BY <3>2, CallsFacts
      <3>3. CASE Exit(r) \/ OtherAnswers(r) \/ RunFails(r) \/ LeftEnds(r)
            BY <3>3, ExitFacts, OtherFacts, EndFacts
      <3>4. CASE Stream(r) \/ SpawnFails(r) \/ TurnFails(r) \/ ExitFails(r) \/ ThreadStarted(r)
                 \/ AgentMessage(r) \/ Stall(r) \/ UserStops(r)
            BY <3>4, StreamFacts, FailureFacts, StartFacts, MessageFacts, StallFacts,
               InterruptFacts DEF GoesOn, Others
      <3> QED BY <1>2, <3>1, <3>2, <3>3, <3>4 DEF RunStep
    <2>2. run'[x] = run[x]
          BY <1>2, <2>1 DEF Others
    <2> QED BY <2>2 DEF UnderWay
  <1>3. CASE RunStep(x)
    <2>1. CASE Exit(x) \/ OtherAnswers(x) \/ RunFails(x) \/ LeftEnds(x)
      <3>1. run'[x] = Free
            BY <2>1, ExitFacts, OtherFacts, EndFacts
      <3> QED BY <3>1 DEF Free
    <2>2. CASE Stream(x) \/ SpawnFails(x) \/ TurnFails(x) \/ ExitFails(x) \/ ThreadStarted(x)
               \/ AgentMessage(x) \/ Stall(x) \/ UserStops(x)
          BY <2>2, StreamFacts, FailureFacts, StartFacts, MessageFacts, StallFacts,
             InterruptFacts DEF GoesOn
    <2> QED BY <1>3, <2>1, <2>2 DEF RunStep
  <1> QED BY <1>1, <1>2, <1>3, NextIs

LEMMA RequestedKept == ASSUME Histories, CodexNext, CodexTypes', Grows PROVE Requested'
  <1> SUFFICES ASSUME NEW x \in Runs, run'[x].of # Nobody
               PROVE  /\ History(run'[x].request, disk'[run'[x].of], run'[x].of)
                      /\ \E p \in UserAt(run'[x].request) : LastUser(run'[x].request, p)
      BY DEF Requested, UnderWay
  <1>1. CASE x \in UnderWay /\ run'[x].of = run[x].of /\ run'[x].request = run[x].request
    <2>1. /\ History(run[x].request, disk[run[x].of], run[x].of)
          /\ run[x].request \in Seq(Messages) /\ run[x].of \in Conversations
          BY <1>1, UnderWayFacts
    <2>2. History(run[x].request, disk'[run[x].of], run[x].of)
          BY <2>1, DiskGrows
    <2> QED BY <1>1, <2>2 DEF Histories, Requested
  <1>2. CASE OtherCalls(x)
    <2>1. /\ run'[x].of = run[x].of /\ LastUser(run'[x].request, Max(UserAt(run[x].request)))
          /\ History(run'[x].request, disk[run[x].of], run[x].of)
          BY <1>2, CallsFacts
    <2>2. disk' = disk
          BY <1>2 DEF OtherCalls
    <2> QED BY <2>1, <2>2 DEF LastUser
  <1>3. ASSUME NEW c \in Conversations, UserTurn(x, c)
        PROVE  /\ History(run'[x].request, disk'[run'[x].of], run'[x].of)
               /\ \E p \in UserAt(run'[x].request) : LastUser(run'[x].request, p)
    <2>1. /\ run'[x].of = c /\ LastUser(run'[x].request, Len(Found(c)) + 1)
          /\ History(run'[x].request, disk'[c], c)
          BY <1>3, TurnFacts
    <2> QED BY <2>1 DEF LastUser
  <1> QED BY <1>1, <1>2, <1>3, RequestStep

(* A user message Codex has heard is one of its conversation.              *)
LEMMA OverheardKept == ASSUME Histories, CodexNext, CodexTypes', Grows PROVE Overheard'
  <1> DEFINE OnDisk(m) == /\ m.nth \in 1..Len(disk[m.of])
                          /\ disk[m.of][m.nth] = m
             OnDiskNow(m) == /\ m.nth \in 1..Len(disk'[m.of])
                             /\ disk'[m.of][m.nth] = m
  <1>1. /\ threads \in Seq(Seq(Messages)) /\ Len(threads) \in Nat
        /\ threads' \in Seq(Seq(Messages)) /\ Len(threads') \in Nat
        BY LenProperties DEF Histories, CodexTypes
  <1>2. ASSUME NEW m \in Messages, OnDisk(m) PROVE OnDiskNow(m)
    <2>1. m.of \in Conversations
          BY DEF Messages
    <2>2. Longer(disk[m.of], disk'[m.of]) /\ Len(disk[m.of]) \in Nat /\ Len(disk'[m.of]) \in Nat
          BY <2>1, DiskGrows, LenProperties
    <2> QED BY <1>2, <2>2 DEF Longer
  <1>3. ASSUME NEW i \in 1..Len(threads), NEW k \in 1..Len(threads[i]), IsUser(threads[i][k])
        PROVE  OnDiskNow(threads[i][k])
    <2>1. threads[i][k] \in Messages
          BY <1>1
    <2>2. OnDisk(threads[i][k])
          BY <1>3 DEF Histories, Overheard
    <2> QED BY <2>1, <2>2, <1>2
  <1>4. ASSUME NEW r \in UnderWay
        PROVE  /\ OnDiskNow(Latest(r))
               /\ \A k \in 1..Len(run[r].request) : IsUser(run[r].request[k]) =>
                    OnDiskNow(run[r].request[k])
    <2>1. OnDisk(Latest(r)) /\ Latest(r) \in Messages
          BY UnderWayFacts
    <2>2. ASSUME NEW k \in 1..Len(run[r].request), IsUser(run[r].request[k])
          PROVE  OnDiskNow(run[r].request[k])
      <3>1. run[r].request[k] \in Messages /\ History(run[r].request, disk[run[r].of], run[r].of)
            BY UnderWayFacts
      <3>2. OnDisk(run[r].request[k])
            BY <2>2, <3>1 DEF History
      <3> QED BY <1>2, <3>1, <3>2
    <2> QED BY <1>2, <2>1, <2>2
  <1> HIDE DEF OnDisk, OnDiskNow
  <1>5. \A i \in 1..Len(threads') : \A k \in 1..Len(threads'[i]) :
            IsUser(threads'[i][k]) => OnDiskNow(threads'[i][k])
    <2>1. CASE threads' = threads
          BY <1>3, <2>1
    <2>2. ASSUME NEW r \in Runs, ThreadStarted(r), NEW i \in 1..Len(threads'),
                 NEW k \in 1..Len(threads'[i]), IsUser(threads'[i][k])
          PROVE  OnDiskNow(threads'[i][k])
      <3>1. r \in UnderWay
            BY <2>2, StartFacts
      <3>2. CASE i \in 1..Len(threads) /\ threads'[i] = threads[i]
            BY <1>3, <2>2, <3>2
      <3>3. CASE i \in 1..Len(threads) /\ threads'[i] = threads[i] \o <<Latest(r)>>
        <4> DEFINE t == <<Latest(r)>>
        <4>1. t \in Seq(Messages) /\ threads[i] \in Seq(Messages) /\ Len(t) = 1 /\ t[1] = Latest(r)
              BY <1>1, <3>1, <3>3, UnderWayFacts
        <4> HIDE DEF t
        <4>2. \A j \in 1..Len(threads[i] \o t) : \/ j \in 1..Len(threads[i]) /\ (threads[i] \o t)[j] = threads[i][j]
                                                 \/ /\ j - Len(threads[i]) \in 1..Len(t)
                                                    /\ (threads[i] \o t)[j] = t[j - Len(threads[i])]
              BY <4>1, CatHolds
        <4>3. threads'[i] = threads[i] \o t
              BY <3>3 DEF t
        <4>4. \/ k \in 1..Len(threads[i]) /\ threads'[i][k] = threads[i][k]
              \/ threads'[i][k] = Latest(r)
              BY <4>1, <4>2, <4>3
        <4> QED BY <1>3, <1>4, <2>2, <3>1, <3>3, <4>4
      <3>4. CASE threads'[i] = run[r].request
            BY <1>4, <2>2, <3>1, <3>4
      <3>5. CASE run[r].resumed \in 1..Len(threads)
        <4>1. /\ Len(threads') = Len(threads)
              /\ threads'[run[r].resumed] = threads[run[r].resumed] \o <<Latest(r)>>
              /\ \A j \in 1..Len(threads) : j # run[r].resumed => threads'[j] = threads[j]
              BY <2>2, <3>5, StartFacts
        <4> QED BY <2>2, <3>2, <3>3, <4>1
      <3>6. CASE run[r].resumed = 0
        <4>1. /\ Len(threads') = Len(threads) + 1
              /\ threads'[Len(threads) + 1] = run[r].request
              /\ \A j \in 1..Len(threads) : threads'[j] = threads[j]
          <5>1. \/ run[r].resumed \in 1..Len(threads)
                \/ /\ Len(threads') = Len(threads) + 1
                   /\ threads'[Len(threads) + 1] = run[r].request
                   /\ \A j \in 1..Len(threads) : threads'[j] = threads[j]
                BY <2>2, StartFacts
          <5>2. run[r].resumed \notin 1..Len(threads)
                BY <1>1, <3>6
          <5> QED BY <5>1, <5>2
        <4>2. i \in 1..Len(threads) \/ i = Len(threads) + 1
              BY <1>1, <2>2, <4>1
        <4> QED BY <3>2, <3>4, <4>1, <4>2
      <3>7. run[r].resumed \in 1..Len(threads) \/ run[r].resumed = 0
        <4>1. RunShape(run[r], Len(threads))
              BY <3>1, UnderWayFacts
        <4>2. run[r].resumed \in 0..Len(threads)
              BY <4>1 DEF RunShape
        <4>3. Len(threads) \in Nat
              BY <1>1
        <4> QED BY <4>2, <4>3
      <3> QED BY <3>5, <3>6, <3>7
    <2>3. ASSUME NEW r \in Runs, AgentMessage(r), NEW i \in 1..Len(threads'),
                 NEW k \in 1..Len(threads'[i]), IsUser(threads'[i][k])
          PROVE  OnDiskNow(threads'[i][k])
      <3>1. r \in UnderWay /\ i \in 1..Len(threads)
            BY <2>3, MessageFacts
      <3>2. CASE threads'[i] = threads[i]
            BY <1>3, <2>3, <3>1, <3>2
      <3>3. CASE threads'[i] = Append(threads[i], ReplyTo(r, "codex"))
        <4> DEFINE m == ReplyTo(r, "codex")
        <4>1. m \in Messages /\ ~IsUser(m) /\ threads[i] \in Seq(Messages)
              BY <1>1, <3>1, UnderWayFacts DEF IsUser
        <4> HIDE DEF m
        <4>2. threads'[i] = Append(threads[i], m)
              BY <3>3 DEF m
        <4>3. k \in 1..Len(threads[i]) /\ threads'[i][k] = threads[i][k]
              BY <2>3, <4>1, <4>2, AppendHolds
        <4> QED BY <1>3, <2>3, <3>1, <4>3
      <3> QED BY <2>3, <3>1, <3>2, <3>3, MessageFacts
    <2>4. threads' = threads \/ \E r \in Runs : ThreadStarted(r) \/ AgentMessage(r)
          BY DEF CodexNext, Restart, UserTurn, Stream, SpawnFails, Stall, TurnFails, ExitFails,
             Exit, OtherAnswers, OtherCalls, RunFails, UserStops, LeftEnds
    <2> QED BY <2>1, <2>2, <2>3, <2>4
  <1> QED BY <1>5 DEF Overheard, OnDiskNow

LEMMA HistoriesKept == ASSUME Histories, CodexNext PROVE Histories' /\ Grows
  <1>1. CodexTypes' /\ Grows
        BY StepTypes
  <1>2. Stored' /\ Requested' /\ Overheard'
        BY <1>1, StoredKept, RequestedKept, OverheardKept
  <1> QED BY <1>1, <1>2 DEF Histories

-----------------------------------------------------------------------------
(* Threads and the conversations they are of.                              *)

(* Which runs a step makes refer to a thread there is.                     *)
LEMMA ReferenceStep ==
    ASSUME Histories, CodexNext, CodexTypes', NEW x \in Runs, run'[x].of # Nobody,
           NEW i \in 1..Len(threads), Refers(run'[x], i)
    PROVE  /\ x \in UnderWay /\ run'[x].of = run[x].of
           /\ Refers(run[x], i) \/ sessions[OpenedWith(run[x].of)] = i
  <1>0. Len(threads) \in Nat
        BY LenProperties DEF Histories, CodexTypes
  <1>1. CASE Restart
    <2>1. run'[x] # Free
          BY IdleFacts DEF Free
    <2> QED BY <1>1, <2>1, RestartFacts DEF Refers, AtWork
  <1>2. ASSUME NEW r \in Runs, RunStep(r), run'[x] = run[x]
        PROVE  x \in UnderWay /\ run'[x].of = run[x].of /\ Refers(run[x], i)
        BY <1>2 DEF UnderWay
  <1>3. ASSUME NEW r \in Runs, RunStep(r), x # r
        PROVE  run'[x] = run[x]
    <2>1. CASE \E c \in Conversations : UserTurn(r, c)
          BY <1>3, <2>1, TurnFacts DEF Others
    <2>2. CASE OtherCalls(r)
          BY <1>3, <2>2, CallsFacts DEF Others
    <2>3. CASE Exit(r) \/ OtherAnswers(r) \/ RunFails(r) \/ LeftEnds(r)
          BY <1>3, <2>3, ExitFacts, OtherFacts, EndFacts DEF Others
    <2>4. CASE Stream(r) \/ SpawnFails(r) \/ TurnFails(r) \/ ExitFails(r) \/ ThreadStarted(r)
               \/ AgentMessage(r) \/ Stall(r) \/ UserStops(r)
      <3>1. GoesOn(r)
            BY <2>4, StreamFacts, FailureFacts, StartFacts, MessageFacts, StallFacts,
               InterruptFacts
      <3> QED BY <1>3, <3>1 DEF GoesOn
    <2> QED BY <1>3, <2>1, <2>2, <2>3, <2>4 DEF RunStep
  <1>4. CASE RunStep(x)
    <2>1. ~Exit(x) /\ ~OtherAnswers(x) /\ ~RunFails(x) /\ ~LeftEnds(x)
      <3>1. run'[x] # Free
            BY DEF Free
      <3> QED BY <3>1, ExitFacts, OtherFacts, EndFacts
    <2>2. CASE Stream(x)
          BY <2>2, StreamFacts DEF Refers, AtWork, GoesOn
    <2>3. CASE SpawnFails(x) \/ TurnFails(x) \/ ExitFails(x)
          BY <2>3, FailureFacts DEF Refers, AtWork
    <2>4. CASE ThreadStarted(x)
      <3>1. /\ x \in UnderWay /\ run'[x].of = run[x].of /\ run[x].child = "starting"
            /\ run'[x].resumed = run[x].resumed
            /\ run'[x].thread = run[x].resumed \/ run'[x].thread = Len(threads) + 1
            BY <2>4, StartFacts DEF GoesOn
      <3>2. run[x].resumed = i
            BY <1>0, <3>1 DEF Refers
      <3> QED BY <3>1, <3>2 DEF Refers
    <2>5. CASE AgentMessage(x)
          BY <2>5, MessageFacts DEF Refers, AtWork, GoesOn
    <2>6. CASE Stall(x)
          BY <2>6, StallFacts DEF Refers, AtWork, GoesOn
    <2>7. CASE UserStops(x)
          BY <2>7, InterruptFacts DEF Refers, AtWork, GoesOn
    <2>8. CASE OtherCalls(x)
      <3>1. run'[x].child = "none"
            BY <2>8, CallsFacts
      <3> QED BY <3>1 DEF Refers, AtWork
    <2>9. CASE \E c \in Conversations : UserTurn(x, c)
      <3>1. run'[x].child = "none"
            BY <2>9, TurnFacts
      <3> QED BY <3>1 DEF Refers, AtWork
    <2> QED BY <1>4, <2>1, <2>2, <2>3, <2>4, <2>5, <2>6, <2>7, <2>8, <2>9 DEF RunStep
  <1> QED BY <1>1, <1>2, <1>3, <1>4, NextIs

(* What a step adds to the threads.                                        *)
LEMMA ThreadStep ==
    ASSUME Histories, CodexNext
    PROVE  \/ threads' = threads
           \/ \E r \in Runs :
                /\ ThreadStarted(r) /\ run[r].resumed \in 1..Len(threads)
                /\ Len(threads') = Len(threads)
                /\ threads'[run[r].resumed] = Append(threads[run[r].resumed], Latest(r))
                /\ \A i \in 1..Len(threads) : i # run[r].resumed => threads'[i] = threads[i]
           \/ \E r \in Runs :
                /\ ThreadStarted(r) /\ run[r].resumed = 0
                /\ Len(threads') = Len(threads) + 1
                /\ threads'[Len(threads) + 1] = run[r].request
                /\ \A i \in 1..Len(threads) : threads'[i] = threads[i]
           \/ \E r \in Runs :
                /\ AgentMessage(r) /\ run[r].thread \in 1..Len(threads)
                /\ Len(threads') = Len(threads)
                /\ threads'[run[r].thread] = Append(threads[run[r].thread], ReplyTo(r, "codex"))
                /\ \A i \in 1..Len(threads) : i # run[r].thread => threads'[i] = threads[i]
  <1>0. threads \in Seq(Seq(Messages)) /\ Len(threads) \in Nat
        BY LenProperties DEF Histories, CodexTypes
  <1>1. threads' = threads \/ \E r \in Runs : ThreadStarted(r) \/ AgentMessage(r)
        BY DEF CodexNext, Restart, UserTurn, Stream, SpawnFails, Stall, TurnFails, ExitFails,
           Exit, OtherAnswers, OtherCalls, RunFails, UserStops, LeftEnds
  <1>2. ASSUME NEW r \in Runs, ThreadStarted(r)
        PROVE  \/ /\ run[r].resumed \in 1..Len(threads)
                  /\ Len(threads') = Len(threads)
                  /\ threads'[run[r].resumed] = Append(threads[run[r].resumed], Latest(r))
                  /\ \A i \in 1..Len(threads) : i # run[r].resumed => threads'[i] = threads[i]
               \/ /\ run[r].resumed = 0
                  /\ Len(threads') = Len(threads) + 1
                  /\ threads'[Len(threads) + 1] = run[r].request
                  /\ \A i \in 1..Len(threads) : threads'[i] = threads[i]
    <2>1. r \in UnderWay
          BY <1>2, StartFacts
    <2>2. Latest(r) \in Messages
          BY <2>1, UnderWayFacts
    <2>3. run[r].resumed \in 1..Len(threads) =>
            threads[run[r].resumed] \o <<Latest(r)>> = Append(threads[run[r].resumed], Latest(r))
      <3>1. \A s \in Seq(Messages), m \in Messages : s \o <<m>> = Append(s, m)
            BY AppendIsConcat
      <3>2. run[r].resumed \in 1..Len(threads) => threads[run[r].resumed] \in Seq(Messages)
            BY <1>0
      <3> QED BY <2>2, <3>1, <3>2
    <2> QED BY <1>2, <2>3, StartFacts
  <1>3. ASSUME NEW r \in Runs, AgentMessage(r)
        PROVE  /\ run[r].thread \in 1..Len(threads)
               /\ Len(threads') = Len(threads)
               /\ threads'[run[r].thread] = Append(threads[run[r].thread], ReplyTo(r, "codex"))
               /\ \A i \in 1..Len(threads) : i # run[r].thread => threads'[i] = threads[i]
        BY <1>3, MessageFacts
  <1> QED BY <1>1, <1>2, <1>3

(* What a step changes in the map of a client.                             *)
LEMMA SessionStep ==
    ASSUME Histories, CodexNext
    PROVE  \/ sessions' = sessions
           \/ sessions' = [t \in Texts |-> 0] /\ Restart
           \/ \E r \in UnderWay :
                /\ Exit(r) /\ run[r].resumed = 0 /\ AtWork(run[r])
                /\ sessions' = [sessions EXCEPT ![OpenedWith(run[r].of)] = run[r].thread]
                /\ OpenedWith(run[r].of) \in Texts
  <1>1. \/ sessions' = sessions
        \/ sessions' = [t \in Texts |-> 0] /\ Restart
        \/ \E r \in Runs : Exit(r)
        BY DEF CodexNext, Restart, UserTurn, Stream, SpawnFails, Stall, TurnFails, ExitFails,
           ThreadStarted, AgentMessage, OtherAnswers, OtherCalls, RunFails, UserStops, LeftEnds
  <1>2. ASSUME NEW r \in Runs, Exit(r)
        PROVE  /\ r \in UnderWay /\ AtWork(run[r])
               /\ OpenedWith(run[r].of) \in Texts
               /\ \/ sessions' = sessions
                  \/ /\ run[r].resumed = 0
                     /\ sessions' = [sessions EXCEPT ![OpenedWith(run[r].of)] = run[r].thread]
    <2>1. r \in UnderWay
          BY <1>2, ExitFacts
    <2> QED BY <1>2, <2>1, ExitFacts, UnderWayFacts
  <1> QED BY <1>1, <1>2

LEMMA OpenAlikeKept ==
    ASSUME Histories, ThreadsOpenAlike, CodexNext, CodexTypes', Grows
    PROVE  ThreadsOpenAlike'
  <1>0. /\ threads \in Seq(Seq(Messages)) /\ Len(threads) \in Nat
        /\ threads' \in Seq(Seq(Messages)) /\ Len(threads') \in Nat
        /\ sessions \in [Texts -> 0..Len(threads)]
        BY LenProperties DEF Histories, CodexTypes
  <1>1. ASSUME NEW x \in UnderWay
        PROVE  /\ run[x].of \in Conversations
               /\ disk'[run[x].of] # <<>> /\ disk'[run[x].of][1].text = OpenedWith(run[x].of)
               /\ OpenedWith(run[x].of) \in Texts
    <2>1. run[x].of \in Conversations /\ disk[run[x].of] # <<>> /\ OpenedWith(run[x].of) \in Texts
          BY UnderWayFacts
    <2> QED BY <2>1, DiskGrows
  <1>2. ASSUME NEW i \in 1..Len(threads), NEW t \in Texts, OpenAlike(i, t)
        PROVE  OpenAlike(i, t)'
    <2>1. ASSUME NEW k \in 1..Len(threads[i])
          PROVE  disk'[threads[i][k].of] # <<>> /\ disk'[threads[i][k].of][1].text = t
      <3>1. threads[i][k].of \in Conversations
        <4>1. threads[i][k] \in Messages
              BY <1>0
        <4> QED BY <4>1 DEF Messages
      <3>2. disk[threads[i][k].of] # <<>> /\ OpenedWith(threads[i][k].of) = t
            BY <1>2 DEF OpenAlike
      <3> QED BY <3>1, <3>2, DiskGrows
    <2>2. ASSUME NEW r \in UnderWay, Refers(run[r], i), NEW m \in Messages, m.of = run[r].of,
                 threads'[i] = Append(threads[i], m)
          PROVE  \A k \in 1..Len(threads'[i]) :
                    disk'[threads'[i][k].of] # <<>> /\ disk'[threads'[i][k].of][1].text = t
      <3>1. OpenedWith(m.of) = t
            BY <1>2, <2>2 DEF OpenAlike
      <3>2. \A k \in 1..Len(threads'[i]) :
                \/ k \in 1..Len(threads[i]) /\ threads'[i][k] = threads[i][k]
                \/ threads'[i][k] = m
        <4>1. threads[i] \in Seq(Messages)
              BY <1>0
        <4> QED BY <2>2, <4>1, AppendHolds
      <3> QED BY <1>1, <2>1, <2>2, <3>1, <3>2
    <2>3. \A k \in 1..Len(threads'[i]) :
              disk'[threads'[i][k].of] # <<>> /\ disk'[threads'[i][k].of][1].text = t
      <3>1. CASE threads'[i] = threads[i]
            BY <2>1, <3>1
      <3>2. ASSUME NEW r \in Runs, ThreadStarted(r), run[r].resumed = i,
                   threads'[i] = Append(threads[i], Latest(r))
            PROVE  \A k \in 1..Len(threads'[i]) :
                      disk'[threads'[i][k].of] # <<>> /\ disk'[threads'[i][k].of][1].text = t
        <4>1. r \in UnderWay /\ Refers(run[r], i)
              BY <3>2, StartFacts DEF Refers
        <4>2. Latest(r) \in Messages /\ Latest(r).of = run[r].of
              BY <4>1, UnderWayFacts
        <4> QED BY <2>2, <3>2, <4>1, <4>2
      <3>3. ASSUME NEW r \in Runs, AgentMessage(r), run[r].thread = i,
                   threads'[i] = Append(threads[i], ReplyTo(r, "codex"))
            PROVE  \A k \in 1..Len(threads'[i]) :
                      disk'[threads'[i][k].of] # <<>> /\ disk'[threads'[i][k].of][1].text = t
        <4>1. r \in UnderWay /\ Refers(run[r], i)
              BY <3>3, MessageFacts DEF Refers, AtWork
        <4>2. ReplyTo(r, "codex") \in Messages /\ ReplyTo(r, "codex").of = run[r].of
              BY <4>1, UnderWayFacts
        <4> QED BY <2>2, <3>3, <4>1, <4>2
      <3>4. \/ threads'[i] = threads[i]
            \/ \E r \in Runs : ThreadStarted(r) /\ run[r].resumed = i
                               /\ threads'[i] = Append(threads[i], Latest(r))
            \/ \E r \in Runs : AgentMessage(r) /\ run[r].thread = i
                               /\ threads'[i] = Append(threads[i], ReplyTo(r, "codex"))
            BY ThreadStep
      <3> QED BY <3>1, <3>2, <3>3, <3>4
    <2>4. ASSUME NEW u \in Texts, sessions'[u] = i PROVE u = t
      <3>1. CASE sessions' = sessions
            BY <1>2, <2>4, <3>1 DEF OpenAlike
      <3>2. CASE sessions' = [v \in Texts |-> 0]
            BY <1>0, <2>4, <3>2
      <3>3. ASSUME NEW r \in UnderWay, AtWork(run[r]),
                   sessions' = [sessions EXCEPT ![OpenedWith(run[r].of)] = run[r].thread]
            PROVE  u = t
        <4>1. CASE u = OpenedWith(run[r].of)
          <5>1. run[r].thread = i
                BY <1>0, <2>4, <3>3, <4>1
          <5> QED BY <1>2, <3>3, <4>1, <5>1 DEF OpenAlike, Refers
        <4>2. CASE u # OpenedWith(run[r].of)
          <5>1. sessions[u] = i
                BY <1>0, <2>4, <3>3, <4>2
          <5> QED BY <1>2, <5>1 DEF OpenAlike
        <4> QED BY <4>1, <4>2
      <3> QED BY <3>1, <3>2, <3>3, SessionStep
    <2>5. ASSUME NEW x \in Runs, run'[x].of # Nobody, Refers(run'[x], i)
          PROVE  disk'[run'[x].of][1].text = t
      <3>1. /\ x \in UnderWay /\ run'[x].of = run[x].of
            /\ Refers(run[x], i) \/ sessions[OpenedWith(run[x].of)] = i
            BY <2>5, ReferenceStep
      <3>2. OpenedWith(run[x].of) = t
            BY <1>1, <1>2, <3>1 DEF OpenAlike
      <3> QED BY <1>1, <3>1, <3>2
    <2> QED BY <2>3, <2>4, <2>5 DEF OpenAlike, OpenedWith, UnderWay
  <1>3. ASSUME NEW r \in Runs, ThreadStarted(r), run[r].resumed = 0,
               NEW n \in 1..Len(threads'), n = Len(threads) + 1, Len(threads') = n,
               threads'[n] = run[r].request, NEW t \in Texts, t = OpenedWith(run[r].of)
        PROVE  OpenAlike(n, t)'
    <2>1. r \in UnderWay /\ run'[r].of = run[r].of /\ Others(r) /\ sessions' = sessions
          BY <1>3, StartFacts DEF GoesOn, Others, ThreadStarted
    <2>2. \A k \in 1..Len(run[r].request) : run[r].request[k].of = run[r].of
          BY <2>1, UnderWayFacts DEF History
    <2>3. \A k \in 1..Len(threads'[n]) :
              disk'[threads'[n][k].of] # <<>> /\ disk'[threads'[n][k].of][1].text = t
          BY <1>1, <1>3, <2>1, <2>2
    <2>4. \A u \in Texts : sessions'[u] # n
          BY <1>0, <1>3, <2>1
    <2>5. ASSUME NEW x \in Runs, run'[x].of # Nobody, Refers(run'[x], n)
          PROVE  disk'[run'[x].of][1].text = t
      <3>1. CASE x = r
            BY <1>1, <1>3, <2>1, <3>1
      <3>2. CASE x # r
        <4>1. run'[x] = run[x]
              BY <2>1, <3>2 DEF Others
        <4>2. RunShape(run[x], Len(threads))
              BY DEF Histories, CodexTypes
        <4> QED BY <1>0, <1>3, <2>5, <4>1, <4>2 DEF Refers, RunShape
      <3> QED BY <3>1, <3>2
    <2> QED BY <2>3, <2>4, <2>5 DEF OpenAlike, OpenedWith, UnderWay
  <1>4. ASSUME NEW i \in 1..Len(threads') PROVE \E t \in Texts : OpenAlike(i, t)'
    <2>1. CASE i \in 1..Len(threads)
          BY <1>2, <2>1 DEF ThreadsOpenAlike
    <2>2. CASE i \notin 1..Len(threads)
      <3>1. Len(threads') # Len(threads) /\ threads' # threads
            BY <1>0, <2>2
      <3>2. PICK r \in Runs :
                /\ ThreadStarted(r) /\ run[r].resumed = 0
                /\ Len(threads') = Len(threads) + 1
                /\ threads'[Len(threads) + 1] = run[r].request
            BY <3>1, ThreadStep
      <3>3. i = Len(threads) + 1
            BY <1>0, <2>2, <3>2
      <3>4. r \in UnderWay
            BY <3>2, StartFacts
      <3>5. PICK t \in Texts : t = OpenedWith(run[r].of)
            BY <1>1, <3>4
      <3> QED BY <1>3, <3>2, <3>3, <3>5
    <2> QED BY <2>1, <2>2
  <1> QED BY <1>4 DEF ThreadsOpenAlike

LEMMA OthersStep == ASSUME Histories, NEW r \in Runs, RunStep(r) PROVE Others(r)
  <1>1. CASE \E c \in Conversations : UserTurn(r, c)
        BY <1>1, TurnFacts
  <1>2. CASE OtherCalls(r)
        BY <1>2, CallsFacts
  <1>3. CASE Exit(r) \/ OtherAnswers(r) \/ RunFails(r) \/ LeftEnds(r)
        BY <1>3, ExitFacts, OtherFacts, EndFacts
  <1>4. CASE Stream(r) \/ SpawnFails(r) \/ TurnFails(r) \/ ExitFails(r) \/ ThreadStarted(r)
             \/ AgentMessage(r) \/ Stall(r) \/ UserStops(r)
        BY <1>4, StreamFacts, FailureFacts, StartFacts, MessageFacts, StallFacts,
           InterruptFacts DEF GoesOn, Others
  <1> QED BY <1>1, <1>2, <1>3, <1>4 DEF RunStep

(* How a run that is under way has come out of a step.                     *)
LEMMA RunGoes ==
    ASSUME Histories, CodexNext, NEW x \in Runs, run'[x].of # Nobody
    PROVE  \/ x \in UnderWay /\ run'[x] = run[x] /\ ~RunStep(x)
           \/ /\ Restart /\ x \in UnderWay /\ run[x].stage \in {"reading", "dropped"}
              /\ run'[x].stage = "dropped" /\ run'[x].child = run[x].child
              /\ run'[x].of = run[x].of /\ run'[x].request = run[x].request
              /\ run'[x].thread = run[x].thread /\ run'[x].resumed = run[x].resumed
           \/ Stream(x) \/ SpawnFails(x) \/ TurnFails(x) \/ ExitFails(x)
           \/ ThreadStarted(x) \/ AgentMessage(x) \/ Stall(x) \/ UserStops(x)
           \/ OtherCalls(x)
           \/ \E c \in Conversations : UserTurn(x, c)
  <1>0. run'[x] # Free
        BY DEF Free
  <1>1. CASE Restart
        BY <1>0, <1>1, RestartFacts
  <1>2. CASE RunStep(x)
    <2>1. ~Exit(x) /\ ~OtherAnswers(x) /\ ~RunFails(x) /\ ~LeftEnds(x)
          BY <1>0, ExitFacts, OtherFacts, EndFacts
    <2> QED BY <1>2, <2>1 DEF RunStep
  <1>3. ASSUME NEW r \in Runs, RunStep(r), ~RunStep(x)
        PROVE  x \in UnderWay /\ run'[x] = run[x] /\ ~RunStep(x)
        BY <1>3, OthersStep DEF Others, UnderWay
  <1> QED BY <1>1, <1>2, <1>3, NextIs

(* A run's own message is the one it had, or one said for the first time.  *)
LEMMA LatestStep ==
    ASSUME Histories, CodexNext, CodexTypes', NEW x \in Runs, run'[x].of # Nobody
    PROVE  \/ /\ x \in UnderWay /\ run'[x].of = run[x].of /\ Latest(x)' = Latest(x)
              /\ run'[x].stage \in {"asked", "reading"} => run[x].stage \in {"asked", "reading"}
              /\ \A m : IsUser(m) /\ Holds(run'[x].request, m) => Holds(run[x].request, m)
           \/ /\ \E c \in Conversations : UserTurn(x, c) /\ run'[x].of = c
              /\ Latest(x)'.of = run'[x].of /\ IsUser(Latest(x)')
              /\ Latest(x)'.nth = Len(disk[run'[x].of]) + 1
              /\ run[x] = Free /\ Others(x)
  <1>1. ASSUME x \in UnderWay, run'[x].request = run[x].request
        PROVE  /\ Latest(x)' = Latest(x)
               /\ \A m : IsUser(m) /\ Holds(run'[x].request, m) => Holds(run[x].request, m)
        BY <1>1 DEF Latest
  <1>2. CASE x \in UnderWay /\ run'[x] = run[x]
        BY <1>1, <1>2
  <1>3. CASE /\ x \in UnderWay /\ run'[x].stage = "dropped"
             /\ run'[x].of = run[x].of /\ run'[x].request = run[x].request
        BY <1>1, <1>3
  <1>4. CASE Stream(x) \/ SpawnFails(x) \/ TurnFails(x) \/ ExitFails(x)
    <2>1. x \in UnderWay /\ GoesOn(x) /\ run[x].stage \in {"asked", "reading"}
          BY <1>4, StreamFacts, FailureFacts
    <2> QED BY <1>1, <2>1 DEF GoesOn
  <1>5. CASE ThreadStarted(x) \/ AgentMessage(x) \/ Stall(x)
    <2>1. x \in UnderWay /\ GoesOn(x) /\ run'[x].stage = run[x].stage
          BY <1>5, StartFacts, MessageFacts, StallFacts
    <2> QED BY <1>1, <2>1 DEF GoesOn
  <1>6. CASE UserStops(x)
        BY <1>1, <1>6, InterruptFacts DEF GoesOn
  <1>7. CASE OtherCalls(x)
    <2>1. PICK a \in Seq(Messages) :
           /\ \A k \in 1..Len(a) : ~IsUser(a[k])
           /\ x \in UnderWay /\ run'[x].of = run[x].of /\ run'[x].request = run[x].request \o a
           /\ run[x].stage = "asked"
           /\ run'[x].request[Max(UserAt(run'[x].request))] = Latest(x)
          BY <1>7, CallsFacts
    <2>2. \A k \in 1..Len(run[x].request \o a) :
             \/ k \in 1..Len(run[x].request) /\ (run[x].request \o a)[k] = run[x].request[k]
             \/ k - Len(run[x].request) \in 1..Len(a)
                /\ (run[x].request \o a)[k] = a[k - Len(run[x].request)]
      <3>1. run[x].request \in Seq(Messages)
            BY <2>1, UnderWayFacts
      <3> QED BY <3>1, CatHolds
    <2>3. \A m : IsUser(m) /\ Holds(run'[x].request, m) => Holds(run[x].request, m)
          BY <2>1, <2>2 DEF Holds
    <2>4. Latest(x)' = Latest(x)
          BY <2>1 DEF Latest
    <2> QED BY <2>1, <2>3, <2>4
  <1>8. ASSUME NEW c \in Conversations, UserTurn(x, c)
        PROVE  /\ run'[x].of = c
               /\ Latest(x)'.of = c /\ IsUser(Latest(x)')
               /\ Latest(x)'.nth = Len(disk[c]) + 1
               /\ run[x] = Free /\ Others(x)
    <2>1. PICK said \in Messages :
           /\ IsUser(said) /\ said.of = c /\ said.nth = Len(disk[c]) + 1
           /\ run'[x].request = Append(Found(c), said)
           /\ Found(c) \in Seq(Messages)
           /\ LastUser(run'[x].request, Len(Found(c)) + 1)
           /\ run'[x].of = c /\ run[x] = Free /\ Others(x)
          BY <1>8, TurnFacts
    <2>2. /\ Append(Found(c), said)[Len(Found(c)) + 1] = said
          /\ Append(Found(c), said) \in Seq(Messages)
          BY <2>1, AppendHolds
    <2>3. Max(UserAt(Append(Found(c), said))) = Len(Found(c)) + 1
          BY <2>1, <2>2, LastUserIs
    <2>4. Latest(x)' = said
          BY <2>1, <2>2, <2>3 DEF Latest
    <2> QED BY <2>1, <2>4
  <1> QED BY <1>2, <1>3, <1>4, <1>5, <1>6, <1>7, <1>8, RunGoes

LEMMA RunsApartKept ==
    ASSUME Histories, RunsApart, CodexNext, CodexTypes', Grows
    PROVE  RunsApart'
  <1> DEFINE Old(x) == /\ x \in UnderWay /\ run'[x].of = run[x].of /\ Latest(x)' = Latest(x)
                       /\ run'[x].stage \in {"asked", "reading"} => run[x].stage \in {"asked", "reading"}
                       /\ \A m : IsUser(m) /\ Holds(run'[x].request, m) => Holds(run[x].request, m)
             Fresh(x) == /\ \E c \in Conversations : UserTurn(x, c) /\ run'[x].of = c
                         /\ Latest(x)'.of = run'[x].of /\ IsUser(Latest(x)')
                         /\ Latest(x)'.nth = Len(disk[run'[x].of]) + 1
                         /\ run[x] = Free /\ Others(x)
  <1>1. \A x \in Runs : run'[x].of # Nobody => Old(x) \/ Fresh(x)
        BY LatestStep
  <1>2. ASSUME NEW x \in Runs, NEW y \in Runs, run'[x].of # Nobody, run'[y].of # Nobody,
               Fresh(x), x # y
        PROVE  Old(y)
    <2>1. run'[y] = run[y]
          BY <1>2 DEF Others
    <2>2. run[y] # Free
          BY <1>2, <2>1 DEF Free
    <2> QED BY <1>1, <1>2, <2>2
  <1>3. ASSUME NEW x \in Runs, run'[x].of # Nobody, Fresh(x), NEW y \in UnderWay
        PROVE  /\ Latest(y) # Latest(x)'
               /\ ~Holds(run[y].request, Latest(x)')
    <2>1. run'[x].of \in Conversations
          BY <1>3
    <2>2. Len(disk[run'[x].of]) \in Nat
          BY <2>1, LenProperties DEF Histories, CodexTypes
    <2>3. /\ Latest(y).nth \in 1..Len(disk[Latest(y).of])
          /\ History(run[y].request, disk[run[y].of], run[y].of)
          BY UnderWayFacts
    <2>4. Latest(y) # Latest(x)'
          BY <1>3, <2>2, <2>3
    <2>5. ASSUME Holds(run[y].request, Latest(x)') PROVE FALSE
      <3>1. Latest(x)'.of = run[y].of /\ Latest(x)'.nth \in 1..Len(disk[run[y].of])
            BY <1>3, <2>3, <2>5 DEF Holds, History
      <3> QED BY <1>3, <2>2, <3>1
    <2> QED BY <2>4, <2>5
  <1>4. ASSUME NEW r \in Runs, NEW s \in Runs, run'[r].of # Nobody, run'[s].of # Nobody, r # s
        PROVE  Latest(r)' # Latest(s)'
    <2>1. CASE Old(r) /\ Old(s)
          BY <1>4, <2>1 DEF RunsApart
    <2>2. CASE Fresh(r)
          BY <1>2, <1>3, <1>4, <2>2
    <2>3. CASE Fresh(s)
          BY <1>2, <1>3, <1>4, <2>3
    <2> QED BY <1>1, <1>4, <2>1, <2>2, <2>3
  <1>5. ASSUME NEW r \in Runs, NEW s \in Runs, run'[r].of # Nobody, run'[s].of = run'[r].of,
               Fresh(s), Old(r), run'[r].stage \in {"asked", "reading"}
        PROVE  run'[r].of \in clashed'
    <2>1. PICK c \in Conversations : UserTurn(s, c) /\ run'[s].of = c
          BY <1>5
    <2>2. r \in Active(c)
          BY <1>5, <2>1 DEF Active, UnderWay
    <2>3. clashed' = clashed \cup {c}
          BY <2>1, <2>2 DEF UserTurn
    <2> QED BY <1>5, <2>1, <2>3
  <1>6. ASSUME NEW c \in Conversations \ clashed', NEW r \in Active(c)', NEW s \in Active(c)'
        PROVE  r = s
    <2>1. /\ r \in Runs /\ run'[r].of = c /\ run'[r].stage \in {"asked", "reading"}
          /\ s \in Runs /\ run'[s].of = c /\ run'[s].stage \in {"asked", "reading"}
          /\ c # Nobody /\ c \notin clashed
          BY <1>6, CodexAssumption DEF Active, Grows
    <2>2. CASE Old(r) /\ Old(s)
      <3>1. r \in Active(c) /\ s \in Active(c)
            BY <2>1, <2>2 DEF Active, UnderWay
      <3> QED BY <2>1, <3>1, <1>6 DEF RunsApart
    <2>3. CASE Fresh(r)
          BY <1>2, <1>5, <1>6, <2>1, <2>3
    <2>4. CASE Fresh(s)
          BY <1>2, <1>5, <1>6, <2>1, <2>4
    <2> QED BY <1>1, <2>1, <2>2, <2>3, <2>4
  <1>7. ASSUME NEW r \in Runs, NEW s \in Runs, run'[r].of # Nobody, run'[s].of # Nobody, r # s,
               run'[r].stage \in {"asked", "reading"}, run'[r].of \notin clashed',
               Holds(run'[s].request, Latest(r)')
        PROVE  FALSE
    <2>1. CASE Old(r) /\ Old(s)
      <3>1. IsUser(Latest(r)) /\ run[r].of \notin clashed
            BY <1>7, <2>1, UnderWayFacts DEF Grows
      <3>2. Holds(run[s].request, Latest(r))
            BY <1>7, <2>1, <3>1
      <3> QED BY <1>7, <2>1, <3>1, <3>2 DEF RunsApart
    <2>2. CASE Fresh(r)
      <3>1. Old(s)
            BY <1>2, <1>7, <2>2
      <3>2. Holds(run[s].request, Latest(r)')
            BY <1>7, <2>2, <3>1
      <3> QED BY <1>3, <1>7, <2>2, <3>1, <3>2
    <2>3. CASE Old(r) /\ Fresh(s)
      <3>1. PICK c \in Conversations : UserTurn(s, c) /\ run'[s].of = c
            BY <2>3
      <3>2. History(run'[s].request, disk'[c], c)
            BY <3>1, TurnFacts
      <3>3. Latest(r)'.of = c
            BY <1>7, <3>2 DEF Holds, History
      <3>4. run'[r].of = c
            BY <2>3, <3>3, UnderWayFacts
      <3> QED BY <1>5, <1>7, <2>3, <3>1, <3>4
    <2> QED BY <1>1, <1>7, <2>1, <2>2, <2>3
  <1> HIDE DEF Old, Fresh
  <1>8. \A r, s \in Runs : run'[r].of # Nobody /\ run'[s].of # Nobody /\ r # s
            => Latest(r)' # Latest(s)'
        BY <1>4
  <1>9. \A r, s \in Runs : /\ run'[r].of # Nobody /\ run'[s].of # Nobody /\ r # s
                           /\ run'[r].stage \in {"asked", "reading"}
                           /\ run'[r].of \notin clashed'
            => ~Holds(run'[s].request, Latest(r)')
        BY <1>7
  <1> QED BY <1>6, <1>8, <1>9 DEF RunsApart, UnderWay

(* What no thread that may be told it has heard is not told meanwhile.     *)
LEMMA NotYetHeardKept ==
    ASSUME Histories, RunsApart, NotYetHeard, CodexNext, CodexTypes', Grows
    PROVE  NotYetHeard'
  <1>0. /\ threads \in Seq(Seq(Messages)) /\ Len(threads) \in Nat
        /\ threads' \in Seq(Seq(Messages)) /\ Len(threads') \in Nat
        BY LenProperties DEF Histories, CodexTypes
  <1>1. ASSUME NEW x \in Runs, run'[x].of # Nobody,
               ~(Latest(x)' \in repeated' \/ run'[x].of \in clashed'),
               x \in UnderWay, run'[x].of = run[x].of, Latest(x)' = Latest(x)
        PROVE  ~Excused(x)
        BY <1>1 DEF Excused, Grows
  \* a thread of before is told nothing of a run that is not starting
  <1>2. ASSUME NEW x \in UnderWay, ~ThreadStarted(x), NEW i \in 1..Len(threads),
               ~Holds(threads[i], Latest(x))
        PROVE  ~Holds(threads'[i], Latest(x))
    <2>1. IsUser(Latest(x)) /\ threads[i] \in Seq(Messages)
          BY <1>0, UnderWayFacts
    <2>2. ASSUME NEW m \in Messages, threads'[i] = Append(threads[i], m), m # Latest(x)
          PROVE  ~Holds(threads'[i], Latest(x))
          BY <1>2, <2>1, <2>2, AppendHolds DEF Holds
    <2>3. ASSUME NEW r \in Runs, ThreadStarted(r), threads'[i] = Append(threads[i], Latest(r))
          PROVE  ~Holds(threads'[i], Latest(x))
      <3>1. r \in UnderWay /\ r # x
            BY <1>2, <2>3, StartFacts
      <3>2. Latest(r) # Latest(x) /\ Latest(r) \in Messages
            BY <3>1, UnderWayFacts DEF RunsApart
      <3> QED BY <2>2, <2>3, <3>2
    <2>4. ASSUME NEW r \in Runs, AgentMessage(r),
                 threads'[i] = Append(threads[i], ReplyTo(r, "codex"))
          PROVE  ~Holds(threads'[i], Latest(x))
      <3>1. r \in UnderWay
            BY <2>4, MessageFacts
      <3>2. ReplyTo(r, "codex") \in Messages /\ ~IsUser(ReplyTo(r, "codex"))
            BY <3>1, UnderWayFacts DEF IsUser
      <3> QED BY <2>1, <2>2, <2>4, <3>2
    <2>5. \/ threads'[i] = threads[i]
          \/ \E r \in Runs : ThreadStarted(r) /\ threads'[i] = Append(threads[i], Latest(r))
          \/ \E r \in Runs : AgentMessage(r) /\ threads'[i] = Append(threads[i], ReplyTo(r, "codex"))
          BY ThreadStep
    <2> QED BY <1>2, <2>3, <2>4, <2>5
  <1>3. ASSUME NEW x \in Runs, run'[x].of # Nobody, run'[x].child = "none",
               ~(Latest(x)' \in repeated' \/ run'[x].of \in clashed'), NEW i \in 1..Len(threads')
        PROVE  ~Holds(threads'[i], Latest(x)')
    <2>1. CASE x \in UnderWay /\ run'[x] = run[x] /\ ~RunStep(x)
      <3>1. Latest(x)' = Latest(x)
            BY <2>1 DEF Latest
      <3>2. ~Excused(x) /\ run[x].of \notin clashed
            BY <1>1, <1>3, <2>1, <3>1 DEF Excused
      <3>3. \A j \in 1..Len(threads) : ~Holds(threads[j], Latest(x))
            BY <1>3, <2>1, <3>2 DEF NotYetHeard
      <3>4. ~ThreadStarted(x)
            BY <2>1 DEF RunStep
      <3>5. CASE i \in 1..Len(threads)
            BY <1>2, <2>1, <3>1, <3>3, <3>4, <3>5
      <3>6. CASE i \notin 1..Len(threads)
        <4>1. threads' # threads /\ Len(threads') # Len(threads)
              BY <1>0, <3>6
        <4>2. PICK r \in Runs : /\ ThreadStarted(r)
                                /\ Len(threads') = Len(threads) + 1
                                /\ threads'[Len(threads) + 1] = run[r].request
              BY <4>1, ThreadStep
        <4>3. i = Len(threads) + 1
              BY <1>0, <1>3, <3>6, <4>2
        <4>4. r \in UnderWay /\ r # x
              BY <3>4, <4>2, StartFacts
        <4>5. run[x].stage = "asked"
          <5>1. RunShape(run[x], Len(threads)) /\ run[x].child = "none" /\ run[x].of # Nobody
                BY <1>3, <2>1 DEF Histories, CodexTypes
          <5>2. run[x].stage \in {"idle", "asked", "reading", "dropped"}
                BY <5>1 DEF RunShape, RunRecords
          <5> QED BY <5>1, <5>2 DEF RunShape, AtWork
        <4>6. ~Holds(run[r].request, Latest(x))
              BY <2>1, <3>2, <4>4, <4>5 DEF RunsApart
        <4> QED BY <3>1, <4>2, <4>3, <4>6
      <3> QED BY <3>5, <3>6
    <2>2. CASE Restart
      <3>1. run'[x] # Free
            BY <1>3 DEF Free
      <3>2. run[x].stage \in {"reading", "dropped"} /\ run[x].child = "none"
            BY <1>3, <2>2, <3>1, RestartFacts
      <3>3. RunShape(run[x], Len(threads))
            BY DEF Histories, CodexTypes
      <3> QED BY <3>2, <3>3 DEF RunShape, AtWork
    <2>3. CASE OtherCalls(x)
      <3>1. Latest(x)' = Latest(x)
            BY <2>3, CallsFacts DEF Latest
      <3> QED BY <1>3, <2>3, <3>1 DEF OtherCalls
    <2>4. ASSUME NEW c \in Conversations, UserTurn(x, c)
          PROVE  ~Holds(threads'[i], Latest(x)')
      <3>1. /\ Latest(x)'.of = run'[x].of /\ IsUser(Latest(x)')
            /\ Latest(x)'.nth = Len(disk[run'[x].of]) + 1
            /\ run'[x].of \in Conversations
        <4>1. x \notin UnderWay
              BY <2>4 DEF UserTurn, UnderWay, Free
        <4> QED BY <1>3, <4>1, LatestStep
      <3>2. threads' = threads
            BY <2>4 DEF UserTurn
      <3>3. Len(disk[run'[x].of]) \in Nat
            BY <3>1, LenProperties DEF Histories, CodexTypes
      <3>4. ASSUME Holds(threads[i], Latest(x)') PROVE FALSE
        <4>1. PICK k \in 1..Len(threads[i]) : threads[i][k] = Latest(x)'
              BY <3>4 DEF Holds
        <4>2. i \in 1..Len(threads) /\ IsUser(threads[i][k])
              BY <3>1, <3>2, <4>1
        <4>3. threads[i][k].nth \in 1..Len(disk[threads[i][k].of])
              BY <4>2 DEF Histories, Overheard
        <4>4. Latest(x)'.nth \in 1..Len(disk[run'[x].of])
              BY <3>1, <4>1, <4>3
        <4> QED BY <3>1, <3>3, <4>4
      <3> QED BY <3>2, <3>4
    <2>5. run'[x].child = "none" =>
              ~(Stream(x) \/ SpawnFails(x) \/ TurnFails(x) \/ ExitFails(x)
                \/ ThreadStarted(x) \/ AgentMessage(x) \/ Stall(x))
          BY StreamFacts, FailureFacts, StartFacts, MessageFacts, StallFacts
    <2>6. run'[x].child = "none" => ~UserStops(x)
      <3> SUFFICES ASSUME run'[x].child = "none", UserStops(x) PROVE FALSE
          OBVIOUS
      <3>1. run[x].child = "none" /\ RunShape(run[x], Len(threads)) /\ run[x].stage = "reading"
            BY InterruptFacts DEF Histories, CodexTypes, UserStops
      <3> QED BY <3>1 DEF RunShape, AtWork
    <2> QED BY <1>3, <2>1, <2>2, <2>3, <2>4, <2>5, <2>6, RunGoes
  <1>4. ASSUME NEW x \in Runs, run'[x].of # Nobody, run'[x].child = "starting",
               run'[x].resumed # 0,
               ~(Latest(x)' \in repeated' \/ run'[x].of \in clashed')
        PROVE  ~Holds(threads'[run'[x].resumed], Latest(x)')
    <2>0. run'[x].child = "starting" => ~ThreadStarted(x)
          BY StartFacts
    <2>1. CASE /\ x \in UnderWay /\ run'[x].of = run[x].of /\ run'[x].request = run[x].request
               /\ run[x].child = "starting" /\ run'[x].resumed = run[x].resumed
      <3>1. Latest(x)' = Latest(x)
            BY <2>1 DEF Latest
      <3>2. ~Excused(x)
            BY <1>1, <1>4, <2>1, <3>1
      <3>3. run[x].resumed \in 1..Len(threads)
        <4>1. RunShape(run[x], Len(threads))
              BY <2>1, UnderWayFacts
        <4>2. run[x].resumed \in 0..Len(threads)
              BY <4>1 DEF RunShape
        <4> QED BY <1>0, <1>4, <2>1, <4>2
      <3>4. ~Holds(threads[run[x].resumed], Latest(x))
        <4>1. run[x].resumed # 0 /\ run[x].child = "starting"
              BY <1>4, <2>1
        <4> QED BY <2>1, <3>2, <4>1 DEF NotYetHeard
      <3>5. ~ThreadStarted(x)
            BY <1>4, <2>0
      <3>6. \A i \in 1..Len(threads) :
                ~Holds(threads[i], Latest(x)) => ~Holds(threads'[i], Latest(x))
            BY <1>2, <2>1, <3>5
      <3>7. ~Holds(threads'[run[x].resumed], Latest(x))
            BY <3>3, <3>4, <3>6
      <3> QED BY <2>1, <3>1, <3>7
    <2>2. CASE Stream(x)
      <3>1. /\ x \in UnderWay /\ run'[x].of = run[x].of /\ run'[x].request = run[x].request
            /\ run[x].child = "none" /\ run'[x].resumed = sessions[OpenedWith(run[x].of)]
            /\ threads' = threads
            BY <2>2, StreamFacts DEF GoesOn, Stream
      <3>2. Latest(x)' = Latest(x)
            BY <3>1 DEF Latest
      <3>3. ~Excused(x)
            BY <1>1, <1>4, <3>1, <3>2
      <3>4. run'[x].resumed \in 1..Len(threads)
        <4>1. sessions[OpenedWith(run[x].of)] \in 0..Len(threads)
              BY <3>1, UnderWayFacts DEF Histories, CodexTypes
        <4> QED BY <1>0, <1>4, <3>1, <4>1
      <3> QED BY <3>1, <3>2, <3>3, <3>4 DEF NotYetHeard
    <2>3. run'[x].child = "starting" =>
              ~(SpawnFails(x) \/ TurnFails(x) \/ ExitFails(x)
                \/ AgentMessage(x) \/ Stall(x) \/ OtherCalls(x)
                \/ \E c \in Conversations : UserTurn(x, c))
          BY FailureFacts, StartFacts, MessageFacts, StallFacts, CallsFacts, TurnFacts
    <2>4. CASE UserStops(x)
          BY <1>4, <2>1, <2>4, InterruptFacts DEF GoesOn
    <2>5. CASE x \in UnderWay /\ run'[x] = run[x]
          BY <1>4, <2>1, <2>5
    <2> QED BY <1>4, <2>0, <2>1, <2>2, <2>3, <2>4, <2>5, RunGoes
  <1>5. \A x \in Runs : run'[x].of # Nobody =>
          /\ run'[x].child = "none" /\ ~(Latest(x)' \in repeated' \/ run'[x].of \in clashed') =>
                \A i \in 1..Len(threads') : ~Holds(threads'[i], Latest(x)')
          /\ run'[x].child = "starting" /\ run'[x].resumed # 0
                /\ ~(Latest(x)' \in repeated' \/ run'[x].of \in clashed') =>
                ~Holds(threads'[run'[x].resumed], Latest(x)')
        BY <1>3, <1>4
  <1> QED BY <1>5 DEF NotYetHeard, UnderWay, Excused

LEMMA HeardOnceKept ==
    ASSUME Histories, RunsApart, NotYetHeard, HeardOnce, CodexNext, CodexTypes', Grows
    PROVE  HeardOnce'
  <1>0. /\ threads \in Seq(Seq(Messages)) /\ Len(threads) \in Nat
        /\ threads' \in Seq(Seq(Messages)) /\ Len(threads') \in Nat
        BY LenProperties DEF Histories, CodexTypes
  <1> SUFFICES ASSUME NEW i \in 1..Len(threads'),
                      NEW j \in 1..Len(threads'[i]), NEW k \in 1..Len(threads'[i]),
                      j < k, threads'[i][j] = threads'[i][k], IsUser(threads'[i][j])
               PROVE  threads'[i][j] \in repeated' \/ threads'[i][j].of \in clashed'
      BY DEF HeardOnce
  <1>1. ASSUME i \in 1..Len(threads), j \in 1..Len(threads[i]), k \in 1..Len(threads[i]),
               threads'[i][j] = threads[i][j], threads'[i][k] = threads[i][k]
        PROVE  threads'[i][j] \in repeated' \/ threads'[i][j].of \in clashed'
        BY <1>1 DEF HeardOnce, Grows
  <1>2. ASSUME NEW m \in Messages, i \in 1..Len(threads), threads'[i] = Append(threads[i], m),
               IsUser(m) => m \in repeated \/ m.of \in clashed \/ ~Holds(threads[i], m)
        PROVE  threads'[i][j] \in repeated' \/ threads'[i][j].of \in clashed'
    <2>1. /\ threads[i] \in Seq(Messages) /\ Len(threads[i]) \in Nat
          BY <1>0, <1>2, LenProperties
    <2>2. \A n \in 1..Len(threads'[i]) :
                 \/ n \in 1..Len(threads[i]) /\ threads'[i][n] = threads[i][n]
                 \/ n = Len(threads[i]) + 1 /\ threads'[i][n] = m
          BY <1>2, <2>1, AppendHolds
    <2>3. j \in 1..Len(threads[i]) /\ threads'[i][j] = threads[i][j]
          BY <1>2, <2>1, <2>2, AppendHolds
    <2>4. CASE k \in 1..Len(threads[i]) /\ threads'[i][k] = threads[i][k]
          BY <1>1, <1>2, <2>3, <2>4
    <2>5. CASE threads'[i][k] = m
      <3>1. Holds(threads[i], m) /\ IsUser(m)
            BY <2>3, <2>5 DEF Holds
      <3> QED BY <1>2, <2>5, <3>1 DEF Grows
    <2> QED BY <2>2, <2>4, <2>5
  <1>3. CASE i \in 1..Len(threads) /\ threads'[i] = threads[i]
        BY <1>1, <1>3
  <1>4. ASSUME NEW r \in Runs, ThreadStarted(r), i \in 1..Len(threads), run[r].resumed = i,
               threads'[i] = Append(threads[i], Latest(r))
        PROVE  threads'[i][j] \in repeated' \/ threads'[i][j].of \in clashed'
    <2>1. r \in UnderWay /\ run[r].child = "starting" /\ run[r].resumed # 0
      <3>1. r \in UnderWay /\ run[r].child = "starting"
            BY <1>4, StartFacts
      <3>2. i # 0
            BY <1>0, <1>4
      <3> QED BY <1>4, <3>1, <3>2
    <2>2. Latest(r) \in Messages /\ Latest(r).of = run[r].of
          BY <2>1, UnderWayFacts
    <2>3. Latest(r) \in repeated \/ Latest(r).of \in clashed \/ ~Holds(threads[i], Latest(r))
          BY <1>4, <2>1, <2>2 DEF NotYetHeard, Excused
    <2> QED BY <1>2, <1>4, <2>2, <2>3
  <1>5. ASSUME NEW r \in Runs, AgentMessage(r), i \in 1..Len(threads),
               threads'[i] = Append(threads[i], ReplyTo(r, "codex"))
        PROVE  threads'[i][j] \in repeated' \/ threads'[i][j].of \in clashed'
    <2>1. r \in UnderWay
          BY <1>5, MessageFacts
    <2>2. ReplyTo(r, "codex") \in Messages /\ ~IsUser(ReplyTo(r, "codex"))
          BY <2>1, UnderWayFacts DEF IsUser
    <2> QED BY <1>2, <1>5, <2>2
  <1>6. ASSUME NEW r \in Runs, ThreadStarted(r), threads'[i] = run[r].request
        PROVE  FALSE
    <2>1. r \in UnderWay
          BY <1>6, StartFacts
    <2>2. History(run[r].request, disk[run[r].of], run[r].of) /\ run[r].request[j] \in Messages
          BY <1>6, <2>1, UnderWayFacts
    <2>3. run[r].request[j].nth < run[r].request[k].nth
          BY <1>6, <2>2 DEF History
    <2>4. run[r].request[j].nth \in Nat /\ run[r].request[j] = run[r].request[k]
          BY <1>6, <2>2 DEF Messages
    <2> QED BY <2>3, <2>4
  <1>7. CASE i \in 1..Len(threads)
    <2>1. \/ threads'[i] = threads[i]
          \/ \E r \in Runs : /\ ThreadStarted(r) /\ run[r].resumed = i
                             /\ threads'[i] = Append(threads[i], Latest(r))
          \/ \E r \in Runs : AgentMessage(r) /\ threads'[i] = Append(threads[i], ReplyTo(r, "codex"))
          BY <1>7, ThreadStep
    <2> QED BY <1>3, <1>4, <1>5, <1>7, <2>1
  <1>8. CASE i \notin 1..Len(threads)
    <2>1. threads' # threads /\ Len(threads') # Len(threads)
          BY <1>0, <1>8
    <2>2. PICK r \in Runs : /\ ThreadStarted(r)
                            /\ Len(threads') = Len(threads) + 1
                            /\ threads'[Len(threads) + 1] = run[r].request
          BY <2>1, ThreadStep
    <2>3. i = Len(threads) + 1
          BY <1>0, <1>8, <2>2
    <2> QED BY <1>6, <2>2, <2>3
  <1> QED BY <1>7, <1>8

-----------------------------------------------------------------------------
(* What a thread has been told, and what its conversation knows.           *)

LEMMA ToSetHolds ==
    ASSUME NEW S, NEW s \in Seq(S)
    PROVE  \A m : m \in ToSet(s) <=> Holds(s, m)
  <1>1. DOMAIN s = 1..Len(s)
        BY LenProperties
  <1> QED BY <1>1 DEF ToSet, Holds

(* What a conversation was opened with stays, so that one told apart from  *)
(* the others was so before.                                               *)
LEMMA OpeningsGrow ==
    ASSUME Histories, CodexTypes', Grows, NEW c \in Conversations
    PROVE  Openings(c) \subseteq Openings(c)'
  <1>1. disk[c] \in Seq(Messages) /\ disk'[c] \in Seq(Messages)
        /\ \A m : Holds(disk[c], m) => Holds(disk'[c], m)
        BY DiskGrows
  <1>2. ToSet(disk[c]) \subseteq ToSet(disk'[c])
        BY <1>1, ToSetHolds
  <1> QED BY <1>2 DEF Openings

LEMMA ClearWas ==
    ASSUME Histories, CodexTypes', Grows, NEW c \in Conversations, Clear(c)'
    PROVE  Clear(c) /\ c \notin clashed'
  <1>1. c \notin clashed' /\ \A o \in Conversations \ {c} : Openings(o)' \cap Openings(c)' = {}
        BY DEF Clear
  <1>2. c \notin clashed
        BY <1>1 DEF Grows
  <1>3. \A o \in Conversations : Openings(o) \subseteq Openings(o)'
        BY OpeningsGrow
  <1> QED BY <1>1, <1>2, <1>3 DEF Clear

\* the words a conversation began with are among its openings
LEMMA OpenedWithIsOne ==
    ASSUME Histories, NEW c \in Conversations, disk[c] # <<>>
    PROVE  OpenedWith(c) \in Texts /\ OpenedWith(c) \in Openings(c)
  <1>1. disk[c] \in Seq(Messages) /\ IsUser(disk[c][1]) /\ disk[c][1].text \in Texts
        BY DEF Histories, CodexTypes, Stored
  <1>2. 1 \in 1..Len(disk[c])
        BY <1>1, LenProperties
  <1>3. disk[c][1] \in ToSet(disk[c])
        BY <1>1, <1>2, ToSetHolds DEF Holds
  <1>4. disk[c][1].text # Follow
        BY <1>1, CodexAssumption
  <1> QED BY <1>1, <1>3, <1>4 DEF Openings, OpenedWith, IsUser

LEMMA ClearOpensApart ==
    ASSUME Histories, NEW c \in Conversations, Clear(c), NEW o \in Conversations \ {c},
           disk[c] # <<>>, disk[o] # <<>>
    PROVE  OpenedWith(o) # OpenedWith(c)
  BY OpenedWithIsOne DEF Clear

(* What a child has told its thread.                                       *)
LEMMA ToldKept ==
    ASSUME Histories, CodexNext, CodexTypes', Grows, NEW x \in Runs, run'[x].of # Nobody,
           x \in UnderWay => ToldItsThread(x)
    PROVE  ToldItsThread(x)'
  <1>0. /\ threads \in Seq(Seq(Messages)) /\ threads' \in Seq(Seq(Messages))
        /\ \A i \in 1..Len(threads) : /\ threads[i] \in Seq(Messages)
                                      /\ i \in 1..Len(threads') /\ threads'[i] \in Seq(Messages)
                                      /\ Longer(threads[i], threads'[i])
        BY LenProperties DEF Histories, CodexTypes, Grows
  <1>1. ASSUME NEW i \in 1..Len(threads), NEW m, Holds(threads[i], m)
        PROVE  Holds(threads'[i], m)
        BY <1>0, <1>1, LongerHolds
  <1>2. ASSUME x \in UnderWay, run'[x].of = run[x].of, run'[x].request = run[x].request,
               run'[x].thread = run[x].thread, run'[x].resumed = run[x].resumed,
               AtWork(run'[x]) => AtWork(run[x]),
               run'[x].child = "answered" => run[x].child = "answered",
               run'[x].child = "ended" => run[x].child = "ended"
        PROVE  ToldItsThread(x)'
    <2>1. Latest(x)' = Latest(x)
          BY <1>2 DEF Latest
    <2>2. ReplyTo(x, "codex")' = ReplyTo(x, "codex")
          BY <1>2, <2>1 DEF ReplyTo
    <2>3. AtWork(run[x]) => run[x].thread \in 1..Len(threads)
          BY <1>2, UnderWayFacts DEF RunShape
    <2>4. AtWork(run'[x]) =>
            /\ Holds(threads'[run'[x].thread], Latest(x)')
            /\ run'[x].resumed = 0 =>
                \A k \in 1..Len(run'[x].request) :
                    Holds(threads'[run'[x].thread], run'[x].request[k])
          BY <1>1, <1>2, <2>1, <2>3 DEF ToldItsThread
    <2>5. run'[x].child = "answered" => Holds(threads'[run'[x].thread], ReplyTo(x, "codex")')
          BY <1>1, <1>2, <2>2, <2>3 DEF ToldItsThread, AtWork
    <2>6. run'[x].child = "ended" => Latest(x)' \in unserved'
          BY <1>2, <2>1 DEF ToldItsThread, Grows
    <2> QED BY <2>4, <2>5, <2>6 DEF ToldItsThread
  <1>3. ASSUME run'[x].child \in {"none", "starting"} PROVE ToldItsThread(x)'
        BY <1>3 DEF ToldItsThread, AtWork
  <1>4. CASE x \in UnderWay /\ run'[x] = run[x]
        BY <1>2, <1>4
  <1>5. CASE /\ x \in UnderWay /\ run'[x].child = run[x].child
             /\ run'[x].of = run[x].of /\ run'[x].request = run[x].request
             /\ run'[x].thread = run[x].thread /\ run'[x].resumed = run[x].resumed
        BY <1>2, <1>5 DEF AtWork
  <1>6. CASE UserStops(x)
        BY <1>5, <1>6, InterruptFacts DEF GoesOn
  <1>7. CASE Stall(x)
    <2>1. /\ x \in UnderWay /\ run'[x].of = run[x].of /\ run'[x].request = run[x].request
          /\ run'[x].thread = run[x].thread /\ run'[x].resumed = run[x].resumed
          /\ run[x].child = "working" /\ run'[x].child = "stalled"
          BY <1>7, StallFacts DEF GoesOn
    <2> QED BY <1>2, <2>1 DEF AtWork
  <1>8. CASE Stream(x)
        BY <1>3, <1>8, StreamFacts
  <1>9. CASE SpawnFails(x) \/ TurnFails(x) \/ ExitFails(x)
    <2>1. /\ x \in UnderWay /\ run'[x].request = run[x].request
          /\ run'[x].child = "ended" /\ unserved' = unserved \cup {Latest(x)}
          BY <1>9, FailureFacts DEF GoesOn
    <2>2. Latest(x)' = Latest(x)
          BY <2>1 DEF Latest
    <2> QED BY <2>1, <2>2 DEF ToldItsThread, AtWork
  <1>10. CASE ThreadStarted(x)
    <2>1. /\ x \in UnderWay /\ run'[x].request = run[x].request /\ run'[x].child = "working"
          /\ run'[x].resumed = run[x].resumed
          BY <1>10, StartFacts DEF GoesOn
    <2>2. Latest(x)' = Latest(x) /\ Latest(x) \in Messages /\ Holds(run[x].request, Latest(x))
          BY <2>1, UnderWayFacts DEF Latest
    <2>3. CASE /\ run[x].resumed \in 1..Len(threads)
               /\ run'[x].thread = run[x].resumed
               /\ threads'[run[x].resumed] = threads[run[x].resumed] \o <<Latest(x)>>
      <3>1. run[x].resumed # 0
            BY <2>3, <1>0, LenProperties
      <3>2. Holds(threads'[run[x].resumed], Latest(x))
        <4>1. threads[run[x].resumed] \in Seq(Messages)
              BY <1>0, <2>3
        <4>2. threads[run[x].resumed] \o <<Latest(x)>> = Append(threads[run[x].resumed], Latest(x))
              BY <2>2, <4>1
        <4>3. Holds(Append(threads[run[x].resumed], Latest(x)), Latest(x))
              BY <2>2, <4>1, AppendHolds
        <4>4. threads'[run[x].resumed] = Append(threads[run[x].resumed], Latest(x))
              BY <2>3, <4>2
        <4> QED BY <4>3, <4>4
      <3>3. Holds(threads'[run'[x].thread], Latest(x)') /\ run'[x].resumed # 0
            BY <2>1, <2>2, <2>3, <3>1, <3>2
      <3>4. run'[x].child # "answered" /\ run'[x].child # "ended"
            BY <2>1
      <3> QED BY <3>3, <3>4 DEF ToldItsThread
    <2>4. CASE threads'[run'[x].thread] = run[x].request
          BY <2>1, <2>2, <2>4 DEF ToldItsThread, Holds
    <2>5. \/ /\ run[x].resumed \in 1..Len(threads)
             /\ run'[x].thread = run[x].resumed
             /\ threads'[run[x].resumed] = threads[run[x].resumed] \o <<Latest(x)>>
          \/ threads'[run'[x].thread] = run[x].request
          BY <1>10, StartFacts
    <2> QED BY <2>3, <2>4, <2>5
  <1>11. CASE AgentMessage(x)
    <2>1. /\ x \in UnderWay /\ run'[x].of = run[x].of /\ run'[x].request = run[x].request
          /\ run[x].child = "working" /\ run'[x].child = "answered"
          /\ run'[x].thread = run[x].thread /\ run'[x].resumed = run[x].resumed
          /\ run[x].thread \in 1..Len(threads)
          /\ threads'[run[x].thread] = Append(threads[run[x].thread], ReplyTo(x, "codex"))
          BY <1>11, MessageFacts DEF GoesOn
    <2>2. Latest(x)' = Latest(x)
          BY <2>1 DEF Latest
    <2>3. ReplyTo(x, "codex")' = ReplyTo(x, "codex") /\ ReplyTo(x, "codex") \in Messages
          BY <2>1, <2>2, UnderWayFacts DEF ReplyTo
    <2>4. Holds(threads'[run[x].thread], ReplyTo(x, "codex"))
          BY <1>0, <2>1, <2>3, AppendHolds
    <2>5. /\ Holds(threads[run[x].thread], Latest(x))
          /\ run[x].resumed = 0 =>
                \A k \in 1..Len(run[x].request) : Holds(threads[run[x].thread], run[x].request[k])
          BY <2>1 DEF ToldItsThread, AtWork
    <2>6. /\ Holds(threads'[run[x].thread], Latest(x))
          /\ run[x].resumed = 0 =>
                \A k \in 1..Len(run[x].request) : Holds(threads'[run[x].thread], run[x].request[k])
          BY <1>1, <2>1, <2>5
    <2> QED BY <2>1, <2>2, <2>3, <2>4, <2>6 DEF ToldItsThread
  <1>12. CASE OtherCalls(x)
        BY <1>3, <1>12, CallsFacts
  <1>13. CASE \E c \in Conversations : UserTurn(x, c)
        BY <1>3, <1>13, TurnFacts
  <1> QED BY <1>4, <1>5, <1>6, <1>7, <1>8, <1>9, <1>10, <1>11, <1>12, <1>13, RunGoes

(* Which runs of a conversation are active after a step.                   *)
LEMMA ActiveStep ==
    ASSUME Histories, CodexNext, NEW c \in Conversations, NEW x \in Active(c)'
    PROVE  /\ x \in Runs /\ run'[x].of = c /\ run'[x].stage \in {"asked", "reading"} /\ ~Restart
           /\ \/ UserTurn(x, c)
              \/ /\ x \in Active(c) /\ x \in UnderWay
                 /\ \A m : Holds(run[x].request, m) => Holds(run'[x].request, m)
                 /\ ~RunStep(x) => run'[x] = run[x]
  <1>1. x \in Runs /\ run'[x].of = c /\ run'[x].stage \in {"asked", "reading"} /\ c # Nobody
        BY CodexAssumption DEF Active
  <1>2. ~Restart
    <2> SUFFICES ASSUME Restart PROVE FALSE
        OBVIOUS
    <2>1. run'[x] = Free \/ run'[x].stage = "dropped"
          BY <1>1, RestartFacts
    <2> QED BY <1>1, <2>1 DEF Free
  <1> DEFINE Same == /\ x \in Active(c) /\ x \in UnderWay
                     /\ \A m : Holds(run[x].request, m) => Holds(run'[x].request, m)
                     /\ ~RunStep(x) => run'[x] = run[x]
  <1>3. ASSUME x \in UnderWay, run'[x].of = run[x].of, run[x].stage \in {"asked", "reading"},
               run'[x].request = run[x].request, RunStep(x) \/ run'[x] = run[x]
        PROVE  Same
        BY <1>1, <1>3 DEF Active
  <1>4. ASSUME x \in UnderWay, run'[x] = run[x] PROVE Same
        BY <1>1, <1>3, <1>4
  <1>5. ASSUME Stream(x) \/ SpawnFails(x) \/ TurnFails(x) \/ ExitFails(x) PROVE Same
    <2>1. x \in UnderWay /\ GoesOn(x) /\ run[x].stage \in {"asked", "reading"}
          BY <1>1, <1>5, StreamFacts, FailureFacts
    <2> QED BY <1>3, <1>5, <2>1 DEF GoesOn, RunStep
  <1>6. ASSUME ThreadStarted(x) \/ AgentMessage(x) \/ Stall(x) PROVE Same
    <2>1. x \in UnderWay /\ GoesOn(x) /\ run'[x].stage = run[x].stage
          BY <1>1, <1>6, StartFacts, MessageFacts, StallFacts
    <2> QED BY <1>1, <1>3, <1>6, <2>1 DEF GoesOn, RunStep
  <1>7. ~UserStops(x)
        BY <1>1, InterruptFacts
  <1>8. ASSUME OtherCalls(x) PROVE Same
    <2>1. /\ x \in UnderWay /\ run'[x].of = run[x].of /\ run[x].stage = "asked"
          /\ Longer(run[x].request, run'[x].request)
          /\ run'[x] \in RunRecords
          BY <1>1, <1>8, CallsFacts
    <2>2. \A m : Holds(run[x].request, m) => Holds(run'[x].request, m)
      <3>1. run[x].request \in Seq(Messages) /\ run'[x].request \in Seq(Messages)
            BY <2>1, UnderWayFacts DEF RunRecords
      <3> QED BY <2>1, <3>1, LongerHolds
    <2> QED BY <1>1, <1>8, <2>1, <2>2 DEF Active, RunStep
  <1> HIDE DEF Same
  <1>9. ASSUME NEW o \in Conversations, UserTurn(x, o) PROVE UserTurn(x, c)
    <2>1. run'[x].of = o
          BY <1>1, <1>9, TurnFacts
    <2> QED BY <1>1, <1>9, <2>1
  <1>10. UserTurn(x, c) \/ Same
        BY <1>1, <1>2, <1>4, <1>5, <1>6, <1>7, <1>8, <1>9, RunGoes
  <1> QED BY <1>1, <1>2, <1>10 DEF Same

(* How a step changes a conversation: its run settles it.                  *)
SettlesIt(r, c) ==
    /\ r \in Active(c) /\ r \in UnderWay
    /\ r \notin Active(c)'
    /\ \E a \in Seq(Messages) :
        /\ Settled(r, a)
        /\ \A k \in 1..Len(a) : Told(a[k]) => Exit(r) /\ a[k] = ReplyTo(r, "codex")
                                                     /\ run[r].child = "answered"

LEMMA SettledRuns ==
    ASSUME Histories, CodexNext, NEW r \in UnderWay, NEW c \in Conversations,
           run[r].stage \in {"asked", "reading"}, run'[r].stage \notin {"asked", "reading"},
           NEW a \in Seq(Messages), Settled(r, a),
           \A k \in 1..Len(a) : Told(a[k]) => Exit(r) /\ a[k] = ReplyTo(r, "codex")
                                                     /\ run[r].child = "answered"
    PROVE  (memory'[c] = memory[c] /\ disk'[c] = disk[c]) \/ SettlesIt(r, c)
  <1>1. CASE run[r].of = c
    <2>1. r \in Active(c) /\ r \notin Active(c)'
          BY <1>1, UnderWayFacts DEF Active
    <2> QED BY <2>1 DEF SettlesIt
  <1>2. CASE run[r].of # c
        BY <1>2 DEF Settled
  <1> QED BY <1>1, <1>2

LEMMA SettleStep ==
    ASSUME Histories, CodexNext, NEW c \in Conversations, ~Restart
    PROVE  \/ memory'[c] = memory[c] /\ disk'[c] = disk[c]
           \/ \E r \in Runs : UserTurn(r, c)
           \/ \E r \in Runs : SettlesIt(r, c)
  <1>1. PICK r \in Runs : RunStep(r)
        BY NextIs
  <1>2. CASE \E o \in Conversations : UserTurn(r, o)
    <2>1. PICK o \in Conversations : UserTurn(r, o)
          BY <1>2
    <2>2. \A q \in Conversations \ {o} : disk'[q] = disk[q] /\ memory'[q] = memory[q]
          BY <2>1, TurnFacts
    <2> QED BY <2>1, <2>2
  <1>3. CASE \/ Stream(r) \/ SpawnFails(r) \/ ThreadStarted(r) \/ AgentMessage(r) \/ Stall(r)
             \/ TurnFails(r) \/ ExitFails(r) \/ OtherCalls(r) \/ LeftEnds(r)
        BY <1>3 DEF Stream, SpawnFails, ThreadStarted, AgentMessage, Stall, TurnFails, ExitFails,
           OtherCalls, LeftEnds
  <1>4. CASE Exit(r)
    <2>1. /\ r \in UnderWay /\ run'[r] = Free /\ run[r].stage = "reading"
          /\ SettledWith(r, IF run[r].child = "answered" THEN "codex" ELSE "blank")
          BY <1>4, ExitFacts
    <2> DEFINE who == IF run[r].child = "answered" THEN "codex" ELSE "blank"
               a == <<ReplyTo(r, who)>>
    <2>2. Settled(r, a)
          BY <2>1 DEF SettledWith
    <2>3. ReplyTo(r, who) \in Messages /\ ReplyTo(r, who).who = who
          BY <2>1, UnderWayFacts
    <2>4. a \in Seq(Messages) /\ Len(a) = 1 /\ a[1] = ReplyTo(r, who)
          BY <2>3
    <2>5. Told(a[1]) => a[1] = ReplyTo(r, "codex") /\ run[r].child = "answered"
          BY <2>3, <2>4 DEF Told
    <2> HIDE DEF a
    <2>6. \A k \in 1..Len(a) : Told(a[k]) => Exit(r) /\ a[k] = ReplyTo(r, "codex")
                                                     /\ run[r].child = "answered"
          BY <1>4, <2>4, <2>5
    <2>7. run'[r].stage \notin {"asked", "reading"} /\ run[r].stage \in {"asked", "reading"}
          BY <2>1 DEF Free
    <2> QED BY <2>1, <2>2, <2>4, <2>6, <2>7, SettledRuns
  <1>5. CASE OtherAnswers(r)
    <2>1. /\ r \in UnderWay /\ run'[r] = Free /\ run[r].stage = "asked"
          /\ SettledWith(r, "other")
          BY <1>5, OtherFacts DEF OtherAnswers
    <2> DEFINE a == <<ReplyTo(r, "other")>>
    <2>2. Settled(r, a)
          BY <2>1 DEF SettledWith
    <2>3. ReplyTo(r, "other") \in Messages /\ ReplyTo(r, "other").who = "other"
          BY <2>1, UnderWayFacts
    <2>4. a \in Seq(Messages) /\ Len(a) = 1 /\ ~Told(a[1])
          BY <2>3 DEF Told
    <2> HIDE DEF a
    <2>5. \A k \in 1..Len(a) : ~Told(a[k])
          BY <2>4
    <2>6. run'[r].stage \notin {"asked", "reading"} /\ run[r].stage \in {"asked", "reading"}
          BY <2>1 DEF Free
    <2> QED BY <2>1, <2>2, <2>4, <2>5, <2>6, SettledRuns
  <1>6. CASE RunFails(r) \/ UserStops(r)
    <2>1. /\ r \in UnderWay /\ KeptAsIs(r)
          /\ run[r].stage \in {"asked", "reading"} /\ run'[r].stage \notin {"asked", "reading"}
      <3>1. CASE RunFails(r)
            BY <3>1, EndFacts DEF RunFails, Free
      <3>2. CASE UserStops(r)
            BY <3>2, InterruptFacts DEF UserStops
      <3> QED BY <1>6, <3>1, <3>2
    <2>2. CASE Settled(r, <<>>)
      <3> DEFINE a == <<>>
      <3>1. a \in Seq(Messages) /\ Settled(r, a) /\ \A k \in 1..Len(a) : FALSE
            BY <2>2
      <3> HIDE DEF a
      <3> QED BY <2>1, <3>1, SettledRuns
    <2> QED BY <2>1, <2>2 DEF KeptAsIs
  <1> QED BY <1>1, <1>2, <1>3, <1>4, <1>5, <1>6 DEF RunStep

(* What has been said in a conversation, but by its user's turn or by what *)
(* Codex answered it, had been said before.                                *)
LEMMA SaidStep ==
    ASSUME Histories, CodexTypes', NEW c \in Conversations, NEW r \in Runs, SettlesIt(r, c),
           NEW m, Told(m), Holds(disk'[c], m)
    PROVE  \/ Holds(disk[c], m)
           \/ Exit(r) /\ m = ReplyTo(r, "codex") /\ run[r].child = "answered"
  <1>1. r \in UnderWay /\ run[r].of = c
        BY DEF SettlesIt, Active
  <1>2. PICK a \in Seq(Messages) :
            /\ Settled(r, a)
            /\ \A k \in 1..Len(a) : Told(a[k]) => Exit(r) /\ a[k] = ReplyTo(r, "codex")
                                                         /\ run[r].child = "answered"
        BY DEF SettlesIt
  <1>3. PICK k \in 1..Len(disk'[c]) : disk'[c][k] = m
        BY DEF Holds
  <1>4. \/ k \in 1..Len(disk[c]) /\ disk'[c][k] = disk[c][k]
        \/ Holds(run[r].request, m)
        \/ Holds(a, m)
        BY <1>1, <1>2, <1>3 DEF Settled, Longer
  <1>5. History(run[r].request, disk[c], c)
        BY <1>1, UnderWayFacts
  <1>6. Holds(run[r].request, m) => Holds(disk[c], m)
        BY <1>5 DEF History, Holds
  <1>7. Holds(a, m) => Exit(r) /\ m = ReplyTo(r, "codex") /\ run[r].child = "answered"
        BY <1>2 DEF Holds
  <1> QED BY <1>3, <1>4, <1>6, <1>7 DEF Holds

\* a conversation without two runs at once has one
LEMMA OneRun ==
    ASSUME RunsApart, NEW c \in Conversations \ clashed, NEW r \in Active(c), NEW s \in Active(c)
    PROVE  r = s
  BY DEF RunsApart

(* Nothing that was said is missing from the process.                      *)
LEMMA AllHereKept ==
    ASSUME Histories, RunsApart, CodexNext, CodexTypes', Grows,
           NEW c \in Conversations \ clashed', AllHere(c)
    PROVE  AllHere(c)'
  <1>0. c \notin clashed /\ c \in Conversations /\ c # Nobody
        BY CodexAssumption DEF Grows
  <1>1. ASSUME NEW m, Told(m), Holds(disk[c], m)
        PROVE  /\ memory[c] # <<>> => Holds(memory[c], m)
               /\ \A r \in Active(c) : Holds(run[r].request, m)
        BY <1>1 DEF AllHere, Holds
  <1> SUFFICES ASSUME NEW m, Told(m), Holds(disk'[c], m)
               PROVE  /\ memory'[c] # <<>> => Holds(memory'[c], m)
                      /\ \A x \in Active(c)' : Holds(run'[x].request, m)
      BY DEF AllHere, Holds
  <1>2. CASE Restart
    <2>1. memory'[c] = <<>>
          BY <1>0, <1>2, RestartFacts
    <2>2. Active(c)' = {}
          BY <1>0, <1>2, ActiveStep
    <2> QED BY <2>1, <2>2
  <1>3. ASSUME NEW x \in Active(c)', Holds(disk[c], m), ~UserTurn(x, c)
        PROVE  Holds(run'[x].request, m)
    <2>1. x \in Active(c) /\ \A n : Holds(run[x].request, n) => Holds(run'[x].request, n)
          BY <1>0, <1>3, ActiveStep
    <2> QED BY <1>1, <1>3, <2>1
  <1>4. ASSUME NEW r \in Runs, UserTurn(r, c)
        PROVE  /\ memory'[c] # <<>> => Holds(memory'[c], m)
               /\ \A x \in Active(c)' : Holds(run'[x].request, m)
    <2>0. \E said \in Messages :
           /\ disk' = [disk EXCEPT ![c] = Append(disk[c], said)]
           /\ run'[r].request = Append(Found(c), said)
           /\ Found(c) \in Seq(Messages)
           /\ memory'[c] \in {run'[r].request, <<>>}
           /\ Others(r) /\ run[r] = Free /\ run'[r].of = c
      <3>1. UserTurn(r, c) /\ Histories
            BY <1>0, <1>4
      <3> QED BY <3>1, TurnFacts, SMTT(150)
    <2>1. PICK said \in Messages :
           /\ disk' = [disk EXCEPT ![c] = Append(disk[c], said)]
           /\ run'[r].request = Append(Found(c), said)
           /\ Found(c) \in Seq(Messages)
           /\ memory'[c] \in {run'[r].request, <<>>}
           /\ Others(r) /\ run[r] = Free /\ run'[r].of = c
          BY <2>0
    <2>2. Active(c) = {}
          BY <1>0, <1>4 DEF UserTurn
    <2>3. \A x \in Active(c)' : x = r
          BY <2>1, <2>2 DEF Active, Others
    <2>4. disk[c] \in Seq(Messages) /\ disk'[c] = Append(disk[c], said)
          BY <1>0, <2>1 DEF Histories, CodexTypes
    <2>5. Holds(disk[c], m) \/ m = said
          BY <2>4, AppendHolds DEF Holds
    <2>6. Holds(disk[c], m) => Holds(Found(c), m)
          BY <1>1 DEF Found
    <2>7. Append(Found(c), said) \in Seq(Messages) /\ Longer(Found(c), Append(Found(c), said))
          /\ Holds(Append(Found(c), said), said)
          BY <2>1, AppendHolds
    <2>8. Holds(run'[r].request, m)
      <3>1. \A n : Holds(Found(c), n) => Holds(Append(Found(c), said), n)
            BY <2>1, <2>7, LongerHolds
      <3>2. Holds(Append(Found(c), said), m)
            BY <2>5, <2>6, <2>7, <3>1
      <3> QED BY <2>1, <3>2
    <2> QED BY <2>1, <2>3, <2>8
  <1>5. ASSUME NEW r \in Runs, SettlesIt(r, c), \A x \in Runs : ~UserTurn(x, c)
        PROVE  /\ memory'[c] # <<>> => Holds(memory'[c], m)
               /\ \A x \in Active(c)' : Holds(run'[x].request, m)
    <2>1. r \in Active(c) /\ r \in UnderWay /\ r \notin Active(c)' /\ run[r].of = c
          BY <1>5 DEF SettlesIt, Active
    <2>2. Active(c)' = {}
      <3> SUFFICES ASSUME NEW x \in Active(c)' PROVE FALSE
          OBVIOUS
      <3>1. x \in Active(c)
            BY <1>0, <1>5, ActiveStep
      <3> QED BY <1>0, <2>1, <3>1, OneRun
    <2>3. PICK a \in Seq(Messages) : Settled(r, a)
          BY <1>5 DEF SettlesIt
    <2>4. run[r].request \in Seq(Messages)
          BY <2>1, UnderWayFacts
    <2>5. memory'[c] = run[r].request \o a
          BY <2>1, <2>3 DEF Settled
    <2>6. \A n : Holds(run[r].request, n) \/ Holds(a, n) => Holds(run[r].request \o a, n)
      <3>1. Longer(run[r].request, run[r].request \o a) /\ run[r].request \o a \in Seq(Messages)
            /\ Len(run[r].request \o a) = Len(run[r].request) + Len(a)
            /\ Len(run[r].request) \in Nat /\ Len(a) \in Nat
            /\ \A k \in 1..Len(a) : (run[r].request \o a)[Len(run[r].request) + k] = a[k]
            BY <2>4, CatHolds
      <3>2. \A n : Holds(run[r].request, n) => Holds(run[r].request \o a, n)
        <4>1. memory'[c] \in Seq(Messages) /\ Longer(run[r].request, memory'[c])
              BY <2>5, <3>1
        <4>2. \A n : Holds(run[r].request, n) => Holds(memory'[c], n)
              BY <2>4, <4>1, LongerHolds
        <4> QED BY <2>5, <4>2
      <3>3. \A k \in 1..Len(a) : Len(run[r].request) + k \in 1..Len(run[r].request \o a)
            BY <3>1
      <3>4. ASSUME NEW n, Holds(a, n) PROVE Holds(run[r].request \o a, n)
        <4>1. PICK k \in 1..Len(a) : a[k] = n
              BY <3>4 DEF Holds
        <4>2. (run[r].request \o a)[Len(run[r].request) + k] = n
              BY <3>1, <4>1
        <4> QED BY <3>3, <4>2 DEF Holds
      <3> QED BY <3>2, <3>4
    <2>7. \/ Holds(disk[c], m)
          \/ Holds(run[r].request, m)
          \/ Holds(a, m)
      <3>1. PICK k \in 1..Len(disk'[c]) : disk'[c][k] = m
            BY DEF Holds
      <3>2. k \in 1..Len(disk[c]) \/ Holds(run[r].request, m) \/ Holds(a, m)
            BY <2>1, <2>3, <3>1 DEF Settled
      <3>3. k \in 1..Len(disk[c]) => disk'[c][k] = disk[c][k]
            BY DEF Grows, Longer
      <3> QED BY <3>1, <3>2, <3>3 DEF Holds
    <2>8. Holds(disk[c], m) => Holds(run[r].request, m)
          BY <1>1, <2>1
    <2> QED BY <2>2, <2>5, <2>6, <2>7, <2>8
  <1>6. ASSUME memory'[c] = memory[c], disk'[c] = disk[c], \A x \in Runs : ~UserTurn(x, c)
        PROVE  /\ memory'[c] # <<>> => Holds(memory'[c], m)
               /\ \A x \in Active(c)' : Holds(run'[x].request, m)
    <2>1. \A x \in Active(c)' : x \in Runs
          BY DEF Active
    <2> QED BY <1>1, <1>3, <1>6, <2>1
  <1> QED BY <1>0, <1>2, <1>4, <1>5, <1>6, SettleStep

(* Of a conversation told apart from the others, the thread that is        *)
(* remembered changes at the end of its own run.                           *)
LEMMA SessionKept ==
    ASSUME Histories, CodexNext, NEW c \in Conversations, Clear(c), disk[c] # <<>>,
           ~Restart, \A r \in Active(c) : ~Exit(r)
    PROVE  sessions'[OpenedWith(c)] = sessions[OpenedWith(c)]
  <1>1. sessions \in [Texts -> 0..Len(threads)] /\ OpenedWith(c) \in Texts
        BY OpenedWithIsOne DEF Histories, CodexTypes
  <1>2. ASSUME NEW r \in UnderWay, Exit(r), OpenedWith(run[r].of) \in Texts,
               sessions' = [sessions EXCEPT ![OpenedWith(run[r].of)] = run[r].thread]
        PROVE  sessions'[OpenedWith(c)] = sessions[OpenedWith(c)]
    <2>1. run[r].of \in Conversations /\ disk[run[r].of] # <<>> /\ r \in Runs
          BY UnderWayFacts
    <2>2. run[r].of # c
          BY <1>2, <2>1 DEF Active, Exit
    <2>3. OpenedWith(run[r].of) # OpenedWith(c)
          BY <2>1, <2>2, ClearOpensApart
    <2> QED BY <1>1, <1>2, <2>3
  <1> QED BY <1>2, SessionStep

LEMMA OpeningStays ==
    ASSUME Histories, CodexTypes', Grows, NEW c \in Conversations, disk[c] # <<>>
    PROVE  OpenedWith(c)' = OpenedWith(c) /\ disk'[c] # <<>>
  BY DiskGrows DEF OpenedWith

(* What a run reads from is the thread that is remembered.                 *)
LEMMA ResumesKept ==
    ASSUME Histories, RunsApart, CodexNext, CodexTypes', Grows,
           NEW c \in Conversations, Clear(c), Resumes(c)
    PROVE  Resumes(c)'
  <1> SUFFICES ASSUME NEW x \in Active(c)', run'[x].stage = "reading"
               PROVE  run'[x].resumed = sessions'[OpenedWith(c)']
      BY DEF Resumes
  <1>1. x \in Runs /\ run'[x].of = c /\ c # Nobody /\ ~Restart
        BY ActiveStep, CodexAssumption
  <1>2. ~UserTurn(x, c)
        BY <1>1, TurnFacts
  <1>3. x \in Active(c) /\ x \in UnderWay /\ run[x].of = c
        BY <1>2, ActiveStep DEF Active
  <1>4. disk[c] # <<>> /\ OpenedWith(c)' = OpenedWith(c)
        BY <1>3, UnderWayFacts, OpeningStays
  <1>5. ~Exit(x)
        BY <1>1, <1>3, ExitFacts DEF Free
  <1>6. \A r \in Active(c) : ~Exit(r)
    <2>1. c \in Conversations \ clashed
          BY DEF Clear
    <2> QED BY <1>3, <1>5, <2>1, OneRun
  <1>7. sessions'[OpenedWith(c)] = sessions[OpenedWith(c)]
        BY <1>1, <1>4, <1>6, SessionKept
  <1>8. CASE run[x].stage = "reading" /\ run'[x].resumed = run[x].resumed
        BY <1>3, <1>4, <1>7, <1>8 DEF Resumes
  <1>9. CASE Stream(x)
        BY <1>1, <1>3, <1>4, <1>7, <1>9, StreamFacts
  <1>10. CASE ThreadStarted(x)
        BY <1>1, <1>8, <1>10, StartFacts
  <1>11. CASE AgentMessage(x)
        BY <1>1, <1>8, <1>11, MessageFacts
  <1>12. CASE Stall(x)
        BY <1>1, <1>8, <1>12, StallFacts
  <1>13. ~(SpawnFails(x) \/ TurnFails(x) \/ ExitFails(x)) /\ ~UserStops(x) /\ ~OtherCalls(x)
        BY <1>1, FailureFacts, InterruptFacts, CallsFacts
  <1>14. \A o \in Conversations : ~UserTurn(x, o)
        BY <1>1, TurnFacts
  <1>15. CASE run'[x] = run[x]
        BY <1>8, <1>15
  <1> QED BY <1>1, <1>9, <1>10, <1>11, <1>12, <1>13, <1>14, <1>15, RunGoes

(* A run's own message stays its own, or Codex was not to serve it.        *)
LEMMA OwnStep ==
    ASSUME Histories, CodexNext, CodexTypes', Grows, NEW c \in Conversations, NEW x \in Active(c),
           ToldItsThread(x), ~Restart, ~Exit(x)
    PROVE  \/ x \in Active(c)' /\ Latest(x)' = Latest(x)
           \/ Latest(x) \in unserved'
  <1>1. x \in Runs /\ run[x].of = c /\ run[x].stage \in {"asked", "reading"} /\ c # Nobody
        /\ x \in UnderWay
        BY CodexAssumption DEF Active, UnderWay
  <1>2. ASSUME run'[x].of = c, run'[x].request = run[x].request,
               run'[x].stage \in {"asked", "reading"}
        PROVE  x \in Active(c)' /\ Latest(x)' = Latest(x)
        BY <1>1, <1>2 DEF Active, Latest
  <1>3. CASE ~RunStep(x)
    <2>1. run'[x] = run[x]
          BY <1>1, <1>3, NextIs, OthersStep DEF Others
    <2> QED BY <1>1, <1>2, <2>1
  <1>4. CASE Stream(x)
        BY <1>1, <1>2, <1>4, StreamFacts DEF GoesOn
  <1>5. CASE SpawnFails(x) \/ TurnFails(x) \/ ExitFails(x)
        BY <1>1, <1>5, FailureFacts
  <1>6. CASE ThreadStarted(x)
        BY <1>1, <1>2, <1>6, StartFacts DEF GoesOn
  <1>7. CASE AgentMessage(x)
        BY <1>1, <1>2, <1>7, MessageFacts DEF GoesOn
  <1>8. CASE Stall(x)
        BY <1>1, <1>2, <1>8, StallFacts DEF GoesOn
  <1>9. CASE OtherAnswers(x)
        BY <1>9 DEF OtherAnswers
  <1>10. CASE UserStops(x)
        BY <1>1, <1>10, InterruptFacts
  <1>11. CASE OtherCalls(x)
    <2>1. /\ run'[x].of = c /\ run'[x].stage = "asked"
          /\ Latest(x)' = Latest(x)
          BY <1>1, <1>11, CallsFacts DEF Latest
    <2> QED BY <1>1, <2>1 DEF Active
  <1>12. CASE RunFails(x)
    <2>1. run[x].child = "ended"
          BY <1>12 DEF RunFails
    <2>2. Latest(x) \in unserved
          BY <2>1 DEF ToldItsThread
    <2> QED BY <2>2 DEF Grows
  <1>13. ~LeftEnds(x) /\ \A o \in Conversations : ~UserTurn(x, o)
    <2>1. ~LeftEnds(x)
          BY <1>1 DEF LeftEnds
    <2>2. run[x] # Free
          BY <1>1 DEF Free
    <2>3. \A o \in Conversations : UserTurn(x, o) => run[x] = Free
          BY DEF UserTurn
    <2> QED BY <2>1, <2>2, <2>3
  <1> QED BY <1>3, <1>4, <1>5, <1>6, <1>7, <1>8, <1>9, <1>10, <1>11, <1>12, <1>13 DEF RunStep

(* The thread Codex answered a run from, and what it holds.                *)
LEMMA AnsweredFrom ==
    ASSUME Histories, RunsApart, Following, NEW c \in Conversations, Clear(c),
           NEW r \in Active(c), Exit(r), NEW m, Told(m), Holds(disk[c], m)
    PROVE  /\ run[r].thread \in 1..Len(threads)
           /\ sessions'[OpenedWith(c)] = run[r].thread
           /\ Holds(threads[run[r].thread], m) \/ m \in unserved
  <1>1. r \in Runs /\ run[r].of = c /\ c # Nobody /\ c \notin clashed /\ r \in UnderWay
        BY CodexAssumption DEF Active, Clear, UnderWay
  <1>2. /\ run[r].stage = "reading" /\ AtWork(run[r])
        /\ run[r].thread \in 1..Len(threads)
        /\ run[r].resumed # 0 => run[r].thread = run[r].resumed
        /\ sessions' = IF run[r].resumed = 0
                       THEN [sessions EXCEPT ![OpenedWith(c)] = run[r].thread]
                       ELSE sessions
        BY <1>1, ExitFacts
  <1>3. OpenedWith(c) \in Texts /\ disk[c] # <<>>
        BY <1>1, UnderWayFacts
  <1>4. sessions \in [Texts -> 0..Len(threads)]
        BY DEF Histories, CodexTypes
  <1>5. /\ Holds(threads[run[r].thread], Latest(r))
        /\ run[r].resumed = 0 =>
             \A k \in 1..Len(run[r].request) : Holds(threads[run[r].thread], run[r].request[k])
        BY <1>1, <1>2 DEF Following, ToldItsThread
  <1>6. CASE run[r].resumed = 0
    <2>1. sessions'[OpenedWith(c)] = run[r].thread
          BY <1>2, <1>3, <1>4, <1>6
    <2>2. Holds(run[r].request, m)
          BY <1>1 DEF Following, AllHere, Holds
    <2>3. Holds(threads[run[r].thread], m)
          BY <1>5, <1>6, <2>2 DEF Holds
    <2> QED BY <1>2, <2>1, <2>3
  <1>7. CASE run[r].resumed # 0
    <2>1. run[r].resumed = sessions[OpenedWith(c)]
          BY <1>1, <1>2 DEF Following, Resumes
    <2>2. sessions'[OpenedWith(c)] = run[r].thread /\ sessions[OpenedWith(c)] = run[r].thread
          /\ sessions[OpenedWith(c)] # 0
          BY <1>2, <1>7, <2>1
    <2>3. KnownToCodex(c)
          BY DEF Following
    <2>4. \/ Holds(threads[run[r].thread], m)
          \/ m \in unserved
          \/ \E s \in Active(c) : m = Latest(s)
          BY <1>3, <2>2, <2>3 DEF KnownToCodex, Holds
    <2>5. \A s \in Active(c) : s = r
          BY <1>1, OneRun
    <2> QED BY <1>2, <1>5, <2>2, <2>4, <2>5
  <1> QED BY <1>6, <1>7

(* What a conversation's thread has heard.                                 *)
LEMMA KnownKept ==
    ASSUME Histories, RunsApart, Following, CodexNext, CodexTypes', Stored', Grows,
           NEW c \in Conversations, Clear(c)
    PROVE  KnownToCodex(c)'
  <1> SUFFICES ASSUME disk'[c] # <<>>, sessions'[OpenedWith(c)'] # 0,
                      NEW m, Told(m), Holds(disk'[c], m)
               PROVE  \/ Holds(threads'[sessions'[OpenedWith(c)']], m)
                      \/ m \in unserved'
                      \/ \E x \in Active(c)' : m = Latest(x)'
      BY DEF KnownToCodex, Holds
  <1>0. /\ c \in Conversations \ clashed /\ c # Nobody
        BY CodexAssumption DEF Clear
  <1>1. ~Restart
    <2> SUFFICES ASSUME Restart PROVE FALSE
        OBVIOUS
    <2>1. OpenedWith(c)' \in Texts
      <3>1. disk'[c] # <<>> => disk'[c][1].text \in Texts
            BY <1>0 DEF Stored
      <3> QED BY <3>1 DEF OpenedWith
    <2> QED BY <2>1, RestartFacts
  <1>2. ASSUME NEW i \in 1..Len(threads), Holds(threads[i], m) PROVE Holds(threads'[i], m)
    <2>1. /\ threads[i] \in Seq(Messages) /\ i \in 1..Len(threads')
          /\ threads' \in Seq(Seq(Messages)) /\ Longer(threads[i], threads'[i])
          BY LenProperties DEF Histories, CodexTypes, Grows
    <2>2. threads'[i] \in Seq(Messages)
          BY <2>1
    <2> QED BY <1>2, <2>1, <2>2, LongerHolds
  \* what had been said before, when no answer of Codex ends its run
  <1>3. ASSUME Holds(disk[c], m), \A r \in Active(c) : ~Exit(r)
        PROVE  \/ Holds(threads'[sessions'[OpenedWith(c)']], m)
               \/ m \in unserved'
               \/ \E x \in Active(c)' : m = Latest(x)'
    <2>1. disk[c] # <<>>
      <3>1. disk[c] \in Seq(Messages)
            BY DEF Histories, CodexTypes
      <3> QED BY <1>3, <3>1 DEF Holds
    <2>2. OpenedWith(c)' = OpenedWith(c) /\ OpenedWith(c) \in Texts
          BY <2>1, OpeningStays, OpenedWithIsOne
    <2>3. sessions'[OpenedWith(c)'] = sessions[OpenedWith(c)]
          BY <1>1, <1>3, <2>1, <2>2, SessionKept
    <2>4. sessions[OpenedWith(c)] \in 1..Len(threads)
      <3>1. sessions[OpenedWith(c)] \in 0..Len(threads) /\ Len(threads) \in Nat
            BY <2>2, LenProperties DEF Histories, CodexTypes
      <3> QED BY <2>3, <3>1
    <2>5. KnownToCodex(c)
          BY DEF Following
    <2>6. \/ Holds(threads[sessions[OpenedWith(c)]], m)
          \/ m \in unserved
          \/ \E x \in Active(c) : m = Latest(x)
          BY <1>3, <2>1, <2>3, <2>5 DEF KnownToCodex, Holds
    <2>7. ASSUME NEW x \in Active(c), m = Latest(x)
          PROVE  m \in unserved' \/ \E y \in Active(c)' : m = Latest(y)'
      <3>1. x \in UnderWay
            BY <1>0 DEF Active, UnderWay
      <3>2. ToldItsThread(x)
            BY <3>1 DEF Following
      <3>3. \/ x \in Active(c)' /\ Latest(x)' = Latest(x)
            \/ Latest(x) \in unserved'
            BY <1>0, <1>1, <1>3, <3>2, OwnStep
      <3> QED BY <2>7, <3>3
    <2>8. unserved \subseteq unserved'
          BY DEF Grows
    <2>9. CASE Holds(threads[sessions[OpenedWith(c)]], m)
      <3>1. Holds(threads'[sessions[OpenedWith(c)]], m)
            BY <1>2, <2>4, <2>9
      <3> QED BY <2>3, <3>1
    <2> QED BY <2>6, <2>7, <2>8, <2>9
  <1>4. ASSUME NEW r \in Active(c), Exit(r)
        PROVE  Holds(threads'[sessions'[OpenedWith(c)']], m) \/ m \in unserved'
    <2>1. r \in Runs /\ r \in UnderWay /\ run[r].of = c /\ disk[c] # <<>>
          BY <1>0, UnderWayFacts DEF Active, UnderWay
    <2>2. OpenedWith(c)' = OpenedWith(c)
          BY <2>1, OpeningStays
    <2>3. run'[r] = Free /\ run[r].child \in {"working", "answered"} /\ threads' = threads
          /\ unserved' = unserved
          BY <1>4, <2>1, ExitFacts DEF Exit
    <2>4. CASE Holds(disk[c], m)
      <3>1. /\ sessions'[OpenedWith(c)] = run[r].thread
            /\ Holds(threads[run[r].thread], m) \/ m \in unserved
            BY <1>4, <2>4, AnsweredFrom
      <3> QED BY <2>2, <2>3, <3>1
    <2>5. CASE m = ReplyTo(r, "codex") /\ run[r].child = "answered"
      <3>1. Holds(disk[c], Latest(r)) /\ Told(Latest(r))
            BY <2>1, UnderWayFacts DEF Told, IsUser, Holds
      <3>2. sessions'[OpenedWith(c)] = run[r].thread
            BY <1>4, <3>1, AnsweredFrom
      <3>3. Holds(threads[run[r].thread], m)
            BY <2>1, <2>5 DEF Following, ToldItsThread
      <3> QED BY <2>2, <2>3, <3>2, <3>3
    <2>6. Holds(disk[c], m) \/ (m = ReplyTo(r, "codex") /\ run[r].child = "answered")
      <3>1. CASE disk'[c] = disk[c]
            BY <3>1
      <3>2. ASSUME NEW s \in Runs, UserTurn(s, c) PROVE FALSE
        <4>1. s # r /\ run'[r] = run[r]
              BY <2>1, <1>0, <3>2, TurnFacts DEF Others, Free, UnderWay
        <4> QED BY <2>1, <2>3, <4>1, <1>0 DEF Free, UnderWay
      <3>3. ASSUME NEW s \in Runs, SettlesIt(s, c)
            PROVE  Holds(disk[c], m) \/ (m = ReplyTo(r, "codex") /\ run[r].child = "answered")
        <4>1. s = r
              BY <1>0, <3>3, OneRun DEF SettlesIt
        <4> QED BY <3>3, <4>1, SaidStep
      <3> QED BY <1>1, <3>1, <3>2, <3>3, SettleStep
    <2> QED BY <2>4, <2>5, <2>6
  <1>5. ASSUME NEW r \in Runs, UserTurn(r, c), \A x \in Active(c) : ~Exit(x)
        PROVE  \/ Holds(threads'[sessions'[OpenedWith(c)']], m)
               \/ m \in unserved'
               \/ \E x \in Active(c)' : m = Latest(x)'
    <2>1. PICK said \in Messages :
           /\ disk' = [disk EXCEPT ![c] = Append(disk[c], said)]
           /\ run'[r].request = Append(Found(c), said)
           /\ Found(c) \in Seq(Messages)
           /\ LastUser(run'[r].request, Len(Found(c)) + 1)
           /\ run'[r].of = c /\ run'[r].stage = "asked"
          BY <1>5, TurnFacts, SMTT(60)
    <2>2. /\ Append(Found(c), said)[Len(Found(c)) + 1] = said
          /\ Append(Found(c), said) \in Seq(Messages)
          BY <2>1, AppendHolds
    <2>3. Max(UserAt(Append(Found(c), said))) = Len(Found(c)) + 1
          BY <2>1, <2>2, LastUserIs
    <2>4. Latest(r)' = said /\ r \in Active(c)'
          BY <2>1, <2>2, <2>3 DEF Latest, Active
    <2>5. disk[c] \in Seq(Messages) /\ disk'[c] = Append(disk[c], said)
          BY <2>1 DEF Histories, CodexTypes
    <2>6. Holds(disk[c], m) \/ m = said
          BY <2>5, AppendHolds DEF Holds
    <2> QED BY <1>3, <1>5, <2>4, <2>6
  <1>6. ASSUME \A x \in Active(c) : ~Exit(x), \A x \in Runs : ~UserTurn(x, c)
        PROVE  Holds(disk[c], m)
    <2>1. ASSUME NEW s \in Runs, SettlesIt(s, c) PROVE Holds(disk[c], m)
      <3>1. ~Exit(s)
            BY <1>6, <2>1 DEF SettlesIt
      <3> QED BY <2>1, <3>1, SaidStep
    <2> QED BY <1>1, <1>6, <2>1, SettleStep
  <1> QED BY <1>3, <1>4, <1>5, <1>6

LEMMA FollowingKept ==
    ASSUME Histories, RunsApart, Following, CodexNext, CodexTypes', Stored', Grows
    PROVE  Following'
  <1>1. \A x \in Runs : run'[x].of # Nobody => ToldItsThread(x)'
        BY ToldKept DEF Following
  <1>2. \A c \in Conversations \ clashed' : AllHere(c)'
        BY AllHereKept DEF Following, Grows
  <1>3. ASSUME NEW c \in Conversations, Clear(c)'
        PROVE  KnownToCodex(c)' /\ Resumes(c)'
    <2>1. Clear(c)
          BY <1>3, ClearWas
    <2>2. Resumes(c)
          BY <2>1 DEF Following
    <2> QED BY <2>1, <2>2, KnownKept, ResumesKept
  <1>4. \A c \in Conversations : Clear(c)' => KnownToCodex(c)' /\ Resumes(c)'
        BY <1>3
  <1> QED BY <1>1, <1>2, <1>4 DEF Following, UnderWay

(* The messages a reply was given without.                                 *)
LEMMA AnswerStep ==
    ASSUME CodexNext
    PROVE  \/ answers' = answers
           \/ \E r \in Runs :
                Exit(r) /\ answers' = answers \cup {ToSet(run[r].request) \ ToSet(threads[run[r].thread])}
  <1>1. CASE Restart
        BY <1>1 DEF Restart
  <1>2. ASSUME NEW r \in Runs, RunStep(r), ~Exit(r) PROVE answers' = answers
        BY <1>2 DEF RunStep, UserTurn, Stream, SpawnFails, ThreadStarted, AgentMessage, Stall,
           TurnFails, ExitFails, OtherAnswers, OtherCalls, RunFails, UserStops, LeftEnds, journal
  <1>3. ASSUME NEW r \in Runs, Exit(r)
        PROVE answers' = answers \cup {ToSet(run[r].request) \ ToSet(threads[run[r].thread])}
        BY <1>3 DEF Exit
  <1> QED BY <1>1, <1>2, <1>3, NextIs

LEMMA RepliesKept ==
    ASSUME Histories, RunsApart, Following, Answered, RepliesKnowTheConversation,
           CodexNext, CodexTypes', Grows
    PROVE  Answered' /\ RepliesKnowTheConversation'
  <1> DEFINE Fine(m) == \/ m.who \in {"other", "tool", "blank"}
                        \/ m \in unserved'
                        \/ m.of \in clashed'
                        \/ \E c \in Conversations \ {m.of} : Openings(c)' \cap Openings(m.of)' # {}
  <1>0. \A c \in Conversations : Openings(c) \subseteq Openings(c)'
        BY OpeningsGrow
  <1>1. ASSUME NEW missing \in answers, NEW m \in missing
        PROVE  m \in Messages /\ Fine(m)
    <2>1. m \in Messages
          BY DEF Answered
    <2>2. m.of \in Conversations
          BY <2>1 DEF Messages
    <2>3. \/ m.who \in {"other", "tool", "blank"}
          \/ m \in unserved
          \/ m.of \in clashed
          \/ \E c \in Conversations \ {m.of} : Openings(c) \cap Openings(m.of) # {}
          BY DEF RepliesKnowTheConversation
    <2>4. CASE \E c \in Conversations \ {m.of} : Openings(c) \cap Openings(m.of) # {}
      <3>1. \E c \in Conversations \ {m.of} : Openings(c)' \cap Openings(m.of)' # {}
            BY <1>0, <2>2, <2>4
      <3> QED BY <2>1, <3>1
    <2> QED BY <2>1, <2>3, <2>4 DEF Grows
  <1>2. ASSUME NEW r \in Runs, Exit(r),
               NEW m, m \in ToSet(run[r].request) \ ToSet(threads[run[r].thread])
        PROVE  m \in Messages /\ Fine(m)
    <2> DEFINE c == run[r].of
               h == run[r].thread
    <2>1. /\ r \in UnderWay /\ c \in Conversations /\ run[r].stage = "reading"
          /\ h \in 1..Len(threads)
          BY <1>2, ExitFacts, UnderWayFacts
    <2>2. run[r].request \in Seq(Messages) /\ History(run[r].request, disk[c], c)
          BY <2>1, UnderWayFacts
    <2>3. threads[h] \in Seq(Messages)
          BY <2>1 DEF Histories, CodexTypes
    <2>4. Holds(run[r].request, m) /\ ~Holds(threads[h], m)
          BY <1>2, <2>2, <2>3, ToSetHolds
    <2>5. m \in Messages /\ m.of = c
          BY <2>2, <2>4 DEF Holds, History
    <2>6. Told(m) => Holds(disk[c], m)
          BY <2>2, <2>4 DEF Holds, History
    <2>7. CASE ~Told(m)
      <3>1. m.who \in {"other", "tool", "blank"}
            BY <2>5, <2>7 DEF Told, Messages
      <3> QED BY <2>5, <3>1
    <2>8. CASE c \in clashed
          BY <2>5, <2>8 DEF Grows
    <2>9. CASE \E o \in Conversations \ {c} : Openings(o) \cap Openings(c) # {}
      <3>1. \E o \in Conversations \ {m.of} : Openings(o) \cap Openings(m.of) # {}
            BY <2>5, <2>9
      <3>2. \E o \in Conversations \ {m.of} : Openings(o)' \cap Openings(m.of)' # {}
            BY <1>0, <2>1, <2>5, <3>1
      <3> QED BY <2>5, <3>2
    <2>10. CASE Told(m) /\ Clear(c)
      <3>1. r \in Active(c)
            BY <2>1 DEF Active, UnderWay
      <3>2. Holds(threads[h], m) \/ m \in unserved
            BY <1>2, <2>1, <2>6, <2>10, <3>1, AnsweredFrom
      <3> QED BY <2>4, <2>5, <3>2 DEF Grows
    <2> QED BY <2>7, <2>8, <2>9, <2>10, <2>1 DEF Clear
  <1>3. \A missing \in answers' : \A m \in missing : m \in Messages /\ Fine(m)
    <2> HIDE DEF Fine
    <2> QED BY <1>1, <1>2, AnswerStep
  <1> QED BY <1>3 DEF Answered, RepliesKnowTheConversation

-----------------------------------------------------------------------------
(* The invariant.                                                          *)

LEMMA CodexStarts == ASSUME CodexInit PROVE CodexInv
  <1>1. /\ frontend \in {"chat", "gateway"}
        /\ memory = [c \in Conversations |-> <<>>] /\ disk = [c \in Conversations |-> <<>>]
        /\ sessions = [t \in Texts |-> 0]
        /\ threads = <<>> /\ Len(threads) = 0 /\ run = [r \in Runs |-> Free]
        /\ unserved = {} /\ clashed = {} /\ answers = {}
        BY DEF CodexInit
  <1>2. \A r \in Runs : run[r] = Free /\ run[r] \in RunRecords /\ RunShape(run[r], Len(threads))
        BY <1>1, IdleFacts
  <1>3. UnderWay = {}
        BY <1>2 DEF UnderWay, Free
  <1>4. \A c \in Conversations : disk[c] = <<>> /\ memory[c] = <<>> /\ Active(c) = {}
        BY <1>1, <1>2, CodexAssumption DEF Active, Free
  <1>5. CodexTypes
        BY <1>1, <1>2 DEF CodexTypes
  <1>6. Stored
    <2>1. \A c : History(<<>>, <<>>, c)
          BY DEF History
    <2> QED BY <1>4, <2>1 DEF Stored
  <1>7. Requested /\ Overheard /\ ThreadsOpenAlike /\ NotYetHeard /\ HeardOnce
        BY <1>1, <1>3 DEF Requested, Overheard, ThreadsOpenAlike, NotYetHeard, HeardOnce
  <1>8. RunsApart
        BY <1>3, <1>4 DEF RunsApart
  <1>9. Following
    <2>1. \A c \in Conversations : AllHere(c) /\ KnownToCodex(c) /\ Resumes(c)
          BY <1>4 DEF AllHere, KnownToCodex, Resumes
    <2> QED BY <1>3, <2>1 DEF Following
  <1>10. Answered /\ RepliesKnowTheConversation
        BY <1>1 DEF Answered, RepliesKnowTheConversation
  <1> QED BY <1>5, <1>6, <1>7, <1>8, <1>9, <1>10 DEF CodexInv, Histories

LEMMA CodexGoesOn == ASSUME CodexInv, CodexNext PROVE CodexInv'
  <1>1. Histories' /\ Grows
        BY HistoriesKept DEF CodexInv
  <1>2. CodexTypes' /\ Stored'
        BY <1>1 DEF Histories
  <1>3. ThreadsOpenAlike'
        BY <1>1, <1>2, OpenAlikeKept DEF CodexInv
  <1>4. RunsApart' /\ NotYetHeard' /\ HeardOnce'
        BY <1>1, <1>2, RunsApartKept, NotYetHeardKept, HeardOnceKept DEF CodexInv
  <1>5. Following' /\ Answered' /\ RepliesKnowTheConversation'
        BY <1>1, <1>2, FollowingKept, RepliesKept DEF CodexInv
  <1> QED BY <1>1, <1>3, <1>4, <1>5 DEF CodexInv

LEMMA CodexStutters == ASSUME CodexInv, UNCHANGED codexVars PROVE CodexInv'
  <1>1. UNCHANGED <<frontend, memory, disk, sessions, threads, run, unserved, repeated, clashed, answers>>
        BY DEF codexVars, journal
  <1>2. CodexTypes'
        BY <1>1 DEF CodexInv, Histories, CodexTypes
  <1>3. Stored' /\ Requested' /\ Overheard'
        BY <1>1 DEF CodexInv, Histories, Stored, Requested, Overheard, UnderWay
  <1>4. ThreadsOpenAlike'
        BY <1>1 DEF CodexInv, ThreadsOpenAlike, OpenAlike, OpenedWith, UnderWay
  <1>5. RunsApart'
        BY <1>1 DEF CodexInv, RunsApart, Latest, Active, UnderWay
  <1>6. NotYetHeard'
        BY <1>1 DEF CodexInv, NotYetHeard, Excused, Latest, UnderWay
  <1>7. HeardOnce' /\ Answered'
        BY <1>1 DEF CodexInv, HeardOnce, Answered
  <1>8. RepliesKnowTheConversation'
        BY <1>1 DEF CodexInv, RepliesKnowTheConversation, Openings
  <1>9. Following'
    <2>1. \A r \in UnderWay' : ToldItsThread(r)'
          BY <1>1 DEF CodexInv, Following, ToldItsThread, UnderWay, Latest, ReplyTo
    <2>2. \A c \in Conversations \ clashed' : AllHere(c)'
          BY <1>1 DEF CodexInv, Following, AllHere, Active
    <2>3. ASSUME NEW c \in Conversations, Clear(c)' PROVE KnownToCodex(c)' /\ Resumes(c)'
      <3>1. Clear(c)
            BY <1>1, <2>3 DEF Clear, Openings
      <3>2. KnownToCodex(c) /\ Resumes(c)
            BY <3>1 DEF CodexInv, Following
      <3>3. KnownToCodex(c)'
            BY <1>1, <3>2 DEF KnownToCodex, OpenedWith, Active, Latest
      <3>4. Resumes(c)'
            BY <1>1, <3>2 DEF Resumes, OpenedWith, Active
      <3> QED BY <3>3, <3>4
    <2>4. \A c \in Conversations : Clear(c)' => KnownToCodex(c)' /\ Resumes(c)'
          BY <2>3
    <2> QED BY <2>1, <2>2, <2>4 DEF Following
  <1> QED BY <1>2, <1>3, <1>4, <1>5, <1>6, <1>7, <1>8, <1>9 DEF CodexInv, Histories

\* the threads that began alike are of conversations that were opened alike
LEMMA BeganAlike ==
    ASSUME Histories, ThreadsOpenAlike PROVE SharedThreadsOpenAlike
  <1> SUFFICES ASSUME NEW i \in 1..Len(threads), NEW m \in ToSet(threads[i]), NEW n \in ToSet(threads[i])
               PROVE  Openings(m.of) \cap Openings(n.of) # {}
      BY DEF SharedThreadsOpenAlike
  <1>1. threads[i] \in Seq(Messages)
        BY DEF Histories, CodexTypes
  <1>2. Holds(threads[i], m) /\ Holds(threads[i], n)
        BY <1>1, ToSetHolds
  <1>3. PICK t \in Texts : OpenAlike(i, t)
        BY DEF ThreadsOpenAlike
  <1>4. ASSUME NEW w, Holds(threads[i], w) PROVE t \in Openings(w.of)
    <2>1. PICK k \in 1..Len(threads[i]) : threads[i][k] = w
          BY <1>4 DEF Holds
    <2>2. w.of \in Conversations
      <3>1. w \in Messages
            BY <1>1, <2>1
      <3> QED BY <3>1 DEF Messages
    <2>3. disk[w.of] # <<>> /\ OpenedWith(w.of) = t
          BY <1>3, <2>1 DEF OpenAlike
    <2> QED BY <2>2, <2>3, OpenedWithIsOne
  <1> QED BY <1>2, <1>4

(* The invariant of Codex: what runs, threads and the map of a client hold  *)
(* of the conversations, whatever overlaps, fails or is restarted.         *)
LEMMA CodexInvHolds == CodexSpec => []CodexInv
  <1>1. CodexInit => CodexInv
        BY CodexStarts
  <1>2. CodexInv /\ [CodexNext]_codexVars => CodexInv'
        BY CodexGoesOn, CodexStutters
  <1> QED BY <1>1, <1>2, PTL DEF CodexSpec

(* CodexClient::stream: a thread that is resumed, or replayed into, holds   *)
(* the messages of one conversation only, unless two were opened with the  *)
(* same words, and none of its user's twice, unless another client's calls *)
(* made the agent ask again or two runs of the conversation overlapped.    *)
THEOREM ThreadsStayConversations == CodexSpec => []ThreadsAreConversations
  <1>1. CodexInv => ThreadsAreConversations
        BY BeganAlike DEF CodexInv, ThreadsAreConversations
  <1> QED BY <1>1, CodexInvHolds, PTL

(* CodexClient::stream: what an answer of Codex was given without was said *)
(* by another client, its tools or stream itself, or belongs to a turn     *)
(* Codex did not serve, to a conversation with two runs at once or to one  *)
(* opened like another.                                                    *)
THEOREM RepliesStayKnowing == CodexSpec => []RepliesKnowTheConversation
  <1>1. CodexInv => RepliesKnowTheConversation
        BY DEF CodexInv
  <1> QED BY <1>1, CodexInvHolds, PTL
=============================================================================
