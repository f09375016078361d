--------------------------- MODULE ChannelProofs ----------------------------
(***************************************************************************)
(* Machine-checked proofs about the two channels.                          *)
(***************************************************************************)
EXTENDS QueueChannel, AmqpChannel, SequenceTheorems, FiniteSetTheorems, TLAPS

\* The circuit breaker shared by the shards of an in-process queue channel, for any number of
\* shards, producers and events, any threshold and any buffer: what the breaker says is tied
\* to the deliveries in progress by the stage each shard is at.

\* A shard past Take has an event in hand, and one that is calling its handlers has some left.
StagesMatch == \A s \in Shards :
    /\ stage[s] = "idle" => hand[s] = NoEvent
    /\ stage[s] # "idle" => hand[s] \in Events
    /\ stage[s] \in {"idle", "paced"} => called[s] = 0
    /\ stage[s] = "handling" => called[s] < HandlersOf[hand[s]]

\* Without a threshold the breaker never leaves its initial state.
BreakerUnused == Threshold = 0 => breaker.state = "closed"

ChannelInv == BreakerIsSound /\ StagesMatch /\ BreakerUnused

\* Nothing is half open before the first delivery.
LEMMA InitInv == Init => ChannelInv
  BY ThresholdAssumption DEF Init, ChannelInv, BreakerIsSound, TypeOK, ClosedIsBelowThreshold, HalfOpenHasAReporter,
         StagesMatch, BreakerUnused, ClosedBreaker, BreakerState

\* A step that leaves the shards and the breaker alone keeps all but the types.
LEMMA ProducerStep ==
    ASSUME ChannelInv, NEW p \in Producers, CancelRequest(p) \/ Publish(p) \/ PublishRefused(p)
    PROVE  ChannelInv'
<1> USE DEF ChannelInv, BreakerIsSound
<1>1. UNCHANGED <<shardState, breaker, reached>>
  BY DEF CancelRequest, Publish, PublishRefused
<1>2. ClosedIsBelowThreshold' /\ HalfOpenHasAReporter' /\ StagesMatch' /\ BreakerUnused'
  BY <1>1 DEF ClosedIsBelowThreshold, HalfOpenHasAReporter, StagesMatch, BreakerUnused, Delivering, shardState
<1>3. sentUpTo' \in [Producers -> Nat] /\ cancelled' \subseteq Producers
  BY DEF CancelRequest, Publish, PublishRefused, TypeOK
<1>4. items' \in [Shards -> Seq(Events)]
  <2>1. CASE Publish(p)
    <3>1. sentUpTo[p] + 1 \in 1..Len(Sends[p]) /\ Sends[p] \in Seq(Events)
      <4>1. Sends[p] \in Seq(Events) /\ sentUpTo[p] \in Nat /\ Len(Sends[p]) \in Nat
        BY SendsAssumption, LenProperties DEF TypeOK
      <4> QED BY <2>1, <4>1 DEF Publish, Publishing
    <3>2. NextEvent(p) \in Events
      BY <3>1 DEF NextEvent
    <3> QED BY <2>1, <3>2, KeyAssumption DEF Publish, TypeOK
  <2> QED BY <2>1 DEF CancelRequest, PublishRefused, TypeOK
<1> QED BY <1>1, <1>2, <1>3, <1>4 DEF TypeOK, shardState

\* A shard that is not delivering takes up or puts down an event: the breaker waits for others.
LEMMA PickStep ==
    ASSUME ChannelInv, NEW s \in Shards, Take(s) \/ Skip(s)
    PROVE  ChannelInv'
<1> USE DEF ChannelInv, BreakerIsSound
<1>1. UNCHANGED <<sentUpTo, cancelled, breaker, reached>>
  BY DEF Take, Skip
<1>2. TypeOK' /\ StagesMatch'
  <2>1. CASE Take(s)
    <3>1. Head(items[s]) \in Events /\ Tail(items[s]) \in Seq(Events)
      BY <2>1 DEF Take, TypeOK
    <3>2. TypeOK'
      <4>1. items' \in [Shards -> Seq(Events)] /\ hand' \in [Shards -> Events \cup {NoEvent}]
        BY <2>1, <3>1 DEF Take, TypeOK
      <4>2. called[s] = 0 /\ HandlersOf[Head(items[s])] \in Nat
        BY <2>1, <3>1, SizeAssumption DEF Take, StagesMatch
      <4>3. \A z \in Shards : hand'[z] # NoEvent => called'[z] <= HandlersOf[hand'[z]]
        BY <2>1, <4>2 DEF Take, TypeOK
      <4> QED BY <2>1, <4>1, <4>3 DEF Take, TypeOK
    <3>3. StagesMatch'
      BY <2>1, <3>1, NoEventAssumption DEF Take, TypeOK, StagesMatch
    <3> QED BY <3>2, <3>3
  <2>2. CASE Skip(s)
    BY <2>2 DEF Skip, PutDown, TypeOK, StagesMatch
  <2> QED BY <2>1, <2>2
<1>3. HalfOpenHasAReporter'
  <2>1. \A z \in Shards : Delivering(z) => Delivering(z)'
    BY DEF Take, Skip, PutDown, Delivering, TypeOK
  <2> QED BY <1>1, <2>1 DEF HalfOpenHasAReporter
<1>4. ClosedIsBelowThreshold' /\ BreakerUnused'
  BY <1>1 DEF ClosedIsBelowThreshold, BreakerUnused
<1> QED BY <1>2, <1>3, <1>4

\* Allow: whoever it lets through, as the probe or not, is now on its way.
LEMMA AdmitStep ==
    ASSUME ChannelInv, NEW s \in Shards, Admit(s)
    PROVE  ChannelInv'
<1> USE DEF ChannelInv, BreakerIsSound
<1>1. breaker' \in BreakerState /\ ClosedIsBelowThreshold' /\ BreakerUnused'
      /\ (breaker.state = "halfOpen" <=> breaker.probing)'
  BY DEF Admit, AfterAllow, IsProbe, Admits, BreakerState, TypeOK, ClosedIsBelowThreshold,
         BreakerUnused, HalfOpenHasAReporter
<1>2. Delivering(s)'
  BY DEF Admit, Delivering, TypeOK
<1>3. hand[s] \in Events /\ HandlersOf[hand[s]] \in Nat /\ called[s] = 0
  BY NoEventAssumption, SizeAssumption DEF Admit, StagesMatch
<1>4. StagesMatch'
  BY <1>3 DEF Admit, StagesMatch, TypeOK
<1>5. TypeOK'
  <2>1. IsProbe(breaker) \in BOOLEAN /\ (HandlersOf[hand[s]] = 0) \in BOOLEAN
    BY DEF IsProbe
  <2>2. probe' \in [Shards -> BOOLEAN] /\ success' \in [Shards -> BOOLEAN]
    BY <2>1, Zenon DEF Admit, TypeOK
  <2> QED BY <1>1, <2>2 DEF Admit, TypeOK
<1> QED BY <1>1, <1>2, <1>4, <1>5 DEF HalfOpenHasAReporter

\* A handler returns, fails or panics: the delivery goes on, and will be recorded.
LEMMA HandlerStep ==
    ASSUME ChannelInv, NEW s \in Shards, HandlerReturns(s) \/ HandlerFails(s)
    PROVE  ChannelInv'
<1> USE DEF ChannelInv, BreakerIsSound
<1>1. UNCHANGED <<sentUpTo, cancelled, items, hand, probe, breaker>>
  BY DEF HandlerReturns, HandlerFails
<1>2. hand[s] \in Events /\ HandlersOf[hand[s]] \in Nat /\ called[s] \in Nat
      /\ called[s] < HandlersOf[hand[s]]
  BY NoEventAssumption, SizeAssumption DEF HandlerReturns, HandlerFails, StagesMatch, TypeOK
<1>3. TypeOK' /\ StagesMatch'
  <2>1. CASE HandlerReturns(s)
    <3>1. called' = [called EXCEPT ![s] = @ + 1]
      BY <2>1 DEF HandlerReturns
    <3>2. called' \in [Shards -> Nat] /\ called'[s] <= HandlersOf[hand[s]]
      BY <1>2, <3>1 DEF TypeOK
    <3>3. CASE called[s] + 1 = HandlersOf[hand[s]]
      <4>1. /\ success' = [success EXCEPT ![s] = TRUE]
            /\ stage' = [stage EXCEPT ![s] = "record"]
            /\ reached' = reached \union {hand[s]}
        BY <2>1, <3>3 DEF HandlerReturns
      <4>2. TypeOK'
        BY <1>1, <1>2, <3>1, <3>2, <4>1 DEF TypeOK
      <4>3. StagesMatch'
        BY <1>1, <1>2, <3>1, <4>1 DEF TypeOK, StagesMatch
      <4> QED BY <4>2, <4>3
    <3>4. CASE called[s] + 1 # HandlersOf[hand[s]]
      <4>1. UNCHANGED <<success, stage>> /\ called'[s] < HandlersOf[hand[s]]
        BY <1>2, <2>1, <3>1, <3>4 DEF HandlerReturns, TypeOK
      <4> QED BY <1>1, <1>2, <2>1, <3>1, <3>2, <4>1 DEF HandlerReturns, TypeOK, StagesMatch
    <3> QED BY <3>3, <3>4
  <2>2. CASE HandlerFails(s)
    BY <1>1, <1>2, <2>2 DEF HandlerFails, TypeOK, StagesMatch
  <2> QED BY <2>1, <2>2
<1>4. HalfOpenHasAReporter'
  <2>1. \A z \in Shards : Delivering(z) => Delivering(z)'
    BY DEF HandlerReturns, HandlerFails, Delivering, TypeOK
  <2> QED BY <1>1, <2>1 DEF HalfOpenHasAReporter
<1> QED BY <1>1, <1>3, <1>4 DEF ClosedIsBelowThreshold, BreakerUnused

\* Record: the breaker counts the outcome, and is half open no longer.
LEMMA RecordStep ==
    ASSUME ChannelInv, NEW s \in Shards, Record(s)
    PROVE  ChannelInv'
<1> USE DEF ChannelInv, BreakerIsSound
<1>1. breaker' \in BreakerState /\ ClosedIsBelowThreshold' /\ BreakerUnused'
      /\ breaker'.state # "halfOpen" /\ ~breaker'.probing
  <2>1. CASE Threshold = 0
    BY <2>1 DEF Record, TypeOK, BreakerState, ClosedIsBelowThreshold, BreakerUnused, HalfOpenHasAReporter
  <2>2. CASE Threshold # 0
    <3>1. breaker' = AfterRecord(breaker, success[s]) /\ breaker \in BreakerState
      BY <2>2 DEF Record, TypeOK
    <3>2. breaker.failures \in Nat /\ breaker.state \in {"closed", "open", "halfOpen"}
      BY <3>1 DEF BreakerState
    <3>3. CASE success[s]
      BY <2>2, <3>1, <3>3, ThresholdAssumption DEF AfterRecord, ClosedBreaker, BreakerState, ClosedIsBelowThreshold, BreakerUnused
    <3>4. CASE ~success[s] /\ (breaker.state = "halfOpen" \/ breaker.failures + 1 >= Threshold)
      BY <2>2, <3>1, <3>2, <3>4 DEF AfterRecord, BreakerState, ClosedIsBelowThreshold, BreakerUnused
    <3>5. CASE ~success[s] /\ ~(breaker.state = "halfOpen" \/ breaker.failures + 1 >= Threshold)
      <4>1. breaker' = [breaker EXCEPT !.failures = @ + 1, !.probing = FALSE]
        BY <3>1, <3>5 DEF AfterRecord
      <4>2. /\ breaker'.state = breaker.state /\ breaker'.failures = breaker.failures + 1
            /\ ~breaker'.probing /\ breaker' \in BreakerState
        <5>1. breaker' = [state |-> breaker.state, failures |-> breaker.failures + 1,
                          probing |-> FALSE, cooled |-> breaker.cooled]
          BY <3>1, <4>1 DEF BreakerState
        <5>2. breaker.cooled \in BOOLEAN /\ breaker.failures + 1 \in Nat
          BY <3>1, <3>2 DEF BreakerState
        <5> QED BY <3>2, <5>1, <5>2 DEF BreakerState
      <4>3. breaker.failures + 1 < Threshold
        BY <3>2, <3>5, ThresholdAssumption
      <4> QED BY <2>2, <3>5, <4>2, <4>3 DEF ClosedIsBelowThreshold, BreakerUnused
    <3> QED BY <3>3, <3>4, <3>5
  <2> QED BY <2>1, <2>2
<1>2. TypeOK' /\ StagesMatch'
  BY <1>1 DEF Record, PutDown, TypeOK, StagesMatch
<1> QED BY <1>1, <1>2 DEF HalfOpenHasAReporter

\* The cooldown only marks an open breaker.
LEMMA CoolStep == ASSUME ChannelInv, Cool PROVE ChannelInv'
  BY DEF Cool, CanCool, Cooled, ChannelInv, BreakerIsSound, TypeOK, BreakerState, ClosedIsBelowThreshold,
         HalfOpenHasAReporter, StagesMatch, BreakerUnused, Delivering, shardState

LEMMA StutterStep == ASSUME ChannelInv, UNCHANGED vars PROVE ChannelInv'
  BY DEF vars, shardState, ChannelInv, BreakerIsSound, TypeOK, ClosedIsBelowThreshold,
         HalfOpenHasAReporter, StagesMatch, BreakerUnused, Delivering

\* The inductive invariant: what the breaker says fits the stages the shards are at.
THEOREM ChannelInvariant == Spec => []ChannelInv
<1>1. ChannelInv /\ [Next]_vars => ChannelInv'
  BY ProducerStep, PickStep, AdmitStep, HandlerStep, RecordStep, CoolStep, StutterStep DEF Next, ShardStep
<1> QED BY <1>1, InitInv, PTL DEF Spec

\* A closed breaker counted fewer failures than its threshold, and a half-open one is
\* waiting for a delivery that will report (CircuitBreaker.Allow and Record, deliver).
THEOREM SoundBreaker == Spec => []BreakerIsSound
<1>1. ChannelInv => BreakerIsSound
  BY DEF ChannelInv
<1> QED BY <1>1, ChannelInvariant, PTL

-----------------------------------------------------------------------------
(* The order of a key: the channel is the abstract queue of KeyedFifo. *)

\* Induction over the naturals, in the form of a set: without n, a set that holds 0 and a
\* successor of each of its members would be mapped one to one into itself less 0.
LEMMA Induction ==
    ASSUME NEW S, 0 \in S, \A n \in Nat : n \in S => n + 1 \in S
    PROVE  Nat \subseteq S
<1> SUFFICES ASSUME NEW n \in Nat, n \notin S PROVE FALSE
  OBVIOUS
<1> DEFINE A == {i \in 0..n : i \in S}
           B == A \ {0}
           up == [i \in A |-> i + 1]
<1>1. 0 \in A /\ A \subseteq 0..n /\ \A i \in A : i + 1 \in B
  OBVIOUS
<1>2. up \in [A -> B] /\ \A i, j \in A : up[i] = up[j] => i = j
  BY <1>1
<1> HIDE DEF A, up
<1>3. IsFiniteSet(A)
  <2>1. IsFiniteSet(0..n)
    BY FS_Interval
  <2> QED BY <1>1, <2>1, FS_Subset
<1>4. IsFiniteSet(B) /\ Cardinality(B) < Cardinality(A)
  <2>1. Cardinality(A) \in Nat
    BY <1>3, FS_CardinalityType
  <2>2. IsFiniteSet(B) /\ Cardinality(B) = Cardinality(A) - 1
    BY <1>1, <1>3, FS_RemoveElement
  <2> QED BY <2>1, <2>2
<1> HIDE DEF B
<1>5. \E i, j \in A : i # j /\ up[i] = up[j]
  BY <1>2, <1>3, <1>4, FS_PigeonHole
<1> QED BY <1>2, <1>5

\* The events of key k in q, as far as each position of q.
Kept(f, q, k, n) ==
    f = [i \in 0..n |-> IF i = 0 THEN <<>>
                        ELSE IF KeyOf[q[i]] = k THEN Append(f[i - 1], q[i]) ELSE f[i - 1]]

\* A function that follows the walk is the walk.
LEMMA KeptFrom ==
    ASSUME NEW g, NEW q, NEW k, NEW n \in Nat, g = [i \in 0..n |-> g[i]], g[0] = <<>>,
           \A i \in 1..n : g[i] = IF KeyOf[q[i]] = k THEN Append(g[i - 1], q[i]) ELSE g[i - 1]
    PROVE  Kept(g, q, k, n)
<1> DEFINE h == [i \in 0..n |-> IF i = 0 THEN <<>>
                        ELSE IF KeyOf[q[i]] = k THEN Append(g[i - 1], q[i]) ELSE g[i - 1]]
<1>1. \A i \in 0..n : i = 0 \/ i \in 1..n
  OBVIOUS
<1>2. \A i \in 0..n : g[i] = IF i = 0 THEN <<>>
                        ELSE IF KeyOf[q[i]] = k THEN Append(g[i - 1], q[i]) ELSE g[i - 1]
  BY <1>1, Zenon
<1>3. h = [i \in 0..n |-> g[i]]
  BY <1>2, Zenon
<1> QED BY <1>3, Zenon DEF Kept

\* What each position of the walk adds.
LEMMA KeptSteps ==
    ASSUME NEW f, NEW q, NEW k, NEW n \in Nat, Kept(f, q, k, n)
    PROVE  /\ DOMAIN f = 0..n /\ f = [i \in 0..n |-> f[i]] /\ f[0] = <<>>
           /\ \A i \in 1..n : f[i] = IF KeyOf[q[i]] = k THEN Append(f[i - 1], q[i]) ELSE f[i - 1]
<1> DEFINE h == [i \in 0..n |-> IF i = 0 THEN <<>>
                        ELSE IF KeyOf[q[i]] = k THEN Append(f[i - 1], q[i]) ELSE f[i - 1]]
<1>1. f = h
  BY Zenon DEF Kept
<1>2. DOMAIN h = 0..n /\ h = [i \in 0..n |-> h[i]]
  BY Zenon
<1>3. \A i \in 0..n : h[i] = IF i = 0 THEN <<>>
                        ELSE IF KeyOf[q[i]] = k THEN Append(f[i - 1], q[i]) ELSE f[i - 1]
  BY Zenon
<1> HIDE DEF h
<1>4. 0 \in 0..n /\ \A i \in 1..n : i \in 0..n /\ i # 0
  OBVIOUS
<1>5. h[0] = <<>>
  BY <1>3, <1>4, Zenon
<1>6. \A i \in 1..n : h[i] = IF KeyOf[q[i]] = k THEN Append(f[i - 1], q[i]) ELSE f[i - 1]
  BY <1>3, <1>4, Zenon
<1> QED BY <1>1, <1>2, <1>5, <1>6, Zenon

\* The recursion is defined along every sequence.
LEMMA KeptExists ==
    ASSUME NEW q, NEW k, NEW n \in Nat
    PROVE  \E f : Kept(f, q, k, n)
<1> DEFINE S == {m \in Nat : \E f : Kept(f, q, k, m)}
<1>1. 0 \in S
  <2> DEFINE g == [i \in 0..0 |-> <<>>]
  <2>1. g = [i \in 0..0 |-> g[i]] /\ g[0] = <<>>
    OBVIOUS
  <2> HIDE DEF g
  <2>2. \A i \in 1..0 : g[i] = IF KeyOf[q[i]] = k THEN Append(g[i - 1], q[i]) ELSE g[i - 1]
    OBVIOUS
  <2>3. Kept(g, q, k, 0)
    BY <2>1, <2>2, KeptFrom, Zenon
  <2> QED BY <2>3
<1>2. ASSUME NEW m \in Nat, m \in S PROVE m + 1 \in S
  <2>1. PICK f : Kept(f, q, k, m)
    BY <1>2
  <2> DEFINE next == IF KeyOf[q[m + 1]] = k THEN Append(f[m], q[m + 1]) ELSE f[m]
             g == [i \in 0..m + 1 |-> IF i = m + 1 THEN next ELSE f[i]]
  <2>2. g[m + 1] = next /\ g = [i \in 0..m + 1 |-> g[i]] /\ \A i \in 0..m : g[i] = f[i]
    OBVIOUS
  <2> HIDE DEF g
  <2>3. f[0] = <<>> /\ \A i \in 1..m : f[i] = IF KeyOf[q[i]] = k THEN Append(f[i - 1], q[i]) ELSE f[i - 1]
    BY <2>1, KeptSteps
  <2>4. \A i \in 1..m + 1 : g[i] = IF KeyOf[q[i]] = k THEN Append(g[i - 1], q[i]) ELSE g[i - 1]
    <3> SUFFICES ASSUME NEW i \in 1..m + 1
                 PROVE  g[i] = IF KeyOf[q[i]] = k THEN Append(g[i - 1], q[i]) ELSE g[i - 1]
      OBVIOUS
    <3>0. i - 1 \in 0..m
      OBVIOUS
    <3>1. g[i - 1] = f[i - 1]
      BY <2>2, <3>0, Zenon
    <3>2. CASE i = m + 1
      BY <2>2, <3>1, <3>2
    <3>3. CASE i # m + 1
      <4>1. i \in 1..m /\ i \in 0..m
        BY <3>3
      <4>2. g[i] = f[i]
        BY <2>2, <4>1, Zenon
      <4> QED BY <2>3, <3>1, <4>1, <4>2, Zenon
    <3> QED BY <3>2, <3>3
  <2>5. 0 \in 0..m /\ m + 1 \in Nat
    OBVIOUS
  <2>6. g[0] = <<>>
    BY <2>2, <2>3, <2>5, Zenon
  <2>7. Kept(g, q, k, m + 1)
    BY <2>2, <2>4, <2>5, <2>6, KeptFrom, Zenon
  <2> QED BY <2>7
<1> HIDE DEF S
<1>3. Nat \subseteq S
  BY <1>1, <1>2, Induction
<1> QED BY <1>3 DEF S

\* OfKey as a walk along the sequence.
Walks(f, q, k) ==
    /\ f \in [0..Len(q) -> Seq(Events)]
    /\ f[0] = <<>>
    /\ \A i \in 1..Len(q) : f[i] = IF KeyOf[q[i]] = k THEN Append(f[i - 1], q[i]) ELSE f[i - 1]

LEMMA OfKeyWalk ==
    ASSUME NEW q \in Seq(Events), NEW k
    PROVE  \E f : Walks(f, q, k) /\ OfKey(q, k) = f[Len(q)]
<1>1. Len(q) \in Nat /\ \A i \in 1..Len(q) : q[i] \in Events
  BY LenProperties, ElementOfSeq
<1> DEFINE f == CHOOSE h : Kept(h, q, k, Len(q))
<1>2. Kept(f, q, k, Len(q))
  BY <1>1, KeptExists
<1>3. OfKey(q, k) = f[Len(q)]
  BY Zenon DEF OfKey, Kept
<1> HIDE DEF f
<1>4. /\ f = [i \in 0..Len(q) |-> f[i]] /\ f[0] = <<>>
      /\ \A i \in 1..Len(q) : f[i] = IF KeyOf[q[i]] = k THEN Append(f[i - 1], q[i]) ELSE f[i - 1]
  BY <1>1, <1>2, KeptSteps
<1>5. \A i \in 0..Len(q) : f[i] \in Seq(Events)
  <2> DEFINE S == {i \in Nat : i <= Len(q) => f[i] \in Seq(Events)}
  <2>1. 0 \in S
    BY <1>4, EmptySeq
  <2>2. ASSUME NEW n \in Nat, n \in S PROVE n + 1 \in S
    <3> SUFFICES ASSUME n + 1 <= Len(q) PROVE f[n + 1] \in Seq(Events)
      OBVIOUS
    <3>1. n + 1 \in 1..Len(q) /\ (n + 1) - 1 = n /\ f[n] \in Seq(Events) /\ q[n + 1] \in Events
      BY <1>1, <2>2
    <3>2. f[n + 1] = IF KeyOf[q[n + 1]] = k THEN Append(f[n], q[n + 1]) ELSE f[n]
      BY <1>4, <3>1, Zenon
    <3> QED BY <3>1, <3>2, AppendProperties
  <2> HIDE DEF S
  <2>3. Nat \subseteq S
    BY <2>1, <2>2, Induction
  <2> QED BY <1>1, <2>3 DEF S
<1>6. f \in [0..Len(q) -> Seq(Events)]
  BY <1>4, <1>5
<1>7. Walks(f, q, k)
  BY <1>4, <1>6, Zenon DEF Walks
<1> QED BY <1>3, <1>7, Zenon

\* Nothing waits in an empty sequence.
LEMMA OfKeyEmpty ==
    ASSUME NEW k PROVE OfKey(<<>>, k) = <<>>
<1>1. <<>> \in Seq(Events) /\ Len(<<>>) = 0
  BY EmptySeq
<1> DEFINE q == <<>>
<1> HIDE DEF q
<1>2. PICK f : Walks(f, q, k) /\ OfKey(q, k) = f[Len(q)]
  BY <1>1, OfKeyWalk DEF q
<1>3. OfKey(q, k) = <<>>
  BY <1>1, <1>2, Zenon DEF Walks, q
<1> QED BY <1>3 DEF q

\* What is sent waits behind the others of its key.
LEMMA OfKeyAppend ==
    ASSUME NEW q \in Seq(Events), NEW e \in Events, NEW k
    PROVE  OfKey(Append(q, e), k) = IF KeyOf[e] = k THEN Append(OfKey(q, k), e) ELSE OfKey(q, k)
<1> DEFINE p == Append(q, e)
<1>1. p \in Seq(Events) /\ Len(p) = Len(q) + 1 /\ p[Len(q) + 1] = e /\ Len(q) \in Nat /\ \A i \in 1..Len(q) : p[i] = q[i]
  BY AppendProperties, LenProperties
<1> HIDE DEF p
<1>2. PICK f : Walks(f, q, k) /\ OfKey(q, k) = f[Len(q)]
  BY OfKeyWalk
<1>3. PICK g : Walks(g, p, k) /\ OfKey(p, k) = g[Len(p)]
  BY <1>1, OfKeyWalk
<1> USE DEF Walks
<1>4. g[Len(q)] = f[Len(q)]
  <2> DEFINE S == {i \in Nat : i <= Len(q) => g[i] = f[i]}
  <2>1. 0 \in S
    BY <1>2, <1>3
  <2>2. ASSUME NEW n \in Nat, n \in S PROVE n + 1 \in S
    <3> SUFFICES ASSUME n + 1 <= Len(q) PROVE g[n + 1] = f[n + 1]
      OBVIOUS
    <3>1. n + 1 \in 1..Len(q) /\ n + 1 \in 1..Len(p) /\ (n + 1) - 1 = n /\ g[n] = f[n]
      BY <1>1, <2>2
    <3>2. f[n + 1] = IF KeyOf[q[n + 1]] = k THEN Append(f[n], q[n + 1]) ELSE f[n]
      BY <1>2, <3>1
    <3>3. g[n + 1] = IF KeyOf[p[n + 1]] = k THEN Append(g[n], p[n + 1]) ELSE g[n]
      BY <1>3, <3>1
    <3> QED BY <1>1, <3>1, <3>2, <3>3
  <2> HIDE DEF S
  <2>3. Nat \subseteq S
    BY <2>1, <2>2, Induction
  <2> QED BY <1>1, <2>3 DEF S
<1>5. g[Len(p)] = IF KeyOf[e] = k THEN Append(g[Len(q)], e) ELSE g[Len(q)]
  BY <1>1, <1>3
<1> QED BY <1>2, <1>3, <1>4, <1>5 DEF p

\* What is appended to the second of two sequences ends up last.
LEMMA AppendBehind ==
    ASSUME NEW s \in Seq(Events), NEW t \in Seq(Events), NEW e \in Events
    PROVE  Append(s \o t, e) = s \o Append(t, e)
<1> DEFINE u == <<e>>
<1>1. u \in Seq(Events) /\ s \o t \in Seq(Events)
  BY ConcatProperties
<1>2. Append(s \o t, e) = (s \o t) \o u /\ Append(t, e) = t \o u
  BY <1>1, AppendIsConcat
<1> HIDE DEF u
<1>3. (s \o t) \o u = s \o (t \o u)
  BY <1>1, ConcatAssociative
<1> QED BY <1>2, <1>3

\* What a shard has in hand is the first of its key.
LEMMA OfKeyCons ==
    ASSUME NEW q \in Seq(Events), NEW e \in Events, NEW k
    PROVE  OfKey(<<e>> \o q, k) = IF KeyOf[e] = k THEN <<e>> \o OfKey(q, k) ELSE OfKey(q, k)
<1> DEFINE p == <<e>> \o q
           first == IF KeyOf[e] = k THEN <<e>> ELSE <<>>
<1>1. /\ p \in Seq(Events) /\ Len(p) = Len(q) + 1 /\ p[1] = e /\ Len(q) \in Nat
      /\ \A i \in 1..Len(q) : p[i + 1] = q[i]
  <2>1. <<e>> \in Seq(Events) /\ Len(<<e>>) = 1 /\ <<e>>[1] = e /\ Len(q) \in Nat
    BY LenProperties
  <2> HIDE DEF p
  <2>2. /\ p \in Seq(Events) /\ Len(p) = 1 + Len(q)
        /\ \A i \in 1..1 + Len(q) : p[i] = IF i <= 1 THEN <<e>>[i] ELSE q[i - 1]
    BY <2>1, ConcatProperties DEF p
  <2> QED BY <2>1, <2>2
<1> HIDE DEF p
<1>2. PICK f : Walks(f, q, k) /\ OfKey(q, k) = f[Len(q)]
  BY OfKeyWalk
<1>3. PICK g : Walks(g, p, k) /\ OfKey(p, k) = g[Len(p)]
  BY <1>1, OfKeyWalk
<1> USE DEF Walks
<1>4. first \in Seq(Events)
  OBVIOUS
<1>5. g[1] = first
  <2>1. 1 \in 1..Len(p) /\ 1 - 1 = 0
    BY <1>1
  <2>2. g[1] = IF KeyOf[p[1]] = k THEN Append(g[1 - 1], p[1]) ELSE g[1 - 1]
    BY <1>3, <2>1, Zenon
  <2>3. g[1] = IF KeyOf[e] = k THEN Append(<<>>, e) ELSE <<>>
    BY <1>1, <1>3, <2>1, <2>2, Zenon
  <2> QED BY <2>3
<1> HIDE DEF first
<1>6. g[Len(q) + 1] = first \o f[Len(q)]
  <2> DEFINE S == {i \in Nat : i <= Len(q) => g[i + 1] = first \o f[i]}
  <2>1. 0 \in S
    BY <1>2, <1>4, <1>5, ConcatEmptySeq
  <2>2. ASSUME NEW n \in Nat, n \in S PROVE n + 1 \in S
    <3> SUFFICES ASSUME n + 1 <= Len(q) PROVE g[n + 1 + 1] = first \o f[n + 1]
      OBVIOUS
    <3>1. /\ n \in 0..Len(q) /\ n + 1 \in 1..Len(q) /\ n + 2 \in 1..Len(p)
          /\ n + 1 + 1 = n + 2 /\ (n + 1) - 1 = n /\ (n + 2) - 1 = n + 1
      BY <1>1
    <3>a. g[n + 1] = first \o f[n]
      BY <1>1, <2>2
    <3>b. f[n] \in Seq(Events)
      BY <1>2, <3>1, Zenon
    <3>c. p[n + 2] = q[n + 1]
      BY <1>1, <3>1, Zenon
    <3>d. q[n + 1] \in Events
      BY <3>1, ElementOfSeq
    <3>2. f[n + 1] = IF KeyOf[q[n + 1]] = k THEN Append(f[n], q[n + 1]) ELSE f[n]
      BY <1>2, <3>1, Zenon
    <3>3. g[n + 2] = IF KeyOf[p[n + 2]] = k THEN Append(g[n + 1], p[n + 2]) ELSE g[n + 1]
      BY <1>3, <3>1, Zenon
    <3>4. Append(first \o f[n], q[n + 1]) = first \o Append(f[n], q[n + 1])
      BY <1>4, <3>b, <3>d, AppendBehind
    <3>5. g[n + 2] = IF KeyOf[q[n + 1]] = k THEN Append(first \o f[n], q[n + 1]) ELSE first \o f[n]
      BY <3>3, <3>a, <3>c, Zenon
    <3> QED BY <3>1, <3>2, <3>4, <3>5, Zenon
  <2> HIDE DEF S
  <2>3. Nat \subseteq S
    BY <2>1, <2>2, Induction
  <2> QED BY <1>1, <2>3 DEF S
<1>7. OfKey(q, k) \in Seq(Events)
  BY <1>1, <1>2
<1>8. OfKey(p, k) = first \o OfKey(q, k)
  BY <1>1, <1>2, <1>3, <1>6
<1> QED BY <1>7, <1>8, ConcatEmptySeq DEF p, first

\* The events whose turn to be sent has come.
Sent == {e \in Events : \E p \in Producers : \E i \in DOMAIN Sends[p] :
                            i <= sentUpTo[p] /\ Sends[p][i] = e}

\* A shard holds events of its keys, and what a shard or a handler saw was sent.
ShardsHoldTheirs == \A s \in Shards :
    /\ \A i \in DOMAIN items[s] : items[s][i] \in Sent /\ ShardOf[KeyOf[items[s][i]]] = s
    /\ hand[s] # NoEvent => hand[s] \in Sent /\ ShardOf[KeyOf[hand[s]]] = s

FifoInv == ChannelInv /\ ShardsHoldTheirs /\ reached \subseteq Sent

\* A producer's next event is of a key and of no turn that has come.
LEMMA NextEventFacts ==
    ASSUME FifoInv, NEW p \in Producers, Publishing(p)
    PROVE  /\ NextEvent(p) \in Events \ Sent
           /\ \A n \in Nat : n = sentUpTo[p] + 1 => n \in DOMAIN Sends[p]
<1>1. Sends[p] \in Seq(Events) /\ sentUpTo[p] \in Nat /\ sentUpTo \in [Producers -> Nat]
  BY SendsAssumption DEF FifoInv, ChannelInv, BreakerIsSound, TypeOK
<1>2. Len(Sends[p]) \in Nat /\ DOMAIN Sends[p] = 1..Len(Sends[p])
  BY <1>1, LenProperties
<1>3. sentUpTo[p] + 1 \in 1..Len(Sends[p])
  BY <1>1, <1>2 DEF Publishing
<1>4. NextEvent(p) \in Events
  BY <1>1, <1>3, ElementOfSeq DEF NextEvent
<1>5. NextEvent(p) \notin Sent
  <2> SUFFICES ASSUME NextEvent(p) \in Sent PROVE FALSE
    OBVIOUS
  <2>a. PICK o \in Producers : \E i \in DOMAIN Sends[o] : i <= sentUpTo[o] /\ Sends[o][i] = NextEvent(p)
    BY DEF Sent
  <2>1. PICK i \in DOMAIN Sends[o] : i <= sentUpTo[o] /\ Sends[o][i] = NextEvent(p)
    BY <2>a
  <2>2. o = p /\ i = sentUpTo[p] + 1
    BY <1>2, <1>3, <2>1, OwnEventsAssumption DEF NextEvent
  <2> QED BY <1>1, <2>1, <2>2
<1> QED BY <1>2, <1>3, <1>4, <1>5

\* Turns only come.
LEMMA SentGrows ==
    ASSUME FifoInv, [Next]_vars
    PROVE  /\ Sent \subseteq Sent'
           /\ \A p \in Producers : Publish(p) => NextEvent(p) \in Sent'
<1>1. sentUpTo \in [Producers -> Nat]
  BY DEF FifoInv, ChannelInv, BreakerIsSound, TypeOK
<1>2. \A p \in Producers : sentUpTo'[p] \in Nat /\ sentUpTo[p] <= sentUpTo'[p]
  <2>1. CASE \E p \in Producers : Publish(p) \/ PublishRefused(p)
    BY <1>1, <2>1 DEF Publish, PublishRefused
  <2>2. CASE UNCHANGED sentUpTo
    BY <1>1, <2>2
  <2> QED BY <2>1, <2>2 DEF Next, vars, CancelRequest, Cool, ShardStep, Take, Skip, Admit, HandlerReturns,
                           HandlerFails, Record
<1>3. \A p \in Producers : DOMAIN Sends[p] \subseteq Nat
  BY SendsAssumption
<1>4. Sent \subseteq Sent'
  <2> SUFFICES ASSUME NEW e \in Sent PROVE e \in Sent'
    OBVIOUS
  <2>a. PICK p \in Producers : \E i \in DOMAIN Sends[p] : i <= sentUpTo[p] /\ Sends[p][i] = e
    BY DEF Sent
  <2>1. PICK i \in DOMAIN Sends[p] : i <= sentUpTo[p] /\ Sends[p][i] = e
    BY <2>a
  <2>2. i <= sentUpTo'[p]
    BY <1>1, <1>2, <1>3, <2>1
  <2> QED BY <2>1, <2>2 DEF Sent
<1>5. ASSUME NEW p \in Producers, Publish(p) PROVE NextEvent(p) \in Sent'
  <2>1. sentUpTo[p] + 1 \in DOMAIN Sends[p] /\ NextEvent(p) \in Events /\ sentUpTo[p] \in Nat
    BY <1>1, <1>5, NextEventFacts DEF Publish
  <2>2. sentUpTo'[p] = sentUpTo[p] + 1
    BY <1>1, <1>5 DEF Publish
  <2>3. sentUpTo[p] + 1 <= sentUpTo'[p]
    BY <2>1, <2>2
  <2> QED BY <2>1, <2>3 DEF Sent, NextEvent
<1> QED BY <1>4, <1>5

\* The inductive invariant is kept: events stay with the shard of their key.
LEMMA HeldNext == ASSUME FifoInv, [Next]_vars PROVE FifoInv'
<1> USE DEF FifoInv
<1>1. ChannelInv'
  BY ProducerStep, PickStep, AdmitStep, HandlerStep, RecordStep, CoolStep, StutterStep DEF Next, ShardStep
<1>2. Sent \subseteq Sent'
  BY SentGrows
<1>3. /\ items \in [Shards -> Seq(Events)] /\ hand \in [Shards -> Events \cup {NoEvent}]
      /\ reached \subseteq Events
  BY DEF ChannelInv, BreakerIsSound, TypeOK
<1>4. CASE UNCHANGED <<items, hand, reached>>
  BY <1>1, <1>2, <1>4 DEF ShardsHoldTheirs
<1>5. ASSUME NEW p \in Producers, Publish(p) PROVE ShardsHoldTheirs' /\ reached' \subseteq Sent'
  <2> DEFINE e == NextEvent(p)
             z == ShardOf[KeyOf[e]]
  <2>1. e \in Events /\ e \in Sent'
    BY <1>5, NextEventFacts, SentGrows DEF Publish
  <2>2. z \in Shards /\ UNCHANGED <<hand, reached>> /\ items' = [items EXCEPT ![z] = Append(@, e)]
    BY <1>5, <2>1, KeyAssumption DEF Publish, shardState
  <2> HIDE DEF e
  <2>3. \A i \in DOMAIN Append(items[z], e) :
           Append(items[z], e)[i] = e \/ (i \in DOMAIN items[z] /\ Append(items[z], e)[i] = items[z][i])
    BY <1>3, <2>1, <2>2, AppendProperties, LenProperties
  <2> HIDE DEF z
  <2>4. \A s \in Shards : \A i \in DOMAIN items'[s] : items'[s][i] \in Sent' /\ ShardOf[KeyOf[items'[s][i]]] = s
    <3> SUFFICES ASSUME NEW s \in Shards, NEW i \in DOMAIN items'[s]
                 PROVE  items'[s][i] \in Sent' /\ ShardOf[KeyOf[items'[s][i]]] = s
      OBVIOUS
    <3>1. CASE s = z
      <4>1. items'[s] = Append(items[z], e)
        BY <1>3, <2>2, <3>1
      <4>2. items'[s][i] = e \/ (i \in DOMAIN items[z] /\ items'[s][i] = items[z][i])
        BY <2>3, <4>1
      <4>3. CASE items'[s][i] = e
        BY <2>1, <3>1, <4>3 DEF z
      <4>4. CASE i \in DOMAIN items[z] /\ items'[s][i] = items[z][i]
        BY <1>2, <2>2, <3>1, <4>4 DEF ShardsHoldTheirs
      <4> QED BY <4>2, <4>3, <4>4
    <3>2. CASE s # z
      BY <1>2, <1>3, <2>2, <3>2 DEF ShardsHoldTheirs
    <3> QED BY <3>1, <3>2
  <2> QED BY <1>2, <2>2, <2>4 DEF ShardsHoldTheirs
<1>6. ASSUME NEW z \in Shards, Take(z) PROVE ShardsHoldTheirs' /\ reached' \subseteq Sent'
  <2>1. /\ items[z] \in Seq(Events) /\ items[z] # <<>> /\ UNCHANGED reached
        /\ items' = [items EXCEPT ![z] = Tail(@)] /\ hand' = [hand EXCEPT ![z] = Head(items[z])]
    BY <1>3, <1>6 DEF Take
  <2>2. /\ 1 \in DOMAIN items[z] /\ Head(items[z]) = items[z][1]
        /\ \A i \in DOMAIN Tail(items[z]) : i + 1 \in DOMAIN items[z] /\ Tail(items[z])[i] = items[z][i + 1]
    BY <2>1, HeadTailProperties, LenProperties, EmptySeq
  <2> QED BY <1>2, <1>3, <2>1, <2>2 DEF ShardsHoldTheirs
<1>7. ASSUME NEW z \in Shards, Skip(z) \/ Record(z) PROVE ShardsHoldTheirs' /\ reached' \subseteq Sent'
  <2>1. UNCHANGED <<items, reached>> /\ hand' = [hand EXCEPT ![z] = NoEvent]
    BY <1>7 DEF Skip, Record, PutDown
  <2> QED BY <1>2, <1>3, <2>1 DEF ShardsHoldTheirs
<1>8. ASSUME NEW z \in Shards, HandlerReturns(z) \/ HandlerFails(z)
      PROVE  ShardsHoldTheirs' /\ reached' \subseteq Sent'
  <2>1. UNCHANGED <<items, hand>> /\ reached' = reached \cup {hand[z]} /\ hand[z] \in Events
    BY <1>8 DEF HandlerReturns, HandlerFails, ChannelInv, StagesMatch
  <2> QED BY <1>2, <2>1, NoEventAssumption DEF ShardsHoldTheirs
<1>9. [Next]_vars => \/ UNCHANGED <<items, hand, reached>>
                     \/ \E p \in Producers : Publish(p)
                     \/ \E z \in Shards : Take(z) \/ Skip(z) \/ Record(z) \/ HandlerReturns(z) \/ HandlerFails(z)
  BY DEF Next, ShardStep, vars, shardState, CancelRequest, PublishRefused, Admit, Cool
<1> QED BY <1>1, <1>4, <1>5, <1>6, <1>7, <1>8, <1>9

-----------------------------------------------------------------------------
\* The event a shard has in hand and those in its buffer.
Line(s) == InHand(s) \o items[s]

\* A sequence is its head and what follows.
LEMMA HeadBefore ==
    ASSUME NEW q \in Seq(Events), q # <<>>
    PROVE  Head(q) \in Events /\ Tail(q) \in Seq(Events) /\ <<Head(q)>> \o Tail(q) = q
<1>1. /\ Head(q) \in Events /\ Tail(q) \in Seq(Events) /\ Head(q) = q[1]
      /\ Len(Tail(q)) = Len(q) - 1 /\ \A i \in 1..Len(Tail(q)) : Tail(q)[i] = q[i + 1]
      /\ Len(q) \in Nat \ {0}
  BY HeadTailProperties, EmptySeq, LenProperties
<1> DEFINE h == <<Head(q)>>
           r == h \o Tail(q)
<1>2. h \in Seq(Events) /\ Len(h) = 1 /\ h[1] = q[1]
  BY <1>1
<1> HIDE DEF h
<1>3. /\ r \in Seq(Events) /\ Len(r) = Len(q)
      /\ \A i \in 1..Len(q) : r[i] = IF i <= 1 THEN h[i] ELSE Tail(q)[i - 1]
  <2>1. /\ r \in Seq(Events) /\ Len(r) = Len(h) + Len(Tail(q))
        /\ \A i \in 1..Len(h) + Len(Tail(q)) : r[i] = IF i <= Len(h) THEN h[i] ELSE Tail(q)[i - Len(h)]
    BY <1>1, <1>2, ConcatProperties
  <2>2. Len(h) + Len(Tail(q)) = Len(q)
    BY <1>1, <1>2
  <2> HIDE DEF r
  <2> QED BY <1>2, <2>1, <2>2
<1> HIDE DEF r
<1>4. \A i \in 1..Len(q) : r[i] = q[i]
  BY <1>1, <1>2, <1>3
<1>5. r = q
  BY <1>3, <1>4, SeqEqual
<1> QED BY <1>1, <1>5 DEF r, h

\* A sequence led by an event has it as head.
LEMMA HeadOfLed ==
    ASSUME NEW q \in Seq(Events), NEW e \in Events
    PROVE  <<e>> \o q # <<>> /\ Head(<<e>> \o q) = e /\ Tail(<<e>> \o q) = q
<1> DEFINE h == <<e>>
           r == h \o q
<1>1. h \in Seq(Events) /\ Len(h) = 1 /\ h[1] = e
  OBVIOUS
<1> HIDE DEF h
<1>2. /\ r \in Seq(Events) /\ Len(r) = Len(q) + 1 /\ Len(q) \in Nat
      /\ \A i \in 1..Len(q) + 1 : r[i] = IF i <= 1 THEN h[i] ELSE q[i - 1]
  <2>1. /\ r \in Seq(Events) /\ Len(r) = Len(h) + Len(q)
        /\ \A i \in 1..Len(h) + Len(q) : r[i] = IF i <= Len(h) THEN h[i] ELSE q[i - Len(h)]
    BY <1>1, ConcatProperties
  <2>2. Len(q) \in Nat /\ Len(h) + Len(q) = Len(q) + 1
    BY <1>1, LenProperties
  <2> HIDE DEF r
  <2> QED BY <1>1, <2>1, <2>2
<1> HIDE DEF r
<1>3. r # <<>>
  BY <1>2, EmptySeq
<1>4. Head(r) = e
  BY <1>1, <1>2, <1>3, HeadTailProperties
<1>5. Tail(r) = q
  <2>1. /\ Tail(r) \in Seq(Events) /\ Len(Tail(r)) = Len(q)
        /\ \A i \in 1..Len(q) : Tail(r)[i] = r[i + 1]
    BY <1>2, <1>3, HeadTailProperties
  <2>2. \A i \in 1..Len(q) : Tail(r)[i] = q[i]
    BY <1>2, <2>1
  <2> QED BY <2>1, <2>2, SeqEqual
<1> QED BY <1>3, <1>4, <1>5 DEF r, h

\* What a shard holds is a sequence of events.
LEMMA LineFacts ==
    ASSUME FifoInv, NEW s \in Shards
    PROVE  items[s] \in Seq(Events) /\ InHand(s) \in Seq(Events) /\ Line(s) \in Seq(Events)
<1>1. items[s] \in Seq(Events) /\ hand[s] \in Events \cup {NoEvent}
  BY DEF FifoInv, ChannelInv, BreakerIsSound, TypeOK
<1>2. InHand(s) \in Seq(Events)
  BY <1>1 DEF InHand
<1> QED BY <1>1, <1>2, ConcatProperties DEF Line

\* Lines that stay keep what waits.
LEMMA LinesDecide ==
    ASSUME \A s \in Shards : Line(s)' = Line(s)
    PROVE  Waiting' = Waiting
<1>1. \A k \in Keys : ShardOf[k] \in Shards
  BY KeyAssumption
<1>2. Waiting' = [k \in Keys |-> OfKey(Line(ShardOf[k])', k)]
  BY Zenon DEF Waiting, Line
<1>3. Waiting = [k \in Keys |-> OfKey(Line(ShardOf[k]), k)]
  BY Zenon DEF Waiting, Line
<1> QED BY <1>1, <1>2, <1>3, Zenon

\* What a shard with an event in hand has waiting.
LEMMA WaitingBehind ==
    ASSUME FifoInv, NEW s \in Shards, hand[s] \in Events, NEW k \in Keys, ShardOf[k] = s
    PROVE  Waiting[k] = IF KeyOf[hand[s]] = k THEN <<hand[s]>> \o OfKey(items[s], k) ELSE OfKey(items[s], k)
<1> DEFINE e == hand[s]
           q == items[s]
<1>1. Waiting[k] = OfKey(<<e>> \o q, k)
  BY NoEventAssumption, Zenon DEF Waiting, InHand
<1>2. q \in Seq(Events) /\ e \in Events
  BY LineFacts
<1> HIDE DEF e, q
<1>3. Waiting[k] = IF KeyOf[e] = k THEN <<e>> \o OfKey(q, k) ELSE OfKey(q, k)
  BY <1>1, <1>2, OfKeyCons
<1> QED BY <1>3 DEF e, q

\* And what one with none has.
LEMMA WaitingAlone ==
    ASSUME FifoInv, NEW s \in Shards, hand[s] = NoEvent, NEW k \in Keys, ShardOf[k] = s
    PROVE  Waiting[k] = OfKey(items[s], k)
<1>1. Waiting[k] = OfKey(<<>> \o items[s], k)
  BY Zenon DEF Waiting, InHand
<1>2. <<>> \o items[s] = items[s]
  BY LineFacts, ConcatEmptySeq
<1> QED BY <1>1, <1>2, Zenon

\* An event goes to the end of its key.
LEMMA PublishAccepts ==
    ASSUME FifoInv, NEW p \in Producers, Publish(p)
    PROVE  Promise!Accept(NextEvent(p)) /\ NextEvent(p) \in Events
<1> DEFINE e == NextEvent(p)
<1>1. e \in Events /\ e \notin Sent
  BY NextEventFacts DEF Publish
<1>2. PICK z \in Shards : /\ z = ShardOf[KeyOf[e]] /\ KeyOf[e] \in Keys /\ UNCHANGED <<hand, reached>>
                          /\ items' = [items EXCEPT ![z] = Append(@, e)]
  BY <1>1, KeyAssumption DEF Publish, shardState
<1> HIDE DEF e
<1>3. items \in [Shards -> Seq(Events)]
  BY DEF FifoInv, ChannelInv, BreakerIsSound, TypeOK
<1>4. \A k \in Keys : Waiting'[k] = IF KeyOf[e] = k THEN Append(Waiting[k], e) ELSE Waiting[k]
  <2> SUFFICES ASSUME NEW k \in Keys
               PROVE  Waiting'[k] = IF KeyOf[e] = k THEN Append(Waiting[k], e) ELSE Waiting[k]
    OBVIOUS
  <2>1. /\ Waiting[k] = OfKey(Line(ShardOf[k]), k)
        /\ Waiting'[k] = OfKey(Line(ShardOf[k])', k)
    BY Zenon DEF Waiting, Line
  <2>2. ShardOf[k] \in Shards
    BY KeyAssumption
  <2>3. CASE ShardOf[k] = z
    <3>1. Line(z)' = InHand(z) \o Append(items[z], e)
      BY <1>2, <1>3 DEF Line, InHand
    <3>2. Line(z)' = Append(Line(z), e) /\ Line(z) \in Seq(Events)
      BY <1>1, <1>2, <3>1, LineFacts, AppendBehind DEF Line
    <3> QED BY <1>1, <2>1, <2>3, <3>2, OfKeyAppend
  <2>4. CASE ShardOf[k] # z
    <3>1. Line(ShardOf[k])' = Line(ShardOf[k])
      BY <1>2, <1>3, <2>2, <2>4 DEF Line, InHand
    <3>2. KeyOf[e] # k
      BY <1>2, <2>4
    <3> QED BY <2>1, <3>1, <3>2
  <2> QED BY <2>3, <2>4
<1>5. Waiting' = [Waiting EXCEPT ![KeyOf[e]] = Append(@, e)]
  <2>1. Waiting = [k \in Keys |-> Waiting[k]] /\ Waiting' = [k \in Keys |-> Waiting'[k]]
    BY Zenon DEF Waiting
  <2> QED BY <1>2, <1>4, <2>1
<1>6. e \notin reached /\ reached' = reached
  BY <1>1, <1>2 DEF FifoInv
<1> QED BY <1>1, <1>5, <1>6 DEF Promise!Accept, e

\* An event in hand is the first of its key.
LEMMA InHandIsNext ==
    ASSUME FifoInv, NEW s \in Shards, hand[s] \in Events
    PROVE  Promise!IsNext(hand[s]) /\ Tail(Waiting[KeyOf[hand[s]]]) = OfKey(items[s], KeyOf[hand[s]])
<1> DEFINE k == KeyOf[hand[s]]
<1>1. k \in Keys /\ ShardOf[k] = s
  BY KeyAssumption, NoEventAssumption DEF FifoInv, ShardsHoldTheirs
<1>2. items[s] \in Seq(Events)
  BY LineFacts
<1>3. OfKey(items[s], k) \in Seq(Events)
  <2>1. PICK f : Walks(f, items[s], k) /\ OfKey(items[s], k) = f[Len(items[s])]
    BY <1>2, OfKeyWalk
  <2>2. Len(items[s]) \in 0..Len(items[s])
    BY <1>2, LenProperties
  <2> QED BY <2>1, <2>2, Zenon DEF Walks
<1>4. Waiting[k] = <<hand[s]>> \o OfKey(items[s], k)
  BY <1>1, WaitingBehind
<1> QED BY <1>3, <1>4, HeadOfLed, Zenon DEF Promise!IsNext

\* A shard that takes an event up has the same events waiting.
LEMMA TakeStutters ==
    ASSUME FifoInv, NEW s \in Shards, Take(s)
    PROVE  UNCHANGED <<Waiting, reached>>
<1>1. items \in [Shards -> Seq(Events)] /\ hand \in [Shards -> Events \cup {NoEvent}]
  BY DEF FifoInv, ChannelInv, BreakerIsSound, TypeOK
<1>2. /\ hand[s] = NoEvent /\ items[s] # <<>> /\ reached' = reached
      /\ items' = [items EXCEPT ![s] = Tail(@)] /\ hand' = [hand EXCEPT ![s] = Head(items[s])]
  BY DEF Take, FifoInv, ChannelInv, StagesMatch
<1>3. Head(items[s]) \in Events /\ <<Head(items[s])>> \o Tail(items[s]) = items[s]
  BY <1>1, <1>2, HeadBefore
<1>4. Line(s)' = items[s]
  <2>1. hand'[s] = Head(items[s]) /\ items'[s] = Tail(items[s])
    BY <1>1, <1>2
  <2>2. InHand(s)' = <<Head(items[s])>>
    BY <1>3, <2>1, NoEventAssumption DEF InHand
  <2> QED BY <1>3, <2>1, <2>2 DEF Line
<1>5. Line(s) = items[s]
  BY <1>1, <1>2, ConcatEmptySeq DEF Line, InHand
<1>6. \A z \in Shards : z # s => Line(z)' = Line(z)
  BY <1>1, <1>2 DEF Line, InHand
<1>7. Waiting' = Waiting
  BY <1>4, <1>5, <1>6, LinesDecide
<1> QED BY <1>2, <1>7

\* An event that is put down, handled or not, is settled.
LEMMA PutDownSettles ==
    ASSUME FifoInv, NEW s \in Shards, Skip(s) \/ Record(s)
    PROVE  Promise!Settle(hand[s]) /\ hand[s] \in Events
<1> DEFINE e == hand[s]
<1>1. items \in [Shards -> Seq(Events)] /\ hand \in [Shards -> Events \cup {NoEvent}]
  BY DEF FifoInv, ChannelInv, BreakerIsSound, TypeOK
<1>2. e \in Events /\ UNCHANGED <<items, reached>> /\ hand' = [hand EXCEPT ![s] = NoEvent]
  BY DEF Skip, Record, PutDown, FifoInv, ChannelInv, StagesMatch
<1>3. KeyOf[e] \in Keys /\ ShardOf[KeyOf[e]] = s
  BY <1>2, KeyAssumption, NoEventAssumption DEF FifoInv, ShardsHoldTheirs
<1>4. Line(s)' = items[s]
  BY <1>1, <1>2, ConcatEmptySeq DEF Line, InHand
<1>5. \A z \in Shards : z # s => Line(z)' = Line(z)
  BY <1>1, <1>2 DEF Line, InHand
<1>6. Tail(Waiting[KeyOf[e]]) = OfKey(items[s], KeyOf[e]) /\ Promise!IsNext(e)
  BY <1>2, InHandIsNext
<1>7. \A k \in Keys : Waiting'[k] = IF KeyOf[e] = k THEN Tail(Waiting[k]) ELSE Waiting[k]
  <2> SUFFICES ASSUME NEW k \in Keys
               PROVE  Waiting'[k] = IF KeyOf[e] = k THEN Tail(Waiting[k]) ELSE Waiting[k]
    OBVIOUS
  <2>1. /\ Waiting[k] = OfKey(Line(ShardOf[k]), k)
        /\ Waiting'[k] = OfKey(Line(ShardOf[k])', k)
    BY Zenon DEF Waiting, Line
  <2>2. ShardOf[k] \in Shards
    BY KeyAssumption
  <2>3. CASE ShardOf[k] = s
    <3>1. Waiting'[k] = OfKey(items[s], k)
      BY <1>4, <2>1, <2>3
    <3>2. KeyOf[e] # k => Waiting[k] = OfKey(items[s], k)
      BY <1>2, <2>3, WaitingBehind
    <3> HIDE DEF e
    <3> QED BY <1>6, <3>1, <3>2, Zenon
  <2>4. CASE ShardOf[k] # s
    <3>1. KeyOf[e] # k
      BY <1>3, <2>4
    <3>2. Waiting'[k] = Waiting[k]
      BY <1>5, <2>1, <2>2, <2>4
    <3> QED BY <3>1, <3>2, Zenon
  <2> QED BY <2>3, <2>4
<1> HIDE DEF e
<1>8. Waiting' = [Waiting EXCEPT ![KeyOf[e]] = Tail(@)]
  <2>1. Waiting = [k \in Keys |-> Waiting[k]] /\ Waiting' = [k \in Keys |-> Waiting'[k]]
    BY Zenon DEF Waiting
  <2> QED BY <1>3, <1>7, <2>1
<1> QED BY <1>2, <1>6, <1>8 DEF Promise!Settle, e

\* A handler is called for the first event of a key; the handlers after the first one see
\* an event that was reached.
LEMMA HandlerReaches ==
    ASSUME FifoInv, NEW s \in Shards, HandlerReturns(s) \/ HandlerFails(s)
    PROVE  (Promise!Reach(hand[s]) /\ hand[s] \in Events) \/ UNCHANGED <<Waiting, reached>>
<1>1. hand[s] \in Events /\ UNCHANGED <<items, hand>> /\ reached' = reached \cup {hand[s]}
  BY DEF HandlerReturns, HandlerFails, FifoInv, ChannelInv, StagesMatch
<1>2. Waiting' = Waiting
  <2>1. \A z \in Shards : Line(z)' = Line(z)
    BY <1>1 DEF Line, InHand
  <2> QED BY <2>1, LinesDecide
<1>3. Promise!IsNext(hand[s])
  BY <1>1, InHandIsNext
<1>4. CASE hand[s] \in reached
  BY <1>1, <1>2, <1>4
<1>5. CASE hand[s] \notin reached
  BY <1>1, <1>2, <1>3, <1>5 DEF Promise!Reach
<1> QED BY <1>4, <1>5

\* Before anything is sent nothing waits.
LEMMA FifoInit == Init => FifoInv /\ Promise!Init
<1> SUFFICES ASSUME Init PROVE FifoInv /\ Promise!Init
  OBVIOUS
<1>1. FifoInv
  BY InitInv, EmptySeq DEF Init, FifoInv, ShardsHoldTheirs
<1>2. \A s \in Shards : Line(s) = <<>>
  <2>1. \A s \in Shards : InHand(s) = <<>> /\ items[s] = <<>>
    BY DEF Init, InHand
  <2>2. <<>> \o <<>> = <<>>
    BY EmptySeq, ConcatEmptySeq
  <2> QED BY <2>1, <2>2 DEF Line
<1>3. \A k \in Keys : OfKey(Line(ShardOf[k]), k) = <<>>
  BY <1>2, KeyAssumption, OfKeyEmpty
<1>4. Waiting = [k \in Keys |-> OfKey(Line(ShardOf[k]), k)]
  BY Zenon DEF Waiting, Line
<1>5. Waiting = [k \in Keys |-> <<>>]
  BY <1>3, <1>4
<1> QED BY <1>1, <1>5 DEF Init, Promise!Init

\* Every step of the channel is a step of KeyedFifo or leaves what it sees alone.
LEMMA FifoStep ==
    ASSUME FifoInv, [Next]_vars
    PROVE  [Promise!Next]_(Promise!fifoVars)
<1>1. CASE UNCHANGED <<items, hand, reached>>
  <2>1. \A z \in Shards : Line(z)' = Line(z)
    BY <1>1 DEF Line, InHand
  <2> QED BY <1>1, <2>1, LinesDecide DEF Promise!fifoVars
<1>2. CASE \E p \in Producers : Publish(p)
  BY <1>2, PublishAccepts DEF Promise!Next
<1>3. CASE \E s \in Shards : Take(s)
  BY <1>3, TakeStutters DEF Promise!fifoVars
<1>4. CASE \E s \in Shards : Skip(s) \/ Record(s)
  BY <1>4, PutDownSettles DEF Promise!Next
<1>5. CASE \E s \in Shards : HandlerReturns(s) \/ HandlerFails(s)
  BY <1>5, HandlerReaches DEF Promise!Next, Promise!fifoVars
<1> QED BY <1>1, <1>2, <1>3, <1>4, <1>5 DEF Next, ShardStep, vars, shardState, CancelRequest, PublishRefused, Admit, Cool

\* An in-process channel keeps the promise of KeyedFifo: per key, an accepted event waits
\* behind the earlier ones, its handlers are reached when it is the first, and then it is
\* gone (Publish, drain and deliver), whatever the shards, the buffers and the breaker do.
THEOREM ChannelIsKeyedFifo == Spec => ImplementsKeyedFifo
<1>1. FifoInv /\ [Next]_vars => FifoInv'
  BY HeldNext
<1>2. FifoInv /\ [Next]_vars => [Promise!Next]_(Promise!fifoVars)
  BY FifoStep
<1> QED BY <1>1, <1>2, FifoInit, PTL DEF Spec, ImplementsKeyedFifo, Promise!Spec

-----------------------------------------------------------------------------
\* A channel over RabbitMQ, for any number of messages, keys, partitions, attempts and lost
\* connections, with and without orderBy.

\* The elements of a sequence that grows at its end.
LEMMA AppendElements ==
    ASSUME NEW S, NEW s \in Seq(S), NEW e \in S
    PROVE  /\ Append(s, e) \in Seq(S)
           /\ ToSet(Append(s, e)) = ToSet(s) \cup {e}
           /\ IsInjective(s) /\ e \notin ToSet(s) => IsInjective(Append(s, e))
<1>1. /\ Append(s, e) \in Seq(S) /\ Len(Append(s, e)) = Len(s) + 1 /\ Append(s, e)[Len(s) + 1] = e
      /\ \A i \in 1..Len(s) : Append(s, e)[i] = s[i]
  BY AppendProperties
<1>2. Len(s) \in Nat /\ DOMAIN s = 1..Len(s) /\ DOMAIN Append(s, e) = 1..Len(s) + 1
  BY <1>1, LenProperties
<1>3. ToSet(Append(s, e)) = ToSet(s) \cup {e}
  <2>1. 1..Len(s) + 1 = 1..Len(s) \cup {Len(s) + 1}
    BY <1>2
  <2> QED BY <1>1, <1>2, <2>1 DEF ToSet
<1>4. IsInjective(s) /\ e \notin ToSet(s) => IsInjective(Append(s, e))
  BY <1>1, <1>2 DEF IsInjective, ToSet
<1> QED BY <1>1, <1>3, <1>4

\* The elements of a sequence that loses its head.
LEMMA TailElements ==
    ASSUME NEW S, NEW s \in Seq(S), s # <<>>
    PROVE  /\ Head(s) \in S /\ Tail(s) \in Seq(S)
           /\ ToSet(s) = {Head(s)} \cup ToSet(Tail(s))
           /\ IsInjective(s) => IsInjective(Tail(s)) /\ Head(s) \notin ToSet(Tail(s))
<1>1. /\ Head(s) \in S /\ Tail(s) \in Seq(S) /\ Len(Tail(s)) = Len(s) - 1
      /\ \A i \in 1..Len(Tail(s)) : Tail(s)[i] = s[i + 1]
  BY HeadTailProperties
<1>2. Len(s) \in Nat \ {0} /\ DOMAIN s = 1..Len(s) /\ DOMAIN Tail(s) = 1..Len(s) - 1 /\ Head(s) = s[1]
  BY <1>1, LenProperties, EmptySeq
<1>3. ToSet(s) = {Head(s)} \cup ToSet(Tail(s))
  <2>1. \A i \in 1..Len(s) : i = 1 \/ (i - 1 \in 1..Len(s) - 1 /\ s[i] = Tail(s)[i - 1])
    BY <1>1, <1>2
  <2>2. \A i \in 1..Len(s) - 1 : i + 1 \in 1..Len(s) /\ Tail(s)[i] = s[i + 1]
    BY <1>1, <1>2
  <2>3. 1 \in 1..Len(s)
    BY <1>2
  <2>4. ToSet(s) \subseteq {Head(s)} \cup ToSet(Tail(s))
    <3> SUFFICES ASSUME NEW i \in 1..Len(s)
                 PROVE  s[i] \in {Head(s)} \cup ToSet(Tail(s))
      BY <1>2 DEF ToSet
    <3>1. CASE i = 1
      BY <1>2, <3>1
    <3>2. CASE i # 1
      <4>1. i - 1 \in DOMAIN Tail(s) /\ s[i] = Tail(s)[i - 1]
        BY <1>2, <2>1, <3>2
      <4> QED BY <4>1 DEF ToSet
    <3> QED BY <3>1, <3>2
  <2>5. Head(s) \in ToSet(s) /\ ToSet(Tail(s)) \subseteq ToSet(s)
    BY <1>2, <2>2, <2>3 DEF ToSet
  <2> QED BY <2>4, <2>5
<1>4. IsInjective(s) => IsInjective(Tail(s)) /\ Head(s) \notin ToSet(Tail(s))
  BY <1>1, <1>2 DEF IsInjective, ToSet
<1> QED BY <1>1, <1>3, <1>4

\* The elements of two sequences one after the other.
LEMMA ConcatElements ==
    ASSUME NEW S, NEW s \in Seq(S), NEW t \in Seq(S)
    PROVE  /\ s \o t \in Seq(S) /\ ToSet(s \o t) = ToSet(s) \cup ToSet(t)
           /\ IsInjective(s) /\ IsInjective(t) /\ ToSet(s) \cap ToSet(t) = {} => IsInjective(s \o t)
<1>1. /\ s \o t \in Seq(S) /\ Len(s \o t) = Len(s) + Len(t)
      /\ \A i \in 1..Len(s) + Len(t) : (s \o t)[i] = IF i <= Len(s) THEN s[i] ELSE t[i - Len(s)]
  BY ConcatProperties
<1>2. /\ Len(s) \in Nat /\ DOMAIN s = 1..Len(s) /\ Len(t) \in Nat /\ DOMAIN t = 1..Len(t)
      /\ DOMAIN (s \o t) = 1..Len(s) + Len(t)
  BY <1>1, LenProperties
<1>3. ToSet(s \o t) = ToSet(s) \cup ToSet(t)
  <2>1. Range(s \o t) = Range(s) \cup Range(t)
    BY RangeConcatenation
  <2> QED BY <2>1, Zenon DEF Range, ToSet
<1>4. ASSUME IsInjective(s), IsInjective(t), ToSet(s) \cap ToSet(t) = {}
      PROVE  IsInjective(s \o t)
  <2> SUFFICES ASSUME NEW i \in 1..Len(s) + Len(t), NEW j \in 1..Len(s) + Len(t), (s \o t)[i] = (s \o t)[j]
               PROVE  i = j
    BY <1>2 DEF IsInjective
  <2>1. \A k \in 1..Len(s) + Len(t) : k <= Len(s) => k \in DOMAIN s /\ (s \o t)[k] = s[k]
    BY <1>1, <1>2
  <2>2. \A k \in 1..Len(s) + Len(t) : ~(k <= Len(s)) => k - Len(s) \in DOMAIN t /\ (s \o t)[k] = t[k - Len(s)]
    BY <1>1, <1>2
  <2>3. CASE i <= Len(s) /\ j <= Len(s)
    BY <2>1, <2>3, <1>4 DEF IsInjective
  <2>4. CASE ~(i <= Len(s)) /\ ~(j <= Len(s))
    <3>1. i - Len(s) = j - Len(s)
      BY <2>2, <2>4, <1>4 DEF IsInjective
    <3> QED BY <3>1, <1>2
  <2>5. \A k \in DOMAIN s, l \in DOMAIN t : s[k] # t[l]
    BY <1>4 DEF ToSet
  <2> QED BY <2>1, <2>2, <2>3, <2>4, <2>5
<1> QED BY <1>1, <1>3, <1>4

\* An order of a finite set is a sequence without repetitions of all its elements.
LEMMA OrderElements ==
    ASSUME NEW S, IsFiniteSet(S), NEW s \in SetToSeqs(S)
    PROVE  s \in Seq(S) /\ ToSet(s) = S /\ IsInjective(s)
<1> DEFINE D == 1..Cardinality(S)
<1>1. Cardinality(S) \in Nat
  BY FS_CardinalityType
<1>2. s \in [D -> S] /\ IsInjective(s)
  BY DEF SetToSeqs, IsInjective
<1>3. Cardinality(D) = Cardinality(S)
  BY <1>1, FS_Interval
<1>4. s \in Surjection(D, S)
  <2>1. s \in Injection(D, S)
    BY <1>2 DEF Injection
  <2> HIDE DEF D
  <2> QED BY <1>3, <2>1, FS_Injection
<1>5. ToSet(s) = S
  BY <1>2, <1>4 DEF ToSet, Surjection
<1>6. s \in Seq(S)
  BY <1>1, <1>2, SeqDef
<1> QED BY <1>2, <1>5, <1>6

USE MessagesAssumption, PartitionsAssumption, AttemptsAssumption

\* What the containers are made of.
ContainersFit ==
    /\ queue \in [Consumers -> Seq(Messages)] /\ retry \in Seq(Messages) /\ handled \in Seq(Messages)
    /\ \A c \in Consumers : held[c] # NoMessage => QueueOfMessage(held[c]) = QueueOfConsumer(c)

\* Nothing is anywhere before it was published.
PublishedFirst ==
    InQueues \cup HeldMessages \cup dead \cup orphans \cup ToSet(handled) \subseteq 1..sent

\* The supervisor watches every open connection, and an installed one was not closed.
LinkIsWatched ==
    /\ link = "none" => ~stopped
    /\ link = "closed" => stopped
    /\ Open => watching
    /\ stopped => link # "up"
    /\ ~Open => HeldMessages = {}

Ascending(s) == \A i, j \in DOMAIN s : i < j => s[i] < s[j]
Above(m, s) == \A i \in DOMAIN s : QueueOfMessage(s[i]) = QueueOfMessage(m) => s[i] < m

\* While nothing was rejected and no connection broke, a partition is a line of messages
\* in the order of Publish: those handled, the one held, those queued. After Close only
\* the handler that was running when it came may still end.
Quiet == Keyed /\ losses = 0 /\ \A m \in Messages : rejections[m] = 0
QuietLines ==
    /\ retry = <<>> /\ link \in {"none", "up", "closed"}
    /\ \A q \in Consumers : Ascending(queue[q])
    /\ \A c \in Consumers : held[c] # NoMessage =>
          (\A m \in ToSet(queue[c]) : held[c] < m) /\ Above(held[c], handled)
    /\ link # "closed" => orphans = {} /\ \A q \in Consumers : \A m \in ToSet(queue[q]) : Above(m, handled)
    /\ \A m \in orphans : Above(m, handled)
    /\ \A m, n \in orphans : m # n => QueueOfMessage(m) # QueueOfMessage(n)
    /\ \A i, j \in DOMAIN handled :
          i < j /\ QueueOfMessage(handled[i]) = QueueOfMessage(handled[j]) => handled[i] < handled[j]
QuietPartitions == Quiet => QuietLines

Places == AmqpTypeOK /\ ContainersFit /\ PublishedFirst /\ KeptUntilHandled /\ KeptOnce
AmqpInv == Places /\ LinkIsWatched /\ QuietPartitions

\* Partitions and messages are numbers; a message and a consumer have one queue.
LEMMA QueueFacts ==
    /\ Consumers \subseteq Nat /\ Messages \subseteq Nat /\ Cardinality(Messages) \in Nat
    /\ \A n \in 0..Cardinality(Messages) : 1..n \subseteq Messages
    /\ \A m \in Messages : QueueOfMessage(m) \in Consumers
    /\ \A c \in Consumers : QueueOfConsumer(c) \in Consumers /\ (Keyed => QueueOfConsumer(c) = c)
<1>1. Cardinality(Messages) \in Nat
  BY FS_CardinalityType
<1> QED BY <1>1 DEF Consumers, QueueOfMessage, QueueOfConsumer

\* What Places says of the messages in each place, without their positions.
LEMMA ElementFacts ==
    ASSUME Places
    PROVE  /\ \A q \in Consumers : queue[q] \in Seq(Messages) /\ IsInjective(queue[q])
           /\ \A q \in Consumers : \A m \in ToSet(queue[q]) : m \in 1..sent /\ m \in Messages /\ QueueOfMessage(m) = q
           /\ sent \in Nat /\ 1..sent \subseteq Messages
<1> QED BY QueueFacts DEF Places, AmqpTypeOK, ContainersFit, ToSet, KeptOnce

\* The types of the queues follow from the messages in them.
LEMMA QueueTypes ==
    ASSUME \A q \in Consumers : \A m \in ToSet(queue[q])' : m \in 1..sent' /\ QueueOfMessage(m) = q
    PROVE  (\A q \in Consumers : \A i \in DOMAIN queue[q] : queue[q][i] \in 1..sent /\ QueueOfMessage(queue[q][i]) = q)'
<1> QED BY DEF ToSet, QueueOfMessage, Consumers

\* A message is in the broker's queues when it is in one of them.
LEMMA QueuedMembers ==
    /\ \A m : m \in InQueues <=> m \in ToSet(retry) \/ \E q \in Consumers : m \in ToSet(queue[q])
    /\ (\A m : m \in InQueues <=> m \in ToSet(retry) \/ \E q \in Consumers : m \in ToSet(queue[q]))'
<1>1. \A m : m \in InQueues <=> m \in ToSet(retry) \/ \E q \in Consumers : m \in ToSet(queue[q])
  BY DEF InQueues
<1>2. (\A m : m \in InQueues <=> m \in ToSet(retry) \/ \E q \in Consumers : m \in ToSet(queue[q]))'
  BY DEF InQueues
<1> QED BY <1>1, <1>2

\* The messages that await their Ack are in the DLQ.
LEMMA AckingHolds ==
    ASSUME Places
    PROVE  \A d \in acking : d \in Consumers /\ held[d] \in dead
<1> QED BY DEF Places, AmqpTypeOK

LEMMA NoneDead ==
    ASSUME Places
    PROVE  NoMessage \notin dead /\ \A c \in Consumers : held[c] = NoMessage => c \notin acking
<1>1. dead \subseteq Messages
  BY ElementFacts DEF Places, PublishedFirst
<1> QED BY <1>1, AckingHolds

\* A message moves from the head of a queue to a consumer.
LEMMA TakePlaces ==
    ASSUME Places, NEW c \in Consumers, TakeDelivery(c)
    PROVE  Places'
<1> DEFINE q == QueueOfConsumer(c)
           h == Head(queue[q])
<1>1. /\ q \in Consumers /\ queue[q] \in Seq(Messages) /\ queue[q] # <<>> /\ IsInjective(queue[q])
  BY QueueFacts, ElementFacts DEF TakeDelivery
<1>2. /\ h \in Messages /\ Tail(queue[q]) \in Seq(Messages)
      /\ ToSet(queue[q]) = {h} \cup ToSet(Tail(queue[q]))
      /\ IsInjective(Tail(queue[q])) /\ h \notin ToSet(Tail(queue[q]))
  BY <1>1, TailElements
<1>3. /\ queue' = [queue EXCEPT ![q] = Tail(queue[q])] /\ held[c] = NoMessage /\ held' = [held EXCEPT ![c] = h]
      /\ queue \in [Consumers -> Seq(Messages)] /\ held \in [Consumers -> Messages \cup {NoMessage}]
  BY DEF TakeDelivery, Places, ContainersFit, AmqpTypeOK
<1>4. UNCHANGED <<sent, bound, subscribed, link, stopped, watching, retry, orphans, dead, rejections, handled, unheard, vanished, losses, acking, doubled>>
  BY DEF TakeDelivery
<1> HIDE DEF q, h
<1>5. /\ queue'[q] = Tail(queue[q]) /\ \A p \in Consumers \ {q} : queue'[p] = queue[p]
      /\ queue' \in [Consumers -> Seq(Messages)]
  BY <1>1, <1>2, <1>3
<1>6. /\ held'[c] = h /\ \A d \in Consumers \ {c} : held'[d] = held[d]
      /\ held' \in [Consumers -> Messages \cup {NoMessage}] /\ h # NoMessage
  BY <1>2, <1>3
<1>7. HeldMessages' = HeldMessages \cup {h} /\ AwaitingAck' = AwaitingAck /\ acking' \subseteq {d \in Consumers : held'[d] \in dead}
  <2>1. HeldMessages' = HeldMessages \cup {h}
    BY <1>3, <1>6 DEF HeldMessages
  <2>2. c \notin acking /\ acking' = acking
    BY <1>3, <1>4, NoneDead
  <2> QED BY <1>6, <2>1, <2>2, AckingHolds DEF AwaitingAck
<1>8. /\ \A p \in Consumers : ToSet(queue'[p]) \subseteq ToSet(queue[p]) /\ h \notin ToSet(queue'[p]) /\ IsInjective(queue'[p])
      /\ h \in 1..sent /\ QueueOfMessage(h) = q
  BY <1>1, <1>2, <1>5, ElementFacts
<1>9. InQueues = InQueues' \cup {h} /\ h \notin InQueues' /\ h \notin HeldMessages
  <2>1. h \notin ToSet(retry) /\ h \notin HeldMessages
    BY <1>1, <1>2 DEF Places, KeptOnce
  <2>2. /\ \A p \in Consumers \ {q} : ToSet(queue'[p]) = ToSet(queue[p])
        /\ ToSet(queue[q]) = {h} \cup ToSet(queue'[q]) /\ q \in Consumers /\ h \notin ToSet(queue'[q])
    BY <1>1, <1>2, <1>5
  <2>3. \A p \in Consumers : h \notin ToSet(queue'[p])
    BY <1>8
  <2> QED BY <1>4, <2>1, <2>2, <2>3, QueuedMembers
<1>10. AmqpTypeOK' /\ ContainersFit'
  <2>1. \A p \in Consumers : \A m \in ToSet(queue[p])' : m \in 1..sent' /\ QueueOfMessage(m) = p
    BY <1>4, <1>8, ElementFacts
  <2>2. \A d \in Consumers : held'[d] # NoMessage => QueueOfMessage(held'[d]) = QueueOfConsumer(d)
    BY <1>6, <1>8 DEF Places, ContainersFit, q
  <2> QED BY <1>4, <1>5, <1>6, <1>7, <2>1, <2>2, QueueTypes DEF Places, AmqpTypeOK, ContainersFit, QueueOfMessage, QueueOfConsumer
<1>11. PublishedFirst' /\ KeptUntilHandled'
  BY <1>4, <1>7, <1>8, <1>9 DEF Places, PublishedFirst, KeptUntilHandled
<1>12. KeptOnce'
  <2>1. \A x, y \in Consumers : x # y /\ held'[x] # NoMessage => held'[x] # held'[y]
    BY <1>6, <1>9 DEF Places, KeptOnce, HeldMessages
  <2>2. \A p \in Consumers : /\ IsInjective(queue'[p])
                             /\ ToSet(queue'[p]) \cap (ToSet(retry') \cup HeldMessages') = {}
    <3>1. \A p \in Consumers : ToSet(queue[p]) \cap (ToSet(retry) \cup HeldMessages) = {}
      BY DEF Places, KeptOnce
    <3> QED BY <1>4, <1>7, <1>8, <3>1
  <2>3. /\ ToSet(retry) \cap HeldMessages = {} /\ IsInjective(retry)
        /\ dead \cap (InQueues \cup HeldMessages) \subseteq doubled \cup AwaitingAck
    BY DEF Places, KeptOnce
  <2>4. ToSet(retry) \subseteq InQueues /\ ToSet(retry') \subseteq InQueues'
    BY QueuedMembers
  <2>5. ToSet(retry') \cap HeldMessages' = {} /\ IsInjective(retry')
        /\ dead' \cap (InQueues' \cup HeldMessages') \subseteq doubled' \cup AwaitingAck'
    BY <1>4, <1>7, <1>9, <2>3, <2>4
  <2> QED BY <2>1, <2>2, <2>5 DEF KeptOnce
<1> QED BY <1>10, <1>11, <1>12 DEF Places

\* What a consumer that puts its message down leaves behind.
LEMMA PutsDown ==
    ASSUME Places, NEW c \in Consumers, held[c] # NoMessage, held' = [held EXCEPT ![c] = NoMessage],
           UNCHANGED <<sent, queue>>
    PROVE  /\ held[c] \in 1..sent /\ held[c] \in Messages /\ held[c] \in HeldMessages
           /\ HeldMessages = HeldMessages' \cup {held[c]} /\ held[c] \notin HeldMessages'
           /\ held[c] \notin InQueues
           /\ held' \in [Consumers -> Messages \cup {NoMessage}]
           /\ \A d \in Consumers : held'[d] # NoMessage => QueueOfMessage(held'[d]) = QueueOfConsumer(d)
           /\ \A d, e \in Consumers : d # e /\ held'[d] # NoMessage => held'[d] # held'[e]
           /\ \A d \in acking \ {c} : d \in Consumers /\ held'[d] = held[d] /\ held[d] \in dead
<1>1. held \in [Consumers -> Messages \cup {NoMessage}]
  BY DEF Places, AmqpTypeOK
<1>2. /\ held'[c] = NoMessage /\ \A d \in Consumers \ {c} : held'[d] = held[d]
      /\ held' \in [Consumers -> Messages \cup {NoMessage}]
  BY <1>1
<1>3. \A d, e \in Consumers : d # e /\ held[d] # NoMessage => held[d] # held[e]
  BY DEF Places, KeptOnce
<1>4. held[c] \in HeldMessages /\ HeldMessages = HeldMessages' \cup {held[c]} /\ held[c] \notin HeldMessages'
  BY <1>1, <1>2, <1>3 DEF HeldMessages
<1>5. held[c] \in 1..sent /\ held[c] \in Messages
  BY <1>1, <1>4 DEF Places, PublishedFirst
<1>6. held[c] \notin InQueues
  BY <1>4, QueuedMembers DEF Places, KeptOnce
<1>7. \A d \in Consumers : held'[d] # NoMessage => QueueOfMessage(held'[d]) = QueueOfConsumer(d)
  BY <1>2 DEF Places, ContainersFit
<1>8. \A d, e \in Consumers : d # e /\ held'[d] # NoMessage => held'[d] # held'[e]
  BY <1>2, <1>3
<1>9. \A d \in acking \ {c} : d \in Consumers /\ held'[d] = held[d] /\ held[d] \in dead
  BY <1>2, AckingHolds
<1> QED BY <1>2, <1>4, <1>5, <1>6, <1>7, <1>8, <1>9

\* A handled message leaves its consumer.
LEMMA OkPlaces ==
    ASSUME Places, NEW c \in Consumers, DeliverOk(c)
    PROVE  Places'
<1> DEFINE h == held[c]
<1>1. /\ h # NoMessage /\ held' = [held EXCEPT ![c] = NoMessage] /\ c \notin acking
      /\ UNCHANGED <<sent, bound, subscribed, link, stopped, watching, queue, retry, orphans, dead, rejections, vanished, losses, acking, doubled>>
  BY DEF DeliverOk
<1>2. /\ h \in 1..sent /\ h \in Messages
      /\ HeldMessages = HeldMessages' \cup {h} /\ h \notin HeldMessages'
      /\ held' \in [Consumers -> Messages \cup {NoMessage}]
      /\ \A d \in Consumers : held'[d] # NoMessage => QueueOfMessage(held'[d]) = QueueOfConsumer(d)
      /\ \A d, e \in Consumers : d # e /\ held'[d] # NoMessage => held'[d] # held'[e]
  BY <1>1, PutsDown
<1>3. /\ handled' \in Seq(Messages)
      /\ ToSet(handled') \cup unheard' = ToSet(handled) \cup unheard \cup {h}
      /\ ToSet(handled') \subseteq ToSet(handled) \cup {h}
  <2>1. handled \in Seq(Messages)
    BY DEF Places, ContainersFit
  <2>2. Append(handled, h) \in Seq(Messages) /\ ToSet(Append(handled, h)) = ToSet(handled) \cup {h}
    BY <1>2, <2>1, AppendElements
  <2> QED BY <2>1, <2>2 DEF DeliverOk
<1>4. InQueues' = InQueues /\ AwaitingAck' = AwaitingAck /\ acking' \subseteq {d \in Consumers : held'[d] \in dead'}
  <2>1. InQueues' = InQueues
    BY <1>1 DEF InQueues, Consumers
  <2>2. \A d \in acking : d \in Consumers /\ held'[d] = held[d] /\ held[d] \in dead
    BY <1>1, PutsDown
  <2> QED BY <1>1, <2>1, <2>2 DEF AwaitingAck
<1> HIDE DEF h
<1>5. AmqpTypeOK' /\ ContainersFit'
  BY <1>1, <1>2, <1>3, <1>4 DEF Places, AmqpTypeOK, ContainersFit, QueueOfMessage, QueueOfConsumer, Consumers
<1>6. PublishedFirst' /\ KeptUntilHandled'
  BY <1>1, <1>2, <1>3, <1>4 DEF Places, PublishedFirst, KeptUntilHandled
<1>7. KeptOnce'
  BY <1>1, <1>2, <1>4 DEF Places, KeptOnce
<1> QED BY <1>5, <1>6, <1>7 DEF Places

\* A rejected message waits in the retry queue.
LEMMA NackPlaces ==
    ASSUME Places, NEW c \in Consumers, DeliverFails(c), Nack(c)
    PROVE  Places'
<1> DEFINE h == held[c]
<1>1. /\ h # NoMessage /\ held' = [held EXCEPT ![c] = NoMessage] /\ c \notin acking /\ UNCHANGED <<dead, acking>>
      /\ UNCHANGED <<sent, bound, subscribed, link, stopped, watching, queue, orphans, handled, unheard, vanished, doubled>>
      /\ retry' = Append(retry, h) /\ rejections' = [rejections EXCEPT ![h] = rejections[h] + 1]
  BY DEF DeliverFails, Nack
<1>2. /\ h \in 1..sent /\ h \in Messages /\ h \in HeldMessages
      /\ HeldMessages = HeldMessages' \cup {h} /\ h \notin HeldMessages' /\ h \notin InQueues
      /\ held' \in [Consumers -> Messages \cup {NoMessage}]
      /\ \A d \in Consumers : held'[d] # NoMessage => QueueOfMessage(held'[d]) = QueueOfConsumer(d)
      /\ \A d, e \in Consumers : d # e /\ held'[d] # NoMessage => held'[d] # held'[e]
      /\ \A d \in acking \ {c} : d \in Consumers /\ held'[d] = held[d] /\ held[d] \in dead
  BY <1>1, PutsDown
<1>3. retry' \in Seq(Messages) /\ ToSet(retry') = ToSet(retry) \cup {h} /\ IsInjective(retry')
  <2>1. retry \in Seq(Messages) /\ IsInjective(retry) /\ h \notin ToSet(retry)
    BY <1>2, QueuedMembers DEF Places, ContainersFit, KeptOnce
  <2> QED BY <1>1, <1>2, <2>1, AppendElements
<1>4. /\ rejections' \in [Messages -> Nat] /\ losses' \in 0..MaxLosses
      /\ \A m \in Messages : rejections'[m] <= MaxAttempts - 1 + losses'
  <2>1. /\ rejections \in [Messages -> Nat] /\ losses \in Nat /\ losses <= MaxLosses
        /\ \A m \in Messages : rejections[m] <= MaxAttempts - 1 + losses
    BY DEF Places, AmqpTypeOK
  <2>2. \/ rejections[h] + 1 < MaxAttempts /\ losses' = losses
        \/ losses < MaxLosses /\ losses' = losses + 1
    <3>1. h \in Messages /\ rejections[h] \in Nat
      BY <1>2, <2>1
    <3>2. acking' # acking \cup {c}
      BY <1>1
    <3> QED BY <3>1, <3>2 DEF DeliverFails, LastAttempt
  <2>3. rejections' \in [Messages -> Nat] /\ rejections'[h] = rejections[h] + 1
        /\ \A m \in Messages \ {h} : rejections'[m] = rejections[m]
    BY <1>1, <1>2, <2>1
  <2>4. losses' \in 0..MaxLosses /\ losses <= losses'
    BY <2>1, <2>2
  <2>5. h \in Messages /\ rejections[h] \in Nat
    BY <1>2, <2>1
  <2> HIDE DEF h
  <2>6. rejections'[h] <= MaxAttempts - 1 + losses'
    BY <2>1, <2>2, <2>3, <2>4, <2>5
  <2>7. \A m \in Messages \ {h} : rejections'[m] <= MaxAttempts - 1 + losses'
    BY <2>1, <2>3, <2>4
  <2> QED BY <2>3, <2>4, <2>6, <2>7
<1>5. /\ InQueues' = InQueues \cup {h} /\ AwaitingAck' = AwaitingAck
      /\ acking' \subseteq {d \in Consumers : held'[d] \in dead'}
  <2>1. InQueues' = InQueues \cup {h}
    BY <1>1, <1>3, QueuedMembers
  <2> QED BY <1>1, <1>2, <2>1 DEF AwaitingAck
<1> HIDE DEF h
<1>6. AmqpTypeOK' /\ ContainersFit'
  BY <1>1, <1>2, <1>3, <1>4, <1>5 DEF Places, AmqpTypeOK, ContainersFit, QueueOfMessage, QueueOfConsumer, Consumers
<1>7. PublishedFirst' /\ KeptUntilHandled'
  BY <1>1, <1>2, <1>5 DEF Places, PublishedFirst, KeptUntilHandled
<1>8. KeptOnce'
  <2>1. /\ \A q \in Consumers : IsInjective(queue[q]) /\ ToSet(queue[q]) \cap (ToSet(retry) \cup HeldMessages) = {}
        /\ ToSet(retry) \cap HeldMessages = {}
        /\ dead \cap (InQueues \cup HeldMessages) \subseteq doubled \cup AwaitingAck
    BY DEF Places, KeptOnce
  <2>2. \A q \in Consumers : h \notin ToSet(queue[q])
    BY <1>2, QueuedMembers
  <2>3. /\ \A q \in Consumers : ToSet(queue[q]) \cap (ToSet(retry') \cup HeldMessages') = {}
        /\ ToSet(retry') \cap HeldMessages' = {}
    BY <1>2, <1>3, <2>1, <2>2
  <2>4. dead' \cap (InQueues' \cup HeldMessages') \subseteq doubled' \cup AwaitingAck'
    BY <1>1, <1>2, <1>5, <2>1
  <2> QED BY <1>1, <1>2, <1>3, <2>1, <2>3, <2>4 DEF KeptOnce
<1> QED BY <1>6, <1>7, <1>8 DEF Places

\* After its last attempt a message is in the DLQ while its consumer still holds it.
LEMMA BuryPlaces ==
    ASSUME Places, NEW c \in Consumers, DeliverFails(c), ~Nack(c)
    PROVE  Places'
<1> DEFINE h == held[c]
<1>1. /\ h \in Deaf /\ dead' = dead \cup {h} /\ acking' = acking \cup {c}
      /\ UNCHANGED <<sent, bound, subscribed, link, stopped, watching, queue, held, retry, orphans, handled, unheard,
                     vanished, rejections, losses, doubled>>
  BY DEF DeliverFails
<1>2. h \in HeldMessages /\ h \in 1..sent
  BY <1>1 DEF Places, PublishedFirst, HeldMessages
<1>3. InQueues' = InQueues /\ HeldMessages' = HeldMessages /\ AwaitingAck' = AwaitingAck \cup {h}
  BY <1>1 DEF InQueues, HeldMessages, AwaitingAck, Consumers
<1> HIDE DEF h
<1>4. acking' \subseteq {d \in Consumers : held'[d] \in dead'}
  BY <1>1, AckingHolds DEF h, Consumers
<1>5. AmqpTypeOK' /\ ContainersFit'
  BY <1>1, <1>4 DEF Places, AmqpTypeOK, ContainersFit, QueueOfMessage, QueueOfConsumer, Consumers
<1>6. PublishedFirst' /\ KeptUntilHandled'
  BY <1>1, <1>2, <1>3 DEF Places, PublishedFirst, KeptUntilHandled
<1>7. KeptOnce'
  BY <1>1, <1>3 DEF Places, KeptOnce, Consumers
<1> QED BY <1>5, <1>6, <1>7 DEF Places

\* The Ack leaves a message in the DLQ alone.
LEMMA AckPlaces ==
    ASSUME Places, NEW c \in Consumers, Ack(c)
    PROVE  Places'
<1> DEFINE h == held[c]
<1>1. /\ c \in acking /\ acking' = acking \ {c} /\ held' = [held EXCEPT ![c] = NoMessage]
      /\ UNCHANGED <<sent, bound, subscribed, link, stopped, watching, queue, retry, orphans, dead, rejections,
                     handled, unheard, vanished, losses, doubled>>
  BY DEF Ack
<1>2. h \in dead /\ h # NoMessage
  BY <1>1, AckingHolds, NoneDead
<1>3. /\ h \in 1..sent /\ HeldMessages = HeldMessages' \cup {h} /\ h \notin HeldMessages' /\ h \notin InQueues
      /\ held' \in [Consumers -> Messages \cup {NoMessage}]
      /\ \A d \in Consumers : held'[d] # NoMessage => QueueOfMessage(held'[d]) = QueueOfConsumer(d)
      /\ \A d, e \in Consumers : d # e /\ held'[d] # NoMessage => held'[d] # held'[e]
      /\ \A d \in acking \ {c} : d \in Consumers /\ held'[d] = held[d] /\ held[d] \in dead
  BY <1>1, <1>2, PutsDown
<1>4. InQueues' = InQueues
  BY <1>1 DEF InQueues, Consumers
<1>5. AwaitingAck \subseteq AwaitingAck' \cup {h} /\ acking' \subseteq {d \in Consumers : held'[d] \in dead'}
  BY <1>1, <1>3 DEF AwaitingAck
<1> HIDE DEF h
<1>6. AmqpTypeOK' /\ ContainersFit'
  BY <1>1, <1>3, <1>5 DEF Places, AmqpTypeOK, ContainersFit, QueueOfMessage, QueueOfConsumer, Consumers
<1>7. PublishedFirst' /\ KeptUntilHandled'
  BY <1>1, <1>2, <1>3, <1>4 DEF Places, PublishedFirst, KeptUntilHandled
<1>8. KeptOnce'
  BY <1>1, <1>3, <1>4, <1>5 DEF Places, KeptOnce
<1> QED BY <1>6, <1>7, <1>8 DEF Places

\* The oldest rejected message returns to the queue of its partition.
LEMMA ExpirePlaces ==
    ASSUME Places, Expire
    PROVE  Places'
<1> DEFINE h == Head(retry)
           q == QueueOfMessage(h)
<1>1. /\ retry # <<>> /\ retry' = Tail(retry) /\ queue' = [queue EXCEPT ![q] = Append(queue[q], h)]
      /\ UNCHANGED <<sent, bound, subscribed, link, stopped, watching, held, orphans, dead, rejections, handled, unheard, vanished, losses, acking, doubled>>
  BY DEF Expire
<1>2. /\ retry \in Seq(Messages) /\ IsInjective(retry) /\ queue \in [Consumers -> Seq(Messages)]
      /\ ToSet(retry) \cap HeldMessages = {} /\ dead \cap (InQueues \cup HeldMessages) \subseteq doubled \cup AwaitingAck
      /\ \A p \in Consumers : ToSet(queue[p]) \cap (ToSet(retry) \cup HeldMessages) = {}
  BY DEF Places, ContainersFit, KeptOnce
<1>3. /\ h \in Messages /\ Tail(retry) \in Seq(Messages) /\ ToSet(retry) = {h} \cup ToSet(Tail(retry))
      /\ IsInjective(Tail(retry)) /\ h \notin ToSet(Tail(retry))
  BY <1>1, <1>2, TailElements
<1>4. q \in Consumers
  BY <1>3, QueueFacts
<1> HIDE DEF h
<1>5. /\ \A p \in Consumers : queue[p] \in Seq(Messages) /\ IsInjective(queue[p])
      /\ \A p \in Consumers : \A m \in ToSet(queue[p]) : m \in 1..sent /\ m \in Messages /\ QueueOfMessage(m) = p
  BY ElementFacts
<1>6. /\ h \in 1..sent /\ h \notin HeldMessages /\ \A p \in Consumers : h \notin ToSet(queue[p])
  <2>1. h \in ToSet(retry) /\ h \in InQueues
    BY <1>3, QueuedMembers
  <2> QED BY <1>2, <2>1 DEF Places, PublishedFirst
<1>7. /\ Append(queue[q], h) \in Seq(Messages) /\ ToSet(Append(queue[q], h)) = ToSet(queue[q]) \cup {h}
      /\ IsInjective(Append(queue[q], h))
  <2>1. queue[q] \in Seq(Messages) /\ IsInjective(queue[q]) /\ h \notin ToSet(queue[q])
    BY <1>4, <1>5, <1>6
  <2> QED BY <1>3, <2>1, AppendElements
<1>8. /\ queue' \in [Consumers -> Seq(Messages)] /\ queue'[q] = Append(queue[q], h)
      /\ \A p \in Consumers \ {q} : queue'[p] = queue[p]
  BY <1>1, <1>2, <1>4, <1>7
<1>9. /\ \A p \in Consumers : IsInjective(queue'[p])
      /\ \A p \in Consumers : \A m \in ToSet(queue'[p]) : m \in ToSet(queue[p]) \/ (m = h /\ p = q)
      /\ \A p \in Consumers : \A m \in ToSet(queue[p]) : m \in ToSet(queue'[p])
      /\ h \in ToSet(queue'[q])
  <2>1. \A p \in Consumers \ {q} : ToSet(queue'[p]) = ToSet(queue[p]) /\ IsInjective(queue'[p])
    BY <1>5, <1>8
  <2>2. ToSet(queue'[q]) = ToSet(queue[q]) \cup {h} /\ IsInjective(queue'[q])
    BY <1>7, <1>8
  <2> QED BY <2>1, <2>2, <1>4
<1>10. InQueues' = InQueues /\ AwaitingAck' = AwaitingAck
  BY <1>1, <1>3, <1>4, <1>9, QueuedMembers DEF AwaitingAck
<1>11. AmqpTypeOK' /\ ContainersFit'
  <2>1. \A p \in Consumers : \A m \in ToSet(queue[p])' : m \in 1..sent' /\ QueueOfMessage(m) = p
    BY <1>1, <1>5, <1>6, <1>9
  <2>2. retry' \in Seq(Messages)
    BY <1>1, <1>3
  <2> QED BY <1>1, <1>8, <2>1, <2>2, QueueTypes DEF Places, AmqpTypeOK, ContainersFit, QueueOfMessage, QueueOfConsumer, Consumers
<1>12. PublishedFirst' /\ KeptUntilHandled'
  <2>1. HeldMessages' = HeldMessages
    BY <1>1 DEF HeldMessages, Consumers
  <2> QED BY <1>1, <1>10, <2>1 DEF Places, PublishedFirst, KeptUntilHandled
<1>13. KeptOnce'
  <2>1. HeldMessages' = HeldMessages
    BY <1>1 DEF HeldMessages, Consumers
  <2>2. \A p \in Consumers : ToSet(queue'[p]) \cap (ToSet(retry') \cup HeldMessages') = {}
    BY <1>1, <1>2, <1>3, <1>6, <1>9, <2>1
  <2>3. ToSet(retry') \cap HeldMessages' = {} /\ dead' \cap (InQueues' \cup HeldMessages') \subseteq doubled' \cup AwaitingAck'
    BY <1>1, <1>2, <1>3, <1>10, <2>1
  <2> QED BY <1>1, <1>3, <1>9, <2>2, <2>3 DEF Places, KeptOnce
<1> QED BY <1>11, <1>12, <1>13 DEF Places

\* A message is published: it is in its queue, or it vanished.
LEMMA PublishPlaces ==
    ASSUME Places, PublishMessage
    PROVE  Places'
<1> DEFINE m == sent + 1
           q == QueueOfMessage(m)
<1>1. /\ m \in Messages /\ sent' = m
      /\ UNCHANGED <<bound, subscribed, link, stopped, watching, retry, held, orphans, dead, rejections, handled, unheard, acking, doubled>>
      /\ \/ queue' = [queue EXCEPT ![q] = Append(queue[q], m)] /\ UNCHANGED <<vanished, losses>>
         \/ vanished' = vanished \cup {m} /\ queue' = queue /\ losses' \in {losses, losses + 1}
            /\ (losses' = losses + 1 => losses < MaxLosses)
  <2>1. losses # losses + 1
    BY DEF Places, AmqpTypeOK
  <2> QED BY <2>1 DEF PublishMessage
<1>2. /\ sent \in Nat /\ m \notin 1..sent /\ 1..m = 1..sent \cup {m} /\ sent' \in 0..Cardinality(Messages)
      /\ losses' \in 0..MaxLosses /\ \A n \in Messages : rejections'[n] <= MaxAttempts - 1 + losses'
  <2>1. sent \in Nat /\ m \in Messages /\ sent' = m /\ losses \in 0..MaxLosses
    BY <1>1, QueueFacts DEF Places, AmqpTypeOK
  <2>2. m \notin 1..sent /\ 1..m = 1..sent \cup {m}
    BY <2>1
  <2>3. sent' \in 0..Cardinality(Messages)
    BY <2>1, QueueFacts
  <2>4. losses' \in 0..MaxLosses /\ losses' >= losses /\ losses' \in Nat /\ losses \in Nat /\ MaxLosses \in Nat
    BY <1>1, <2>1, QueueFacts
  <2>5. \A n \in Messages : rejections'[n] = rejections[n] /\ rejections[n] \in Nat /\ rejections[n] <= MaxAttempts - 1 + losses
    BY <1>1 DEF Places, AmqpTypeOK
  <2>6. MaxAttempts \in Nat
    BY QueueFacts
  <2> QED BY <2>1, <2>2, <2>3, <2>4, <2>5, <2>6
<1>3. q \in Consumers
  BY <1>1, QueueFacts
<1> HIDE DEF m
<1>4. /\ queue \in [Consumers -> Seq(Messages)]
      /\ \A p \in Consumers : queue[p] \in Seq(Messages) /\ IsInjective(queue[p])
      /\ \A p \in Consumers : \A n \in ToSet(queue[p]) : n \in 1..sent /\ QueueOfMessage(n) = p
  BY ElementFacts DEF Places, ContainersFit
<1>5. /\ InQueues \cup HeldMessages \cup dead \cup orphans \cup ToSet(handled) \subseteq 1..sent
      /\ m \notin InQueues \cup HeldMessages \cup dead
  BY <1>2 DEF Places, PublishedFirst
<1>6. /\ queue' \in [Consumers -> Seq(Messages)]
      /\ \A p \in Consumers : IsInjective(queue'[p])
      /\ \A p \in Consumers : \A n \in ToSet(queue'[p]) : n \in ToSet(queue[p]) \/ (n = m /\ p = q)
      /\ \A p \in Consumers : \A n \in ToSet(queue[p]) : n \in ToSet(queue'[p])
      /\ m \in ToSet(queue'[q]) \cup vanished' /\ vanished \subseteq vanished'
  <2>1. CASE queue' = queue
    BY <1>1, <1>3, <1>4, <2>1 DEF m, q
  <2>2. CASE queue' = [queue EXCEPT ![q] = Append(queue[q], m)] /\ vanished' = vanished
    <3>1. /\ Append(queue[q], m) \in Seq(Messages) /\ ToSet(Append(queue[q], m)) = ToSet(queue[q]) \cup {m}
          /\ IsInjective(Append(queue[q], m))
      <4>1. queue[q] \in Seq(Messages) /\ IsInjective(queue[q]) /\ m \notin ToSet(queue[q])
        BY <1>2, <1>3, <1>4
      <4> QED BY <1>1, <4>1, AppendElements
    <3> HIDE DEF q
    <3>2. queue'[q] = Append(queue[q], m) /\ \A p \in Consumers \ {q} : queue'[p] = queue[p]
      BY <1>3, <1>4, <2>2
    <3>3. \A p \in Consumers \ {q} : ToSet(queue'[p]) = ToSet(queue[p]) /\ IsInjective(queue'[p])
      BY <1>4, <3>2
    <3>4. ToSet(queue'[q]) = ToSet(queue[q]) \cup {m} /\ IsInjective(queue'[q])
      BY <3>1, <3>2
    <3>5. queue' \in [Consumers -> Seq(Messages)]
      BY <1>3, <1>4, <2>2, <3>1
    <3> QED BY <1>3, <2>2, <3>3, <3>4, <3>5
  <2> QED BY <1>1, <2>1, <2>2
<1>7. /\ InQueues \subseteq InQueues' /\ InQueues' \subseteq InQueues \cup {m} /\ m \in InQueues' \cup vanished'
      /\ HeldMessages' = HeldMessages /\ AwaitingAck' = AwaitingAck
  BY <1>1, <1>3, <1>6, QueuedMembers DEF HeldMessages, AwaitingAck, Consumers
<1>8. AmqpTypeOK' /\ ContainersFit'
  <2>1. \A p \in Consumers : \A n \in ToSet(queue[p])' : n \in 1..sent' /\ QueueOfMessage(n) = p
    BY <1>1, <1>2, <1>4, <1>6
  <2> QED BY <1>1, <1>2, <1>6, <2>1, QueueTypes DEF Places, AmqpTypeOK, ContainersFit, QueueOfMessage, QueueOfConsumer, Consumers
<1>9. PublishedFirst'
  BY <1>1, <1>2, <1>5, <1>7 DEF PublishedFirst
<1>10. KeptUntilHandled'
  BY <1>1, <1>2, <1>6, <1>7 DEF Places, KeptUntilHandled
<1>11. KeptOnce'
  <2>1. /\ \A p \in Consumers : ToSet(queue[p]) \cap (ToSet(retry) \cup HeldMessages) = {}
        /\ ToSet(retry) \cap HeldMessages = {} /\ IsInjective(retry)
        /\ dead \cap (InQueues \cup HeldMessages) \subseteq doubled \cup AwaitingAck
        /\ ToSet(retry) \subseteq InQueues
    BY QueuedMembers DEF Places, KeptOnce
  <2>2. \A p \in Consumers : ToSet(queue'[p]) \cap (ToSet(retry) \cup HeldMessages) = {}
    BY <1>5, <1>6, <2>1
  <2>3. dead \cap (InQueues' \cup HeldMessages) \subseteq doubled \cup AwaitingAck
    BY <1>5, <1>7, <2>1
  <2> QED BY <1>1, <1>6, <1>7, <2>1, <2>2, <2>3 DEF Places, KeptOnce
<1> QED BY <1>8, <1>9, <1>10, <1>11 DEF Places

\* A handler that outlived its connection ends: the message is also in its queue again.
LEMMA OrphanPlaces ==
    ASSUME Places, NEW m \in orphans, OrphanEnds(m)
    PROVE  Places'
<1>1. /\ orphans' = orphans \ {m} /\ handled' \in {handled, Append(handled, m)}
      /\ UNCHANGED <<sent, bound, subscribed, link, stopped, watching, queue, retry, held, dead, rejections, unheard, vanished, losses, acking, doubled>>
  BY DEF OrphanEnds
<1>2. m \in 1..sent /\ m \in Messages
  BY ElementFacts DEF Places, PublishedFirst
<1>3. handled' \in Seq(Messages) /\ ToSet(handled) \subseteq ToSet(handled') /\ ToSet(handled') \subseteq ToSet(handled) \cup {m}
  <2>1. handled \in Seq(Messages)
    BY DEF Places, ContainersFit
  <2>2. Append(handled, m) \in Seq(Messages) /\ ToSet(Append(handled, m)) = ToSet(handled) \cup {m}
    BY <1>2, <2>1, AppendElements
  <2> QED BY <1>1, <2>1, <2>2
<1>4. InQueues' = InQueues /\ HeldMessages' = HeldMessages /\ AwaitingAck' = AwaitingAck
  BY <1>1 DEF InQueues, HeldMessages, AwaitingAck, Consumers
<1>5. AmqpTypeOK' /\ ContainersFit'
  BY <1>1, <1>3 DEF Places, AmqpTypeOK, ContainersFit, QueueOfMessage, QueueOfConsumer, Consumers
<1>6. PublishedFirst' /\ KeptUntilHandled'
  BY <1>1, <1>2, <1>3, <1>4 DEF Places, PublishedFirst, KeptUntilHandled
<1>7. KeptOnce'
  BY <1>1, <1>4 DEF Places, KeptOnce, Consumers
<1> QED BY <1>5, <1>6, <1>7 DEF Places

\* The deliveries a lost connection returns: each unacknowledged message, once, to its queue.
LEMMA Redelivered ==
    ASSUME Places, DropLink
    PROVE  /\ queue' \in [Consumers -> Seq(Messages)] /\ HeldMessages' = {}
           /\ held' \in [Consumers -> {NoMessage}] /\ acking' = {} /\ AwaitingAck' = {}
           /\ orphans \subseteq orphans' /\ orphans' \subseteq orphans \cup HeldMessages
           /\ doubled' = doubled \cup AwaitingAck
           /\ \A q \in Consumers : /\ ToSet(queue'[q]) = Unacked(q) \cup ToSet(queue[q])
                                   /\ IsInjective(queue'[q])
           /\ \A q \in Consumers : \A m \in Unacked(q) : m \in HeldMessages /\ QueueOfMessage(m) = q
           /\ \A m \in HeldMessages : m \in Messages /\ m \in Unacked(QueueOfMessage(m))
<1>1. PICK back \in Returned : queue' = [q \in Consumers |-> back[q] \o queue[q]]
  BY DEF DropLink
<1>2. /\ held \in [Consumers -> Messages \cup {NoMessage}]
      /\ \A c \in Consumers : held[c] # NoMessage => QueueOfMessage(held[c]) = QueueOfConsumer(c)
  BY DEF Places, AmqpTypeOK, ContainersFit
<1>3. /\ held' \in [Consumers -> {NoMessage}] /\ HeldMessages' = {} /\ acking' = {} /\ AwaitingAck' = {}
      /\ orphans \subseteq orphans' /\ orphans' \subseteq orphans \cup HeldMessages
      /\ doubled' = doubled \cup AwaitingAck
  BY DEF DropLink, HeldMessages, AwaitingAck
<1>4. \A q \in Consumers : Unacked(q) \subseteq Messages /\ IsFiniteSet(Unacked(q))
  <2>1. \A q \in Consumers : Unacked(q) \subseteq Messages
    BY <1>2 DEF Unacked
  <2> QED BY <2>1, FS_Subset
<1>5. \A q \in Consumers : \A m \in Unacked(q) : m \in HeldMessages /\ QueueOfMessage(m) = q
  BY <1>2 DEF Unacked, HeldMessages
<1>6. \A m \in HeldMessages : m \in Messages /\ m \in Unacked(QueueOfMessage(m))
  BY <1>2 DEF Unacked, HeldMessages
<1>7. ASSUME NEW q \in Consumers
      PROVE  /\ queue'[q] \in Seq(Messages) /\ ToSet(queue'[q]) = Unacked(q) \cup ToSet(queue[q])
             /\ IsInjective(queue'[q])
  <2>1. back[q] \in SetToSeqs(Unacked(q))
    BY <1>1 DEF Returned
  <2>2. back[q] \in Seq(Unacked(q)) /\ ToSet(back[q]) = Unacked(q) /\ IsInjective(back[q])
    BY <1>4, <2>1, OrderElements
  <2>3. back[q] \in Seq(Messages)
    BY <1>4, <2>2, SeqMonotonic
  <2>4. queue[q] \in Seq(Messages) /\ IsInjective(queue[q]) /\ Unacked(q) \cap ToSet(queue[q]) = {}
    BY <1>5, ElementFacts DEF Places, KeptOnce
  <2>5. queue'[q] = back[q] \o queue[q]
    BY <1>1
  <2> QED BY <2>2, <2>3, <2>4, <2>5, ConcatElements
<1>8. queue' \in [Consumers -> Seq(Messages)]
  BY <1>1, <1>7
<1> QED BY <1>3, <1>5, <1>6, <1>7, <1>8

\* A connection that goes keeps every message where the next one finds it.
LEMMA DropPlaces ==
    ASSUME Places, DropLink, losses' \in 0..MaxLosses, losses <= losses', link' \in {"none", "up", "down", "dialed", "closed"},
           stopped' \in BOOLEAN, watching' \in BOOLEAN,
           UNCHANGED <<sent, bound, subscribed, retry, dead, rejections, handled, unheard, vanished>>
    PROVE  Places'
<1>1. /\ queue' \in [Consumers -> Seq(Messages)] /\ HeldMessages' = {}
      /\ held' \in [Consumers -> {NoMessage}] /\ orphans' \subseteq orphans \cup HeldMessages
      /\ acking' = {} /\ doubled' = doubled \cup AwaitingAck
      /\ \A q \in Consumers : ToSet(queue'[q]) = Unacked(q) \cup ToSet(queue[q]) /\ IsInjective(queue'[q])
      /\ \A q \in Consumers : \A m \in Unacked(q) : m \in HeldMessages /\ QueueOfMessage(m) = q
      /\ \A m \in HeldMessages : m \in Messages /\ m \in Unacked(QueueOfMessage(m))
  BY Redelivered
<1>2. InQueues' = InQueues \cup HeldMessages
  <2>1. \A m \in HeldMessages : QueueOfMessage(m) \in Consumers
    BY <1>1, QueueFacts
  <2> QED BY <1>1, <2>1, QueuedMembers
<1>3. HeldMessages \subseteq 1..sent
  BY DEF Places, PublishedFirst
<1>4. AmqpTypeOK' /\ ContainersFit'
  <2>1. \A p \in Consumers : \A m \in ToSet(queue[p])' : m \in 1..sent' /\ QueueOfMessage(m) = p
    <3>1. \A p \in Consumers : \A m \in ToSet(queue[p]) : m \in 1..sent /\ QueueOfMessage(m) = p
      BY ElementFacts
    <3>2. \A p \in Consumers : \A m \in Unacked(p) : m \in 1..sent /\ QueueOfMessage(m) = p
      BY <1>1, <1>3
    <3>3. \A p \in Consumers : \A m \in ToSet(queue'[p]) : m \in Unacked(p) \/ m \in ToSet(queue[p])
      BY <1>1
    <3> QED BY <3>1, <3>2, <3>3
  <2>2. held' \in [Consumers -> Messages \cup {NoMessage}] /\ \A c \in Consumers : held'[c] = NoMessage
    BY <1>1
  <2>3. \A m \in Messages : rejections'[m] <= MaxAttempts - 1 + losses'
    BY DEF Places, AmqpTypeOK
  <2> QED BY <1>1, <2>1, <2>2, <2>3, QueueTypes DEF Places, AmqpTypeOK, ContainersFit, QueueOfMessage, QueueOfConsumer, Consumers
<1>5. PublishedFirst' /\ KeptUntilHandled'
  BY <1>1, <1>2, <1>3 DEF Places, PublishedFirst, KeptUntilHandled
<1>6. KeptOnce'
  <2>1. /\ \A p \in Consumers : ToSet(queue[p]) \cap (ToSet(retry) \cup HeldMessages) = {}
        /\ ToSet(retry) \cap HeldMessages = {} /\ IsInjective(retry)
        /\ dead \cap (InQueues \cup HeldMessages) \subseteq doubled \cup AwaitingAck
    BY DEF Places, KeptOnce
  <2>2. \A p \in Consumers : ToSet(queue'[p]) \cap ToSet(retry) = {}
    BY <1>1, <2>1
  <2>3. dead \cap InQueues' \subseteq doubled'
    BY <1>1, <1>2, <2>1
  <2>4. \A c \in Consumers : held'[c] = NoMessage
    BY <1>1
  <2> QED BY <1>1, <2>1, <2>2, <2>3, <2>4 DEF KeptOnce
<1> QED BY <1>4, <1>5, <1>6 DEF Places

\* Steps of the connection, the supervisor and Subscribe that move no message.
LEMMA LinkFrame ==
    ASSUME Places, link' \in {"none", "up", "down", "dialed", "closed"},
           bound' \in BOOLEAN, subscribed' \in BOOLEAN, stopped' \in BOOLEAN, watching' \in BOOLEAN,
           UNCHANGED <<sent, queue, retry, held, orphans, dead, rejections, handled, unheard, vanished, losses, acking, doubled>>
    PROVE  Places'
<1>1. InQueues' = InQueues /\ HeldMessages' = HeldMessages /\ AwaitingAck' = AwaitingAck
  BY DEF InQueues, HeldMessages, AwaitingAck, Consumers
<1>2. AmqpTypeOK' /\ ContainersFit'
  BY DEF Places, AmqpTypeOK, ContainersFit, QueueOfMessage, QueueOfConsumer, Consumers
<1>3. PublishedFirst' /\ KeptUntilHandled' /\ KeptOnce'
  BY <1>1 DEF Places, PublishedFirst, KeptUntilHandled, KeptOnce, Consumers
<1> QED BY <1>2, <1>3 DEF Places

\* Every step of the channel keeps every message in one place.
LEMMA PlacesNext ==
    ASSUME Places, [AmqpNext]_amqpVars
    PROVE  Places'
<1>1. /\ bound \in BOOLEAN /\ subscribed \in BOOLEAN /\ stopped \in BOOLEAN /\ watching \in BOOLEAN
      /\ link \in {"none", "up", "down", "dialed", "closed"} /\ losses \in 0..MaxLosses /\ MaxLosses \in Nat
  BY DEF Places, AmqpTypeOK
<1>2. CASE NewRabbitMQChannel
  BY <1>1, <1>2, LinkFrame DEF NewRabbitMQChannel
<1>3. CASE Subscribe
  BY <1>1, <1>3, LinkFrame DEF Subscribe
<1>4. CASE LoseConnection
  BY <1>1, <1>4, DropPlaces DEF LoseConnection
<1>5. CASE Redial
  BY <1>1, <1>5, LinkFrame DEF Redial
<1>6. CASE Install
  <2>1. CASE stopped
    <3>1. /\ link' = "closed" /\ watching' = FALSE /\ DropLink
          /\ UNCHANGED <<sent, bound, subscribed, stopped, retry, dead, rejections, handled, unheard, vanished, losses>>
      BY <1>6, <2>1 DEF Install
    <3>2. losses' \in 0..MaxLosses /\ losses <= losses' /\ stopped' \in BOOLEAN
      BY <1>1, <3>1
    <3> QED BY <3>1, <3>2, DropPlaces
  <2>2. CASE ~stopped
    BY <1>1, <1>6, <2>2, LinkFrame DEF Install
  <2> QED BY <2>1, <2>2
<1>7. CASE Close
  BY <1>1, <1>7, LinkFrame, DropPlaces DEF Close
<1>8. CASE SupervisorEnds
  BY <1>1, <1>8, LinkFrame DEF SupervisorEnds
<1>9. CASE UNCHANGED amqpVars
  BY <1>1, <1>9, LinkFrame DEF amqpVars
<1> QED BY <1>2, <1>3, <1>4, <1>5, <1>6, <1>7, <1>8, <1>9, TakePlaces, OkPlaces, NackPlaces, BuryPlaces, AckPlaces,
           ExpirePlaces, PublishPlaces, OrphanPlaces DEF AmqpNext

\* The supervisor stays until it has closed what it dialed.
LEMMA LinkNext ==
    ASSUME Places, LinkIsWatched, [AmqpNext]_amqpVars
    PROVE  LinkIsWatched'
<1>1. CASE DropLink /\ (LoseConnection \/ Install \/ Close)
  <2>1. HeldMessages' = {}
    BY <1>1, Redelivered
  <2> QED BY <1>1, <2>1 DEF LoseConnection, Install, Close, LinkIsWatched, Open
<1>2. CASE UNCHANGED held /\ (NewRabbitMQChannel \/ Subscribe \/ PublishMessage \/ Expire \/ Redial \/ (Install /\ ~DropLink)
                             \/ (Close /\ ~DropLink) \/ SupervisorEnds \/ UNCHANGED amqpVars)
  <2>1. HeldMessages' = HeldMessages
    BY <1>2 DEF HeldMessages, Consumers
  <2>2. CASE NewRabbitMQChannel \/ Redial
    BY <2>1, <2>2 DEF NewRabbitMQChannel, Redial, LinkIsWatched, Open
  <2>3. CASE Subscribe \/ PublishMessage \/ Expire \/ UNCHANGED amqpVars
    BY <2>1, <2>3 DEF Subscribe, PublishMessage, Expire, LinkIsWatched, Open, amqpVars
  <2>4. CASE ~DropLink /\ (Install \/ Close)
    BY <2>1, <2>4 DEF Install, Close, LinkIsWatched, Open
  <2>5. CASE SupervisorEnds
    BY <2>1, <2>5 DEF SupervisorEnds, LinkIsWatched, Open
  <2> QED BY <1>2, <2>2, <2>3, <2>4, <2>5
<1>3. CASE \E c \in Consumers : TakeDelivery(c) \/ DeliverOk(c) \/ DeliverFails(c) \/ Ack(c)
  BY <1>3 DEF TakeDelivery, DeliverOk, DeliverFails, Ack, LinkIsWatched, Open
<1>4. CASE \E m \in orphans : OrphanEnds(m)
  <2>1. HeldMessages' = HeldMessages
    BY <1>4 DEF HeldMessages, Consumers, OrphanEnds
  <2> QED BY <1>4, <2>1 DEF OrphanEnds, LinkIsWatched, Open
<1>5. /\ LoseConnection => DropLink
      /\ Install \/ Close => DropLink \/ UNCHANGED held
      /\ NewRabbitMQChannel \/ Subscribe \/ PublishMessage \/ Expire \/ Redial \/ SupervisorEnds
         \/ UNCHANGED amqpVars => UNCHANGED held
  BY DEF LoseConnection, Install, Close, NewRabbitMQChannel, Subscribe, PublishMessage, Expire, Redial,
         SupervisorEnds, amqpVars
<1> QED BY <1>1, <1>2, <1>3, <1>4, <1>5 DEF AmqpNext

\* A sequence of numbers that grows at its end with a greater one, or loses its head.
LEMMA AscendingFacts ==
    ASSUME NEW s \in Seq(Messages), Ascending(s)
    PROVE  /\ \A e \in Messages : (\A m \in ToSet(s) : m < e) => Ascending(Append(s, e))
           /\ s # <<>> => Ascending(Tail(s)) /\ \A m \in ToSet(Tail(s)) : Head(s) < m
<1>1. Messages \subseteq Nat /\ Len(s) \in Nat /\ DOMAIN s = 1..Len(s) /\ \A i \in 1..Len(s) : s[i] \in Messages
  BY QueueFacts, LenProperties, ElementOfSeq
<1>2. ASSUME NEW e \in Messages, \A m \in ToSet(s) : m < e
      PROVE  Ascending(Append(s, e))
  <2>1. /\ Append(s, e) \in Seq(Messages) /\ Len(Append(s, e)) = Len(s) + 1 /\ Append(s, e)[Len(s) + 1] = e
        /\ \A i \in 1..Len(s) : Append(s, e)[i] = s[i]
    BY AppendProperties
  <2>2. DOMAIN Append(s, e) = 1..Len(s) + 1
    BY <2>1, LenProperties
  <2>3. \A i \in 1..Len(s) : s[i] < e
    BY <1>1, <1>2 DEF ToSet
  <2> QED BY <1>1, <2>1, <2>2, <2>3 DEF Ascending
<1>3. ASSUME s # <<>>
      PROVE  Ascending(Tail(s)) /\ \A m \in ToSet(Tail(s)) : Head(s) < m
  <2>1. /\ Tail(s) \in Seq(Messages) /\ Len(Tail(s)) = Len(s) - 1
        /\ \A i \in 1..Len(Tail(s)) : Tail(s)[i] = s[i + 1]
    BY <1>3, HeadTailProperties
  <2>2. Len(s) # 0 /\ DOMAIN Tail(s) = 1..Len(s) - 1 /\ Head(s) = s[1]
    BY <1>3, <2>1, LenProperties, EmptySeq
  <2> QED BY <1>1, <2>1, <2>2 DEF Ascending, ToSet
<1> QED BY <1>2, <1>3

\* Two ascending sequences, one below the other.
LEMMA AscendingConcat ==
    ASSUME NEW s \in Seq(Messages), NEW t \in Seq(Messages), Ascending(s), Ascending(t),
           \A m \in ToSet(s), n \in ToSet(t) : m < n
    PROVE  Ascending(s \o t)
<1>1. /\ s \o t \in Seq(Messages) /\ Len(s \o t) = Len(s) + Len(t)
      /\ \A i \in 1..Len(s) + Len(t) : (s \o t)[i] = IF i <= Len(s) THEN s[i] ELSE t[i - Len(s)]
  BY ConcatProperties
<1>2. /\ Len(s) \in Nat /\ DOMAIN s = 1..Len(s) /\ Len(t) \in Nat /\ DOMAIN t = 1..Len(t)
      /\ DOMAIN (s \o t) = 1..Len(s) + Len(t)
  BY <1>1, LenProperties
<1>3. \A k \in 1..Len(s) + Len(t) : k <= Len(s) => k \in DOMAIN s /\ (s \o t)[k] = s[k]
  BY <1>1, <1>2
<1>4. \A k \in 1..Len(s) + Len(t) : ~(k <= Len(s)) => k - Len(s) \in DOMAIN t /\ (s \o t)[k] = t[k - Len(s)]
  BY <1>1, <1>2
<1>5. \A k \in DOMAIN s, l \in DOMAIN t : s[k] < t[l]
  BY DEF ToSet
<1> SUFFICES ASSUME NEW i \in 1..Len(s) + Len(t), NEW j \in 1..Len(s) + Len(t), i < j
             PROVE  (s \o t)[i] < (s \o t)[j]
  BY <1>2 DEF Ascending
<1>6. CASE j <= Len(s)
  <2>1. i <= Len(s)
    BY <1>2, <1>6
  <2> QED BY <1>3, <1>6, <2>1 DEF Ascending
<1>7. CASE i <= Len(s) /\ ~(j <= Len(s))
  BY <1>3, <1>4, <1>5, <1>7
<1>8. CASE ~(i <= Len(s)) /\ ~(j <= Len(s))
  <2>1. i - Len(s) < j - Len(s)
    BY <1>2
  <2> QED BY <1>4, <1>8, <2>1 DEF Ascending
<1>9. i <= Len(s) \/ ~(j <= Len(s))
  BY <1>2
<1> QED BY <1>6, <1>7, <1>8, <1>9

\* A message that is handled after all of its partition.
LEMMA HandledGrows ==
    ASSUME NEW s \in Seq(Messages), NEW e \in Messages, Above(e, s),
           \A i, j \in DOMAIN s : i < j /\ QueueOfMessage(s[i]) = QueueOfMessage(s[j]) => s[i] < s[j]
    PROVE  /\ \A i, j \in DOMAIN Append(s, e) :
                i < j /\ QueueOfMessage(Append(s, e)[i]) = QueueOfMessage(Append(s, e)[j])
                   => Append(s, e)[i] < Append(s, e)[j]
           /\ \A m \in Messages : Above(m, s) /\ (QueueOfMessage(e) = QueueOfMessage(m) => e < m) => Above(m, Append(s, e))
<1>1. /\ Append(s, e) \in Seq(Messages) /\ Len(Append(s, e)) = Len(s) + 1 /\ Append(s, e)[Len(s) + 1] = e
      /\ \A i \in 1..Len(s) : Append(s, e)[i] = s[i]
  BY AppendProperties
<1>2. Len(s) \in Nat /\ DOMAIN s = 1..Len(s) /\ DOMAIN Append(s, e) = 1..Len(s) + 1
  BY <1>1, LenProperties
<1>3. \A i \in DOMAIN Append(s, e) : i = Len(s) + 1 \/ i \in DOMAIN s
  BY <1>2
<1>4. \A m \in Messages : Above(m, s) /\ (QueueOfMessage(e) = QueueOfMessage(m) => e < m) => Above(m, Append(s, e))
  BY <1>1, <1>2, <1>3 DEF Above
<1>5. ASSUME NEW i \in DOMAIN Append(s, e), NEW j \in DOMAIN Append(s, e), i < j,
             QueueOfMessage(Append(s, e)[i]) = QueueOfMessage(Append(s, e)[j])
      PROVE  Append(s, e)[i] < Append(s, e)[j]
  <2>1. i \in DOMAIN s /\ Append(s, e)[i] = s[i]
    BY <1>1, <1>2, <1>5
  <2>2. CASE j \in DOMAIN s
    <3>1. Append(s, e)[j] = s[j]
      BY <1>1, <1>2, <2>2
    <3> QED BY <1>5, <2>1, <2>2, <3>1
  <2>3. CASE j = Len(s) + 1
    <3>1. Append(s, e)[j] = e
      BY <1>1, <2>3
    <3> QED BY <1>5, <2>1, <3>1 DEF Above
  <2> QED BY <1>3, <2>2, <2>3
<1> QED BY <1>4, <1>5

\* A partition was quiet before every step after which it is.
LEMMA QuietBefore ==
    ASSUME Places, [AmqpNext]_amqpVars, Quiet'
    PROVE  /\ Quiet /\ ~LoseConnection /\ losses' = losses
           /\ \A c \in Consumers : DeliverFails(c) => UNCHANGED <<sent, queue, link, retry, held, orphans, handled>>
<1>1. losses \in Nat /\ rejections \in [Messages -> Nat] /\ losses' = 0 /\ Keyed
      /\ \A m \in Messages : rejections'[m] = 0
  BY DEF Places, AmqpTypeOK, Quiet
<1>2. losses' \in {losses, losses + 1}
  BY DEF AmqpNext, amqpVars, NewRabbitMQChannel, Subscribe, PublishMessage, Expire, LoseConnection, Redial, Install,
         Close, SupervisorEnds, TakeDelivery, DeliverOk, DeliverFails, Ack, OrphanEnds
<1>3. losses = 0 /\ losses' = losses /\ ~LoseConnection
  BY <1>1, <1>2 DEF LoseConnection
<1>4. ASSUME NEW c \in Consumers, DeliverFails(c)
      PROVE  UNCHANGED <<sent, queue, link, retry, held, orphans, handled, rejections>>
  <2>1. ~Nack(c)
    <3> SUFFICES ASSUME Nack(c) PROVE FALSE
      OBVIOUS
    <3>1. rejections' = [rejections EXCEPT ![held[c]] = rejections[held[c]] + 1] /\ held[c] \in Messages
      BY <1>4 DEF Nack, DeliverFails
    <3>2. rejections'[held[c]] = rejections[held[c]] + 1 /\ rejections[held[c]] \in Nat
      BY <1>1, <3>1
    <3> QED BY <1>1, <3>1, <3>2
  <2> QED BY <1>4, <2>1 DEF DeliverFails
<1>5. (\E c \in Consumers : DeliverFails(c)) \/ rejections' = rejections
  BY DEF AmqpNext, amqpVars, NewRabbitMQChannel, Subscribe, PublishMessage, Expire, LoseConnection, Redial, Install,
         Close, SupervisorEnds, TakeDelivery, DeliverOk, Ack, OrphanEnds
<1> QED BY <1>1, <1>3, <1>4, <1>5 DEF Quiet

\* The head of a partition goes to its consumer.
LEMMA QuietTake ==
    ASSUME Places, Quiet, QuietLines, NEW c \in Consumers, TakeDelivery(c)
    PROVE  QuietLines'
<1> DEFINE h == Head(queue[c])
<1>1. /\ Keyed /\ QueueOfConsumer(c) = c /\ link # "closed"
      /\ queue \in [Consumers -> Seq(Messages)] /\ held \in [Consumers -> Messages \cup {NoMessage}]
  BY QueueFacts DEF Quiet, TakeDelivery, Open, Places, ContainersFit, AmqpTypeOK
<1>2. /\ queue[c] # <<>> /\ queue' = [queue EXCEPT ![c] = Tail(queue[c])] /\ held' = [held EXCEPT ![c] = h]
      /\ UNCHANGED <<link, retry, orphans, handled>>
  BY <1>1 DEF TakeDelivery
<1>3. queue[c] \in Seq(Messages) /\ Ascending(queue[c])
  BY <1>1 DEF QuietLines
<1>4. Ascending(Tail(queue[c])) /\ \A m \in ToSet(Tail(queue[c])) : h < m
  BY <1>2, <1>3, AscendingFacts
<1>5. h \in ToSet(queue[c]) /\ ToSet(Tail(queue[c])) \subseteq ToSet(queue[c])
  BY <1>2, <1>3, TailElements
<1>6. Above(h, handled) /\ \A q \in Consumers : \A m \in ToSet(queue[q]) : Above(m, handled)
  BY <1>1, <1>5 DEF QuietLines
<1> HIDE DEF h
<1>7. /\ queue'[c] = Tail(queue[c]) /\ \A q \in Consumers \ {c} : queue'[q] = queue[q]
      /\ held'[c] = h /\ \A d \in Consumers \ {c} : held'[d] = held[d]
  BY <1>1, <1>2
<1>8. \A q \in Consumers : Ascending(queue'[q])
  BY <1>4, <1>7 DEF QuietLines
<1>9. \A d \in Consumers : held'[d] # NoMessage => (\A m \in ToSet(queue'[d]) : held'[d] < m) /\ Above(held'[d], handled)
  BY <1>4, <1>6, <1>7 DEF QuietLines
<1>10. \A q \in Consumers : \A m \in ToSet(queue'[q]) : Above(m, handled)
  BY <1>5, <1>6, <1>7
<1>11. handled' = handled /\ link' = link /\ retry' = retry /\ orphans' = orphans
  BY <1>2
<1> QED BY <1>8, <1>9, <1>10, <1>11 DEF QuietLines, QueueOfMessage, Above

\* A consumer puts its message down: it is handled after all of its partition, or not at all.
LEMMA QuietPutDown ==
    ASSUME Places, Quiet, QuietLines, NEW c \in Consumers, held[c] # NoMessage, held' = [held EXCEPT ![c] = NoMessage],
           Open, handled' \in {handled, Append(handled, held[c])}, UNCHANGED <<sent, queue, link, retry, orphans>>
    PROVE  QuietLines'
<1> DEFINE h == held[c]
<1>1. /\ Keyed /\ link # "closed" /\ \A d \in Consumers : QueueOfConsumer(d) = d
      /\ handled \in Seq(Messages) /\ held \in [Consumers -> Messages \cup {NoMessage}]
      /\ h \in Messages /\ QueueOfMessage(h) = c
      /\ \A d \in Consumers : held'[d] # NoMessage => QueueOfMessage(held'[d]) = d
  BY QueueFacts, PutsDown DEF Quiet, Open, Places, ContainersFit, AmqpTypeOK
<1>2. /\ held'[c] = NoMessage /\ \A d \in Consumers \ {c} : held'[d] = held[d] /\ held[d] \in Messages \cup {NoMessage}
  BY <1>1
<1>3. /\ Above(h, handled) /\ \A m \in ToSet(queue[c]) : h < m
      /\ \A d \in Consumers : held[d] # NoMessage => Above(held[d], handled) /\ \A m \in ToSet(queue[d]) : held[d] < m
      /\ orphans = {} /\ \A q \in Consumers : \A m \in ToSet(queue[q]) : Above(m, handled)
      /\ \A i, j \in DOMAIN handled :
            i < j /\ QueueOfMessage(handled[i]) = QueueOfMessage(handled[j]) => handled[i] < handled[j]
  BY <1>1 DEF QuietLines
<1> HIDE DEF h
<1>4. /\ \A i, j \in DOMAIN handled' :
            i < j /\ QueueOfMessage(handled'[i]) = QueueOfMessage(handled'[j]) => handled'[i] < handled'[j]
      /\ \A m \in Messages : Above(m, handled) /\ (QueueOfMessage(h) = QueueOfMessage(m) => h < m) => Above(m, handled')
  <2>1. CASE handled' = handled
    BY <1>3, <2>1
  <2>2. CASE handled' = Append(handled, h)
    BY <1>1, <1>3, <2>2, HandledGrows
  <2> QED BY <2>1, <2>2 DEF h
<1>5. \A d \in Consumers : held'[d] # NoMessage => (\A m \in ToSet(queue[d]) : held'[d] < m) /\ Above(held'[d], handled')
  BY <1>1, <1>2, <1>3, <1>4
<1>6. \A q \in Consumers : \A m \in ToSet(queue[q]) : Above(m, handled')
  <2>1. \A q \in Consumers : \A m \in ToSet(queue[q]) : m \in Messages /\ QueueOfMessage(m) = q
    BY ElementFacts
  <2> QED BY <1>1, <1>3, <1>4, <2>1
<1> QED BY <1>3, <1>4, <1>5, <1>6 DEF QuietLines, QueueOfMessage, Above

\* What is published comes after all that was.
LEMMA QuietPublish ==
    ASSUME Places, Quiet, QuietLines, PublishMessage, losses' = losses
    PROVE  QuietLines'
<1> DEFINE m == sent + 1
           q == QueueOfMessage(m)
<1>1. /\ m \in Messages /\ UNCHANGED <<link, retry, held, orphans, handled>>
      /\ queue' = queue \/ queue' = [queue EXCEPT ![q] = Append(queue[q], m)]
  BY DEF PublishMessage
<1>2. /\ Messages \subseteq Nat /\ sent \in Nat /\ q \in Consumers
      /\ queue \in [Consumers -> Seq(Messages)] /\ handled \in Seq(Messages)
      /\ held \in [Consumers -> Messages \cup {NoMessage}]
      /\ \A p \in Consumers : queue[p] \in Seq(Messages)
      /\ \A p \in Consumers : \A n \in ToSet(queue[p]) : n \in 1..sent
  BY <1>1, QueueFacts, ElementFacts DEF Places, ContainersFit, AmqpTypeOK
<1>3. /\ \A c \in Consumers : held[c] # NoMessage => held[c] < m
      /\ \A i \in DOMAIN handled : handled[i] < m
  <2>1. /\ \A c \in Consumers : held[c] # NoMessage => held[c] \in 1..sent
        /\ \A i \in DOMAIN handled : handled[i] \in 1..sent
    BY DEF Places, PublishedFirst, HeldMessages, ToSet
  <2> QED BY <1>2, <2>1
<1>4. Above(m, handled)
  BY <1>3 DEF Above
<1>5. CASE queue' = queue
  BY <1>1, <1>5 DEF QuietLines, QueueOfMessage, Above
<1>6. CASE queue' = [queue EXCEPT ![q] = Append(queue[q], m)]
  <2>1. \A n \in ToSet(queue[q]) : n < m
    BY <1>2
  <2>2. Ascending(Append(queue[q], m)) /\ ToSet(Append(queue[q], m)) = ToSet(queue[q]) \cup {m}
    BY <1>1, <1>2, <2>1, AscendingFacts, AppendElements DEF QuietLines
  <2> HIDE DEF m, q
  <2>3. queue'[q] = Append(queue[q], m) /\ \A p \in Consumers \ {q} : queue'[p] = queue[p]
    BY <1>2, <1>6
  <2>4. /\ \A p \in Consumers : Ascending(queue'[p])
        /\ \A p \in Consumers : \A n \in ToSet(queue'[p]) : n \in ToSet(queue[p]) \/ n = m
    BY <2>2, <2>3 DEF QuietLines
  <2>5. \A c \in Consumers : held[c] # NoMessage => (\A n \in ToSet(queue'[c]) : held[c] < n) /\ Above(held[c], handled)
    BY <1>3, <2>4 DEF QuietLines
  <2>6. link # "closed" => \A p \in Consumers : \A n \in ToSet(queue'[p]) : Above(n, handled)
    BY <1>4, <2>4 DEF QuietLines
  <2> QED BY <1>1, <2>4, <2>5, <2>6 DEF QuietLines, QueueOfMessage, Above
<1> QED BY <1>1, <1>5, <1>6

\* Close returns what the consumers held to the heads of their partitions, and leaves their
\* handlers running.
LEMMA QuietClose ==
    ASSUME Places, Quiet, QuietLines, link = "up", link' = "closed", DropLink, UNCHANGED <<retry, handled>>
    PROVE  QuietLines'
<1>1. /\ Keyed /\ held \in [Consumers -> Messages \cup {NoMessage}] /\ queue \in [Consumers -> Seq(Messages)]
      /\ \A c \in Consumers : QueueOfConsumer(c) = c /\ (held[c] # NoMessage => QueueOfMessage(held[c]) = c)
  BY QueueFacts DEF Quiet, Places, ContainersFit, AmqpTypeOK
<1>2. /\ held' \in [Consumers -> {NoMessage}] /\ orphans' \subseteq orphans \cup HeldMessages
  BY Redelivered
<1>3. /\ orphans = {} /\ \A q \in Consumers : Ascending(queue[q])
      /\ \A c \in Consumers : held[c] # NoMessage => Above(held[c], handled) /\ \A m \in ToSet(queue[c]) : held[c] < m
  BY DEF QuietLines
<1>4. PICK back \in Returned : queue' = [q \in Consumers |-> back[q] \o queue[q]]
  BY DEF DropLink
<1>5. ASSUME NEW q \in Consumers
      PROVE  Ascending(queue'[q])
  <2>1. back[q] \in SetToSeqs(Unacked(q)) /\ queue'[q] = back[q] \o queue[q] /\ queue[q] \in Seq(Messages)
    BY <1>1, <1>4 DEF Returned
  <2>2. \A m \in Unacked(q) : m = held[q] /\ held[q] # NoMessage /\ m \in Messages
    BY <1>1 DEF Unacked
  <2>3. Unacked(q) \subseteq Messages /\ IsFiniteSet(Unacked(q))
    BY <2>2, FS_Subset
  <2>4. back[q] \in Seq(Unacked(q)) /\ ToSet(back[q]) = Unacked(q) /\ IsInjective(back[q])
    BY <2>1, <2>3, OrderElements
  <2>5. back[q] \in Seq(Messages)
    BY <2>3, <2>4, SeqMonotonic
  <2>6. Ascending(back[q])
    <3>1. \A i \in DOMAIN back[q] : back[q][i] = held[q]
      BY <2>2, <2>4 DEF ToSet
    <3>2. \A i, j \in DOMAIN back[q] : i = j
      BY <2>4, <3>1 DEF IsInjective
    <3>3. DOMAIN back[q] \subseteq Nat
      BY <2>5, LenProperties
    <3> QED BY <3>2, <3>3 DEF Ascending
  <2>7. \A m \in ToSet(back[q]), n \in ToSet(queue[q]) : m < n
    BY <1>3, <2>2, <2>4
  <2> QED BY <1>3, <2>1, <2>5, <2>6, <2>7, AscendingConcat
<1>6. \A m \in orphans' : Above(m, handled)
  BY <1>2, <1>3 DEF HeldMessages
<1>7. \A m, n \in orphans' : m # n => QueueOfMessage(m) # QueueOfMessage(n)
  BY <1>1, <1>2, <1>3 DEF HeldMessages
<1>8. \A c \in Consumers : held'[c] = NoMessage
  BY <1>2
<1> QED BY <1>5, <1>6, <1>7, <1>8 DEF QuietLines, QueueOfMessage, Above

\* The handler that was running at Close ends after all of its partition.
LEMMA QuietOrphan ==
    ASSUME Places, LinkIsWatched, Quiet, QuietLines, NEW m \in orphans, OrphanEnds(m)
    PROVE  QuietLines'
<1>1. /\ orphans' = orphans \ {m} /\ handled' \in {handled, Append(handled, m)}
      /\ UNCHANGED <<link, queue, retry, held>>
  BY DEF OrphanEnds
<1>2. /\ link = "closed" /\ Above(m, handled) /\ orphans \subseteq Messages /\ handled \in Seq(Messages)
      /\ \A n \in orphans : Above(n, handled) /\ (n # m => QueueOfMessage(m) # QueueOfMessage(n))
      /\ \A i, j \in DOMAIN handled :
            i < j /\ QueueOfMessage(handled[i]) = QueueOfMessage(handled[j]) => handled[i] < handled[j]
  BY ElementFacts DEF QuietLines, Places, PublishedFirst, ContainersFit
<1>3. \A c \in Consumers : held[c] = NoMessage
  BY <1>2 DEF LinkIsWatched, Open, HeldMessages
<1>4. /\ \A i, j \in DOMAIN handled' :
            i < j /\ QueueOfMessage(handled'[i]) = QueueOfMessage(handled'[j]) => handled'[i] < handled'[j]
      /\ \A n \in orphans' : Above(n, handled')
  <2>1. CASE handled' = handled
    BY <1>1, <1>2, <2>1
  <2>2. CASE handled' = Append(handled, m)
    <3>1. m \in Messages /\ orphans' \subseteq Messages
      BY <1>1, <1>2
    <3>2. \A n \in orphans' : Above(n, handled) /\ QueueOfMessage(m) # QueueOfMessage(n)
      BY <1>1, <1>2
    <3> QED BY <1>2, <2>2, <3>1, <3>2, HandledGrows
  <2> QED BY <1>1, <2>1, <2>2
<1>5. \A n, k \in orphans' : n # k => QueueOfMessage(n) # QueueOfMessage(k)
  BY <1>1 DEF QuietLines
<1>6. \A c \in Consumers : held'[c] = NoMessage /\ Ascending(queue'[c])
  BY <1>1, <1>3 DEF QuietLines
<1> QED BY <1>1, <1>2, <1>4, <1>5, <1>6 DEF QuietLines, QueueOfMessage, Above

\* Every step keeps the lines of quiet partitions.
LEMMA QuietNext ==
    ASSUME Places, LinkIsWatched, QuietPartitions, [AmqpNext]_amqpVars
    PROVE  QuietPartitions'
<1> SUFFICES ASSUME Quiet'
             PROVE  QuietLines'
  BY DEF QuietPartitions
<1>1. /\ Quiet /\ ~LoseConnection /\ losses' = losses
      /\ \A c \in Consumers : DeliverFails(c) => UNCHANGED <<sent, queue, link, retry, held, orphans, handled>>
  BY QuietBefore
<1>2. QuietLines
  BY <1>1 DEF QuietPartitions
<1>3. ASSUME NEW c \in Consumers, DeliverOk(c) \/ DeliverFails(c) \/ Ack(c)
      PROVE  QuietLines'
  <2>1. CASE DeliverOk(c)
    BY <1>1, <1>2, <2>1, QuietPutDown DEF DeliverOk
  <2>2. CASE DeliverFails(c)
    BY <1>1, <1>2, <2>2 DEF QuietLines, QueueOfMessage, Above, Consumers
  <2>3. CASE Ack(c)
    <3>1. held[c] # NoMessage
      BY <2>3, NoneDead DEF Ack
    <3> QED BY <1>1, <1>2, <2>3, <3>1, QuietPutDown DEF Ack
  <2> QED BY <1>3, <2>1, <2>2, <2>3
<1>4. ~Expire /\ ~Redial /\ ~Install
  BY <1>2 DEF QuietLines, Expire, Redial, Install
<1>5. CASE Close
  <2>1. CASE link = "up"
    BY <1>1, <1>2, <1>5, <2>1, QuietClose DEF Close
  <2>2. CASE link # "up"
    BY <1>2, <1>5, <2>2 DEF Close, QuietLines, QueueOfMessage, Above, Consumers
  <2> QED BY <2>1, <2>2
<1>6. CASE NewRabbitMQChannel \/ Subscribe \/ SupervisorEnds \/ UNCHANGED amqpVars
  <2>1. UNCHANGED <<queue, retry, held, orphans, handled>> /\ (link' = link \/ (link = "none" /\ link' = "up"))
    BY <1>6 DEF NewRabbitMQChannel, Subscribe, SupervisorEnds, amqpVars
  <2> QED BY <1>2, <2>1 DEF QuietLines, QueueOfMessage, Above, Consumers
<1> QED BY <1>1, <1>2, <1>3, <1>4, <1>5, <1>6, QuietTake, QuietPublish, QuietOrphan DEF AmqpNext

\* The channel starts empty and unconnected.
LEMMA AmqpInitInv == AmqpInit => AmqpInv
<1> SUFFICES ASSUME AmqpInit
             PROVE  AmqpInv
  OBVIOUS
<1>1. /\ queue = [q \in Consumers |-> <<>>] /\ retry = <<>> /\ handled = <<>> /\ held = [c \in Consumers |-> NoMessage]
      /\ dead = {} /\ orphans = {} /\ acking = {} /\ sent = 0
  BY DEF AmqpInit
<1>2. /\ \A S : <<>> \in Seq(S) /\ ToSet(<<>>) = {} /\ IsInjective(<<>>) /\ Ascending(<<>>)
      /\ DOMAIN <<>> = {}
  BY DEF ToSet, IsInjective, Ascending
<1>3. InQueues = {} /\ HeldMessages = {}
  BY <1>1, <1>2 DEF InQueues, HeldMessages
<1>4. AmqpTypeOK
  <2>1. /\ rejections \in [Messages -> Nat] /\ losses \in 0..MaxLosses
        /\ \A m \in Messages : rejections[m] <= MaxAttempts - 1 + losses
        /\ sent \in 0..Cardinality(Messages)
    BY QueueFacts DEF AmqpInit
  <2> QED BY <1>1, <1>2, <2>1 DEF AmqpInit, AmqpTypeOK
<1>5. ContainersFit /\ PublishedFirst /\ KeptUntilHandled /\ KeptOnce
  BY <1>1, <1>2, <1>3 DEF ContainersFit, PublishedFirst, KeptUntilHandled, KeptOnce
<1>6. LinkIsWatched
  BY <1>3 DEF LinkIsWatched, AmqpInit, Open
<1>7. QuietPartitions
  BY <1>1, <1>2 DEF QuietPartitions, QuietLines, AmqpInit
<1> QED BY <1>4, <1>5, <1>6, <1>7 DEF AmqpInv, Places

\* Messages of one key are messages of one partition: the invariant implies the promise.
LEMMA AmqpInvIsEnough == AmqpInv => DeliveriesAreSound
<1> SUFFICES ASSUME AmqpInv
             PROVE  DeliveriesAreSound
  OBVIOUS
<1>1. ClosedLeavesNothingOpen
  BY DEF AmqpInv, LinkIsWatched, ClosedLeavesNothingOpen
<1>2. QuietKeysKeepOrder
  <2> SUFFICES ASSUME Quiet, NEW i \in DOMAIN handled, NEW j \in DOMAIN handled, i < j,
                      MessageKey[handled[i]] = MessageKey[handled[j]]
               PROVE  handled[i] < handled[j]
    BY DEF QuietKeysKeepOrder, Quiet
  <2>1. QueueOfMessage(handled[i]) = QueueOfMessage(handled[j])
    BY DEF QueueOfMessage
  <2> QED BY <2>1 DEF AmqpInv, QuietPartitions, QuietLines
<1> QED BY <1>1, <1>2 DEF AmqpInv, Places, DeliveriesAreSound

\* Rejections, lost connections, redials and Close neither lose nor double a message nor leave
\* a connection open, and where nothing was rejected and no connection broke every key is
\* handled in the order of Publish (rabbitmq.go.txt: Publish, consume, deliver, supervise, Close).
THEOREM BrokerDeliveriesAreSound == AmqpSpec => []DeliveriesAreSound
<1>1. AmqpInv /\ [AmqpNext]_amqpVars => AmqpInv'
  BY PlacesNext, LinkNext, QuietNext DEF AmqpInv
<1> QED BY AmqpInitInv, <1>1, AmqpInvIsEnough, PTL DEF AmqpSpec
=============================================================================
