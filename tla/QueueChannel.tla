---------------------------- MODULE QueueChannel ----------------------------
(***************************************************************************)
(* The in-process `via: queue` channel (queueChannel, codegen/rtsrc/       *)
(* channel.go.txt) and the UnitOfWork that publishes a transaction's       *)
(* events into it after the commit (codegen/rtsrc/uow.go.txt).             *)
(*                                                                         *)
(* A shard is one goroutine with a buffered Go channel; every key hashes   *)
(* to one shard. The goroutines share the circuit breaker. The rate        *)
(* limiter only delays a shard between taking an event and delivering it.  *)
(***************************************************************************)
EXTENDS CircuitBreaker, Sequences, FiniteSets

CONSTANTS
    Events,
    Producers,      \* successful runs of UnitOfWork.Run
    Sends,          \* what each of them appended, in order
    Keys,
    KeyOf,          \* KeyFunc (orderBy); constant without one
    Shards,         \* Concurrency
    ShardOf,        \* shardFor: FNV-1a modulo the number of shards
    BatchSize,      \* the buffer of a shard
    HandlersOf,     \* how many handlers are subscribed to each event's type
    NoEvent

ASSUME SendsAssumption == Sends \in [Producers -> Seq(Events)]
\* An event is appended by one run, once.
ASSUME OwnEventsAssumption == \A p, o \in Producers : \A i \in DOMAIN Sends[p], j \in DOMAIN Sends[o] :
    Sends[p][i] = Sends[o][j] => p = o /\ i = j
ASSUME KeyAssumption == KeyOf \in [Events -> Keys] /\ ShardOf \in [Keys -> Shards]
ASSUME SizeAssumption == BatchSize \in Nat \ {0} /\ HandlersOf \in [Events -> Nat]
ASSUME NoEventAssumption == NoEvent \notin Events

VARIABLES
    sentUpTo,   \* how far each producer is in its events
    cancelled,  \* producers whose request context ended
    items,      \* each shard's Go channel
    hand,       \* the event each shard's goroutine took from it
    stage,      \* what that goroutine is at
    called,     \* how many handlers have returned nil for that event
    success,    \* how the delivery ended
    probe,      \* history: Allow admitted this delivery as the probe
    breaker,
    reached     \* history: events some handler was called for

shardState == <<hand, stage, called, success, probe>>
vars == <<sentUpTo, cancelled, items, shardState, breaker, reached>>

-----------------------------------------------------------------------------
Init ==
    /\ sentUpTo = [p \in Producers |-> 0]
    /\ cancelled = {}
    /\ items = [s \in Shards |-> <<>>]
    /\ hand = [s \in Shards |-> NoEvent]
    /\ stage = [s \in Shards |-> "idle"]
    /\ called = [s \in Shards |-> 0]
    /\ success = [s \in Shards |-> FALSE]
    /\ probe = [s \in Shards |-> FALSE]
    /\ breaker = ClosedBreaker
    /\ reached = {}

NextEvent(p) == Sends[p][sentUpTo[p] + 1]
Publishing(p) == sentUpTo[p] < Len(Sends[p])

\* The client goes away, or the request's deadline ends.
CancelRequest(p) ==
    /\ Publishing(p) /\ p \notin cancelled
    /\ cancelled' = cancelled \union {p}
    /\ UNCHANGED <<sentUpTo, items, shardState, breaker, reached>>

\* Mutant: the shard is picked by load, not by key.
PublishAnyShardMutant(p) ==
    /\ Publishing(p)
    /\ \E s \in Shards :
          /\ Len(items[s]) < BatchSize
          /\ items' = [items EXCEPT ![s] = Append(@, NextEvent(p))]
    /\ sentUpTo' = [sentUpTo EXCEPT ![p] = @ + 1]
    /\ UNCHANGED <<cancelled, shardState, breaker, reached>>

\* Publish: the send to the key's shard, which blocks while its buffer is full.
Publish(p) ==
    /\ Publishing(p)
    /\ LET s == ShardOf[KeyOf[NextEvent(p)]] IN
          /\ Len(items[s]) < BatchSize
          /\ items' = [items EXCEPT ![s] = Append(@, NextEvent(p))]
    /\ sentUpTo' = [sentUpTo EXCEPT ![p] = @ + 1]
    /\ UNCHANGED <<cancelled, shardState, breaker, reached>>

\* Publish's other case, ctx.Done: Run logs the error and goes on to the next event.
PublishRefused(p) ==
    /\ Publishing(p) /\ p \in cancelled
    /\ sentUpTo' = [sentUpTo EXCEPT ![p] = @ + 1]
    /\ UNCHANGED <<cancelled, items, shardState, breaker, reached>>

-----------------------------------------------------------------------------
\* drain: receive one event, then wait for the rate limiter.
Take(s) ==
    /\ stage[s] = "idle" /\ items[s] # <<>>
    /\ hand' = [hand EXCEPT ![s] = Head(items[s])]
    /\ items' = [items EXCEPT ![s] = Tail(@)]
    /\ stage' = [stage EXCEPT ![s] = "paced"]
    /\ UNCHANGED <<sentUpTo, cancelled, called, success, probe, breaker, reached>>

PutDown(s) ==
    /\ hand' = [hand EXCEPT ![s] = NoEvent]
    /\ stage' = [stage EXCEPT ![s] = "idle"]
    /\ called' = [called EXCEPT ![s] = 0]
    /\ success' = [success EXCEPT ![s] = FALSE]
    /\ probe' = [probe EXCEPT ![s] = FALSE]

\* deliver with the circuit open: the event is skipped.
Skip(s) ==
    /\ stage[s] = "paced" /\ ~Admits(breaker)
    /\ PutDown(s)
    /\ UNCHANGED <<sentUpTo, cancelled, items, breaker, reached>>

\* deliver goes ahead; an event nobody subscribed to is a success at once.
Admit(s) ==
    /\ stage[s] = "paced" /\ Admits(breaker)
    /\ breaker' = AfterAllow(breaker)
    /\ probe' = [probe EXCEPT ![s] = IsProbe(breaker)]
    /\ success' = [success EXCEPT ![s] = HandlersOf[hand[s]] = 0]
    /\ stage' = [stage EXCEPT ![s] = IF HandlersOf[hand[s]] = 0 THEN "record" ELSE "handling"]
    /\ UNCHANGED <<sentUpTo, cancelled, items, hand, called, reached>>

\* Mutant: the loop goes one handler too far.
HandlerReturnsTwiceMutant(s) ==
    /\ stage[s] = "handling"
    /\ reached' = reached \union {hand[s]}
    /\ called' = [called EXCEPT ![s] = @ + 1]
    /\ IF called[s] = HandlersOf[hand[s]]
       THEN /\ success' = [success EXCEPT ![s] = TRUE]
            /\ stage' = [stage EXCEPT ![s] = "record"]
       ELSE UNCHANGED <<success, stage>>
    /\ UNCHANGED <<sentUpTo, cancelled, items, hand, probe, breaker>>

\* The next handler returns nil.
HandlerReturns(s) ==
    /\ stage[s] = "handling"
    /\ reached' = reached \union {hand[s]}
    /\ called' = [called EXCEPT ![s] = @ + 1]
    /\ IF called[s] + 1 = HandlersOf[hand[s]]
       THEN /\ success' = [success EXCEPT ![s] = TRUE]
            /\ stage' = [stage EXCEPT ![s] = "record"]
       ELSE UNCHANGED <<success, stage>>
    /\ UNCHANGED <<sentUpTo, cancelled, items, hand, probe, breaker>>

\* Mutants: a panic passes by Record; a panic ends the goroutine.
HandlerFailsUnrecordedMutant(s) ==
    /\ stage[s] = "handling"
    /\ reached' = reached \union {hand[s]}
    /\ \/ stage' = [stage EXCEPT ![s] = "record"] /\ UNCHANGED <<hand, called, success, probe>>
       \/ PutDown(s)
    /\ UNCHANGED <<sentUpTo, cancelled, items, breaker>>
HandlerFailsDeadlyMutant(s) ==
    /\ stage[s] = "handling"
    /\ reached' = reached \union {hand[s]}
    /\ \/ stage' = [stage EXCEPT ![s] = "record"]
       \/ stage' = [stage EXCEPT ![s] = "dead"]
    /\ UNCHANGED <<sentUpTo, cancelled, items, hand, called, success, probe, breaker>>

\* The next handler returns an error (its context may have timed out) or panics:
\* the handlers after it are not called.
HandlerFails(s) ==
    /\ stage[s] = "handling"
    /\ reached' = reached \union {hand[s]}
    /\ stage' = [stage EXCEPT ![s] = "record"]
    /\ UNCHANGED <<sentUpTo, cancelled, items, hand, called, success, probe, breaker>>

\* The deferred function of deliver: recover, and tell the breaker.
Record(s) ==
    /\ stage[s] = "record"
    /\ breaker' = IF Threshold = 0 THEN breaker ELSE AfterRecord(breaker, success[s])
    /\ PutDown(s)
    /\ UNCHANGED <<sentUpTo, cancelled, items, reached>>

\* The cooldown elapses.
Cool ==
    /\ CanCool(breaker)
    /\ breaker' = Cooled(breaker)
    /\ UNCHANGED <<sentUpTo, cancelled, items, shardState, reached>>

-----------------------------------------------------------------------------
ShardStep(s) ==
    \/ Take(s) \/ Skip(s) \/ Admit(s)
    \/ HandlerReturns(s) \/ HandlerFails(s)
    \/ Record(s)

Next ==
    \/ \E p \in Producers : CancelRequest(p) \/ Publish(p) \/ PublishRefused(p)
    \/ \E s \in Shards : ShardStep(s)
    \/ Cool

\* Each shard's goroutine runs on, and handlers return: their contexts time out.
Fairness == \A s \in Shards : WF_vars(ShardStep(s))

Spec == Init /\ [][Next]_vars
FairSpec == Spec /\ Fairness

-----------------------------------------------------------------------------
(* Properties *)

\* Every variable keeps its type.
TypeOK ==
    /\ sentUpTo \in [Producers -> Nat]
    /\ cancelled \subseteq Producers
    /\ items \in [Shards -> Seq(Events)]
    /\ hand \in [Shards -> Events \union {NoEvent}]
    /\ stage \in [Shards -> {"idle", "paced", "handling", "record"}]
    /\ called \in [Shards -> Nat]
    /\ \A s \in Shards : hand[s] # NoEvent => called[s] <= HandlersOf[hand[s]]
    /\ success \in [Shards -> BOOLEAN]
    /\ probe \in [Shards -> BOOLEAN]
    /\ breaker \in BreakerState
    /\ reached \subseteq Events

Delivering(s) == stage[s] \in {"handling", "record"}

\* A closed breaker has counted fewer than Threshold failures in a row, whichever
\* shards the outcomes come from and however late they are recorded.
ClosedIsBelowThreshold ==
    Threshold # 0 /\ breaker.state = "closed" => breaker.failures < Threshold

\* The breaker is half open exactly while it believes a probe is in flight, and
\* then some admitted delivery will still report: it is never half open for good.
HalfOpenHasAReporter ==
    /\ breaker.state = "halfOpen" <=> breaker.probing
    /\ breaker.probing => \E s \in Shards : Delivering(s)

\* The breaker counts what happened, and a half-open one is waiting for somebody.
BreakerIsSound == TypeOK /\ ClosedIsBelowThreshold /\ HalfOpenHasAReporter

\* A half-open breaker is decided, also when the probe's handler panics.
HalfOpenIsDecided == breaker.state = "halfOpen" ~> breaker.state # "halfOpen"

Buffered(e) == \E s \in Shards : \E i \in DOMAIN items[s] : items[s][i] = e

\* An accepted event is settled, in whatever way its predecessors end: a panic, an
\* error or an open circuit never stops a shard.
AcceptedEventsSettle == \A e \in Events : Buffered(e) ~> ~Buffered(e) /\ \A s \in Shards : hand[s] # e

\* Neither the breaker nor a shard stands still with work to do.
ChannelSettles == HalfOpenIsDecided /\ AcceptedEventsSettle

\* "admits EXACTLY ONE in-flight probe call" (CircuitBreaker): two deliveries that
\* Allow admitted as the probe are never on their way at once.
OneProbeAtATime == \A s, z \in Shards :
    Delivering(s) /\ Delivering(z) /\ probe[s] /\ probe[z] => s = z

\* The channel implements KeyedFifo: what waits under a key is what the key's shard
\* has in hand and in its buffer.
OfKey(q, k) ==
    LET upTo[i \in 0..Len(q)] ==
            IF i = 0 THEN <<>>
            ELSE IF KeyOf[q[i]] = k THEN Append(upTo[i - 1], q[i]) ELSE upTo[i - 1]
    IN  upTo[Len(q)]
InHand(s) == IF hand[s] = NoEvent THEN <<>> ELSE <<hand[s]>>
Waiting == [k \in Keys |-> OfKey(InHand(ShardOf[k]) \o items[ShardOf[k]], k)]
Promise == INSTANCE KeyedFifo WITH waiting <- Waiting, reached <- reached
ImplementsKeyedFifo == Promise!Spec
=============================================================================
