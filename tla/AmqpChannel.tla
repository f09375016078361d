---------------------------- MODULE AmqpChannel ----------------------------
(***************************************************************************)
(* A topology channel over RabbitMQ (codegen/amqprt/rabbitmq.go.txt): the  *)
(* producer's Publish, the broker's queues with the dead letter exchange,  *)
(* retry queue and final DLQ that the consumer declares, its consumers,    *)
(* the supervisor that reconnects, and Close.                              *)
(*                                                                         *)
(* With orderBy there is one queue and one consumer per partition, without *)
(* it all consumers compete for one queue. The broker is external: modelled *)
(* by what the code relies on (an unbound exchange drops, an unacknowledged *)
(* delivery returns to the head of its queue, the TTL returns a rejected    *)
(* message to the exchange).                                               *)
(***************************************************************************)
EXTENDS Naturals, Sequences, FiniteSets, SequencesExt

CONSTANTS
    Messages,       \* messages 1..n, in the order they are published
    MessageKey,     \* [Messages -> key]
    PartitionOf,    \* [key -> 1..Concurrency], the consistent hash
    Concurrency,
    MaxAttempts,
    Keyed,          \* the channel declares orderBy
    Deaf,           \* messages that may meet a failing handler
    MaxLosses,      \* bound: connections lost, and publications to the DLQ that fail
    NoMessage

ASSUME MessagesAssumption ==
    /\ IsFiniteSet(Messages) /\ Messages = 1..Cardinality(Messages)
    /\ NoMessage \notin Messages /\ Deaf \subseteq Messages
ASSUME PartitionsAssumption ==
    /\ Concurrency \in Nat \ {0} /\ Keyed \in BOOLEAN
    /\ \A m \in Messages : PartitionOf[MessageKey[m]] \in 1..Concurrency
ASSUME AttemptsAssumption == MaxAttempts \in Nat \ {0} /\ MaxLosses \in Nat

VARIABLES
    sent,           \* messages published so far
    bound,          \* the consumer's queues exist and are bound
    subscribed,     \* the Policy's handler is registered
    link,           \* r.conn: "none", "up", "down", "dialed" (not installed), "closed"
    stopped,        \* stopCh is closed
    watching,       \* the supervisor runs
    queue, retry,   \* messages in the queues and in the retry queue
    held,           \* message each consumer has not acknowledged
    acking,         \* consumers whose message is in the final DLQ and awaits its Ack
    orphans,        \* messages whose handler still runs for a connection that is gone
    dead,           \* messages in the final DLQ
    doubled,        \* those whose Ack was lost after they reached it
    rejections,     \* x-death count of each message
    handled,        \* sequence of messages whose handlers succeeded
    unheard,        \* acknowledged without any handler
    vanished,       \* published to an exchange without queues, or with the connection
    losses          \* connections lost so far, and failed publications to the DLQ

amqpVars == <<sent, bound, subscribed, link, stopped, watching, queue, retry, held, acking, orphans, dead,
              doubled, rejections, handled, unheard, vanished, losses>>

Consumers == 1..Concurrency
\* Mutant: the routing key is not the message's key.
QueueOfMessageMutant(m) == IF Keyed THEN 1 + ((m \div 2) % Concurrency) ELSE 1

QueueOfMessage(m) == IF Keyed THEN PartitionOf[MessageKey[m]] ELSE 1
QueueOfConsumer(c) == IF Keyed THEN c ELSE 1
Open == link \in {"up", "dialed"}
HeldMessages == {held[c] : c \in Consumers} \ {NoMessage}
AwaitingAck == {held[c] : c \in acking}

AmqpInit ==
    /\ sent = 0 /\ bound = FALSE /\ subscribed = FALSE /\ link = "none" /\ stopped = FALSE /\ watching = FALSE
    /\ queue = [q \in Consumers |-> <<>>] /\ retry = <<>>
    /\ held = [c \in Consumers |-> NoMessage] /\ acking = {} /\ orphans = {} /\ dead = {} /\ doubled = {}
    /\ rejections = [m \in Messages |-> 0] /\ handled = <<>> /\ unheard = {} /\ vanished = {} /\ losses = 0

\* NewRabbitMQChannel: the topology is declared and the consumers run before it returns.
NewRabbitMQChannel ==
    /\ link = "none" /\ link' = "up" /\ bound' = TRUE /\ watching' = TRUE
    /\ UNCHANGED <<sent, subscribed, stopped, queue, retry, held, orphans, dead, rejections, handled, unheard, vanished, losses, acking, doubled>>

Subscribe ==
    /\ link # "none" /\ ~subscribed /\ subscribed' = TRUE
    /\ UNCHANGED <<sent, bound, link, stopped, watching, queue, retry, held, orphans, dead, rejections, handled, unheard, vanished, losses, acking, doubled>>

\* Publish returns nil: the broker routes the message, or has no queue for it, or the
\* producer's connection breaks before it arrives (the channel is not in confirm mode).
PublishMessage ==
    LET m == sent + 1
    IN  /\ m \in Messages /\ sent' = m
        /\ \/ bound /\ queue' = [queue EXCEPT ![QueueOfMessage(m)] = Append(@, m)] /\ UNCHANGED <<vanished, losses>>
           \/ ~bound /\ vanished' = vanished \cup {m} /\ UNCHANGED <<queue, losses>>
           \/ losses < MaxLosses /\ losses' = losses + 1 /\ vanished' = vanished \cup {m} /\ UNCHANGED queue
        /\ UNCHANGED <<bound, subscribed, link, stopped, watching, retry, held, orphans, dead, rejections, handled, unheard, acking, doubled>>

\* The broker pushes the next message to an idle consumer (Qos 1).
TakeDelivery(c) ==
    /\ Open /\ held[c] = NoMessage /\ queue[QueueOfConsumer(c)] # <<>>
    /\ held' = [held EXCEPT ![c] = Head(queue[QueueOfConsumer(c)])]
    /\ queue' = [queue EXCEPT ![QueueOfConsumer(c)] = Tail(@)]
    /\ UNCHANGED <<sent, bound, subscribed, link, stopped, watching, retry, orphans, dead, rejections, handled, unheard, vanished, losses, acking, doubled>>

\* deliver returns true and consume acknowledges.
DeliverOk(c) ==
    /\ Open /\ held[c] # NoMessage /\ c \notin acking
    /\ held' = [held EXCEPT ![c] = NoMessage]
    /\ IF subscribed THEN handled' = Append(handled, held[c]) /\ UNCHANGED unheard
       ELSE unheard' = unheard \cup {held[c]} /\ UNCHANGED handled
    /\ UNCHANGED <<sent, bound, subscribed, link, stopped, watching, queue, retry, orphans, dead, rejections, vanished, losses, acking, doubled>>

LastAttempt(c) == rejections[held[c]] + 1 >= MaxAttempts
Nack(c) ==
    /\ held' = [held EXCEPT ![c] = NoMessage] /\ retry' = Append(retry, held[c])
    /\ rejections' = [rejections EXCEPT ![held[c]] = @ + 1] /\ UNCHANGED <<dead, acking>>

\* Mutant: the message that ran out of attempts is acknowledged, not moved to the DLQ.
DeliverFailsMutant(c) ==
    /\ Open /\ held[c] \in Deaf
    /\ held' = [held EXCEPT ![c] = NoMessage]
    /\ IF LastAttempt(c) THEN UNCHANGED <<retry, rejections>>
       ELSE retry' = Append(retry, held[c]) /\ rejections' = [rejections EXCEPT ![held[c]] = @ + 1]
    /\ UNCHANGED <<sent, bound, subscribed, link, stopped, watching, queue, orphans, dead, handled, unheard, vanished, losses, acking, doubled>>

\* Mutant: one attempt too many.
DeliverFailsOnceMoreMutant(c) ==
    /\ Open /\ held[c] \in Deaf /\ c \notin acking
    /\ \/ rejections[held[c]] < MaxAttempts /\ Nack(c)
       \/ /\ rejections[held[c]] >= MaxAttempts /\ dead' = dead \cup {held[c]} /\ acking' = acking \cup {c}
          /\ UNCHANGED <<held, retry, rejections>>
    /\ UNCHANGED <<sent, bound, subscribed, link, stopped, watching, queue, orphans, handled, unheard, vanished, losses, doubled>>

\* deliver returns false: the Nack sends the message to the retry queue. After the last
\* attempt it is published to the final DLQ, and only then acknowledged; when that
\* publication fails it is Nacked once more.
DeliverFails(c) ==
    /\ Open /\ held[c] \in Deaf /\ c \notin acking
    /\ \/ ~LastAttempt(c) /\ Nack(c) /\ UNCHANGED losses
       \/ LastAttempt(c) /\ losses < MaxLosses /\ losses' = losses + 1 /\ Nack(c)
       \/ /\ LastAttempt(c) /\ dead' = dead \cup {held[c]} /\ acking' = acking \cup {c}
          /\ UNCHANGED <<held, retry, rejections, losses>>
    /\ UNCHANGED <<sent, bound, subscribed, link, stopped, watching, queue, orphans, handled, unheard, vanished, doubled>>

\* Mutant: the message that is in the DLQ is Nacked instead.
AckMutant(c) ==
    /\ Open /\ c \in acking /\ acking' = acking \ {c} /\ held' = [held EXCEPT ![c] = NoMessage]
    /\ retry' = Append(retry, held[c])
    /\ UNCHANGED <<sent, bound, subscribed, link, stopped, watching, queue, orphans, dead, doubled, rejections, handled, unheard, vanished, losses>>

\* The Ack of a message that is in the DLQ.
Ack(c) ==
    /\ Open /\ c \in acking /\ acking' = acking \ {c} /\ held' = [held EXCEPT ![c] = NoMessage]
    /\ UNCHANGED <<sent, bound, subscribed, link, stopped, watching, queue, retry, orphans, dead, doubled, rejections, handled, unheard, vanished, losses>>

\* The TTL of the retry queue returns its oldest message to the exchange.
Expire ==
    /\ retry # <<>> /\ retry' = Tail(retry)
    /\ queue' = [queue EXCEPT ![QueueOfMessage(Head(retry))] = Append(@, Head(retry))]
    /\ UNCHANGED <<sent, bound, subscribed, link, stopped, watching, held, orphans, dead, rejections, handled, unheard, vanished, losses, acking, doubled>>

\* Deliveries that were not acknowledged return to the head of their queue; those of
\* consumers that compete for one queue in any order.
Unacked(q) == {held[c] : c \in {k \in Consumers : held[k] # NoMessage /\ QueueOfConsumer(k) = q}}
Returned == {back \in [Consumers -> UNION {SetToSeqs(Unacked(q)) : q \in Consumers}] :
                \A q \in Consumers : back[q] \in SetToSeqs(Unacked(q))}
DropLink ==
    /\ \E back \in Returned : queue' = [q \in Consumers |-> back[q] \o queue[q]]
    /\ held' = [c \in Consumers |-> NoMessage] /\ acking' = {}
    /\ orphans' = orphans \cup {held[c] : c \in {k \in Consumers \ acking : held[k] # NoMessage}}
    /\ doubled' = doubled \cup AwaitingAck

\* The connection breaks while it is installed: the supervisor sets r.conn to nil.
LoseConnection ==
    /\ link = "up" /\ losses < MaxLosses /\ losses' = losses + 1 /\ link' = "down" /\ DropLink
    /\ UNCHANGED <<sent, bound, subscribed, stopped, watching, retry, dead, rejections, handled, unheard, vanished>>

\* A handler that was running when the connection broke succeeds; its Ack goes nowhere.
OrphanEnds(m) ==
    /\ m \in orphans /\ orphans' = orphans \ {m}
    /\ handled' = IF subscribed THEN Append(handled, m) ELSE handled
    /\ UNCHANGED <<sent, bound, subscribed, link, stopped, watching, queue, retry, held, dead, rejections, unheard, vanished, losses, acking, doubled>>

\* Mutant: the supervisor ends with the first connection that breaks.
RedialMutant ==
    /\ watching /\ link = "down" /\ ~stopped /\ watching' = FALSE
    /\ UNCHANGED <<sent, bound, subscribed, link, stopped, queue, retry, held, orphans, dead, rejections, handled, unheard, vanished, losses, acking, doubled>>

\* reconnectLoop: dialAndSetup succeeds, and its consumers already run.
Redial ==
    /\ watching /\ link = "down" /\ ~stopped /\ link' = "dialed"
    /\ UNCHANGED <<sent, bound, subscribed, stopped, watching, queue, retry, held, orphans, dead, rejections, handled, unheard, vanished, losses, acking, doubled>>

\* Mutant: the new connection is installed without another look at stopCh.
InstallMutant ==
    /\ link = "dialed" /\ link' = "up"
    /\ UNCHANGED <<sent, bound, subscribed, stopped, watching, queue, retry, held, orphans, dead, rejections, handled, unheard, vanished, losses, acking, doubled>>

\* The new connection is installed, or closed when Close came meanwhile.
Install ==
    /\ link = "dialed"
    /\ IF stopped THEN link' = "closed" /\ watching' = FALSE /\ DropLink
       ELSE link' = "up" /\ UNCHANGED <<watching, queue, held, acking, orphans, doubled>>
    /\ UNCHANGED <<sent, bound, subscribed, stopped, retry, dead, rejections, handled, unheard, vanished, losses>>

\* Close: stopCh first, then the installed connection, if there is one.
Close ==
    /\ link # "none" /\ ~stopped /\ stopped' = TRUE
    /\ IF link = "up" THEN link' = "closed" /\ DropLink ELSE UNCHANGED <<link, queue, held, acking, orphans, doubled>>
    /\ UNCHANGED <<sent, bound, subscribed, watching, retry, dead, rejections, handled, unheard, vanished, losses>>

\* The supervisor sees stopCh closed, at its select or between two attempts to dial.
SupervisorEnds ==
    /\ watching /\ stopped /\ link # "dialed" /\ watching' = FALSE
    /\ UNCHANGED <<sent, bound, subscribed, link, stopped, queue, retry, held, orphans, dead, rejections, handled, unheard, vanished, losses, acking, doubled>>

AmqpNext ==
    \/ NewRabbitMQChannel \/ Subscribe \/ PublishMessage \/ Expire \/ LoseConnection
    \/ Redial \/ Install \/ Close \/ SupervisorEnds
    \/ \E c \in Consumers : TakeDelivery(c) \/ DeliverOk(c) \/ DeliverFails(c) \/ Ack(c)
    \/ \E m \in orphans : OrphanEnds(m)

\* The consumer starts, subscribes, redials and works; connections break and are closed
\* without fairness.
AmqpFairness ==
    /\ WF_amqpVars(NewRabbitMQChannel) /\ WF_amqpVars(Subscribe) /\ WF_amqpVars(Expire)
    /\ WF_amqpVars(Redial) /\ WF_amqpVars(Install) /\ WF_amqpVars(SupervisorEnds)
    /\ \A c \in Consumers : WF_amqpVars(TakeDelivery(c)) /\ WF_amqpVars(DeliverOk(c) \/ DeliverFails(c) \/ Ack(c))

AmqpSpec == AmqpInit /\ [][AmqpNext]_amqpVars /\ AmqpFairness

-----------------------------------------------------------------------------
\* Types, a message lies in the queue of its partition, and none is rejected more often than
\* MaxAttempts allows, but once for each publication to the DLQ that failed.
AmqpTypeOK ==
    /\ sent \in 0..Cardinality(Messages) /\ bound \in BOOLEAN /\ subscribed \in BOOLEAN
    /\ link \in {"none", "up", "down", "dialed", "closed"} /\ stopped \in BOOLEAN /\ watching \in BOOLEAN
    /\ \A q \in Consumers : \A i \in DOMAIN queue[q] : queue[q][i] \in 1..sent /\ QueueOfMessage(queue[q][i]) = q
    /\ held \in [Consumers -> Messages \cup {NoMessage}]
    /\ acking \subseteq {c \in Consumers : held[c] \in dead} /\ losses \in 0..MaxLosses
    /\ rejections \in [Messages -> Nat] /\ \A m \in Messages : rejections[m] <= MaxAttempts - 1 + losses

InQueues == ToSet(retry) \cup UNION {ToSet(queue[q]) : q \in Consumers}

\* What reached the broker stays there until a handler took it, it is in the DLQ, or it was
\* acknowledged before Subscribe: no rejection, reconnection or Close drops a message.
KeptUntilHandled ==
    \A m \in 1..sent :
        m \in vanished \cup unheard \cup InQueues \cup HeldMessages \cup dead \cup ToSet(handled)

\* A message is in one place of the broker only. Between the publication to the DLQ and the
\* Ack it is in two; a connection that breaks there leaves it in the DLQ and in its queue.
KeptOnce ==
    /\ \A q \in Consumers : /\ IsInjective(queue[q])
                           /\ ToSet(queue[q]) \cap (ToSet(retry) \cup HeldMessages) = {}
    /\ IsInjective(retry) /\ ToSet(retry) \cap HeldMessages = {}
    /\ dead \cap (InQueues \cup HeldMessages) \subseteq doubled \cup AwaitingAck
    /\ \A c, d \in Consumers : c # d /\ held[c] # NoMessage => held[c] # held[d]

\* Once Close was called and the supervisor has ended, no connection is open.
ClosedLeavesNothingOpen == stopped /\ ~watching => ~Open

\* With orderBy, while no connection broke and nothing was rejected, the events of a key are
\* handled in the order they were published.
QuietKeysKeepOrder ==
    Keyed /\ losses = 0 /\ (\A m \in Messages : rejections[m] = 0) =>
        \A i, j \in DOMAIN handled : i < j /\ MessageKey[handled[i]] = MessageKey[handled[j]] => handled[i] < handled[j]

\* Rejections, lost connections and Close lose nothing, leak nothing and double only what a
\* connection lost between the DLQ and the Ack doubles; where there were none the order of a
\* key is kept.
DeliveriesAreSound ==
  AmqpTypeOK /\ KeptUntilHandled /\ KeptOnce /\ ClosedLeavesNothingOpen /\ QuietKeysKeepOrder

\* rabbitmq.go.txt:39-43: messages of one key go to one partition with one consumer,
\* "entao a ordem de Publish e preservada na entrega".
KeysKeepOrder ==
    Keyed => \A i, j \in DOMAIN handled :
                 i < j /\ MessageKey[handled[i]] = MessageKey[handled[j]] => handled[i] <= handled[j]

\* rabbitmq.go.txt:786-788: Publish returns after the broker confirmed the message.
PublishedIsKept == \A m \in 1..sent : m \in unheard \cup InQueues \cup HeldMessages \cup dead \cup ToSet(handled)

MessagesSettled(m) == m \in vanished \cup unheard \cup dead \cup ToSet(handled)
\* No message stays on its way for ever: again and again each of those published so far was
\* handled or is in the DLQ, unless it never reached a queue (vanished), was acknowledged
\* before Subscribe (unheard), or the channel was closed.
MessagesSettle == []<>(\A m \in Messages : sent >= m => MessagesSettled(m) \/ stopped)
=============================================================================
