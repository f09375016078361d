----------------------------- MODULE OutboxRelay -----------------------------
(***************************************************************************)
(* The durable outbox: the write side of SqlUnitOfWork together with the   *)
(* relays that poll the outbox table (DurableOutbox, codegen/rtsrc/        *)
(* outbox.go.txt; outboxStore, codegen/sqlrt/outbox.go.txt) and the        *)
(* cleanup worker.                                                         *)
(*                                                                         *)
(* A relay is one replica's Start loop. ProcessBatch holds one transaction *)
(* from the scan to the commit: the rows it scanned stay locked, its       *)
(* UPDATEs are visible to nobody, and a crash or a failing statement drops *)
(* them all. Rows are taken in the order (attempts, id), Batch at a time.  *)
(***************************************************************************)
EXTENDS SqlUnitOfWork

CONSTANTS
    Relays,         \* replicas of the relay
    Batch,          \* defaultOutboxBatchSize
    Knows,          \* the registry of each relay: the types it can decode
    Unpublishable,  \* types whose Publish always fails
    MaxAttempts,    \* bound: where the attempts counter saturates
    MaxCrashes      \* bound: batches lost to a crash or a failing statement

ASSUME RelayAssumption ==
    /\ Relays \intersect Txs = {}
    /\ Batch \in Nat \ {0}
    /\ Knows \in [Relays -> SUBSET Types]
    /\ Unpublishable \subseteq Types
    /\ MaxAttempts \in Nat \ {0} /\ MaxCrashes \in Nat

VARIABLES
    taken,      \* the rows each relay scanned and locked
    acked,      \* ids among them it marked delivered, uncommitted
    failed,     \* ids among them whose attempts it incremented, uncommitted
    sent,       \* events Publish delivered, once or more
    published,  \* rows in the order of their first publication
    crashes

relayVars == <<taken, acked, failed, sent, published, crashes>>
vars == <<writerVars, relayVars>>

Ids(S) == {row.id : row \in S}
Locked(row) == \E r \in Relays : row.id \in Ids(taken[r])
Pending == {row \in outbox : ~row.delivered}

\* ORDER BY attempts ASC, id ASC.
Before(x, y) == x.attempts < y.attempts \/ (x.attempts = y.attempts /\ x.id < y.id)
Todo(r) == {row \in taken[r] : row.id \notin acked[r] \union failed[r]}
IsFirst(row, S) == row \in S /\ \A other \in S \ {row} : Before(row, other)

\* Mutant: attempts counts down.
Plus1DownMutant(n) == n - 1

Plus1(n) == IF n < MaxAttempts THEN n + 1 ELSE n

-----------------------------------------------------------------------------
Init ==
    /\ WriterInit
    /\ taken = [r \in Relays |-> {}]
    /\ acked = [r \in Relays |-> {}]
    /\ failed = [r \in Relays |-> {}]
    /\ sent = {}
    /\ published = <<>>
    /\ crashes = 0

\* ScanUndelivered: the first Batch undelivered rows of S in the scan's order.
Chosen(S, B) ==
    /\ B \subseteq S
    /\ B # {}
    /\ \A x \in B, y \in S \ B : Before(x, y)
    /\ Cardinality(B) = IF Cardinality(S) < Batch THEN Cardinality(S) ELSE Batch

\* Mutant: FOR UPDATE without SKIP LOCKED's exclusion.
ScanUnlockedMutant(r) ==
    /\ taken[r] = {} /\ CanConnect
    /\ \E B \in SUBSET Pending : Chosen(Pending, B) /\ taken' = [taken EXCEPT ![r] = B]
    /\ pool' = pool \union {r}
    /\ UNCHANGED <<txState, tables, acked, failed, sent, published, crashes>>

\* ProcessBatch begins: one transaction, one scan that skips the locked rows. A
\* scan that finds nothing changes nothing and is left out.
Scan(r) ==
    /\ taken[r] = {}
    /\ CanConnect
    /\ LET S == {row \in Pending : ~Locked(row)} IN
       \E B \in SUBSET S : Chosen(S, B) /\ taken' = [taken EXCEPT ![r] = B]
    /\ pool' = pool \union {r}
    /\ UNCHANGED <<txState, tables, acked, failed, sent, published, crashes>>

Ack(r, row) == acked' = [acked EXCEPT ![r] = @ \union {row.id}] /\ UNCHANGED failed
Fail(r, row) == failed' = [failed EXCEPT ![r] = @ \union {row.id}] /\ UNCHANGED acked

Publish(row) ==
    /\ sent' = sent \union {row.event}
    /\ published' = IF row.event \in sent THEN published ELSE Append(published, [id |-> row.id, event |-> row.event])

MayFail(row) == row.event.type \in Unpublishable \/ row.attempts + 1 < MaxAttempts

\* Mutant: a failing Publish is marked delivered.
DeliverAckAlwaysMutant(r) ==
    /\ \E row \in Todo(r) :
          /\ IsFirst(row, Todo(r))
          /\ Ack(r, row)
          /\ \/ Publish(row)
             \/ UNCHANGED <<sent, published>>
    /\ UNCHANGED <<writerVars, taken, crashes>>

\* The loop of ProcessBatch over deliver(row), in scan order: an unknown type is
\* dropped and marked delivered; Publish succeeds; or it returns an error, having
\* delivered (an acknowledgement that came too late) or not.
DeliverRow(r) ==
    /\ \E row \in Todo(r) :
          /\ IsFirst(row, Todo(r))
          /\ \/ /\ row.event.type \notin Knows[r]
                /\ Ack(r, row)
                /\ UNCHANGED <<sent, published>>
             \/ /\ row.event.type \in Knows[r] \ Unpublishable
                /\ Ack(r, row)
                /\ Publish(row)
             \/ /\ row.event.type \in Knows[r]
                /\ MayFail(row)
                /\ Fail(r, row)
                /\ \/ UNCHANGED <<sent, published>>
                   \/ row.event.type \notin Unpublishable /\ Publish(row)
    /\ UNCHANGED <<writerVars, taken, crashes>>

\* The row as this relay's UPDATEs leave it.
Updated(r, row) ==
    IF row.id \in acked[r] THEN [row EXCEPT !.delivered = TRUE]
    ELSE IF row.id \in failed[r] THEN [row EXCEPT !.attempts = Plus1(@)]
    ELSE row

LetGo(r) ==
    /\ taken' = [taken EXCEPT ![r] = {}]
    /\ acked' = [acked EXCEPT ![r] = {}]
    /\ failed' = [failed EXCEPT ![r] = {}]
    /\ pool' = pool \ {r}

\* Mutant: attempts is not incremented.
CommitBatchNoAttemptMutant(r) ==
    /\ taken[r] # {} /\ Todo(r) = {}
    /\ outbox' = {IF row.id \in acked[r] THEN [row EXCEPT !.delivered = TRUE] ELSE row :
                     row \in outbox}
    /\ LetGo(r)
    /\ UNCHANGED <<txState, events, lastId, sent, published, crashes>>

CommitBatch(r) ==
    /\ taken[r] # {}
    /\ Todo(r) = {}
    /\ outbox' = {Updated(r, row) : row \in outbox}
    /\ LetGo(r)
    /\ UNCHANGED <<txState, events, lastId, sent, published, crashes>>

\* Mutant: rows are marked in statements of their own, before they are published.
AbortMarkedMutant(r) ==
    /\ taken[r] # {} /\ crashes < MaxCrashes
    /\ crashes' = crashes + 1
    /\ outbox' = {IF row.id \in Ids(taken[r]) THEN [row EXCEPT !.delivered = TRUE] ELSE row :
                     row \in outbox}
    /\ LetGo(r)
    /\ UNCHANGED <<txState, events, lastId, sent, published>>

\* The replica dies, a statement fails or the commit fails: the whole batch is
\* rolled back, published or not. Start goes on (or is started again).
AbortBatch(r) ==
    /\ taken[r] # {}
    /\ crashes < MaxCrashes
    /\ crashes' = crashes + 1
    /\ LetGo(r)
    /\ UNCHANGED <<txState, tables, sent, published>>

\* Mutant: old rows are purged whether delivered or not.
PurgeAllMutant ==
    /\ CanConnect
    /\ \E S \in SUBSET outbox : S # {} /\ outbox' = outbox \ S
    /\ UNCHANGED <<txState, events, lastId, pool, relayVars>>

\* Cleanup: one DELETE of the delivered rows older than the retention, whichever
\* they are.
PurgeDelivered ==
    /\ CanConnect
    /\ \E S \in SUBSET {row \in outbox : row.delivered} : S # {} /\ outbox' = outbox \ S
    /\ UNCHANGED <<txState, events, lastId, pool, relayVars>>

-----------------------------------------------------------------------------
RelayStep(r) == Scan(r) \/ DeliverRow(r) \/ CommitBatch(r)

Next ==
    \/ WriterNext /\ UNCHANGED relayVars
    \/ \E r \in Relays : RelayStep(r) \/ AbortBatch(r)
    \/ PurgeDelivered

\* Start's timer always fires again, a transaction ends, and a batch runs on.
Fairness ==
    /\ \A r \in Relays : WF_vars(RelayStep(r))
    /\ \A t \in Txs : WF_vars(WriterStep(t) /\ UNCHANGED relayVars)

Spec == Init /\ [][Next]_vars
FairSpec == Spec /\ Fairness

-----------------------------------------------------------------------------
(* Properties *)

\* Every variable of the relays keeps its type.
TypeOK ==
    /\ WriterTypeOK
    /\ taken \in [Relays -> SUBSET Row]
    /\ acked \in [Relays -> SUBSET (Nat \ {0})]
    /\ failed \in [Relays -> SUBSET (Nat \ {0})]
    /\ sent \subseteq Event
    /\ published \in Seq([id : Nat \ {0}, event : Event])
    /\ crashes \in Nat

\* "concurrent relay replicas never process the same row twice" (OutboxStore): no
\* row is in the hands of two relays at once.
NoRowTakenTwice == \A r, s \in Relays :
    r # s => Ids(taken[r]) \intersect Ids(taken[s]) = {}

\* A relay works on rows as they are committed: what it scanned is still there,
\* undelivered and with the same attempts, when it marks it, whatever other
\* relays, writers and the cleanup did meanwhile.
TakenRowsAreCurrent == \A r \in Relays : taken[r] \subseteq Pending

\* A relay delivers from rows that are its own and that are still as it read them.
TakenRowsAreOwn == TypeOK /\ NoRowTakenTwice /\ TakenRowsAreCurrent

\* A committed event the channel carries is undelivered in the table or was
\* published: no crash, failing Publish, rollback or purge loses it.
NothingLost == \A e \in events : e.type \in outboxEventTypes =>
    e \in sent \/ \E row \in Pending : row.event = e

\* Nothing is published that was not committed.
NothingInvented == sent \subseteq events

\* The channel gets what was committed for it: all of it, and nothing else.
SentMatchesCommitted == NothingLost /\ NothingInvented

\* With one relay and a Publish that never fails, the events of one stream are
\* first published in stream order, whatever crashes and however writers commit.
StreamOrderKept == \A i, j \in DOMAIN published :
    i < j /\ published[i].event.agg = published[j].event.agg
        => published[i].event.seq < published[j].event.seq

\* "nunca deixa uma linha que falha permanentemente bloquear entregas novas"
\* (ScanUndelivered): every committed event whose Publish can succeed is published,
\* behind rows that fail for ever, through crashes, whatever the batch size.
EveryEventPublished == \A t \in Txs, a \in Aggregates, n \in 1..(MaxEvents * Cardinality(Txs)) :
    (\E e \in events : e.agg = a /\ e.seq = n /\ e.by = t
                       /\ e.type \in outboxEventTypes \ Unpublishable)
    ~> (\E e \in sent : e.agg = a /\ e.seq = n /\ e.by = t)

\* REQ-42: "uma Policy delivery AtLeastOnce sobreviva a um crash entre o commit
\* ... e a execucao do handler": an event such a Policy is subscribed to reaches it.
EverySubscribedEventHandled == \A t \in Txs, a \in Aggregates, n \in 1..(MaxEvents * Cardinality(Txs)) :
    (\E e \in events : e.agg = a /\ e.seq = n /\ e.by = t
                       /\ e.type \in Carried \ Unpublishable)
    ~> (\E e \in sent : e.agg = a /\ e.seq = n /\ e.by = t)

\* The outbox implements AtLeastOnce: owed are the undelivered committed rows.
Owed == {row.event : row \in Pending}
Promise == INSTANCE AtLeastOnce WITH owed <- Owed, sent <- sent
ImplementsAtLeastOnce == Promise!Spec
=============================================================================
