-------------------------- MODULE OutboxRelayProofs --------------------------
(***************************************************************************)
(* Machine-checked proofs about OutboxRelay, for any number of relays,     *)
(* transactions, streams and connections, any batch size, any number of    *)
(* crashes and any types whose Publish fails.                              *)
(*                                                                         *)
(* The relays do not disturb the writers: what SqlUnitOfWorkProofs proves  *)
(* of the rows (WriterInv) speaks of their ids and events, which no relay  *)
(* changes. What a relay holds is its own because it is locked, and a mark *)
(* it made is lost or committed with the rows it belongs to.               *)
(***************************************************************************)
EXTENDS OutboxRelay, SqlUnitOfWorkProofs

\* A relay only marks rows it took.
MarksAreMine == \A r \in Relays : acked[r] \union failed[r] \subseteq Ids(taken[r])

\* The table holds rows of the types the channel carries, and a new row is undelivered.
RowsAreCarried == \A row \in outbox : row.event.type \in outboxEventTypes
QueuedAreNew == \A t \in Txs : \A row \in queued[t] : ~row.delivered

RelayInv ==
    /\ TakenRowsAreOwn /\ WriterInv
    /\ MarksAreMine /\ RowsAreCarried /\ QueuedAreNew /\ NothingInvented

\* Every replica can decode what the channel carries: they run the same release.
SameReleaseEverywhere == \A r \in Relays : outboxEventTypes \subseteq Knows[r]

\* A row marked delivered was published.
AckedAreSent == \A r \in Relays : \A row \in taken[r] : row.id \in acked[r] => row.event \in sent
DeliveryInv == RelayInv /\ AckedAreSent /\ NothingLost

-----------------------------------------------------------------------------
LEMMA RelayInit == Init => DeliveryInv
<1> SUFFICES ASSUME Init PROVE DeliveryInv
  OBVIOUS
<1>1. WriterInv
  BY InitInv DEF Init
<1>2. TypeOK
  BY <1>1 DEF Init, TypeOK, WriterInv, StreamInv
<1> QED BY <1>1, <1>2 DEF Init, WriterInit, DeliveryInv, RelayInv, TakenRowsAreOwn, NoRowTakenTwice, TakenRowsAreCurrent,
           MarksAreMine, RowsAreCarried, QueuedAreNew, NothingInvented, AckedAreSent, NothingLost, Ids

\* Any change of the outbox that keeps each row's id and event, or drops rows, is
\* one the writers do not see.
LEMMA RowsKeepTheirNames ==
    ASSUME WriterInv, UNCHANGED <<txState, events, lastId>>, outbox' \subseteq Row,
           \A x \in outbox' : \E y \in outbox : x.id = y.id /\ x.event = y.event,
           \A x, z \in outbox' : x.id = z.id \/ x.event = z.event => x = z
    PROVE  WriterInv'
<1> USE DEF txState
<1>1. WriterTypeOK' /\ Housekeeping'
  BY DEF WriterInv, StreamInv, WriterTypeOK, Housekeeping, Active
<1>2. RowFacts'
  BY RowFactsKept DEF WriterInv, StreamInv, RowFacts
<1>3. HeadFilled' /\ HeadOwned'
  BY DEF WriterInv, StreamInv, HeadFilled, HeadOwned, Mine, Filled
<1>4. IdsDrawn' /\ QueuedComeAfter'
  BY DEF WriterInv, QueueInv, IdsDrawn, QueuedComeAfter
<1>5. QueuedRows'
  BY DEF WriterInv, QueueInv, QueuedRows, ToOutbox, outboxEventTypes
<1>6. RowsOfEvents' /\ OutboxFollowsStream'
  BY DEF WriterInv, QueueInv, RowsOfEvents, OutboxFollowsStream
<1> QED BY <1>1, <1>2, <1>3, <1>4, <1>5, <1>6 DEF WriterInv, StreamInv, QueueInv, RowFacts

\* A writer's step leaves the committed rows alone, or is a commit, which adds its own.
LEMMA WriterFrame ==
    ASSUME WriterInv, QueuedAreNew, NEW t \in Txs, WriterStep(t)
    PROVE  /\ QueuedAreNew'
           /\ \/ UNCHANGED <<events, outbox>>
              \/ Commit(t) /\ events' = events \union Mine(t) /\ outbox' = outbox \union queued[t]
<1>1. CASE EnqueueOutbox(t)
  BY <1>1 DEF EnqueueOutbox, QueuedAreNew, NewRow, WriterInv, StreamInv, WriterTypeOK
<1>2. CASE Rollback(t) \/ Commit(t)
  BY <1>2 DEF Rollback, Commit, QueuedAreNew, WriterInv, StreamInv, WriterTypeOK, tables, Mine
<1>3. CASE ~EnqueueOutbox(t) /\ ~Rollback(t) /\ ~Commit(t)
  <2>1. UNCHANGED <<queued, events, outbox>>
    BY <1>3 DEF WriterStep, Begin, Load, ReadHead, Insert, EndAppend, EndBody, tables
  <2> QED BY <2>1 DEF QueuedAreNew
<1>4. EnqueueOutbox(t) => UNCHANGED <<events, outbox>>
  BY DEF EnqueueOutbox
<1> QED BY <1>1, <1>2, <1>3, <1>4

\* The rows a transaction commits: of types the channel carries, all of them, and new.
LEMMA CommitOwes ==
    ASSUME WriterInv, QueuedAreNew, NEW t \in Txs, Commit(t)
    PROVE  /\ \A row \in queued[t] : row.event.type \in outboxEventTypes /\ row.event \in Mine(t)
                                     /\ ~row.delivered
           /\ \A e \in Mine(t) : e.type \in outboxEventTypes => \E row \in queued[t] : row.event = e
           /\ Mine(t) \intersect events = {}
<1>1. \A row \in queued[t] : row.event.type \in outboxEventTypes /\ row.event \in Mine(t) /\ ~row.delivered
  BY QueuedAreMine DEF QueuedAreNew
<1>2. \A e \in Mine(t) : e.type \in outboxEventTypes => \E row \in queued[t] : row.event = e
  BY CommitQueuesAll
<1>3. Mine(t) \intersect events = {}
  BY DEF WriterInv, StreamInv, MineComeAfter, WriterTypeOK, Event
<1> QED BY <1>1, <1>2, <1>3

-----------------------------------------------------------------------------
\* A writer's step, seen from the relays: rows are added, none is changed.
LEMMA WriterKeepsRelays ==
    ASSUME RelayInv, WriterNext, UNCHANGED relayVars
    PROVE  RelayInv' /\ (DeliveryInv => DeliveryInv')
<1>1. PICK t \in Txs : WriterStep(t)
  BY DEF WriterNext
<1>2. WriterInv' /\ QueuedAreNew'
  BY <1>1, WriterStepInv, WriterFrame DEF RelayInv
<1>3. UNCHANGED <<taken, acked, failed, sent, published, crashes>>
  BY DEF relayVars
<1>4. CASE UNCHANGED <<events, outbox>>
  BY <1>2, <1>3, <1>4 DEF RelayInv, DeliveryInv, TakenRowsAreOwn, TypeOK, NoRowTakenTwice, TakenRowsAreCurrent,
     MarksAreMine, RowsAreCarried, NothingInvented, AckedAreSent, NothingLost, Pending, Ids, WriterInv, StreamInv,
     outboxEventTypes
<1>5. CASE Commit(t) /\ events' = events \union Mine(t) /\ outbox' = outbox \union queued[t]
  <2>1. /\ \A row \in queued[t] : row.event.type \in outboxEventTypes /\ ~row.delivered
        /\ \A e \in Mine(t) : e.type \in outboxEventTypes => \E row \in queued[t] : row.event = e
    BY <1>5, CommitOwes DEF RelayInv
  <2>2. Pending' = Pending \union queued[t]
    BY <1>5, <2>1 DEF Pending
  <2>3. RelayInv'
    BY <1>2, <1>3, <1>5, <2>1, <2>2 DEF RelayInv, TakenRowsAreOwn, TypeOK, NoRowTakenTwice, TakenRowsAreCurrent,
       MarksAreMine, RowsAreCarried, NothingInvented, Ids, WriterInv, StreamInv, outboxEventTypes
  <2>4. ASSUME DeliveryInv PROVE AckedAreSent' /\ NothingLost'
    BY <1>3, <1>5, <2>1, <2>2, <2>4 DEF DeliveryInv, AckedAreSent, NothingLost, outboxEventTypes
  <2> QED BY <2>3, <2>4 DEF DeliveryInv
<1> QED BY <1>1, <1>4, <1>5, WriterFrame DEF RelayInv

\* A scan skips the locked rows, so what it takes is nobody else's.
LEMMA ScanStep ==
    ASSUME RelayInv, NEW r \in Relays, Scan(r)
    PROVE  RelayInv' /\ (DeliveryInv => DeliveryInv')
<1>1. PICK B \in SUBSET {row \in Pending : ~Locked(row)} : taken' = [taken EXCEPT ![r] = B]
  BY DEF Scan
<1>2. UNCHANGED <<txState, tables, acked, failed, sent, published, crashes>> /\ taken[r] = {}
  BY DEF Scan
<1>3. WriterInv' /\ Pending' = Pending /\ Pending \subseteq Row
  <2>1. Pending \subseteq Row
    BY DEF Pending, RelayInv, WriterInv, StreamInv, WriterTypeOK
  <2>2. outbox' \subseteq Row /\ UNCHANGED <<txState, events, lastId, outbox>>
    BY <1>2 DEF tables, RelayInv, WriterInv, StreamInv, WriterTypeOK
  <2>3. \A x, z \in outbox' : x.id = z.id \/ x.event = z.event => x = z
    BY <2>2 DEF RelayInv, WriterInv, QueueInv, IdsDrawn, RowsOfEvents
  <2> QED BY <2>1, <2>2, <2>3, RowsKeepTheirNames DEF RelayInv, Pending
<1>4. taken'[r] = B /\ \A z \in Relays \ {r} : taken'[z] = taken[z]
  BY <1>1 DEF RelayInv, TakenRowsAreOwn, TypeOK
<1>5. \A z \in Relays \ {r} : Ids(B) \intersect Ids(taken[z]) = {}
  BY <1>1 DEF Locked, Ids
<1>6. TypeOK'
  BY <1>1, <1>2, <1>3 DEF TypeOK, RelayInv, TakenRowsAreOwn, WriterInv, StreamInv
<1>7. acked[r] = {} /\ failed[r] = {}
  BY <1>2 DEF RelayInv, MarksAreMine, Ids, TakenRowsAreOwn, TypeOK
<1>8. NoRowTakenTwice'
  BY <1>4, <1>5 DEF RelayInv, TakenRowsAreOwn, NoRowTakenTwice
<1>9. TakenRowsAreCurrent'
  BY <1>1, <1>3, <1>4 DEF RelayInv, TakenRowsAreOwn, TakenRowsAreCurrent
<1>10. MarksAreMine'
  BY <1>2, <1>4, <1>7 DEF RelayInv, MarksAreMine
<1>11. RowsAreCarried' /\ QueuedAreNew' /\ NothingInvented'
  BY <1>2 DEF RelayInv, RowsAreCarried, QueuedAreNew, NothingInvented, tables, txState, outboxEventTypes
<1>12. ASSUME DeliveryInv PROVE AckedAreSent' /\ NothingLost'
  BY <1>2, <1>3, <1>4, <1>7, <1>12 DEF DeliveryInv, AckedAreSent, NothingLost, tables, outboxEventTypes
<1> QED BY <1>3, <1>6, <1>8, <1>9, <1>10, <1>11, <1>12 DEF RelayInv, TakenRowsAreOwn, DeliveryInv

\* deliver: the row was committed, so what is published was; and a row is marked
\* delivered without being published only when the relay does not know its type.
LEMMA DeliverStep ==
    ASSUME RelayInv, NEW r \in Relays, DeliverRow(r)
    PROVE  RelayInv' /\ (SameReleaseEverywhere /\ DeliveryInv => DeliveryInv')
<1>1. UNCHANGED <<writerVars, taken, crashes>>
  BY DEF DeliverRow
<1>2. UNCHANGED <<txState, events, lastId, outbox>>
  BY <1>1 DEF writerVars, tables
<1>3. PICK row \in taken[r] :
        /\ \/ Ack(r, row) /\ (row.event.type \notin Knows[r] \/ Publish(row))
           \/ Fail(r, row)
        /\ (sent' = sent /\ published' = published) \/ Publish(row)
  BY DEF DeliverRow, Todo
<1>4. row \in outbox /\ row \in Row /\ row.id \in Nat \ {0} /\ row.event \in Event /\ row.event \in events
  BY DEF RelayInv, TakenRowsAreOwn, TakenRowsAreCurrent, Pending, TypeOK, Row, WriterInv, QueueInv, RowsOfEvents
<1>5. sent \subseteq sent' /\ sent' \subseteq sent \union {row.event} /\ published' \in Seq([id : Nat \ {0}, event : Event])
  <2> DEFINE entry == [id |-> row.id, event |-> row.event]
             Entry == [id : Nat \ {0}, event : Event]
  <2>1. entry \in Entry /\ published \in Seq(Entry)
    BY <1>4 DEF RelayInv, TakenRowsAreOwn, TypeOK
  <2>2. Append(published, entry) \in Seq(Entry)
    BY <2>1
  <2> QED BY <1>3, <2>1, <2>2 DEF Publish
<1>6. /\ acked' \in [Relays -> SUBSET (Nat \ {0})] /\ failed' \in [Relays -> SUBSET (Nat \ {0})]
      /\ acked'[r] \subseteq acked[r] \union {row.id} /\ failed'[r] \subseteq failed[r] \union {row.id}
      /\ \A z \in Relays \ {r} : acked'[z] = acked[z] /\ failed'[z] = failed[z]
  BY <1>3, <1>4 DEF Ack, Fail, RelayInv, TakenRowsAreOwn, TypeOK
<1>7. WriterInv'
  BY <1>1, WriterStutter DEF RelayInv
<1>8. TypeOK'
  BY <1>1, <1>4, <1>5, <1>6, <1>7 DEF TypeOK, RelayInv, TakenRowsAreOwn, WriterInv, StreamInv
<1>9. NoRowTakenTwice' /\ TakenRowsAreCurrent'
  BY <1>1, <1>2 DEF RelayInv, TakenRowsAreOwn, NoRowTakenTwice, TakenRowsAreCurrent, Pending, Ids
<1>10. MarksAreMine'
  BY <1>1, <1>6 DEF RelayInv, MarksAreMine, Ids
<1>11. RowsAreCarried' /\ QueuedAreNew' /\ NothingInvented'
  BY <1>2, <1>4, <1>5 DEF RelayInv, RowsAreCarried, QueuedAreNew, NothingInvented, txState, outboxEventTypes
<1>12. ASSUME SameReleaseEverywhere, DeliveryInv PROVE AckedAreSent' /\ NothingLost'
  <2>1. row.event.type \in Knows[r]
    BY <1>4, <1>12 DEF SameReleaseEverywhere, RelayInv, RowsAreCarried
  <2>2. row.id \in acked'[r] => row.id \in acked[r] \/ row.event \in sent'
    BY <1>3, <2>1 DEF Ack, Fail, Publish
  <2>3. \A x \in taken[r] : x.id = row.id => x = row
    BY DEF RelayInv, TakenRowsAreOwn, TakenRowsAreCurrent, Pending, WriterInv, QueueInv, IdsDrawn
  <2>4. AckedAreSent'
    BY <1>1, <1>5, <1>6, <1>12, <2>2, <2>3 DEF DeliveryInv, AckedAreSent
  <2>5. NothingLost'
    BY <1>2, <1>5, <1>12 DEF DeliveryInv, NothingLost, Pending, outboxEventTypes
  <2> QED BY <2>4, <2>5
<1> QED BY <1>7, <1>8, <1>9, <1>10, <1>11, <1>12 DEF RelayInv, TakenRowsAreOwn, DeliveryInv

\* What the UPDATEs of a batch do to a row.
LEMMA UpdatedRow ==
    ASSUME NEW r \in Relays, NEW row \in Row
    PROVE  /\ Updated(r, row) \in Row
           /\ Updated(r, row).id = row.id /\ Updated(r, row).event = row.event
           /\ row.id \notin acked[r] => Updated(r, row).delivered = row.delivered
           /\ row.id \in acked[r] => Updated(r, row).delivered
           /\ row.id \notin acked[r] \union failed[r] => Updated(r, row) = row
<1>1. row.attempts \in Nat /\ row.id \in Nat \ {0} /\ row.event \in Event /\ row.delivered \in BOOLEAN
  BY DEF Row
<1>2. CASE row.id \in acked[r]
  <2>1. Updated(r, row) = [row EXCEPT !.delivered = TRUE]
    BY <1>2 DEF Updated
  <2>2. Updated(r, row) = [id |-> row.id, event |-> row.event, attempts |-> row.attempts, delivered |-> TRUE]
    BY <2>1 DEF Row
  <2>3. /\ Updated(r, row).id = row.id /\ Updated(r, row).event = row.event
        /\ Updated(r, row).delivered
    BY <2>2
  <2>4. Updated(r, row) \in Row
    BY <1>1, <2>2 DEF Row
  <2> QED BY <1>2, <2>3, <2>4
<1>3. CASE row.id \notin acked[r] /\ row.id \in failed[r]
  <2>1. Updated(r, row) = [row EXCEPT !.attempts = Plus1(row.attempts)]
    BY <1>3 DEF Updated
  <2>2. Updated(r, row) = [id |-> row.id, event |-> row.event, attempts |-> Plus1(row.attempts),
                           delivered |-> row.delivered]
    BY <2>1 DEF Row
  <2>3. Plus1(row.attempts) \in Nat
    BY <1>1, RelayAssumption DEF Plus1
  <2> QED BY <1>1, <1>3, <2>2, <2>3 DEF Row
<1>4. CASE row.id \notin acked[r] /\ row.id \notin failed[r]
  BY <1>4 DEF Updated
<1> QED BY <1>2, <1>3, <1>4

\* A relay lets go of its rows and marks; those of the others stay as they are.
LEMMA LetGoFrame ==
    ASSUME RelayInv, NEW r \in Relays, LetGo(r)
    PROVE  /\ taken'[r] = {} /\ acked'[r] = {} /\ failed'[r] = {}
           /\ \A z \in Relays \ {r} : taken'[z] = taken[z] /\ acked'[z] = acked[z] /\ failed'[z] = failed[z]
           /\ taken' \in [Relays -> SUBSET Row]
           /\ acked' \in [Relays -> SUBSET (Nat \ {0})] /\ failed' \in [Relays -> SUBSET (Nat \ {0})]
           /\ NoRowTakenTwice' /\ MarksAreMine'
<1>1. /\ taken'[r] = {} /\ acked'[r] = {} /\ failed'[r] = {}
      /\ \A z \in Relays \ {r} : taken'[z] = taken[z] /\ acked'[z] = acked[z] /\ failed'[z] = failed[z]
      /\ taken' \in [Relays -> SUBSET Row]
      /\ acked' \in [Relays -> SUBSET (Nat \ {0})] /\ failed' \in [Relays -> SUBSET (Nat \ {0})]
  BY DEF LetGo, RelayInv, TakenRowsAreOwn, TypeOK
<1>2. Ids({}) = {}
  BY DEF Ids
<1>3. \A z \in Relays : Ids(taken'[z]) = IF z = r THEN {} ELSE Ids(taken[z])
  BY <1>1, <1>2
<1>4. NoRowTakenTwice'
  BY <1>3 DEF RelayInv, TakenRowsAreOwn, NoRowTakenTwice, Ids
<1>5. MarksAreMine'
  BY <1>1, <1>3 DEF RelayInv, MarksAreMine, Ids
<1> QED BY <1>1, <1>4, <1>5

\* The batch commits: its rows change, in attempts and delivered only; a row that
\* stops being pending was marked, so it was sent.
LEMMA CommitBatchStep ==
    ASSUME RelayInv, NEW r \in Relays, CommitBatch(r)
    PROVE  RelayInv' /\ (DeliveryInv => DeliveryInv' /\ Owed' \subseteq Owed /\ Owed \ Owed' \subseteq sent)
<1>1. /\ outbox' = {Updated(r, row) : row \in outbox} /\ LetGo(r)
      /\ UNCHANGED <<txState, events, lastId, sent, published, crashes>>
  BY DEF CommitBatch
<1>2. outbox \subseteq Row /\ \A row, other \in outbox : row.id = other.id \/ row.event = other.event => row = other
  BY DEF RelayInv, WriterInv, StreamInv, WriterTypeOK, QueueInv, IdsDrawn, RowsOfEvents
<1>3. outbox' \subseteq Row
  BY <1>1, <1>2, UpdatedRow
<1>4. \A x \in outbox' : \E y \in outbox : x = Updated(r, y) /\ x.id = y.id /\ x.event = y.event
  BY <1>1, <1>2, UpdatedRow
<1>5. \A x, z \in outbox' : x.id = z.id \/ x.event = z.event => x = z
  BY <1>2, <1>4
<1>6. WriterInv'
  BY <1>1, <1>3, <1>4, <1>5, RowsKeepTheirNames DEF RelayInv
<1>7. TypeOK' /\ NoRowTakenTwice' /\ MarksAreMine'
  BY <1>1, <1>6, LetGoFrame DEF TypeOK, RelayInv, TakenRowsAreOwn, WriterInv, StreamInv
<1>8. TakenRowsAreCurrent'
  <2> SUFFICES ASSUME NEW z \in Relays \ {r}, NEW row \in taken[z] PROVE row \in Pending'
    BY <1>1, LetGoFrame DEF TakenRowsAreCurrent
  <2>1. row \in outbox /\ ~row.delivered /\ row \in Row
    BY <1>2 DEF RelayInv, TakenRowsAreOwn, TakenRowsAreCurrent, Pending
  <2>2. row.id \notin Ids(taken[r])
    BY DEF RelayInv, TakenRowsAreOwn, NoRowTakenTwice, Ids
  <2>3. Updated(r, row) = row
    BY <2>1, <2>2, UpdatedRow DEF RelayInv, MarksAreMine
  <2> QED BY <1>1, <2>1, <2>3 DEF Pending
<1>9. RowsAreCarried' /\ QueuedAreNew' /\ NothingInvented'
  BY <1>1, <1>4 DEF RelayInv, RowsAreCarried, QueuedAreNew, NothingInvented, txState, outboxEventTypes
<1>10. ASSUME DeliveryInv PROVE AckedAreSent'
  BY <1>1, <1>10, LetGoFrame DEF DeliveryInv, AckedAreSent
<1>11. ASSUME DeliveryInv, NEW row \in Pending
       PROVE  row.event \in sent \/ \E x \in Pending' : x.event = row.event
  <2>1. row \in outbox /\ ~row.delivered /\ row \in Row
    BY <1>2 DEF Pending
  <2>2. CASE row.id \in acked[r]
    <3>1. PICK mine \in taken[r] : mine.id = row.id
      BY <2>2 DEF RelayInv, MarksAreMine, Ids
    <3>2. mine = row
      BY <1>2, <2>1, <3>1 DEF RelayInv, TakenRowsAreOwn, TakenRowsAreCurrent, Pending
    <3> QED BY <1>11, <2>2, <3>2 DEF DeliveryInv, AckedAreSent
  <2>3. CASE row.id \notin acked[r]
    BY <1>1, <2>1, <2>3, UpdatedRow DEF Pending
  <2> QED BY <2>2, <2>3
<1>12. ASSUME DeliveryInv PROVE NothingLost'
  BY <1>1, <1>11, <1>12 DEF DeliveryInv, NothingLost, outboxEventTypes
<1>13. \A x \in Pending' : \E y \in Pending : x.event = y.event
  BY <1>1, <1>2, UpdatedRow DEF Pending
<1> QED BY <1>6, <1>7, <1>8, <1>9, <1>10, <1>11, <1>12, <1>13 DEF RelayInv, TakenRowsAreOwn, DeliveryInv, Owed

\* A crash forgets the marks and the locks: the rows are as they were committed.
LEMMA AbortStep ==
    ASSUME RelayInv, NEW r \in Relays, AbortBatch(r)
    PROVE  RelayInv' /\ (DeliveryInv => DeliveryInv')
<1>1. UNCHANGED <<txState, events, outbox, lastId, sent, published>> /\ LetGo(r) /\ crashes' = crashes + 1
  BY DEF AbortBatch, tables
<1>2. outbox' \subseteq Row /\ \A x, z \in outbox' : x.id = z.id \/ x.event = z.event => x = z
  BY <1>1 DEF RelayInv, WriterInv, StreamInv, WriterTypeOK, QueueInv, IdsDrawn, RowsOfEvents
<1>3. WriterInv'
  BY <1>1, <1>2, RowsKeepTheirNames DEF RelayInv
<1>4. TypeOK' /\ NoRowTakenTwice' /\ MarksAreMine'
  BY <1>1, <1>3, LetGoFrame DEF TypeOK, RelayInv, TakenRowsAreOwn, WriterInv, StreamInv
<1>5. TakenRowsAreCurrent'
  BY <1>1, LetGoFrame DEF RelayInv, TakenRowsAreOwn, TakenRowsAreCurrent, Pending
<1>6. RowsAreCarried' /\ QueuedAreNew' /\ NothingInvented'
  BY <1>1 DEF RelayInv, RowsAreCarried, QueuedAreNew, NothingInvented, txState, outboxEventTypes
<1>7. ASSUME DeliveryInv PROVE AckedAreSent' /\ NothingLost'
  BY <1>1, <1>7, LetGoFrame DEF DeliveryInv, AckedAreSent, NothingLost, Pending, outboxEventTypes
<1> QED BY <1>3, <1>4, <1>5, <1>6, <1>7 DEF RelayInv, TakenRowsAreOwn, DeliveryInv

\* Cleanup deletes delivered rows: none that is owed and none that a relay holds.
LEMMA PurgeStep ==
    ASSUME RelayInv, PurgeDelivered
    PROVE  RelayInv' /\ (DeliveryInv => DeliveryInv') /\ Pending' = Pending
<1>1. /\ outbox' \subseteq outbox /\ Pending' = Pending
      /\ UNCHANGED <<txState, events, lastId, pool, taken, acked, failed, sent, published, crashes>>
  BY DEF PurgeDelivered, Pending, relayVars
<1>2. outbox' \subseteq Row /\ \A x, z \in outbox' : x.id = z.id \/ x.event = z.event => x = z
  BY <1>1 DEF RelayInv, WriterInv, StreamInv, WriterTypeOK, QueueInv, IdsDrawn, RowsOfEvents
<1>3. WriterInv'
  BY <1>1, <1>2, RowsKeepTheirNames DEF RelayInv
<1>4. TakenRowsAreOwn'
  BY <1>1, <1>3 DEF RelayInv, TakenRowsAreOwn, TypeOK, NoRowTakenTwice, TakenRowsAreCurrent, Ids, WriterInv, StreamInv
<1>5. MarksAreMine' /\ RowsAreCarried' /\ QueuedAreNew' /\ NothingInvented'
  BY <1>1 DEF RelayInv, MarksAreMine, RowsAreCarried, QueuedAreNew, NothingInvented, txState, Ids, outboxEventTypes
<1>6. ASSUME DeliveryInv PROVE AckedAreSent' /\ NothingLost'
  BY <1>1, <1>6 DEF DeliveryInv, AckedAreSent, NothingLost, outboxEventTypes
<1> QED BY <1>1, <1>3, <1>4, <1>5, <1>6 DEF RelayInv, DeliveryInv

LEMMA RelayStutter == ASSUME RelayInv, UNCHANGED vars PROVE RelayInv' /\ (DeliveryInv => DeliveryInv')
<1>1. WriterInv'
  BY WriterStutter DEF vars, RelayInv
<1>2. UNCHANGED <<events, outbox, queued, taken, acked, failed, sent, published, crashes>>
  BY DEF vars, writerVars, txState, tables, relayVars
<1> QED BY <1>1, <1>2 DEF RelayInv, DeliveryInv, TakenRowsAreOwn, TypeOK, NoRowTakenTwice, TakenRowsAreCurrent,
     MarksAreMine, RowsAreCarried, QueuedAreNew, NothingInvented, AckedAreSent, NothingLost, Pending, Ids,
     WriterInv, StreamInv, outboxEventTypes

LEMMA RelayNext ==
    ASSUME RelayInv, [Next]_vars
    PROVE  RelayInv' /\ (SameReleaseEverywhere /\ DeliveryInv => DeliveryInv')
  BY WriterKeepsRelays, ScanStep, DeliverStep, CommitBatchStep, AbortStep, PurgeStep, RelayStutter DEF Next, RelayStep

-----------------------------------------------------------------------------
\* What a relay works on is its own and as it read it, through crashes, writers, other
\* relays and the cleanup (ScanUndelivered FOR UPDATE SKIP LOCKED, MarkDelivered).
THEOREM OwnRows == Spec => []TakenRowsAreOwn
<1>1. Init => RelayInv
  BY RelayInit DEF DeliveryInv
<1>2. RelayInv /\ [Next]_vars => RelayInv'
  BY RelayNext
<1>3. RelayInv => TakenRowsAreOwn
  BY DEF RelayInv
<1> QED BY <1>1, <1>2, <1>3, PTL DEF Spec

\* With replicas of one release, every committed event of the channel is pending in
\* the table or was published, and nothing else was (ProcessBatch, deliver, Cleanup).
THEOREM CommittedIsSent == ASSUME SameReleaseEverywhere PROVE Spec => []SentMatchesCommitted
<1>1. DeliveryInv /\ [Next]_vars => DeliveryInv'
  BY RelayNext DEF DeliveryInv
<1>2. DeliveryInv => SentMatchesCommitted
  BY DEF DeliveryInv, RelayInv, SentMatchesCommitted
<1> QED BY <1>1, <1>2, RelayInit, PTL DEF Spec

-----------------------------------------------------------------------------
\* A step of a writer accepts the events it commits, none of them sent before.
LEMMA WriterAccepts ==
    ASSUME RelayInv, WriterNext, UNCHANGED relayVars
    PROVE  Promise!Accept \/ UNCHANGED <<Owed, sent>>
<1>1. PICK t \in Txs : WriterStep(t)
  BY DEF WriterNext
<1>2. sent' = sent
  BY DEF relayVars
<1>3. CASE UNCHANGED <<events, outbox>>
  BY <1>2, <1>3 DEF Owed, Pending
<1>4. CASE Commit(t) /\ events' = events \union Mine(t) /\ outbox' = outbox \union queued[t]
  <2>1. /\ \A row \in queued[t] : row.event \in Mine(t) /\ ~row.delivered
        /\ Mine(t) \intersect events = {}
    BY <1>4, CommitOwes DEF RelayInv
  <2>2. Pending' = Pending \union queued[t]
    BY <1>4, <2>1 DEF Pending
  <2>3. Owed \subseteq Owed' /\ Owed' \ Owed \subseteq Mine(t)
    BY <2>1, <2>2 DEF Owed
  <2> QED BY <1>2, <2>1, <2>3 DEF Promise!Accept, RelayInv, NothingInvented
<1> QED BY <1>1, <1>3, <1>4, WriterFrame DEF RelayInv

\* A delivery sends an event that is owed, or nothing.
LEMMA RelayDelivers ==
    ASSUME RelayInv, NEW r \in Relays, DeliverRow(r)
    PROVE  Promise!Deliver \/ UNCHANGED <<Owed, sent>>
<1>1. UNCHANGED outbox
  BY DEF DeliverRow, writerVars, tables
<1>2. UNCHANGED Owed
  BY <1>1 DEF Owed, Pending
<1>3. PICK row \in taken[r] : sent' = sent \/ sent' = sent \union {row.event}
  BY DEF DeliverRow, Todo, Publish
<1>4. row.event \in Owed
  BY DEF RelayInv, TakenRowsAreOwn, TakenRowsAreCurrent, Owed
<1> QED BY <1>2, <1>3, <1>4 DEF Promise!Deliver

\* With replicas of one release the outbox implements AtLeastOnce: an accepted event is
\* owed until it was delivered, through crashes, failing deliveries and the cleanup.
THEOREM OutboxRefinement == ASSUME SameReleaseEverywhere PROVE Spec => ImplementsAtLeastOnce
<1>1. Init => Promise!Init
  BY DEF Init, WriterInit, Promise!Init, Owed, Pending
<1>2. DeliveryInv /\ [Next]_vars => [Promise!Next]_(Promise!vars)
  <2> SUFFICES ASSUME DeliveryInv, [Next]_vars PROVE Promise!Next \/ UNCHANGED <<Owed, sent>>
    BY DEF Promise!vars
  <2>1. RelayInv
    BY DEF DeliveryInv
  <2>2. CASE WriterNext /\ UNCHANGED relayVars
    BY <2>1, <2>2, WriterAccepts DEF Promise!Next
  <2>3. ASSUME NEW r \in Relays, Scan(r) \/ AbortBatch(r) PROVE UNCHANGED <<Owed, sent>>
    BY <2>3 DEF Scan, AbortBatch, tables, Owed, Pending
  <2>4. ASSUME NEW r \in Relays, DeliverRow(r) PROVE Promise!Next \/ UNCHANGED <<Owed, sent>>
    BY <2>1, <2>4, RelayDelivers DEF Promise!Next
  <2>5. ASSUME NEW r \in Relays, CommitBatch(r) PROVE Promise!Next
    <3>1. Owed' \subseteq Owed /\ Owed \ Owed' \subseteq sent
      BY <2>1, <2>5, CommitBatchStep
    <3> QED BY <2>5, <3>1 DEF Promise!Next, Promise!Settle, CommitBatch
  <2>6. CASE PurgeDelivered
    BY <2>1, <2>6, PurgeStep DEF Owed, PurgeDelivered, relayVars
  <2>7. CASE UNCHANGED vars
    BY <2>7 DEF vars, writerVars, tables, relayVars, Owed, Pending
  <2> QED BY <2>2, <2>3, <2>4, <2>5, <2>6, <2>7 DEF Next, RelayStep
<1>3. DeliveryInv /\ [Next]_vars => DeliveryInv'
  BY RelayNext DEF DeliveryInv
<1> QED BY <1>1, <1>2, <1>3, RelayInit, PTL DEF Spec, ImplementsAtLeastOnce, Promise!Spec
-----------------------------------------------------------------------------
(* The order of a stream, with one relay and while no Publish fails. *)

OneRelay == \A r, s \in Relays : r = s
NothingFails == \A r \in Relays : failed[r] = {}

\* No row was ever tried in vain, so the scan's order is the order of the ids.
Untried ==
    /\ \A row \in outbox : row.attempts = 0
    /\ \A t \in Txs : \A row \in queued[t] : row.attempts = 0

\* What a relay left in the table comes after what it took, stream by stream.
TakenComeFirst == \A r \in Relays : \A y \in taken[r], x \in Pending \ taken[r] :
    x.event.agg = y.event.agg => y.id < x.id

\* A row is marked delivered when it was published, or when no relay can decode it.
KnownAckedAreSent == \A r \in Relays : \A row \in taken[r] :
    row.id \in acked[r] /\ row.event.type \in Knows[r] => row.event \in sent

\* Nothing overtakes a row that is still to be published.
NothingOvertakes == \A r \in Relays : \A e \in sent, x \in Pending :
    x.event.agg = e.agg /\ x.event.seq < e.seq /\ x.event.type \in Knows[r] => x.event \in sent

PublishedAreSent == \A i \in DOMAIN published : published[i].event \in sent

RowOrder == Untried /\ TakenComeFirst /\ KnownAckedAreSent /\ NothingOvertakes
OrderInv == RelayInv /\ RowOrder /\ PublishedAreSent /\ StreamOrderKept

\* Writers add rows behind those of their stream.
LEMMA WritersKeepRowOrder ==
    ASSUME RelayInv, RowOrder, WriterNext, UNCHANGED relayVars
    PROVE  RowOrder'
<1>1. PICK t \in Txs : WriterStep(t)
  BY DEF WriterNext
<1>2. UNCHANGED <<taken, acked, sent>>
  BY DEF relayVars
<1>3. \A u \in Txs : \A row \in queued'[u] : row.attempts = 0
  <2>1. CASE EnqueueOutbox(t)
    BY <2>1 DEF EnqueueOutbox, Untried, RowOrder, NewRow, RelayInv, WriterInv, StreamInv, WriterTypeOK
  <2>2. CASE Rollback(t) \/ Commit(t)
    BY <2>2 DEF Rollback, Commit, Untried, RowOrder, RelayInv, WriterInv, StreamInv, WriterTypeOK
  <2>3. CASE ~EnqueueOutbox(t) /\ ~Rollback(t) /\ ~Commit(t)
    BY <1>1, <2>3 DEF WriterStep, Begin, Load, ReadHead, Insert, EndAppend, EndBody, Untried, RowOrder
  <2> QED BY <2>1, <2>2, <2>3
<1>4. CASE UNCHANGED <<events, outbox>>
  <2>1. Untried'
    BY <1>3, <1>4 DEF Untried, RowOrder
  <2> QED BY <1>2, <1>4, <2>1 DEF RowOrder, TakenComeFirst, KnownAckedAreSent, NothingOvertakes, Pending
<1>5. CASE Commit(t) /\ events' = events \union Mine(t) /\ outbox' = outbox \union queued[t]
  <2>1. \A row \in queued[t] : ~row.delivered /\ row.event \in Mine(t)
    BY <1>5, CommitOwes DEF RelayInv
  <2>2. Pending' = Pending \union queued[t] /\ Pending \subseteq outbox
    BY <1>5, <2>1 DEF Pending
  <2>3. Untried'
    BY <1>3, <1>5 DEF Untried, RowOrder
  <2>4. TakenComeFirst'
    <3> SUFFICES ASSUME NEW r \in Relays, NEW y \in taken[r], NEW x \in Pending' \ taken[r],
                        x.event.agg = y.event.agg
                 PROVE  y.id < x.id
      BY <1>2 DEF TakenComeFirst
    <3>1. y \in outbox
      BY <2>2 DEF RelayInv, TakenRowsAreOwn, TakenRowsAreCurrent
    <3>2. CASE x \in queued[t]
      BY <3>1, <3>2 DEF RelayInv, WriterInv, QueueInv, QueuedComeAfter
    <3>3. CASE x \in Pending
      BY <3>3 DEF RowOrder, TakenComeFirst
    <3> QED BY <2>2, <3>2, <3>3
  <2>5. KnownAckedAreSent'
    BY <1>2 DEF RowOrder, KnownAckedAreSent
  <2>6. NothingOvertakes'
    <3> SUFFICES ASSUME NEW r \in Relays, NEW e \in sent, NEW x \in Pending', x.event.agg = e.agg,
                        x.event.seq < e.seq, x.event.type \in Knows[r]
                 PROVE  x.event \in sent
      BY <1>2 DEF NothingOvertakes
    <3>1. CASE x \in Pending
      BY <3>1 DEF RowOrder, NothingOvertakes
    <3>2. x \notin queued[t]
      <4>1. e \in events /\ events \subseteq Event
        BY DEF RelayInv, NothingInvented, WriterInv, StreamInv, WriterTypeOK
      <4>2. ASSUME x \in queued[t] PROVE FALSE
        <5>1. x.event \in Mine(t) /\ x.event \in Event
          BY <2>1, <4>2, QueuedAreMine DEF RelayInv
        <5>2. e.seq < x.event.seq
          BY <4>1, <5>1 DEF RelayInv, WriterInv, StreamInv, MineComeAfter
        <5>3. e.seq \in Nat /\ x.event.seq \in Nat
          BY <4>1, <5>1 DEF Event
        <5> QED BY <5>2, <5>3
      <4> QED BY <4>2
    <3> QED BY <2>2, <3>1, <3>2
  <2> QED BY <2>3, <2>4, <2>5, <2>6 DEF RowOrder
<1> QED BY <1>1, <1>4, <1>5, WriterFrame DEF RelayInv

\* The one relay takes the oldest pending rows.
LEMMA ScanKeepsRowOrder ==
    ASSUME RelayInv, RowOrder, OneRelay, NEW r \in Relays, Scan(r)
    PROVE  RowOrder'
<1>1. Relays = {r}
  BY DEF OneRelay
<1>2. taken[r] = {} /\ UNCHANGED <<txState, tables, acked, sent>>
  BY DEF Scan
<1>3. {row \in Pending : ~Locked(row)} = Pending
  BY <1>1, <1>2 DEF Locked, Ids
<1>4. PICK B \in SUBSET Pending : Chosen(Pending, B) /\ taken' = [taken EXCEPT ![r] = B]
  BY <1>3 DEF Scan
<1>5. taken'[r] = B
  BY <1>4 DEF RelayInv, TakenRowsAreOwn, TypeOK
<1>6. Pending' = Pending /\ Untried'
  BY <1>2 DEF tables, txState, Pending, RowOrder, Untried
<1>7. \A y \in B, x \in Pending \ B : y.id < x.id
  BY <1>4 DEF Chosen, Before, Pending, RowOrder, Untried
<1>8. TakenComeFirst'
  BY <1>1, <1>5, <1>6, <1>7 DEF TakenComeFirst
<1>9. acked[r] = {}
  BY <1>2 DEF RelayInv, MarksAreMine, Ids, TakenRowsAreOwn, TypeOK
<1>10. KnownAckedAreSent'
  BY <1>1, <1>2, <1>9 DEF KnownAckedAreSent
<1>11. NothingOvertakes'
  BY <1>2, <1>6 DEF RowOrder, NothingOvertakes
<1> QED BY <1>6, <1>8, <1>10, <1>11 DEF RowOrder

\* A row that is published has nothing of its stream left before it, and nothing of its
\* stream behind it was published.
LEMMA NextIsInOrder ==
    ASSUME RelayInv, RowOrder, OneRelay, NothingFails, NEW r \in Relays, NEW row \in Todo(r),
           IsFirst(row, Todo(r))
    PROVE  /\ row \in Pending /\ row.event \in events
           /\ \A x \in Pending : /\ x.event.agg = row.event.agg /\ x.event.seq < row.event.seq
                                 /\ x.event.type \in Knows[r]
                                 => x.event \in sent
           /\ row.event.type \in Knows[r] /\ row.event \notin sent =>
                 \A e \in sent : e.agg = row.event.agg => e.seq < row.event.seq
<1>1. row \in taken[r] /\ taken[r] \subseteq Pending /\ Pending \subseteq outbox /\ outbox \subseteq Row /\ failed[r] = {}
  BY DEF Todo, RelayInv, TakenRowsAreOwn, TakenRowsAreCurrent, Pending, NothingFails, WriterInv, StreamInv, WriterTypeOK
<1>2. \A x \in outbox : x.event \in events /\ x.attempts = 0 /\ x.id \in Nat
  BY <1>1 DEF RelayInv, WriterInv, QueueInv, RowsOfEvents, RowOrder, Untried, Row
<1>3. ASSUME NEW x \in Pending, x.event.agg = row.event.agg, x.event.seq < row.event.seq, x.event.type \in Knows[r]
      PROVE  x.event \in sent
  <2>1. x.id < row.id
    BY <1>1, <1>3 DEF RelayInv, WriterInv, QueueInv, OutboxFollowsStream
  <2>2. x \in taken[r]
    BY <1>1, <1>2, <1>3, <2>1 DEF RowOrder, TakenComeFirst
  <2>3. x \notin Todo(r)
    <3> SUFFICES ASSUME x \in Todo(r) PROVE FALSE
      OBVIOUS
    <3>1. x # row /\ Before(row, x)
      BY <1>1, <1>2, <2>1 DEF IsFirst
    <3> QED BY <1>1, <1>2, <2>1, <3>1 DEF Before
  <2>4. x.id \in acked[r]
    BY <1>1, <2>2, <2>3 DEF Todo
  <2> QED BY <1>3, <2>2, <2>4 DEF RowOrder, KnownAckedAreSent
<1>4. ASSUME row.event.type \in Knows[r], row.event \notin sent, NEW e \in sent, e.agg = row.event.agg
      PROVE  e.seq < row.event.seq
  <2>1. e \in events /\ row.event \in events /\ events \subseteq Event
    BY <1>1, <1>2 DEF RelayInv, NothingInvented, WriterInv, StreamInv, WriterTypeOK
  <2>2. e.seq # row.event.seq
    BY <1>4, <2>1 DEF RelayInv, WriterInv, StreamInv, KeysUnique, SameKey
  <2>3. ~(row.event.seq < e.seq)
    BY <1>1, <1>4 DEF RowOrder, NothingOvertakes
  <2>4. e.seq \in Nat /\ row.event.seq \in Nat
    BY <2>1 DEF Event
  <2> QED BY <2>2, <2>3, <2>4
<1> QED BY <1>1, <1>2, <1>3, <1>4

LEMMA DeliverKeepsOrder ==
    ASSUME OrderInv, OneRelay, NothingFails, NEW r \in Relays, DeliverRow(r)
    PROVE  RowOrder' /\ PublishedAreSent' /\ StreamOrderKept'
<1>1. Relays = {r} /\ RelayInv /\ RowOrder
  BY DEF OneRelay, OrderInv
<1>2. UNCHANGED <<txState, tables, taken>> /\ Pending' = Pending
  BY DEF DeliverRow, writerVars, tables, Pending
<1>3. PICK row \in Todo(r) :
         /\ IsFirst(row, Todo(r))
         /\ \/ row.event.type \notin Knows[r] /\ Ack(r, row) /\ UNCHANGED <<sent, published>>
            \/ row.event.type \in Knows[r] /\ Publish(row) /\ (Ack(r, row) \/ Fail(r, row))
            \/ row.event.type \in Knows[r] /\ Fail(r, row) /\ UNCHANGED <<sent, published>>
  BY DEF DeliverRow
<1>4. /\ row \in Pending /\ row.event \in events
      /\ \A x \in Pending : /\ x.event.agg = row.event.agg /\ x.event.seq < row.event.seq
                            /\ x.event.type \in Knows[r]
                            => x.event \in sent
      /\ row.event.type \in Knows[r] /\ row.event \notin sent =>
            \A e \in sent : e.agg = row.event.agg => e.seq < row.event.seq
  BY <1>1, <1>3, NextIsInOrder
<1>5. Untried' /\ TakenComeFirst'
  BY <1>1, <1>2 DEF RowOrder, Untried, TakenComeFirst, txState, tables
<1>6. /\ acked'[r] = acked[r] \/ (acked'[r] = acked[r] \union {row.id} /\ (row.event.type \in Knows[r] => row.event \in sent'))
      /\ sent' = sent \/ (sent' = sent \union {row.event} /\ row.event.type \in Knows[r])
  BY <1>1, <1>3 DEF Ack, Fail, Publish, RelayInv, TakenRowsAreOwn, TypeOK
<1>7. KnownAckedAreSent'
  <2> SUFFICES ASSUME NEW x \in taken[r], x.id \in acked'[r], x.event.type \in Knows[r] PROVE x.event \in sent'
    BY <1>1, <1>2 DEF KnownAckedAreSent
  <2>1. row \in taken[r] /\ taken[r] \subseteq outbox
    BY <1>1 DEF Todo, RelayInv, TakenRowsAreOwn, TakenRowsAreCurrent, Pending
  <2>2. x.id = row.id => x = row
    BY <1>1, <2>1 DEF RelayInv, WriterInv, QueueInv, IdsDrawn
  <2> QED BY <1>1, <1>6, <2>2 DEF RowOrder, KnownAckedAreSent
<1>8. NothingOvertakes'
  BY <1>1, <1>2, <1>4, <1>6 DEF RowOrder, NothingOvertakes
<1>9. PublishedAreSent' /\ StreamOrderKept'
  <2>1. published \in Seq([id : Nat \ {0}, event : Event])
    BY <1>1 DEF RelayInv, TakenRowsAreOwn, TypeOK
  <2>2. CASE UNCHANGED <<sent, published>>
    BY <2>2 DEF OrderInv, PublishedAreSent, StreamOrderKept
  <2>3. CASE row.event.type \in Knows[r] /\ Publish(row) /\ row.event \in sent
    BY <2>3 DEF Publish, OrderInv, PublishedAreSent, StreamOrderKept
  <2>4. CASE row.event.type \in Knows[r] /\ Publish(row) /\ row.event \notin sent
    <3> DEFINE new == [id |-> row.id, event |-> row.event]
    <3>1. published' = Append(published, new) /\ sent' = sent \union {row.event} /\ new.event = row.event
      BY <2>4 DEF Publish
    <3>2. new \in [id : Nat \ {0}, event : Event]
      BY <1>1, <1>4 DEF Pending, RelayInv, WriterInv, StreamInv, WriterTypeOK, Row
    <3> HIDE DEF new
    <3>3. /\ DOMAIN published' = 1..Len(published) + 1 /\ Len(published) \in Nat /\ DOMAIN published = 1..Len(published)
          /\ published'[Len(published) + 1] = new
          /\ \A i \in 1..Len(published) : published'[i] = published[i]
      BY <2>1, <3>1, <3>2, AppendEntries
    <3>4. \A i \in 1..Len(published) : published[i].event \in sent
      BY <3>3 DEF OrderInv, PublishedAreSent
    <3>5. PublishedAreSent'
      BY <3>1, <3>3, <3>4 DEF PublishedAreSent
    <3>6. \A i \in 1..Len(published) : published[i].event.agg = row.event.agg => published[i].event.seq < row.event.seq
      BY <1>4, <2>4, <3>4
    <3>7. \A i, j \in 1..Len(published) + 1 : i < j => i \in 1..Len(published) /\ (j = Len(published) + 1 \/ j \in 1..Len(published))
      BY <3>3
    <3>8. \A i, j \in 1..Len(published) :
             i < j /\ published[i].event.agg = published[j].event.agg => published[i].event.seq < published[j].event.seq
      BY <3>3 DEF OrderInv, StreamOrderKept
    <3>9. StreamOrderKept'
      BY <3>1, <3>3, <3>6, <3>7, <3>8 DEF StreamOrderKept
    <3> QED BY <3>5, <3>9
  <2> QED BY <1>3, <2>2, <2>3, <2>4
<1> QED BY <1>5, <1>7, <1>8, <1>9 DEF RowOrder

\* A batch that ends, whichever way, leaves fewer rows to publish and none to order.
LEMMA EndOfBatchKeepsRowOrder ==
    ASSUME RelayInv, RowOrder, OneRelay, NothingFails, NEW r \in Relays, CommitBatch(r) \/ AbortBatch(r)
    PROVE  RowOrder'
<1>1. Relays = {r} /\ outbox \subseteq Row
  BY DEF OneRelay, RelayInv, WriterInv, StreamInv, WriterTypeOK
<1>2. taken'[r] = {} /\ acked'[r] = {} /\ sent' = sent /\ queued' = queued
  BY LetGoFrame DEF CommitBatch, AbortBatch, txState
<1>3. Pending' \subseteq Pending /\ \A x \in outbox' : x.attempts = 0
  <2>1. CASE CommitBatch(r)
    <3>1. ASSUME NEW row \in outbox
          PROVE  /\ Updated(r, row).attempts = 0
                 /\ Updated(r, row).delivered \/ Updated(r, row) = row
      <4>1. row \in Row /\ row.attempts = 0
        BY <1>1 DEF RowOrder, Untried
      <4>2. CASE row.id \in acked[r]
        <5>1. Updated(r, row) = [row EXCEPT !.delivered = TRUE]
          BY <4>2 DEF Updated
        <5> QED BY <4>1, <5>1 DEF Row
      <4>3. CASE row.id \notin acked[r]
        BY <4>1, <4>3, UpdatedRow DEF NothingFails
      <4> QED BY <4>2, <4>3
    <3> QED BY <2>1, <3>1 DEF CommitBatch, Pending
  <2>2. CASE AbortBatch(r)
    BY <2>2 DEF AbortBatch, tables, Pending, RowOrder, Untried
  <2> QED BY <2>1, <2>2
<1>4. Untried'
  BY <1>2, <1>3 DEF RowOrder, Untried
<1>5. TakenComeFirst' /\ KnownAckedAreSent'
  BY <1>1, <1>2 DEF TakenComeFirst, KnownAckedAreSent
<1>6. NothingOvertakes'
  BY <1>2, <1>3 DEF RowOrder, NothingOvertakes
<1> QED BY <1>4, <1>5, <1>6 DEF RowOrder

LEMMA OrderNext ==
    ASSUME OneRelay, OrderInv, NothingFails, [Next]_vars
    PROVE  OrderInv'
<1>1. RelayInv'
  BY RelayNext DEF OrderInv
<1>2. CASE WriterNext /\ UNCHANGED relayVars
  <2>1. RowOrder'
    BY <1>2, WritersKeepRowOrder DEF OrderInv
  <2> QED BY <1>1, <1>2, <2>1 DEF OrderInv, PublishedAreSent, StreamOrderKept, relayVars
<1>3. ASSUME NEW r \in Relays, Scan(r) \/ CommitBatch(r) \/ AbortBatch(r) PROVE OrderInv'
  <2>1. RowOrder'
    BY <1>3, ScanKeepsRowOrder, EndOfBatchKeepsRowOrder DEF OrderInv
  <2>2. UNCHANGED <<sent, published>>
    BY <1>3 DEF Scan, CommitBatch, AbortBatch
  <2> QED BY <1>1, <2>1, <2>2 DEF OrderInv, PublishedAreSent, StreamOrderKept
<1>4. ASSUME NEW r \in Relays, DeliverRow(r) PROVE OrderInv'
  BY <1>1, <1>4, DeliverKeepsOrder DEF OrderInv
<1>5. CASE PurgeDelivered
  <2>1. /\ Pending' = Pending /\ outbox' \subseteq outbox
        /\ UNCHANGED <<queued, taken, acked, sent, published>>
    BY <1>5, PurgeStep DEF OrderInv, PurgeDelivered, relayVars, txState
  <2>2. RowOrder'
    BY <2>1 DEF OrderInv, RowOrder, Untried, TakenComeFirst, KnownAckedAreSent, NothingOvertakes
  <2> QED BY <1>1, <2>1, <2>2 DEF OrderInv, PublishedAreSent, StreamOrderKept
<1>6. CASE UNCHANGED vars
  <2>1. UNCHANGED <<outbox, queued, taken, acked, sent, published>>
    BY <1>6 DEF vars, writerVars, tables, txState, relayVars
  <2>2. RowOrder'
    BY <2>1 DEF OrderInv, RowOrder, Untried, TakenComeFirst, KnownAckedAreSent, NothingOvertakes, Pending
  <2> QED BY <1>1, <2>1, <2>2 DEF OrderInv, PublishedAreSent, StreamOrderKept
<1> QED BY <1>2, <1>3, <1>4, <1>5, <1>6 DEF Next, RelayStep

\* With one relay, and as long as no Publish fails, the events of a stream are published
\* in its order, whatever crashes, whatever the batch size and in whatever order the
\* writers draw ids and commit (ScanUndelivered's ORDER BY, ProcessBatch).
THEOREM OneRelayKeepsOrder ==
    ASSUME OneRelay PROVE Spec /\ []NothingFails => []StreamOrderKept
<1>1. Init => OrderInv
  <2> SUFFICES ASSUME Init PROVE OrderInv
    OBVIOUS
  <2>1. RelayInv
    BY RelayInit DEF DeliveryInv
  <2>2. RowOrder
    BY DEF Init, WriterInit, RowOrder, Untried, TakenComeFirst, KnownAckedAreSent, NothingOvertakes
  <2> QED BY <2>1, <2>2 DEF Init, OrderInv, PublishedAreSent, StreamOrderKept
<1>2. OrderInv /\ NothingFails /\ [Next]_vars => OrderInv'
  BY OrderNext
<1>3. OrderInv => StreamOrderKept
  BY DEF OrderInv
<1> QED BY <1>1, <1>2, <1>3, PTL DEF Spec
=============================================================================
