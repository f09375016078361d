---------------------------- MODULE SqlUnitOfWork ----------------------------
(***************************************************************************)
(* The write side over database/sql: UnitOfWork.Run (codegen/sqlrt/        *)
(* uow.go.txt), the event stream and outbox tables it writes in one        *)
(* transaction (codegen/sqlrt/eventstore.go.txt) and the connection pool   *)
(* it takes that transaction from (open_sqlite: one connection).           *)
(*                                                                         *)
(* A transaction is one Run. Each SQL statement is one step, at the        *)
(* isolation BeginTx(ctx, nil) asks for (the server's default, READ        *)
(* COMMITTED): it sees what is committed and what its own transaction      *)
(* wrote. The PRIMARY KEY (aggregate_id, sequence) makes an INSERT wait    *)
(* for another transaction's uncommitted row of that key, and fail on a    *)
(* committed one. Outbox ids come from a counter that no rollback returns. *)
(* A crash is the rollback of the transactions the process had open.       *)
(***************************************************************************)
EXTENDS Naturals, Sequences, FiniteSets

CONSTANTS
    Txs,            \* calls of UnitOfWork.Run
    Aggregates,     \* aggregate ids
    Types,          \* event types
    Carried,        \* the PublicEvents the module's outgoing channel carries
    Wiring,         \* "producer" or "policy": who needs the outbox
    Tenants,        \* tenant ids, and the empty one of a call outside a tenant
    NoTenant,
    TenantOf,       \* the tenant in each call's context
    CrossTenant,    \* calls whose context bypasses tenancy
    MaxConns,       \* SetMaxOpenConns
    MaxEvents,      \* bound: events one transaction appends
    NoHead

ASSUME CarriedAssumption == Carried \subseteq Types
ASSUME WiringAssumption == Wiring \in {"producer", "policy"}
ASSUME TenantAssumption == NoTenant \in Tenants /\ TenantOf \in [Txs -> Tenants]
ASSUME BoundAssumption == MaxConns \in Nat \ {0} /\ MaxEvents \in Nat

VARIABLES
    pc,         \* where each transaction stands
    loaded,     \* the stream versions its decisions were taken on
    head,       \* the Append going on: stream, next sequence, tenant tag
    appended,   \* Tx.appended: the events it inserted, not committed yet
    cursor,     \* how far EnqueueOutbox walked along appended
    queued,     \* the outbox rows it inserted, not committed yet
    events,     \* table "events", committed rows
    outbox,     \* table "outbox", committed rows
    lastId,     \* the outbox id counter
    pool        \* who holds a connection

txState == <<pc, loaded, head, appended, cursor, queued>>
tables == <<events, outbox, lastId>>
writerVars == <<txState, tables, pool>>

Event == [agg : Aggregates, seq : Nat \ {0}, type : Types, tenant : Tenants, by : Txs]
Row == [id : Nat \ {0}, event : Event, attempts : Nat, delivered : BOOLEAN]
AppendHead == [agg : Aggregates, next : Nat, tenant : Tenants]
ASSUME HeadAssumption == NoHead \notin AppendHead

\* outboxEventTypes: only a durable producer is wired with NewOutboxUnitOfWork. A
\* module whose AtLeastOnce Policies are local gets a UnitOfWork whose Run enqueues
\* nothing.
outboxEventTypes == IF Wiring = "producer" THEN Carried ELSE {}

Entries(s) == {s[i] : i \in DOMAIN s}
Stream(S, a) == {e \in S : e.agg = a}
Active(t) == pc[t] \in {"body", "insert", "enqueue"}

\* What a statement of t reads of stream a.
Visible(t, a) == Stream(events \union Entries(appended[t]), a)
IsMaxSeq(n, S) == /\ n = 0 \/ \E e \in S : e.seq = n
                  /\ \A e \in S : e.seq <= n
tenantVisible(t, e) == e.tenant = NoTenant \/ t \in CrossTenant \/ e.tenant = TenantOf[t]

CanConnect == Cardinality(pool) < MaxConns

-----------------------------------------------------------------------------
WriterInit ==
    /\ pc = [t \in Txs |-> "idle"]
    /\ loaded = [t \in Txs |-> {}]
    /\ head = [t \in Txs |-> NoHead]
    /\ appended = [t \in Txs |-> <<>>]
    /\ cursor = [t \in Txs |-> 0]
    /\ queued = [t \in Txs |-> {}]
    /\ events = {}
    /\ outbox = {}
    /\ lastId = 0
    /\ pool = {}

Goto(t, label) == pc' = [pc EXCEPT ![t] = label]

\* db.BeginTx waits for a free connection.
Begin(t) ==
    /\ pc[t] = "idle"
    /\ CanConnect
    /\ Goto(t, "body")
    /\ pool' = pool \union {t}
    /\ UNCHANGED <<loaded, head, appended, cursor, queued, tables>>

\* The deferred Rollback: fn failed, a statement failed (a deadlock the server
\* broke, a lost connection), the context ended, or the process died.
Rollback(t) ==
    /\ Active(t)
    /\ Goto(t, "aborted")
    /\ loaded' = [loaded EXCEPT ![t] = {}]
    /\ head' = [head EXCEPT ![t] = NoHead]
    /\ appended' = [appended EXCEPT ![t] = <<>>]
    /\ cursor' = [cursor EXCEPT ![t] = 0]
    /\ queued' = [queued EXCEPT ![t] = {}]
    /\ pool' = pool \ {t}
    /\ UNCHANGED tables

\* Tx.Load, the read a decision is taken on: the whole stream, unless its tag is
\* another tenant's (ErrNotFound, and then fn fails: Rollback).
Load(t, a) ==
    /\ pc[t] = "body"
    /\ \A l \in loaded[t] : l.agg # a
    /\ \A e \in Visible(t, a) : tenantVisible(t, e)
    /\ \E n \in {0} \union {e.seq : e \in Visible(t, a)} :
          /\ IsMaxSeq(n, Visible(t, a))
          /\ loaded' = [loaded EXCEPT ![t] = @ \union {[agg |-> a, version |-> n]}]
    /\ UNCHANGED <<pc, head, appended, cursor, queued, tables, pool>>

\* Mutant: every Append tags its rows with its own tenant.
ReadHeadOwnTenantMutant(t, a) ==
    /\ pc[t] = "body" /\ Len(appended[t]) < MaxEvents
    /\ \E n \in {0} \union {e.seq : e \in Visible(t, a)} :
          /\ IsMaxSeq(n, Visible(t, a))
          /\ head' = [head EXCEPT ![t] = [agg |-> a, next |-> n, tenant |-> TenantOf[t]]]
    /\ Goto(t, "insert")
    /\ UNCHANGED <<loaded, appended, cursor, queued, tables, pool>>

\* appendWithinTx, SELECT COALESCE(MAX(sequence), 0), MAX(tenant_id): the first
\* write of a stream tags it, the later ones keep the tag.
ReadHead(t, a) ==
    /\ pc[t] = "body" /\ Len(appended[t]) < MaxEvents
    /\ \E n \in {0} \union {e.seq : e \in Visible(t, a)}, tag \in Tenants :
          /\ IsMaxSeq(n, Visible(t, a))
          /\ IF n = 0 THEN tag = TenantOf[t] ELSE \E e \in Visible(t, a) : e.tenant = tag
          /\ head' = [head EXCEPT ![t] = [agg |-> a, next |-> n, tenant |-> tag]]
    /\ Goto(t, "insert")
    /\ UNCHANGED <<loaded, appended, cursor, queued, tables, pool>>

NextEvent(t, ty) == [agg |-> head[t].agg, seq |-> head[t].next + 1, type |-> ty,
                     tenant |-> head[t].tenant, by |-> t]
SameKey(e, f) == e.agg = f.agg /\ e.seq = f.seq

\* Mutant: no PRIMARY KEY.
InsertUnkeyedMutant(t, ty) ==
    /\ pc[t] = "insert" /\ Len(appended[t]) < MaxEvents
    /\ appended' = [appended EXCEPT ![t] = Append(@, NextEvent(t, ty))]
    /\ head' = [head EXCEPT ![t].next = @ + 1]
    /\ UNCHANGED <<pc, loaded, cursor, queued, tables, pool>>

\* appendWithinTx, one INSERT. It waits for another transaction's row of that key;
\* a committed one is a duplicate key: an error, so Run rolls back (Rollback).
Insert(t, ty) ==
    /\ pc[t] = "insert" /\ Len(appended[t]) < MaxEvents
    /\ \A e \in events : ~SameKey(e, NextEvent(t, ty))
    /\ \A u \in Txs \ {t} : \A e \in Entries(appended[u]) : ~SameKey(e, NextEvent(t, ty))
    /\ appended' = [appended EXCEPT ![t] = Append(@, NextEvent(t, ty))]
    /\ head' = [head EXCEPT ![t].next = @ + 1]
    /\ UNCHANGED <<pc, loaded, cursor, queued, tables, pool>>

\* Tx.Append returns to fn.
EndAppend(t) ==
    /\ pc[t] = "insert"
    /\ \E e \in Entries(appended[t]) : e.agg = head[t].agg /\ e.seq = head[t].next
    /\ Goto(t, "body")
    /\ head' = [head EXCEPT ![t] = NoHead]
    /\ UNCHANGED <<loaded, appended, cursor, queued, tables, pool>>

\* fn returns nil: Run goes on to the outbox.
EndBody(t) ==
    /\ pc[t] = "body"
    /\ Goto(t, "enqueue")
    /\ UNCHANGED <<loaded, head, appended, cursor, queued, tables, pool>>

ToOutbox(t, i) == appended[t][i].type \in outboxEventTypes

\* Mutant: the id is read before the counter moves.
NewRowStaleIdMutant(e) == [id |-> lastId, event |-> e, attempts |-> 0, delivered |-> FALSE]

NewRow(e) == [id |-> lastId + 1, event |-> e, attempts |-> 0, delivered |-> FALSE]

\* Mutants: rows enqueued out of append order; and outside the transaction.
EnqueueAnyOrderMutant(t) ==
    /\ pc[t] = "enqueue"
    /\ \E i \in 1..Len(appended[t]) :
          /\ ToOutbox(t, i)
          /\ \A row \in queued[t] : row.event # appended[t][i]
          /\ queued' = [queued EXCEPT ![t] = @ \union {NewRow(appended[t][i])}]
          /\ cursor' = [cursor EXCEPT ![t] =
                          IF Cardinality(queued'[t]) =
                             Cardinality({j \in 1..Len(appended[t]) : ToOutbox(t, j)})
                          THEN Len(appended[t]) ELSE @]
    /\ lastId' = lastId + 1
    /\ UNCHANGED <<pc, loaded, head, appended, events, outbox, pool>>
EnqueueOutsideMutant(t) ==
    /\ pc[t] = "enqueue"
    /\ \E i \in cursor[t] + 1 .. Len(appended[t]) :
          /\ ToOutbox(t, i)
          /\ \A j \in cursor[t] + 1 .. i - 1 : ~ToOutbox(t, j)
          /\ outbox' = outbox \union {NewRow(appended[t][i])}
          /\ cursor' = [cursor EXCEPT ![t] = i]
    /\ lastId' = lastId + 1
    /\ UNCHANGED <<pc, loaded, head, appended, queued, events, pool>>

\* Tx.EnqueueOutbox in the same transaction, one INSERT: the next appended event
\* that the channel carries.
EnqueueOutbox(t) ==
    /\ pc[t] = "enqueue"
    /\ \E i \in cursor[t] + 1 .. Len(appended[t]) :
          /\ ToOutbox(t, i)
          /\ \A j \in cursor[t] + 1 .. i - 1 : ~ToOutbox(t, j)
          /\ queued' = [queued EXCEPT ![t] = @ \union {NewRow(appended[t][i])}]
          /\ cursor' = [cursor EXCEPT ![t] = i]
    /\ lastId' = lastId + 1
    /\ UNCHANGED <<pc, loaded, head, appended, events, outbox, pool>>

\* Commit: both tables at once, and the connection goes back to the pool.
Commit(t) ==
    /\ pc[t] = "enqueue"
    /\ \A i \in cursor[t] + 1 .. Len(appended[t]) : ~ToOutbox(t, i)
    /\ events' = events \union Entries(appended[t])
    /\ outbox' = outbox \union queued[t]
    /\ Goto(t, "committed")
    /\ appended' = [appended EXCEPT ![t] = <<>>]
    /\ cursor' = [cursor EXCEPT ![t] = 0]
    /\ queued' = [queued EXCEPT ![t] = {}]
    /\ pool' = pool \ {t}
    /\ UNCHANGED <<loaded, head, lastId>>

-----------------------------------------------------------------------------
WriterStep(t) ==
    \/ Begin(t)
    \/ Rollback(t)
    \/ \E a \in Aggregates : Load(t, a)
    \/ \E a \in Aggregates : ReadHead(t, a)
    \/ \E ty \in Types : Insert(t, ty)
    \/ EndAppend(t)
    \/ EndBody(t)
    \/ EnqueueOutbox(t)
    \/ Commit(t)

WriterNext == \E t \in Txs : WriterStep(t)
WriterSpec == WriterInit /\ [][WriterNext]_writerVars

-----------------------------------------------------------------------------
(* Properties *)

Labels == {"idle", "body", "insert", "enqueue", "committed", "aborted"}

\* Every variable of the write side keeps its type.
WriterTypeOK ==
    /\ pc \in [Txs -> Labels]
    /\ loaded \in [Txs -> SUBSET [agg : Aggregates, version : Nat]]
    /\ head \in [Txs -> AppendHead \union {NoHead}]
    /\ appended \in [Txs -> Seq(Event)]
    /\ cursor \in [Txs -> Nat]
    /\ queued \in [Txs -> SUBSET Row]
    /\ events \subseteq Event
    /\ outbox \subseteq Row
    /\ lastId \in Nat

\* A committed stream holds one event per sequence number and no hole, although
\* Append reads MAX(sequence) in a statement of its own and any transaction may
\* commit or roll back before its INSERT.
StreamsAreGapFree ==
    /\ \A e, f \in events : SameKey(e, f) => e = f
    /\ \A e \in events : \A n \in 1 .. e.seq - 1 :
          \E f \in events : f.agg = e.agg /\ f.seq = n

\* "um stream nao muda de dono no meio da vida": every event of a stream has the
\* tenant tag of the first, even when calls of two tenants create it at once.
OneOwnerPerStream == \A e, f \in events : e.agg = f.agg => e.tenant = f.tenant

\* What the events table holds once its transactions are over: whole streams, each of
\* one tenant.
StreamsAreSound == WriterTypeOK /\ StreamsAreGapFree /\ OneOwnerPerStream

\* Within a stream, outbox ids follow sequence numbers: ids are drawn before the
\* commit, but the key on the stream orders the transactions that write it.
OutboxFollowsStream == \A r, s \in outbox :
    r.event.agg = s.event.agg /\ r.event.seq < s.event.seq => r.id < s.id

\* Stream and outbox are written or undone together: the table holds exactly one
\* row for each committed event the channel carries (before any purge).
OutboxMatchesStreams ==
    /\ {r.event : r \in outbox} = {e \in events : e.type \in outboxEventTypes}
    /\ \A r, s \in outbox : r.event = s.event \/ r.id = s.id => r = s

\* What the outbox table holds is what was committed, in the order of each stream.
OutboxIsSound == OutboxFollowsStream /\ OutboxMatchesStreams

\* The Aggregate is "a fronteira de consistencia" (decl_aggregate.go, emitted
\* comment): a decision taken on version n of a stream is recorded right after n.
DecisionsFollowTheirLoad == \A t \in Txs : \A l \in loaded[t] :
    \A e, f \in events :
        e.agg = l.agg /\ f.agg = l.agg /\ e.by = t /\ e.seq > l.version
        /\ l.version < f.seq /\ f.seq < e.seq => f.by = t
=============================================================================
