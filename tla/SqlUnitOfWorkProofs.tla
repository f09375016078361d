------------------------- MODULE SqlUnitOfWorkProofs -------------------------
(***************************************************************************)
(* Proofs about SqlUnitOfWork: whatever the number of transactions, of     *)
(* streams, of tenants and of connections, a committed stream has no hole, *)
(* no duplicate and one owner, and the outbox holds its carried events, in *)
(* its order.                                                              *)
(*                                                                         *)
(* The key to all of it is OneWriterPerStream: nothing locks a stream, yet *)
(* two transactions never hold uncommitted rows of one stream, because the *)
(* first row either would add has the same primary key.                    *)
(***************************************************************************)
EXTENDS SqlUnitOfWork, TLAPS

Mine(t) == Entries(appended[t])

\* A transaction that is not active holds nothing; the cursor moves in Run's last phase.
Housekeeping == \A t \in Txs :
    /\ ~Active(t) => appended[t] = <<>>
    /\ pc[t] # "enqueue" => cursor[t] = 0 /\ queued[t] = {}
    /\ cursor[t] <= Len(appended[t])
    /\ pc[t] = "insert" => head[t] \in AppendHead

\* Two transactions never hold uncommitted rows of one stream.
OneWriterPerStream == \A t, u \in Txs : t # u =>
    \A e \in Mine(t), f \in Mine(u) : e.agg # f.agg

\* Uncommitted rows come after the committed ones of their stream, and in order.
MineComeAfter == \A t \in Txs :
    /\ \A e \in events, f \in Mine(t) : e.agg = f.agg => e.seq < f.seq
    /\ \A i, j \in DOMAIN appended[t] :
          i < j /\ appended[t][i].agg = appended[t][j].agg
             => appended[t][i].seq < appended[t][j].seq

\* A stream as its writer sees it has no hole, up to where the Append stands.
Filled(S, a, n) == \A m \in 1..n : \E e \in S : e.agg = a /\ e.seq = m
CommittedFilled == \A e \in events : Filled(events, e.agg, e.seq)
MineFilled == \A t \in Txs : \A e \in Mine(t) : Filled(events \union Mine(t), e.agg, e.seq)
HeadFilled == \A t \in Txs : pc[t] = "insert" =>
    /\ Filled(events \union Mine(t), head[t].agg, head[t].next)
    /\ \A e \in Mine(t) : e.agg = head[t].agg => e.seq <= head[t].next

\* A stream has one owner as its writer sees it; an Append that found rows carries their tag.
MineOwned == \A t \in Txs : \A e \in Mine(t), f \in events \union Mine(t) :
    e.agg = f.agg => e.tenant = f.tenant
HeadOwned == \A t \in Txs : pc[t] = "insert" /\ head[t].next > 0 =>
    \A f \in events \union Mine(t) : f.agg = head[t].agg => f.tenant = head[t].tenant

KeysUnique == \A e, f \in events : SameKey(e, f) => e = f

StreamInv ==
    /\ WriterTypeOK
    /\ Housekeeping
    /\ OneWriterPerStream
    /\ MineComeAfter
    /\ CommittedFilled
    /\ MineFilled
    /\ HeadFilled
    /\ OneOwnerPerStream
    /\ MineOwned
    /\ HeadOwned
    /\ KeysUnique

\* Ids are drawn once, and grow along a stream in the rows a transaction holds and
\* from the committed rows to them.
IdsDrawn ==
    /\ \A r \in outbox : r.id <= lastId
    /\ \A t \in Txs : \A r \in queued[t] : r.id <= lastId
    /\ \A r, s \in outbox : r.id = s.id => r = s
    /\ \A t \in Txs : \A r \in outbox, s \in queued[t] : r.id # s.id
    /\ \A t, u \in Txs : \A r \in queued[t], s \in queued[u] : r.id = s.id => t = u /\ r = s
QueuedRows == \A t \in Txs :
    /\ \A r \in queued[t] : \E i \in 1..cursor[t] : r.event = appended[t][i] /\ ToOutbox(t, i)
    /\ \A i \in 1..cursor[t] : ToOutbox(t, i) => \E r \in queued[t] : r.event = appended[t][i]
    /\ \A r, s \in queued[t] : r.event = s.event => r = s
    /\ \A r, s \in queued[t] :
          r.event.agg = s.event.agg /\ r.event.seq < s.event.seq => r.id < s.id
QueuedComeAfter == \A t \in Txs : \A r \in outbox, s \in queued[t] :
    r.event.agg = s.event.agg => r.id < s.id
RowsOfEvents ==
    /\ \A r \in outbox : r.event \in events
    /\ \A r, s \in outbox : r.event = s.event => r = s

QueueInv ==
    /\ IdsDrawn
    /\ QueuedRows
    /\ QueuedComeAfter
    /\ RowsOfEvents
    /\ OutboxFollowsStream

WriterInv == StreamInv /\ QueueInv

-----------------------------------------------------------------------------
\* What Append does to the entries of a sequence.
LEMMA AppendEntries ==
    ASSUME NEW S, NEW s \in Seq(S), NEW e \in S
    PROVE  /\ Append(s, e) \in Seq(S)
           /\ Len(Append(s, e)) = Len(s) + 1
           /\ \A i \in 1..Len(s) : Append(s, e)[i] = s[i]
           /\ Append(s, e)[Len(s) + 1] = e
           /\ Entries(Append(s, e)) = Entries(s) \union {e}
<1>1. /\ Append(s, e) \in Seq(S)
      /\ Len(Append(s, e)) = Len(s) + 1
      /\ \A i \in 1..Len(s) : Append(s, e)[i] = s[i]
      /\ Append(s, e)[Len(s) + 1] = e
      /\ DOMAIN Append(s, e) = 1..Len(s) + 1
      /\ DOMAIN s = 1..Len(s) /\ Len(s) \in Nat
  OBVIOUS
<1>2. Entries(Append(s, e)) = Entries(s) \union {e}
  <2>1. ASSUME NEW x \in Entries(Append(s, e)) PROVE x \in Entries(s) \union {e}
    <3>1. PICK i \in 1..Len(s) + 1 : x = Append(s, e)[i]
      BY <1>1, <2>1 DEF Entries
    <3> QED BY <1>1, <3>1 DEF Entries
  <2>2. ASSUME NEW x \in Entries(s) PROVE x \in Entries(Append(s, e))
    <3>1. PICK i \in 1..Len(s) : x = s[i]
      BY <1>1, <2>2 DEF Entries
    <3>2. i \in 1..Len(s) + 1 /\ x = Append(s, e)[i]
      BY <1>1, <3>1
    <3> QED BY <1>1, <3>2 DEF Entries
  <2>3. e \in Entries(Append(s, e))
    <3>1. Len(s) + 1 \in 1..Len(s) + 1
      BY <1>1
    <3> QED BY <1>1, <3>1 DEF Entries
  <2> QED BY <2>1, <2>2, <2>3
<1> QED BY <1>1, <1>2

LEMMA EntriesTyped ==
    ASSUME NEW S, NEW s \in Seq(S)
    PROVE  /\ Entries(s) \subseteq S
           /\ DOMAIN s = 1..Len(s) /\ Len(s) \in Nat
  BY DEF Entries

LEMMA NoEntries == Entries(<<>>) = {} /\ <<>> \in Seq(Event) /\ Len(<<>>) = 0
  BY DEF Entries

\* The initial state satisfies the invariant.
LEMMA InitInv == WriterInit => WriterInv /\ OutboxMatchesStreams
<1> SUFFICES ASSUME WriterInit PROVE WriterInv /\ OutboxMatchesStreams
  OBVIOUS
<1>1. \A t \in Txs : Mine(t) = {} /\ appended[t] = <<>> /\ queued[t] = {} /\ pc[t] = "idle"
  BY NoEntries DEF WriterInit, Mine
<1>2. WriterTypeOK
  BY NoEntries DEF WriterInit, WriterTypeOK, Labels
<1>3. Housekeeping
  BY NoEntries DEF WriterInit, Housekeeping, Active
<1>4. /\ OneWriterPerStream /\ MineComeAfter /\ CommittedFilled /\ MineFilled /\ HeadFilled
      /\ OneOwnerPerStream /\ MineOwned /\ HeadOwned /\ KeysUnique
  BY <1>1 DEF WriterInit, OneWriterPerStream, MineComeAfter, CommittedFilled, MineFilled,
     HeadFilled, OneOwnerPerStream, MineOwned, HeadOwned, KeysUnique
<1>5. QueueInv
  BY <1>1 DEF WriterInit, QueueInv, IdsDrawn, QueuedRows, QueuedComeAfter, RowsOfEvents,
     OutboxFollowsStream
<1>6. OutboxMatchesStreams
  BY DEF WriterInit, OutboxMatchesStreams
<1> QED BY <1>2, <1>3, <1>4, <1>5, <1>6 DEF WriterInv, StreamInv

-----------------------------------------------------------------------------
\* An Append that moved on is still an Append of the same stream and tag.
LEMMA HeadMoves ==
    ASSUME NEW h \in AppendHead
    PROVE  LET moved == [h EXCEPT !.next = h.next + 1] IN
           /\ moved \in AppendHead
           /\ moved.next = h.next + 1 /\ moved.agg = h.agg /\ moved.tenant = h.tenant
  BY DEF AppendHead

\* Every step of a transaction keeps the types.
LEMMA TypeStep ==
    ASSUME WriterTypeOK, Housekeeping, NEW t \in Txs, WriterStep(t)
    PROVE  WriterTypeOK'
<1> USE DEF WriterTypeOK, Goto
<1>1. CASE Begin(t)
  BY <1>1 DEF Begin, tables, Labels
<1>2. CASE Rollback(t)
  BY <1>2, NoEntries DEF Rollback, tables, Labels
<1>3. ASSUME NEW a \in Aggregates, Load(t, a) PROVE WriterTypeOK'
  <2>1. PICK n \in {0} \union {e.seq : e \in Visible(t, a)} :
           /\ IsMaxSeq(n, Visible(t, a))
           /\ loaded' = [loaded EXCEPT ![t] = @ \union {[agg |-> a, version |-> n]}]
    BY <1>3 DEF Load
  <2>2. Visible(t, a) \subseteq Event
    BY EntriesTyped DEF Visible, Stream
  <2>3. n \in Nat
    BY <2>1, <2>2 DEF Event
  <2>4. loaded' \in [Txs -> SUBSET [agg : Aggregates, version : Nat]]
    BY <2>1, <2>3
  <2> QED BY <1>3, <2>4 DEF Load, tables
<1>4. ASSUME NEW a \in Aggregates, ReadHead(t, a) PROVE WriterTypeOK'
  <2>1. PICK n \in {0} \union {e.seq : e \in Visible(t, a)}, tag \in Tenants :
           head' = [head EXCEPT ![t] = [agg |-> a, next |-> n, tenant |-> tag]]
    BY <1>4 DEF ReadHead
  <2>2. Visible(t, a) \subseteq Event
    BY EntriesTyped DEF Visible, Stream
  <2>3. n \in Nat
    BY <2>1, <2>2 DEF Event
  <2>4. head' \in [Txs -> AppendHead \union {NoHead}]
    BY <2>1, <2>3 DEF AppendHead
  <2> QED BY <1>4, <2>4 DEF ReadHead, tables, Labels
<1>5. ASSUME NEW ty \in Types, Insert(t, ty) PROVE WriterTypeOK'
  <2>1. head[t] \in AppendHead
    BY <1>5 DEF Insert, Housekeeping
  <2>2. NextEvent(t, ty) \in Event
    BY <2>1 DEF NextEvent, Event, AppendHead
  <2>3. appended' \in [Txs -> Seq(Event)]
    BY <1>5, <2>2, AppendEntries DEF Insert
  <2>4. [head[t] EXCEPT !.next = head[t].next + 1] \in AppendHead
    BY <2>1, HeadMoves
  <2>5. head' \in [Txs -> AppendHead \union {NoHead}]
    BY <1>5, <2>4 DEF Insert
  <2> QED BY <1>5, <2>3, <2>5 DEF Insert, tables
<1>6. CASE EndAppend(t)
  BY <1>6 DEF EndAppend, tables, Labels
<1>7. CASE EndBody(t)
  BY <1>7 DEF EndBody, tables, Labels
<1>8. CASE EnqueueOutbox(t)
  <2>1. PICK i \in cursor[t] + 1 .. Len(appended[t]) :
           /\ queued' = [queued EXCEPT ![t] = @ \union {NewRow(appended[t][i])}]
           /\ cursor' = [cursor EXCEPT ![t] = i]
    BY <1>8 DEF EnqueueOutbox
  <2>2. i \in Nat /\ appended[t][i] \in Event
    BY <2>1, EntriesTyped
  <2>3. NewRow(appended[t][i]) \in Row
    BY <2>2 DEF NewRow, Row
  <2>4. queued' \in [Txs -> SUBSET Row] /\ cursor' \in [Txs -> Nat]
    BY <2>1, <2>2, <2>3
  <2> QED BY <1>8, <2>4 DEF EnqueueOutbox
<1>9. CASE Commit(t)
  <2>1. Entries(appended[t]) \subseteq Event
    BY EntriesTyped
  <2> QED BY <1>9, <2>1, NoEntries DEF Commit, Labels
<1> QED BY <1>1, <1>2, <1>3, <1>4, <1>5, <1>6, <1>7, <1>8, <1>9 DEF WriterStep

\* The facts about streams depend on the rows alone.
RowFacts ==
    /\ OneWriterPerStream /\ MineComeAfter /\ CommittedFilled /\ MineFilled
    /\ OneOwnerPerStream /\ MineOwned /\ KeysUnique

LEMMA RowFactsKept ==
    ASSUME RowFacts, UNCHANGED <<appended, events>>
    PROVE  RowFacts' /\ \A t \in Txs : Mine(t)' = Mine(t)
  BY DEF RowFacts, OneWriterPerStream, MineComeAfter, CommittedFilled, MineFilled,
     OneOwnerPerStream, MineOwned, KeysUnique, Mine, Filled, SameKey

\* An INSERT that the key lets through is the next one of the stream: nobody else
\* holds or has committed that sequence number or a later one.
LEMMA InsertIsNext ==
    ASSUME StreamInv, NEW t \in Txs, NEW ty \in Types, Insert(t, ty)
    PROVE  LET n == NextEvent(t, ty) IN
           /\ \A e \in events : e.agg = n.agg => e.seq < n.seq
           /\ \A e \in Mine(t) : e.agg = n.agg => e.seq < n.seq
           /\ \A u \in Txs \ {t} : \A e \in Mine(u) : e.agg # n.agg
           /\ \A e \in events \union Mine(t) : e.agg = n.agg => e.tenant = n.tenant
           /\ Filled(events \union Mine(t), n.agg, head[t].next)
           /\ n \in Event /\ n.seq = head[t].next + 1 /\ n.agg = head[t].agg
<1> DEFINE n == NextEvent(t, ty)
<1>1. head[t] \in AppendHead /\ pc[t] = "insert"
  BY DEF Insert, StreamInv, Housekeeping
<1>2. /\ n \in Event /\ n.seq = head[t].next + 1 /\ n.agg = head[t].agg
      /\ n.tenant = head[t].tenant /\ head[t].next \in Nat
  BY <1>1 DEF NextEvent, Event, AppendHead
<1>3. events \subseteq Event /\ \A u \in Txs : Mine(u) \subseteq Event
  BY EntriesTyped DEF StreamInv, WriterTypeOK, Mine
<1>4. Filled(events \union Mine(t), n.agg, head[t].next)
  BY <1>1, <1>2 DEF StreamInv, HeadFilled
<1>5. \A e \in events : e.agg = n.agg => e.seq < n.seq
  <2> SUFFICES ASSUME NEW e \in events, e.agg = n.agg, e.seq >= n.seq PROVE FALSE
    BY <1>2, <1>3 DEF Event
  <2>1. n.seq \in 1..e.seq
    BY <1>2, <1>3 DEF Event
  <2>2. PICK f \in events : f.agg = e.agg /\ f.seq = n.seq
    BY <2>1 DEF StreamInv, CommittedFilled, Filled
  <2> QED BY <2>2 DEF Insert, SameKey
<1>6. \A e \in Mine(t) : e.agg = n.agg => e.seq < n.seq
  <2> SUFFICES ASSUME NEW e \in Mine(t), e.agg = n.agg PROVE e.seq < n.seq
    OBVIOUS
  <2>1. e.seq <= head[t].next
    BY <1>1, <1>2 DEF StreamInv, HeadFilled
  <2> QED BY <2>1, <1>2, <1>3 DEF Event
<1>7. \A u \in Txs \ {t} : \A e \in Mine(u) : e.agg # n.agg
  <2> SUFFICES ASSUME NEW u \in Txs \ {t}, NEW f \in Mine(u), f.agg = n.agg PROVE FALSE
    OBVIOUS
  <2>1. \A e \in Mine(t) : e.agg # n.agg
    BY DEF StreamInv, OneWriterPerStream
  <2>2. \A m \in 1..head[t].next : \E e \in events : e.agg = n.agg /\ e.seq = m
    BY <1>4, <2>1 DEF Filled
  <2>3. f.seq > head[t].next
    <3> SUFFICES ASSUME f.seq <= head[t].next PROVE FALSE
      BY <1>2, <1>3 DEF Event
    <3>1. f.seq \in 1..head[t].next
      BY <1>2, <1>3 DEF Event
    <3>2. PICK e \in events : e.agg = n.agg /\ e.seq = f.seq
      BY <2>2, <3>1
    <3>3. e.seq < f.seq
      BY <3>2 DEF StreamInv, MineComeAfter
    <3> QED BY <3>2, <3>3, <1>3 DEF Event
  <2>4. n.seq \in 1..f.seq
    BY <2>3, <1>2, <1>3 DEF Event
  <2>5. PICK e \in events \union Mine(u) : e.agg = n.agg /\ e.seq = n.seq
    BY <2>4 DEF StreamInv, MineFilled, Filled
  <2> QED BY <2>5 DEF Insert, SameKey, Mine
<1>8. \A e \in events \union Mine(t) : e.agg = n.agg => e.tenant = n.tenant
  <2>1. CASE head[t].next > 0
    BY <2>1, <1>1, <1>2 DEF StreamInv, HeadOwned
  <2>2. CASE head[t].next = 0
    <3> SUFFICES ASSUME NEW e \in events \union Mine(t), e.agg = n.agg PROVE FALSE
      OBVIOUS
    <3>1. e.seq < 1
      BY <1>5, <1>6, <1>2, <2>2
    <3> QED BY <3>1, <1>3 DEF Event
  <2> QED BY <2>1, <2>2, <1>2
<1> QED BY <1>2, <1>4, <1>5, <1>6, <1>7, <1>8

LEMMA InsertStep ==
    ASSUME StreamInv, NEW t \in Txs, NEW ty \in Types, Insert(t, ty)
    PROVE  RowFacts' /\ HeadFilled' /\ HeadOwned' /\ Housekeeping'
<1> DEFINE n == NextEvent(t, ty)
           V == events \union Mine(t)
<1>1. /\ \A e \in events : e.agg = n.agg => e.seq < n.seq
      /\ \A e \in Mine(t) : e.agg = n.agg => e.seq < n.seq
      /\ \A u \in Txs \ {t} : \A e \in Mine(u) : e.agg # n.agg
      /\ \A e \in V : e.agg = n.agg => e.tenant = n.tenant
      /\ Filled(V, n.agg, head[t].next)
      /\ n \in Event /\ n.seq = head[t].next + 1 /\ n.agg = head[t].agg
  BY InsertIsNext
<1>2. /\ pc' = pc /\ events' = events /\ queued' = queued /\ cursor' = cursor
      /\ pc[t] = "insert" /\ head[t] \in AppendHead /\ head[t].next \in Nat
      /\ appended \in [Txs -> Seq(Event)] /\ cursor \in [Txs -> Nat]
  BY DEF Insert, tables, StreamInv, Housekeeping, WriterTypeOK, AppendHead
<1>3. /\ appended' = [appended EXCEPT ![t] = Append(appended[t], n)]
      /\ head' = [head EXCEPT ![t].next = head[t].next + 1]
  BY DEF Insert
<1>4. /\ Mine(t)' = Mine(t) \union {n}
      /\ \A u \in Txs \ {t} : Mine(u)' = Mine(u) /\ appended'[u] = appended[u]
      /\ appended'[t] = Append(appended[t], n)
      /\ Len(appended'[t]) = Len(appended[t]) + 1
      /\ \A i \in 1..Len(appended[t]) : appended'[t][i] = appended[t][i]
      /\ appended'[t][Len(appended[t]) + 1] = n
      /\ DOMAIN appended'[t] = 1..Len(appended[t]) + 1
  BY <1>1, <1>2, <1>3, AppendEntries DEF Mine
<1>5. /\ head[t]' \in AppendHead /\ head[t]'.next = head[t].next + 1
      /\ head[t]'.agg = head[t].agg /\ head[t]'.tenant = head[t].tenant
      /\ \A u \in Txs \ {t} : head[u]' = head[u]
  <2>1. head'[t] = [head[t] EXCEPT !.next = head[t].next + 1]
    BY <1>3 DEF StreamInv, WriterTypeOK
  <2>2. \A u \in Txs \ {t} : head'[u] = head[u]
    BY <1>3 DEF StreamInv, WriterTypeOK
  <2> QED BY <1>2, <2>1, <2>2, HeadMoves
<1>6. events \subseteq Event /\ \A u \in Txs : Mine(u) \subseteq Event
  BY EntriesTyped DEF StreamInv, WriterTypeOK, Mine
<1>7. Housekeeping'
  <2>1. ASSUME NEW u \in Txs \ {t} PROVE
          /\ ~Active(u)' => appended'[u] = <<>>
          /\ pc'[u] # "enqueue" => cursor'[u] = 0 /\ queued'[u] = {}
          /\ cursor'[u] <= Len(appended'[u])
          /\ pc'[u] = "insert" => head'[u] \in AppendHead
    BY <1>2, <1>4, <1>5 DEF StreamInv, Housekeeping, Active
  <2>2. /\ Active(t)' /\ pc'[t] # "enqueue" /\ cursor'[t] = 0 /\ queued'[t] = {}
    BY <1>2 DEF StreamInv, Housekeeping, Active
  <2>3. cursor'[t] <= Len(appended'[t]) /\ head'[t] \in AppendHead
    <3>1. Len(appended[t]) \in Nat
      BY <1>2
    <3> QED BY <1>4, <1>5, <2>2, <3>1
  <2> QED BY <2>1, <2>2, <2>3 DEF Housekeeping
<1>8. OneWriterPerStream'
  BY <1>1, <1>4 DEF StreamInv, OneWriterPerStream
<1>9. MineComeAfter'
  <2>1. \A u \in Txs : \A e \in events', f \in Mine(u)' : e.agg = f.agg => e.seq < f.seq
    BY <1>1, <1>2, <1>4 DEF StreamInv, MineComeAfter
  <2>2. ASSUME NEW i \in DOMAIN appended'[t], NEW j \in DOMAIN appended'[t], i < j,
               appended'[t][i].agg = appended'[t][j].agg
        PROVE  appended'[t][i].seq < appended'[t][j].seq
    <3>1. Len(appended[t]) \in Nat /\ DOMAIN appended[t] = 1..Len(appended[t])
      BY <1>2
    <3>2. i \in 1..Len(appended[t]) /\ appended'[t][i] = appended[t][i] /\ appended[t][i] \in Mine(t)
      BY <1>4, <2>2, <3>1 DEF Mine, Entries
    <3>3. CASE j \in 1..Len(appended[t])
      BY <1>4, <2>2, <3>1, <3>2, <3>3 DEF StreamInv, MineComeAfter
    <3>4. CASE j = Len(appended[t]) + 1
      BY <1>1, <1>4, <2>2, <3>2, <3>4
    <3> QED BY <1>4, <3>1, <3>3, <3>4
  <2>3. ASSUME NEW u \in Txs \ {t}, NEW i \in DOMAIN appended'[u], NEW j \in DOMAIN appended'[u],
               i < j, appended'[u][i].agg = appended'[u][j].agg
        PROVE  appended'[u][i].seq < appended'[u][j].seq
    BY <1>4, <2>3 DEF StreamInv, MineComeAfter
  <2> QED BY <2>1, <2>2, <2>3 DEF MineComeAfter
<1>10. CommittedFilled'
  BY <1>2 DEF StreamInv, CommittedFilled, Filled
<1>11. Filled(V \union {n}, n.agg, head[t].next + 1)
  <2> SUFFICES ASSUME NEW m \in 1..head[t].next + 1
               PROVE  \E e \in V \union {n} : e.agg = n.agg /\ e.seq = m
    BY DEF Filled
  <2>0. head[t].next \in Nat
    BY <1>2
  <2>1. CASE m \in 1..head[t].next
    BY <1>1, <2>1 DEF Filled
  <2>2. CASE m = head[t].next + 1
    BY <1>1, <2>2
  <2> QED BY <2>0, <2>1, <2>2
<1>12. (events \union Mine(t))' = V \union {n}
  BY <1>2, <1>4
<1>13. MineFilled'
  <2>1. ASSUME NEW e \in Mine(t)' PROVE Filled((events \union Mine(t))', e.agg, e.seq)
    <3>1. CASE e = n
      BY <1>1, <1>11, <1>12, <3>1
    <3>2. CASE e \in Mine(t)
      BY <1>12, <3>2 DEF StreamInv, MineFilled, Filled
    <3> QED BY <1>4, <2>1, <3>1, <3>2
  <2>2. ASSUME NEW u \in Txs \ {t}, NEW e \in Mine(u)'
        PROVE  Filled((events \union Mine(u))', e.agg, e.seq)
    BY <1>2, <1>4, <2>2 DEF StreamInv, MineFilled
  <2> QED BY <2>1, <2>2 DEF MineFilled
<1>14. HeadFilled'
  <2>1. /\ Filled((events \union Mine(t))', head[t]'.agg, head[t]'.next)
        /\ \A e \in Mine(t)' : e.agg = head[t]'.agg => e.seq <= head[t]'.next
    <3>1. Filled((events \union Mine(t))', head[t]'.agg, head[t]'.next)
      BY <1>1, <1>5, <1>11, <1>12
    <3>2. ASSUME NEW e \in Mine(t)', e.agg = head[t]'.agg PROVE e.seq <= head[t]'.next
      <4>1. CASE e = n
        BY <1>1, <1>2, <1>5, <4>1
      <4>2. CASE e \in Mine(t)
        <5>1. e.seq <= head[t].next /\ e.seq \in Nat
          BY <1>2, <1>5, <1>6, <3>2, <4>2 DEF StreamInv, HeadFilled, Event
        <5> QED BY <1>2, <1>5, <5>1
      <4> QED BY <1>4, <3>2, <4>1, <4>2
    <3> QED BY <3>1, <3>2
  <2>2. ASSUME NEW u \in Txs \ {t}, pc'[u] = "insert"
        PROVE  /\ Filled((events \union Mine(u))', head[u]'.agg, head[u]'.next)
               /\ \A e \in Mine(u)' : e.agg = head[u]'.agg => e.seq <= head[u]'.next
    BY <1>2, <1>4, <1>5, <2>2 DEF StreamInv, HeadFilled
  <2> QED BY <2>1, <2>2 DEF HeadFilled
<1>15. OneOwnerPerStream' /\ KeysUnique'
  BY <1>2 DEF StreamInv, OneOwnerPerStream, KeysUnique, SameKey
<1>16. MineOwned'
  <2>1. \A e \in Mine(t)', f \in (events \union Mine(t))' : e.agg = f.agg => e.tenant = f.tenant
    BY <1>1, <1>4, <1>12 DEF StreamInv, MineOwned
  <2>2. ASSUME NEW u \in Txs \ {t}
        PROVE \A e \in Mine(u)', f \in (events \union Mine(u))' : e.agg = f.agg => e.tenant = f.tenant
    BY <1>2, <1>4 DEF StreamInv, MineOwned
  <2> QED BY <2>1, <2>2 DEF MineOwned
<1>17. HeadOwned'
  <2>1. \A f \in (events \union Mine(t))' : f.agg = head[t]'.agg => f.tenant = head[t]'.tenant
    <3>1. n.tenant = head[t].tenant
      BY DEF NextEvent
    <3> QED BY <1>1, <1>5, <1>12, <3>1
  <2>2. ASSUME NEW u \in Txs \ {t}, pc'[u] = "insert", head[u]'.next > 0
        PROVE \A f \in (events \union Mine(u))' : f.agg = head[u]'.agg => f.tenant = head[u]'.tenant
    <3>1. head'[u] = head[u] /\ pc[u] = "insert" /\ head[u].next > 0 /\ Mine(u)' = Mine(u)
      BY <1>2, <1>4, <1>5, <2>2
    <3>2. \A f \in events \union Mine(u) : f.agg = head[u].agg => f.tenant = head[u].tenant
      BY <3>1 DEF StreamInv, HeadOwned
    <3> QED BY <1>2, <3>1, <3>2
  <2> QED BY <2>1, <2>2 DEF HeadOwned
<1> QED BY <1>7, <1>8, <1>9, <1>10, <1>13, <1>14, <1>15, <1>16, <1>17 DEF RowFacts

StreamGoal == RowFacts /\ HeadFilled /\ HeadOwned /\ Housekeeping

\* Steps that leave the rows alone and start no Append.
LEMMA QuietStep ==
    ASSUME StreamInv, NEW t \in Txs,
           Begin(t) \/ (\E a \in Aggregates : Load(t, a)) \/ EndAppend(t) \/ EndBody(t) \/ EnqueueOutbox(t)
    PROVE  StreamGoal'
<1>1. UNCHANGED <<appended, events>>
  BY DEF Begin, Load, EndAppend, EndBody, EnqueueOutbox, tables
<1>2. RowFacts' /\ \A u \in Txs : Mine(u)' = Mine(u)
  BY <1>1, RowFactsKept DEF StreamInv, RowFacts
<1>3. \A u \in Txs : pc'[u] = "insert" => pc[u] = "insert" /\ head'[u] = head[u]
  BY DEF Begin, Load, EndAppend, EndBody, EnqueueOutbox, tables, Goto, StreamInv, WriterTypeOK
<1>4. HeadFilled'
  <2> SUFFICES ASSUME NEW u \in Txs, pc'[u] = "insert"
               PROVE  /\ Filled((events \union Mine(u))', head'[u].agg, head'[u].next)
                      /\ \A e \in Mine(u)' : e.agg = head'[u].agg => e.seq <= head'[u].next
    BY DEF HeadFilled
  <2> QED BY <1>1, <1>2, <1>3 DEF StreamInv, HeadFilled
<1>5. HeadOwned'
  <2> SUFFICES ASSUME NEW u \in Txs, pc'[u] = "insert", head'[u].next > 0
               PROVE  \A f \in (events \union Mine(u))' : f.agg = head'[u].agg => f.tenant = head'[u].tenant
    BY DEF HeadOwned
  <2> QED BY <1>1, <1>2, <1>3 DEF StreamInv, HeadOwned
<1>6. Housekeeping'
  <2>1. ASSUME NEW u \in Txs PROVE ~Active(u)' => appended'[u] = <<>>
    BY <1>1 DEF Begin, Load, EndAppend, EndBody, EnqueueOutbox, Goto, StreamInv, Housekeeping,
       Active, WriterTypeOK
  <2>2. ASSUME NEW u \in Txs PROVE pc'[u] # "enqueue" => cursor'[u] = 0 /\ queued'[u] = {}
    BY DEF Begin, Load, EndAppend, EndBody, EnqueueOutbox, Goto, StreamInv, Housekeeping,
       WriterTypeOK
  <2>3. ASSUME NEW u \in Txs PROVE cursor'[u] <= Len(appended'[u])
    <3>1. CASE EnqueueOutbox(t)
      BY <1>1, <3>1 DEF EnqueueOutbox, StreamInv, Housekeeping, WriterTypeOK
    <3>2. CASE ~EnqueueOutbox(t)
      BY <1>1, <3>2 DEF Begin, Load, EndAppend, EndBody, StreamInv, Housekeeping, WriterTypeOK
    <3> QED BY <3>1, <3>2
  <2>4. ASSUME NEW u \in Txs PROVE pc'[u] = "insert" => head'[u] \in AppendHead
    BY <1>3 DEF StreamInv, Housekeeping
  <2> QED BY <2>1, <2>2, <2>3, <2>4 DEF Housekeeping
<1> QED BY <1>2, <1>4, <1>5, <1>6 DEF StreamGoal

LEMMA ReadHeadStep ==
    ASSUME StreamInv, NEW t \in Txs, NEW a \in Aggregates, ReadHead(t, a)
    PROVE  StreamGoal'
<1>1. UNCHANGED <<appended, events>> /\ cursor' = cursor /\ queued' = queued
  BY DEF ReadHead, tables
<1>2. RowFacts' /\ \A u \in Txs : Mine(u)' = Mine(u)
  BY <1>1, RowFactsKept DEF StreamInv, RowFacts
<1> DEFINE V == events \union Mine(t)
<1>3. V \subseteq Event /\ Visible(t, a) = {e \in V : e.agg = a}
  BY EntriesTyped DEF StreamInv, WriterTypeOK, Mine, Visible, Stream
<1>4. PICK n \in {0} \union {e.seq : e \in Visible(t, a)}, tag \in Tenants :
         /\ IsMaxSeq(n, Visible(t, a))
         /\ IF n = 0 THEN tag = TenantOf[t] ELSE \E e \in Visible(t, a) : e.tenant = tag
         /\ head' = [head EXCEPT ![t] = [agg |-> a, next |-> n, tenant |-> tag]]
  BY DEF ReadHead
<1>5. /\ head'[t] = [agg |-> a, next |-> n, tenant |-> tag]
      /\ \A u \in Txs \ {t} : head'[u] = head[u] /\ pc'[u] = pc[u]
      /\ pc[t] = "body" /\ pc'[t] = "insert" /\ n \in Nat
  BY <1>3, <1>4 DEF ReadHead, Goto, StreamInv, WriterTypeOK, Event
<1>6. Filled(V, a, n)
  <2>1. CASE n = 0
    BY <2>1 DEF Filled
  <2>2. CASE n # 0
    <3>1. PICK e \in V : e.agg = a /\ e.seq = n
      BY <1>3, <1>4, <2>2 DEF IsMaxSeq
    <3>2. CASE e \in events
      BY <3>1, <3>2 DEF StreamInv, CommittedFilled, Filled
    <3>3. CASE e \in Mine(t)
      BY <3>1, <3>3 DEF StreamInv, MineFilled
    <3> QED BY <3>1, <3>2, <3>3
  <2> QED BY <2>1, <2>2
<1>7. \A e \in Mine(t) : e.agg = a => e.seq <= n
  BY <1>3, <1>4 DEF IsMaxSeq
<1>8. n > 0 => \A f \in V : f.agg = a => f.tenant = tag
  <2> SUFFICES ASSUME n > 0, NEW f \in V, f.agg = a PROVE f.tenant = tag
    OBVIOUS
  <2>1. PICK e \in V : e.agg = a /\ e.tenant = tag
    BY <1>3, <1>4, <1>5
  <2> QED BY <2>1 DEF StreamInv, OneOwnerPerStream, MineOwned
<1>9. HeadFilled'
  <2>1. ASSUME NEW u \in Txs \ {t}, pc'[u] = "insert"
        PROVE  /\ Filled((events \union Mine(u))', head'[u].agg, head'[u].next)
               /\ \A e \in Mine(u)' : e.agg = head'[u].agg => e.seq <= head'[u].next
    BY <1>1, <1>2, <1>5, <2>1 DEF StreamInv, HeadFilled
  <2>2. /\ Filled((events \union Mine(t))', head'[t].agg, head'[t].next)
        /\ \A e \in Mine(t)' : e.agg = head'[t].agg => e.seq <= head'[t].next
    <3>1. head'[t].agg = a /\ head'[t].next = n /\ (events \union Mine(t))' = V
      BY <1>1, <1>2, <1>5
    <3>2. Mine(t)' = Mine(t)
      BY <1>2
    <3> QED BY <1>6, <1>7, <3>1, <3>2
  <2> QED BY <2>1, <2>2 DEF HeadFilled
<1>10. HeadOwned'
  <2>1. ASSUME NEW u \in Txs \ {t}, pc'[u] = "insert", head'[u].next > 0
        PROVE  \A f \in (events \union Mine(u))' : f.agg = head'[u].agg => f.tenant = head'[u].tenant
    BY <1>1, <1>2, <1>5, <2>1 DEF StreamInv, HeadOwned
  <2>2. head'[t].next > 0 =>
           \A f \in (events \union Mine(t))' : f.agg = head'[t].agg => f.tenant = head'[t].tenant
    BY <1>1, <1>2, <1>5, <1>8
  <2> QED BY <2>1, <2>2 DEF HeadOwned
<1>11. Housekeeping'
  <2>1. ASSUME NEW u \in Txs PROVE pc'[u] = "insert" => head'[u] \in AppendHead
    BY <1>5 DEF StreamInv, Housekeeping, AppendHead
  <2> QED BY <1>1, <1>5, <2>1 DEF StreamInv, Housekeeping, Active
<1> QED BY <1>2, <1>9, <1>10, <1>11 DEF StreamGoal

\* Forgetting a transaction's rows disturbs nobody: no other transaction counted on them.
LEMMA RollbackStep ==
    ASSUME StreamInv, NEW t \in Txs, Rollback(t)
    PROVE  StreamGoal'
<1>1. /\ events' = events /\ Mine(t)' = {} /\ appended'[t] = <<>>
      /\ cursor'[t] = 0 /\ queued'[t] = {} /\ pc'[t] = "aborted"
      /\ \A u \in Txs \ {t} : /\ Mine(u)' = Mine(u) /\ appended'[u] = appended[u]
                             /\ pc'[u] = pc[u] /\ head'[u] = head[u]
                             /\ cursor'[u] = cursor[u] /\ queued'[u] = queued[u]
  BY NoEntries DEF Rollback, tables, Goto, Mine, StreamInv, WriterTypeOK
<1>2. RowFacts'
  <2>1. OneWriterPerStream'
    BY <1>1 DEF StreamInv, OneWriterPerStream
  <2>2. MineComeAfter'
    <3>1. \A u \in Txs : \A e \in events', f \in Mine(u)' : e.agg = f.agg => e.seq < f.seq
      BY <1>1 DEF StreamInv, MineComeAfter
    <3>2. DOMAIN appended'[t] = {}
      BY <1>1
    <3>3. ASSUME NEW u \in Txs, NEW i \in DOMAIN appended'[u], NEW j \in DOMAIN appended'[u],
                 i < j, appended'[u][i].agg = appended'[u][j].agg
          PROVE  appended'[u][i].seq < appended'[u][j].seq
      BY <1>1, <3>2, <3>3 DEF StreamInv, MineComeAfter
    <3> QED BY <3>1, <3>3 DEF MineComeAfter
  <2>3. CommittedFilled' /\ OneOwnerPerStream' /\ KeysUnique'
    BY <1>1 DEF StreamInv, CommittedFilled, OneOwnerPerStream, KeysUnique, SameKey, Filled
  <2>4. MineFilled'
    BY <1>1 DEF StreamInv, MineFilled
  <2>5. MineOwned'
    BY <1>1 DEF StreamInv, MineOwned
  <2> QED BY <2>1, <2>2, <2>3, <2>4, <2>5 DEF RowFacts
<1>3. HeadFilled'
  BY <1>1 DEF StreamInv, HeadFilled
<1>4. HeadOwned'
  BY <1>1 DEF StreamInv, HeadOwned
<1>5. Housekeeping'
  <2>1. cursor'[t] <= Len(appended'[t])
    BY <1>1, NoEntries
  <2> QED BY <1>1, <2>1 DEF StreamInv, Housekeeping, Active
<1> QED BY <1>2, <1>3, <1>4, <1>5 DEF StreamGoal

LEMMA FilledGrows ==
    ASSUME NEW S, NEW T, S \subseteq T, NEW a, NEW n, Filled(S, a, n)
    PROVE  Filled(T, a, n)
  BY DEF Filled

\* Committing turns a transaction's rows into the end of their streams.
LEMMA CommitStep ==
    ASSUME StreamInv, NEW t \in Txs, Commit(t)
    PROVE  StreamGoal'
<1>1. /\ events' = events \union Mine(t) /\ Mine(t)' = {} /\ appended'[t] = <<>>
      /\ cursor'[t] = 0 /\ queued'[t] = {} /\ pc'[t] = "committed"
      /\ \A u \in Txs \ {t} : /\ Mine(u)' = Mine(u) /\ appended'[u] = appended[u]
                             /\ pc'[u] = pc[u] /\ head'[u] = head[u]
                             /\ cursor'[u] = cursor[u] /\ queued'[u] = queued[u]
  BY NoEntries DEF Commit, Goto, Mine, StreamInv, WriterTypeOK
<1>2. events \subseteq Event /\ \A u \in Txs : Mine(u) \subseteq Event
  BY EntriesTyped DEF StreamInv, WriterTypeOK, Mine
<1>3. \A u \in Txs \ {t} : \A e \in Mine(t), f \in Mine(u) : e.agg # f.agg
  BY DEF StreamInv, OneWriterPerStream
<1>4. OneWriterPerStream'
  BY <1>1 DEF StreamInv, OneWriterPerStream
<1>5. MineComeAfter'
  <2>1. \A u \in Txs : \A e \in events', f \in Mine(u)' : e.agg = f.agg => e.seq < f.seq
    BY <1>1, <1>3 DEF StreamInv, MineComeAfter
  <2>2. DOMAIN appended'[t] = {}
    BY <1>1
  <2>3. ASSUME NEW u \in Txs, NEW i \in DOMAIN appended'[u], NEW j \in DOMAIN appended'[u],
               i < j, appended'[u][i].agg = appended'[u][j].agg
        PROVE  appended'[u][i].seq < appended'[u][j].seq
    BY <1>1, <2>2, <2>3 DEF StreamInv, MineComeAfter
  <2> QED BY <2>1, <2>3 DEF MineComeAfter
<1>6. CommittedFilled'
  <2> SUFFICES ASSUME NEW e \in events' PROVE Filled(events', e.agg, e.seq)
    BY DEF CommittedFilled
  <2>1. CASE e \in events
    BY <1>1, <2>1, FilledGrows DEF StreamInv, CommittedFilled
  <2>2. CASE e \in Mine(t)
    BY <1>1, <2>2 DEF StreamInv, MineFilled
  <2> QED BY <1>1, <2>1, <2>2
<1>7. MineFilled'
  <2> SUFFICES ASSUME NEW u \in Txs, NEW e \in Mine(u)' PROVE Filled((events \union Mine(u))', e.agg, e.seq)
    BY DEF MineFilled
  <2>1. u \in Txs \ {t} /\ e \in Mine(u) /\ Mine(u)' = Mine(u)
    BY <1>1
  <2>2. Filled(events \union Mine(u), e.agg, e.seq)
    BY <2>1 DEF StreamInv, MineFilled
  <2>3. events \union Mine(u) \subseteq (events \union Mine(u))'
    BY <1>1, <2>1
  <2> QED BY <2>2, <2>3, FilledGrows
<1>8. OneOwnerPerStream'
  BY <1>1 DEF StreamInv, OneOwnerPerStream, MineOwned
<1>9. MineOwned'
  BY <1>1, <1>3 DEF StreamInv, MineOwned
<1>10. KeysUnique'
  <2> SUFFICES ASSUME NEW e \in events', NEW f \in events', SameKey(e, f) PROVE e = f
    BY DEF KeysUnique, SameKey
  <2>1. CASE e \in events /\ f \in events
    BY <2>1 DEF StreamInv, KeysUnique
  <2>2. CASE e \in events /\ f \in Mine(t)
    BY <1>2, <2>2 DEF StreamInv, MineComeAfter, SameKey, Event
  <2>3. CASE e \in Mine(t) /\ f \in events
    BY <1>2, <2>3 DEF StreamInv, MineComeAfter, SameKey, Event
  <2>4. CASE e \in Mine(t) /\ f \in Mine(t)
    <3>1. PICK i \in DOMAIN appended[t], j \in DOMAIN appended[t] : e = appended[t][i] /\ f = appended[t][j]
      BY <2>4 DEF Mine, Entries
    <3>2. i \in Nat /\ j \in Nat
      BY EntriesTyped DEF StreamInv, WriterTypeOK
    <3>3. ~(i < j) /\ ~(j < i)
      BY <1>2, <2>4, <3>1 DEF StreamInv, MineComeAfter, SameKey, Event
    <3> QED BY <3>1, <3>2, <3>3
  <2> QED BY <1>1, <2>1, <2>2, <2>3, <2>4
<1>11. HeadFilled'
  <2> SUFFICES ASSUME NEW u \in Txs, pc'[u] = "insert"
               PROVE  /\ Filled((events \union Mine(u))', head'[u].agg, head'[u].next)
                      /\ \A e \in Mine(u)' : e.agg = head'[u].agg => e.seq <= head'[u].next
    BY DEF HeadFilled
  <2>1. u \in Txs \ {t} /\ pc[u] = "insert" /\ head'[u] = head[u] /\ Mine(u)' = Mine(u)
    BY <1>1
  <2>2. /\ Filled(events \union Mine(u), head[u].agg, head[u].next)
        /\ \A e \in Mine(u) : e.agg = head[u].agg => e.seq <= head[u].next
    BY <2>1 DEF StreamInv, HeadFilled
  <2>3. events \union Mine(u) \subseteq (events \union Mine(u))'
    BY <1>1, <2>1
  <2> QED BY <2>1, <2>2, <2>3, FilledGrows
<1>12. HeadOwned'
  <2> SUFFICES ASSUME NEW u \in Txs, pc'[u] = "insert", head'[u].next > 0,
                      NEW f \in (events \union Mine(u))', f.agg = head'[u].agg
               PROVE  f.tenant = head'[u].tenant
    BY DEF HeadOwned
  <2>1. u \in Txs \ {t} /\ pc[u] = "insert" /\ head'[u] = head[u] /\ Mine(u)' = Mine(u)
    BY <1>1
  <2>2. \A g \in events \union Mine(u) : g.agg = head[u].agg => g.tenant = head[u].tenant
    BY <2>1 DEF StreamInv, HeadOwned
  <2>3. CASE f \in Mine(t)
    <3>1. head[u].next \in Nat /\ 1 \in 1..head[u].next
      BY <2>1 DEF StreamInv, Housekeeping, AppendHead
    <3>2. PICK g \in events \union Mine(u) : g.agg = head[u].agg
      BY <2>1, <3>1 DEF StreamInv, HeadFilled, Filled
    <3>3. g \in events
      BY <1>3, <2>1, <2>3, <3>2
    <3>4. f.tenant = g.tenant
      BY <2>1, <2>3, <3>2, <3>3 DEF StreamInv, MineOwned
    <3> QED BY <2>1, <2>2, <3>2, <3>4
  <2> QED BY <1>1, <2>1, <2>2, <2>3
<1>13. Housekeeping'
  <2>1. cursor'[t] <= Len(appended'[t])
    BY <1>1, NoEntries
  <2> QED BY <1>1, <2>1 DEF StreamInv, Housekeeping, Active
<1> QED BY <1>4, <1>5, <1>6, <1>7, <1>8, <1>9, <1>10, <1>11, <1>12, <1>13 DEF StreamGoal, RowFacts

\* StreamInv is preserved by every step of a transaction.
LEMMA StreamStep ==
    ASSUME StreamInv, NEW t \in Txs, WriterStep(t)
    PROVE  StreamInv'
<1>1. WriterTypeOK'
  BY TypeStep DEF StreamInv
<1>2. StreamGoal'
  <2>1. CASE \E ty \in Types : Insert(t, ty)
    BY <2>1, InsertStep DEF StreamGoal
  <2>2. CASE \E a \in Aggregates : ReadHead(t, a)
    BY <2>2, ReadHeadStep
  <2> QED BY <2>1, <2>2, QuietStep, RollbackStep, CommitStep DEF WriterStep
<1> QED BY <1>1, <1>2 DEF StreamInv, StreamGoal, RowFacts

-----------------------------------------------------------------------------
QueueVars == <<appended, cursor, queued, events, outbox, lastId>>

LEMMA QueueKept ==
    ASSUME QueueInv, UNCHANGED QueueVars
    PROVE  QueueInv'
  BY DEF QueueVars, QueueInv, IdsDrawn, QueuedRows, QueuedComeAfter, RowsOfEvents,
     OutboxFollowsStream, ToOutbox, outboxEventTypes

\* The rows a transaction enqueued are those of events it appended.
LEMMA QueuedAreMine ==
    ASSUME WriterInv, NEW t \in Txs
    PROVE  /\ \A r \in queued[t] : r.event \in Mine(t) /\ r.event.type \in outboxEventTypes
           /\ Mine(t) \subseteq Event /\ DOMAIN appended[t] = 1..Len(appended[t])
           /\ Len(appended[t]) \in Nat /\ cursor[t] \in Nat /\ cursor[t] <= Len(appended[t])
<1>1. /\ appended[t] \in Seq(Event) /\ cursor[t] \in Nat /\ cursor[t] <= Len(appended[t])
  BY DEF WriterInv, StreamInv, WriterTypeOK, Housekeeping
<1>2. /\ Mine(t) \subseteq Event /\ DOMAIN appended[t] = 1..Len(appended[t])
      /\ Len(appended[t]) \in Nat
  BY <1>1, EntriesTyped DEF Mine
<1>3. ASSUME NEW r \in queued[t]
      PROVE  r.event \in Mine(t) /\ r.event.type \in outboxEventTypes
  <2>1. PICK i \in 1..cursor[t] : r.event = appended[t][i] /\ ToOutbox(t, i)
    BY DEF WriterInv, QueueInv, QueuedRows
  <2>2. i \in DOMAIN appended[t]
    BY <1>1, <1>2
  <2> QED BY <2>1, <2>2 DEF Mine, Entries, ToOutbox
<1> QED BY <1>1, <1>2, <1>3

LEMMA EnqueueStep ==
    ASSUME WriterInv, NEW t \in Txs, EnqueueOutbox(t)
    PROVE  QueueInv'
<1>1. PICK i \in cursor[t] + 1 .. Len(appended[t]) :
         /\ ToOutbox(t, i)
         /\ \A j \in cursor[t] + 1 .. i - 1 : ~ToOutbox(t, j)
         /\ queued' = [queued EXCEPT ![t] = @ \union {NewRow(appended[t][i])}]
         /\ cursor' = [cursor EXCEPT ![t] = i]
  BY DEF EnqueueOutbox
<1> DEFINE new == NewRow(appended[t][i])
<1>2. /\ lastId' = lastId + 1 /\ lastId \in Nat
      /\ appended' = appended /\ events' = events /\ outbox' = outbox
      /\ outbox \subseteq Row /\ \A u \in Txs : queued[u] \subseteq Row
      /\ queued'[t] = queued[t] \union {new} /\ cursor'[t] = i
      /\ \A u \in Txs \ {t} : queued'[u] = queued[u] /\ cursor'[u] = cursor[u]
  BY <1>1 DEF EnqueueOutbox, WriterInv, StreamInv, WriterTypeOK
<1>3. new.id = lastId + 1 /\ new.event = appended[t][i]
  BY DEF NewRow
<1>4. /\ \A r \in outbox : r.id \in Nat /\ r.id <= lastId
      /\ \A u \in Txs : \A r \in queued[u] : r.id \in Nat /\ r.id <= lastId
  BY <1>2 DEF Row, WriterInv, QueueInv, IdsDrawn
<1>5. /\ DOMAIN appended[t] = 1..Len(appended[t]) /\ Len(appended[t]) \in Nat
      /\ cursor[t] \in Nat /\ i \in 1..Len(appended[t]) /\ i \in Nat
  BY QueuedAreMine
<1>6. ASSUME NEW j \in 1..cursor[t], appended[t][j].agg = appended[t][i].agg
      PROVE  ~(appended[t][i].seq < appended[t][j].seq) /\ appended[t][i] # appended[t][j]
  <2>1. j \in DOMAIN appended[t] /\ i \in DOMAIN appended[t] /\ j < i
    BY <1>1, <1>5
  <2>2. appended[t][j].seq < appended[t][i].seq
    BY <1>6, <2>1 DEF WriterInv, StreamInv, MineComeAfter
  <2>3. appended[t][j] \in Event /\ appended[t][i] \in Event
    BY <2>1, QueuedAreMine DEF Mine, Entries
  <2> QED BY <2>2, <2>3 DEF Event
<1>7. ASSUME NEW r \in queued[t], r.event.agg = new.event.agg
      PROVE  ~(new.event.seq < r.event.seq) /\ r.event # new.event
  <2>1. PICK j \in 1..cursor[t] : r.event = appended[t][j]
    BY DEF WriterInv, QueueInv, QueuedRows
  <2> QED BY <1>3, <1>6, <1>7, <2>1
<1>8. IdsDrawn'
  <2>1. /\ \A r \in outbox' : r.id <= lastId'
        /\ \A u \in Txs : \A r \in queued'[u] : r.id <= lastId'
        /\ \A r, s \in outbox' : r.id = s.id => r = s
    BY <1>2, <1>3, <1>4 DEF WriterInv, QueueInv, IdsDrawn
  <2>2. \A u \in Txs : \A r \in outbox', s \in queued'[u] : r.id # s.id
    BY <1>2, <1>3, <1>4 DEF WriterInv, QueueInv, IdsDrawn
  <2>3. \A u, v \in Txs : \A r \in queued'[u], s \in queued'[v] : r.id = s.id => u = v /\ r = s
    BY <1>2, <1>3, <1>4 DEF WriterInv, QueueInv, IdsDrawn
  <2> QED BY <2>1, <2>2, <2>3 DEF IdsDrawn
<1>9. QueuedRows'
  <2>1. \A r \in queued'[t] : \E j \in 1..i : r.event = appended[t][j] /\ ToOutbox(t, j)
    <3> SUFFICES ASSUME NEW r \in queued'[t]
                 PROVE  \E j \in 1..i : r.event = appended[t][j] /\ ToOutbox(t, j)
      OBVIOUS
    <3>1. CASE r \in queued[t]
      <4>1. PICK j \in 1..cursor[t] : r.event = appended[t][j] /\ ToOutbox(t, j)
        BY <3>1 DEF WriterInv, QueueInv, QueuedRows
      <4> QED BY <1>1, <1>5, <4>1
    <3>2. CASE r = new
      BY <1>1, <1>3, <1>5, <3>2
    <3> QED BY <1>2, <3>1, <3>2
  <2>2. \A j \in 1..i : ToOutbox(t, j) => \E r \in queued'[t] : r.event = appended[t][j]
    <3> SUFFICES ASSUME NEW j \in 1..i, ToOutbox(t, j)
                 PROVE  \E r \in queued'[t] : r.event = appended[t][j]
      OBVIOUS
    <3>1. CASE j \in 1..cursor[t]
      BY <1>2, <3>1 DEF WriterInv, QueueInv, QueuedRows
    <3>2. CASE j = i
      BY <1>2, <1>3, <3>2
    <3>3. CASE j \in cursor[t] + 1 .. i - 1
      BY <1>1, <3>3
    <3> QED BY <1>5, <3>1, <3>2, <3>3
  <2>3. \A r, s \in queued'[t] : r.event = s.event => r = s
    BY <1>2, <1>7 DEF WriterInv, QueueInv, QueuedRows
  <2>4. \A r, s \in queued'[t] :
           r.event.agg = s.event.agg /\ r.event.seq < s.event.seq => r.id < s.id
    <3> SUFFICES ASSUME NEW r \in queued'[t], NEW s \in queued'[t],
                        r.event.agg = s.event.agg, r.event.seq < s.event.seq
                 PROVE  r.id < s.id
      OBVIOUS
    <3>1. CASE r \in queued[t] /\ s \in queued[t]
      BY <3>1 DEF WriterInv, QueueInv, QueuedRows
    <3>2. CASE r \in queued[t] /\ s = new
      BY <1>2, <1>3, <1>4, <3>2
    <3>3. CASE r = new /\ s \in queued[t]
      BY <1>7, <3>3
    <3>4. CASE r = new /\ s = new
      <4>1. new.event \in Event
        BY <1>3, <1>5, QueuedAreMine DEF Mine, Entries
      <4> QED BY <3>4, <4>1 DEF Event
    <3> QED BY <1>2, <3>1, <3>2, <3>3, <3>4
  <2>5. ASSUME NEW u \in Txs \ {t}
        PROVE  /\ \A r \in queued'[u] : \E j \in 1..cursor'[u] : r.event = appended[u][j] /\ ToOutbox(u, j)
               /\ \A j \in 1..cursor'[u] : ToOutbox(u, j) => \E r \in queued'[u] : r.event = appended[u][j]
               /\ \A r, s \in queued'[u] : r.event = s.event => r = s
               /\ \A r, s \in queued'[u] :
                     r.event.agg = s.event.agg /\ r.event.seq < s.event.seq => r.id < s.id
    BY <1>2 DEF WriterInv, QueueInv, QueuedRows
  <2> QED BY <1>2, <2>1, <2>2, <2>3, <2>4, <2>5 DEF QueuedRows, ToOutbox, outboxEventTypes
<1>10. QueuedComeAfter'
  BY <1>2, <1>3, <1>4 DEF WriterInv, QueueInv, QueuedComeAfter
<1>11. RowsOfEvents' /\ OutboxFollowsStream'
  BY <1>2 DEF WriterInv, QueueInv, RowsOfEvents, OutboxFollowsStream
<1> QED BY <1>8, <1>9, <1>10, <1>11 DEF QueueInv

\* A transaction that is not enqueuing may lose or gain events freely: it holds no row.
LEMMA NoRowsStep ==
    ASSUME WriterInv, NEW t \in Txs, Rollback(t) \/ \E ty \in Types : Insert(t, ty)
    PROVE  QueueInv'
<1>1. /\ queued'[t] = {} /\ cursor'[t] = 0
      /\ events' = events /\ outbox' = outbox /\ lastId' = lastId
      /\ \A u \in Txs \ {t} : /\ queued'[u] = queued[u] /\ cursor'[u] = cursor[u]
                             /\ appended'[u] = appended[u]
  BY DEF Rollback, Insert, tables, WriterInv, StreamInv, WriterTypeOK, Housekeeping
<1>2. IdsDrawn'
  BY <1>1 DEF WriterInv, QueueInv, IdsDrawn
<1>3. QueuedRows'
  <2>1. 1..cursor'[t] = {}
    BY <1>1
  <2> QED BY <1>1, <2>1 DEF WriterInv, QueueInv, QueuedRows, ToOutbox, outboxEventTypes
<1>4. QueuedComeAfter' /\ RowsOfEvents' /\ OutboxFollowsStream'
  BY <1>1 DEF WriterInv, QueueInv, QueuedComeAfter, RowsOfEvents, OutboxFollowsStream
<1> QED BY <1>2, <1>3, <1>4 DEF QueueInv

LEMMA CommitQueue ==
    ASSUME WriterInv, NEW t \in Txs, Commit(t)
    PROVE  QueueInv'
<1>1. /\ events' = events \union Mine(t) /\ outbox' = outbox \union queued[t] /\ lastId' = lastId
      /\ queued'[t] = {} /\ cursor'[t] = 0
      /\ \A u \in Txs \ {t} : /\ queued'[u] = queued[u] /\ cursor'[u] = cursor[u]
                             /\ appended'[u] = appended[u]
  BY DEF Commit, Mine, WriterInv, StreamInv, WriterTypeOK
<1>2. /\ \A u \in Txs : \A r \in queued[u] : r.event \in Mine(u) /\ r.event \in Event
      /\ \A r \in outbox : r.event \in events /\ r.event \in Event
  BY QueuedAreMine DEF WriterInv, StreamInv, WriterTypeOK, QueueInv, RowsOfEvents
<1>3. \A r \in outbox, s \in queued[t] : r.event.agg = s.event.agg => r.event.seq < s.event.seq
  BY <1>2 DEF WriterInv, StreamInv, MineComeAfter
<1>4. IdsDrawn'
  <2>1. /\ \A r \in outbox' : r.id <= lastId'
        /\ \A u \in Txs : \A r \in queued'[u] : r.id <= lastId'
        /\ \A u, v \in Txs : \A r \in queued'[u], s \in queued'[v] : r.id = s.id => u = v /\ r = s
    BY <1>1 DEF WriterInv, QueueInv, IdsDrawn
  <2>2. \A r, s \in outbox' : r.id = s.id => r = s
    BY <1>1 DEF WriterInv, QueueInv, IdsDrawn
  <2>3. \A u \in Txs : \A r \in outbox', s \in queued'[u] : r.id # s.id
    BY <1>1 DEF WriterInv, QueueInv, IdsDrawn
  <2> QED BY <2>1, <2>2, <2>3 DEF IdsDrawn
<1>5. QueuedRows'
  <2>1. 1..cursor'[t] = {}
    BY <1>1
  <2> QED BY <1>1, <2>1 DEF WriterInv, QueueInv, QueuedRows, ToOutbox, outboxEventTypes
<1>6. QueuedComeAfter'
  <2> SUFFICES ASSUME NEW u \in Txs, NEW r \in outbox', NEW s \in queued'[u],
                      r.event.agg = s.event.agg
               PROVE  r.id < s.id
    BY DEF QueuedComeAfter
  <2>1. u \in Txs \ {t} /\ s \in queued[u]
    BY <1>1
  <2>2. r \notin queued[t]
    BY <1>2, <2>1 DEF WriterInv, StreamInv, OneWriterPerStream
  <2> QED BY <1>1, <2>1, <2>2 DEF WriterInv, QueueInv, QueuedComeAfter
<1>7. RowsOfEvents'
  <2>1. \A r \in outbox' : r.event \in events'
    BY <1>1, <1>2
  <2>2. \A r \in outbox, s \in queued[t] : r.event # s.event
    BY <1>2, <1>3 DEF Event
  <2>3. \A r, s \in outbox' : r.event = s.event => r = s
    BY <1>1, <2>2 DEF WriterInv, QueueInv, RowsOfEvents, QueuedRows
  <2> QED BY <2>1, <2>3 DEF RowsOfEvents
<1>8. OutboxFollowsStream'
  <2> SUFFICES ASSUME NEW r \in outbox', NEW s \in outbox',
                      r.event.agg = s.event.agg, r.event.seq < s.event.seq
               PROVE  r.id < s.id
    BY DEF OutboxFollowsStream
  <2>1. CASE r \in outbox /\ s \in outbox
    BY <2>1 DEF WriterInv, QueueInv, OutboxFollowsStream
  <2>2. CASE r \in outbox /\ s \in queued[t]
    BY <2>2 DEF WriterInv, QueueInv, QueuedComeAfter
  <2>3. CASE r \in queued[t] /\ s \in outbox
    BY <1>2, <1>3, <2>3 DEF Event
  <2>4. CASE r \in queued[t] /\ s \in queued[t]
    BY <2>4 DEF WriterInv, QueueInv, QueuedRows
  <2> QED BY <1>1, <2>1, <2>2, <2>3, <2>4
<1> QED BY <1>4, <1>5, <1>6, <1>7, <1>8 DEF QueueInv

\* When a transaction commits, every event of its own that the channel carries has a row.
LEMMA CommitQueuesAll ==
    ASSUME WriterInv, NEW t \in Txs, Commit(t), NEW e \in Mine(t), e.type \in outboxEventTypes
    PROVE  \E row \in queued[t] : row.event = e
<1>1. PICK i \in 1..Len(appended[t]) : e = appended[t][i]
  BY QueuedAreMine DEF Mine, Entries
<1>2. i \in 1..cursor[t]
  <2>1. i \notin cursor[t] + 1 .. Len(appended[t])
    BY <1>1 DEF Commit, ToOutbox
  <2> QED BY <2>1, QueuedAreMine
<1> QED BY <1>1, <1>2 DEF WriterInv, QueueInv, QueuedRows, ToOutbox

\* Every row a committing transaction owes the outbox is there, and no other.
LEMMA CommitMatches ==
    ASSUME WriterInv, OutboxMatchesStreams, NEW t \in Txs, Commit(t)
    PROVE  {r.event : r \in outbox'} = {e \in events' : e.type \in outboxEventTypes}
<1>1. events' = events \union Mine(t) /\ outbox' = outbox \union queued[t]
  BY DEF Commit, Mine
<1>2. ASSUME NEW r \in outbox' PROVE r.event \in events' /\ r.event.type \in outboxEventTypes
  <2>1. CASE r \in outbox
    BY <1>1, <2>1 DEF OutboxMatchesStreams
  <2>2. CASE r \in queued[t]
    BY <1>1, <2>2, QueuedAreMine
  <2> QED BY <1>1, <2>1, <2>2
<1>3. ASSUME NEW e \in events', e.type \in outboxEventTypes PROVE \E r \in outbox' : r.event = e
  <2>1. CASE e \in events
    BY <1>1, <1>3, <2>1 DEF OutboxMatchesStreams
  <2>2. CASE e \in Mine(t)
    BY <1>1, <1>3, <2>2, CommitQueuesAll
  <2> QED BY <1>1, <2>1, <2>2
<1> QED BY <1>2, <1>3

\* WriterInv is inductive, and with it the outbox and the streams stay equal.
LEMMA WriterStepInv ==
    ASSUME WriterInv, WriterNext
    PROVE  WriterInv' /\ (OutboxMatchesStreams => OutboxMatchesStreams')
<1>1. PICK t \in Txs : WriterStep(t)
  BY DEF WriterNext
<1>2. StreamInv'
  BY <1>1, StreamStep DEF WriterInv
<1>3. QueueInv'
  <2>1. CASE Begin(t) \/ (\E a \in Aggregates : Load(t, a)) \/ (\E a \in Aggregates : ReadHead(t, a))
             \/ EndAppend(t) \/ EndBody(t)
    <3>1. UNCHANGED QueueVars
      BY <2>1 DEF Begin, Load, ReadHead, EndAppend, EndBody, tables, QueueVars
    <3> QED BY <3>1, QueueKept DEF WriterInv
  <2> QED BY <1>1, <2>1, EnqueueStep, NoRowsStep, CommitQueue DEF WriterStep
<1>4. ASSUME OutboxMatchesStreams PROVE OutboxMatchesStreams'
  <2>1. {r.event : r \in outbox'} = {e \in events' : e.type \in outboxEventTypes}
    <3>1. CASE Commit(t)
      BY <1>4, <3>1, CommitMatches
    <3>2. CASE ~Commit(t)
      <4>1. events' = events /\ outbox' = outbox
        BY <1>1, <3>2 DEF WriterStep, Begin, Rollback, Load, ReadHead, Insert, EndAppend, EndBody,
           EnqueueOutbox, tables
      <4> QED BY <1>4, <4>1 DEF OutboxMatchesStreams
    <3> QED BY <3>1, <3>2
  <2>2. \A r, s \in outbox' : r.event = s.event \/ r.id = s.id => r = s
    BY <1>3 DEF QueueInv, RowsOfEvents, IdsDrawn
  <2> QED BY <2>1, <2>2 DEF OutboxMatchesStreams, outboxEventTypes
<1> QED BY <1>2, <1>3, <1>4 DEF WriterInv

LEMMA WriterStutter ==
    ASSUME WriterInv, UNCHANGED writerVars
    PROVE  WriterInv' /\ (OutboxMatchesStreams => OutboxMatchesStreams')
<1> USE DEF writerVars, txState, tables
<1>1. WriterTypeOK' /\ Housekeeping'
  BY DEF WriterInv, StreamInv, WriterTypeOK, Housekeeping, Active
<1>2. RowFacts'
  BY RowFactsKept DEF WriterInv, StreamInv, RowFacts
<1>3. HeadFilled' /\ HeadOwned'
  BY DEF WriterInv, StreamInv, HeadFilled, HeadOwned, Mine, Filled
<1>4. QueueInv'
  BY QueueKept DEF WriterInv, QueueVars
<1>5. OutboxMatchesStreams => OutboxMatchesStreams'
  BY DEF OutboxMatchesStreams, outboxEventTypes
<1> QED BY <1>1, <1>2, <1>3, <1>4, <1>5 DEF WriterInv, StreamInv, RowFacts

\* The inductive invariant holds in every reachable state.
THEOREM WriterInvariant == WriterSpec => [](WriterInv /\ OutboxMatchesStreams)
<1>1. WriterInit => WriterInv /\ OutboxMatchesStreams
  BY InitInv
<1>2. WriterInv /\ OutboxMatchesStreams /\ [WriterNext]_writerVars
         => (WriterInv /\ OutboxMatchesStreams)'
  BY WriterStepInv, WriterStutter
<1> QED BY <1>1, <1>2, PTL DEF WriterSpec

\* Every variable of the write side keeps its type (uow.go.txt, eventstore.go.txt).
THEOREM WriterTypeCorrect == WriterSpec => []WriterTypeOK
<1>1. WriterInv => WriterTypeOK
  BY DEF WriterInv, StreamInv
<1> QED BY <1>1, WriterInvariant, PTL

\* A committed stream has one event per sequence number and no hole (appendWithinTx).
THEOREM GapFreeStreams == WriterSpec => []StreamsAreGapFree
<1>1. WriterInv => StreamsAreGapFree
  <2> SUFFICES ASSUME WriterInv PROVE StreamsAreGapFree
    OBVIOUS
  <2>1. ASSUME NEW e \in events, NEW n \in 1 .. e.seq - 1
        PROVE  \E f \in events : f.agg = e.agg /\ f.seq = n
    <3>1. e.seq \in Nat
      BY DEF WriterInv, StreamInv, WriterTypeOK, Event
    <3>2. n \in 1..e.seq
      BY <3>1
    <3> QED BY <3>2 DEF WriterInv, StreamInv, CommittedFilled, Filled
  <2> QED BY <2>1 DEF WriterInv, StreamInv, KeysUnique, StreamsAreGapFree
<1> QED BY <1>1, WriterInvariant, PTL

\* A stream never changes tenant (appendWithinTx, the tag of the first row).
THEOREM OneOwner == WriterSpec => []OneOwnerPerStream
<1>1. WriterInv => OneOwnerPerStream
  BY DEF WriterInv, StreamInv
<1> QED BY <1>1, WriterInvariant, PTL

\* Whatever commits and rolls back, the events table holds whole streams of one tenant each.
THEOREM SoundStreams == WriterSpec => []StreamsAreSound
<1>1. WriterTypeOK /\ StreamsAreGapFree /\ OneOwnerPerStream => StreamsAreSound
  BY DEF StreamsAreSound
<1> QED BY <1>1, WriterTypeCorrect, GapFreeStreams, OneOwner, PTL

\* Outbox ids follow the sequence numbers of their stream (enqueueOutboxWithinTx).
THEOREM OutboxFollows == WriterSpec => []OutboxFollowsStream
<1>1. WriterInv => OutboxFollowsStream
  BY DEF WriterInv, QueueInv
<1> QED BY <1>1, WriterInvariant, PTL

\* One outbox row per committed event the channel carries, and no other (UnitOfWork.Run).
THEOREM OutboxMatches == WriterSpec => []OutboxMatchesStreams
  BY WriterInvariant, PTL

\* The outbox holds what was committed for the channel, in the order of each stream.
THEOREM SoundOutbox == WriterSpec => []OutboxIsSound
<1>1. OutboxFollowsStream /\ OutboxMatchesStreams => OutboxIsSound
  BY DEF OutboxIsSound
<1> QED BY <1>1, OutboxFollows, OutboxMatches, PTL
=============================================================================
