----------------------------- MODULE QueryCache -----------------------------
(***************************************************************************)
(* One cached Query: the wrapper generated around it (codegen/             *)
(* decl_query_cache.go), the in-memory QueryCache (codegen/rtsrc/          *)
(* querycache.go.txt) and the Redis one (codegen/redisrt/cache.go.txt),    *)
(* and the writes that invalidate it through the UnitOfWork and the        *)
(* Dispatcher (codegen/rtsrc/uow.go.txt, dispatcher.go.txt).               *)
(*                                                                         *)
(* Every process resolves its backend when it starts: Redis, or its own    *)
(* memory when Redis could not be reached. Flights are always local to a   *)
(* process. The data the Query reads is its version number. Time is        *)
(* abstracted to an entry's lapsing. Every call to Redis may fail, which   *)
(* is a miss, a write that is dropped or an invalidation that is lost.     *)
(***************************************************************************)
EXTENDS Naturals, FiniteSets

CONSTANTS
    Calls,          \* calls of the Query
    CallKey,        \* CacheKey of each call: tenant, name and arguments
    NoCache,        \* calls with Cache-Control: no-cache
    Writers,        \* runs of a UseCase that emit an event the Query depends on
    Procs,          \* replicas of the service
    ProcOf,         \* where each call and each writer runs
    CacheKeys,
    Backends,       \* what a process may find when it starts
    NegativeTtl,    \* the Query declares negativeCacheTtl
    Redis,
    Nobody,
    Nothing

ASSUME PlaceAssumption == ProcOf \in [Calls \union Writers -> Procs]
ASSUME CallKeyAssumption == CallKey \in [Calls -> CacheKeys]
ASSUME BackendAssumption ==
    Backends \subseteq {"memory", "redis"} /\ Redis \notin Procs /\ NegativeTtl \in BOOLEAN
ASSUME NobodyAssumption == Nobody \notin Calls
ASSUME WritersAssumption == IsFiniteSet(Writers)

VARIABLES
    backend,        \* which backend each process uses
    data,           \* the version of what the Query reads
    gen,            \* the generation of each store ("<ns>:gen"; memory stores stay at 0)
    entries,        \* each store's entries by generation and key
    flights,        \* each process's calls in flight by key, named by their leader
    pc,             \* where each call stands
    leader,         \* the flight a call waits for
    outcome,        \* what its own run of the Query gave
    result,         \* what Coalesce returned to it
    seenGen,        \* the generation it read from Redis
    answer,         \* what it returned
    wpc,            \* where each writer stands
    emptied,        \* history: invalidations each store completed
    arrived     \* history: how many its store had completed when a call began

callState == <<pc, leader, outcome, result, seenGen, answer, arrived>>
storage == <<gen, entries, emptied>>
cacheVars == <<backend, data, storage, flights, callState, wpc>>

Stores == Procs \union {Redis}
Gens == 0 .. Cardinality(Writers)
StoreOf(p) == IF backend[p] = "redis" THEN Redis ELSE p
Home(c) == StoreOf(ProcOf[c])
OverRedis(c) == Home(c) = Redis

Kinds == {"ok", "business", "infra", "panic"}
Outcome == [kind : Kinds, version : Nat, by : Calls]
Entry == [kind : {"ok", "business"}, version : Nat, by : Calls, epoch : Nat]
ASSUME NothingAssumption == Nothing \notin Outcome \union Entry

-----------------------------------------------------------------------------
CacheInit ==
    /\ backend \in [Procs -> Backends]
    /\ data = 0
    /\ gen = [s \in Stores |-> 0]
    /\ entries = [s \in Stores |-> [g \in Gens |-> [k \in CacheKeys |-> Nothing]]]
    /\ flights = [p \in Procs |-> [k \in CacheKeys |-> Nobody]]
    /\ pc = [c \in Calls |-> "idle"]
    /\ leader = [c \in Calls |-> Nobody]
    /\ outcome = [c \in Calls |-> Nothing]
    /\ result = [c \in Calls |-> Nothing]
    /\ seenGen = [c \in Calls |-> 0]
    /\ answer = [c \in Calls |-> Nothing]
    /\ wpc = [w \in Writers |-> "idle"]
    /\ emptied = [s \in Stores |-> 0]
    /\ arrived = [c \in Calls |-> 0]

Goto(c, label) == pc' = [pc EXCEPT ![c] = label]

\* The wrapper computes the key; no-cache skips the read.
Arrive(c) ==
    /\ pc[c] = "idle"
    /\ Goto(c, IF c \in NoCache THEN "coalesce" ELSE "lookup")
    /\ arrived' = [arrived EXCEPT ![c] = emptied[Home(c)]]
    /\ UNCHANGED <<backend, data, storage, flights, leader, outcome, result, seenGen, answer, wpc>>

\* currentGeneration, the first read of a Redis Get.
GetGeneration(c) ==
    /\ pc[c] = "lookup" /\ OverRedis(c)
    /\ seenGen' = [seenGen EXCEPT ![c] = gen[Redis]]
    /\ Goto(c, "get")
    /\ UNCHANGED <<backend, data, storage, flights, leader, outcome, result, answer, arrived, wpc>>

\* Get finds an entry: the memory one in a critical section, the Redis one under
\* the generation it read.
Hit(c) ==
    /\ \/ pc[c] = "lookup" /\ ~OverRedis(c)
       \/ pc[c] = "get"
    /\ entries[Home(c)][seenGen[c]][CallKey[c]] # Nothing
    /\ answer' = [answer EXCEPT ![c] = entries[Home(c)][seenGen[c]][CallKey[c]]]
    /\ seenGen' = [seenGen EXCEPT ![c] = 0]
    /\ Goto(c, "done")
    /\ UNCHANGED <<backend, data, storage, flights, leader, outcome, result, arrived, wpc>>

\* Get finds none, or Redis fails, or its value cannot be decoded: fail-open.
Miss(c) ==
    /\ \/ /\ pc[c] = "lookup" /\ ~OverRedis(c)
          /\ entries[Home(c)][0][CallKey[c]] = Nothing
       \/ pc[c] = "get"
    /\ seenGen' = [seenGen EXCEPT ![c] = 0]
    /\ Goto(c, "coalesce")
    /\ UNCHANGED <<backend, data, storage, flights, leader, outcome, result, answer, arrived, wpc>>

Flight(c) == flights[ProcOf[c]][CallKey[c]]

\* Coalesce: join the key's flight in this process.
Join(c) ==
    /\ pc[c] = "coalesce"
    /\ Flight(c) # Nobody
    /\ leader' = [leader EXCEPT ![c] = Flight(c)]
    /\ Goto(c, "waiting")
    /\ UNCHANGED <<backend, data, storage, flights, outcome, result, seenGen, answer, arrived, wpc>>

\* Mutant: flights[key] is not looked up.
LeadAlwaysMutant(c) ==
    /\ pc[c] = "coalesce"
    /\ flights' = [flights EXCEPT ![ProcOf[c]][CallKey[c]] = c]
    /\ Goto(c, "run")
    /\ UNCHANGED <<backend, data, storage, leader, outcome, result, seenGen, answer, arrived, wpc>>

\* Coalesce: lead a new flight.
Lead(c) ==
    /\ pc[c] = "coalesce"
    /\ Flight(c) = Nobody
    /\ flights' = [flights EXCEPT ![ProcOf[c]][CallKey[c]] = c]
    /\ Goto(c, "run")
    /\ UNCHANGED <<backend, data, storage, leader, outcome, result, seenGen, answer, arrived, wpc>>

\* The body of the Query reads the data and returns, or panics.
RunQuery(c, kind) ==
    /\ pc[c] = "run"
    /\ outcome' = [outcome EXCEPT ![c] = [kind |-> kind, version |-> data, by |-> c]]
    /\ Goto(c, "land")
    /\ UNCHANGED <<backend, data, storage, flights, leader, result, seenGen, answer, arrived, wpc>>

\* Mutants: a panic lands like a success; the flight is left in the table; a panic
\* skips the clean-up.
LandNilMutant(c) ==
    /\ pc[c] = "land"
    /\ flights' = [flights EXCEPT ![ProcOf[c]][CallKey[c]] = Nobody]
    /\ result' = [result EXCEPT ![c] = IF outcome[c].kind = "panic"
                                       THEN [outcome[c] EXCEPT !.kind = "ok"] ELSE outcome[c]]
    /\ Goto(c, IF outcome[c].kind = "panic" THEN "done" ELSE "store")
    /\ UNCHANGED <<backend, data, storage, leader, outcome, seenGen, answer, arrived, wpc>>
LandForgottenMutant(c) ==
    /\ pc[c] = "land"
    /\ result' = [result EXCEPT ![c] = outcome[c]]
    /\ Goto(c, IF outcome[c].kind = "panic" THEN "done" ELSE "store")
    /\ UNCHANGED <<backend, data, storage, flights, leader, outcome, seenGen, answer, arrived, wpc>>
LandUnlessPanicMutant(c) ==
    /\ pc[c] = "land"
    /\ IF outcome[c].kind = "panic" THEN UNCHANGED <<flights, result>>
       ELSE /\ flights' = [flights EXCEPT ![ProcOf[c]][CallKey[c]] = Nobody]
            /\ result' = [result EXCEPT ![c] = outcome[c]]
    /\ Goto(c, IF outcome[c].kind = "panic" THEN "done" ELSE "store")
    /\ UNCHANGED <<backend, data, storage, leader, outcome, seenGen, answer, arrived, wpc>>

\* Coalesce's deferred function: the key is free again and the waiters are let go,
\* with errCoalescedPanic ("panic") if fn did not complete; the leader's panic
\* goes on up its own stack.
Land(c) ==
    /\ pc[c] = "land"
    /\ flights' = [flights EXCEPT ![ProcOf[c]][CallKey[c]] = Nobody]
    /\ result' = [result EXCEPT ![c] = outcome[c]]
    /\ Goto(c, IF outcome[c].kind = "panic" THEN "done" ELSE "store")
    /\ UNCHANGED <<backend, data, storage, leader, outcome, seenGen, answer, arrived, wpc>>

\* <-fl.done.
Wake(c) ==
    /\ pc[c] = "waiting"
    /\ result[leader[c]] # Nothing
    /\ result' = [result EXCEPT ![c] = result[leader[c]]]
    /\ leader' = [leader EXCEPT ![c] = Nobody]
    /\ Goto(c, "store")
    /\ UNCHANGED <<backend, data, storage, flights, outcome, seenGen, answer, arrived, wpc>>

\* Mutant: SetErr for any error.
CacheableErrorMutant(kind) == kind = "ok" \/ NegativeTtl

\* Set after a success, SetErr after a business error when there is a negativeCacheTtl.
Cacheable(kind) == kind = "ok" \/ (kind = "business" /\ NegativeTtl)

ToEntry(c) == [kind |-> result[c].kind, version |-> result[c].version, by |-> result[c].by,
               epoch |-> emptied[Home(c)]]

Return(c) ==
    /\ answer' = [answer EXCEPT ![c] = result[c]]
    /\ seenGen' = [seenGen EXCEPT ![c] = 0]
    /\ Goto(c, "done")

\* Every caller of the flight goes on to Set or SetErr. The Redis write reads the
\* generation first.
WriteGeneration(c) ==
    /\ pc[c] = "store" /\ OverRedis(c)
    /\ Cacheable(result[c].kind)
    /\ seenGen' = [seenGen EXCEPT ![c] = gen[Redis]]
    /\ Goto(c, "write")
    /\ UNCHANGED <<backend, data, storage, flights, leader, outcome, result, answer, arrived, wpc>>

WriteEntry(c) ==
    /\ \/ pc[c] = "store" /\ ~OverRedis(c) /\ Cacheable(result[c].kind)
       \/ pc[c] = "write"
    /\ entries' = [entries EXCEPT ![Home(c)][IF OverRedis(c) THEN seenGen[c] ELSE 0][CallKey[c]] = ToEntry(c)]
    /\ Return(c)
    /\ UNCHANGED <<backend, data, gen, emptied, flights, leader, outcome, result, arrived, wpc>>

\* Not cacheable, or Redis fails: nothing is written.
SkipWrite(c) ==
    /\ \/ pc[c] = "store" /\ ~Cacheable(result[c].kind)
       \/ pc[c] = "write"
    /\ Return(c)
    /\ UNCHANGED <<backend, data, storage, flights, leader, outcome, result, arrived, wpc>>

\* The entry's ttl ends: Get deletes it, or Redis does.
Lapse(s, k) ==
    /\ entries[s][gen[s]][k] # Nothing
    /\ entries' = [entries EXCEPT ![s][gen[s]][k] = Nothing]
    /\ UNCHANGED <<backend, data, gen, emptied, flights, callState, wpc>>

-----------------------------------------------------------------------------
\* Tx.Append, durable at once in the in-memory store.
AppendEvent(w) ==
    /\ wpc[w] = "idle"
    /\ data' = data + 1
    /\ wpc' = [wpc EXCEPT ![w] = "appended"]
    /\ UNCHANGED <<backend, storage, flights, callState>>

\* Mutant: the generation key expires.
InvalidateExpiredMutant(w) ==
    /\ wpc[w] = "appended"
    /\ IF Home(w) = Redis
       THEN gen' = [gen EXCEPT ![Redis] = 0] /\ UNCHANGED entries
       ELSE entries' = [entries EXCEPT ![Home(w)][0] = [k \in CacheKeys |-> Nothing]] /\ UNCHANGED gen
    /\ emptied' = [emptied EXCEPT ![Home(w)] = @ + 1]
    /\ wpc' = [wpc EXCEPT ![w] = "done"]
    /\ UNCHANGED <<backend, data, flights, callState>>

\* Run publishes the event after fn, and the Dispatcher reaches the subscription of
\* WireQueryCache: InvalidateAll empties this process's memory or moves Redis to
\* the next generation.
Invalidate(w) ==
    /\ wpc[w] = "appended"
    /\ IF Home(w) = Redis
       THEN gen' = [gen EXCEPT ![Redis] = @ + 1] /\ UNCHANGED entries
       ELSE entries' = [entries EXCEPT ![Home(w)][0] = [k \in CacheKeys |-> Nothing]] /\ UNCHANGED gen
    /\ emptied' = [emptied EXCEPT ![Home(w)] = @ + 1]
    /\ wpc' = [wpc EXCEPT ![w] = "done"]
    /\ UNCHANGED <<backend, data, flights, callState>>

\* The event is appended but nothing is invalidated: fn failed after Append, a
\* Policy subscribed before the cache failed (Publish stops there), or the INCR
\* failed.
LoseInvalidation(w) ==
    /\ wpc[w] = "appended"
    /\ wpc' = [wpc EXCEPT ![w] = "done"]
    /\ UNCHANGED <<backend, data, storage, flights, callState>>

-----------------------------------------------------------------------------
Proceed(c) ==
    \/ GetGeneration(c) \/ Hit(c) \/ Miss(c)
    \/ Join(c) \/ Lead(c)
    \/ \E kind \in Kinds : RunQuery(c, kind)
    \/ Land(c) \/ Wake(c)
    \/ WriteGeneration(c) \/ WriteEntry(c) \/ SkipWrite(c)

CacheNext ==
    \/ \E c \in Calls : Arrive(c) \/ Proceed(c)
    \/ \E s \in Stores, k \in CacheKeys : Lapse(s, k)
    \/ \E w \in Writers : AppendEvent(w) \/ Invalidate(w) \/ LoseInvalidation(w)

\* A request's goroutine keeps running, and the Query's own I/O ends.
CacheFairness == \A c \in Calls : WF_cacheVars(Proceed(c))

CacheSpec == CacheInit /\ [][CacheNext]_cacheVars
CacheFairSpec == CacheSpec /\ CacheFairness

-----------------------------------------------------------------------------
(* Properties *)

Labels == {"idle", "lookup", "get", "coalesce", "run", "land", "waiting", "store",
           "write", "done"}

\* Every variable keeps its type.
CacheTypeOK ==
    /\ backend \in [Procs -> Backends]
    /\ data \in Nat
    /\ gen \in [Stores -> Gens]
    /\ entries \in [Stores -> [Gens -> [CacheKeys -> Entry \union {Nothing}]]]
    /\ flights \in [Procs -> [CacheKeys -> Calls \union {Nobody}]]
    /\ pc \in [Calls -> Labels]
    /\ leader \in [Calls -> Calls \union {Nobody}]
    /\ outcome \in [Calls -> Outcome \union {Nothing}]
    /\ result \in [Calls -> Outcome \union {Nothing}]
    /\ seenGen \in [Calls -> Gens]
    /\ answer \in [Calls -> Outcome \union Entry \union {Nothing}]
    /\ wpc \in [Writers -> {"idle", "appended", "done"}]
    /\ emptied \in [Stores -> Nat]
    /\ arrived \in [Calls -> Nat]

InFlight(c) == pc[c] \in {"run", "land"}

\* Stampede protection (Coalesce: one real run per key under any number of
\* concurrent calls): a process never runs the Query twice at once for one key.
OneRunPerKey == \A c, d \in Calls :
    InFlight(c) /\ InFlight(d) /\ ProcOf[c] = ProcOf[d] /\ CallKey[c] = CallKey[d] => c = d

\* A waiter waits for a run of its own key and process that is going on or has
\* already landed: no panic, race or reuse of the key leaves it behind.
WaitersHaveALeader == \A c \in Calls : pc[c] = "waiting" =>
    LET l == leader[c] IN
    /\ l \in Calls /\ CallKey[l] = CallKey[c] /\ ProcOf[l] = ProcOf[c]
    /\ result[l] # Nothing \/ (InFlight(l) /\ Flight(l) = l)

\* What the cache holds and what callers are given is what a run of their own key
\* gave: a panic is never a (nil, nil) success for its waiters, and neither an
\* infrastructure error nor a panic is ever stored.
AnswersAreOutcomes ==
    /\ \A c \in Calls : answer[c] # Nothing =>
          LET run == answer[c].by IN
          /\ CallKey[run] = CallKey[c]
          /\ answer[c].kind = outcome[run].kind /\ answer[c].version = outcome[run].version
    /\ \A s \in Stores, g \in Gens, k \in CacheKeys : entries[s][g][k] # Nothing =>
          LET run == entries[s][g][k].by IN
          /\ CallKey[run] = k
          /\ outcome[run].kind \in {"ok", "business"}
          /\ entries[s][g][k].kind = outcome[run].kind

\* A call that begins after a completed InvalidateAll is not answered from an entry
\* written before it, although the Redis Get and Set read the generation in a command
\* of their own. It says nothing of when the entry's data were read: a run that read
\* before the invalidation may write after it, and its flight may be joined.
OlderEntriesAreGone == \A c \in Calls :
    pc[c] = "done" /\ answer[c] \in Entry => answer[c].epoch >= arrived[c]

\* A flight ends with its run: the table never leads a later call to a run that has
\* landed, whose answer would be given for ever.
FlightsAreLive == \A p \in Procs, k \in CacheKeys :
    flights[p][k] # Nobody => LET l == flights[p][k] IN
        InFlight(l) /\ ProcOf[l] = p /\ CallKey[l] = k

\* One run at a time serves the calls of a key in a process, a waiter's run goes on or
\* has landed, what is stored and answered is the outcome of a run of that key, and no
\* entry written before an invalidation answers a call that began after it. Outcomes
\* read before the invalidation may still be stored, or heard of in a joined flight.
CachedAnswersAreSound ==
  /\ CacheTypeOK
  /\ OneRunPerKey /\ FlightsAreLive /\ WaitersHaveALeader
  /\ AnswersAreOutcomes /\ OlderEntriesAreGone

\* Every call returns, also the waiters of a run that panicked: again and again, each of
\* those that came so far. A call comes once.
EveryCallReturns == []<>(\A c \in Calls : pc[c] \in {"idle", "done"})
=============================================================================
