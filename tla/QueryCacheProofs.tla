-------------------------- MODULE QueryCacheProofs --------------------------
(***************************************************************************)
(* Machine-checked proofs about QueryCache, for any number of calls,       *)
(* writers, replicas and keys, whichever backend each replica found. The   *)
(* inductive invariant ties a call to its flight, a result to the run it   *)
(* is the outcome of, and an entry to the invalidations its store had seen *)
(* when it was written: Redis counts them in the generation, a memory      *)
(* store forgets what it held.                                             *)
(***************************************************************************)
EXTENDS QueryCache, FiniteSetTheorems, TLAPS

USE PlaceAssumption, CallKeyAssumption, BackendAssumption, NobodyAssumption, WritersAssumption,
    NothingAssumption

Done == {w \in Writers : wpc[w] = "done"}

\* A generation counts invalidations; a memory store has none.
GensCount ==
    /\ \A s \in Stores : gen[s] <= Cardinality(Done)
    /\ \A p \in Procs : gen[p] = 0
    /\ gen[Redis] = emptied[Redis]

\* A call keeps a generation only between two commands of Redis, and it is not a later one.
SeenGens == \A c \in Calls :
    /\ pc[c] \notin {"get", "write"} => seenGen[c] = 0
    /\ pc[c] \in {"get", "write"} => OverRedis(c) /\ seenGen[c] <= gen[Redis]
    /\ pc[c] = "get" => arrived[c] <= seenGen[c]
    /\ arrived[c] <= emptied[Home(c)]

\* A call runs the Query once, as the leader of its key's flight.
RunsOnce == \A c \in Calls :
    /\ pc[c] \in {"idle", "lookup", "get", "coalesce", "run", "waiting"} => outcome[c] = Nothing
    /\ pc[c] = "land" => outcome[c] # Nothing
    /\ outcome[c] # Nothing => outcome[c].by = c
    /\ InFlight(c) => Flight(c) = c

\* What a flight gave its callers is the outcome of a run of their key.
ResultsAreOutcomes == \A c \in Calls :
    /\ result[c] # Nothing => /\ CallKey[result[c].by] = CallKey[c]
                              /\ outcome[result[c].by] = result[c]
    /\ pc[c] \in {"store", "write"} => result[c] # Nothing
    /\ pc[c] = "write" => Cacheable(result[c].kind)

\* The runs that answers and entries come from are over; an entry has the version its run read.
RunsAreOver ==
    /\ \A c \in Calls : answer[c] # Nothing => pc[c] = "done" /\ outcome[answer[c].by] # Nothing
    /\ \A s \in Stores, g \in Gens, k \in CacheKeys : entries[s][g][k] # Nothing =>
          LET run == entries[s][g][k].by IN
          outcome[run] # Nothing /\ entries[s][g][k].version = outcome[run].version

\* An entry is not older than its generation, or than the last emptying of its memory.
Epochs ==
    /\ \A g \in Gens, k \in CacheKeys : entries[Redis][g][k] # Nothing => entries[Redis][g][k].epoch >= g
    /\ \A p \in Procs, k \in CacheKeys : entries[p][0][k] # Nothing => entries[p][0][k].epoch = emptied[p]

CacheInv ==
    /\ CacheTypeOK /\ GensCount /\ SeenGens /\ RunsOnce /\ ResultsAreOutcomes
    /\ FlightsAreLive /\ WaitersHaveALeader
    /\ AnswersAreOutcomes /\ RunsAreOver /\ Epochs /\ OlderEntriesAreGone

-----------------------------------------------------------------------------
\* Where things are: a call has a home, and 0 is a generation.
LEMMA Places ==
    /\ Cardinality(Writers) \in Nat /\ 0 \in Gens /\ Gens \subseteq Nat
    /\ Redis \in Stores /\ Procs \subseteq Stores
    /\ CacheTypeOK => \A c \in Calls : Home(c) \in Stores /\ ProcOf[c] \in Procs /\ CallKey[c] \in CacheKeys
                                     /\ (~OverRedis(c) => Home(c) \in Procs)
  BY FS_CardinalityType DEF Gens, Stores, Home, StoreOf, OverRedis

\* An outcome has no epoch.
LEMMA OutcomeIsNoEntry == \A o \in Outcome : o \notin Entry
<1> SUFFICES ASSUME NEW o \in Outcome, o \in Entry PROVE FALSE
  OBVIOUS
<1>1. DOMAIN o = {"kind", "version", "by"}
  BY DEF Outcome
<1>2. "epoch" \in DOMAIN o
  BY DEF Entry
<1> QED BY <1>1, <1>2

LEMMA CacheInitInv == CacheInit => CacheInv
<1> SUFFICES ASSUME CacheInit PROVE CacheInv
  OBVIOUS
<1>1. Done = {} /\ Cardinality(Done) = 0
  BY FS_EmptySet DEF CacheInit, Done
<1>2. CacheTypeOK
  BY Places DEF CacheInit, CacheTypeOK, Labels
<1>3. GensCount
  BY <1>1, Places DEF CacheInit, GensCount
<1>4. SeenGens
  BY <1>2, Places DEF CacheInit, SeenGens
<1> QED BY <1>2, <1>3, <1>4, Places DEF CacheInit, CacheInv, RunsOnce, ResultsAreOutcomes, FlightsAreLive, WaitersHaveALeader,
           AnswersAreOutcomes, RunsAreOver, Epochs, OlderEntriesAreGone, InFlight

-----------------------------------------------------------------------------
\* What the facts about runs, answers and entries depend on.
runState == <<outcome, result, answer>>

\* The two halves of AnswersAreOutcomes: what a call was given, and what a store holds.
AnswerFits(c) == answer[c] # Nothing =>
    /\ CallKey[answer[c].by] = CallKey[c]
    /\ answer[c].kind = outcome[answer[c].by].kind /\ answer[c].version = outcome[answer[c].by].version
EntryFits(s, g, k) == entries[s][g][k] # Nothing =>
    /\ CallKey[entries[s][g][k].by] = k
    /\ outcome[entries[s][g][k].by].kind \in {"ok", "business"}
    /\ entries[s][g][k].kind = outcome[entries[s][g][k].by].kind
LEMMA Halves ==
    AnswersAreOutcomes <=> /\ \A c \in Calls : AnswerFits(c)
                           /\ \A s \in Stores, g \in Gens, k \in CacheKeys : EntryFits(s, g, k)
  BY Zenon DEF AnswersAreOutcomes, AnswerFits, EntryFits

\* The same for the next state.
LEMMA HalvesNext ==
    AnswersAreOutcomes' <=> /\ \A c \in Calls : AnswerFits(c)'
                            /\ \A s \in Stores, g \in Gens, k \in CacheKeys : EntryFits(s, g, k)'
  BY Zenon DEF AnswersAreOutcomes, AnswerFits, EntryFits

\* What no answer, entry or outcome touches.
LEMMA OutcomesFrame ==
    ASSUME AnswersAreOutcomes, UNCHANGED <<answer, entries, outcome>> PROVE AnswersAreOutcomes'
<1>1. \A c \in Calls : AnswerFits(c)'
  BY Halves DEF AnswerFits
<1>2. \A s \in Stores, g \in Gens, k \in CacheKeys : EntryFits(s, g, k)'
  BY Halves DEF EntryFits
<1> QED BY <1>1, <1>2, HalvesNext

\* A step that moves one call along and changes neither a run, an answer nor a store.
LEMMA MoveStep ==
    ASSUME CacheInv, NEW c \in Calls,
           Arrive(c) \/ GetGeneration(c) \/ Miss(c) \/ Join(c) \/ WriteGeneration(c)
    PROVE  CacheInv'
<1>1. UNCHANGED <<backend, data, storage, flights, runState, wpc>>
  BY DEF Arrive, GetGeneration, Miss, Join, WriteGeneration, runState
<1>2. UNCHANGED <<backend, data, gen, entries, emptied, flights, outcome, result, answer, wpc>>
  BY <1>1 DEF storage, runState
<1>3. \A d \in Calls : Home(d)' = Home(d) /\ OverRedis(d)' = OverRedis(d) /\ Flight(d)' = Flight(d)
  BY <1>2 DEF Home, StoreOf, OverRedis, Flight
<1>4. CacheTypeOK
  BY DEF CacheInv
<1>5. /\ \A d \in Calls \ {c} : /\ pc'[d] = pc[d] /\ seenGen'[d] = seenGen[d] /\ leader'[d] = leader[d]
                                /\ arrived'[d] = arrived[d]
      /\ pc[c] \notin {"run", "land", "done"} /\ pc'[c] \notin {"run", "land", "done"}
  BY <1>4 DEF Arrive, GetGeneration, Miss, Join, WriteGeneration, Goto, CacheTypeOK
<1>6. CacheTypeOK'
  <2>1. pc' \in [Calls -> Labels]
    <3>1. \E label \in Labels : pc' = [pc EXCEPT ![c] = label]
      BY DEF Arrive, GetGeneration, Miss, Join, WriteGeneration, Goto, Labels
    <3> QED BY <1>4, <3>1 DEF CacheTypeOK
  <2>2. leader' \in [Calls -> Calls \union {Nobody}]
    <3>1. Flight(c) \in Calls \union {Nobody}
      BY <1>4, Places DEF CacheTypeOK, Flight
    <3> QED BY <1>4, <3>1 DEF Arrive, GetGeneration, Miss, Join, WriteGeneration, CacheTypeOK
  <2>3. seenGen' \in [Calls -> Gens]
    BY <1>4, Places DEF Arrive, GetGeneration, Miss, Join, WriteGeneration, CacheTypeOK
  <2>4. arrived' \in [Calls -> Nat]
    BY <1>4, Places DEF Arrive, GetGeneration, Miss, Join, WriteGeneration, CacheTypeOK
  <2> QED BY <1>2, <1>4, <2>1, <2>2, <2>3, <2>4 DEF CacheTypeOK
<1>7. GensCount'
  BY <1>2 DEF CacheInv, GensCount, Done
<1>8. SeenGens'
  <2>1. ASSUME NEW d \in Calls \ {c}
        PROVE  /\ pc'[d] \notin {"get", "write"} => seenGen'[d] = 0
               /\ pc'[d] \in {"get", "write"} => OverRedis(d)' /\ seenGen'[d] <= gen'[Redis]
               /\ pc'[d] = "get" => arrived'[d] <= seenGen'[d]
               /\ arrived'[d] <= emptied'[Home(d)']
    BY <1>2, <1>3, <1>5 DEF CacheInv, SeenGens
  <2>2. /\ pc'[c] \notin {"get", "write"} => seenGen'[c] = 0
        /\ pc'[c] \in {"get", "write"} => OverRedis(c)' /\ seenGen'[c] <= gen'[Redis]
        /\ pc'[c] = "get" => arrived'[c] <= seenGen'[c]
        /\ arrived'[c] <= emptied'[Home(c)']
    <3>1. gen[Redis] \in Nat /\ emptied[Home(c)] \in Nat /\ (OverRedis(c) => emptied[Home(c)] = gen[Redis])
      BY <1>4, Places DEF CacheInv, CacheTypeOK, GensCount, OverRedis
    <3>2. CASE Arrive(c)
      BY <1>2, <1>3, <1>4, <3>1, <3>2 DEF Arrive, Goto, CacheInv, CacheTypeOK, SeenGens
    <3>3. CASE GetGeneration(c)
      BY <1>2, <1>3, <1>4, <3>1, <3>3 DEF GetGeneration, Goto, CacheInv, CacheTypeOK, SeenGens
    <3>4. CASE Miss(c)
      BY <1>2, <1>3, <1>4, <3>1, <3>4 DEF Miss, Goto, CacheInv, CacheTypeOK, SeenGens
    <3>5. CASE Join(c)
      BY <1>2, <1>3, <1>4, <3>1, <3>5 DEF Join, Goto, CacheInv, CacheTypeOK, SeenGens
    <3>6. CASE WriteGeneration(c)
      BY <1>2, <1>3, <1>4, <3>1, <3>6 DEF WriteGeneration, Goto, CacheInv, CacheTypeOK, SeenGens
    <3> QED BY <3>2, <3>3, <3>4, <3>5, <3>6
  <2> QED BY <2>1, <2>2 DEF SeenGens
<1>9. RunsOnce'
  <2>1. pc'[c] \in {"lookup", "get", "coalesce", "waiting"} => outcome[c] = Nothing
    BY <1>4 DEF Arrive, GetGeneration, Miss, Join, WriteGeneration, Goto, CacheInv, RunsOnce, CacheTypeOK
  <2>2. pc'[c] # "idle"
    BY <1>4 DEF Arrive, GetGeneration, Miss, Join, WriteGeneration, Goto, CacheTypeOK
  <2> QED BY <1>2, <1>3, <1>5, <2>1, <2>2 DEF CacheInv, RunsOnce, InFlight
<1>10. ResultsAreOutcomes'
  <2>1. pc'[c] \in {"store", "write"} => result[c] # Nothing /\ Cacheable(result[c].kind)
    BY <1>4 DEF Arrive, GetGeneration, Miss, Join, WriteGeneration, Goto, CacheInv, ResultsAreOutcomes, CacheTypeOK
  <2> QED BY <1>2, <1>5, <2>1 DEF CacheInv, ResultsAreOutcomes, Cacheable
<1>11. \A d \in Calls : InFlight(d)' <=> InFlight(d)
  BY <1>5 DEF InFlight
<1>12. FlightsAreLive'
  BY <1>2, <1>4, <1>11 DEF CacheInv, FlightsAreLive, CacheTypeOK
<1>13. WaitersHaveALeader'
  <2>1. ASSUME pc'[c] = "waiting"
        PROVE  LET l == leader'[c] IN l \in Calls /\ CallKey[l] = CallKey[c] /\ ProcOf[l] = ProcOf[c]
                                      /\ InFlight(l) /\ Flight(l) = l
    <3>1. leader'[c] = Flight(c) /\ Flight(c) # Nobody /\ Flight(c) \in Calls
      BY <1>4, <2>1, Places DEF Arrive, GetGeneration, Miss, Join, WriteGeneration, Goto, CacheTypeOK, Flight
    <3>2. InFlight(Flight(c)) /\ ProcOf[Flight(c)] = ProcOf[c] /\ CallKey[Flight(c)] = CallKey[c]
      BY <3>1, Places, <1>4 DEF CacheInv, FlightsAreLive, Flight
    <3>3. Flight(Flight(c)) = Flight(c)
      BY <3>2 DEF Flight
    <3> QED BY <3>1, <3>2, <3>3
  <2> QED BY <1>2, <1>3, <1>5, <1>11, <2>1 DEF CacheInv, WaitersHaveALeader
<1>14. AnswersAreOutcomes' /\ RunsAreOver' /\ Epochs'
  <2>1. AnswersAreOutcomes'
    BY <1>2, OutcomesFrame DEF CacheInv
  <2>2. RunsAreOver'
    BY <1>2, <1>5 DEF CacheInv, RunsAreOver
  <2>3. Epochs'
    BY <1>2 DEF CacheInv, Epochs
  <2> QED BY <2>1, <2>2, <2>3
<1>15. OlderEntriesAreGone'
  BY <1>2, <1>5 DEF CacheInv, OlderEntriesAreGone
<1> QED BY <1>6, <1>7, <1>8, <1>9, <1>10, <1>12, <1>13, <1>14, <1>15 DEF CacheInv

\* Most facts speak of who is in flight, and of what every other call keeps.
LEMMA FlightsKept ==
    ASSUME CacheInv, UNCHANGED flights, \A d \in Calls : InFlight(d)' <=> InFlight(d)
    PROVE  FlightsAreLive' /\ \A d \in Calls : Flight(d)' = Flight(d)
  BY DEF CacheInv, FlightsAreLive, CacheTypeOK, Flight

\* Get: the entry is of the call's key, and not older than an invalidation before the call.
LEMMA HitStep ==
    ASSUME CacheInv, NEW c \in Calls, Hit(c)
    PROVE  CacheInv'
<1> DEFINE e == entries[Home(c)][seenGen[c]][CallKey[c]]
<1>1. /\ UNCHANGED <<backend, data, gen, entries, emptied, flights, leader, outcome, result, arrived, wpc>>
      /\ answer' = [answer EXCEPT ![c] = e] /\ seenGen' = [seenGen EXCEPT ![c] = 0]
      /\ pc' = [pc EXCEPT ![c] = "done"] /\ e # Nothing
      /\ (pc[c] = "lookup" /\ ~OverRedis(c)) \/ pc[c] = "get"
  BY DEF Hit, Goto, storage
<1>2. CacheTypeOK
  BY DEF CacheInv
<1>3. Home(c) \in Stores /\ seenGen[c] \in Gens /\ CallKey[c] \in CacheKeys /\ e \in Entry
  <2>1. Home(c) \in Stores /\ seenGen[c] \in Gens /\ CallKey[c] \in CacheKeys
    BY <1>2, Places DEF CacheTypeOK
  <2>2. e \in Entry \union {Nothing}
    BY <1>2, <2>1 DEF CacheTypeOK
  <2> QED BY <1>1, <2>1, <2>2
<1> HIDE DEF e
<1>4. \A d \in Calls : Home(d)' = Home(d) /\ OverRedis(d)' = OverRedis(d)
  BY <1>1 DEF Home, StoreOf, OverRedis
<1>5. /\ answer'[c] = e /\ seenGen'[c] = 0 /\ pc'[c] = "done"
      /\ \A d \in Calls \ {c} : answer'[d] = answer[d] /\ seenGen'[d] = seenGen[d] /\ pc'[d] = pc[d]
  BY <1>1, <1>2 DEF CacheTypeOK
<1>6. \A d \in Calls : InFlight(d)' <=> InFlight(d)
  BY <1>1, <1>5 DEF InFlight
<1>7. FlightsAreLive' /\ \A d \in Calls : Flight(d)' = Flight(d)
  BY <1>1, <1>6, FlightsKept
<1>8. CacheTypeOK'
  BY <1>1, <1>2, <1>3, Places DEF CacheTypeOK, Labels
<1>9. GensCount' /\ Epochs'
  BY <1>1 DEF CacheInv, GensCount, Epochs, Done
<1>10. SeenGens'
  BY <1>1, <1>4, <1>5 DEF CacheInv, SeenGens
<1>11. RunsOnce' /\ ResultsAreOutcomes' /\ WaitersHaveALeader'
  BY <1>1, <1>5, <1>6, <1>7 DEF CacheInv, RunsOnce, ResultsAreOutcomes, WaitersHaveALeader, Cacheable
<1>12. AnswersAreOutcomes' /\ RunsAreOver'
  <2>1. /\ CallKey[e.by] = CallKey[c] /\ e.kind = outcome[e.by].kind
        /\ outcome[e.by] # Nothing /\ e.version = outcome[e.by].version
    <3>1. CallKey[e.by] = CallKey[c] /\ e.kind = outcome[e.by].kind
      <4>1. EntryFits(Home(c), seenGen[c], CallKey[c])
        BY <1>3, Halves DEF CacheInv
      <4> QED BY <1>1, <4>1 DEF e, EntryFits
    <3>2. outcome[e.by] # Nothing /\ e.version = outcome[e.by].version
      BY <1>1, <1>3 DEF e, CacheInv, RunsAreOver
    <3> QED BY <3>1, <3>2
  <2>2. AnswersAreOutcomes'
    <3>1. \A d \in Calls : AnswerFits(d)'
      BY <1>1, <1>5, <2>1, Halves DEF CacheInv, AnswerFits
    <3>2. \A s \in Stores, g \in Gens, k \in CacheKeys : EntryFits(s, g, k)'
      BY <1>1, <1>5, <2>1, Halves DEF CacheInv, EntryFits
    <3> QED BY <3>1, <3>2, HalvesNext
  <2>3. RunsAreOver'
    BY <1>1, <1>5, <2>1 DEF CacheInv, RunsAreOver
  <2> QED BY <2>2, <2>3
<1>13. e.epoch >= arrived[c]
  <2>0. e.epoch \in Nat /\ seenGen[c] \in Nat /\ arrived[c] \in Nat /\ emptied[Home(c)] \in Nat
    BY <1>2, <1>3, Places DEF CacheTypeOK, Entry
  <2>1. CASE pc[c] = "lookup" /\ ~OverRedis(c)
    <3>1. Home(c) \in Procs /\ seenGen[c] = 0
      BY <1>2, <2>1, Places DEF CacheInv, SeenGens
    <3>2. e.epoch = emptied[Home(c)]
      BY <1>1, <1>3, <3>1 DEF e, CacheInv, Epochs
    <3> QED BY <2>0, <3>2 DEF CacheInv, SeenGens
  <2>2. CASE pc[c] = "get"
    <3>1. Home(c) = Redis /\ arrived[c] <= seenGen[c]
      BY <2>2 DEF CacheInv, SeenGens, OverRedis
    <3>2. e.epoch >= seenGen[c]
      BY <1>1, <1>3, <3>1 DEF e, CacheInv, Epochs
    <3> QED BY <2>0, <3>1, <3>2
  <2> QED BY <1>1, <2>1, <2>2
<1>14. OlderEntriesAreGone'
  BY <1>1, <1>5, <1>13 DEF CacheInv, OlderEntriesAreGone
<1> QED BY <1>7, <1>8, <1>9, <1>10, <1>11, <1>12, <1>14 DEF CacheInv

\* Coalesce, with no flight of the key: no waiter looks at the place the flight takes.
LEMMA LeadStep ==
    ASSUME CacheInv, NEW c \in Calls, Lead(c)
    PROVE  CacheInv'
<1>1. /\ UNCHANGED <<backend, data, gen, entries, emptied, leader, outcome, result, seenGen, answer, arrived, wpc>>
      /\ flights' = [flights EXCEPT ![ProcOf[c]][CallKey[c]] = c]
      /\ pc' = [pc EXCEPT ![c] = "run"] /\ pc[c] = "coalesce" /\ Flight(c) = Nobody
  BY DEF Lead, Goto, storage
<1>2. CacheTypeOK /\ ProcOf[c] \in Procs /\ CallKey[c] \in CacheKeys
  BY Places DEF CacheInv
<1>3. \A d \in Calls : Home(d)' = Home(d) /\ OverRedis(d)' = OverRedis(d)
  BY <1>1 DEF Home, StoreOf, OverRedis
<1>4. pc'[c] = "run" /\ \A d \in Calls \ {c} : pc'[d] = pc[d]
  BY <1>1, <1>2 DEF CacheTypeOK
<1>5. \A p \in Procs, k \in CacheKeys :
        flights'[p][k] = IF p = ProcOf[c] /\ k = CallKey[c] THEN c ELSE flights[p][k]
  BY <1>1, <1>2 DEF CacheTypeOK
<1>6. Flight(c)' = c /\ \A d \in Calls : Flight(d) # Nobody => Flight(d)' = Flight(d)
  BY <1>1, <1>2, <1>5, Places DEF Flight
<1>7. /\ InFlight(c)' /\ ~InFlight(c)
      /\ \A d \in Calls \ {c} : InFlight(d)' <=> InFlight(d)
  BY <1>1, <1>4 DEF InFlight
<1>8. CacheTypeOK'
  <2>1. flights' \in [Procs -> [CacheKeys -> Calls \union {Nobody}]]
    BY <1>1, <1>2 DEF CacheTypeOK
  <2> QED BY <1>1, <1>2, <2>1 DEF CacheTypeOK, Labels
<1>9. GensCount' /\ Epochs' /\ AnswersAreOutcomes' /\ RunsAreOver' /\ OlderEntriesAreGone'
  <2>1. GensCount' /\ Epochs'
    BY <1>1 DEF CacheInv, GensCount, Epochs, Done
  <2>2. AnswersAreOutcomes'
    BY <1>1 DEF CacheInv, AnswersAreOutcomes
  <2>3. answer[c] = Nothing
    BY <1>1 DEF CacheInv, RunsAreOver
  <2>4. RunsAreOver'
    BY <1>1, <1>4, <2>3 DEF CacheInv, RunsAreOver
  <2>5. OlderEntriesAreGone'
    BY <1>1, <1>4 DEF CacheInv, OlderEntriesAreGone
  <2> QED BY <2>1, <2>2, <2>4, <2>5
<1>10. SeenGens'
  BY <1>1, <1>3, <1>4 DEF CacheInv, SeenGens
<1>11. RunsOnce'
  BY <1>1, <1>4, <1>6, <1>7 DEF CacheInv, RunsOnce
<1>12. ResultsAreOutcomes'
  BY <1>1, <1>4 DEF CacheInv, ResultsAreOutcomes, Cacheable
<1>13. FlightsAreLive'
  <2> SUFFICES ASSUME NEW p \in Procs, NEW k \in CacheKeys, flights'[p][k] # Nobody
               PROVE  LET l == flights'[p][k] IN pc'[l] \in {"run", "land"} /\ ProcOf[l] = p /\ CallKey[l] = k
    BY DEF FlightsAreLive, InFlight
  <2>1. CASE p = ProcOf[c] /\ k = CallKey[c]
    BY <1>4, <1>5, <2>1
  <2>2. CASE ~(p = ProcOf[c] /\ k = CallKey[c])
    <3>1. flights'[p][k] = flights[p][k] /\ flights[p][k] \in Calls
      BY <1>2, <1>5, <2>2 DEF CacheTypeOK
    <3>2. InFlight(flights[p][k]) /\ ProcOf[flights[p][k]] = p /\ CallKey[flights[p][k]] = k
      BY <3>1 DEF CacheInv, FlightsAreLive
    <3> QED BY <1>4, <3>1, <3>2 DEF InFlight
  <2> QED BY <2>1, <2>2
<1>14. WaitersHaveALeader'
  BY <1>1, <1>4, <1>6, <1>7 DEF CacheInv, WaitersHaveALeader
<1> QED BY <1>8, <1>9, <1>10, <1>11, <1>12, <1>13, <1>14 DEF CacheInv

\* The body ends: its outcome is the only one of this call, so nothing refers to it yet.
LEMMA RunStep ==
    ASSUME CacheInv, NEW c \in Calls, NEW kind \in Kinds, RunQuery(c, kind)
    PROVE  CacheInv'
<1> DEFINE o == [kind |-> kind, version |-> data, by |-> c]
<1>1. /\ UNCHANGED <<backend, data, gen, entries, emptied, flights, leader, result, seenGen, answer, arrived, wpc>>
      /\ outcome' = [outcome EXCEPT ![c] = o]
      /\ pc' = [pc EXCEPT ![c] = "land"] /\ pc[c] = "run"
  BY DEF RunQuery, Goto, storage
<1>2. CacheTypeOK /\ outcome[c] = Nothing /\ Flight(c) = c
  BY <1>1 DEF CacheInv, RunsOnce, InFlight
<1>3. o \in Outcome /\ o # Nothing /\ o.by = c
  BY <1>2 DEF Outcome, CacheTypeOK
<1>4. \A d \in Calls : Home(d)' = Home(d) /\ OverRedis(d)' = OverRedis(d)
  BY <1>1 DEF Home, StoreOf, OverRedis
<1>5. /\ pc'[c] = "land" /\ outcome'[c] = o
      /\ \A d \in Calls \ {c} : pc'[d] = pc[d] /\ outcome'[d] = outcome[d]
  BY <1>1, <1>2 DEF CacheTypeOK
<1>6. \A d \in Calls : InFlight(d)' <=> InFlight(d)
  BY <1>1, <1>5 DEF InFlight
<1>7. FlightsAreLive' /\ \A d \in Calls : Flight(d)' = Flight(d)
  BY <1>1, <1>6, FlightsKept
<1>8. CacheTypeOK'
  BY <1>1, <1>2, <1>3 DEF CacheTypeOK, Labels
<1>9. GensCount' /\ Epochs' /\ OlderEntriesAreGone'
  BY <1>1, <1>5 DEF CacheInv, GensCount, Epochs, Done, OlderEntriesAreGone
<1>10. SeenGens'
  BY <1>1, <1>4, <1>5 DEF CacheInv, SeenGens
<1>11. RunsOnce'
  BY <1>3, <1>5, <1>6, <1>7 DEF CacheInv, RunsOnce
<1>12. ResultsAreOutcomes'
  <2>1. \A d \in Calls : result[d] # Nothing => result[d].by \in Calls /\ result[d].by # c
    BY <1>2 DEF CacheInv, ResultsAreOutcomes, CacheTypeOK, Outcome
  <2> QED BY <1>1, <1>5, <2>1 DEF CacheInv, ResultsAreOutcomes, Cacheable
<1>13. AnswersAreOutcomes' /\ RunsAreOver'
  <2>1. \A d \in Calls : answer[d] # Nothing => answer[d].by \in Calls /\ answer[d].by # c
    BY <1>2 DEF CacheInv, RunsAreOver, CacheTypeOK, Outcome, Entry
  <2>2. \A s \in Stores, g \in Gens, k \in CacheKeys : entries[s][g][k] # Nothing =>
          entries[s][g][k].by \in Calls /\ entries[s][g][k].by # c
    <3> SUFFICES ASSUME NEW s \in Stores, NEW g \in Gens, NEW k \in CacheKeys, entries[s][g][k] # Nothing
                 PROVE  entries[s][g][k].by \in Calls /\ entries[s][g][k].by # c
      OBVIOUS
    <3>1. entries[s][g][k] \in Entry
      BY <1>2 DEF CacheTypeOK
    <3> QED BY <1>2, <3>1 DEF CacheInv, RunsAreOver, Entry
  <2>3. AnswersAreOutcomes'
    <3>1. \A d \in Calls : AnswerFits(d)'
      BY <1>1, <1>5, <2>1, <2>2, Halves DEF CacheInv, AnswerFits
    <3>2. \A s \in Stores, g \in Gens, k \in CacheKeys : EntryFits(s, g, k)'
      BY <1>1, <1>5, <2>1, <2>2, Halves DEF CacheInv, EntryFits
    <3> QED BY <3>1, <3>2, HalvesNext
  <2>4. RunsAreOver'
    BY <1>1, <1>5, <2>1, <2>2 DEF CacheInv, RunsAreOver
  <2> QED BY <2>3, <2>4
<1>14. WaitersHaveALeader'
  BY <1>1, <1>5, <1>6, <1>7 DEF CacheInv, WaitersHaveALeader
<1> QED BY <1>7, <1>8, <1>9, <1>10, <1>11, <1>12, <1>13, <1>14 DEF CacheInv

\* The flight ends: the waiters find its result, and the place is free.
LEMMA LandStep ==
    ASSUME CacheInv, NEW c \in Calls, Land(c)
    PROVE  CacheInv'
<1>1. /\ UNCHANGED <<backend, data, gen, entries, emptied, leader, outcome, seenGen, answer, arrived, wpc>>
      /\ flights' = [flights EXCEPT ![ProcOf[c]][CallKey[c]] = Nobody]
      /\ result' = [result EXCEPT ![c] = outcome[c]] /\ pc[c] = "land"
      /\ \E label \in {"done", "store"} : pc' = [pc EXCEPT ![c] = label]
  BY DEF Land, Goto, storage
<1>2. CacheTypeOK /\ ProcOf[c] \in Procs /\ CallKey[c] \in CacheKeys
  BY Places DEF CacheInv
<1>3. outcome[c] # Nothing /\ outcome[c].by = c /\ Flight(c) = c /\ outcome[c] \in Outcome
  BY <1>1, <1>2 DEF CacheInv, RunsOnce, InFlight, CacheTypeOK
<1>4. \A d \in Calls : Home(d)' = Home(d) /\ OverRedis(d)' = OverRedis(d)
  BY <1>1 DEF Home, StoreOf, OverRedis
<1>5. /\ pc'[c] \in {"done", "store"} /\ result'[c] = outcome[c]
      /\ \A d \in Calls \ {c} : pc'[d] = pc[d] /\ result'[d] = result[d]
  BY <1>1, <1>2 DEF CacheTypeOK
<1>6. \A p \in Procs, k \in CacheKeys :
        flights'[p][k] = IF p = ProcOf[c] /\ k = CallKey[c] THEN Nobody ELSE flights[p][k]
  BY <1>1, <1>2 DEF CacheTypeOK
<1>7. ~InFlight(c)' /\ \A d \in Calls \ {c} : InFlight(d)' <=> InFlight(d)
  BY <1>5 DEF InFlight
<1>8. \A d \in Calls \ {c} : Flight(d) = d => Flight(d)' = d
  <2> SUFFICES ASSUME NEW d \in Calls \ {c}, Flight(d) = d PROVE Flight(d)' = d
    OBVIOUS
  <2>1. ~(ProcOf[d] = ProcOf[c] /\ CallKey[d] = CallKey[c])
    BY <1>3 DEF Flight
  <2> QED BY <1>2, <1>6, <2>1, Places DEF Flight
<1>9. CacheTypeOK'
  <2>1. flights' \in [Procs -> [CacheKeys -> Calls \union {Nobody}]]
    BY <1>1, <1>2 DEF CacheTypeOK
  <2> QED BY <1>1, <1>2, <1>3, <2>1 DEF CacheTypeOK, Labels
<1>10. answer[c] = Nothing
  BY <1>1 DEF CacheInv, RunsAreOver
<1>11. GensCount' /\ Epochs'
  BY <1>1 DEF CacheInv, GensCount, Epochs, Done
<1>12. AnswersAreOutcomes'
  BY <1>1 DEF CacheInv, AnswersAreOutcomes
<1>13. RunsAreOver' /\ OlderEntriesAreGone'
  BY <1>1, <1>5, <1>10 DEF CacheInv, RunsAreOver, OlderEntriesAreGone
<1>14. SeenGens'
  BY <1>1, <1>4, <1>5 DEF CacheInv, SeenGens
<1>15. RunsOnce'
  BY <1>1, <1>5, <1>7, <1>8 DEF CacheInv, RunsOnce
<1>16. ResultsAreOutcomes'
  BY <1>1, <1>3, <1>5 DEF CacheInv, ResultsAreOutcomes, Cacheable
<1>17. FlightsAreLive'
  <2> SUFFICES ASSUME NEW p \in Procs, NEW k \in CacheKeys, flights'[p][k] # Nobody
               PROVE  LET l == flights'[p][k] IN pc'[l] \in {"run", "land"} /\ ProcOf[l] = p /\ CallKey[l] = k
    BY DEF FlightsAreLive, InFlight
  <2>1. ~(p = ProcOf[c] /\ k = CallKey[c]) /\ flights'[p][k] = flights[p][k] /\ flights[p][k] \in Calls
    BY <1>2, <1>6 DEF CacheTypeOK
  <2>2. flights[p][k] # c
    BY <2>1 DEF CacheInv, FlightsAreLive
  <2>3. InFlight(flights[p][k]) /\ ProcOf[flights[p][k]] = p /\ CallKey[flights[p][k]] = k
    BY <2>1 DEF CacheInv, FlightsAreLive
  <2> QED BY <1>5, <2>1, <2>2, <2>3 DEF InFlight
<1>18. WaitersHaveALeader'
  <2> SUFFICES ASSUME NEW d \in Calls, pc'[d] = "waiting"
               PROVE  LET l == leader'[d] IN
                      /\ l \in Calls /\ CallKey[l] = CallKey[d] /\ ProcOf[l] = ProcOf[d]
                      /\ \/ result'[l] # Nothing
                         \/ pc'[l] \in {"run", "land"} /\ flights'[ProcOf[l]][CallKey[l]] = l
    BY DEF WaitersHaveALeader, InFlight, Flight
  <2>1. pc[d] = "waiting" /\ leader'[d] = leader[d]
    BY <1>1, <1>5
  <2>2. CASE leader[d] = c
    BY <1>3, <1>5, <2>1, <2>2 DEF CacheInv, WaitersHaveALeader
  <2>3. CASE leader[d] # c
    <3> DEFINE l == leader[d]
    <3>1. /\ l \in Calls /\ CallKey[l] = CallKey[d] /\ ProcOf[l] = ProcOf[d]
          /\ result[l] # Nothing \/ (InFlight(l) /\ Flight(l) = l)
      BY <2>1 DEF CacheInv, WaitersHaveALeader
    <3>2. Flight(l) = l => flights'[ProcOf[l]][CallKey[l]] = l
      BY <2>3, <3>1, <1>2, <1>3, <1>6, Places DEF Flight
    <3> QED BY <1>5, <2>1, <2>3, <3>1, <3>2 DEF InFlight
  <2> QED BY <2>2, <2>3
<1> QED BY <1>9, <1>11, <1>12, <1>13, <1>14, <1>15, <1>16, <1>17, <1>18 DEF CacheInv

\* A waiter takes the result of the flight it joined, a run of its own key.
LEMMA WakeStep ==
    ASSUME CacheInv, NEW c \in Calls, Wake(c)
    PROVE  CacheInv'
<1>1. /\ UNCHANGED <<backend, data, gen, entries, emptied, flights, outcome, seenGen, answer, arrived, wpc>>
      /\ result' = [result EXCEPT ![c] = result[leader[c]]] /\ result[leader[c]] # Nothing
      /\ leader' = [leader EXCEPT ![c] = Nobody]
      /\ pc' = [pc EXCEPT ![c] = "store"] /\ pc[c] = "waiting"
  BY DEF Wake, Goto, storage
<1>2. CacheTypeOK /\ leader[c] \in Calls /\ CallKey[leader[c]] = CallKey[c]
  BY <1>1 DEF CacheInv, WaitersHaveALeader
<1>3. \A d \in Calls : Home(d)' = Home(d) /\ OverRedis(d)' = OverRedis(d)
  BY <1>1 DEF Home, StoreOf, OverRedis
<1>4. /\ pc'[c] = "store" /\ result'[c] = result[leader[c]]
      /\ \A d \in Calls \ {c} : pc'[d] = pc[d] /\ result'[d] = result[d] /\ leader'[d] = leader[d]
  BY <1>1, <1>2 DEF CacheTypeOK
<1>5. \A d \in Calls : InFlight(d)' <=> InFlight(d)
  BY <1>1, <1>4 DEF InFlight
<1>6. FlightsAreLive' /\ \A d \in Calls : Flight(d)' = Flight(d)
  BY <1>1, <1>5, FlightsKept
<1>7. CacheTypeOK'
  BY <1>1, <1>2 DEF CacheTypeOK, Labels
<1>8. answer[c] = Nothing
  BY <1>1 DEF CacheInv, RunsAreOver
<1>9. GensCount' /\ Epochs'
  BY <1>1 DEF CacheInv, GensCount, Epochs, Done
<1>10. AnswersAreOutcomes'
  BY <1>1 DEF CacheInv, AnswersAreOutcomes
<1>11. RunsAreOver' /\ OlderEntriesAreGone'
  BY <1>1, <1>4, <1>8 DEF CacheInv, RunsAreOver, OlderEntriesAreGone
<1>12. SeenGens'
  BY <1>1, <1>3, <1>4 DEF CacheInv, SeenGens
<1>13. RunsOnce'
  BY <1>1, <1>4, <1>5, <1>6 DEF CacheInv, RunsOnce
<1>14. ResultsAreOutcomes'
  BY <1>1, <1>2, <1>4 DEF CacheInv, ResultsAreOutcomes, Cacheable
<1>15. WaitersHaveALeader'
  <2>1. \A l \in Calls : result[l] # Nothing => result'[l] # Nothing
    BY <1>1, <1>4
  <2> QED BY <1>1, <1>4, <1>5, <1>6, <2>1 DEF CacheInv, WaitersHaveALeader
<1> QED BY <1>6, <1>7, <1>9, <1>10, <1>11, <1>12, <1>13, <1>14, <1>15 DEF CacheInv

\* The caller returns its result, which is no entry; the facts about entries are left to each writer.
LEMMA ReturnFrame ==
    ASSUME CacheInv, NEW c \in Calls, pc[c] \in {"store", "write"}, Return(c),
           UNCHANGED <<backend, data, gen, emptied, flights, leader, outcome, result, arrived, wpc>>
    PROVE  /\ GensCount' /\ SeenGens' /\ RunsOnce' /\ ResultsAreOutcomes' /\ FlightsAreLive' /\ WaitersHaveALeader'
           /\ OlderEntriesAreGone'
           /\ entries' \in [Stores -> [Gens -> [CacheKeys -> Entry \union {Nothing}]]] => CacheTypeOK'
           /\ \A d \in Calls : answer'[d] # Nothing =>
                 /\ pc'[d] = "done" /\ outcome'[answer'[d].by] # Nothing
                 /\ CallKey[answer'[d].by] = CallKey[d]
                 /\ answer'[d].kind = outcome'[answer'[d].by].kind
                 /\ answer'[d].version = outcome'[answer'[d].by].version
<1>1. /\ answer' = [answer EXCEPT ![c] = result[c]] /\ seenGen' = [seenGen EXCEPT ![c] = 0]
      /\ pc' = [pc EXCEPT ![c] = "done"]
  BY DEF Return, Goto
<1>2. CacheTypeOK /\ result[c] # Nothing /\ result[c] \in Outcome /\ result[c] \notin Entry
  BY OutcomeIsNoEntry DEF CacheInv, ResultsAreOutcomes, CacheTypeOK
<1>3. \A d \in Calls : Home(d)' = Home(d) /\ OverRedis(d)' = OverRedis(d)
  BY DEF Home, StoreOf, OverRedis
<1>4. /\ pc'[c] = "done" /\ answer'[c] = result[c] /\ seenGen'[c] = 0
      /\ \A d \in Calls \ {c} : pc'[d] = pc[d] /\ answer'[d] = answer[d] /\ seenGen'[d] = seenGen[d]
  BY <1>1, <1>2 DEF CacheTypeOK
<1>5. \A d \in Calls : InFlight(d)' <=> InFlight(d)
  BY <1>4 DEF InFlight
<1>6. FlightsAreLive' /\ \A d \in Calls : Flight(d)' = Flight(d)
  BY <1>5, FlightsKept
<1>7. GensCount'
  BY DEF CacheInv, GensCount, Done
<1>8. SeenGens'
  BY <1>3, <1>4 DEF CacheInv, SeenGens
<1>9. RunsOnce' /\ WaitersHaveALeader'
  BY <1>4, <1>5, <1>6 DEF CacheInv, RunsOnce, WaitersHaveALeader
<1>10. ResultsAreOutcomes'
  BY <1>4 DEF CacheInv, ResultsAreOutcomes, Cacheable
<1>11. OlderEntriesAreGone'
  BY <1>2, <1>4 DEF CacheInv, OlderEntriesAreGone
<1>12. entries' \in [Stores -> [Gens -> [CacheKeys -> Entry \union {Nothing}]]] => CacheTypeOK'
  BY <1>1, <1>2, Places DEF CacheTypeOK, Labels
<1>13. ASSUME NEW d \in Calls, answer'[d] # Nothing
       PROVE  /\ pc'[d] = "done" /\ outcome'[answer'[d].by] # Nothing
              /\ CallKey[answer'[d].by] = CallKey[d]
              /\ answer'[d].kind = outcome'[answer'[d].by].kind
              /\ answer'[d].version = outcome'[answer'[d].by].version
  <2>1. CASE d = c
    BY <1>2, <1>4, <2>1 DEF CacheInv, ResultsAreOutcomes
  <2>2. CASE d # c
    BY <1>4, <1>13, <2>2 DEF CacheInv, AnswersAreOutcomes, RunsAreOver
  <2> QED BY <2>1, <2>2
<1> QED BY <1>6, <1>7, <1>8, <1>9, <1>10, <1>11, <1>12, <1>13

\* A call that stores nothing.
LEMMA SkipStep ==
    ASSUME CacheInv, NEW c \in Calls, SkipWrite(c)
    PROVE  CacheInv'
<1>1. /\ UNCHANGED <<backend, data, gen, entries, emptied, flights, leader, outcome, result, arrived, wpc>>
      /\ Return(c) /\ pc[c] \in {"store", "write"}
  BY DEF SkipWrite, storage
<1>2. entries' \in [Stores -> [Gens -> [CacheKeys -> Entry \union {Nothing}]]]
  BY <1>1 DEF CacheInv, CacheTypeOK
<1>3. AnswersAreOutcomes' /\ RunsAreOver'
  <2>1. AnswersAreOutcomes'
    <3>1. \A d \in Calls : AnswerFits(d)'
      BY <1>1, ReturnFrame, Halves DEF CacheInv, AnswerFits
    <3>2. \A s \in Stores, g \in Gens, k \in CacheKeys : EntryFits(s, g, k)'
      BY <1>1, ReturnFrame, Halves DEF CacheInv, EntryFits
    <3> QED BY <3>1, <3>2, HalvesNext
  <2>2. RunsAreOver'
    BY <1>1, ReturnFrame DEF CacheInv, RunsAreOver
  <2> QED BY <2>1, <2>2
<1>4. Epochs'
  BY <1>1 DEF CacheInv, Epochs
<1> QED BY <1>1, <1>2, <1>3, <1>4, ReturnFrame DEF CacheInv

\* Set and SetErr: the entry is the outcome of a run of its key, under a generation its
\* store has reached.
LEMMA WriteStep ==
    ASSUME CacheInv, NEW c \in Calls, WriteEntry(c)
    PROVE  CacheInv'
<1> DEFINE e == ToEntry(c)
           s == Home(c)
           g == IF OverRedis(c) THEN seenGen[c] ELSE 0
           k == CallKey[c]
<1>1. /\ UNCHANGED <<backend, data, gen, emptied, flights, leader, outcome, result, arrived, wpc>>
      /\ entries' = [entries EXCEPT ![s][g][k] = e]
      /\ Return(c) /\ pc[c] \in {"store", "write"}
      /\ pc[c] = "store" => ~OverRedis(c) /\ Cacheable(result[c].kind)
  BY DEF WriteEntry
<1>2. CacheTypeOK /\ s \in Stores /\ k \in CacheKeys /\ g \in Gens /\ 0 \in Gens /\ emptied[s] \in Nat
  BY Places DEF CacheInv, CacheTypeOK
<1>3. /\ result[c] # Nothing /\ result[c] \in Outcome
      /\ Cacheable(result[c].kind)
      /\ CallKey[result[c].by] = k /\ outcome[result[c].by] = result[c]
  BY <1>1, <1>2 DEF CacheInv, ResultsAreOutcomes, CacheTypeOK
<1>4. /\ e \in Entry /\ e # Nothing /\ e.epoch = emptied[s]
      /\ e.by = result[c].by /\ e.kind = result[c].kind /\ e.version = result[c].version
      /\ e.kind \in {"ok", "business"}
  BY <1>2, <1>3 DEF ToEntry, Entry, Outcome, Cacheable
<1>5. /\ OverRedis(c) => s = Redis /\ g \in Nat /\ g <= emptied[Redis]
      /\ ~OverRedis(c) => s \in Procs /\ s # Redis /\ g = 0
  <2>1. CASE OverRedis(c)
    <3>1. pc[c] = "write"
      BY <1>1, <2>1
    <3> QED BY <1>2, <2>1, <3>1, Places DEF CacheInv, SeenGens, GensCount, OverRedis
  <2>2. CASE ~OverRedis(c)
    BY <1>2, <2>2, Places
  <2> QED BY <2>1, <2>2
<1> HIDE DEF e, s, g, k
<1>6. \A t \in Stores, h \in Gens, l \in CacheKeys :
        entries'[t][h][l] = IF t = s /\ h = g /\ l = k THEN e ELSE entries[t][h][l]
  BY <1>1, <1>2 DEF CacheTypeOK
<1>7. CacheTypeOK'
  <2>1. entries' \in [Stores -> [Gens -> [CacheKeys -> Entry \union {Nothing}]]]
    BY <1>1, <1>2, <1>4 DEF CacheTypeOK
  <2> QED BY <1>1, <2>1, ReturnFrame
<1>8. AnswersAreOutcomes'
  <2>1. ASSUME NEW t \in Stores, NEW h \in Gens, NEW l \in CacheKeys, entries'[t][h][l] # Nothing
        PROVE  LET run == entries'[t][h][l].by IN
               /\ CallKey[run] = l
               /\ outcome'[run].kind \in {"ok", "business"}
               /\ entries'[t][h][l].kind = outcome'[run].kind
    <3>1. CASE t = s /\ h = g /\ l = k
      BY <1>1, <1>3, <1>4, <1>6, <3>1
    <3>2. CASE ~(t = s /\ h = g /\ l = k)
      <4>1. EntryFits(t, h, l) /\ entries'[t][h][l] = entries[t][h][l] /\ outcome' = outcome
        BY <1>1, <1>6, <3>2, Halves DEF CacheInv
      <4> QED BY <2>1, <4>1 DEF EntryFits
    <3> QED BY <3>1, <3>2
  <2> QED BY <1>1, <2>1, ReturnFrame DEF AnswersAreOutcomes
<1>9. RunsAreOver'
  <2>1. ASSUME NEW t \in Stores, NEW h \in Gens, NEW l \in CacheKeys, entries'[t][h][l] # Nothing
        PROVE  LET run == entries'[t][h][l].by IN
               outcome'[run] # Nothing /\ entries'[t][h][l].version = outcome'[run].version
    <3>1. CASE t = s /\ h = g /\ l = k
      BY <1>1, <1>3, <1>4, <1>6, <3>1
    <3>2. CASE ~(t = s /\ h = g /\ l = k)
      BY <1>1, <1>6, <2>1, <3>2 DEF CacheInv, RunsAreOver
    <3> QED BY <3>1, <3>2
  <2> QED BY <1>1, <2>1, ReturnFrame DEF RunsAreOver
<1>10. Epochs'
  <2>1. ASSUME NEW h \in Gens, NEW l \in CacheKeys, entries'[Redis][h][l] # Nothing
        PROVE  entries'[Redis][h][l].epoch >= h
    <3>1. CASE Redis = s /\ h = g /\ l = k
      BY <1>2, <1>4, <1>5, <1>6, <3>1, Places
    <3>2. CASE ~(Redis = s /\ h = g /\ l = k)
      BY <1>6, <2>1, <3>2, Places DEF CacheInv, Epochs
    <3> QED BY <3>1, <3>2
  <2>2. ASSUME NEW p \in Procs, NEW l \in CacheKeys, entries'[p][0][l] # Nothing
        PROVE  entries'[p][0][l].epoch = emptied'[p]
    <3>1. p \in Stores /\ 0 \in Gens
      BY Places
    <3>2. CASE p = s /\ 0 = g /\ l = k
      BY <1>1, <1>4, <1>6, <3>1, <3>2
    <3>3. CASE ~(p = s /\ 0 = g /\ l = k)
      BY <1>1, <1>6, <2>2, <3>1, <3>3 DEF CacheInv, Epochs
    <3> QED BY <3>2, <3>3
  <2> QED BY <2>1, <2>2 DEF Epochs
<1> QED BY <1>1, <1>7, <1>8, <1>9, <1>10, ReturnFrame DEF CacheInv

-----------------------------------------------------------------------------
\* A step that moves no call: only the stores, the data and the writers change.
LEMMA StoreFrame ==
    ASSUME CacheInv, UNCHANGED <<backend, flights, callState>>,
           \A s \in Stores : gen'[s] >= gen[s] /\ emptied'[s] >= emptied[s],
           gen' \in [Stores -> Nat], emptied' \in [Stores -> Nat]
    PROVE  SeenGens' /\ RunsOnce' /\ ResultsAreOutcomes' /\ FlightsAreLive' /\ WaitersHaveALeader' /\ OlderEntriesAreGone'
<1>1. UNCHANGED <<pc, leader, outcome, result, seenGen, answer, arrived>> /\ CacheTypeOK
  BY DEF callState, CacheInv
<1>2. \A d \in Calls : Home(d)' = Home(d) /\ OverRedis(d)' = OverRedis(d) /\ InFlight(d)' = InFlight(d)
  BY <1>1 DEF Home, StoreOf, OverRedis, InFlight
<1>3. FlightsAreLive' /\ \A d \in Calls : Flight(d)' = Flight(d)
  BY <1>2, FlightsKept
<1>4. SeenGens'
  <2> SUFFICES ASSUME NEW d \in Calls
               PROVE  /\ pc[d] \notin {"get", "write"} => seenGen[d] = 0
                      /\ pc[d] \in {"get", "write"} => OverRedis(d) /\ seenGen[d] <= gen'[Redis]
                      /\ pc[d] = "get" => arrived[d] <= seenGen[d]
                      /\ arrived[d] <= emptied'[Home(d)]
    BY <1>1, <1>2 DEF SeenGens
  <2>1. /\ seenGen[d] \in Nat /\ gen[Redis] \in Nat /\ gen'[Redis] \in Nat /\ arrived[d] \in Nat
        /\ Home(d) \in Stores /\ emptied[Home(d)] \in Nat /\ emptied'[Home(d)] \in Nat
        /\ gen'[Redis] >= gen[Redis] /\ emptied'[Home(d)] >= emptied[Home(d)]
    BY <1>1, Places DEF CacheTypeOK
  <2> QED BY <2>1 DEF CacheInv, SeenGens
<1>5. RunsOnce' /\ WaitersHaveALeader'
  BY <1>1, <1>2, <1>3 DEF CacheInv, RunsOnce, WaitersHaveALeader
<1>6. ResultsAreOutcomes' /\ OlderEntriesAreGone'
  BY <1>1 DEF CacheInv, ResultsAreOutcomes, Cacheable, OlderEntriesAreGone
<1> QED BY <1>3, <1>4, <1>5, <1>6

\* Entries may be dropped at any time.
LEMMA EntriesDropped ==
    ASSUME CacheInv, UNCHANGED <<flights, callState>>,
           entries' \in [Stores -> [Gens -> [CacheKeys -> Entry \union {Nothing}]]],
           \A s \in Stores, g \in Gens, k \in CacheKeys : entries'[s][g][k] \in {entries[s][g][k], Nothing}
    PROVE  AnswersAreOutcomes' /\ RunsAreOver'
<1>1. UNCHANGED <<pc, outcome, answer>>
  BY DEF callState
<1>2. AnswersAreOutcomes'
  BY <1>1 DEF CacheInv, AnswersAreOutcomes
<1>3. RunsAreOver'
  BY <1>1 DEF CacheInv, RunsAreOver
<1> QED BY <1>2, <1>3

LEMMA LapseStep ==
    ASSUME CacheInv, NEW s \in Stores, NEW k \in CacheKeys, Lapse(s, k)
    PROVE  CacheInv'
<1>1. /\ UNCHANGED <<backend, data, gen, emptied, flights, callState, wpc>>
      /\ entries' = [entries EXCEPT ![s][gen[s]][k] = Nothing]
  BY DEF Lapse
<1>2. CacheTypeOK /\ gen[s] \in Gens /\ gen \in [Stores -> Nat]
  BY Places DEF CacheInv, CacheTypeOK
<1>3. /\ entries' \in [Stores -> [Gens -> [CacheKeys -> Entry \union {Nothing}]]]
      /\ \A t \in Stores, g \in Gens, l \in CacheKeys : entries'[t][g][l] \in {entries[t][g][l], Nothing}
  BY <1>1, <1>2 DEF CacheTypeOK
<1>4. SeenGens' /\ RunsOnce' /\ ResultsAreOutcomes' /\ FlightsAreLive' /\ WaitersHaveALeader' /\ OlderEntriesAreGone'
  BY <1>1, <1>2, StoreFrame DEF CacheTypeOK
<1>5. AnswersAreOutcomes' /\ RunsAreOver'
  BY <1>1, <1>3, EntriesDropped
<1>6. GensCount'
  BY <1>1 DEF CacheInv, GensCount, Done
<1>7. Epochs'
  BY <1>1, <1>3, Places DEF CacheInv, Epochs
<1>8. CacheTypeOK'
  BY <1>1, <1>2, <1>3 DEF CacheTypeOK, callState
<1> QED BY <1>4, <1>5, <1>6, <1>7, <1>8 DEF CacheInv

\* A writer that finishes is one more of those done.
LEMMA OneMoreDone ==
    ASSUME CacheTypeOK, NEW w \in Writers, wpc[w] = "appended", wpc' = [wpc EXCEPT ![w] = "done"]
    PROVE  /\ Cardinality(Done') = Cardinality(Done) + 1
           /\ Cardinality(Done) \in Nat /\ Cardinality(Done') <= Cardinality(Writers)
<1>1. Done' = Done \union {w} /\ w \notin Done
  BY DEF Done, CacheTypeOK
<1>2. Done \in SUBSET Writers /\ Done' \in SUBSET Writers
  BY DEF Done
<1>3. IsFiniteSet(Done) /\ Cardinality(Done) \in Nat /\ Cardinality(Done') <= Cardinality(Writers)
  BY <1>2, FS_Subset, FS_CardinalityType
<1> QED BY <1>1, <1>3, FS_AddElement

\* InvalidateAll: a memory store forgets all it held, Redis goes on to a new generation.
LEMMA InvalidateStep ==
    ASSUME CacheInv, NEW w \in Writers, Invalidate(w)
    PROVE  CacheInv'
<1>1. /\ UNCHANGED <<backend, data, flights, callState>>
      /\ wpc[w] = "appended" /\ wpc' = [wpc EXCEPT ![w] = "done"]
      /\ emptied' = [emptied EXCEPT ![Home(w)] = @ + 1]
      /\ \/ Home(w) = Redis /\ gen' = [gen EXCEPT ![Redis] = @ + 1] /\ entries' = entries
         \/ Home(w) # Redis /\ gen' = gen
            /\ entries' = [entries EXCEPT ![Home(w)][0] = [k \in CacheKeys |-> Nothing]]
  BY DEF Invalidate
<1>2. CacheTypeOK /\ Home(w) \in Stores /\ 0 \in Gens /\ gen \in [Stores -> Nat] /\ emptied \in [Stores -> Nat]
  BY Places DEF CacheInv, CacheTypeOK, Home, StoreOf, Stores
<1>3. /\ Cardinality(Done') = Cardinality(Done) + 1
      /\ Cardinality(Done) \in Nat /\ Cardinality(Done') <= Cardinality(Writers) /\ Cardinality(Writers) \in Nat
  BY <1>1, <1>2, OneMoreDone, Places
<1>4. /\ emptied' \in [Stores -> Nat]
      /\ \A s \in Stores : emptied'[s] = IF s = Home(w) THEN emptied[s] + 1 ELSE emptied[s]
  BY <1>1, <1>2
<1>5. /\ gen' \in [Stores -> Nat]
      /\ \A s \in Stores : gen'[s] = IF s = Redis /\ Home(w) = Redis THEN gen[s] + 1 ELSE gen[s]
  BY <1>1, <1>2
<1>6. GensCount'
  <2>1. \A s \in Stores : gen[s] \in Nat /\ gen[s] <= Cardinality(Done)
    BY <1>2 DEF CacheInv, GensCount
  <2>2. \A s \in Stores : gen'[s] <= Cardinality(Done')
    BY <1>3, <1>5, <2>1
  <2> QED BY <1>4, <1>5, <2>2, Places DEF CacheInv, GensCount
<1>7. gen' \in [Stores -> Gens]
  <2>1. \A s \in Stores : gen'[s] \in Gens
    BY <1>3, <1>5, <1>6 DEF GensCount, Gens
  <2> QED BY <1>5, <2>1
<1>8. /\ entries' \in [Stores -> [Gens -> [CacheKeys -> Entry \union {Nothing}]]]
      /\ \A s \in Stores, g \in Gens, k \in CacheKeys : entries'[s][g][k] \in {entries[s][g][k], Nothing}
      /\ Home(w) # Redis => \A k \in CacheKeys : entries'[Home(w)][0][k] = Nothing
  <2>1. entries \in [Stores -> [Gens -> [CacheKeys -> Entry \union {Nothing}]]]
    BY <1>2 DEF CacheTypeOK
  <2>2. CASE entries' = entries /\ Home(w) = Redis
    BY <2>1, <2>2
  <2>3. CASE Home(w) # Redis /\ entries' = [entries EXCEPT ![Home(w)][0] = [k \in CacheKeys |-> Nothing]]
    <3> DEFINE none == [k \in CacheKeys |-> Nothing]
    <3>1. none \in [CacheKeys -> Entry \union {Nothing}] /\ \A k \in CacheKeys : none[k] = Nothing
      OBVIOUS
    <3> HIDE DEF none
    <3>2. entries' = [entries EXCEPT ![Home(w)][0] = none]
      BY <2>3 DEF none
    <3>3. entries' \in [Stores -> [Gens -> [CacheKeys -> Entry \union {Nothing}]]]
      BY <1>2, <2>1, <3>1, <3>2
    <3>4. \A s \in Stores, g \in Gens : entries'[s][g] = IF s = Home(w) /\ g = 0 THEN none ELSE entries[s][g]
      BY <1>2, <2>1, <3>2
    <3> QED BY <1>2, <3>1, <3>3, <3>4
  <2> QED BY <1>1, <2>2, <2>3
<1>9. SeenGens' /\ RunsOnce' /\ ResultsAreOutcomes' /\ FlightsAreLive' /\ WaitersHaveALeader' /\ OlderEntriesAreGone'
  BY <1>1, <1>2, <1>4, <1>5, StoreFrame
<1>10. AnswersAreOutcomes' /\ RunsAreOver'
  BY <1>1, <1>8, EntriesDropped
<1>11. Epochs'
  <2>1. \A g \in Gens, k \in CacheKeys : entries'[Redis][g][k] # Nothing => entries'[Redis][g][k].epoch >= g
    <3> SUFFICES ASSUME NEW g \in Gens, NEW k \in CacheKeys, entries'[Redis][g][k] # Nothing
                 PROVE  entries'[Redis][g][k].epoch >= g
      OBVIOUS
    <3>1. entries'[Redis][g][k] = entries[Redis][g][k]
      BY <1>8, Places
    <3> QED BY <3>1 DEF CacheInv, Epochs
  <2>2. ASSUME NEW p \in Procs, NEW k \in CacheKeys, entries'[p][0][k] # Nothing
        PROVE  entries'[p][0][k].epoch = emptied'[p]
    <3>1. p \in Stores /\ p # Redis
      BY Places
    <3>2. p # Home(w)
      BY <1>8, <2>2, <3>1
    <3>3. entries'[p][0][k] = entries[p][0][k]
      BY <1>2, <1>8, <2>2, <3>1
    <3>4. entries[p][0][k].epoch = emptied[p]
      BY <2>2, <3>3 DEF CacheInv, Epochs
    <3>5. emptied'[p] = emptied[p]
      BY <1>4, <3>1, <3>2
    <3> QED BY <3>3, <3>4, <3>5
  <2> QED BY <2>1, <2>2 DEF Epochs
<1>12. CacheTypeOK'
  BY <1>1, <1>2, <1>4, <1>7, <1>8 DEF CacheTypeOK, callState
<1> QED BY <1>6, <1>9, <1>10, <1>11, <1>12 DEF CacheInv

\* An event is appended, or its invalidation is lost: no store changes.
LEMMA WriterStep ==
    ASSUME CacheInv, NEW w \in Writers, AppendEvent(w) \/ LoseInvalidation(w)
    PROVE  CacheInv'
<1>1. UNCHANGED <<backend, gen, entries, emptied, flights, callState>>
  BY DEF AppendEvent, LoseInvalidation, storage
<1>2. CacheTypeOK /\ gen \in [Stores -> Nat] /\ emptied \in [Stores -> Nat]
  BY Places DEF CacheInv, CacheTypeOK
<1>3. CacheTypeOK'
  <2>1. data' \in Nat /\ wpc' \in [Writers -> {"idle", "appended", "done"}]
    <3>1. CASE AppendEvent(w)
      BY <1>2, <3>1 DEF AppendEvent, CacheTypeOK
    <3>2. CASE LoseInvalidation(w)
      BY <1>2, <3>2 DEF LoseInvalidation, CacheTypeOK
    <3> QED BY <3>1, <3>2
  <2> QED BY <1>1, <1>2, <2>1 DEF CacheTypeOK, callState
<1>4. SeenGens' /\ RunsOnce' /\ ResultsAreOutcomes' /\ FlightsAreLive' /\ WaitersHaveALeader' /\ OlderEntriesAreGone'
  BY <1>1, <1>2, StoreFrame
<1>5. AnswersAreOutcomes' /\ RunsAreOver' /\ Epochs'
  <2>1. UNCHANGED <<pc, outcome, answer>>
    BY <1>1 DEF callState
  <2>2. AnswersAreOutcomes'
    BY <1>1, <2>1 DEF CacheInv, AnswersAreOutcomes
  <2>3. RunsAreOver' /\ Epochs'
    BY <1>1, <2>1 DEF CacheInv, RunsAreOver, Epochs
  <2> QED BY <2>2, <2>3
<1>6. GensCount'
  <2>1. CASE AppendEvent(w)
    <3>1. Done' = Done
      BY <1>2, <2>1 DEF AppendEvent, Done, CacheTypeOK
    <3> QED BY <1>1, <3>1 DEF CacheInv, GensCount
  <2>2. CASE LoseInvalidation(w)
    <3>1. Cardinality(Done') = Cardinality(Done) + 1 /\ Cardinality(Done) \in Nat
      BY <1>2, <2>2, OneMoreDone DEF LoseInvalidation
    <3>2. \A s \in Stores : gen[s] \in Nat /\ gen[s] <= Cardinality(Done)
      BY <1>2 DEF CacheInv, GensCount
    <3> QED BY <1>1, <3>1, <3>2 DEF CacheInv, GensCount
  <2> QED BY <2>1, <2>2
<1> QED BY <1>3, <1>4, <1>5, <1>6 DEF CacheInv

LEMMA CacheStutter == ASSUME CacheInv, UNCHANGED cacheVars PROVE CacheInv'
<1>1. UNCHANGED <<backend, data, gen, entries, emptied, flights, callState, wpc>>
  BY DEF cacheVars, storage
<1>2. CacheTypeOK /\ gen \in [Stores -> Nat] /\ emptied \in [Stores -> Nat]
  BY Places DEF CacheInv, CacheTypeOK
<1>3. SeenGens' /\ RunsOnce' /\ ResultsAreOutcomes' /\ FlightsAreLive' /\ WaitersHaveALeader' /\ OlderEntriesAreGone'
  BY <1>1, <1>2, StoreFrame
<1>4. CacheTypeOK' /\ GensCount'
  BY <1>1 DEF CacheInv, CacheTypeOK, callState, GensCount, Done
<1>5. AnswersAreOutcomes' /\ RunsAreOver' /\ Epochs'
  <2>1. AnswersAreOutcomes'
    BY <1>1, OutcomesFrame DEF CacheInv, callState
  <2>2. RunsAreOver'
    BY <1>1 DEF CacheInv, RunsAreOver, callState
  <2>3. Epochs'
    BY <1>1 DEF CacheInv, Epochs
  <2> QED BY <2>1, <2>2, <2>3
<1> QED BY <1>3, <1>4, <1>5 DEF CacheInv

\* The invariant is inductive.
THEOREM CacheInvariant == CacheSpec => []CacheInv
<1>1. CacheInv /\ [CacheNext]_cacheVars => CacheInv'
  BY MoveStep, HitStep, LeadStep, RunStep, LandStep, WakeStep, SkipStep, WriteStep, LapseStep, InvalidateStep,
     WriterStep, CacheStutter DEF CacheNext, Proceed
<1> QED BY <1>1, CacheInitInv, PTL DEF CacheSpec

\* One run at a time serves the calls of a key in a process, a waiter's run goes on or
\* has landed, what is stored and answered is the outcome of a run of that key, and no
\* entry written before an invalidation answers a call that began after it (Coalesce,
\* Get, Set, SetErr, InvalidateAll), whatever calls to Redis fail.
THEOREM SoundCache == CacheSpec => []CachedAnswersAreSound
<1>1. CacheInv => OneRunPerKey
  BY DEF CacheInv, RunsOnce, OneRunPerKey, Flight
<1>2. CacheInv => CachedAnswersAreSound
  BY <1>1 DEF CacheInv, CachedAnswersAreSound
<1> QED BY <1>2, CacheInvariant, PTL
=============================================================================
