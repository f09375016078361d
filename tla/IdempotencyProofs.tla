------------------------- MODULE IdempotencyProofs -------------------------
(***************************************************************************)
(* Machine-checked proofs about Idempotency, for any number of requests,   *)
(* keys and commands. The inductive invariant IInv ties every request that *)
(* runs, waits or has a cached result to the record its key has now.       *)
(***************************************************************************)
EXTENDS Idempotency, TLAPS

USE NoKeyAssumption, NobodyAssumption, FingerprintAssumption,
    AbsentAssumption

\* The record a request's Begin creates, and what its Complete makes of it.
Pending(p) == InFlight(p, FingerprintOf[cmd[p]])
Settled(p) == [state |-> "terminal", fp |-> FingerprintOf[cmd[p]], done |-> p, run |-> p]

\* The record in flight belongs to a request that runs under the key, or that
\* panicked before settling it; its channel is open.
InFlightIsOwned == \A k \in Keys : Present(k) /\ ~IsTerminal(k) =>
    \E p \in Requests :
        /\ key[p] = k /\ p \notin closed /\ records[k] = Pending(p)
        /\ Running(p) \/ (pc[p] = "done" /\ outcome[p] = "panic")

\* The terminal record holds the result of a finished run of its own key.
TerminalIsCached == \A k \in Keys : IsTerminal(k) =>
    \E p \in Requests : Cached(p) /\ key[p] = k /\ p \in closed /\ records[k] = Settled(p)

\* A result inside its window is the one its key remembers.
CachedIsTerminal == \A p \in Requests : Cached(p) /\ p \notin lapsed =>
    IsTerminal(key[p]) /\ records[key[p]].run = p

\* Only finished requests have closed their channel or let their window lapse.
OverIsDone == \A p \in closed \union lapsed : pc[p] = "done"

\* Only a request with a key waits.
WaitersHaveKeys == \A p \in Requests : pc[p] \in {"wait", "blocked"} => key[p] # NoKey

\* A body that has not returned has no outcome yet.
NotRunYet == \A p \in Requests : pc[p] \notin {"settle", "done"} => outcome[p] = "none"

IInv == TypeOK /\ WaitersHaveKeys /\ NotRunYet /\ RunnerOwnsRecord /\ InFlightIsOwned /\ TerminalIsCached
        /\ CachedIsTerminal /\ OverIsDone

-----------------------------------------------------------------------------
\* The initial states satisfy the inductive invariant: nobody runs, nothing is stored.
LEMMA InitInvariant == Init => IInv
  BY DEF Init, IInv, TypeOK, RunnerOwnsRecord, InFlightIsOwned, TerminalIsCached,
         CachedIsTerminal, OverIsDone, WaitersHaveKeys, NotRunYet, Running, Cached, IsTerminal, Present,
         Labels, AnswerKinds, Silence, Told, RunEndings, Cacheable

\* Every step keeps the types: no handler writes a value outside them.
LEMMA TypeInvariant == IInv /\ [Next]_vars => TypeOK'
<1> SUFFICES ASSUME TypeOK, WaitersHaveKeys, TerminalIsCached, [Next]_vars PROVE TypeOK'
  BY DEF IInv
<1> USE DEF TypeOK, Goto, Answer, Told, request, store, Labels, AnswerKinds,
            RunEndings, Cacheable
<1>1. ASSUME NEW p \in Requests, NEW k \in Keys \union {NoKey}, Arrive(p, k) PROVE TypeOK'
  BY <1>1 DEF Arrive
<1>2. ASSUME NEW p \in Requests, PeekReplay(p) PROVE TypeOK'
  BY <1>2 DEF PeekReplay
<1>3. ASSUME NEW p \in Requests, RateGate(p) PROVE TypeOK'
  <2>1. charged' \in [Requests -> BOOLEAN]
    BY <1>3, Zenon DEF RateGate
  <2>2. /\ pc' \in [Requests -> Labels]
        /\ answer' \in [Requests -> [kind : AnswerKinds, run : Requests \union {Nobody}]]
        /\ UNCHANGED <<request, outcome, watch, store>>
    BY <1>3, SMT DEF RateGate
  <2> QED BY <2>1, <2>2
<1>4. ASSUME NEW p \in Requests, WithoutKey(p) PROVE TypeOK'
  BY <1>4 DEF WithoutKey
<1>5. ASSUME NEW p \in Requests, BeginStarted(p) PROVE TypeOK'
  <2>1. InFlight(p, FingerprintOf[cmd[p]]) \in RecordSet
    BY DEF InFlight, RecordSet
  <2> QED BY <1>5, <2>1 DEF BeginStarted, AtBegin
<1>6. ASSUME NEW p \in Requests, BeginConflict(p) PROVE TypeOK'
  BY <1>6 DEF BeginConflict, AtBegin
<1>7. ASSUME NEW p \in Requests, BeginCached(p) PROVE TypeOK'
  <2>1. key[p] \in Keys /\ records[key[p]].run \in Requests \union {Nobody}
    BY <1>7 DEF BeginCached, AtBegin, IsTerminal, Present, RecordSet
  <2> QED BY <1>7, <2>1 DEF BeginCached, AtBegin
<1>8. ASSUME NEW p \in Requests, BeginInFlight(p) PROVE TypeOK'
  BY <1>8 DEF BeginInFlight, AtBegin
<1>9. ASSUME NEW p \in Requests, EnterWait(p) PROVE TypeOK'
  <2>1. CASE Present(key[p])
    <3>1. key[p] \in Keys
      BY <1>9 DEF EnterWait, WaitersHaveKeys
    <3>2. records[key[p]].done \in Requests
      BY <2>1, <3>1 DEF Present, RecordSet
    <3> QED BY <1>9, <2>1, <3>2 DEF EnterWait
  <2>2. CASE ~Present(key[p])
    BY <1>9, <2>2 DEF EnterWait
  <2> QED BY <2>1, <2>2
<1>10. ASSUME NEW p \in Requests, Wake(p) PROVE TypeOK'
  <2>1. CASE IsTerminal(key[p])
    <3>0. key[p] \in Keys
      BY <1>10 DEF Wake, WaitersHaveKeys
    <3>1. records[key[p]].run \in Requests \union {Nobody}
      BY <2>1, <3>0 DEF IsTerminal, Present, RecordSet
    <3>2. /\ pc' = [pc EXCEPT ![p] = "done"] /\ watch' = [watch EXCEPT ![p] = Nobody]
          /\ answer' = [answer EXCEPT ![p] = Told("replay", records[key[p]].run)]
          /\ UNCHANGED <<request, charged, outcome, store>>
      BY <1>10, <2>1, Zenon DEF Wake
    <3> QED BY <3>1, <3>2
  <2>2. CASE ~IsTerminal(key[p])
    BY <1>10, <2>2 DEF Wake
  <2> QED BY <2>1, <2>2
<1>11. ASSUME NEW p \in Requests, WaitTimeout(p) PROVE TypeOK'
  BY <1>11 DEF WaitTimeout
<1>12. ASSUME NEW p \in Requests, NEW e \in RunEndings, RunBody(p, e) PROVE TypeOK'
  BY <1>12 DEF RunBody
<1>13. ASSUME NEW p \in Requests, ReturnWithoutKey(p) PROVE TypeOK'
  BY <1>13 DEF ReturnWithoutKey
<1>14. ASSUME NEW p \in Requests, Complete(p) PROVE TypeOK'
  <2> DEFINE rec == IF Present(key[p]) THEN records[key[p]]
                    ELSE InFlight(p, FingerprintOf[cmd[p]])
  <2>1. key[p] \in Keys /\ rec \in RecordSet
    BY <1>14 DEF Complete, InFlight, Present, RecordSet
  <2>2. Terminal(rec, p) \in RecordSet
    BY <2>1 DEF Terminal, RecordSet
  <2>3. records' = [records EXCEPT ![key[p]] = Terminal(rec, p)]
    BY <1>14 DEF Complete
  <2>4. records'[key[p]].done \in Requests
    BY <2>1, <2>2, <2>3 DEF RecordSet
  <2> QED BY <1>14, <2>1, <2>2, <2>3, <2>4 DEF Complete
<1>15. ASSUME NEW p \in Requests, Release(p) PROVE TypeOK'
  BY <1>15 DEF Release, Present, RecordSet
<1>16. ASSUME NEW p \in Requests, Panic(p) PROVE TypeOK'
  BY <1>16 DEF Panic
<1>17. ASSUME NEW k \in Keys, Lapse(k) PROVE TypeOK'
  <2>1. records[k].run \in Requests
    BY <1>17 DEF Lapse, TerminalIsCached, Settled
  <2> QED BY <1>17, <2>1 DEF Lapse
<1>18. ASSUME Cleanup PROVE TypeOK'
  BY <1>18 DEF Cleanup
<1>19. ASSUME UNCHANGED vars PROVE TypeOK'
  BY <1>19 DEF vars
<1> QED
  BY <1>1, <1>2, <1>3, <1>4, <1>5, <1>6, <1>7, <1>8, <1>9, <1>10, <1>11, <1>12,
     <1>13, <1>14, <1>15, <1>16, <1>17, <1>18, <1>19 DEF Next, Proceed

-----------------------------------------------------------------------------
\* A step that leaves the store and the runs alone keeps the invariant: it may
\* move requests that neither run nor have finished a run.
LEMMA QuietStep ==
    ASSUME IInv, TypeOK', WaitersHaveKeys', UNCHANGED <<cmd, outcome, store>>,
           NEW p \in Requests, pc' = [pc EXCEPT ![p] = pc'[p]],
           key' = [key EXCEPT ![p] = key'[p]],
           pc[p] # "done", pc'[p] = "done" \/ pc[p] \notin {"run", "settle"},
           pc[p] \in {"run", "settle"} => key[p] = NoKey /\ key'[p] = NoKey,
           pc'[p] \in {"run", "settle"} => key'[p] = NoKey
    PROVE  IInv'
<1> USE DEF store
<1> DEFINE Same(q) == pc'[q] = pc[q] /\ key'[q] = key[q]
<1>1. \A q \in Requests : q # p => Same(q)
  BY DEF IInv, TypeOK
<1>2. ~Running(p) /\ ~Running(p)' /\ ~Cached(p) /\ ~Cached(p)'
  BY DEF Running, Cached, Cacheable, IInv, TypeOK, NotRunYet
<1>3. /\ \A k \in Keys : Present(k)' = Present(k) /\ IsTerminal(k)' = IsTerminal(k)
      /\ UNCHANGED <<records, closed, lapsed, cmd, outcome>>
  BY DEF Present, IsTerminal
<1>a. \A q \in Requests : Pending(q)' = Pending(q) /\ Settled(q)' = Settled(q)
  BY <1>3 DEF Pending, Settled, InFlight
<1>4. RunnerOwnsRecord'
  BY <1>1, <1>2, <1>3 DEF IInv, RunnerOwnsRecord, Running, InFlight, TypeOK
<1>5. InFlightIsOwned'
  <2> SUFFICES ASSUME NEW k \in Keys, Present(k)', ~IsTerminal(k)'
               PROVE  \E q \in Requests :
                        /\ (key[q] = k /\ q \notin closed /\ records[k] = Pending(q))'
                        /\ (Running(q) \/ (pc[q] = "done" /\ outcome[q] = "panic"))'
    BY DEF InFlightIsOwned
  <2>1. PICK q \in Requests :
          /\ key[q] = k /\ q \notin closed /\ records[k] = Pending(q)
          /\ Running(q) \/ (pc[q] = "done" /\ outcome[q] = "panic")
    BY <1>3 DEF IInv, InFlightIsOwned
  <2>2. q # p
    BY <1>2, <2>1
  <2> QED BY <1>1, <1>3, <1>a, <2>1, <2>2 DEF Running
<1>6. TerminalIsCached'
  <2> SUFFICES ASSUME NEW k \in Keys, IsTerminal(k)'
               PROVE  \E q \in Requests :
                        (Cached(q) /\ key[q] = k /\ q \in closed /\ records[k] = Settled(q))'
    BY DEF TerminalIsCached
  <2>1. PICK q \in Requests :
          Cached(q) /\ key[q] = k /\ q \in closed /\ records[k] = Settled(q)
    BY <1>3 DEF IInv, TerminalIsCached
  <2>2. q # p
    BY <1>2, <2>1
  <2>3. Cached(q)' /\ key'[q] = k
    BY <1>1, <1>3, <2>1, <2>2 DEF Cached
  <2> QED BY <1>3, <1>a, <2>1, <2>3
<1>7. CachedIsTerminal'
  <2> SUFFICES ASSUME NEW q \in Requests, Cached(q)', q \notin lapsed
               PROVE  IsTerminal(key'[q]) /\ records[key'[q]].run = q
    BY <1>3 DEF CachedIsTerminal, IsTerminal, Present
  <2>1. Cached(q) /\ key'[q] = key[q]
    BY <1>1, <1>2, <1>3 DEF Cached
  <2> QED BY <2>1 DEF IInv, CachedIsTerminal
<1>8. OverIsDone'
  BY <1>1, <1>3 DEF IInv, OverIsDone, TypeOK
<1>9. NotRunYet'
  BY <1>1, <1>3 DEF IInv, NotRunYet, TypeOK
<1> QED BY <1>4, <1>5, <1>6, <1>7, <1>8, <1>9 DEF IInv

\* Only a request with a key reaches Wait, and it keeps its key there.
LEMMA WaitersKeepKeys == IInv /\ [Next]_vars => WaitersHaveKeys'
<1> SUFFICES ASSUME TypeOK, WaitersHaveKeys, [Next]_vars,
                    NEW p \in Requests, pc'[p] \in {"wait", "blocked"}
             PROVE  key'[p] # NoKey
  BY DEF IInv, WaitersHaveKeys
<1> USE DEF TypeOK, WaitersHaveKeys, Goto, Answer, request, store
<1>1. CASE UNCHANGED vars
  BY <1>1 DEF vars
<1>2. ASSUME NEW q \in Requests, NEW k \in Keys \union {NoKey}, Arrive(q, k) PROVE key'[p] # NoKey
  BY <1>2 DEF Arrive
<1>3. ASSUME NEW q \in Requests, Proceed(q) \/ Panic(q) PROVE key'[p] # NoKey
  <2>1. key' = key
    BY <1>3 DEF Proceed, Panic, PeekReplay, RateGate, WithoutKey, BeginStarted, BeginConflict,
                BeginCached, BeginInFlight, EnterWait, Wake, WaitTimeout, RunBody,
                ReturnWithoutKey, Complete, Release
  <2>2. pc[p] \in {"wait", "blocked"} \/ (q = p /\ key[p] # NoKey)
    BY <1>3 DEF Proceed, Panic, PeekReplay, RateGate, WithoutKey, BeginStarted, BeginConflict,
                BeginCached, BeginInFlight, EnterWait, Wake, WaitTimeout, RunBody,
                ReturnWithoutKey, Complete, Release, AtBegin
  <2> QED BY <2>1, <2>2
<1>4. CASE Cleanup \/ \E k \in Keys : Lapse(k)
  BY <1>4 DEF Cleanup, Lapse
<1> QED BY <1>1, <1>2, <1>3, <1>4 DEF Next

-----------------------------------------------------------------------------
\* A request that Begin authorises owns a fresh record: nobody else ran under the
\* key, and no result inside its window is lost.
LEMMA BeginStep ==
    ASSUME IInv, TypeOK', WaitersHaveKeys', NEW p \in Requests, BeginStarted(p)
    PROVE  IInv'
<1>k. PICK k \in Keys : k = key[p]
  BY DEF IInv, TypeOK, BeginStarted, AtBegin
<1>0. UNCHANGED <<key, cmd, outcome, closed, lapsed>>
  BY DEF BeginStarted, request
<1>1. pc[p] = "begin" /\ p \notin closed /\ outcome[p] = "none" /\ (Present(k) => Expired(k))
  BY <1>k DEF BeginStarted, AtBegin, IInv, OverIsDone, NotRunYet
<1>2. records' = [records EXCEPT ![k] = Pending(p)] /\ pc' = [pc EXCEPT ![p] = "run"]
  BY <1>k DEF Pending, BeginStarted, Goto
<1>3. Present(k)' /\ ~IsTerminal(k)' /\ records'[k] = Pending(p)
  <2>1. records'[k] = Pending(p) /\ records'[k] \in RecordSet
    BY <1>2, <1>0 DEF IInv, TypeOK, Pending, InFlight, RecordSet
  <2> QED BY <2>1 DEF Present, IsTerminal, Pending, InFlight
<1>4. \A q \in Requests : q # p => pc'[q] = pc[q] /\ Running(q)' = Running(q) /\ Cached(q)' = Cached(q)
  BY <1>0, <1>2 DEF Running, Cached, IInv, TypeOK
<1>5. pc'[p] = "run" /\ Running(p)' /\ ~Cached(p)' /\ ~Cached(p) /\ ~Running(p)
  BY <1>k, <1>0, <1>1, <1>2 DEF Running, Cached, IInv, TypeOK, Cacheable
<1>6. ASSUME NEW q \in Requests, Running(q), key[q] = k PROVE FALSE
  <2>1. records[k] = InFlight(q, FingerprintOf[cmd[q]]) /\ records[k] \in RecordSet
    <3>1. records[k] = InFlight(q, FingerprintOf[cmd[q]])
      BY <1>6 DEF IInv, RunnerOwnsRecord
    <3>2. InFlight(q, FingerprintOf[cmd[q]]) \in RecordSet
      BY DEF IInv, TypeOK, InFlight, RecordSet
    <3> QED BY <3>1, <3>2
  <2> QED BY <2>1, <1>1 DEF Present, IsTerminal, Expired, InFlight
<1>7. ASSUME NEW q \in Requests, Cached(q), key[q] = k PROVE q \in lapsed
  BY <1>1, <1>7 DEF IInv, CachedIsTerminal, Expired, IsTerminal
<1>8. \A l \in Keys : l # k => records'[l] = records[l]
  BY <1>2
<1>9. RunnerOwnsRecord'
  <2> SUFFICES ASSUME NEW q \in Requests, Running(q)'
               PROVE  records'[key[q]] = Pending(q) /\ q \notin closed
    BY <1>0 DEF RunnerOwnsRecord, Pending, InFlight
  <2>1. CASE q = p
    BY <2>1, <1>k, <1>1, <1>3
  <2>2. CASE q # p
    <3>1. Running(q) /\ key[q] # k /\ key[q] \in Keys
      BY <2>2, <1>4, <1>6 DEF Running, IInv, TypeOK
    <3> QED BY <3>1, <1>8 DEF IInv, RunnerOwnsRecord, Pending
  <2> QED BY <2>1, <2>2
<1>10. InFlightIsOwned'
  <2> SUFFICES ASSUME NEW l \in Keys, Present(l)', ~IsTerminal(l)'
               PROVE  \E q \in Requests :
                        /\ key[q] = l /\ q \notin closed /\ records'[l] = Pending(q)
                        /\ Running(q)' \/ (pc'[q] = "done" /\ outcome[q] = "panic")
    BY <1>0 DEF InFlightIsOwned, Pending, InFlight, Running
  <2>1. CASE l = k
    BY <2>1, <1>k, <1>1, <1>3, <1>5
  <2>2. CASE l # k
    <3>1. Present(l) /\ ~IsTerminal(l)
      BY <2>2, <1>8 DEF Present, IsTerminal
    <3>2. PICK q \in Requests :
            /\ key[q] = l /\ q \notin closed /\ records[l] = Pending(q)
            /\ Running(q) \/ (pc[q] = "done" /\ outcome[q] = "panic")
      BY <3>1 DEF IInv, InFlightIsOwned
    <3> QED BY <3>2, <2>2, <1>k, <1>0, <1>4, <1>8
  <2> QED BY <2>1, <2>2
<1>11. TerminalIsCached'
  <2> SUFFICES ASSUME NEW l \in Keys, IsTerminal(l)'
               PROVE  \E q \in Requests :
                        Cached(q)' /\ key[q] = l /\ q \in closed /\ records'[l] = Settled(q)
    BY <1>0 DEF TerminalIsCached, Settled, Cached
  <2>1. l # k
    BY <1>3
  <2>2. IsTerminal(l)
    BY <2>1, <1>8 DEF Present, IsTerminal
  <2>3. PICK q \in Requests :
          Cached(q) /\ key[q] = l /\ q \in closed /\ records[l] = Settled(q)
    BY <2>2 DEF IInv, TerminalIsCached
  <2> QED BY <2>1, <2>3, <1>4, <1>5, <1>8
<1>12. CachedIsTerminal'
  <2> SUFFICES ASSUME NEW q \in Requests, Cached(q)', q \notin lapsed
               PROVE  IsTerminal(key[q])' /\ records'[key[q]].run = q
    BY <1>0 DEF CachedIsTerminal, Cached, IsTerminal, Present
  <2>1. Cached(q) /\ key[q] # k /\ key[q] \in Keys
    BY <1>4, <1>5, <1>7 DEF Cached, IInv, TypeOK
  <2> QED BY <2>1, <1>0, <1>8 DEF IInv, CachedIsTerminal, IsTerminal, Present
<1>13. OverIsDone' /\ NotRunYet'
  BY <1>0, <1>1, <1>2, <1>4, <1>5 DEF IInv, TypeOK, OverIsDone, NotRunYet
<1> QED BY <1>9, <1>10, <1>11, <1>12, <1>13 DEF IInv

-----------------------------------------------------------------------------
\* The body's return, or its panic, moves a run without touching the store.
LEMMA BodyStep ==
    ASSUME IInv, TypeOK', WaitersHaveKeys', NEW p \in Requests,
           Panic(p) \/ \E e \in RunEndings : RunBody(p, e)
    PROVE  IInv'
<1>0. UNCHANGED <<key, cmd, records, closed, lapsed>>
  BY DEF Panic, RunBody, request, store
<1>1. /\ pc[p] = "run" /\ ~Cached(p) /\ ~Cached(p)'
      /\ Running(p)' \/ key[p] = NoKey \/ (pc'[p] = "done" /\ outcome'[p] = "panic")
      /\ Running(p)' => Running(p)
      /\ pc'[p] \in {"settle", "done"}
      /\ p \notin closed \union lapsed
  BY <1>0 DEF Panic, RunBody, Goto, Answer, Running, Cached, Cacheable, IInv, TypeOK,
              OverIsDone
<1>2. \A q \in Requests : q # p => pc'[q] = pc[q] /\ outcome'[q] = outcome[q]
  BY DEF Panic, RunBody, Goto, Answer, IInv, TypeOK
<1>3. \A q \in Requests : q # p => Running(q)' = Running(q)
  BY <1>0, <1>2 DEF Running
<1>4. \A q \in Requests : Cached(q)' = Cached(q)
  BY <1>0, <1>1, <1>2 DEF Cached
<1>5. RunnerOwnsRecord'
  <2> SUFFICES ASSUME NEW q \in Requests, Running(q)'
               PROVE  records[key[q]] = InFlight(q, FingerprintOf[cmd[q]]) /\ q \notin closed
    BY <1>0 DEF RunnerOwnsRecord, InFlight
  <2> QED BY <1>1, <1>3 DEF IInv, RunnerOwnsRecord
<1>6. InFlightIsOwned'
  <2> SUFFICES ASSUME NEW k \in Keys, Present(k), ~IsTerminal(k)
               PROVE  \E q \in Requests :
                        /\ key[q] = k /\ q \notin closed /\ records[k] = Pending(q)
                        /\ Running(q)' \/ (pc'[q] = "done" /\ outcome'[q] = "panic")
    BY <1>0 DEF InFlightIsOwned, Pending, InFlight, Present, IsTerminal, Running
  <2>1. PICK q \in Requests :
          /\ key[q] = k /\ q \notin closed /\ records[k] = Pending(q)
          /\ Running(q) \/ (pc[q] = "done" /\ outcome[q] = "panic")
    BY DEF IInv, InFlightIsOwned
  <2> QED BY <2>1, <1>1, <1>2, <1>3
<1>7. TerminalIsCached'
  BY <1>0, <1>4 DEF IInv, TerminalIsCached, IsTerminal, Present, Settled, Cached
<1>8. CachedIsTerminal'
  BY <1>0, <1>4 DEF IInv, CachedIsTerminal, IsTerminal, Present, Cached
<1>9. OverIsDone' /\ NotRunYet'
  BY <1>0, <1>1, <1>2 DEF IInv, TypeOK, OverIsDone, NotRunYet
<1> QED BY <1>5, <1>6, <1>7, <1>8, <1>9 DEF IInv

\* Settling a run under key k: only the owner's record and channel change, so the
\* other keys' requests are as they were. Complete and Release share this.
LEMMA SettleFrame ==
    ASSUME IInv, TypeOK', NEW p \in Requests, NEW k \in Keys, k = key[p],
           Complete(p) \/ Release(p)
    PROVE  /\ UNCHANGED <<key, cmd, outcome, lapsed>>
           /\ pc' = [pc EXCEPT ![p] = "done"]
           /\ Running(p) /\ p \notin closed \union lapsed
           /\ records[k] = Pending(p) /\ Present(k) /\ closed' = closed \union {p}
           /\ \A l \in Keys : l # k => records'[l] = records[l]
           /\ \A q \in Requests : q # p => /\ pc'[q] = pc[q]
                                           /\ Running(q)' = Running(q)
                                           /\ Cached(q)' = Cached(q)
           /\ \A q \in Requests : q # p /\ Running(q) => key[q] # k
           /\ \A q \in Requests : Cached(q) /\ q \notin lapsed => key[q] # k
<1>1. UNCHANGED <<key, cmd, outcome, lapsed>> /\ pc' = [pc EXCEPT ![p] = "done"]
  BY DEF Complete, Release, Answer, Goto, request
<1>2. pc[p] = "settle" /\ Running(p) /\ p \notin closed \union lapsed
  BY DEF Complete, Release, Running, IInv, OverIsDone
<1>3. records[k] = Pending(p)
  BY <1>2 DEF IInv, RunnerOwnsRecord, Pending
<1>4. Pending(p) \in RecordSet
  BY DEF IInv, TypeOK, Pending, InFlight, RecordSet
<1>5. Present(k) /\ ~IsTerminal(k)
  BY <1>3, <1>4 DEF Present, IsTerminal, Pending, InFlight
<1>6. closed' = closed \union {p}
  <2>1. CASE Complete(p)
    <3>1. records' = [records EXCEPT ![k] = Terminal(records[k], p)]
      BY <2>1, <1>5 DEF Complete
    <3>2. records'[k].done = p
      BY <3>1, <1>3 DEF Terminal, Pending, InFlight, IInv, TypeOK
    <3> QED BY <2>1, <3>2 DEF Complete
  <2>2. CASE Release(p)
    BY <2>2, <1>3, <1>5 DEF Release, Pending, InFlight
  <2> QED BY <2>1, <2>2
<1>7. \A l \in Keys : l # k => records'[l] = records[l]
  BY DEF Complete, Release, IInv, TypeOK
<1>8. \A q \in Requests : q # p => /\ pc'[q] = pc[q]
                                   /\ Running(q)' = Running(q)
                                   /\ Cached(q)' = Cached(q)
  BY <1>1 DEF Running, Cached, IInv, TypeOK
<1>9. ASSUME NEW q \in Requests, q # p, Running(q) PROVE key[q] # k
  <2> SUFFICES ASSUME key[q] = k PROVE FALSE
    OBVIOUS
  <2>1. records[k] = Pending(q)
    BY <1>9 DEF IInv, RunnerOwnsRecord, Pending
  <2>2. Pending(q).done = Pending(p).done
    BY <2>1, <1>3
  <2> QED BY <1>9, <2>2 DEF Pending, InFlight
<1>10. ASSUME NEW q \in Requests, Cached(q), q \notin lapsed PROVE key[q] # k
  BY <1>10, <1>5 DEF IInv, CachedIsTerminal
<1> QED BY <1>1, <1>2, <1>3, <1>5, <1>6, <1>7, <1>8, <1>9, <1>10

\* Completing or releasing a run keeps every other key's record with its owner,
\* and leaves the run's own key with its result or with nothing.
LEMMA SettleStep ==
    ASSUME IInv, TypeOK', WaitersHaveKeys', NEW p \in Requests, Complete(p) \/ Release(p)
    PROVE  IInv'
<1>k. PICK k \in Keys : k = key[p]
  BY DEF Complete, Release, IInv, TypeOK
<1>1. /\ UNCHANGED <<key, cmd, outcome, lapsed>>
      /\ pc' = [pc EXCEPT ![p] = "done"]
      /\ Running(p) /\ p \notin closed \union lapsed
      /\ records[k] = Pending(p) /\ Present(k) /\ closed' = closed \union {p}
      /\ \A l \in Keys : l # k => records'[l] = records[l]
  BY <1>k, SettleFrame
<1>2. /\ \A q \in Requests : q # p => /\ pc'[q] = pc[q]
                                      /\ Running(q)' = Running(q)
                                      /\ Cached(q)' = Cached(q)
      /\ \A q \in Requests : q # p /\ Running(q) => key[q] # k
      /\ \A q \in Requests : Cached(q) /\ q \notin lapsed => key[q] # k
  BY <1>k, SettleFrame
<1>3. pc'[p] = "done" /\ ~Running(p)' /\ pc[p] # "done" /\ ~Cached(p)
  BY <1>1 DEF Running, Cached, IInv, TypeOK
<1>4. \/ ~Present(k)' /\ ~Cached(p)'
      \/ records'[k] = Settled(p) /\ Present(k)' /\ IsTerminal(k)' /\ Cached(p)'
  <2>1. CASE Complete(p)
    <3>1. records' = [records EXCEPT ![k] = Terminal(Pending(p), p)]
      BY <2>1, <1>k, <1>1 DEF Complete
    <3>2. records'[k] = Settled(p)
      BY <3>1 DEF Terminal, Pending, InFlight, Settled, IInv, TypeOK
    <3>3. Settled(p) \in RecordSet
      BY DEF Settled, RecordSet, IInv, TypeOK
    <3>4. Cached(p)'
      BY <2>1, <1>1, <1>3 DEF Complete, Cached
    <3> QED BY <3>2, <3>3, <3>4 DEF Present, IsTerminal, Settled
  <2>2. CASE Release(p)
    <3>1. ~Present(k)'
      BY <2>2, <1>k DEF Release, Present, IInv, TypeOK
    <3>2. ~Cached(p)'
      BY <2>2, <1>1 DEF Release, Cached
    <3> QED BY <3>1, <3>2
  <2> QED BY <2>1, <2>2
<1>5. RunnerOwnsRecord'
  <2> SUFFICES ASSUME NEW q \in Requests, Running(q)'
               PROVE  records'[key[q]] = Pending(q) /\ q \notin closed'
    BY <1>1 DEF RunnerOwnsRecord, Pending, InFlight
  <2>1. q # p /\ Running(q) /\ key[q] # k /\ key[q] \in Keys
    BY <1>2, <1>3 DEF Running, IInv, TypeOK
  <2> QED BY <2>1, <1>1 DEF IInv, RunnerOwnsRecord, Pending
<1>6. InFlightIsOwned'
  <2> SUFFICES ASSUME NEW l \in Keys, Present(l)', ~IsTerminal(l)'
               PROVE  \E q \in Requests :
                        /\ key[q] = l /\ q \notin closed' /\ records'[l] = Pending(q)
                        /\ Running(q)' \/ (pc'[q] = "done" /\ outcome[q] = "panic")
    BY <1>1 DEF InFlightIsOwned, Pending, InFlight, Running
  <2>1. l # k
    BY <1>4
  <2>2. Present(l) /\ ~IsTerminal(l)
    BY <2>1, <1>1 DEF Present, IsTerminal
  <2>3. PICK q \in Requests :
          /\ key[q] = l /\ q \notin closed /\ records[l] = Pending(q)
          /\ Running(q) \/ (pc[q] = "done" /\ outcome[q] = "panic")
    BY <2>2 DEF IInv, InFlightIsOwned
  <2>4. q # p
    BY <2>1, <2>3, <1>k
  <2> QED BY <2>1, <2>3, <2>4, <1>1, <1>2
<1>7. TerminalIsCached'
  <2> SUFFICES ASSUME NEW l \in Keys, IsTerminal(l)'
               PROVE  \E q \in Requests :
                        Cached(q)' /\ key[q] = l /\ q \in closed' /\ records'[l] = Settled(q)
    BY <1>1 DEF TerminalIsCached, Settled, Cached
  <2>1. CASE l = k
    BY <2>1, <1>k, <1>1, <1>4 DEF IsTerminal
  <2>2. CASE l # k
    <3>1. IsTerminal(l)
      BY <2>2, <1>1 DEF Present, IsTerminal
    <3>2. PICK q \in Requests :
            Cached(q) /\ key[q] = l /\ q \in closed /\ records[l] = Settled(q)
      BY <3>1 DEF IInv, TerminalIsCached
    <3> QED BY <2>2, <3>2, <1>1, <1>2, <1>3
  <2> QED BY <2>1, <2>2
<1>8. CachedIsTerminal'
  <2> SUFFICES ASSUME NEW q \in Requests, Cached(q)', q \notin lapsed
               PROVE  IsTerminal(key[q])' /\ records'[key[q]].run = q
    BY <1>1 DEF CachedIsTerminal, Cached, IsTerminal, Present
  <2>1. CASE q = p
    BY <2>1, <1>k, <1>1, <1>4 DEF Settled, IsTerminal, Present
  <2>2. CASE q # p
    <3>1. Cached(q) /\ key[q] # k /\ key[q] \in Keys
      BY <2>2, <1>2 DEF Cached, IInv, TypeOK
    <3> QED BY <3>1, <1>1 DEF IInv, CachedIsTerminal, IsTerminal, Present
  <2> QED BY <2>1, <2>2
<1>9. OverIsDone' /\ NotRunYet'
  BY <1>1, <1>2, <1>3 DEF IInv, TypeOK, OverIsDone, NotRunYet
<1> QED BY <1>5, <1>6, <1>7, <1>8, <1>9 DEF IInv

\* A window that lapses, and the cleanup of lapsed results, touch no run.
LEMMA TimeStep ==
    ASSUME IInv, TypeOK', WaitersHaveKeys', Cleanup \/ \E k \in Keys : Lapse(k)
    PROVE  IInv'
<1>0. UNCHANGED <<pc, key, cmd, outcome, closed>> /\ lapsed \subseteq lapsed'
  BY DEF Cleanup, Lapse, request
<1>1. /\ \A k \in Keys : Present(k)' => records'[k] = records[k] /\ Present(k)
      /\ \A k \in Keys : Present(k) /\ ~Expired(k) => records'[k] = records[k]
  BY DEF Cleanup, Lapse, Present, IInv, TypeOK
<1>2. \A q \in lapsed' : pc[q] = "done"
  <2>1. CASE Cleanup
    BY <2>1 DEF Cleanup, IInv, OverIsDone
  <2>2. ASSUME NEW k \in Keys, Lapse(k) PROVE \A q \in lapsed' : pc[q] = "done"
    <3>1. PICK q \in Requests : Cached(q) /\ records[k] = Settled(q)
      BY <2>2 DEF Lapse, IInv, TerminalIsCached
    <3> QED BY <2>2, <3>1 DEF Lapse, IInv, OverIsDone, Cached, Settled
  <2> QED BY <2>1, <2>2
<1>3. RunnerOwnsRecord'
  <2> SUFFICES ASSUME NEW q \in Requests, Running(q)
               PROVE  records'[key[q]] = Pending(q) /\ q \notin closed
    BY <1>0 DEF RunnerOwnsRecord, Pending, InFlight, Running
  <2>1. key[q] \in Keys /\ records[key[q]] = Pending(q) /\ Pending(q) \in RecordSet
        /\ q \notin closed
    BY DEF IInv, TypeOK, RunnerOwnsRecord, Running, Pending, InFlight, RecordSet
  <2>2. Present(key[q]) /\ ~Expired(key[q])
    BY <2>1 DEF Present, Expired, IsTerminal, Pending, InFlight
  <2> QED BY <2>1, <2>2, <1>1
<1>4. InFlightIsOwned'
  <2> SUFFICES ASSUME NEW k \in Keys, Present(k)', ~IsTerminal(k)'
               PROVE  \E q \in Requests :
                        /\ key[q] = k /\ q \notin closed /\ records'[k] = Pending(q)
                        /\ Running(q) \/ (pc[q] = "done" /\ outcome[q] = "panic")
    BY <1>0 DEF InFlightIsOwned, Pending, InFlight, Running
  <2> QED BY <1>1 DEF IInv, InFlightIsOwned, IsTerminal
<1>5. TerminalIsCached'
  <2> SUFFICES ASSUME NEW k \in Keys, IsTerminal(k)'
               PROVE  \E q \in Requests :
                        Cached(q) /\ key[q] = k /\ q \in closed /\ records'[k] = Settled(q)
    BY <1>0 DEF TerminalIsCached, Settled, Cached
  <2>1. IsTerminal(k) /\ records'[k] = records[k]
    BY <1>1 DEF IsTerminal
  <2> QED BY <2>1 DEF IInv, TerminalIsCached
<1>6. CachedIsTerminal'
  <2> SUFFICES ASSUME NEW q \in Requests, Cached(q), q \notin lapsed
               PROVE  IsTerminal(key[q])' /\ records'[key[q]].run = q
    BY <1>0 DEF CachedIsTerminal, Cached, IsTerminal, Present
  <2>1. key[q] \in Keys /\ IsTerminal(key[q]) /\ records[key[q]].run = q
    BY DEF IInv, TypeOK, CachedIsTerminal, Cached
  <2>2. records'[key[q]] = records[key[q]]
    BY <2>1, <1>1 DEF Expired, IsTerminal
  <2> QED BY <2>1, <2>2, <1>0 DEF IsTerminal, Present
<1>7. OverIsDone' /\ NotRunYet'
  BY <1>0, <1>2 DEF IInv, OverIsDone, NotRunYet
<1> QED BY <1>3, <1>4, <1>5, <1>6, <1>7 DEF IInv

-----------------------------------------------------------------------------
\* Every step of the system keeps the inductive invariant.
LEMMA StepInvariant == IInv /\ [Next]_vars => IInv'
<1> SUFFICES ASSUME IInv, [Next]_vars, TypeOK', WaitersHaveKeys' PROVE IInv'
  BY TypeInvariant, WaitersKeepKeys
<1>1. CASE UNCHANGED vars
  BY <1>1 DEF vars, IInv, TypeOK, WaitersHaveKeys, NotRunYet, RunnerOwnsRecord,
     InFlightIsOwned, TerminalIsCached, CachedIsTerminal, OverIsDone, Pending, Settled,
     InFlight, Running, Cached, Present, IsTerminal
<1>2. ASSUME NEW p \in Requests, NEW k \in Keys \union {NoKey}, Arrive(p, k) PROVE IInv'
  <2>1. pc[p] = "idle" /\ pc' = [pc EXCEPT ![p] = pc'[p]] /\ pc'[p] \in {"peek", "begin"}
    BY <1>2 DEF Arrive, Goto, IInv, TypeOK
  <2>2. key' = [key EXCEPT ![p] = key'[p]] /\ UNCHANGED <<cmd, outcome, store>>
    BY <1>2 DEF Arrive, store, IInv, TypeOK
  <2> QED BY <2>1, <2>2, QuietStep
<1>3. ASSUME NEW p \in Requests,
             \/ PeekReplay(p) \/ RateGate(p) \/ BeginConflict(p) \/ BeginCached(p)
             \/ BeginInFlight(p) \/ EnterWait(p) \/ Wake(p) \/ WaitTimeout(p)
      PROVE  IInv'
  <2>1. /\ pc[p] \in {"peek", "gate", "begin", "wait", "blocked"}
        /\ pc' = [pc EXCEPT ![p] = pc'[p]]
        /\ pc'[p] \in {"gate", "begin", "wait", "blocked", "done"}
    BY <1>3 DEF PeekReplay, RateGate, BeginConflict, BeginCached, BeginInFlight,
                EnterWait, Wake, WaitTimeout, AtBegin, Goto, Answer, IInv, TypeOK
  <2>2. UNCHANGED <<key, cmd, outcome, store>>
    BY <1>3 DEF PeekReplay, RateGate, BeginConflict, BeginCached, BeginInFlight,
                EnterWait, Wake, WaitTimeout, request
  <2>3. key' = [key EXCEPT ![p] = key'[p]]
    BY <2>2 DEF IInv, TypeOK
  <2> QED BY <2>1, <2>2, <2>3, QuietStep
<1>4. ASSUME NEW p \in Requests, WithoutKey(p) \/ ReturnWithoutKey(p) PROVE IInv'
  <2>1. /\ pc[p] \in {"begin", "settle"} /\ key[p] = NoKey
        /\ pc' = [pc EXCEPT ![p] = pc'[p]]
        /\ pc'[p] = "done" \/ (pc[p] = "begin" /\ pc'[p] = "run")
    BY <1>4 DEF WithoutKey, ReturnWithoutKey, Goto, Answer, IInv, TypeOK
  <2>2. UNCHANGED <<key, cmd, outcome, store>>
    BY <1>4 DEF WithoutKey, ReturnWithoutKey, request
  <2>3. key' = [key EXCEPT ![p] = key'[p]]
    BY <2>2 DEF IInv, TypeOK
  <2> QED BY <2>1, <2>2, <2>3, QuietStep
<1> QED BY <1>1, <1>2, <1>3, <1>4, BeginStep, BodyStep, SettleStep, TimeStep
        DEF Next, Proceed

\* Every reachable state satisfies the inductive invariant.
THEOREM Invariance == Spec => []IInv
  BY InitInvariant, StepInvariant, PTL DEF Spec

\* The state keeps its types in every behaviour of the handlers and the store.
THEOREM TypeCorrect == Spec => []TypeOK
  BY Invariance, PTL DEF IInv

\* The request that runs a body owns its key's record until it settles it, so
\* Complete and Release never settle someone else's run or close a channel twice.
THEOREM OwnershipHolds == Spec => []RunnerOwnsRecord
  BY Invariance, PTL DEF IInv

\* The body of a UseCase never runs twice at once under one Idempotency-Key.
THEOREM MutualExclusion == Spec => []SingleRunner
<1>1. IInv => SingleRunner
  <2> SUFFICES ASSUME IInv, NEW p \in Requests, NEW q \in Requests,
                      Running(p), Running(q), key[p] = key[q]
               PROVE  p = q
    BY DEF SingleRunner
  <2>1. Pending(p) = Pending(q)
    BY DEF IInv, RunnerOwnsRecord, Pending
  <2>2. Pending(p).done = p /\ Pending(q).done = q
    BY DEF Pending, InFlight
  <2> QED BY <2>1, <2>2
<1> QED BY <1>1, Invariance, PTL

\* A body runs alone under its key and owns the record it will settle, as the runs check it.
THEOREM ExclusiveRuns == Spec => []RunsAreExclusive
<1>1. SingleRunner /\ RunnerOwnsRecord => RunsAreExclusive
  BY DEF RunsAreExclusive
<1> QED BY <1>1, MutualExclusion, OwnershipHolds, PTL

\* At most one result per key and window: two cached runs of a key are never both
\* inside their windows.
THEOREM OneResult == Spec => []OneResultPerWindow
<1>1. IInv => OneResultPerWindow
  BY DEF IInv, OneResultPerWindow, CachedIsTerminal
<1> QED BY <1>1, Invariance, PTL

\* A result inside its window survives every step, whoever takes it.
THEOREM StableResults == Spec => ResultsAreStable
<1>1. IInv /\ [Next]_vars =>
        [\A k \in Keys : IsTerminal(k) /\ ~Expired(k) => records'[k] = records[k]]_vars
  <2> SUFFICES ASSUME IInv, Next, NEW k \in Keys, IsTerminal(k), ~Expired(k)
               PROVE  records'[k] = records[k]
    OBVIOUS
  <2>1. PICK p \in Requests : Cached(p) /\ key[p] = k /\ records[k] = Settled(p)
    BY DEF IInv, TerminalIsCached
  <2>2. ASSUME NEW q \in Requests, Complete(q) \/ Release(q) PROVE records'[k] = records[k]
    <3>1. Running(q) /\ key[q] \in Keys
      BY <2>2 DEF Complete, Release, Running, IInv, TypeOK
    <3>2. records[key[q]] = Pending(q)
      BY <3>1 DEF IInv, RunnerOwnsRecord, Pending
    <3>3. key[q] # k
      BY <3>2, <2>1 DEF Pending, InFlight, Settled
    <3> QED BY <2>2, <3>1, <3>3 DEF Complete, Release, IInv, TypeOK
  <2>3. ASSUME NEW q \in Requests, BeginStarted(q) PROVE records'[k] = records[k]
    BY <2>3 DEF BeginStarted, AtBegin, IInv, TypeOK, IsTerminal
  <2>4. ASSUME Cleanup PROVE records'[k] = records[k]
    BY <2>4 DEF Cleanup
  <2> QED
    BY <2>2, <2>3, <2>4 DEF Next, Proceed, Arrive, PeekReplay, RateGate, WithoutKey,
       BeginConflict, BeginCached, BeginInFlight, EnterWait, Wake, WaitTimeout, RunBody,
       Panic, ReturnWithoutKey, Lapse, store
<1> QED BY <1>1, Invariance, PTL DEF Spec, ResultsAreStable

-----------------------------------------------------------------------------
(* What those who wait, and those who are given another's result, rely on. *)

\* Whoever blocks took the channel of the record in flight, or one that is closed by now.
WaitersTookAChannel == \A p \in Requests : pc[p] = "blocked" =>
    watch[p] \in closed \/ (Present(key[p]) /\ records[key[p]].done = watch[p])

\* A request let past the limiter uncounted had seen a result of its key and fingerprint.
SawAResult(p) == \E q \in Requests :
    Cached(q) /\ key[q] = key[p] /\ FingerprintOf[cmd[q]] = FingerprintOf[cmd[p]]
UncountedSawAResult == \A p \in Requests :
    cmd[p] \in RateLimited /\ ~charged[p] /\ pc[p] \in {"begin", "run", "settle", "wait", "blocked"} => SawAResult(p)

RejectingNeverWaits == \A p \in Requests : pc[p] \in {"wait", "blocked"} => cmd[p] \notin Rejecting

\* What a replay gives is the result of a finished run of the key.
ResultOfTheKey(p, run) ==
    /\ pc[p] = "done" /\ run \in Requests /\ Cached(run) /\ key[run] = key[p]
    /\ cmd[p] \in Rejecting => FingerprintOf[cmd[run]] = FingerprintOf[cmd[p]]
ReplaysAreResults == \A p \in Requests : answer[p].kind = "replay" => ResultOfTheKey(p, answer[p].run)

AnswersInv == WaitersTookAChannel /\ UncountedSawAResult /\ RejectingNeverWaits /\ ReplaysAreResults

LEMMA AnswersInit == Init => AnswersInv
  BY DEF Init, AnswersInv, WaitersTookAChannel, UncountedSawAResult, RejectingNeverWaits,
         ReplaysAreResults, Silence, Told

\* A step is one request's, or the clock's or the worker's; a request that has a result or an
\* answer keeps it, and its key.
LEMMA OneActs ==
    ASSUME IInv, [Next]_vars
    PROVE  /\ cmd' = cmd /\ closed \subseteq closed'
           /\ \A q \in Requests : Cached(q) => Cached(q)' /\ key'[q] = key[q]
           /\ \A q \in Requests : pc[q] # "idle" => key'[q] = key[q]
           /\ \A q \in Requests : pc[q] = "done" => pc'[q] = "done"
           /\ \A q \in Requests : charged[q] => charged'[q]
<1> USE DEF IInv, TypeOK, Goto, Answer, request, store
<1>1. CASE UNCHANGED vars
  BY <1>1 DEF vars, Cached
<1>2. ASSUME NEW p \in Requests, NEW k \in Keys \union {NoKey}, Arrive(p, k)
      PROVE  /\ UNCHANGED <<cmd, closed, outcome, charged>> /\ pc[p] = "idle"
             /\ \A q \in Requests : q # p => pc'[q] = pc[q] /\ key'[q] = key[q]
  BY <1>2 DEF Arrive
<1>3. ASSUME NEW p \in Requests, Proceed(p) \/ Panic(p)
      PROVE  /\ UNCHANGED <<key, cmd>> /\ closed \subseteq closed' /\ pc[p] # "done"
             /\ \A q \in Requests : charged[q] => charged'[q]
             /\ \A q \in Requests : q # p => pc'[q] = pc[q] /\ outcome'[q] = outcome[q]
  BY <1>3 DEF Proceed, Panic, PeekReplay, RateGate, WithoutKey, BeginStarted, BeginConflict, BeginCached, AtBegin,
              BeginInFlight, EnterWait, Wake, WaitTimeout, RunBody, ReturnWithoutKey, Complete, Release
<1>4. CASE Cleanup \/ \E k \in Keys : Lapse(k)
  BY <1>4 DEF Cleanup, Lapse, Cached
<1>5. ASSUME NEW p \in Requests, NEW k \in Keys \union {NoKey}, Arrive(p, k)
      PROVE  \A q \in Requests : Cached(q) => Cached(q)' /\ key'[q] = key[q]
  BY <1>2, <1>5 DEF Cached
<1>6. ASSUME NEW p \in Requests, Proceed(p) \/ Panic(p)
      PROVE  \A q \in Requests : Cached(q) => Cached(q)' /\ key'[q] = key[q]
  BY <1>3, <1>6 DEF Cached
<1> QED BY <1>1, <1>2, <1>3, <1>4, <1>5, <1>6 DEF Next

\* The channel a waiter took is closed by whoever replaces the record it belongs to.
LEMMA WaitersStep == IInv /\ WaitersTookAChannel /\ [Next]_vars => WaitersTookAChannel'
<1> SUFFICES ASSUME IInv, WaitersTookAChannel, [Next]_vars, NEW p \in Requests, pc'[p] = "blocked"
             PROVE  watch'[p] \in closed' \/ (Present(key[p]) /\ records[key[p]].done = watch[p])'
  BY DEF WaitersTookAChannel
<1>1. CASE EnterWait(p)
  BY <1>1 DEF EnterWait, IInv, TypeOK, request, store, Goto, Present
<1>2. CASE ~EnterWait(p)
  <2>1. pc[p] = "blocked" /\ watch'[p] = watch[p]
    BY <1>2 DEF Next, Proceed, Panic, PeekReplay, RateGate, WithoutKey, BeginStarted, BeginConflict, BeginCached,
       AtBegin, BeginInFlight, EnterWait, Wake, WaitTimeout, RunBody, ReturnWithoutKey, Complete, Release,
       Arrive, Cleanup, Lapse, vars, IInv, TypeOK, Goto, Answer
  <2>2. key'[p] = key[p] /\ closed \subseteq closed' /\ key[p] \in Keys
    BY <2>1, OneActs DEF IInv, WaitersHaveKeys, TypeOK
  <2>3. PICK k \in Keys : k = key[p]
    BY <2>2
  <2>4. CASE watch[p] \in closed \/ records'[k] = records[k]
    BY <2>1, <2>2, <2>3, <2>4 DEF WaitersTookAChannel, Present
  <2>5. CASE watch[p] \notin closed /\ records'[k] # records[k]
    <3>1. Present(k) /\ records[k].done = watch[p]
      BY <2>1, <2>3, <2>5 DEF WaitersTookAChannel
    <3>2. ~IsTerminal(k)
      <4> SUFFICES ASSUME IsTerminal(k) PROVE FALSE
        OBVIOUS
      <4>1. PICK q \in Requests : q \in closed /\ records[k] = Settled(q)
        BY DEF IInv, TerminalIsCached
      <4>2. Settled(q).done = q
        BY DEF Settled
      <4> QED BY <2>5, <3>1, <4>1, <4>2
    <3>3. PICK q \in Requests : Complete(q) \/ Release(q)
      BY <2>5, <3>1, <3>2 DEF Next, Proceed, Panic, PeekReplay, RateGate, WithoutKey, BeginStarted, BeginConflict,
         BeginCached, BeginInFlight, EnterWait, Wake, WaitTimeout, RunBody, ReturnWithoutKey,
         Arrive, Cleanup, Lapse, Expired, AtBegin, vars, store, IInv, TypeOK
    <3>4. key[q] = k
      BY <2>5, <3>3 DEF Complete, Release, IInv, TypeOK
    <3>5. CASE Release(q)
      BY <2>1, <3>1, <3>4, <3>5 DEF Release
    <3>6. CASE Complete(q)
      <4>1. closed' = closed \union {records'[k].done} /\ records'[k] = Terminal(records[k], q)
        BY <3>1, <3>4, <3>6 DEF Complete, IInv, TypeOK
      <4>2. records[k] \in RecordSet
        BY <3>1 DEF Present, IInv, TypeOK
      <4>3. Terminal(records[k], q).done = records[k].done
        BY <4>2 DEF Terminal, RecordSet
      <4> QED BY <2>1, <3>1, <4>1, <4>3
    <3> QED BY <3>3, <3>5, <3>6
  <2> QED BY <2>4, <2>5
<1> QED BY <1>1, <1>2

\* Only Peek lets a request past the limiter, and only where there is a result to replay.
LEMMA UncountedStep == IInv /\ UncountedSawAResult /\ [Next]_vars => UncountedSawAResult'
<1> DEFINE Past == {"begin", "run", "settle", "wait", "blocked"}
<1> SUFFICES ASSUME IInv, UncountedSawAResult, [Next]_vars, NEW p \in Requests,
                    cmd'[p] \in RateLimited, ~charged'[p], pc'[p] \in Past
             PROVE  SawAResult(p)'
  BY DEF UncountedSawAResult
<1>1. cmd[p] \in RateLimited /\ ~charged[p]
  BY OneActs
<1>2. pc[p] \in Past \/ (PeekReplay(p) /\ IsReplay(p))
  BY <1>1 DEF Next, Proceed, Panic, PeekReplay, RateGate, WithoutKey, BeginStarted, BeginConflict, BeginCached,
     AtBegin, BeginInFlight, EnterWait, Wake, WaitTimeout, RunBody, ReturnWithoutKey, Complete, Release,
     Arrive, Cleanup, Lapse, vars, IInv, TypeOK, Goto, Answer
<1>3. SawAResult(p) /\ pc[p] # "idle"
  <2>1. CASE pc[p] \in Past
    BY <1>1, <2>1 DEF UncountedSawAResult
  <2>2. CASE PeekReplay(p) /\ IsReplay(p)
    <3>1. key[p] \in Keys /\ IsTerminal(key[p]) /\ records[key[p]].fp = FingerprintOf[cmd[p]] /\ pc[p] = "peek"
      BY <2>2 DEF IsReplay, SameFingerprint, PeekReplay, IInv, TypeOK
    <3>2. PICK q \in Requests : Cached(q) /\ key[q] = key[p] /\ records[key[p]] = Settled(q)
      BY <3>1 DEF IInv, TerminalIsCached
    <3> QED BY <3>1, <3>2 DEF Settled, SawAResult
  <2> QED BY <1>2, <2>1, <2>2
<1>4. PICK q \in Requests : Cached(q) /\ key[q] = key[p] /\ FingerprintOf[cmd[q]] = FingerprintOf[cmd[p]]
  BY <1>3 DEF SawAResult
<1>5. Cached(q)' /\ key'[q] = key[q] /\ key'[p] = key[p] /\ cmd' = cmd
  BY <1>3, <1>4, OneActs
<1> QED BY <1>4, <1>5 DEF SawAResult

\* A replay is taken from a terminal record: by Begin, which compares, or by Wait, which does not.
LEMMA ReplaysStep == IInv /\ AnswersInv /\ [Next]_vars => RejectingNeverWaits' /\ ReplaysAreResults'
<1> SUFFICES ASSUME IInv, AnswersInv, [Next]_vars, NEW p \in Requests
             PROVE  /\ pc'[p] \in {"wait", "blocked"} => cmd'[p] \notin Rejecting
                    /\ answer'[p].kind = "replay" => ResultOfTheKey(p, answer[p].run)'
  BY DEF RejectingNeverWaits, ReplaysAreResults
<1>1. cmd' = cmd
  BY OneActs
<1>2. pc'[p] \in {"wait", "blocked"} => cmd'[p] \notin Rejecting
  <2>1. pc'[p] \in {"wait", "blocked"} => pc[p] \in {"wait", "blocked"} \/ cmd[p] \notin Rejecting
    BY DEF Next, Proceed, Panic, PeekReplay, RateGate, WithoutKey, BeginStarted, BeginConflict, BeginCached,
       AtBegin, BeginInFlight, EnterWait, Wake, WaitTimeout, RunBody, ReturnWithoutKey, Complete, Release,
       Arrive, Cleanup, Lapse, vars, IInv, TypeOK, Goto, Answer
  <2> QED BY <1>1, <2>1 DEF AnswersInv, RejectingNeverWaits
<1>3. ASSUME answer'[p].kind = "replay", answer'[p] = answer[p] PROVE ResultOfTheKey(p, answer[p].run)'
  <2> DEFINE run == answer[p].run
  <2>1. ResultOfTheKey(p, run) /\ answer'[p].run = run
    BY <1>3 DEF AnswersInv, ReplaysAreResults
  <2>2. Cached(run)' /\ key'[run] = key[run]
    BY <2>1, OneActs DEF ResultOfTheKey
  <2>3. pc'[p] = "done" /\ key'[p] = key[p]
    <3>1. pc[p] = "done"
      BY <2>1 DEF ResultOfTheKey
    <3> QED BY <3>1, OneActs
  <2> QED BY <1>1, <2>1, <2>2, <2>3, OneActs DEF ResultOfTheKey
<1>4. ASSUME answer'[p].kind = "replay", answer'[p] # answer[p] PROVE ResultOfTheKey(p, answer[p].run)'
  <2>1. BeginCached(p) \/ (Wake(p) /\ IsTerminal(key[p]))
    BY <1>4 DEF Next, Proceed, Panic, PeekReplay, RateGate, WithoutKey, BeginStarted, BeginConflict, BeginCached,
       AtBegin, BeginInFlight, EnterWait, Wake, WaitTimeout, RunBody, ReturnWithoutKey, Complete, Release,
       Arrive, Cleanup, Lapse, vars, IInv, TypeOK, Goto, Answer, Told
  <2>2. /\ IsTerminal(key[p]) /\ key[p] \in Keys /\ pc[p] # "idle"
        /\ answer'[p].run = records[key[p]].run
        /\ cmd[p] \in Rejecting => records[key[p]].fp = FingerprintOf[cmd[p]]
    BY <2>1 DEF BeginCached, AtBegin, SameFingerprint, Wake, Answer, Told, IInv, TypeOK, WaitersHaveKeys,
                AnswersInv, RejectingNeverWaits
  <2>3. PICK q \in Requests : Cached(q) /\ key[q] = key[p] /\ records[key[p]] = Settled(q)
    BY <2>2 DEF IInv, TerminalIsCached
  <2>4. answer'[p].run = q /\ (cmd[p] \in Rejecting => FingerprintOf[cmd[q]] = FingerprintOf[cmd[p]])
    BY <2>2, <2>3 DEF Settled
  <2>5. Cached(q)' /\ key'[q] = key[q] /\ key'[p] = key[p]
    BY <2>2, <2>3, OneActs
  <2>6. pc'[p] = "done"
    BY <2>1, <2>2 DEF BeginCached, Wake, Answer, Goto, IInv, TypeOK
  <2> QED BY <1>1, <2>3, <2>4, <2>5, <2>6 DEF ResultOfTheKey
<1> QED BY <1>2, <1>3, <1>4

LEMMA AnswersInvariant == Spec => [](IInv /\ AnswersInv)
<1>1. IInv /\ AnswersInv /\ [Next]_vars => AnswersInv'
  BY WaitersStep, UncountedStep, ReplaysStep DEF AnswersInv
<1> QED BY <1>1, AnswersInit, InitInvariant, StepInvariant, PTL DEF Spec

\* Whoever blocks in Wait blocks on a run that goes on, or on one that panicked and leaves it
\* to its timeout; it never waits for a run that has ended and could not tell it.
THEOREM LiveWaits == Spec => []WaitersWatchALiveRun
<1>1. IInv /\ AnswersInv => WaitersWatchALiveRun
  <2> SUFFICES ASSUME IInv, AnswersInv, NEW p \in Requests, pc[p] = "blocked", watch[p] \notin closed
               PROVE  /\ Present(key[p]) /\ records[key[p]].done = watch[p]
                      /\ Running(watch[p]) \/ outcome[watch[p]] = "panic"
    BY DEF WaitersWatchALiveRun
  <2>1. Present(key[p]) /\ records[key[p]].done = watch[p] /\ key[p] \in Keys
    BY DEF AnswersInv, WaitersTookAChannel, IInv, WaitersHaveKeys, TypeOK
  <2>2. ~IsTerminal(key[p])
    <3> SUFFICES ASSUME IsTerminal(key[p]) PROVE FALSE
      OBVIOUS
    <3>1. PICK q \in Requests : q \in closed /\ records[key[p]] = Settled(q)
      BY <2>1 DEF IInv, TerminalIsCached
    <3>2. Settled(q).done = q
      BY DEF Settled
    <3> QED BY <2>1, <3>1, <3>2
  <2>3. PICK q \in Requests : records[key[p]] = Pending(q)
                              /\ (Running(q) \/ (pc[q] = "done" /\ outcome[q] = "panic"))
    BY <2>1, <2>2 DEF IInv, InFlightIsOwned
  <2> QED BY <2>1, <2>3 DEF Pending, InFlight
<1> QED BY <1>1, AnswersInvariant, PTL

\* A client is only given, as a replay, the result of a finished run under its own key; where
\* the UseCase rejects concurrent retries it is the very Command's; and a body that no limiter
\* counted runs after the lapse of the result that let it pass.
THEOREM HonestReplays == Spec => []ReplaysAreHonest
<1>1. IInv /\ AnswersInv => ReplaysAreHonest
  <2> SUFFICES ASSUME IInv, AnswersInv PROVE UnchargedRunFollowsALapse
    BY DEF AnswersInv, ReplaysAreHonest, ReplaysAreResults, ResultOfTheKey, ReplayIsAResultOfTheKey,
           RejectingReplayMatchesPayload
  <2> SUFFICES ASSUME NEW p \in Requests, Running(p), cmd[p] \in RateLimited, ~charged[p]
               PROVE  \E q \in lapsed : key[q] = key[p] /\ FingerprintOf[cmd[q]] = FingerprintOf[cmd[p]]
    BY DEF UnchargedRunFollowsALapse
  <2>1. PICK q \in Requests : Cached(q) /\ key[q] = key[p] /\ FingerprintOf[cmd[q]] = FingerprintOf[cmd[p]]
    BY DEF AnswersInv, UncountedSawAResult, SawAResult, Running
  <2>2. records[key[p]] = Pending(p) /\ key[p] \in Keys
    BY DEF IInv, RunnerOwnsRecord, Pending, Running, TypeOK
  <2>3. ~IsTerminal(key[p])
    BY <2>2 DEF IsTerminal, Pending, InFlight
  <2>4. q \in lapsed
    BY <2>1, <2>3 DEF IInv, CachedIsTerminal
  <2> QED BY <2>1, <2>4
<1> QED BY <1>1, AnswersInvariant, PTL

-----------------------------------------------------------------------------
\* How the store's records determine the abstract state of one key.
LEMMA AbstractValues ==
    ASSUME IInv, NEW k \in Keys
    PROVE  /\ ~Present(k) => Holder[k] = Nobody /\ Remembered[k] = Nobody
           /\ \A p \in Requests : records[k] = Pending(p) =>
                 Present(k) /\ Holder[k] = p /\ Remembered[k] = Nobody
           /\ \A p \in Requests : records[k] = Settled(p) =>
                 /\ IsTerminal(k) /\ Holder[k] = Nobody
                 /\ Remembered[k] = IF p \in lapsed THEN Nobody ELSE p
<1>1. ASSUME NEW p \in Requests
      PROVE  Pending(p) \in RecordSet /\ Settled(p) \in RecordSet
  BY DEF IInv, TypeOK, Pending, Settled, InFlight, RecordSet
<1>2. ~Present(k) => Holder[k] = Nobody /\ Remembered[k] = Nobody
  BY DEF Holder, Remembered, IsTerminal
<1>3. ASSUME NEW p \in Requests, records[k] = Pending(p)
      PROVE  Present(k) /\ Holder[k] = p /\ Remembered[k] = Nobody
  <2>1. Present(k) /\ ~IsTerminal(k) /\ records[k].done = p
    BY <1>1, <1>3 DEF Present, IsTerminal, Pending, InFlight
  <2> QED BY <2>1 DEF Holder, Remembered
<1>4. ASSUME NEW p \in Requests, records[k] = Settled(p)
      PROVE  /\ IsTerminal(k) /\ Holder[k] = Nobody
             /\ Remembered[k] = IF p \in lapsed THEN Nobody ELSE p
  <2>1. IsTerminal(k) /\ records[k].run = p
    BY <1>1, <1>4 DEF Present, IsTerminal, Settled
  <2> QED BY <2>1 DEF Holder, Remembered, Expired
<1> QED BY <1>2, <1>3, <1>4

\* The store keeps the promise of OncePerKey: Begin starts a run, Complete finishes
\* it, Release aborts it, a lapse forgets it, and everything else is invisible.
THEOREM Refinement == Spec => ImplementsOncePerKey
<1>1. Init => Promise!Init
  BY DEF Init, Promise!Init, Holder, Remembered, IsTerminal, Present
<1>2. IInv /\ IInv' /\ [Next]_vars => [Promise!Next]_(Promise!abstractVars)
  <2> SUFFICES ASSUME IInv, IInv', [Next]_vars
               PROVE  [Promise!Next]_(Promise!abstractVars)
    OBVIOUS
  <2> USE DEF Promise!Next, Promise!abstractVars
  <2>h. /\ Holder = [k \in Keys |-> Holder[k]] /\ Remembered = [k \in Keys |-> Remembered[k]]
        /\ Holder' = [k \in Keys |-> Holder'[k]]
        /\ Remembered' = [k \in Keys |-> Remembered'[k]]
    BY DEF Holder, Remembered
  <2>1. CASE UNCHANGED <<records, lapsed>>
    BY <2>1 DEF Holder, Remembered, IsTerminal, Present, Expired
  <2>2. ASSUME NEW p \in Requests, BeginStarted(p) PROVE Promise!Next
    <3>1. PICK k \in Keys : k = key[p]
      BY <2>2 DEF BeginStarted, AtBegin, IInv, TypeOK
    <3>2. records' = [records EXCEPT ![k] = Pending(p)] /\ lapsed' = lapsed
      BY <2>2, <3>1 DEF BeginStarted, Pending
    <3>3. Holder[k] = Nobody /\ Remembered[k] = Nobody
      BY <2>2, <3>1 DEF BeginStarted, Holder, Remembered, IsTerminal, Present, Expired
    <3>4. Pending(p)' = Pending(p) /\ records'[k] = Pending(p)
      BY <2>2, <3>2 DEF BeginStarted, request, Pending, InFlight, IInv, TypeOK
    <3>5. Holder'[k] = p /\ Remembered'[k] = Nobody
      BY <3>4 DEF Holder, Remembered, IsTerminal, Present, Expired, Pending, InFlight,
                  IInv, TypeOK, RecordSet
    <3>6. \A l \in Keys : l # k => Holder'[l] = Holder[l] /\ Remembered'[l] = Remembered[l]
      BY <3>2 DEF Holder, Remembered, IsTerminal, Present, Expired
    <3>7. Promise!Start(k, p)
      BY <3>3, <3>5, <3>6, <2>h DEF Promise!Start
    <3> QED BY <3>7
  <2>3. ASSUME NEW p \in Requests, Complete(p) \/ Release(p) PROVE Promise!Next
    <3>1. PICK k \in Keys : k = key[p]
      BY <2>3 DEF Complete, Release, IInv, TypeOK
    <3>2. /\ records[k] = Pending(p) /\ p \notin lapsed /\ lapsed' = lapsed
          /\ \A l \in Keys : l # k => records'[l] = records[l]
      BY <2>3, <3>1, SettleFrame DEF IInv
    <3>3. Holder[k] = p /\ Remembered[k] = Nobody /\ p # Nobody /\ Present(k)
      BY <3>2, AbstractValues
    <3>4. \A l \in Keys : l # k => Holder'[l] = Holder[l] /\ Remembered'[l] = Remembered[l]
      BY <3>2 DEF Holder, Remembered, IsTerminal, Present, Expired
    <3>5. CASE Complete(p)
      <4>1. records'[k] = Settled(p)
        <5>1. records' = [records EXCEPT ![k] = Terminal(Pending(p), p)]
          BY <3>5, <3>1, <3>2, <3>3 DEF Complete
        <5> QED BY <5>1 DEF Terminal, Pending, InFlight, Settled, IInv, TypeOK
      <4>2. Settled(p) \in RecordSet
        BY DEF Settled, RecordSet, IInv, TypeOK
      <4>3. Holder'[k] = Nobody /\ Remembered'[k] = p
        BY <4>1, <4>2, <3>2 DEF Holder, Remembered, IsTerminal, Present, Expired, Settled
      <4>4. Promise!Finish(k)
        BY <4>3, <3>3, <3>4, <2>h DEF Promise!Finish
      <4> QED BY <4>4
    <3>6. CASE Release(p)
      <4>1. records'[k] = Absent
        BY <3>6, <3>1 DEF Release, IInv, TypeOK
      <4>2. Holder'[k] = Nobody /\ Remembered'[k] = Nobody
        BY <4>1 DEF Holder, Remembered, IsTerminal, Present
      <4>3. Promise!Abort(k)
        BY <4>2, <3>3, <3>4, <2>h DEF Promise!Abort
      <4> QED BY <4>3
    <3> QED BY <2>3, <3>5, <3>6
  <2>4. ASSUME NEW k \in Keys, Lapse(k) PROVE Promise!Next
    <3>1. PICK p \in Requests : Cached(p) /\ key[p] = k /\ records[k] = Settled(p)
      BY <2>4 DEF Lapse, IInv, TerminalIsCached
    <3>2. lapsed' = lapsed \union {p} /\ records' = records /\ p \notin lapsed
      BY <2>4, <3>1 DEF Lapse, Settled, Expired
    <3>3. Remembered[k] = p /\ Holder[k] = Nobody /\ p # Nobody
      BY <3>1, <3>2, AbstractValues
    <3>4. Remembered'[k] = Nobody /\ Holder'[k] = Nobody
      BY <2>4, <3>1, <3>2 DEF Lapse, Holder, Remembered, IsTerminal, Present, Expired, Settled
    <3>5. ASSUME NEW l \in Keys, l # k
          PROVE  Holder'[l] = Holder[l] /\ Remembered'[l] = Remembered[l]
      <4>1. IsTerminal(l) => records[l].run # p
        <5>1. ASSUME NEW q \in Requests, key[q] = l, records[l] = Settled(q)
              PROVE  records[l].run # p
          BY <5>1, <3>1, <3>5 DEF Settled
        <5> QED BY <5>1 DEF IInv, TerminalIsCached
      <4> QED BY <4>1, <3>2 DEF Holder, Remembered, IsTerminal, Present, Expired
    <3>6. Promise!Forget(k)
      BY <3>3, <3>4, <3>5, <2>h DEF Promise!Forget
    <3> QED BY <3>6
  <2>5. ASSUME Cleanup PROVE UNCHANGED <<Holder, Remembered>>
    <3>1. ASSUME NEW k \in Keys PROVE Holder'[k] = Holder[k] /\ Remembered'[k] = Remembered[k]
      BY <2>5 DEF Cleanup, Holder, Remembered, IsTerminal, Present, Expired
    <3> QED BY <3>1, <2>h
  <2> QED
    BY <2>1, <2>2, <2>3, <2>4, <2>5 DEF Next, Proceed, vars, Arrive, PeekReplay, RateGate,
       WithoutKey, BeginConflict, BeginCached, BeginInFlight, EnterWait, Wake, WaitTimeout,
       RunBody, Panic, ReturnWithoutKey, store
<1> QED BY <1>1, <1>2, Invariance, PTL DEF Spec, Promise!Spec, ImplementsOncePerKey
=============================================================================
