---------------------------- MODULE Idempotency ----------------------------
(***************************************************************************)
(* Idempotent dispatch of a Command: the in-memory IdempotencyStore        *)
(* (codegen/rtsrc/idempotency.go.txt), the UseCase wrapper generated       *)
(* around it (codegen/usecase_idempotency.go, emitIdempotencyWrapper), the *)
(* replay/rate-limit gate of the HTTP handler (codegen/http.go) and the    *)
(* generated cleanup worker.                                               *)
(*                                                                         *)
(* A request is one client call. The store's mutex makes every store       *)
(* method one step, except Wait, which unlocks while it blocks and locks   *)
(* again afterwards. A `done` channel is named by the request whose Begin  *)
(* created it; `closed` is the set of closed channels. Time is abstracted  *)
(* to the moment a result's window lapses.                                 *)
(***************************************************************************)
EXTENDS Naturals

CONSTANTS
    Requests,           \* client calls
    Keys,               \* Idempotency-Key values
    NoKey,              \* a call that carries no Idempotency-Key
    Commands,           \* command values, of any UseCase of the module
    Fingerprints,
    FingerprintOf,      \* IdempotencyFingerprint: the JSON of the payload, hashed
    Required,           \* commands whose UseCase has plan.required
    Rejecting,          \* commands whose UseCase has plan.concurrentReject; the others wait
    RateLimited,        \* commands whose route configures rateLimit
    Absent,             \* records[key] holds nothing
    Nobody              \* no request

ASSUME NoKeyAssumption == NoKey \notin Keys
ASSUME NobodyAssumption == Nobody \notin Requests
ASSUME FingerprintAssumption == FingerprintOf \in [Commands -> Fingerprints]
ASSUME PolicyAssumption == {Required, Rejecting, RateLimited} \subseteq SUBSET Commands

VARIABLES
    pc,       \* where each request stands
    key,      \* its Idempotency-Key
    cmd,      \* its command
    charged,  \* the rate limiter counted it
    outcome,  \* how its run of the UseCase body ended
    watch,    \* the done channel it blocks on in Wait
    answer,   \* what its client was told
    records,  \* memoryIdempotencyStore.records
    closed,   \* done channels already closed
    lapsed    \* runs whose cached result is past expiresAt

vars == <<pc, key, cmd, charged, outcome, watch, answer, records, closed, lapsed>>
request == <<key, cmd>>
store == <<records, closed, lapsed>>

\* IdempotencyOutcome: what NewCompletedResult keeps. An infra error is never kept.
Cacheable == {"ok", "business"}
RunEndings == Cacheable \union {"infra"}

\* idemRecord. `done` names the channel by the request that created it; `run`
\* names the run whose outcome Complete stored (rec.result).
InFlight(p, fp) == [state |-> "inFlight", fp |-> fp, done |-> p, run |-> Nobody]
Terminal(rec, p) == [rec EXCEPT !.state = "terminal", !.run = p]

RecordSet == [state : {"inFlight", "terminal"}, fp : Fingerprints,
              done : Requests, run : Requests \union {Nobody}]
ASSUME AbsentAssumption == Absent \notin RecordSet

Told(kind, run) == [kind |-> kind, run |-> run]
Silence == Told("none", Nobody)

Present(k) == records[k] # Absent
IsTerminal(k) == Present(k) /\ records[k].state = "terminal"
Expired(k) == IsTerminal(k) /\ records[k].run \in lapsed
SameFingerprint(p) == records[key[p]].fp = FingerprintOf[cmd[p]]

-----------------------------------------------------------------------------
Init ==
    /\ pc = [p \in Requests |-> "idle"]
    /\ key = [p \in Requests |-> NoKey]
    /\ cmd \in [Requests -> Commands]
    /\ charged = [p \in Requests |-> FALSE]
    /\ outcome = [p \in Requests |-> "none"]
    /\ watch = [p \in Requests |-> Nobody]
    /\ answer = [p \in Requests |-> Silence]
    /\ records = [k \in Keys |-> Absent]
    /\ closed = {}
    /\ lapsed = {}

Goto(p, label) == pc' = [pc EXCEPT ![p] = label]

Answer(p, kind, run) ==
    /\ Goto(p, "done")
    /\ answer' = [answer EXCEPT ![p] = Told(kind, run)]

\* --- the HTTP edge -------------------------------------------------------

\* The handler decodes the command and reads the Idempotency-Key header.
Arrive(p, k) ==
    /\ pc[p] = "idle"
    /\ key' = [key EXCEPT ![p] = k]
    /\ Goto(p, IF cmd[p] \in RateLimited THEN "peek" ELSE "begin")
    /\ UNCHANGED <<cmd, charged, outcome, watch, answer, store>>

\* Mutant: Peek forgets to ask whether the run is over.
PeekInFlightMutant(p) == key[p] # NoKey /\ Present(key[p]) /\ ~Expired(key[p]) /\ SameFingerprint(p)

\* <Name>IsReplay -> Peek: an unexpired terminal record with this fingerprint.
IsReplay(p) ==
    /\ key[p] # NoKey
    /\ IsTerminal(key[p])
    /\ ~Expired(key[p])
    /\ SameFingerprint(p)

PeekReplay(p) ==
    /\ pc[p] = "peek"
    /\ Goto(p, IF IsReplay(p) THEN "begin" ELSE "gate")
    /\ UNCHANGED <<request, charged, outcome, watch, answer, store>>

\* CheckRateLimits: the limiter admits (and counts) the request or answers 429.
\* Which of the two is the limiter's own business.
RateGate(p) ==
    /\ pc[p] = "gate"
    /\ \/ /\ charged' = [charged EXCEPT ![p] = TRUE]
          /\ Goto(p, "begin")
          /\ UNCHANGED answer
       \/ /\ Answer(p, "limited", Nobody)
          /\ UNCHANGED charged
    /\ UNCHANGED <<request, outcome, watch, store>>

\* --- the generated wrapper -----------------------------------------------

\* No key: fail when the UseCase requires one, else run the body unprotected.
WithoutKey(p) ==
    /\ pc[p] = "begin"
    /\ key[p] = NoKey
    /\ IF cmd[p] \in Required THEN Answer(p, "keyRequired", Nobody)
       ELSE Goto(p, "run") /\ UNCHANGED answer
    /\ UNCHANGED <<request, charged, outcome, watch, store>>

AtBegin(p) == pc[p] = "begin" /\ key[p] # NoKey

\* Mutants: Begin overwrites a run still in flight; or another command's result.
BeginOverInFlightMutant(p) ==
    /\ AtBegin(p)
    /\ ~IsTerminal(key[p]) \/ Expired(key[p])
    /\ records' = [records EXCEPT ![key[p]] = InFlight(p, FingerprintOf[cmd[p]])]
    /\ Goto(p, "run")
    /\ UNCHANGED <<request, charged, outcome, watch, answer, closed, lapsed>>
BeginOverOtherCommandMutant(p) ==
    /\ AtBegin(p)
    /\ ~Present(key[p]) \/ Expired(key[p]) \/ (IsTerminal(key[p]) /\ ~SameFingerprint(p))
    /\ records' = [records EXCEPT ![key[p]] = InFlight(p, FingerprintOf[cmd[p]])]
    /\ Goto(p, "run")
    /\ UNCHANGED <<request, charged, outcome, watch, answer, closed, lapsed>>

\* Begin finds nothing, or an expired result it deletes: this request owns the run.
BeginStarted(p) ==
    /\ AtBegin(p)
    /\ ~Present(key[p]) \/ Expired(key[p])
    /\ records' = [records EXCEPT ![key[p]] = InFlight(p, FingerprintOf[cmd[p]])]
    /\ Goto(p, "run")
    /\ UNCHANGED <<request, charged, outcome, watch, answer, closed, lapsed>>

BeginConflict(p) ==
    /\ AtBegin(p)
    /\ Present(key[p]) /\ ~Expired(key[p])
    /\ ~SameFingerprint(p)
    /\ Answer(p, "conflict", Nobody)
    /\ UNCHANGED <<request, charged, outcome, watch, store>>

\* Mutant: the fingerprint is not compared once a result is there.
BeginCachedAnyMutant(p) ==
    /\ AtBegin(p)
    /\ IsTerminal(key[p]) /\ ~Expired(key[p])
    /\ Answer(p, "replay", records[key[p]].run)
    /\ UNCHANGED <<request, charged, outcome, watch, store>>

BeginCached(p) ==
    /\ AtBegin(p)
    /\ IsTerminal(key[p]) /\ ~Expired(key[p])
    /\ SameFingerprint(p)
    /\ Answer(p, "replay", records[key[p]].run)
    /\ UNCHANGED <<request, charged, outcome, watch, store>>

BeginInFlight(p) ==
    /\ AtBegin(p)
    /\ Present(key[p]) /\ ~IsTerminal(key[p])
    /\ SameFingerprint(p)
    /\ IF cmd[p] \in Rejecting THEN Answer(p, "inFlight", Nobody)
       ELSE Goto(p, "wait") /\ UNCHANGED answer
    /\ UNCHANGED <<request, charged, outcome, watch, store>>

\* Wait, first critical section: nothing tracked means Released (begin again),
\* otherwise take the record's done channel and unlock.
EnterWait(p) ==
    /\ pc[p] = "wait"
    /\ IF Present(key[p])
       THEN /\ watch' = [watch EXCEPT ![p] = records[key[p]].done]
            /\ Goto(p, "blocked")
       ELSE Goto(p, "begin") /\ UNCHANGED watch
    /\ UNCHANGED <<request, charged, outcome, answer, store>>

\* Mutant: the second critical section does not ask whether a new run started.
WakeUncheckedMutant(p) ==
    /\ pc[p] = "blocked"
    /\ watch[p] \in closed
    /\ watch' = [watch EXCEPT ![p] = Nobody]
    /\ IF Present(key[p]) THEN Answer(p, "replay", records[key[p]].run)
       ELSE Goto(p, "begin") /\ UNCHANGED answer
    /\ UNCHANGED <<request, charged, outcome, store>>

\* Wait, second critical section: it reads whatever record the key has NOW. A
\* terminal one is replayed without comparing fingerprints.
Wake(p) ==
    /\ pc[p] = "blocked"
    /\ watch[p] \in closed
    /\ watch' = [watch EXCEPT ![p] = Nobody]
    /\ IF IsTerminal(key[p]) THEN Answer(p, "replay", records[key[p]].run)
       ELSE Goto(p, "begin") /\ UNCHANGED answer
    /\ UNCHANGED <<request, charged, outcome, store>>

\* Mutant: waitCtx without a timeout.
NoTimeoutMutant(p) == FALSE

\* concurrentTimeout (or the client's own context) ends the wait.
WaitTimeout(p) ==
    /\ pc[p] = "blocked"
    /\ watch' = [watch EXCEPT ![p] = Nobody]
    /\ Answer(p, "timeout", Nobody)
    /\ UNCHANGED <<request, charged, outcome, store>>

\* The UseCase body returns.
RunBody(p, ending) ==
    /\ pc[p] = "run"
    /\ outcome' = [outcome EXCEPT ![p] = ending]
    /\ Goto(p, "settle")
    /\ UNCHANGED <<request, charged, watch, answer, store>>

\* The body panics: the wrapper has no defer, so the key is neither completed
\* nor released; net/http recovers the panic and the process goes on.
Panic(p) ==
    /\ pc[p] = "run"
    /\ outcome' = [outcome EXCEPT ![p] = "panic"]
    /\ Answer(p, "panic", Nobody)
    /\ UNCHANGED <<request, charged, watch, store>>

ReturnWithoutKey(p) ==
    /\ pc[p] = "settle" /\ key[p] = NoKey
    /\ Answer(p, "ran", p)
    /\ UNCHANGED <<request, charged, outcome, watch, store>>

\* Success or business error: cache it, arm its expiry and close the channel
\* (Complete also covers a record that is gone: it makes one).
Complete(p) ==
    /\ pc[p] = "settle" /\ key[p] # NoKey /\ outcome[p] \in Cacheable
    /\ records' = [records EXCEPT ![key[p]] =
                     Terminal(IF Present(key[p]) THEN @ ELSE InFlight(p, FingerprintOf[cmd[p]]), p)]
    /\ closed' = closed \union {records'[key[p]].done}
    /\ Answer(p, "ran", p)
    /\ UNCHANGED <<request, charged, outcome, watch, lapsed>>

\* Mutant: Release deletes the record but leaves its channel open.
ReleaseSilentlyMutant(p) ==
    /\ pc[p] = "settle" /\ key[p] # NoKey /\ outcome[p] \notin Cacheable
    /\ records' = [records EXCEPT ![key[p]] = Absent]
    /\ Answer(p, "ran", p)
    /\ UNCHANGED <<request, charged, outcome, watch, closed, lapsed>>

\* Infrastructure error: forget the record (if any) and close its channel.
Release(p) ==
    /\ pc[p] = "settle" /\ key[p] # NoKey /\ outcome[p] \notin Cacheable
    /\ records' = [records EXCEPT ![key[p]] = Absent]
    /\ closed' = IF Present(key[p]) THEN closed \union {records[key[p]].done} ELSE closed
    /\ Answer(p, "ran", p)
    /\ UNCHANGED <<request, charged, outcome, watch, lapsed>>

\* --- time and the cleanup worker -------------------------------------------

\* Mutant: a record still in flight has an expiry too.
LapseInFlightMutant(k) ==
    /\ Present(k) /\ ~Expired(k) /\ records[k].run \notin lapsed
    /\ lapsed' = lapsed \union {records[k].run}
    /\ UNCHANGED <<pc, request, charged, outcome, watch, answer, records, closed>>

\* The clock passes the expiresAt of the result stored under k.
Lapse(k) ==
    /\ IsTerminal(k) /\ ~Expired(k)
    /\ lapsed' = lapsed \union {records[k].run}
    /\ UNCHANGED <<pc, request, charged, outcome, watch, answer, records, closed>>

\* Mutants: cleanup drops records in flight; or every finished one.
CleanupInFlightMutant ==
    /\ \E k \in Keys : Present(k)
    /\ records' = [k \in Keys |-> IF Expired(k) \/ ~IsTerminal(k) THEN Absent ELSE records[k]]
    /\ UNCHANGED <<pc, request, charged, outcome, watch, answer, closed, lapsed>>
CleanupFreshMutant ==
    /\ \E k \in Keys : IsTerminal(k)
    /\ records' = [k \in Keys |-> IF IsTerminal(k) THEN Absent ELSE records[k]]
    /\ UNCHANGED <<pc, request, charged, outcome, watch, answer, closed, lapsed>>

\* StartIdempotencyCleanup -> Cleanup: one critical section over the whole map.
Cleanup ==
    /\ \E k \in Keys : Expired(k)
    /\ records' = [k \in Keys |-> IF Expired(k) THEN Absent ELSE records[k]]
    /\ UNCHANGED <<pc, request, charged, outcome, watch, answer, closed, lapsed>>

-----------------------------------------------------------------------------
\* What a request does by itself once it has arrived.
Proceed(p) ==
    \/ PeekReplay(p) \/ RateGate(p) \/ WithoutKey(p)
    \/ BeginStarted(p) \/ BeginConflict(p) \/ BeginCached(p) \/ BeginInFlight(p)
    \/ EnterWait(p) \/ Wake(p) \/ WaitTimeout(p)
    \/ \E ending \in RunEndings : RunBody(p, ending)
    \/ ReturnWithoutKey(p) \/ Complete(p) \/ Release(p)

Next ==
    \/ \E p \in Requests :
          \/ \E k \in Keys \union {NoKey} : Arrive(p, k)
          \/ Proceed(p)
          \/ Panic(p)
    \/ \E k \in Keys : Lapse(k)
    \/ Cleanup

\* A handler goroutine keeps running, and concurrentTimeout bounds every wait;
\* the body itself is bounded by the UseCase's timeout.
Fairness == \A p \in Requests : WF_vars(Proceed(p))

Spec == Init /\ [][Next]_vars
FairSpec == Spec /\ Fairness

-----------------------------------------------------------------------------
(* Properties *)

Labels == {"idle", "peek", "gate", "begin", "run", "settle", "wait", "blocked", "done"}
AnswerKinds == {"none", "ran", "replay", "conflict", "inFlight", "timeout",
                "keyRequired", "limited", "panic"}

\* Every variable keeps its type.
TypeOK ==
    /\ pc \in [Requests -> Labels]
    /\ key \in [Requests -> Keys \union {NoKey}]
    /\ cmd \in [Requests -> Commands]
    /\ charged \in [Requests -> BOOLEAN]
    /\ outcome \in [Requests -> RunEndings \union {"none", "panic"}]
    /\ watch \in [Requests -> Requests \union {Nobody}]
    /\ answer \in [Requests -> [kind : AnswerKinds, run : Requests \union {Nobody}]]
    /\ records \in [Keys -> RecordSet \union {Absent}]
    /\ closed \subseteq Requests
    /\ lapsed \subseteq Requests

Running(p) == pc[p] \in {"run", "settle"} /\ key[p] # NoKey
Cached(p) == key[p] # NoKey /\ pc[p] = "done" /\ outcome[p] \in Cacheable

\* No two requests run the UseCase body under one key at the same time, however
\* Begin, Wait, Release, expiry and cleanup interleave.
SingleRunner == \A p, q \in Requests :
    Running(p) /\ Running(q) /\ key[p] = key[q] => p = q

\* The request that runs still owns the key's record when it settles it, and its
\* channel is open: Complete and Release never settle another request's run, and
\* never close a channel twice (which would panic).
RunnerOwnsRecord == \A p \in Requests :
    Running(p) => /\ records[key[p]] = InFlight(p, FingerprintOf[cmd[p]])
                  /\ p \notin closed

\* A body runs under a record of its own, and nobody else's does at the same time.
RunsAreExclusive == SingleRunner /\ RunnerOwnsRecord

\* Within one window a key has the effect of at most one run: two runs that ended
\* in a result are never both inside their windows.
OneResultPerWindow == \A p, q \in Requests :
    Cached(p) /\ Cached(q) /\ key[p] = key[q] /\ p # q => p \in lapsed \/ q \in lapsed

\* A request blocked in Wait waits for a run that can still wake it, or was
\* already woken: the channel it took is closed, or it belongs to the record the
\* key has now, whose owner is running (or panicked: then only the timeout helps).
WaitersWatchALiveRun == \A p \in Requests : pc[p] = "blocked" =>
    \/ watch[p] \in closed
    \/ /\ Present(key[p])
       /\ records[key[p]].done = watch[p]
       /\ Running(watch[p]) \/ outcome[watch[p]] = "panic"

\* What a client is given as a replay is the result of a finished run under its
\* own key, never an infrastructure error and never a run still going on.
ReplayIsAResultOfTheKey == \A p \in Requests : answer[p].kind = "replay" =>
    LET run == answer[p].run IN run \in Requests /\ Cached(run) /\ key[run] = key[p]

\* A body that runs without having been counted by the rate limiter was taken for
\* a replay by PeekReplay: an equal command's result under its key has since lapsed.
UnchargedRunFollowsALapse == \A p \in Requests :
    Running(p) /\ cmd[p] \in RateLimited /\ ~charged[p] =>
        \E q \in lapsed : key[q] = key[p] /\ FingerprintOf[cmd[q]] = FingerprintOf[cmd[p]]

\* No step touches a cached result inside its window: not a late Release, not
\* Cleanup, not another request's Begin or Complete.
ResultsAreStable == [][\A k \in Keys :
    IsTerminal(k) /\ ~Expired(k) => records'[k] = records[k]]_vars

\* Every request that reached the wrapper is answered, even when the run it waits
\* for is released or never settles.
EveryRequestAnswered == \A p \in Requests : pc[p] = "begin" ~> pc[p] = "done"

\* A replay answers the very command that was sent: "the SAME key reused with a
\* DIFFERENT Command payload is a conflict" (idempotency.go.txt, file comment).
ReplayMatchesPayload == \A p \in Requests : answer[p].kind = "replay" =>
    FingerprintOf[cmd[answer[p].run]] = FingerprintOf[cmd[p]]

\* The same promise for the UseCases that reject concurrent retries: they share the
\* store with those that wait, but never wake up on a record they did not compare.
RejectingReplayMatchesPayload == \A p \in Requests :
    answer[p].kind = "replay" /\ cmd[p] \in Rejecting =>
        FingerprintOf[cmd[answer[p].run]] = FingerprintOf[cmd[p]]

\* A replay is a result of the key and, for the UseCases that reject, of this very
\* Command; and only what was, or had just been, such a replay goes uncounted.
ReplaysAreHonest ==
    ReplayIsAResultOfTheKey /\ RejectingReplayMatchesPayload /\ UnchargedRunFollowsALapse

\* The caller BeginStarted authorised "MUST call Complete (...) or Release (...)
\* exactly once": a request that is over leaves no record in flight.
OwnersSettle == \A k \in Keys :
    Present(k) /\ ~IsTerminal(k) => pc[records[k].done] # "done"

\* The store implements OncePerKey: the record in flight is the holder, the
\* unexpired terminal record is the remembered result.
Holder == [k \in Keys |->
    IF Present(k) /\ ~IsTerminal(k) THEN records[k].done ELSE Nobody]
Remembered == [k \in Keys |->
    IF IsTerminal(k) /\ ~Expired(k) THEN records[k].run ELSE Nobody]
Promise == INSTANCE OncePerKey WITH holder <- Holder, cached <- Remembered
ImplementsOncePerKey == Promise!Spec
=============================================================================
