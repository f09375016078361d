------------------------------- MODULE Worker -------------------------------
(***************************************************************************)
(* One generated Worker (codegen/decl_worker.go) over the runtime's        *)
(* semaphore, limiter, retry policy and source                             *)
(* (codegen/rtsrc/worker.go.txt): the loop of its schedule, the goroutines *)
(* that run the body, and the cancellation that stops them.                *)
(*                                                                         *)
(* Time is counted in ticks; the limiter's interval, the schedule and the  *)
(* delay between attempts are given in ticks.                              *)
(***************************************************************************)
EXTENDS Integers, Sequences, FiniteSets, SequencesExt, FiniteSetsExt

CONSTANTS
    WorkerDecls,    \* declarations tried: [schedule, every, settings, items]
    WorkerMaxTime,  \* bound of the clock
    TicksPerSecond, \* so that the interval of the limiter is a number of ticks
    Absent

\* workerConfigInt: a setting that is not declared is Absent.
Setting(settings, key) == IF key \in DOMAIN settings THEN settings[key] ELSE Absent

\* workerConfigInt: a setting that is declared must be an integer literal.
NumberOrAbsent(n) == n = Absent \/ n \in Int
ASSUME WorkerAssumption ==
    /\ WorkerMaxTime \in Nat /\ TicksPerSecond \in Nat
    /\ \A d \in WorkerDecls :
          /\ \A key \in {"concurrency", "batchSize", "maxRate"} : NumberOrAbsent(Setting(d.settings, key))
          /\ LET retry == Setting(d.settings, "retry")
             IN  retry = Absent \/ NumberOrAbsent(Setting(retry, "attempts"))
          /\ d.items \in Seq(ToSet(d.items))
          /\ \A item \in ToSet(d.items) : item.name # Absent

AtLeastOne(n) == IF n = Absent \/ n < 1 THEN 1 ELSE n

\* workerRetryPolicy with RetryPolicy.Run's floor: one attempt when nothing is declared,
\* fixed delays unless backoff is "exponential".
workerRetryPolicy(settings) ==
    LET retry == Setting(settings, "retry")
    IN  IF retry = Absent THEN [attempts |-> 1, exponential |-> FALSE]
        ELSE [attempts |-> AtLeastOne(Setting(retry, "attempts")),
              exponential |-> Setting(retry, "backoff") = "exponential"]

\* emitWorkerDecl and NewRateLimiter: no rate, or one of zero or less, paces nothing.
workerPlan(d) ==
    LET rate == Setting(d.settings, "maxRate")
    IN  [concurrency |-> AtLeastOne(Setting(d.settings, "concurrency")),
         batchSize |-> AtLeastOne(Setting(d.settings, "batchSize")),
         interval |-> IF rate = Absent \/ rate <= 0 THEN 0 ELSE TicksPerSecond \div rate,
         retry |-> workerRetryPolicy(d.settings)]

VARIABLES
    wdecl, wplan,   \* the declaration and what the generator made of it
    wclock, workerCancelled,
    loop,           \* the schedule's loop: [at, item, until]
    paceNext,       \* RateLimiter.next
    ticked,         \* the ticker's channel holds a tick
    source,         \* the items SliceSource has not handed out
    workerItems,    \* the channel between loop and consumers of a continuous Worker
    execs,          \* executions in their goroutines: [id, attempt, at, until]
    grants,         \* history: the slots of the limiter that the loop has used
    finished        \* history: items or ticks whose execution ended

workerVars == <<wdecl, wplan, wclock, workerCancelled, loop, paceNext, ticked, source, workerItems, execs, grants, finished>>

Continuous == wdecl.schedule = "continuous"
Start == [at |-> "idle", item |-> Absent, until |-> 0]
WorkerInit ==
    /\ wdecl \in WorkerDecls /\ wplan = workerPlan(wdecl)
    /\ wclock = 0 /\ workerCancelled = FALSE /\ loop = Start /\ paceNext = 0 /\ ticked = FALSE
    /\ source = wdecl.items /\ workerItems = <<>> /\ execs = {} /\ grants = <<>> /\ finished = {}

WorkerTick ==
    /\ wclock < WorkerMaxTime /\ wclock' = wclock + 1
    /\ ticked' = (ticked \/ (wdecl.schedule # "continuous" /\ wclock' % wdecl.every = 0))
    /\ UNCHANGED <<wdecl, wplan, workerCancelled, loop, paceNext, source, workerItems, execs, grants, finished>>

\* The context of the program ends.
Cancel ==
    /\ ~workerCancelled /\ workerCancelled' = TRUE
    /\ UNCHANGED <<wdecl, wplan, wclock, loop, paceNext, ticked, source, workerItems, execs, grants, finished>>

-----------------------------------------------------------------------------
(* The loop.                                                               *)

Quiet == UNCHANGED <<wdecl, wplan, wclock, workerCancelled>>
Stop == loop' = [Start EXCEPT !.at = "stopped"]

\* Mutant: the slot after this one is counted from the last reservation only.
ReserveLateMutant(item) ==
    IF wplan.interval = 0
    THEN loop' = [at |-> "granted", item |-> item, until |-> wclock] /\ UNCHANGED paceNext
    ELSE loop' = [at |-> "pacing", item |-> item, until |-> Max({paceNext, wclock})]
         /\ paceNext' = paceNext + wplan.interval

\* RateLimiter.Wait reserves the next slot and says when it comes.
ReserveFor(item) ==
    LET start == Max({paceNext, wclock})
    IN  IF wplan.interval = 0
        THEN loop' = [at |-> "granted", item |-> item, until |-> wclock] /\ UNCHANGED paceNext
        ELSE loop' = [at |-> "pacing", item |-> item, until |-> start] /\ paceNext' = start + wplan.interval

\* emitEvery and emitCron: a tick starts an execution. The next tick is seen when this one
\* has its goroutine; the ticker keeps one and drops the others.
TakeTick ==
    /\ ~Continuous /\ loop.at = "idle" /\ ticked
    /\ ticked' = FALSE /\ ReserveFor(wclock)
    /\ Quiet /\ UNCHANGED <<source, workerItems, execs, grants, finished>>

\* emitContinuous: the item after the last one; an item the where clause excludes is passed
\* over. An error of the source is only logged, and the loop asks again at once.
TakeItem ==
    /\ Continuous /\ loop.at = "idle" /\ ~workerCancelled /\ source # <<>>
    /\ source' = Tail(source)
    /\ IF Head(source).wanted THEN ReserveFor(Head(source).name) ELSE UNCHANGED <<loop, paceNext>>
    /\ Quiet /\ UNCHANGED <<ticked, workerItems, execs, grants, finished>>

Paced ==
    /\ loop.at = "pacing" /\ wclock >= loop.until
    /\ loop' = [loop EXCEPT !.at = "granted"]
    /\ grants' = Append(grants, loop.until)
    /\ Quiet /\ UNCHANGED <<paceNext, ticked, source, workerItems, execs, finished>>

NewExec(id) == [id |-> id, attempt |-> 1, at |-> "run", until |-> 0]

\* Mutant: the goroutine starts before it has a slot.
StartTickFreelyMutant ==
    /\ ~Continuous /\ loop.at = "granted"
    /\ execs' = execs \cup {NewExec(loop.item)} /\ loop' = Start
    /\ Quiet /\ UNCHANGED <<paceNext, ticked, source, workerItems, grants, finished>>

\* emitRetryDispatch: a slot of the semaphore, then the goroutine.
StartTick ==
    /\ ~Continuous /\ loop.at = "granted" /\ Cardinality(execs) < wplan.concurrency
    /\ execs' = execs \cup {NewExec(loop.item)} /\ loop' = Start
    /\ Quiet /\ UNCHANGED <<paceNext, ticked, source, workerItems, grants, finished>>

\* The channel's buffer, or a consumer that waits, takes the item.
Send ==
    /\ Continuous /\ loop.at = "granted" /\ Len(workerItems) < wplan.batchSize
    /\ workerItems' = Append(workerItems, loop.item) /\ loop' = Start
    /\ Quiet /\ UNCHANGED <<paceNext, ticked, source, execs, grants, finished>>

\* Mutant: a loop that stops empties the channel it closes.
LoopStopsEmptiesMutant ==
    /\ workerCancelled /\ loop.at # "stopped" /\ Stop
    /\ workerItems' = <<>>
    /\ Quiet /\ UNCHANGED <<paceNext, ticked, source, execs, grants, finished>>

\* Every wait of the loop also watches the context.
LoopStops ==
    /\ workerCancelled /\ loop.at # "stopped" /\ Stop
    /\ Quiet /\ UNCHANGED <<paceNext, ticked, source, workerItems, execs, grants, finished>>

-----------------------------------------------------------------------------
(* The executions.                                                         *)

\* Mutant: consumers leave when the context ends.
ConsumeUntilCancelMutant ==
    /\ Continuous /\ workerItems # <<>> /\ Cardinality(execs) < wplan.concurrency /\ ~workerCancelled
    /\ execs' = execs \cup {NewExec(Head(workerItems))} /\ workerItems' = Tail(workerItems)
    /\ Quiet /\ UNCHANGED <<loop, paceNext, ticked, source, grants, finished>>

\* A consumer takes the next item; closing the channel leaves what is in it to them.
Consume ==
    /\ Continuous /\ workerItems # <<>> /\ Cardinality(execs) < wplan.concurrency
    /\ execs' = execs \cup {NewExec(Head(workerItems))} /\ workerItems' = Tail(workerItems)
    /\ Quiet /\ UNCHANGED <<loop, paceNext, ticked, source, grants, finished>>

Ends(x) == execs' = execs \ {x} /\ finished' = finished \cup {x.id}
Replace(x, y) == execs' = (execs \ {x}) \cup {y} /\ UNCHANGED finished
DelayAfter(attempt) == IF wplan.retry.exponential THEN 2^(attempt - 1) ELSE 1

\* Mutant: the last attempt is retried as well.
AttemptOnceMoreMutant(x) ==
    /\ x.at = "run"
    /\ \/ Ends(x)
       \/ /\ x.attempt <= wplan.retry.attempts
          /\ Replace(x, [x EXCEPT !.at = "backoff", !.until = wclock + DelayAfter(x.attempt)])
    /\ Quiet /\ UNCHANGED <<loop, paceNext, ticked, source, workerItems, grants>>

\* RetryPolicy.Run: the body succeeds, or fails for the last time, or waits to try again.
Attempt(x) ==
    /\ x.at = "run"
    /\ \/ Ends(x)
       \/ /\ x.attempt < wplan.retry.attempts
          /\ Replace(x, [x EXCEPT !.at = "backoff", !.until = wclock + DelayAfter(x.attempt)])
    /\ Quiet /\ UNCHANGED <<loop, paceNext, ticked, source, workerItems, grants>>

Retry(x) ==
    /\ x.at = "backoff" /\ wclock >= x.until
    /\ Replace(x, [x EXCEPT !.at = "run", !.attempt = @ + 1])
    /\ Quiet /\ UNCHANGED <<loop, paceNext, ticked, source, workerItems, grants>>

\* The end of the context ends the wait between two attempts.
GiveUp(x) ==
    /\ workerCancelled /\ x.at = "backoff" /\ Ends(x)
    /\ Quiet /\ UNCHANGED <<loop, paceNext, ticked, source, workerItems, grants>>

WorkerNext ==
    \/ WorkerTick \/ Cancel \/ TakeTick \/ TakeItem \/ Paced \/ StartTick \/ Send \/ LoopStops
    \/ Consume \/ \E x \in execs : Attempt(x) \/ Retry(x) \/ GiveUp(x)

\* Goroutines that can go on do, and bodies return. The clock owes nothing: it is bounded.
WorkerFairness == WF_workerVars(LoopStops) /\ WF_workerVars(Consume)
                  /\ WF_workerVars(\E x \in execs : Attempt(x) \/ GiveUp(x))

WorkerSpec == WorkerInit /\ [][WorkerNext]_workerVars /\ WorkerFairness

-----------------------------------------------------------------------------
\* Types, no attempt beyond the declared ones and no more items queued than a batch.
WorkerTypeOK ==
    /\ loop.at \in {"idle", "pacing", "granted", "stopped"}
    /\ \A x \in execs : x.at \in {"run", "backoff"} /\ x.attempt \in 1..wplan.retry.attempts
    /\ Len(workerItems) <= wplan.batchSize

\* "concurrency" bounds the bodies in flight, retries and their delays included: it is what
\* keeps a Worker from overlapping with itself when it is 1.
ConcurrencyBounded == Cardinality(execs) <= wplan.concurrency

\* NewRateLimiter's comment: at most perSecond calls to Wait per second. Whatever the loop
\* waited for in between, also after an idle time, two slots are an interval apart and
\* none is used before it comes.
GrantsArePaced ==
    /\ \A i \in 1..(Len(grants) - 1) : grants[i + 1] >= grants[i] + wplan.interval
    /\ \A i \in DOMAIN grants : grants[i] <= wclock

\* An item handed out by the source is somewhere: in the loop's hand, in the channel, in an
\* execution or finished; only the one the loop held when the context ended can be lost.
WantedTaken ==
    LET taken == SubSeq(wdecl.items, 1, Len(wdecl.items) - Len(source))
    IN  {x.name : x \in {i \in ToSet(taken) : i.wanted}}
AtMostTheHeldItemIsLost ==
    Continuous =>
        LET kept == ToSet(workerItems) \cup {x.id : x \in execs} \cup finished
                    \cup (IF loop.item = Absent THEN {} ELSE {loop.item})
            lost == WantedTaken \ kept
        IN  /\ kept \subseteq WantedTaken
            /\ loop.at # "stopped" => lost = {}
            /\ Cardinality(lost) <= 1

\* "concurrency" and "maxRate" hold, and the source's items are accounted for.
WorkersKeepTheirSettings ==
  WorkerTypeOK /\ ConcurrencyBounded /\ GrantsArePaced /\ AtMostTheHeldItemIsLost

\* After the context ends the Worker does: no loop, nothing queued, no body left running.
CancelledWorkerStops == workerCancelled ~> loop.at = "stopped" /\ workerItems = <<>> /\ execs = {}
=============================================================================
