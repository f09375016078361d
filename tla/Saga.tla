-------------------------------- MODULE Saga --------------------------------
(***************************************************************************)
(* One generated Saga (codegen/decl_saga.go) over the runtime's            *)
(* orchestration (codegen/rtsrc/saga.go.txt): the entry of its mode, the   *)
(* detached goroutine that runs the steps and compensates them, and the    *)
(* in-memory store of an asynchronous saga's status.  The process may      *)
(* crash, and what it held is gone.                                        *)
(***************************************************************************)
EXTENDS Naturals, Sequences, FiniteSets, SequencesExt, FiniteSetsExt

CONSTANTS
    SagaCalls,      \* calls of the entry function
    SagaKeyOf,      \* SagaCalls -> the Idempotency-Key in its context, or NoKey
    SagaDecls,      \* declarations tried: [mode, steps], see StepOf
    MaxSagaCrashes, \* bound
    NoKey

ASSUME SagaDeclsAssumption ==
    \A d \in SagaDecls : d.steps \in Seq([down : {"block", "unrecoverable", "none"}, hook : BOOLEAN])
ASSUME SagaCrashesAssumption == MaxSagaCrashes \in Nat

VARIABLES
    decl,           \* the declaration the code was generated from
    caller,         \* each call: "new", "looked", "waiting", or how it returned
    run,            \* the goroutine of each call, or NoRun
    status,         \* the SagaStore: sagaId -> SagaState
    holds,          \* calls that were given the pointer to the saga's state
    counted,        \* runs the Metric "on <Saga>.completed" has counted
    sagaCrashes

sagaVars == <<decl, caller, run, status, holds, counted, sagaCrashes>>

NoRun == [phase |-> "none"]
Steps == decl.steps
\* isUnrecoverableDown and emitSagaStepFuncs: the entry of a step in the table. A block
\* that is exactly "unrecoverable" gives no Down function.
StepOf(s) == [down |-> s.down = "block", unrecoverable |-> s.down = "unrecoverable", hook |-> s.hook]

SagaIDOf(c) == IF SagaKeyOf[c] = NoKey THEN c ELSE SagaKeyOf[c]
\* Every mode but async, those sema does not know included, gets the entry that waits.
Async == decl.mode = "async"
\* Where the run goes when no step is left to run or to compensate.
SagaSettled(r) == [r EXCEPT !.phase = IF Async THEN "put" ELSE "end"]
NewRun ==
    LET r == [phase |-> "up", at |-> 1, completed |-> <<>>, compensated |-> <<>>,
              unrecoverable |-> <<>>, err |-> "nil", undone |-> {}]
    IN  IF Steps = <<>> THEN SagaSettled(r) ELSE r

SagaInit ==
    /\ decl \in SagaDecls
    /\ caller = [c \in SagaCalls |-> "new"] /\ run = [c \in SagaCalls |-> NoRun]
    /\ status = <<>> /\ holds = {} /\ counted = {} /\ sagaCrashes = 0

Returns(c, how) == caller' = [caller EXCEPT ![c] = how]

\* Mutant: a failed saga's state is what made it fail.
FinalStateIsErrorMutant(r) == IF r.err = "nil" THEN "Completed" ELSE r.err

\* SagaResult.FinalState.
FinalStateOf(r) == IF r.err = "nil" THEN "Completed"
                   ELSE IF r.unrecoverable = <<>> THEN "Compensated" ELSE "Failed"

-----------------------------------------------------------------------------
(* The entries.                                                            *)

\* The entry that waits: the steps start in a goroutine of their own and the caller waits.
StartAwait(c) ==
    /\ ~Async /\ caller[c] = "new"
    /\ Returns(c, "waiting") /\ run' = [run EXCEPT ![c] = NewRun]
    /\ UNCHANGED <<decl, status, holds, counted, sagaCrashes>>

\* Mutant: the late caller is given the state as well.
TimeoutWithStateMutant(c) ==
    /\ caller[c] = "waiting" /\ Returns(c, "timeout") /\ holds' = holds \cup {c}
    /\ UNCHANGED <<decl, run, status, counted, sagaCrashes>>

\* ctx.Done(): the deadline of a declared timeout or, with or without one, the caller's own
\* cancellation or deadline. The goroutine goes on without the caller.
AwaitTimeout(c) ==
    /\ caller[c] = "waiting" /\ Returns(c, "timeout")
    /\ UNCHANGED <<decl, run, status, holds, counted, sagaCrashes>>

\* The result won the select: the only path that updates the Metric in this mode.
AwaitResult(c) ==
    /\ caller[c] = "waiting" /\ run[c].phase = "end"
    /\ Returns(c, IF run[c].err = "nil" THEN "ok" ELSE "failed")
    /\ holds' = holds \cup {c}
    /\ counted' = IF run[c].err = "nil" THEN counted \cup {c} ELSE counted
    /\ UNCHANGED <<decl, run, status, sagaCrashes>>

\* Mutant: the status under a key is not looked for.
LookNotMutant(c) ==
    /\ Async /\ caller[c] = "new" /\ Returns(c, "looked")
    /\ UNCHANGED <<decl, run, status, holds, counted, sagaCrashes>>

\* Mode async looks its id up when the call has a key ...
Look(c) ==
    /\ Async /\ caller[c] = "new"
    /\ Returns(c, IF SagaKeyOf[c] # NoKey /\ SagaIDOf(c) \in DOMAIN status THEN "sagaId" ELSE "looked")
    /\ UNCHANGED <<decl, run, status, holds, counted, sagaCrashes>>

\* ... and, having found nothing, records Running, starts the steps and returns.
StartAsync(c) ==
    /\ caller[c] = "looked"
    /\ status' = [i \in DOMAIN status \cup {SagaIDOf(c)} |->
                     IF i = SagaIDOf(c) THEN "Running" ELSE status[i]]
    /\ run' = [run EXCEPT ![c] = NewRun]
    /\ Returns(c, "sagaId")
    /\ UNCHANGED <<decl, holds, counted, sagaCrashes>>

-----------------------------------------------------------------------------
(* RunSaga, one Up or Down at a time.                                      *)

Set(c, r) == run' = [run EXCEPT ![c] = r]
DownFrom(r, i) == IF i = 0 THEN SagaSettled(r) ELSE [r EXCEPT !.phase = "down", !.at = i]

Up(c) ==
    LET r == run[c]
        step == StepOf(Steps[r.at])
        done == [r EXCEPT !.completed = Append(@, r.at)]
    IN  /\ r.phase = "up"
        /\ \/ Set(c, IF r.at = Len(Steps) THEN SagaSettled(done) ELSE [done EXCEPT !.at = @ + 1])
           \/ \E err \in {"business", "infra"} :
                Set(c, IF err = "infra" /\ step.hook THEN [r EXCEPT !.phase = "hook", !.err = err]
                       ELSE DownFrom([r EXCEPT !.err = err], r.at - 1))
        /\ UNCHANGED <<decl, caller, status, holds, counted, sagaCrashes>>

\* Mutant: after the hook the step is tried again.
InfraHookRetriesMutant(c) ==
    /\ run[c].phase = "hook" /\ Set(c, [run[c] EXCEPT !.phase = "up", !.err = "nil"])
    /\ UNCHANGED <<decl, caller, status, holds, counted, sagaCrashes>>

\* onInfraError runs once, whatever it answers.
InfraHook(c) ==
    /\ run[c].phase = "hook" /\ Set(c, DownFrom(run[c], run[c].at - 1))
    /\ UNCHANGED <<decl, caller, status, holds, counted, sagaCrashes>>

\* Mutant: compensation starts at the first step.
DownInOrderMutant(c) ==
    LET r == run[c]
        k == Len(r.completed) + 1 - r.at
        step == StepOf(Steps[k])
    IN  /\ r.phase = "down"
        /\ \/ /\ step.unrecoverable
              /\ Set(c, DownFrom([r EXCEPT !.unrecoverable = Append(@, k)], r.at - 1))
           \/ /\ ~step.unrecoverable
              /\ \E ok \in {TRUE, ~step.down} :
                    Set(c, DownFrom([r EXCEPT !.compensated = Append(@, k),
                                     !.undone = IF ok THEN @ \cup {k} ELSE @], r.at - 1))
        /\ UNCHANGED <<decl, caller, status, holds, counted, sagaCrashes>>

\* One step of the compensation. The error of a Down is swallowed; a step without down
\* counts as compensated.
Down(c) ==
    LET r == run[c]
        step == StepOf(Steps[r.at])
    IN  /\ r.phase = "down"
        /\ \/ /\ step.unrecoverable
              /\ Set(c, DownFrom([r EXCEPT !.unrecoverable = Append(@, r.at)], r.at - 1))
           \/ /\ ~step.unrecoverable
              /\ \E ok \in {TRUE, ~step.down} :
                    Set(c, DownFrom([r EXCEPT !.compensated = Append(@, r.at),
                                     !.undone = IF ok THEN @ \cup {r.at} ELSE @], r.at - 1))
        /\ UNCHANGED <<decl, caller, status, holds, counted, sagaCrashes>>

\* Mutant: a run that compensated nothing leaves its status alone.
PutNotFailedMutant(c) ==
    /\ run[c].phase = "put"
    /\ status' = IF run[c].completed = <<>> THEN status
                 ELSE [status EXCEPT ![SagaIDOf(c)] = FinalStateOf(run[c])]
    /\ counted' = IF run[c].err = "nil" THEN counted \cup {c} ELSE counted
    /\ Set(c, [run[c] EXCEPT !.phase = "end"])
    /\ UNCHANGED <<decl, caller, holds, sagaCrashes>>

\* The goroutine of an asynchronous saga ends: Metric, then status.
PutFinal(c) ==
    /\ run[c].phase = "put"
    /\ status' = [status EXCEPT ![SagaIDOf(c)] = FinalStateOf(run[c])]
    /\ counted' = IF run[c].err = "nil" THEN counted \cup {c} ELSE counted
    /\ Set(c, [run[c] EXCEPT !.phase = "end"])
    /\ UNCHANGED <<decl, caller, holds, sagaCrashes>>

\* The process dies between two steps: store, goroutines and callers are gone.
SagaCrash ==
    /\ sagaCrashes < MaxSagaCrashes
    /\ \E c \in SagaCalls : run[c].phase \notin {"none", "end"}
    /\ sagaCrashes' = sagaCrashes + 1
    /\ status' = <<>> /\ holds' = {}
    /\ run' = [c \in SagaCalls |-> IF run[c].phase \in {"none", "end"} THEN run[c]
                               ELSE [run[c] EXCEPT !.phase = "lost"]]
    /\ caller' = [c \in SagaCalls |-> IF caller[c] \in {"looked", "waiting"} THEN "lost" ELSE caller[c]]
    /\ UNCHANGED <<decl, counted>>

SagaNext ==
    \/ SagaCrash
    \/ \E c \in SagaCalls :
          StartAwait(c) \/ AwaitTimeout(c) \/ AwaitResult(c) \/ Look(c) \/ StartAsync(c)
          \/ Up(c) \/ InfraHook(c) \/ Down(c) \/ PutFinal(c)

\* A goroutine that was started runs (a body returns), and a caller that waits is served.
SagaFairness == \A c \in SagaCalls : WF_sagaVars(Up(c) \/ InfraHook(c) \/ Down(c) \/ PutFinal(c) \/ AwaitResult(c))

SagaSpec == SagaInit /\ [][SagaNext]_sagaVars /\ SagaFairness

-----------------------------------------------------------------------------
\* Types.
SagaTypeOK ==
    /\ caller \in [SagaCalls -> {"new", "looked", "waiting", "sagaId", "ok", "failed", "timeout", "lost"}]
    /\ \A c \in SagaCalls : run[c].phase \in {"none", "up", "hook", "down", "put", "end", "lost"}
    /\ \A i \in DOMAIN status : status[i] \in {"Running", "Completed", "Compensated", "Failed"}

\* RunSaga's promise: a failed run undoes or gives up its completed steps from the last one
\* back, each once and each as it was declared, and has done all of them when it ends.
Decreasing(s) == \A i, j \in DOMAIN s : i < j => s[i] > s[j]
HandledCount(r) == Len(r.compensated) + Len(r.unrecoverable)
\* The completed steps the compensation has passed so far.
Passed(r) == {k \in 1..Len(r.completed) : k > Len(r.completed) - HandledCount(r)}
CompensationIsReverse ==
    \A c \in SagaCalls : run[c].phase # "none" =>
        LET r == run[c]
        IN  /\ Len(r.completed) <= Len(Steps) /\ \A k \in DOMAIN r.completed : r.completed[k] = k
            /\ r.err = "nil" => HandledCount(r) = 0
            /\ HandledCount(r) <= Len(r.completed)
            /\ Decreasing(r.unrecoverable) /\ Decreasing(r.compensated)
            /\ ToSet(r.unrecoverable) = {k \in Passed(r) : StepOf(Steps[k]).unrecoverable}
            /\ ToSet(r.compensated) = {k \in Passed(r) : ~StepOf(Steps[k]).unrecoverable}
            /\ r.phase \in {"put", "end"} =>
                  IF r.err = "nil" THEN Len(r.completed) = Len(Steps) ELSE HandledCount(r) = Len(r.completed)

\* A caller of an awaited saga that holds the state holds it alone: its goroutine, the
\* only other writer, has ended (emitSagaAwaitEntry detaches it for this reason).
StateHandedOverOnlyAfterRun == \A c \in holds : run[c].phase = "end"

\* The status under an id is that of a run of it: Running needs a run to come to an end,
\* and a final status is the outcome of one that has.
StatusMatchesARun ==
    \A i \in DOMAIN status : \E c \in SagaCalls :
        /\ SagaIDOf(c) = i /\ run[c].phase # "none"
        /\ IF status[i] = "Running" THEN run[c].phase # "end"
           ELSE run[c].phase = "end" /\ status[i] = FinalStateOf(run[c])

\* What a saga leaves behind, whatever failed: undone steps, a state of its caller's own
\* and a status that says how it ended.
SagasKeepTheirWord ==
  SagaTypeOK /\ CompensationIsReverse /\ StateHandedOverOnlyAfterRun /\ StatusMatchesARun

\* A retry that comes after the call under the same key returned never passes the lookup,
\* whatever its run does meanwhile (the entry's comment: "an idempotent retry").
SequentialRetriesRunOnce ==
    [][\A c, d \in SagaCalls :
          /\ SagaKeyOf[c] = SagaKeyOf[d] /\ SagaKeyOf[c] # NoKey /\ Async /\ sagaCrashes = 0
          /\ caller[c] = "sagaId" /\ caller[d] = "new"
          => caller'[d] \in {"new", "sagaId"} /\ run'[d] = NoRun]_sagaVars

\* Again and again every run that started so far has ended, with all of its steps done or
\* handled, or died with the process, and no id of the store is left Running, not even one
\* that two runs share.
StartedSagasEnd ==
    []<>( /\ \A c \in SagaCalls : run[c].phase \in {"none", "end", "lost"}
          /\ \A i \in DOMAIN status : status[i] # "Running")

\* Under one key a saga runs once when its retries wait for the answer, and it ends.
SagasSettle == SequentialRetriesRunOnce /\ StartedSagasEnd

\* What the entry's comment says of a key: "the SAME key always produces the SAME sagaId",
\* and a call under a used key "returns WITHOUT starting the steps again".
OneRunPerSagaKey ==
    \A c, d \in SagaCalls :
        c # d /\ SagaKeyOf[c] = SagaKeyOf[d] /\ SagaKeyOf[c] # NoKey /\ run[c].phase # "none" /\ Async
            /\ sagaCrashes = 0 => run[d].phase = "none"

\* What SagaState's comment says of Compensated: "a step failed but every completed step
\* was compensated", FinalState's: "every completed step was undone".
CompensatedMeansUndone ==
    \A c \in SagaCalls :
        run[c].phase \in {"put", "end"} /\ FinalStateOf(run[c]) = "Compensated"
            => \A k \in ToSet(run[c].completed) : k \in run[c].undone
=============================================================================
