--------------------------- MODULE MCServicesLive ---------------------------
(***************************************************************************)
(* The parts of the generated services that promise something about what   *)
(* must happen in the end, checked side by side: a behaviour is a          *)
(* behaviour of one of them, named by part. The others stand where they    *)
(* started when no fair action is enabled there; a broker's channel stands *)
(* closed and every two-phase run ended.                                   *)
(***************************************************************************)
EXTENDS MCSaga, MCTwoPhase, MCAmqpChannel, MCWorker, MCQueryCache, MCQueueChannel

VARIABLE part

sagaStands == decl = CHOOSE d \in SagaDecls : TRUE
\* A channel that was closed before anything was published.
amqpStands ==
  /\ sent = 0 /\ bound = TRUE /\ subscribed = TRUE /\ link = "closed" /\ stopped = TRUE /\ watching = FALSE
  /\ queue = [q \in Consumers |-> <<>>] /\ retry = <<>>
  /\ held = [c \in Consumers |-> NoMessage] /\ acking = {} /\ orphans = {} /\ dead = {} /\ doubled = {}
  /\ rejections = [m \in Messages |-> 0] /\ handled = <<>> /\ unheard = {} /\ vanished = {} /\ losses = 0
\* Every run failed at its BeginTx.
twoPhaseStands ==
  /\ unit = [r \in UnitRuns |-> LET plan == usecase2PCPlan(BodyOf[r])
                                IN  [at |-> IF plan = <<>> THEN "single" ELSE "failed", plan |-> plan, next |-> 1]]
  /\ conns = [d \in Databases |-> {}] /\ committed = [d \in Databases |-> {}] /\ published = {}
workerStands == wdecl = CHOOSE d \in WorkerDecls : d.schedule = "cron"
cacheStands == backend = [x \in Procs |-> "memory"]

\* Bound: the third call, which joins or follows the flight of another, only comes to a
\* memory cache that nothing invalidates.
ThirdCallBound == pc'[c3] # "idle" => backend[cp1] = "memory" /\ wpc'[w1] = "idle"

LiveInit ==
  /\ part \in {"Saga", "TwoPhase", "AmqpChannel", "Worker", "QueryCache", "QueueChannel"}
  /\ IF part = "Saga" THEN TRUE ELSE sagaStands
  /\ IF part = "Worker" THEN TRUE ELSE workerStands
  /\ IF part = "QueryCache" THEN TRUE ELSE cacheStands
  /\ IF part = "AmqpChannel" THEN AmqpInit ELSE amqpStands
  /\ IF part = "TwoPhase" THEN TwoPhaseInit ELSE twoPhaseStands
  /\ SagaInit /\ WorkerInit /\ CacheInit /\ Init

LiveNext ==
  /\ UNCHANGED part
  /\ \/ part = "Saga" /\ SagaNext
        /\ UNCHANGED <<twoPhaseVars, amqpVars, workerVars, cacheVars, vars>>
     \/ part = "TwoPhase" /\ TwoPhaseNext
        /\ UNCHANGED <<sagaVars, amqpVars, workerVars, cacheVars, vars>>
     \/ part = "AmqpChannel" /\ AmqpNext
        /\ UNCHANGED <<sagaVars, twoPhaseVars, workerVars, cacheVars, vars>>
     \/ part = "Worker" /\ WorkerNext
        /\ UNCHANGED <<sagaVars, twoPhaseVars, amqpVars, cacheVars, vars>>
     \/ part = "QueryCache" /\ CacheNext /\ ThirdCallBound
        /\ UNCHANGED <<sagaVars, twoPhaseVars, amqpVars, workerVars, vars>>
     \/ part = "QueueChannel" /\ Next
        /\ UNCHANGED <<sagaVars, twoPhaseVars, amqpVars, workerVars, cacheVars>>

liveVars == <<part, sagaVars, twoPhaseVars, amqpVars, workerVars, cacheVars, vars>>
LiveSpec ==
  /\ LiveInit /\ [][LiveNext]_liveVars
  /\ SagaFairness /\ TwoPhaseFairness /\ AmqpFairness /\ WorkerFairness /\ CacheFairness /\ Fairness
=============================================================================
