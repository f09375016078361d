------------------------------ MODULE TwoPhase ------------------------------
(***************************************************************************)
(* The UseCases that touch Aggregates of several databases: which of them  *)
(* the generator routes through the two-phase unit of work                 *)
(* (codegen/decl_usecase.go, codegen/sql_wiring.go), and the runs of that  *)
(* unit of work over one connection pool per database                      *)
(* (codegen/sqlrt/twophase.go.txt).                                        *)
(*                                                                         *)
(* The body of a UseCase is a sequence of [op, local, agg, handle, top]:   *)
(* loads of an Aggregate into a local, and calls of a method of a local;   *)
(* top is FALSE for a statement nested in another.                         *)
(***************************************************************************)
EXTENDS Naturals, Sequences, FiniteSets, SequencesExt, FiniteSetsExt

CONSTANTS
    UnitRuns,       \* concurrent executions
    BodyOf,         \* UnitRuns -> the body of the UseCase it executes
    DatabaseOf,     \* Aggregate -> the Database that manages it, or NoDatabase
    DatabaseDecl,   \* Database -> [xa, provider, rank]; names sort by rank
    HandlesOf,      \* Aggregate -> names of its Handles
    PoolSize,       \* connections of one database: 1 with sqlite
    HasPublisher,   \* emitXADatabaseWiring wires none
    NoDatabase

RecognizedSQLProviders == {"sqlite", "postgres"}

-----------------------------------------------------------------------------
(* The plan.                                                               *)

\* Which Aggregate a local holds after the first i statements that the scan looks at.
LocalAt(body, local, i) ==
    LET loads == {k \in 1..i : body[k].op = "load" /\ body[k].top /\ body[k].local = local
                               /\ body[k].agg \in DOMAIN DatabaseOf}
    IN  IF loads = {} THEN NoDatabase ELSE body[Max(loads)].agg

\* Aggregates with a top-level call of one of their Handles on a local loaded before.
touchedAggregates(body) ==
    {LocalAt(body, body[i].local, i) :
        i \in {k \in DOMAIN body : /\ body[k].op = "call" /\ body[k].top
                                   /\ LocalAt(body, body[k].local, k) # NoDatabase
                                   /\ body[k].handle \in HandlesOf[LocalAt(body, body[k].local, k)]}}

NamesLess(a, b) == DatabaseDecl[a].rank < DatabaseDecl[b].rank

\* Mutant: the databases in the order the body reaches them.
usecase2PCPlanUnsortedMutant(body) ==
    LET dbs == {DatabaseOf[a] : a \in touchedAggregates(body)}
        first == [d \in dbs |-> Min({i \in DOMAIN body : body[i].op = "load" /\ DatabaseOf[body[i].agg] = d})]
    IN  IF Cardinality(dbs) < 2 \/ \E d \in dbs : d = NoDatabase \/ ~DatabaseDecl[d].xa THEN <<>>
        ELSE SetToSortSeq(dbs, LAMBDA a, b : first[a] < first[b])

\* The names in order, or <<>> when the UseCase keeps the single unit of work: fewer than two
\* databases, or one of them without XA or without a real adapter.
usecase2PCPlan(body) ==
    LET dbs == {DatabaseOf[a] : a \in touchedAggregates(body)}
    IN  IF \/ Cardinality(dbs) < 2
           \/ \E d \in dbs : d = NoDatabase \/ ~DatabaseDecl[d].xa
                             \/ DatabaseDecl[d].provider \notin RecognizedSQLProviders
        THEN <<>> ELSE SetToSortSeq(dbs, NamesLess)

Databases == DOMAIN DatabaseDecl

\* Sorting keeps what it sorts: a plan names databases that are declared.
ASSUME PlansAssumption == \A r \in UnitRuns : usecase2PCPlan(BodyOf[r]) \in Seq(Databases)
ASSUME PoolAssumption == PoolSize \in Nat \ {0}

-----------------------------------------------------------------------------
VARIABLES
    unit,       \* each run: [at, plan, next], at one of Stages; "single" when not planned
    conns,      \* database -> runs that hold one of its connections
    committed,  \* database -> runs whose transaction it committed
    published   \* <<run, database>> pairs whose events went to the Publisher

twoPhaseVars == <<unit, conns, committed, published>>

Stages == {"single", "begin", "body", "commit", "publish", "ok", "failed", "panicked"}
Plan(r) == unit[r].plan

TwoPhaseInit ==
    /\ LET plans == [r \in UnitRuns |-> usecase2PCPlan(BodyOf[r])]
       IN  unit = [r \in UnitRuns |-> [at |-> IF plans[r] = <<>> THEN "single" ELSE "begin",
                                       plan |-> plans[r], next |-> 1]]
    /\ conns = [d \in Databases |-> {}] /\ committed = [d \in Databases |-> {}]
    /\ published = {}

\* Mutant: a panic skips the rollback.
LeaveOnlyOnErrorMutant(r, how) ==
    /\ unit' = [unit EXCEPT ![r].at = how]
    /\ conns' = IF how = "panicked" THEN conns ELSE [d \in Databases |-> conns[d] \ {r}]

\* The deferred rollback: what is not committed is undone and its connection freed.
Leave(r, how) ==
    /\ unit' = [unit EXCEPT ![r].at = how]
    /\ conns' = [d \in Databases |-> conns[d] \ {r}]

\* Mutant: BeginTx opens one connection more when the pool is empty.
BeginUnboundedMutant(r) ==
    /\ unit[r].at = "begin"
    /\ conns' = [conns EXCEPT ![Plan(r)[unit[r].next]] = @ \cup {r}]
    /\ unit' = IF unit[r].next = Len(Plan(r)) THEN [unit EXCEPT ![r].at = "body", ![r].next = 1]
               ELSE [unit EXCEPT ![r].next = @ + 1]
    /\ UNCHANGED <<committed, published>>

\* BeginTx waits for a connection of the next database ...
Begin(r) ==
    LET db == Plan(r)[unit[r].next]
    IN  /\ unit[r].at = "begin" /\ Cardinality(conns[db]) < PoolSize
        /\ conns' = [conns EXCEPT ![db] = @ \cup {r}]
        /\ unit' = IF unit[r].next = Len(Plan(r)) THEN [unit EXCEPT ![r].at = "body", ![r].next = 1]
                   ELSE [unit EXCEPT ![r].next = @ + 1]
        /\ UNCHANGED <<committed, published>>

\* ... and fails when the database does or the context ends.
BeginFails(r) ==
    /\ unit[r].at = "begin" /\ Leave(r, "failed")
    /\ UNCHANGED <<committed, published>>

\* Databases the Handles of the body write to when it runs: nested statements as well.
Reached(body) == {DatabaseOf[a] : a \in {body[i].agg : i \in {k \in DOMAIN body : body[k].op = "load"}}}

\* The body appends to the transactions of its plan. A Handle of a database the plan
\* missed finds no transaction in txs.
Body(r) ==
    /\ unit[r].at = "body"
    /\ IF Reached(BodyOf[r]) \subseteq ToSet(Plan(r))
       THEN /\ unit' = [unit EXCEPT ![r] = [@ EXCEPT !.at = "commit"]]
            /\ UNCHANGED conns
       ELSE Leave(r, "panicked")
    /\ UNCHANGED <<committed, published>>

BodyFails(r) ==
    /\ unit[r].at = "body" /\ \E how \in {"failed", "panicked"} : Leave(r, how)
    /\ UNCHANGED <<committed, published>>

\* Mutant: events go out as soon as one database has committed.
CommitPublishesMutant(r) ==
    LET db == Plan(r)[unit[r].next]
    IN  /\ unit[r].at = "commit"
        /\ committed' = [committed EXCEPT ![db] = @ \cup {r}]
        /\ conns' = [conns EXCEPT ![db] = @ \ {r}]
        /\ unit' = [unit EXCEPT ![r] = [@ EXCEPT !.at = "publish", !.next = 1]]
        /\ UNCHANGED published

\* One commit after the other, in the order of the names.
Commit(r) ==
    LET db == Plan(r)[unit[r].next]
    IN  /\ unit[r].at = "commit"
        /\ committed' = [committed EXCEPT ![db] = @ \cup {r}]
        /\ conns' = [conns EXCEPT ![db] = @ \ {r}]
        /\ unit' = IF unit[r].next = Len(Plan(r)) THEN [unit EXCEPT ![r].at = "publish", ![r].next = 1]
                   ELSE [unit EXCEPT ![r].next = @ + 1]
        /\ UNCHANGED published

\* Mutant: a failed commit does not stop the others.
CommitFailsGoesOnMutant(r) ==
    /\ unit[r].at = "commit"
    /\ IF unit[r].next < Len(Plan(r))
       THEN unit' = [unit EXCEPT ![r].next = @ + 1] /\ UNCHANGED conns
       ELSE Leave(r, "failed")
    /\ UNCHANGED <<committed, published>>

\* A commit that fails ends the run: the databases before it keep what they committed.
CommitFails(r) ==
    /\ unit[r].at = "commit" /\ Leave(r, "failed")
    /\ UNCHANGED <<committed, published>>

\* After the last commit; an error of a handler is only logged.
PublishAll(r) ==
    LET db == Plan(r)[unit[r].next]
    IN  /\ unit[r].at = "publish"
        /\ published' = IF HasPublisher THEN published \cup {<<r, db>>} ELSE published
        /\ IF unit[r].next = Len(Plan(r)) THEN Leave(r, "ok")
           ELSE unit' = [unit EXCEPT ![r].next = @ + 1] /\ UNCHANGED conns
        /\ UNCHANGED committed

TwoPhaseNext ==
    \E r \in UnitRuns :
        \/ Begin(r) \/ BeginFails(r) \/ Body(r) \/ BodyFails(r)
        \/ Commit(r) \/ CommitFails(r) \/ PublishAll(r)

\* A run that can go on does: the scheduler runs its goroutine.
TwoPhaseFairness == \A r \in UnitRuns : WF_twoPhaseVars(Begin(r) \/ Body(r) \/ Commit(r) \/ PublishAll(r))

TwoPhaseSpec == TwoPhaseInit /\ [][TwoPhaseNext]_twoPhaseVars /\ TwoPhaseFairness

-----------------------------------------------------------------------------
\* Types, and no pool gives more connections than it has.
TwoPhaseTypeOK ==
    /\ \A r \in UnitRuns : unit[r].at \in Stages /\ unit[r].next \in 1..Max({1, Len(Plan(r))})
    /\ \A d \in Databases : conns[d] \subseteq UnitRuns /\ Cardinality(conns[d]) <= PoolSize
                            /\ committed[d] \subseteq UnitRuns

Ended(r) == unit[r].at \in {"single", "ok", "failed", "panicked"}
CommittedDbs(r) == {d \in Databases : r \in committed[d]}

\* The partial commit that the type's comment admits is always a run's first databases in
\* the order of names, which is what the error log it leaves says; and a run that answers
\* nil has committed in every database.
CommittedIsAPrefix ==
    \A r \in UnitRuns :
        /\ \E n \in 0..Len(Plan(r)) : CommittedDbs(r) = {Plan(r)[i] : i \in 1..n}
        /\ unit[r].at = "ok" => CommittedDbs(r) = ToSet(Plan(r))
        /\ unit[r].at \in {"begin", "body", "panicked"} => CommittedDbs(r) = {}

\* No handler hears of an event of a run that has not committed everywhere.
PublishedAfterAllCommits ==
    \A p \in published : CommittedDbs(p[1]) = ToSet(Plan(p[1]))

\* A run that has ended holds no connection, also when its body panicked: with sqlite's
\* one connection every later writer of that database would wait for ever.
EndedRunsHoldNoConnection == \A r \in UnitRuns : Ended(r) => \A d \in Databases : r \notin conns[d]

\* However a run over several databases ends, what it leaves is what its log says, unheard
\* unless complete, and no connection.
PartialCommitsAreBounded ==
  TwoPhaseTypeOK /\ CommittedIsAPrefix /\ PublishedAfterAllCommits /\ EndedRunsHoldNoConnection

\* Runs that need the same databases do not wait for each other for ever.
EveryTwoPhaseRunEnds == <>(\A r \in UnitRuns : Ended(r))
=============================================================================
