------------------------------- MODULE Wiring -------------------------------
(***************************************************************************)
(* How the generator connects the modules of a program: the groups of      *)
(* modules that share a process, the publisher of each unit of work, and   *)
(* the transport each Policy is subscribed to (codegen/codegen.go,         *)
(* codegen/decl_policy.go, codegen/sql_wiring.go, codegen/channel.go,      *)
(* codegen/channel_rabbitmq.go); and what becomes of an event that a       *)
(* UseCase of the generated program commits.                               *)
(*                                                                         *)
(* A program is [modules, channels]: a module is                           *)
(* [service, useCases, events, public, policies, databases, listens,       *)
(* workers, grpc], where a policy is [name, on, delivery], databases counts *)
(* those with a real SQL provider and grpc says that its Interface has gRPC *)
(* services; a channel is [from, to, via, provider].                        *)
(***************************************************************************)
EXTENDS Naturals, Sequences, FiniteSets, SequencesExt, FiniteSetsExt

CONSTANTS
    Programs,       \* programs tried
    MaxCommits,     \* bound
    ModuleOrder,    \* the modules of every program, in the generator's alphabetical order
    None

ASSUME OrderAssumption == ModuleOrder \in Seq(ToSet(ModuleOrder)) /\ MaxCommits \in Nat
\* The generator tells events apart by their names alone (EventType), so the programs covered
\* are those in which no two modules declare the same one; a public event is one of its module's.
ASSUME ProgramsAssumption ==
    \A p \in Programs :
        /\ DOMAIN p.modules \subseteq ToSet(ModuleOrder)
        /\ \A m \in DOMAIN p.modules : /\ p.modules[m].public \subseteq p.modules[m].events
                                       /\ IsFiniteSet(p.modules[m].policies) /\ p.modules[m].databases \in Nat
        /\ \A m, n \in DOMAIN p.modules : p.modules[m].events \cap p.modules[n].events # {} => m = n

-----------------------------------------------------------------------------
(* What the front end and the generator decide.                            *)

\* A service or a "via" that is not written down.
Unset == ""
Modules(p) == DOMAIN p.modules
OriginOf(p, ev) == CHOOSE m \in Modules(p) : ev \in p.modules[m].events
PoliciesOf(p) == UNION {{[module |-> m, policy |-> q] : q \in p.modules[m].policies} : m \in Modules(p)}
ChannelBetween(p, from, to) ==
    LET found == {c \in p.channels : c.from = from /\ c.to = to}
    IN  IF found = {} THEN None ELSE CHOOSE c \in found : TRUE
ViaKind(c) == IF c.via = Unset THEN "direct" ELSE c.via

\* sema.checkServiceChannels: a Policy on an event of another service needs a channel
\* between the two modules, in either direction.
checkServiceChannels(p) ==
    \A x \in PoliciesOf(p) :
        LET origin == OriginOf(p, x.policy.on)
            here == p.modules[x.module].service
            there == p.modules[origin].service
        IN  \/ origin = x.module \/ here = Unset \/ there = Unset \/ here = there
            \/ \E c \in p.channels : {c.from, c.to} = {origin, x.module}

\* buildCmdGroups: one main per service; modules without a service share one.
GroupOf(p, m) == {n \in Modules(p) : p.modules[n].service = p.modules[m].service}

\* producerChannelFor: the one outgoing channel that leaves the process.
OutgoingOf(p, m) == {c \in p.channels : c.from = m /\ ViaKind(c) # "direct"}
ProducerError(p, m) == Cardinality(OutgoingOf(p, m)) > 1 \/ \E c \in OutgoingOf(p, m) : ViaKind(c) # "queue"
ProducerChannel(p, m) == IF OutgoingOf(p, m) = {} THEN None ELSE CHOOSE c \in OutgoingOf(p, m) : TRUE
\* durableProducer.
Durable(p, m) == /\ p.modules[m].databases = 1 /\ OutgoingOf(p, m) # {}
                 /\ ProducerChannel(p, m).provider = "rabbitmq"

\* Mutant: only two producers ask for a dispatcher.
DispatcherNeededMutant(p, g, plain) == Cardinality(plain) >= 2

DispatcherNeeded(p, g, plain) ==
    (\E m \in g : p.modules[m].policies # {} \/ p.modules[m].listens) \/ Cardinality(plain) >= 2

\* generateCmdMainFile: what the main of a group constructs, or an error.
PlanError == [error |-> TRUE]
CmdPlan(p, g) ==
    LET producers == {m \in g : p.modules[m].useCases /\ p.modules[m].public # {} /\ OutgoingOf(p, m) # {}}
        durable == {m \in producers : Durable(p, m)}
        plain == producers \ durable
    IN  IF \/ \E m \in g : p.modules[m].useCases /\ p.modules[m].public # {} /\ ProducerError(p, m)
           \/ Cardinality(durable) > 1
           \/ \E m \in durable : p.modules[m].policies # {} \/ p.modules[m].listens
        THEN PlanError
        ELSE [error |-> FALSE, durable |-> durable, plain |-> plain,
              dispatcher |-> DispatcherNeeded(p, g, plain)]

\* resolvePolicyWireInfos: the transport a Policy is subscribed to.
TargetOf(p, x) ==
    LET c == ChannelBetween(p, OriginOf(p, x.policy.on), x.module)
    IN  IF c = None \/ ViaKind(c) = "direct" THEN "dispatcher"
        ELSE IF ViaKind(c) = "queue" THEN "channel" ELSE "error"

\* moduleOutboxDatabaseName and emitDurableOutboxConstruction: a local AtLeastOnce Policy
\* of a module with a real database hangs on the durable outbox instead of the dispatcher.
OnDurableOutbox(p, x) ==
    TargetOf(p, x) = "dispatcher" /\ x.policy.delivery = "AtLeastOnce" /\ p.modules[x.module].databases > 0

HasDurableOutbox(p, m) == \E x \in PoliciesOf(p) : x.module = m /\ OnDurableOutbox(p, x)

Generates(p) ==
    /\ checkServiceChannels(p)
    /\ \A m \in Modules(p) : CmdPlan(p, GroupOf(p, m)) # PlanError
    /\ \A x \in PoliciesOf(p) : TargetOf(p, x) # "error"

-----------------------------------------------------------------------------
(* Where a committed event goes.                                           *)

\* Mutant: the events of every producer go to every channel of the main.
PublisherMutant(p, m, ev) ==
    LET plan == CmdPlan(p, GroupOf(p, m))
    IN  [local |-> plan.dispatcher, channels |-> {ProducerChannel(p, n) : n \in plan.plain \cup plan.durable}]

\* The publisher of a module's unit of work: whether its events reach the dispatcher of the
\* main, and the channels they are put on.  The durable producer has an outbox for its
\* public events only; the other modules share one unit of work, whose publisher is the
\* dispatcher (every channel subscribed to its module's public events) or, without a
\* dispatcher, the only channel.
Publisher(p, m, ev) ==
    LET plan == CmdPlan(p, GroupOf(p, m))
    IN  IF m \in plan.durable
        THEN [local |-> FALSE, channels |-> IF ev \in p.modules[m].public THEN {ProducerChannel(p, m)} ELSE {}]
        ELSE IF plan.dispatcher
        THEN [local |-> TRUE, channels |-> {ProducerChannel(p, n) :
                                              n \in {k \in plan.plain : ev \in p.modules[k].public}}]
        ELSE [local |-> FALSE, channels |-> IF Cardinality(plan.plain) = 1
                                            THEN {ProducerChannel(p, n) : n \in plan.plain} ELSE {}]

\* Policies of a channel whose consumers share its one RabbitMQ queue: each Policy builds a
\* transport of its own, with the same exchange and queue names and only its own event type.
ConsumersOf(p, c) == {x \in PoliciesOf(p) : TargetOf(p, x) = "channel"
                                            /\ OriginOf(p, x.policy.on) = c.from /\ x.module = c.to}

\* The steps of a main, in order: the channels of its producers, the database of the durable
\* producer, then module by module the durable outbox, Wire (which builds the channels of
\* the module's Policies), the 2PC databases and the Workers; the relay of the durable
\* producer and the servers, gRPC's and then HTTP's, come last.
Repeated(k, m, n) == [i \in 1..n |-> [kind |-> k, module |-> m]]
StepOf(k, m) == <<[kind |-> k, module |-> m]>>
If(c, steps) == IF c THEN steps ELSE <<>>
\* A producer with a broker opens its channel before anything else (emitRabbitMQChannelVar) ...
ChannelStep(p, plan, m) ==
    If(m \in plan.durable \cup plan.plain /\ ProducerChannel(p, m).provider = "rabbitmq", StepOf("channel", m))
\* ... the durable producer its database (emitSingleDatabaseWiring), ...
DatabaseStep(p, plan, m) == If(m \in plan.durable, StepOf("database", m))
\* ... a module its outbox database (emitOutboxDatabaseWiring), ...
OutboxStep(p, m) == If(HasDurableOutbox(p, m), StepOf("outbox", m))
\* ... and the databases of its two-phase UseCases, one after the other (emitXADatabaseWiring).
XASteps(p, m) == If(p.modules[m].useCases /\ p.modules[m].databases > 1, Repeated("xa", m, p.modules[m].databases))
\* Wire opens a channel for each Policy of the module behind a broker, and subscribes.
BrokeredPolicies(p, m) ==
    {q \in p.modules[m].policies :
        LET x == [module |-> m, policy |-> q]
        IN  TargetOf(p, x) = "channel" /\ ChannelBetween(p, OriginOf(p, q.on), m).provider = "rabbitmq"}
WireSteps(p, m) == Repeated("consume", m, Cardinality(BrokeredPolicies(p, m))) \o StepOf("wire", m)
\* What each module of a group contributes, in the order of the modules.
InOrder(g, steps) ==
    FlattenSeq([i \in DOMAIN ModuleOrder |-> IF ModuleOrder[i] \in g THEN steps[ModuleOrder[i]] ELSE <<>>])
MainSteps(p, g) ==
    LET plan == CmdPlan(p, g)
        Wired(m) == OutboxStep(p, m) \o WireSteps(p, m) \o XASteps(p, m)
                    \o If(p.modules[m].workers, StepOf("workers", m))
        servers == If(\E m \in g : p.modules[m].grpc, StepOf("listen", None)) \o StepOf("serve", None)
    IN  InOrder(g, [m \in g |-> ChannelStep(p, plan, m)]) \o InOrder(g, [m \in g |-> DatabaseStep(p, plan, m)])
        \o InOrder(g, [m \in g |-> Wired(m)]) \o servers
\* What main's own body opens, and what a step leaves open at all.
Opens == {"channel", "database", "outbox", "xa"}
LeavesOpen == Opens \cup {"consume"}

\* Mutant: the database of a durable producer is not counted.
RunModeMutant(p, g) ==
    Cardinality({x \in ToSet(MainSteps(p, g)) : x.kind \in Opens \ {"database"}}) >= 2

\* With two resources or more in its own body, the main is a run() whose deferred calls close
\* them. The 2PC databases of a module count as one.
RunMode(p, g) == Cardinality({x \in ToSet(MainSteps(p, g)) : x.kind \in Opens}) >= 2

VARIABLES
    program,
    main,       \* [service -> [at, end, open]]: steps done, how it ended, the steps whose resource is open
    commits,    \* events committed so far, as [module, ev, serving]
    queued,     \* [commit number, channel] on a broker's queue
    heard       \* [commit number, policy]: a Policy's handler ran for an event

wiringVars == <<program, main, commits, queued, heard>>

Services(p) == {p.modules[m].service : m \in Modules(p)}
GroupNamed(p, s) == {m \in Modules(p) : p.modules[m].service = s}
MainOf(m) == main[program.modules[m].service]
StepsOf(s) == MainSteps(program, GroupNamed(program, s))
Done(s, k, m) == LET steps == StepsOf(s) IN \E i \in 1..main[s].at : steps[i] = [kind |-> k, module |-> m]
IsUp(s) == main[s].end = "no"
Serving(s) == IsUp(s) /\ main[s].at = Len(StepsOf(s))

WiringInit ==
    /\ program \in Programs /\ Generates(program)
    /\ main = [s \in Services(program) |-> [at |-> 0, end |-> "no", open |-> {}]]
    /\ commits = <<>> /\ queued = {} /\ heard = {}

Undeferred(s) == {i \in main[s].open : StepsOf(s)[i].kind \notin Opens}

\* Mutant: what a step opens takes the place of what was open.
MainStepForgetsMutant(s) ==
    LET n == main[s].at + 1
        steps == StepsOf(s)
    IN  /\ IsUp(s) /\ n <= Len(steps)
        /\ main' = [main EXCEPT ![s] = [at |-> n, end |-> "no",
                                        open |-> IF steps[n].kind \in LeavesOpen THEN {n} ELSE main[s].open]]
        /\ UNCHANGED <<program, commits, queued, heard>>

\* The next step of a main.
MainStep(s) ==
    LET n == main[s].at + 1
        steps == StepsOf(s)
    IN  /\ IsUp(s) /\ n <= Len(steps)
        /\ main' = [main EXCEPT ![s] = [at |-> n, end |-> "no",
                                        open |-> main[s].open \cup IF steps[n].kind \in LeavesOpen THEN {n} ELSE {}]]
        /\ UNCHANGED <<program, commits, queued, heard>>

\* A step of main's own body fails: a resource cannot be opened, the store of a 2PC database
\* that is already open cannot be prepared, a server cannot listen. The main ends, and with
\* run() the deferred calls close what its body opened.
MainFails(s) ==
    LET n == main[s].at + 1
        steps == StepsOf(s)
    IN  /\ IsUp(s) /\ n <= Len(steps) /\ steps[n].kind \in Opens \cup {"listen", "serve"}
        /\ \E late \in {{}} \cup IF steps[n].kind = "xa" THEN {{n}} ELSE {} :
              main' = [main EXCEPT ![s] = [at |-> main[s].at, end |-> "body",
                                           open |-> IF RunMode(program, GroupNamed(program, s)) THEN Undeferred(s)
                                                    ELSE main[s].open \cup late]]
        /\ UNCHANGED <<program, commits, queued, heard>>

\* A log.Fatal outside the body, which runs no deferred call: in Wire when a Policy's channel
\* cannot be opened, and in the goroutine of the gRPC server when it stops.
MainDies(s) ==
    LET n == main[s].at + 1
        steps == StepsOf(s)
    IN  /\ IsUp(s)
        /\ \/ n <= Len(steps) /\ steps[n].kind = "consume"
           \/ Done(s, "listen", None)
        /\ main' = [main EXCEPT ![s] = [at |-> main[s].at, end |-> "fatal", open |-> main[s].open]]
        /\ UNCHANGED <<program, commits, queued, heard>>

\* Mutant: a Policy on a queue channel is also subscribed to the dispatcher.
LocalHearersMutant(p, m, ev) ==
    {x \in PoliciesOf(p) : /\ x.module \in GroupOf(p, m) /\ x.policy.on \in p.modules[OriginOf(p, ev)].events
                           /\ ~OnDurableOutbox(p, x)}

\* The Policies that the dispatcher of the main runs, once their modules are wired.
LocalHearers(p, m, ev) ==
    {x \in PoliciesOf(p) : /\ x.module \in GroupOf(p, m) /\ x.policy.on = ev
                           /\ TargetOf(p, x) = "dispatcher" /\ ~OnDurableOutbox(p, x)}

\* A UseCase commits an event of its module, called by a request once the main serves or by
\* a Worker as soon as the module's Workers run: the dispatcher runs the subscribers it has,
\* and the event travels on the channels with a broker. The in-memory channel of a producer
\* has no subscriber: its consumer's Wire builds another.
CommitEvent(m, ev) ==
    LET s == program.modules[m].service
        n == Len(commits) + 1
        out == Publisher(program, m, ev)
    IN  /\ n <= MaxCommits /\ program.modules[m].useCases /\ ev \in program.modules[m].events
        /\ IsUp(s) /\ (Serving(s) \/ Done(s, "workers", m))
        /\ commits' = Append(commits, [module |-> m, ev |-> ev, serving |-> Serving(s)])
        /\ queued' = queued \cup {[number |-> n, channel |-> c] :
                                     c \in {k \in out.channels : k.provider = "rabbitmq"}}
        /\ heard' = heard \cup {[number |-> n, by |-> x] :
                                   x \in {y \in LocalHearers(program, m, ev) :
                                            out.local /\ Done(s, "wire", y.module)}}
        /\ UNCHANGED <<program, main>>

\* One of the consumers of the queue takes the message, and a consumer only decodes the
\* type of its own Policy: another type goes to the retry queue and comes back, or leaves
\* for the dead letter queue after the last attempt.
ConsumeEvent(q) ==
    /\ \E x \in ConsumersOf(program, q.channel) :
          /\ MainOf(x.module).end = "no" /\ Done(program.modules[x.module].service, "wire", x.module)
          /\ \/ /\ x.policy.on = commits[q.number].ev
                /\ heard' = heard \cup {[number |-> q.number, by |-> x]}
             \/ /\ x.policy.on # commits[q.number].ev
                /\ UNCHANGED heard
    /\ queued' = queued \ {q} /\ UNCHANGED <<program, main, commits>>

WiringNext ==
    \/ \E s \in DOMAIN main : MainStep(s) \/ MainFails(s) \/ MainDies(s)
    \/ \E m \in Modules(program) : \E ev \in program.modules[m].events : CommitEvent(m, ev)
    \/ \E q \in queued : ConsumeEvent(q)
WiringSpec == WiringInit /\ [][WiringNext]_wiringVars

-----------------------------------------------------------------------------
\* Types, and a main that runs holds what its steps have opened.
WiringTypeOK ==
    /\ Len(commits) <= MaxCommits
    /\ \A s \in DOMAIN main :
          LET steps == StepsOf(s)
          IN  /\ main[s].at \in 0..Len(steps) /\ main[s].end \in {"no", "body", "fatal"}
              /\ main[s].open \subseteq 1..main[s].at + 1
              /\ IsUp(s) => main[s].open = {i \in 1..main[s].at : steps[i].kind \in LeavesOpen}
    /\ \A q \in queued : q.number \in DOMAIN commits /\ q.channel \in program.channels
    /\ \A h \in heard : h.number \in DOMAIN commits /\ h.by \in PoliciesOf(program)

\* Nobody hears what is not meant for it: an event of another type, or one that no channel
\* and no common process brings.
HearersAreSubscribed ==
    \A h \in heard :
        LET c == commits[h.number]
        IN  /\ h.by.policy.on = c.ev
            /\ IF TargetOf(program, h.by) = "dispatcher" THEN h.by.module \in GroupOf(program, c.module)
               ELSE ChannelBetween(program, c.module, h.by.module) # None

\* Within one process the wiring keeps the Policy's promise whatever else the main has to
\* connect: a Policy on an event of its own service, with no channel between the modules,
\* hears every event committed while the main serves, unless the producer is durable or
\* the Policy hangs on the durable outbox.
LocalPoliciesHear ==
    \A n \in DOMAIN commits : \A x \in PoliciesOf(program) :
        (/\ commits[n].serving /\ x.policy.on = commits[n].ev /\ x.module \in GroupOf(program, commits[n].module)
         /\ TargetOf(program, x) = "dispatcher" /\ ~OnDurableOutbox(program, x) /\ ~Durable(program, commits[n].module))
            => [number |-> n, by |-> x] \in heard

\* A broker's queue only holds its own module's public events, when the producing main has
\* a dispatcher or the producer is durable.
QueuesHoldTheirPublicEvents ==
    \A q \in queued :
        LET m == commits[q.number].module
            plan == CmdPlan(program, GroupOf(program, m))
        IN  (m \in plan.durable \/ plan.dispatcher) =>
                /\ q.channel.from = m /\ commits[q.number].ev \in program.modules[m].public

\* A main whose body fails at a resource has closed every other one that its body opened,
\* and one that fails at a server leaves at most one open; the 2PC databases of a module are
\* one resource here, and nothing is said of a log.Fatal in Wire or in the gRPC goroutine
\* (MainDies), nor of the channels of Wire, which no deferred call closes.
FailedBodyClosesTheRest ==
    \A s \in DOMAIN main :
        LET steps == StepsOf(s)
        IN  main[s].end = "body" =>
                \A i, j \in main[s].open \cup {main[s].at + 1} :
                    steps[i].kind \in Opens /\ steps[j].kind \in Opens => steps[i] = steps[j]

\* Whatever a main has to connect, an event gets where it should and nowhere else, and a
\* main whose body fails leaves open no resource but the one it failed at, or a single one.
ServicesAreWired ==
  /\ WiringTypeOK
  /\ HearersAreSubscribed /\ LocalPoliciesHear /\ QueuesHoldTheirPublicEvents
  /\ FailedBodyClosesTheRest

\* sema/rules_crossfile.go:88 asks for no channel between modules of one service, or
\* without a service: "in-process, sem canal exigido". So such a Policy hears the event.
InProcessPoliciesHear ==
    \A n \in DOMAIN commits : \A x \in PoliciesOf(program) :
        LET here == program.modules[x.module].service
            there == program.modules[commits[n].module].service
        IN  (/\ commits[n].serving /\ x.policy.on = commits[n].ev /\ TargetOf(program, x) = "dispatcher"
             /\ here = Unset \/ there = Unset \/ here = there)
                => [number |-> n, by |-> x] \in heard
=============================================================================
