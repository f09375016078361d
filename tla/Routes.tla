------------------------------- MODULE Routes -------------------------------
(***************************************************************************)
(* The edge of a service: what codegen/http.go, versioning.go and grpc.go  *)
(* generate from its Interfaces, and the requests that go through it to    *)
(* the UseCases and Queries, over an event store whose streams are tagged  *)
(* with the tenant that created them (rtsrc/eventstore.go.txt).            *)
(***************************************************************************)
EXTENDS Naturals, Sequences, FiniteSets, SequencesExt, FiniteSetsExt

CONSTANTS
    NumRequests,    \* requests, numbered in the order they arrive in
    Interfaces,     \* HTTP Interfaces tried: [tenant, versioning, versions, routes]
    UseCases,       \* name -> [command, idempotent, required, crossTenant]
    RouteQueries,   \* name -> [params, view]
    Commands,       \* name -> [fields], each field name -> [ref, type]
    RPCs,           \* what an Interface GRPC exposes: names of UseCases and Queries
    Inputs,         \* what a client may send: [version, tenant, key, body, id], the body
                    \* "malformed", "empty" or a payload, the id what it says of the stream
    RouteQuota,     \* requests a limited route admits in the modelled window
    MaxDay          \* bound of the calendar

VARIABLES
    http,           \* the Interface the edge was generated from
    day,            \* today
    req,            \* the requests
    streams,        \* id -> [tag, events], an event being the request that appended it
    spent,          \* admissions counted by the limiter
    keyed           \* Idempotency-Key -> [print, end]: the Command it came with, and Running
                    \* or the status the run of it ended with

ASSUME RouteBoundsAssumption == NumRequests \in Nat /\ RouteQuota \in Nat /\ MaxDay \in Nat
\* A header, a tenant, a key or a name that is not there.
Blank == ""
\* A Version has a name, and a route a path.
ASSUME NamesAssumption == \A i \in Interfaces : Blank \notin DOMAIN i.versions /\ \A r \in i.routes : r.path # Blank

Requests == 1..NumRequests
routesVars == <<http, day, req, streams, spent, keyed>>

-----------------------------------------------------------------------------
(* Generation: what an Interface is read as, and which are refused.        *)

\* parseInterfaceTenantPlan: the settings that are supported, and no others.
TenantPlanOK(setting) == setting \in {"absent", "subdomain", "header"}
\* parseInterfaceVersioningPlan, versioningStrategyHeader and versionLiteralValue.
VersioningPlanOK(v) ==
    v.strategy = "absent" \/ (v.strategy = "header" /\ v.current # Blank /\ v.unknownKeys = {})
Versioned == http.versioning.strategy # "absent"

\* resolveRouteTarget: a UseCase of the group first, then a Query.
TargetKind(name) == IF name \in DOMAIN UseCases THEN "usecase"
                    ELSE IF name \in DOMAIN RouteQueries THEN "query" ELSE "none"

\* correlatePathParamsToCommandFields: the field each parameter of the path fills. A
\* field of its name, or, for "id", the only ref field; never one already claimed.
Correlated(params, c) ==
    LET fields == Commands[c].fields
        refs == {f \in DOMAIN fields : fields[f].ref}
        Field(p) == IF p \in DOMAIN fields THEN p
                    ELSE IF p = "id" /\ Cardinality(refs) = 1 THEN CHOOSE f \in refs : TRUE ELSE Blank
    IN  [i \in DOMAIN params |-> Field(params[i])]
CorrelationOK(params, c) ==
    LET fs == Correlated(params, c) IN Blank \notin ToSet(fs) /\ IsInjective(fs)
\* emitHTTPParseParam: what one segment of a path can be parsed into.
ParsableTypes == {"string", "integer", "boolean", "stringVO", "integerVO", "stringEnum", "integerEnum"}

\* indexUpcastsByCommand, indexDowncastsByView, indexRouteOverridesByPath and the
\* lookups of httpVersioningEnv: nothing without "versioning" in the Interface.
UpcastVersions(c) == {v \in DOMAIN http.versions : Versioned /\ c \in http.versions[v].upcasts}
DowncastVersions(w) == {v \in DOMAIN http.versions : Versioned /\ w \in http.versions[v].downcasts}
OverriddenPaths(v) == IF Versioned THEN DOMAIN http.versions[v].routes ELSE {}

UseCaseRouteOK(u, params) ==
    LET c == UseCases[u].command IN
    /\ c \in DOMAIN Commands /\ CorrelationOK(params, c)
    /\ \A f \in ToSet(Correlated(params, c)) : Commands[c].fields[f].type \in ParsableTypes
\* emitUseCaseRoute, emitQueryRoute and routeOverridesFor refuse the rest.
RouteOK(i, r) ==
    LET versions == IF i.versioning.strategy = "absent" THEN {} ELSE DOMAIN i.versions
        targets == {i.versions[v].routes[r.path] : v \in {w \in versions : r.path \in DOMAIN i.versions[w].routes}}
    IN  /\ \A t \in targets : t \in DOMAIN UseCases /\ UseCaseRouteOK(t, r.params)
        /\ TargetKind(r.target) = "usecase" => UseCaseRouteOK(r.target, r.params)
        /\ TargetKind(r.target) = "query" =>
             /\ targets = {}
             /\ \A p \in DOMAIN RouteQueries[r.target].params :
                  p \in ToSet(r.params) /\ RouteQueries[r.target].params[p] \in ParsableTypes
        /\ TargetKind(r.target) # "none"
\* emitHTTPRoutes, newHTTPVersioningEnv and buildVersionLifecycles: dates are checked here.
RoutesGenerate(i) ==
    /\ TenantPlanOK(i.tenant) /\ VersioningPlanOK(i.versioning)
    /\ i.versioning.strategy # "absent" => \A v \in DOMAIN i.versions : i.versions[v].datesParse
    /\ \A r \in i.routes : RouteOK(i, r)

-----------------------------------------------------------------------------
Running == 0
\* IdempotencyFingerprint: a Command is told by its fields and by what the client put into
\* them, whichever version and UseCase it came by.
Fingerprint(q) == [fields |-> DOMAIN Commands[UseCases[q.target].command].fields, id |-> q.input.id, body |-> q.input.body]
\* Peek: the end of the run its key holds, if that ran the same Command.
KnownEnd(q) ==
    IF /\ TargetKind(q.target) = "usecase" /\ UseCases[q.target].idempotent
       /\ q.input.key # Blank /\ q.input.key \in DOMAIN keyed /\ keyed[q.input.key].print = Fingerprint(q)
    THEN keyed[q.input.key].end ELSE Running
\* What an RPC has for a route.
NoRoute == [path |-> Blank, params |-> <<>>, limited |-> FALSE, tenancyNone |-> TRUE]
NoRequest == [at |-> "new", input |-> <<>>, route |-> NoRoute, target |-> Blank, version |-> Blank, tenant |-> Blank,
              cmd |-> <<>>, loaded |-> {}, answer |-> Blank, status |-> 0, arrived |-> 0, replay |-> Running, notice |-> FALSE]
RoutesInit ==
    /\ http \in {i \in Interfaces : RoutesGenerate(i)}
    /\ day = 0 /\ spent = 0 /\ keyed = <<>> /\ streams = <<>>
    /\ req = [r \in Requests |-> NoRequest]

Limited(r) == req[r].route.limited
Idempotent(r) == UseCases[req[r].target].idempotent
Goes(r, to) == req' = [req EXCEPT ![r].at = to]
Responds(r, code) == req' = [req EXCEPT ![r].at = "answered", ![r].status = code]

IsNext(r) == req[r].at = "new" /\ \A o \in 1..r-1 : req[o].at # "new"

NextDay ==
    /\ day < MaxDay /\ day' = day + 1
    /\ UNCHANGED <<http, req, streams, spent, keyed>>

\* The window of a key ends: Begin, Peek and Cleanup take the end it holds for absent.
Lapse(k) ==
    /\ k \in DOMAIN keyed /\ keyed[k].end # Running
    /\ keyed' = [o \in DOMAIN keyed \ {k} |-> keyed[o]]
    /\ req' = [r \in Requests |-> IF req[r].replay # Running /\ req[r].input.key = k
                                  THEN [req[r] EXCEPT !.replay = Running] ELSE req[r]]
    /\ UNCHANGED <<http, day, streams, spent>>

\* A request that came in while the end of a run of its Command was known.
Recognized(q) == [q EXCEPT !.replay = KnownEnd(q)]

\* emitGRPCServiceRegistration: a method per rpc, without versions, tenants or limits.
\* The whole message is decoded into the Command, or into the request of the Query.
ArriveRPC(r, name, input) ==
    /\ IsNext(r) /\ name \in RPCs /\ input.body # "malformed"
    /\ req' = [req EXCEPT ![r] = Recognized(
                 [@ EXCEPT !.at = "dispatch", !.target = name, !.input = input, !.arrived = day,
                           !.cmd = [shape |-> Blank, id |-> input.id]])]
    /\ UNCHANGED <<http, day, streams, spent, keyed>>

(* The gates of a handler look at nothing but the request and the clock:   *)
(* each is what it makes of a request q that is at it.                     *)
Refused(q, code) == [q EXCEPT !.at = "answered", !.status = code]
\* resolveAPIVersion: the header, or the current version.
ResolvedVersion(input) == IF input.version = Blank THEN http.versioning.current ELSE input.version
Reached(v, field) == v \in DOMAIN http.versions /\ http.versions[v][field] <= day

\* Mutant: the version still works on the day of its sunset.
GatedADayLateMutant(q) ==
    LET v == ResolvedVersion(q.input) IN
    IF ~Versioned THEN q
    ELSE IF v \in DOMAIN http.versions /\ http.versions[v].sunset < day THEN Refused(q, 410)
    ELSE [q EXCEPT !.version = v, !.notice = Reached(v, "deprecated")]

\* apiVersionGate: a version that reached its sunset gets no further, one that is
\* deprecated is told so, and one nobody declared passes. No "versioning", no gate.
Gated(q) ==
    LET v == ResolvedVersion(q.input) IN
    IF ~Versioned THEN q
    ELSE IF Reached(v, "sunset") THEN Refused(q, 410)
    ELSE [q EXCEPT !.version = v, !.notice = Reached(v, "deprecated")]

\* The command a body is decoded into: an empty one leaves the zero value, and the
\* parameters of the path are written over what it holds.
BodyDecoded(shape, input) == [shape |-> IF input.body = "empty" THEN "zero" ELSE shape, id |-> input.id]

\* emitVersionRouteOverrides: the UseCase of the version, with a decode of its own and
\* past the tenant, the limiter and the upcast of the route.
Overridden(q) ==
    IF q.at # "caller" \/ q.version \notin DOMAIN http.versions THEN q
    ELSE IF q.route.path \notin OverriddenPaths(q.version) THEN q
    ELSE IF q.input.body = "malformed" \/ q.input.id = "malformed" THEN Refused(q, 400)
    ELSE [q EXCEPT !.at = "dispatch", !.target = http.versions[q.version].routes[q.route.path],
                   !.cmd = BodyDecoded("current", q.input)]

\* emitCallerAndIdempotency and emitTenantGate: 400 before anything is decoded, unless
\* the route says "tenancy: none" (routeOptsTenancyNone).
Tenanted(q) ==
    IF q.at # "caller" THEN q
    ELSE IF http.tenant = "absent" \/ q.route.tenancyNone THEN [q EXCEPT !.at = "limit"]
    ELSE IF q.input.tenant = Blank THEN Refused(q, 400)
    ELSE [q EXCEPT !.at = "limit", !.tenant = q.input.tenant]

\* The mux matched a pattern of the Interface HTTP.
ArriveHTTP(r, route, input) ==
    /\ IsNext(r) /\ route \in http.routes
    /\ req' = [req EXCEPT ![r] = Recognized(Tenanted(Overridden(Gated(
                 [@ EXCEPT !.at = "caller", !.route = route, !.input = input, !.target = route.target,
                           !.arrived = day]))))]
    /\ UNCHANGED <<http, day, streams, spent, keyed>>

\* Mutant: the request is charged and goes on, whatever is left.
ChargeAnywayMutant(r, next) == Goes(r, next) /\ spent' = IF Limited(r) THEN spent + 1 ELSE spent

\* emitRateLimitGate: charges the request, or answers 429.
Charge(r, next) ==
    IF Limited(r) /\ spent >= RouteQuota THEN Responds(r, 429) /\ UNCHANGED spent
    ELSE Goes(r, next) /\ spent' = IF Limited(r) THEN spent + 1 ELSE spent

\* Mutant: every request is charged before its body is read, a replay as well.
LimitAlwaysFirstMutant(r) ==
    /\ req[r].at = "limit" /\ Charge(r, "decode")
    /\ UNCHANGED <<http, day, streams, keyed>>

\* A Query, and a UseCase without "idempotency", before the decode.
LimitFirst(r) ==
    /\ req[r].at = "limit"
    /\ IF TargetKind(req[r].target) = "usecase" /\ Idempotent(r)
       THEN Goes(r, "decode") /\ UNCHANGED spent ELSE Charge(r, "decode")
    /\ UNCHANGED <<http, day, streams, keyed>>

\* Mutant: the first version that has an upcast serves all of them.
ShapeForAnyVersionMutant(r) ==
    LET vs == UpcastVersions(UseCases[req[r].target].command) IN
    IF vs = {} THEN "current" ELSE CHOOSE v \in vs : TRUE

\* The switch on the version: the legacy shape of a version with an upcast of the
\* Command, and the current one for every other (emitPlainCommandDecode).
ShapeFor(r) ==
    IF req[r].version \in UpcastVersions(UseCases[req[r].target].command) THEN req[r].version ELSE "current"

\* The body, then the parameters of the path; either can be refused. A Query takes its
\* parameters only.
DecodeBody(r) ==
    /\ req[r].at = "decode"
    /\ LET input == req[r].input
           usecase == TargetKind(req[r].target) = "usecase" IN
       IF (usecase /\ input.body = "malformed") \/ (req[r].route.params # <<>> /\ input.id = "malformed")
       THEN Responds(r, 400)
       ELSE req' = [req EXCEPT
                ![r].at = IF usecase /\ Idempotent(r) THEN "peek" ELSE "dispatch",
                ![r].cmd = IF usecase THEN BodyDecoded(ShapeFor(r), input) ELSE [shape |-> Blank, id |-> input.id]]
    /\ UNCHANGED <<http, day, streams, spent, keyed>>

\* A UseCase with "idempotency": only a Command whose end IsReplay does not know is charged.
LimitUnlessReplay(r) ==
    /\ req[r].at = "peek"
    /\ LET end == KnownEnd(req[r]) IN
       IF end = Running THEN Charge(r, "dispatch")
       ELSE req' = [req EXCEPT ![r].at = "dispatch", ![r].replay = end] /\ UNCHANGED spent
    /\ UNCHANGED <<http, day, streams, keyed>>

-----------------------------------------------------------------------------
(* The dispatch.  The wrapper of an idempotent UseCase is abstracted to    *)
(* "concurrentRetry: reject"; module Idempotency has all of it.            *)

Claims(r) == TargetKind(req[r].target) = "usecase" /\ Idempotent(r) /\ req[r].input.key # Blank
MissesItsKey(r) == /\ TargetKind(req[r].target) = "usecase" /\ Idempotent(r) /\ req[r].input.key = Blank
                   /\ UseCases[req[r].target].required
\* Begin on a key that is held: another Command is a conflict, a run that has not ended is
\* refused, and one that has answers for the request.
HeldKeyAnswers(e, print) == IF e.print # print THEN 422 ELSE IF e.end = Running THEN 409 ELSE e.end
Dispatch(r) ==
    /\ req[r].at = "dispatch"
    /\ LET key == req[r].input.key
           print == Fingerprint(req[r])
       IN  IF MissesItsKey(r) THEN Responds(r, 422) /\ UNCHANGED keyed
           ELSE IF ~Claims(r) THEN Goes(r, "load") /\ UNCHANGED keyed
           ELSE IF key \in DOMAIN keyed THEN Responds(r, HeldKeyAnswers(keyed[key], print)) /\ UNCHANGED keyed
           ELSE /\ Goes(r, "load")
                /\ keyed' = [k \in DOMAIN keyed \union {key} |-> IF k = key THEN [print |-> print, end |-> Running] ELSE keyed[k]]
    /\ UNCHANGED <<http, day, streams, spent>>

BypassesTenant(r) == TargetKind(req[r].target) = "usecase" /\ UseCases[req[r].target].crossTenant

\* Mutant: a request without a tenant sees everything.
NobodyIsEveryoneMutant(r, tag) == tag = Blank \/ BypassesTenant(r) \/ req[r].tenant \in {Blank, tag}

\* tenantVisible: untagged, of the same tenant, or bypassed.
TenantVisible(r, tag) == tag = Blank \/ BypassesTenant(r) \/ req[r].tenant = tag

\* The wrapper keeps a success and a business error for the key, and forgets the rest;
\* writeBusinessError and grpcedge.StatusError answer with the error's class.
Ends(r, code) ==
    /\ Responds(r, code)
    /\ keyed' = IF ~Claims(r) THEN keyed
                ELSE IF code = 503 THEN [k \in DOMAIN keyed \ {req[r].input.key} |-> keyed[k]]
                ELSE [keyed EXCEPT ![req[r].input.key].end = code]

\* Mutant: every answer of a version that lives is translated by it.
AnswerInEveryVersionMutant(r) == IF req[r].version \in DOMAIN http.versions THEN req[r].version ELSE "current"

\* emitQueryRoute: the switch on the version translates the View a version has a downcast
\* of, and encodes every other as it is; an RPC has no version.
AnswerFor(r) ==
    IF req[r].version \in DowncastVersions(RouteQueries[req[r].target].view) THEN req[r].version ELSE "current"

\* EventStore.Load: a stream of another tenant is not found. A Query then has its answer.
Load(r) ==
    /\ req[r].at = "load"
    /\ LET s == req[r].cmd.id
           query == TargetKind(req[r].target) = "query" IN
       IF s \in DOMAIN streams /\ ~TenantVisible(r, streams[s].tag)
       THEN Ends(r, 404)
       ELSE /\ req' = [req EXCEPT
                   ![r].loaded = IF s \in DOMAIN streams THEN streams[s].events ELSE {},
                   ![r].at = IF query THEN "answered" ELSE "append",
                   ![r].status = IF query THEN 200 ELSE 0,
                   ![r].answer = IF query THEN AnswerFor(r) ELSE Blank]
            /\ UNCHANGED keyed
    /\ UNCHANGED <<http, day, streams, spent>>

\* The tag of a stream is the tenant of its first append, and stays.
TagAfter(r) == IF req[r].cmd.id \in DOMAIN streams THEN streams[req[r].cmd.id].tag ELSE req[r].tenant

\* memoryEventStore.Append does not look at the tag; then the commit ends the run.
CommitAppend(r) ==
    /\ req[r].at = "append"
    /\ LET s == req[r].cmd.id
           old == IF s \in DOMAIN streams THEN streams[s].events ELSE {} IN
       streams' = [x \in DOMAIN streams \union {s} |->
                      IF x = s THEN [tag |-> TagAfter(r), events |-> old \cup {r}] ELSE streams[x]]
    /\ Ends(r, 204)
    /\ UNCHANGED <<http, day, spent>>

\* The body fails, for its business or in the infrastructure: nothing is written.
BodyFails(r, code) ==
    /\ req[r].at = "append" /\ code \in {403, 422, 503} /\ Ends(r, code)
    /\ UNCHANGED <<http, day, streams, spent>>

RouteStep(r) ==
    \/ LimitFirst(r) \/ DecodeBody(r) \/ LimitUnlessReplay(r)
    \/ Dispatch(r) \/ Load(r) \/ CommitAppend(r) \/ \E code \in {403, 422, 503} : BodyFails(r, code)
RoutesNext ==
    \/ NextDay
    \/ \E k \in DOMAIN keyed : Lapse(k)
    \/ \E r \in Requests :
         \/ \E route \in http.routes, input \in Inputs : ArriveHTTP(r, route, input)
         \/ \E name \in RPCs, input \in Inputs : ArriveRPC(r, name, input)
         \/ RouteStep(r)
RoutesSpec == RoutesInit /\ [][RoutesNext]_routesVars

-----------------------------------------------------------------------------
\* An answered request has one of the statuses of the edge, an unanswered one none, and no
\* more requests are charged than the quota admits.
RoutesTypeOK ==
    /\ http \in Interfaces /\ day \in 0..MaxDay /\ spent \in 0..RouteQuota
    /\ \A r \in Requests : /\ req[r].status \in {0, 200, 204, 400, 403, 404, 409, 410, 422, 429, 503}
                           /\ (req[r].at = "answered") = (req[r].status # 0)
    /\ \A s \in DOMAIN streams : streams[s].events \in SUBSET Requests
    /\ \A k \in DOMAIN keyed : keyed[k].end \in {Running, 204, 403, 404, 422}

\* Who appended to a stream had either seen only what its tenant may see, or had loaded
\* before the stream existed: what a request reads of a tagged stream was written by the
\* tenant of the tag, by a UseCase with "tenancy: cross_tenant", or by such a race.
TaggedStreamsAreOwned ==
    \A s \in DOMAIN streams : streams[s].tag # Blank =>
        \A e \in streams[s].events : req[e].tenant = streams[s].tag \/ BypassesTenant(e) \/ req[e].loaded = {}

\* What the lifecycle of the version says of a request on the day it arrived.
OfAVersion(q) == Versioned /\ q.route.path # Blank /\ ResolvedVersion(q.input) \in DOMAIN http.versions
Due(q, field) == OfAVersion(q) /\ http.versions[ResolvedVersion(q.input)][field] <= q.arrived

\* A version lives until its sunset: a request is answered 410 if, and only if, the sunset
\* of its version had come when it arrived, and it is told of the deprecation if, and only
\* if, that had come and the version still lives.
LifecyclesAreKept ==
    \A r \in Requests :
        /\ (req[r].status = 410) <=> Due(req[r], "sunset")
        /\ req[r].notice <=> (Due(req[r], "deprecated") /\ ~Due(req[r], "sunset"))

\* The body is read in the shape of the version the client asked for: the legacy one if,
\* and only if, that version translates the Command and leaves the route its target.
BodyIsReadInItsVersion ==
    \A r \in Requests : LET v == ResolvedVersion(req[r].input) IN
        (req[r].cmd # <<>> /\ req[r].cmd.shape \notin {Blank, "zero"}) =>
            req[r].cmd.shape =
                IF /\ Versioned /\ v \in DOMAIN http.versions
                   /\ req[r].route.path \notin DOMAIN http.versions[v].routes
                   /\ UseCases[req[r].target].command \in http.versions[v].upcasts
                THEN v ELSE "current"

\* The answer of a Query speaks the version its client asked for: translated if, and only
\* if, that version has a downcast of the View.
AnswersSpeakTheirVersion ==
    \A r \in Requests : req[r].answer # Blank =>
        req[r].answer =
            IF /\ OfAVersion(req[r])
               /\ RouteQueries[req[r].target].view \in http.versions[ResolvedVersion(req[r].input)].downcasts
            THEN ResolvedVersion(req[r].input) ELSE "current"

\* A version is served from the first request until its sunset and never after, its bodies
\* read and its Views answered in its own shape.
VersionsAreHonoured == RoutesTypeOK /\ LifecyclesAreKept /\ BodyIsReadInItsVersion /\ AnswersSpeakTheirVersion

\* A retry of a Command whose end is known under its key, when it arrives or when the limiter
\* asks, is not charged, is not run again, and is answered as the run was, for as long as the
\* window of the key lasts. (A window that ends after the limiter asked lets it run uncharged.)
ReplaysAreFree ==
    [][\A r \in Requests :
         (req[r].replay # Running /\ req'[r].replay # Running /\ req'[r].at # req[r].at)
             => /\ spent' = spent /\ req'[r].at # "load"
                /\ req'[r].at = "answered" => req'[r].status \in {400, req[r].replay}]_routesVars
=============================================================================
